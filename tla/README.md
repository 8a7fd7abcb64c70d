# A TLA+ model of vpn-admin-bot

The repository is the control plane of a small VPN service: a FastAPI portal
for operators and customers (`app.py`), a Telegram bot for the same operators
(`bot.py`), and the code both use to keep four stores in step: the MariaDB
tables, the RADIUS rows FreeRADIUS checks, `rw-eap.conf` on the VPN gateway
(reached over ssh), and the copy of that file that charon has loaded.  No
transaction spans them, several processes change them at once, and every ssh
round trip can fail.  That is what the modules here are about.

Paths without a directory are under `src/`.  `PROJECT.json` maps every
definition to the lines it models and lists the runs, the theorems, the hazards
and the findings.

## 1. Inventory

### Processes

| Process | Started by | What runs in it |
|---|---|---|
| gunicorn workers, 4 of them | `deploy/vpn-portal.service` (`Restart=on-failure`, recycled every 1000 requests) | `app.py`; each `def` endpoint on a thread of a pool, so two requests interleave within a worker as well as between workers; each worker also builds the bot's application at its start (`app.py:187-200`) |
| the polling bot | `deploy/bot-polling.service` (`Restart=always`, 5 s) | `bot_polling.py`: one event loop for the updates, `threading.Timer` threads for lifting blocks |
| charon, FreeRADIUS, MariaDB | outside the repository | appear as the state they hold |
| quota-monitor, `bulk_action.py` | outside the repository | the local writer of `rw-eap.conf`; the marks `KILLED-` and `DISABLED-` |

### Components

| Component | State | Operations | Hard about it | What makes it correct | Module |
|---|---|---|---|---|---|
| `safe_write_rw_eap.py` | the live file, temporary files, backups, the flock | `atomic_write_conf_local`, `atomic_write_conf_remote` | writers in several processes, same-second names, ssh faults, killed writers | the live file is one whole document; nothing is lost; a call is one atomic replacement | `SafeWrite`, `AtomicConf` |
| customer life cycle (`app.py`, `portal_auth.py`) | `customers`, `users`, `devices`, `radcheck`, the block in `rw-eap.conf`, charon's copy | create, rotate, archive, unarchive, rename device, delete | four stores, stale copies of the file, faults caught at some steps and not at others, LIKE patterns and bare names: one customer's identity may be another one's name | the stores agree; nobody gets another's secret; deleted means gone; archived means rejected | `Portal` |
| installer tokens (`installer_tokens.py`) | `installer_tokens` rows; `customers.is_active`, `devices.is_active` | create (token, or a "hostile" script without one), consume, expire | consumption is a check, an ssh read and an update; the customer changes meanwhile; `is_active` and `status` are set by different commands | single use, time-bounded, the password belongs to the customer and connects | `InstallerTokens` |
| temporary block (`bot.py:243-461`, `1597-1746`) | `Auth-Type := Reject` rows, iptables DROP rules, timers in memory | `/disconnect`, the timer, the sweep at start-up | timers die with the process, sweeps run in other processes, blocks overlap, addresses are shared | every row is lifted, no block loses its rule to another's timer | `DisconnectBlock` |
| quota reset (`app.py:1819-2094`) | as the life cycle, plus the quota monitor's backups and its `KILLED-`/`DISABLED-` marks | `reset_quota`, `_restore_radcheck_from_rw_eap_backup` | the newest backup is copied over everything done since; most failures are passed over | a reset reconnects the customer who was cut | `QuotaReset` |
| sessions (`portal_auth.py:345-680`, `app.py:170-228`, `1105-1173`, `3096-3171`) | operator and customer sessions, login attempts per worker | login, verify (sliding), logout, revoke, the clean-up loops | the time is taken before the statement runs; four workers verify, purge and log out side by side | no session beyond its window or age, none after its end, none lost while in use | `Sessions` |
| bot commands (`bot.py:1403-1594`, `1789-2350`) | as the life cycle | `/renew`, `/deleteuser`, `/cleanup_orphans`, `/renew_orphan` (`/disable` and `/enable` toggle `customers.is_active`, which only the installer endpoints read to decide by) | second implementations of what the portal does | what they report done is done; nobody else is touched | `BotOps`; `/disable`, `/enable` and `/renew` also in `InstallerTokens` |
| `/create` wizard (`bot.py:1088-1401`) | the conversation and the answers | steps, back, cancel, other commands, confirm | answers of an earlier draft, restarts, abandoned drafts | what Confirm creates was answered in one `/create` | `CreateWizard` |
| conversation persistence (`bot_persistence.py`, `bot.py:42-200`) | rows of `bot_persistence` | saving answers and conversation, deleting a conversation, loading at a start | the two halves are saved in two transactions | everything is saved in the end | `CreateWizard` |
| status pages and parsers | none | read-only | none | - | not modelled |
| password hashing, `tools/` | none | pure functions, one-off scripts | none | - | not modelled |

### Interactions

`app.py` and `bot.py` call `atomic_write_conf_remote` for every change of
`rw-eap.conf`, each after having read the whole file in an earlier round trip;
quota-monitor calls the local variant on the gateway.  The portal's handlers and
the bot's timers write the same `radcheck` rows.  `installer_tokens.py` reads
what the handlers write.  The bot's commands change the same tables and the
same file without going through the portal's handlers, and the quota reset reads
and copies the backups of a program that is not in these sources.  The bot's
start-up code runs in every portal worker.  The `/create` wizard ends in a call
of the portal's `create_client`.

## 2. Plan

Done: `SafeWrite` with `AtomicConf`, `Portal` with `Accounts`,
`InstallerTokens`, `Sessions`, `CreateWizard`, `DisconnectBlock`, `BotOps`,
`QuotaReset` and `Operations`, which composes the last two with `Portal`:
model-checked, and all of their safety properties proved but `NoDeadlock`.

## 3. The modules

**`AtomicConf`** is what a caller of the two write functions may rely on: a
write replaces the document in one step, at most once, and a call that returns
has replaced it.

**`SafeWrite`** is how they do it.  A name is bound to an inode (`live`, `tmp`)
and contents belong to inodes (`data`), so that a process with a file open goes
on writing to it under whatever name it has after a rename.  `TakeStamp`,
`Flock`, `Backup`, `OpenTemp`, `WriteChunk`/`WriteEnd`, `CheckTemp`/`RejectTemp`,
`Rename`/`RenameMissing` and `Verify` follow the code line by line; local
writers lock, remote ones do not.  `SshFault` is a command that raises with or
without its effect, `WriteTruncated` a transport that loses the tail and reports
success, `Crash` a killed process, whose flock the kernel drops.

**`Portal`** has one program counter per request (`at`).  Every step is one
statement, one transaction or one ssh round trip; reads of the tables that
follow one another are one step.  `Read` returns the file, or the empty string
(`read_rw_eap_conf` does not raise when the command fails), or raises on a
timeout; `Write` that raises may have written; `Reload` copies the file's
secrets to `charon`.  A name is the sequence of its parts between hyphens, so
`LIKE 'acme-%'` matches the identities of `acme-corp` as it does in the
database, and as both names may have hyphens (`app.py:748-749`), the identity of
`acme` with a device `corp` is the name of a customer `acme-corp`: a *namesake*.
Deleting that customer takes the radcheck row and the block of the bare name
(`DropBare`, `DeleteLook`, `DeleteCut`), whoever has it, and sweeps the orphans
of the bare name too (`Orphans`).  The steps of a delete come in two rows,
`delete.` for a customer with a device and `alone.` for one without, as in the
code; they meet at the reload.  A secret is named after the request that made it.

**`Accounts`** is what the portal promises its operator, the four stores out of
sight: an account (`account`) has one identity and is active or not, an identity
connects with one secret or not at all (`login`), and one request is served at a
time (`served`).  A request works on its customer's account (`SetActive`,
`Drop`, `Issue`, `Open`), ends what connects under that account's identity, one
that nobody has, or its customer's own name (`Revoke`), hands out a secret never
used before (`HandOut`, `End`, `spent`), and is over only when nobody connects
but the active accounts and all of these do, except namesakes (`Settled`).  So a
request may shut a namesake out, and can do nothing else to an account not its
own.  `ImplementsAccounts`, at the end of `Portal`, says that `Portal` implements
it, one request at a time and without faults: `Account` joins the customers and
devices tables, `Login` is the secret of the radcheck row, since the gateway's
connection authenticates by `eap-radius` alone (`deploy/rw-eap.conf.example`),
and `Spent` the secrets of requests that have ended, or, of an unarchiving, that
FreeRADIUS has (the reload of charon comes after).

**`InstallerTokens`** extends `Portal` by the tokens and by fetches that run
beside its requests.  `Fetch` (the lookups), `ReadSecret` (ssh), `Burn` and
`Answer` are the steps of `consume_installer_token`; the four lookups in a row
are one step, as in `Portal`.  `Bake` is `mode=hostile`.  Expiry is an action
that may come at any time: only "before or after" matters.  Who may fetch is
decided by `customers.is_active` and `devices.is_active` (`enabled`, `inUse`;
`installer_tokens.py:142`, `148`, `404`, `412`) and not by `customers.status`:
`PortalStep` gives the flags their values when a request creates, archives or
unarchives, `Switch` is `/disable` and `/enable`, `SwitchDevice` the device form,
and `Renew` is `/renew`, which sets the status alone.  A fetch that gets nothing
is over and forgets what it knew (`Forget`).

**`DisconnectBlock`** has the Reject rows as a set of identities (the code
deletes by identity, so a second row changes nothing), DROP rules as a count per
address, one program counter per call of `/disconnect`.  The event loop runs one
disconnect or start-up sweep at a time (`LoopFree`); timers are threads and
interleave.  A statement that raises may have had its effect, as the
acknowledgement travels over ssh: an INSERT whose answer is lost, a timer whose
thread does not start and a DELETE that fails leave a row that no timer lifts
(`stuck`), until the next sweep.  `Rewrite` is any of the portal's statements
that replace all radcheck rows of an identity.

**`Sessions`** has one clock for all workers, in seconds.  Every operation takes
the time first (`Begin`, `Wake`) and runs its statement later, by at most
`MaxDelay`: `Tick` waits for it.  `Yes` and `No` are the two outcomes of
`verify_session` and `verify_operator_session` (the UPDATE that slides the
window or, when no row matched, the DELETE of the stale row); `Matches` and
`Stale` are their WHERE clauses.  A customer's logout verifies first, an
operator's does not.  `PurgePortal` and `PurgeOperator` are the two statements
of a worker's clean-up loop, and `Raise` what makes it skip the second.
`born`, `active` and `gone` are history.

**`BotOps`** extends `Portal` by the bot's commands, in the same style: a
program counter per request, one step per transaction or ssh round trip.
`/deleteuser` fixes what is to go (`sweep`, `names`) before it deletes anything;
`/cleanup_orphans` removes block after block (`CleanupRead`, `CleanupWrite`);
`/renew_orphan` makes a customer of the two halves of an orphan's name and
replaces its block; `/renew` sets the status.

**`QuotaReset`** extends `Portal` by `Cut`, what the handler's comments say the
quota monitor does, and by the steps of `reset_quota`: find the identity, look
whether its radcheck row is marked, walk the backups from the newest to the
oldest, restore the password, and, when the block is marked, copy the
newest backup over the file and reload.  A command that fails is passed over, as a
line of the report (`app.py:1896` gives an `HTTPException`); one that times out
raises `subprocess.TimeoutExpired`, which nobody catches, and ends the request
with an error (`Failed`).

**`Operations`** puts all of these side by side: any worker's portal request,
any command of the bot, resets and cuts.

**`CreateWizard`** has the conversation of the operator who is creating a
customer.  An answer is represented by the number of the `/create` it was given
in, which is all that `OneDraft` needs; the steps with buttons are a constant
sequence.  `Save` is the library's minute job: two transactions, either of which
may fail; `Kill` may come between them.  `busy` is `create_client`, during which
the process handles nothing else.  `Confirm` reads every answer but the duration
(`ReadAtConfirm`; `bot.py:1299-1304`): a missing one raises, a missing duration
is ten days (`bot.py:1251`).

## 4. The runs

| Run | Properties | Bounds | States |
|---|---|---|---|
| `safewrite_mixed` | `TypeOK`, `LiveComplete` | two remote and a local writer, documents of 1 and 2 chunks, two seconds, a fault, a crash | 289 k |
| `safewrite_local` | `Recoverable`, `Terminates`, `ImplementsAtomicConf` | a remote and two local writers, the same | 58 k |
| `portal_sequential` | `TypeOK`, `InSync`, `NoDrift`, `ArchivedRejected`, `ImplementsAccounts` | two customers, of which one's identity may be the other's name (`acme` with the device `corp`, and `acme-corp`), three requests one after the other, no faults | 18 k |
| `portal_concurrent` | `NoPhantomDevice`, `OwnSecrets`, `CreatedWhole`, `NoDeadlock` | one customer, two device names, three requests, two at once, renames, a fault, a crash | 148 k |
| `tokens` | `TokensTypeOK`, `SpentServesNobody`, `ServedConnects` | one customer, two device names, a token, two fetches at once beside two requests in turn and any number of `/disable`, `/enable`, `/renew` and device switches, renames, a fault or a crash (`OneFailure`) | 567 k |
| `disconnect_block` | `TypeOK`, `RowHasTimer`, `DropHolds`, `Lifted` | three blocks, two users, one address or none, a crash, a worker start, a fault | 417 k |
| `operations_sequential` | `DeletedGone`, `SectionsKept`, `RetiredGone`, `RenewedConnects`, `CutUndone` | one customer, two device names of which one contains a hyphen, three requests or commands in turn, two cuts, a fault | 89 k |
| `operations_concurrent` | `AllTypeOK`, `NoPhantomDevice`, `OwnSecrets` | one customer, two device names, three requests or commands, two at once, a cut, a crash | 395 k |
| `sessions` | `TypeOK`, `IdleOut`, `KeptWhileUsed`, `GoneStaysGone`, `Purged`, `PortalSessionEnds` | a session of each kind of which one is made, two requests and a clean-up loop, windows of 2 and 3 seconds, maximum age 3, a delay of 1, a clock to 7, a fault | 193 k |
| `wizard` | `TypeOK`, `OneDraft`, `SavedInTheEnd` | two `/create` with all seven steps, a kill, a save that fails | 194 k |
| `operations_deleteuser` | `OthersKept`, violated | two customers, one `/deleteuser` | 25, to the violation |
| `operations_renew` | `RenewEnables`, violated | one customer, an archive, then `/renew` | 32, to the violation |

Why the bounds are enough for what they ask.  Two writers with documents of
different lengths are the fewest of which one can leave a partial file of the
other's size; a third one has the lock in between.  Two customers, one named
like the beginning of the other, are what the patterns of delete can confuse, a
device `corp` beside `ios` makes the identity of the first the name of the
second, and three requests give every create-archive-unarchive, create-rotate-delete
and delete-create-rotate order from stores that may already hold customers.
Two requests at once and a third after them are what one stale copy of the
file and one check gone stale need.  Three blocks are an overlapping pair and
one after a restart; one address is what makes two users share a rule.  Two
cuts give a newest backup that differs from the one with the secret.  In
`sessions` the two windows, the maximum age and the delay differ enough for each
comparison of seconds to be off by one visibly, the clock runs to the end of the
longest of them, and two requests, a purge and a revocation are all that one
session can meet at once.  Two drafts are what answers can be mixed of.  One
fault and one crash each are the failures "of one step" the code tries to
handle.  Deadlock checking is off everywhere, because the requests of a run come
to an end; that they do not wait for each other is `NoDeadlock` and the liveness
properties.

Larger instances pass too, beyond the time a run should take:
`SafeWrite` with two remote and two local writers (`TypeOK`, `LiveComplete`,
`Recoverable`; 7.3 M states); `operations_sequential` with four requests
and `TwoDevs` (758 k);
`operations_concurrent` with `MaxFaults = 1`, `MaxCrashes = 0` (687 k);
`tokens` without `OneFailure`, with `"create"` (992 k), and with `"delete"` in
place of `"unarchive"` besides (2.1 M);
`sessions` with two loops, `MaxDelay = 2` and windows of 3 and 4 (786 k);
`wizard` with two kills (814 k).

`InSync`, `NoDrift`, `ArchivedRejected`, `ServedConnects` and `CutUndone` speak
of states in which no other request is in progress, or of customers nobody else
works on, and the first three are checked for requests that follow one another:
for requests that overlap they do not hold (section 5).  What does hold then is
`OwnSecrets`, `NoPhantomDevice`, `CreatedWhole` for creates of one identity, and
the properties of tokens.  `portal_sequential` leaves `rename` out:
`delete_customer` computes the identity from the present device name, so that
after a rename it looks for one no store has.

Seven properties say what they leave out.  `InSync` and `NoDrift` ask of a
namesake only that its users row stays, and `Accounts` does not ask that it
connects: the deletion of the customer of that name shuts it out (section 5).
`CreatedWhole` is about states in which nobody has done anything but create one
identity: any other request may write a copy of the file from before (section
5).  `ServedConnects` is about a fetch beside which no request or command ran,
while the stores agree on the identity and no archived customer is enabled
(section 5); of a hostile installer it asks besides that the identity made of
the names is an active customer's, which a rename of the device ends, and then
the block of that name, if there is one, was left behind by somebody.
`DeletedGone` is about all identities of the customer in the tables, and about
those that had a row in the tables on the gateway: `/deleteuser` learns of an
identity from its rows. `DropHolds` leaves out addresses for which a command
failed, and `OneDraft` what a save of one half has left (section 5).

### Fairness

`SafeWrite`: a call that has begun goes on (each of its steps is straight-line
code with ssh timeouts), as weak fairness of the call's own steps; a process may
still be killed.  A local writer waits for the flock, and with finitely many
calls its turn comes.  `DisconnectBlock`: weak fairness of the steps of a block
(event loop and timer threads are running), of the bot's restart
(`Restart=always`) and of its sweep; nothing is assumed of portal workers,
rewrites or faults.  `Sessions`: weak fairness of the clock, of a request that
has begun (a thread of the pool) and of every clean-up loop, which is a `while
True` around a sleep; that requests come is not assumed.  `CreateWizard`: weak
fairness of `create_client`'s return, and strong fairness of `Save`, because the
library's job fires again every minute while `create_client` may be running now
and then, and a kill may take what it was to save; nothing is assumed of the
operator.

## 5. What the code does otherwise

Findings with a run:

- `/deleteuser acme` takes the radcheck rows and the block of `acme-corp-ios`
  too (`operations_deleteuser`): the pattern of the names that it sweeps is not
  limited to identities without a device, as it is for the users rows.
- `/renew` un-disables nothing (`operations_renew`): it looks for the mark in
  the username, and disabling puts it into the value.

Disagreements without a run of their own; each is reproduced with the settings
given, in an existing configuration:

- `SafeWrite`, `NeverTruncated` in `SafeWrite_mixed.cfg`: two remote writes with
  one label in one second share a temporary name, and the live file can be a
  partial document, although "the live conf file is NEVER opened in 'w' mode,
  NEVER truncated mid-write" (`safe_write_rw_eap.py:196`).  This is the only
  way: with names of its own no call does it, which is proved.
- `Portal`, `ArchivedRejected` in `Portal_sequential.cfg` with `MaxAtOnce = 2`
  and `Ops = {"archive", "rotate"}`: a rotation that checked the status before
  an archive puts a live password back after it (`app.py:2643-2690`).
- `Portal`, `InSync` without `Namesake` in `Portal_sequential.cfg`: a customer
  `acme` with a device `corp` connects as `acme-corp`; deleting a customer
  `acme-corp` takes away the radcheck rows and the block of its bare name
  (`app.py:2888-2895`), and `acme` is shut out, with no fault and nothing beside
  it.  The names allow hyphens (`app.py:748-749`).
- `InstallerTokens`, `ServedConnects` in `Tokens.cfg` without its condition on
  `enabled` and with `Ops = {"archive"}`: archiving sets `is_active` to 0, which
  keeps the installer endpoints closed, but `/enable` sets it to 1 again and not
  the status (`bot.py:1593`), so that a token is made for, and served to, an
  archived customer: in the trace one whose archiving failed half-way, and
  otherwise with a password that FreeRADIUS rejects.
- `DisconnectBlock`, `DropHolds` in `DisconnectBlock.cfg` without `torn`: when
  `iptables -I` failed, the timer's `-D` takes out an equal rule of another block
  for that address, although "a partial-block revert is safe"
  (`bot.py:351-353`).
- `Portal`, `CreatedWhole` in `Portal_concurrent.cfg` with `Ops = {"create"}`
  and without its conditions on `Begun`: with `Names <- TwoNames`, two creates
  of different customers each write the file from their own copy; one block is
  lost although both report success (`app.py:837`; `safe_write_rw_eap.py:25-26`
  counts on single-threaded admin operations).  With one name and two devices,
  and without the condition on `id` alone: the clean-up of a create that failed
  writes its stale copy back, and with it goes the block of a create of the
  other device that was made meanwhile (`app.py:1509`).
- `BotOps`, `SectionsKept` without its right-hand side: the clean-up of a failed
  create, and the pre-clean of `/renew_orphan`, write back what they read also
  when a failed command made that the empty string (`app.py:1509`,
  `bot.py:2316`): all connections and secrets are gone.
- `BotOps`, `DeletedGone` in `Operations_sequential.cfg` for all identities `Like`
  the customer's on the gateway too, with six requests, `Devs <- TwoDevs` and
  `Ops = {"create", "delete", "rename", "deleteuser"}`: a device is renamed and
  its customer deleted, which leaves the users and radcheck rows and the block
  of the old identity; the deletion of the next customer of that name takes
  those rows as an orphan's, and not the block; and then `/deleteuser` of a
  third reports success while charon has the secret of the first loaded
  (`app.py:2878-2882`, `2904-2912`; `bot.py:1880-1884`, which speak of devices
  and of bare names).  So the property speaks of identities with rows.
- `InstallerTokens`, `ServedOnce` in `Tokens.cfg`: two fetches with one token can
  both be answered, as the update that burns it does not ask whether it is
  burnt (`installer_tokens.py:470`).
- `QuotaReset`, `CutUndone` in `Operations_sequential.cfg` with
  `Names <- TwoNames`: a reset copies a whole backup, so that another
  customer's rotation since then is undone for charon (`app.py:2020`); and of
  two customers cut one after the other, the first finds the `KILLED-` mark in
  the newest backup, where the walk over the backups ends (`app.py:1914-1921`).
  With one name and `"renew"` added to `Ops`: after an archive and a `/renew`
  the customer is rejected (the second finding above), and as there is no
  backup of a cut, a reset does not change that.
- `CreateWizard`, `OneDraft` without `~torn`: a save of one half only resumes a
  conversation at a late step with the answers of the draft before
  (`bot_persistence.py:229-245`, `303-328`).  And `TypeOK` for all `Keys` in place
  of `ReadAtConfirm`: after such a save and a kill, Confirm creates the customer
  although the duration is missing, for ten days (`bot.py:1251`, `1299-1304`).

Read in the code, outside of the models:

- The cookies get their `max_age` at the login only (`app.py:1148`, `3141`): a
  browser drops them after 8 h, or 1 h in the portal, of steady use, however
  far the server's window has slid (`portal_auth.py:60-80`: "8h sliding. After
  8h inactivity, operator must re-auth").  `Sessions` lets a request come with
  any cookie that was ever set.
- With a webhook, a conversation does not survive a change of worker as
  `bot_persistence.py:3-8` says: the load in `check_update` waits for the event
  loop that it blocks, and the write-through in `handle_update` gets no state
  (`bot.py:87-200`).  The webhook is deleted since the bot polls, so the wizard
  is modelled in one process.
- The Confirm and Back buttons of an abandoned summary stay live and act on the
  present draft.  A kill between `create_client`'s commit and the message loses
  the password; rotating gives a new one.
- A portal worker that starts sweeps every Reject row, those of blocks in force
  in the bot included, whose DROP rules stay (`DisconnectBlock`, `StartUp` of a
  worker); the code takes rows it finds to "belong to a previous bot session that
  crashed mid-block" (`bot.py:427-429`).
- A button of the wizard offers the device type `mac`, which the portal's own
  list does not have (`app.py:754`).

Behaviour that the models contain, and of which no line of the repository
promises otherwise: a create whose write raises after the `mv` leaves its block,
and the next attempt is refused with 409; a customer whose device was renamed
leaves its users row, block and radcheck rows behind when deleted; a reset
re-enables an archived customer; sessions outlive the archiving or deletion of
their customer; of two overlapping blocks of one identity the first timer ends
both; DROP rules survive a crash of the bot until a reboot; a token is burnt
before its response, and one lost in between serves nobody.

## 6. What is proved

A theorem holds for all values of the constants that satisfy the module's named
assumption; of a bound nothing is assumed but that it is a natural number.  Eight
theorems of `Sequential_proofs` have hypotheses on the constants besides, which
are given there.

- `SafeWrite_proofs`: `SafeWriteTypes`, `LiveIsWhole` (`LiveComplete`),
  `NothingLost` (`Recoverable`) and `WritesAreAtomic` (`ImplementsAtomicConf`).
  `LiveComplete` is not inductive.  The strengthening `IInv` says who holds the
  lock while it writes (`LockInv`) and, as long as all names are apart, that
  each temporary file belongs to the call of its name and holds the prefix it
  has written (`OwnTemp`), that a call about to rename has written all
  (`Checked`), that no temporary name is bound to the live inode (`LiveApart`)
  and no two to one (`OneName`), and that the inode of a call not yet begun is
  not in use (`Unused`).  `ApartBefore` shows that names that are apart were so
  before.  For `Recoverable`, `Saved` adds that a local call that has made its
  backup has backed up what is live (`BackedUp`), and that a backup was made by
  a call of its name that is past making it (`BackupOf`).  For the refinement,
  `Installs` ties the installed documents to the points of their calls: a rename
  is the one replacement of `AtomicConf`, an answer its answer, a killed or
  failed call its failure, and every other step stutters.  It holds under
  `[]Apart`, which section 5 shows to be needed; `LabelledWritesAreAtomic`
  derives `[]Apart` from labels.
- `Portal_proofs`: `PortalTypes`, `SecretsStayApart` (`OwnSecrets`),
  `DevicesHaveCustomers` (`NoPhantomDevice`) and `CreatesAreWhole`
  (`CreatedWhole`).  Each is shown of one step of one request at a time, from
  `Shape`, which is weaker than `TypeOK`: a request may be at points of the
  bot's commands, and a block may be marked, so that all of it can be cited in
  `Operations_proofs`.  `OwnInv` adds the points (`Early`) at which a request has
  not settled its identity; at these nothing made by it is in any store.  Each
  action has an effect of one shape (`StepEffect`): a store keeps its value,
  takes that of another store or of a file copy under the same identity, or
  takes the request's own secret.  `RowsInv` says that a device has the row id
  of the customer of its name, that a delete past its devices finds none of that
  row, and that a row id is in the tables only once its create has committed:
  ids are never drawn twice.  `WholeInv` says of a customer that all requests
  so far were creates of one identity (`OnlyCreated`): at most one of them is
  between its insert and its commit, its copy of the file is the file, and none
  gets there once the customer is in the tables (`Alike`); and that every other
  request knows the row it works on (`RowKnown`), so that it is not one of
  these.
- `InstallerTokens_proofs`: `TokensTypes`, `SpentTokens` (`SpentServesNobody`),
  `FetchOwnSecret` (`ServedOwn`) and `ServedPasswordConnects`
  (`ServedConnects`).  `TokensInv` says that a token somebody was answered with
  is burnt, and that a late fetch never gets past its first step; `GotInv` that
  what a fetch has read was generated for its identity, which follows from
  `OwnInv` and the fact that what was generated for an identity only grows
  (`OwnGrows`).  `ConnectInv` says of a fetch beside which no request or command
  has run that its token is of an enabled customer, its identity one of that
  customer's row, and what it has read the password of the block.  That the
  customer is active follows when no archived one is enabled, which the property
  asks for (section 5).
- `Sessions_proofs`: `SessionTypes`, `EndedServesNobody` (`GoneStaysGone`),
  `IdleIsOut` (`IdleOut`) and `UsedIsKept` (`KeptWhileUsed`).  They follow from
  one invariant, `IInv`: a process that has taken the time is at most `MaxDelay`
  late (`OnTime`); a session id is drawn once (`Fresh`), so that no login
  replaces a row; what is left of an ended session is a revoked row of an
  operator (`Ended`); a row's expiry lies within `MaxDelay` of the end of the
  window that its last use gives (`Windows`), because a request with an older
  time may slide it last; and a session without a row was ended or is over
  (`Missing`).  A step changes at most one session, except for a revocation and
  a purge: `OneSession` is what the login, the use and the refusal have in
  common.  The bounds on clock, logins and faults play no part.
- `CreateWizard_proofs`: `WizardTypes`, and `NoMixedDraft` for `OneDraft`.
  `OneDraft` speaks of what is live and of what is saved, and a save may write
  one half after the other has been marked; `IInv` adds that what is not marked
  unsaved is saved (`Marked`), so that every whole save leaves the two halves of
  one moment, and that what is saved of a conversation was live, or is none
  (`Taken`), which holds through half saves too.  Of the sequence of steps it
  uses only `NextStep`, `StepBack` and `Ends`.  `WizardTypes` says besides that
  `create_client` runs with every answer that Confirm reads, through kills and
  half saves: all but the duration.
- `DisconnectBlock_proofs`: `BlockTypes`, `RejectHasTimer` (`RowHasTimer`) and
  `RulePerBlock` (`DropHolds`), from `IInv`.  `TypeOK` holds at most as many
  rules for an address as there are blocks, which is no inductive bound:
  `RulesAdded` counts the blocks that have come past `iptables -I` for the
  address (`Ruled`), and a timer's `-D` takes one rule for one block that it
  takes out of the count.
- `Operations_proofs`: `AllTypes` (`AllTypeOK`), `SecretsStayApartEverywhere`
  (`OwnSecrets`) and `DevicesHaveCustomersEverywhere` (`NoPhantomDevice`), of
  portal, bot, reset and monitor side by side, under any interleaving, fault and
  crash.  A step of the portal is one of `Portal`; of the others it is shown
  that they have an effect of the shapes of `Portal_proofs`, where a backup and
  the password a reset has read count as stores (`AllOwn`).  `AllTypeOK` needs
  that the backup a reset is about to copy is there (`CopyInv`) and that what
  `/renew_orphan` cuts off an identity is a device name (`RenewInv`).
- `Sequential_proofs`, of the same system:
  - `SectionsKeptUncut` (`SectionsKept`): with nobody cut off (`MaxCuts = 0`),
    any number of requests at once.  `FilesInv`: no file, copy or backup without
    its sections has a block (`Blank`), and every request but the two clean-ups
    that `SectionsKept` excepts gets to its write only with a copy that has its
    sections.
  - `SectionsKeptInTurn`: with cuts, one request at a time.  `SeqInv` adds that a
    copy about to be written is the file or empty, and that every backup has its
    sections as long as the file has.
  - `StoresAgreeInTurn` (`InSync`, `NoDrift`, `ArchivedRejected`): of `Portal`,
    one request at a time, no faults, crashes and renames.  `Turn` says that
    every customer and identity agrees in the four stores but the one that the
    running request works on and the namesakes, which keep their users row and
    are rejected when archived (`Loaded`, `Admitted`), and what is done and not
    yet done of that one at each point of each handler (`Creating`, `Renewing`,
    `Changing`, `Deleting`).  `BareOnly` is all that a delete takes under the
    bare name, and `BareKeeps` that what `Turn` says of everything else holds
    after it, whatever the names are.
  - `AccountsInTurn` (`ImplementsAccounts`): that `Portal` implements `Accounts`,
    under the same hypotheses.  What connects is the radcheck row, so most steps
    stutter.  The last step of a handler maps to `End`, with `Open`, `Issue` or
    `Revoke` when it is the one that changes the row; an unarchiving, which
    reloads charon afterwards, maps to `HandOut` with `Issue` before; the bare
    step of a delete is `Revoke` of the customer's own name.
  - `RenewedConnectsInTurn` (`RenewedConnects`) and `RetiredGoneInTurn`
    (`RetiredGone`): one request at a time; for the latter no crashes.  `KnowInv`
    says what each command knows at each point of what it has done
    (`OrphanKnows`, `CleanupKnows`) and that until a fault the file has its
    sections and a copy about to be written is the file (`Fine`); `InStep` that
    until then charon has what the file has, or a reload is to come.
  - `DeletedGoneInTurn` (`DeletedGone`): one request at a time, and no name the
    beginning of another followed by a hyphen (`Like`).  `DeletedInv` adds to
    `RowsInv` and `OwnInv` that the device of a customer has a row id made for
    one of that customer's identities, whatever it is called now (`DevOf`), so
    that what the command collects includes every identity of the customer.
  - `CutUndoneInTurn` (`CutUndone`): one request at a time, no crashes, no
    `/renew` and one customer name.  `RestInv` says, as long as nothing has
    failed, of the identity a device points to (`Tied`) that its password can be
    had, from its block or, when that is marked, from the newest backup
    (`Kept`), and that the radcheck row of an active customer is marked exactly
    when the block is (`AtRest`); and, between the steps of a handler that
    replaces a secret, of `/renew_orphan` and of the reset, where this does not
    hold, what holds instead (`Meanwhile`).  With one name no identity reads
    like it (`NoBareName`), so that the bare steps take nothing.  It is what
    makes the newest backup, which the reset copies, the right one after any
    archiving, rotation, renaming or deletion between the cut and the reset.

The hypotheses `MaxAtOnce = 1`, `MaxFaults = 0`, `MaxCrashes = 0`, `"rename"` or
`"renew"` not in `Ops`, no name the beginning of another and one name only are
those under which `portal_sequential` and `operations_sequential` check these
properties; without them the properties are false (section 5).
`IsFiniteSet(Requests)` is needed to count the running requests.

Assumed besides: the `ASSUME`s of the modules, which TLC evaluates in the runs.
They say that the model values differ, that `NoRow` is no row, that kinds of
processes and of session ids are disjoint, that bounds are natural numbers, that
there is a name and a device name, that both are sequences of strings, that no
name or device name is empty (`app.py:748-749`, `977`), and that a document has
at least one chunk.

Only model-checked: liveness (`Terminates`, `Lifted`, `Purged`,
`PortalSessionEnds`, `SavedInTheEnd`), and `NoDeadlock`, which speaks of
`ENABLED`: both are out of the prover's reach.

## 7. What is not modelled

Customers with several devices (the portal makes one; rows that predate it may
have more); tiers, bandwidth and usage columns; RADIUS group and reply rows,
which follow radcheck in the same statements; the content of messages and pages;
the transaction isolation of MariaDB beyond "uncommitted inserts hold the unique
keys"; `bulk_customer_action`, which calls the handlers in a loop; what
quota-monitor does besides what the reset's comments say of it.  Of the
sessions: the login rate limits, which are per process, the browser's side of
the cookies, and `slide=False`, which no caller passes.  Of the conversations:
several workers (above), and `bot_data` and `chat_data`, which no handler uses.
Status pages and parsers change no state; password hashing is a pure function,
of which the models use only that a hash determines its secret; the scripts in
`tools/` were run once by hand.
