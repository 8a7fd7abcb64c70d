------------------------------- MODULE Portal -------------------------------
(***************************************************************************)
(* app.py: the operator's requests that create, rotate, archive,           *)
(* unarchive, rename and delete, and the four places a customer's secret   *)
(* lives in: the MariaDB tables, the radcheck row FreeRADIUS checks, the   *)
(* eap-<identity> block of rw-eap.conf on the gateway, and the copy of     *)
(* that file charon loaded last.  The requests run in several gunicorn     *)
(* workers and in the bot's process.  Nothing spans the stores: each step  *)
(* below is one statement (or transaction), or one ssh round trip, other   *)
(* requests run between them, and each may fail.  Only reads of the tables *)
(* that follow one another, and the two deletes of an orphan, are one step.*)
(* How rw-eap.conf is written is the subject of SafeWrite; here a write of *)
(* it is one step.                                                         *)
(*                                                                         *)
(* A name is a sequence of the parts between its hyphens: an identity is   *)
(* the customer's name and the device's joined by one, and LIKE '<name>-%' *)
(* is a proper prefix.  Both may have hyphens of their own, so that one    *)
(* customer's identity may read like another one's name.  A customer has   *)
(* the one device create_client gives it.  A secret is named after the     *)
(* request that generated it (an initial one after its identity);          *)
(* users.password, the two radcheck rows and the block all derive from it. *)
(* The rows one create_client inserts carry one row id, named the same     *)
(* way: it stands for customers.id, users.id and the two foreign keys of   *)
(* devices.                                                                *)
(***************************************************************************)
EXTENDS Naturals, Sequences, FiniteSets

CONSTANTS Requests,    \* the requests of a run
          Names,       \* customers.name, as sequences of parts
          Devs,        \* device names, likewise
          Ops,         \* the operations the requests may be
          MaxAtOnce,   \* bound: requests in progress at once
          MaxFaults,   \* bound: ssh commands and statements that fail
          MaxCrashes,  \* bound: workers killed during a request
          NoRow, Disabled

Identity(c, d) == c \o d
Ids == {Identity(c, d) : c \in Names, d \in Devs}
Secrets == Requests \union Ids

ASSUME PortalAssumption ==
  /\ NoRow \notin Secrets /\ Disabled \notin Secrets \union {NoRow}
  /\ NoRow \notin {"active", "archived"}
  /\ NoRow \notin [row : Secrets, status : {"active", "archived"}]
  /\ NoRow \notin [row : Secrets, pw : Secrets] \union [row : Secrets, name : Devs]
  /\ NoRow \notin [id : Ids, active : BOOLEAN]
  /\ Requests \intersect Ids = {}
  /\ MaxAtOnce \in Nat /\ MaxFaults \in Nat /\ MaxCrashes \in Nat
  /\ Names # {} /\ Names \subseteq Seq(STRING) \ {<<>>}
  /\ Devs # {} /\ Devs \subseteq Seq(STRING) \ {<<>>}

VARIABLES
  customers, \* by name: NoRow or row id and status
  users,     \* by users.name: NoRow or row id and password
  devices,   \* by customer: NoRow or row id and device_name
  radcheck,  \* by username: NoRow, Disabled or the password of its rows
  conf,      \* rw-eap.conf: is it whole, and its blocks
  charon,    \* the secrets charon has loaded
  at,        \* where each request is
  cust, row, \* the customer it is about: its name and row id
  id,        \* the identity it is about
  snap,      \* the copy of rw-eap.conf it has read
  sweep,     \* delete: the users rows it found without a device
  faults, crashes

tables == <<customers, users, devices, radcheck>>
gateway == <<conf, charon>>
locals == <<cust, row, id, snap, sweep>>
bounds == <<faults, crashes>>
vars == <<tables, gateway, at, locals, bounds>>

NoBlocks == [i \in Ids |-> NoRow]
Empty == [whole |-> FALSE, blk |-> NoBlocks]  \* read_rw_eap_conf's ""
Like(c, i) == Len(c) < Len(i) /\ SubSeq(i, 1, Len(c)) = c

\* Row ids: that of a row or of none, and the identity of a users row.
RowOf(r) == IF r = NoRow THEN NoRow ELSE r.row
Is(r, n) == r # NoRow /\ r.row = n
Status(c) == IF customers[c] = NoRow THEN NoRow ELSE customers[c].status
UserIds(n) == {i \in Ids : Is(users[i], n)}

Ended == {"ok", "refused", "error", "dead"}
Running(w) == at[w] \notin Ended \union {"idle"}

\* Some customers are onboarded already, with a secret all stores agree on.
Init ==
  \E old \in SUBSET Names, d \in Devs :
    LET secret(i) == IF \E c \in old : i = Identity(c, d) THEN i ELSE NoRow IN
    /\ customers = [c \in Names |->
         IF c \in old THEN [row |-> Identity(c, d), status |-> "active"] ELSE NoRow]
    /\ users = [i \in Ids |->
         IF secret(i) = NoRow THEN NoRow ELSE [row |-> i, pw |-> i]]
    /\ devices = [c \in Names |->
         IF c \in old THEN [row |-> Identity(c, d), name |-> d] ELSE NoRow]
    /\ radcheck = [i \in Ids |-> secret(i)]
    /\ conf = [whole |-> TRUE, blk |-> radcheck]
    /\ charon = radcheck
    /\ at = [w \in Requests |-> "idle"]
    /\ cust = [w \in Requests |-> CHOOSE c \in Names : TRUE]
    /\ row = [w \in Requests |-> NoRow]
    /\ id = [w \in Requests |-> CHOOSE i \in Ids : TRUE]
    /\ snap = [w \in Requests |-> Empty]
    /\ sweep = [w \in Requests |-> {}]
    /\ faults = 0 /\ crashes = 0

-----------------------------------------------------------------------------
Goto(w, from, to) == at[w] = from /\ at' = [at EXCEPT ![w] = to]

Begin(w, c, to) ==
  /\ Cardinality({v \in Requests : Running(v)}) < MaxAtOnce
  /\ Goto(w, "idle", to)
  /\ cust' = [cust EXCEPT ![w] = c]
  /\ row' = [row EXCEPT ![w] = RowOf(customers[c])]

Fault == faults < MaxFaults /\ faults' = faults + 1 /\ UNCHANGED crashes

\* A statement or a command that raises without an effect.
Raise(w, from, to) == /\ Fault
                      /\ Goto(w, from, to)
                      /\ UNCHANGED <<tables, gateway, locals>>

\* read_rw_eap_conf: a command that fails reads as the empty string.
Read(w) == \/ snap' = [snap EXCEPT ![w] = conf] /\ UNCHANGED bounds
           \/ snap' = [snap EXCEPT ![w] = Empty] /\ Fault

\* What a request does next depends on what it has read; a read that times
\* out raises.
ReadThen(w, from, to(_), onRaise) ==
  \/ /\ Read(w)
     /\ Goto(w, from, to(snap'[w]))
     /\ UNCHANGED <<tables, gateway, cust, row, id, sweep>>
  \/ Raise(w, from, onRaise)

\* write_rw_eap_conf: a write that raises has replaced the file or not.
Write(w, from, new, to, onRaise) ==
  /\ \/ Goto(w, from, to) /\ conf' = new /\ UNCHANGED bounds
     \/ Goto(w, from, onRaise) /\ conf' \in {conf, new} /\ Fault
  /\ UNCHANGED <<tables, charon, locals>>

\* reload_charon_creds: charon takes over the secrets the file has now.
Reload(w, from, to, onRaise) ==
  /\ \/ Goto(w, from, to) /\ charon' = conf.blk /\ UNCHANGED bounds
     \/ Goto(w, from, onRaise) /\ charon' \in {charon, conf.blk} /\ Fault
  /\ UNCHANGED <<tables, conf, locals>>

\* Mutant of PutBlock: a pattern that matches every eap- block.
PutBlocks(f, i, s) ==
  [f EXCEPT !.blk = [j \in Ids |-> IF j = i \/ @[j] # NoRow THEN s ELSE NoRow]]

PutBlock(f, i, s) == [f EXCEPT !.blk[i] = s]
CutBlock(f, i) == [f EXCEPT !.blk[i] = NoRow]
CutBlocks(f, s) == [f EXCEPT !.blk = [i \in Ids |-> IF i \in s THEN NoRow ELSE @[i]]]

\* remove_customer_radcheck_and_usergroup, of any usernames.
DropRadcheck(s) == radcheck' = [i \in Ids |-> IF i \in s THEN NoRow ELSE radcheck[i]]

\* Mutant of PutRadcheck: the new password does not reach FreeRADIUS.
PutNoRadcheck(w, from, to) ==
  /\ Goto(w, from, to)
  /\ UNCHANGED <<tables, gateway, locals, bounds>>

\* update_customer_password_radcheck: the rows of the username are replaced.
\* Every caller catches what it raises.
PutRadcheck(w, from, to) ==
  \/ /\ Goto(w, from, to)
     /\ radcheck' = [radcheck EXCEPT ![id[w]] = w]
     /\ UNCHANGED <<customers, users, devices, gateway, locals, bounds>>
  \/ Raise(w, from, to)

\* UPDATE users SET password WHERE id: no such row, no change.
PutUser(w, from, to) ==
  \/ /\ Goto(w, from, to)
     /\ users' = [users EXCEPT ![id[w]] =
                    IF Is(@, row[w]) THEN [row |-> row[w], pw |-> w] ELSE @]
     /\ UNCHANGED <<customers, devices, radcheck, gateway, locals, bounds>>
  \/ Raise(w, from, "error")

-----------------------------------------------------------------------------
(* create_client *)

\* The uniqueness checks on customers.name and users.name.
CreateCheck(w, c, d) ==
  /\ "create" \in Ops
  /\ Begin(w, c, IF customers[c] = NoRow /\ users[Identity(c, d)] = NoRow
                 THEN "create.exists" ELSE "refused")
  /\ id' = [id EXCEPT ![w] = Identity(c, d)]
  /\ UNCHANGED <<tables, gateway, snap, sweep, bounds>>

\* eap_block_exists
CreateExists(w) ==
  ReadThen(w, "create.exists",
       LAMBDA f : IF f.blk[id[w]] = NoRow THEN "create.insert" ELSE "refused",
       "error")

\* Mutant of InTx: the names are unique only in the checks.
InTxNever == {}

\* Mutant of InTx: an exception leaves the transaction open.
InTxForEver == {"create.append", "create.write", "create.reload",
                "create.commit", "create.undo", "create.unwrite", "error"}

InTx == {"create.append", "create.write", "create.reload", "create.commit"}

\* The inserts open the transaction: nobody sees the rows before the commit.
\* The unique keys hold a second insert of the same name up until then.
CreateInsert(w) ==
  \/ /\ \A v \in Requests : at[v] \in InTx => cust[v] # cust[w] /\ id[v] # id[w]
     /\ Goto(w, "create.insert",
             IF customers[cust[w]] = NoRow /\ users[id[w]] = NoRow
             THEN "create.append" ELSE "error")
     /\ UNCHANGED <<tables, gateway, locals, bounds>>
  \/ Raise(w, "create.insert", "error")

\* Mutant of CreateAppend: a block is appended to whatever was read.
CreateAppendTo(w) ==
  ReadThen(w, "create.append",
       LAMBDA f : IF f.blk[id[w]] = NoRow THEN "create.write" ELSE "error",
       "error")

\* append_eap_block: no second block, and no writing of a file that is not
\* whole.
CreateAppend(w) ==
  ReadThen(w, "create.append",
       LAMBDA f : IF f.whole /\ f.blk[id[w]] = NoRow
                  THEN "create.write" ELSE "error",
       "error")

\* Mutant of CreateWrite: a failed write is logged and passed over.
CreateWriteLogged(w) ==
  Write(w, "create.write", PutBlock(snap[w], id[w], w), "create.reload", "create.reload")

\* A write that raises leaves eap_block_written unset: no clean-up.
CreateWrite(w) ==
  Write(w, "create.write", PutBlock(snap[w], id[w], w), "create.reload", "error")

CreateReload(w) == Reload(w, "create.reload", "create.commit", "create.undo")

CreateCommit(w) ==
  \/ /\ Goto(w, "create.commit", "ok")
     /\ customers' = [customers EXCEPT ![cust[w]] = [row |-> w, status |-> "active"]]
     /\ users' = [users EXCEPT ![id[w]] = [row |-> w, pw |-> w]]
     /\ \E d \in Devs :
          /\ id[w] = Identity(cust[w], d)
          /\ devices' = [devices EXCEPT ![cust[w]] = [row |-> w, name |-> d]]
     /\ radcheck' = [radcheck EXCEPT ![id[w]] = w]
     /\ UNCHANGED <<gateway, locals, bounds>>
  \/ Raise(w, "create.commit", "create.undo")

\* After the roll-back the block is taken out again, from whatever was read.
CreateUndo(w) == ReadThen(w, "create.undo", LAMBDA f : "create.unwrite", "error")
CreateUnwrite(w) ==
  Write(w, "create.unwrite", CutBlock(snap[w], id[w]), "error", "error")

-----------------------------------------------------------------------------
(* rotate_customer_eap *)

RotateCheck(w, c) ==
  /\ "rotate" \in Ops
  /\ LET r == RowOf(customers[c]) IN
     IF Status(c) = "active" /\ Is(devices[c], r) /\ UserIds(r) # {}
     THEN /\ Begin(w, c, "rotate.user")
          /\ \E i \in UserIds(r) : id' = [id EXCEPT ![w] = i]
     ELSE /\ Begin(w, c, "refused")
          /\ UNCHANGED id
  /\ UNCHANGED <<tables, gateway, snap, sweep, bounds>>

RotateUser(w) == PutUser(w, "rotate.user", "rotate.read")

\* _replace_eap_secret: 404 when the block is not in what was read.
RotateRead(w) ==
  ReadThen(w, "rotate.read",
       LAMBDA f : IF f.blk[id[w]] # NoRow THEN "rotate.write" ELSE "error",
       "error")

RotateWrite(w) ==
  Write(w, "rotate.write", PutBlock(snap[w], id[w], w), "rotate.reload", "error")

RotateReload(w) == Reload(w, "rotate.reload", "rotate.radcheck", "error")
RotateRadcheck(w) == PutRadcheck(w, "rotate.radcheck", "ok")

-----------------------------------------------------------------------------
(* archive_customer *)

ArchiveCheck(w, c) ==
  /\ "archive" \in Ops
  /\ Begin(w, c, IF Status(c) = "active" THEN "archive.status" ELSE "refused")
  /\ UNCHANGED <<tables, gateway, id, snap, sweep, bounds>>

\* UPDATE customers SET status WHERE id
SetStatus(w, s) ==
  customers' = [customers EXCEPT ![cust[w]] =
                  IF Is(@, row[w]) THEN [row |-> row[w], status |-> s] ELSE @]

ArchiveStatus(w) ==
  \/ /\ Goto(w, "archive.status", "archive.device")
     /\ SetStatus(w, "archived")
     /\ UNCHANGED <<users, devices, radcheck, gateway, locals, bounds>>
  \/ Raise(w, "archive.status", "error")

\* Mutant of FindDevice: the identity is looked up by the customer's name.
FindDeviceByName(w, from, to, otherwise) ==
  \/ LET like == {i \in Ids : users[i] # NoRow /\ Like(cust[w], i)} IN
     /\ IF Is(devices[cust[w]], row[w]) /\ like # {}
        THEN /\ Goto(w, from, to)
             /\ \E i \in like : id' = [id EXCEPT ![w] = i]
        ELSE /\ Goto(w, from, otherwise)
             /\ UNCHANGED id
     /\ UNCHANGED <<tables, gateway, cust, row, snap, sweep, bounds>>
  \/ Raise(w, from, "error")

\* The identity of the device, if there is one and its users row is there.
FindDevice(w, from, to, otherwise) ==
  \/ /\ IF Is(devices[cust[w]], row[w]) /\ UserIds(row[w]) # {}
        THEN /\ Goto(w, from, to)
             /\ \E i \in UserIds(row[w]) : id' = [id EXCEPT ![w] = i]
        ELSE /\ Goto(w, from, otherwise)
             /\ UNCHANGED id
     /\ UNCHANGED <<tables, gateway, cust, row, snap, sweep, bounds>>
  \/ Raise(w, from, "error")

ArchiveDevice(w) == FindDevice(w, "archive.device", "archive.radcheck", "ok")

\* Mutant of ArchiveRadcheck: archiving is a matter of the tables only.
ArchiveNoRadcheck(w) ==
  /\ Goto(w, "archive.radcheck", "ok")
  /\ UNCHANGED <<tables, gateway, locals, bounds>>

\* disable_customer_radcheck: one DISABLED- row replaces the rows; the caller
\* catches what it raises.
ArchiveRadcheck(w) ==
  \/ /\ Goto(w, "archive.radcheck", "ok")
     /\ radcheck' = [radcheck EXCEPT ![id[w]] = Disabled]
     /\ UNCHANGED <<customers, users, devices, gateway, locals, bounds>>
  \/ Raise(w, "archive.radcheck", "ok")

-----------------------------------------------------------------------------
(* unarchive_customer: a new password, with every failure on the gateway   *)
(* caught                                                                  *)

UnarchiveCheck(w, c) ==
  /\ "unarchive" \in Ops
  /\ Begin(w, c, IF Status(c) = "archived" THEN "unarchive.status" ELSE "refused")
  /\ UNCHANGED <<tables, gateway, id, snap, sweep, bounds>>

UnarchiveStatus(w) ==
  \/ /\ Goto(w, "unarchive.status", "unarchive.device")
     /\ SetStatus(w, "active")
     /\ UNCHANGED <<users, devices, radcheck, gateway, locals, bounds>>
  \/ Raise(w, "unarchive.status", "error")

UnarchiveDevice(w) == FindDevice(w, "unarchive.device", "unarchive.user", "ok")
UnarchiveUser(w) == PutUser(w, "unarchive.user", "unarchive.read")
UnarchiveRead(w) ==
  ReadThen(w, "unarchive.read",
       LAMBDA f : IF f.blk[id[w]] # NoRow THEN "unarchive.write"
                  ELSE "unarchive.radcheck",
       "unarchive.radcheck")
UnarchiveWrite(w) ==
  Write(w, "unarchive.write", PutBlock(snap[w], id[w], w),
        "unarchive.radcheck", "unarchive.radcheck")
\* Before it comes the UPDATE of eap_rotated_at, which nobody catches.
UnarchiveRadcheck(w) == \/ PutRadcheck(w, "unarchive.radcheck", "unarchive.reload")
                        \/ Raise(w, "unarchive.radcheck", "error")
UnarchiveReload(w) == Reload(w, "unarchive.reload", "ok", "ok")

-----------------------------------------------------------------------------
(* update_device: the name may change, the users row it points to does not *)

RenameDevice(w, c, d) ==
  /\ "rename" \in Ops /\ devices[c] # NoRow
  /\ Begin(w, c, "ok")
  /\ devices' = [devices EXCEPT ![c].name = d]
  /\ UNCHANGED <<customers, users, radcheck, gateway, id, snap, sweep, bounds>>

-----------------------------------------------------------------------------
(* delete_customer: the identity is computed from the names, not read.  It *)
(* goes one way with a device and another, "alone", without: the two meet  *)
(* only at the reload.                                                     *)

DeleteCheck(w, c) ==
  /\ "delete" \in Ops
  /\ LET dev == devices[c] IN
     IF Is(dev, RowOf(customers[c]))
     THEN /\ Begin(w, c, "delete.users")
          /\ id' = [id EXCEPT ![w] = Identity(c, dev.name)]
     ELSE /\ Begin(w, c, IF customers[c] = NoRow THEN "refused" ELSE "alone.bare")
          /\ UNCHANGED id
  /\ UNCHANGED <<tables, gateway, snap, sweep, bounds>>

DeleteUsers(w) ==
  \/ /\ Goto(w, "delete.users", "delete.bare")
     /\ users' = [users EXCEPT ![id[w]] = NoRow]
     /\ UNCHANGED <<customers, devices, radcheck, gateway, locals, bounds>>
  \/ Raise(w, "delete.users", "error")

\* The bare name's radcheck rows and block go too, be they another customer's:
\* nothing asks whether a device has that identity.  What these raise is caught.
DropBare(w, from, to) ==
  \/ /\ Goto(w, from, to)
     /\ DropRadcheck({cust[w]})
     /\ UNCHANGED <<customers, users, devices, gateway, locals, bounds>>
  \/ Raise(w, from, to)
DeleteBare(w) ==
  DropBare(w, "delete.bare", "delete.look") \/ DropBare(w, "alone.bare", "alone.look")

LookBare(w, from, found, otherwise) ==
  ReadThen(w, from,
       LAMBDA f : IF \E i \in Ids : i = cust[w] /\ f.blk[i] # NoRow
                  THEN found ELSE otherwise,
       otherwise)
DeleteLook(w) == \/ LookBare(w, "delete.look", "delete.cut", "delete.sweep")
                 \/ LookBare(w, "alone.look", "alone.cut", "alone.sweep")

CutBare(w, from, to) == Write(w, from, CutBlocks(snap[w], {cust[w]}), to, to)
DeleteCut(w) ==
  CutBare(w, "delete.cut", "delete.sweep") \/ CutBare(w, "alone.cut", "alone.sweep")

\* Mutant of Orphans: the users side of the join is not asked for.
OrphanNames(c) == {i \in Ids : /\ i = c \/ Like(c, i)
                               /\ \A n \in Names : devices[n] = NoRow \/
                                    RowOf(devices[n]) # RowOf(users[i])}

Orphans(c) == {i \in Ids : /\ users[i] # NoRow /\ (i = c \/ Like(c, i))
                           /\ \A n \in Names : RowOf(devices[n]) # users[i].row}

\* The users rows of the customer's name and its pattern that no device points to.
DeleteOrphans(w) ==
  /\ \/ Goto(w, "delete.sweep", "delete.devices")
     \/ Goto(w, "alone.sweep", "alone.devices")
  /\ sweep' = [sweep EXCEPT ![w] = {<<i, RowOf(users[i])>> : i \in Orphans(cust[w])}]
  /\ UNCHANGED <<tables, gateway, cust, row, id, snap, bounds>>

\* Each goes with its radcheck rows: a failure of these is caught, one of the
\* users row is not.
DeleteOrphan(w) ==
  /\ at[w] \in {"delete.devices", "alone.devices"}
  /\ \E s \in sweep[w] :
       LET i == s[1]
           users1 == [users EXCEPT ![i] = IF Is(@, s[2]) THEN NoRow ELSE @]
           radcheck1 == [radcheck EXCEPT ![i] = NoRow]
       IN /\ sweep' = [sweep EXCEPT ![w] = @ \ {s}]
          /\ \/ /\ users' = users1 /\ radcheck' = radcheck1
                /\ UNCHANGED <<at, bounds>>
             \/ /\ users' = users1
                /\ Fault /\ UNCHANGED <<at, radcheck>>
             \/ /\ radcheck' = radcheck1
                /\ at' = [at EXCEPT ![w] = "error"]
                /\ Fault /\ UNCHANGED users
  /\ UNCHANGED <<customers, devices, gateway, cust, row, id, snap>>

\* Mutant of DeleteDevices: it deletes only the device the request found.
DeleteDeviceFound(w) ==
  \/ /\ sweep[w] = {}
     /\ \/ Goto(w, "delete.devices", "delete.read")
        \/ Goto(w, "alone.devices", "delete.reload")
     /\ devices' = [devices EXCEPT ![cust[w]] =
          IF @ # NoRow /\ Identity(cust[w], @.name) = id[w] THEN NoRow ELSE @]
     /\ UNCHANGED <<customers, users, radcheck, gateway, locals, bounds>>
  \/ Raise(w, "delete.devices", "error")
  \/ Raise(w, "alone.devices", "error")

\* DELETE FROM devices WHERE customer_id, whatever they are called by now.
DeleteDevices(w) ==
  \/ /\ sweep[w] = {}
     /\ \/ Goto(w, "delete.devices", "delete.read")
        \/ Goto(w, "alone.devices", "delete.reload")
     /\ devices' = [devices EXCEPT ![cust[w]] = IF Is(@, row[w]) THEN NoRow ELSE @]
     /\ UNCHANGED <<customers, users, radcheck, gateway, locals, bounds>>
  \/ Raise(w, "delete.devices", "error")
  \/ Raise(w, "alone.devices", "error")

\* _remove_eap_block: nothing is written when the block is not in what was
\* read; what it raises is caught.
DeleteRead(w) ==
  ReadThen(w, "delete.read",
       LAMBDA f : IF f.blk[id[w]] # NoRow THEN "delete.write" ELSE "delete.radcheck",
       "delete.radcheck")
DeleteWrite(w) ==
  Write(w, "delete.write", CutBlock(snap[w], id[w]),
        "delete.radcheck", "delete.radcheck")

\* Mutant of DeleteRadcheck: the radcheck rows are left to nobody.
DeleteNoRadcheck(w) ==
  /\ Goto(w, "delete.radcheck", "delete.reload")
  /\ UNCHANGED <<tables, gateway, locals, bounds>>

\* remove_customer_radcheck_and_usergroup, whose exceptions are caught too.
DeleteRadcheck(w) ==
  \/ /\ Goto(w, "delete.radcheck", "delete.reload")
     /\ radcheck' = [radcheck EXCEPT ![id[w]] = NoRow]
     /\ UNCHANGED <<customers, users, devices, gateway, locals, bounds>>
  \/ Raise(w, "delete.radcheck", "delete.reload")

DeleteReload(w) == Reload(w, "delete.reload", "delete.customer", "error")

DeleteCustomer(w) ==
  \/ /\ Goto(w, "delete.customer", "ok")
     /\ customers' = [customers EXCEPT ![cust[w]] = IF Is(@, row[w]) THEN NoRow ELSE @]
     /\ UNCHANGED <<users, devices, radcheck, gateway, locals, bounds>>
  \/ Raise(w, "delete.customer", "error")

-----------------------------------------------------------------------------
\* The worker is killed; the database rolls an open transaction back.
Crash(w) ==
  /\ crashes < MaxCrashes /\ Running(w)
  /\ at' = [at EXCEPT ![w] = "dead"]
  /\ crashes' = crashes + 1
  /\ UNCHANGED <<tables, gateway, locals, faults>>

First(w) ==
  \E c \in Names :
    \/ \E d \in Devs : CreateCheck(w, c, d) \/ RenameDevice(w, c, d)
    \/ RotateCheck(w, c) \/ ArchiveCheck(w, c) \/ UnarchiveCheck(w, c)
    \/ DeleteCheck(w, c)

Later(w) ==
  \/ CreateExists(w) \/ CreateInsert(w) \/ CreateAppend(w) \/ CreateWrite(w)
  \/ CreateReload(w) \/ CreateCommit(w) \/ CreateUndo(w) \/ CreateUnwrite(w)
  \/ RotateUser(w) \/ RotateRead(w) \/ RotateWrite(w) \/ RotateReload(w)
  \/ RotateRadcheck(w)
  \/ ArchiveStatus(w) \/ ArchiveDevice(w) \/ ArchiveRadcheck(w)
  \/ UnarchiveStatus(w) \/ UnarchiveDevice(w) \/ UnarchiveUser(w)
  \/ UnarchiveRead(w) \/ UnarchiveWrite(w) \/ UnarchiveRadcheck(w)
  \/ UnarchiveReload(w)
  \/ DeleteUsers(w) \/ DeleteBare(w) \/ DeleteLook(w) \/ DeleteCut(w)
  \/ DeleteOrphans(w) \/ DeleteOrphan(w) \/ DeleteDevices(w) \/ DeleteRead(w)
  \/ DeleteWrite(w) \/ DeleteRadcheck(w) \/ DeleteReload(w) \/ DeleteCustomer(w)

Next == \E w \in Requests : First(w) \/ Later(w) \/ Crash(w)

Spec == Init /\ [][Next]_vars
-----------------------------------------------------------------------------
Made(i) == {i} \union {w \in Requests : at[w] # "idle" /\ id[w] = i}
Rows == Secrets
Points ==
  {"idle", "refused", "error", "ok", "dead",
   "create.exists", "create.insert", "create.append", "create.write",
   "create.reload", "create.commit", "create.undo", "create.unwrite",
   "rotate.user", "rotate.read", "rotate.write", "rotate.reload", "rotate.radcheck",
   "archive.status", "archive.device", "archive.radcheck",
   "unarchive.status", "unarchive.device", "unarchive.user", "unarchive.read",
   "unarchive.write", "unarchive.radcheck", "unarchive.reload",
   "delete.users", "delete.bare", "delete.look", "delete.cut", "delete.sweep",
   "delete.devices", "delete.read", "delete.write", "delete.radcheck",
   "alone.bare", "alone.look", "alone.cut", "alone.sweep", "alone.devices",
   "delete.reload", "delete.customer"}
Customers == {NoRow} \union [row : Rows, status : {"active", "archived"}]
Users == {NoRow} \union [row : Rows, pw : Secrets]
Devices == {NoRow} \union [row : Rows, name : Devs]
Blocks == [Ids -> {NoRow} \union Secrets]
Files == [whole : BOOLEAN, blk : Blocks]

TypeOK ==
  /\ customers \in [Names -> Customers]
  /\ users \in [Ids -> Users]
  /\ devices \in [Names -> Devices]
  /\ radcheck \in [Ids -> {NoRow, Disabled} \union Secrets]
  /\ conf \in Files
  /\ charon \in Blocks
  /\ at \in [Requests -> Points]
  /\ cust \in [Requests -> Names] /\ row \in [Requests -> {NoRow} \union Rows]
  /\ id \in [Requests -> Ids]
  /\ snap \in [Requests -> Files]
  /\ sweep \in [Requests -> SUBSET (Ids \X Rows)]
  /\ faults \in 0..MaxFaults /\ crashes \in 0..MaxCrashes

Quiet == \A w \in Requests : ~Running(w)

\* The identity of a customer's one device, and the secret it has everywhere.
Whose(c, i) == /\ RowOf(users[i]) = customers[c].row
               /\ RowOf(devices[c]) = customers[c].row
Agreed(i) == /\ users[i] # NoRow /\ radcheck[i] = users[i].pw
             /\ conf.blk[i] = users[i].pw /\ charon[i] = users[i].pw

\* An identity that reads like a customer's name.  Whoever deletes the customer
\* of that name takes its radcheck row and its block away (delete_customer).
Namesake(i) == i \in Names

\* After every request has ended, an active customer has one secret, and the
\* users table, FreeRADIUS, the file and charon agree on it: the secret that
\* the modal showed once is the one that connects.  Namesakes keep their users
\* row and no more than that.
InSync ==
  Quiet => \A c \in Names : Status(c) = "active" =>
    \E i \in Ids : Whose(c, i) /\ (Namesake(i) \/ Agreed(i))

\* /orphans finds no drift: no radcheck password outside a whole chain of
\* users, devices and customers rows, no users row without device or (but for
\* namesakes) radcheck, no device of a deleted customer, no customer without
\* device; and (which /orphans does not look at) no block or loaded secret
\* without users row.
NoDrift ==
  Quiet =>
    /\ \A i \in Ids :
         /\ radcheck[i] \in Secrets =>
              \E c \in Names : /\ users[i] # NoRow /\ customers[c] # NoRow
                               /\ RowOf(devices[c]) = users[i].row
                               /\ RowOf(customers[c]) = users[i].row
         /\ users[i] # NoRow =>
              /\ Namesake(i) \/ radcheck[i] # NoRow
              /\ \E c \in Names : RowOf(devices[c]) = users[i].row
         /\ users[i] = NoRow => conf.blk[i] = NoRow /\ charon[i] = NoRow
    /\ \A c \in Names : RowOf(devices[c]) = RowOf(customers[c])

\* An archived customer is one FreeRADIUS rejects.
ArchivedRejected ==
  Quiet => \A c \in Names, i \in Ids :
    Status(c) = "archived" /\ RowOf(users[i]) = customers[c].row
      => radcheck[i] \in {Disabled, NoRow}

\* However requests interleave and fail, no device points to a customer that
\* was deleted: the order of the deletes and the transaction see to it.
NoPhantomDevice ==
  \A c \in Names : devices[c] # NoRow => RowOf(customers[c]) = devices[c].row

\* However requests interleave and fail, and although the file is written
\* whole from copies that may be stale, no store, no file copy and no charon
\* ever holds under one identity a secret that was generated for another.  (A
\* mark in a secret's place is nobody's; a block has one after a quota cut.)
OwnSecrets ==
  \A i \in Ids :
    LET own == Made(i) \union {NoRow, Disabled} IN
    /\ users[i] # NoRow => users[i].pw \in Made(i)
    /\ radcheck[i] \in own
    /\ conf.blk[i] \in own
    /\ charon[i] \in own
    /\ \A w \in Requests : snap[w].blk[i] \in own

Begun == {w \in Requests : at[w] # "idle"}

\* Creating is all or nothing in the database, and a customer the database
\* knows has its block on the gateway, whichever one step fails or crashes, as
\* long as nobody does anything but create this one identity.
CreatedWhole ==
  \A c \in Names :
    /\ customers[c] # NoRow
    /\ \A w \in Begun : cust[w] = c /\ row[w] = NoRow
    /\ \A v, w \in Begun : id[v] = id[w]
    => \E i \in Ids : /\ RowOf(users[i]) = customers[c].row
                      /\ RowOf(devices[c]) = customers[c].row
                      /\ radcheck[i] = users[i].pw /\ conf.blk[i] = users[i].pw

\* Some request in progress can always go on: the transaction of a create is
\* over once the request has ended, however it ended, so that nobody waits for
\* its unique keys for ever.
NoDeadlock ==
  (\E w \in Requests : Running(w)) => \E w \in Requests : ENABLED Later(w)
-----------------------------------------------------------------------------
(* The requests as their operator sees them (Accounts).                    *)
Account == [c \in Names |->
  IF customers[c] = NoRow \/ devices[c] = NoRow THEN NoRow
  ELSE [id |-> Identity(c, devices[c].name), active |-> customers[c].status = "active"]]

\* The gateway's connection asks FreeRADIUS alone (rw-eap.conf.example).
Login == [i \in Ids |-> IF radcheck[i] \in Secrets THEN radcheck[i] ELSE NoRow]

Served == {cust[w] : w \in {v \in Requests : Running(v)}}
\* A secret is spent when its request has ended, and that of an unarchiving
\* when FreeRADIUS has it.
Spent == Ids \union {w \in Requests : at[w] \in Ended \union {"unarchive.reload"}}

Promised == INSTANCE Accounts WITH None <- NoRow, account <- Account, login <- Login,
                                   served <- Served, spent <- Spent

\* One request at a time, and with nothing failing, the steps on the four stores
\* come to the promise: a request opens, changes or closes its customer's account
\* and no other's, but that a delete shuts a namesake out; it hands out a secret
\* only once, and leaves nobody who connects but the active customers, and all
\* of these but namesakes.
ImplementsAccounts == Promised!ASpec
=============================================================================
