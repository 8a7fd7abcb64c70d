------------------------------- MODULE BotOps -------------------------------
(***************************************************************************)
(* bot.py: the commands that change customers without going through a      *)
(* handler of app.py: /deleteuser, /cleanup_orphans, /renew_orphan and     *)
(* /renew.  They run in the polling process (or, with a webhook, in any    *)
(* worker), on the stores of Portal and beside its requests.  A command    *)
(* reads, changes the tables in one transaction, and repairs rw-eap.conf   *)
(* afterwards, over ssh.                                                   *)
(*                                                                         *)
(* Left out: the refusal of operator accounts, and that of a customer with *)
(* open sessions, which `force` overrides; the tier and the expiry; the    *)
(* rows of radusergroup and radreply, which go wherever the radcheck rows  *)
(* of the username go.                                                     *)
(***************************************************************************)
EXTENDS Portal

VARIABLE names \* by request: the usernames it has collected

botVars == <<vars, names>>

BotInit == Init /\ names = [w \in Requests |-> {}]

Pairs(s) == {<<i, RowOf(users[i])>> : i \in s}
\* DELETE FROM users WHERE id
DropUsers(w) == users' = [i \in Ids |-> IF <<i, RowOf(users[i])>> \in sweep[w]
                                        THEN NoRow ELSE users[i]]

-----------------------------------------------------------------------------
(* cmd_deleteuser *)

\* Mutant of Linked: an orphan of the customer is nobody's.
LinkedOnly(c) ==
  {i \in Ids : users[i] # NoRow /\ RowOf(users[i]) = RowOf(devices[c])
               /\ Is(devices[c], RowOf(customers[c]))}

\* The users rows of the customer's devices, and the orphans of its name.
Linked(c) == LinkedOnly(c) \union Orphans(c)

\* The SELECTs: what is to go is fixed here.  The bare name is among the
\* usernames whatever the SELECTs find.
DeleteuserCheck(w, c) ==
  /\ "deleteuser" \in Ops
  /\ Begin(w, c, IF customers[c] = NoRow THEN "refused" ELSE "deleteuser.rows")
  /\ sweep' = [sweep EXCEPT ![w] = Pairs(Linked(c))]
  /\ names' = [names EXCEPT ![w] = Linked(c) \union
                    {i \in Ids : i = c \/ (radcheck[i] # NoRow /\ Like(c, i))}]
  /\ UNCHANGED <<tables, gateway, id, snap, bounds>>

\* The transaction: all of the rows or none.
DeleteuserRows(w) ==
  \/ /\ Goto(w, "deleteuser.rows", "deleteuser.read")
     /\ DropRadcheck(names[w]) /\ DropUsers(w)
     /\ devices' = [devices EXCEPT ![cust[w]] = IF Is(@, row[w]) THEN NoRow ELSE @]
     /\ customers' = [customers EXCEPT ![cust[w]] = IF Is(@, row[w]) THEN NoRow ELSE @]
     /\ UNCHANGED <<gateway, locals, bounds>>
  \/ Raise(w, "deleteuser.rows", "error")

\* A file without its sections is not written back, and nobody is told.
DeleteuserRead(w) ==
  ReadThen(w, "deleteuser.read",
       LAMBDA f : IF f.whole THEN "deleteuser.write" ELSE "deleteuser.reload",
       "error")

DeleteuserWrite(w) ==
  Write(w, "deleteuser.write", CutBlocks(snap[w], names[w]), "deleteuser.reload", "error")

DeleteuserReload(w) == Reload(w, "deleteuser.reload", "ok", "error")

-----------------------------------------------------------------------------
(* cmd_cleanup_orphans *)

\* The ids given, or all that have no device: refused when one has a device.
CleanupCheck(w, s) ==
  /\ "cleanup" \in Ops
  /\ s # {} /\ \A i \in s : users[i] # NoRow
  /\ Cardinality({v \in Requests : Running(v)}) < MaxAtOnce
  /\ Goto(w, "idle", IF \E i \in s, n \in Names : RowOf(devices[n]) = users[i].row
                     THEN "refused" ELSE "cleanup.rows")
  /\ sweep' = [sweep EXCEPT ![w] = Pairs(s)]
  /\ names' = [names EXCEPT ![w] = s]
  /\ UNCHANGED <<tables, gateway, cust, row, id, snap, bounds>>

CleanupRows(w) ==
  \/ /\ Goto(w, "cleanup.rows", "cleanup.read")
     /\ DropRadcheck(names[w]) /\ DropUsers(w)
     /\ UNCHANGED <<customers, devices, gateway, locals, bounds>>
  \/ Raise(w, "cleanup.rows", "error")

\* _remove_eap_block, name by name.  "cleanup.again": a block has been
\* removed.  What any of it raises is logged, and the rest is not done.
CleanupRead(w) ==
  /\ at[w] \in {"cleanup.read", "cleanup.again"}
  /\ \E i \in names[w] :
       \/ /\ Read(w)
          /\ id' = [id EXCEPT ![w] = i]
          /\ IF snap'[w].blk[i] # NoRow
             THEN at' = [at EXCEPT ![w] = "cleanup.write"] /\ UNCHANGED names
             ELSE names' = [names EXCEPT ![w] = @ \ {i}] /\ UNCHANGED at
          /\ UNCHANGED <<tables, gateway, cust, row, sweep>>
       \/ Raise(w, at[w], "ok") /\ UNCHANGED names

CleanupWrite(w) ==
  /\ Write(w, "cleanup.write", CutBlock(snap[w], id[w]), "cleanup.again", "ok")
  /\ names' = [names EXCEPT ![w] = @ \ {id[w]}]

\* Mutant of CleanupReload: charon keeps the secrets it has loaded.
CleanupNoReload(w) ==
  /\ names[w] = {} /\ at[w] \in {"cleanup.read", "cleanup.again"}
  /\ at' = [at EXCEPT ![w] = "ok"]
  /\ UNCHANGED <<tables, gateway, locals, bounds>>

CleanupReload(w) ==
  /\ names[w] = {}
  /\ \/ Goto(w, "cleanup.read", "ok") /\ UNCHANGED <<tables, gateway, locals, bounds>>
     \/ Reload(w, "cleanup.again", "ok", "ok")

-----------------------------------------------------------------------------
(* cmd_renew_orphan *)

\* What comes before the first hyphen of an identity, and what comes after.
Before(i) == <<Head(i)>>
After(i) == Tail(i)

OrphanCheck(w, i) ==
  /\ "renew_orphan" \in Ops
  /\ Before(i) \in Names /\ After(i) \in Devs
  /\ Begin(w, Before(i),
           IF /\ users[i] # NoRow /\ customers[Before(i)] = NoRow
              /\ \A n \in Names : RowOf(devices[n]) # users[i].row
           THEN "orphan.rows" ELSE "refused")
  /\ id' = [id EXCEPT ![w] = i]
  /\ sweep' = [sweep EXCEPT ![w] = Pairs({j \in {i} : users[j] # NoRow})]
  /\ UNCHANGED <<tables, gateway, snap, names, bounds>>

\* The transaction, which the unique keys make wait or fail as a create's:
\* the old users row goes, by its id, and a customer, a device, a users row
\* and the radcheck rows are inserted.
OrphanRows(w) ==
  \/ /\ \A v \in Requests : at[v] \in InTx => cust[v] # cust[w] /\ id[v] # id[w]
     /\ IF /\ customers[cust[w]] = NoRow
           /\ users[id[w]] = NoRow \/ <<id[w], RowOf(users[id[w]])>> \in sweep[w]
        THEN /\ Goto(w, "orphan.rows", "orphan.read")
             /\ customers' = [customers EXCEPT ![cust[w]] = [row |-> w, status |-> "active"]]
             /\ users' = [users EXCEPT ![id[w]] = [row |-> w, pw |-> w]]
             /\ devices' = [devices EXCEPT ![cust[w]] = [row |-> w, name |-> After(id[w])]]
             /\ radcheck' = [radcheck EXCEPT ![id[w]] = w]
        ELSE Goto(w, "orphan.rows", "error") /\ UNCHANGED tables
     /\ UNCHANGED <<gateway, locals, bounds>>
  \/ Raise(w, "orphan.rows", "error")

\* The old block is cut out of whatever was read, and that is written back;
\* what these raise is caught.
OrphanRead(w) == ReadThen(w, "orphan.read", LAMBDA f : "orphan.write", "orphan.append")
OrphanWrite(w) ==
  Write(w, "orphan.write", CutBlock(snap[w], id[w]), "orphan.append", "orphan.append")

\* Mutant of OrphanAppend: the block that is there will do.
OrphanAppendUnless(w) ==
  ReadThen(w, "orphan.append",
       LAMBDA f : IF f.blk[id[w]] # NoRow THEN "orphan.reload"
                  ELSE IF f.whole THEN "orphan.put" ELSE "error",
       "error")

\* append_eap_block
OrphanAppend(w) ==
  ReadThen(w, "orphan.append",
       LAMBDA f : IF f.whole /\ f.blk[id[w]] = NoRow THEN "orphan.put" ELSE "error",
       "error")
OrphanPut(w) ==
  Write(w, "orphan.put", PutBlock(snap[w], id[w], w), "orphan.reload", "error")
OrphanReload(w) == Reload(w, "orphan.reload", "ok", "error")

-----------------------------------------------------------------------------
(* cmd_renew: the status, and no more.  Its UPDATE of radcheck is for       *)
(* usernames that begin with DISABLED-, and disable_customer_radcheck       *)
(* writes that mark into the value: there is no such username.              *)

RenewCheck(w, c) ==
  /\ "renew" \in Ops
  /\ Begin(w, c, IF customers[c] # NoRow /\ Is(devices[c], RowOf(customers[c]))
                 THEN "renew.status" ELSE "refused")
  /\ UNCHANGED <<tables, gateway, id, snap, sweep, bounds>>

RenewStatus(w) ==
  \/ /\ Goto(w, "renew.status", "ok")
     /\ SetStatus(w, "active")
     /\ UNCHANGED <<users, devices, radcheck, gateway, locals, bounds>>
  \/ Raise(w, "renew.status", "error")

-----------------------------------------------------------------------------
BotFirst(w) ==
  \/ \E c \in Names : DeleteuserCheck(w, c) \/ (RenewCheck(w, c) /\ UNCHANGED names)
  \/ \E s \in SUBSET Ids : CleanupCheck(w, s)
  \/ \E i \in Ids : OrphanCheck(w, i)

BotLater(w) ==
  \/ CleanupRead(w) \/ CleanupWrite(w)
  \/ /\ \/ DeleteuserRows(w) \/ DeleteuserRead(w) \/ DeleteuserWrite(w)
        \/ DeleteuserReload(w)
        \/ CleanupRows(w) \/ CleanupReload(w)
        \/ OrphanRows(w) \/ OrphanRead(w) \/ OrphanWrite(w) \/ OrphanAppend(w)
        \/ OrphanPut(w) \/ OrphanReload(w)
        \/ RenewStatus(w)
     /\ UNCHANGED names

PortalStep(w) == (First(w) \/ Later(w) \/ Crash(w)) /\ UNCHANGED names

BotNext == \E w \in Requests : PortalStep(w) \/ BotFirst(w) \/ BotLater(w)
BotSpec == BotInit /\ [][BotNext]_botVars

-----------------------------------------------------------------------------
\* Ends(w, p): the request's last step, in which it reports success.
Ends(w, p) == at[w] \in p /\ at'[w] = "ok"

\* "Delete a customer + sweep ALL associated auth": when /deleteuser reports
\* success no identity of the customer has a users or a radcheck row, under
\* whichever device names it was created and renamed; and of the identities
\* that had one, unless a command has failed, none has a block or a secret
\* loaded.  (A block that has outlived its rows it does not look for.)
\* (cmd_deleteuser)
DeletedGone ==
  [][\A w \in Requests : Ends(w, {"deleteuser.reload"}) =>
       /\ customers'[cust[w]] = NoRow /\ devices'[cust[w]] = NoRow
       /\ \A i \in Ids : Like(cust[w], i) => users'[i] = NoRow /\ radcheck'[i] = NoRow
       /\ faults = 0 =>
            \A i \in names[w] : conf'.blk[i] = NoRow /\ charon'[i] = NoRow]_botVars

\* "a retired identity must leave no trace in the strongSwan config": when
\* /cleanup_orphans reports success, and no command has failed, neither the
\* tables nor the file nor charon know the identities.  (cmd_cleanup_orphans)
RetiredGone ==
  [][\A w \in Requests :
       Ends(w, {"cleanup.read", "cleanup.again"}) /\ faults' = 0 =>
         \A s \in sweep[w] : /\ users'[s[1]] = NoRow /\ radcheck'[s[1]] = NoRow
                             /\ conf'.blk[s[1]] = NoRow /\ charon'[s[1]] = NoRow]_botVars

\* The password that /renew_orphan shows once connects, whatever failed and
\* was passed over before.  (cmd_renew_orphan)
RenewedConnects ==
  [][\A w \in Requests : Ends(w, {"orphan.reload"}) =>
       /\ customers'[cust[w]] = [row |-> w, status |-> "active"]
       /\ users'[id[w]] = [row |-> w, pw |-> w] /\ radcheck'[id[w]] = w
       /\ conf'.blk[id[w]] = w /\ charon'[id[w]] = w]_botVars

\* The file keeps its sections: "absence of either means the file is corrupted
\* and rewriting it would lose the connection profile" (append_eap_block).  Of
\* all that read it as empty when the command fails, only the clean-up of a
\* failed create and that of /renew_orphan write this back.
SectionsKept ==
  [][conf.whole /\ ~conf'.whole =>
       \E w \in Requests : at[w] \in {"create.unwrite", "orphan.write"}]_botVars

\* "The radcheck entry is un-disabled": after /renew FreeRADIUS has a password
\* for the customer's identity.  (cmd_renew)
RenewEnables ==
  [][\A w \in Requests : Ends(w, {"renew.status"}) =>
       \A i \in UserIds(row[w]) : radcheck'[i] # Disabled]_botVars

\* A command on one customer leaves the stores of all others as they are.
\* (cmd_deleteuser: "every <customer>-<device> row")
OthersKept ==
  [][\A w \in Requests : at'[w] # at[w] =>
       \A c \in Names \ {cust[w]} : \A i \in UserIds(RowOf(customers[c])) :
         /\ customers'[c] = customers[c]
         /\ users'[i] = users[i] /\ radcheck'[i] = radcheck[i]
         /\ conf'.blk[i] = conf.blk[i]]_botVars
=============================================================================
