----------------------------- MODULE QuotaReset -----------------------------
(***************************************************************************)
(* app.py: reset_quota, the operator's way to reconnect a customer whom    *)
(* the quota monitor has cut off.  The monitor is not in these sources;    *)
(* the handler's comments say what a cut does: it backs rw-eap.conf up,    *)
(* puts a KILLED- mark in place of the secret in the customer's block and  *)
(* a DISABLED- mark in place of the password in radcheck.  The only        *)
(* plaintext left is in the backup.  The reset gives FreeRADIUS the secret *)
(* it finds there back, and, when the block is marked, copies the newest   *)
(* backup over the live file.                                              *)
(*                                                                         *)
(* Disabled stands for both marks.  Left out: the usage counters, the      *)
(* iptables counters and the monitor's session file.                       *)
(***************************************************************************)
EXTENDS Portal

CONSTANT MaxCuts \* bound: cuts of a run; reset_quota looks at ten backups

ASSUME QuotaAssumption == MaxCuts \in 0..10

VARIABLES backups,     \* .backups/rw-eap.conf.bak-quotamon-<epoch>, oldest first
          plain, newest \* by request: the secret found, and the newest backup

quotaVars == <<vars, backups, plain, newest>>
quotaLocals == <<plain, newest>>

QuotaInit == /\ Init
             /\ backups = <<>>
             /\ plain = [w \in Requests |-> NoRow]
             /\ newest = [w \in Requests |-> 0]

\* The quota monitor cuts a customer off who can connect.
Cut(c) ==
  /\ Len(backups) < MaxCuts
  /\ Cardinality({v \in Requests : Running(v)}) < MaxAtOnce
  /\ Status(c) = "active" /\ Is(devices[c], RowOf(customers[c]))
  /\ \E i \in UserIds(RowOf(customers[c])) :
       /\ radcheck[i] \in Secrets
       /\ backups' = Append(backups, conf)
       /\ radcheck' = [radcheck EXCEPT ![i] = Disabled]
       /\ conf' = [conf EXCEPT !.blk[i] = IF @ = NoRow THEN NoRow ELSE Disabled]
       /\ charon' = conf'.blk
  /\ UNCHANGED <<customers, users, devices, at, locals, bounds, quotaLocals>>

-----------------------------------------------------------------------------
(* reset_quota *)

\* The UPDATE of the usage counters is the statement that may raise.
ResetCheck(w, c) ==
  /\ "reset" \in Ops
  /\ Begin(w, c, IF customers[c] = NoRow THEN "refused" ELSE "reset.counters")
  /\ UNCHANGED <<tables, gateway, id, snap, sweep, bounds>>

ResetCounters(w) ==
  \/ /\ Goto(w, "reset.counters", "reset.device")
     /\ UNCHANGED <<tables, gateway, locals, bounds>>
  \/ Raise(w, "reset.counters", "error")

\* _restore_radcheck_from_rw_eap_backup: first the identity, then whether
\* its radcheck row is disabled; where that SELECT raises it goes on.
ResetDevice(w) == FindDevice(w, "reset.device", "reset.radcheck", "reset.again")

ResetRadcheck(w) ==
  \/ /\ Goto(w, "reset.radcheck",
             IF radcheck[id[w]] = Disabled THEN "reset.scan" ELSE "reset.again")
     /\ UNCHANGED <<tables, gateway, locals, bounds>>
  \/ Raise(w, "reset.radcheck", "reset.scan")

Latest(s) == CHOOSE k \in s : \A j \in s : j <= k

\* The backups that have the identity's block, whatever the secret in it.
Holding(i) == {k \in DOMAIN backups : backups[k].blk[i] # NoRow}

\* From the newest backup to the oldest, one whose command fails is skipped;
\* a command that times out raises what nobody catches.  The walk ends at the
\* first with the block.
ResetScan(w) ==
  \/ /\ \E failed \in {{}} \union {{k} : k \in DOMAIN backups} \union {DOMAIN backups} :
          LET found == Holding(id[w]) \ failed IN
          /\ plain' = [plain EXCEPT ![w] =
               IF found = {} THEN NoRow ELSE backups[Latest(found)].blk[id[w]]]
          /\ IF failed = {} THEN UNCHANGED bounds ELSE Fault
     /\ Goto(w, "reset.scan",
             IF plain'[w] \in {NoRow, Disabled} THEN "reset.again" ELSE "reset.enable")
     /\ UNCHANGED <<tables, gateway, locals, newest>>
  \/ Raise(w, "reset.scan", "error") /\ UNCHANGED quotaLocals

\* enable_customer_radcheck; what it raises is caught.
ResetEnable(w) ==
  \/ /\ Goto(w, "reset.enable", "reset.again")
     /\ radcheck' = [radcheck EXCEPT ![id[w]] = plain[w]]
     /\ UNCHANGED <<customers, users, devices, gateway, locals, bounds>>
  \/ Raise(w, "reset.enable", "reset.again")

\* The identity is asked for a second time.
ResetAgain(w) == FindDevice(w, "reset.again", "reset.conf", "reset.audit")

\* Mutant of Marked: the block is looked for by the device's name ("must
\* query the EAP IDENTITY (users.name), not device_name").
MarkedByDevice(w) == \E n \in Names : /\ devices[n] # NoRow /\ id[w] = devices[n].name
                                      /\ conf.blk[id[w]] = Disabled
Marked(w) == conf.blk[id[w]] = Disabled

\* What a command that fails and one that times out lead to: the first is a
\* step of the report, the second raises past it (_run_remote).
Failed == {"reset.audit", "error"}

\* Is the block marked?  What cannot be read has no marks.
ResetConf(w) ==
  \/ /\ Goto(w, "reset.conf", IF Marked(w) THEN "reset.newest" ELSE "reset.audit")
     /\ UNCHANGED <<tables, gateway, locals, bounds>>
  \/ \E to \in Failed : Raise(w, "reset.conf", to)

ResetNewest(w) ==
  /\ \/ /\ newest' = [newest EXCEPT ![w] = Len(backups)]
        /\ Goto(w, "reset.newest", IF backups = <<>> THEN "reset.audit" ELSE "reset.copy")
        /\ UNCHANGED bounds
     \/ Fault /\ (\E to \in Failed : Goto(w, "reset.newest", to)) /\ UNCHANGED newest
  /\ UNCHANGED <<tables, gateway, locals, plain>>

\* cp: the whole file goes back to what it was before the last cut.
ResetCopy(w) == \E to \in Failed :
  Write(w, "reset.copy", backups[newest[w]], "reset.reload", to)
ResetReload(w) == \E to \in Failed :
  Reload(w, "reset.reload", "reset.audit", to)

\* The audit row is the last statement and nobody catches what it raises, nor
\* a time-out of the two commands before it.
ResetAudit(w) ==
  \/ /\ Goto(w, "reset.audit", "ok")
     /\ UNCHANGED <<tables, gateway, locals, bounds>>
  \/ Raise(w, "reset.audit", "error")

-----------------------------------------------------------------------------
ResetLater(w) ==
  \/ ResetScan(w) /\ UNCHANGED backups
  \/ ResetNewest(w) /\ UNCHANGED backups
  \/ /\ \/ ResetCounters(w) \/ ResetDevice(w) \/ ResetRadcheck(w) \/ ResetEnable(w)
        \/ ResetAgain(w) \/ ResetConf(w) \/ ResetCopy(w) \/ ResetReload(w)
        \/ ResetAudit(w)
     /\ UNCHANGED <<backups, quotaLocals>>

QuotaStep(w) ==
  \/ ResetLater(w)
  \/ (\E c \in Names : ResetCheck(w, c)) /\ UNCHANGED <<backups, quotaLocals>>

\* A reset that succeeds after a cut reconnects the customer, unless a command
\* has failed: FreeRADIUS, the block and charon have the password again that
\* users.password is the hash of, whatever has happened to the customer since
\* the cut.  (reset_quota: "safe to run repeatedly")
CutUndone ==
  [][\A w \in Requests :
       /\ at[w] = "reset.audit" /\ at'[w] = "ok" /\ faults = 0
       /\ Status(cust[w]) = "active" /\ Is(devices[cust[w]], row[w])
       => \A i \in UserIds(row[w]) : /\ radcheck[i] = users[i].pw
                                     /\ conf.blk[i] = users[i].pw
                                     /\ charon[i] = users[i].pw]_quotaVars
=============================================================================
