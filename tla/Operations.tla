----------------------------- MODULE Operations -----------------------------
(***************************************************************************)
(* Everything that touches a customer's four stores together: the portal's *)
(* requests (Portal), the bot's commands (BotOps), the quota reset and the *)
(* quota monitor's cuts (QuotaReset), each in any worker, one beside the   *)
(* other.                                                                  *)
(***************************************************************************)
EXTENDS BotOps, QuotaReset

quota == <<backups, plain, newest>>
allVars == <<vars, names, quota>>

AllInit == BotInit /\ QuotaInit

AllNext ==
  \/ \E w \in Requests :
       \/ (PortalStep(w) \/ BotFirst(w) \/ BotLater(w)) /\ UNCHANGED quota
       \/ QuotaStep(w) /\ UNCHANGED names
  \/ \E c \in Names : Cut(c) /\ UNCHANGED names

AllSpec == AllInit /\ [][AllNext]_allVars

-----------------------------------------------------------------------------
MorePoints ==
  Points \union
  {"deleteuser.rows", "deleteuser.read", "deleteuser.write", "deleteuser.reload",
   "cleanup.rows", "cleanup.read", "cleanup.again", "cleanup.write",
   "orphan.rows", "orphan.read", "orphan.write", "orphan.append", "orphan.put",
   "orphan.reload", "renew.status",
   "reset.counters", "reset.device", "reset.radcheck", "reset.scan", "reset.enable",
   "reset.again", "reset.conf", "reset.newest", "reset.copy", "reset.reload",
   "reset.audit"}
MarkedFiles == [whole : BOOLEAN, blk : [Ids -> {NoRow, Disabled} \union Secrets]]

AllTypeOK ==
  /\ customers \in [Names -> Customers] /\ users \in [Ids -> Users]
  /\ devices \in [Names -> Devices]
  /\ radcheck \in [Ids -> {NoRow, Disabled} \union Secrets]
  /\ conf \in MarkedFiles /\ charon \in [Ids -> {NoRow, Disabled} \union Secrets]
  /\ at \in [Requests -> MorePoints]
  /\ cust \in [Requests -> Names] /\ row \in [Requests -> {NoRow} \union Rows]
  /\ id \in [Requests -> Ids] /\ snap \in [Requests -> MarkedFiles]
  /\ sweep \in [Requests -> SUBSET (Ids \X Rows)]
  /\ names \in [Requests -> SUBSET Ids]
  /\ backups \in Seq(MarkedFiles) /\ Len(backups) <= MaxCuts
  /\ plain \in [Requests -> {NoRow, Disabled} \union Secrets]
  /\ newest \in [Requests -> 0..MaxCuts]
  /\ faults \in 0..MaxFaults /\ crashes \in 0..MaxCrashes
=============================================================================
