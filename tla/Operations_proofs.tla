-------------------------- MODULE Operations_proofs --------------------------
(***************************************************************************)
(* Proofs about Operations: what Portal_proofs shows of the portal's       *)
(* requests, shown of these together with the bot's commands, the quota    *)
(* reset and the monitor's cuts.                                           *)
(***************************************************************************)
EXTENDS Operations, Portal_proofs

\* AllTypeOK is Shape and the types of what BotOps and QuotaReset add.
Added ==
  /\ names \in [Requests -> SUBSET Ids]
  /\ backups \in Seq(AnyFiles) /\ Len(backups) <= MaxCuts
  /\ plain \in [Requests -> {NoRow, Disabled} \union Secrets]
  /\ newest \in [Requests -> 0..MaxCuts]

LEMMA AllShape ==
  /\ AllTypeOK => Shape /\ Added
  /\ Shape' /\ Added' => AllTypeOK'
BY DEF AllTypeOK, Shape, Added, MorePoints, Anywhere, MarkedFiles, AnyFiles, AnyBlocks

\* The backup that a reset is about to copy is there.
CopyInv == \A w \in Requests : at[w] = "reset.copy" => newest[w] \in DOMAIN backups

\* What comes after the first hyphen of an identity to renew is a device name.
RenewInv == \A w \in Requests : at[w] = "orphan.rows" => After(id[w]) \in Devs

-----------------------------------------------------------------------------
\* Helpers of the bot.
LEMMA PairsType ==
  ASSUME Shape, NEW s \in SUBSET Ids, \A i \in s : users[i] # NoRow
  PROVE  Pairs(s) \subseteq Ids \X Rows
BY DEF Pairs, Shape, Users, RowOf

LEMMA LinkedType ==
  ASSUME NEW c PROVE Linked(c) \subseteq Ids /\ \A i \in Linked(c) : users[i] # NoRow
BY DEF Linked, LinkedOnly, Orphans

\* The rows of identities, deleted.
LEMMA DropType ==
  ASSUME Shape, NEW w \in Requests, NEW s, DropRadcheck(s), DropUsers(w)
  PROVE  /\ users' \in [Ids -> Users] /\ radcheck' \in [Ids -> {NoRow, Disabled} \union Secrets]
         /\ \A i \in Ids : users'[i] \in {users[i], NoRow}
         /\ \A i \in Ids : radcheck'[i] \in {radcheck[i], NoRow}
BY DEF DropRadcheck, DropUsers, Shape, Users

LEMMA BotReads ==
  ASSUME NEW w \in Requests, DeleteuserRead(w) \/ OrphanRead(w) \/ OrphanAppend(w)
  PROVE  ReadStep(w)
<1>1. CASE DeleteuserRead(w)
  BY <1>1 DEF DeleteuserRead, Read, ReadThen, Raise, ReadStep, Goto, ReadNext,
              tables, gateway, locals
<1>2. CASE OrphanRead(w)
  BY <1>2 DEF OrphanRead, Read, ReadThen, Raise, ReadStep, Goto, ReadNext,
              tables, gateway, locals
<1>3. CASE OrphanAppend(w)
  BY <1>3 DEF OrphanAppend, Read, ReadThen, Raise, ReadStep, Goto, ReadNext,
              tables, gateway, locals
<1>4. QED
  BY <1>1, <1>2, <1>3

LEMMA DeleteuserShape ==
  ASSUME Shape, NEW w \in Requests, names \in [Requests -> SUBSET Ids],
         \/ \E c \in Names : DeleteuserCheck(w, c)
         \/ DeleteuserRows(w) \/ DeleteuserRead(w) \/ DeleteuserWrite(w)
         \/ DeleteuserReload(w)
  PROVE  Shape'
<1>1. ASSUME NEW c \in Names, DeleteuserCheck(w, c) PROVE Shape'
  <2>1. /\ at' \in [Requests -> Anywhere] /\ cust' \in [Requests -> Names]
        /\ row' \in [Requests -> {NoRow} \union Rows]
    BY <1>1, BeginType DEF DeleteuserCheck, Anywhere, Points
  <2>2. sweep' \in [Requests -> SUBSET (Ids \X Rows)]
    BY <1>1, LinkedType, PairsType DEF DeleteuserCheck, Shape
  <2>3. UNCHANGED <<customers, users, devices, radcheck, conf, charon, id, snap,
                    faults, crashes>>
    BY <1>1 DEF DeleteuserCheck, tables, gateway, bounds
  <2>4. QED
    BY <2>1, <2>2, <2>3 DEF Shape
<1>2. CASE DeleteuserRows(w)
  <2>1. CASE Raise(w, "deleteuser.rows", "error")
    BY <2>1, RaiseType DEF Anywhere, Points
  <2>2. CASE ~Raise(w, "deleteuser.rows", "error")
    <3>1. at' \in [Requests -> Anywhere]
      BY <1>2, <2>2, GotoType DEF DeleteuserRows, Anywhere
    <3>2. users' \in [Ids -> Users] /\ radcheck' \in [Ids -> {NoRow, Disabled} \union Secrets]
      BY <1>2, <2>2, DropType DEF DeleteuserRows
    <3>3. customers' \in [Names -> Customers] /\ devices' \in [Names -> Devices]
      BY <1>2, <2>2 DEF DeleteuserRows, Shape, Customers, Devices
    <3>4. UNCHANGED <<conf, charon, cust, row, id, snap, sweep, faults, crashes>>
      BY <1>2, <2>2 DEF DeleteuserRows, gateway, locals, bounds
    <3>5. QED
      BY <3>1, <3>2, <3>3, <3>4 DEF Shape
  <2>3. QED
    BY <2>1, <2>2
<1>3. CASE DeleteuserRead(w)
  BY <1>3, BotReads, ReadType
<1>4. CASE DeleteuserWrite(w)
  <2>1. CutBlocks(snap[w], names[w]) \in AnyFiles
    BY CutBlocksType DEF Shape
  <2>2. QED
    BY <1>4, <2>1, WriteType DEF DeleteuserWrite, Anywhere, Points
<1>5. CASE DeleteuserReload(w)
  BY <1>5, ReloadType DEF DeleteuserReload, Anywhere, Points
<1>6. QED
  BY <1>1, <1>2, <1>3, <1>4, <1>5

LEMMA CleanupShape ==
  ASSUME Shape, NEW w \in Requests, names \in [Requests -> SUBSET Ids],
         \/ \E s \in SUBSET Ids : CleanupCheck(w, s)
         \/ CleanupRows(w) \/ CleanupRead(w) \/ CleanupWrite(w) \/ CleanupReload(w)
  PROVE  Shape'
<1>1. ASSUME NEW s \in SUBSET Ids, CleanupCheck(w, s) PROVE Shape'
  <2>1. at' \in [Requests -> Anywhere]
    BY <1>1, GotoType DEF CleanupCheck, Anywhere, Points
  <2>2. sweep' \in [Requests -> SUBSET (Ids \X Rows)]
    BY <1>1, PairsType DEF CleanupCheck, Shape
  <2>3. UNCHANGED <<customers, users, devices, radcheck, conf, charon, cust, row, id,
                    snap, faults, crashes>>
    BY <1>1 DEF CleanupCheck, tables, gateway, bounds
  <2>4. QED
    BY <2>1, <2>2, <2>3 DEF Shape
<1>2. CASE CleanupRows(w)
  <2>1. CASE Raise(w, "cleanup.rows", "error")
    BY <2>1, RaiseType DEF Anywhere, Points
  <2>2. CASE ~Raise(w, "cleanup.rows", "error")
    <3>1. at' \in [Requests -> Anywhere]
      BY <1>2, <2>2, GotoType DEF CleanupRows, Anywhere
    <3>2. users' \in [Ids -> Users] /\ radcheck' \in [Ids -> {NoRow, Disabled} \union Secrets]
      BY <1>2, <2>2, DropType DEF CleanupRows
    <3>3. UNCHANGED <<customers, devices, conf, charon, cust, row, id, snap, sweep,
                      faults, crashes>>
      BY <1>2, <2>2 DEF CleanupRows, gateway, locals, bounds
    <3>4. QED
      BY <3>1, <3>2, <3>3 DEF Shape
  <2>3. QED
    BY <2>1, <2>2
<1>3. ASSUME NEW i \in names[w], Raise(w, at[w], "ok") PROVE Shape'
  BY <1>3, RaiseType DEF Anywhere, Points
<1>4. ASSUME NEW i \in names[w], Read(w), id' = [id EXCEPT ![w] = i],
             at' = [at EXCEPT ![w] = "cleanup.write"] \/ UNCHANGED at,
             UNCHANGED <<tables, gateway, cust, row, sweep>>
      PROVE  Shape'
  <2>1. i \in Ids /\ conf \in AnyFiles /\ Empty \in AnyFiles
    BY EmptyType DEF Shape
  <2>2. faults' \in 0..MaxFaults /\ crashes' \in 0..MaxCrashes
    BY <1>4, FaultType DEF Read
  <2>3. snap' \in [Requests -> AnyFiles] /\ id' \in [Requests -> Ids]
    BY <1>4, <2>1 DEF Read, Shape
  <2>4. at' \in [Requests -> Anywhere]
    BY <1>4 DEF Shape, Anywhere
  <2>5. QED
    BY <1>4, <2>2, <2>3, <2>4 DEF Shape, tables, gateway
<1>5. CASE CleanupRead(w)
  BY <1>3, <1>4, <1>5 DEF CleanupRead
<1>6. CASE CleanupWrite(w)
  BY <1>6, BlocksType, WriteType DEF CleanupWrite, Anywhere, Points
<1>7. CASE CleanupReload(w)
  <2>1. CASE Goto(w, "cleanup.read", "ok") /\ UNCHANGED <<tables, gateway, locals, bounds>>
    <3>1. at' \in [Requests -> Anywhere]
      BY <2>1, GotoType DEF Anywhere, Points
    <3>2. QED
      BY <2>1, <3>1 DEF Shape, tables, gateway, locals, bounds
  <2>2. CASE Reload(w, "cleanup.again", "ok", "ok")
    BY <2>2, ReloadType DEF Anywhere, Points
  <2>3. QED
    BY <1>7, <2>1, <2>2 DEF CleanupReload
<1>8. QED
  BY <1>1, <1>2, <1>5, <1>6, <1>7

LEMMA OrphanShape ==
  ASSUME Shape, RenewInv, NEW w \in Requests,
         \/ \E i \in Ids : OrphanCheck(w, i)
         \/ OrphanRows(w) \/ OrphanRead(w) \/ OrphanWrite(w) \/ OrphanAppend(w)
         \/ OrphanPut(w) \/ OrphanReload(w)
  PROVE  Shape'
<1>1. ASSUME NEW i \in Ids, OrphanCheck(w, i) PROVE Shape'
  <2>1. /\ at' \in [Requests -> Anywhere] /\ cust' \in [Requests -> Names]
        /\ row' \in [Requests -> {NoRow} \union Rows]
    <3>1. \E to \in {"orphan.rows", "refused"} : Begin(w, Before(i), to)
      BY <1>1 DEF OrphanCheck
    <3>2. Before(i) \in Names
      BY <1>1 DEF OrphanCheck
    <3>3. QED
      BY <3>1, <3>2, BeginType DEF Anywhere, Points
  <2>2. sweep' \in [Requests -> SUBSET (Ids \X Rows)]
    <3>1. Pairs({j \in {i} : users[j] # NoRow}) \subseteq Ids \X Rows
      BY PairsType
    <3>2. QED
      BY <1>1, <3>1 DEF OrphanCheck, Shape
  <2>3. id' \in [Requests -> Ids]
    BY <1>1 DEF OrphanCheck, Shape
  <2>4. UNCHANGED <<customers, users, devices, radcheck, conf, charon, snap, faults, crashes>>
    BY <1>1 DEF OrphanCheck, tables, gateway, bounds
  <2>5. QED
    BY <2>1, <2>2, <2>3, <2>4 DEF Shape
<1>2. CASE OrphanRows(w)
  <2>1. CASE Raise(w, "orphan.rows", "error")
    BY <2>1, RaiseType DEF Anywhere, Points
  <2>2. CASE Goto(w, "orphan.rows", "error") /\ UNCHANGED tables
             /\ UNCHANGED <<gateway, locals, bounds>>
    <3>1. at' \in [Requests -> Anywhere]
      BY <2>2, GotoType DEF Anywhere, Points
    <3>2. QED
      BY <2>2, <3>1 DEF Shape, tables, gateway, locals, bounds
  <2>3. CASE /\ Goto(w, "orphan.rows", "orphan.read")
             /\ customers' = [customers EXCEPT ![cust[w]] = [row |-> w, status |-> "active"]]
             /\ users' = [users EXCEPT ![id[w]] = [row |-> w, pw |-> w]]
             /\ devices' = [devices EXCEPT ![cust[w]] = [row |-> w, name |-> After(id[w])]]
             /\ radcheck' = [radcheck EXCEPT ![id[w]] = w]
             /\ UNCHANGED <<gateway, locals, bounds>>
    <3>1. at' \in [Requests -> Anywhere]
      BY <2>3, GotoType DEF Anywhere
    <3>2. w \in Rows /\ w \in Secrets /\ After(id[w]) \in Devs
      BY <2>3 DEF Rows, Secrets, Goto, RenewInv
    <3>3. customers' \in [Names -> Customers]
      BY <2>3, <3>2 DEF Shape, Customers
    <3>4. devices' \in [Names -> Devices]
      BY <2>3, <3>2 DEF Shape, Devices
    <3>5. users' \in [Ids -> Users] /\ radcheck' \in [Ids -> {NoRow, Disabled} \union Secrets]
      BY <2>3, <3>2 DEF Shape, Users
    <3>6. QED
      BY <2>3, <3>1, <3>3, <3>4, <3>5 DEF Shape, gateway, locals, bounds
  <2>4. QED
    BY <1>2, <2>1, <2>2, <2>3 DEF OrphanRows
<1>3. CASE OrphanRead(w) \/ OrphanAppend(w)
  BY <1>3, BotReads, ReadType
<1>4. CASE OrphanWrite(w) \/ OrphanPut(w)
  BY <1>4, BlocksType, WriteType DEF OrphanWrite, OrphanPut, Anywhere, Points
<1>5. CASE OrphanReload(w)
  BY <1>5, ReloadType DEF OrphanReload, Anywhere, Points
<1>6. QED
  BY <1>1, <1>2, <1>3, <1>4, <1>5

LEMMA RenewShape ==
  ASSUME Shape, NEW w \in Requests,
         (\E c \in Names : RenewCheck(w, c)) \/ RenewStatus(w)
  PROVE  Shape'
<1>1. ASSUME NEW c \in Names, RenewCheck(w, c) PROVE Shape'
  <2>1. /\ at' \in [Requests -> Anywhere] /\ cust' \in [Requests -> Names]
        /\ row' \in [Requests -> {NoRow} \union Rows]
    BY <1>1, BeginType DEF RenewCheck, Anywhere, Points
  <2>2. QED
    BY <1>1, <2>1 DEF RenewCheck, Shape, tables, gateway, bounds
<1>2. CASE RenewStatus(w)
  BY <1>2, RaiseType, SetStatusType DEF RenewStatus, Anywhere, Points
<1>3. QED
  BY <1>1, <1>2

LEMMA BotNames ==
  ASSUME names \in [Requests -> SUBSET Ids], NEW w \in Requests, BotFirst(w) \/ BotLater(w)
  PROVE  names' \in [Requests -> SUBSET Ids]
<1>1. CASE BotFirst(w)
  BY <1>1, LinkedType DEF BotFirst, DeleteuserCheck, CleanupCheck, OrphanCheck
<1>2. CASE BotLater(w)
  BY <1>2 DEF BotLater, CleanupRead, CleanupWrite
<1>3. QED
  BY <1>1, <1>2

LEMMA BotShape ==
  ASSUME Shape, RenewInv, names \in [Requests -> SUBSET Ids], NEW w \in Requests,
         BotFirst(w) \/ BotLater(w)
  PROVE  Shape'
<1>1. CASE BotFirst(w)
  BY <1>1, DeleteuserShape, CleanupShape, OrphanShape, RenewShape DEF BotFirst
<1>2. CASE BotLater(w)
  BY <1>2, DeleteuserShape, CleanupShape, OrphanShape, RenewShape DEF BotLater
<1>3. QED
  BY <1>1, <1>2

-----------------------------------------------------------------------------
\* The commands of the bot do to the secrets what requests of the portal do.
LEMMA DeleteuserEffect ==
  ASSUME Shape, NEW w \in Requests,
         \/ \E c \in Names : DeleteuserCheck(w, c)
         \/ DeleteuserRows(w) \/ DeleteuserRead(w) \/ DeleteuserWrite(w)
         \/ DeleteuserReload(w)
  PROVE  Effect(w)
<1>1. ASSUME NEW c \in Names, DeleteuserCheck(w, c) PROVE Effect(w)
  <2>1. at[w] \in Early /\ \A v \in Requests \ {w} : at'[v] = at[v]
    BY <1>1, BeginEffect DEF DeleteuserCheck
  <2>2. UNCHANGED <<users, radcheck, conf, charon, id, snap>>
    BY <1>1 DEF DeleteuserCheck, tables, gateway
  <2>3. QED
    BY <2>1, <2>2, EarlyEffect
<1>2. CASE DeleteuserRows(w)
  <2>1. CASE Raise(w, "deleteuser.rows", "error")
    BY <2>1, RaiseEffect DEF Early
  <2>2. CASE ~Raise(w, "deleteuser.rows", "error")
    <3>1. UNCHANGED <<conf, charon, id, snap>>
      BY <1>2, <2>2 DEF DeleteuserRows, gateway, locals
    <3>2. /\ \A i \in Ids : users'[i] \in {users[i], NoRow}
          /\ \A i \in Ids : radcheck'[i] \in {radcheck[i], NoRow}
      BY <1>2, <2>2, DropType DEF DeleteuserRows
    <3>3. QED
      BY <1>2, <2>2, <3>1, <3>2, QuietEffect DEF DeleteuserRows, Early
  <2>3. QED
    BY <2>1, <2>2
<1>3. CASE DeleteuserRead(w)
  BY <1>3, BotReads, ReadEffect
<1>4. CASE DeleteuserWrite(w)
  <2>1. \A i \in Ids : CutBlocks(snap[w], names[w]).blk[i] \in {snap[w].blk[i], NoRow}
    BY CutBlocksType DEF Shape
  <2>2. QED
    BY <1>4, <2>1, WriteEffect DEF DeleteuserWrite, Early
<1>5. CASE DeleteuserReload(w)
  BY <1>5, ReloadEffect DEF DeleteuserReload, Early
<1>6. QED
  BY <1>1, <1>2, <1>3, <1>4, <1>5

LEMMA CleanupEffect ==
  ASSUME Shape, NEW w \in Requests,
         \/ \E s \in SUBSET Ids : CleanupCheck(w, s)
         \/ CleanupRows(w) \/ CleanupRead(w) \/ CleanupWrite(w) \/ CleanupReload(w)
  PROVE  Effect(w)
<1>1. ASSUME NEW s \in SUBSET Ids, CleanupCheck(w, s) PROVE Effect(w)
  <2>1. at[w] \in Early /\ \A v \in Requests \ {w} : at'[v] = at[v]
    BY <1>1 DEF CleanupCheck, Goto, Early, Shape
  <2>2. UNCHANGED <<users, radcheck, conf, charon, id, snap>>
    BY <1>1 DEF CleanupCheck, tables, gateway
  <2>3. QED
    BY <2>1, <2>2, EarlyEffect
<1>2. CASE CleanupRows(w)
  <2>1. CASE Raise(w, "cleanup.rows", "error")
    BY <2>1, RaiseEffect DEF Early
  <2>2. CASE ~Raise(w, "cleanup.rows", "error")
    <3>1. at[w] \in Early /\ \A v \in Requests \ {w} : at'[v] = at[v]
      BY <1>2, <2>2 DEF CleanupRows, Goto, Early, Shape
    <3>2. UNCHANGED <<conf, charon, id, snap>>
      BY <1>2, <2>2 DEF CleanupRows, gateway, locals
    <3>3. /\ \A i \in Ids : users'[i] \in {users[i], NoRow}
          /\ \A i \in Ids : radcheck'[i] \in {radcheck[i], NoRow}
      BY <1>2, <2>2, DropType DEF CleanupRows
    <3>4. QED
      BY <3>1, <3>2, <3>3 DEF Effect
  <2>3. QED
    BY <2>1, <2>2
<1>3. ASSUME NEW i \in names[w], Raise(w, at[w], "ok") PROVE Effect(w)
  BY <1>3, RaiseEffect DEF Early
<1>4. ASSUME at[w] \in {"cleanup.read", "cleanup.again"}, NEW i \in names[w], Read(w),
             id' = [id EXCEPT ![w] = i],
             at' = [at EXCEPT ![w] = "cleanup.write"] \/ UNCHANGED at,
             UNCHANGED <<tables, gateway, cust, row, sweep>>
      PROVE  Effect(w)
  <2>1. /\ at[w] \in Early
        /\ \A v \in Requests \ {w} : at'[v] = at[v] /\ id'[v] = id[v]
    BY <1>4 DEF Early, Shape
  <2>2. \A v \in Requests : snap'[v] \in {snap[v], conf, Empty}
    BY <1>4 DEF Read, Shape
  <2>3. \A j \in Ids : Empty.blk[j] = NoRow
    BY EmptyType
  <2>4. QED
    BY <1>4, <2>1, <2>2, <2>3 DEF Effect, tables, gateway
<1>5. CASE CleanupRead(w)
  BY <1>3, <1>4, <1>5 DEF CleanupRead
<1>6. CASE CleanupWrite(w)
  <2>1. at[w] \in Early /\ \A v \in Requests \ {w} : at'[v] = at[v]
    BY <1>6 DEF CleanupWrite, Write, Goto, Early, Shape
  <2>2. \A j \in Ids : CutBlock(snap[w], id[w]).blk[j] \in {snap[w].blk[j], NoRow}
    BY PutType DEF CutBlock, Shape
  <2>3. \A j \in Ids : conf'.blk[j] \in {conf.blk[j], snap[w].blk[j], NoRow}
    BY <1>6, <2>2 DEF CleanupWrite, Write
  <2>4. UNCHANGED <<users, radcheck, charon, id, snap>>
    BY <1>6 DEF CleanupWrite, Write, tables, locals
  <2>5. QED
    BY <2>1, <2>3, <2>4 DEF Effect
<1>7. CASE CleanupReload(w)
  <2>1. CASE Goto(w, "cleanup.read", "ok") /\ UNCHANGED <<tables, gateway, locals, bounds>>
    <3>1. UNCHANGED <<users, radcheck, conf, charon, id, snap>>
      BY <2>1 DEF tables, gateway, locals
    <3>2. QED
      BY <2>1, <3>1, QuietEffect DEF Early
  <2>2. CASE Reload(w, "cleanup.again", "ok", "ok")
    BY <2>2, ReloadEffect DEF Early
  <2>3. QED
    BY <1>7, <2>1, <2>2 DEF CleanupReload
<1>8. QED
  BY <1>1, <1>2, <1>5, <1>6, <1>7

LEMMA OrphanEffect ==
  ASSUME Shape, NEW w \in Requests,
         \/ \E i \in Ids : OrphanCheck(w, i)
         \/ OrphanRows(w) \/ OrphanRead(w) \/ OrphanWrite(w) \/ OrphanAppend(w)
         \/ OrphanPut(w) \/ OrphanReload(w)
  PROVE  Effect(w)
<1>1. ASSUME NEW i \in Ids, OrphanCheck(w, i) PROVE Effect(w)
  <2>1. at[w] \in Early /\ \A v \in Requests \ {w} : at'[v] = at[v]
    BY <1>1, BeginEffect DEF OrphanCheck
  <2>2. \A v \in Requests \ {w} : id'[v] = id[v]
    BY <1>1 DEF OrphanCheck, Shape
  <2>3. UNCHANGED <<users, radcheck, conf, charon, snap>>
    BY <1>1 DEF OrphanCheck, tables, gateway
  <2>4. QED
    BY <2>1, <2>2, <2>3, EarlyEffect
<1>2. CASE OrphanRows(w)
  <2>1. CASE Raise(w, "orphan.rows", "error")
    BY <2>1, RaiseEffect DEF Early
  <2>2. CASE Goto(w, "orphan.rows", "error") /\ UNCHANGED tables
             /\ UNCHANGED <<gateway, locals, bounds>>
    <3>1. UNCHANGED <<users, radcheck, conf, charon, id, snap>>
      BY <2>2 DEF tables, gateway, locals
    <3>2. QED
      BY <2>2, <3>1, QuietEffect DEF Early
  <2>3. CASE /\ Goto(w, "orphan.rows", "orphan.read")
             /\ users' = [users EXCEPT ![id[w]] = [row |-> w, pw |-> w]]
             /\ radcheck' = [radcheck EXCEPT ![id[w]] = w]
             /\ UNCHANGED <<gateway, locals, bounds>>
    <3>1. /\ \A v \in Requests \ {w} : at'[v] = at[v]
          /\ at[w] \notin Early /\ at'[w] \notin Early
      BY <2>3 DEF Goto, Shape, Early
    <3>2. \A i \in Ids : \/ users'[i] = users[i]
                         \/ i = id[w] /\ users'[i].pw = w /\ users'[i].row = w
      BY <2>3 DEF Shape
    <3>3. \A i \in Ids : radcheck'[i] = radcheck[i] \/ (i = id[w] /\ radcheck'[i] = w)
      BY <2>3 DEF Shape
    <3>4. UNCHANGED <<conf, charon, id, snap>>
      BY <2>3 DEF gateway, locals
    <3>5. QED
      BY <3>1, <3>2, <3>3, <3>4 DEF Effect, Mine
  <2>4. QED
    BY <1>2, <2>1, <2>2, <2>3 DEF OrphanRows
<1>3. CASE OrphanRead(w) \/ OrphanAppend(w)
  BY <1>3, BotReads, ReadEffect
<1>4. CASE OrphanWrite(w) \/ OrphanPut(w)
  BY <1>4, BlocksEffect, WriteEffect DEF OrphanWrite, OrphanPut, Early
<1>5. CASE OrphanReload(w)
  BY <1>5, ReloadEffect DEF OrphanReload, Early
<1>6. QED
  BY <1>1, <1>2, <1>3, <1>4, <1>5

LEMMA RenewEffect ==
  ASSUME Shape, NEW w \in Requests,
         (\E c \in Names : RenewCheck(w, c)) \/ RenewStatus(w)
  PROVE  Effect(w)
<1>1. ASSUME NEW c \in Names, RenewCheck(w, c) PROVE Effect(w)
  <2>1. at[w] \in Early /\ \A v \in Requests \ {w} : at'[v] = at[v]
    BY <1>1, BeginEffect DEF RenewCheck
  <2>2. UNCHANGED <<users, radcheck, conf, charon, id, snap>>
    BY <1>1 DEF RenewCheck, tables, gateway
  <2>3. QED
    BY <2>1, <2>2, EarlyEffect
<1>2. CASE RenewStatus(w)
  <2>1. CASE Raise(w, "renew.status", "error")
    BY <2>1, RaiseEffect DEF Early
  <2>2. CASE ~Raise(w, "renew.status", "error")
    <3>1. UNCHANGED <<users, radcheck, conf, charon, id, snap>>
      BY <1>2, <2>2 DEF RenewStatus, gateway, locals
    <3>2. QED
      BY <1>2, <2>2, <3>1, QuietEffect DEF RenewStatus, Early
  <2>3. QED
    BY <2>1, <2>2
<1>3. QED
  BY <1>1, <1>2

LEMMA BotEffect ==
  ASSUME Shape, NEW w \in Requests, BotFirst(w) \/ BotLater(w) PROVE Effect(w)
<1>1. CASE BotFirst(w)
  BY <1>1, DeleteuserEffect, CleanupEffect, OrphanEffect, RenewEffect DEF BotFirst
<1>2. CASE BotLater(w)
  BY <1>2, DeleteuserEffect, CleanupEffect, OrphanEffect, RenewEffect DEF BotLater
<1>3. QED
  BY <1>1, <1>2

\* No command goes to a point of a reset, and /renew_orphan looks at the name.
LEMMA BotGoes ==
  ASSUME Shape, NEW w \in Requests, BotFirst(w) \/ BotLater(w)
  PROVE  /\ at'[w] \notin {"reset.newest", "reset.copy", "reset.enable"}
         /\ at'[w] = "orphan.rows" => After(id'[w]) \in Devs
<1> USE DEF Shape, Goto
<1>1. CASE BotFirst(w)
  BY <1>1 DEF BotFirst, DeleteuserCheck, RenewCheck, CleanupCheck, OrphanCheck, Begin
<1>2. CASE BotLater(w)
  <2>1. CASE CleanupRead(w) \/ CleanupWrite(w) \/ CleanupRows(w) \/ CleanupReload(w)
    BY <2>1 DEF CleanupRead, CleanupWrite, CleanupRows, CleanupReload, Write, Reload, Raise
  <2>2. CASE \/ DeleteuserRows(w) \/ DeleteuserRead(w) \/ DeleteuserWrite(w)
             \/ DeleteuserReload(w) \/ RenewStatus(w)
    BY <2>2 DEF DeleteuserRows, DeleteuserRead, DeleteuserWrite, DeleteuserReload,
                RenewStatus, ReadThen, Write, Reload, Raise
  <2>3. CASE \/ OrphanRows(w) \/ OrphanRead(w) \/ OrphanWrite(w) \/ OrphanAppend(w)
             \/ OrphanPut(w) \/ OrphanReload(w)
    BY <2>3 DEF OrphanRows, OrphanRead, OrphanWrite, OrphanAppend, OrphanPut,
                OrphanReload, ReadThen, Write, Reload, Raise
  <2>4. QED
    BY <1>2, <2>1, <2>2, <2>3 DEF BotLater
<1>3. QED
  BY <1>1, <1>2

-----------------------------------------------------------------------------
\* The quota reset and the cuts.  A set of backups has a newest one.
LEMMA LatestType ==
  ASSUME NEW s, s \subseteq 1..10, s # {} PROVE Latest(s) \in s
<1>1. \E k \in s : \A j \in s : j <= k
  <2>1. CASE \E j \in s : j > 7
    BY <2>1
  <2>2. CASE (\A j \in s : j <= 7) /\ \E j \in s : j > 4
    BY <2>2
  <2>3. CASE (\A j \in s : j <= 4) /\ \E j \in s : j > 1
    BY <2>3
  <2>4. CASE \A j \in s : j <= 1
    <3>1. PICK k \in s : TRUE
      OBVIOUS
    <3>2. QED
      BY <2>4, <3>1
  <2>5. QED
    BY <2>1, <2>2, <2>3, <2>4
<1>2. QED
  BY <1>1 DEF Latest

LEMMA ScanType ==
  ASSUME Added, Shape, NEW w \in Requests, ResetScan(w)
  PROVE  \/ plain' = [plain EXCEPT ![w] = NoRow]
         \/ \E k \in DOMAIN backups :
              plain' = [plain EXCEPT ![w] = backups[k].blk[id[w]]]
         \/ UNCHANGED plain /\ at'[w] = "error"
<1> SUFFICES ASSUME ~(Raise(w, "reset.scan", "error") /\ UNCHANGED quotaLocals)
             PROVE  \/ plain' = [plain EXCEPT ![w] = NoRow]
                    \/ \E k \in DOMAIN backups :
                         plain' = [plain EXCEPT ![w] = backups[k].blk[id[w]]]
  BY DEF Raise, Goto, quotaLocals, Shape
<1>1. PICK failed \in {{}} \union {{k} : k \in DOMAIN backups} \union {DOMAIN backups} :
        plain' = [plain EXCEPT ![w] =
          IF Holding(id[w]) \ failed = {} THEN NoRow
          ELSE backups[Latest(Holding(id[w]) \ failed)].blk[id[w]]]
  BY DEF ResetScan
<1>2. Holding(id[w]) \ failed \subseteq DOMAIN backups
  BY DEF Holding
<1>3. DOMAIN backups \subseteq 1..10
  BY QuotaAssumption DEF Added
<1>4. QED
  BY <1>1, <1>2, <1>3, LatestType

\* Steps of a reset that only go on.
LEMMA MoveShape ==
  ASSUME Shape, NEW w \in Requests, NEW to \in Anywhere, at' = [at EXCEPT ![w] = to],
         Fault \/ UNCHANGED bounds, UNCHANGED <<tables, gateway, locals>>
  PROVE  Shape'
<1>1. faults' \in 0..MaxFaults /\ crashes' \in 0..MaxCrashes
  BY FaultType
<1>2. QED
  BY <1>1 DEF Shape, tables, gateway, locals

LEMMA MoveEffect ==
  ASSUME Shape, NEW w \in Requests, NEW to, at' = [at EXCEPT ![w] = to],
         at[w] \in Early \/ at'[w] \notin Early, UNCHANGED <<tables, gateway, locals>>
  PROVE  Effect(w)
BY DEF Shape, tables, gateway, locals, Effect

\* Where they go.
Moves(w) ==
  \/ ResetCounters(w) \/ ResetRadcheck(w) \/ ResetScan(w) \/ ResetConf(w)
  \/ ResetNewest(w) \/ ResetAudit(w)

LEMMA ResetMoves ==
  ASSUME Shape, NEW w \in Requests, Moves(w)
  PROVE  /\ \E to \in Anywhere : at' = [at EXCEPT ![w] = to]
         /\ at[w] \in Early \/ at'[w] \notin Early
         /\ Fault \/ UNCHANGED bounds
         /\ UNCHANGED <<tables, gateway, locals>>
<1> USE DEF Shape, Anywhere, Points, Early, Goto, Raise, Failed
<1>1. CASE ResetCounters(w)
  BY <1>1 DEF ResetCounters
<1>2. CASE ResetRadcheck(w)
  BY <1>2 DEF ResetRadcheck
<1>3. CASE ResetScan(w)
  BY <1>3 DEF ResetScan
<1>4. CASE ResetConf(w)
  BY <1>4 DEF ResetConf
<1>5. CASE ResetNewest(w)
  BY <1>5 DEF ResetNewest
<1>6. CASE ResetAudit(w)
  BY <1>6 DEF ResetAudit
<1>7. QED
  BY <1>1, <1>2, <1>3, <1>4, <1>5, <1>6 DEF Moves

LEMMA QuotaShape ==
  ASSUME Shape, Added, CopyInv, NEW w \in Requests, QuotaStep(w) PROVE Shape'
<1>1. ASSUME NEW c \in Names, ResetCheck(w, c) PROVE Shape'
  <2>1. /\ at' \in [Requests -> Anywhere] /\ cust' \in [Requests -> Names]
        /\ row' \in [Requests -> {NoRow} \union Rows]
    BY <1>1, BeginType DEF ResetCheck, Anywhere, Points
  <2>2. QED
    BY <1>1, <2>1 DEF ResetCheck, Shape, tables, gateway, bounds
<1>2. CASE Moves(w)
  BY <1>2, ResetMoves, MoveShape
<1>3. CASE ResetDevice(w) \/ ResetAgain(w)
  BY <1>3, FindDeviceType DEF ResetDevice, ResetAgain, Anywhere, Points
<1>4. CASE ResetEnable(w)
  <2>1. CASE Raise(w, "reset.enable", "reset.again")
    BY <2>1, RaiseType DEF Anywhere, Points
  <2>2. CASE ~Raise(w, "reset.enable", "reset.again")
    <3>1. at' \in [Requests -> Anywhere]
      BY <1>4, <2>2, GotoType DEF ResetEnable, Anywhere
    <3>2. radcheck' \in [Ids -> {NoRow, Disabled} \union Secrets]
      BY <1>4, <2>2 DEF ResetEnable, Shape, Added
    <3>3. QED
      BY <1>4, <2>2, <3>1, <3>2 DEF ResetEnable, Shape, gateway, locals, bounds
  <2>3. QED
    BY <2>1, <2>2
<1>5. CASE ResetCopy(w)
  <2>1. at[w] = "reset.copy"
    BY <1>5 DEF ResetCopy, Write, Goto
  <2>2. backups[newest[w]] \in AnyFiles
    BY <2>1 DEF CopyInv, Added
  <2>3. QED
    BY <1>5, <2>2, WriteType DEF ResetCopy, Failed, Anywhere, Points
<1>6. CASE ResetReload(w)
  BY <1>6, ReloadType DEF ResetReload, Failed, Anywhere, Points
<1>7. QED
  BY <1>1, <1>2, <1>3, <1>4, <1>5, <1>6 DEF QuotaStep, ResetLater, Moves

\* What a reset does to its own variables.
LEMMA QuotaAdded ==
  ASSUME Shape, Added, NEW w \in Requests, QuotaStep(w), UNCHANGED names PROVE Added'
<1>1. UNCHANGED backups
  BY DEF QuotaStep, ResetLater
<1>2. CASE ResetScan(w)
  <2>1. UNCHANGED newest
    BY <1>2 DEF ResetScan, quotaLocals
  <2>2. \A k \in DOMAIN backups : backups[k].blk[id[w]] \in {NoRow, Disabled} \union Secrets
    <3>1. \A k \in DOMAIN backups : backups[k] \in AnyFiles
      BY DEF Added
    <3>2. id[w] \in Ids
      BY DEF Shape
    <3>3. QED
      BY <3>1, <3>2 DEF AnyFiles, AnyBlocks
  <2>3. plain' \in [Requests -> {NoRow, Disabled} \union Secrets]
    BY <1>2, <2>2, ScanType DEF Added
  <2>4. QED
    BY <1>1, <2>1, <2>3 DEF Added
<1>3. CASE ResetNewest(w)
  <2>1. Len(backups) \in 0..MaxCuts
    BY QuotaAssumption DEF Added
  <2>2. UNCHANGED plain /\ newest' \in [Requests -> 0..MaxCuts]
    BY <1>3, <2>1 DEF ResetNewest, Added
  <2>3. QED
    BY <1>1, <2>2 DEF Added
<1>4. CASE UNCHANGED quotaLocals
  BY <1>1, <1>4 DEF Added, quotaLocals
<1>5. QED
  BY <1>2, <1>3, <1>4 DEF QuotaStep, ResetLater

LEMMA QuotaGoes ==
  ASSUME Shape, Added, NEW w \in Requests, QuotaStep(w)
  PROVE  /\ \A v \in Requests \ {w} :
              at'[v] = at[v] /\ id'[v] = id[v] /\ newest'[v] = newest[v] /\ plain'[v] = plain[v]
         /\ at'[w] # "orphan.rows"
         /\ at'[w] = "reset.copy" => newest'[w] \in DOMAIN backups
<1> USE DEF Shape, Goto, Added, quotaLocals, Raise, locals, Failed
<1>1. ASSUME NEW c \in Names, ResetCheck(w, c), UNCHANGED quotaLocals
      PROVE  /\ \A v \in Requests \ {w} :
                   at'[v] = at[v] /\ id'[v] = id[v] /\ newest'[v] = newest[v] /\ plain'[v] = plain[v]
             /\ at'[w] # "orphan.rows" /\ at'[w] # "reset.copy"
  BY <1>1 DEF ResetCheck, Begin
<1>2. CASE ResetScan(w)
  BY <1>2 DEF ResetScan
<1>3. CASE ResetNewest(w)
  BY <1>3 DEF ResetNewest
<1>4. ASSUME \/ ResetCounters(w) \/ ResetRadcheck(w) \/ ResetEnable(w) \/ ResetConf(w)
             \/ ResetAudit(w),
             UNCHANGED quotaLocals
      PROVE  /\ \A v \in Requests \ {w} :
                   at'[v] = at[v] /\ id'[v] = id[v] /\ newest'[v] = newest[v] /\ plain'[v] = plain[v]
             /\ at'[w] # "orphan.rows" /\ at'[w] # "reset.copy"
  BY <1>4 DEF ResetCounters, ResetRadcheck, ResetEnable, ResetConf, ResetAudit
<1>5. ASSUME ResetDevice(w) \/ ResetAgain(w) \/ ResetCopy(w) \/ ResetReload(w),
             UNCHANGED quotaLocals
      PROVE  /\ \A v \in Requests \ {w} :
                   at'[v] = at[v] /\ id'[v] = id[v] /\ newest'[v] = newest[v] /\ plain'[v] = plain[v]
             /\ at'[w] # "orphan.rows" /\ at'[w] # "reset.copy"
  BY <1>5 DEF ResetDevice, ResetAgain, ResetCopy, ResetReload, FindDevice, Write, Reload
<1>6. QED
  BY <1>1, <1>2, <1>3, <1>4, <1>5 DEF QuotaStep, ResetLater

\* A cut.
LEMMA MarkType ==
  ASSUME NEW f \in AnyFiles, NEW i \in Ids
  PROVE  LET g == [f EXCEPT !.blk[i] = IF @ = NoRow THEN NoRow ELSE Disabled]
         IN  /\ g \in AnyFiles
             /\ \A j \in Ids : g.blk[j] \in {f.blk[j], NoRow, Disabled}
<1> DEFINE s == IF f.blk[i] = NoRow THEN NoRow ELSE Disabled
           g == [f EXCEPT !.blk[i] = IF @ = NoRow THEN NoRow ELSE Disabled]
<1>1. f.whole \in BOOLEAN /\ f.blk \in AnyBlocks /\ s \in {NoRow, Disabled}
  BY DEF AnyFiles
<1>2. g = [whole |-> f.whole, blk |-> [f.blk EXCEPT ![i] = s]]
  BY <1>1 DEF AnyFiles
<1>3. [f.blk EXCEPT ![i] = s] \in AnyBlocks
  BY <1>1 DEF AnyBlocks
<1>4. \A j \in Ids : [f.blk EXCEPT ![i] = s][j] \in {f.blk[j], NoRow, Disabled}
  BY <1>1 DEF AnyBlocks
<1>5. QED
  BY <1>1, <1>2, <1>3, <1>4 DEF AnyFiles

LEMMA CutStores ==
  ASSUME Shape, NEW c \in Names, Cut(c)
  PROVE  /\ conf' \in AnyFiles /\ charon' = conf'.blk
         /\ radcheck' \in [Ids -> {NoRow, Disabled} \union Secrets]
         /\ backups' = Append(backups, conf) /\ Len(backups) < MaxCuts
         /\ UNCHANGED <<customers, users, devices, at, locals, bounds, quotaLocals>>
         /\ \A j \in Ids : /\ radcheck'[j] \in {radcheck[j], Disabled}
                           /\ conf'.blk[j] \in {conf.blk[j], NoRow, Disabled}
<1>1. PICK i \in UserIds(RowOf(customers[c])) :
        /\ backups' = Append(backups, conf)
        /\ radcheck' = [radcheck EXCEPT ![i] = Disabled]
        /\ conf' = [conf EXCEPT !.blk[i] = IF @ = NoRow THEN NoRow ELSE Disabled]
        /\ charon' = conf'.blk
  BY DEF Cut
<1>2. i \in Ids /\ conf \in AnyFiles
  BY DEF UserIds, Shape
<1>3. conf' \in AnyFiles /\ \A j \in Ids : conf'.blk[j] \in {conf.blk[j], NoRow, Disabled}
  BY <1>1, <1>2, MarkType
<1>4. /\ radcheck' \in [Ids -> {NoRow, Disabled} \union Secrets]
      /\ \A j \in Ids : radcheck'[j] \in {radcheck[j], Disabled}
  BY <1>1, <1>2 DEF Shape
<1>5. QED
  BY <1>1, <1>3, <1>4 DEF Cut

LEMMA CutShape ==
  ASSUME Shape, Added, NEW c \in Names, Cut(c), UNCHANGED names PROVE Shape' /\ Added'
<1>1. charon' \in AnyBlocks
  BY CutStores DEF AnyFiles
<1>2. backups' \in Seq(AnyFiles) /\ Len(backups') <= MaxCuts
  <2>1. backups \in Seq(AnyFiles) /\ conf \in AnyFiles /\ MaxCuts \in Nat
    BY QuotaAssumption DEF Added, Shape
  <2>2. backups' = Append(backups, conf) /\ Len(backups) < MaxCuts
    BY CutStores
  <2>3. QED
    BY <2>1, <2>2
<1>3. QED
  BY <1>1, <1>2, CutStores DEF Shape, Added, locals, bounds, quotaLocals

-----------------------------------------------------------------------------
(* Types.  That the copied backup exists, and that /renew_orphan inserts a  *)
(* device name, makes AllTypeOK inductive.                                  *)
AllInv == AllTypeOK /\ CopyInv /\ RenewInv

LEMMA AllInvInit == AllInit => AllInv
<1> SUFFICES ASSUME AllInit PROVE AllInv
  OBVIOUS
<1>1. TypeOK
  BY TypeInit DEF AllInit, BotInit
<1>2. Shape /\ \A w \in Requests : at[w] = "idle"
  BY <1>1, TypeShape DEF AllInit, BotInit, Init
<1>3. Added
  BY QuotaAssumption DEF AllInit, BotInit, QuotaInit, Added
<1>4. AllTypeOK
  BY <1>2, <1>3 DEF AllTypeOK, Shape, Added, MorePoints, Anywhere, MarkedFiles, AnyFiles,
                    AnyBlocks
<1>5. QED
  BY <1>2, <1>4 DEF AllInv, CopyInv, RenewInv

\* Going on at the points of the portal leaves a reset and a renewal alone.
LEMMA PortalGoes ==
  ASSUME Shape, NEW w \in Requests, First(w) \/ Later(w) \/ Crash(w)
  PROVE  at'[w] \in Points /\ \A v \in Requests \ {w} : at'[v] = at[v]
BY StepGoes DEF Shape

LEMMA AllInvNext == AllInv /\ [AllNext]_allVars => AllInv'
<1> SUFFICES ASSUME AllInv, [AllNext]_allVars PROVE AllInv'
  OBVIOUS
<1>1. Shape /\ Added /\ CopyInv /\ RenewInv
  BY AllShape DEF AllInv
<1>2. ASSUME NEW w \in Requests, PortalStep(w), UNCHANGED quota PROVE AllInv'
  <2>1. Shape' /\ Effect(w)
    BY <1>1, <1>2, StepShape, StepEffect DEF PortalStep
  <2>2. Added'
    BY <1>1, <1>2 DEF PortalStep, quota, Added
  <2>3. \A v \in Requests : at'[v] \in {"reset.copy", "orphan.rows"} => at'[v] = at[v]
    BY <1>1, <1>2, PortalGoes DEF PortalStep, Points
  <2>4. CopyInv'
    BY <1>1, <1>2, <2>3 DEF CopyInv, quota
  <2>5. RenewInv'
    <3>1. \A v \in Requests : at[v] = "orphan.rows" => id'[v] = id[v]
      BY <2>1 DEF Effect, Early
    <3>2. QED
      BY <1>1, <2>3, <3>1 DEF RenewInv
  <2>6. QED
    BY <2>1, <2>2, <2>4, <2>5, AllShape DEF AllInv
<1>3. ASSUME NEW w \in Requests, BotFirst(w) \/ BotLater(w), UNCHANGED quota PROVE AllInv'
  <2>1. names \in [Requests -> SUBSET Ids]
    BY <1>1 DEF Added
  <2>2. Shape' /\ Effect(w) /\ names' \in [Requests -> SUBSET Ids]
    BY <1>1, <1>3, <2>1, BotShape, BotEffect, BotNames
  <2>3. Added'
    BY <1>1, <1>3, <2>2 DEF quota, Added
  <2>4. /\ \A v \in Requests \ {w} : at'[v] = at[v] /\ id'[v] = id[v]
        /\ at'[w] # "reset.copy"
        /\ at'[w] = "orphan.rows" => After(id'[w]) \in Devs
    BY <1>1, <1>3, <2>2, BotGoes DEF Effect
  <2>5. CopyInv' /\ RenewInv'
    BY <1>1, <1>3, <2>4 DEF CopyInv, RenewInv, quota
  <2>6. QED
    BY <2>2, <2>3, <2>5, AllShape DEF AllInv
<1>4. ASSUME NEW w \in Requests, QuotaStep(w), UNCHANGED names PROVE AllInv'
  <2>1. Shape' /\ Added'
    BY <1>1, <1>4, QuotaShape, QuotaAdded
  <2>2. UNCHANGED backups
    BY <1>4 DEF QuotaStep, ResetLater
  <2>3. CopyInv' /\ RenewInv'
    BY <1>1, <1>4, <2>2, QuotaGoes DEF CopyInv, RenewInv
  <2>4. QED
    BY <2>1, <2>3, AllShape DEF AllInv
<1>5. ASSUME NEW c \in Names, Cut(c), UNCHANGED names PROVE AllInv'
  <2>1. Shape' /\ Added'
    BY <1>1, <1>5, CutShape
  <2>2. UNCHANGED <<at, id, newest>> /\ backups' = Append(backups, conf)
    BY <1>1, <1>5, CutStores DEF locals, quotaLocals
  <2>3. DOMAIN backups \subseteq DOMAIN backups'
    BY <1>1, <2>2 DEF Added, Shape
  <2>4. CopyInv' /\ RenewInv'
    BY <1>1, <2>2, <2>3 DEF CopyInv, RenewInv
  <2>5. QED
    BY <2>1, <2>4, AllShape DEF AllInv
<1>6. CASE UNCHANGED allVars
  <2>1. Shape' /\ Added'
    BY <1>1, <1>6 DEF allVars, vars, tables, gateway, locals, bounds, quota, Shape, Added
  <2>2. CopyInv' /\ RenewInv'
    BY <1>1, <1>6 DEF allVars, vars, locals, quota, CopyInv, RenewInv
  <2>3. QED
    BY <2>1, <2>2, AllShape DEF AllInv
<1>7. QED
  BY <1>2, <1>3, <1>4, <1>5, <1>6 DEF AllNext

\* The portal, the bot, the reset and the cuts together keep every store,
\* every backup and every copy that somebody holds to its type.
THEOREM AllTypes == AllSpec => []AllTypeOK
<1>1. AllInv => AllTypeOK
  BY DEF AllInv
<1>2. QED
  BY <1>1, AllInvInit, AllInvNext, PTL DEF AllSpec

-----------------------------------------------------------------------------
(* Secrets stay under the identity they were made for.  Backups of the file *)
(* and the password a reset has found in one count as stores here.          *)
AllOwn ==
  /\ OwnInv
  /\ \A k \in DOMAIN backups, i \in Ids :
       backups[k].blk[i] \in Own(i) \union {NoRow, Disabled}
  /\ \A w \in Requests : at[w] = "reset.enable" =>
       plain[w] \in Own(id[w]) \union {NoRow, Disabled}

\* A step that leaves what others are about alone, and its own identity once
\* it has found it.
Finds(w) ==
  /\ \A v \in Requests \ {w} : at'[v] = at[v] /\ id'[v] = id[v]
  /\ at[w] \notin Early => at'[w] \notin Early /\ id'[w] = id[w]

LEMMA EffectFinds == \A w : Effect(w) => Finds(w)
BY DEF Effect, Finds

LEMMA FindsGrows ==
  ASSUME NEW w \in Requests, Finds(w), NEW i PROVE Own(i) \subseteq Own(i)'
BY DEF Finds, Own

LEMMA QuotaEffect ==
  ASSUME Shape, NEW w \in Requests, QuotaStep(w)
  PROVE  \/ Effect(w)
         \/ ResetEnable(w) /\ ~Raise(w, "reset.enable", "reset.again")
         \/ ResetCopy(w)
<1>1. ASSUME NEW c \in Names, ResetCheck(w, c) PROVE Effect(w)
  <2>1. at[w] \in Early /\ \A v \in Requests \ {w} : at'[v] = at[v]
    BY <1>1, BeginEffect DEF ResetCheck
  <2>2. UNCHANGED <<users, radcheck, conf, charon, id, snap>>
    BY <1>1 DEF ResetCheck, tables, gateway
  <2>3. QED
    BY <2>1, <2>2, EarlyEffect
<1>2. CASE Moves(w)
  BY <1>2, ResetMoves, MoveEffect
<1>3. CASE ResetDevice(w) \/ ResetAgain(w)
  BY <1>3, FindDeviceEffect DEF ResetDevice, ResetAgain, Early
<1>4. CASE Raise(w, "reset.enable", "reset.again")
  <2>1. at' = [at EXCEPT ![w] = "reset.again"] /\ at[w] \in Early
    BY <1>4 DEF Raise, Goto, Early
  <2>2. QED
    BY <1>4, <2>1, MoveEffect DEF Raise
<1>5. CASE ResetReload(w)
  BY <1>5, ReloadEffect DEF ResetReload, Failed, Early
<1>6. QED
  BY <1>1, <1>2, <1>3, <1>4, <1>5 DEF QuotaStep, ResetLater, Moves

\* What is held elsewhere stays with its identity.
LEMMA OwnKept ==
  ASSUME AllOwn, Shape, NEW w \in Requests, Finds(w), UNCHANGED backups,
         \A v \in Requests : at'[v] = "reset.enable" =>
           \/ plain'[v] = plain[v] /\ at[v] = "reset.enable" /\ v # w
           \/ plain'[v] \in Own(id'[v]) \union {NoRow, Disabled},
         OwnInv'
  PROVE  AllOwn'
<1>1. \A i : Own(i) \subseteq Own(i)'
  BY FindsGrows
<1>2. \A k \in DOMAIN backups', i \in Ids :
        backups'[k].blk[i] \in Own(i)' \union {NoRow, Disabled}
  BY <1>1 DEF AllOwn
<1>3. ASSUME NEW v \in Requests, at'[v] = "reset.enable"
      PROVE  plain'[v] \in Own(id[v])' \union {NoRow, Disabled}
  <2>1. plain'[v] \in Own(id'[v]) \union {NoRow, Disabled}
    BY <1>3 DEF AllOwn, Finds
  <2>2. \A i : Own(i) \subseteq {i} \union {u \in Requests : at'[u] \notin Early /\ id'[u] = i}
    BY <1>1 DEF Own
  <2>3. QED
    BY <2>1, <2>2 DEF Own
<1>4. QED
  BY <1>2, <1>3 DEF AllOwn

LEMMA QuotaFinds ==
  ASSUME Shape, NEW w \in Requests, QuotaStep(w) PROVE Finds(w)
<1>1. CASE ResetEnable(w) /\ ~Raise(w, "reset.enable", "reset.again")
  BY <1>1 DEF ResetEnable, Goto, locals, Finds, Early, Shape
<1>2. CASE ResetCopy(w)
  BY <1>2 DEF ResetCopy, Failed, Write, Goto, locals, Finds, Early, Shape
<1>3. QED
  BY <1>1, <1>2, QuotaEffect, EffectFinds

LEMMA AllFinds ==
  ASSUME Shape, NEW w \in Requests, PortalStep(w) \/ BotFirst(w) \/ BotLater(w) \/ QuotaStep(w)
  PROVE  Finds(w)
BY StepEffect, BotEffect, EffectFinds, QuotaFinds DEF PortalStep

LEMMA ResetOwn ==
  ASSUME AllOwn, Shape, Added, CopyInv, NEW w \in Requests, QuotaStep(w), UNCHANGED names
  PROVE  AllOwn'
<1>1. UNCHANGED backups
  BY DEF QuotaStep, ResetLater
<1>2. Finds(w) /\ OwnInv'
  <2>1. CASE Effect(w)
    BY <2>1, EffectFinds, EffectOwn DEF AllOwn
  <2>2. CASE ResetEnable(w) /\ ~Raise(w, "reset.enable", "reset.again")
    <3>1. /\ at[w] = "reset.enable" /\ at' = [at EXCEPT ![w] = "reset.again"]
          /\ radcheck' = [radcheck EXCEPT ![id[w]] = plain[w]]
          /\ UNCHANGED <<users, conf, charon, id, snap>>
      BY <2>2 DEF ResetEnable, Goto, gateway, locals
    <3>2. Finds(w)
      BY QuotaFinds
    <3>3. \A i \in Ids : radcheck'[i] \in Own(i) \union {NoRow, Disabled}
      BY <3>1 DEF AllOwn, OwnInv, Shape
    <3>4. \A i : Own(i) \subseteq Own(i)'
      BY <3>2, FindsGrows
    <3>5. OwnInv'
      BY <3>1, <3>3, <3>4 DEF AllOwn, OwnInv
    <3>6. QED
      BY <3>2, <3>5
  <2>3. CASE ResetCopy(w)
    <3>1. /\ at[w] = "reset.copy" /\ conf' \in {conf, backups[newest[w]]}
          /\ UNCHANGED <<users, radcheck, charon, id, snap>>
      BY <2>3 DEF ResetCopy, Write, Goto, tables, locals
    <3>2. Finds(w)
      BY QuotaFinds
    <3>3. newest[w] \in DOMAIN backups
      BY <3>1 DEF CopyInv
    <3>4. \A i \in Ids : conf'.blk[i] \in Own(i) \union {NoRow, Disabled}
      BY <3>1, <3>3 DEF AllOwn, OwnInv
    <3>5. \A i : Own(i) \subseteq Own(i)'
      BY <3>2, FindsGrows
    <3>6. OwnInv'
      BY <3>1, <3>4, <3>5 DEF AllOwn, OwnInv
    <3>7. QED
      BY <3>2, <3>6
  <2>4. QED
    BY <2>1, <2>2, <2>3, QuotaEffect
<1>3. ASSUME at'[w] = "reset.enable"
      PROVE  plain'[w] \in Own(id'[w]) \union {NoRow, Disabled}
  <2>1. CASE ResetScan(w)
    <3>1. id' = id /\ id[w] \in Ids
      BY <2>1 DEF ResetScan, Raise, locals, Shape
    <3>2. \A k \in DOMAIN backups :
            backups[k].blk[id[w]] \in Own(id[w]) \union {NoRow, Disabled}
      BY <3>1 DEF AllOwn
    <3>3. plain'[w] \in Own(id[w]) \union {NoRow, Disabled}
      BY <1>3, <2>1, <3>2, ScanType DEF Added
    <3>4. QED
      BY <3>1, <3>3
  <2>2. CASE ~ResetScan(w)
    <3> USE DEF Goto, Raise, Shape, Failed
    <3>1. ASSUME NEW c \in Names, ResetCheck(w, c) PROVE FALSE
      BY <1>3, <3>1 DEF ResetCheck, Begin
    <3>2. ~(ResetCounters(w) \/ ResetRadcheck(w) \/ ResetConf(w) \/ ResetNewest(w) \/ ResetAudit(w))
      BY <1>3 DEF ResetCounters, ResetRadcheck, ResetConf, ResetNewest, ResetAudit
    <3>3. ~(\/ ResetDevice(w) \/ ResetAgain(w) \/ ResetCopy(w) \/ ResetReload(w)
            \/ ResetEnable(w))
      BY <1>3 DEF ResetDevice, ResetAgain, ResetCopy, ResetReload, FindDevice, Write,
                  Reload, ResetEnable
    <3>4. QED
      BY <2>2, <3>1, <3>2, <3>3 DEF QuotaStep, ResetLater
  <2>3. QED
    BY <2>1, <2>2
<1>4. \A v \in Requests \ {w} : at'[v] = at[v] /\ plain'[v] = plain[v]
  BY QuotaGoes
<1>5. QED
  BY <1>1, <1>2, <1>3, <1>4, OwnKept

LEMMA CutOwn ==
  ASSUME AllOwn, Shape, Added, NEW c \in Names, Cut(c) PROVE AllOwn'
<1>1. /\ UNCHANGED <<users, at, id, snap, plain>>
      /\ backups' = Append(backups, conf) /\ charon' = conf'.blk
      /\ \A j \in Ids : /\ radcheck'[j] \in {radcheck[j], Disabled}
                        /\ conf'.blk[j] \in {conf.blk[j], NoRow, Disabled}
  BY CutStores DEF locals, quotaLocals
<1>2. \A i : Own(i)' = Own(i)
  BY <1>1 DEF Own
<1>3. OwnInv'
  BY <1>1, <1>2 DEF AllOwn, OwnInv
<1>4. \A k \in DOMAIN backups' : backups'[k] = conf \/ (k \in DOMAIN backups /\ backups'[k] = backups[k])
  BY <1>1 DEF Added, Shape
<1>5. \A k \in DOMAIN backups', i \in Ids :
        backups'[k].blk[i] \in Own(i)' \union {NoRow, Disabled}
  BY <1>2, <1>4 DEF AllOwn, OwnInv
<1>6. QED
  BY <1>1, <1>2, <1>3, <1>5 DEF AllOwn

LEMMA AllOwnNext == AllInv /\ AllOwn /\ [AllNext]_allVars => AllOwn'
<1> SUFFICES ASSUME AllInv, AllOwn, [AllNext]_allVars PROVE AllOwn'
  OBVIOUS
<1>1. Shape /\ Added /\ CopyInv
  BY AllShape DEF AllInv
<1>2. ASSUME NEW w \in Requests, PortalStep(w) \/ BotFirst(w) \/ BotLater(w), UNCHANGED quota
      PROVE  AllOwn'
  <2>1. Effect(w)
    BY <1>1, <1>2, StepEffect, BotEffect DEF PortalStep
  <2>2. OwnInv' /\ Finds(w)
    BY <2>1, EffectOwn, EffectFinds DEF AllOwn
  <2>3. at'[w] # "reset.enable"
    BY <1>1, <1>2, PortalGoes, BotGoes DEF PortalStep, Points
  <2>4. QED
    BY <1>1, <1>2, <2>2, <2>3, OwnKept DEF quota, Finds
<1>3. ASSUME NEW w \in Requests, QuotaStep(w), UNCHANGED names PROVE AllOwn'
  BY <1>1, <1>3, ResetOwn
<1>4. ASSUME NEW c \in Names, Cut(c) PROVE AllOwn'
  BY <1>1, <1>4, CutOwn
<1>5. CASE UNCHANGED allVars
  BY <1>5 DEF allVars, vars, tables, gateway, locals, quota, AllOwn, OwnInv, Own
<1>6. QED
  BY <1>2, <1>3, <1>4, <1>5 DEF AllNext

LEMMA AllOwnInit == AllInit => AllOwn
<1> SUFFICES ASSUME AllInit PROVE AllOwn
  OBVIOUS
<1>1. Init /\ backups = <<>>
  BY DEF AllInit, BotInit, QuotaInit
<1>2. OwnInv
  BY <1>1, OwnInit
<1>3. DOMAIN backups = {} /\ \A w \in Requests : at[w] = "idle"
  BY <1>1 DEF Init
<1>4. QED
  BY <1>2, <1>3 DEF AllOwn

\* No identity holds a secret made for another one, in a table, the file,
\* charon or a copy a request holds, though the reset copies secrets from
\* backup to table and a backup over the file.
THEOREM SecretsStayApartEverywhere == AllSpec => []OwnSecrets
<1>1. AllInit => AllInv /\ AllOwn
  BY AllInvInit, AllOwnInit
<1>2. AllInv /\ AllOwn /\ [AllNext]_allVars => (AllInv /\ AllOwn)'
  BY AllInvNext, AllOwnNext
<1>3. AllOwn => OwnSecrets
  BY OwnMeans DEF AllOwn
<1>4. QED
  BY <1>1, <1>2, <1>3, PTL DEF AllSpec

-----------------------------------------------------------------------------
(* No device without its customer: /deleteuser takes both in one            *)
(* transaction and /renew_orphan inserts both, so RowsInv covers them.      *)
LEMMA DeleteuserRowsStep ==
  ASSUME Shape, NEW w \in Requests,
         \/ \E c \in Names : DeleteuserCheck(w, c)
         \/ DeleteuserRows(w) \/ DeleteuserRead(w) \/ DeleteuserWrite(w)
         \/ DeleteuserReload(w)
  PROVE  RowStep(w)
<1>1. ASSUME NEW c \in Names, DeleteuserCheck(w, c) PROVE RowStep(w)
  <2>1. UNCHANGED customers /\ \A n \in Names : DevRow(n)' = DevRow(n)
    BY <1>1 DEF DeleteuserCheck, tables, DevRow
  <2>2. \E to \in {"refused", "deleteuser.rows"} : Begin(w, c, to)
    BY <1>1 DEF DeleteuserCheck
  <2>3. QED
    BY <2>1, <2>2, BeginRows DEF DevicesGone
<1>2. CASE DeleteuserRows(w)
  <2>1. CASE Raise(w, "deleteuser.rows", "error")
    BY <2>1, RaiseRows DEF Inserted, Ended, DevicesGone
  <2>2. CASE ~Raise(w, "deleteuser.rows", "error")
    <3>1. /\ at[w] = "deleteuser.rows" /\ at'[w] = "deleteuser.read"
          /\ \A v \in Requests \ {w} : at'[v] = at[v]
          /\ UNCHANGED <<cust, row>>
          /\ devices' = [devices EXCEPT ![cust[w]] = IF Is(@, row[w]) THEN NoRow ELSE @]
          /\ customers' = [customers EXCEPT ![cust[w]] = IF Is(@, row[w]) THEN NoRow ELSE @]
      BY <1>2, <2>2 DEF DeleteuserRows, Goto, locals, Shape
    <3>2. \A c \in Names :
            /\ DevRow(c)' \in {DevRow(c), NoRow}
            /\ \/ CustRow(c)' = CustRow(c)
               \/ /\ c = cust[w] /\ CustRow(c) = row[w] /\ CustRow(c)' = NoRow
                  /\ row[w] # NoRow
      <4>1. NoRow \notin Rows
        BY RowOfType
      <4>2. QED
        BY <3>1, <4>1 DEF CustRow, DevRow, RowOf, Is, Shape, Customers
    <3>3. row[w] = NoRow \/ DevRow(cust[w])' # row[w]
      BY <3>1 DEF DevRow, RowOf, Is, Shape
    <3>4. QED
      BY <3>1, <3>2, <3>3 DEF RowStep, DevicesGone, Inserted, Ended
  <2>3. QED
    BY <2>1, <2>2
<1>3. CASE DeleteuserRead(w) \/ DeleteuserWrite(w) \/ DeleteuserReload(w)
  <2> USE DEF Shape, Goto, Raise, tables, gateway, locals, Aside, DevicesGone, Inserted, Ended
  <2>1. CASE DeleteuserRead(w)
    BY <2>1, AsideRows DEF DeleteuserRead, ReadThen
  <2>2. CASE DeleteuserWrite(w) \/ DeleteuserReload(w)
    BY <2>2, AsideRows DEF DeleteuserWrite, DeleteuserReload, Write, Reload
  <2>3. QED
    BY <1>3, <2>1, <2>2
<1>4. QED
  BY <1>1, <1>2, <1>3

LEMMA CleanupAside ==
  ASSUME Shape, NEW w \in Requests,
         \/ \E s \in SUBSET Ids : CleanupCheck(w, s)
         \/ CleanupRows(w) \/ CleanupRead(w) \/ CleanupWrite(w) \/ CleanupReload(w)
  PROVE  Aside(w)
<1> USE DEF Shape, Goto, Raise, tables, gateway, locals, Aside, DevicesGone, Inserted, Ended
<1>1. ASSUME NEW s \in SUBSET Ids, CleanupCheck(w, s) PROVE Aside(w)
  BY <1>1 DEF CleanupCheck
<1>2. CASE CleanupRows(w)
  BY <1>2 DEF CleanupRows
<1>3. CASE CleanupRead(w)
  BY <1>3 DEF CleanupRead
<1>4. CASE CleanupWrite(w)
  BY <1>4 DEF CleanupWrite, Write
<1>5. CASE CleanupReload(w)
  BY <1>5 DEF CleanupReload, Reload
<1>6. QED
  BY <1>1, <1>2, <1>3, <1>4, <1>5

LEMMA OrphanRowsStep ==
  ASSUME Shape, RenewInv, NEW w \in Requests,
         \/ \E i \in Ids : OrphanCheck(w, i)
         \/ OrphanRows(w) \/ OrphanRead(w) \/ OrphanWrite(w) \/ OrphanAppend(w)
         \/ OrphanPut(w) \/ OrphanReload(w)
  PROVE  RowStep(w)
<1>1. ASSUME NEW i \in Ids, OrphanCheck(w, i) PROVE RowStep(w)
  <2>1. UNCHANGED customers /\ \A n \in Names : DevRow(n)' = DevRow(n)
    BY <1>1 DEF OrphanCheck, tables, DevRow
  <2>2. Before(i) \in Names /\ \E to \in {"refused", "orphan.rows"} : Begin(w, Before(i), to)
    BY <1>1 DEF OrphanCheck
  <2>3. QED
    BY <2>1, <2>2, BeginRows DEF DevicesGone
<1>2. CASE OrphanRows(w)
  <2>1. CASE Raise(w, "orphan.rows", "error")
    BY <2>1, RaiseRows DEF Inserted, Ended, DevicesGone
  <2>2. CASE Goto(w, "orphan.rows", "error") /\ UNCHANGED <<tables, gateway, locals, bounds>>
    BY <2>2, AsideRows DEF Goto, Aside, tables, locals, Shape, Inserted, Ended, DevicesGone
  <2>3. CASE /\ Goto(w, "orphan.rows", "orphan.read")
             /\ customers' = [customers EXCEPT ![cust[w]] = [row |-> w, status |-> "active"]]
             /\ devices' = [devices EXCEPT ![cust[w]] = [row |-> w, name |-> After(id[w])]]
             /\ UNCHANGED locals
    <3>1. RowOf([row |-> w, status |-> "active"]) = w /\ RowOf([row |-> w, name |-> After(id[w])]) = w
      <4>1. w \in Secrets /\ After(id[w]) \in Devs
        BY <2>3 DEF Secrets, RenewInv, Goto
      <4>2. QED
        BY <4>1, PortalAssumption DEF RowOf
    <3>2. \A c \in Names : \/ CustRow(c)' = CustRow(c) /\ DevRow(c)' = DevRow(c)
                           \/ c = cust[w] /\ CustRow(c)' = w /\ DevRow(c)' = w
      BY <2>3, <3>1 DEF CustRow, DevRow, Shape
    <3>3. /\ at[w] = "orphan.rows" /\ at[w] \notin Inserted \union Early
          /\ at'[w] \in Inserted /\ at'[w] \notin DevicesGone
          /\ \A v \in Requests \ {w} : at'[v] = at[v]
          /\ UNCHANGED <<cust, row>>
      BY <2>3 DEF Goto, Inserted, Early, Ended, DevicesGone, Shape, locals
    <3>4. QED
      BY <3>2, <3>3 DEF RowStep
  <2>4. QED
    BY <1>2, <2>1, <2>2, <2>3 DEF OrphanRows
<1>3. CASE OrphanRead(w) \/ OrphanAppend(w)
  BY <1>3, AsideRows
     DEF OrphanRead, OrphanAppend, ReadThen, Shape, Goto, Raise, tables, gateway, locals,
         Aside, DevicesGone, Inserted, Ended
<1>4. CASE OrphanWrite(w) \/ OrphanPut(w) \/ OrphanReload(w)
  BY <1>4, AsideRows
     DEF OrphanWrite, OrphanPut, OrphanReload, Write, Reload, Shape, Goto, Raise, tables,
         gateway, locals, Aside, DevicesGone, Inserted, Ended
<1>5. QED
  BY <1>1, <1>2, <1>3, <1>4

LEMMA RenewRows ==
  ASSUME Shape, NEW w \in Requests, RenewStatus(w) \/ \E c \in Names : RenewCheck(w, c)
  PROVE  RowStep(w)
<1>1. ASSUME NEW c \in Names, RenewCheck(w, c) PROVE RowStep(w)
  <2>1. UNCHANGED customers /\ \A n \in Names : DevRow(n)' = DevRow(n)
    BY <1>1 DEF RenewCheck, tables, DevRow
  <2>2. \E to \in {"refused", "renew.status"} : Begin(w, c, to)
    BY <1>1 DEF RenewCheck
  <2>3. QED
    BY <2>1, <2>2, BeginRows DEF DevicesGone
<1>2. CASE RenewStatus(w)
  <2>1. CASE Raise(w, "renew.status", "error")
    BY <2>1, RaiseRows DEF Inserted, Ended, DevicesGone
  <2>2. CASE ~Raise(w, "renew.status", "error")
    BY <1>2, <2>2, SetStatusRows DEF RenewStatus, locals, Inserted, Ended, DevicesGone
  <2>3. QED
    BY <2>1, <2>2
<1>3. QED
  BY <1>1, <1>2

LEMMA QuotaRows ==
  ASSUME Shape, NEW w \in Requests, QuotaStep(w) PROVE RowStep(w)
<1>1. ASSUME NEW c \in Names, ResetCheck(w, c) PROVE RowStep(w)
  <2>1. UNCHANGED customers /\ \A n \in Names : DevRow(n)' = DevRow(n)
    BY <1>1 DEF ResetCheck, tables, DevRow
  <2>2. \E to \in {"refused", "reset.counters"} : Begin(w, c, to)
    BY <1>1 DEF ResetCheck
  <2>3. QED
    BY <2>1, <2>2, BeginRows DEF DevicesGone
<1>2. CASE ResetLater(w)
  <2> USE DEF Shape, Goto, Raise, tables, gateway, locals, Aside, DevicesGone, Inserted, Ended,
              Failed
  <2>1. CASE ResetScan(w)
    BY <2>1, AsideRows DEF ResetScan
  <2>2. CASE ResetNewest(w)
    BY <2>2, AsideRows DEF ResetNewest
  <2>3. CASE ResetCounters(w) \/ ResetConf(w) \/ ResetAudit(w)
    BY <2>3, AsideRows DEF ResetCounters, ResetConf, ResetAudit
  <2>4. CASE ResetRadcheck(w) \/ ResetEnable(w)
    BY <2>4, AsideRows DEF ResetRadcheck, ResetEnable
  <2>5. CASE ResetDevice(w) \/ ResetAgain(w)
    BY <2>5, AsideRows DEF ResetDevice, ResetAgain, FindDevice
  <2>6. CASE ResetCopy(w) \/ ResetReload(w)
    BY <2>6, AsideRows DEF ResetCopy, ResetReload, Write, Reload
  <2>7. QED
    BY <1>2, <2>1, <2>2, <2>3, <2>4, <2>5, <2>6 DEF ResetLater
<1>3. QED
  BY <1>1, <1>2 DEF QuotaStep

LEMMA AllStepsRow ==
  ASSUME Shape, RenewInv, NEW w \in Requests,
         PortalStep(w) \/ BotFirst(w) \/ BotLater(w) \/ QuotaStep(w)
  PROVE  RowStep(w)
BY StepRows, DeleteuserRowsStep, CleanupAside, AsideRows, OrphanRowsStep, RenewRows, QuotaRows
   DEF PortalStep, BotFirst, BotLater

LEMMA AllRowsNext == AllInv /\ RowsInv /\ [AllNext]_allVars => RowsInv'
<1> SUFFICES ASSUME AllInv, RowsInv, [AllNext]_allVars PROVE RowsInv'
  OBVIOUS
<1>1. Shape /\ RenewInv
  BY AllShape DEF AllInv
<1>2. ASSUME NEW w \in Requests, PortalStep(w) \/ BotFirst(w) \/ BotLater(w) \/ QuotaStep(w)
      PROVE  RowsInv'
  BY <1>1, <1>2, AllStepsRow, RowsNext
<1>3. ASSUME NEW c \in Names, Cut(c) PROVE RowsInv'
  BY <1>1, <1>3, CutStores DEF RowsInv, CustRow, DevRow, locals
<1>4. CASE UNCHANGED allVars
  BY <1>4 DEF allVars, vars, tables, locals, RowsInv, CustRow, DevRow
<1>5. QED
  BY <1>2, <1>3, <1>4 DEF AllNext

\* No device points to a customer that was deleted, whatever of the portal,
\* the bot, the reset and the cuts runs beside each other.
THEOREM DevicesHaveCustomersEverywhere == AllSpec => []NoPhantomDevice
<1>1. AllInit => AllInv /\ RowsInv
  BY AllInvInit, RowsInit DEF AllInit, BotInit
<1>2. AllInv /\ RowsInv /\ [AllNext]_allVars => (AllInv /\ RowsInv)'
  BY AllInvNext, AllRowsNext
<1>3. AllInv /\ RowsInv => NoPhantomDevice
  BY AllShape, RowsMean DEF AllInv
<1>4. QED
  BY <1>1, <1>2, <1>3, PTL DEF AllSpec
=============================================================================
