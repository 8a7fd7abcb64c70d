--------------------------- MODULE Portal_proofs ----------------------------
(***************************************************************************)
(* Proofs about Portal, for any number of requests, customers, faults and  *)
(* crashes.                                                                *)
(*                                                                         *)
(* What is said of a step of a request holds beside the commands of the    *)
(* bot and the quota monitor too (Operations_proofs): there a file may     *)
(* hold the mark of a cut, and a request may be at points that Portal does *)
(* not know.  Shape is TypeOK with room for both.                          *)
(***************************************************************************)
EXTENDS Portal, TLAPS

AnyBlocks == [Ids -> {NoRow, Disabled} \union Secrets]
AnyFiles == [whole : BOOLEAN, blk : AnyBlocks]

Anywhere ==
  Points \union
  {"deleteuser.rows", "deleteuser.read", "deleteuser.write", "deleteuser.reload",
   "cleanup.rows", "cleanup.read", "cleanup.again", "cleanup.write",
   "orphan.rows", "orphan.read", "orphan.write", "orphan.append", "orphan.put",
   "orphan.reload", "renew.status",
   "reset.counters", "reset.device", "reset.radcheck", "reset.scan", "reset.enable",
   "reset.again", "reset.conf", "reset.newest", "reset.copy", "reset.reload",
   "reset.audit"}

Shape ==
  /\ customers \in [Names -> Customers]
  /\ users \in [Ids -> Users]
  /\ devices \in [Names -> Devices]
  /\ radcheck \in [Ids -> {NoRow, Disabled} \union Secrets]
  /\ conf \in AnyFiles
  /\ charon \in AnyBlocks
  /\ at \in [Requests -> Anywhere]
  /\ cust \in [Requests -> Names] /\ row \in [Requests -> {NoRow} \union Rows]
  /\ id \in [Requests -> Ids]
  /\ snap \in [Requests -> AnyFiles]
  /\ sweep \in [Requests -> SUBSET (Ids \X Rows)]
  /\ faults \in 0..MaxFaults /\ crashes \in 0..MaxCrashes

\* What reading rw-eap.conf does, wherever the request goes on from there.
ReadNext == {"create.insert", "create.write", "create.unwrite", "rotate.write",
             "unarchive.write", "unarchive.radcheck", "delete.cut", "delete.sweep",
             "delete.write", "delete.radcheck", "alone.cut", "alone.sweep",
             "refused", "error",
             "deleteuser.write", "deleteuser.reload", "orphan.write", "orphan.append",
             "orphan.put"}
ReadStep(w) ==
  /\ \E l \in ReadNext : at' = [at EXCEPT ![w] = l]
  /\ \/ snap' = [snap EXCEPT ![w] = conf] /\ UNCHANGED bounds
     \/ snap' = [snap EXCEPT ![w] = Empty] /\ Fault
     \/ UNCHANGED snap /\ Fault
  /\ UNCHANGED <<tables, gateway, cust, row, id, sweep>>

-----------------------------------------------------------------------------
\* Identities, rows and files.
LEMMA IdentityType ==
  ASSUME NEW c \in Names, NEW d \in Devs PROVE Identity(c, d) \in Ids
BY DEF Ids

LEMMA EmptyType ==
  Empty \in Files /\ Empty \in AnyFiles /\ Empty.blk = [i \in Ids |-> NoRow]
<1>1. NoBlocks \in Blocks /\ NoBlocks \in AnyBlocks
  BY DEF NoBlocks, Blocks, AnyBlocks
<1>2. QED
  BY <1>1 DEF Empty, Files, AnyFiles, NoBlocks

\* Putting a block into a file, and cutting one out of it, changes that block.
LEMMA PutType ==
  ASSUME NEW f \in AnyFiles, NEW i \in Ids, NEW s \in Secrets \union {NoRow}
  PROVE  /\ [f EXCEPT !.blk[i] = s] \in AnyFiles
         /\ \A j \in Ids : [f EXCEPT !.blk[i] = s].blk[j] = IF j = i THEN s ELSE f.blk[j]
<1>1. f.whole \in BOOLEAN /\ f.blk \in AnyBlocks
  BY DEF AnyFiles
<1>2. [f EXCEPT !.blk[i] = s] = [whole |-> f.whole, blk |-> [f.blk EXCEPT ![i] = s]]
  BY <1>1 DEF AnyFiles
<1>3. [f.blk EXCEPT ![i] = s] \in AnyBlocks
  BY <1>1 DEF AnyBlocks
<1>4. \A j \in Ids : [f.blk EXCEPT ![i] = s][j] = IF j = i THEN s ELSE f.blk[j]
  BY <1>1 DEF AnyBlocks
<1>5. QED
  BY <1>1, <1>2, <1>3, <1>4 DEF AnyFiles

LEMMA CutBlocksType ==
  ASSUME NEW f \in AnyFiles, NEW s
  PROVE  /\ CutBlocks(f, s) \in AnyFiles
         /\ \A i \in Ids : CutBlocks(f, s).blk[i] = IF i \in s THEN NoRow ELSE f.blk[i]
<1>1. f.whole \in BOOLEAN /\ f.blk \in AnyBlocks
  BY DEF AnyFiles
<1>2. CutBlocks(f, s) =
        [whole |-> f.whole, blk |-> [i \in Ids |-> IF i \in s THEN NoRow ELSE f.blk[i]]]
  BY <1>1 DEF CutBlocks, AnyFiles
<1>3. [i \in Ids |-> IF i \in s THEN NoRow ELSE f.blk[i]] \in AnyBlocks
  BY <1>1 DEF AnyBlocks
<1>4. QED
  BY <1>1, <1>2, <1>3 DEF AnyFiles

LEMMA RowOfType ==
  /\ \A c \in Customers \union Users \union Devices : RowOf(c) \in {NoRow} \union Rows
  /\ NoRow \notin Rows
BY PortalAssumption DEF RowOf, Customers, Users, Devices, Rows

-----------------------------------------------------------------------------
\* Every variable keeps its type.
LEMMA TypeInit == Init => TypeOK
<1> SUFFICES ASSUME Init PROVE TypeOK
  OBVIOUS
<1>1. PICK old \in SUBSET Names, d \in Devs :
        LET secret(i) == IF \E c \in old : i = Identity(c, d) THEN i ELSE NoRow IN
        /\ customers = [c \in Names |->
             IF c \in old THEN [row |-> Identity(c, d), status |-> "active"] ELSE NoRow]
        /\ users = [i \in Ids |->
             IF secret(i) = NoRow THEN NoRow ELSE [row |-> i, pw |-> i]]
        /\ devices = [c \in Names |->
             IF c \in old THEN [row |-> Identity(c, d), name |-> d] ELSE NoRow]
        /\ radcheck = [i \in Ids |-> secret(i)]
  BY DEF Init
<1>2. customers \in [Names -> Customers] /\ devices \in [Names -> Devices]
  <2>1. \A c \in Names : Identity(c, d) \in Rows
    BY IdentityType DEF Rows, Secrets
  <2>2. QED
    BY <1>1, <2>1 DEF Customers, Devices
<1>3. users \in [Ids -> Users] /\ radcheck \in [Ids -> {NoRow} \union Secrets]
  <2>1. \A i \in Ids : i \in Secrets /\ i \in Rows
    BY DEF Rows, Secrets
  <2>2. QED
    BY <1>1, <2>1 DEF Users
<1>4. charon \in Blocks /\ conf \in Files
  BY <1>3 DEF Init, Blocks, Files
<1>5. at \in [Requests -> Points] /\ cust \in [Requests -> Names]
      /\ row \in [Requests -> {NoRow} \union Rows]
  <2>1. Names # {}
    BY PortalAssumption
  <2>2. (CHOOSE c \in Names : TRUE) \in Names
    BY <2>1
  <2>3. QED
    BY <2>2 DEF Init, Points
<1>6. id \in [Requests -> Ids]
  <2>1. PICK n \in Names, e \in Devs : TRUE
    BY PortalAssumption
  <2>2. Identity(n, e) \in Ids
    BY IdentityType
  <2>3. (CHOOSE i \in Ids : TRUE) \in Ids
    BY <2>2
  <2>4. QED
    BY <2>3 DEF Init
<1>7. snap \in [Requests -> Files] /\ sweep \in [Requests -> SUBSET (Ids \X Rows)]
  BY EmptyType DEF Init
<1>8. faults \in 0..MaxFaults /\ crashes \in 0..MaxCrashes
  BY PortalAssumption DEF Init
<1>9. QED
  BY <1>2, <1>3, <1>4, <1>5, <1>6, <1>7, <1>8 DEF TypeOK

LEMMA GotoType ==
  ASSUME Shape, NEW w \in Requests, NEW from, NEW to \in Anywhere, Goto(w, from, to)
  PROVE  at' \in [Requests -> Anywhere]
BY DEF Shape, Goto

LEMMA FaultType ==
  ASSUME Shape, Fault \/ UNCHANGED bounds
  PROVE  faults' \in 0..MaxFaults /\ crashes' \in 0..MaxCrashes
BY PortalAssumption DEF Shape, Fault, bounds

LEMMA RaiseType ==
  ASSUME Shape, NEW w \in Requests, NEW from, NEW to \in Anywhere, Raise(w, from, to)
  PROVE  Shape'
<1>1. at' \in [Requests -> Anywhere]
  BY GotoType DEF Raise
<1>2. faults' \in 0..MaxFaults /\ crashes' \in 0..MaxCrashes
  BY FaultType DEF Raise
<1>3. UNCHANGED <<customers, users, devices, radcheck, conf, charon, cust, row, id,
                  snap, sweep>>
  BY DEF Raise, tables, gateway, locals
<1>4. QED
  BY <1>1, <1>2, <1>3 DEF Shape

LEMMA ReadType ==
  ASSUME Shape, NEW w \in Requests, ReadStep(w) PROVE Shape'
<1>1. at' \in [Requests -> Anywhere]
  BY DEF Shape, ReadStep, ReadNext, Anywhere, Points
<1>2. faults' \in 0..MaxFaults /\ crashes' \in 0..MaxCrashes
  BY FaultType DEF ReadStep
<1>3. snap' \in [Requests -> AnyFiles]
  BY EmptyType DEF Shape, ReadStep
<1>4. UNCHANGED <<customers, users, devices, radcheck, conf, charon, cust, row, id, sweep>>
  BY DEF ReadStep, tables, gateway
<1>5. QED
  BY <1>1, <1>2, <1>3, <1>4 DEF Shape

LEMMA WriteType ==
  ASSUME Shape, NEW w \in Requests, NEW from, NEW new \in AnyFiles, NEW to \in Anywhere,
         NEW onRaise \in Anywhere, Write(w, from, new, to, onRaise)
  PROVE  Shape'
<1>1. at' \in [Requests -> Anywhere]
  BY GotoType DEF Write
<1>2. faults' \in 0..MaxFaults /\ crashes' \in 0..MaxCrashes
  BY FaultType DEF Write
<1>3. conf' \in AnyFiles
  BY DEF Shape, Write
<1>4. UNCHANGED <<customers, users, devices, radcheck, charon, cust, row, id, snap, sweep>>
  BY DEF Write, tables, locals
<1>5. QED
  BY <1>1, <1>2, <1>3, <1>4 DEF Shape

LEMMA ReloadType ==
  ASSUME Shape, NEW w \in Requests, NEW from, NEW to \in Anywhere,
         NEW onRaise \in Anywhere, Reload(w, from, to, onRaise)
  PROVE  Shape'
<1>1. at' \in [Requests -> Anywhere]
  BY GotoType DEF Reload
<1>2. faults' \in 0..MaxFaults /\ crashes' \in 0..MaxCrashes
  BY FaultType DEF Reload
<1>3. charon' \in AnyBlocks
  BY DEF Shape, Reload, AnyFiles
<1>4. UNCHANGED <<customers, users, devices, radcheck, conf, cust, row, id, snap, sweep>>
  BY DEF Reload, tables, locals
<1>5. QED
  BY <1>1, <1>2, <1>3, <1>4 DEF Shape

LEMMA PutRadcheckType ==
  ASSUME Shape, NEW w \in Requests, NEW from, NEW to \in Anywhere, PutRadcheck(w, from, to)
  PROVE  Shape'
<1>1. CASE Raise(w, from, to)
  BY <1>1, RaiseType DEF Anywhere, Points
<1>2. CASE ~Raise(w, from, to)
  <2>1. at' \in [Requests -> Anywhere]
    BY <1>2, GotoType DEF PutRadcheck
  <2>2. radcheck' \in [Ids -> {NoRow, Disabled} \union Secrets]
    BY <1>2 DEF PutRadcheck, Shape, Secrets
  <2>3. UNCHANGED <<customers, users, devices, conf, charon, cust, row, id, snap,
                    sweep, faults, crashes>>
    BY <1>2 DEF PutRadcheck, gateway, locals, bounds
  <2>4. QED
    BY <2>1, <2>2, <2>3 DEF Shape
<1>3. QED
  BY <1>1, <1>2

LEMMA PutUserType ==
  ASSUME Shape, NEW w \in Requests, NEW from, NEW to \in Anywhere, PutUser(w, from, to)
  PROVE  Shape'
<1>1. CASE Raise(w, from, "error")
  BY <1>1, RaiseType DEF Anywhere, Points
<1>2. CASE ~Raise(w, from, "error")
  <2>1. at' \in [Requests -> Anywhere]
    BY <1>2, GotoType DEF PutUser
  <2>2. users' \in [Ids -> Users]
    <3>1. users[id[w]] \in Users /\ id[w] \in Ids /\ w \in Secrets
      BY DEF Shape, Secrets
    <3>2. (IF Is(users[id[w]], row[w]) THEN [row |-> row[w], pw |-> w]
           ELSE users[id[w]]) \in Users
      BY <3>1 DEF Is, Users
    <3>3. QED
      BY <1>2, <3>1, <3>2 DEF PutUser, Shape
  <2>3. UNCHANGED <<customers, devices, radcheck, conf, charon, cust, row, id, snap,
                    sweep, faults, crashes>>
    BY <1>2 DEF PutUser, gateway, locals, bounds
  <2>4. QED
    BY <2>1, <2>2, <2>3 DEF Shape
<1>3. QED
  BY <1>1, <1>2

LEMMA BeginType ==
  ASSUME Shape, NEW w \in Requests, NEW c \in Names, NEW to \in Anywhere, Begin(w, c, to)
  PROVE  /\ at' \in [Requests -> Anywhere] /\ cust' \in [Requests -> Names]
         /\ row' \in [Requests -> {NoRow} \union Rows]
<1>1. at' \in [Requests -> Anywhere]
  BY GotoType DEF Begin
<1>2. RowOf(customers[c]) \in {NoRow} \union Rows
  BY RowOfType DEF Shape
<1>3. QED
  BY <1>1, <1>2 DEF Begin, Shape

LEMMA FindDeviceType ==
  ASSUME Shape, NEW w \in Requests, NEW from, NEW to \in Anywhere,
         NEW otherwise \in Anywhere, FindDevice(w, from, to, otherwise)
  PROVE  Shape'
<1>1. CASE Raise(w, from, "error")
  BY <1>1, RaiseType DEF Anywhere, Points
<1>2. CASE ~Raise(w, from, "error")
  <2>1. at' \in [Requests -> Anywhere]
    BY <1>2, GotoType DEF FindDevice
  <2>2. id' \in [Requests -> Ids]
    BY <1>2 DEF FindDevice, Shape, UserIds
  <2>3. UNCHANGED <<customers, users, devices, radcheck, conf, charon, cust, row, snap,
                    sweep, faults, crashes>>
    BY <1>2 DEF FindDevice, tables, gateway, bounds
  <2>4. QED
    BY <2>1, <2>2, <2>3 DEF Shape
<1>3. QED
  BY <1>1, <1>2

LEMMA ReadSteps ==
  ASSUME NEW w \in Requests,
         \/ CreateExists(w) \/ CreateAppend(w) \/ CreateUndo(w) \/ RotateRead(w)
         \/ UnarchiveRead(w) \/ DeleteRead(w) \/ DeleteLook(w)
  PROVE  ReadStep(w)
<1>1. CASE CreateExists(w)
  BY <1>1 DEF CreateExists, Read, ReadThen, Raise, ReadStep, Goto, ReadNext,
                       tables, gateway, locals
<1>2. CASE CreateAppend(w)
  BY <1>2 DEF CreateAppend, Read, ReadThen, Raise, ReadStep, Goto, ReadNext,
                       tables, gateway, locals
<1>3. CASE CreateUndo(w)
  BY <1>3 DEF CreateUndo, Read, ReadThen, Raise, ReadStep, Goto, ReadNext,
                       tables, gateway, locals
<1>4. CASE RotateRead(w)
  BY <1>4 DEF RotateRead, Read, ReadThen, Raise, ReadStep, Goto, ReadNext,
                       tables, gateway, locals
<1>5. CASE UnarchiveRead(w)
  BY <1>5 DEF UnarchiveRead, Read, ReadThen, Raise, ReadStep, Goto, ReadNext,
                       tables, gateway, locals
<1>6. CASE DeleteRead(w)
  BY <1>6 DEF DeleteRead, Read, ReadThen, Raise, ReadStep, Goto, ReadNext,
                       tables, gateway, locals
<1>7. CASE DeleteLook(w)
  BY <1>7 DEF DeleteLook, LookBare, Read, ReadThen, Raise, ReadStep, Goto, ReadNext,
                       tables, gateway, locals
<1>8. QED
  BY <1>1, <1>2, <1>3, <1>4, <1>5, <1>6, <1>7

\* The rows of the bare name, deleted.
LEMMA DropBareType ==
  ASSUME Shape, NEW w \in Requests, NEW from, NEW to \in Anywhere, DropBare(w, from, to)
  PROVE  Shape'
<1>1. CASE Raise(w, from, to)
  BY <1>1, RaiseType
<1>2. CASE ~Raise(w, from, to)
  <2>1. at' \in [Requests -> Anywhere]
    BY <1>2, GotoType DEF DropBare
  <2>2. radcheck' \in [Ids -> {NoRow, Disabled} \union Secrets]
    BY <1>2 DEF DropBare, DropRadcheck, Shape
  <2>3. UNCHANGED <<customers, users, devices, conf, charon, cust, row, id, snap,
                    sweep, faults, crashes>>
    BY <1>2 DEF DropBare, gateway, locals, bounds
  <2>4. QED
    BY <2>1, <2>2, <2>3 DEF Shape
<1>3. QED
  BY <1>1, <1>2

\* The files that requests write.
LEMMA BlocksType ==
  ASSUME Shape, NEW w \in Requests
  PROVE  PutBlock(snap[w], id[w], w) \in AnyFiles /\ CutBlock(snap[w], id[w]) \in AnyFiles
<1>1. snap[w] \in AnyFiles /\ id[w] \in Ids /\ w \in Secrets
  BY DEF Shape, Secrets
<1>2. QED
  BY <1>1, PutType DEF PutBlock, CutBlock

LEMMA CreateTypes ==
  ASSUME Shape, NEW w \in Requests,
         \/ \E c \in Names, d \in Devs : CreateCheck(w, c, d)
         \/ CreateExists(w) \/ CreateInsert(w) \/ CreateAppend(w) \/ CreateWrite(w)
         \/ CreateReload(w) \/ CreateCommit(w) \/ CreateUndo(w) \/ CreateUnwrite(w)
  PROVE  Shape'
<1>1. ASSUME NEW c \in Names, NEW d \in Devs, CreateCheck(w, c, d) PROVE Shape'
  <2>1. /\ at' \in [Requests -> Anywhere] /\ cust' \in [Requests -> Names]
        /\ row' \in [Requests -> {NoRow} \union Rows]
    BY <1>1, BeginType DEF CreateCheck, Anywhere, Anywhere, Points
  <2>2. id' \in [Requests -> Ids]
    BY <1>1, IdentityType DEF CreateCheck, Shape
  <2>3. UNCHANGED <<customers, users, devices, radcheck, conf, charon, snap, sweep,
                    faults, crashes>>
    BY <1>1 DEF CreateCheck, tables, gateway, bounds
  <2>4. QED
    BY <2>1, <2>2, <2>3 DEF Shape
<1>2. CASE CreateExists(w) \/ CreateAppend(w) \/ CreateUndo(w)
  BY <1>2, ReadSteps, ReadType
<1>3. CASE CreateInsert(w)
  <2>1. CASE Raise(w, "create.insert", "error")
    BY <2>1, RaiseType DEF Anywhere, Anywhere, Points
  <2>2. CASE ~Raise(w, "create.insert", "error")
    <3>1. at' \in [Requests -> Anywhere]
      BY <1>3, <2>2, GotoType DEF CreateInsert, Anywhere, Anywhere, Points
    <3>2. UNCHANGED <<customers, users, devices, radcheck, conf, charon, cust, row,
                      id, snap, sweep, faults, crashes>>
      BY <1>3, <2>2 DEF CreateInsert, tables, gateway, locals, bounds
    <3>3. QED
      BY <3>1, <3>2 DEF Shape
  <2>3. QED
    BY <2>1, <2>2
<1>4. CASE CreateWrite(w)
  BY <1>4, BlocksType, WriteType DEF CreateWrite, Anywhere, Points
<1>5. CASE CreateReload(w)
  BY <1>5, ReloadType DEF CreateReload, Anywhere, Points
<1>6. CASE CreateCommit(w)
  <2>1. CASE Raise(w, "create.commit", "create.undo")
    BY <2>1, RaiseType DEF Anywhere, Anywhere, Points
  <2>2. CASE ~Raise(w, "create.commit", "create.undo")
    <3>1. at' \in [Requests -> Anywhere]
      BY <1>6, <2>2, GotoType DEF CreateCommit, Anywhere, Anywhere, Points
    <3>2. w \in Rows /\ w \in Secrets
      BY DEF Rows, Secrets
    <3>3. customers' \in [Names -> Customers] /\ devices' \in [Names -> Devices]
      <4>1. /\ customers' = [customers EXCEPT ![cust[w]] = [row |-> w, status |-> "active"]]
            /\ \E d \in Devs : devices' = [devices EXCEPT ![cust[w]] = [row |-> w, name |-> d]]
        BY <1>6, <2>2, Zenon DEF CreateCommit
      <4>2. PICK d \in Devs : devices' = [devices EXCEPT ![cust[w]] = [row |-> w, name |-> d]]
        BY <4>1
      <4>3. [row |-> w, name |-> d] \in Devices
        BY <3>2 DEF Devices
      <4>4. devices' \in [Names -> Devices]
        BY <4>2, <4>3 DEF Shape
      <4>5. customers' \in [Names -> Customers]
        BY <4>1, <3>2 DEF Shape, Customers
      <4>6. QED
        BY <4>4, <4>5
    <3>4. users' \in [Ids -> Users] /\ radcheck' \in [Ids -> {NoRow, Disabled} \union Secrets]
      BY <1>6, <2>2, <3>2 DEF CreateCommit, Shape, Users
    <3>5. UNCHANGED <<conf, charon, cust, row, id, snap, sweep, faults, crashes>>
      BY <1>6, <2>2 DEF CreateCommit, gateway, locals, bounds
    <3>6. QED
      BY <3>1, <3>3, <3>4, <3>5 DEF Shape
  <2>3. QED
    BY <2>1, <2>2
<1>7. CASE CreateUnwrite(w)
  BY <1>7, BlocksType, WriteType DEF CreateUnwrite, Anywhere, Points
<1>8. QED
  BY <1>1, <1>2, <1>3, <1>4, <1>5, <1>6, <1>7

LEMMA RotateTypes ==
  ASSUME Shape, NEW w \in Requests,
         \/ \E c \in Names : RotateCheck(w, c)
         \/ RotateUser(w) \/ RotateRead(w) \/ RotateWrite(w) \/ RotateReload(w)
         \/ RotateRadcheck(w)
  PROVE  Shape'
<1>1. ASSUME NEW c \in Names, RotateCheck(w, c) PROVE Shape'
  <2>1. /\ at' \in [Requests -> Anywhere] /\ cust' \in [Requests -> Names]
        /\ row' \in [Requests -> {NoRow} \union Rows]
    BY <1>1, BeginType DEF RotateCheck, Anywhere, Anywhere, Points
  <2>2. id' \in [Requests -> Ids]
    BY <1>1 DEF RotateCheck, Shape, UserIds
  <2>3. UNCHANGED <<customers, users, devices, radcheck, conf, charon, snap, sweep,
                    faults, crashes>>
    BY <1>1 DEF RotateCheck, tables, gateway, bounds
  <2>4. QED
    BY <2>1, <2>2, <2>3 DEF Shape
<1>2. CASE RotateUser(w)
  BY <1>2, PutUserType DEF RotateUser, Anywhere, Points
<1>3. CASE RotateRead(w)
  BY <1>3, ReadSteps, ReadType
<1>4. CASE RotateWrite(w)
  BY <1>4, BlocksType, WriteType DEF RotateWrite, Anywhere, Points
<1>5. CASE RotateReload(w)
  BY <1>5, ReloadType DEF RotateReload, Anywhere, Points
<1>6. CASE RotateRadcheck(w)
  BY <1>6, PutRadcheckType DEF RotateRadcheck, Anywhere, Points
<1>7. QED
  BY <1>1, <1>2, <1>3, <1>4, <1>5, <1>6

LEMMA SetStatusType ==
  ASSUME Shape, NEW w \in Requests, NEW from, NEW to \in Anywhere,
         NEW s \in {"active", "archived"}, Goto(w, from, to), SetStatus(w, s),
         UNCHANGED <<users, devices, radcheck, gateway, locals, bounds>>
  PROVE  Shape'
<1>1. at' \in [Requests -> Anywhere]
  BY GotoType
<1>2. customers' \in [Names -> Customers]
  <2>1. cust[w] \in Names /\ customers[cust[w]] \in Customers
    BY DEF Shape
  <2>2. (IF Is(customers[cust[w]], row[w]) THEN [row |-> row[w], status |-> s]
         ELSE customers[cust[w]]) \in Customers
    BY <2>1 DEF Is, Customers
  <2>3. QED
    BY <2>1, <2>2 DEF SetStatus, Shape
<1>3. UNCHANGED <<users, devices, radcheck, conf, charon, cust, row, id, snap, sweep,
                  faults, crashes>>
  BY DEF gateway, locals, bounds
<1>4. QED
  BY <1>1, <1>2, <1>3 DEF Shape

LEMMA ArchiveTypes ==
  ASSUME Shape, NEW w \in Requests,
         \/ \E c \in Names : ArchiveCheck(w, c) \/ UnarchiveCheck(w, c)
         \/ ArchiveStatus(w) \/ ArchiveDevice(w) \/ ArchiveRadcheck(w)
         \/ UnarchiveStatus(w) \/ UnarchiveDevice(w) \/ UnarchiveUser(w)
         \/ UnarchiveRead(w) \/ UnarchiveWrite(w) \/ UnarchiveRadcheck(w)
         \/ UnarchiveReload(w)
  PROVE  Shape'
<1>1. ASSUME NEW c \in Names, ArchiveCheck(w, c) \/ UnarchiveCheck(w, c) PROVE Shape'
  <2>1. /\ at' \in [Requests -> Anywhere] /\ cust' \in [Requests -> Names]
        /\ row' \in [Requests -> {NoRow} \union Rows]
    BY <1>1, BeginType DEF ArchiveCheck, UnarchiveCheck, Anywhere, Anywhere, Points
  <2>2. UNCHANGED <<customers, users, devices, radcheck, conf, charon, id, snap, sweep,
                    faults, crashes>>
    BY <1>1 DEF ArchiveCheck, UnarchiveCheck, tables, gateway, bounds
  <2>3. QED
    BY <2>1, <2>2 DEF Shape
<1>2. CASE ArchiveStatus(w)
  BY <1>2, RaiseType, SetStatusType DEF ArchiveStatus, Anywhere, Points
<1>3. CASE UnarchiveStatus(w)
  BY <1>3, RaiseType, SetStatusType DEF UnarchiveStatus, Anywhere, Points
<1>4. CASE ArchiveDevice(w) \/ UnarchiveDevice(w)
  BY <1>4, FindDeviceType DEF ArchiveDevice, UnarchiveDevice, Anywhere, Points
<1>5. CASE ArchiveRadcheck(w)
  <2>1. CASE Raise(w, "archive.radcheck", "ok")
    BY <2>1, RaiseType DEF Anywhere, Anywhere, Points
  <2>2. CASE ~Raise(w, "archive.radcheck", "ok")
    <3>1. at' \in [Requests -> Anywhere]
      BY <1>5, <2>2, GotoType DEF ArchiveRadcheck, Anywhere, Anywhere, Points
    <3>2. radcheck' \in [Ids -> {NoRow, Disabled} \union Secrets]
      BY <1>5, <2>2 DEF ArchiveRadcheck, Shape
    <3>3. UNCHANGED <<customers, users, devices, conf, charon, cust, row, id, snap,
                      sweep, faults, crashes>>
      BY <1>5, <2>2 DEF ArchiveRadcheck, gateway, locals, bounds
    <3>4. QED
      BY <3>1, <3>2, <3>3 DEF Shape
  <2>3. QED
    BY <2>1, <2>2
<1>6. CASE UnarchiveUser(w)
  BY <1>6, PutUserType DEF UnarchiveUser, Anywhere, Points
<1>7. CASE UnarchiveRead(w)
  BY <1>7, ReadSteps, ReadType
<1>8. CASE UnarchiveWrite(w)
  BY <1>8, BlocksType, WriteType DEF UnarchiveWrite, Anywhere, Points
<1>9. CASE UnarchiveRadcheck(w)
  BY <1>9, PutRadcheckType, RaiseType DEF UnarchiveRadcheck, Anywhere, Points
<1>10. CASE UnarchiveReload(w)
  BY <1>10, ReloadType DEF UnarchiveReload, Anywhere, Points
<1>11. QED
  BY <1>1, <1>2, <1>3, <1>4, <1>5, <1>6, <1>7, <1>8, <1>9, <1>10

LEMMA RenameTypes ==
  ASSUME Shape, NEW w \in Requests, NEW c \in Names, NEW d \in Devs,
         RenameDevice(w, c, d)
  PROVE  Shape'
<1>1. /\ at' \in [Requests -> Anywhere] /\ cust' \in [Requests -> Names]
      /\ row' \in [Requests -> {NoRow} \union Rows]
  BY BeginType DEF RenameDevice, Anywhere, Points
<1>2. devices' \in [Names -> Devices]
  <2>1. devices[c] \in [row : Rows, name : Devs]
    BY DEF RenameDevice, Shape, Devices
  <2>2. [devices[c] EXCEPT !.name = d] \in Devices
    BY <2>1 DEF Devices
  <2>3. QED
    BY <2>2 DEF RenameDevice, Shape
<1>3. UNCHANGED <<customers, users, radcheck, conf, charon, id, snap, sweep, faults,
                  crashes>>
  BY DEF RenameDevice, gateway, bounds
<1>4. QED
  BY <1>1, <1>2, <1>3 DEF Shape

LEMMA DeleteTypes ==
  ASSUME Shape, NEW w \in Requests,
         \/ \E c \in Names : DeleteCheck(w, c)
         \/ DeleteUsers(w) \/ DeleteBare(w) \/ DeleteLook(w) \/ DeleteCut(w)
         \/ DeleteOrphans(w) \/ DeleteOrphan(w) \/ DeleteDevices(w) \/ DeleteRead(w)
         \/ DeleteWrite(w) \/ DeleteRadcheck(w) \/ DeleteReload(w) \/ DeleteCustomer(w)
  PROVE  Shape'
<1>1. ASSUME NEW c \in Names, DeleteCheck(w, c) PROVE Shape'
  <2>1. /\ at' \in [Requests -> Anywhere] /\ cust' \in [Requests -> Names]
        /\ row' \in [Requests -> {NoRow} \union Rows]
    BY <1>1, BeginType DEF DeleteCheck, Anywhere, Anywhere, Points
  <2>2. id' \in [Requests -> Ids]
    <3>1. CASE Is(devices[c], RowOf(customers[c]))
      <4>1. devices[c].name \in Devs
        BY <3>1 DEF Shape, Devices, Is
      <4>2. Identity(c, devices[c].name) \in Ids
        BY <4>1, IdentityType
      <4>3. QED
        BY <1>1, <3>1, <4>2 DEF DeleteCheck, Shape
    <3>2. CASE ~Is(devices[c], RowOf(customers[c]))
      BY <1>1, <3>2 DEF DeleteCheck, Shape
    <3>3. QED
      BY <3>1, <3>2
  <2>3. UNCHANGED <<customers, users, devices, radcheck, conf, charon, snap, sweep,
                    faults, crashes>>
    BY <1>1 DEF DeleteCheck, tables, gateway, bounds
  <2>4. QED
    BY <2>1, <2>2, <2>3 DEF Shape
<1>2. CASE DeleteUsers(w)
  <2>1. CASE Raise(w, "delete.users", "error")
    BY <2>1, RaiseType DEF Anywhere, Anywhere, Points
  <2>2. CASE ~Raise(w, "delete.users", "error")
    <3>1. at' \in [Requests -> Anywhere]
      BY <1>2, <2>2, GotoType DEF DeleteUsers, Anywhere, Anywhere, Points
    <3>2. users' \in [Ids -> Users]
      BY <1>2, <2>2 DEF DeleteUsers, Shape, Users
    <3>3. UNCHANGED <<customers, devices, radcheck, conf, charon, cust, row, id, snap,
                      sweep, faults, crashes>>
      BY <1>2, <2>2 DEF DeleteUsers, gateway, locals, bounds
    <3>4. QED
      BY <3>1, <3>2, <3>3 DEF Shape
  <2>3. QED
    BY <2>1, <2>2
<1>3. CASE DeleteOrphans(w)
  <2>1. at' \in [Requests -> Anywhere]
    BY <1>3, GotoType DEF DeleteOrphans, Anywhere, Anywhere, Points
  <2>2. sweep' \in [Requests -> SUBSET (Ids \X Rows)]
    <3>1. \A i \in Orphans(cust[w]) : i \in Ids /\ RowOf(users[i]) \in Rows
      BY DEF Orphans, Shape, Users, RowOf
    <3>2. {<<i, RowOf(users[i])>> : i \in Orphans(cust[w])} \subseteq Ids \X Rows
      BY <3>1
    <3>3. QED
      BY <1>3, <3>2 DEF DeleteOrphans, Shape
  <2>3. UNCHANGED <<customers, users, devices, radcheck, conf, charon, cust, row, id,
                    snap, faults, crashes>>
    BY <1>3 DEF DeleteOrphans, tables, gateway, bounds
  <2>4. QED
    BY <2>1, <2>2, <2>3 DEF Shape
<1>4. CASE DeleteOrphan(w)
  <2>1. at' \in [Requests -> Anywhere]
    BY <1>4 DEF DeleteOrphan, Shape, Anywhere, Anywhere, Points
  <2>2. faults' \in 0..MaxFaults /\ crashes' \in 0..MaxCrashes
    BY <1>4, FaultType DEF DeleteOrphan
  <2>3. users' \in [Ids -> Users]
    BY <1>4 DEF DeleteOrphan, Shape, Users
  <2>4. radcheck' \in [Ids -> {NoRow, Disabled} \union Secrets]
    BY <1>4 DEF DeleteOrphan, Shape
  <2>5. sweep' \in [Requests -> SUBSET (Ids \X Rows)]
    BY <1>4 DEF DeleteOrphan, Shape
  <2>6. UNCHANGED <<customers, devices, conf, charon, cust, row, id, snap>>
    BY <1>4 DEF DeleteOrphan, gateway
  <2>7. QED
    BY <2>1, <2>2, <2>3, <2>4, <2>5, <2>6 DEF Shape
<1>5. CASE DeleteDevices(w)
  <2>1. CASE Raise(w, "delete.devices", "error") \/ Raise(w, "alone.devices", "error")
    BY <2>1, RaiseType DEF Anywhere, Anywhere, Points
  <2>2. CASE ~(Raise(w, "delete.devices", "error") \/ Raise(w, "alone.devices", "error"))
    <3>1. at' \in [Requests -> Anywhere]
      BY <1>5, <2>2, GotoType DEF DeleteDevices, Anywhere, Anywhere, Points
    <3>2. devices' \in [Names -> Devices]
      BY <1>5, <2>2 DEF DeleteDevices, Shape, Devices
    <3>3. UNCHANGED <<customers, users, radcheck, conf, charon, cust, row, id, snap,
                      sweep, faults, crashes>>
      BY <1>5, <2>2 DEF DeleteDevices, gateway, locals, bounds
    <3>4. QED
      BY <3>1, <3>2, <3>3 DEF Shape
  <2>3. QED
    BY <2>1, <2>2
<1>6. CASE DeleteRead(w)
  BY <1>6, ReadSteps, ReadType
<1>7. CASE DeleteWrite(w)
  BY <1>7, BlocksType, WriteType DEF DeleteWrite, Anywhere, Points
<1>8. CASE DeleteRadcheck(w)
  <2>1. CASE Raise(w, "delete.radcheck", "delete.reload")
    BY <2>1, RaiseType DEF Anywhere, Anywhere, Points
  <2>2. CASE ~Raise(w, "delete.radcheck", "delete.reload")
    <3>1. at' \in [Requests -> Anywhere]
      BY <1>8, <2>2, GotoType DEF DeleteRadcheck, Anywhere, Anywhere, Points
    <3>2. radcheck' \in [Ids -> {NoRow, Disabled} \union Secrets]
      BY <1>8, <2>2 DEF DeleteRadcheck, Shape
    <3>3. UNCHANGED <<customers, users, devices, conf, charon, cust, row, id, snap,
                      sweep, faults, crashes>>
      BY <1>8, <2>2 DEF DeleteRadcheck, gateway, locals, bounds
    <3>4. QED
      BY <3>1, <3>2, <3>3 DEF Shape
  <2>3. QED
    BY <2>1, <2>2
<1>9. CASE DeleteReload(w)
  BY <1>9, ReloadType DEF DeleteReload, Anywhere, Points
<1>10. CASE DeleteCustomer(w)
  <2>1. CASE Raise(w, "delete.customer", "error")
    BY <2>1, RaiseType DEF Anywhere, Anywhere, Points
  <2>2. CASE ~Raise(w, "delete.customer", "error")
    <3>1. at' \in [Requests -> Anywhere]
      BY <1>10, <2>2, GotoType DEF DeleteCustomer, Anywhere, Anywhere, Points
    <3>2. customers' \in [Names -> Customers]
      BY <1>10, <2>2 DEF DeleteCustomer, Shape, Customers
    <3>3. UNCHANGED <<users, devices, radcheck, conf, charon, cust, row, id, snap,
                      sweep, faults, crashes>>
      BY <1>10, <2>2 DEF DeleteCustomer, gateway, locals, bounds
    <3>4. QED
      BY <3>1, <3>2, <3>3 DEF Shape
  <2>3. QED
    BY <2>1, <2>2
<1>11. CASE DeleteBare(w)
  BY <1>11, DropBareType DEF DeleteBare, Anywhere, Points
<1>12. CASE DeleteLook(w)
  BY <1>12, ReadSteps, ReadType
<1>13. CASE DeleteCut(w)
  <2>1. CutBlocks(snap[w], {cust[w]}) \in AnyFiles
    BY CutBlocksType DEF Shape
  <2>2. QED
    BY <1>13, <2>1, WriteType DEF DeleteCut, CutBare, Anywhere, Points
<1>14. QED
  BY <1>1, <1>2, <1>3, <1>4, <1>5, <1>6, <1>7, <1>8, <1>9, <1>10, <1>11, <1>12, <1>13

LEMMA CrashType == ASSUME Shape, NEW w \in Requests, Crash(w) PROVE Shape'
<1>1. at' \in [Requests -> Anywhere] /\ crashes' \in 0..MaxCrashes
  BY PortalAssumption DEF Shape, Crash, Anywhere, Points
<1>2. UNCHANGED <<customers, users, devices, radcheck, conf, charon, cust, row, id,
                  snap, sweep, faults>>
  BY DEF Crash, tables, gateway, locals
<1>3. QED
  BY <1>1, <1>2 DEF Shape

LEMMA StepShape ==
  ASSUME Shape, NEW w \in Requests, First(w) \/ Later(w) \/ Crash(w) PROVE Shape'
<1>1. CASE First(w)
  BY <1>1, CreateTypes, RotateTypes, ArchiveTypes, RenameTypes, DeleteTypes DEF First
<1>2. CASE Later(w)
  BY <1>2, CreateTypes, RotateTypes, ArchiveTypes, DeleteTypes DEF Later
<1>3. QED
  BY <1>1, <1>2, CrashType

-----------------------------------------------------------------------------
(* Secrets stay under the identity they were made for.  OwnSecrets is not  *)
(* inductive: a request that archives or unarchives finds its identity     *)
(* only after it has begun.  The invariant says in addition that no store  *)
(* holds a secret of a request that has not found its identity yet.        *)

Early == {"idle", "archive.status", "archive.device", "unarchive.status",
          "unarchive.device",
          "cleanup.rows", "cleanup.read", "cleanup.again", "cleanup.write",
          "reset.counters", "reset.device", "reset.radcheck", "reset.scan",
          "reset.enable", "reset.again"}
Own(i) == {i} \union {w \in Requests : at[w] \notin Early /\ id[w] = i}

OwnInv ==
  \A i \in Ids :
    /\ users[i] # NoRow => users[i].pw \in Own(i) /\ users[i].row \in Own(i)
    /\ radcheck[i] \in Own(i) \union {NoRow, Disabled}
    /\ conf.blk[i] \in Own(i) \union {NoRow, Disabled}
    /\ charon[i] \in Own(i) \union {NoRow, Disabled}
    /\ \A w \in Requests : snap[w].blk[i] \in Own(i) \union {NoRow, Disabled}

\* What a step of a request may do to the stores: move what they hold from
\* one to the other under the same identity, remove it, or put its own secret
\* under the identity it has found, which is its identity for good.
Mine(w, i, s) == s = w /\ id[w] = i /\ at[w] \notin Early

Effect(w) ==
  /\ \A v \in Requests \ {w} : at'[v] = at[v] /\ id'[v] = id[v]
  /\ at[w] \notin Early => at'[w] \notin Early /\ id'[w] = id[w]
  /\ \A i \in Ids :
       /\ users'[i] # NoRow => /\ \/ users[i] # NoRow /\ users'[i].pw = users[i].pw
                                  \/ Mine(w, i, users'[i].pw)
                               /\ \/ users[i] # NoRow /\ users'[i].row = users[i].row
                                  \/ Mine(w, i, users'[i].row)
       /\ radcheck'[i] \in {radcheck[i], NoRow, Disabled} \/ Mine(w, i, radcheck'[i])
       /\ conf'.blk[i] \in {conf.blk[i], snap[w].blk[i], NoRow} \/ Mine(w, i, conf'.blk[i])
       /\ charon'[i] \in {charon[i], conf.blk[i]}
       /\ \A v \in Requests : snap'[v].blk[i] \in {snap[v].blk[i], conf.blk[i], NoRow}

LEMMA EffectOwn ==
  ASSUME OwnInv, NEW w \in Requests, Effect(w) PROVE OwnInv'
<1> SUFFICES ASSUME NEW i \in Ids
             PROVE  /\ users'[i] # NoRow => users'[i].pw \in Own(i)' /\ users'[i].row \in Own(i)'
                    /\ radcheck'[i] \in Own(i)' \union {NoRow, Disabled}
                    /\ conf'.blk[i] \in Own(i)' \union {NoRow, Disabled}
                    /\ charon'[i] \in Own(i)' \union {NoRow, Disabled}
                    /\ \A v \in Requests : snap'[v].blk[i] \in Own(i)' \union {NoRow, Disabled}
  BY DEF OwnInv
<1>1. Own(i) \subseteq Own(i)'
  BY DEF Own, Effect
<1>2. \A s : Mine(w, i, s) => s \in Own(i)
  BY DEF Mine, Own
<1>3. users'[i] # NoRow => users'[i].pw \in Own(i)' /\ users'[i].row \in Own(i)'
  BY <1>1, <1>2 DEF OwnInv, Effect
<1>4. radcheck'[i] \in Own(i)' \union {NoRow, Disabled}
  BY <1>1, <1>2 DEF OwnInv, Effect
<1>5. conf'.blk[i] \in Own(i)' \union {NoRow, Disabled}
  BY <1>1, <1>2 DEF OwnInv, Effect
<1>6. charon'[i] \in Own(i)' \union {NoRow, Disabled}
  BY <1>1 DEF OwnInv, Effect
<1>7. \A v \in Requests : snap'[v].blk[i] \in Own(i)' \union {NoRow, Disabled}
  BY <1>1 DEF OwnInv, Effect
<1>8. QED
  BY <1>3, <1>4, <1>5, <1>6, <1>7

\* The effects of the shared steps.
LEMMA RaiseEffect ==
  ASSUME Shape, NEW w \in Requests, NEW from, NEW to, to \notin Early, Raise(w, from, to)
  PROVE  Effect(w)
BY DEF Raise, Goto, tables, gateway, locals, Shape, Effect

LEMMA ReadEffect == ASSUME Shape, NEW w \in Requests, ReadStep(w) PROVE Effect(w)
<1>1. /\ \A v \in Requests \ {w} : at'[v] = at[v]
      /\ at'[w] \notin Early
  BY DEF ReadStep, ReadNext, Early, Shape
<1>2. \A v \in Requests : snap'[v] \in {snap[v], conf, Empty}
  BY DEF ReadStep, Shape
<1>3. \A i \in Ids : Empty.blk[i] = NoRow
  BY EmptyType
<1>4. UNCHANGED <<users, radcheck, conf, charon, id>>
  BY DEF ReadStep, tables, gateway
<1>5. QED
  BY <1>1, <1>2, <1>3, <1>4 DEF Effect

LEMMA WriteEffect ==
  ASSUME Shape, NEW w \in Requests, NEW from, NEW new, NEW to, NEW onRaise,
         Write(w, from, new, to, onRaise),
         from \notin Early, to \notin Early, onRaise \notin Early,
         \A i \in Ids : \/ new.blk[i] \in {snap[w].blk[i], NoRow}
                        \/ i = id[w] /\ new.blk[i] = w
  PROVE  Effect(w)
<1>1. /\ \A v \in Requests \ {w} : at'[v] = at[v]
      /\ at[w] \notin Early /\ at'[w] \notin Early
  BY DEF Write, Goto, Shape
<1>2. conf' \in {conf, new}
  BY DEF Write
<1>3. UNCHANGED <<users, radcheck, charon, id, snap>>
  BY DEF Write, tables, locals
<1>4. QED
  BY <1>1, <1>2, <1>3 DEF Effect, Mine

LEMMA BlocksEffect ==
  ASSUME Shape, NEW w \in Requests
  PROVE  /\ \A i \in Ids : \/ PutBlock(snap[w], id[w], w).blk[i] \in {snap[w].blk[i], NoRow}
                           \/ i = id[w] /\ PutBlock(snap[w], id[w], w).blk[i] = w
         /\ \A i \in Ids : \/ CutBlock(snap[w], id[w]).blk[i] \in {snap[w].blk[i], NoRow}
                           \/ i = id[w] /\ CutBlock(snap[w], id[w]).blk[i] = w
<1>1. snap[w] \in AnyFiles /\ id[w] \in Ids /\ w \in Secrets
  BY DEF Shape, Secrets
<1>2. QED
  BY <1>1, PutType DEF PutBlock, CutBlock

LEMMA ReloadEffect ==
  ASSUME Shape, NEW w \in Requests, NEW from, NEW to, NEW onRaise,
         Reload(w, from, to, onRaise), to \notin Early, onRaise \notin Early
  PROVE  Effect(w)
<1>1. \A v \in Requests \ {w} : at'[v] = at[v]
  BY DEF Reload, Goto, Shape
<1>2. at'[w] \notin Early
  BY DEF Reload, Goto, Shape
<1>3. charon' \in {charon, conf.blk}
  BY DEF Reload
<1>4. UNCHANGED <<users, radcheck, conf, id, snap>>
  BY DEF Reload, tables, locals
<1>5. QED
  BY <1>1, <1>2, <1>3, <1>4 DEF Effect

LEMMA PutRadcheckEffect ==
  ASSUME Shape, NEW w \in Requests, NEW from, NEW to, PutRadcheck(w, from, to),
         from \notin Early, to \notin Early
  PROVE  Effect(w)
<1>1. CASE Raise(w, from, to)
  BY <1>1, RaiseEffect
<1>2. CASE ~Raise(w, from, to)
  <2>1. /\ \A v \in Requests \ {w} : at'[v] = at[v]
        /\ at[w] \notin Early /\ at'[w] \notin Early
    BY <1>2 DEF PutRadcheck, Goto, Shape
  <2>2. \A i \in Ids : radcheck'[i] = radcheck[i] \/ (i = id[w] /\ radcheck'[i] = w)
    <3>1. radcheck' = [radcheck EXCEPT ![id[w]] = w]
      BY <1>2 DEF PutRadcheck
    <3>2. radcheck = [i \in Ids |-> radcheck[i]]
      BY DEF Shape
    <3>3. QED
      BY <3>1, <3>2
  <2>3. UNCHANGED <<users, conf, charon, id, snap>>
    BY <1>2 DEF PutRadcheck, gateway, locals
  <2>4. QED
    BY <2>1, <2>2, <2>3 DEF Effect, Mine
<1>3. QED
  BY <1>1, <1>2

LEMMA PutUserEffect ==
  ASSUME Shape, NEW w \in Requests, NEW from, NEW to, PutUser(w, from, to),
         from \notin Early, to \notin Early
  PROVE  Effect(w)
<1>1. CASE Raise(w, from, "error")
  BY <1>1, RaiseEffect DEF Early
<1>2. CASE ~Raise(w, from, "error")
  <2>1. /\ \A v \in Requests \ {w} : at'[v] = at[v]
        /\ at[w] \notin Early /\ at'[w] \notin Early
    BY <1>2 DEF PutUser, Goto, Shape
  <2>2. \A i \in Ids : \/ users'[i] = users[i]
                       \/ /\ i = id[w] /\ users'[i].pw = w
                          /\ users[i] # NoRow /\ users'[i].row = users[i].row
    <3>1. users' = [users EXCEPT ![id[w]] =
                      IF Is(@, row[w]) THEN [row |-> row[w], pw |-> w] ELSE @]
      BY <1>2 DEF PutUser
    <3>2. users = [i \in Ids |-> users[i]]
      BY DEF Shape
    <3>3. QED
      BY <3>1, <3>2 DEF Is
  <2>3. UNCHANGED <<radcheck, conf, charon, id, snap>>
    BY <1>2 DEF PutUser, gateway, locals
  <2>4. QED
    BY <2>1, <2>2, <2>3 DEF Effect, Mine
<1>3. QED
  BY <1>1, <1>2

\* A request that is early may take any identity.
LEMMA EarlyEffect ==
  ASSUME Shape, NEW w \in Requests, at[w] \in Early,
         \A v \in Requests \ {w} : at'[v] = at[v] /\ id'[v] = id[v],
         UNCHANGED <<users, radcheck, conf, charon, snap>>
  PROVE  Effect(w)
BY DEF Effect

LEMMA BeginEffect ==
  ASSUME Shape, NEW w \in Requests, NEW c, NEW to, Begin(w, c, to)
  PROVE  at[w] \in Early /\ \A v \in Requests \ {w} : at'[v] = at[v]
BY DEF Begin, Goto, Early, Shape

LEMMA FindDeviceEffect ==
  ASSUME Shape, NEW w \in Requests, NEW from \in Early, NEW to, NEW otherwise,
         FindDevice(w, from, to, otherwise)
  PROVE  Effect(w)
<1>1. CASE Raise(w, from, "error")
  BY <1>1, RaiseEffect DEF Early
<1>2. CASE ~Raise(w, from, "error")
  <2>1. at[w] \in Early /\ \A v \in Requests \ {w} : at'[v] = at[v] /\ id'[v] = id[v]
    BY <1>2 DEF FindDevice, Goto, Shape
  <2>2. UNCHANGED <<users, radcheck, conf, charon, snap>>
    BY <1>2 DEF FindDevice, tables, gateway
  <2>3. QED
    BY <2>1, <2>2, EarlyEffect
<1>3. QED
  BY <1>1, <1>2

\* A step that is past the early ones and stores no secret.
LEMMA QuietEffect ==
  ASSUME Shape, NEW w \in Requests, NEW from, NEW to, Goto(w, from, to), to \notin Early,
         UNCHANGED <<conf, charon, id, snap>>,
         \A i \in Ids : users'[i] \in {users[i], NoRow},
         \A i \in Ids : radcheck'[i] \in {radcheck[i], NoRow, Disabled}
  PROVE  Effect(w)
<1>1. at'[w] \notin Early /\ \A v \in Requests \ {w} : at'[v] = at[v]
  BY DEF Goto, Shape
<1>2. QED
  BY <1>1 DEF Effect

LEMMA CreateEffects ==
  ASSUME Shape, NEW w \in Requests,
         \/ \E c \in Names, d \in Devs : CreateCheck(w, c, d)
         \/ CreateExists(w) \/ CreateInsert(w) \/ CreateAppend(w) \/ CreateWrite(w)
         \/ CreateReload(w) \/ CreateCommit(w) \/ CreateUndo(w) \/ CreateUnwrite(w)
  PROVE  Effect(w)
<1>1. ASSUME NEW c \in Names, NEW d \in Devs, CreateCheck(w, c, d) PROVE Effect(w)
  <2>1. at[w] \in Early /\ \A v \in Requests \ {w} : at'[v] = at[v]
    BY <1>1, BeginEffect DEF CreateCheck
  <2>2. \A v \in Requests \ {w} : id'[v] = id[v]
    BY <1>1 DEF CreateCheck, Shape
  <2>3. UNCHANGED <<users, radcheck, conf, charon, snap>>
    BY <1>1 DEF CreateCheck, tables, gateway
  <2>4. QED
    BY <2>1, <2>2, <2>3, EarlyEffect
<1>2. CASE CreateExists(w) \/ CreateAppend(w) \/ CreateUndo(w)
  BY <1>2, ReadSteps, ReadEffect
<1>3. CASE CreateInsert(w)
  <2>1. CASE Raise(w, "create.insert", "error")
    BY <2>1, RaiseEffect DEF Early
  <2>2. CASE ~Raise(w, "create.insert", "error")
    <3>1. UNCHANGED <<users, radcheck, conf, charon, id, snap>>
      BY <1>3, <2>2 DEF CreateInsert, tables, gateway, locals
    <3>2. QED
      BY <1>3, <2>2, <3>1, QuietEffect DEF CreateInsert, Early
  <2>3. QED
    BY <2>1, <2>2
<1>4. CASE CreateWrite(w)
  BY <1>4, BlocksEffect, WriteEffect DEF CreateWrite, Early
<1>5. CASE CreateReload(w)
  BY <1>5, ReloadEffect DEF CreateReload, Early
<1>6. CASE CreateCommit(w)
  <2>1. CASE Raise(w, "create.commit", "create.undo")
    BY <2>1, RaiseEffect DEF Early
  <2>2. CASE ~Raise(w, "create.commit", "create.undo")
    <3>1. /\ \A v \in Requests \ {w} : at'[v] = at[v]
          /\ at[w] \notin Early /\ at'[w] \notin Early
      BY <1>6, <2>2 DEF CreateCommit, Goto, Shape, Early
    <3>2. \A i \in Ids : \/ users'[i] = users[i]
                         \/ i = id[w] /\ users'[i].pw = w /\ users'[i].row = w
      BY <1>6, <2>2 DEF CreateCommit, Shape
    <3>3. \A i \in Ids : radcheck'[i] = radcheck[i] \/ (i = id[w] /\ radcheck'[i] = w)
      BY <1>6, <2>2 DEF CreateCommit, Shape
    <3>4. UNCHANGED <<conf, charon, id, snap>>
      BY <1>6, <2>2 DEF CreateCommit, gateway, locals
    <3>5. QED
      BY <3>1, <3>2, <3>3, <3>4 DEF Effect, Mine
  <2>3. QED
    BY <2>1, <2>2
<1>7. CASE CreateUnwrite(w)
  BY <1>7, BlocksEffect, WriteEffect DEF CreateUnwrite, Early
<1>8. QED
  BY <1>1, <1>2, <1>3, <1>4, <1>5, <1>6, <1>7

LEMMA RotateEffects ==
  ASSUME Shape, NEW w \in Requests,
         \/ \E c \in Names : RotateCheck(w, c)
         \/ RotateUser(w) \/ RotateRead(w) \/ RotateWrite(w) \/ RotateReload(w)
         \/ RotateRadcheck(w)
  PROVE  Effect(w)
<1>1. ASSUME NEW c \in Names, RotateCheck(w, c) PROVE Effect(w)
  <2>1. at[w] \in Early /\ \A v \in Requests \ {w} : at'[v] = at[v]
    BY <1>1, BeginEffect DEF RotateCheck
  <2>2. \A v \in Requests \ {w} : id'[v] = id[v]
    BY <1>1 DEF RotateCheck, Shape
  <2>3. UNCHANGED <<users, radcheck, conf, charon, snap>>
    BY <1>1 DEF RotateCheck, tables, gateway
  <2>4. QED
    BY <2>1, <2>2, <2>3, EarlyEffect
<1>2. CASE RotateUser(w)
  BY <1>2, PutUserEffect DEF RotateUser, Early
<1>3. CASE RotateRead(w)
  BY <1>3, ReadSteps, ReadEffect
<1>4. CASE RotateWrite(w)
  BY <1>4, BlocksEffect, WriteEffect DEF RotateWrite, Early
<1>5. CASE RotateReload(w)
  BY <1>5, ReloadEffect DEF RotateReload, Early
<1>6. CASE RotateRadcheck(w)
  BY <1>6, PutRadcheckEffect DEF RotateRadcheck, Early
<1>7. QED
  BY <1>1, <1>2, <1>3, <1>4, <1>5, <1>6

LEMMA ArchiveEffects ==
  ASSUME Shape, NEW w \in Requests,
         \/ \E c \in Names : ArchiveCheck(w, c) \/ UnarchiveCheck(w, c)
         \/ ArchiveStatus(w) \/ ArchiveDevice(w) \/ ArchiveRadcheck(w)
         \/ UnarchiveStatus(w) \/ UnarchiveDevice(w) \/ UnarchiveUser(w)
         \/ UnarchiveRead(w) \/ UnarchiveWrite(w) \/ UnarchiveRadcheck(w)
         \/ UnarchiveReload(w)
  PROVE  Effect(w)
<1>1. ASSUME NEW c \in Names, ArchiveCheck(w, c) \/ UnarchiveCheck(w, c) PROVE Effect(w)
  <2>1. at[w] \in Early /\ \A v \in Requests \ {w} : at'[v] = at[v]
    BY <1>1, BeginEffect DEF ArchiveCheck, UnarchiveCheck
  <2>2. UNCHANGED <<users, radcheck, conf, charon, id, snap>>
    BY <1>1 DEF ArchiveCheck, UnarchiveCheck, tables, gateway
  <2>3. QED
    BY <2>1, <2>2, EarlyEffect
<1>2. CASE ArchiveStatus(w) \/ UnarchiveStatus(w)
  <2>1. CASE Raise(w, "archive.status", "error") \/ Raise(w, "unarchive.status", "error")
    BY <2>1, RaiseEffect DEF Early
  <2>2. CASE ~(Raise(w, "archive.status", "error") \/ Raise(w, "unarchive.status", "error"))
    <3>1. at[w] \in Early /\ \A v \in Requests \ {w} : at'[v] = at[v]
      BY <1>2, <2>2 DEF ArchiveStatus, UnarchiveStatus, Goto, Early, Shape
    <3>2. UNCHANGED <<users, radcheck, conf, charon, id, snap>>
      BY <1>2, <2>2 DEF ArchiveStatus, UnarchiveStatus, gateway, locals
    <3>3. QED
      BY <3>1, <3>2, EarlyEffect
  <2>3. QED
    BY <2>1, <2>2
<1>3. CASE ArchiveDevice(w) \/ UnarchiveDevice(w)
  BY <1>3, FindDeviceEffect DEF ArchiveDevice, UnarchiveDevice, Early
<1>4. CASE ArchiveRadcheck(w)
  <2>1. CASE Raise(w, "archive.radcheck", "ok")
    BY <2>1, RaiseEffect DEF Early
  <2>2. CASE ~Raise(w, "archive.radcheck", "ok")
    <3>1. UNCHANGED <<users, conf, charon, id, snap>>
      BY <1>4, <2>2 DEF ArchiveRadcheck, gateway, locals
    <3>2. \A i \in Ids : radcheck'[i] \in {radcheck[i], Disabled}
      BY <1>4, <2>2 DEF ArchiveRadcheck, Shape
    <3>3. QED
      BY <1>4, <2>2, <3>1, <3>2, QuietEffect DEF ArchiveRadcheck, Early
  <2>3. QED
    BY <2>1, <2>2
<1>5. CASE UnarchiveUser(w)
  BY <1>5, PutUserEffect DEF UnarchiveUser, Early
<1>6. CASE UnarchiveRead(w)
  BY <1>6, ReadSteps, ReadEffect
<1>7. CASE UnarchiveWrite(w)
  BY <1>7, BlocksEffect, WriteEffect DEF UnarchiveWrite, Early
<1>8. CASE UnarchiveRadcheck(w)
  BY <1>8, PutRadcheckEffect, RaiseEffect DEF UnarchiveRadcheck, Early
<1>9. CASE UnarchiveReload(w)
  BY <1>9, ReloadEffect DEF UnarchiveReload, Early
<1>10. QED
  BY <1>1, <1>2, <1>3, <1>4, <1>5, <1>6, <1>7, <1>8, <1>9

LEMMA DeleteEffects ==
  ASSUME Shape, NEW w \in Requests,
         \/ \E c \in Names : DeleteCheck(w, c)
         \/ DeleteUsers(w) \/ DeleteBare(w) \/ DeleteLook(w) \/ DeleteCut(w)
         \/ DeleteOrphans(w) \/ DeleteOrphan(w) \/ DeleteDevices(w) \/ DeleteRead(w)
         \/ DeleteWrite(w) \/ DeleteRadcheck(w) \/ DeleteReload(w) \/ DeleteCustomer(w)
  PROVE  Effect(w)
<1>1. ASSUME NEW c \in Names, DeleteCheck(w, c) PROVE Effect(w)
  <2>1. at[w] \in Early /\ \A v \in Requests \ {w} : at'[v] = at[v]
    BY <1>1, BeginEffect DEF DeleteCheck
  <2>2. \A v \in Requests \ {w} : id'[v] = id[v]
    BY <1>1 DEF DeleteCheck, Shape
  <2>3. UNCHANGED <<users, radcheck, conf, charon, snap>>
    BY <1>1 DEF DeleteCheck, tables, gateway
  <2>4. QED
    BY <2>1, <2>2, <2>3, EarlyEffect
<1>2. CASE DeleteUsers(w)
  <2>1. CASE Raise(w, "delete.users", "error")
    BY <2>1, RaiseEffect DEF Early
  <2>2. CASE ~Raise(w, "delete.users", "error")
    <3>1. UNCHANGED <<radcheck, conf, charon, id, snap>>
      BY <1>2, <2>2 DEF DeleteUsers, gateway, locals
    <3>2. \A i \in Ids : users'[i] \in {users[i], NoRow}
      BY <1>2, <2>2 DEF DeleteUsers, Shape
    <3>3. QED
      BY <1>2, <2>2, <3>1, <3>2, QuietEffect DEF DeleteUsers, Early
  <2>3. QED
    BY <2>1, <2>2
<1>3. CASE DeleteOrphans(w)
  <2>1. UNCHANGED <<users, radcheck, conf, charon, id, snap>>
    BY <1>3 DEF DeleteOrphans, tables, gateway
  <2>2. QED
    BY <1>3, <2>1, QuietEffect DEF DeleteOrphans, Early
<1>4. CASE DeleteOrphan(w)
  <2>1. at[w] \notin Early /\ at'[w] \notin Early /\ \A v \in Requests \ {w} : at'[v] = at[v]
    BY <1>4 DEF DeleteOrphan, Early, Shape
  <2>2. \A i \in Ids : users'[i] \in {users[i], NoRow}
    BY <1>4 DEF DeleteOrphan, Shape
  <2>3. \A i \in Ids : radcheck'[i] \in {radcheck[i], NoRow}
    BY <1>4 DEF DeleteOrphan, Shape
  <2>4. UNCHANGED <<conf, charon, id, snap>>
    BY <1>4 DEF DeleteOrphan, gateway
  <2>5. QED
    BY <2>1, <2>2, <2>3, <2>4 DEF Effect
<1>5. CASE DeleteDevices(w)
  <2>1. CASE Raise(w, "delete.devices", "error") \/ Raise(w, "alone.devices", "error")
    BY <2>1, RaiseEffect DEF Early
  <2>2. CASE ~(Raise(w, "delete.devices", "error") \/ Raise(w, "alone.devices", "error"))
    <3>1. UNCHANGED <<users, radcheck, conf, charon, id, snap>>
      BY <1>5, <2>2 DEF DeleteDevices, gateway, locals
    <3>2. QED
      BY <1>5, <2>2, <3>1, QuietEffect DEF DeleteDevices, Early
  <2>3. QED
    BY <2>1, <2>2
<1>6. CASE DeleteRead(w)
  BY <1>6, ReadSteps, ReadEffect
<1>7. CASE DeleteWrite(w)
  BY <1>7, BlocksEffect, WriteEffect DEF DeleteWrite, Early
<1>8. CASE DeleteRadcheck(w)
  <2>1. CASE Raise(w, "delete.radcheck", "delete.reload")
    BY <2>1, RaiseEffect DEF Early
  <2>2. CASE ~Raise(w, "delete.radcheck", "delete.reload")
    <3>1. UNCHANGED <<users, conf, charon, id, snap>>
      BY <1>8, <2>2 DEF DeleteRadcheck, gateway, locals
    <3>2. \A i \in Ids : radcheck'[i] \in {radcheck[i], NoRow}
      BY <1>8, <2>2 DEF DeleteRadcheck, Shape
    <3>3. QED
      BY <1>8, <2>2, <3>1, <3>2, QuietEffect DEF DeleteRadcheck, Early
  <2>3. QED
    BY <2>1, <2>2
<1>9. CASE DeleteReload(w)
  BY <1>9, ReloadEffect DEF DeleteReload, Early
<1>10. CASE DeleteCustomer(w)
  <2>1. CASE Raise(w, "delete.customer", "error")
    BY <2>1, RaiseEffect DEF Early
  <2>2. CASE ~Raise(w, "delete.customer", "error")
    <3>1. UNCHANGED <<users, radcheck, conf, charon, id, snap>>
      BY <1>10, <2>2 DEF DeleteCustomer, gateway, locals
    <3>2. QED
      BY <1>10, <2>2, <3>1, QuietEffect DEF DeleteCustomer, Early
  <2>3. QED
    BY <2>1, <2>2
<1>11. CASE DeleteBare(w)
  <2>1. PICK from \in {"delete.bare", "alone.bare"}, to \in {"delete.look", "alone.look"} :
          DropBare(w, from, to)
    BY <1>11 DEF DeleteBare
  <2>2. CASE Raise(w, from, to)
    BY <2>2, RaiseEffect DEF Early
  <2>3. CASE ~Raise(w, from, to)
    <3>1. Goto(w, from, to) /\ UNCHANGED <<users, conf, charon, id, snap>>
      BY <2>1, <2>3 DEF DropBare, gateway, locals
    <3>2. \A i \in Ids : radcheck'[i] \in {radcheck[i], NoRow}
      BY <2>1, <2>3 DEF DropBare, DropRadcheck
    <3>3. QED
      BY <3>1, <3>2, QuietEffect DEF Early
  <2>4. QED
    BY <2>2, <2>3
<1>12. CASE DeleteLook(w)
  BY <1>12, ReadSteps, ReadEffect
<1>13. CASE DeleteCut(w)
  <2>1. \A i \in Ids : CutBlocks(snap[w], {cust[w]}).blk[i] \in {snap[w].blk[i], NoRow}
    BY CutBlocksType DEF Shape
  <2>2. QED
    BY <1>13, <2>1, WriteEffect DEF DeleteCut, CutBare, Early
<1>14. QED
  BY <1>1, <1>2, <1>3, <1>4, <1>5, <1>6, <1>7, <1>8, <1>9, <1>10, <1>11, <1>12, <1>13

LEMMA OtherEffects ==
  ASSUME Shape, NEW w \in Requests,
         Crash(w) \/ \E c \in Names, d \in Devs : RenameDevice(w, c, d)
  PROVE  Effect(w)
<1>1. CASE Crash(w)
  <2>1. at'[w] \notin Early /\ \A v \in Requests \ {w} : at'[v] = at[v]
    BY <1>1 DEF Crash, Early, Shape
  <2>2. UNCHANGED <<users, radcheck, conf, charon, id, snap>>
    BY <1>1 DEF Crash, tables, gateway, locals
  <2>3. QED
    BY <2>1, <2>2 DEF Effect
<1>2. ASSUME NEW c \in Names, NEW d \in Devs, RenameDevice(w, c, d) PROVE Effect(w)
  <2>1. at[w] \in Early /\ \A v \in Requests \ {w} : at'[v] = at[v]
    BY <1>2, BeginEffect DEF RenameDevice
  <2>2. UNCHANGED <<users, radcheck, conf, charon, id, snap>>
    BY <1>2 DEF RenameDevice, gateway
  <2>3. QED
    BY <2>1, <2>2, EarlyEffect
<1>3. QED
  BY <1>1, <1>2

LEMMA StepEffect ==
  ASSUME Shape, NEW w \in Requests, First(w) \/ Later(w) \/ Crash(w) PROVE Effect(w)
<1>1. CASE First(w)
  BY <1>1, CreateEffects, RotateEffects, ArchiveEffects, OtherEffects, DeleteEffects
     DEF First
<1>2. CASE Later(w)
  BY <1>2, CreateEffects, RotateEffects, ArchiveEffects, DeleteEffects DEF Later
<1>3. QED
  BY <1>1, <1>2, OtherEffects

LEMMA OwnNext == Shape /\ OwnInv /\ [Next]_vars => OwnInv'
<1> SUFFICES ASSUME Shape, OwnInv, [Next]_vars PROVE OwnInv'
  OBVIOUS
<1>1. ASSUME NEW w \in Requests, First(w) \/ Later(w) \/ Crash(w) PROVE OwnInv'
  BY <1>1, StepEffect, EffectOwn
<1>2. CASE UNCHANGED vars
  BY <1>2 DEF vars, tables, gateway, locals, bounds, OwnInv, Own
<1>3. QED
  BY <1>1, <1>2 DEF Next

\* A request stays with the identity it has found.
LEMMA OwnGrows ==
  ASSUME Shape, [Next]_vars, NEW i \in Ids PROVE Own(i) \subseteq Own(i)'
<1>1. ASSUME NEW w \in Requests, First(w) \/ Later(w) \/ Crash(w)
      PROVE  Own(i) \subseteq Own(i)'
  <2>1. Effect(w)
    BY <1>1, StepEffect
  <2>2. QED
    BY <2>1 DEF Own, Effect
<1>2. CASE UNCHANGED vars
  BY <1>2 DEF vars, locals, Own
<1>3. QED
  BY <1>1, <1>2 DEF Next

LEMMA OwnInit == Init => OwnInv
<1> SUFFICES ASSUME Init, NEW i \in Ids
             PROVE  /\ users[i] # NoRow => users[i].pw \in Own(i) /\ users[i].row \in Own(i)
                    /\ radcheck[i] \in Own(i) \union {NoRow, Disabled}
                    /\ conf.blk[i] \in Own(i) \union {NoRow, Disabled}
                    /\ charon[i] \in Own(i) \union {NoRow, Disabled}
                    /\ \A w \in Requests : snap[w].blk[i] \in Own(i) \union {NoRow, Disabled}
  BY DEF OwnInv
<1>1. users[i] # NoRow => users[i].pw = i /\ users[i].row = i
  BY DEF Init
<1>2. radcheck[i] \in {i, NoRow}
  BY DEF Init
<1>3. conf.blk[i] = radcheck[i] /\ charon[i] = radcheck[i]
  BY DEF Init
<1>4. \A w \in Requests : snap[w].blk[i] = NoRow
  BY EmptyType DEF Init
<1>5. QED
  BY <1>1, <1>2, <1>3, <1>4 DEF Own

LEMMA OwnMeans == OwnInv => OwnSecrets
<1>1. \A i \in Ids : Own(i) \subseteq Made(i)
  BY DEF Own, Made, Early
<1>2. QED
  BY <1>1 DEF OwnInv, OwnSecrets

-----------------------------------------------------------------------------
\* Without a cut no file has a mark, and the points are those of Portal.
Unmarked == \A i \in Ids : /\ conf.blk[i] # Disabled /\ charon[i] # Disabled
                           /\ \A w \in Requests : snap[w].blk[i] # Disabled

LEMMA PlainFiles ==
  /\ \A b : b \in Blocks <=> b \in AnyBlocks /\ \A i \in Ids : b[i] # Disabled
  /\ \A f : f \in Files <=> f \in AnyFiles /\ \A i \in Ids : f.blk[i] # Disabled
<1>1. \A b : b \in Blocks <=> b \in AnyBlocks /\ \A i \in Ids : b[i] # Disabled
  BY PortalAssumption DEF Blocks, AnyBlocks
<1>2. QED
  BY <1>1 DEF Files, AnyFiles

LEMMA TypeShape == TypeOK => Shape /\ Unmarked
<1> SUFFICES ASSUME TypeOK PROVE Shape /\ Unmarked
  OBVIOUS
<1>1. at \in [Requests -> Anywhere]
  BY DEF TypeOK, Anywhere
<1>2. snap \in [Requests -> AnyFiles]
      /\ \A w \in Requests, i \in Ids : snap[w].blk[i] # Disabled
  BY PlainFiles DEF TypeOK
<1>3. QED
  BY <1>1, <1>2, PlainFiles DEF TypeOK, Shape, Unmarked

LEMMA UnmarkedNext ==
  ASSUME Unmarked, NEW w \in Requests, Effect(w) PROVE Unmarked'
<1>1. w # Disabled /\ NoRow # Disabled
  BY PortalAssumption DEF Secrets
<1>2. QED
  BY <1>1 DEF Unmarked, Effect, Mine

LEMMA StepGoes ==
  ASSUME NEW w \in Requests, First(w) \/ Later(w) \/ Crash(w)
  PROVE  \/ at' = at /\ at[w] \in Points
         \/ \E l \in Points : at' = [at EXCEPT ![w] = l]
<1> USE DEF Goto, Points
<1>1. CASE First(w)
  BY <1>1 DEF First, Begin, CreateCheck, RenameDevice, RotateCheck, ArchiveCheck,
              UnarchiveCheck, DeleteCheck
<1>2. ASSUME \/ CreateExists(w) \/ CreateAppend(w) \/ CreateUndo(w) \/ RotateRead(w)
             \/ UnarchiveRead(w) \/ DeleteRead(w) \/ DeleteLook(w)
      PROVE  \E l \in Points : at' = [at EXCEPT ![w] = l]
  BY <1>2 DEF CreateExists, CreateAppend, CreateUndo, RotateRead, UnarchiveRead,
              DeleteRead, DeleteLook, LookBare, ReadThen, Raise
<1>3. ASSUME \/ CreateInsert(w) \/ CreateWrite(w) \/ CreateReload(w) \/ CreateCommit(w)
             \/ CreateUnwrite(w)
      PROVE  \E l \in Points : at' = [at EXCEPT ![w] = l]
  BY <1>3 DEF CreateInsert, CreateWrite, CreateReload, CreateCommit, CreateUnwrite,
              Write, Reload, Raise
<1>4. ASSUME \/ RotateUser(w) \/ RotateWrite(w) \/ RotateReload(w) \/ RotateRadcheck(w)
             \/ ArchiveStatus(w) \/ ArchiveDevice(w) \/ ArchiveRadcheck(w)
      PROVE  \E l \in Points : at' = [at EXCEPT ![w] = l]
  BY <1>4 DEF RotateUser, RotateWrite, RotateReload, RotateRadcheck, ArchiveStatus,
              ArchiveDevice, ArchiveRadcheck, PutUser, Write, Reload, PutRadcheck,
              FindDevice, Raise
<1>5. ASSUME \/ UnarchiveStatus(w) \/ UnarchiveDevice(w) \/ UnarchiveUser(w)
             \/ UnarchiveWrite(w) \/ UnarchiveRadcheck(w) \/ UnarchiveReload(w)
      PROVE  \E l \in Points : at' = [at EXCEPT ![w] = l]
  BY <1>5 DEF UnarchiveStatus, UnarchiveDevice, UnarchiveUser, UnarchiveWrite,
              UnarchiveRadcheck, UnarchiveReload, PutUser, Write, Reload, PutRadcheck,
              FindDevice, Raise
<1>6. ASSUME \/ DeleteUsers(w) \/ DeleteOrphans(w) \/ DeleteDevices(w) \/ DeleteWrite(w)
             \/ DeleteRadcheck(w) \/ DeleteReload(w) \/ DeleteCustomer(w)
             \/ DeleteBare(w) \/ DeleteCut(w)
      PROVE  \E l \in Points : at' = [at EXCEPT ![w] = l]
  BY <1>6 DEF DeleteUsers, DeleteOrphans, DeleteDevices, DeleteWrite, DeleteRadcheck,
              DeleteReload, DeleteCustomer, DeleteBare, DropBare, DeleteCut, CutBare,
              Write, Reload, Raise
<1>7. CASE DeleteOrphan(w)
  BY <1>7 DEF DeleteOrphan
<1>8. CASE Crash(w)
  BY <1>8 DEF Crash
<1>9. QED
  BY <1>1, <1>2, <1>3, <1>4, <1>5, <1>6, <1>7, <1>8 DEF Later

LEMMA TypeNext == TypeOK /\ [Next]_vars => TypeOK'
<1> SUFFICES ASSUME TypeOK, [Next]_vars PROVE TypeOK'
  OBVIOUS
<1>1. ASSUME NEW w \in Requests, First(w) \/ Later(w) \/ Crash(w) PROVE TypeOK'
  <2>1. Shape' /\ Unmarked'
    BY <1>1, TypeShape, StepShape, StepEffect, UnmarkedNext
  <2>2. at' \in [Requests -> Points]
    BY <1>1, StepGoes DEF TypeOK
  <2>3. snap' \in [Requests -> Files]
    BY <2>1, PlainFiles DEF Shape, Unmarked
  <2>4. QED
    BY <2>1, <2>2, <2>3, PlainFiles DEF Shape, Unmarked, TypeOK
<1>2. CASE UNCHANGED vars
  BY <1>2 DEF vars, tables, gateway, locals, bounds, TypeOK
<1>3. QED
  BY <1>1, <1>2 DEF Next

\* Whatever the requests do and whatever fails, every store, every copy a
\* request holds and every request keep their types.
THEOREM PortalTypes == Spec => []TypeOK
BY TypeInit, TypeNext, PTL DEF Spec

\* Under one identity no table, no file, no copy of it and no charon ever holds
\* a secret that a request generated for another identity, whatever requests
\* interleave, fail and are killed.
THEOREM SecretsStayApart == Spec => []OwnSecrets
<1>1. Init => TypeOK /\ OwnInv
  BY TypeInit, OwnInit
<1>2. TypeOK /\ OwnInv /\ [Next]_vars => (TypeOK /\ OwnInv)'
  BY TypeNext, OwnNext, TypeShape
<1>3. QED
  BY <1>1, <1>2, OwnMeans, PTL DEF Spec
-----------------------------------------------------------------------------
(* No device without its customer.  NoPhantomDevice is not inductive: what  *)
(* a delete of the customer relies on is that the devices have gone before  *)
(* and that none comes back under the same row id, which only a request     *)
(* that has not inserted its rows yet could give.                           *)

CustRow(c) == RowOf(customers[c])
DevRow(c) == RowOf(devices[c])

\* The points of a delete after it has deleted the devices.
DevicesGone == {"delete.read", "delete.write", "delete.radcheck", "delete.reload",
                "delete.customer"}
\* The points at which the rows of a request may be in the tables.
Inserted == Ended \union {"orphan.read", "orphan.write", "orphan.append", "orphan.put",
                          "orphan.reload"}

RowsInv ==
  /\ \A c \in Names : DevRow(c) # NoRow => CustRow(c) = DevRow(c)
  /\ \A w \in Requests : at[w] \in DevicesGone /\ row[w] # NoRow => DevRow(cust[w]) # row[w]
  /\ \A w \in Requests, c \in Names : CustRow(c) = w => at[w] \in Inserted
  /\ \A v, w \in Requests : row[v] = w => at[w] \in Inserted

\* What a step of a request may do to customers and devices: take a device
\* away, take away its customer once it has no device, or insert both.
RowStep(w) ==
  /\ \A v \in Requests \ {w} : at'[v] = at[v] /\ cust'[v] = cust[v] /\ row'[v] = row[v]
  /\ at[w] \in Inserted => at'[w] \in Inserted
  /\ \/ /\ cust'[w] = cust[w] /\ row'[w] = row[w]
        /\ at'[w] \in DevicesGone =>
             \/ at[w] \in DevicesGone
             \/ row[w] = NoRow \/ DevRow(cust[w])' # row[w]
     \/ /\ at'[w] \notin DevicesGone
        /\ \E c \in Names : row'[w] = CustRow(c)
  /\ \A c \in Names :
       \/ CustRow(c)' = CustRow(c) /\ DevRow(c)' \in {DevRow(c), NoRow}
       \/ /\ c = cust[w] /\ CustRow(c) = row[w] /\ CustRow(c)' = NoRow
          /\ DevRow(c)' \in {DevRow(c), NoRow}
          /\ at[w] \in DevicesGone \/ DevRow(c)' # row[w]
       \/ /\ c = cust[w] /\ CustRow(c)' = w /\ DevRow(c)' = w
          /\ at[w] \notin Inserted \union Early /\ at'[w] \in Inserted
          /\ at[w] = "orphan.rows" \/ \E d \in Devs : id[w] = Identity(c, d)

LEMMA RowsNext ==
  ASSUME Shape, RowsInv, NEW w \in Requests, RowStep(w) PROVE RowsInv'
<1>1. NoRow \notin Requests /\ DevicesGone \intersect Inserted = {}
      /\ cust[w] \in Names
  BY PortalAssumption DEF Secrets, DevicesGone, Inserted, Ended, Shape
<1>2. \A c \in Names : DevRow(c)' # NoRow => CustRow(c)' = DevRow(c)'
  <2> SUFFICES ASSUME NEW c \in Names, DevRow(c)' # NoRow PROVE CustRow(c)' = DevRow(c)'
    OBVIOUS
  <2>1. CASE CustRow(c)' = CustRow(c) /\ DevRow(c)' \in {DevRow(c), NoRow}
    BY <2>1 DEF RowsInv
  <2>2. CASE /\ c = cust[w] /\ CustRow(c) = row[w] /\ DevRow(c)' \in {DevRow(c), NoRow}
             /\ at[w] \in DevicesGone \/ DevRow(c)' # row[w]
    BY <2>2 DEF RowsInv
  <2>3. QED
    BY <2>1, <2>2 DEF RowStep
<1>3. ASSUME NEW v \in Requests, at'[v] \in DevicesGone, row'[v] # NoRow
      PROVE  DevRow(cust[v])' # row'[v] /\ cust'[v] = cust[v]
  <2>1. cust'[v] = cust[v] /\ row'[v] = row[v] /\ cust[v] \in Names
    BY <1>3 DEF RowStep, Shape
  <2>2. DevRow(cust[v]) # row[v] \/ DevRow(cust[v])' # row[v]
    BY <1>3, <2>1 DEF RowStep, RowsInv
  <2>3. DevRow(cust[v])' = w => row[v] # w
    <3>1. CASE DevRow(cust[v]) = w
      BY <2>2, <3>1
    <3>2. CASE DevRow(cust[v])' = w /\ DevRow(cust[v]) # w
      <4>1. at[w] \notin Inserted
        BY <1>1, <2>1, <3>2 DEF RowStep
      <4>2. QED
        BY <4>1 DEF RowsInv
    <3>3. QED
      BY <3>1, <3>2
  <2>4. DevRow(cust[v])' \in {DevRow(cust[v]), NoRow, w}
    BY <2>1 DEF RowStep
  <2>5. QED
    BY <1>3, <2>1, <2>2, <2>3, <2>4
<1>4. \A u \in Requests : at[u] \in Inserted => at'[u] \in Inserted
  BY DEF RowStep
<1>5. ASSUME NEW u \in Requests, NEW c \in Names, CustRow(c)' = u PROVE at'[u] \in Inserted
  BY <1>1, <1>4, <1>5 DEF RowStep, RowsInv
<1>6. ASSUME NEW u \in Requests, NEW v \in Requests, row'[v] = u PROVE at'[u] \in Inserted
  BY <1>4, <1>6 DEF RowStep, RowsInv
<1>7. QED
  <2>1. \A v \in Requests : at'[v] \in DevicesGone /\ row'[v] # NoRow
          => RowOf(devices'[cust'[v]]) # row'[v]
    BY <1>3 DEF DevRow
  <2>2. QED
    BY <1>2, <1>5, <1>6, <2>1 DEF RowsInv, DevRow

\* Most steps leave customers, devices and what the request is about alone.
Aside(w) ==
  /\ UNCHANGED <<customers, devices, cust, row>>
  /\ \A v \in Requests \ {w} : at'[v] = at[v]
  /\ at[w] \in Inserted => at'[w] \in Inserted
  /\ at'[w] \in DevicesGone => at[w] \in DevicesGone

LEMMA AsideRows == ASSUME Shape, NEW w \in Requests, Aside(w) PROVE RowStep(w)
BY DEF Aside, RowStep, CustRow, DevRow

LEMMA CreateAside ==
  ASSUME Shape, NEW w \in Requests,
         \/ CreateExists(w) \/ CreateInsert(w) \/ CreateAppend(w) \/ CreateWrite(w)
         \/ CreateReload(w) \/ CreateUndo(w) \/ CreateUnwrite(w)
  PROVE  Aside(w)
<1> USE DEF Shape, Goto, Raise, tables, gateway, locals, Aside, DevicesGone, Inserted, Ended
<1>1. CASE CreateExists(w) \/ CreateAppend(w) \/ CreateUndo(w)
  BY <1>1 DEF CreateExists, CreateAppend, CreateUndo, ReadThen
<1>2. CASE CreateInsert(w)
  BY <1>2 DEF CreateInsert
<1>3. CASE CreateWrite(w) \/ CreateUnwrite(w) \/ CreateReload(w)
  BY <1>3 DEF CreateWrite, CreateUnwrite, CreateReload, Write, Reload
<1>4. QED
  BY <1>1, <1>2, <1>3

LEMMA RotateAside ==
  ASSUME Shape, NEW w \in Requests,
         \/ RotateUser(w) \/ RotateRead(w) \/ RotateWrite(w) \/ RotateReload(w)
         \/ RotateRadcheck(w)
  PROVE  Aside(w)
<1> USE DEF Shape, Goto, Raise, tables, gateway, locals, Aside, DevicesGone, Inserted, Ended
<1>1. CASE RotateUser(w) \/ RotateRadcheck(w)
  BY <1>1 DEF RotateUser, RotateRadcheck, PutUser, PutRadcheck
<1>2. CASE RotateRead(w)
  BY <1>2 DEF RotateRead, ReadThen
<1>3. CASE RotateWrite(w) \/ RotateReload(w)
  BY <1>3 DEF RotateWrite, RotateReload, Write, Reload
<1>4. QED
  BY <1>1, <1>2, <1>3

LEMMA ArchiveAside ==
  ASSUME Shape, NEW w \in Requests,
         \/ ArchiveDevice(w) \/ ArchiveRadcheck(w)
         \/ UnarchiveDevice(w) \/ UnarchiveUser(w) \/ UnarchiveRead(w)
         \/ UnarchiveWrite(w) \/ UnarchiveRadcheck(w) \/ UnarchiveReload(w)
  PROVE  Aside(w)
<1> USE DEF Shape, Goto, Raise, tables, gateway, locals, Aside, DevicesGone, Inserted, Ended
<1>1. CASE ArchiveDevice(w) \/ UnarchiveDevice(w)
  BY <1>1 DEF ArchiveDevice, UnarchiveDevice, FindDevice
<1>2. CASE ArchiveRadcheck(w) \/ UnarchiveRadcheck(w)
  BY <1>2 DEF ArchiveRadcheck, UnarchiveRadcheck, PutRadcheck
<1>3. CASE UnarchiveUser(w)
  BY <1>3 DEF UnarchiveUser, PutUser
<1>4. CASE UnarchiveRead(w)
  BY <1>4 DEF UnarchiveRead, ReadThen
<1>5. CASE UnarchiveWrite(w) \/ UnarchiveReload(w)
  BY <1>5 DEF UnarchiveWrite, UnarchiveReload, Write, Reload
<1>6. QED
  BY <1>1, <1>2, <1>3, <1>4, <1>5

LEMMA DeleteAside ==
  ASSUME Shape, NEW w \in Requests,
         \/ DeleteUsers(w) \/ DeleteBare(w) \/ DeleteLook(w) \/ DeleteCut(w)
         \/ DeleteOrphans(w) \/ DeleteOrphan(w) \/ DeleteRead(w)
         \/ DeleteWrite(w) \/ DeleteRadcheck(w) \/ DeleteReload(w) \/ Crash(w)
  PROVE  Aside(w)
<1> USE DEF Shape, Goto, Raise, tables, gateway, locals, Aside, DevicesGone, Inserted, Ended
<1>1. CASE DeleteUsers(w) \/ DeleteRadcheck(w)
  BY <1>1 DEF DeleteUsers, DeleteRadcheck
<1>2. CASE DeleteOrphans(w)
  BY <1>2 DEF DeleteOrphans
<1>3. CASE DeleteOrphan(w)
  BY <1>3 DEF DeleteOrphan
<1>4. CASE DeleteRead(w)
  BY <1>4 DEF DeleteRead, ReadThen
<1>5. CASE DeleteWrite(w) \/ DeleteReload(w)
  BY <1>5 DEF DeleteWrite, DeleteReload, Write, Reload
<1>6. CASE Crash(w)
  BY <1>6 DEF Crash
<1>7. CASE DeleteBare(w)
  BY <1>7 DEF DeleteBare, DropBare
<1>8. CASE DeleteLook(w)
  BY <1>8 DEF DeleteLook, LookBare, ReadThen
<1>9. CASE DeleteCut(w)
  BY <1>9 DEF DeleteCut, CutBare, Write
<1>10. QED
  BY <1>1, <1>2, <1>3, <1>4, <1>5, <1>6, <1>7, <1>8, <1>9

LEMMA RaiseRows ==
  ASSUME Shape, NEW w \in Requests, NEW from, NEW to, Raise(w, from, to),
         from \notin Inserted, to \notin DevicesGone
  PROVE  RowStep(w)
BY AsideRows DEF Raise, Goto, tables, locals, Aside, Shape

LEMMA BeginRows ==
  ASSUME Shape, NEW w \in Requests, NEW c \in Names, NEW to, to \notin DevicesGone,
         Begin(w, c, to), UNCHANGED customers,
         \A n \in Names : DevRow(n)' = DevRow(n)
  PROVE  RowStep(w)
BY DEF Begin, Goto, Shape, RowStep, CustRow, Inserted, Ended

LEMMA SetStatusRows ==
  ASSUME Shape, NEW w \in Requests, NEW from, NEW to,
         NEW s \in {"active", "archived"},
         Goto(w, from, to), from \notin Inserted, to \notin DevicesGone, SetStatus(w, s),
         UNCHANGED <<devices, cust, row>>
  PROVE  RowStep(w)
<1>1. cust[w] \in Names /\ customers[cust[w]] \in Customers /\ NoRow \notin Rows
  BY RowOfType DEF Shape
<1>2. Is(customers[cust[w]], row[w]) => [row |-> row[w], status |-> s] # NoRow
  BY <1>1, PortalAssumption DEF Is, Customers, Rows
<1>3. \A c \in Names : CustRow(c)' = CustRow(c)
  BY <1>1, <1>2 DEF SetStatus, CustRow, RowOf, Is, Shape
<1>4. QED
  BY <1>3 DEF Goto, RowStep, DevRow, Shape

LEMMA CreateRows ==
  ASSUME Shape, NEW w \in Requests,
         \/ \E c \in Names, d \in Devs : CreateCheck(w, c, d)
         \/ CreateExists(w) \/ CreateInsert(w) \/ CreateAppend(w) \/ CreateWrite(w)
         \/ CreateReload(w) \/ CreateCommit(w) \/ CreateUndo(w) \/ CreateUnwrite(w)
  PROVE  RowStep(w)
<1>1. ASSUME NEW c \in Names, NEW d \in Devs, CreateCheck(w, c, d) PROVE RowStep(w)
  <2>1. UNCHANGED customers /\ \A n \in Names : DevRow(n)' = DevRow(n)
    BY <1>1 DEF CreateCheck, tables, DevRow
  <2>2. QED
    BY <1>1, <2>1, BeginRows DEF CreateCheck, DevicesGone
<1>2. CASE CreateCommit(w)
  <2>1. CASE Raise(w, "create.commit", "create.undo")
    BY <2>1, RaiseRows DEF Inserted, Ended, DevicesGone
  <2>2. CASE ~Raise(w, "create.commit", "create.undo")
    <3>1. /\ Goto(w, "create.commit", "ok")
          /\ customers' = [customers EXCEPT ![cust[w]] = [row |-> w, status |-> "active"]]
          /\ \E d \in Devs :
               /\ id[w] = Identity(cust[w], d)
               /\ devices' = [devices EXCEPT ![cust[w]] = [row |-> w, name |-> d]]
          /\ UNCHANGED <<cust, row>>
      BY <1>2, <2>2, Zenon DEF CreateCommit, locals
    <3>2. PICK d \in Devs : /\ id[w] = Identity(cust[w], d)
                            /\ devices' = [devices EXCEPT ![cust[w]] = [row |-> w, name |-> d]]
      BY <3>1
    <3>3. RowOf([row |-> w, status |-> "active"]) = w /\ RowOf([row |-> w, name |-> d]) = w
      BY PortalAssumption DEF RowOf, Secrets
    <3>4. \A c \in Names : \/ CustRow(c)' = CustRow(c) /\ DevRow(c)' = DevRow(c)
                           \/ c = cust[w] /\ CustRow(c)' = w /\ DevRow(c)' = w
      BY <3>1, <3>2, <3>3 DEF CustRow, DevRow, Shape
    <3>5. /\ at[w] \notin Inserted \union Early /\ at'[w] \in Inserted
          /\ at'[w] \notin DevicesGone /\ \A v \in Requests \ {w} : at'[v] = at[v]
      BY <3>1 DEF Goto, Inserted, Early, Ended, DevicesGone, Shape
    <3>6. QED
      BY <3>1, <3>2, <3>4, <3>5 DEF RowStep
  <2>3. QED
    BY <2>1, <2>2
<1>3. QED
  BY <1>1, <1>2, CreateAside, AsideRows

LEMMA RenameRows ==
  ASSUME Shape, NEW w \in Requests, NEW c \in Names, NEW d \in Devs, RenameDevice(w, c, d)
  PROVE  RowStep(w)
<1>1. devices[c] \in [row : Rows, name : Devs]
  BY DEF RenameDevice, Shape, Devices
<1>2. RowOf([devices[c] EXCEPT !.name = d]) = RowOf(devices[c])
  <2>1. [devices[c] EXCEPT !.name = d] = [row |-> devices[c].row, name |-> d]
    BY <1>1
  <2>2. [devices[c] EXCEPT !.name = d] # NoRow /\ devices[c] # NoRow
    BY <1>1, <2>1, PortalAssumption DEF Rows
  <2>3. QED
    BY <2>1, <2>2 DEF RowOf
<1>3. \A n \in Names : DevRow(n)' = DevRow(n)
  BY <1>2 DEF RenameDevice, DevRow, Shape
<1>4. QED
  BY <1>3, BeginRows DEF RenameDevice, DevicesGone

LEMMA RotateRows ==
  ASSUME Shape, NEW w \in Requests,
         \/ \E c \in Names : RotateCheck(w, c)
         \/ RotateUser(w) \/ RotateRead(w) \/ RotateWrite(w) \/ RotateReload(w)
         \/ RotateRadcheck(w)
  PROVE  RowStep(w)
<1>1. ASSUME NEW c \in Names, RotateCheck(w, c) PROVE RowStep(w)
  <2>1. UNCHANGED customers /\ \A n \in Names : DevRow(n)' = DevRow(n)
    BY <1>1 DEF RotateCheck, tables, DevRow
  <2>2. Begin(w, c, "rotate.user") \/ Begin(w, c, "refused")
    BY <1>1 DEF RotateCheck
  <2>3. QED
    BY <2>1, <2>2, BeginRows DEF DevicesGone
<1>2. QED
  BY <1>1, RotateAside, AsideRows

LEMMA ArchiveRows ==
  ASSUME Shape, NEW w \in Requests,
         \/ \E c \in Names : ArchiveCheck(w, c) \/ UnarchiveCheck(w, c)
         \/ ArchiveStatus(w) \/ ArchiveDevice(w) \/ ArchiveRadcheck(w)
         \/ UnarchiveStatus(w) \/ UnarchiveDevice(w) \/ UnarchiveUser(w)
         \/ UnarchiveRead(w) \/ UnarchiveWrite(w) \/ UnarchiveRadcheck(w)
         \/ UnarchiveReload(w)
  PROVE  RowStep(w)
<1>1. ASSUME NEW c \in Names, ArchiveCheck(w, c) \/ UnarchiveCheck(w, c) PROVE RowStep(w)
  <2>1. UNCHANGED customers /\ \A n \in Names : DevRow(n)' = DevRow(n)
    BY <1>1 DEF ArchiveCheck, UnarchiveCheck, tables, DevRow
  <2>2. \E to \in {"archive.status", "unarchive.status", "refused"} : Begin(w, c, to)
    BY <1>1 DEF ArchiveCheck, UnarchiveCheck
  <2>3. QED
    BY <2>1, <2>2, BeginRows DEF DevicesGone
<1>2. CASE ArchiveStatus(w) \/ UnarchiveStatus(w)
  <2>1. CASE Raise(w, "archive.status", "error") \/ Raise(w, "unarchive.status", "error")
    BY <2>1, RaiseRows DEF Inserted, Ended, DevicesGone
  <2>2. CASE ~(Raise(w, "archive.status", "error") \/ Raise(w, "unarchive.status", "error"))
    BY <1>2, <2>2, SetStatusRows
       DEF ArchiveStatus, UnarchiveStatus, locals, Inserted, Ended, DevicesGone
  <2>3. QED
    BY <2>1, <2>2
<1>3. QED
  BY <1>1, <1>2, ArchiveAside, AsideRows

LEMMA DeleteRows ==
  ASSUME Shape, NEW w \in Requests,
         \/ \E c \in Names : DeleteCheck(w, c)
         \/ DeleteUsers(w) \/ DeleteBare(w) \/ DeleteLook(w) \/ DeleteCut(w)
         \/ DeleteOrphans(w) \/ DeleteOrphan(w) \/ DeleteDevices(w) \/ DeleteRead(w)
         \/ DeleteWrite(w) \/ DeleteRadcheck(w) \/ DeleteReload(w) \/ DeleteCustomer(w)
         \/ Crash(w)
  PROVE  RowStep(w)
<1>1. ASSUME NEW c \in Names, DeleteCheck(w, c) PROVE RowStep(w)
  <2>1. UNCHANGED customers /\ \A n \in Names : DevRow(n)' = DevRow(n)
    BY <1>1 DEF DeleteCheck, tables, DevRow
  <2>2. \E to \in {"delete.users", "alone.bare", "refused"} : Begin(w, c, to)
    BY <1>1 DEF DeleteCheck
  <2>3. QED
    BY <2>1, <2>2, BeginRows DEF DevicesGone
<1>2. CASE DeleteDevices(w)
  <2>1. CASE Raise(w, "delete.devices", "error") \/ Raise(w, "alone.devices", "error")
    BY <2>1, RaiseRows DEF Inserted, Ended, DevicesGone
  <2>2. CASE ~(Raise(w, "delete.devices", "error") \/ Raise(w, "alone.devices", "error"))
    <3>1. /\ at[w] \in {"delete.devices", "alone.devices"}
          /\ \A v \in Requests \ {w} : at'[v] = at[v]
          /\ UNCHANGED <<customers, cust, row>>
          /\ devices' = [devices EXCEPT ![cust[w]] = IF Is(@, row[w]) THEN NoRow ELSE @]
      BY <1>2, <2>2 DEF DeleteDevices, Goto, locals, Shape
    <3>2. \A c \in Names : /\ CustRow(c)' = CustRow(c)
                            /\ DevRow(c)' \in {DevRow(c), NoRow}
      BY <3>1 DEF CustRow, DevRow, RowOf, Shape
    <3>3. row[w] = NoRow \/ DevRow(cust[w])' # row[w]
      BY <3>1 DEF DevRow, RowOf, Is, Shape
    <3>4. QED
      BY <3>1, <3>2, <3>3 DEF RowStep, Inserted, Ended
  <2>3. QED
    BY <2>1, <2>2
<1>3. CASE DeleteCustomer(w)
  <2>1. CASE Raise(w, "delete.customer", "error")
    BY <2>1, RaiseRows DEF Inserted, Ended, DevicesGone
  <2>2. CASE ~Raise(w, "delete.customer", "error")
    <3>1. /\ at[w] = "delete.customer" /\ at'[w] = "ok"
          /\ \A v \in Requests \ {w} : at'[v] = at[v]
          /\ UNCHANGED <<devices, cust, row>>
          /\ customers' = [customers EXCEPT ![cust[w]] = IF Is(@, row[w]) THEN NoRow ELSE @]
      BY <1>3, <2>2 DEF DeleteCustomer, Goto, locals, Shape
    <3>2. \A c \in Names :
            /\ DevRow(c)' = DevRow(c)
            /\ \/ CustRow(c)' = CustRow(c)
               \/ c = cust[w] /\ CustRow(c) = row[w] /\ CustRow(c)' = NoRow
      BY <3>1 DEF CustRow, DevRow, RowOf, Is, Shape
    <3>3. QED
      BY <3>1, <3>2 DEF RowStep, DevicesGone, Inserted, Ended
  <2>3. QED
    BY <2>1, <2>2
<1>4. QED
  BY <1>1, <1>2, <1>3, DeleteAside, AsideRows

LEMMA StepRows ==
  ASSUME Shape, NEW w \in Requests, First(w) \/ Later(w) \/ Crash(w) PROVE RowStep(w)
<1>1. CASE First(w)
  BY <1>1, CreateRows, RenameRows, RotateRows, ArchiveRows, DeleteRows DEF First
<1>2. CASE Later(w)
  BY <1>2, CreateRows, RotateRows, ArchiveRows, DeleteRows DEF Later
<1>3. QED
  BY <1>1, <1>2, DeleteRows

LEMMA RowsInit == Init => RowsInv
<1> SUFFICES ASSUME Init PROVE RowsInv
  OBVIOUS
<1>1. \A w \in Requests : at[w] = "idle" /\ row[w] = NoRow
  BY DEF Init
<1>2. PICK old \in SUBSET Names, d \in Devs :
        /\ customers = [c \in Names |->
             IF c \in old THEN [row |-> Identity(c, d), status |-> "active"] ELSE NoRow]
        /\ devices = [c \in Names |->
             IF c \in old THEN [row |-> Identity(c, d), name |-> d] ELSE NoRow]
  BY DEF Init
<1>3. ASSUME NEW c \in Names
      PROVE  \/ customers[c] = NoRow /\ devices[c] = NoRow
             \/ RowOf(customers[c]) = Identity(c, d) /\ RowOf(devices[c]) = Identity(c, d)
  <2>1. Identity(c, d) \in Secrets
    BY IdentityType DEF Secrets
  <2>2. CASE c \in old
    <3>1. /\ customers[c] = [row |-> Identity(c, d), status |-> "active"]
          /\ devices[c] = [row |-> Identity(c, d), name |-> d]
      BY <1>2, <2>2
    <3>2. customers[c] # NoRow /\ devices[c] # NoRow
      BY <2>1, <3>1, PortalAssumption
    <3>3. QED
      BY <3>1, <3>2 DEF RowOf
  <2>3. CASE c \notin old
    BY <1>2, <2>3
  <2>4. QED
    BY <2>2, <2>3
<1>4. \A c \in Names : Identity(c, d) \in Ids /\ Identity(c, d) \notin Requests
  BY IdentityType, PortalAssumption
<1>5. NoRow \notin Requests
  BY PortalAssumption DEF Secrets
<1>6. QED
  BY <1>1, <1>3, <1>4, <1>5 DEF RowsInv, CustRow, DevRow, RowOf, DevicesGone

LEMMA RowsMean == Shape /\ RowsInv => NoPhantomDevice
BY RowOfType DEF Shape, RowsInv, CustRow, DevRow, RowOf, NoPhantomDevice, Devices

\* No device points to a customer that was deleted, however requests
\* interleave, fail and are killed.
THEOREM DevicesHaveCustomers == Spec => []NoPhantomDevice
<1>1. Init => TypeOK /\ RowsInv
  BY TypeInit, RowsInit
<1>2. TypeOK /\ RowsInv /\ [Next]_vars => (TypeOK /\ RowsInv)'
  <2> SUFFICES ASSUME TypeOK, RowsInv, [Next]_vars PROVE RowsInv'
    BY TypeNext
  <2>1. ASSUME NEW w \in Requests, First(w) \/ Later(w) \/ Crash(w) PROVE RowsInv'
    BY <2>1, TypeShape, StepRows, RowsNext
  <2>2. CASE UNCHANGED vars
    BY <2>2 DEF vars, tables, locals, RowsInv, CustRow, DevRow
  <2>3. QED
    BY <2>1, <2>2 DEF Next
<1>3. TypeOK /\ RowsInv => NoPhantomDevice
  BY TypeShape, RowsMean
<1>4. QED
  BY <1>1, <1>2, <1>3, PTL DEF Spec

-----------------------------------------------------------------------------
(* Creating is all or nothing.  While nobody does anything but create one   *)
(* identity, the transactions exclude one another, whoever has put a block  *)
(* into the file is the only one to have done so and nobody has committed   *)
(* yet, so that what a failed create takes out again is its own.            *)
Creates == {"create.exists", "create.insert", "create.append", "create.write",
            "create.reload", "create.commit", "create.undo", "create.unwrite"}
Written == {"create.reload", "create.commit", "create.undo", "create.unwrite"}

\* Other requests than creates know the row of their customer.
RowKnown ==
  \A w \in Requests : at[w] \in Points \ (Creates \union Ended \union {"idle"}) => row[w] # NoRow

OnlyCreated(c) ==
  /\ \A w \in Begun : cust[w] = c /\ row[w] = NoRow
  /\ \A v, w \in Begun : id[v] = id[w]

Whole(c) ==
  \E i \in Ids : /\ RowOf(users[i]) = customers[c].row
                 /\ RowOf(devices[c]) = customers[c].row
                 /\ radcheck[i] = users[i].pw /\ conf.blk[i] = users[i].pw

Alike(c) ==
  /\ \A v, w \in Requests : at[v] \in InTx /\ at[w] \in InTx => v = w
  /\ \A w \in Requests : at[w] \in InTx \union Written => customers[c] = NoRow
  /\ \A w \in Requests : at[w] \in Written => conf.blk[id[w]] = w
  /\ \A w \in Requests : at[w] = "create.write" => snap[w] = conf /\ conf.blk[id[w]] = NoRow
  /\ customers[c] # NoRow => Whole(c)

WholeInv == RowKnown /\ \A c \in Names : OnlyCreated(c) => Alike(c)
Others == Points \ (Creates \union Ended \union {"idle"})

LEMMA FirstKnown ==
  ASSUME Shape, NEW w \in Requests, First(w)
  PROVE  /\ at[w] = "idle" /\ at'[w] \in Others \union Ended \union {"create.exists"}
         /\ at'[w] \in Others => row'[w] # NoRow
         /\ \A v \in Requests \ {w} : /\ at'[v] = at[v] /\ row'[v] = row[v]
                                        /\ cust'[v] = cust[v] /\ id'[v] = id[v]
         /\ UNCHANGED <<customers, users, radcheck, conf, snap>>
         /\ \A c \in Names : customers[c] # NoRow =>
              devices'[c] = devices[c] \/ row'[w] # NoRow
<1> USE DEF Creates, Ended, Others, Points
<1>1. PICK c \in Names, to \in {"create.exists", "refused", "ok", "rotate.user",
                               "archive.status", "unarchive.status", "delete.users",
                               "alone.bare"} :
        /\ Begin(w, c, to)
        /\ to \in Others => RowOf(customers[c]) # NoRow
        /\ devices' = devices \/ \E d \in Devs : devices' = [devices EXCEPT ![c].name = d]
  <2>1. PICK c \in Names :
          \/ \E d \in Devs : CreateCheck(w, c, d) \/ RenameDevice(w, c, d)
          \/ RotateCheck(w, c) \/ ArchiveCheck(w, c) \/ UnarchiveCheck(w, c)
          \/ DeleteCheck(w, c)
    BY DEF First
  <2>2. Status(c) \in {"active", "archived"} => RowOf(customers[c]) # NoRow
    BY PortalAssumption DEF Status, RowOf, Shape, Customers, Rows
  <2>3. customers[c] # NoRow => RowOf(customers[c]) # NoRow
    BY PortalAssumption DEF RowOf, Shape, Customers, Rows
  <2>4. Is(devices[c], RowOf(customers[c])) => RowOf(customers[c]) # NoRow
    BY PortalAssumption DEF Is, Shape, Devices, Rows
  <2>5. CASE \E d \in Devs : CreateCheck(w, c, d) \/ RenameDevice(w, c, d)
    BY <2>5 DEF CreateCheck, RenameDevice, tables
  <2>6. CASE RotateCheck(w, c) \/ ArchiveCheck(w, c) \/ UnarchiveCheck(w, c)
    BY <2>2, <2>6 DEF RotateCheck, ArchiveCheck, UnarchiveCheck, tables
  <2>7. CASE DeleteCheck(w, c)
    BY <2>3, <2>4, <2>7 DEF DeleteCheck, tables
  <2>8. QED
    BY <2>1, <2>5, <2>6, <2>7
<1>2. /\ at[w] = "idle" /\ at'[w] = to /\ row'[w] = RowOf(customers[c])
      /\ \A v \in Requests \ {w} : /\ at'[v] = at[v] /\ row'[v] = row[v]
                                     /\ cust'[v] = cust[v]
  BY <1>1 DEF Begin, Goto, Shape
<1>3. UNCHANGED <<customers, users, radcheck, conf, snap>>
  BY DEF First, CreateCheck, RenameDevice, RotateCheck, ArchiveCheck, UnarchiveCheck,
         DeleteCheck, tables, gateway
<1>4. \A b \in Names : customers[b] # NoRow => devices'[b] = devices[b] \/ row'[w] # NoRow
  <2>1. customers[c] # NoRow => row'[w] # NoRow
    BY <1>2, PortalAssumption DEF RowOf, Shape, Customers, Rows
  <2>2. \A b \in Names \ {c} : devices'[b] = devices[b]
    BY <1>1 DEF Shape
  <2>3. QED
    BY <2>1, <2>2
<1>5. \A v \in Requests \ {w} : id'[v] = id[v]
  BY DEF First, CreateCheck, RenameDevice, RotateCheck, ArchiveCheck, UnarchiveCheck,
         DeleteCheck, Shape
<1>6. QED
  BY <1>1, <1>2, <1>3, <1>4, <1>5

CreateStep(w) ==
  \/ CreateExists(w) \/ CreateInsert(w) \/ CreateAppend(w) \/ CreateWrite(w)
  \/ CreateReload(w) \/ CreateCommit(w) \/ CreateUndo(w) \/ CreateUnwrite(w)

\* What no create does goes on where requests know their row, or ends.
LEMMA OthersGo ==
  ASSUME Shape, NEW w \in Requests, Later(w) \/ Crash(w), at[w] \notin Creates
  PROVE  /\ at[w] \in Others \/ at[w] \notin Points
         /\ at'[w] \in Others \union Ended \/ at'[w] = at[w]
         /\ row' = row /\ \A v \in Requests \ {w} : at'[v] = at[v]
<1> USE DEF Goto, Raise, Creates, Ended, Others, Points, locals, Shape
<1>1. ~CreateStep(w)
  BY DEF CreateStep, CreateExists, CreateInsert, CreateAppend, CreateWrite, CreateReload,
         CreateCommit, CreateUndo, CreateUnwrite, ReadThen, Write, Reload
<1>2. CASE RotateUser(w) \/ RotateRead(w) \/ RotateWrite(w) \/ RotateReload(w) \/ RotateRadcheck(w)
  BY <1>2 DEF RotateUser, RotateRead, RotateWrite, RotateReload, RotateRadcheck, PutUser,
              ReadThen, Write, Reload, PutRadcheck
<1>3. CASE \/ ArchiveStatus(w) \/ ArchiveDevice(w) \/ ArchiveRadcheck(w)
           \/ UnarchiveStatus(w) \/ UnarchiveDevice(w) \/ UnarchiveUser(w)
  BY <1>3 DEF ArchiveStatus, ArchiveDevice, ArchiveRadcheck, UnarchiveStatus,
              UnarchiveDevice, UnarchiveUser, FindDevice, PutUser
<1>4. CASE \/ UnarchiveRead(w) \/ UnarchiveWrite(w) \/ UnarchiveRadcheck(w)
           \/ UnarchiveReload(w)
  BY <1>4 DEF UnarchiveRead, UnarchiveWrite, UnarchiveRadcheck, UnarchiveReload, ReadThen,
              Write, Reload, PutRadcheck
<1>5. CASE DeleteUsers(w) \/ DeleteOrphans(w) \/ DeleteDevices(w) \/ DeleteRead(w)
  BY <1>5 DEF DeleteUsers, DeleteOrphans, DeleteDevices, DeleteRead, ReadThen
<1>6. CASE DeleteOrphan(w)
  BY <1>6 DEF DeleteOrphan
<1>7. CASE DeleteWrite(w) \/ DeleteRadcheck(w) \/ DeleteReload(w) \/ DeleteCustomer(w)
  BY <1>7 DEF DeleteWrite, DeleteRadcheck, DeleteReload, DeleteCustomer, Write, Reload
<1>8. CASE Crash(w)
  BY <1>8 DEF Crash, Running
<1>9. CASE DeleteBare(w) \/ DeleteLook(w) \/ DeleteCut(w)
  BY <1>9 DEF DeleteBare, DropBare, DeleteLook, LookBare, ReadThen, DeleteCut, CutBare, Write
<1>10. QED
  BY <1>1, <1>2, <1>3, <1>4, <1>5, <1>6, <1>7, <1>8, <1>9 DEF Later, CreateStep

\* A create that goes on.
CreateGoes(w, from, to) ==
  /\ from \in Creates /\ to \in (Creates \ {"create.exists"}) \union Ended
  /\ Goto(w, from, to) /\ UNCHANGED <<cust, row, id>>
  /\ \A v \in Requests \ {w} : snap'[v] = snap[v]

LEMMA CreateGoesOn ==
  ASSUME Shape, NEW w \in Requests, CreateStep(w) \/ (Crash(w) /\ at[w] \in Creates)
  PROVE  \E from, to : CreateGoes(w, from, to)
<1> USE DEF Creates, Ended, Goto, Raise, CreateGoes, locals, Shape
<1>1. CASE CreateExists(w) \/ CreateAppend(w) \/ CreateUndo(w)
  BY <1>1 DEF CreateExists, CreateAppend, CreateUndo, ReadThen, Read
<1>2. CASE CreateInsert(w) \/ CreateCommit(w)
  BY <1>2 DEF CreateInsert, CreateCommit
<1>3. CASE CreateWrite(w) \/ CreateReload(w) \/ CreateUnwrite(w)
  BY <1>3 DEF CreateWrite, CreateReload, CreateUnwrite, Write, Reload
<1>4. CASE Crash(w) /\ at[w] \in Creates
  BY <1>4 DEF Crash
<1>5. QED
  BY <1>1, <1>2, <1>3, <1>4 DEF CreateStep

\* Where the file and the tables stay what they are.
LEMMA StillAlike ==
  ASSUME Shape, NEW c \in Names, Alike(c), OnlyCreated(c), NEW w \in Requests, NEW from, NEW to,
         CreateGoes(w, from, to), UNCHANGED <<tables, conf>>,
         to \in InTx => \/ from \in InTx
                        \/ customers[c] = NoRow /\ \A v \in Requests : at[v] \notin InTx,
         to \in Written => from \in Written,
         to = "create.write" => snap'[w] = conf /\ conf.blk[id[w]] = NoRow
  PROVE  Alike(c)'
<1>1. /\ at[w] = from /\ at'[w] = to /\ \A v \in Requests \ {w} : at'[v] = at[v]
  BY DEF CreateGoes, Goto, Shape
<1>2. \A v \in Requests : id'[v] = id[v]
  BY DEF CreateGoes
<1>3. \A v, u \in Requests : at'[v] \in InTx /\ at'[u] \in InTx => v = u
  BY <1>1 DEF Alike
<1>4. \A v \in Requests : at'[v] \in InTx \union Written => customers'[c] = NoRow
  BY <1>1 DEF Alike, tables
<1>5. \A v \in Requests : at'[v] \in Written => conf'.blk[id'[v]] = v
  BY <1>1, <1>2 DEF Alike
<1>6. \A v \in Requests : at'[v] = "create.write" => snap'[v] = conf' /\ conf'.blk[id'[v]] = NoRow
  BY <1>1, <1>2 DEF Alike, CreateGoes
<1>7. customers'[c] # NoRow => Whole(c)'
  BY DEF Alike, Whole, tables
<1>8. InTx' = InTx /\ Written' = Written
  BY DEF InTx, Written
<1>9. QED
  BY <1>3, <1>4, <1>5, <1>6, <1>7, <1>8 DEF Alike

LEMMA StillCreates ==
  ASSUME Shape, NEW c \in Names, Alike(c), OnlyCreated(c), NEW w \in Requests,
         \/ CreateExists(w) \/ CreateInsert(w) \/ CreateAppend(w) \/ CreateReload(w)
         \/ CreateUndo(w) \/ (Crash(w) /\ at[w] \in Creates)
         \/ CreateCommit(w) /\ at'[w] # "ok"
  PROVE  Alike(c)'
<1>1. PICK from, to : CreateGoes(w, from, to)
  BY CreateGoesOn DEF CreateStep
<1>2. at[w] = from /\ at'[w] = to
  BY <1>1 DEF CreateGoes, Goto, Shape
<1>3. UNCHANGED <<tables, conf>>
  <2>1. CASE CreateExists(w) \/ CreateAppend(w) \/ CreateUndo(w)
    BY <2>1 DEF CreateExists, CreateAppend, CreateUndo, ReadThen, Raise, gateway
  <2>2. CASE CreateInsert(w) \/ CreateReload(w) \/ Crash(w)
    BY <2>2 DEF CreateInsert, CreateReload, Reload, Raise, Crash, gateway
  <2>3. CASE CreateCommit(w) /\ at'[w] # "ok"
    BY <2>3 DEF CreateCommit, Goto, Raise, gateway, Shape
  <2>4. QED
    BY <2>1, <2>2, <2>3
<1>4. to \in InTx => from \in InTx \/ (from = "create.insert" /\ CreateInsert(w))
  <2>1. CASE CreateExists(w) \/ CreateAppend(w) \/ CreateUndo(w)
    BY <1>2, <2>1 DEF CreateExists, CreateAppend, CreateUndo, ReadThen, Raise, Goto, InTx, Shape
  <2>2. CASE CreateInsert(w) \/ CreateReload(w) \/ Crash(w) \/ CreateCommit(w)
    BY <1>2, <2>2 DEF CreateInsert, CreateReload, CreateCommit, Reload, Raise, Crash, Goto, InTx, Shape
  <2>3. QED
    BY <2>1, <2>2
<1>5. to \in InTx /\ CreateInsert(w) /\ from = "create.insert" =>
        customers[c] = NoRow /\ \A v \in Requests : at[v] \notin InTx
  <2> SUFFICES ASSUME to \in InTx, CreateInsert(w), from = "create.insert"
               PROVE  customers[c] = NoRow /\ \A v \in Requests : at[v] \notin InTx
    OBVIOUS
  <2>1. /\ \A v \in Requests : at[v] \in InTx => cust[v] # cust[w] /\ id[v] # id[w]
        /\ customers[cust[w]] = NoRow
    BY <1>2 DEF CreateInsert, Goto, Raise, InTx, Shape
  <2>2. cust[w] = c /\ \A v \in Requests : at[v] \in InTx => cust[v] = c
    BY <1>2 DEF OnlyCreated, Begun, InTx
  <2>3. QED
    BY <2>1, <2>2
<1>6. to \in Written => from \in Written
  <2>1. CASE CreateExists(w) \/ CreateAppend(w) \/ CreateUndo(w)
    BY <1>2, <2>1 DEF CreateExists, CreateAppend, CreateUndo, ReadThen, Raise, Goto, Written, Shape
  <2>2. CASE CreateInsert(w) \/ CreateReload(w) \/ Crash(w) \/ CreateCommit(w)
    BY <1>2, <2>2 DEF CreateInsert, CreateReload, CreateCommit, Reload, Raise, Crash, Goto, Written, Shape
  <2>3. QED
    BY <2>1, <2>2
<1>7. to = "create.write" => snap'[w] = conf /\ conf.blk[id[w]] = NoRow
  <2>1. CASE CreateAppend(w)
    <3>1. ~Empty.whole
      BY DEF Empty
    <3>2. to = "create.write" => /\ snap'[w] \in {conf, Empty}
                                 /\ snap'[w].whole /\ snap'[w].blk[id[w]] = NoRow
      BY <1>2, <2>1 DEF CreateAppend, ReadThen, Read, Raise, Goto, Shape
    <3>3. QED
      BY <3>1, <3>2
  <2>2. CASE ~CreateAppend(w)
    <3>1. CASE CreateExists(w) \/ CreateUndo(w)
      BY <1>2, <3>1 DEF CreateExists, CreateUndo, ReadThen, Raise, Goto, Shape
    <3>2. CASE CreateInsert(w) \/ CreateReload(w) \/ Crash(w) \/ CreateCommit(w)
      BY <1>2, <3>2 DEF CreateInsert, CreateReload, CreateCommit, Reload, Raise, Crash, Goto, Shape
    <3>3. QED
      BY <2>2, <3>1, <3>2
  <2>3. QED
    BY <2>1, <2>2
<1>8. QED
  BY <1>1, <1>3, <1>4, <1>5, <1>6, <1>7, StillAlike

\* Where a create touches the file, or commits: there is no other in a
\* transaction, nor one with its block in the file.
LEMMA WriteAlike ==
  ASSUME Shape, NEW c \in Names, Alike(c), OnlyCreated(c), NEW w \in Requests,
         CreateWrite(w) \/ CreateUnwrite(w) \/ (CreateCommit(w) /\ at'[w] = "ok")
  PROVE  Alike(c)'
<1>1. PICK from, to : CreateGoes(w, from, to)
  BY CreateGoesOn DEF CreateStep
<1>2. /\ at[w] = from /\ at'[w] = to /\ \A v \in Requests \ {w} : at'[v] = at[v]
      /\ from \in Creates
  BY <1>1 DEF CreateGoes, Goto, Shape
<1>3. /\ from \in {"create.write", "create.unwrite", "create.commit"}
      /\ to \in {"create.reload", "error", "ok"}
      /\ to = "create.reload" => from = "create.write"
  BY <1>2 DEF CreateWrite, CreateUnwrite, CreateCommit, Write, Raise, Goto, Shape
<1>4. \A v \in Requests : at[v] # "idle" => id[v] = id[w] /\ cust[v] = c
  BY <1>2 DEF OnlyCreated, Begun, Creates
<1>5. \A v \in Requests : v # NoRow
  BY PortalAssumption DEF Secrets
<1>6. ASSUME NEW v \in Requests \ {w} PROVE at'[v] \notin Written \union {"create.write"}
  <2>1. at[v] \in Written => conf.blk[id[w]] = v
    BY <1>4 DEF Alike, Written
  <2>2. at[v] = "create.write" => conf.blk[id[w]] = NoRow
    BY <1>4 DEF Alike
  <2>3. from = "create.write" => conf.blk[id[w]] = NoRow /\ from \in InTx
    BY <1>2 DEF Alike, InTx
  <2>4. from # "create.write" => conf.blk[id[w]] = w
    BY <1>2, <1>3 DEF Alike, Written
  <2>5. at[v] = "create.write" => from # "create.write"
    BY <1>2, <2>3, <1>6 DEF Alike, InTx
  <2>6. QED
    BY <1>2, <1>5, <1>6, <2>1, <2>2, <2>3, <2>4, <2>5
<1>7. customers[c] = NoRow
  BY <1>2, <1>3 DEF Alike, InTx, Written
<1>8. \A v, u \in Requests : at'[v] \in InTx /\ at'[u] \in InTx => v = u
  BY <1>2, <1>3 DEF Alike, InTx
<1>9. CASE CreateWrite(w) \/ CreateUnwrite(w)
  <2>1. UNCHANGED tables
    BY <1>9 DEF CreateWrite, CreateUnwrite, Write
  <2>2. to = "create.reload" => conf'.blk[id[w]] = w
    <3>1. to = "create.reload" => conf' = PutBlock(snap[w], id[w], w)
      BY <1>2, <1>3, <1>9 DEF CreateWrite, CreateUnwrite, Write, Goto, Shape
    <3>2. snap[w] \in AnyFiles /\ id[w] \in Ids /\ w \in Secrets \union {NoRow}
      BY DEF Shape, Secrets
    <3>3. \A j \in Ids : [snap[w] EXCEPT !.blk[id[w]] = w].blk[j] =
                          IF j = id[w] THEN w ELSE snap[w].blk[j]
      BY <3>2, PutType
    <3>4. PutBlock(snap[w], id[w], w).blk[id[w]] = w
      BY <3>2, <3>3 DEF PutBlock
    <3>5. QED
      BY <3>1, <3>4
  <2>3. id'[w] = id[w]
    BY <1>1 DEF CreateGoes
  <2>4. \A v \in Requests : at'[v] \in Written => conf'.blk[id'[v]] = v
    BY <1>2, <1>3, <1>6, <2>2, <2>3 DEF Written
  <2>5. \A v \in Requests : at'[v] # "create.write"
    BY <1>2, <1>3, <1>6
  <2>6. customers'[c] = NoRow
    BY <1>7, <2>1 DEF tables
  <2>7. InTx' = InTx /\ Written' = Written
    BY DEF InTx, Written
  <2>8. QED
    BY <1>8, <2>4, <2>5, <2>6, <2>7 DEF Alike
<1>10. CASE CreateCommit(w) /\ at'[w] = "ok"
  <2>1. PICK i \in Ids : i = id[w]
    BY DEF Shape
  <2>2. /\ at[w] = "create.commit" /\ UNCHANGED <<conf, id>>
        /\ customers' = [customers EXCEPT ![c] = [row |-> w, status |-> "active"]]
        /\ users' = [users EXCEPT ![i] = [row |-> w, pw |-> w]]
        /\ \E d \in Devs : devices' = [devices EXCEPT ![c] = [row |-> w, name |-> d]]
        /\ radcheck' = [radcheck EXCEPT ![i] = w]
    <3>1. at[w] = "create.commit"
      BY <1>10 DEF CreateCommit, Goto, Raise
    <3>2. cust[w] = c
      BY <1>4, <3>1
    <3>3. QED
      BY <1>10, <2>1, <3>1, <3>2 DEF CreateCommit, Goto, Raise, gateway, locals, Shape
  <2>3. conf.blk[i] = w
    BY <2>1, <2>2 DEF Alike, Written
  <2>4. PICK d \in Devs : devices' = [devices EXCEPT ![c] = [row |-> w, name |-> d]]
    BY <2>2
  <2>5. /\ users'[i] = [row |-> w, pw |-> w] /\ devices'[c] = [row |-> w, name |-> d]
        /\ customers'[c].row = w /\ radcheck'[i] = w
    BY <2>2, <2>4 DEF Shape
  <2>6. RowOf(users'[i]) = w /\ RowOf(devices'[c]) = w
    BY <2>5, PortalAssumption DEF RowOf, Secrets
  <2>7. Whole(c)'
    BY <2>2, <2>3, <2>5, <2>6 DEF Whole
  <2>8. \A v \in Requests : at'[v] \notin InTx \union Written
    <3>1. \A v \in Requests \ {w} : at[v] \notin InTx
      BY <2>2 DEF Alike, InTx
    <3>2. QED
      BY <1>2, <1>6, <1>10, <3>1 DEF InTx, Written
  <2>9. "create.write" \in InTx /\ InTx' = InTx /\ Written' = Written
    BY DEF InTx, Written
  <2>10. QED
    BY <2>7, <2>8, <2>9 DEF Alike
<1>11. QED
  BY <1>9, <1>10

LEMMA CreateSteps ==
  ASSUME Shape, NEW w \in Requests, Later(w), at[w] \in Creates PROVE CreateStep(w)
<1> USE DEF Goto, Raise, Creates
<1>1. ~(RotateUser(w) \/ RotateRead(w) \/ RotateWrite(w) \/ RotateReload(w) \/ RotateRadcheck(w))
  BY DEF RotateUser, RotateRead, RotateWrite, RotateReload, RotateRadcheck, PutUser,
         ReadThen, Write, Reload, PutRadcheck
<1>2. ~(\/ ArchiveStatus(w) \/ ArchiveDevice(w) \/ ArchiveRadcheck(w)
        \/ UnarchiveStatus(w) \/ UnarchiveDevice(w) \/ UnarchiveUser(w))
  BY DEF ArchiveStatus, ArchiveDevice, ArchiveRadcheck, UnarchiveStatus, UnarchiveDevice,
         UnarchiveUser, FindDevice, PutUser
<1>3. ~(\/ UnarchiveRead(w) \/ UnarchiveWrite(w) \/ UnarchiveRadcheck(w) \/ UnarchiveReload(w))
  BY DEF UnarchiveRead, UnarchiveWrite, UnarchiveRadcheck, UnarchiveReload, ReadThen, Write,
         Reload, PutRadcheck
<1>4. ~(\/ DeleteUsers(w) \/ DeleteOrphans(w) \/ DeleteOrphan(w) \/ DeleteDevices(w)
        \/ DeleteRead(w))
  BY DEF DeleteUsers, DeleteOrphans, DeleteOrphan, DeleteDevices, DeleteRead, ReadThen
<1>5. ~(DeleteWrite(w) \/ DeleteRadcheck(w) \/ DeleteReload(w) \/ DeleteCustomer(w))
  BY DEF DeleteWrite, DeleteRadcheck, DeleteReload, DeleteCustomer, Write, Reload
<1>6. ~(DeleteBare(w) \/ DeleteLook(w) \/ DeleteCut(w))
  BY DEF DeleteBare, DropBare, DeleteLook, LookBare, ReadThen, DeleteCut, CutBare, Write
<1>7. QED
  BY <1>1, <1>2, <1>3, <1>4, <1>5, <1>6 DEF Later, CreateStep

LEMMA FirstWhole ==
  ASSUME Shape, WholeInv, NEW w \in Requests, First(w) PROVE WholeInv'
<1>1. /\ at[w] = "idle" /\ at'[w] \in Others \union Ended \union {"create.exists"}
      /\ at'[w] \in Others => row'[w] # NoRow
      /\ \A v \in Requests \ {w} : /\ at'[v] = at[v] /\ row'[v] = row[v]
                                   /\ cust'[v] = cust[v] /\ id'[v] = id[v]
      /\ UNCHANGED <<customers, users, radcheck, conf, snap>>
      /\ \A c \in Names : customers[c] # NoRow => devices'[c] = devices[c] \/ row'[w] # NoRow
  BY FirstKnown
<1>2. RowKnown'
  BY <1>1 DEF WholeInv, RowKnown, Others
<1>3. "idle" \notin Others /\ "idle" \notin Ended
  BY DEF Others, Ended
<1>4. ASSUME NEW c \in Names, OnlyCreated(c)' PROVE Alike(c)'
  <2>1. row'[w] = NoRow
    BY <1>1, <1>3, <1>4 DEF OnlyCreated, Begun
  <2>2. at'[w] \in Ended \union {"create.exists"}
    BY <1>1, <2>1
  <2>3. OnlyCreated(c)
    <3>1. \A v \in Begun : v \in Begun' /\ v # w
      BY <1>1 DEF Begun
    <3>2. QED
      BY <1>1, <1>4, <3>1 DEF OnlyCreated, Begun
  <2>4. Alike(c)
    BY <2>3 DEF WholeInv
  <2>5. at'[w] \notin InTx \union Written \union {"create.write"}
    BY <2>2 DEF InTx, Written, Ended
  <2>6. customers[c] # NoRow => devices'[c] = devices[c]
    BY <1>1, <2>1
  <2>7. InTx' = InTx /\ Written' = Written
    BY DEF InTx, Written
  <2>8. customers'[c] # NoRow => Whole(c)'
    BY <1>1, <2>4, <2>6 DEF Alike, Whole
  <2>9. \A v \in Requests : at'[v] \in InTx \union Written \union {"create.write"} =>
          v # w /\ at'[v] = at[v] /\ id'[v] = id[v]
    BY <1>1, <2>5
  <2>10. QED
    BY <1>1, <2>4, <2>7, <2>8, <2>9 DEF Alike
<1>5. QED
  BY <1>2, <1>4 DEF WholeInv

LEMMA OtherWhole ==
  ASSUME TypeOK, Shape, WholeInv, NEW w \in Requests, Later(w) \/ Crash(w),
         at[w] \notin Creates
  PROVE  WholeInv'
<1>1. /\ at[w] \in Others
      /\ at'[w] \in Others \union Ended \/ at'[w] = at[w]
      /\ row' = row /\ \A v \in Requests \ {w} : at'[v] = at[v]
  BY OthersGo DEF TypeOK
<1>2. row[w] # NoRow
  BY <1>1 DEF WholeInv, RowKnown, Others
<1>3. at'[w] # "idle"
  BY <1>1 DEF Others, Ended
<1>4. RowKnown'
  BY <1>1, <1>2 DEF WholeInv, RowKnown, Others
<1>5. \A c \in Names : ~OnlyCreated(c)'
  BY <1>1, <1>2, <1>3 DEF OnlyCreated, Begun
<1>6. QED
  BY <1>4, <1>5 DEF WholeInv

LEMMA CreateWhole ==
  ASSUME Shape, WholeInv, NEW w \in Requests, Later(w) \/ Crash(w), at[w] \in Creates
  PROVE  WholeInv'
<1>1. CreateStep(w) \/ Crash(w)
  BY CreateSteps
<1>2. PICK from, to : CreateGoes(w, from, to)
  BY <1>1, CreateGoesOn
<1>3. /\ at[w] = from /\ at'[w] = to /\ UNCHANGED <<cust, row, id>>
      /\ \A v \in Requests \ {w} : at'[v] = at[v]
      /\ to \in Creates \union Ended
  BY <1>2 DEF CreateGoes, Goto, Shape
<1>4. RowKnown'
  BY <1>3 DEF WholeInv, RowKnown
<1>5. \A c \in Names : OnlyCreated(c)' => OnlyCreated(c)
  <2>1. "idle" \notin Creates /\ "idle" \notin Ended
    BY DEF Creates, Ended
  <2>2. Begun' = Begun
    BY <1>3, <2>1 DEF Begun
  <2>3. QED
    BY <1>3, <2>2 DEF OnlyCreated
<1>6. ASSUME NEW c \in Names, OnlyCreated(c)' PROVE Alike(c)'
  <2>1. OnlyCreated(c) /\ Alike(c)
    BY <1>5, <1>6 DEF WholeInv
  <2>2. CASE CreateWrite(w) \/ CreateUnwrite(w) \/ (CreateCommit(w) /\ at'[w] = "ok")
    BY <2>1, <2>2, WriteAlike
  <2>3. CASE ~(CreateWrite(w) \/ CreateUnwrite(w) \/ (CreateCommit(w) /\ at'[w] = "ok"))
    BY <1>1, <2>1, <2>3, StillCreates DEF CreateStep
  <2>4. QED
    BY <2>2, <2>3
<1>7. QED
  BY <1>4, <1>6 DEF WholeInv

LEMMA WholeInit == Init => WholeInv
<1> SUFFICES ASSUME Init PROVE WholeInv
  OBVIOUS
<1>1. PICK old \in SUBSET Names, d \in Devs :
        LET secret(i) == IF \E c \in old : i = Identity(c, d) THEN i ELSE NoRow IN
        /\ customers = [c \in Names |->
             IF c \in old THEN [row |-> Identity(c, d), status |-> "active"] ELSE NoRow]
        /\ users = [i \in Ids |->
             IF secret(i) = NoRow THEN NoRow ELSE [row |-> i, pw |-> i]]
        /\ devices = [c \in Names |->
             IF c \in old THEN [row |-> Identity(c, d), name |-> d] ELSE NoRow]
        /\ radcheck = [i \in Ids |-> secret(i)]
        /\ conf = [whole |-> TRUE, blk |-> radcheck]
  BY DEF Init
<1>2. \A w \in Requests : at[w] = "idle"
  BY DEF Init
<1>3. ASSUME NEW c \in Names, customers[c] # NoRow PROVE Whole(c)
  <2>1. c \in old
    BY <1>1, <1>3
  <2>2. PICK i \in Ids : i = Identity(c, d)
    BY IdentityType
  <2>3. i # NoRow
    BY PortalAssumption DEF Secrets
  <2>4. /\ customers[c] = [row |-> i, status |-> "active"]
        /\ devices[c] = [row |-> i, name |-> d]
        /\ users[i] = [row |-> i, pw |-> i] /\ radcheck[i] = i
    BY <1>1, <2>1, <2>2, <2>3
  <2>5. devices[c] # NoRow /\ users[i] # NoRow
    BY <2>4, PortalAssumption DEF Secrets
  <2>6. conf.blk[i] = i
    BY <1>1, <2>4
  <2>7. QED
    BY <2>4, <2>5, <2>6 DEF Whole, RowOf
<1>4. \A c \in Names : Alike(c)
  BY <1>2, <1>3 DEF Alike, InTx, Written
<1>5. RowKnown
  BY <1>2 DEF RowKnown
<1>6. QED
  BY <1>4, <1>5 DEF WholeInv

\* Whichever step of a create fails or is killed, a customer the database
\* knows has its rows and its block, if one identity is all that is created.
THEOREM CreatesAreWhole == Spec => []CreatedWhole
<1>1. Init => TypeOK /\ WholeInv
  BY TypeInit, WholeInit
<1>2. TypeOK /\ WholeInv /\ [Next]_vars => (TypeOK /\ WholeInv)'
  <2> SUFFICES ASSUME TypeOK, WholeInv, [Next]_vars PROVE WholeInv'
    BY TypeNext
  <2>1. ASSUME NEW w \in Requests, First(w) \/ Later(w) \/ Crash(w) PROVE WholeInv'
    BY <2>1, TypeShape, FirstWhole, OtherWhole, CreateWhole
  <2>2. CASE UNCHANGED vars
    BY <2>2 DEF vars, tables, gateway, locals, WholeInv, RowKnown, OnlyCreated, Begun, Alike,
                Whole, InTx, Written
  <2>3. QED
    BY <2>1, <2>2 DEF Next
<1>3. WholeInv => CreatedWhole
  BY DEF WholeInv, OnlyCreated, Alike, Whole, CreatedWhole
<1>4. QED
  BY <1>1, <1>2, <1>3, PTL DEF Spec
=============================================================================
