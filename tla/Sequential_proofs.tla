-------------------------- MODULE Sequential_proofs --------------------------
(***************************************************************************)
(* Proofs about what holds of Operations as long as one request runs at a  *)
(* time, or nobody is cut off.                                             *)
(***************************************************************************)
EXTENDS Operations_proofs, FiniteSetTheorems

\* Where a request writes the file; at all but two of these points it only
\* gets with a copy that has a block or the sections.
Blind == {"create.unwrite", "orphan.write"}
Sighted == {"create.write", "rotate.write", "unarchive.write", "delete.write",
            "delete.cut", "alone.cut", "deleteuser.write", "cleanup.write",
            "orphan.put"}
Writes == Blind \union Sighted

\* What a step of a request may do to the file and to its copy of it, but for
\* the copying of a backup.
FileStep(w) ==
  /\ \A v \in Requests \ {w} : at'[v] = at[v] /\ snap'[v] = snap[v]
  /\ at'[w] \in Writes =>
       /\ conf' = conf /\ (snap'[w] = conf \/ (snap'[w] = Empty /\ Fault))
       /\ at'[w] \in Sighted =>
            snap'[w].whole \/ \E i \in Ids : snap'[w].blk[i] # NoRow
  /\ \/ conf' = conf /\ snap'[w] \in {snap[w], conf, Empty}
     \/ /\ at[w] \in Writes /\ snap' = snap /\ conf'.whole = snap[w].whole
        /\ \/ at[w] \in Sighted
           \/ \A i \in Ids : snap[w].blk[i] = NoRow => conf'.blk[i] = NoRow

LEMMA StillFile ==
  ASSUME Shape, NEW w \in Requests, UNCHANGED <<conf, snap>>, at'[w] \notin Writes,
         \A v \in Requests \ {w} : at'[v] = at[v]
  PROVE  FileStep(w)
BY DEF FileStep

LEMMA ReadFile ==
  ASSUME Shape, NEW w \in Requests, Read(w), UNCHANGED conf,
         \A v \in Requests \ {w} : at'[v] = at[v],
         at'[w] \in Sighted =>
            snap'[w].whole \/ \E i \in Ids : snap'[w].blk[i] # NoRow
  PROVE  FileStep(w)
BY DEF FileStep, Read, Shape

LEMMA WriteFile ==
  ASSUME Shape, NEW w \in Requests, NEW from, NEW new, NEW to, NEW onRaise,
         Write(w, from, new, to, onRaise), from \in Writes, {to, onRaise} \intersect Writes = {},
         new.whole = snap[w].whole,
         \/ from \in Sighted
         \/ \A i \in Ids : snap[w].blk[i] = NoRow => new.blk[i] = NoRow
  PROVE  FileStep(w)
<1>1. /\ at[w] = from /\ at'[w] \notin Writes /\ \A v \in Requests \ {w} : at'[v] = at[v]
      /\ snap' = snap /\ conf' \in {conf, new}
  BY DEF Write, Goto, Shape, locals
<1>2. QED
  BY <1>1 DEF FileStep

LEMMA ReloadFile ==
  ASSUME Shape, NEW w \in Requests, NEW from, NEW to, NEW onRaise,
         Reload(w, from, to, onRaise), {to, onRaise} \intersect Writes = {}
  PROVE  FileStep(w)
BY StillFile DEF Reload, Goto, Shape, locals

LEMMA RaiseFile ==
  ASSUME Shape, NEW w \in Requests, NEW from, NEW to, Raise(w, from, to), to \notin Writes
  PROVE  FileStep(w)
BY StillFile DEF Raise, Goto, Shape, locals, gateway

\* What is written.
LEMMA NewFiles ==
  ASSUME Shape, NEW w \in Requests, NEW s
  PROVE  /\ PutBlock(snap[w], id[w], w).whole = snap[w].whole
         /\ CutBlock(snap[w], id[w]).whole = snap[w].whole
         /\ CutBlocks(snap[w], s).whole = snap[w].whole
         /\ \A i \in Ids : snap[w].blk[i] = NoRow => CutBlock(snap[w], id[w]).blk[i] = NoRow
<1>1. snap[w] \in AnyFiles /\ id[w] \in Ids
  BY DEF Shape
<1>2. CutBlocks(snap[w], s).whole = snap[w].whole
  BY <1>1 DEF CutBlocks, AnyFiles
<1>3. PutBlock(snap[w], id[w], w).whole = snap[w].whole
  BY <1>1 DEF PutBlock, AnyFiles
<1>4. CutBlock(snap[w], id[w]).whole = snap[w].whole
  BY <1>1 DEF CutBlock, AnyFiles
<1>5. CutBlock(snap[w], id[w]).blk = [snap[w].blk EXCEPT ![id[w]] = NoRow]
  BY <1>1 DEF CutBlock, AnyFiles
<1>6. \A i \in Ids : snap[w].blk[i] = NoRow => CutBlock(snap[w], id[w]).blk[i] = NoRow
  BY <1>1, <1>5 DEF AnyFiles, AnyBlocks
<1>7. QED
  BY <1>2, <1>3, <1>4, <1>6

\* The steps of the portal.
LEMMA FirstFile ==
  ASSUME Shape, NEW w \in Requests, First(w) PROVE FileStep(w)
<1>1. UNCHANGED <<conf, snap>>
  BY DEF First, CreateCheck, RenameDevice, RotateCheck, ArchiveCheck, UnarchiveCheck,
         DeleteCheck, gateway
<1>2. \E c \in Names, to \in {"create.exists", "refused", "ok", "rotate.user",
                              "archive.status", "unarchive.status", "delete.users",
                              "alone.bare"} : Begin(w, c, to)
  BY DEF First, CreateCheck, RenameDevice, RotateCheck, ArchiveCheck, UnarchiveCheck,
         DeleteCheck
<1>3. at'[w] \notin Writes /\ \A v \in Requests \ {w} : at'[v] = at[v]
  BY <1>2 DEF Begin, Goto, Shape, Writes, Blind, Sighted
<1>4. QED
  BY <1>1, <1>3, StillFile

LEMMA PortalReadsFile ==
  ASSUME Shape, NEW w \in Requests,
         \/ CreateExists(w) \/ CreateAppend(w) \/ CreateUndo(w) \/ RotateRead(w)
         \/ UnarchiveRead(w) \/ DeleteRead(w) \/ DeleteLook(w)
  PROVE  FileStep(w)
<1> USE DEF ReadThen, Goto, gateway, Shape, Writes, Blind, Sighted
<1>1. CASE CreateExists(w)
  BY <1>1, ReadFile, RaiseFile DEF CreateExists
<1>2. CASE CreateAppend(w)
  BY <1>2, ReadFile, RaiseFile DEF CreateAppend
<1>3. CASE CreateUndo(w)
  BY <1>3, ReadFile, RaiseFile DEF CreateUndo
<1>4. CASE RotateRead(w)
  BY <1>4, ReadFile, RaiseFile DEF RotateRead
<1>5. CASE UnarchiveRead(w)
  BY <1>5, ReadFile, RaiseFile DEF UnarchiveRead
<1>6. CASE DeleteRead(w)
  BY <1>6, ReadFile, RaiseFile DEF DeleteRead
<1>7. ASSUME NEW from \in {"delete.look", "alone.look"},
             NEW found \in {"delete.cut", "alone.cut"},
             NEW otherwise \in {"delete.sweep", "alone.sweep"},
             LookBare(w, from, found, otherwise)
      PROVE  FileStep(w)
  BY <1>7, ReadFile, RaiseFile DEF LookBare
<1>8. CASE DeleteLook(w)
  BY <1>7, <1>8 DEF DeleteLook
<1>9. QED
  BY <1>1, <1>2, <1>3, <1>4, <1>5, <1>6, <1>8

LEMMA PortalWritesFile ==
  ASSUME Shape, NEW w \in Requests,
         \/ CreateWrite(w) \/ CreateUnwrite(w) \/ RotateWrite(w) \/ UnarchiveWrite(w)
         \/ DeleteWrite(w) \/ CreateReload(w) \/ RotateReload(w) \/ UnarchiveReload(w)
         \/ DeleteReload(w) \/ DeleteCut(w)
  PROVE  FileStep(w)
<1> USE DEF Writes, Blind, Sighted
<1>1. CASE CreateWrite(w) \/ RotateWrite(w) \/ UnarchiveWrite(w)
  BY <1>1, NewFiles, WriteFile DEF CreateWrite, RotateWrite, UnarchiveWrite
<1>2. CASE CreateUnwrite(w) \/ DeleteWrite(w)
  BY <1>2, NewFiles, WriteFile DEF CreateUnwrite, DeleteWrite
<1>3. CASE CreateReload(w) \/ RotateReload(w) \/ UnarchiveReload(w) \/ DeleteReload(w)
  BY <1>3, ReloadFile DEF CreateReload, RotateReload, UnarchiveReload, DeleteReload
<1>4. CASE DeleteCut(w)
  BY <1>4, NewFiles, WriteFile DEF DeleteCut, CutBare
<1>5. QED
  BY <1>1, <1>2, <1>3, <1>4

LEMMA PortalStillFile ==
  ASSUME Shape, NEW w \in Requests,
         \/ CreateInsert(w) \/ CreateCommit(w) \/ RotateUser(w) \/ RotateRadcheck(w)
         \/ ArchiveStatus(w) \/ ArchiveDevice(w) \/ ArchiveRadcheck(w)
         \/ UnarchiveStatus(w) \/ UnarchiveDevice(w) \/ UnarchiveUser(w)
         \/ UnarchiveRadcheck(w) \/ DeleteUsers(w) \/ DeleteBare(w) \/ DeleteOrphans(w)
         \/ DeleteOrphan(w) \/ DeleteDevices(w) \/ DeleteRadcheck(w) \/ DeleteCustomer(w)
         \/ Crash(w)
  PROVE  FileStep(w)
<1> USE StillFile DEF Goto, Raise, Shape, gateway, locals, Writes, Blind, Sighted
<1>1. CASE CreateInsert(w) \/ CreateCommit(w)
  BY <1>1 DEF CreateInsert, CreateCommit
<1>2. CASE RotateUser(w) \/ RotateRadcheck(w) \/ UnarchiveUser(w) \/ UnarchiveRadcheck(w)
  BY <1>2 DEF RotateUser, RotateRadcheck, UnarchiveUser, UnarchiveRadcheck, PutUser,
              PutRadcheck
<1>3. CASE ArchiveStatus(w) \/ UnarchiveStatus(w) \/ ArchiveRadcheck(w)
  BY <1>3 DEF ArchiveStatus, UnarchiveStatus, ArchiveRadcheck
<1>4. CASE ArchiveDevice(w) \/ UnarchiveDevice(w)
  BY <1>4 DEF ArchiveDevice, UnarchiveDevice, FindDevice
<1>5. CASE DeleteUsers(w) \/ DeleteOrphans(w) \/ DeleteDevices(w)
  BY <1>5 DEF DeleteUsers, DeleteOrphans, DeleteDevices
<1>6. CASE DeleteBare(w) \/ DeleteOrphan(w)
  BY <1>6 DEF DeleteBare, DropBare, DeleteOrphan
<1>7. CASE DeleteRadcheck(w) \/ DeleteCustomer(w)
  BY <1>7 DEF DeleteRadcheck, DeleteCustomer
<1>8. CASE Crash(w)
  BY <1>8 DEF Crash
<1>9. QED
  BY <1>1, <1>2, <1>3, <1>4, <1>5, <1>6, <1>7, <1>8

LEMMA PortalFile ==
  ASSUME Shape, NEW w \in Requests, First(w) \/ Later(w) \/ Crash(w) PROVE FileStep(w)
BY FirstFile, PortalReadsFile, PortalWritesFile, PortalStillFile DEF Later

\* The commands of the bot.
LEMMA BotFile ==
  ASSUME Shape, names \in [Requests -> SUBSET Ids], NEW w \in Requests,
         BotFirst(w) \/ BotLater(w)
  PROVE  FileStep(w)
<1> USE DEF Writes, Blind, Sighted
<1>1. CASE BotFirst(w)
  <2>1. UNCHANGED <<conf, snap>>
    BY <1>1 DEF BotFirst, DeleteuserCheck, RenewCheck, CleanupCheck, OrphanCheck, gateway
  <2>2. /\ \A v \in Requests \ {w} : at'[v] = at[v]
        /\ at'[w] \in {"refused", "deleteuser.rows", "renew.status", "cleanup.rows",
                       "orphan.rows"}
    BY <1>1 DEF BotFirst, DeleteuserCheck, RenewCheck, CleanupCheck, OrphanCheck, Begin, Goto,
                Shape
  <2>3. QED
    BY <2>1, <2>2, StillFile
<1>2. CASE DeleteuserRead(w) \/ OrphanRead(w) \/ OrphanAppend(w)
  <2>1. CASE DeleteuserRead(w)
    BY <2>1, ReadFile, RaiseFile DEF DeleteuserRead, ReadThen, Goto, gateway, Shape
  <2>2. CASE OrphanRead(w)
    BY <2>2, ReadFile, RaiseFile DEF OrphanRead, ReadThen, Goto, gateway, Shape
  <2>3. CASE OrphanAppend(w)
    BY <2>3, ReadFile, RaiseFile DEF OrphanAppend, ReadThen, Goto, gateway, Shape
  <2>4. QED
    BY <1>2, <2>1, <2>2, <2>3
<1>3. CASE CleanupRead(w)
  <2>1. ASSUME NEW i \in names[w], Raise(w, at[w], "ok") PROVE FileStep(w)
    BY <2>1, RaiseFile
  <2>2. ASSUME NEW i \in names[w], Read(w), UNCHANGED conf, at[w] \notin Writes,
               \/ snap'[w].blk[i] # NoRow /\ at' = [at EXCEPT ![w] = "cleanup.write"]
               \/ UNCHANGED at
        PROVE  FileStep(w)
    <3>1. i \in Ids /\ \A v \in Requests \ {w} : at'[v] = at[v]
      BY <2>2 DEF Shape
    <3>2. at'[w] \in Sighted => snap'[w].blk[i] # NoRow
      BY <2>2 DEF Shape
    <3>3. QED
      BY <2>2, <3>1, <3>2, ReadFile
  <2>3. QED
    BY <1>3, <2>1, <2>2 DEF CleanupRead, gateway
<1>4. CASE DeleteuserWrite(w) \/ CleanupWrite(w) \/ OrphanWrite(w) \/ OrphanPut(w)
  BY <1>4, NewFiles, WriteFile DEF DeleteuserWrite, CleanupWrite, OrphanWrite, OrphanPut
<1>5. CASE DeleteuserReload(w) \/ CleanupReload(w) \/ OrphanReload(w)
  BY <1>5, ReloadFile, StillFile
     DEF DeleteuserReload, CleanupReload, OrphanReload, Goto, gateway, locals, Shape
<1>6. CASE DeleteuserRows(w) \/ CleanupRows(w) \/ OrphanRows(w) \/ RenewStatus(w)
  BY <1>6, StillFile
     DEF DeleteuserRows, CleanupRows, OrphanRows, RenewStatus, Goto, Raise, gateway, locals,
         Shape
<1>7. QED
  BY <1>1, <1>2, <1>3, <1>4, <1>5, <1>6 DEF BotLater

LEMMA QuotaFile ==
  ASSUME Shape, NEW w \in Requests, QuotaStep(w), ~ResetCopy(w) PROVE FileStep(w)
<1> USE DEF Writes, Blind, Sighted
<1>1. ASSUME NEW c \in Names, ResetCheck(w, c) PROVE FileStep(w)
  BY <1>1, StillFile DEF ResetCheck, Begin, Goto, gateway, Shape
<1>2. CASE ResetCounters(w) \/ ResetConf(w) \/ ResetAudit(w)
  BY <1>2, StillFile DEF ResetCounters, ResetConf, ResetAudit, Failed, Goto, Raise, gateway, locals,
                         Shape
<1>3. CASE ResetScan(w) \/ ResetNewest(w)
  BY <1>3, StillFile DEF ResetScan, ResetNewest, Failed, Goto, Raise, gateway, locals, Shape
<1>4. CASE ResetRadcheck(w) \/ ResetEnable(w)
  BY <1>4, StillFile DEF ResetRadcheck, ResetEnable, Goto, Raise, gateway, locals, Shape
<1>5. CASE ResetDevice(w) \/ ResetAgain(w)
  BY <1>5, StillFile DEF ResetDevice, ResetAgain, FindDevice, Goto, Raise, gateway, locals,
                         Shape
<1>6. CASE ResetReload(w)
  BY <1>6, ReloadFile DEF ResetReload, Failed
<1>7. QED
  BY <1>1, <1>2, <1>3, <1>4, <1>5, <1>6 DEF QuotaStep, ResetLater

-----------------------------------------------------------------------------
(* A file without its sections has no blocks, so what a request has found a *)
(* block in, or has looked for the sections in, has the sections.           *)
Blank(f) == ~f.whole => \A i \in Ids : f.blk[i] = NoRow

FilesInv ==
  /\ Blank(conf)
  /\ \A w \in Requests : Blank(snap[w])
  /\ \A k \in DOMAIN backups : Blank(backups[k])
  /\ \A w \in Requests : at[w] \in Sighted => snap[w].whole

LEMMA FilesInit == AllInit => FilesInv
<1> SUFFICES ASSUME AllInit PROVE FilesInv
  OBVIOUS
<1>1. Init /\ backups = <<>>
  BY DEF AllInit, BotInit, QuotaInit
<1>2. conf.whole /\ \A w \in Requests : at[w] = "idle" /\ snap[w] = Empty
  BY <1>1 DEF Init
<1>3. DOMAIN backups = {}
  BY <1>1
<1>4. QED
  BY <1>2, <1>3, EmptyType DEF FilesInv, Blank, Sighted

LEMMA FileStepKeeps ==
  ASSUME FilesInv, NEW w \in Requests, FileStep(w), UNCHANGED backups PROVE FilesInv'
<1>1. Blank(Empty)
  BY EmptyType DEF Blank
<1>2. Blank(conf')
  <2>1. CASE conf' = conf
    BY <2>1 DEF FilesInv
  <2>2. CASE /\ at[w] \in Writes /\ conf'.whole = snap[w].whole
             /\ \/ at[w] \in Sighted
                \/ \A i \in Ids : snap[w].blk[i] = NoRow => conf'.blk[i] = NoRow
    BY <2>2 DEF FilesInv, Blank
  <2>3. QED
    BY <2>1, <2>2 DEF FileStep
<1>3. \A v \in Requests : Blank(snap'[v])
  BY <1>1 DEF FilesInv, FileStep
<1>4. \A v \in Requests : at'[v] \in Sighted => snap'[v].whole
  BY <1>3 DEF FilesInv, FileStep, Writes, Blank
<1>5. QED
  BY <1>2, <1>3, <1>4 DEF FilesInv, Blank

LEMMA CutFile ==
  ASSUME FilesInv, Shape, Added, NEW c \in Names, Cut(c)
  PROVE  FilesInv' /\ conf'.whole = conf.whole
<1>1. /\ backups' = Append(backups, conf) /\ UNCHANGED <<at, snap>>
      /\ conf'.whole = conf.whole
      /\ \A i \in Ids : conf.blk[i] = NoRow => conf'.blk[i] = NoRow
  <2>1. PICK j \in Ids : conf' = [conf EXCEPT !.blk[j] = IF @ = NoRow THEN NoRow ELSE Disabled]
    BY DEF Cut, UserIds
  <2>2. conf \in AnyFiles
    BY DEF Shape
  <2>3. conf'.whole = conf.whole
    BY <2>1, <2>2 DEF AnyFiles
  <2>4. conf'.blk = [conf.blk EXCEPT ![j] = IF @ = NoRow THEN NoRow ELSE Disabled]
    BY <2>1, <2>2 DEF AnyFiles
  <2>5. \A i \in Ids : conf.blk[i] = NoRow => conf'.blk[i] = NoRow
    BY <2>2, <2>4 DEF AnyFiles, AnyBlocks
  <2>6. QED
    BY <2>3, <2>5, CutStores DEF locals
<1>2. \A k \in DOMAIN backups' : backups'[k] = conf \/ (k \in DOMAIN backups /\ backups'[k] = backups[k])
  BY <1>1 DEF Added, Shape
<1>3. QED
  BY <1>1, <1>2 DEF FilesInv, Blank

LEMMA FilesNext == AllInv /\ FilesInv /\ [AllNext]_allVars => FilesInv'
<1> SUFFICES ASSUME AllInv, FilesInv, [AllNext]_allVars PROVE FilesInv'
  OBVIOUS
<1>1. Shape /\ Added /\ CopyInv
  BY AllShape DEF AllInv
<1>2. ASSUME NEW w \in Requests, PortalStep(w) \/ BotFirst(w) \/ BotLater(w), UNCHANGED quota
      PROVE  FilesInv'
  BY <1>1, <1>2, PortalFile, BotFile, FileStepKeeps DEF PortalStep, quota, Added
<1>3. ASSUME NEW w \in Requests, QuotaStep(w) PROVE FilesInv'
  <2>1. UNCHANGED backups
    BY <1>3 DEF QuotaStep, ResetLater
  <2>2. CASE ResetCopy(w)
    <3>1. /\ at[w] = "reset.copy" /\ conf' \in {conf, backups[newest[w]]} /\ snap' = snap
          /\ \A v \in Requests : at'[v] \in Sighted => at'[v] = at[v]
      BY <1>1, <2>2 DEF ResetCopy, Failed, Write, Goto, Sighted, locals, Shape
    <3>2. Blank(conf')
      BY <1>1, <3>1 DEF FilesInv, CopyInv
    <3>3. QED
      BY <2>1, <3>1, <3>2 DEF FilesInv, Blank
  <2>3. CASE ~ResetCopy(w)
    BY <1>1, <1>3, <2>1, <2>3, QuotaFile, FileStepKeeps
  <2>4. QED
    BY <2>2, <2>3
<1>4. ASSUME NEW c \in Names, Cut(c) PROVE FilesInv'
  BY <1>1, <1>4, CutFile
<1>5. CASE UNCHANGED allVars
  BY <1>5 DEF allVars, vars, gateway, locals, quota, FilesInv, Blank
<1>6. QED
  BY <1>2, <1>3, <1>4, <1>5 DEF AllNext

\* A step that takes the sections away by another way than a copied backup is
\* that of one of the two.
Lost(w) == conf.whole /\ ~conf'.whole => at[w] \in {"create.unwrite", "orphan.write"}

LEMMA FileStepLost ==
  ASSUME FilesInv, NEW w \in Requests, FileStep(w) PROVE Lost(w)
BY DEF FilesInv, FileStep, Lost, Writes, Blind

LEMMA AllLost ==
  ASSUME AllInv, FilesInv, [AllNext]_allVars, conf.whole, ~conf'.whole
  PROVE  \E w \in Requests : Lost(w) \/ ResetCopy(w)
<1>1. Shape /\ Added
  BY AllShape DEF AllInv
<1>2. ASSUME NEW w \in Requests, PortalStep(w) \/ BotFirst(w) \/ BotLater(w) PROVE Lost(w)
  BY <1>1, <1>2, PortalFile, BotFile, FileStepLost DEF PortalStep, Added
<1>3. ASSUME NEW w \in Requests, QuotaStep(w) PROVE Lost(w) \/ ResetCopy(w)
  BY <1>1, <1>3, QuotaFile, FileStepLost
<1>4. ~\E c \in Names : Cut(c)
  BY <1>1, CutFile
<1>5. ~UNCHANGED allVars
  BY DEF allVars, vars, gateway
<1>6. QED
  BY <1>2, <1>3, <1>4, <1>5 DEF AllNext

\* As long as nobody is cut off, the file keeps its sections under any
\* interleaving of the portal, the bot and the reset, and whatever fails, but
\* for the two clean-ups that write back what they could not read.
THEOREM SectionsKeptUncut == MaxCuts = 0 => (AllSpec => SectionsKept)
<1> SUFFICES ASSUME MaxCuts = 0 PROVE AllSpec => SectionsKept
  OBVIOUS
<1>1. AllInit => AllInv /\ FilesInv
  BY AllInvInit, FilesInit
<1>2. AllInv /\ FilesInv /\ [AllNext]_allVars => (AllInv /\ FilesInv)'
  BY AllInvNext, FilesNext
<1>3. AllInv /\ FilesInv /\ [AllNext]_allVars
        => [conf.whole /\ ~conf'.whole =>
              \E w \in Requests : at[w] \in {"create.unwrite", "orphan.write"}]_botVars
  <2> SUFFICES ASSUME AllInv, FilesInv, [AllNext]_allVars, conf.whole, ~conf'.whole
               PROVE  \E w \in Requests : at[w] \in {"create.unwrite", "orphan.write"}
    OBVIOUS
  <2>1. DOMAIN backups = {}
    <3>1. backups \in Seq(AnyFiles) /\ Len(backups) <= 0
      BY AllShape DEF AllInv, Added
    <3>2. QED
      BY <3>1
  <2>2. \A w \in Requests : ~ResetCopy(w)
    BY <2>1 DEF AllInv, CopyInv, ResetCopy, Failed, Write, Goto
  <2>3. QED
    BY <2>2, AllLost DEF Lost
<1>4. QED
  BY <1>1, <1>2, <1>3, PTL DEF AllSpec, SectionsKept

-----------------------------------------------------------------------------
(* One at a time.                                                           *)
Alone(w) == \A v \in Requests \ {w} : ~Running(v)

LEMMA NobodyRuns ==
  ASSUME IsFiniteSet(Requests), MaxAtOnce = 1,
         Cardinality({v \in Requests : Running(v)}) < MaxAtOnce
  PROVE  \A v \in Requests : ~Running(v)
<1> DEFINE R == {v \in Requests : Running(v)}
<1>1. IsFiniteSet(R)
  BY FS_Subset
<1>2. Cardinality(R) \in Nat
  BY <1>1, FS_CardinalityType
<1>3. Cardinality(R) = 0
  BY <1>2
<1>4. R = {}
  BY <1>1, <1>3, FS_EmptySet
<1>5. QED
  BY <1>4

OrphanLater == {"orphan.read", "orphan.write", "orphan.append", "orphan.put", "orphan.reload"}
CleanupLater == {"cleanup.read", "cleanup.again", "cleanup.write"}
DeleteuserLater == {"deleteuser.read", "deleteuser.write", "deleteuser.reload"}
BotPoints == {"orphan.rows", "cleanup.rows", "deleteuser.rows", "renew.status"}
             \union OrphanLater \union CleanupLater \union DeleteuserLater

\* Where the steps of the portal and of a reset start from.
LEMMA LaterFrom ==
  ASSUME NEW w \in Requests, Later(w) \/ ResetLater(w)
  PROVE  Running(w) /\ at[w] \notin BotPoints
<1> USE DEF Goto, Raise, Running, Ended, BotPoints, OrphanLater, CleanupLater, DeleteuserLater
<1>1. CASE \/ CreateExists(w) \/ CreateAppend(w) \/ CreateUndo(w) \/ RotateRead(w)
           \/ UnarchiveRead(w) \/ DeleteRead(w) \/ DeleteLook(w)
  BY <1>1 DEF CreateExists, CreateAppend, CreateUndo, RotateRead, UnarchiveRead, DeleteRead,
              DeleteLook, LookBare, ReadThen
<1>2. CASE \/ CreateInsert(w) \/ CreateWrite(w) \/ CreateReload(w) \/ CreateCommit(w)
           \/ CreateUnwrite(w)
  BY <1>2 DEF CreateInsert, CreateWrite, CreateReload, CreateCommit, CreateUnwrite, Write,
              Reload
<1>3. CASE RotateUser(w) \/ RotateWrite(w) \/ RotateReload(w) \/ RotateRadcheck(w)
  BY <1>3 DEF RotateUser, RotateWrite, RotateReload, RotateRadcheck, PutUser, Write, Reload,
              PutRadcheck
<1>4. CASE \/ ArchiveStatus(w) \/ ArchiveDevice(w) \/ ArchiveRadcheck(w)
           \/ UnarchiveStatus(w) \/ UnarchiveDevice(w) \/ UnarchiveUser(w)
           \/ UnarchiveWrite(w) \/ UnarchiveRadcheck(w) \/ UnarchiveReload(w)
  BY <1>4 DEF ArchiveStatus, ArchiveDevice, ArchiveRadcheck, UnarchiveStatus,
              UnarchiveDevice, UnarchiveUser, UnarchiveWrite, UnarchiveRadcheck,
              UnarchiveReload, FindDevice, PutUser, Write, Reload, PutRadcheck
<1>5. CASE \/ DeleteUsers(w) \/ DeleteBare(w) \/ DeleteCut(w) \/ DeleteOrphans(w)
           \/ DeleteOrphan(w) \/ DeleteDevices(w) \/ DeleteWrite(w) \/ DeleteRadcheck(w)
           \/ DeleteReload(w) \/ DeleteCustomer(w)
  BY <1>5 DEF DeleteUsers, DeleteBare, DropBare, DeleteCut, CutBare, DeleteOrphans,
              DeleteOrphan, DeleteDevices, DeleteWrite, DeleteRadcheck, DeleteReload,
              DeleteCustomer, Write, Reload
<1>6. CASE ResetLater(w)
  <2>1. CASE ResetScan(w) \/ ResetNewest(w) \/ ResetCounters(w) \/ ResetRadcheck(w)
    BY <2>1 DEF ResetScan, ResetNewest, ResetCounters, ResetRadcheck
  <2>2. CASE ResetDevice(w) \/ ResetAgain(w) \/ ResetEnable(w) \/ ResetConf(w)
    BY <2>2 DEF ResetDevice, ResetAgain, ResetEnable, ResetConf, FindDevice
  <2>3. CASE ResetCopy(w) \/ ResetReload(w) \/ ResetAudit(w)
    BY <2>3 DEF ResetCopy, ResetReload, ResetAudit, Write, Reload
  <2>4. QED
    BY <1>6, <2>1, <2>2, <2>3 DEF ResetLater
<1>7. QED
  BY <1>1, <1>2, <1>3, <1>4, <1>5, <1>6 DEF Later

LEMMA LaterRuns ==
  ASSUME NEW w \in Requests, Later(w) \/ Crash(w) \/ BotLater(w) \/ ResetLater(w)
  PROVE  Running(w)
<1> USE DEF Goto, Raise, Running, Ended
<1>1. CASE \/ DeleteuserRows(w) \/ DeleteuserRead(w) \/ DeleteuserWrite(w)
           \/ DeleteuserReload(w)
  BY <1>1 DEF DeleteuserRows, DeleteuserRead, DeleteuserWrite, DeleteuserReload, ReadThen,
              Write, Reload
<1>2. CASE CleanupRows(w) \/ CleanupRead(w) \/ CleanupWrite(w) \/ CleanupReload(w)
  BY <1>2 DEF CleanupRows, CleanupRead, CleanupWrite, CleanupReload, Write, Reload
<1>3. CASE \/ OrphanRows(w) \/ OrphanRead(w) \/ OrphanWrite(w) \/ OrphanAppend(w)
           \/ OrphanPut(w) \/ OrphanReload(w) \/ RenewStatus(w)
  BY <1>3 DEF OrphanRows, OrphanRead, OrphanWrite, OrphanAppend, OrphanPut, OrphanReload,
              RenewStatus, ReadThen, Write, Reload
<1>4. QED
  BY <1>1, <1>2, <1>3, LaterFrom DEF BotLater, Crash

OneAtOnce == \A v, w \in Requests : Running(v) /\ Running(w) => v = w

LEMMA StepsAlone ==
  ASSUME IsFiniteSet(Requests), MaxAtOnce = 1, OneAtOnce, NEW w \in Requests,
         PortalStep(w) \/ BotFirst(w) \/ BotLater(w) \/ QuotaStep(w)
  PROVE  Alone(w)
<1>1. CASE Running(w)
  BY <1>1 DEF OneAtOnce, Alone
<1>2. CASE First(w)
  BY <1>2, NobodyRuns
     DEF First, CreateCheck, RenameDevice, RotateCheck, ArchiveCheck, UnarchiveCheck,
         DeleteCheck, Begin, Alone
<1>3. CASE BotFirst(w)
  BY <1>3, NobodyRuns
     DEF BotFirst, DeleteuserCheck, RenewCheck, CleanupCheck, OrphanCheck, Begin, Alone
<1>4. CASE \E c \in Names : ResetCheck(w, c)
  BY <1>4, NobodyRuns DEF ResetCheck, Begin, Alone
<1>5. QED
  BY <1>1, <1>2, <1>3, <1>4, LaterRuns DEF PortalStep, QuotaStep

\* Between the check of the mark and the copying of the backup.
Copying == {"reset.newest", "reset.copy"}

LEMMA MarkIsSeen ==
  ASSUME Shape, NEW w \in Requests, QuotaStep(w), at'[w] \in Copying
  PROVE  conf' = conf /\ (Marked(w) \/ at[w] \in Copying)
<1> USE DEF Shape, Goto, Raise, Copying, Failed, gateway
<1>1. CASE ResetConf(w) \/ ResetNewest(w)
  BY <1>1 DEF ResetConf, ResetNewest
<1>2. \A c \in Names : ~ResetCheck(w, c)
  BY DEF ResetCheck, Begin
<1>3. ~(ResetCounters(w) \/ ResetRadcheck(w) \/ ResetScan(w) \/ ResetEnable(w) \/ ResetAudit(w))
  BY DEF ResetCounters, ResetRadcheck, ResetScan, ResetEnable, ResetAudit
<1>4. ~(ResetDevice(w) \/ ResetAgain(w) \/ ResetCopy(w) \/ ResetReload(w))
  BY DEF ResetDevice, ResetAgain, ResetCopy, ResetReload, FindDevice, Write, Reload
<1>5. QED
  BY <1>1, <1>2, <1>3, <1>4 DEF QuotaStep, ResetLater

\* With nobody else about, a request writes what the file still is, or the
\* empty string.  Once the sections are lost they do not come back, so that as
\* long as they are there, every backup has them; and where there is a mark,
\* they are there.
SeqInv ==
  /\ OneAtOnce
  /\ conf.whole => \A k \in DOMAIN backups : backups[k].whole
  /\ \A w \in Requests : at[w] \in Writes => snap[w] \in {conf, Empty}
  /\ \A w \in Requests : at[w] \in Copying => conf.whole

LEMMA SeqInit == AllInit => SeqInv
<1> SUFFICES ASSUME AllInit PROVE SeqInv
  OBVIOUS
<1>1. backups = <<>> /\ \A w \in Requests : at[w] = "idle"
  BY DEF AllInit, BotInit, QuotaInit, Init
<1>2. QED
  BY <1>1 DEF SeqInv, OneAtOnce, Running, Writes, Blind, Sighted, Copying

LEMMA OthersRest ==
  ASSUME NEW w \in Requests, Alone(w), \A v \in Requests \ {w} : at'[v] = at[v]
  PROVE  /\ OneAtOnce'
         /\ \A v \in Requests \ {w} : at'[v] \notin Writes /\ at'[v] \notin Copying
<1>1. \A v \in Requests \ {w} : at'[v] \in Ended \union {"idle"}
  BY DEF Alone, Running
<1>2. QED
  BY <1>1 DEF OneAtOnce, Running, Ended, Writes, Blind, Sighted, Copying

LEMMA FileStepAlone ==
  ASSUME FilesInv, SeqInv, NEW w \in Requests, Alone(w), FileStep(w), UNCHANGED backups,
         at'[w] \in Copying => conf' = conf /\ conf.whole
  PROVE  SeqInv'
<1>1. conf'.whole => conf.whole
  <2>1. ~Empty.whole
    BY DEF Empty
  <2>2. QED
    BY <2>1 DEF FileStep, SeqInv
<1>2. OneAtOnce' /\ \A v \in Requests \ {w} : at'[v] \notin Writes /\ at'[v] \notin Copying
  BY OthersRest DEF FileStep
<1>3. \A v \in Requests : at'[v] \in Writes => snap'[v] \in {conf', Empty}
  BY <1>2 DEF FileStep
<1>4. Empty' = Empty
  BY DEF Empty, NoBlocks
<1>5. QED
  BY <1>1, <1>2, <1>3, <1>4 DEF SeqInv

LEMMA CopyAlone ==
  ASSUME Shape, CopyInv, SeqInv, NEW w \in Requests, Alone(w), ResetCopy(w), UNCHANGED backups
  PROVE  SeqInv' /\ conf'.whole
<1>1. /\ at[w] = "reset.copy" /\ conf' \in {conf, backups[newest[w]]}
      /\ at'[w] \in {"reset.reload", "reset.audit", "error"}
      /\ \A v \in Requests \ {w} : at'[v] = at[v]
  BY DEF ResetCopy, Failed, Write, Goto, Shape
<1>2. conf.whole /\ conf'.whole
  BY <1>1 DEF SeqInv, Copying, CopyInv
<1>3. OneAtOnce' /\ \A v \in Requests \ {w} : at'[v] \notin Writes /\ at'[v] \notin Copying
  BY <1>1, OthersRest
<1>4. at'[w] \notin Writes /\ at'[w] \notin Copying
  BY <1>1 DEF Writes, Blind, Sighted, Copying
<1>5. QED
  BY <1>2, <1>3, <1>4 DEF SeqInv

LEMMA SeqNext ==
  IsFiniteSet(Requests) /\ MaxAtOnce = 1 =>
    (AllInv /\ FilesInv /\ SeqInv /\ [AllNext]_allVars => SeqInv')
<1> SUFFICES ASSUME IsFiniteSet(Requests), MaxAtOnce = 1, AllInv, FilesInv, SeqInv,
                    [AllNext]_allVars
             PROVE  SeqInv'
  OBVIOUS
<1>1. Shape /\ Added /\ CopyInv /\ OneAtOnce
  BY AllShape DEF AllInv, SeqInv
<1>2. ASSUME NEW w \in Requests, PortalStep(w) \/ BotFirst(w) \/ BotLater(w), UNCHANGED quota
      PROVE  SeqInv'
  <2>1. Alone(w) /\ FileStep(w)
    BY <1>1, <1>2, StepsAlone, PortalFile, BotFile DEF PortalStep, Added
  <2>2. at'[w] \notin Copying
    BY <1>1, <1>2, PortalGoes, BotGoes DEF PortalStep, Copying, Points
  <2>3. QED
    BY <1>2, <2>1, <2>2, FileStepAlone DEF quota
<1>3. ASSUME NEW w \in Requests, QuotaStep(w) PROVE SeqInv'
  <2>1. Alone(w) /\ UNCHANGED backups
    BY <1>1, <1>3, StepsAlone DEF QuotaStep, ResetLater
  <2>2. CASE ResetCopy(w)
    BY <1>1, <2>1, <2>2, CopyAlone
  <2>3. CASE ~ResetCopy(w)
    <3>1. ASSUME at'[w] \in Copying PROVE conf' = conf /\ conf.whole
      <4>1. conf' = conf /\ (Marked(w) \/ at[w] \in Copying)
        BY <1>1, <1>3, <3>1, MarkIsSeen
      <4>2. Marked(w) => conf.blk[id[w]] # NoRow /\ id[w] \in Ids
        BY <1>1, PortalAssumption DEF Marked, Shape
      <4>3. QED
        BY <4>1, <4>2 DEF FilesInv, Blank, SeqInv
    <3>2. QED
      BY <1>1, <1>3, <2>1, <2>3, <3>1, QuotaFile, FileStepAlone
  <2>4. QED
    BY <2>2, <2>3
<1>4. ASSUME NEW c \in Names, Cut(c) PROVE SeqInv'
  <2>1. \A w \in Requests : ~Running(w)
    BY <1>4, NobodyRuns DEF Cut
  <2>2. /\ backups' = Append(backups, conf) /\ at' = at /\ conf'.whole = conf.whole
    BY <1>1, <1>4, CutStores, CutFile DEF locals
  <2>3. \A k \in DOMAIN backups' :
          backups'[k] = conf \/ (k \in DOMAIN backups /\ backups'[k] = backups[k])
    BY <1>1, <2>2 DEF Added, Shape
  <2>4. \A w \in Requests : at'[w] \notin Writes /\ at'[w] \notin Copying
    BY <2>1, <2>2 DEF Running, Ended, Writes, Blind, Sighted, Copying
  <2>5. OneAtOnce'
    BY <1>1, <2>2 DEF OneAtOnce, Running
  <2>6. QED
    BY <2>2, <2>3, <2>4, <2>5 DEF SeqInv
<1>5. CASE UNCHANGED allVars
  BY <1>5 DEF allVars, vars, gateway, locals, quota, SeqInv, OneAtOnce, Running, Empty, NoBlocks
<1>6. QED
  BY <1>2, <1>3, <1>4, <1>5 DEF AllNext

\* One request at a time, the file keeps its sections through any sequence of
\* requests, commands, resets and cuts and whatever of them fails, but for the
\* two clean-ups that write back what they could not read.
THEOREM SectionsKeptInTurn ==
  IsFiniteSet(Requests) /\ MaxAtOnce = 1 => (AllSpec => SectionsKept)
<1> SUFFICES ASSUME IsFiniteSet(Requests), MaxAtOnce = 1 PROVE AllSpec => SectionsKept
  OBVIOUS
<1>1. AllInit => AllInv /\ FilesInv /\ SeqInv
  BY AllInvInit, FilesInit, SeqInit
<1>2. AllInv /\ FilesInv /\ SeqInv /\ [AllNext]_allVars => (AllInv /\ FilesInv /\ SeqInv)'
  BY AllInvNext, FilesNext, SeqNext
<1>3. AllInv /\ FilesInv /\ SeqInv /\ [AllNext]_allVars
        => [conf.whole /\ ~conf'.whole =>
              \E w \in Requests : at[w] \in {"create.unwrite", "orphan.write"}]_botVars
  <2> SUFFICES ASSUME AllInv, FilesInv, SeqInv, [AllNext]_allVars, conf.whole, ~conf'.whole
               PROVE  \E w \in Requests : at[w] \in {"create.unwrite", "orphan.write"}
    OBVIOUS
  <2>1. PICK w \in Requests : Lost(w) \/ ResetCopy(w)
    BY AllLost
  <2>2. ~ResetCopy(w)
    <3>1. at[w] = "reset.copy" => conf' \in {conf, backups[newest[w]]} \/ ~ResetCopy(w)
      BY DEF ResetCopy, Failed, Write
    <3>2. ResetCopy(w) => at[w] = "reset.copy"
      BY DEF ResetCopy, Failed, Write, Goto
    <3>3. QED
      BY <3>1, <3>2 DEF AllInv, CopyInv, SeqInv
  <2>3. QED
    BY <2>1, <2>2 DEF Lost
<1>4. QED
  BY <1>1, <1>2, <1>3, PTL DEF AllSpec, SectionsKept

-----------------------------------------------------------------------------
(* The four stores agree.  In between requests that holds by itself; what   *)
(* makes it inductive is what each request knows, at each of its points, of *)
(* the stores it has changed and of those it has not.                       *)
\* A customer whose rows point to one another, and its identity.
Chain(c, i, n) ==
  /\ customers[c] # NoRow /\ devices[c] # NoRow /\ users[i] # NoRow
  /\ customers[c].row = n /\ devices[c].row = n /\ users[i].row = n
  /\ i = Identity(c, devices[c].name)

\* What the gateway and FreeRADIUS have of an identity.  Of a namesake it may be
\* nothing, since it may have been taken away at any time, or what has come back
\* of it since; but an archived one is rejected.
Loaded(i) ==
  i \in Names \/ (conf.blk[i] = users[i].pw /\ charon[i] = users[i].pw)
Admitted(c, i) ==
  /\ i \notin Names =>
       radcheck[i] = IF customers[c].status = "active" THEN users[i].pw ELSE Disabled
  /\ customers[c].status # "active" => radcheck[i] \in {Disabled, NoRow}

CustomerOK(c) ==
  \/ customers[c] = NoRow /\ devices[c] = NoRow
  \/ \E i \in Ids : Chain(c, i, RowOf(customers[c])) /\ Loaded(i) /\ Admitted(c, i)

Owns(c, i) == devices[c] # NoRow /\ i = Identity(c, devices[c].name)

Unknown(i) == radcheck[i] = NoRow /\ conf.blk[i] = NoRow /\ charon[i] = NoRow

IdentityOK(i) == IF users[i] = NoRow THEN Unknown(i) ELSE \E c \in Names : Owns(c, i)

\* Where the identity of a request is in some stores and not in the others.
Loose == {"create.reload", "create.commit", "delete.bare", "delete.look", "delete.cut",
          "delete.sweep", "delete.devices", "delete.read", "delete.write",
          "delete.radcheck", "delete.reload"}

\* What a request can rely on at each of its points.
Creating(w, c, i) ==
  /\ at[w] \in {"create.exists", "create.insert", "create.append", "create.write",
                "create.reload", "create.commit"} =>
       /\ customers[c] = NoRow /\ devices[c] = NoRow /\ users[i] = NoRow
       /\ \E d \in Devs : i = Identity(c, d)
  /\ at[w] \in {"create.reload", "create.commit"} => radcheck[i] = NoRow /\ conf.blk[i] = w
  /\ at[w] = "create.commit" => charon[i] = w

Renewing(w, c, i, n) ==
  /\ at[w] \in {"rotate.user", "rotate.read", "rotate.write", "rotate.reload",
                "rotate.radcheck", "unarchive.user", "unarchive.read", "unarchive.write",
                "unarchive.radcheck", "unarchive.reload"} =>
       Chain(c, i, n) /\ customers[c].status = "active"
  /\ at[w] \in {"rotate.read", "rotate.write", "rotate.reload", "rotate.radcheck",
                "unarchive.read", "unarchive.write", "unarchive.radcheck",
                "unarchive.reload"} => users[i].pw = w
  /\ at[w] \in {"rotate.user", "rotate.read", "unarchive.user", "unarchive.read"} =>
       i \in Names \/ conf.blk[i] # NoRow
  /\ at[w] \in {"rotate.reload", "rotate.radcheck", "unarchive.radcheck",
                "unarchive.reload"} => i \in Names \/ conf.blk[i] = w
  /\ at[w] = "rotate.radcheck" => i \in Names \/ charon[i] = w
  /\ at[w] = "unarchive.reload" => radcheck[i] = w

Changing(w, c, i, n) ==
  /\ at[w] \in {"archive.status", "unarchive.status"} =>
       CustomerOK(c) /\ customers[c] # NoRow /\ customers[c].row = n
  /\ at[w] \in {"archive.device", "unarchive.device"} =>
       \E j \in Ids : Chain(c, j, n) /\ Loaded(j)
  /\ at[w] = "archive.radcheck" => Chain(c, i, n) /\ Loaded(i)
  /\ at[w] \in {"archive.device", "archive.radcheck"} => customers[c].status = "archived"
  /\ at[w] = "unarchive.device" => customers[c].status = "active"

Deleting(w, c, i, n) ==
  /\ at[w] = "delete.users" => Chain(c, i, n)
  /\ at[w] \in {"delete.bare", "delete.look", "delete.cut", "delete.sweep",
                "delete.devices"} =>
       Owns(c, i) /\ devices[c].row = n /\ users[i] = NoRow
  /\ at[w] = "delete.devices" => sweep[w] = {}
  /\ at[w] \in {"delete.bare", "delete.look", "delete.cut", "delete.sweep",
                "delete.devices", "delete.read", "delete.write", "delete.radcheck",
                "delete.reload", "delete.customer"} =>
       customers[c] # NoRow /\ customers[c].row = n
  /\ at[w] \in {"delete.read", "delete.write", "delete.radcheck", "delete.reload",
                "delete.customer"} => devices[c] = NoRow /\ users[i] = NoRow
  /\ at[w] \in {"delete.radcheck", "delete.reload"} => conf.blk[i] = NoRow
  /\ at[w] = "delete.reload" => radcheck[i] = NoRow

\* Where no request gets as long as nothing fails, and where one gets only with
\* a copy of the file.
Failing == {"create.undo", "create.unwrite", "alone.bare", "alone.look", "alone.cut",
            "alone.sweep", "alone.devices"}
Writing == {"create.write", "rotate.write", "unarchive.write", "delete.cut", "delete.write"}

Doing(w) ==
  /\ at[w] \notin Failing
  /\ at[w] \in Writing => snap[w] = conf
  /\ Creating(w, cust[w], id[w])
  /\ Renewing(w, cust[w], id[w], row[w])
  /\ Changing(w, cust[w], id[w], row[w])
  /\ Deleting(w, cust[w], id[w], row[w])

\* As long as one request runs at a time and nothing fails, the stores disagree
\* about nobody but the customer it is about.
Turn ==
  /\ OneAtOnce
  /\ \A b, c \in Names, i \in Ids : Owns(b, i) /\ Owns(c, i) => b = c
  /\ \A c \in Names : CustomerOK(c) \/ \E w \in Requests : Running(w) /\ cust[w] = c
  /\ \A i \in Ids : IdentityOK(i) \/ \E w \in Requests : at[w] \in Loose /\ id[w] = i
  /\ \A w \in Requests : Doing(w)

-----------------------------------------------------------------------------
(* How Turn is kept.                                                        *)
LEMMA Faultless == ASSUME Shape, MaxFaults = 0 PROVE ~Fault
BY DEF Shape, Fault

\* A step that changes nothing but the rows of c and what is kept of i.
Only(c, i) ==
  /\ \A b \in Names \ {c} : customers'[b] = customers[b] /\ devices'[b] = devices[b]
  /\ \A j \in Ids \ {i} : /\ users'[j] = users[j] /\ radcheck'[j] = radcheck[j]
                          /\ conf'.blk[j] = conf.blk[j]
                          /\ charon'[j] \in {charon[j], conf.blk[j]}

LEMMA OnlyCustomers ==
  ASSUME NEW c \in Names, NEW i \in Ids, Only(c, i), NEW b \in Names \ {c}, CustomerOK(b),
         ~Owns(b, i)
  PROVE  CustomerOK(b)'
<1>1. CASE customers[b] = NoRow /\ devices[b] = NoRow
  BY <1>1 DEF Only, CustomerOK
<1>2. ASSUME NEW j \in Ids, Chain(b, j, RowOf(customers[b])), Loaded(j), Admitted(b, j)
      PROVE  CustomerOK(b)'
  <2>1. j # i
    BY <1>2 DEF Chain, Owns
  <2>2. Chain(b, j, RowOf(customers[b]))' /\ Loaded(j)'
    BY <1>2, <2>1 DEF Only, Chain, Loaded
  <2>3. Admitted(b, j)'
    BY <1>2, <2>1 DEF Only, Admitted
  <2>4. QED
    BY <2>2, <2>3 DEF CustomerOK
<1>3. QED
  BY <1>1, <1>2 DEF CustomerOK

LEMMA OnlyIdentities ==
  ASSUME NEW c \in Names, NEW i \in Ids, Only(c, i), NEW j \in Ids \ {i}, IdentityOK(j),
         devices' = devices \/ ~Owns(c, j)
  PROVE  IdentityOK(j)'
<1>1. CASE users[j] = NoRow
  BY <1>1 DEF Only, IdentityOK, Unknown
<1>2. CASE users[j] # NoRow
  <2>1. PICK b \in Names : Owns(b, j)
    BY <1>2 DEF IdentityOK
  <2>2. Owns(b, j)'
    BY <2>1 DEF Only, Owns
  <2>3. QED
    BY <1>2, <2>2 DEF Only, IdentityOK
<1>3. QED
  BY <1>1, <1>2

LEMMA RestingDoes ==
  ASSUME NEW v \in Requests, at'[v] \in Ended \union {"idle"} PROVE Doing(v)'
BY DEF Ended, Doing, Failing, Writing, Creating, Renewing, Changing, Deleting

LEMMA OthersOK ==
  ASSUME Turn, NEW w \in Requests, Alone(w)
  PROVE  /\ \A b \in Names : (Running(w) => b # cust[w]) => CustomerOK(b)
         /\ \A j \in Ids : (at[w] \in Loose => j # id[w]) => IdentityOK(j)
<1>1. \A v \in Requests : at[v] \in Loose => Running(v)
  BY DEF Loose, Running, Ended
<1>2. QED
  BY <1>1 DEF Turn, Alone

LEMMA NotOwned ==
  ASSUME Turn, NEW c \in Names, NEW i \in Ids, NEW b \in Names \ {c},
         Owns(c, i) \/ users[i] = NoRow, CustomerOK(b)
  PROVE  ~Owns(b, i)
<1>1. CASE Owns(c, i)
  BY <1>1 DEF Turn
<1>2. CASE users[i] = NoRow
  BY <1>2 DEF CustomerOK, Chain, Owns
<1>3. QED
  BY <1>1, <1>2

LEMMA TurnStep ==
  ASSUME Turn, NEW w \in Requests, NEW c \in Names, NEW i \in Ids, Alone(w),
         \A v \in Requests \ {w} : at'[v] = at[v],
         cust'[w] = c, Running(w) => cust[w] = c, at[w] \in Loose => id[w] = i,
         Only(c, i), Owns(c, i) \/ users[i] = NoRow,
         \/ devices' = devices
         \/ \A j \in Ids \ {i} : ~Owns(c, j) /\ ~Owns(c, j)',
         CustomerOK(c)' \/ Running(w)',
         IdentityOK(i)' \/ (at'[w] \in Loose /\ id'[w] = i),
         Doing(w)'
  PROVE  Turn'
<1>1. OneAtOnce'
  BY OthersRest
<1>2. \A b \in Names \ {c} : CustomerOK(b) /\ ~Owns(b, i)
  BY OthersOK, NotOwned
<1>3. \A b \in Names : CustomerOK(b)' \/ \E v \in Requests : Running(v)' /\ cust'[v] = b
  BY <1>2, OnlyCustomers
<1>4. \A j \in Ids : IdentityOK(j)' \/ \E v \in Requests : at'[v] \in Loose /\ id'[v] = j
  <2> SUFFICES ASSUME NEW j \in Ids \ {i} PROVE IdentityOK(j)'
    OBVIOUS
  <2>1. IdentityOK(j)
    BY OthersOK
  <2>2. QED
    BY <2>1, OnlyIdentities
<1>5. ASSUME NEW a \in Names, NEW b \in Names, NEW j \in Ids, Owns(a, j)', Owns(b, j)'
      PROVE  a = b
  <2>1. CASE devices' = devices
    BY <1>5, <2>1 DEF Owns, Turn
  <2>2. CASE \A k \in Ids \ {i} : ~Owns(c, k) /\ ~Owns(c, k)'
    <3>1. \A e \in Names \ {c} : Owns(e, j)' => Owns(e, j)
      BY DEF Only, Owns
    <3>2. QED
      BY <1>2, <1>5, <2>2, <3>1 DEF Turn
  <2>3. QED
    BY <2>1, <2>2
<1>6. ASSUME NEW v \in Requests PROVE Doing(v)'
  <2>1. CASE v # w
    <3>1. at'[v] \in Ended \union {"idle"}
      BY <2>1 DEF Alone, Running
    <3>2. QED
      BY <3>1, RestingDoes
  <2>2. QED
    BY <2>1
<1>7. QED
  BY <1>1, <1>3, <1>4, <1>5, <1>6 DEF Turn

LEMMA StillTurn ==
  ASSUME Turn, NEW w \in Requests, Alone(w), \A v \in Requests \ {w} : at'[v] = at[v],
         UNCHANGED <<tables, gateway>>, cust'[w] \in Names,
         Running(w) => cust'[w] = cust[w],
         at[w] \in Loose => at'[w] \in Loose /\ id'[w] = id[w],
         CustomerOK(cust'[w]) \/ Running(w)', Doing(w)'
  PROVE  Turn'
<1>1. OneAtOnce'
  BY OthersRest
<1>2. /\ \A c \in Names : CustomerOK(c)' = CustomerOK(c)
      /\ \A i \in Ids : IdentityOK(i)' = IdentityOK(i)
      /\ \A b \in Names, i \in Ids : Owns(b, i)' = Owns(b, i)
  BY DEF tables, gateway, CustomerOK, Chain, Loaded, Admitted, IdentityOK, Unknown, Owns
<1>3. \A c \in Names : CustomerOK(c)' \/ \E v \in Requests : Running(v)' /\ cust'[v] = c
  BY <1>2, OthersOK
<1>4. \A i \in Ids : IdentityOK(i)' \/ \E v \in Requests : at'[v] \in Loose /\ id'[v] = i
  BY <1>2, OthersOK
<1>5. \A v \in Requests \ {w} : at'[v] \in Ended \union {"idle"}
  BY DEF Alone, Running
<1>6. \A v \in Requests : Doing(v)'
  BY <1>5, RestingDoes
<1>7. QED
  BY <1>1, <1>2, <1>3, <1>4, <1>6 DEF Turn

\* A request that goes on.
LEMMA Going ==
  ASSUME Shape, NEW w \in Requests, NEW from, NEW to, Goto(w, from, to),
         UNCHANGED <<cust, row, id>>
  PROVE  /\ at[w] = from /\ at'[w] = to /\ \A v \in Requests \ {w} : at'[v] = at[v]
         /\ cust[w] \in Names /\ id[w] \in Ids
         /\ cust'[w] = cust[w] /\ row'[w] = row[w] /\ id'[w] = id[w]
         /\ Running(w) <=> from \notin Ended \union {"idle"}
         /\ Running(w)' <=> to \notin Ended \union {"idle"}
BY DEF Goto, Shape, Running

\* A read, as long as nothing fails.
ReadTo(w, from, to) ==
  /\ Goto(w, from, to) /\ snap'[w] = conf
  /\ UNCHANGED <<tables, gateway, cust, row, id, sweep>>

LEMMA Reads ==
  ASSUME Shape, MaxFaults = 0, NEW w \in Requests
  PROVE  /\ CreateExists(w) => \/ ReadTo(w, "create.exists", "create.insert")
                               \/ ReadTo(w, "create.exists", "refused")
         /\ CreateAppend(w) => \/ ReadTo(w, "create.append", "create.write")
                               \/ ReadTo(w, "create.append", "error")
         /\ RotateRead(w) => \/ ReadTo(w, "rotate.read", "rotate.write")
                             \/ ReadTo(w, "rotate.read", "error") /\ conf.blk[id[w]] = NoRow
         /\ UnarchiveRead(w) =>
              \/ ReadTo(w, "unarchive.read", "unarchive.write")
              \/ ReadTo(w, "unarchive.read", "unarchive.radcheck") /\ conf.blk[id[w]] = NoRow
         /\ DeleteRead(w) =>
              \/ ReadTo(w, "delete.read", "delete.write")
              \/ ReadTo(w, "delete.read", "delete.radcheck") /\ conf.blk[id[w]] = NoRow
         /\ DeleteLook(w) => \/ at[w] = "alone.look"
                             \/ ReadTo(w, "delete.look", "delete.cut")
                             \/ ReadTo(w, "delete.look", "delete.sweep")
<1>1. ~Fault
  BY Faultless
<1>2. Read(w) => snap'[w] = conf
  BY <1>1 DEF Read, Shape
<1> USE <1>1, <1>2 DEF ReadThen, Raise, ReadTo
<1>3. CreateExists(w) => \/ ReadTo(w, "create.exists", "create.insert")
                         \/ ReadTo(w, "create.exists", "refused")
  BY DEF CreateExists
<1>4. CreateAppend(w) => \/ ReadTo(w, "create.append", "create.write")
                         \/ ReadTo(w, "create.append", "error")
  BY DEF CreateAppend
<1>5. RotateRead(w) => \/ ReadTo(w, "rotate.read", "rotate.write")
                       \/ ReadTo(w, "rotate.read", "error") /\ conf.blk[id[w]] = NoRow
  BY DEF RotateRead
<1>6. UnarchiveRead(w) =>
        \/ ReadTo(w, "unarchive.read", "unarchive.write")
        \/ ReadTo(w, "unarchive.read", "unarchive.radcheck") /\ conf.blk[id[w]] = NoRow
  BY DEF UnarchiveRead
<1>7. DeleteRead(w) =>
        \/ ReadTo(w, "delete.read", "delete.write")
        \/ ReadTo(w, "delete.read", "delete.radcheck") /\ conf.blk[id[w]] = NoRow
  BY DEF DeleteRead
<1>8. DeleteLook(w) => \/ at[w] = "alone.look"
                       \/ ReadTo(w, "delete.look", "delete.cut")
                       \/ ReadTo(w, "delete.look", "delete.sweep")
  BY DEF DeleteLook, LookBare, Goto
<1>9. QED
  BY <1>3, <1>4, <1>5, <1>6, <1>7, <1>8

LEMMA ReadTurn ==
  ASSUME Shape, Turn, NEW w \in Requests, Alone(w), NEW from, NEW to, ReadTo(w, from, to),
         from \in Loose => to \in Loose, from \notin Ended \union {"idle"},
         CustomerOK(cust[w]) \/ to \notin Ended, to # "idle", Doing(w)'
  PROVE  Turn'
BY Going, StillTurn DEF ReadTo

LEMMA ReadsTurn ==
  ASSUME Shape, Turn, MaxFaults = 0, NEW w \in Requests, Alone(w),
         \/ CreateExists(w) \/ CreateAppend(w) \/ RotateRead(w) \/ UnarchiveRead(w)
         \/ DeleteRead(w) \/ DeleteLook(w)
  PROVE  Turn'
<1>1. Doing(w)
  BY DEF Turn
<1>2. CASE CreateExists(w) \/ CreateAppend(w)
  <2>1. PICK from \in {"create.exists", "create.append"},
             to \in {"create.insert", "create.write", "refused", "error"} : ReadTo(w, from, to)
    BY <1>2, Reads
  <2>2. /\ at[w] = from /\ at'[w] = to /\ snap'[w] = conf'
        /\ cust'[w] = cust[w] /\ id'[w] = id[w] /\ row'[w] = row[w]
    BY <2>1, Going DEF ReadTo, gateway
  <2>3. Creating(w, cust[w], id[w])
    BY <1>1 DEF Doing
  <2>4. CustomerOK(cust[w])
    BY <2>2, <2>3 DEF Creating, CustomerOK
  <2>5. Creating(w, cust[w], id[w])'
    BY <2>1, <2>2, <2>3 DEF Creating, ReadTo, tables, gateway
  <2>6. Doing(w)'
    BY <2>2, <2>5 DEF Doing, Failing, Writing, Renewing, Changing, Deleting
  <2>7. QED
    BY <2>1, <2>4, <2>6, ReadTurn DEF Loose, Ended
<1>3. CASE RotateRead(w) \/ UnarchiveRead(w)
  <2>1. PICK from \in {"rotate.read", "unarchive.read"},
             to \in {"rotate.write", "error", "unarchive.write", "unarchive.radcheck"} :
             /\ ReadTo(w, from, to)
             /\ from = "rotate.read" <=> to \in {"rotate.write", "error"}
             /\ to \in {"rotate.write", "unarchive.write"} \/ conf.blk[id[w]] = NoRow
    BY <1>3, Reads
  <2>2. /\ at[w] = from /\ at'[w] = to /\ snap'[w] = conf'
        /\ cust'[w] = cust[w] /\ id'[w] = id[w] /\ row'[w] = row[w]
    BY <2>1, Going DEF ReadTo, gateway
  <2>3. Renewing(w, cust[w], id[w], row[w])
    BY <1>1 DEF Doing
  <2>4. Renewing(w, cust[w], id[w], row[w])'
    BY <2>1, <2>2, <2>3 DEF Renewing, Chain, ReadTo, tables, gateway
  <2>5. Doing(w)'
    BY <2>2, <2>4 DEF Doing, Failing, Writing, Creating, Changing, Deleting
  <2>6. CustomerOK(cust[w]) \/ to # "error"
    <3>1. ASSUME to = "error"
          PROVE  /\ Chain(cust[w], id[w], row[w]) /\ customers[cust[w]].status = "active"
                 /\ id[w] \in Names
      BY <2>1, <2>2, <2>3, <3>1 DEF Renewing
    <3>2. QED
      BY <3>1 DEF CustomerOK, Chain, Loaded, Admitted, RowOf, Shape
  <2>7. QED
    BY <2>1, <2>5, <2>6, ReadTurn DEF Loose, Ended
<1>4. CASE DeleteRead(w) \/ DeleteLook(w)
  <2>1. PICK from \in {"delete.read", "delete.look"},
             to \in {"delete.write", "delete.radcheck", "delete.cut", "delete.sweep"} :
             /\ ReadTo(w, from, to)
             /\ from = "delete.look" <=> to \in {"delete.cut", "delete.sweep"}
             /\ to = "delete.radcheck" => conf.blk[id[w]] = NoRow
    <3>1. at[w] # "alone.look"
      BY <1>1 DEF Doing, Failing
    <3>2. QED
      BY <1>4, <3>1, Reads
  <2>2. /\ at[w] = from /\ at'[w] = to /\ snap'[w] = conf'
        /\ cust'[w] = cust[w] /\ id'[w] = id[w] /\ row'[w] = row[w]
    BY <2>1, Going DEF ReadTo, gateway
  <2>3. Deleting(w, cust[w], id[w], row[w])
    BY <1>1 DEF Doing
  <2>4. Deleting(w, cust[w], id[w], row[w])'
    BY <2>1, <2>2, <2>3 DEF Deleting, Owns, ReadTo, tables, gateway
  <2>5. Doing(w)'
    BY <2>2, <2>4 DEF Doing, Failing, Writing, Creating, Changing, Renewing
  <2>6. QED
    BY <2>1, <2>5, ReadTurn DEF Loose, Ended
<1>5. QED
  BY <1>2, <1>3, <1>4

LEMMA Puts ==
  ASSUME Shape, NEW w \in Requests
  PROVE  /\ \A j \in Ids : PutBlock(conf, id[w], w).blk[j] = IF j = id[w] THEN w ELSE conf.blk[j]
         /\ \A j \in Ids : CutBlock(conf, id[w]).blk[j] = IF j = id[w] THEN NoRow ELSE conf.blk[j]
<1>1. conf \in AnyFiles /\ id[w] \in Ids /\ w \in Secrets
  BY DEF Shape, Secrets
<1>2. \A s \in Secrets \union {NoRow}, j \in Ids :
        [conf EXCEPT !.blk[id[w]] = s].blk[j] = IF j = id[w] THEN s ELSE conf.blk[j]
  BY <1>1, PutType
<1>3. \A j \in Ids : PutBlock(conf, id[w], w).blk[j] = IF j = id[w] THEN w ELSE conf.blk[j]
  BY <1>1, <1>2 DEF PutBlock
<1>4. \A j \in Ids : CutBlock(conf, id[w]).blk[j] = IF j = id[w] THEN NoRow ELSE conf.blk[j]
  BY <1>2 DEF CutBlock
<1>5. QED
  BY <1>3, <1>4

\* A write and a reload, as long as nothing fails.
LEMMA Writes1 ==
  ASSUME Shape, MaxFaults = 0, NEW w \in Requests, NEW from, NEW new, NEW to, NEW onRaise,
         Write(w, from, new, to, onRaise)
  PROVE  Goto(w, from, to) /\ conf' = new /\ UNCHANGED <<tables, charon, locals>>
BY Faultless DEF Write

LEMMA Reloads1 ==
  ASSUME Shape, MaxFaults = 0, NEW w \in Requests, NEW from, NEW to, NEW onRaise,
         Reload(w, from, to, onRaise)
  PROVE  Goto(w, from, to) /\ charon' = conf.blk /\ UNCHANGED <<tables, conf, locals>>
BY Faultless DEF Reload

LEMMA CreateTurn ==
  ASSUME Shape, Turn, MaxFaults = 0, NEW w \in Requests, Alone(w),
         CreateInsert(w) \/ CreateWrite(w) \/ CreateReload(w) \/ CreateCommit(w)
  PROVE  Turn'
<1>1. ~Fault
  BY Faultless
<1>2. Doing(w) /\ Creating(w, cust[w], id[w])
  BY DEF Turn, Doing
<1>3. PICK c \in Names, i \in Ids : c = cust[w] /\ i = id[w]
  BY DEF Shape
<1> USE <1>3
<1>4. CASE CreateInsert(w)
  <2>1. PICK to \in {"create.append", "error"} :
          Goto(w, "create.insert", to) /\ UNCHANGED <<tables, gateway, locals>>
    BY <1>1, <1>4 DEF CreateInsert, Raise
  <2>2. /\ at[w] = "create.insert" /\ at'[w] = to
        /\ cust'[w] = cust[w] /\ id'[w] = id[w] /\ row'[w] = row[w]
        /\ \A v \in Requests \ {w} : at'[v] = at[v]
    BY <2>1, Going DEF locals
  <2>3. Creating(w, cust[w], id[w])' /\ CustomerOK(c)
    BY <1>2, <2>1, <2>2 DEF Creating, CustomerOK, tables, gateway
  <2>4. Doing(w)'
    BY <2>2, <2>3 DEF Doing, Failing, Writing, Renewing, Changing, Deleting
  <2>5. QED
    BY <1>3, <2>1, <2>2, <2>3, <2>4, StillTurn DEF Loose
<1>5. CASE CreateWrite(w)
  <2>1. /\ Goto(w, "create.write", "create.reload") /\ conf' = PutBlock(conf, i, w)
        /\ UNCHANGED <<tables, charon, locals>>
    <3>1. /\ Goto(w, "create.write", "create.reload") /\ conf' = PutBlock(snap[w], i, w)
          /\ UNCHANGED <<tables, charon, locals>>
      BY <1>5, Writes1 DEF CreateWrite
    <3>2. snap[w] = conf
      BY <1>2, <3>1 DEF Goto, Doing, Writing
    <3>3. QED
      BY <3>1, <3>2
  <2>2. /\ at[w] = "create.write" /\ at'[w] = "create.reload"
        /\ cust'[w] = c /\ id'[w] = i /\ row'[w] = row[w]
        /\ \A v \in Requests \ {w} : at'[v] = at[v]
        /\ Running(w)'
    BY <2>1, Going DEF locals, Ended
  <2>3. \A j \in Ids : conf'.blk[j] = IF j = i THEN w ELSE conf.blk[j]
    BY <2>1, Puts
  <2>4. /\ customers[c] = NoRow /\ devices[c] = NoRow /\ users[i] = NoRow
        /\ \E d \in Devs : i = Identity(c, d)
    BY <1>2, <2>2 DEF Creating
  <2>5. radcheck[i] = NoRow
    BY <1>3, <2>2, <2>4, OthersOK DEF Loose, IdentityOK, Unknown
  <2>6. Creating(w, c, i)'
    BY <1>3, <2>1, <2>2, <2>3, <2>4, <2>5 DEF Creating, tables
  <2>7. Doing(w)'
    BY <2>2, <2>6 DEF Doing, Failing, Writing, Renewing, Changing, Deleting
  <2>8. Only(c, i)
    BY <2>1, <2>3 DEF Only, tables
  <2>9. QED
    BY <1>3, <2>1, <2>2, <2>4, <2>7, <2>8, TurnStep DEF Loose, tables
<1>6. CASE CreateReload(w)
  <2>1. /\ Goto(w, "create.reload", "create.commit") /\ charon' = conf.blk
        /\ UNCHANGED <<tables, conf, locals>>
    BY <1>6, Reloads1 DEF CreateReload
  <2>2. /\ at[w] = "create.reload" /\ at'[w] = "create.commit"
        /\ cust'[w] = c /\ id'[w] = i /\ row'[w] = row[w]
        /\ \A v \in Requests \ {w} : at'[v] = at[v]
        /\ Running(w)'
    BY <2>1, Going DEF locals, Ended
  <2>3. users[i] = NoRow
    BY <1>2, <2>2 DEF Creating
  <2>4. Creating(w, c, i)'
    BY <1>2, <1>3, <2>1, <2>2 DEF Creating, tables
  <2>5. Doing(w)'
    BY <2>2, <2>4 DEF Doing, Failing, Writing, Renewing, Changing, Deleting
  <2>6. Only(c, i)
    BY <2>1 DEF Only, tables
  <2>7. QED
    BY <1>3, <2>1, <2>2, <2>3, <2>5, <2>6, TurnStep DEF Loose, tables
<1>7. CASE CreateCommit(w)
  <2>1. PICK d \in Devs :
          /\ Goto(w, "create.commit", "ok")
          /\ customers' = [customers EXCEPT ![c] = [row |-> w, status |-> "active"]]
          /\ users' = [users EXCEPT ![i] = [row |-> w, pw |-> w]]
          /\ i = Identity(c, d)
          /\ devices' = [devices EXCEPT ![c] = [row |-> w, name |-> d]]
          /\ radcheck' = [radcheck EXCEPT ![i] = w]
          /\ UNCHANGED <<gateway, locals, bounds>>
    BY <1>1, <1>7 DEF CreateCommit, Raise
  <2>2. /\ at[w] = "create.commit" /\ at'[w] = "ok"
        /\ cust'[w] = c /\ id'[w] = i /\ row'[w] = row[w]
        /\ \A v \in Requests \ {w} : at'[v] = at[v]
    BY <2>1, Going DEF locals
  <2>3. /\ customers[c] = NoRow /\ devices[c] = NoRow /\ users[i] = NoRow
        /\ conf.blk[i] = w /\ charon[i] = w
    BY <1>2, <2>2 DEF Creating
  <2>4. /\ customers'[c] = [row |-> w, status |-> "active"]
        /\ users'[i] = [row |-> w, pw |-> w] /\ radcheck'[i] = w
        /\ devices'[c] = [row |-> w, name |-> d]
        /\ conf'.blk[i] = w /\ charon'[i] = w
    BY <1>3, <2>1, <2>3 DEF Shape, gateway
  <2>5. customers'[c] # NoRow /\ users'[i] # NoRow /\ devices'[c] # NoRow
    BY <2>4, PortalAssumption DEF Secrets
  <2>6. Only(c, i)
    BY <2>1 DEF Only, Shape, gateway
  <2>7. Owns(c, i)'
    BY <2>1, <2>4, <2>5 DEF Owns
  <2>8. \A j \in Ids \ {i} : ~Owns(c, j) /\ ~Owns(c, j)'
    BY <2>1, <2>3, <2>4 DEF Owns
  <2>9. CustomerOK(c)' /\ IdentityOK(i)'
    BY <1>3, <2>1, <2>4, <2>5, <2>7 DEF CustomerOK, IdentityOK, Chain, Loaded, Admitted, RowOf
  <2>10. Doing(w)'
    BY <2>2, RestingDoes DEF Ended
  <2>11. QED
    BY <1>3, <2>2, <2>3, <2>6, <2>8, <2>9, <2>10, TurnStep
<1>8. QED
  BY <1>4, <1>5, <1>6, <1>7

\* Steps of a request that has found the rows of its customer.
LEMMA ChainTurn ==
  ASSUME Shape, Turn, NEW w \in Requests, Alone(w), NEW c \in Names, NEW i \in Ids, NEW n,
         c = cust[w], i = id[w], NEW from, NEW to, Goto(w, from, to),
         from \notin Ended \union {"idle"}, from \notin Loose,
         UNCHANGED <<devices, cust, row, id>>, Chain(c, i, n), users'[i] # NoRow, Only(c, i),
         CustomerOK(c)' \/ to \notin Ended \union {"idle"}, Doing(w)'
  PROVE  Turn'
<1>1. /\ at[w] = from /\ at'[w] = to /\ \A v \in Requests \ {w} : at'[v] = at[v]
      /\ cust'[w] = c /\ (CustomerOK(c)' \/ Running(w)')
  BY Going
<1>2. Owns(c, i)
  BY DEF Chain, Owns
<1>3. IdentityOK(i)'
  BY <1>2 DEF IdentityOK, Owns
<1>4. QED
  BY <1>1, <1>2, <1>3, TurnStep

LEMMA RenewTurn ==
  ASSUME Shape, Turn, MaxFaults = 0, NEW w \in Requests, Alone(w),
         \/ RotateUser(w) \/ RotateWrite(w) \/ RotateReload(w) \/ RotateRadcheck(w)
         \/ UnarchiveUser(w) \/ UnarchiveWrite(w) \/ UnarchiveRadcheck(w)
         \/ UnarchiveReload(w)
  PROVE  Turn'
<1>1. ~Fault
  BY Faultless
<1>2. PICK c \in Names, i \in Ids, n \in {row[w]} : c = cust[w] /\ i = id[w] /\ n = row[w]
  BY DEF Shape
<1> USE <1>2
<1>3. Doing(w) /\ Renewing(w, c, i, n)
  BY DEF Turn, Doing
<1>4. w # NoRow
  BY PortalAssumption DEF Secrets
<1>5. CASE RotateUser(w) \/ UnarchiveUser(w)
  <2>1. PICK from \in {"rotate.user", "unarchive.user"},
             to \in {"rotate.read", "unarchive.read"} :
          /\ Goto(w, from, to)
          /\ users' = [users EXCEPT ![i] = IF Is(@, n) THEN [row |-> n, pw |-> w] ELSE @]
          /\ UNCHANGED <<customers, devices, radcheck, gateway, locals>>
    BY <1>1, <1>5 DEF RotateUser, UnarchiveUser, PutUser, Raise
  <2>2. /\ at[w] = from /\ at'[w] = to /\ cust'[w] = c /\ id'[w] = i /\ row'[w] = n
        /\ UNCHANGED <<cust, row, id>>
    BY <2>1, Going DEF locals
  <2>3. /\ Chain(c, i, n) /\ customers[c].status = "active"
        /\ i \in Names \/ conf.blk[i] # NoRow
    BY <1>3, <2>2 DEF Renewing
  <2>4. users'[i] = [row |-> n, pw |-> w] /\ \A j \in Ids \ {i} : users'[j] = users[j]
    BY <2>1, <2>3 DEF Shape, Is, Chain
  <2>5. users'[i] # NoRow
    <3>1. n \in Rows
      BY <2>3, PortalAssumption DEF Chain, Shape, Customers
    <3>2. QED
      BY <2>4, <3>1, PortalAssumption DEF Rows, Secrets
  <2>6. Chain(c, i, n)' /\ Only(c, i)
    BY <2>1, <2>3, <2>4, <2>5 DEF Chain, Only, gateway
  <2>7. Renewing(w, c, i, n)'
    BY <2>1, <2>2, <2>3, <2>4, <2>6 DEF Renewing, gateway
  <2>8. Doing(w)'
    BY <2>2, <2>7 DEF Doing, Failing, Writing, Creating, Changing, Deleting
  <2>9. QED
    BY <2>1, <2>2, <2>3, <2>5, <2>6, <2>8, ChainTurn DEF Loose, Ended
<1>6. CASE RotateWrite(w) \/ UnarchiveWrite(w)
  <2>1. PICK from \in {"rotate.write", "unarchive.write"},
             to \in {"rotate.reload", "unarchive.radcheck"} :
          /\ Goto(w, from, to) /\ conf' = PutBlock(snap[w], i, w)
          /\ UNCHANGED <<tables, charon, locals>>
    BY <1>6, Writes1 DEF RotateWrite, UnarchiveWrite
  <2>2. /\ at[w] = from /\ at'[w] = to /\ cust'[w] = c /\ id'[w] = i /\ row'[w] = n
        /\ UNCHANGED <<cust, row, id>>
    BY <2>1, Going DEF locals
  <2>3. Chain(c, i, n) /\ customers[c].status = "active" /\ users[i].pw = w /\ snap[w] = conf
    BY <1>3, <2>2 DEF Renewing, Doing, Writing
  <2>4. \A j \in Ids : conf'.blk[j] = IF j = i THEN w ELSE conf.blk[j]
    BY <2>1, <2>3, Puts
  <2>5. Chain(c, i, n)' /\ Only(c, i)
    BY <2>1, <2>3, <2>4 DEF Chain, Only, tables
  <2>6. Renewing(w, c, i, n)'
    BY <1>4, <2>1, <2>2, <2>3, <2>4, <2>5 DEF Renewing, tables
  <2>7. Doing(w)'
    BY <2>2, <2>6 DEF Doing, Failing, Writing, Creating, Changing, Deleting
  <2>8. QED
    BY <2>1, <2>2, <2>3, <2>5, <2>7, ChainTurn DEF Loose, Ended, Chain, tables
<1>7. CASE RotateReload(w) \/ UnarchiveReload(w)
  <2>1. PICK from \in {"rotate.reload", "unarchive.reload"}, to \in {"rotate.radcheck", "ok"} :
          /\ Goto(w, from, to) /\ charon' = conf.blk
          /\ UNCHANGED <<tables, conf, locals>>
          /\ from = "rotate.reload" <=> to = "rotate.radcheck"
    BY <1>7, Reloads1 DEF RotateReload, UnarchiveReload
  <2>2. /\ at[w] = from /\ at'[w] = to /\ cust'[w] = c /\ id'[w] = i /\ row'[w] = n
        /\ UNCHANGED <<cust, row, id>>
    BY <2>1, Going DEF locals
  <2>3. /\ Chain(c, i, n) /\ customers[c].status = "active" /\ users[i].pw = w
        /\ i \in Names \/ conf.blk[i] = w
        /\ to = "ok" => radcheck[i] = w
    BY <1>3, <2>1, <2>2 DEF Renewing
  <2>4. Chain(c, i, n)' /\ Only(c, i) /\ charon'[i] = conf.blk[i]
    BY <2>1, <2>3 DEF Chain, Only, tables
  <2>5. Renewing(w, c, i, n)'
    BY <2>1, <2>2, <2>3, <2>4 DEF Renewing, tables
  <2>6. Doing(w)'
    BY <2>2, <2>5 DEF Doing, Failing, Writing, Creating, Changing, Deleting
  <2>7. to = "ok" => CustomerOK(c)'
    BY <2>1, <2>3, <2>4 DEF CustomerOK, Loaded, Admitted, Chain, RowOf, tables
  <2>8. QED
    BY <2>1, <2>2, <2>3, <2>4, <2>6, <2>7, ChainTurn DEF Loose, Ended, Chain, tables
<1>8. CASE RotateRadcheck(w) \/ UnarchiveRadcheck(w)
  <2>1. PICK from \in {"rotate.radcheck", "unarchive.radcheck"}, to \in {"unarchive.reload", "ok"} :
          /\ Goto(w, from, to) /\ radcheck' = [radcheck EXCEPT ![i] = w]
          /\ UNCHANGED <<customers, users, devices, gateway, locals>>
          /\ from = "rotate.radcheck" <=> to = "ok"
    BY <1>1, <1>8 DEF RotateRadcheck, UnarchiveRadcheck, PutRadcheck, Raise
  <2>2. /\ at[w] = from /\ at'[w] = to /\ cust'[w] = c /\ id'[w] = i /\ row'[w] = n
        /\ UNCHANGED <<cust, row, id>>
    BY <2>1, Going DEF locals
  <2>3. /\ Chain(c, i, n) /\ customers[c].status = "active" /\ users[i].pw = w
        /\ i \in Names \/ (conf.blk[i] = w /\ (to = "ok" => charon[i] = w))
    BY <1>3, <2>1, <2>2 DEF Renewing
  <2>4. Chain(c, i, n)' /\ Only(c, i) /\ radcheck'[i] = w
    BY <2>1, <2>3 DEF Chain, Only, gateway, Shape
  <2>5. Renewing(w, c, i, n)'
    BY <2>1, <2>2, <2>3, <2>4 DEF Renewing, gateway
  <2>6. Doing(w)'
    BY <2>2, <2>5 DEF Doing, Failing, Writing, Creating, Changing, Deleting
  <2>7. to = "ok" => CustomerOK(c)'
    BY <2>1, <2>3, <2>4 DEF CustomerOK, Loaded, Admitted, Chain, RowOf, gateway
  <2>8. QED
    BY <2>1, <2>2, <2>3, <2>4, <2>6, <2>7, ChainTurn DEF Loose, Ended, Chain
<1>9. QED
  BY <1>5, <1>6, <1>7, <1>8

\* No two identities have the same row.
LEMMA OneIdentity ==
  ASSUME OwnInv, NEW i \in Ids, NEW j \in Ids, users[i] # NoRow, users[j] # NoRow,
         users[i].row = users[j].row
  PROVE  i = j
<1>1. users[i].row \in Own(i) /\ users[i].row \in Own(j)
  BY DEF OwnInv
<1>2. QED
  BY <1>1, PortalAssumption DEF Own

LEMMA OneUserId ==
  ASSUME OwnInv, NEW c \in Names, NEW i \in Ids, NEW n, Chain(c, i, n)
  PROVE  UserIds(n) = {i} /\ Is(devices[c], n)
<1>1. i \in UserIds(n) /\ Is(devices[c], n)
  BY DEF Chain, UserIds, Is
<1>2. \A j \in UserIds(n) : j = i
  BY OneIdentity DEF UserIds, Is, Chain
<1>3. QED
  BY <1>1, <1>2 DEF UserIds

LEMMA StatusTurn ==
  ASSUME Shape, Turn, OwnInv, MaxFaults = 0, NEW w \in Requests, Alone(w),
         \/ ArchiveStatus(w) \/ ArchiveDevice(w) \/ ArchiveRadcheck(w)
         \/ UnarchiveStatus(w) \/ UnarchiveDevice(w)
  PROVE  Turn'
<1>1. ~Fault
  BY Faultless
<1>2. PICK c \in Names, n \in {row[w]} : c = cust[w] /\ n = row[w]
  BY DEF Shape
<1> USE <1>2
<1>3. Doing(w) /\ Changing(w, c, id[w], n)
  BY DEF Turn, Doing
<1>4. CASE ArchiveStatus(w) \/ UnarchiveStatus(w)
  <2>1. PICK from \in {"archive.status", "unarchive.status"},
             to \in {"archive.device", "unarchive.device"}, s \in {"archived", "active"} :
          /\ Goto(w, from, to) /\ SetStatus(w, s)
          /\ UNCHANGED <<users, devices, radcheck, gateway, locals>>
          /\ to = "archive.device" <=> s = "archived"
    BY <1>1, <1>4 DEF ArchiveStatus, UnarchiveStatus, Raise
  <2>2. /\ at[w] = from /\ at'[w] = to /\ cust'[w] = c /\ row'[w] = n
        /\ \A v \in Requests \ {w} : at'[v] = at[v]
        /\ Running(w)'
    BY <2>1, Going DEF locals, Ended
  <2>3. CustomerOK(c) /\ customers[c] # NoRow /\ customers[c].row = n
    BY <1>3, <2>2 DEF Changing
  <2>4. PICK i \in Ids : Chain(c, i, n) /\ Loaded(i)
    BY <2>3 DEF CustomerOK, RowOf
  <2>5. customers'[c] = [row |-> n, status |-> s]
    BY <2>1, <2>3 DEF SetStatus, Is, Shape
  <2>6. customers'[c] # NoRow
    <3>1. n \in Rows
      BY <2>3 DEF Shape, Customers
    <3>2. QED
      BY <2>5, <3>1, PortalAssumption DEF Rows
  <2>7. Chain(c, i, n)' /\ Loaded(i)' /\ customers'[c].status = s
    BY <2>1, <2>4, <2>5, <2>6 DEF Chain, Loaded, gateway
  <2>8. Changing(w, c, id[w], n)'
    BY <2>1, <2>2, <2>7 DEF Changing
  <2>9. Doing(w)'
    BY <2>1, <2>2, <2>8 DEF Doing, Failing, Writing, Creating, Renewing, Deleting, locals
  <2>10. Only(c, i)
    BY <2>1 DEF Only, SetStatus, gateway, Shape
  <2>11. Owns(c, i) /\ IdentityOK(i)'
    BY <2>1, <2>4 DEF Chain, Owns, IdentityOK
  <2>12. QED
    BY <2>1, <2>2, <2>9, <2>10, <2>11, TurnStep DEF Loose
<1>5. CASE ArchiveDevice(w) \/ UnarchiveDevice(w)
  <2>1. PICK from \in {"archive.device", "unarchive.device"},
             to \in {"archive.radcheck", "unarchive.user"} :
             /\ FindDevice(w, from, to, "ok")
             /\ from = "archive.device" <=> to = "archive.radcheck"
    BY <1>5 DEF ArchiveDevice, UnarchiveDevice
  <2>2. at[w] = from
    BY <1>1, <2>1 DEF FindDevice, Goto, Raise
  <2>3. PICK i \in Ids : Chain(c, i, n) /\ Loaded(i)
    BY <1>3, <2>2 DEF Changing
  <2>4. UserIds(n) = {i} /\ Is(devices[c], n)
    BY <2>3, OneUserId
  <2>5. /\ Goto(w, from, to) /\ id' = [id EXCEPT ![w] = i]
        /\ UNCHANGED <<tables, gateway, cust, row>>
    BY <1>1, <2>1, <2>4 DEF FindDevice, Raise
  <2>6. /\ at'[w] = to /\ cust'[w] = c /\ row'[w] = n /\ id'[w] = i
        /\ \A v \in Requests \ {w} : at'[v] = at[v]
        /\ Running(w)'
    BY <2>5 DEF Goto, Shape, Running, Ended
  <2>7. i \in Names \/ conf.blk[i] # NoRow
    <3>1. users[i].pw \in Secrets
      BY <2>3 DEF Chain, Shape, Users
    <3>2. QED
      BY <2>3, <3>1, PortalAssumption DEF Loaded
  <2>8. customers[c].status = IF from = "archive.device" THEN "archived" ELSE "active"
    BY <1>3, <2>2 DEF Changing
  <2>9. Chain(c, i, n)' /\ Loaded(i)'
    BY <2>3, <2>5 DEF Chain, Loaded, tables, gateway
  <2>10. Changing(w, c, i, n)' /\ Renewing(w, c, i, n)'
    BY <2>1, <2>5, <2>6, <2>7, <2>8, <2>9 DEF Changing, Renewing, tables, gateway
  <2>11. Doing(w)'
    BY <2>6, <2>10 DEF Doing, Failing, Writing, Creating, Deleting
  <2>12. QED
    BY <2>2, <2>5, <2>6, <2>11, StillTurn DEF Loose
<1>6. CASE ArchiveRadcheck(w)
  <2>1. PICK i \in Ids : i = id[w]
    BY DEF Shape
  <2>2. /\ Goto(w, "archive.radcheck", "ok")
        /\ radcheck' = [radcheck EXCEPT ![i] = Disabled]
        /\ UNCHANGED <<customers, users, devices, gateway, locals>>
    BY <1>1, <1>6, <2>1 DEF ArchiveRadcheck, Raise
  <2>3. /\ at[w] = "archive.radcheck" /\ at'[w] = "ok" /\ cust'[w] = c
        /\ UNCHANGED <<cust, row, id>>
    BY <2>2, Going DEF locals
  <2>4. Chain(c, i, n) /\ Loaded(i) /\ customers[c].status = "archived"
    BY <1>3, <2>1, <2>3 DEF Changing
  <2>5. CustomerOK(c)'
    BY <2>2, <2>4 DEF CustomerOK, Chain, Loaded, Admitted, RowOf, gateway, Shape
  <2>6. Only(c, i)
    BY <2>2 DEF Only, gateway, Shape
  <2>7. Doing(w)'
    BY <2>3, RestingDoes DEF Ended
  <2>8. QED
    BY <2>1, <2>2, <2>3, <2>4, <2>5, <2>6, <2>7, ChainTurn DEF Loose, Ended, Chain
<1>7. QED
  BY <1>4, <1>5, <1>6

\* What a delete takes away under its customer's bare name.
BareOnly(c) ==
  /\ UNCHANGED <<customers, users, devices, charon>>
  /\ \A j \in Ids :
       /\ radcheck'[j] = radcheck[j] \/ (j = c /\ radcheck'[j] = NoRow)
       /\ conf'.blk[j] = conf.blk[j] \/ (j = c /\ conf'.blk[j] = NoRow)

LEMMA BareKeeps ==
  ASSUME NEW c \in Names, BareOnly(c)
  PROVE  /\ \A b \in Names : CustomerOK(b) => CustomerOK(b)'
         /\ \A j \in Ids : IdentityOK(j) => IdentityOK(j)'
         /\ \A b \in Names, j \in Ids : Owns(b, j)' = Owns(b, j)
<1>1. ASSUME NEW b \in Names, NEW j \in Ids
      PROVE  /\ Owns(b, j)' = Owns(b, j)
             /\ Chain(b, j, RowOf(customers[b]))' = Chain(b, j, RowOf(customers[b]))
             /\ Loaded(j) => Loaded(j)'
             /\ Admitted(b, j) => Admitted(b, j)'
  BY DEF BareOnly, Owns, Chain, Loaded, Admitted
<1>2. \A b \in Names : CustomerOK(b) => CustomerOK(b)'
  BY <1>1 DEF CustomerOK, BareOnly
<1>3. \A j \in Ids : IdentityOK(j) => IdentityOK(j)'
  BY <1>1 DEF IdentityOK, Unknown, BareOnly
<1>4. QED
  BY <1>1, <1>2, <1>3

LEMMA BareTurn ==
  ASSUME Shape, Turn, MaxFaults = 0, NEW w \in Requests, Alone(w),
         DeleteBare(w) \/ DeleteCut(w)
  PROVE  Turn'
<1>1. ~Fault
  BY Faultless
<1>2. PICK c \in Names, i \in Ids, n \in {row[w]} : c = cust[w] /\ i = id[w] /\ n = row[w]
  BY DEF Shape
<1>3. Doing(w) /\ Deleting(w, c, i, n)
  BY <1>2 DEF Turn, Doing
<1>4. PICK from \in {"delete.bare", "delete.cut"}, to \in {"delete.look", "delete.sweep"} :
        Goto(w, from, to) /\ UNCHANGED locals /\ BareOnly(c)
  <2>1. CASE DeleteBare(w)
    <3>1. /\ Goto(w, "delete.bare", "delete.look") /\ DropRadcheck({c})
          /\ UNCHANGED <<customers, users, devices, gateway, locals>>
      BY <1>1, <1>2, <1>3, <2>1 DEF DeleteBare, DropBare, Raise, Goto, Doing, Failing
    <3>2. QED
      BY <3>1 DEF DropRadcheck, BareOnly, gateway
  <2>2. CASE DeleteCut(w)
    <3>1. /\ Goto(w, "delete.cut", "delete.sweep") /\ conf' = CutBlocks(snap[w], {c})
          /\ UNCHANGED <<tables, charon, locals>>
      <4>1. ~CutBare(w, "alone.cut", "alone.sweep")
        BY <1>3 DEF CutBare, Write, Goto, Doing, Failing
      <4>2. QED
        BY <1>2, <2>2, <4>1, Writes1 DEF DeleteCut, CutBare
    <3>2. snap[w] = conf /\ conf \in AnyFiles
      BY <1>3, <3>1 DEF Goto, Doing, Writing, Shape
    <3>3. conf'.blk = [j \in Ids |-> IF j \in {c} THEN NoRow ELSE conf.blk[j]]
      BY <3>1, <3>2 DEF CutBlocks, AnyFiles
    <3>4. QED
      BY <3>1, <3>3 DEF BareOnly, tables
  <2>3. QED
    BY <2>1, <2>2
<1>5. /\ at[w] = from /\ at'[w] = to /\ cust'[w] = c /\ id'[w] = i /\ row'[w] = n
      /\ \A v \in Requests \ {w} : at'[v] = at[v]
      /\ Running(w) /\ Running(w)'
  BY <1>2, <1>4, Going DEF locals, Ended
<1>6. Deleting(w, c, i, n)'
  BY <1>3, <1>4, <1>5 DEF Deleting, Owns, BareOnly
<1>7. Doing(w)'
  BY <1>5, <1>6 DEF Doing, Failing, Writing, Creating, Renewing, Changing
<1>8. OneAtOnce'
  BY <1>5, OthersRest
<1>9. \A b \in Names : CustomerOK(b)' \/ \E v \in Requests : Running(v)' /\ cust'[v] = b
  BY <1>2, <1>4, <1>5, OthersOK, BareKeeps
<1>10. \A j \in Ids : IdentityOK(j)' \/ \E v \in Requests : at'[v] \in Loose /\ id'[v] = j
  BY <1>2, <1>4, <1>5, OthersOK, BareKeeps DEF Loose
<1>11. \A v \in Requests : Doing(v)'
  <2>1. \A v \in Requests \ {w} : at'[v] \in Ended \union {"idle"}
    BY <1>5 DEF Alone, Running
  <2>2. QED
    BY <1>7, <2>1, RestingDoes
<1>12. QED
  BY <1>4, <1>8, <1>9, <1>10, <1>11, BareKeeps DEF Turn

LEMMA DeleteTurn ==
  ASSUME Shape, Turn, OwnInv, MaxFaults = 0, NEW w \in Requests, Alone(w),
         \/ DeleteUsers(w) \/ DeleteOrphans(w) \/ DeleteOrphan(w) \/ DeleteDevices(w)
         \/ DeleteWrite(w) \/ DeleteRadcheck(w) \/ DeleteReload(w) \/ DeleteCustomer(w)
  PROVE  Turn'
<1>1. ~Fault
  BY Faultless
<1>2. PICK c \in Names, i \in Ids, n \in {row[w]} : c = cust[w] /\ i = id[w] /\ n = row[w]
  BY DEF Shape
<1> USE <1>2
<1>3. Doing(w) /\ Deleting(w, c, i, n)
  BY DEF Turn, Doing
<1>4. \A j \in Ids \ {i} : Owns(c, i) => ~Owns(c, j)
  BY DEF Owns
<1>5. CASE DeleteUsers(w)
  <2>1. /\ Goto(w, "delete.users", "delete.bare") /\ users' = [users EXCEPT ![i] = NoRow]
        /\ UNCHANGED <<customers, devices, radcheck, gateway, locals>>
    BY <1>1, <1>5 DEF DeleteUsers, Raise
  <2>2. /\ at[w] = "delete.users" /\ at'[w] = "delete.bare"
        /\ cust'[w] = c /\ id'[w] = i /\ row'[w] = n
        /\ \A v \in Requests \ {w} : at'[v] = at[v]
        /\ Running(w)'
    BY <2>1, Going DEF locals, Ended
  <2>3. Chain(c, i, n) /\ Owns(c, i)
    BY <1>3, <2>2 DEF Deleting, Chain, Owns
  <2>4. users'[i] = NoRow /\ Only(c, i)
    BY <2>1 DEF Only, gateway, Shape
  <2>5. Deleting(w, c, i, n)'
    BY <2>1, <2>2, <2>3, <2>4 DEF Deleting, Chain, Owns
  <2>6. Doing(w)'
    BY <2>2, <2>5 DEF Doing, Failing, Writing, Creating, Renewing, Changing
  <2>7. QED
    BY <2>1, <2>2, <2>3, <2>4, <2>6, TurnStep DEF Loose
<1>6. CASE DeleteOrphans(w)
  <2>1. /\ Goto(w, "delete.sweep", "delete.devices")
        /\ sweep' = [sweep EXCEPT ![w] = {<<j, RowOf(users[j])>> : j \in Orphans(c)}]
        /\ UNCHANGED <<tables, gateway, cust, row, id>>
    BY <1>3, <1>6 DEF DeleteOrphans, Goto, Doing, Failing
  <2>2. /\ at[w] = "delete.sweep" /\ at'[w] = "delete.devices"
        /\ cust'[w] = c /\ id'[w] = i /\ row'[w] = n
        /\ \A v \in Requests \ {w} : at'[v] = at[v]
        /\ Running(w)'
    BY <2>1, Going DEF Ended
  <2>3. Owns(c, i) /\ devices[c].row = n /\ users[i] = NoRow
        /\ customers[c] # NoRow /\ customers[c].row = n
    BY <1>3, <2>2 DEF Deleting
  <2>4. Orphans(c) = {}
    <3>1. ASSUME NEW j \in Ids, users[j] # NoRow
          PROVE  \E b \in Names : RowOf(devices[b]) = users[j].row
      <4>1. PICK b \in Names : Owns(b, j)
        BY <2>3, <3>1, OthersOK DEF IdentityOK
      <4>2. b # c
        BY <2>3, <3>1, <4>1 DEF Owns
      <4>3. CustomerOK(b)
        BY <4>2, OthersOK
      <4>4. RowOf(devices[b]) = users[j].row
        BY <4>1, <4>3 DEF CustomerOK, Chain, Owns, RowOf
      <4>5. QED
        BY <4>4
    <3>2. QED
      BY <3>1 DEF Orphans
  <2>5. sweep'[w] = {}
    BY <2>1, <2>4 DEF Shape
  <2>6. Deleting(w, c, i, n)'
    BY <2>1, <2>2, <2>3, <2>5 DEF Deleting, Owns, tables
  <2>7. Doing(w)'
    BY <2>2, <2>6 DEF Doing, Failing, Writing, Creating, Renewing, Changing
  <2>8. QED
    BY <2>1, <2>2, <2>7, StillTurn DEF Loose
<1>7. ~DeleteOrphan(w)
  BY <1>3 DEF DeleteOrphan, Doing, Failing, Deleting
<1>8. CASE DeleteDevices(w)
  <2>1. /\ Goto(w, "delete.devices", "delete.read")
        /\ devices' = [devices EXCEPT ![c] = IF Is(@, n) THEN NoRow ELSE @]
        /\ UNCHANGED <<customers, users, radcheck, gateway, locals>>
    BY <1>1, <1>3, <1>8 DEF DeleteDevices, Raise, Goto, Doing, Failing
  <2>2. /\ at[w] = "delete.devices" /\ at'[w] = "delete.read"
        /\ cust'[w] = c /\ id'[w] = i /\ row'[w] = n
        /\ \A v \in Requests \ {w} : at'[v] = at[v]
        /\ Running(w)'
    BY <2>1, Going DEF locals, Ended
  <2>3. Owns(c, i) /\ devices[c].row = n /\ users[i] = NoRow
        /\ customers[c] # NoRow /\ customers[c].row = n
    BY <1>3, <2>2 DEF Deleting
  <2>4. devices'[c] = NoRow /\ Only(c, i)
    BY <2>1, <2>3 DEF Only, Owns, Is, gateway, Shape
  <2>5. Deleting(w, c, i, n)'
    BY <2>1, <2>2, <2>3, <2>4 DEF Deleting
  <2>6. Doing(w)'
    BY <2>2, <2>5 DEF Doing, Failing, Writing, Creating, Renewing, Changing
  <2>7. \A j \in Ids \ {i} : ~Owns(c, j) /\ ~Owns(c, j)'
    BY <1>4, <2>3, <2>4 DEF Owns
  <2>8. QED
    BY <2>2, <2>3, <2>4, <2>6, <2>7, TurnStep DEF Loose
<1>9. CASE DeleteWrite(w)
  <2>1. /\ Goto(w, "delete.write", "delete.radcheck") /\ conf' = CutBlock(snap[w], i)
        /\ UNCHANGED <<tables, charon, locals>>
    BY <1>9, Writes1 DEF DeleteWrite
  <2>2. /\ at[w] = "delete.write" /\ at'[w] = "delete.radcheck"
        /\ cust'[w] = c /\ id'[w] = i /\ row'[w] = n
        /\ \A v \in Requests \ {w} : at'[v] = at[v]
        /\ Running(w)'
    BY <2>1, Going DEF locals, Ended
  <2>3. devices[c] = NoRow /\ users[i] = NoRow /\ snap[w] = conf
    BY <1>3, <2>2 DEF Deleting, Doing, Writing
  <2>4. \A j \in Ids : conf'.blk[j] = IF j = i THEN NoRow ELSE conf.blk[j]
    BY <2>1, <2>3, Puts
  <2>5. Only(c, i)
    BY <2>1, <2>4 DEF Only, tables
  <2>6. Deleting(w, c, i, n)'
    BY <1>3, <2>1, <2>2, <2>4 DEF Deleting, tables
  <2>7. Doing(w)'
    BY <2>2, <2>6 DEF Doing, Failing, Writing, Creating, Renewing, Changing
  <2>8. QED
    BY <2>1, <2>2, <2>3, <2>5, <2>7, TurnStep DEF Loose, tables
<1>10. CASE DeleteRadcheck(w)
  <2>1. /\ Goto(w, "delete.radcheck", "delete.reload")
        /\ radcheck' = [radcheck EXCEPT ![i] = NoRow]
        /\ UNCHANGED <<customers, users, devices, gateway, locals>>
    BY <1>1, <1>10 DEF DeleteRadcheck, Raise
  <2>2. /\ at[w] = "delete.radcheck" /\ at'[w] = "delete.reload"
        /\ cust'[w] = c /\ id'[w] = i /\ row'[w] = n
        /\ \A v \in Requests \ {w} : at'[v] = at[v]
        /\ Running(w)'
    BY <2>1, Going DEF locals, Ended
  <2>3. devices[c] = NoRow /\ users[i] = NoRow
    BY <1>3, <2>2 DEF Deleting
  <2>4. radcheck'[i] = NoRow /\ Only(c, i)
    BY <2>1 DEF Only, gateway, Shape
  <2>5. Deleting(w, c, i, n)'
    BY <1>3, <2>1, <2>2, <2>4 DEF Deleting, gateway
  <2>6. Doing(w)'
    BY <2>2, <2>5 DEF Doing, Failing, Writing, Creating, Renewing, Changing
  <2>7. QED
    BY <2>1, <2>2, <2>3, <2>4, <2>6, TurnStep DEF Loose
<1>11. CASE DeleteReload(w)
  <2>1. /\ Goto(w, "delete.reload", "delete.customer") /\ charon' = conf.blk
        /\ UNCHANGED <<tables, conf, locals>>
    BY <1>11, Reloads1 DEF DeleteReload
  <2>2. /\ at[w] = "delete.reload" /\ at'[w] = "delete.customer"
        /\ cust'[w] = c /\ id'[w] = i /\ row'[w] = n
        /\ \A v \in Requests \ {w} : at'[v] = at[v]
        /\ Running(w)'
    BY <2>1, Going DEF locals, Ended
  <2>3. devices[c] = NoRow /\ users[i] = NoRow /\ conf.blk[i] = NoRow /\ radcheck[i] = NoRow
    BY <1>3, <2>2 DEF Deleting
  <2>4. Only(c, i) /\ IdentityOK(i)'
    BY <2>1, <2>3 DEF Only, IdentityOK, Unknown, tables
  <2>5. Deleting(w, c, i, n)'
    BY <1>3, <2>1, <2>2 DEF Deleting, tables
  <2>6. Doing(w)'
    BY <2>2, <2>5 DEF Doing, Failing, Writing, Creating, Renewing, Changing
  <2>7. QED
    BY <2>1, <2>2, <2>3, <2>4, <2>6, TurnStep DEF Loose, tables
<1>12. CASE DeleteCustomer(w)
  <2>1. /\ Goto(w, "delete.customer", "ok")
        /\ customers' = [customers EXCEPT ![c] = IF Is(@, n) THEN NoRow ELSE @]
        /\ UNCHANGED <<users, devices, radcheck, gateway, locals>>
    BY <1>1, <1>12 DEF DeleteCustomer, Raise
  <2>2. /\ at[w] = "delete.customer" /\ at'[w] = "ok" /\ cust'[w] = c
        /\ \A v \in Requests \ {w} : at'[v] = at[v]
    BY <2>1, Going DEF locals
  <2>3. /\ customers[c] # NoRow /\ customers[c].row = n /\ devices[c] = NoRow
        /\ users[i] = NoRow
    BY <1>3, <2>2 DEF Deleting
  <2>4. customers'[c] = NoRow /\ Only(c, i) /\ CustomerOK(c)'
    BY <2>1, <2>3 DEF Only, CustomerOK, Is, gateway, Shape
  <2>5. IdentityOK(i)'
    BY <2>1, <2>2, <2>3, OthersOK DEF Loose, IdentityOK, Unknown, gateway
  <2>6. Doing(w)'
    BY <2>2, RestingDoes DEF Ended
  <2>7. QED
    BY <2>1, <2>2, <2>3, <2>4, <2>5, <2>6, TurnStep DEF Loose
<1>13. QED
  BY <1>5, <1>6, <1>7, <1>8, <1>9, <1>10, <1>11, <1>12

\* A request begins when nobody runs, and then nothing is amiss.
LEMMA BeginTurn ==
  ASSUME Shape, Turn, IsFiniteSet(Requests), MaxAtOnce = 1, NEW w \in Requests,
         NEW c \in Names, NEW to, Begin(w, c, to)
  PROVE  /\ Alone(w) /\ ~Running(w) /\ at[w] = "idle"
         /\ at'[w] = to /\ cust'[w] = c /\ row'[w] = RowOf(customers[c])
         /\ \A v \in Requests \ {w} : at'[v] = at[v]
         /\ \A b \in Names : CustomerOK(b)
         /\ \A i \in Ids : IdentityOK(i)
<1>1. \A v \in Requests : ~Running(v)
  BY NobodyRuns DEF Begin
<1>2. /\ at[w] = "idle" /\ at'[w] = to /\ cust'[w] = c /\ row'[w] = RowOf(customers[c])
      /\ \A v \in Requests \ {w} : at'[v] = at[v]
  BY DEF Begin, Goto, Shape
<1>3. Alone(w)
  BY <1>1 DEF Alone
<1>4. QED
  BY <1>1, <1>2, <1>3, OthersOK DEF Loose

LEMMA CustomerChain ==
  ASSUME Turn, NEW c \in Names, CustomerOK(c)
  PROVE  /\ customers[c] = NoRow => devices[c] = NoRow
         /\ customers[c] # NoRow => \E i \in Ids : Chain(c, i, customers[c].row) /\ Loaded(i)
BY DEF CustomerOK, Chain, RowOf

LEMMA StartTurn ==
  ASSUME Shape, Turn, IsFiniteSet(Requests), MaxAtOnce = 1, NEW w \in Requests,
         NEW c \in Names, NEW to, Begin(w, c, to), UNCHANGED <<tables, gateway>>,
         Doing(w)'
  PROVE  Turn'
<1>1. /\ Alone(w) /\ ~Running(w) /\ at[w] = "idle" /\ cust'[w] = c /\ CustomerOK(c)
      /\ \A v \in Requests \ {w} : at'[v] = at[v]
  BY BeginTurn
<1>2. at[w] \notin Loose
  BY <1>1 DEF Loose
<1>3. QED
  BY <1>1, <1>2, StillTurn

LEMMA FirstTurn ==
  ASSUME Shape, Turn, OwnInv, IsFiniteSet(Requests), MaxAtOnce = 1, "rename" \notin Ops,
         NEW w \in Requests, First(w)
  PROVE  Turn'
<1>1. PICK c \in Names :
        \/ \E d \in Devs : CreateCheck(w, c, d)
        \/ RotateCheck(w, c) \/ ArchiveCheck(w, c) \/ UnarchiveCheck(w, c) \/ DeleteCheck(w, c)
  BY DEF First, RenameDevice
<1>2. UNCHANGED <<tables, gateway>>
  BY <1>1 DEF CreateCheck, RotateCheck, ArchiveCheck, UnarchiveCheck, DeleteCheck
<1>3. ASSUME NEW to, Begin(w, c, to), to \in Ended PROVE Turn'
  <2>1. Doing(w)'
    BY <1>3, BeginTurn, RestingDoes
  <2>2. QED
    BY <1>2, <1>3, <2>1, StartTurn
<1>4. "refused" \in Ended
  BY DEF Ended
<1>5. ASSUME NEW d \in Devs, CreateCheck(w, c, d) PROVE Turn'
  <2>1. PICK i \in Ids : i = Identity(c, d)
    BY IdentityType
  <2>2. CASE customers[c] = NoRow /\ users[i] = NoRow
    <3>1. Begin(w, c, "create.exists") /\ id' = [id EXCEPT ![w] = i]
      BY <1>5, <2>1, <2>2 DEF CreateCheck
    <3>2. /\ at'[w] = "create.exists" /\ cust'[w] = c /\ id'[w] = i /\ devices[c] = NoRow
      BY <2>2, <3>1, BeginTurn, CustomerChain DEF Shape
    <3>3. Creating(w, c, i)'
      BY <1>2, <2>1, <2>2, <3>2 DEF Creating, tables
    <3>4. Doing(w)'
      BY <3>2, <3>3 DEF Doing, Failing, Writing, Renewing, Changing, Deleting
    <3>5. QED
      BY <1>2, <3>1, <3>4, StartTurn
  <2>3. CASE ~(customers[c] = NoRow /\ users[i] = NoRow)
    BY <1>3, <1>4, <1>5, <2>1, <2>3 DEF CreateCheck
  <2>4. QED
    BY <2>2, <2>3
<1>6. CASE RotateCheck(w, c)
  <2>1. PICK n : n = RowOf(customers[c])
    OBVIOUS
  <2>2. CASE Status(c) = "active" /\ Is(devices[c], n) /\ UserIds(n) # {}
    <3>1. Begin(w, c, "rotate.user")
      BY <1>6, <2>1, <2>2 DEF RotateCheck
    <3>2. customers[c] # NoRow /\ customers[c].status = "active"
      BY <2>2, PortalAssumption DEF Status
    <3>3. n = customers[c].row
      BY <2>1, <3>2 DEF RowOf
    <3>4. PICK i \in Ids : Chain(c, i, n) /\ Loaded(i)
      BY <3>1, <3>2, <3>3, BeginTurn, CustomerChain
    <3>5. UserIds(n) = {i}
      BY <3>4, OneUserId
    <3>6. id' = [id EXCEPT ![w] = i]
      BY <1>6, <2>1, <2>2, <3>5 DEF RotateCheck
    <3>7. at'[w] = "rotate.user" /\ cust'[w] = c /\ id'[w] = i /\ row'[w] = n
      BY <2>1, <3>1, <3>6, BeginTurn DEF Shape
    <3>8. i \in Names \/ conf.blk[i] # NoRow
      <4>1. users[i].pw \in Secrets
        BY <3>4 DEF Chain, Shape, Users
      <4>2. QED
        BY <3>4, <4>1, PortalAssumption DEF Loaded
    <3>9. Renewing(w, c, i, n)'
      BY <1>2, <3>2, <3>4, <3>7, <3>8 DEF Renewing, Chain, tables, gateway
    <3>10. Doing(w)'
      BY <3>7, <3>9 DEF Doing, Failing, Writing, Creating, Changing, Deleting
    <3>11. QED
      BY <1>2, <3>1, <3>10, StartTurn
  <2>3. CASE ~(Status(c) = "active" /\ Is(devices[c], n) /\ UserIds(n) # {})
    BY <1>3, <1>4, <1>6, <2>1, <2>3 DEF RotateCheck
  <2>4. QED
    BY <2>2, <2>3
<1>7. CASE ArchiveCheck(w, c) \/ UnarchiveCheck(w, c)
  <2>1. PICK to \in {"archive.status", "unarchive.status", "refused"} :
          Begin(w, c, to) /\ (to # "refused" => Status(c) \in {"active", "archived"})
    BY <1>7 DEF ArchiveCheck, UnarchiveCheck
  <2>2. CASE to # "refused"
    <3>1. customers[c] # NoRow
      BY <2>1, <2>2, PortalAssumption DEF Status
    <3>2. PICK k, n : /\ k = id'[w] /\ n = customers[c].row
                      /\ at'[w] = to /\ cust'[w] = c /\ row'[w] = n /\ CustomerOK(c)
      BY <2>1, <3>1, BeginTurn DEF RowOf
    <3>3. CustomerOK(c)'
      BY <1>2, <3>2 DEF CustomerOK, Chain, Loaded, Admitted, tables, gateway
    <3>4. Changing(w, c, k, n)'
      BY <1>2, <2>1, <2>2, <3>1, <3>2, <3>3 DEF Changing, tables
    <3>5. Doing(w)'
      BY <2>1, <2>2, <3>2, <3>4
         DEF Doing, Failing, Writing, Creating, Renewing, Deleting, Changing
    <3>6. QED
      BY <1>2, <2>1, <3>5, StartTurn
  <2>3. CASE to = "refused"
    BY <1>3, <1>4, <2>1, <2>3
  <2>4. QED
    BY <2>2, <2>3
<1>8. CASE DeleteCheck(w, c)
  <2>1. CASE customers[c] = NoRow
    <3>1. \E to \in {"refused", "delete.users"} : Begin(w, c, to)
      BY <1>8, <2>1 DEF DeleteCheck
    <3>2. devices[c] = NoRow
      BY <2>1, <3>1, BeginTurn, CustomerChain
    <3>3. Begin(w, c, "refused")
      BY <1>8, <2>1, <3>2 DEF DeleteCheck, Is
    <3>4. QED
      BY <1>3, <1>4, <3>3
  <2>2. CASE customers[c] # NoRow
    <3>1. \E to \in {"alone.bare", "delete.users"} : Begin(w, c, to)
      BY <1>8, <2>2 DEF DeleteCheck
    <3>2. PICK n : n = customers[c].row
      OBVIOUS
    <3>3. PICK i \in Ids : Chain(c, i, n)
      BY <2>2, <3>1, <3>2, BeginTurn, CustomerChain
    <3>4. Begin(w, c, "delete.users") /\ id' = [id EXCEPT ![w] = i]
      BY <1>8, <2>2, <3>2, <3>3 DEF DeleteCheck, Chain, Is, RowOf
    <3>5. at'[w] = "delete.users" /\ cust'[w] = c /\ id'[w] = i /\ row'[w] = n
      BY <2>2, <3>2, <3>4, BeginTurn DEF Shape, RowOf
    <3>6. Deleting(w, c, i, n)'
      BY <1>2, <3>3, <3>5 DEF Deleting, Chain, tables
    <3>7. Doing(w)'
      BY <3>5, <3>6 DEF Doing, Failing, Writing, Creating, Renewing, Changing
    <3>8. QED
      BY <1>2, <3>4, <3>7, StartTurn
  <2>3. QED
    BY <2>1, <2>2
<1>9. QED
  BY <1>1, <1>5, <1>6, <1>7, <1>8

\* The name of a customer can be told from its identity and the device.
LEMMA SameCustomer ==
  ASSUME NEW b \in Names, NEW c \in Names, NEW d \in Devs, Identity(b, d) = Identity(c, d)
  PROVE  b = c
<1>1. b \in Seq(STRING) /\ c \in Seq(STRING) /\ d \in Seq(STRING)
  BY PortalAssumption
<1>2. Len(b) = Len(c)
  <2>1. Len(b \o d) = Len(b) + Len(d) /\ Len(c \o d) = Len(c) + Len(d)
    BY <1>1
  <2>2. QED
    BY <1>1, <2>1 DEF Identity
<1>3. \A k \in 1..Len(b) : b[k] = c[k]
  <2>1. \A k \in 1..Len(b) : (b \o d)[k] = b[k] /\ (c \o d)[k] = c[k]
    BY <1>1, <1>2
  <2>2. QED
    BY <2>1 DEF Identity
<1>4. QED
  BY <1>1, <1>2, <1>3

LEMMA TurnNext ==
  ASSUME Shape, OwnInv, Turn, IsFiniteSet(Requests), MaxAtOnce = 1, MaxFaults = 0,
         MaxCrashes = 0, "rename" \notin Ops, [Next]_vars
  PROVE  Turn'
<1>1. ASSUME NEW w \in Requests, First(w) PROVE Turn'
  BY <1>1, FirstTurn
<1>2. ASSUME NEW w \in Requests, Later(w) PROVE Turn'
  <2>1. Alone(w)
    BY <1>2, LaterRuns DEF Turn, OneAtOnce, Alone
  <2>2. ~CreateUndo(w) /\ ~CreateUnwrite(w)
    BY DEF Turn, Doing, Failing, CreateUndo, CreateUnwrite, ReadThen, Raise, Write, Goto
  <2>3. QED
    BY <1>2, <2>1, <2>2, ReadsTurn, CreateTurn, RenewTurn, StatusTurn, BareTurn, DeleteTurn
       DEF Later
<1>3. \A w \in Requests : ~Crash(w)
  BY DEF Crash, Shape
<1>4. CASE UNCHANGED vars
  BY <1>4 DEF vars, tables, gateway, locals, Turn, OneAtOnce, Running, CustomerOK, Chain,
              Loaded, Admitted, Owns, IdentityOK, Unknown, Doing, Creating, Renewing, Changing,
              Deleting
<1>5. QED
  BY <1>1, <1>2, <1>3, <1>4 DEF Next

LEMMA TurnInit == Init => Turn
<1> SUFFICES ASSUME Init PROVE Turn
  OBVIOUS
<1>1. PICK old \in SUBSET Names, d \in Devs :
        LET secret(i) == IF \E c \in old : i = Identity(c, d) THEN i ELSE NoRow IN
        /\ customers = [c \in Names |->
             IF c \in old THEN [row |-> Identity(c, d), status |-> "active"] ELSE NoRow]
        /\ users = [i \in Ids |->
             IF secret(i) = NoRow THEN NoRow ELSE [row |-> i, pw |-> i]]
        /\ devices = [c \in Names |->
             IF c \in old THEN [row |-> Identity(c, d), name |-> d] ELSE NoRow]
        /\ radcheck = [i \in Ids |-> secret(i)]
        /\ conf = [whole |-> TRUE, blk |-> radcheck]
        /\ charon = radcheck
  BY DEF Init
<1>2. \A i \in Ids : i # NoRow
  BY PortalAssumption DEF Secrets
<1>3. \A i \in Ids : [row |-> i, pw |-> i] # NoRow
  BY PortalAssumption DEF Secrets
<1>4. \A w \in Requests : at[w] = "idle"
  BY DEF Init
<1>5. ASSUME NEW c \in old, NEW i \in Ids, i = Identity(c, d)
      PROVE  /\ Chain(c, i, i) /\ Loaded(i) /\ Owns(c, i) /\ devices[c].name = d
             /\ customers[c].status = "active" /\ radcheck[i] = users[i].pw
  <2>1. /\ customers[c] = [row |-> i, status |-> "active"]
        /\ devices[c] = [row |-> i, name |-> d]
        /\ users[i] = [row |-> i, pw |-> i] /\ radcheck[i] = i
    BY <1>1, <1>2, <1>5
  <2>2. customers[c] # NoRow /\ devices[c] # NoRow /\ users[i] # NoRow
    BY <1>3, <2>1, PortalAssumption DEF Secrets
  <2>3. conf.blk[i] = i /\ charon[i] = i
    BY <1>1, <2>1
  <2>4. QED
    BY <1>5, <2>1, <2>2, <2>3 DEF Chain, Loaded, Owns
<1>6. ASSUME NEW c \in Names \ old PROVE customers[c] = NoRow /\ devices[c] = NoRow
  BY <1>1, <1>6
<1>7. ASSUME NEW i \in Ids, ~\E c \in old : i = Identity(c, d)
      PROVE  users[i] = NoRow /\ Unknown(i)
  BY <1>1, <1>7 DEF Unknown
<1>8. ASSUME NEW c \in Names PROVE CustomerOK(c)
  <2>1. CASE c \in old
    <3>1. PICK i \in Ids : i = Identity(c, d)
      BY IdentityType
    <3>2. Chain(c, i, i) /\ Loaded(i) /\ Admitted(c, i)
      BY <1>5, <2>1, <3>1 DEF Admitted
    <3>3. RowOf(customers[c]) = i
      BY <3>2 DEF Chain, RowOf
    <3>4. QED
      BY <3>2, <3>3 DEF CustomerOK
  <2>2. QED
    BY <1>6, <2>1 DEF CustomerOK
<1>9. ASSUME NEW i \in Ids PROVE IdentityOK(i)
  <2>1. CASE \E c \in old : i = Identity(c, d)
    BY <1>5, <2>1 DEF IdentityOK, Chain
  <2>2. CASE ~\E c \in old : i = Identity(c, d)
    BY <1>7, <2>2 DEF IdentityOK
  <2>3. QED
    BY <2>1, <2>2
<1>10. ASSUME NEW b \in Names, NEW c \in Names, NEW i \in Ids, Owns(b, i), Owns(c, i)
       PROVE  b = c
  <2>1. b \in old /\ c \in old
    BY <1>6, <1>10 DEF Owns
  <2>2. devices[b].name = d /\ devices[c].name = d
    <3>1. \A e \in Names : Identity(e, d) \in Ids
      BY IdentityType
    <3>2. QED
      BY <1>5, <2>1, <3>1
  <2>3. Identity(b, d) = Identity(c, d)
    BY <1>10, <2>2 DEF Owns
  <2>4. QED
    BY <2>3, SameCustomer
<1>11. \A w \in Requests : Doing(w)
  BY <1>4 DEF Doing, Failing, Writing, Creating, Renewing, Changing, Deleting
<1>12. QED
  BY <1>4, <1>8, <1>9, <1>10, <1>11 DEF Turn, OneAtOnce, Running

LEMMA TurnMeans ==
  ASSUME Shape, OwnInv, Turn PROVE InSync /\ NoDrift /\ ArchivedRejected
<1> SUFFICES ASSUME Quiet
             PROVE  /\ InSync /\ NoDrift /\ ArchivedRejected
  BY DEF InSync, NoDrift, ArchivedRejected
<1>1. /\ \A c \in Names : CustomerOK(c)
      /\ \A i \in Ids : IdentityOK(i)
  BY DEF Turn, Quiet, Loose, Running, Ended
<1>2. \A c \in Names : customers[c] # NoRow => customers[c].status \in {"active", "archived"}
  BY DEF Shape, Customers
<1>3. NoRow \notin {"active", "archived"} /\ NoRow \notin Secrets /\ Disabled \notin Secrets
      /\ Disabled # NoRow
  BY PortalAssumption
<1>4. InSync
  BY <1>1, <1>2, <1>3
     DEF InSync, Status, CustomerOK, Chain, Loaded, Admitted, Whose, Agreed, Namesake, RowOf
<1>5. ArchivedRejected
  <2> SUFFICES ASSUME NEW c \in Names, NEW j \in Ids, Status(c) = "archived",
                      RowOf(users[j]) = customers[c].row
               PROVE  radcheck[j] \in {Disabled, NoRow}
    BY DEF ArchivedRejected
  <2>1. customers[c] # NoRow /\ customers[c].status = "archived"
    BY <1>3 DEF Status
  <2>2. PICK i \in Ids : /\ Chain(c, i, customers[c].row)
                         /\ radcheck[i] \in {Disabled, NoRow}
    BY <1>1, <2>1 DEF CustomerOK, Admitted, RowOf
  <2>3. customers[c].row # NoRow
    BY <1>3, <2>1 DEF Shape, Customers, Rows
  <2>4. i = j
    BY <2>2, <2>3, OneIdentity DEF RowOf, Chain
  <2>5. QED
    BY <2>2, <2>4
<1>6. NoDrift
  <2>1. ASSUME NEW i \in Ids, users[i] # NoRow
        PROVE  \E c \in Names : /\ customers[c] # NoRow
                                /\ Namesake(i) \/ radcheck[i] # NoRow
                                /\ RowOf(devices[c]) = users[i].row
                                /\ RowOf(customers[c]) = users[i].row
    <3>1. PICK c \in Names : Owns(c, i)
      BY <1>1, <2>1 DEF IdentityOK
    <3>2. users[i].pw \in Secrets
      BY <2>1 DEF Shape, Users
    <3>3. /\ Chain(c, i, RowOf(customers[c]))
          /\ i \in Names \/ radcheck[i] \in {users[i].pw, Disabled}
      BY <1>1, <3>1 DEF CustomerOK, Chain, Admitted, Owns
    <3>4. QED
      BY <1>3, <3>2, <3>3 DEF Chain, Namesake, RowOf
  <2>2. ASSUME NEW i \in Ids, users[i] = NoRow PROVE Unknown(i)
    BY <1>1, <2>2 DEF IdentityOK
  <2>3. \A c \in Names : RowOf(devices[c]) = RowOf(customers[c])
    BY <1>1 DEF CustomerOK, Chain, RowOf
  <2>4. QED
    BY <1>3, <2>1, <2>2, <2>3 DEF NoDrift, Unknown
<1>7. QED
  BY <1>4, <1>5, <1>6

\* The portal's own promise, which the run checks on three requests: one
\* request at a time, without failures and renames, after each of them every
\* active customer has one secret in all four stores, every archived one is
\* rejected, and nothing is left that belongs to nobody.  Names are any that
\* hyphens may join: what a delete takes away under its customer's bare name
\* may be another customer's, and then costs that one its radcheck rows and its
\* block, but leaves its rows tied together and nobody else's touched.
THEOREM StoresAgreeInTurn ==
  ASSUME IsFiniteSet(Requests), MaxAtOnce = 1, MaxFaults = 0, MaxCrashes = 0,
         "rename" \notin Ops
  PROVE  Spec => [](InSync /\ NoDrift /\ ArchivedRejected)
<1>1. Init => TypeOK /\ OwnInv /\ Turn
  BY TypeInit, OwnInit, TurnInit
<1>2. TypeOK /\ OwnInv /\ Turn /\ [Next]_vars => (TypeOK /\ OwnInv /\ Turn)'
  BY TypeNext, OwnNext, TypeShape, TurnNext
<1>3. TypeOK /\ OwnInv /\ Turn => InSync /\ NoDrift /\ ArchivedRejected
  BY TypeShape, TurnMeans
<1>4. QED
  BY <1>1, <1>2, <1>3, PTL DEF Spec

-----------------------------------------------------------------------------
(* The promise of Accounts.  Most steps on the stores are nothing to it;    *)
(* the others each revoke, issue, open, change or drop.                     *)
LEMMA SettledInTurn == Shape /\ Turn => (Quiet => Promised!Settled)
<1> SUFFICES ASSUME Shape, Turn, Quiet, NEW i \in Ids
             PROVE  /\ Login[i] # NoRow => Promised!Active(i)
                    /\ Promised!Active(i) /\ i \notin Names => Login[i] # NoRow
  BY DEF Promised!Settled
<1>1. /\ \A c \in Names : CustomerOK(c)
      /\ \A j \in Ids : IdentityOK(j)
  BY DEF Turn, Quiet, Loose, Running, Ended
<1>2. NoRow \notin Secrets /\ Disabled \notin Secrets
  BY PortalAssumption
<1>3. ASSUME Login[i] # NoRow PROVE Promised!Active(i)
  <2>1. radcheck[i] \in Secrets
    BY <1>3 DEF Login
  <2>2. users[i] # NoRow
    BY <1>1, <1>2, <2>1 DEF IdentityOK, Unknown
  <2>3. PICK c \in Names : Owns(c, i)
    BY <1>1, <2>2 DEF IdentityOK
  <2>4. Chain(c, i, RowOf(customers[c])) /\ Admitted(c, i)
    BY <1>1, <2>3 DEF CustomerOK, Chain, Owns
  <2>5. customers[c].status = "active"
    BY <1>2, <2>1, <2>4 DEF Admitted
  <2>6. Account[c] = [id |-> i, active |-> TRUE]
    BY <2>4, <2>5 DEF Account, Chain
  <2>7. Account[c] # NoRow
    <3>1. Account[c] \in [id : Ids, active : BOOLEAN]
      BY <2>6
    <3>2. QED
      BY <3>1, PortalAssumption
  <2>8. QED
    BY <2>6, <2>7 DEF Promised!Active, Promised!Has
<1>4. ASSUME NEW c \in Names, Promised!Has(c, i), Account[c].active, i \notin Names
      PROVE  Login[i] # NoRow
  <2>1. /\ customers[c] # NoRow /\ devices[c] # NoRow
        /\ i = Identity(c, devices[c].name) /\ customers[c].status = "active"
    BY <1>4 DEF Promised!Has, Account
  <2>2. Chain(c, i, RowOf(customers[c])) /\ radcheck[i] = users[i].pw
    BY <1>1, <1>4, <2>1 DEF CustomerOK, Admitted, Chain
  <2>3. users[i].pw \in Secrets
    BY <2>2 DEF Chain, Shape, Users
  <2>4. QED
    BY <1>2, <2>2, <2>3 DEF Login
<1>5. QED
  BY <1>3, <1>4 DEF Promised!Active

\* What a step is to the promise: who is served, and what is spent.
LEMMA Serving ==
  ASSUME NEW w \in Requests, Alone(w), \A v \in Requests \ {w} : at'[v] = at[v]
  PROVE  /\ Served = IF Running(w) THEN {cust[w]} ELSE {}
         /\ Served' = IF Running(w)' THEN {cust'[w]} ELSE {}
         /\ Spent' = IF at'[w] \in Ended \union {"unarchive.reload"}
                     THEN Spent \union {w} ELSE Spent \ {w}
<1>1. \A v \in Requests \ {w} : ~Running(v) /\ ~Running(v)'
  BY DEF Alone, Running
<1>2. Served = IF Running(w) THEN {cust[w]} ELSE {}
  BY <1>1 DEF Served
<1>3. Served' = IF Running(w)' THEN {cust'[w]} ELSE {}
  BY <1>1 DEF Served
<1>4. w \notin Ids
  BY PortalAssumption
<1>5. Spent' = IF at'[w] \in Ended \union {"unarchive.reload"}
               THEN Spent \union {w} ELSE Spent \ {w}
  BY <1>4 DEF Spent
<1>6. QED
  BY <1>2, <1>3, <1>5

\* A step is part of a request, or ends it, or hands out its secret before that.
LEMMA GoesOrEnds ==
  ASSUME Shape, NEW w \in Requests, Alone(w), NEW from, NEW to, Goto(w, from, to),
         UNCHANGED cust, from \notin Ended \union {"idle"}, to # "idle",
         from = "unarchive.reload" => to = "ok", (Quiet => Promised!Settled)'
  PROVE  /\ cust[w] \in Names /\ w \in Secrets
         /\ from # "unarchive.reload" => w \notin Spent
         /\ to \notin Ended \union {"unarchive.reload"} => Promised!GoOn(cust[w])
         /\ to = "unarchive.reload" => Promised!HandOut(cust[w], w)
         /\ to \in Ended => Promised!End(cust[w], w)
<1>1. at[w] = from /\ at'[w] = to /\ \A v \in Requests \ {w} : at'[v] = at[v]
  BY DEF Goto, Shape
<1>2. /\ w \notin Ids /\ w \in Secrets /\ cust[w] \in Names
      /\ from # "unarchive.reload" => w \notin Spent
  BY <1>1, PortalAssumption DEF Spent, Secrets, Shape
<1>3. Served = {cust[w]} /\ (to \notin Ended => Served' = {cust[w]})
      /\ (to \in Ended => Served' = {})
  BY <1>1, Serving DEF Running
<1>4. /\ Spent' = IF to \in Ended \union {"unarchive.reload"}
                  THEN Spent \union {w} ELSE Spent \ {w}
      /\ "unarchive.reload" \notin Ended /\ "ok" \in Ended
  BY <1>1, Serving DEF Ended
<1>5. to \in Ended => Quiet'
  BY <1>1 DEF Quiet, Running, Alone
<1>6. to \notin Ended \union {"unarchive.reload"} => Spent' = Spent
  BY <1>2, <1>4
<1>7. QED
  BY <1>2, <1>3, <1>4, <1>5, <1>6 DEF Promised!GoOn, Promised!HandOut, Promised!End

LEMMA SameAccount == UNCHANGED <<customers, devices>> => Account' = Account
BY DEF Account

LEMMA OneAccount ==
  ASSUME NEW c \in Names, NEW a, Account'[c] = a,
         \A b \in Names \ {c} : Account'[b] = Account[b]
  PROVE  Account' = [Account EXCEPT ![c] = a]
<1>1. Account = [b \in Names |-> Account[b]] /\ Account' = [b \in Names |-> Account'[b]]
  BY DEF Account
<1>2. QED
  BY <1>1

LEMMA OneLogin ==
  ASSUME NEW i \in Ids, \A j \in Ids \ {i} : radcheck'[j] = radcheck[j]
  PROVE  Login' = [Login EXCEPT ![i] = Login'[i]]
<1>1. Login = [j \in Ids |-> Login[j]] /\ Login' = [j \in Ids |-> Login'[j]]
  BY DEF Login
<1>2. \A j \in Ids \ {i} : Login'[j] = Login[j]
  BY DEF Login
<1>3. QED
  BY <1>1, <1>2

\* A step that the promise does not see but for its end.
LEMMA NothingSeen ==
  ASSUME Shape, NEW w \in Requests, Alone(w), NEW from, NEW to, Goto(w, from, to),
         UNCHANGED <<cust, customers, devices, radcheck>>,
         from \notin Ended \union {"idle"}, to \notin {"idle", "unarchive.reload"},
         from = "unarchive.reload" => to = "ok", (Quiet => Promised!Settled)'
  PROVE  [Promised!ANext]_(Promised!avars)
<1>1. Account' = Account /\ Login' = Login
  BY SameAccount DEF Login
<1>2. /\ cust[w] \in Names /\ w \in Secrets
      /\ to \notin Ended => Promised!GoOn(cust[w])
      /\ to \in Ended => Promised!End(cust[w], w)
  BY GoesOrEnds
<1>3. CASE to \in Ended
  BY <1>1, <1>2, <1>3 DEF Promised!ANext
<1>4. CASE to \notin Ended
  BY <1>1, <1>2, <1>4 DEF Promised!GoOn, Promised!avars
<1>5. QED
  BY <1>3, <1>4

LEMMA Revoked ==
  ASSUME Shape, NEW w \in Requests, Alone(w), NEW from, NEW to, Goto(w, from, to),
         UNCHANGED <<cust, customers, devices>>,
         from \notin Ended \union {"idle", "unarchive.reload"},
         to \notin {"idle", "unarchive.reload"}, (Quiet => Promised!Settled)', NEW i \in Ids,
         Promised!Free(cust[w], i) \/ i = cust[w], Login' = [Login EXCEPT ![i] = NoRow]
  PROVE  Promised!ANext
<1>1. Promised!Revoke(cust[w], i)
  BY SameAccount DEF Promised!Revoke
<1>2. /\ cust[w] \in Names /\ w \in Secrets
      /\ to \notin Ended => Promised!GoOn(cust[w])
      /\ to \in Ended => Promised!End(cust[w], w)
  BY GoesOrEnds
<1>3. QED
  BY <1>1, <1>2 DEF Promised!ANext

LEMMA Issued ==
  ASSUME Shape, NEW w \in Requests, Alone(w), NEW from,
         NEW to \in {"ok", "unarchive.reload"}, Goto(w, from, to),
         UNCHANGED <<cust, customers, devices>>,
         from \notin Ended \union {"idle", "unarchive.reload"}, (Quiet => Promised!Settled)', NEW i \in Ids, NEW n, Chain(cust[w], i, n),
         customers[cust[w]].status = "active", Login' = [Login EXCEPT ![i] = w]
  PROVE  Promised!ANext
<1>1. /\ cust[w] \in Names /\ w \in Secrets /\ w \notin Spent
      /\ Promised!End(cust[w], w) \/ Promised!HandOut(cust[w], w)
  BY GoesOrEnds DEF Ended
<1>2. Account[cust[w]] = [id |-> i, active |-> TRUE]
  BY <1>1 DEF Account, Chain
<1>3. Account[cust[w]] # NoRow
  <2>1. Account[cust[w]] \in [id : Ids, active : BOOLEAN]
    BY <1>2
  <2>2. QED
    BY <2>1, PortalAssumption
<1>4. Promised!Issue(cust[w], w)
  BY <1>1, <1>2, <1>3, SameAccount DEF Promised!Issue
<1>5. QED
  BY <1>1, <1>4 DEF Promised!ANext

\* An identity that is the customer's, or nobody's, is free for it.
LEMMA IsFree ==
  ASSUME Turn, NEW c \in Names, NEW i \in Ids,
         \A b \in Names \ {c} : ~Owns(b, i)
  PROVE  Promised!Free(c, i)
BY DEF Promised!Free, Promised!Has, Account, Owns

LEMMA FirstSeen ==
  ASSUME Shape, Turn, IsFiniteSet(Requests), MaxAtOnce = 1, "rename" \notin Ops,
         NEW w \in Requests, First(w)
  PROVE  Promised!ANext
<1>1. PICK c \in Names, to \in Anywhere \ {"idle", "unarchive.reload"} :
        Begin(w, c, to) /\ UNCHANGED <<tables, gateway>>
  BY DEF First, RenameDevice, CreateCheck, RotateCheck, ArchiveCheck, UnarchiveCheck,
         DeleteCheck, Anywhere, Points
<1>2. /\ Alone(w) /\ ~Running(w) /\ at[w] = "idle" /\ at'[w] = to /\ cust'[w] = c
      /\ \A v \in Requests \ {w} : at'[v] = at[v]
  BY <1>1, BeginTurn
<1>3. Account' = Account /\ Login' = Login
  BY <1>1 DEF Account, Login, tables, gateway
<1>4. w \notin Spent /\ w \in Secrets /\ to # "unarchive.reload"
  BY <1>1, <1>2, PortalAssumption DEF Spent, Ended, Secrets
<1>5. CASE to \in Ended
  <2>1. Served = {} /\ Served' = {} /\ Spent' = Spent \union {w}
    BY <1>2, <1>5, Serving DEF Running
  <2>2. Promised!Refuse(w)
    BY <1>3, <2>1 DEF Promised!Refuse
  <2>3. QED
    BY <1>4, <2>2 DEF Promised!ANext
<1>6. CASE to \notin Ended
  <2>1. Served = {} /\ Served' = {c} /\ Spent' = Spent
    BY <1>2, <1>4, <1>6, Serving DEF Running
  <2>2. Promised!Begin(c)
    BY <1>3, <2>1 DEF Promised!Begin
  <2>3. QED
    BY <2>2 DEF Promised!ANext
<1>7. QED
  BY <1>5, <1>6

LEMMA ReadsSeen ==
  ASSUME Shape, MaxFaults = 0, NEW w \in Requests, Alone(w), (Quiet => Promised!Settled)',
         \/ CreateExists(w) \/ CreateAppend(w) \/ RotateRead(w) \/ UnarchiveRead(w)
         \/ DeleteRead(w) \/ (DeleteLook(w) /\ at[w] # "alone.look")
  PROVE  [Promised!ANext]_(Promised!avars)
<1>1. PICK from \in {"create.exists", "create.append", "rotate.read", "unarchive.read",
                     "delete.read", "delete.look"},
           to \in {"create.insert", "create.write", "rotate.write", "unarchive.write",
                   "unarchive.radcheck", "delete.write", "delete.radcheck", "delete.cut",
                   "delete.sweep", "refused", "error"} : ReadTo(w, from, to)
  BY Reads
<1>2. QED
  BY <1>1, NothingSeen DEF ReadTo, tables, Ended

LEMMA CreateSeen ==
  ASSUME Shape, Turn, MaxFaults = 0, NEW w \in Requests, Alone(w),
         (Quiet => Promised!Settled)',
         CreateInsert(w) \/ CreateWrite(w) \/ CreateReload(w) \/ CreateCommit(w)
  PROVE  [Promised!ANext]_(Promised!avars)
<1>1. ~Fault
  BY Faultless
<1>2. Doing(w) /\ Creating(w, cust[w], id[w])
  BY DEF Turn, Doing
<1>3. PICK c \in Names, i \in Ids : c = cust[w] /\ i = id[w]
  BY DEF Shape
<1> USE <1>3
<1>4. CASE CreateInsert(w) \/ CreateWrite(w) \/ CreateReload(w)
  <2>1. PICK from \in {"create.insert", "create.write", "create.reload"},
             to \in {"create.append", "create.reload", "create.commit", "error"} :
          Goto(w, from, to) /\ UNCHANGED <<cust, customers, devices, radcheck>>
    BY <1>1, <1>4, Writes1, Reloads1
       DEF CreateInsert, CreateWrite, CreateReload, Raise, tables, gateway, locals
  <2>2. QED
    BY <2>1, NothingSeen DEF Ended
<1>6. CASE CreateCommit(w)
  <2>1. PICK d \in Devs :
          /\ Goto(w, "create.commit", "ok")
          /\ customers' = [customers EXCEPT ![c] = [row |-> w, status |-> "active"]]
          /\ users' = [users EXCEPT ![i] = [row |-> w, pw |-> w]]
          /\ i = Identity(c, d)
          /\ devices' = [devices EXCEPT ![c] = [row |-> w, name |-> d]]
          /\ radcheck' = [radcheck EXCEPT ![i] = w]
          /\ UNCHANGED <<gateway, locals, bounds>>
    BY <1>1, <1>6 DEF CreateCommit, Raise
  <2>2. at[w] = "create.commit"
    BY <2>1 DEF Goto
  <2>3. customers[c] = NoRow /\ devices[c] = NoRow /\ users[i] = NoRow
    BY <1>2, <2>2 DEF Creating
  <2>4. c \in Names /\ w \in Secrets /\ w \notin Spent /\ Promised!End(c, w)
    BY <2>1, GoesOrEnds DEF Ended, locals
  <2>5. Promised!Free(c, i)
    <3>1. \A b \in Names \ {c} : ~Owns(b, i)
      BY <1>3, <2>3, OthersOK, NotOwned
    <3>2. QED
      BY <3>1, IsFree
  <2>6. customers'[c] # NoRow /\ devices'[c] # NoRow
    BY <2>1, <2>4, PortalAssumption DEF Shape
  <2>7. Account' = [Account EXCEPT ![c] = [id |-> i, active |-> TRUE]]
    <3>1. Account'[c] = [id |-> i, active |-> TRUE]
      BY <2>1, <2>6 DEF Account, Shape
    <3>2. \A b \in Names \ {c} : Account'[b] = Account[b]
      BY <2>1 DEF Account, Shape
    <3>3. QED
      BY <2>4, <3>1, <3>2, OneAccount
  <2>8. Login' = [Login EXCEPT ![i] = w]
    <3>1. Login'[i] = w
      BY <2>1, <2>3, <2>4 DEF Login, Shape, gateway
    <3>2. Login' = [Login EXCEPT ![i] = Login'[i]]
      BY <2>1, OneLogin DEF Shape
    <3>3. QED
      BY <3>1, <3>2
  <2>9. Promised!Open(c, i, w)
    BY <2>3, <2>4, <2>5, <2>7, <2>8 DEF Promised!Open, Account
  <2>10. QED
    BY <2>4, <2>9 DEF Promised!ANext
<1>7. QED
  BY <1>4, <1>6

LEMMA RenewSeen ==
  ASSUME Shape, Turn, MaxFaults = 0, NEW w \in Requests, Alone(w),
         (Quiet => Promised!Settled)',
         \/ RotateUser(w) \/ RotateWrite(w) \/ RotateReload(w) \/ RotateRadcheck(w)
         \/ UnarchiveUser(w) \/ UnarchiveWrite(w) \/ UnarchiveRadcheck(w)
         \/ UnarchiveReload(w)
  PROVE  [Promised!ANext]_(Promised!avars)
<1>1. ~Fault
  BY Faultless
<1>2. PICK c \in Names, i \in Ids, n \in {row[w]} : c = cust[w] /\ i = id[w] /\ n = row[w]
  BY DEF Shape
<1> USE <1>2
<1>3. Renewing(w, c, i, n)
  BY DEF Turn, Doing
<1>4. w \in Secrets
  BY DEF Secrets
<1>5. CASE \/ RotateUser(w) \/ UnarchiveUser(w) \/ RotateWrite(w) \/ UnarchiveWrite(w)
           \/ RotateReload(w) \/ UnarchiveReload(w)
  <2>1. PICK from \in {"rotate.user", "unarchive.user", "rotate.write", "unarchive.write",
                       "rotate.reload", "unarchive.reload"},
             to \in {"rotate.read", "unarchive.read", "rotate.reload", "unarchive.radcheck",
                     "rotate.radcheck", "ok"} :
          /\ Goto(w, from, to) /\ UNCHANGED <<cust, customers, devices, radcheck>>
          /\ from = "unarchive.reload" => to = "ok"
    BY <1>1, <1>5, Writes1, Reloads1
       DEF RotateUser, UnarchiveUser, PutUser, Raise, RotateWrite, UnarchiveWrite,
           RotateReload, UnarchiveReload, tables, gateway, locals
  <2>2. QED
    BY <2>1, NothingSeen DEF Ended
<1>6. CASE RotateRadcheck(w) \/ UnarchiveRadcheck(w)
  <2>1. PICK from \in {"rotate.radcheck", "unarchive.radcheck"},
             to \in {"ok", "unarchive.reload"} :
          /\ Goto(w, from, to) /\ radcheck' = [radcheck EXCEPT ![i] = w]
          /\ UNCHANGED <<customers, users, devices, gateway, locals>>
    BY <1>1, <1>6 DEF RotateRadcheck, UnarchiveRadcheck, PutRadcheck, Raise
  <2>2. Chain(c, i, n) /\ customers[c].status = "active"
    BY <1>3, <2>1 DEF Renewing, Goto
  <2>3. Login' = [Login EXCEPT ![i] = w]
    <3>1. Login' = [Login EXCEPT ![i] = Login'[i]]
      BY <2>1, OneLogin DEF Shape
    <3>2. Login'[i] = w
      BY <1>4, <2>1 DEF Login, Shape
    <3>3. QED
      BY <3>1, <3>2
  <2>4. QED
    BY <1>2, <2>1, <2>2, <2>3, Issued DEF Ended, locals
<1>7. QED
  BY <1>5, <1>6

LEMMA StatusSeen ==
  ASSUME Shape, Turn, OwnInv, MaxFaults = 0, NEW w \in Requests, Alone(w),
         (Quiet => Promised!Settled)',
         \/ ArchiveStatus(w) \/ ArchiveDevice(w) \/ ArchiveRadcheck(w)
         \/ UnarchiveStatus(w) \/ UnarchiveDevice(w)
  PROVE  [Promised!ANext]_(Promised!avars)
<1>1. ~Fault
  BY Faultless
<1>2. PICK c \in Names, i \in Ids, n \in {row[w]} : c = cust[w] /\ i = id[w] /\ n = row[w]
  BY DEF Shape
<1> USE <1>2
<1>3. Changing(w, c, i, n)
  BY DEF Turn, Doing
<1>4. CASE ArchiveStatus(w) \/ UnarchiveStatus(w)
  <2>1. PICK from \in {"archive.status", "unarchive.status"},
             to \in {"archive.device", "unarchive.device"}, s \in {"archived", "active"} :
          /\ Goto(w, from, to) /\ SetStatus(w, s)
          /\ UNCHANGED <<users, devices, radcheck, gateway, locals>>
    BY <1>1, <1>4 DEF ArchiveStatus, UnarchiveStatus, Raise
  <2>2. CustomerOK(c) /\ customers[c] # NoRow /\ customers[c].row = n
    BY <1>3, <2>1 DEF Changing, Goto
  <2>3. PICK j \in Ids : Chain(c, j, n)
    BY <2>2 DEF CustomerOK, RowOf
  <2>4. customers' = [customers EXCEPT ![c] = [row |-> n, status |-> s]]
    BY <2>1, <2>2 DEF SetStatus, Is
  <2>5. customers'[c] = [row |-> n, status |-> s] /\ customers'[c] # NoRow
    <3>1. n \in Rows
      BY <2>2 DEF Shape, Customers
    <3>2. QED
      BY <2>4, <3>1, PortalAssumption DEF Rows, Shape
  <2>6. Account[c] = [id |-> j, active |-> customers[c].status = "active"]
    BY <2>3 DEF Account, Chain
  <2>7. Account'[c] = [id |-> j, active |-> s = "active"]
    BY <2>1, <2>3, <2>5 DEF Account, Chain
  <2>8. \A b \in Names \ {c} : Account'[b] = Account[b]
    BY <2>1, <2>4 DEF Account, Shape
  <2>9. Account' = [Account EXCEPT ![c] = [id |-> j, active |-> s = "active"]]
    BY <2>7, <2>8, OneAccount
  <2>10. Account[c] # NoRow
    <3>1. Account[c] \in [id : Ids, active : BOOLEAN]
      BY <2>6
    <3>2. QED
      BY <3>1, PortalAssumption
  <2>11. Login' = Login
    BY <2>1 DEF Login
  <2>12. PICK b \in BOOLEAN : b = (s = "active")
    OBVIOUS
  <2>13. Account' = [Account EXCEPT ![c].active = b]
    <3>1. [Account[c] EXCEPT !.active = b] = [id |-> j, active |-> b]
      BY <2>6
    <3>2. Account' = [Account EXCEPT ![c] = [id |-> j, active |-> b]]
      BY <2>9, <2>12
    <3>3. QED
      BY <3>1, <3>2
  <2>14. Promised!SetActive(c, b)
    BY <2>10, <2>11, <2>13 DEF Promised!SetActive
  <2>15. Promised!GoOn(c)
    BY <2>1, GoesOrEnds DEF Ended, locals
  <2>16. QED
    BY <2>14, <2>15 DEF Promised!ANext
<1>5. CASE ArchiveDevice(w) \/ UnarchiveDevice(w)
  <2>1. PICK from \in {"archive.device", "unarchive.device"},
             to \in {"archive.radcheck", "unarchive.user", "ok"} :
          Goto(w, from, to) /\ UNCHANGED <<tables, gateway, cust>>
    BY <1>1, <1>5 DEF ArchiveDevice, UnarchiveDevice, FindDevice, Raise
  <2>2. QED
    BY <2>1, NothingSeen DEF Ended, tables
<1>6. CASE ArchiveRadcheck(w)
  <2>1. /\ Goto(w, "archive.radcheck", "ok")
        /\ radcheck' = [radcheck EXCEPT ![i] = Disabled]
        /\ UNCHANGED <<customers, users, devices, gateway, locals>>
    BY <1>1, <1>6 DEF ArchiveRadcheck, Raise
  <2>2. Chain(c, i, n)
    BY <1>3, <2>1 DEF Changing, Goto
  <2>3. Promised!Free(c, i)
    <3>1. Owns(c, i)
      BY <2>2 DEF Owns, Chain
    <3>2. QED
      BY <3>1, IsFree DEF Turn
  <2>4. Login' = [Login EXCEPT ![i] = NoRow]
    <3>1. Login' = [Login EXCEPT ![i] = Login'[i]]
      BY <2>1, OneLogin DEF Shape
    <3>2. Login'[i] = NoRow
      BY <2>1, PortalAssumption DEF Login, Shape
    <3>3. QED
      BY <3>1, <3>2
  <2>5. QED
    BY <1>2, <2>1, <2>3, <2>4, Revoked DEF Ended, locals
<1>7. QED
  BY <1>4, <1>5, <1>6

LEMMA DeleteSeen ==
  ASSUME Shape, Turn, MaxFaults = 0, NEW w \in Requests, Alone(w),
         (Quiet => Promised!Settled)',
         \/ DeleteUsers(w) \/ DeleteBare(w) \/ DeleteCut(w) \/ DeleteOrphans(w)
         \/ DeleteOrphan(w) \/ DeleteDevices(w) \/ DeleteWrite(w) \/ DeleteRadcheck(w)
         \/ DeleteReload(w) \/ DeleteCustomer(w)
  PROVE  [Promised!ANext]_(Promised!avars)
<1>1. ~Fault
  BY Faultless
<1>2. PICK c \in Names, i \in Ids, n \in {row[w]} : c = cust[w] /\ i = id[w] /\ n = row[w]
  BY DEF Shape
<1> USE <1>2
<1>3. Doing(w) /\ Deleting(w, c, i, n)
  BY DEF Turn, Doing
<1>4. CASE \/ DeleteUsers(w) \/ DeleteCut(w) \/ DeleteOrphans(w) \/ DeleteWrite(w)
           \/ DeleteReload(w)
  <2>1. PICK from \in {"delete.users", "delete.cut", "alone.cut", "delete.sweep",
                       "alone.sweep", "delete.write", "delete.reload"},
             to \in {"delete.bare", "delete.sweep", "alone.sweep", "delete.devices",
                     "alone.devices", "delete.radcheck", "delete.customer"} :
          Goto(w, from, to) /\ UNCHANGED <<cust, customers, devices, radcheck>>
    BY <1>1, <1>4, Writes1, Reloads1
       DEF DeleteUsers, DeleteCut, CutBare, DeleteOrphans, DeleteWrite, DeleteReload, Raise,
           tables, gateway, locals
  <2>2. QED
    BY <2>1, NothingSeen DEF Ended
<1>5. ~DeleteOrphan(w)
  BY <1>3 DEF DeleteOrphan, Doing, Failing, Deleting
<1>6. CASE DeleteDevices(w)
  <2>1. /\ Goto(w, "delete.devices", "delete.read")
        /\ devices' = [devices EXCEPT ![c] = IF Is(@, n) THEN NoRow ELSE @]
        /\ UNCHANGED <<customers, users, radcheck, gateway, locals>>
    BY <1>1, <1>3, <1>6 DEF DeleteDevices, Raise, Goto, Doing, Failing
  <2>2. devices[c] # NoRow /\ devices[c].row = n
    BY <1>3, <2>1 DEF Deleting, Goto, Owns
  <2>3. devices' = [devices EXCEPT ![c] = NoRow]
    BY <2>1, <2>2 DEF Is
  <2>4. Account' = [Account EXCEPT ![c] = NoRow]
    <3>1. Account'[c] = NoRow /\ \A b \in Names \ {c} : Account'[b] = Account[b]
      BY <2>1, <2>3 DEF Account, Shape
    <3>2. QED
      BY <3>1, OneAccount
  <2>5. Login' = Login
    BY <2>1 DEF Login, gateway
  <2>6. Promised!Drop(c)
    BY <2>4, <2>5 DEF Promised!Drop
  <2>7. Promised!GoOn(c)
    BY <2>1, GoesOrEnds DEF Ended, locals
  <2>8. QED
    BY <2>6, <2>7 DEF Promised!ANext
<1>7. CASE DeleteRadcheck(w)
  <2>1. /\ Goto(w, "delete.radcheck", "delete.reload")
        /\ radcheck' = [radcheck EXCEPT ![i] = NoRow]
        /\ UNCHANGED <<customers, users, devices, gateway, locals>>
    BY <1>1, <1>7 DEF DeleteRadcheck, Raise
  <2>2. users[i] = NoRow
    BY <1>3, <2>1 DEF Deleting, Goto
  <2>3. Promised!Free(c, i)
    <3>1. \A b \in Names \ {c} : ~Owns(b, i)
      BY <1>2, <2>2, OthersOK, NotOwned
    <3>2. QED
      BY <3>1, IsFree
  <2>4. Login' = [Login EXCEPT ![i] = NoRow]
    <3>1. Login' = [Login EXCEPT ![i] = Login'[i]]
      BY <2>1, OneLogin DEF Shape
    <3>2. Login'[i] = NoRow
      BY <2>1, PortalAssumption DEF Login, Shape
    <3>3. QED
      BY <3>1, <3>2
  <2>5. QED
    BY <1>2, <2>1, <2>3, <2>4, Revoked DEF Ended, locals
<1>8. CASE DeleteBare(w)
  <2>1. /\ Goto(w, "delete.bare", "delete.look") /\ DropRadcheck({c})
        /\ UNCHANGED <<customers, users, devices, gateway, locals>>
    BY <1>1, <1>3, <1>8 DEF DeleteBare, DropBare, Raise, Goto, Doing, Failing
  <2>2. CASE c \in Ids
    <3>1. Login' = [Login EXCEPT ![c] = Login'[c]]
      BY <2>1, <2>2, OneLogin DEF DropRadcheck
    <3>2. Login'[c] = NoRow
      BY <2>1, <2>2, PortalAssumption DEF DropRadcheck, Login
    <3>3. QED
      BY <1>2, <2>1, <2>2, <3>1, <3>2, Revoked DEF Ended, locals
  <2>3. CASE c \notin Ids
    <3>1. radcheck' = radcheck
      BY <2>1, <2>3 DEF DropRadcheck, Shape
    <3>2. QED
      BY <2>1, <3>1, NothingSeen DEF Ended, locals
  <2>4. QED
    BY <2>2, <2>3
<1>9. CASE DeleteCustomer(w)
  <2>1. /\ Goto(w, "delete.customer", "ok")
        /\ customers' = [customers EXCEPT ![c] = IF Is(@, n) THEN NoRow ELSE @]
        /\ UNCHANGED <<users, devices, radcheck, gateway, locals>>
    BY <1>1, <1>9 DEF DeleteCustomer, Raise
  <2>2. devices[c] = NoRow
    BY <1>3, <2>1 DEF Deleting, Goto
  <2>3. Account' = Account
    <3>1. \A b \in Names : Account'[b] = Account[b]
      BY <2>1, <2>2 DEF Account, Shape
    <3>2. QED
      BY <3>1 DEF Account
  <2>4. Login' = Login
    BY <2>1 DEF Login, gateway
  <2>5. c \in Names /\ w \in Secrets /\ Promised!End(c, w)
    BY <2>1, GoesOrEnds DEF Ended, locals
  <2>6. QED
    BY <2>3, <2>4, <2>5 DEF Promised!ANext
<1>10. QED
  BY <1>4, <1>5, <1>6, <1>7, <1>8, <1>9

LEMMA StepSeen ==
  ASSUME Shape, OwnInv, Turn, IsFiniteSet(Requests), MaxAtOnce = 1, MaxFaults = 0,
         MaxCrashes = 0, "rename" \notin Ops, [Next]_vars, (Quiet => Promised!Settled)'
  PROVE  [Promised!ANext]_(Promised!avars)
<1>1. ASSUME NEW w \in Requests, First(w) PROVE [Promised!ANext]_(Promised!avars)
  BY <1>1, FirstSeen
<1>2. ASSUME NEW w \in Requests, Later(w) PROVE [Promised!ANext]_(Promised!avars)
  <2>1. Alone(w)
    BY <1>2, LaterRuns DEF Turn, OneAtOnce, Alone
  <2>2. ~CreateUndo(w) /\ ~CreateUnwrite(w)
    BY DEF Turn, Doing, Failing, CreateUndo, CreateUnwrite, ReadThen, Raise, Write, Goto
  <2>3. at[w] # "alone.look"
    BY DEF Turn, Doing, Failing
  <2>4. QED
    BY <1>2, <2>1, <2>2, <2>3, ReadsSeen, CreateSeen, RenewSeen, StatusSeen, DeleteSeen DEF Later
<1>3. \A w \in Requests : ~Crash(w)
  BY DEF Crash, Shape
<1>4. CASE UNCHANGED vars
  BY <1>4 DEF vars, tables, gateway, locals, Promised!avars, Account, Login, Served, Spent, Running
<1>5. QED
  BY <1>1, <1>2, <1>3, <1>4 DEF Next

LEMMA AccountsBegin == Init /\ Shape /\ OwnInv /\ Turn => Promised!AInit
<1> SUFFICES ASSUME Init, Shape, OwnInv, Turn PROVE Promised!AInit
  OBVIOUS
<1>1. \A w \in Requests : at[w] = "idle"
  BY DEF Init
<1>2. Quiet /\ Served = {} /\ Spent = Ids
  BY <1>1 DEF Quiet, Running, Served, Spent, Ended
<1>3. Promised!Settled
  BY <1>2, SettledInTurn
<1>4. \A c \in Names : Account[c] # NoRow => Account[c].active
  <2>1. PICK old \in SUBSET Names, row0 \in [Names -> Ids] :
          customers = [c \in Names |-> IF c \in old THEN [row |-> row0[c], status |-> "active"]
                                       ELSE NoRow]
    <3>1. PICK old \in SUBSET Names, d \in Devs :
            customers = [c \in Names |->
              IF c \in old THEN [row |-> Identity(c, d), status |-> "active"] ELSE NoRow]
      BY DEF Init
    <3>2. [c \in Names |-> Identity(c, d)] \in [Names -> Ids]
      BY IdentityType
    <3>3. QED
      BY <3>1, <3>2
  <2>2. QED
    BY <2>1 DEF Account
<1>5. \A c \in Names, i \in Ids : Promised!Has(c, i) => Promised!Free(c, i)
  BY DEF Turn, Promised!Has, Promised!Free, Account, Owns
<1>6. \A i \in Ids : Login[i] \in Spent \union {NoRow}
  <2> SUFFICES ASSUME NEW i \in Ids, radcheck[i] \in Secrets PROVE radcheck[i] \in Ids
    BY <1>2 DEF Login
  <2>1. Own(i) = {i}
    BY <1>1 DEF Own, Early
  <2>2. QED
    BY <2>1, PortalAssumption DEF OwnInv
<1>7. QED
  BY <1>2, <1>3, <1>4, <1>5, <1>6 DEF Promised!AInit

\* What the portal promises its operator, which the run checks on three requests
\* of two customers: one request at a time, without failures and renames, the
\* steps on the four stores implement accounts that a request opens, changes and
\* closes for its own customer only, with secrets that are handed out once.  The
\* one thing a request can do to another customer is that a delete shuts out an
\* identity that reads like its customer's name; so that after each request
\* nobody connects but the active customers, and all of these but such
\* namesakes.
THEOREM AccountsInTurn ==
  ASSUME IsFiniteSet(Requests), MaxAtOnce = 1, MaxFaults = 0, MaxCrashes = 0,
         "rename" \notin Ops
  PROVE  Spec => ImplementsAccounts
<1> DEFINE Inv == TypeOK /\ OwnInv /\ Turn
           Calm == Quiet => Promised!Settled
<1>1. Init => Inv /\ Promised!AInit
  BY TypeInit, OwnInit, TurnInit, TypeShape, AccountsBegin
<1>2. Inv /\ [Next]_vars => Inv'
  BY TypeNext, OwnNext, TypeShape, TurnNext
<1>3. Inv => Calm
  BY TypeShape, SettledInTurn
<1>4. Inv /\ Calm' /\ [Next]_vars => [Promised!ANext]_(Promised!avars)
  BY TypeShape, StepSeen
<1>5. QED
  BY <1>1, <1>2, <1>3, <1>4, PTL DEF Spec, ImplementsAccounts, Promised!ASpec

-----------------------------------------------------------------------------
(* What the bot's commands leave, one at a time.  Until a command fails,    *)
(* what is written back is what was read, and charon has loaded what is in  *)
(* the file unless somebody is about to reload it.                          *)
Undoing == {"create.undo", "create.unwrite"}
Dirty == {"create.reload", "rotate.reload", "unarchive.radcheck", "unarchive.reload",
          "delete.sweep", "delete.devices", "alone.sweep", "alone.devices", "delete.read",
          "delete.write", "delete.radcheck", "delete.reload", "deleteuser.reload",
          "cleanup.write", "cleanup.again", "orphan.append", "orphan.put", "orphan.reload",
          "reset.reload"}

\* Where a step that does not fail leads, and what it does to the gateway.
Goes(w) ==
  \/ Fault
  \/ /\ UNCHANGED faults
     /\ at'[w] \in Undoing => at[w] \in Undoing
     /\ \/ charon' = conf'.blk \/ at'[w] \in Dirty
        \/ UNCHANGED gateway /\ at[w] \notin Dirty
        \/ at[w] = "orphan.append" /\ ~(conf.whole /\ conf.blk[id[w]] = NoRow)
        \/ at[w] \in Undoing
        \/ at'[w] = "dead" /\ crashes < MaxCrashes

LEMMA StillGoes ==
  ASSUME NEW w, UNCHANGED <<conf, charon>>, UNCHANGED faults \/ Fault,
         at[w] \notin Dirty, at'[w] \notin Undoing
  PROVE  Goes(w)
BY DEF Goes, gateway

LEMMA WriteGoes ==
  ASSUME Shape, NEW w \in Requests, NEW from, NEW new, NEW to \in Dirty, NEW onRaise,
         Write(w, from, new, to, onRaise)
  PROVE  Goes(w)
BY DEF Write, Goto, Shape, Goes, bounds, Dirty, Undoing

LEMMA ReloadGoes ==
  ASSUME Shape, NEW w \in Requests, NEW from, NEW to, NEW onRaise, to \notin Undoing,
         Reload(w, from, to, onRaise)
  PROVE  Goes(w)
BY DEF Reload, Goto, Shape, Goes, bounds

LEMMA PortalReadsGo ==
  ASSUME Shape, NEW w \in Requests,
         \/ CreateExists(w) \/ CreateAppend(w) \/ CreateUndo(w) \/ RotateRead(w)
         \/ UnarchiveRead(w) \/ DeleteRead(w) \/ DeleteLook(w)
  PROVE  Goes(w)
<1> USE DEF ReadThen, Read, Raise, Goto, gateway, bounds, Shape, Goes, Undoing, Dirty
<1>1. CASE CreateExists(w)
  BY <1>1 DEF CreateExists
<1>2. CASE CreateAppend(w)
  BY <1>2 DEF CreateAppend
<1>3. CASE CreateUndo(w)
  BY <1>3 DEF CreateUndo
<1>4. CASE RotateRead(w)
  BY <1>4 DEF RotateRead
<1>5. CASE UnarchiveRead(w)
  BY <1>5 DEF UnarchiveRead
<1>6. CASE DeleteRead(w)
  BY <1>6 DEF DeleteRead
<1>7. CASE DeleteLook(w)
  BY <1>7 DEF DeleteLook, LookBare
<1>8. QED
  BY <1>1, <1>2, <1>3, <1>4, <1>5, <1>6, <1>7

LEMMA PortalWritesGo ==
  ASSUME Shape, NEW w \in Requests,
         \/ CreateWrite(w) \/ CreateUnwrite(w) \/ RotateWrite(w) \/ UnarchiveWrite(w)
         \/ DeleteWrite(w) \/ CreateReload(w) \/ RotateReload(w) \/ UnarchiveReload(w)
         \/ DeleteReload(w) \/ DeleteCut(w)
  PROVE  Goes(w)
<1>1. CASE CreateWrite(w) \/ RotateWrite(w)
  BY <1>1, WriteGoes DEF CreateWrite, RotateWrite, Dirty
<1>2. CASE UnarchiveWrite(w) \/ DeleteWrite(w)
  BY <1>2, WriteGoes DEF UnarchiveWrite, DeleteWrite, Dirty
<1>3. CASE CreateUnwrite(w)
  BY <1>3 DEF CreateUnwrite, Write, Goto, Shape, Goes, bounds, Undoing
<1>4. CASE CreateReload(w) \/ RotateReload(w)
  BY <1>4, ReloadGoes DEF CreateReload, RotateReload, Undoing
<1>5. CASE UnarchiveReload(w) \/ DeleteReload(w)
  BY <1>5, ReloadGoes DEF UnarchiveReload, DeleteReload, Undoing
<1>6. CASE DeleteCut(w)
  BY <1>6, WriteGoes DEF DeleteCut, CutBare, Dirty
<1>7. QED
  BY <1>1, <1>2, <1>3, <1>4, <1>5, <1>6

LEMMA PortalStillGoes ==
  ASSUME Shape, NEW w \in Requests,
         \/ CreateInsert(w) \/ CreateCommit(w) \/ RotateUser(w) \/ RotateRadcheck(w)
         \/ ArchiveStatus(w) \/ ArchiveDevice(w) \/ ArchiveRadcheck(w)
         \/ UnarchiveStatus(w) \/ UnarchiveDevice(w) \/ UnarchiveUser(w)
         \/ UnarchiveRadcheck(w) \/ DeleteUsers(w) \/ DeleteBare(w) \/ DeleteOrphans(w)
         \/ DeleteOrphan(w) \/ DeleteDevices(w) \/ DeleteRadcheck(w) \/ DeleteCustomer(w)
         \/ Crash(w)
  PROVE  Goes(w)
<1> USE DEF Goto, Raise, Shape, gateway, bounds, Goes, Undoing, Dirty
<1>1. CASE CreateInsert(w) \/ CreateCommit(w)
  BY <1>1 DEF CreateInsert, CreateCommit
<1>2. CASE RotateUser(w) \/ RotateRadcheck(w) \/ UnarchiveUser(w) \/ UnarchiveRadcheck(w)
  BY <1>2 DEF RotateUser, RotateRadcheck, UnarchiveUser, UnarchiveRadcheck, PutUser,
              PutRadcheck
<1>3. CASE ArchiveStatus(w) \/ UnarchiveStatus(w) \/ ArchiveRadcheck(w)
  BY <1>3 DEF ArchiveStatus, UnarchiveStatus, ArchiveRadcheck
<1>4. CASE ArchiveDevice(w) \/ UnarchiveDevice(w)
  BY <1>4 DEF ArchiveDevice, UnarchiveDevice, FindDevice
<1>5. CASE DeleteUsers(w) \/ DeleteOrphans(w) \/ DeleteDevices(w)
  BY <1>5 DEF DeleteUsers, DeleteOrphans, DeleteDevices
<1>6. CASE DeleteBare(w) \/ DeleteOrphan(w)
  BY <1>6 DEF DeleteBare, DropBare, DeleteOrphan
<1>7. CASE DeleteRadcheck(w) \/ DeleteCustomer(w)
  BY <1>7 DEF DeleteRadcheck, DeleteCustomer
<1>8. CASE Crash(w)
  BY <1>8 DEF Crash
<1>9. QED
  BY <1>1, <1>2, <1>3, <1>4, <1>5, <1>6, <1>7, <1>8

\* The first steps leave the gateway alone.
LEMMA FirstGoes ==
  ASSUME Shape, NEW w \in Requests, First(w) \/ BotFirst(w) \/ \E c \in Names : ResetCheck(w, c)
  PROVE  /\ UNCHANGED <<conf, charon, faults>> /\ at[w] = "idle"
         /\ at'[w] \in {"create.exists", "refused", "ok", "rotate.user", "archive.status",
                        "unarchive.status", "delete.users", "alone.bare",
                        "deleteuser.rows", "cleanup.rows", "orphan.rows", "renew.status",
                        "reset.counters"}
<1> USE DEF Goto, Shape, gateway, bounds
<1>1. CASE First(w)
  <2>1. /\ UNCHANGED <<conf, charon, faults>>
        /\ \E c \in Names, to \in {"create.exists", "refused", "ok", "rotate.user",
                                 "archive.status", "unarchive.status", "delete.users",
                                 "alone.bare"} : Begin(w, c, to)
    BY <1>1 DEF First, CreateCheck, RenameDevice, RotateCheck, ArchiveCheck, UnarchiveCheck,
                DeleteCheck
  <2>2. QED
    BY <2>1 DEF Begin
<1>2. CASE BotFirst(w)
  BY <1>2 DEF BotFirst, DeleteuserCheck, RenewCheck, CleanupCheck, OrphanCheck, Begin
<1>3. CASE \E c \in Names : ResetCheck(w, c)
  BY <1>3 DEF ResetCheck, Begin
<1>4. QED
  BY <1>1, <1>2, <1>3

LEMMA BotStepsGo ==
  ASSUME Shape, NEW w \in Requests, BotLater(w) PROVE Goes(w)
<1> USE DEF Goto, Raise, Read, Shape, gateway, bounds, Goes, Undoing, Dirty
<1>1. CASE DeleteuserRead(w) \/ OrphanRead(w)
  BY <1>1 DEF DeleteuserRead, OrphanRead, ReadThen
<1>2. CASE OrphanAppend(w)
  BY <1>2 DEF OrphanAppend, ReadThen
<1>3. CASE CleanupRead(w)
  BY <1>3 DEF CleanupRead
<1>4. CASE DeleteuserWrite(w) \/ CleanupWrite(w)
  BY <1>4, WriteGoes DEF DeleteuserWrite, CleanupWrite
<1>5. CASE OrphanWrite(w) \/ OrphanPut(w)
  BY <1>5, WriteGoes DEF OrphanWrite, OrphanPut
<1>6. CASE DeleteuserReload(w) \/ OrphanReload(w)
  BY <1>6, ReloadGoes DEF DeleteuserReload, OrphanReload
<1>7. CASE CleanupReload(w)
  BY <1>7, ReloadGoes DEF CleanupReload
<1>8. CASE DeleteuserRows(w) \/ CleanupRows(w)
  BY <1>8 DEF DeleteuserRows, CleanupRows
<1>9. CASE OrphanRows(w) \/ RenewStatus(w)
  BY <1>9 DEF OrphanRows, RenewStatus
<1>10. QED
  BY <1>1, <1>2, <1>3, <1>4, <1>5, <1>6, <1>7, <1>8, <1>9 DEF BotLater

\* A reset goes to points of a reset.
LEMMA ResetStepsGo ==
  ASSUME Shape, NEW w \in Requests, ResetLater(w)
  PROVE  Goes(w) /\ at'[w] \notin BotPoints
<1> USE DEF Goto, Raise, Shape, gateway, bounds, Goes, Undoing, Dirty, BotPoints, OrphanLater,
            CleanupLater, DeleteuserLater
<1>1. CASE ResetScan(w)
  BY <1>1 DEF ResetScan
<1>2. CASE ResetNewest(w)
  BY <1>2 DEF ResetNewest, Failed
<1>3. CASE ResetCounters(w) \/ ResetRadcheck(w) \/ ResetEnable(w)
  BY <1>3 DEF ResetCounters, ResetRadcheck, ResetEnable
<1>4. CASE ResetDevice(w) \/ ResetAgain(w)
  BY <1>4 DEF ResetDevice, ResetAgain, FindDevice
<1>5. CASE ResetConf(w) \/ ResetAudit(w)
  BY <1>5 DEF ResetConf, ResetAudit, Failed
<1>6. CASE ResetCopy(w)
  BY <1>6 DEF ResetCopy, Failed, Write
<1>7. CASE ResetReload(w)
  BY <1>7 DEF ResetReload, Failed, Reload
<1>8. QED
  BY <1>1, <1>2, <1>3, <1>4, <1>5, <1>6, <1>7 DEF ResetLater

LEMMA StepGoesOn ==
  ASSUME Shape, NEW w \in Requests, PortalStep(w) \/ BotFirst(w) \/ BotLater(w) \/ QuotaStep(w)
  PROVE  Goes(w)
<1>1. CASE First(w) \/ BotFirst(w) \/ \E c \in Names : ResetCheck(w, c)
  BY <1>1, FirstGoes, StillGoes DEF Undoing, Dirty
<1>2. CASE Later(w) \/ Crash(w)
  BY <1>2, PortalReadsGo, PortalWritesGo, PortalStillGoes DEF Later
<1>3. CASE BotLater(w) \/ ResetLater(w)
  BY <1>3, BotStepsGo, ResetStepsGo
<1>4. QED
  BY <1>1, <1>2, <1>3 DEF PortalStep, QuotaStep

-----------------------------------------------------------------------------
\* As long as no command has failed the file has its sections, and so has every
\* backup, and what is about to be written back is a fresh copy.
Fine ==
  faults = 0 =>
    /\ conf.whole /\ \A k \in DOMAIN backups : backups[k].whole
    /\ \A w \in Requests : at[w] \notin Undoing /\ (at[w] \in Writes => snap[w] = conf)

InStep == faults = 0 => charon = conf.blk \/ \E w \in Requests : at[w] \in Dirty

\* What each command relies on at its points.
OrphanKnows(w) ==
  /\ at[w] \in {"orphan.rows"} \union OrphanLater =>
       After(id[w]) \in Devs /\ id[w] = Identity(cust[w], After(id[w]))
  /\ at[w] \in OrphanLater =>
       /\ customers[cust[w]] = [row |-> w, status |-> "active"]
       /\ users[id[w]] = [row |-> w, pw |-> w] /\ radcheck[id[w]] = w
  /\ at[w] = "orphan.append" /\ faults = 0 => conf.blk[id[w]] = NoRow
  /\ at[w] = "orphan.reload" => conf.blk[id[w]] = w

CleanupKnows(w) ==
  /\ at[w] = "cleanup.rows" => sweep[w] = Pairs(names[w])
  /\ at[w] \in CleanupLater =>
       \A s \in sweep[w] :
         /\ users[s[1]] = NoRow /\ radcheck[s[1]] = NoRow
         /\ faults = 0 => s[1] \in names[w] \/ conf.blk[s[1]] = NoRow

DeleteuserKnows(w) ==
  /\ at[w] = "deleteuser.rows" =>
       /\ customers[cust[w]] # NoRow /\ row[w] = CustRow(cust[w])
       /\ \A i \in Ids : Like(cust[w], i) =>
            /\ users[i] # NoRow => <<i, RowOf(users[i])>> \in sweep[w]
            /\ radcheck[i] # NoRow => i \in names[w]
  /\ at[w] \in DeleteuserLater =>
       /\ customers[cust[w]] = NoRow /\ devices[cust[w]] = NoRow
       /\ \A i \in Ids : Like(cust[w], i) => users[i] = NoRow /\ radcheck[i] = NoRow
  /\ at[w] = "deleteuser.reload" /\ faults = 0 =>
       \A i \in names[w] : conf.blk[i] = NoRow

LEMMA AloneRests ==
  ASSUME NEW w \in Requests, Alone(w), NEW v \in Requests \ {w}
  PROVE  at[v] \notin BotPoints \union Dirty \union Writes
BY DEF Alone, Running, Ended, BotPoints, OrphanLater, CleanupLater, DeleteuserLater, Dirty,
       Writes, Blind, Sighted

\* Whether a step has failed shows in the count.
LEMMA NoFaultYet ==
  ASSUME Shape, NEW w \in Requests, Goes(w), faults' = 0 PROVE faults = 0 /\ ~Fault
<1>1. faults \in Nat
  BY PortalAssumption DEF Shape
<1>2. ~Fault
  BY <1>1 DEF Fault
<1>3. QED
  BY <1>2 DEF Goes

LEMMA FineNext ==
  ASSUME AllInv, FilesInv, Fine, NEW w \in Requests, Alone(w),
         PortalStep(w) \/ BotFirst(w) \/ BotLater(w) \/ QuotaStep(w), UNCHANGED backups
  PROVE  Fine'
<1> SUFFICES ASSUME faults' = 0
             PROVE  /\ conf'.whole /\ \A k \in DOMAIN backups : backups[k].whole
                    /\ \A v \in Requests : /\ at'[v] \notin Undoing
                                           /\ at'[v] \in Writes => snap'[v] = conf'
  BY DEF Fine
<1>1. Shape /\ Added /\ CopyInv
  BY AllShape DEF AllInv
<1>2. Goes(w) /\ faults = 0 /\ ~Fault
  BY <1>1, StepGoesOn, NoFaultYet
<1>3. /\ conf.whole /\ \A k \in DOMAIN backups : backups[k].whole
      /\ \A v \in Requests : at[v] \notin Undoing /\ (at[v] \in Writes => snap[v] = conf)
  BY <1>2 DEF Fine
<1>4. CASE FileStep(w)
  <2>1. conf'.whole
    BY <1>3, <1>4 DEF FileStep
  <2>2. \A v \in Requests : at'[v] \notin Undoing
    BY <1>2, <1>3, <1>4 DEF FileStep, Goes
  <2>3. at'[w] \in Writes => snap'[w] = conf'
    BY <1>2, <1>4 DEF FileStep
  <2>4. \A v \in Requests \ {w} : at'[v] \notin Writes
    BY <1>4, AloneRests DEF FileStep
  <2>5. QED
    BY <1>3, <2>1, <2>2, <2>3, <2>4
<1>5. CASE ResetCopy(w)
  <2>1. /\ at[w] = "reset.copy" /\ conf' \in {conf, backups[newest[w]]}
        /\ at'[w] \in {"reset.reload", "reset.audit", "error"}
        /\ \A v \in Requests \ {w} : at'[v] = at[v]
    BY <1>1, <1>5 DEF ResetCopy, Failed, Write, Goto, Shape
  <2>2. conf'.whole
    BY <1>1, <1>3, <2>1 DEF CopyInv
  <2>3. at'[w] \notin Undoing \union Writes
    BY <2>1 DEF Undoing, Writes, Blind, Sighted
  <2>4. \A v \in Requests \ {w} : at'[v] \notin Writes
    BY <2>1, AloneRests
  <2>5. QED
    BY <1>3, <2>1, <2>2, <2>3, <2>4
<1>6. QED
  BY <1>1, <1>4, <1>5, PortalFile, BotFile, QuotaFile DEF PortalStep, Added

LEMMA InStepNext ==
  ASSUME Shape, MaxCrashes = 0, Fine, InStep, NEW w \in Requests, Alone(w), OrphanKnows(w),
         Goes(w)
  PROVE  InStep'
<1> SUFFICES ASSUME faults' = 0
             PROVE  charon' = conf'.blk \/ \E v \in Requests : at'[v] \in Dirty
  BY DEF InStep
<1>1. faults = 0 /\ ~Fault
  BY NoFaultYet
<1>2. ~(crashes < MaxCrashes)
  BY DEF Shape
<1>3. at[w] \notin Undoing
  BY <1>1 DEF Fine
<1>4. at[w] = "orphan.append" => conf.whole /\ conf.blk[id[w]] = NoRow
  BY <1>1 DEF Fine, OrphanKnows
<1>5. ASSUME UNCHANGED gateway, at[w] \notin Dirty PROVE charon' = conf'.blk
  <2>1. \A v \in Requests : at[v] \notin Dirty
    BY <1>5, AloneRests
  <2>2. QED
    BY <1>1, <1>5, <2>1 DEF InStep, gateway
<1>6. QED
  BY <1>1, <1>2, <1>3, <1>4, <1>5 DEF Goes

-----------------------------------------------------------------------------
(* /renew_orphan.                                                           *)
LEMMA IdentityParts ==
  ASSUME NEW i \in Ids PROVE i = Identity(Before(i), After(i))
<1>1. PICK c \in Names, d \in Devs : i = c \o d
  BY DEF Ids, Identity
<1>2. c \in Seq(STRING) /\ c # <<>> /\ d \in Seq(STRING)
  BY PortalAssumption
<1>3. i \in Seq(STRING) /\ Len(i) > 0
  BY <1>1, <1>2
<1>4. <<Head(i)>> \o Tail(i) = i
  BY <1>3
<1>5. QED
  BY <1>4 DEF Identity, Before, After

LEMMA OrphanBegins ==
  ASSUME Shape, NEW w \in Requests, NEW i \in Ids, OrphanCheck(w, i) PROVE OrphanKnows(w)'
<1>1. /\ at'[w] \in {"orphan.rows", "refused"} /\ cust'[w] = Before(i) /\ id'[w] = i
      /\ After(i) \in Devs
  BY DEF OrphanCheck, Begin, Goto, Shape
<1>2. QED
  BY <1>1, IdentityParts DEF OrphanKnows, OrphanLater

LEMMA OrphanGoesOn ==
  ASSUME Shape, NEW w \in Requests, OrphanKnows(w),
         \/ OrphanRows(w) \/ OrphanRead(w) \/ OrphanWrite(w) \/ OrphanAppend(w)
         \/ OrphanPut(w) \/ OrphanReload(w)
  PROVE  OrphanKnows(w)'
<1>1. /\ cust[w] \in Names /\ id[w] \in Ids /\ snap[w] \in AnyFiles /\ faults \in Nat
      /\ at \in [Requests -> Anywhere]
  BY PortalAssumption DEF Shape
<1>2. Fault => faults' # 0
  BY <1>1 DEF Fault
<1>3. CASE OrphanRows(w)
  <2>1. CASE /\ Goto(w, "orphan.rows", "orphan.read")
             /\ customers' = [customers EXCEPT ![cust[w]] = [row |-> w, status |-> "active"]]
             /\ users' = [users EXCEPT ![id[w]] = [row |-> w, pw |-> w]]
             /\ radcheck' = [radcheck EXCEPT ![id[w]] = w]
             /\ UNCHANGED locals
    BY <1>1, <2>1 DEF Goto, locals, Shape, OrphanKnows, OrphanLater
  <2>2. CASE Goto(w, "orphan.rows", "error")
    BY <1>1, <2>2 DEF Goto, OrphanKnows, OrphanLater
  <2>3. QED
    BY <1>3, <2>1, <2>2 DEF OrphanRows, Raise
<1>4. ASSUME UNCHANGED <<customers, users, radcheck, cust, id>>,
             at[w] \in OrphanLater,
             at'[w] \in OrphanLater \union {"error", "ok"},
             at'[w] = "orphan.append" /\ faults' = 0 => conf'.blk[id[w]] = NoRow,
             at'[w] = "orphan.reload" => conf'.blk[id[w]] = w
      PROVE  OrphanKnows(w)'
  BY <1>4 DEF OrphanKnows, OrphanLater
<1>5. CASE OrphanRead(w) \/ OrphanAppend(w)
  <2>1. CASE OrphanRead(w)
    BY <1>1, <1>2, <1>4, <2>1
       DEF OrphanRead, ReadThen, Raise, Goto, tables, locals, OrphanLater
  <2>2. CASE OrphanAppend(w)
    BY <1>1, <1>4, <2>2 DEF OrphanAppend, ReadThen, Raise, Goto, tables, locals, OrphanLater
  <2>3. QED
    BY <1>5, <2>1, <2>2
<1>6. CASE OrphanWrite(w)
  <2>1. CutBlock(snap[w], id[w]).blk[id[w]] = NoRow
    BY <1>1 DEF CutBlock, AnyFiles, AnyBlocks
  <2>2. QED
    BY <1>1, <1>2, <1>4, <1>6, <2>1 DEF OrphanWrite, Write, Goto, tables, locals, OrphanLater
<1>7. CASE OrphanPut(w)
  <2>1. PutBlock(snap[w], id[w], w).blk[id[w]] = w
    BY <1>1 DEF PutBlock, AnyFiles, AnyBlocks
  <2>2. QED
    BY <1>1, <1>4, <1>7, <2>1 DEF OrphanPut, Write, Goto, tables, locals, OrphanLater
<1>8. CASE OrphanReload(w)
  BY <1>1, <1>4, <1>8 DEF OrphanReload, Reload, Goto, tables, locals, OrphanLater
<1>9. QED
  BY <1>3, <1>5, <1>6, <1>7, <1>8

-----------------------------------------------------------------------------
(* /cleanup_orphans.                                                        *)
LEMMA CleanupBegins ==
  ASSUME Shape, names \in [Requests -> SUBSET Ids], NEW w \in Requests,
         NEW s \in SUBSET Ids, CleanupCheck(w, s)
  PROVE  CleanupKnows(w)'
<1>1. s \in SUBSET Ids /\ UNCHANGED users
  BY DEF CleanupCheck, tables
<1>2. /\ at'[w] \in {"cleanup.rows", "refused"}
      /\ at'[w] = "cleanup.rows" => sweep'[w] = Pairs(s) /\ names'[w] = s
  BY DEF CleanupCheck, Goto, Shape
<1>3. QED
  BY <1>1, <1>2 DEF CleanupKnows, CleanupLater, Pairs

LEMMA CleanupGoesOn ==
  ASSUME Shape, NEW w \in Requests, names \in [Requests -> SUBSET Ids], CleanupKnows(w), Fine,
         \/ CleanupRows(w) /\ UNCHANGED names
         \/ CleanupRead(w) \/ CleanupWrite(w)
         \/ CleanupReload(w) /\ UNCHANGED names
  PROVE  CleanupKnows(w)'
<1>1. /\ sweep[w] \subseteq Ids \X Rows /\ names[w] \subseteq Ids
      /\ id[w] \in Ids /\ snap[w] \in AnyFiles /\ conf \in AnyFiles
      /\ at \in [Requests -> Anywhere]
  BY DEF Shape
<1>2. faults' = 0 => faults = 0 /\ ~Fault
  BY BotStepsGo, NoFaultYet DEF BotLater
<1>3. CASE CleanupRows(w) /\ UNCHANGED names
  <2>1. CASE /\ Goto(w, "cleanup.rows", "cleanup.read") /\ DropRadcheck(names[w])
             /\ DropUsers(w) /\ UNCHANGED locals
    <3>1. /\ at'[w] = "cleanup.read" /\ sweep'[w] = sweep[w] /\ sweep[w] = Pairs(names[w])
      BY <1>1, <2>1 DEF Goto, locals, CleanupKnows
    <3>2. ASSUME NEW s \in sweep[w] PROVE users'[s[1]] = NoRow /\ radcheck'[s[1]] = NoRow
                                          /\ s[1] \in names[w]
      <4>1. PICK i \in names[w] : s = <<i, RowOf(users[i])>>
        BY <3>1, <3>2 DEF Pairs
      <4>2. i \in Ids /\ s[1] = i
        BY <1>1, <4>1
      <4>3. users'[i] = NoRow /\ radcheck'[i] = NoRow
        BY <2>1, <3>2, <4>1, <4>2 DEF DropRadcheck, DropUsers
      <4>4. QED
        BY <4>1, <4>2, <4>3
    <3>3. QED
      BY <1>3, <3>1, <3>2 DEF CleanupKnows, CleanupLater
  <2>2. CASE Raise(w, "cleanup.rows", "error")
    BY <1>1, <2>2 DEF Raise, Goto, CleanupKnows, CleanupLater
  <2>3. QED
    BY <1>3, <2>1, <2>2 DEF CleanupRows
<1>4. CASE CleanupRead(w)
  <2>1. PICK i \in names[w] :
          \/ /\ Read(w)
             /\ \/ at' = [at EXCEPT ![w] = "cleanup.write"] /\ UNCHANGED names
                \/ /\ snap'[w].blk[i] = NoRow
                   /\ names' = [names EXCEPT ![w] = @ \ {i}] /\ UNCHANGED at
             /\ UNCHANGED <<tables, gateway, sweep>>
          \/ Raise(w, at[w], "ok")
    BY <1>4 DEF CleanupRead
  <2>2. at[w] \in CleanupLater
    BY <1>4 DEF CleanupRead, CleanupLater
  <2>3. CASE Raise(w, at[w], "ok")
    BY <1>1, <2>3 DEF Raise, Goto, CleanupKnows, CleanupLater
  <2>4. CASE /\ Read(w)
             /\ \/ at' = [at EXCEPT ![w] = "cleanup.write"] /\ UNCHANGED names
                \/ /\ snap'[w].blk[i] = NoRow
                   /\ names' = [names EXCEPT ![w] = @ \ {i}] /\ UNCHANGED at
             /\ UNCHANGED <<tables, gateway, sweep>>
    <3>1. faults' = 0 => snap'[w] = conf
      BY <1>2, <2>4 DEF Read, Shape
    <3>2. \A j \in names[w] : faults' = 0 => j \in names'[w] \/ conf.blk[j] = NoRow
      BY <2>4, <3>1
    <3>3. at'[w] # "cleanup.rows" /\ UNCHANGED <<users, radcheck, conf, sweep>>
      BY <1>1, <2>2, <2>4 DEF tables, gateway, CleanupLater
    <3>4. QED
      BY <1>2, <2>2, <3>2, <3>3 DEF CleanupKnows
  <2>5. QED
    BY <2>1, <2>3, <2>4
<1>5. CASE CleanupWrite(w)
  <2>1. /\ at[w] = "cleanup.write" /\ at'[w] \in {"cleanup.again", "ok"}
        /\ UNCHANGED <<users, radcheck, sweep>> /\ names' = [names EXCEPT ![w] = @ \ {id[w]}]
        /\ conf' = CutBlock(snap[w], id[w]) \/ Fault
    BY <1>1, <1>5 DEF CleanupWrite, Write, Goto, tables, locals
  <2>2. faults' = 0 => snap[w] = conf
    BY <1>2, <2>1 DEF Fine, Writes, Sighted
  <2>3. \A j \in Ids : CutBlock(snap[w], id[w]).blk[j] =
                         IF j = id[w] THEN NoRow ELSE snap[w].blk[j]
    BY <1>1 DEF CutBlock, AnyFiles, AnyBlocks
  <2>4. \A s \in sweep[w] : s[1] \in Ids
    BY <1>1
  <2>5. ASSUME NEW s \in sweep[w], faults' = 0
        PROVE  s[1] \in names'[w] \/ conf'.blk[s[1]] = NoRow
    <3>1. s[1] \in names[w] \/ conf.blk[s[1]] = NoRow
      BY <1>2, <2>1, <2>5 DEF CleanupKnows, CleanupLater
    <3>2. conf'.blk[s[1]] = IF s[1] = id[w] THEN NoRow ELSE conf.blk[s[1]]
      BY <1>2, <2>1, <2>2, <2>3, <2>4, <2>5
    <3>3. QED
      BY <2>1, <3>1, <3>2
  <2>6. QED
    BY <2>1, <2>5 DEF CleanupKnows, CleanupLater
<1>6. CASE CleanupReload(w) /\ UNCHANGED names
  BY <1>1, <1>6 DEF CleanupReload, Reload, Goto, CleanupKnows, CleanupLater
<1>7. QED
  BY <1>3, <1>4, <1>5, <1>6

\* A step of another kind leads to none of these points.
LEMMA DeleteuserGoes ==
  ASSUME Shape, NEW w \in Requests,
         \/ \E c \in Names : DeleteuserCheck(w, c)
         \/ DeleteuserRows(w) \/ DeleteuserRead(w) \/ DeleteuserWrite(w)
         \/ DeleteuserReload(w)
  PROVE  at'[w] \in {"deleteuser.rows"} \union DeleteuserLater \union Ended
<1> USE DEF Shape, Goto, Raise, Ended, DeleteuserLater
<1>1. CASE \E c \in Names : DeleteuserCheck(w, c)
  BY <1>1 DEF DeleteuserCheck, Begin
<1>2. CASE DeleteuserRows(w) \/ DeleteuserRead(w)
  BY <1>2 DEF DeleteuserRows, DeleteuserRead, ReadThen
<1>3. CASE DeleteuserWrite(w) \/ DeleteuserReload(w)
  BY <1>3 DEF DeleteuserWrite, DeleteuserReload, Write, Reload
<1>4. QED
  BY <1>1, <1>2, <1>3

LEMMA CleanupGoes ==
  ASSUME Shape, NEW w \in Requests,
         \/ \E s \in SUBSET Ids : CleanupCheck(w, s)
         \/ CleanupRows(w) \/ CleanupRead(w) \/ CleanupWrite(w) \/ CleanupReload(w)
  PROVE  at'[w] \in {"cleanup.rows"} \union CleanupLater \union Ended
<1> USE DEF Shape, Goto, Raise, Ended, CleanupLater
<1>1. CASE \E s \in SUBSET Ids : CleanupCheck(w, s)
  BY <1>1 DEF CleanupCheck
<1>2. CASE CleanupRows(w) \/ CleanupRead(w)
  BY <1>2 DEF CleanupRows, CleanupRead
<1>3. CASE CleanupWrite(w) \/ CleanupReload(w)
  BY <1>3 DEF CleanupWrite, CleanupReload, Write, Reload
<1>4. QED
  BY <1>1, <1>2, <1>3

LEMMA OrphanGoes ==
  ASSUME Shape, NEW w \in Requests,
         \/ \E i \in Ids : OrphanCheck(w, i)
         \/ OrphanRows(w) \/ OrphanRead(w) \/ OrphanWrite(w) \/ OrphanAppend(w)
         \/ OrphanPut(w) \/ OrphanReload(w)
  PROVE  at'[w] \in {"orphan.rows"} \union OrphanLater \union Ended
<1> USE DEF Shape, Goto, Raise, Ended, OrphanLater
<1>1. CASE \E i \in Ids : OrphanCheck(w, i)
  BY <1>1 DEF OrphanCheck, Begin
<1>2. CASE OrphanRows(w) \/ OrphanRead(w) \/ OrphanAppend(w)
  BY <1>2 DEF OrphanRows, OrphanRead, OrphanAppend, ReadThen
<1>3. CASE OrphanWrite(w) \/ OrphanPut(w) \/ OrphanReload(w)
  BY <1>3 DEF OrphanWrite, OrphanPut, OrphanReload, Write, Reload
<1>4. QED
  BY <1>1, <1>2, <1>3

LEMMA RenewGoes ==
  ASSUME Shape, NEW w \in Requests, RenewStatus(w) \/ \E c \in Names : RenewCheck(w, c)
  PROVE  at'[w] \in {"renew.status"} \union Ended
BY DEF RenewStatus, RenewCheck, Begin, Goto, Raise, Shape, Ended

\* What the portal and a reset go to is a point of no command.
LEMMA OthersGoElsewhere ==
  ASSUME Shape, NEW w \in Requests, PortalStep(w) \/ QuotaStep(w) PROVE at'[w] \notin BotPoints
<1>1. CASE PortalStep(w)
  BY <1>1, PortalGoes DEF PortalStep, Points, BotPoints, OrphanLater, CleanupLater,
                          DeleteuserLater
<1>2. CASE QuotaStep(w)
  <2>1. CASE \E c \in Names : ResetCheck(w, c)
    BY <2>1 DEF ResetCheck, Begin, Goto, Shape, BotPoints, OrphanLater, CleanupLater,
                DeleteuserLater
  <2>2. CASE ResetLater(w)
    BY <2>2, ResetStepsGo
  <2>3. QED
    BY <1>2, <2>1, <2>2 DEF QuotaStep
<1>3. QED
  BY <1>1, <1>2

LEMMA ElsewhereKnows ==
  ASSUME NEW w \in Requests
  PROVE  /\ at'[w] \notin {"orphan.rows"} \union OrphanLater => OrphanKnows(w)'
         /\ at'[w] \notin {"cleanup.rows"} \union CleanupLater => CleanupKnows(w)'
         /\ at'[w] \notin {"deleteuser.rows"} \union DeleteuserLater => DeleteuserKnows(w)'
BY DEF OrphanKnows, CleanupKnows, DeleteuserKnows, OrphanLater, CleanupLater, DeleteuserLater

LEMMA CommandKnows ==
  ASSUME Shape, names \in [Requests -> SUBSET Ids], Fine, NEW w \in Requests, OrphanKnows(w),
         CleanupKnows(w), PortalStep(w) \/ BotFirst(w) \/ BotLater(w) \/ QuotaStep(w)
  PROVE  OrphanKnows(w)' /\ CleanupKnows(w)'
<1> USE DEF Ended, OrphanLater, CleanupLater, DeleteuserLater
<1>1. CASE PortalStep(w) \/ QuotaStep(w)
  BY <1>1, OthersGoElsewhere, ElsewhereKnows DEF BotPoints
<1>2. CASE \/ \E i \in Ids : OrphanCheck(w, i)
           \/ OrphanRows(w) \/ OrphanRead(w) \/ OrphanWrite(w) \/ OrphanAppend(w)
           \/ OrphanPut(w) \/ OrphanReload(w)
  <2>1. OrphanKnows(w)'
    BY <1>2, OrphanBegins, OrphanGoesOn
  <2>2. QED
    BY <1>2, <2>1, OrphanGoes, ElsewhereKnows
<1>3. CASE \/ \E s \in SUBSET Ids : CleanupCheck(w, s)
           \/ CleanupRows(w) /\ UNCHANGED names
           \/ CleanupRead(w) \/ CleanupWrite(w)
           \/ CleanupReload(w) /\ UNCHANGED names
  <2>1. CleanupKnows(w)'
    BY <1>3, CleanupBegins, CleanupGoesOn
  <2>2. QED
    BY <1>3, <2>1, CleanupGoes, ElsewhereKnows
<1>4. CASE \/ \E c \in Names : DeleteuserCheck(w, c)
           \/ DeleteuserRows(w) \/ DeleteuserRead(w) \/ DeleteuserWrite(w)
           \/ DeleteuserReload(w)
  BY <1>4, DeleteuserGoes, ElsewhereKnows
<1>5. CASE RenewStatus(w) \/ \E c \in Names : RenewCheck(w, c)
  BY <1>5, RenewGoes, ElsewhereKnows
<1>6. QED
  BY <1>1, <1>2, <1>3, <1>4, <1>5 DEF BotFirst, BotLater

-----------------------------------------------------------------------------
(* The theorems about /renew_orphan and /cleanup_orphans.                   *)
KnowInv == Fine /\ \A w \in Requests : OrphanKnows(w) /\ CleanupKnows(w)

LEMMA KnowInit == AllInit => KnowInv /\ InStep
<1> SUFFICES ASSUME AllInit PROVE KnowInv /\ InStep
  OBVIOUS
<1>1. /\ conf.whole /\ backups = <<>> /\ charon = radcheck /\ conf.blk = radcheck
      /\ \A w \in Requests : at[w] = "idle"
  BY DEF AllInit, BotInit, QuotaInit, Init
<1>2. DOMAIN backups = {}
  BY <1>1
<1>3. Fine /\ InStep
  BY <1>1, <1>2 DEF Fine, InStep, Undoing, Writes, Blind, Sighted
<1>4. QED
  BY <1>1, <1>3 DEF KnowInv, OrphanKnows, CleanupKnows, OrphanLater, CleanupLater

\* What a step of another request, or a cut, leaves as it was.
LEMMA RestKnows ==
  ASSUME NEW w \in Requests, at[w] \notin BotPoints, at'[w] = at[w]
  PROVE  OrphanKnows(w)' /\ CleanupKnows(w)' /\ DeleteuserKnows(w)'
BY ElsewhereKnows DEF BotPoints

LEMMA CutKnows ==
  ASSUME IsFiniteSet(Requests), MaxAtOnce = 1, AllInv, FilesInv, NEW c \in Names, Cut(c)
  PROVE  /\ \A w \in Requests : /\ at'[w] = at[w]
                                /\ at[w] \notin BotPoints \union Dirty \union Writes
         /\ charon' = conf'.blk /\ (Fine => Fine')
<1>1. Shape /\ Added
  BY AllShape DEF AllInv
<1>2. \A w \in Requests : ~Running(w)
  BY NobodyRuns DEF Cut
<1>3. \A w \in Requests : at[w] \notin BotPoints \union Dirty \union Writes
  BY <1>2 DEF Running, Ended, BotPoints, OrphanLater, CleanupLater, DeleteuserLater, Dirty,
              Writes, Blind, Sighted
<1>4. /\ backups' = Append(backups, conf) /\ UNCHANGED <<at, faults>> /\ charon' = conf'.blk
      /\ conf'.whole = conf.whole
  BY <1>1, CutStores, CutFile DEF locals, bounds
<1>5. \A k \in DOMAIN backups' :
        backups'[k] = conf \/ (k \in DOMAIN backups /\ backups'[k] = backups[k])
  BY <1>1, <1>4 DEF Added, Shape
<1>6. Fine => Fine'
  BY <1>3, <1>4, <1>5 DEF Fine
<1>7. QED
  BY <1>3, <1>4, <1>6

LEMMA KnowNext ==
  ASSUME IsFiniteSet(Requests), MaxAtOnce = 1, AllInv, FilesInv, SeqInv, KnowInv,
         [AllNext]_allVars
  PROVE  KnowInv' /\ (MaxCrashes = 0 /\ InStep => InStep')
<1>1. Shape /\ Added /\ OneAtOnce
  BY AllShape DEF AllInv, SeqInv
<1>2. ASSUME NEW w \in Requests, PortalStep(w) \/ BotFirst(w) \/ BotLater(w) \/ QuotaStep(w),
             UNCHANGED backups
      PROVE  KnowInv' /\ (MaxCrashes = 0 /\ InStep => InStep')
  <2>1. Alone(w) /\ Goes(w) /\ Fine'
    BY <1>1, <1>2, StepsAlone, StepGoesOn, FineNext DEF KnowInv
  <2>2. OrphanKnows(w)' /\ CleanupKnows(w)'
    BY <1>1, <1>2, CommandKnows DEF KnowInv, Added
  <2>3. \A v \in Requests \ {w} : at'[v] = at[v]
    BY <1>1, <1>2, PortalGoes, BotEffect, QuotaGoes DEF PortalStep, Effect
  <2>4. \A v \in Requests \ {w} : OrphanKnows(v)' /\ CleanupKnows(v)'
    BY <2>1, <2>3, AloneRests, RestKnows
  <2>5. MaxCrashes = 0 /\ InStep => InStep'
    BY <1>1, <2>1, InStepNext DEF KnowInv
  <2>6. QED
    BY <2>1, <2>2, <2>4, <2>5 DEF KnowInv
<1>3. ASSUME NEW c \in Names, Cut(c) PROVE KnowInv' /\ InStep'
  <2>1. /\ \A w \in Requests : at'[w] = at[w] /\ at[w] \notin BotPoints
        /\ Fine' /\ charon' = conf'.blk
    BY <1>3, CutKnows DEF KnowInv
  <2>2. \A w \in Requests : OrphanKnows(w)' /\ CleanupKnows(w)'
    BY <2>1, RestKnows
  <2>3. QED
    BY <2>1, <2>2 DEF KnowInv, InStep
<1>4. CASE UNCHANGED allVars
  BY <1>4 DEF allVars, vars, tables, gateway, locals, bounds, quota, KnowInv, Fine, InStep,
              OrphanKnows, CleanupKnows, Pairs, RowOf
<1>5. QED
  BY <1>2, <1>3, <1>4 DEF AllNext, quota, QuotaStep, ResetLater

\* The state in which a command reports its success is its own last step.
LEMMA OnlyItEnds ==
  ASSUME AllInv, [AllNext]_allVars, NEW w \in Requests, at[w] \in BotPoints, at'[w] # at[w]
  PROVE  PortalStep(w) \/ BotFirst(w) \/ BotLater(w) \/ QuotaStep(w)
<1>1. Shape /\ Added
  BY AllShape DEF AllInv
<1>2. ASSUME NEW v \in Requests, PortalStep(v) \/ BotFirst(v) \/ BotLater(v) \/ QuotaStep(v)
      PROVE  v = w
  BY <1>1, <1>2, PortalGoes, BotEffect, QuotaGoes DEF PortalStep, Effect
<1>3. \A c \in Names : ~Cut(c)
  BY DEF Cut
<1>4. ~UNCHANGED allVars
  BY DEF allVars, vars
<1>5. QED
  BY <1>2, <1>3, <1>4 DEF AllNext

\* What ends a command with success.
LEMMA CommandEnds ==
  ASSUME Shape, NEW w \in Requests, at[w] \in BotPoints, at'[w] = "ok", faults \in Nat,
         PortalStep(w) \/ BotFirst(w) \/ BotLater(w) \/ QuotaStep(w)
  PROVE  /\ at[w] = "orphan.reload" => OrphanReload(w)
         /\ at[w] = "deleteuser.reload" => DeleteuserReload(w)
         /\ at[w] \in {"cleanup.read", "cleanup.again"} => CleanupReload(w) \/ Fault
<1> USE DEF Goto, Raise, Shape
<1>1. at[w] # "idle"
  BY DEF BotPoints, OrphanLater, CleanupLater, DeleteuserLater
<1>2. BotLater(w)
  BY <1>1, LaterFrom, FirstGoes DEF PortalStep, QuotaStep, Crash
<1>3. CASE DeleteuserRows(w) \/ DeleteuserRead(w) \/ DeleteuserWrite(w)
  BY <1>3 DEF DeleteuserRows, DeleteuserRead, DeleteuserWrite, ReadThen, Write
<1>4. CASE DeleteuserReload(w) \/ CleanupReload(w) \/ OrphanReload(w)
  BY <1>4 DEF DeleteuserReload, CleanupReload, OrphanReload, Reload
<1>5. CASE CleanupRows(w) \/ CleanupRead(w) \/ CleanupWrite(w)
  BY <1>5 DEF CleanupRows, CleanupRead, CleanupWrite, Write
<1>6. CASE OrphanRows(w) \/ OrphanRead(w) \/ OrphanAppend(w) \/ RenewStatus(w)
  BY <1>6 DEF OrphanRows, OrphanRead, OrphanAppend, RenewStatus, ReadThen
<1>7. CASE OrphanWrite(w) \/ OrphanPut(w)
  BY <1>7 DEF OrphanWrite, OrphanPut, Write
<1>8. QED
  BY <1>2, <1>3, <1>4, <1>5, <1>6, <1>7 DEF BotLater

LEMMA LastReload ==
  ASSUME Shape, NEW w \in Requests, NEW from, NEW onRaise, Reload(w, from, "ok", onRaise),
         at'[w] = "ok", onRaise # "ok" \/ ~Fault
  PROVE  charon' = conf.blk /\ UNCHANGED <<tables, conf>>
BY DEF Reload, Goto, Shape

\* Run one after the other with everything else, /renew_orphan shows a password
\* that connects, whatever has failed and was passed over.
THEOREM RenewedConnectsInTurn ==
  IsFiniteSet(Requests) /\ MaxAtOnce = 1 => (AllSpec => RenewedConnects)
<1> SUFFICES ASSUME IsFiniteSet(Requests), MaxAtOnce = 1 PROVE AllSpec => RenewedConnects
  OBVIOUS
<1> DEFINE Inv == AllInv /\ FilesInv /\ SeqInv /\ KnowInv
<1>1. AllInit => Inv
  BY AllInvInit, FilesInit, SeqInit, KnowInit
<1>2. Inv /\ [AllNext]_allVars => Inv'
  BY AllInvNext, FilesNext, SeqNext, KnowNext
<1>3. Inv /\ [AllNext]_allVars
        => [\A w \in Requests : Ends(w, {"orphan.reload"}) =>
              /\ customers'[cust[w]] = [row |-> w, status |-> "active"]
              /\ users'[id[w]] = [row |-> w, pw |-> w] /\ radcheck'[id[w]] = w
              /\ conf'.blk[id[w]] = w /\ charon'[id[w]] = w]_botVars
  <2> SUFFICES ASSUME Inv, [AllNext]_allVars, NEW w \in Requests, Ends(w, {"orphan.reload"})
               PROVE  /\ customers'[cust[w]] = [row |-> w, status |-> "active"]
                      /\ users'[id[w]] = [row |-> w, pw |-> w] /\ radcheck'[id[w]] = w
                      /\ conf'.blk[id[w]] = w /\ charon'[id[w]] = w
    OBVIOUS
  <2>1. Shape /\ faults \in Nat /\ OrphanKnows(w)
    BY AllShape, PortalAssumption DEF AllInv, KnowInv, Shape
  <2>2. at[w] = "orphan.reload" /\ at'[w] = "ok" /\ at[w] \in BotPoints
    BY DEF Ends, BotPoints, OrphanLater
  <2>3. OrphanReload(w)
    BY <2>1, <2>2, OnlyItEnds, CommandEnds
  <2>4. charon' = conf.blk /\ UNCHANGED <<customers, users, radcheck, conf>>
    BY <2>1, <2>2, <2>3, LastReload DEF OrphanReload, tables
  <2>5. QED
    BY <2>1, <2>2, <2>4 DEF OrphanKnows, OrphanLater
<1>4. QED
  BY <1>1, <1>2, <1>3, PTL DEF AllSpec, RenewedConnects

\* Until a command fails or a worker is killed, /cleanup_orphans leaves no trace
\* of the identities in the tables, in the file or in charon.
THEOREM RetiredGoneInTurn ==
  ASSUME IsFiniteSet(Requests), MaxAtOnce = 1, MaxCrashes = 0
  PROVE  AllSpec => RetiredGone
<1> DEFINE Inv == AllInv /\ FilesInv /\ SeqInv /\ KnowInv /\ InStep
<1>1. AllInit => Inv
  BY AllInvInit, FilesInit, SeqInit, KnowInit
<1>2. Inv /\ [AllNext]_allVars => Inv'
  BY AllInvNext, FilesNext, SeqNext, KnowNext
<1>3. Inv /\ [AllNext]_allVars
        => [\A w \in Requests : Ends(w, {"cleanup.read", "cleanup.again"}) /\ faults' = 0 =>
              \A s \in sweep[w] : /\ users'[s[1]] = NoRow /\ radcheck'[s[1]] = NoRow
                                  /\ conf'.blk[s[1]] = NoRow /\ charon'[s[1]] = NoRow]_botVars
  <2> SUFFICES ASSUME Inv, [AllNext]_allVars, NEW w \in Requests,
                      Ends(w, {"cleanup.read", "cleanup.again"}), faults' = 0,
                      NEW s \in sweep[w]
               PROVE  /\ users'[s[1]] = NoRow /\ radcheck'[s[1]] = NoRow
                      /\ conf'.blk[s[1]] = NoRow /\ charon'[s[1]] = NoRow
    OBVIOUS
  <2>1. Shape /\ faults \in Nat /\ CleanupKnows(w) /\ OneAtOnce
    BY AllShape, PortalAssumption DEF AllInv, KnowInv, SeqInv, Shape
  <2>2. /\ at[w] \in {"cleanup.read", "cleanup.again"} /\ at'[w] = "ok"
        /\ at[w] \in BotPoints /\ at'[w] # at[w]
    BY DEF Ends, BotPoints, CleanupLater
  <2>3. PortalStep(w) \/ BotFirst(w) \/ BotLater(w) \/ QuotaStep(w)
    BY <2>2, OnlyItEnds
  <2>4. Alone(w) /\ faults = 0 /\ ~Fault
    BY <2>1, <2>3, StepsAlone, StepGoesOn, NoFaultYet
  <2>5. CleanupReload(w)
    BY <2>1, <2>2, <2>3, <2>4, CommandEnds
  <2>6. UNCHANGED <<tables, conf>> /\ charon' = conf.blk
    <3>1. CASE Reload(w, "cleanup.again", "ok", "ok")
      BY <2>1, <2>2, <2>4, <3>1, LastReload
    <3>2. CASE Goto(w, "cleanup.read", "ok") /\ UNCHANGED <<tables, gateway, locals, bounds>>
      <4>1. \A v \in Requests : at[v] \notin Dirty
        BY <2>4, <3>2, AloneRests DEF Goto, Dirty
      <4>2. QED
        BY <2>4, <3>2, <4>1 DEF InStep, gateway
    <3>3. QED
      BY <2>5, <3>1, <3>2 DEF CleanupReload
  <2>7. /\ users[s[1]] = NoRow /\ radcheck[s[1]] = NoRow
        /\ s[1] \in names[w] \/ conf.blk[s[1]] = NoRow
    BY <2>1, <2>2, <2>4 DEF CleanupKnows, CleanupLater
  <2>8. names[w] = {}
    BY <2>5 DEF CleanupReload
  <2>9. QED
    BY <2>6, <2>7, <2>8 DEF tables
<1>4. QED
  BY <1>1, <1>2, <1>3, PTL DEF AllSpec, RetiredGone

-----------------------------------------------------------------------------
(* /deleteuser.  It finds the identities of a customer because the row id   *)
(* of a device was made for an identity of its customer, whatever the       *)
(* device is called by now.                                                 *)
DevOf == \A c \in Names : DevRow(c) # NoRow => \E d \in Devs : DevRow(c) \in Own(Identity(c, d))

LEMMA DevOfInit == AllInit => DevOf
<1> SUFFICES ASSUME AllInit PROVE DevOf
  OBVIOUS
<1>1. PICK old \in SUBSET Names, d \in Devs :
        devices = [c \in Names |->
          IF c \in old THEN [row |-> Identity(c, d), name |-> d] ELSE NoRow]
  BY DEF AllInit, BotInit, Init
<1>2. ASSUME NEW c \in Names PROVE DevRow(c) \in {NoRow, Identity(c, d)}
  BY <1>1 DEF DevRow, RowOf
<1>3. QED
  BY <1>2 DEF DevOf, Own

LEMMA DevOfNext ==
  ASSUME AllInv, KnowInv, DevOf, [AllNext]_allVars PROVE DevOf'
<1>1. Shape /\ RenewInv
  BY AllShape DEF AllInv
<1>2. ASSUME NEW w \in Requests, PortalStep(w) \/ BotFirst(w) \/ BotLater(w) \/ QuotaStep(w)
      PROVE  DevOf'
  <2>1. RowStep(w) /\ Finds(w) /\ OrphanKnows(w)
    BY <1>1, <1>2, AllStepsRow, AllFinds DEF KnowInv
  <2>2. \A i : Own(i) \subseteq Own(i)'
    BY <2>1, FindsGrows
  <2>3. ASSUME NEW c \in Names, DevRow(c)' # NoRow
        PROVE  \E d \in Devs : DevRow(c)' \in Own(Identity(c, d))'
    <3>1. CASE DevRow(c)' = DevRow(c)
      <4>1. PICK d \in Devs : DevRow(c) \in Own(Identity(c, d))
        BY <2>3, <3>1 DEF DevOf
      <4>2. QED
        BY <2>2, <3>1, <4>1
    <3>2. CASE DevRow(c)' # DevRow(c)
      <4>1. /\ c = cust[w] /\ DevRow(c)' = w /\ at[w] \notin Early
            /\ at[w] = "orphan.rows" \/ \E d \in Devs : id[w] = Identity(c, d)
        BY <2>1, <2>3, <3>2 DEF RowStep
      <4>2. PICK d \in Devs : id[w] = Identity(c, d)
        BY <2>1, <4>1 DEF OrphanKnows
      <4>3. w \in Own(Identity(c, d))
        BY <4>1, <4>2 DEF Own
      <4>4. QED
        BY <2>2, <4>1, <4>3
    <3>3. QED
      BY <3>1, <3>2
  <2>4. QED
    BY <2>3 DEF DevOf, DevRow
<1>3. ASSUME NEW c \in Names, Cut(c) PROVE DevOf'
  BY <1>1, <1>3, CutStores DEF DevOf, DevRow, Own, locals
<1>4. CASE UNCHANGED allVars
  BY <1>4 DEF allVars, vars, tables, locals, DevOf, DevRow, Own
<1>5. QED
  BY <1>2, <1>3, <1>4 DEF AllNext

\* A row id is of one identity.
LEMMA OwnApart ==
  ASSUME NEW i \in Ids, NEW j \in Ids, NEW s \in Own(i), s \in Own(j)
  PROVE  i = j /\ s # NoRow
BY PortalAssumption DEF Own, Secrets

\* As long as no name is the beginning of another, the pattern of a name is
\* that of the customer's own identities.
LEMMA LikeOwn ==
  ASSUME \A b, c \in Names : ~Like(b, c), NEW c \in Names, NEW n \in Names, NEW d \in Devs,
         Like(c, Identity(n, d))
  PROVE  c = n
<1>1. /\ c \in Seq(STRING) /\ n \in Seq(STRING) /\ d \in Seq(STRING)
      /\ Len(c) \in Nat /\ Len(n) \in Nat
  BY PortalAssumption
<1>2. SubSeq(n \o d, 1, Len(c)) = c /\ Len(c) < Len(n \o d) /\ Len(n \o d) = Len(n) + Len(d)
  BY <1>1 DEF Like, Identity
<1>3. CASE Len(c) < Len(n)
  <2>1. SubSeq(n \o d, 1, Len(c)) = SubSeq(n, 1, Len(c))
    BY <1>1, <1>3
  <2>2. Like(c, n)
    BY <1>2, <1>3, <2>1 DEF Like
  <2>3. QED
    BY <2>2
<1>4. CASE Len(n) < Len(c)
  <2>1. \A k \in 1..Len(n) : c[k] = n[k]
    BY <1>1, <1>2, <1>4
  <2>2. SubSeq(c, 1, Len(n)) = n
    BY <1>1, <1>4, <2>1
  <2>3. QED
    BY <1>4, <2>2 DEF Like
<1>5. CASE Len(c) = Len(n)
  <2>1. SubSeq(n \o d, 1, Len(n)) = n
    BY <1>1
  <2>2. QED
    BY <1>2, <1>5, <2>1
<1>6. QED
  BY <1>1, <1>3, <1>4, <1>5

LEMMA LinkedAll ==
  ASSUME Shape, OwnInv, RowsInv, DevOf, \A b, c \in Names : ~Like(b, c),
         NEW c \in Names, NEW i \in Ids, users[i] # NoRow, Like(c, i)
  PROVE  i \in Linked(c)
<1>1. RowOf(users[i]) = users[i].row /\ users[i].row \in Own(i)
  BY DEF OwnInv, RowOf
<1>2. CASE \A n \in Names : RowOf(devices[n]) # users[i].row
  BY <1>2 DEF Linked, Orphans
<1>3. CASE \E n \in Names : RowOf(devices[n]) = users[i].row
  <2>1. PICK n \in Names : DevRow(n) = users[i].row
    BY <1>3 DEF DevRow
  <2>2. DevRow(n) # NoRow
    BY <1>1, <2>1, OwnApart
  <2>3. PICK d \in Devs : DevRow(n) \in Own(Identity(n, d))
    BY <2>2 DEF DevOf
  <2>4. i = Identity(n, d)
    BY <1>1, <2>1, <2>3, OwnApart, IdentityType
  <2>5. c = n
    BY <2>4, LikeOwn
  <2>6. Is(devices[c], CustRow(c))
    BY <2>2, <2>5 DEF RowsInv, DevRow, RowOf, Is
  <2>7. QED
    BY <1>1, <2>1, <2>5, <2>6 DEF Linked, LinkedOnly, DevRow, CustRow
<1>4. QED
  BY <1>2, <1>3

LEMMA DeleteuserBegins ==
  ASSUME Shape, names \in [Requests -> SUBSET Ids], OwnInv, RowsInv, DevOf,
         \A b, c \in Names : ~Like(b, c),
         NEW w \in Requests, NEW c \in Names, DeleteuserCheck(w, c)
  PROVE  DeleteuserKnows(w)'
<1>1. /\ at'[w] = "refused" \/ (at'[w] = "deleteuser.rows" /\ customers[c] # NoRow)
      /\ cust'[w] = c /\ row'[w] = CustRow(c) /\ UNCHANGED <<customers, users, radcheck>>
      /\ sweep'[w] = Pairs(Linked(c))
      /\ names'[w] = Linked(c) \union
                      {i \in Ids : i = c \/ (radcheck[i] # NoRow /\ Like(c, i))}
  BY DEF DeleteuserCheck, Begin, Goto, Shape, tables, CustRow
<1>2. ASSUME NEW i \in Ids, Like(c, i)
      PROVE  /\ users[i] # NoRow => <<i, RowOf(users[i])>> \in sweep'[w]
             /\ radcheck[i] # NoRow => i \in names'[w]
  BY <1>1, <1>2, LinkedAll DEF Pairs
<1>3. QED
  BY <1>1, <1>2 DEF DeleteuserKnows, DeleteuserLater, CustRow

LEMMA DeleteuserGoesOn ==
  ASSUME Shape, names \in [Requests -> SUBSET Ids], RowsInv, Fine, NEW w \in Requests,
         DeleteuserKnows(w), UNCHANGED names,
         \/ DeleteuserRows(w) \/ DeleteuserRead(w) \/ DeleteuserWrite(w)
         \/ DeleteuserReload(w)
  PROVE  DeleteuserKnows(w)'
<1>1. /\ cust[w] \in Names /\ snap[w] \in AnyFiles /\ conf \in AnyFiles /\ names[w] \subseteq Ids
      /\ at \in [Requests -> Anywhere]
  BY DEF Shape
<1>2. faults' = 0 => faults = 0 /\ ~Fault
  BY BotStepsGo, NoFaultYet DEF BotLater
<1>3. CASE DeleteuserRows(w)
  <2>1. CASE Raise(w, "deleteuser.rows", "error")
    BY <1>1, <2>1 DEF Raise, Goto, DeleteuserKnows, DeleteuserLater
  <2>2. CASE /\ Goto(w, "deleteuser.rows", "deleteuser.read")
             /\ DropRadcheck(names[w]) /\ DropUsers(w)
             /\ devices' = [devices EXCEPT ![cust[w]] = IF Is(@, row[w]) THEN NoRow ELSE @]
             /\ customers' = [customers EXCEPT ![cust[w]] = IF Is(@, row[w]) THEN NoRow ELSE @]
             /\ UNCHANGED locals
    <3>1. /\ at[w] = "deleteuser.rows" /\ at'[w] = "deleteuser.read" /\ cust'[w] = cust[w]
      BY <1>1, <2>2 DEF Goto, locals
    <3>2. customers[cust[w]] # NoRow /\ row[w] = CustRow(cust[w])
      BY <3>1 DEF DeleteuserKnows
    <3>3. customers'[cust[w]] = NoRow
      BY <1>1, <2>2, <3>2 DEF CustRow, RowOf, Is, Shape
    <3>4. devices'[cust[w]] = NoRow
      <4>1. CASE devices[cust[w]] = NoRow
        BY <1>1, <2>2, <4>1 DEF Shape, Is
      <4>2. CASE devices[cust[w]] # NoRow
        <5>1. DevRow(cust[w]) = devices[cust[w]].row /\ DevRow(cust[w]) # NoRow
          BY <1>1, <4>2, RowOfType DEF DevRow, RowOf, Shape, Devices
        <5>2. Is(devices[cust[w]], row[w])
          BY <1>1, <3>2, <4>2, <5>1 DEF RowsInv, Is
        <5>3. QED
          BY <1>1, <2>2, <5>2 DEF Shape
      <4>3. QED
        BY <4>1, <4>2
    <3>5. ASSUME NEW i \in Ids, Like(cust[w], i) PROVE users'[i] = NoRow /\ radcheck'[i] = NoRow
      <4>1. /\ users[i] # NoRow => <<i, RowOf(users[i])>> \in sweep[w]
            /\ radcheck[i] # NoRow => i \in names[w]
        BY <3>1, <3>5 DEF DeleteuserKnows
      <4>2. QED
        BY <2>2, <4>1 DEF DropRadcheck, DropUsers
    <3>6. QED
      BY <3>1, <3>3, <3>4, <3>5 DEF DeleteuserKnows, DeleteuserLater
  <2>3. QED
    BY <1>3, <2>1, <2>2 DEF DeleteuserRows
<1>4. ASSUME UNCHANGED <<customers, devices, users, radcheck, cust>>, at[w] \in DeleteuserLater,
             at'[w] \in DeleteuserLater \union {"error", "ok"},
             at'[w] = "deleteuser.reload" /\ faults' = 0 => \A i \in names[w] : conf'.blk[i] = NoRow
      PROVE  DeleteuserKnows(w)'
  BY <1>4 DEF DeleteuserKnows, DeleteuserLater
<1>5. CASE DeleteuserRead(w)
  <2>1. /\ UNCHANGED <<customers, devices, users, radcheck, cust>> /\ at[w] = "deleteuser.read"
        /\ at'[w] \in {"deleteuser.write", "deleteuser.reload", "error"}
        /\ \/ at'[w] = "deleteuser.reload" => ~snap'[w].whole /\ Read(w)
           \/ Fault
    BY <1>1, <1>5 DEF DeleteuserRead, ReadThen, Raise, Goto, tables, locals
  <2>2. ~Fault /\ Read(w) => snap'[w] = conf
    BY DEF Read, Shape
  <2>3. at'[w] = "deleteuser.reload" => faults' # 0
    BY <1>2, <2>1, <2>2 DEF Fine
  <2>4. QED
    BY <1>4, <2>1, <2>3 DEF DeleteuserLater
<1>6. CASE DeleteuserWrite(w)
  <2>1. /\ UNCHANGED <<customers, devices, users, radcheck, cust>> /\ at[w] = "deleteuser.write"
        /\ at'[w] \in {"deleteuser.reload", "error"}
        /\ conf' = CutBlocks(snap[w], names[w]) \/ Fault
    BY <1>1, <1>6 DEF DeleteuserWrite, Write, Goto, tables, locals
  <2>2. \A i \in names[w] : CutBlocks(snap[w], names[w]).blk[i] = NoRow
    BY <1>1, CutBlocksType
  <2>3. QED
    BY <1>2, <1>4, <2>1, <2>2 DEF DeleteuserLater
<1>7. CASE DeleteuserReload(w)
  BY <1>1, <1>4, <1>7 DEF DeleteuserReload, Reload, Goto, tables, locals, DeleteuserLater
<1>8. QED
  BY <1>3, <1>5, <1>6, <1>7

\* Every request but /deleteuser goes to other points.
LEMMA OthersKnow ==
  ASSUME Shape, NEW w \in Requests, PortalStep(w) \/ BotFirst(w) \/ BotLater(w) \/ QuotaStep(w),
         \A c \in Names : ~DeleteuserCheck(w, c),
         ~(/\ UNCHANGED names
           /\ \/ DeleteuserRows(w) \/ DeleteuserRead(w) \/ DeleteuserWrite(w)
              \/ DeleteuserReload(w))
  PROVE  DeleteuserKnows(w)'
<1> USE DEF Ended, OrphanLater, CleanupLater, DeleteuserLater
<1>1. CASE PortalStep(w) \/ QuotaStep(w)
  BY <1>1, OthersGoElsewhere, ElsewhereKnows DEF BotPoints
<1>2. CASE \/ \E i \in Ids : OrphanCheck(w, i)
           \/ OrphanRows(w) \/ OrphanRead(w) \/ OrphanWrite(w) \/ OrphanAppend(w)
           \/ OrphanPut(w) \/ OrphanReload(w)
  BY <1>2, OrphanGoes, ElsewhereKnows
<1>3. CASE \/ \E s \in SUBSET Ids : CleanupCheck(w, s)
           \/ CleanupRows(w) \/ CleanupRead(w) \/ CleanupWrite(w) \/ CleanupReload(w)
  BY <1>3, CleanupGoes, ElsewhereKnows
<1>4. CASE RenewStatus(w) \/ \E c \in Names : RenewCheck(w, c)
  BY <1>4, RenewGoes, ElsewhereKnows
<1>5. QED
  BY <1>1, <1>2, <1>3, <1>4 DEF BotFirst, BotLater

DeletedInv == OwnInv /\ RowsInv /\ DevOf /\ \A w \in Requests : DeleteuserKnows(w)

LEMMA DeleteuserInit == AllInit => \A w \in Requests : DeleteuserKnows(w)
BY DEF AllInit, BotInit, Init, DeleteuserKnows, DeleteuserLater

LEMMA DeleteuserNext ==
  ASSUME IsFiniteSet(Requests), MaxAtOnce = 1, AllInv, FilesInv, SeqInv, KnowInv,
         DeletedInv, \A b, c \in Names : ~Like(b, c), [AllNext]_allVars
  PROVE  (\A w \in Requests : DeleteuserKnows(w))'
<1>1. Shape /\ Added /\ OneAtOnce
  BY AllShape DEF AllInv, SeqInv
<1>2. ASSUME NEW w \in Requests, PortalStep(w) \/ BotFirst(w) \/ BotLater(w) \/ QuotaStep(w)
      PROVE  \A v \in Requests : DeleteuserKnows(v)'
  <2>1. DeleteuserKnows(w)'
    <3>1. CASE \E c \in Names : DeleteuserCheck(w, c)
      BY <1>1, <3>1, DeleteuserBegins DEF DeletedInv, Added
    <3>2. CASE /\ UNCHANGED names
               /\ \/ DeleteuserRows(w) \/ DeleteuserRead(w) \/ DeleteuserWrite(w)
                  \/ DeleteuserReload(w)
      BY <1>1, <3>2, DeleteuserGoesOn DEF DeletedInv, Added, KnowInv
    <3>3. QED
      BY <1>1, <1>2, <3>1, <3>2, OthersKnow
  <2>2. Alone(w)
    BY <1>1, <1>2, StepsAlone
  <2>3. \A v \in Requests \ {w} : at'[v] = at[v]
    BY <1>1, <1>2, AllFinds DEF Finds
  <2>4. \A v \in Requests \ {w} : DeleteuserKnows(v)'
    BY <2>2, <2>3, AloneRests, RestKnows
  <2>5. QED
    BY <2>1, <2>4
<1>3. ASSUME NEW c \in Names, Cut(c) PROVE \A w \in Requests : DeleteuserKnows(w)'
  BY <1>3, CutKnows, RestKnows
<1>4. CASE UNCHANGED allVars
  BY <1>4 DEF allVars, vars, tables, gateway, locals, bounds, DeletedInv, DeleteuserKnows,
              CustRow, RowOf
<1>5. QED
  BY <1>2, <1>3, <1>4 DEF AllNext

\* As long as no customer's name is the beginning of another's, /deleteuser
\* leaves no identity of the customer in the tables when it reports success,
\* whatever its devices were called and whatever has failed before; and, until
\* a command fails, no block and no loaded secret of those that it found there.
THEOREM DeletedGoneInTurn ==
  ASSUME IsFiniteSet(Requests), MaxAtOnce = 1, \A b, c \in Names : ~Like(b, c)
  PROVE  AllSpec => DeletedGone
<1> DEFINE Inv == AllInv /\ AllOwn /\ FilesInv /\ SeqInv /\ KnowInv /\ DeletedInv
<1>1. AllInit => Inv
  BY AllInvInit, AllOwnInit, FilesInit, SeqInit, KnowInit, RowsInit, DevOfInit, DeleteuserInit
     DEF DeletedInv, AllOwn, AllInit, BotInit
<1>2. Inv /\ [AllNext]_allVars => Inv'
  <2> SUFFICES ASSUME Inv, [AllNext]_allVars PROVE Inv'
    OBVIOUS
  <2>1. AllInv' /\ AllOwn' /\ FilesInv' /\ SeqInv' /\ KnowInv'
    BY AllInvNext, AllOwnNext, FilesNext, SeqNext, KnowNext
  <2>2. RowsInv' /\ DevOf' /\ (\A w \in Requests : DeleteuserKnows(w))'
    BY AllRowsNext, DevOfNext, DeleteuserNext DEF DeletedInv
  <2>3. QED
    BY <2>1, <2>2 DEF DeletedInv, AllOwn
<1>3. Inv /\ [AllNext]_allVars
        => [\A w \in Requests : Ends(w, {"deleteuser.reload"}) =>
              /\ customers'[cust[w]] = NoRow /\ devices'[cust[w]] = NoRow
              /\ \A i \in Ids : Like(cust[w], i) => users'[i] = NoRow /\ radcheck'[i] = NoRow
              /\ faults = 0 =>
                   \A i \in names[w] : conf'.blk[i] = NoRow /\ charon'[i] = NoRow]_botVars
  <2> SUFFICES ASSUME Inv, [AllNext]_allVars, NEW w \in Requests, Ends(w, {"deleteuser.reload"})
               PROVE  /\ customers'[cust[w]] = NoRow /\ devices'[cust[w]] = NoRow
                      /\ \A i \in Ids : Like(cust[w], i) => users'[i] = NoRow /\ radcheck'[i] = NoRow
                      /\ faults = 0 =>
                           \A i \in names[w] : conf'.blk[i] = NoRow /\ charon'[i] = NoRow
    OBVIOUS
  <2>1. Shape /\ faults \in Nat /\ DeleteuserKnows(w)
    BY AllShape, PortalAssumption DEF AllInv, DeletedInv, Shape
  <2>2. at[w] = "deleteuser.reload" /\ at'[w] = "ok" /\ at[w] \in BotPoints
    BY DEF Ends, BotPoints, DeleteuserLater
  <2>3. DeleteuserReload(w)
    BY <2>1, <2>2, OnlyItEnds, CommandEnds
  <2>4. charon' = conf.blk /\ UNCHANGED <<tables, conf>>
    BY <2>1, <2>2, <2>3, LastReload DEF DeleteuserReload
  <2>5. QED
    BY <2>1, <2>2, <2>4 DEF DeleteuserKnows, DeleteuserLater, tables
<1>4. QED
  BY <1>1, <1>2, <1>3, PTL DEF AllSpec, DeletedGone
-----------------------------------------------------------------------------
(* The quota reset.  Until a command fails, a mark in the block of the      *)
(* customer's identity comes with a newest backup that has the customer's   *)
(* password, and an active customer's radcheck row is marked if and only if *)
(* the block is.                                                            *)

\* A device points to the identity.
Tied(i) == \E c \in Names : devices[c] # NoRow /\ Is(users[i], devices[c].row)
Active == \E c \in Names : Status(c) = "active"
Deviceless == \A c \in Names : devices[c] = NoRow

\* The password of the identity can be had: from its block or, when that is
\* marked, from the newest backup.
Kept(i) == \/ conf.blk[i] = users[i].pw
           \/ /\ conf.blk[i] = Disabled /\ backups # <<>>
              /\ backups[Len(backups)].blk[i] = users[i].pw
AtRest == \A i \in Ids : Tied(i) => Kept(i) /\ (Active => radcheck[i] = conf.blk[i])

\* Points of the requests between whose steps this does not hold, by what has
\* been done and what has not.
Replacing == {"rotate.read", "rotate.write", "unarchive.read", "unarchive.write"}
Replaced == {"rotate.reload", "rotate.radcheck", "unarchive.radcheck"}
Renewed == {"orphan.read", "orphan.write", "orphan.append", "orphan.put"}
Reviewing == {"reset.conf", "reset.newest", "reset.copy"}
Restored == {"reset.reload", "reset.audit"}
Accepted == {"reset.again"} \union Reviewing \union Restored
Between == {"unarchive.device", "unarchive.user"} \union Replacing \union Replaced
           \union Renewed \union Accepted

Finding == {"reset.radcheck", "reset.scan", "reset.enable"}
Rowed == {"archive.status", "unarchive.status", "unarchive.device", "delete.users",
          "delete.bare", "delete.look", "alone.bare", "alone.look",
          "delete.sweep", "alone.sweep", "delete.devices", "alone.devices",
          "deleteuser.rows", "reset.counters", "reset.device"} \union Finding \union Accepted
Undevised == {"alone.bare", "alone.look", "alone.sweep", "alone.devices"}
             \union DevicesGone \union DeleteuserLater

\* What holds at the points of a request, when it is the only one.
Meanwhile(w) ==
  /\ at[w] \notin Between => AtRest
  /\ at[w] \notin {"renew.status", "delete.cut", "alone.cut"}
  /\ at[w] \in Rowed => row[w] = CustRow(cust[w])
  /\ at[w] \in Undevised => Deviceless
  /\ at[w] \in Creates => customers[cust[w]] = NoRow
  /\ at[w] \in {"create.reload", "create.commit"} => conf.blk[id[w]] = w
  /\ at[w] \in {"rotate.user", "unarchive.user"} => Is(users[id[w]], row[w])
  /\ at[w] \in {"rotate.user", "unarchive.user"} \union Finding \union Reviewing => Tied(id[w])
  /\ at[w] \in {"unarchive.device", "unarchive.user"} => \A i \in Ids : Tied(i) => Kept(i)
  /\ at[w] \in Replacing => conf.blk[id[w]] # NoRow
  /\ at[w] \in Replaced => conf.blk[id[w]] = w
  /\ at[w] \in Replacing \union Replaced => Tied(id[w]) /\ users[id[w]].pw = w
  /\ at[w] \in {"archive.device", "archive.radcheck"} => ~Active
  /\ at[w] \in {"delete.devices", "alone.devices"} => \A s \in sweep[w] : ~Tied(s[1])
  /\ at[w] \in {"cleanup.rows"} \union CleanupLater => \A i \in names[w] : ~Tied(i)
  /\ at[w] = "cleanup.write" => ~Tied(id[w])
  /\ at[w] = "reset.scan" => radcheck[id[w]] = Disabled
  /\ at[w] = "reset.enable" => (Active => plain[w] = users[id[w]].pw)
  /\ at[w] \in Accepted =>
       \A i \in Ids : Tied(i) => Kept(i) /\ (Active => radcheck[i] = users[i].pw)
  /\ at[w] \in {"reset.newest", "reset.copy"} => conf.blk[id[w]] = Disabled
  /\ at[w] = "reset.copy" => newest[w] = Len(backups)
  /\ at[w] \in Restored => \A i \in Ids : Tied(i) => conf.blk[i] = users[i].pw

RestInv == faults = 0 =>
  /\ Quiet => AtRest
  /\ \A w \in Requests : Running(w) => Meanwhile(w)

\* A state in which nothing has failed, before a step that does not fail.
Clean(w) == /\ Shape /\ Added /\ OwnInv /\ RowsInv /\ Fine /\ Meanwhile(w)
            /\ faults = 0 /\ ~Fault /\ UNCHANGED backups
            /\ \A b, c \in Names : b = c

LEMMA TiedMeans ==
  ASSUME Shape, RowsInv, \A b, c \in Names : b = c, NEW c \in Names, NEW i \in Ids, Tied(i)
  PROVE  /\ devices[c] # NoRow /\ users[i] # NoRow /\ users[i].row = DevRow(c)
         /\ customers[c] # NoRow /\ CustRow(c) = DevRow(c) /\ DevRow(c) \in Rows
         /\ Is(devices[c], CustRow(c)) /\ i \in UserIds(CustRow(c))
         /\ users[i].pw \in Secrets
<1>1. users[i] # NoRow /\ devices[c] # NoRow /\ DevRow(c) = users[i].row
  BY DEF Tied, Is, DevRow, RowOf
<1>2. users[i].row \in Rows /\ NoRow \notin Rows /\ users[i].pw \in Secrets
  BY <1>1, PortalAssumption DEF Shape, Users, Rows
<1>3. CustRow(c) = DevRow(c)
  BY <1>1, <1>2 DEF RowsInv
<1>4. customers[c] # NoRow
  BY <1>1, <1>2, <1>3 DEF CustRow, RowOf
<1>5. QED
  BY <1>1, <1>2, <1>3, <1>4 DEF Is, UserIds, DevRow, RowOf

LEMMA FoundTied ==
  ASSUME NEW c \in Names, NEW n, Is(devices[c], n), NEW i \in UserIds(n) PROVE Tied(i)
BY DEF Is, UserIds, Tied

LEMMA OneTied ==
  ASSUME OwnInv, \A b, c \in Names : b = c, NEW i \in Ids, NEW j \in Ids, Tied(i), Tied(j)
  PROVE  i = j
BY OneIdentity DEF Tied, Is

LEMMA NoneTied == /\ Deviceless => AtRest /\ \A i : ~Tied(i)
                  /\ Deviceless' => AtRest' /\ \A i : ~Tied(i)'
BY DEF Deviceless, Tied, AtRest

\* What depends on some of the stores only.
LEMMA SameTied == ASSUME UNCHANGED <<users, devices>> PROVE \A i : Tied(i)' <=> Tied(i)
BY DEF Tied, Is

LEMMA SameActive == ASSUME UNCHANGED customers PROVE Active' <=> Active
BY DEF Active, Status

LEMMA SameKept ==
  ASSUME UNCHANGED <<users, conf, backups>> PROVE \A i : Kept(i)' <=> Kept(i)
BY DEF Kept

LEMMA SameRest ==
  ASSUME UNCHANGED <<customers, users, devices, radcheck, conf, backups>>
  PROVE  /\ AtRest' <=> AtRest
         /\ \A i : (Tied(i)' <=> Tied(i)) /\ (Kept(i)' <=> Kept(i))
         /\ (Active' <=> Active) /\ (Deviceless' <=> Deviceless)
         /\ \A c : CustRow(c)' = CustRow(c)
BY SameTied, SameActive, SameKept DEF AtRest, Deviceless, CustRow

-----------------------------------------------------------------------------
\* The first steps, from rest.
LEMMA Landing ==
  ASSUME Shape, NEW w \in Requests, NEW from, NEW to, Goto(w, from, to)
  PROVE  at[w] = from /\ at'[w] = to
BY DEF Shape, Goto

LEMMA BeginsAt ==
  ASSUME Shape, NEW w \in Requests, NEW c, NEW to, Begin(w, c, to)
  PROVE  at[w] = "idle" /\ at'[w] = to /\ cust'[w] = c /\ row'[w] = CustRow(c)
BY DEF Shape, Begin, Goto, CustRow

\* A step to a point at which nothing is known but that all is at rest.
Plain == {"refused", "error", "ok", "dead", "delete.users", "delete.bare", "orphan.rows",
          "orphan.reload", "unarchive.reload"}

LEMMA PlainMeanwhile ==
  ASSUME NEW w \in Requests, AtRest', at'[w] \in Plain,
         at'[w] \in Rowed => row'[w] = CustRow(cust[w])'
  PROVE  Meanwhile(w)'
BY DEF Meanwhile, Plain, Between, Replacing, Replaced, Renewed, Reviewing, Restored, Accepted,
       Finding, Rowed, Undevised, DevicesGone, DeleteuserLater, CleanupLater, Creates

LEMMA RenameMeanwhile ==
  ASSUME NEW w \in Requests, Clean(w), NEW c \in Names, NEW d \in Devs, RenameDevice(w, c, d)
  PROVE  Meanwhile(w)'
<1>1. /\ at[w] = "idle" /\ at'[w] = "ok" /\ devices' = [devices EXCEPT ![c].name = d]
      /\ UNCHANGED <<customers, users, radcheck, conf, backups>>
  BY BeginsAt DEF RenameDevice, Clean, gateway
<1>2. \A b \in Names : /\ devices'[b] # NoRow <=> devices[b] # NoRow
                       /\ devices[b] # NoRow => devices'[b].row = devices[b].row
  <2>1. devices \in [Names -> Devices] /\ devices[c] # NoRow
    BY DEF RenameDevice, Clean, Shape
  <2>2. devices'[c] # NoRow /\ devices'[c].row = devices[c].row
    <3>1. devices[c] \in [row : Rows, name : Devs]
      BY <2>1 DEF Devices
    <3>2. devices'[c] \in [row : Rows, name : Devs] /\ devices'[c].row = devices[c].row
      BY <1>1, <2>1, <3>1
    <3>3. QED
      BY <3>2, PortalAssumption DEF Rows
  <2>3. QED
    BY <1>1, <2>1, <2>2
<1>3. AtRest
  BY <1>1 DEF Clean, Meanwhile, Between, Replacing, Replaced, Renewed, Reviewing, Restored,
              Accepted
<1>4. AtRest'
  BY <1>1, <1>2, <1>3, SameActive, SameKept DEF AtRest, Tied, Is
<1>5. QED
  BY <1>1, <1>4, PlainMeanwhile DEF Plain, Rowed, Finding, Accepted, Reviewing, Restored

LEMMA StartMeanwhile ==
  ASSUME NEW w \in Requests, Clean(w), NEW c \in Names,
         \/ \E d \in Devs : CreateCheck(w, c, d)
         \/ RotateCheck(w, c) \/ ArchiveCheck(w, c) \/ UnarchiveCheck(w, c) \/ DeleteCheck(w, c)
         \/ DeleteuserCheck(w, c) \/ ResetCheck(w, c)
         \/ \E i \in Ids : OrphanCheck(w, i)
  PROVE  Meanwhile(w)'
<1> USE DEF Between, Replacing, Replaced, Renewed, Reviewing, Restored, Accepted, Finding,
            Rowed, Undevised, DevicesGone, DeleteuserLater, CleanupLater, Creates
<1>1. UNCHANGED <<customers, users, devices, radcheck, conf, backups>>
  BY DEF CreateCheck, RotateCheck, ArchiveCheck, UnarchiveCheck, DeleteCheck,
         DeleteuserCheck, ResetCheck, OrphanCheck, Clean, tables, gateway
<1>2. PICK b, to : Begin(w, b, to)
  BY DEF CreateCheck, RotateCheck, ArchiveCheck, UnarchiveCheck, DeleteCheck,
         DeleteuserCheck, ResetCheck, OrphanCheck
<1>3. Shape /\ RowsInv /\ OwnInv /\ \A a, n \in Names : a = n
  BY DEF Clean
<1>4. AtRest
  BY <1>2, <1>3, BeginsAt DEF Clean, Meanwhile
<1>5. AtRest' /\ \A i : Tied(i)' <=> Tied(i)
  BY <1>1, <1>4, SameRest
<1>6. CustRow(c)' = CustRow(c)
  BY <1>1, SameRest
<1>7. CASE \E d \in Devs : CreateCheck(w, c, d)
  <2>1. /\ at'[w] \in {"create.exists", "refused"} /\ cust'[w] = c
        /\ at'[w] = "create.exists" => customers[c] = NoRow
    BY <1>3, <1>7, BeginsAt DEF CreateCheck
  <2>2. QED
    BY <1>1, <1>5, <2>1 DEF Meanwhile
<1>8. CASE RotateCheck(w, c)
  <2>1. CASE /\ Is(devices[c], CustRow(c)) /\ Begin(w, c, "rotate.user")
             /\ \E i \in UserIds(CustRow(c)) : id' = [id EXCEPT ![w] = i]
    <3>1. PICK i \in UserIds(CustRow(c)) : id' = [id EXCEPT ![w] = i]
      BY <2>1
    <3>2. /\ at'[w] = "rotate.user" /\ row'[w] = CustRow(c) /\ id'[w] = i
      BY <1>3, <2>1, <3>1, BeginsAt DEF Shape
    <3>3. Tied(i) /\ Is(users[i], CustRow(c))
      BY <2>1, FoundTied DEF UserIds
    <3>4. QED
      BY <1>1, <1>5, <3>2, <3>3 DEF Meanwhile
  <2>2. CASE Begin(w, c, "refused")
    BY <1>3, <1>5, <2>2, BeginsAt, PlainMeanwhile DEF Plain
  <2>3. QED
    BY <1>8, <2>1, <2>2 DEF RotateCheck, CustRow
<1>9. CASE ArchiveCheck(w, c) \/ UnarchiveCheck(w, c) \/ DeleteuserCheck(w, c) \/ ResetCheck(w, c)
  <2>1. /\ at'[w] \in {"archive.status", "unarchive.status", "deleteuser.rows",
                      "reset.counters", "refused"}
        /\ cust'[w] = c /\ row'[w] = CustRow(c)
    BY <1>3, <1>9, BeginsAt DEF ArchiveCheck, UnarchiveCheck, DeleteuserCheck, ResetCheck
  <2>2. QED
    BY <1>5, <1>6, <2>1 DEF Meanwhile
<1>10. CASE DeleteCheck(w, c)
  <2>1. /\ at'[w] \in {"delete.users", "alone.bare", "refused"}
        /\ at'[w] = "alone.bare" => ~Is(devices[c], CustRow(c))
        /\ cust'[w] = c /\ row'[w] = CustRow(c)
    BY <1>3, <1>10, BeginsAt DEF DeleteCheck, CustRow
  <2>2. ~Is(devices[c], CustRow(c)) => Deviceless
    <3>1. devices[c] # NoRow => Is(devices[c], CustRow(c))
      BY <1>3, PortalAssumption DEF RowsInv, Shape, Devices, Rows, Is, DevRow, RowOf
    <3>2. QED
      BY <1>3, <3>1 DEF Deviceless
  <2>3. Deviceless' <=> Deviceless
    BY <1>1 DEF Deviceless
  <2>4. QED
    BY <1>5, <1>6, <2>1, <2>2, <2>3 DEF Meanwhile
<1>11. CASE \E i \in Ids : OrphanCheck(w, i)
  <2>1. at'[w] \in {"orphan.rows", "refused"}
    BY <1>3, <1>11, BeginsAt DEF OrphanCheck
  <2>2. QED
    BY <1>5, <2>1, PlainMeanwhile DEF Plain
<1>12. QED
  BY <1>7, <1>8, <1>9, <1>10, <1>11

LEMMA CleanupStarts ==
  ASSUME NEW w \in Requests, Clean(w), NEW s \in SUBSET Ids, CleanupCheck(w, s)
  PROVE  Meanwhile(w)'
<1>1. /\ at[w] = "idle" /\ UNCHANGED <<customers, users, devices, radcheck, conf, backups>>
      /\ at'[w] \in {"cleanup.rows", "refused"} /\ names'[w] = s
      /\ at'[w] = "cleanup.rows" => \A i \in s, n \in Names : RowOf(devices[n]) # users[i].row
  BY DEF CleanupCheck, Goto, Clean, Shape, Added, tables, gateway
<1>2. AtRest
  BY <1>1 DEF Clean, Meanwhile, Between, Replacing, Replaced, Renewed, Reviewing, Restored,
              Accepted
<1>3. AtRest' /\ \A i : Tied(i)' <=> Tied(i)
  BY <1>1, <1>2, SameRest
<1>4. at'[w] = "cleanup.rows" => \A i \in s : ~Tied(i)
  BY <1>1 DEF Tied, Is, RowOf
<1>5. QED
  BY <1>1, <1>3, <1>4
     DEF Meanwhile, Between, Replacing, Replaced, Renewed, Reviewing, Restored, Accepted,
         Finding, Rowed, Undevised, DevicesGone, DeleteuserLater, CleanupLater, Creates

-----------------------------------------------------------------------------
\* What a step does that does not fail.
LEMMA CleanWrite ==
  ASSUME NEW w \in Requests, Clean(w), NEW from, NEW new, NEW to, NEW onRaise,
         Write(w, from, new, to, onRaise)
  PROVE  /\ at[w] = from /\ at'[w] = to /\ conf' = new
         /\ UNCHANGED <<customers, users, devices, radcheck, charon, locals, backups>>
         /\ from \in Writes => snap[w] = conf
<1>1. Shape /\ ~Fault /\ faults = 0 /\ Fine /\ UNCHANGED backups
  BY DEF Clean
<1>2. Goto(w, from, to) /\ conf' = new /\ UNCHANGED <<tables, charon, locals>>
  BY <1>1 DEF Write
<1>3. at[w] = from /\ at'[w] = to
  BY <1>1, <1>2, Landing
<1>4. QED
  BY <1>1, <1>2, <1>3 DEF Fine, tables

LEMMA CleanReload ==
  ASSUME NEW w \in Requests, Clean(w), NEW from, NEW to, NEW onRaise,
         Reload(w, from, to, onRaise)
  PROVE  /\ at[w] = from /\ at'[w] = to
         /\ UNCHANGED <<customers, users, devices, radcheck, conf, locals, backups>>
<1>1. Shape /\ ~Fault /\ UNCHANGED backups
  BY DEF Clean
<1>2. Goto(w, from, to) /\ UNCHANGED <<tables, conf, locals>>
  BY <1>1 DEF Reload
<1>3. QED
  BY <1>1, <1>2, Landing DEF tables

\* The identity that a request finds is the one the device points to.
LEMMA CleanFind ==
  ASSUME NEW w \in Requests, Clean(w), NEW from, NEW to, NEW otherwise,
         FindDevice(w, from, to, otherwise)
  PROVE  /\ at[w] = from
         /\ UNCHANGED <<customers, users, devices, radcheck, conf, cust, row, backups>>
         /\ \/ at'[w] = to /\ Tied(id'[w]) /\ Is(users[id'[w]], row[w]) /\ id'[w] \in Ids
            \/ /\ at'[w] = otherwise
               /\ row[w] = CustRow(cust[w]) => \A i \in Ids : ~Tied(i)
<1>1. Shape /\ ~Fault /\ RowsInv /\ UNCHANGED backups /\ \A b, c \in Names : b = c
  BY DEF Clean
<1>2. cust[w] \in Names
  BY <1>1 DEF Shape
<1>3. UNCHANGED <<customers, users, devices, radcheck, conf, cust, row, backups>>
  BY <1>1 DEF FindDevice, Raise, tables, gateway
<1>4. CASE /\ Is(devices[cust[w]], row[w]) /\ Goto(w, from, to)
           /\ \E i \in UserIds(row[w]) : id' = [id EXCEPT ![w] = i]
  <2>1. PICK i \in UserIds(row[w]) : id' = [id EXCEPT ![w] = i]
    BY <1>4
  <2>2. id'[w] = i /\ i \in Ids
    BY <1>1, <2>1 DEF Shape, UserIds
  <2>3. Tied(i) /\ Is(users[i], row[w])
    BY <1>2, <1>4, FoundTied DEF UserIds
  <2>4. QED
    BY <1>1, <1>3, <1>4, <2>2, <2>3, Landing
<1>5. CASE /\ ~(Is(devices[cust[w]], row[w]) /\ UserIds(row[w]) # {})
           /\ Goto(w, from, otherwise)
  <2>1. ASSUME row[w] = CustRow(cust[w]), NEW i \in Ids PROVE ~Tied(i)
    BY <1>1, <1>2, <1>5, <2>1, TiedMeans
  <2>2. QED
    BY <1>1, <1>3, <1>5, <2>1, Landing
<1>6. QED
  BY <1>1, <1>4, <1>5 DEF FindDevice, Raise

LEMMA RestsHere ==
  ASSUME NEW w \in Requests, Clean(w), at[w] \notin Between PROVE AtRest
BY DEF Clean, Meanwhile

\* Nothing is known of points without a device but that.
LEMMA GoneMeanwhile ==
  ASSUME NEW w \in Requests, Deviceless', at'[w] \in DevicesGone \union DeleteuserLater \union Ended
  PROVE  Meanwhile(w)'
<1>1. AtRest'
  BY NoneTied
<1>2. QED
  BY <1>1
     DEF Meanwhile, Between, Replacing, Replaced, Renewed, Reviewing, Restored, Accepted,
         Finding, Rowed, Undevised, DevicesGone, DeleteuserLater, CleanupLater, Creates, Ended

-----------------------------------------------------------------------------
\* Creating.
LEMMA NoCustomer ==
  ASSUME Shape, RowsInv, \A b, c \in Names : b = c, NEW c \in Names, customers[c] = NoRow
  PROVE  Deviceless
<1>1. DevRow(c) = NoRow
  BY DEF RowsInv, CustRow, RowOf
<1>2. devices[c] = NoRow
  BY <1>1, PortalAssumption DEF DevRow, RowOf, Shape, Devices, Rows
<1>3. QED
  BY <1>2 DEF Deviceless

LEMMA CreateMeanwhile ==
  ASSUME NEW w \in Requests, Clean(w),
         \/ CreateExists(w) \/ CreateInsert(w) \/ CreateAppend(w) \/ CreateReload(w)
  PROVE  Meanwhile(w)'
<1>1. Shape /\ RowsInv /\ ~Fault /\ \A b, c \in Names : b = c
  BY DEF Clean
<1>2. /\ UNCHANGED <<customers, users, devices, radcheck, conf, cust, id, backups>>
      /\ at[w] \in Creates
      /\ at'[w] \in {"create.insert", "create.append", "create.write", "create.commit",
                     "refused", "error"}
      /\ at'[w] = "create.commit" => at[w] = "create.reload"
  <2> USE <1>1 DEF Creates
  <2>1. CASE CreateExists(w)
    <3>1. \E to \in {"create.insert", "refused"} : Goto(w, "create.exists", to)
      BY <2>1 DEF CreateExists, ReadThen, Raise
    <3>2. QED
      BY <2>1, <3>1, Landing
         DEF CreateExists, ReadThen, Raise, tables, gateway, Clean
  <2>2. CASE CreateAppend(w)
    <3>1. \E to \in {"create.write", "error"} : Goto(w, "create.append", to)
      BY <2>2 DEF CreateAppend, ReadThen, Raise
    <3>2. QED
      BY <2>2, <3>1, Landing
         DEF CreateAppend, ReadThen, Raise, tables, gateway, Clean
  <2>3. CASE CreateInsert(w)
    <3>1. \E to \in {"create.append", "error"} : Goto(w, "create.insert", to)
      BY <2>3 DEF CreateInsert, Raise
    <3>2. QED
      BY <2>3, <3>1, Landing DEF CreateInsert, Raise, tables, gateway, locals, Clean
  <2>4. CASE CreateReload(w)
    BY <2>4, CleanReload DEF CreateReload, locals
  <2>5. QED
    BY <2>1, <2>2, <2>3, <2>4
<1>3. customers[cust[w]] = NoRow /\ (at[w] = "create.reload" => conf.blk[id[w]] = w)
  BY <1>2 DEF Clean, Meanwhile
<1>4. cust[w] \in Names
  BY <1>1 DEF Shape
<1>5. Deviceless
  BY <1>1, <1>3, <1>4, NoCustomer
<1>6. AtRest'
  BY <1>2, <1>5, NoneTied, SameRest
<1>7. QED
  BY <1>2, <1>3, <1>6
     DEF Meanwhile, Between, Replacing, Replaced, Renewed, Reviewing, Restored, Accepted,
         Finding, Rowed, Undevised, DevicesGone, DeleteuserLater, CleanupLater, Creates

LEMMA CreateWriteMeanwhile ==
  ASSUME NEW w \in Requests, Clean(w), CreateWrite(w) PROVE Meanwhile(w)'
<1>1. /\ at[w] = "create.write" /\ at'[w] = "create.reload"
      /\ conf' = PutBlock(snap[w], id[w], w) /\ snap[w] = conf
      /\ UNCHANGED <<customers, devices, cust, id>>
  BY CleanWrite DEF CreateWrite, Writes, Sighted, locals
<1>2. Shape /\ RowsInv /\ (\A b, c \in Names : b = c) /\ id[w] \in Ids /\ cust[w] \in Names
  BY DEF Clean, Shape
<1>3. customers[cust[w]] = NoRow
  BY <1>1 DEF Clean, Meanwhile, Creates
<1>4. AtRest'
  BY <1>1, <1>2, <1>3, NoCustomer, NoneTied DEF Deviceless
<1>5. conf'.blk[id[w]] = w
  BY <1>1, <1>2, Puts
<1>6. QED
  BY <1>1, <1>3, <1>4, <1>5
     DEF Meanwhile, Between, Replacing, Replaced, Renewed, Reviewing, Restored, Accepted,
         Finding, Rowed, Undevised, DevicesGone, DeleteuserLater, CleanupLater, Creates

LEMMA CommitMeanwhile ==
  ASSUME NEW w \in Requests, Clean(w), CreateCommit(w) PROVE Meanwhile(w)'
<1>1. Shape /\ OwnInv /\ RowsInv /\ ~Fault /\ (\A b, c \in Names : b = c) /\ UNCHANGED backups
      /\ id[w] \in Ids /\ cust[w] \in Names
  BY DEF Clean, Shape
<1>2. /\ Goto(w, "create.commit", "ok")
      /\ users' = [users EXCEPT ![id[w]] = [row |-> w, pw |-> w]]
      /\ \E d \in Devs : devices' = [devices EXCEPT ![cust[w]] = [row |-> w, name |-> d]]
      /\ radcheck' = [radcheck EXCEPT ![id[w]] = w]
      /\ UNCHANGED conf
  BY <1>1 DEF CreateCommit, Raise, gateway
<1>3. at[w] = "create.commit" /\ at'[w] = "ok"
  BY <1>1, <1>2, Landing
<1>4. conf.blk[id[w]] = w
  BY <1>3 DEF Clean, Meanwhile
<1>5. ASSUME NEW i \in Ids, Tied(i)' PROVE i = id[w]
  <2>1. users'[i] # NoRow /\ users'[i].row = w
    BY <1>1, <1>2, <1>5 DEF Tied, Is, Shape
  <2>2. ASSUME i # id[w] PROVE FALSE
    <3>1. users[i] # NoRow /\ users[i].row = w
      BY <1>1, <1>2, <2>1, <2>2 DEF Shape
    <3>2. w \in Own(i)
      BY <1>1, <3>1 DEF OwnInv
    <3>3. QED
      BY <2>2, <3>2, PortalAssumption DEF Own
  <2>3. QED
    BY <2>2
<1>6. /\ users'[id[w]].pw = w /\ radcheck'[id[w]] = w /\ conf'.blk[id[w]] = w
  BY <1>1, <1>2, <1>4 DEF Shape
<1>7. AtRest'
  BY <1>5, <1>6 DEF AtRest, Kept
<1>8. QED
  BY <1>3, <1>7, PlainMeanwhile DEF Plain, Rowed, Finding, Accepted, Reviewing, Restored

-----------------------------------------------------------------------------
\* Replacing the secret: rotating and unarchiving.
LEMMA UserMeanwhile ==
  ASSUME NEW w \in Requests, Clean(w), RotateUser(w) \/ UnarchiveUser(w) PROVE Meanwhile(w)'
<1>1. Shape /\ ~Fault /\ UNCHANGED backups /\ id[w] \in Ids /\ w \in Secrets
  BY DEF Clean, Shape, Secrets
<1>2. \E p \in {<<"rotate.user", "rotate.read">>, <<"unarchive.user", "unarchive.read">>} :
        PutUser(w, p[1], p[2])
  BY DEF RotateUser, UnarchiveUser
<1>3. /\ at[w] \in {"rotate.user", "unarchive.user"}
      /\ at'[w] \in {"rotate.read", "unarchive.read"}
      /\ users' = [users EXCEPT ![id[w]] =
                     IF Is(@, row[w]) THEN [row |-> row[w], pw |-> w] ELSE @]
      /\ UNCHANGED <<customers, devices, conf, id>>
  <2>1. ASSUME NEW from, NEW to, PutUser(w, from, to)
        PROVE  /\ at[w] = from /\ at'[w] = to
               /\ users' = [users EXCEPT ![id[w]] =
                              IF Is(@, row[w]) THEN [row |-> row[w], pw |-> w] ELSE @]
               /\ UNCHANGED <<customers, devices, conf, id>>
    BY <1>1, <2>1, Landing DEF PutUser, Raise, gateway, locals
  <2>2. QED
    BY <1>2, <2>1
<1>4. Is(users[id[w]], row[w]) /\ Tied(id[w]) /\ Kept(id[w])
  <2>1. Is(users[id[w]], row[w]) /\ Tied(id[w])
    BY <1>3 DEF Clean, Meanwhile
  <2>2. (\A i \in Ids : Tied(i) => Kept(i)) \/ AtRest
    BY <1>3 DEF Clean, Meanwhile, Between, Replacing, Replaced, Renewed, Reviewing, Restored,
                Accepted
  <2>3. QED
    BY <1>1, <2>1, <2>2 DEF AtRest
<1>5. conf.blk[id[w]] # NoRow
  <2>1. users[id[w]].pw \in Secrets
    BY <1>1, <1>4 DEF Is, Shape, Users
  <2>2. QED
    BY <1>4, <2>1, PortalAssumption DEF Kept
<1>6. users'[id[w]] = [row |-> row[w], pw |-> w]
  BY <1>1, <1>3, <1>4 DEF Shape
<1>7. row[w] \in Rows /\ users[id[w]].row = row[w]
  BY <1>1, <1>4 DEF Is, Shape, Users
<1>8. Tied(id[w])' /\ users'[id[w]].pw = w
  <2>1. users'[id[w]] # NoRow
    BY <1>1, <1>6, <1>7, PortalAssumption DEF Rows
  <2>2. PICK c \in Names : devices[c] # NoRow /\ users[id[w]].row = devices[c].row
    BY <1>4 DEF Tied, Is
  <2>3. users'[id[w]].row = devices[c].row /\ users'[id[w]].pw = w
    BY <1>6, <1>7, <2>2
  <2>4. QED
    BY <1>3, <2>1, <2>2, <2>3 DEF Tied, Is
<1>9. QED
  BY <1>3, <1>5, <1>8
     DEF Meanwhile, Between, Replacing, Replaced, Renewed, Reviewing, Restored, Accepted,
         Finding, Rowed, Undevised, DevicesGone, DeleteuserLater, CleanupLater, Creates

LEMMA ReplaceMeanwhile ==
  ASSUME NEW w \in Requests, Clean(w),
         \/ RotateRead(w) \/ UnarchiveRead(w) \/ RotateWrite(w) \/ UnarchiveWrite(w)
         \/ RotateReload(w)
  PROVE  Meanwhile(w)'
<1>1. Shape /\ ~Fault /\ UNCHANGED backups /\ id[w] \in Ids
  BY DEF Clean, Shape
<1>2. CASE RotateRead(w) \/ UnarchiveRead(w)
  <2>1. at[w] \in {"rotate.read", "unarchive.read"} /\ UNCHANGED <<users, devices, conf, id>>
        /\ \/ Goto(w, at[w], IF conf.blk[id[w]] # NoRow THEN "rotate.write" ELSE "error")
           \/ Goto(w, at[w], IF conf.blk[id[w]] # NoRow THEN "unarchive.write"
                             ELSE "unarchive.radcheck")
    <3>1. Read(w) => snap'[w] = conf
      BY <1>1 DEF Read, Shape
    <3>2. QED
      BY <1>1, <1>2, <3>1 DEF RotateRead, UnarchiveRead, ReadThen, Raise, Goto, tables, gateway
  <2>2. conf.blk[id[w]] # NoRow /\ Tied(id[w]) /\ users[id[w]].pw = w
    BY <2>1 DEF Clean, Meanwhile, Replacing
  <2>3. at'[w] \in {"rotate.write", "unarchive.write"}
    BY <1>1, <2>1, <2>2, Landing
  <2>4. Tied(id[w])'
    BY <2>1, <2>2, SameTied
  <2>5. QED
    BY <2>1, <2>2, <2>3, <2>4
     DEF Meanwhile, Between, Replacing, Replaced, Renewed, Reviewing, Restored, Accepted,
         Finding, Rowed, Undevised, DevicesGone, DeleteuserLater, CleanupLater, Creates
<1>3. CASE RotateWrite(w) \/ UnarchiveWrite(w)
  <2>1. /\ at[w] \in {"rotate.write", "unarchive.write"}
        /\ at'[w] \in {"rotate.reload", "unarchive.radcheck"}
        /\ conf' = PutBlock(snap[w], id[w], w) /\ snap[w] = conf
        /\ UNCHANGED <<users, devices, id>>
    BY <1>3, CleanWrite DEF RotateWrite, UnarchiveWrite, Writes, Sighted, locals
  <2>2. conf'.blk[id[w]] = w
    BY <1>1, <2>1, Puts
  <2>3. Tied(id[w]) /\ users[id[w]].pw = w
    BY <2>1 DEF Clean, Meanwhile, Replacing
  <2>4. Tied(id[w])'
    BY <2>1, <2>3, SameTied
  <2>5. QED
    BY <2>1, <2>2, <2>3, <2>4
     DEF Meanwhile, Between, Replacing, Replaced, Renewed, Reviewing, Restored, Accepted,
         Finding, Rowed, Undevised, DevicesGone, DeleteuserLater, CleanupLater, Creates
<1>4. CASE RotateReload(w)
  <2>1. /\ at[w] = "rotate.reload" /\ at'[w] = "rotate.radcheck"
        /\ UNCHANGED <<users, devices, conf, id>>
    BY <1>4, CleanReload DEF RotateReload, locals
  <2>2. Tied(id[w]) /\ users[id[w]].pw = w /\ conf.blk[id[w]] = w
    BY <2>1 DEF Clean, Meanwhile, Replaced
  <2>3. Tied(id[w])'
    BY <2>1, <2>2, SameTied
  <2>4. QED
    BY <2>1, <2>2, <2>3
     DEF Meanwhile, Between, Replacing, Replaced, Renewed, Reviewing, Restored, Accepted,
         Finding, Rowed, Undevised, DevicesGone, DeleteuserLater, CleanupLater, Creates
<1>5. QED
  BY <1>2, <1>3, <1>4

LEMMA RadcheckMeanwhile ==
  ASSUME NEW w \in Requests, Clean(w), RotateRadcheck(w) \/ UnarchiveRadcheck(w)
  PROVE  Meanwhile(w)'
<1>1. /\ Shape /\ OwnInv /\ ~Fault /\ UNCHANGED backups /\ id[w] \in Ids
      /\ \A b, c \in Names : b = c
  BY DEF Clean, Shape
<1>2. /\ radcheck' = [radcheck EXCEPT ![id[w]] = w]
      /\ UNCHANGED <<customers, users, devices, conf>>
      /\ Goto(w, "rotate.radcheck", "ok") \/ Goto(w, "unarchive.radcheck", "unarchive.reload")
  BY <1>1 DEF RotateRadcheck, UnarchiveRadcheck, PutRadcheck, Raise, gateway
<1>3. /\ at[w] \in {"rotate.radcheck", "unarchive.radcheck"}
      /\ at'[w] \in {"ok", "unarchive.reload"}
  BY <1>1, <1>2, Landing
<1>4. Tied(id[w]) /\ users[id[w]].pw = w /\ conf.blk[id[w]] = w
  BY <1>3 DEF Clean, Meanwhile, Replaced
<1>5. radcheck'[id[w]] = w
  BY <1>1, <1>2 DEF Shape
<1>6. \A i \in Ids : Tied(i)' => i = id[w]
  BY <1>1, <1>2, <1>4, SameTied, OneTied
<1>7. AtRest'
  BY <1>2, <1>4, <1>5, <1>6 DEF AtRest, Kept
<1>8. QED
  BY <1>3, <1>7, PlainMeanwhile DEF Plain, Rowed, Finding, Accepted, Reviewing, Restored

-----------------------------------------------------------------------------
\* Archiving and unarchiving: the status.
LEMMA StatusMeanwhile ==
  ASSUME NEW w \in Requests, Clean(w), ArchiveStatus(w) \/ UnarchiveStatus(w)
  PROVE  Meanwhile(w)'
<1>1. /\ Shape /\ ~Fault /\ UNCHANGED backups /\ cust[w] \in Names
      /\ \A b, c \in Names : b = c
  BY DEF Clean, Shape
<1>2. /\ UNCHANGED <<users, devices, radcheck, conf, cust, row>>
      /\ \/ Goto(w, "archive.status", "archive.device") /\ SetStatus(w, "archived")
         \/ Goto(w, "unarchive.status", "unarchive.device") /\ SetStatus(w, "active")
  BY <1>1 DEF ArchiveStatus, UnarchiveStatus, Raise, gateway, locals
<1>3. at[w] \in {"archive.status", "unarchive.status"} /\ row[w] = CustRow(cust[w]) /\ AtRest
  BY <1>1, <1>2, Landing
     DEF Clean, Meanwhile, Rowed, Between, Replacing, Replaced, Renewed, Reviewing, Restored,
         Accepted
<1>4. \A i : (Tied(i)' <=> Tied(i)) /\ (Kept(i)' <=> Kept(i))
  BY <1>1, <1>2, SameTied, SameKept
<1>5. ASSUME NEW s \in {"active", "archived"}, SetStatus(w, s)
      PROVE  CustRow(cust[w])' = row[w] /\ (s = "archived" => ~Active')
  <2>1. CASE customers[cust[w]] = NoRow
    <3>1. customers'[cust[w]] = NoRow
      BY <1>1, <1>5, <2>1 DEF SetStatus, Is, Shape
    <3>2. QED
      BY <1>1, <1>2, <1>3, <2>1, <3>1, PortalAssumption DEF CustRow, RowOf, Active, Status
  <2>2. CASE customers[cust[w]] # NoRow
    <3>1. Is(customers[cust[w]], row[w]) /\ row[w] \in Rows
      BY <1>1, <1>3, <2>2 DEF Is, CustRow, RowOf, Shape, Customers
    <3>2. customers'[cust[w]] = [row |-> row[w], status |-> s]
      BY <1>1, <1>5, <3>1 DEF SetStatus, Shape
    <3>3. customers'[cust[w]] # NoRow
      BY <3>1, <3>2, PortalAssumption DEF Rows
    <3>4. QED
      BY <1>1, <1>2, <3>2, <3>3 DEF CustRow, RowOf, Active, Status
  <2>3. QED
    BY <2>1, <2>2
<1>6. CASE Goto(w, "archive.status", "archive.device") /\ SetStatus(w, "archived")
  <2>1. at'[w] = "archive.device" /\ ~Active'
    BY <1>1, <1>5, <1>6, Landing
  <2>2. AtRest'
    BY <1>3, <1>4, <2>1 DEF AtRest
  <2>3. QED
    BY <2>1, <2>2
     DEF Meanwhile, Between, Replacing, Replaced, Renewed, Reviewing, Restored, Accepted,
         Finding, Rowed, Undevised, DevicesGone, DeleteuserLater, CleanupLater, Creates
<1>7. CASE Goto(w, "unarchive.status", "unarchive.device") /\ SetStatus(w, "active")
  <2>1. at'[w] = "unarchive.device" /\ CustRow(cust[w])' = row'[w]
    BY <1>1, <1>2, <1>5, <1>7, Landing
  <2>2. \A i \in Ids : Tied(i)' => Kept(i)'
    BY <1>3, <1>4 DEF AtRest
  <2>3. QED
    BY <2>1, <2>2
     DEF Meanwhile, Between, Replacing, Replaced, Renewed, Reviewing, Restored, Accepted,
         Finding, Rowed, Undevised, DevicesGone, DeleteuserLater, CleanupLater, Creates
<1>8. QED
  BY <1>2, <1>6, <1>7

LEMMA ArchiveMeanwhile ==
  ASSUME NEW w \in Requests, Clean(w),
         ArchiveDevice(w) \/ ArchiveRadcheck(w) \/ UnarchiveDevice(w) \/ UnarchiveReload(w)
  PROVE  Meanwhile(w)'
<1> USE DEF Meanwhile, Between, Replacing, Replaced, Renewed, Reviewing, Restored, Accepted,
            Finding, Rowed, Undevised, DevicesGone, DeleteuserLater, CleanupLater, Creates
<1>1. CASE ArchiveDevice(w)
  <2>1. /\ at[w] = "archive.device" /\ at'[w] \in {"archive.radcheck", "ok"}
        /\ UNCHANGED <<customers, users, devices, radcheck, conf, backups>>
    BY <1>1, CleanFind DEF ArchiveDevice
  <2>2. AtRest /\ ~Active
    BY <2>1 DEF Clean
  <2>3. AtRest' /\ ~Active'
    BY <2>1, <2>2, SameRest
  <2>4. QED
    BY <2>1, <2>3
<1>2. CASE ArchiveRadcheck(w)
  <2>1. Shape /\ ~Fault /\ UNCHANGED backups
    BY DEF Clean
  <2>2. /\ Goto(w, "archive.radcheck", "ok") /\ UNCHANGED <<customers, users, devices, conf>>
    BY <1>2, <2>1 DEF ArchiveRadcheck, Raise, gateway
  <2>3. at[w] = "archive.radcheck" /\ at'[w] = "ok"
    BY <2>1, <2>2, Landing
  <2>4. AtRest /\ ~Active
    BY <2>3 DEF Clean
  <2>5. AtRest'
    BY <2>1, <2>2, <2>4, SameTied, SameKept, SameActive DEF AtRest
  <2>6. QED
    BY <2>3, <2>5
<1>3. CASE UnarchiveDevice(w)
  <2>1. /\ at[w] = "unarchive.device"
        /\ UNCHANGED <<customers, users, devices, radcheck, conf, cust, row, backups>>
        /\ \/ at'[w] = "unarchive.user" /\ Tied(id'[w]) /\ Is(users[id'[w]], row[w])
           \/ /\ at'[w] = "ok"
              /\ row[w] = CustRow(cust[w]) => \A i \in Ids : ~Tied(i)
    BY <1>3, CleanFind DEF UnarchiveDevice
  <2>2. /\ row[w] = CustRow(cust[w])
        /\ \A i \in Ids : Tied(i) => Kept(i)
    BY <2>1 DEF Clean
  <2>3. \A i : (Tied(i)' <=> Tied(i)) /\ (Kept(i)' <=> Kept(i))
    BY <2>1, SameRest
  <2>4. at'[w] = "ok" => AtRest'
    BY <2>1, <2>2, <2>3 DEF AtRest
  <2>5. QED
    BY <2>1, <2>2, <2>3, <2>4
<1>4. CASE UnarchiveReload(w)
  <2>1. /\ at[w] = "unarchive.reload" /\ at'[w] = "ok"
        /\ UNCHANGED <<customers, users, devices, radcheck, conf, backups>>
    BY <1>4, CleanReload DEF UnarchiveReload
  <2>2. AtRest
    BY <2>1 DEF Clean
  <2>3. AtRest'
    BY <2>1, <2>2, SameRest
  <2>4. QED
    BY <2>1, <2>3
<1>5. QED
  BY <1>1, <1>2, <1>3, <1>4

-----------------------------------------------------------------------------
\* Deleting.
LEMMA DeleteUsersMeanwhile ==
  ASSUME NEW w \in Requests, Clean(w), DeleteUsers(w) PROVE Meanwhile(w)'
<1>1. Shape /\ ~Fault /\ UNCHANGED backups
  BY DEF Clean
<1>2. /\ Goto(w, "delete.users", "delete.bare") /\ users' = [users EXCEPT ![id[w]] = NoRow]
      /\ UNCHANGED <<customers, devices, radcheck, conf, cust, row>>
  BY <1>1 DEF DeleteUsers, Raise, gateway, locals
<1>3. at[w] = "delete.users" /\ at'[w] = "delete.bare"
  BY <1>1, <1>2, Landing
<1>4. AtRest /\ row[w] = CustRow(cust[w])
  BY <1>3 DEF Clean, Meanwhile, Between, Replacing, Replaced, Renewed, Reviewing, Restored,
              Accepted, Rowed
<1>5. \A i \in Ids : Tied(i)' => Tied(i) /\ users'[i] = users[i]
  BY <1>1, <1>2 DEF Tied, Is, Shape
<1>6. AtRest'
  BY <1>1, <1>2, <1>4, <1>5, SameActive DEF AtRest, Kept
<1>7. row'[w] = CustRow(cust[w])'
  BY <1>2, <1>4 DEF CustRow
<1>8. QED
  BY <1>3, <1>6, <1>7, PlainMeanwhile DEF Plain

\* With one customer's name no identity reads like it: nothing bears the bare
\* name, and no block is cut for it.
LEMMA NoBareName ==
  ASSUME \A b, c \in Names : b = c, NEW c \in Names PROVE c \notin Ids
<1> SUFFICES ASSUME c \in Ids PROVE FALSE
  OBVIOUS
<1>1. PICK n \in Names, d \in Devs : c = n \o d
  BY DEF Ids, Identity
<1>2. n = c /\ n \in Seq(STRING) /\ d \in Seq(STRING) /\ d # <<>>
  BY PortalAssumption
<1>3. Len(n \o d) = Len(n) + Len(d) /\ Len(n) \in Nat /\ Len(d) \in Nat /\ Len(d) # 0
  BY <1>2
<1>4. QED
  BY <1>1, <1>2, <1>3

LEMMA BareMeanwhile ==
  ASSUME NEW w \in Requests, Clean(w), DeleteBare(w) \/ DeleteLook(w) PROVE Meanwhile(w)'
<1>1. Shape /\ ~Fault /\ UNCHANGED backups /\ cust[w] \in Names /\ cust[w] \notin Ids
  BY NoBareName DEF Clean, Shape
<1>2. /\ \/ at[w] = "delete.bare" /\ at'[w] = "delete.look"
         \/ at[w] = "alone.bare" /\ at'[w] = "alone.look"
         \/ at[w] = "delete.look" /\ at'[w] = "delete.sweep"
         \/ at[w] = "alone.look" /\ at'[w] = "alone.sweep"
      /\ UNCHANGED <<customers, users, devices, radcheck, conf, cust, row>>
  <2>1. CASE DeleteBare(w)
    <3>1. /\ \/ Goto(w, "delete.bare", "delete.look") \/ Goto(w, "alone.bare", "alone.look")
          /\ DropRadcheck({cust[w]})
          /\ UNCHANGED <<customers, users, devices, conf, cust, row>>
      BY <1>1, <2>1 DEF DeleteBare, DropBare, Raise, gateway, locals
    <3>2. radcheck' = radcheck
      BY <1>1, <3>1 DEF DropRadcheck, Shape
    <3>3. QED
      BY <1>1, <3>1, <3>2, Landing
  <2>2. CASE DeleteLook(w)
    <3>1. /\ \/ Goto(w, "delete.look", "delete.sweep") \/ Goto(w, "alone.look", "alone.sweep")
          /\ UNCHANGED <<customers, users, devices, radcheck, conf, cust, row>>
      BY <1>1, <2>2 DEF DeleteLook, LookBare, ReadThen, Raise, tables, gateway
    <3>2. QED
      BY <1>1, <3>1, Landing
  <2>3. QED
    BY <2>1, <2>2
<1>3. /\ AtRest /\ row[w] = CustRow(cust[w])
      /\ at[w] \in {"alone.bare", "alone.look"} => Deviceless
  BY <1>2 DEF Clean, Meanwhile, Between, Replacing, Replaced, Renewed, Reviewing, Restored,
              Accepted, Rowed, Undevised
<1>4. /\ AtRest' /\ row'[w] = CustRow(cust[w])'
      /\ at'[w] \in {"alone.look", "alone.sweep"} => Deviceless'
  BY <1>1, <1>2, <1>3, SameRest DEF CustRow
<1>5. QED
  BY <1>2, <1>4
     DEF Meanwhile, Between, Replacing, Replaced, Renewed, Reviewing, Restored, Accepted,
         Finding, Rowed, Undevised, DevicesGone, DeleteuserLater, CleanupLater, Creates

LEMMA OrphansMeanwhile ==
  ASSUME NEW w \in Requests, Clean(w), DeleteOrphans(w) PROVE Meanwhile(w)'
<1>1. Shape /\ UNCHANGED backups
  BY DEF Clean
<1>2. /\ \/ at[w] = "delete.sweep" /\ at'[w] = "delete.devices"
         \/ at[w] = "alone.sweep" /\ at'[w] = "alone.devices"
      /\ sweep'[w] = {<<i, RowOf(users[i])>> : i \in Orphans(cust[w])}
      /\ UNCHANGED <<customers, users, devices, radcheck, conf, cust, row, backups>>
  BY <1>1, Landing DEF DeleteOrphans, Shape, tables, gateway
<1>3. AtRest /\ row[w] = CustRow(cust[w]) /\ (at[w] = "alone.sweep" => Deviceless)
  BY <1>2 DEF Clean, Meanwhile, Between, Replacing, Replaced, Renewed, Reviewing, Restored,
              Accepted, Rowed, Undevised
<1>4. \A s \in sweep'[w] : ~Tied(s[1])
  BY <1>2 DEF Orphans, Tied, Is, RowOf
<1>5. /\ AtRest' /\ \A i : Tied(i)' <=> Tied(i)
      /\ at'[w] = "alone.devices" => Deviceless'
  BY <1>2, <1>3, SameRest
<1>6. row'[w] = CustRow(cust[w])'
  BY <1>2, <1>3 DEF CustRow
<1>7. QED
  BY <1>2, <1>4, <1>5, <1>6
     DEF Meanwhile, Between, Replacing, Replaced, Renewed, Reviewing, Restored, Accepted,
         Finding, Rowed, Undevised, DevicesGone, DeleteuserLater, CleanupLater, Creates

LEMMA OrphanMeanwhile ==
  ASSUME NEW w \in Requests, Clean(w), DeleteOrphan(w) PROVE Meanwhile(w)'
<1>1. Shape /\ ~Fault /\ UNCHANGED backups
  BY DEF Clean
<1>2. PICK s \in sweep[w] :
        /\ at[w] \in {"delete.devices", "alone.devices"} /\ UNCHANGED at
        /\ users' = [users EXCEPT ![s[1]] = IF Is(@, s[2]) THEN NoRow ELSE @]
        /\ radcheck' = [radcheck EXCEPT ![s[1]] = NoRow]
        /\ sweep' = [sweep EXCEPT ![w] = @ \ {s}]
        /\ UNCHANGED <<customers, devices, conf, cust, row>>
  BY <1>1 DEF DeleteOrphan, gateway
<1>3. /\ AtRest /\ row[w] = CustRow(cust[w]) /\ (at[w] = "alone.devices" => Deviceless)
      /\ \A t \in sweep[w] : ~Tied(t[1])
  BY <1>2 DEF Clean, Meanwhile, Between, Replacing, Replaced, Renewed, Reviewing, Restored,
              Accepted, Rowed, Undevised
<1>4. s[1] \in Ids /\ sweep[w] \subseteq Ids \X Rows /\ sweep'[w] \subseteq sweep[w]
  BY <1>1, <1>2 DEF Shape
<1>5. \A i \in Ids : Tied(i)' => Tied(i) /\ users'[i] = users[i]
  BY <1>1, <1>2, <1>4 DEF Tied, Is, Shape
<1>6. \A i \in Ids : Tied(i)' => radcheck'[i] = radcheck[i]
  BY <1>1, <1>2, <1>3, <1>4, <1>5 DEF Shape
<1>7. AtRest'
  BY <1>1, <1>2, <1>3, <1>5, <1>6, SameActive DEF AtRest, Kept
<1>8. \A t \in sweep'[w] : ~Tied(t[1])'
  BY <1>3, <1>4, <1>5
<1>9. row'[w] = CustRow(cust[w])' /\ (at'[w] = "alone.devices" => Deviceless')
  BY <1>2, <1>3 DEF CustRow, Deviceless
<1>10. QED
  BY <1>2, <1>7, <1>8, <1>9
     DEF Meanwhile, Between, Replacing, Replaced, Renewed, Reviewing, Restored, Accepted,
         Finding, Rowed, Undevised, DevicesGone, DeleteuserLater, CleanupLater, Creates

\* From the devices on, and a /deleteuser once its transaction is through.
LEMMA DevicesGoMeanwhile ==
  ASSUME NEW w \in Requests, Clean(w), DeleteDevices(w) \/ DeleteuserRows(w)
  PROVE  Meanwhile(w)'
<1>1. /\ Shape /\ RowsInv /\ ~Fault /\ cust[w] \in Names /\ \A b, c \in Names : b = c
  BY DEF Clean, Shape
<1>2. /\ devices' = [devices EXCEPT ![cust[w]] = IF Is(@, row[w]) THEN NoRow ELSE @]
      /\ \/ Goto(w, "delete.devices", "delete.read") \/ Goto(w, "alone.devices", "delete.reload")
         \/ Goto(w, "deleteuser.rows", "deleteuser.read")
  BY <1>1 DEF DeleteDevices, DeleteuserRows, Raise
<1>3. /\ at[w] \in {"delete.devices", "alone.devices", "deleteuser.rows"}
      /\ at'[w] \in {"delete.read", "delete.reload", "deleteuser.read"}
  BY <1>1, <1>2, Landing
<1>4. row[w] = CustRow(cust[w])
  BY <1>3 DEF Clean, Meanwhile, Rowed
<1>5. devices[cust[w]] # NoRow => Is(devices[cust[w]], row[w])
  BY <1>1, <1>4, PortalAssumption DEF RowsInv, Shape, Devices, Rows, Is, DevRow, RowOf
<1>6. devices'[cust[w]] = NoRow
  BY <1>1, <1>2, <1>5 DEF Shape
<1>7. Deviceless'
  BY <1>1, <1>6 DEF Deviceless
<1>8. QED
  BY <1>3, <1>7, GoneMeanwhile DEF DevicesGone, DeleteuserLater

LEMMA AfterMeanwhile ==
  ASSUME NEW w \in Requests, Clean(w),
         \/ DeleteRead(w) \/ DeleteWrite(w) \/ DeleteRadcheck(w) \/ DeleteReload(w)
         \/ DeleteCustomer(w)
         \/ DeleteuserRead(w) \/ DeleteuserWrite(w) \/ DeleteuserReload(w)
  PROVE  Meanwhile(w)'
<1>1. Shape /\ ~Fault
  BY DEF Clean
<1>2. /\ UNCHANGED devices /\ at[w] \in DevicesGone \union DeleteuserLater
      /\ at'[w] \in DevicesGone \union DeleteuserLater \union Ended
  <2> USE DEF DevicesGone, DeleteuserLater, Ended
  <2>1. CASE DeleteRead(w) \/ DeleteuserRead(w)
    <3>1. /\ UNCHANGED devices
          /\ \/ \E to \in {"delete.write", "delete.radcheck"} : Goto(w, "delete.read", to)
             \/ \E to \in {"deleteuser.write", "deleteuser.reload"} :
                  Goto(w, "deleteuser.read", to)
      BY <1>1, <2>1 DEF DeleteRead, DeleteuserRead, ReadThen, Raise, tables
    <3>2. QED
      BY <1>1, <3>1, Landing
  <2>2. CASE DeleteWrite(w) \/ DeleteuserWrite(w)
    BY <2>2, CleanWrite DEF DeleteWrite, DeleteuserWrite
  <2>3. CASE DeleteReload(w) \/ DeleteuserReload(w)
    BY <2>3, CleanReload DEF DeleteReload, DeleteuserReload
  <2>4. CASE DeleteRadcheck(w) \/ DeleteCustomer(w)
    BY <1>1, <2>4, Landing DEF DeleteRadcheck, DeleteCustomer, Raise
  <2>5. QED
    BY <2>1, <2>2, <2>3, <2>4
<1>3. Deviceless
  BY <1>2 DEF Clean, Meanwhile, Undevised
<1>4. QED
  BY <1>2, <1>3, GoneMeanwhile DEF Deviceless

-----------------------------------------------------------------------------
\* The bot's other commands.
LEMMA CleanupRowsMeanwhile ==
  ASSUME NEW w \in Requests, Clean(w), CleanupRows(w), UNCHANGED names PROVE Meanwhile(w)'
<1>1. Shape /\ Added /\ ~Fault /\ UNCHANGED backups
  BY DEF Clean
<1>2. /\ Goto(w, "cleanup.rows", "cleanup.read") /\ DropRadcheck(names[w]) /\ DropUsers(w)
      /\ UNCHANGED <<customers, devices, conf>>
  BY <1>1 DEF CleanupRows, Raise, gateway
<1>3. at[w] = "cleanup.rows" /\ at'[w] = "cleanup.read"
  BY <1>1, <1>2, Landing
<1>4. AtRest /\ \A i \in names[w] : ~Tied(i)
  BY <1>3 DEF Clean, Meanwhile, Between, Replacing, Replaced, Renewed, Reviewing, Restored,
              Accepted
<1>5. \A i \in Ids : Tied(i)' => Tied(i) /\ users'[i] = users[i]
  BY <1>1, <1>2 DEF DropUsers, Tied, Is
<1>6. names[w] \subseteq Ids
  BY <1>1 DEF Added
<1>7. \A i \in Ids : Tied(i)' => radcheck'[i] = radcheck[i]
  BY <1>2, <1>4, <1>5 DEF DropRadcheck
<1>8. AtRest'
  BY <1>1, <1>2, <1>4, <1>5, <1>7, SameActive DEF AtRest, Kept
<1>9. \A i \in names'[w] : ~Tied(i)'
  BY <1>4, <1>5, <1>6
<1>10. QED
  BY <1>3, <1>8, <1>9
     DEF Meanwhile, Between, Replacing, Replaced, Renewed, Reviewing, Restored, Accepted,
         Finding, Rowed, Undevised, DevicesGone, DeleteuserLater, CleanupLater, Creates

LEMMA CleanupMeanwhile ==
  ASSUME NEW w \in Requests, Clean(w),
         CleanupRead(w) \/ CleanupWrite(w) \/ (CleanupReload(w) /\ UNCHANGED names)
  PROVE  Meanwhile(w)'
<1> USE DEF Meanwhile, Between, Replacing, Replaced, Renewed, Reviewing, Restored, Accepted,
            Finding, Rowed, Undevised, DevicesGone, DeleteuserLater, CleanupLater, Creates
<1>1. Shape /\ Added /\ ~Fault /\ UNCHANGED backups /\ id[w] \in Ids
  BY DEF Clean, Shape
<1>2. CASE CleanupRead(w)
  <2>1. PICK i \in names[w] :
          /\ at[w] \in {"cleanup.read", "cleanup.again"}
          /\ id' = [id EXCEPT ![w] = i]
          /\ \/ at' = [at EXCEPT ![w] = "cleanup.write"] /\ UNCHANGED names
             \/ UNCHANGED at /\ names' = [names EXCEPT ![w] = @ \ {i}]
          /\ UNCHANGED <<customers, users, devices, radcheck, conf, backups>>
    BY <1>1, <1>2 DEF CleanupRead, Raise, tables, gateway
  <2>2. AtRest /\ \A j \in names[w] : ~Tied(j)
    BY <2>1 DEF Clean
  <2>3. AtRest' /\ \A j : Tied(j)' <=> Tied(j)
    BY <2>1, <2>2, SameRest
  <2>4. /\ names'[w] \subseteq names[w] /\ id'[w] = i
        /\ at'[w] \in {"cleanup.read", "cleanup.again", "cleanup.write"}
    BY <1>1, <2>1 DEF Shape, Added
  <2>5. QED
    BY <2>1, <2>2, <2>3, <2>4
<1>3. CASE CleanupWrite(w)
  <2>1. /\ at[w] = "cleanup.write" /\ at'[w] = "cleanup.again"
        /\ conf' = CutBlock(snap[w], id[w]) /\ snap[w] = conf
        /\ names' = [names EXCEPT ![w] = @ \ {id[w]}]
        /\ UNCHANGED <<customers, users, devices, radcheck, backups>>
    BY <1>3, CleanWrite DEF CleanupWrite, Writes, Sighted
  <2>2. AtRest /\ ~Tied(id[w]) /\ \A j \in names[w] : ~Tied(j)
    BY <2>1 DEF Clean
  <2>3. \A j \in Ids : conf'.blk[j] = IF j = id[w] THEN NoRow ELSE conf.blk[j]
    BY <1>1, <2>1, Puts
  <2>4. \A j : Tied(j)' <=> Tied(j)
    BY <2>1, SameTied
  <2>5. AtRest'
    BY <2>1, <2>2, <2>3, <2>4, SameActive DEF AtRest, Kept
  <2>6. names'[w] \subseteq names[w]
    BY <1>1, <2>1 DEF Added
  <2>7. QED
    BY <2>1, <2>2, <2>4, <2>5, <2>6
<1>4. CASE CleanupReload(w) /\ UNCHANGED names
  <2>1. /\ at[w] \in {"cleanup.read", "cleanup.again"} /\ at'[w] = "ok"
        /\ UNCHANGED <<customers, users, devices, radcheck, conf, backups>>
    <3>1. CASE Goto(w, "cleanup.read", "ok") /\ UNCHANGED <<tables, gateway, locals, bounds>>
      BY <1>1, <3>1, Landing DEF tables, gateway
    <3>2. CASE Reload(w, "cleanup.again", "ok", "ok")
      BY <3>2, CleanReload
    <3>3. QED
      BY <1>4, <3>1, <3>2 DEF CleanupReload
  <2>2. AtRest
    BY <2>1 DEF Clean
  <2>3. AtRest'
    BY <2>1, <2>2, SameRest
  <2>4. QED
    BY <2>1, <2>3
<1>5. QED
  BY <1>2, <1>3, <1>4

LEMMA RenewedMeanwhile ==
  ASSUME NEW w \in Requests, Clean(w), OrphanKnows(w),
         \/ OrphanRows(w) \/ OrphanRead(w) \/ OrphanWrite(w) \/ OrphanAppend(w)
         \/ OrphanPut(w) \/ OrphanReload(w)
  PROVE  Meanwhile(w)'
<1> USE DEF Meanwhile, Between, Replacing, Replaced, Renewed, Reviewing, Restored, Accepted,
            Finding, Rowed, Undevised, DevicesGone, DeleteuserLater, CleanupLater, Creates
<1>1. /\ Shape /\ OwnInv /\ RowsInv /\ ~Fault /\ UNCHANGED backups /\ id[w] \in Ids
      /\ cust[w] \in Names /\ \A b, c \in Names : b = c
  BY DEF Clean, Shape
<1>2. CASE OrphanRows(w)
  <2>1. CASE Goto(w, "orphan.rows", "orphan.read")
    BY <1>1, <2>1, Landing
  <2>2. CASE Goto(w, "orphan.rows", "error") /\ UNCHANGED <<tables, gateway>>
    <3>1. at[w] = "orphan.rows" /\ at'[w] = "error"
      BY <1>1, <2>2, Landing
    <3>2. AtRest
      BY <3>1 DEF Clean
    <3>3. AtRest'
      BY <1>1, <2>2, <3>2, SameRest DEF tables, gateway
    <3>4. QED
      BY <3>1, <3>3
  <2>3. QED
    BY <1>1, <1>2, <2>1, <2>2 DEF OrphanRows, Raise
<1>3. CASE OrphanRead(w) \/ OrphanWrite(w)
  <2>1. at'[w] \in {"orphan.write", "orphan.append"}
    <3>1. CASE OrphanRead(w)
      BY <1>1, <3>1, Landing DEF OrphanRead, ReadThen, Raise
    <3>2. CASE OrphanWrite(w)
      BY <3>2, CleanWrite DEF OrphanWrite
    <3>3. QED
      BY <1>3, <3>1, <3>2
  <2>2. QED
    BY <2>1
<1>4. CASE OrphanAppend(w)
  <2>1. /\ at[w] = "orphan.append"
        /\ Goto(w, "orphan.append", IF conf.whole /\ conf.blk[id[w]] = NoRow
                                    THEN "orphan.put" ELSE "error")
    <3>1. Read(w) => snap'[w] = conf
      BY <1>1 DEF Read, Shape
    <3>2. QED
      BY <1>1, <1>4, <3>1 DEF OrphanAppend, ReadThen, Raise, Goto
  <2>2. conf.whole /\ conf.blk[id[w]] = NoRow
    BY <2>1 DEF Clean, Fine, OrphanKnows
  <2>3. at'[w] = "orphan.put"
    BY <1>1, <2>1, <2>2, Landing
  <2>4. QED
    BY <2>3
<1>5. CASE OrphanPut(w)
  <2>1. /\ at[w] = "orphan.put" /\ at'[w] = "orphan.reload"
        /\ conf' = PutBlock(snap[w], id[w], w) /\ snap[w] = conf
        /\ UNCHANGED <<customers, users, devices, radcheck, backups>>
    BY <1>5, CleanWrite DEF OrphanPut, Writes, Sighted
  <2>2. conf'.blk[id[w]] = w
    BY <1>1, <2>1, Puts
  <2>3. /\ customers[cust[w]] = [row |-> w, status |-> "active"]
        /\ users[id[w]] = [row |-> w, pw |-> w] /\ radcheck[id[w]] = w
    BY <2>1 DEF OrphanKnows, OrphanLater
  <2>4. ASSUME NEW i \in Ids, Tied(i) PROVE i = id[w]
    <3>1. users[i] # NoRow /\ users[i].row = w
      <4>1. users[i] # NoRow /\ users[i].row = CustRow(cust[w]) /\ customers[cust[w]] # NoRow
        BY <1>1, <2>4, TiedMeans
      <4>2. CustRow(cust[w]) = w
        BY <2>3, <4>1 DEF CustRow, RowOf
      <4>3. QED
        BY <4>1, <4>2
    <3>2. w \in Own(i)
      BY <1>1, <3>1 DEF OwnInv
    <3>3. QED
      BY <3>2, PortalAssumption DEF Own
  <2>5. AtRest'
    BY <2>1, <2>2, <2>3, <2>4, SameTied DEF AtRest, Kept
  <2>6. QED
    BY <2>1, <2>5
<1>6. CASE OrphanReload(w)
  <2>1. /\ at[w] = "orphan.reload" /\ at'[w] = "ok"
        /\ UNCHANGED <<customers, users, devices, radcheck, conf, backups>>
    BY <1>6, CleanReload DEF OrphanReload
  <2>2. AtRest
    BY <2>1 DEF Clean
  <2>3. AtRest'
    BY <2>1, <2>2, SameRest
  <2>4. QED
    BY <2>1, <2>3
<1>7. QED
  BY <1>2, <1>3, <1>4, <1>5, <1>6

-----------------------------------------------------------------------------
\* The reset itself.
LEMMA TiedPassword ==
  ASSUME Shape, NEW i \in Ids, Tied(i)
  PROVE  users[i].pw \in Secrets /\ users[i].pw \notin {NoRow, Disabled}
BY PortalAssumption DEF Tied, Is, Shape, Users

LEMMA ResetFindMeanwhile ==
  ASSUME NEW w \in Requests, Clean(w), ResetCounters(w) \/ ResetDevice(w) \/ ResetAgain(w)
  PROVE  Meanwhile(w)'
<1> USE DEF Meanwhile, Between, Replacing, Replaced, Renewed, Reviewing, Restored, Accepted,
            Finding, Rowed, Undevised, DevicesGone, DeleteuserLater, CleanupLater, Creates
<1>1. Shape /\ ~Fault /\ UNCHANGED backups
  BY DEF Clean
<1>2. CASE ResetCounters(w)
  <2>1. /\ at[w] = "reset.counters" /\ at'[w] = "reset.device"
        /\ UNCHANGED <<customers, users, devices, radcheck, conf, cust, row, backups>>
    BY <1>1, <1>2, Landing DEF ResetCounters, Raise, tables, gateway, locals
  <2>2. AtRest /\ row[w] = CustRow(cust[w])
    BY <2>1 DEF Clean
  <2>3. AtRest' /\ row'[w] = CustRow(cust[w])'
    BY <2>1, <2>2, SameRest DEF CustRow
  <2>4. QED
    BY <2>1, <2>3
<1>3. CASE ResetDevice(w)
  <2>1. /\ at[w] = "reset.device"
        /\ UNCHANGED <<customers, users, devices, radcheck, conf, cust, row, backups>>
        /\ \/ at'[w] = "reset.radcheck" /\ Tied(id'[w]) /\ id'[w] \in Ids
           \/ /\ at'[w] = "reset.again"
              /\ row[w] = CustRow(cust[w]) => \A i \in Ids : ~Tied(i)
    BY <1>3, CleanFind DEF ResetDevice
  <2>2. AtRest /\ row[w] = CustRow(cust[w])
    BY <2>1 DEF Clean
  <2>3. AtRest' /\ row'[w] = CustRow(cust[w])' /\ \A i : Tied(i)' <=> Tied(i)
    BY <2>1, <2>2, SameRest DEF CustRow
  <2>4. CASE at'[w] = "reset.radcheck"
    <3>1. Tied(id[w])'
      BY <2>1, <2>4 DEF Tied, Is
    <3>2. QED
      BY <2>3, <2>4, <3>1
  <2>5. CASE at'[w] = "reset.again"
    BY <2>1, <2>2, <2>3, <2>5
  <2>6. QED
    BY <2>1, <2>4, <2>5
<1>4. CASE ResetAgain(w)
  <2>1. /\ at[w] = "reset.again"
        /\ UNCHANGED <<customers, users, devices, radcheck, conf, cust, row, backups>>
        /\ \/ at'[w] = "reset.conf" /\ Tied(id'[w]) /\ id'[w] \in Ids
           \/ /\ at'[w] = "reset.audit"
              /\ row[w] = CustRow(cust[w]) => \A i \in Ids : ~Tied(i)
    BY <1>4, CleanFind DEF ResetAgain
  <2>2. /\ row[w] = CustRow(cust[w])
        /\ \A i \in Ids : Tied(i) => Kept(i) /\ (Active => radcheck[i] = users[i].pw)
    BY <2>1 DEF Clean
  <2>3. /\ row'[w] = CustRow(cust[w])' /\ (Active' <=> Active)
        /\ \A i : (Tied(i)' <=> Tied(i)) /\ (Kept(i)' <=> Kept(i))
    BY <2>1, <2>2, SameRest DEF CustRow
  <2>4. \A i \in Ids : Tied(i)' => Kept(i)' /\ (Active' => radcheck'[i] = users'[i].pw)
    BY <2>1, <2>2, <2>3
  <2>5. CASE at'[w] = "reset.conf"
    <3>1. Tied(id[w])'
      BY <2>1, <2>5 DEF Tied, Is
    <3>2. QED
      BY <2>3, <2>4, <2>5, <3>1
  <2>6. CASE at'[w] = "reset.audit"
    BY <2>1, <2>2, <2>3, <2>4, <2>6
  <2>7. QED
    BY <2>1, <2>5, <2>6
<1>5. QED
  BY <1>2, <1>3, <1>4

LEMMA ResetRadcheckMeanwhile ==
  ASSUME NEW w \in Requests, Clean(w), ResetRadcheck(w) PROVE Meanwhile(w)'
<1>1. Shape /\ OwnInv /\ ~Fault /\ UNCHANGED backups /\ id[w] \in Ids /\ \A b, c \in Names : b = c
  BY DEF Clean, Shape
<1>2. /\ at[w] = "reset.radcheck"
      /\ at'[w] = IF radcheck[id[w]] = Disabled THEN "reset.scan" ELSE "reset.again"
      /\ UNCHANGED <<customers, users, devices, radcheck, conf, cust, row, id, backups>>
  BY <1>1, Landing DEF ResetRadcheck, Raise, tables, gateway, locals
<1>3. AtRest /\ row[w] = CustRow(cust[w]) /\ Tied(id[w])
  BY <1>2 DEF Clean, Meanwhile, Between, Replacing, Replaced, Renewed, Reviewing, Restored,
              Accepted, Finding, Rowed
<1>4. /\ AtRest' /\ row'[w] = CustRow(cust[w])' /\ (Active' <=> Active)
      /\ \A i : (Tied(i)' <=> Tied(i)) /\ (Kept(i)' <=> Kept(i))
  BY <1>2, <1>3, SameRest DEF CustRow
<1>5. Tied(id[w])'
  BY <1>2, <1>3, SameTied
<1>6. CASE radcheck[id[w]] = Disabled
  BY <1>2, <1>4, <1>5, <1>6
     DEF Meanwhile, Between, Replacing, Replaced, Renewed, Reviewing, Restored, Accepted,
         Finding, Rowed, Undevised, DevicesGone, DeleteuserLater, CleanupLater, Creates
<1>7. CASE radcheck[id[w]] # Disabled
  <2>1. Active => radcheck[id[w]] = users[id[w]].pw
    BY <1>1, <1>3, <1>7 DEF AtRest, Kept
  <2>2. \A i \in Ids : Tied(i) => Kept(i) /\ (Active => radcheck[i] = users[i].pw)
    BY <1>1, <1>3, <2>1, OneTied DEF AtRest
  <2>3. \A i \in Ids : Tied(i)' => Kept(i)' /\ (Active' => radcheck'[i] = users'[i].pw)
    BY <1>2, <1>4, <2>2
  <2>4. QED
    BY <1>2, <1>4, <1>7, <2>3
     DEF Meanwhile, Between, Replacing, Replaced, Renewed, Reviewing, Restored, Accepted,
         Finding, Rowed, Undevised, DevicesGone, DeleteuserLater, CleanupLater, Creates
<1>8. QED
  BY <1>6, <1>7

\* The newest backup with the block is the newest, when that has it.
LEMMA LatestLast ==
  ASSUME Added, NEW i, Len(backups) \in Holding(i) PROVE Latest(Holding(i)) = Len(backups)
<1>1. Len(backups) \in Nat /\ DOMAIN backups = 1..Len(backups)
  BY DEF Added
<1>2. Holding(i) \subseteq 1..Len(backups)
  BY <1>1 DEF Holding
<1>3. \A j \in Holding(i) : j <= Len(backups) /\ j \in Nat
  BY <1>1, <1>2
<1>4. \A k \in Holding(i) : (\A j \in Holding(i) : j <= k) => k = Len(backups)
  BY <1>1, <1>3
<1>5. QED
  BY <1>3, <1>4 DEF Latest

LEMMA ResetScanMeanwhile ==
  ASSUME NEW w \in Requests, Clean(w), ResetScan(w) PROVE Meanwhile(w)'
<1>1. Shape /\ Added /\ OwnInv /\ ~Fault /\ UNCHANGED backups /\ id[w] \in Ids
      /\ \A b, c \in Names : b = c
  BY DEF Clean, Shape
<1>2. /\ Goto(w, "reset.scan",
              IF plain'[w] \in {NoRow, Disabled} THEN "reset.again" ELSE "reset.enable")
      /\ UNCHANGED <<customers, users, devices, radcheck, conf, cust, row, id, backups>>
  BY <1>1 DEF ResetScan, Raise, tables, gateway, locals
<1>3. /\ at[w] = "reset.scan"
      /\ at'[w] = IF plain'[w] \in {NoRow, Disabled} THEN "reset.again" ELSE "reset.enable"
  BY <1>1, <1>2, Landing
<1>4. plain'[w] = IF Holding(id[w]) = {} THEN NoRow
                  ELSE backups[Latest(Holding(id[w]))].blk[id[w]]
  <2>1. PICK failed \in {{}} \union {{k} : k \in DOMAIN backups} \union {DOMAIN backups} :
          /\ plain' = [plain EXCEPT ![w] =
               IF Holding(id[w]) \ failed = {} THEN NoRow
               ELSE backups[Latest(Holding(id[w]) \ failed)].blk[id[w]]]
          /\ IF failed = {} THEN UNCHANGED bounds ELSE Fault
    BY <1>1 DEF ResetScan, Raise
  <2>2. failed = {} /\ Holding(id[w]) \ {} = Holding(id[w])
    BY <1>1, <2>1
  <2>3. plain' = [plain EXCEPT ![w] =
               IF Holding(id[w]) = {} THEN NoRow
               ELSE backups[Latest(Holding(id[w]))].blk[id[w]]]
    BY <2>1, <2>2
  <2>4. QED
    BY <1>1, <2>3 DEF Added
<1>5. AtRest /\ row[w] = CustRow(cust[w]) /\ Tied(id[w]) /\ radcheck[id[w]] = Disabled
  BY <1>3 DEF Clean, Meanwhile, Between, Replacing, Replaced, Renewed, Reviewing, Restored,
              Accepted, Finding, Rowed
<1>6. users[id[w]].pw \notin {NoRow, Disabled}
  BY <1>1, <1>5, TiedPassword
<1>7. Active => plain'[w] = users[id[w]].pw
  <2> SUFFICES ASSUME Active PROVE plain'[w] = users[id[w]].pw
    OBVIOUS
  <2>1. conf.blk[id[w]] = Disabled
    BY <1>1, <1>5 DEF AtRest
  <2>2. backups # <<>> /\ backups[Len(backups)].blk[id[w]] = users[id[w]].pw
    BY <1>1, <1>5, <1>6, <2>1 DEF AtRest, Kept
  <2>3. Len(backups) \in DOMAIN backups
    BY <1>1, <2>2 DEF Added
  <2>4. Len(backups) \in Holding(id[w])
    BY <1>6, <2>2, <2>3 DEF Holding
  <2>5. QED
    BY <1>1, <1>4, <2>2, <2>4, LatestLast
<1>8. /\ AtRest' /\ row'[w] = CustRow(cust[w])' /\ (Active' <=> Active)
      /\ \A i : (Tied(i)' <=> Tied(i)) /\ (Kept(i)' <=> Kept(i))
  BY <1>2, <1>5, SameRest DEF CustRow
<1>9. Tied(id[w])' /\ (Active' => plain'[w] = users'[id'[w]].pw)
  BY <1>2, <1>5, <1>7, <1>8, SameTied
<1>10. CASE at'[w] = "reset.enable"
  BY <1>8, <1>9, <1>10
     DEF Meanwhile, Between, Replacing, Replaced, Renewed, Reviewing, Restored, Accepted,
         Finding, Rowed, Undevised, DevicesGone, DeleteuserLater, CleanupLater, Creates
<1>11. CASE at'[w] = "reset.again"
  <2>1. ~Active
    BY <1>3, <1>6, <1>7, <1>11
  <2>2. \A i \in Ids : Tied(i)' => Kept(i)' /\ (Active' => radcheck'[i] = users'[i].pw)
    BY <1>5, <1>8, <2>1 DEF AtRest
  <2>3. QED
    BY <1>8, <1>11, <2>2
     DEF Meanwhile, Between, Replacing, Replaced, Renewed, Reviewing, Restored, Accepted,
         Finding, Rowed, Undevised, DevicesGone, DeleteuserLater, CleanupLater, Creates
<1>12. QED
  BY <1>3, <1>10, <1>11

LEMMA ResetEnableMeanwhile ==
  ASSUME NEW w \in Requests, Clean(w), ResetEnable(w) PROVE Meanwhile(w)'
<1>1. Shape /\ OwnInv /\ ~Fault /\ UNCHANGED backups /\ id[w] \in Ids /\ \A b, c \in Names : b = c
  BY DEF Clean, Shape
<1>2. /\ Goto(w, "reset.enable", "reset.again")
      /\ radcheck' = [radcheck EXCEPT ![id[w]] = plain[w]]
      /\ UNCHANGED <<customers, users, devices, conf, cust, row>>
  BY <1>1 DEF ResetEnable, Raise, gateway, locals
<1>3. at[w] = "reset.enable" /\ at'[w] = "reset.again"
  BY <1>1, <1>2, Landing
<1>4. /\ AtRest /\ row[w] = CustRow(cust[w]) /\ Tied(id[w])
      /\ Active => plain[w] = users[id[w]].pw
  BY <1>3 DEF Clean, Meanwhile, Between, Replacing, Replaced, Renewed, Reviewing, Restored,
              Accepted, Finding, Rowed
<1>5. /\ row'[w] = CustRow(cust[w])' /\ (Active' <=> Active)
      /\ \A i : (Tied(i)' <=> Tied(i)) /\ (Kept(i)' <=> Kept(i))
  BY <1>1, <1>2, <1>4, SameTied, SameKept, SameActive DEF CustRow
<1>6. radcheck'[id[w]] = plain[w]
  BY <1>1, <1>2 DEF Shape
<1>7. \A i \in Ids : Tied(i)' => Kept(i)' /\ (Active' => radcheck'[i] = users'[i].pw)
  <2>1. \A i \in Ids : Tied(i) => i = id[w]
    BY <1>1, <1>4, OneTied
  <2>2. QED
    BY <1>2, <1>4, <1>5, <1>6, <2>1 DEF AtRest
<1>8. QED
  BY <1>3, <1>5, <1>7
     DEF Meanwhile, Between, Replacing, Replaced, Renewed, Reviewing, Restored, Accepted,
         Finding, Rowed, Undevised, DevicesGone, DeleteuserLater, CleanupLater, Creates

\* The block: is it marked, and the newest backup in its place.
LEMMA ReviewMeanwhile ==
  ASSUME NEW w \in Requests, Clean(w), ResetConf(w) \/ ResetNewest(w) PROVE Meanwhile(w)'
<1> USE DEF Meanwhile, Between, Replacing, Replaced, Renewed, Reviewing, Restored, Accepted,
            Finding, Rowed, Undevised, DevicesGone, DeleteuserLater, CleanupLater, Creates
<1>1. /\ Shape /\ Added /\ OwnInv /\ ~Fault /\ UNCHANGED backups /\ id[w] \in Ids
      /\ \A b, c \in Names : b = c
  BY DEF Clean, Shape
<1>2. UNCHANGED <<customers, users, devices, radcheck, conf, cust, row, id, backups>>
  BY <1>1 DEF ResetConf, ResetNewest, Raise, tables, gateway, locals
<1>3. /\ at[w] \in {"reset.conf", "reset.newest"}
      /\ at'[w] \in {"reset.newest", "reset.copy", "reset.audit"}
  BY <1>1, Landing DEF ResetConf, ResetNewest, Raise
<1>4. /\ row[w] = CustRow(cust[w]) /\ Tied(id[w])
      /\ \A i \in Ids : Tied(i) => Kept(i) /\ (Active => radcheck[i] = users[i].pw)
  BY <1>3 DEF Clean
<1>5. users[id[w]].pw \notin {NoRow, Disabled} /\ Kept(id[w])
      /\ \A i \in Ids : Tied(i) => i = id[w]
  BY <1>1, <1>4, TiedPassword, OneTied
<1>6. /\ row'[w] = CustRow(cust[w])' /\ (Active' <=> Active)
      /\ \A i : (Tied(i)' <=> Tied(i)) /\ (Kept(i)' <=> Kept(i))
  BY <1>2, <1>4, SameRest DEF CustRow
<1>7. /\ Tied(id[w])'
      /\ \A i \in Ids : Tied(i)' => Kept(i)' /\ (Active' => radcheck'[i] = users'[i].pw)
  BY <1>2, <1>4, <1>6, SameTied
<1>8. CASE ResetConf(w)
  <2>1. at'[w] = IF Marked(w) THEN "reset.newest" ELSE "reset.audit"
    BY <1>1, <1>8, Landing DEF ResetConf, Raise
  <2>2. CASE Marked(w)
    BY <1>2, <1>6, <1>7, <2>1, <2>2 DEF Marked
  <2>3. CASE ~Marked(w)
    <3>1. conf.blk[id[w]] = users[id[w]].pw
      BY <1>5, <2>3 DEF Marked, Kept
    <3>2. \A i \in Ids : Tied(i)' => conf'.blk[i] = users'[i].pw
      BY <1>2, <1>5, <1>6, <3>1
    <3>3. QED
      BY <1>6, <1>7, <2>1, <2>3, <3>2
  <2>4. QED
    BY <2>2, <2>3
<1>9. CASE ResetNewest(w)
  <2>1. /\ newest' = [newest EXCEPT ![w] = Len(backups)]
        /\ Goto(w, "reset.newest", IF backups = <<>> THEN "reset.audit" ELSE "reset.copy")
    BY <1>1, <1>9 DEF ResetNewest
  <2>2. at[w] = "reset.newest"
    BY <1>1, <2>1, Landing
  <2>3. conf.blk[id[w]] = Disabled
    BY <2>2 DEF Clean
  <2>4. backups # <<>>
    BY <1>5, <2>3 DEF Kept
  <2>5. at'[w] = "reset.copy" /\ newest'[w] = Len(backups')
    BY <1>1, <2>1, <2>4, Landing DEF Added
  <2>6. QED
    BY <1>2, <1>6, <1>7, <2>3, <2>5
<1>10. QED
  BY <1>8, <1>9

LEMMA RestoredMeanwhile ==
  ASSUME NEW w \in Requests, Clean(w), ResetCopy(w) \/ ResetReload(w) \/ ResetAudit(w)
  PROVE  Meanwhile(w)'
<1> USE DEF Meanwhile, Between, Replacing, Replaced, Renewed, Reviewing, Restored, Accepted,
            Finding, Rowed, Undevised, DevicesGone, DeleteuserLater, CleanupLater, Creates
<1>1. /\ Shape /\ OwnInv /\ ~Fault /\ UNCHANGED backups /\ id[w] \in Ids
      /\ \A b, c \in Names : b = c
  BY DEF Clean, Shape
<1>2. CASE ResetCopy(w)
  <2>1. /\ at[w] = "reset.copy" /\ at'[w] = "reset.reload" /\ conf' = backups[newest[w]]
        /\ UNCHANGED <<customers, users, devices, radcheck, cust, row, id, backups>>
    BY <1>2, CleanWrite DEF ResetCopy, locals
  <2>2. /\ row[w] = CustRow(cust[w]) /\ Tied(id[w]) /\ newest[w] = Len(backups)
        /\ conf.blk[id[w]] = Disabled
        /\ \A i \in Ids : Tied(i) => Kept(i) /\ (Active => radcheck[i] = users[i].pw)
    BY <2>1 DEF Clean
  <2>3. users[id[w]].pw \notin {NoRow, Disabled} /\ Kept(id[w])
        /\ \A i \in Ids : Tied(i) => i = id[w]
    BY <1>1, <2>2, TiedPassword, OneTied
  <2>4. conf'.blk[id[w]] = users[id[w]].pw
    BY <2>1, <2>2, <2>3 DEF Kept
  <2>5. row'[w] = CustRow(cust[w])' /\ (Active' <=> Active) /\ \A i : Tied(i)' <=> Tied(i)
    BY <2>1, <2>2, SameTied, SameActive DEF CustRow
  <2>6. \A i \in Ids : Tied(i)' => /\ Kept(i)' /\ conf'.blk[i] = users'[i].pw
                                   /\ Active' => radcheck'[i] = users'[i].pw
    BY <2>1, <2>2, <2>3, <2>4, <2>5 DEF Kept
  <2>7. QED
    BY <2>1, <2>5, <2>6
<1>3. CASE ResetReload(w) \/ ResetAudit(w)
  <2>1. /\ \/ at[w] = "reset.reload" /\ at'[w] = "reset.audit"
           \/ at[w] = "reset.audit" /\ at'[w] = "ok"
        /\ UNCHANGED <<customers, users, devices, radcheck, conf, cust, row, backups>>
    <3>1. CASE ResetReload(w)
      BY <3>1, CleanReload DEF ResetReload, locals
    <3>2. CASE ResetAudit(w)
      BY <1>1, <3>2, Landing DEF ResetAudit, Raise, tables, gateway, locals
    <3>3. QED
      BY <1>3, <3>1, <3>2
  <2>2. /\ row[w] = CustRow(cust[w])
        /\ \A i \in Ids : Tied(i) => /\ Kept(i) /\ conf.blk[i] = users[i].pw
                                     /\ Active => radcheck[i] = users[i].pw
    BY <2>1 DEF Clean
  <2>3. /\ row'[w] = CustRow(cust[w])' /\ (Active' <=> Active)
        /\ \A i : (Tied(i)' <=> Tied(i)) /\ (Kept(i)' <=> Kept(i))
    BY <2>1, <2>2, SameRest DEF CustRow
  <2>4. \A i \in Ids : Tied(i)' => /\ Kept(i)' /\ conf'.blk[i] = users'[i].pw
                                   /\ Active' => radcheck'[i] = users'[i].pw
    BY <2>1, <2>2, <2>3
  <2>5. AtRest'
    BY <2>4 DEF AtRest
  <2>6. QED
    BY <2>1, <2>3, <2>4, <2>5
<1>4. QED
  BY <1>2, <1>3

-----------------------------------------------------------------------------
\* Any step of the only request, as long as nothing fails.
LEMMA PortalMeanwhile ==
  ASSUME NEW w \in Requests, Clean(w), MaxCrashes = 0, PortalStep(w) PROVE Meanwhile(w)'
<1>1. Shape /\ at[w] \notin Undoing
  BY DEF Clean, Fine
<1>2. CASE First(w)
  BY <1>2, StartMeanwhile, RenameMeanwhile DEF First
<1>3. ~Crash(w)
  BY <1>1 DEF Crash, Shape
<1>4. ~CreateUndo(w) /\ ~CreateUnwrite(w)
  BY <1>1 DEF CreateUndo, CreateUnwrite, ReadThen, Raise, Write, Goto, Undoing
<1>5. ~DeleteCut(w)
  <2>1. at[w] \notin {"delete.cut", "alone.cut"}
    BY DEF Clean, Meanwhile
  <2>2. QED
    BY <2>1 DEF DeleteCut, CutBare, Write, Goto
<1>6. CASE \/ CreateExists(w) \/ CreateInsert(w) \/ CreateAppend(w) \/ CreateWrite(w)
           \/ CreateReload(w) \/ CreateCommit(w)
  BY <1>6, CreateMeanwhile, CreateWriteMeanwhile, CommitMeanwhile
<1>7. CASE \/ RotateUser(w) \/ RotateRead(w) \/ RotateWrite(w) \/ RotateReload(w)
           \/ RotateRadcheck(w) \/ UnarchiveUser(w) \/ UnarchiveRead(w)
           \/ UnarchiveWrite(w) \/ UnarchiveRadcheck(w)
  BY <1>7, UserMeanwhile, ReplaceMeanwhile, RadcheckMeanwhile
<1>8. CASE \/ ArchiveStatus(w) \/ ArchiveDevice(w) \/ ArchiveRadcheck(w)
           \/ UnarchiveStatus(w) \/ UnarchiveDevice(w) \/ UnarchiveReload(w)
  BY <1>8, StatusMeanwhile, ArchiveMeanwhile
<1>9. CASE \/ DeleteUsers(w) \/ DeleteBare(w) \/ DeleteLook(w) \/ DeleteOrphans(w)
           \/ DeleteOrphan(w) \/ DeleteDevices(w) \/ DeleteRead(w) \/ DeleteWrite(w)
           \/ DeleteRadcheck(w) \/ DeleteReload(w) \/ DeleteCustomer(w)
  BY <1>9, DeleteUsersMeanwhile, BareMeanwhile, OrphansMeanwhile, OrphanMeanwhile,
     DevicesGoMeanwhile, AfterMeanwhile
<1>10. CASE Later(w)
  BY <1>4, <1>5, <1>6, <1>7, <1>8, <1>9, <1>10 DEF Later
<1>11. QED
  BY <1>2, <1>3, <1>10 DEF PortalStep

LEMMA BotMeanwhile ==
  ASSUME NEW w \in Requests, Clean(w), OrphanKnows(w), "renew" \notin Ops,
         BotFirst(w) \/ BotLater(w)
  PROVE  Meanwhile(w)'
<1>1. ~RenewStatus(w)
  <2>1. at[w] # "renew.status"
    BY DEF Clean, Meanwhile
  <2>2. QED
    BY <2>1 DEF RenewStatus, Goto, Raise
<1>2. CASE BotFirst(w)
  <2>1. ASSUME NEW c \in Names, DeleteuserCheck(w, c) PROVE Meanwhile(w)'
    BY <2>1, StartMeanwhile
  <2>2. ASSUME NEW i \in Ids, OrphanCheck(w, i) PROVE Meanwhile(w)'
    BY <2>2, StartMeanwhile, PortalAssumption
  <2>3. ASSUME NEW s \in SUBSET Ids, CleanupCheck(w, s) PROVE Meanwhile(w)'
    BY <2>3, CleanupStarts
  <2>4. QED
    BY <1>2, <2>1, <2>2, <2>3 DEF BotFirst, RenewCheck
<1>3. CASE BotLater(w)
  <2>1. CASE \/ OrphanRows(w) \/ OrphanRead(w) \/ OrphanWrite(w) \/ OrphanAppend(w)
             \/ OrphanPut(w) \/ OrphanReload(w)
    BY <2>1, RenewedMeanwhile
  <2>2. CASE \/ CleanupRead(w) \/ CleanupWrite(w)
             \/ (CleanupRows(w) \/ CleanupReload(w)) /\ UNCHANGED names
    BY <2>2, CleanupRowsMeanwhile, CleanupMeanwhile
  <2>3. CASE \/ DeleteuserRows(w) \/ DeleteuserRead(w) \/ DeleteuserWrite(w)
             \/ DeleteuserReload(w)
    BY <2>3, DevicesGoMeanwhile, AfterMeanwhile
  <2>4. QED
    BY <1>1, <1>3, <2>1, <2>2, <2>3 DEF BotLater
<1>4. QED
  BY <1>2, <1>3

LEMMA ResetMeanwhile ==
  ASSUME NEW w \in Requests, Clean(w), QuotaStep(w) PROVE Meanwhile(w)'
<1>1. CASE \E c \in Names : ResetCheck(w, c)
  BY <1>1, StartMeanwhile
<1>2. CASE ResetLater(w)
  BY <1>2, ResetFindMeanwhile, ResetRadcheckMeanwhile, ResetScanMeanwhile,
     ResetEnableMeanwhile, ReviewMeanwhile, RestoredMeanwhile DEF ResetLater
<1>3. QED
  BY <1>1, <1>2 DEF QuotaStep

\* A cut takes the file to the backup before it marks the block.
LEMMA CutRests ==
  ASSUME Shape, Added, OwnInv, AtRest, \A b, c \in Names : b = c, NEW a \in Names, Cut(a)
  PROVE  AtRest'
<1>1. PICK i \in UserIds(RowOf(customers[a])) :
        /\ radcheck[i] \in Secrets
        /\ backups' = Append(backups, conf)
        /\ radcheck' = [radcheck EXCEPT ![i] = Disabled]
        /\ conf' = [conf EXCEPT !.blk[i] = IF @ = NoRow THEN NoRow ELSE Disabled]
  BY DEF Cut
<1>2. /\ Status(a) = "active" /\ Is(devices[a], RowOf(customers[a]))
      /\ UNCHANGED <<customers, users, devices>>
  BY DEF Cut
<1>3. i \in Ids /\ Tied(i) /\ Active
  BY <1>2, FoundTied DEF UserIds, Active
<1>4. conf.blk[i] = users[i].pw /\ users[i].pw # NoRow
  <2>1. Kept(i) /\ radcheck[i] = conf.blk[i] /\ users[i].pw # NoRow
    BY <1>3, TiedPassword DEF AtRest
  <2>2. QED
    BY <1>1, <2>1, PortalAssumption DEF Kept
<1>5. conf'.blk[i] = Disabled /\ radcheck'[i] = Disabled
  <2>1. conf \in AnyFiles /\ radcheck \in [Ids -> {NoRow, Disabled} \union Secrets]
    BY DEF Shape
  <2>2. conf'.blk = [conf.blk EXCEPT ![i] = IF @ = NoRow THEN NoRow ELSE Disabled]
    BY <1>1, <2>1 DEF AnyFiles
  <2>3. conf'.blk[i] = Disabled
    BY <1>3, <1>4, <2>1, <2>2 DEF AnyFiles, AnyBlocks
  <2>4. QED
    BY <1>1, <1>3, <2>1, <2>3
<1>6. backups' # <<>> /\ backups'[Len(backups')] = conf
  BY <1>1 DEF Added, Shape
<1>7. Kept(i)'
  BY <1>2, <1>4, <1>5, <1>6 DEF Kept
<1>8. \A j \in Ids : Tied(j)' => j = i
  BY <1>2, <1>3, SameTied, OneTied
<1>9. QED
  BY <1>5, <1>7, <1>8 DEF AtRest

-----------------------------------------------------------------------------
LEMMA RestInit == AllInit => RestInv
<1> SUFFICES ASSUME AllInit PROVE RestInv
  OBVIOUS
<1>1. PICK old \in SUBSET Names, d \in Devs :
        LET secret(i) == IF \E c \in old : i = Identity(c, d) THEN i ELSE NoRow IN
        /\ users = [i \in Ids |->
             IF secret(i) = NoRow THEN NoRow ELSE [row |-> i, pw |-> i]]
        /\ radcheck = [i \in Ids |-> secret(i)]
        /\ conf = [whole |-> TRUE, blk |-> radcheck]
  BY DEF AllInit, BotInit, Init
<1>2. \A w \in Requests : at[w] = "idle"
  BY DEF AllInit, BotInit, Init
<1>3. ASSUME NEW i \in Ids, Tied(i) PROVE radcheck[i] = users[i].pw /\ conf.blk[i] = radcheck[i]
  <2>1. users[i] # NoRow
    BY <1>3 DEF Tied, Is
  <2>2. users[i] = [row |-> i, pw |-> i] /\ radcheck[i] = i
    BY <1>1, <2>1
  <2>3. QED
    BY <1>1, <2>2
<1>4. AtRest
  BY <1>3 DEF AtRest, Kept
<1>5. QED
  BY <1>2, <1>4 DEF RestInv, Running, Ended

\* What the only request finds when it begins, or has kept until now.
LEMMA FindsRest ==
  ASSUME Shape, RestInv, faults = 0, NEW w \in Requests, Alone(w),
         PortalStep(w) \/ BotFirst(w) \/ BotLater(w) \/ QuotaStep(w)
  PROVE  Meanwhile(w)
<1>1. CASE Running(w)
  BY <1>1 DEF RestInv
<1>2. CASE ~Running(w)
  <2>1. Quiet /\ AtRest
    BY <1>2 DEF Quiet, Alone, RestInv
  <2>2. First(w) \/ BotFirst(w) \/ \E c \in Names : ResetCheck(w, c)
    BY <1>2, LaterRuns DEF PortalStep, QuotaStep
  <2>3. at[w] = "idle"
    BY <2>2, FirstGoes
  <2>4. QED
    BY <2>1, <2>3
       DEF Meanwhile, Between, Replacing, Replaced, Renewed, Reviewing, Restored, Accepted,
           Finding, Rowed, Undevised, DevicesGone, DeleteuserLater, CleanupLater, Creates
<1>3. QED
  BY <1>1, <1>2

LEMMA SameMeanwhile ==
  ASSUME UNCHANGED allVars, NEW w \in Requests, Meanwhile(w) PROVE Meanwhile(w)'
<1>1. UNCHANGED <<customers, users, devices, radcheck, conf, backups, at, cust, row, id, sweep,
                  names, plain, newest>>
  BY DEF allVars, vars, tables, gateway, locals, quota
<1>2. /\ AtRest' <=> AtRest
      /\ \A i : (Tied(i)' <=> Tied(i)) /\ (Kept(i)' <=> Kept(i))
      /\ (Active' <=> Active) /\ (Deviceless' <=> Deviceless)
      /\ \A c : CustRow(c)' = CustRow(c)
  BY <1>1, SameRest
<1>3. CustRow(cust[w])' = CustRow(cust[w]) /\ (Tied(id[w])' <=> Tied(id[w]))
  BY <1>1 DEF CustRow, Tied, Is
<1>4. QED
  BY <1>1, <1>2, <1>3 DEF Meanwhile, Is

LEMMA RestNext ==
  ASSUME IsFiniteSet(Requests), MaxAtOnce = 1, MaxCrashes = 0, "renew" \notin Ops,
         \A b, c \in Names : b = c, AllInv, OwnInv, RowsInv, SeqInv, KnowInv, RestInv,
         [AllNext]_allVars
  PROVE  RestInv'
<1>1. Shape /\ Added /\ OneAtOnce /\ Fine
  BY AllShape DEF AllInv, SeqInv, KnowInv
<1>2. ASSUME NEW w \in Requests, PortalStep(w) \/ BotFirst(w) \/ BotLater(w) \/ QuotaStep(w),
             UNCHANGED backups
      PROVE  RestInv'
  <2> SUFFICES ASSUME faults' = 0
               PROVE  /\ Quiet' => AtRest'
                      /\ \A v \in Requests : Running(v)' => Meanwhile(v)'
    BY DEF RestInv
  <2>1. Alone(w) /\ faults = 0 /\ ~Fault
    BY <1>1, <1>2, StepsAlone, StepGoesOn, NoFaultYet
  <2>2. Clean(w)
    BY <1>1, <1>2, <2>1, FindsRest DEF Clean
  <2>3. Meanwhile(w)'
    BY <1>2, <2>2, PortalMeanwhile, BotMeanwhile, ResetMeanwhile DEF KnowInv
  <2>4. \A v \in Requests \ {w} : ~Running(v)'
    <3>1. \A v \in Requests \ {w} : at'[v] = at[v]
      BY <1>1, <1>2, PortalGoes, BotEffect, QuotaGoes DEF PortalStep, Effect
    <3>2. QED
      BY <2>1, <3>1 DEF Alone, Running
  <2>5. ~Running(w)' => AtRest'
    BY <2>3 DEF Running, Ended, Meanwhile, Between, Replacing, Replaced, Renewed, Reviewing,
                Restored, Accepted
  <2>6. QED
    BY <2>3, <2>4, <2>5 DEF Quiet
<1>3. ASSUME NEW c \in Names, Cut(c) PROVE RestInv'
  <2>1. Quiet
    BY <1>3, NobodyRuns DEF Cut, Quiet
  <2>2. UNCHANGED <<at, faults>>
    BY <1>3 DEF Cut, bounds
  <2>3. faults = 0 => AtRest'
    BY <1>1, <1>3, <2>1, CutRests DEF RestInv
  <2>4. QED
    BY <2>1, <2>2, <2>3 DEF RestInv, Quiet, Running
<1>4. CASE UNCHANGED allVars
  <2>1. UNCHANGED <<at, faults>> /\ (AtRest' <=> AtRest)
    BY <1>4, SameRest DEF allVars, vars, tables, gateway, bounds, quota
  <2>2. \A w \in Requests : Meanwhile(w) => Meanwhile(w)'
    BY <1>4, SameMeanwhile
  <2>3. QED
    BY <2>1, <2>2 DEF RestInv, Quiet, Running
<1>5. QED
  BY <1>2, <1>3, <1>4 DEF AllNext, quota, QuotaStep, ResetLater

\* Until a command fails or a worker is killed, with one customer name, one
\* request at a time and no /renew, a reset of an active customer that reports
\* success leaves FreeRADIUS, the block and charon with the password that
\* users.password is the hash of, whatever was done to the customer between the
\* cut and the reset.
THEOREM CutUndoneInTurn ==
  ASSUME IsFiniteSet(Requests), MaxAtOnce = 1, MaxCrashes = 0, "renew" \notin Ops,
         \A b, c \in Names : b = c
  PROVE  AllSpec => CutUndone
<1> DEFINE Base == AllInv /\ AllOwn /\ RowsInv /\ FilesInv /\ SeqInv
           Inv == Base /\ KnowInv /\ InStep /\ RestInv
<1>1. AllInit => Inv
  BY AllInvInit, AllOwnInit, RowsInit, FilesInit, SeqInit, KnowInit, RestInit
     DEF AllInit, BotInit
<1>2. Inv /\ [AllNext]_allVars => Inv'
  <2>1. Inv /\ [AllNext]_allVars => Base'
    BY AllInvNext, AllOwnNext, AllRowsNext, FilesNext, SeqNext
  <2>2. Inv /\ [AllNext]_allVars => KnowInv' /\ InStep'
    BY KnowNext
  <2>3. Inv /\ [AllNext]_allVars => RestInv'
    BY RestNext DEF AllOwn
  <2>4. QED
    BY <2>1, <2>2, <2>3
<1>3. Inv => [\A w \in Requests :
       /\ at[w] = "reset.audit" /\ at'[w] = "ok" /\ faults = 0
       /\ Status(cust[w]) = "active" /\ Is(devices[cust[w]], row[w])
       => \A i \in UserIds(row[w]) : /\ radcheck[i] = users[i].pw
                                     /\ conf.blk[i] = users[i].pw
                                     /\ charon[i] = users[i].pw]_quotaVars
  <2> SUFFICES ASSUME Inv, NEW w \in Requests, at[w] = "reset.audit", faults = 0,
                      Status(cust[w]) = "active", Is(devices[cust[w]], row[w]),
                      NEW i \in UserIds(row[w])
               PROVE  radcheck[i] = users[i].pw /\ conf.blk[i] = users[i].pw
                      /\ charon[i] = users[i].pw
    OBVIOUS
  <2>1. Shape /\ OneAtOnce /\ cust[w] \in Names /\ i \in Ids
    BY AllShape DEF AllInv, SeqInv, Shape, UserIds
  <2>2. Running(w) /\ Meanwhile(w)
    BY DEF RestInv, Running, Ended
  <2>3. Tied(i) /\ Active
    BY <2>1, FoundTied DEF Active
  <2>4. radcheck[i] = users[i].pw /\ conf.blk[i] = users[i].pw
    BY <2>1, <2>2, <2>3 DEF Meanwhile, Accepted, Restored
  <2>5. \A v \in Requests : at[v] \notin Dirty
    BY <2>1, <2>2 DEF OneAtOnce, Running, Ended, Dirty
  <2>6. QED
    BY <2>4, <2>5 DEF InStep
<1>4. QED
  BY <1>1, <1>2, <1>3, PTL DEF AllSpec, CutUndone
=============================================================================
