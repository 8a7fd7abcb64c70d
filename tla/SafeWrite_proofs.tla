-------------------------- MODULE SafeWrite_proofs --------------------------
(***************************************************************************)
(* Proofs about SafeWrite, for any number of local and remote writers and  *)
(* any documents: the types, and that the live name is always bound to one *)
(* whole document as long as concurrent calls use temporary names of their *)
(* own.                                                                    *)
(***************************************************************************)
EXTENDS SafeWrite, TLAPS

Holding == {"backup", "open", "write", "check", "rename", "verify"}
Prefix(w, n) == [i \in 1..n |-> w]

\* A local call between its flock and its end is the holder of the lock.
LockInv == \A w \in Local : pc[w] \in Holding => lock = w

\* A call that is writing, or has written, its temporary file: the name still
\* leads to the file it opened, which holds exactly what it has put down.
OwnTemp ==
  \A w \in Writers : pc[w] \in {"write", "check", "rename"} =>
    /\ fd[w] # None /\ tmp[Stamp(w)] = fd[w]
    /\ off[w] <= Size[w] /\ data[fd[w]] = Prefix(w, off[w])

Checked == \A w \in Writers : pc[w] = "rename" => off[w] = Size[w]

\* Each file has at most one name, and the live one is whole.
LiveApart == NeverTruncated /\ \A s \in Stamps : tmp[s] # live
OneName == \A s, t \in Stamps : s # t /\ tmp[s] # None => tmp[s] # tmp[t]

\* The inode of a call that has opened nothing is bound nowhere.
Unused ==
  \A w \in Writers : pc[w] \in {"called", "lock", "backup", "open"} =>
    live # w /\ \A s \in Stamps : tmp[s] # w

Separate == OwnTemp /\ Checked /\ LiveApart /\ OneName /\ Unused

IInv == TypeOK /\ LockInv /\ (Apart => Separate)

-----------------------------------------------------------------------------
LEMMA StampType == ASSUME TypeOK, NEW w \in Writers PROVE Stamp(w) \in Stamps
BY DEF TypeOK, Stamp, Stamps

\* Writing the next chunk of a prefix makes the next prefix.
LEMMA PutNext ==
  ASSUME NEW w, NEW n \in Nat
  PROVE  PutChunk(Prefix(w, n), n + 1, w) = Prefix(w, n + 1)
<1>1. Len(Prefix(w, n)) = n
  BY DEF Prefix
<1>2. QED
  BY <1>1 DEF PutChunk, Prefix

LEMMA PutChunkType ==
  ASSUME NEW S, NEW c \in Seq(S), NEW n \in Nat, NEW w \in S, Hole \in S
  PROVE  PutChunk(c, n, w) \in Seq(S)
<1> DEFINE m == IF n > Len(c) THEN n ELSE Len(c)
<1>1. m \in Nat
  OBVIOUS
<1>2. \A i \in 1..m : (IF i = n THEN w ELSE IF i <= Len(c) THEN c[i] ELSE Hole) \in S
  OBVIOUS
<1>3. QED
  BY <1>1, <1>2 DEF PutChunk

\* Every variable keeps its type.
LEMMA TypeInit == Init => TypeOK
<1> SUFFICES ASSUME Init PROVE TypeOK
  OBVIOUS
<1> USE SizeAssumption DEF Init
<1>1. data \in [Inodes -> Seq(Inodes \union {Hole})]
  <2>1. <<>> \in Seq(Inodes \union {Hole}) /\ OldDoc \in Seq(Inodes \union {Hole})
    BY DEF OldDoc, Inodes
  <2>2. QED
    BY <2>1
<1>2. bak \in [Stamps -> Seq(Inodes \union {Hole})]
  BY <1>1
<1>3. live \in Inodes /\ tmp \in [Stamps -> Inodes \union {None}]
  BY DEF Inodes
<1>4. now \in Seconds /\ ts \in [Writers -> Seconds]
  BY DEF Seconds
<1>5. QED
  BY <1>1, <1>2, <1>3, <1>4 DEF TypeOK

LEMMA TypeNext == TypeOK /\ [Next]_vars => TypeOK'
<1> SUFFICES ASSUME TypeOK, [Next]_vars PROVE TypeOK'
  OBVIOUS
<1> USE SizeAssumption DEF TypeOK, files, bounds, Goto
<1>1. CASE Tick
  BY <1>1 DEF Tick, Seconds
<1>2. ASSUME NEW w \in Writers, Step(w) PROVE TypeOK'
  <2>0. Stamp(w) \in Stamps
    BY StampType
  <2>2. CASE TakeStamp(w)
    BY <2>2 DEF TakeStamp
  <2>3. CASE Flock(w)
    BY <2>3 DEF Flock
  <2>4. CASE Backup(w)
    BY <2>4, <2>0 DEF Backup
  <2>5. CASE OpenTemp(w)
    BY <2>5, <2>0 DEF OpenTemp, Inodes
  <2>6. CASE WriteChunk(w)
    <3>1. ASSUME fd[w] \in Inodes
          PROVE  PutChunk(data[fd[w]], off[w] + 1, w) \in Seq(Inodes \union {Hole})
      <4>1. /\ data[fd[w]] \in Seq(Inodes \union {Hole}) /\ off[w] + 1 \in Nat
            /\ w \in Inodes \union {Hole}
        BY <3>1 DEF Inodes
      <4>2. QED
        BY <4>1, PutChunkType, Zenon
    <3>2. data' \in [Inodes -> Seq(Inodes \union {Hole})]
      <4>1. data' = [data EXCEPT ![fd[w]] = PutChunk(data[fd[w]], off[w] + 1, w)]
        BY <2>6 DEF WriteChunk
      <4>2. CASE fd[w] \in Inodes
        <5> DEFINE c == PutChunk(data[fd[w]], off[w] + 1, w)
        <5>1. c \in Seq(Inodes \union {Hole})
          BY <3>1, <4>2
        <5>2. data' = [data EXCEPT ![fd[w]] = c]
          BY <4>1
        <5> HIDE DEF c
        <5>3. QED
          BY <5>1, <5>2
      <4>3. CASE fd[w] \notin Inodes
        <5> DEFINE c == PutChunk(data[fd[w]], off[w] + 1, w)
        <5>1. data' = [data EXCEPT ![fd[w]] = c]
          BY <4>1
        <5> HIDE DEF c
        <5>2. QED
          BY <5>1, <4>3
      <4>4. QED
        BY <4>2, <4>3
    <3>3. QED
      BY <2>6, <3>2 DEF WriteChunk
  <2>7. CASE WriteEnd(w)
    BY <2>7 DEF WriteEnd
  <2>8. CASE WriteTruncated(w)
    BY <2>8 DEF WriteTruncated
  <2>9. CASE CheckTemp(w)
    BY <2>9 DEF CheckTemp
  <2>10. CASE RejectTemp(w)
    BY <2>10, <2>0 DEF RejectTemp
  <2>11. CASE Rename(w)
    BY <2>11, <2>0 DEF Rename, DoRename
  <2>12. CASE RenameMissing(w)
    BY <2>12 DEF RenameMissing
  <2>13. CASE Verify(w)
    BY <2>13 DEF Verify
  <2>14. QED
    BY <1>2, <2>2, <2>3, <2>4, <2>5, <2>6, <2>7, <2>8, <2>9, <2>10,
       <2>11, <2>12, <2>13 DEF Step
<1>3. ASSUME NEW w \in Writers, SshFault(w) PROVE TypeOK'
  <2>0. Stamp(w) \in Stamps
    BY StampType
  <2>1. tmp' \in [Stamps -> Inodes \union {None}] /\ live' \in Inodes
    BY <1>3, <2>0 DEF SshFault, DoRename
  <2>2. bak' \in [Stamps -> Seq(Inodes \union {Hole})] /\ data' = data
    BY <1>3, <2>0 DEF SshFault, DoRename
  <2>3. /\ UNCHANGED <<ts, fd, off, lock, now, crashes>>
        /\ installed' \subseteq Writers
    BY <1>3 DEF SshFault, DoRename
  <2>4. /\ pc' \in [Writers -> {"called", "lock", "backup", "open", "write",
                         "check", "rename", "verify", "ok", "error", "dead"}]
        /\ faults' \in 0..MaxFaults
    BY <1>3 DEF SshFault
  <2>5. QED
    BY <2>1, <2>2, <2>3, <2>4
<1>4. ASSUME NEW w \in Writers, Crash(w) PROVE TypeOK'
  BY <1>4 DEF Crash
<1>5. CASE UNCHANGED vars
  BY <1>5 DEF vars
<1>6. QED
  BY <1>1, <1>2, <1>3, <1>4, <1>5 DEF Next

THEOREM SafeWriteTypes == Spec => []TypeOK
<1>1. QED
  BY TypeInit, TypeNext, PTL DEF Spec

-----------------------------------------------------------------------------
\* The lock has one holder: a local call that has it keeps it to its end, and
\* gives it up however it ends.
LEMMA LockNext == TypeOK /\ LockInv /\ [Next]_vars => LockInv'
<1> SUFFICES ASSUME TypeOK, LockInv, [Next]_vars PROVE LockInv'
  OBVIOUS
<1> USE SizeAssumption DEF TypeOK, LockInv, Holding, Goto, files, bounds
<1>1. CASE Tick
  BY <1>1 DEF Tick
<1>2. ASSUME NEW w \in Writers, Step(w) PROVE LockInv'
  <2>1. CASE TakeStamp(w) \/ Flock(w)
    BY <2>1 DEF TakeStamp, Flock, Writers
  <2>2. CASE Backup(w) \/ OpenTemp(w) \/ WriteChunk(w) \/ WriteEnd(w)
    <3>1. pc[w] \in Holding /\ lock' = lock /\ \E to : pc' = [pc EXCEPT ![w] = to]
      BY <2>2 DEF Backup, OpenTemp, WriteChunk, WriteEnd
    <3>2. QED
      BY <3>1
  <2>3. CASE WriteTruncated(w) \/ CheckTemp(w) \/ Rename(w)
    <3>1. pc[w] \in Holding /\ lock' = lock /\ \E to : pc' = [pc EXCEPT ![w] = to]
      BY <2>3 DEF WriteTruncated, CheckTemp, Rename
    <3>2. QED
      BY <3>1
  <2>4. CASE RejectTemp(w) \/ RenameMissing(w) \/ Verify(w)
    <3>1. /\ lock' = IF lock = w THEN None ELSE lock
          /\ \E to \in {"ok", "error"} : pc' = [pc EXCEPT ![w] = to]
      BY <2>4 DEF RejectTemp, RenameMissing, Verify
    <3>2. QED
      BY <3>1
  <2>5. QED
    BY <1>2, <2>1, <2>2, <2>3, <2>4 DEF Step
<1>3. ASSUME NEW w \in Writers, SshFault(w) PROVE LockInv'
  BY <1>3 DEF SshFault
<1>4. ASSUME NEW w \in Writers, Crash(w) PROVE LockInv'
  BY <1>4 DEF Crash
<1>5. CASE UNCHANGED vars
  BY <1>5 DEF vars
<1>6. QED
  BY <1>1, <1>2, <1>3, <1>4, <1>5 DEF Next

\* A stamp once taken stays.
LEMMA StampStays ==
  ASSUME TypeOK, [Next]_vars, NEW v \in Writers, Past(v)
  PROVE  Past(v)' /\ Stamp(v)' = Stamp(v)
<1> USE DEF TypeOK, Past, Stamp, Goto, files, bounds
<1>1. CASE Tick
  BY <1>1 DEF Tick
<1>2. ASSUME NEW w \in Writers, Step(w) PROVE Past(v)' /\ Stamp(v)' = Stamp(v)
  <2>1. CASE TakeStamp(w) \/ Flock(w)
    BY <2>1 DEF TakeStamp, Flock
  <2>2. CASE Backup(w) \/ OpenTemp(w) \/ WriteChunk(w) \/ WriteEnd(w)
    BY <2>2 DEF Backup, OpenTemp, WriteChunk, WriteEnd
  <2>3. CASE WriteTruncated(w) \/ CheckTemp(w) \/ Rename(w)
    BY <2>3 DEF WriteTruncated, CheckTemp, Rename, DoRename
  <2>4. CASE RejectTemp(w) \/ RenameMissing(w) \/ Verify(w)
    BY <2>4 DEF RejectTemp, RenameMissing, Verify
  <2>5. QED
    BY <1>2, <2>1, <2>2, <2>3, <2>4 DEF Step
<1>3. ASSUME NEW w \in Writers, SshFault(w) PROVE Past(v)' /\ Stamp(v)' = Stamp(v)
  BY <1>3 DEF SshFault, DoRename
<1>4. ASSUME NEW w \in Writers, Crash(w) PROVE Past(v)' /\ Stamp(v)' = Stamp(v)
  BY <1>4 DEF Crash
<1>5. CASE UNCHANGED vars
  BY <1>5 DEF vars
<1>6. QED
  BY <1>1, <1>2, <1>3, <1>4, <1>5 DEF Next

\* So calls that are apart have always been, and so have local calls that have
\* the file to themselves.
LEMMA ApartBefore == TypeOK /\ [Next]_vars /\ Apart' => Apart
BY StampStays DEF Apart, Writers

\* Two calls between their lock (or first ssh command) and their rename never
\* share a temporary name.
Busy == {"backup", "open", "write", "check", "rename"}

LEMMA Alone ==
  ASSUME TypeOK, LockInv, Apart, NEW v \in Writers, NEW w \in Writers, v # w,
         pc[v] \in Busy, pc[w] \in Busy
  PROVE  Stamp(v) # Stamp(w)
BY DEF LockInv, Apart, Past, Busy, Holding, Writers

\* Hence they write different files.
LEMMA OwnFile ==
  ASSUME TypeOK, LockInv, Apart, Separate,
         NEW v \in Writers, NEW w \in Writers, v # w,
         pc[v] \in {"write", "check", "rename"}, pc[w] \in Busy
  PROVE  /\ tmp[Stamp(v)] = fd[v] /\ Stamp(v) # Stamp(w)
         /\ tmp[Stamp(w)] # fd[v] /\ fd[v] # live
<1>1. Stamp(v) # Stamp(w) /\ Stamp(v) \in Stamps /\ Stamp(w) \in Stamps
  BY Alone, StampType DEF Busy
<1>2. QED
  BY <1>1 DEF Separate, OwnTemp, OneName, LiveApart

-----------------------------------------------------------------------------
LEMMA SeparateInit == Init => Separate
<1> SUFFICES ASSUME Init PROVE Separate
  OBVIOUS
<1> USE SizeAssumption DEF Init
<1>1. OwnTemp /\ Checked
  BY DEF OwnTemp, Checked
<1>2. LiveApart
  BY DEF LiveApart, NeverTruncated, Complete, Inodes
<1>3. OneName /\ Unused
  BY DEF OneName, Unused
<1>4. QED
  BY <1>1, <1>2, <1>3 DEF Separate

\* Steps that move a call along without touching a file: what is bound stays
\* bound, and a call that becomes active, or is past its check, was so before.
LEMMA SeparateQuiet ==
  ASSUME TypeOK, Separate, NEW w \in Writers,
         UNCHANGED <<live, tmp, data, fd, off>>,
         \A v \in Writers : v # w => pc'[v] = pc[v] /\ ts'[v] = ts[v],
         pc'[w] \in {"called", "lock", "backup", "open"} =>
           pc[w] \in {"called", "lock", "backup", "open"},
         pc'[w] \in {"write", "check", "rename"} =>
           pc[w] \in {"write", "check", "rename"} /\ ts'[w] = ts[w],
         pc'[w] = "rename" => off[w] = Size[w]
  PROVE  Separate'
<1>1. OwnTemp'
  BY DEF Separate, OwnTemp, Stamp
<1>2. Checked'
  BY DEF Separate, Checked
<1>3. LiveApart'
  BY DEF Separate, LiveApart, NeverTruncated, Complete
<1>4. OneName'
  BY DEF Separate, OneName
<1>5. Unused'
  BY DEF Separate, Unused
<1>6. QED
  BY <1>1, <1>2, <1>3, <1>4, <1>5 DEF Separate

\* Removing the temporary name of a call that fails disturbs no other call.
LEMMA SeparateRemove ==
  ASSUME TypeOK, LockInv, Apart, Separate, NEW w \in Writers,
         pc[w] \in Busy, pc' = [pc EXCEPT ![w] = "error"],
         UNCHANGED <<live, data, fd, off, ts>>,
         tmp' = [tmp EXCEPT ![Stamp(w)] = None]
  PROVE  Separate'
<1> USE DEF TypeOK
<1>1. OwnTemp'
  <2> SUFFICES ASSUME NEW v \in Writers, v # w, pc[v] \in {"write", "check", "rename"}
               PROVE  tmp'[Stamp(v)] = fd[v]
    BY DEF Separate, OwnTemp, Stamp
  <2>1. QED
    BY OwnFile, StampType DEF Separate
<1>2. Checked'
  BY DEF Separate, Checked
<1>3. LiveApart'
  BY SizeAssumption DEF Separate, LiveApart, NeverTruncated, Complete, Inodes
<1>4. OneName'
  BY DEF Separate, OneName
<1>5. Unused'
  BY SizeAssumption DEF Separate, Unused
<1>6. QED
  BY <1>1, <1>2, <1>3, <1>4, <1>5 DEF Separate

\* The rename puts a whole document under the live name.
LEMMA SeparateRename ==
  ASSUME TypeOK, LockInv, Apart, Separate, NEW w \in Writers,
         pc[w] = "rename", NEW to \in {"verify", "error"},
         pc' = [pc EXCEPT ![w] = to], DoRename(w)
  PROVE  Separate'
<1> USE DEF TypeOK, DoRename
<1>1. OwnTemp'
  <2> SUFFICES ASSUME NEW v \in Writers, v # w, pc[v] \in {"write", "check", "rename"}
               PROVE  tmp'[Stamp(v)] = fd[v]
    BY DEF Separate, OwnTemp, Stamp
  <2>1. QED
    BY OwnFile, StampType DEF Separate, Busy
<1>2. Checked'
  BY DEF Separate, Checked
<1>3. data[tmp[Stamp(w)]] = Doc(w)
  BY DEF Separate, OwnTemp, Checked, Prefix, Doc
<1>4. LiveApart'
  <2>1. NeverTruncated'
    BY <1>3 DEF NeverTruncated, Complete
  <2>2. \A s \in Stamps : tmp'[s] # live'
    BY StampType DEF Separate, OneName
  <2>3. QED
    BY <2>1, <2>2 DEF LiveApart
<1>5. OneName'
  BY StampType DEF Separate, OneName
<1>6. Unused'
  BY SizeAssumption, StampType DEF Separate, Unused
<1>7. QED
  BY <1>1, <1>2, <1>4, <1>5, <1>6 DEF Separate

\* Opening the temporary name makes or truncates a file no other call has open.
LEMMA SeparateOpen ==
  ASSUME TypeOK, LockInv, Apart, Separate, NEW w \in Writers, OpenTemp(w)
  PROVE  Separate'
<1> DEFINE i == IF tmp[Stamp(w)] = None THEN w ELSE tmp[Stamp(w)]
<1> USE DEF TypeOK, Goto
<1>0. /\ pc[w] = "open" /\ Stamp(w) \in Stamps /\ i \in Inodes /\ i # None
      /\ tmp' = [tmp EXCEPT ![Stamp(w)] = i] /\ data' = [data EXCEPT ![i] = <<>>]
      /\ fd' = [fd EXCEPT ![w] = i] /\ off' = [off EXCEPT ![w] = 0]
      /\ pc' = [pc EXCEPT ![w] = "write"] /\ UNCHANGED <<live, ts>>
  BY SizeAssumption, StampType DEF OpenTemp, Inodes
<1>1. live # i /\ \A s \in Stamps : s # Stamp(w) => tmp[s] # i
  BY <1>0 DEF Separate, LiveApart, OneName, Unused
<1> HIDE DEF i
<1>2. OwnTemp'
  <2>1. ASSUME NEW v \in Writers, v # w, pc[v] \in {"write", "check", "rename"}
        PROVE  tmp'[Stamp(v)] = fd[v] /\ fd[v] # i
    <3>1. Stamp(v) # Stamp(w) /\ tmp[Stamp(v)] = fd[v] /\ Stamp(v) \in Stamps
      BY <1>0, <2>1, OwnFile, StampType DEF Busy
    <3>2. QED
      BY <1>0, <1>1, <3>1
  <2>2. data'[i] = Prefix(w, 0)
    BY <1>0 DEF Prefix
  <2>3. 0 <= Size[w]
    BY SizeAssumption
  <2>4. ASSUME NEW v \in Writers, pc'[v] \in {"write", "check", "rename"}
        PROVE  /\ fd'[v] # None /\ tmp'[Stamp(v)'] = fd'[v]
               /\ off'[v] <= Size[v] /\ data'[fd'[v]] = Prefix(v, off'[v])
    <3>1. CASE v = w
      BY <1>0, <2>2, <2>3, <3>1 DEF Stamp
    <3>2. CASE v # w
      <4>1. /\ fd'[v] = fd[v] /\ off'[v] = off[v] /\ Stamp(v)' = Stamp(v)
            /\ pc[v] \in {"write", "check", "rename"}
        BY <1>0, <2>4, <3>2 DEF Stamp
      <4>2. fd[v] # None /\ off[v] <= Size[v] /\ data[fd[v]] = Prefix(v, off[v])
        BY <4>1 DEF Separate, OwnTemp
      <4>3. fd[v] \in Inodes
        BY <4>2
      <4>4. data'[fd[v]] = data[fd[v]]
        BY <1>0, <2>1, <3>2, <4>1, <4>3
      <4>5. QED
        BY <2>1, <3>2, <4>1, <4>2, <4>4
    <3>3. QED
      BY <3>1, <3>2
  <2>5. QED
    BY <2>4 DEF OwnTemp
<1>3. Checked'
  BY <1>0 DEF Separate, Checked
<1>4. LiveApart'
  BY <1>0, <1>1 DEF Separate, LiveApart, NeverTruncated, Complete
<1>5. OneName'
  BY <1>0, <1>1 DEF Separate, OneName
<1>6. Unused'
  <2>1. ASSUME NEW v \in Writers,
               pc'[v] \in {"called", "lock", "backup", "open"}
        PROVE  v # w /\ v # i
    BY <1>0, <2>1 DEF Separate, Unused, i
  <2>2. QED
    BY <1>0, <2>1 DEF Separate, Unused
<1>7. QED
  BY <1>2, <1>3, <1>4, <1>5, <1>6 DEF Separate

\* A chunk goes to the writer's own file and makes the next prefix.
LEMMA SeparateChunk ==
  ASSUME TypeOK, LockInv, Apart, Separate, NEW w \in Writers, WriteChunk(w)
  PROVE  Separate'
<1> USE DEF TypeOK, Goto
<1>1. /\ pc[w] = "write" /\ pc' = pc /\ off[w] < Size[w]
      /\ off' = [off EXCEPT ![w] = off[w] + 1]
      /\ data' = [data EXCEPT ![fd[w]] = PutChunk(data[fd[w]], off[w] + 1, w)]
      /\ UNCHANGED <<live, tmp, fd, ts>>
  BY DEF WriteChunk
<1>2. /\ fd[w] \in Inodes /\ tmp[Stamp(w)] = fd[w] /\ Stamp(w) \in Stamps
      /\ data[fd[w]] = Prefix(w, off[w])
  BY <1>1, StampType DEF Separate, OwnTemp
<1>3. data'[fd[w]] = Prefix(w, off[w] + 1)
  BY <1>1, <1>2, PutNext
<1>4. \A j \in Inodes : j # fd[w] => data'[j] = data[j]
  BY <1>1, <1>2
<1>5. OwnTemp'
  <2>1. ASSUME NEW v \in Writers, v # w, pc[v] \in {"write", "check", "rename"}
        PROVE  fd[v] # fd[w] /\ fd[v] \in Inodes
    BY <1>1, <1>2, <2>1, OwnFile DEF Busy, Separate, OwnTemp
  <2>2. off[w] + 1 <= Size[w] /\ off'[w] = off[w] + 1
    <3>1. off[w] \in Nat /\ Size[w] \in Nat /\ off[w] < Size[w]
      BY <1>1, SizeAssumption
    <3>2. QED
      BY <1>1, <3>1
  <2>3. ASSUME NEW v \in Writers, pc'[v] \in {"write", "check", "rename"}
        PROVE  /\ fd'[v] # None /\ tmp'[Stamp(v)'] = fd'[v]
               /\ off'[v] <= Size[v] /\ data'[fd'[v]] = Prefix(v, off'[v])
    <3>0. /\ fd'[v] = fd[v] /\ Stamp(v)' = Stamp(v) /\ tmp' = tmp
          /\ fd[v] # None /\ tmp[Stamp(v)] = fd[v]
          /\ off[v] <= Size[v] /\ data[fd[v]] = Prefix(v, off[v])
      BY <1>1, <2>3 DEF Separate, OwnTemp, Stamp
    <3>1. CASE v = w
      BY <1>3, <2>2, <3>0, <3>1
    <3>2. CASE v # w
      <4>1. off'[v] = off[v] /\ data'[fd[v]] = data[fd[v]]
        BY <1>1, <1>4, <2>1, <2>3, <3>2
      <4>2. QED
        BY <3>0, <4>1
    <3>3. QED
      BY <3>1, <3>2
  <2>4. QED
    BY <2>3 DEF OwnTemp
<1>6. Checked'
  BY <1>1 DEF Separate, Checked
<1>7. LiveApart'
  BY <1>1, <1>2, <1>4 DEF Separate, LiveApart, NeverTruncated, Complete
<1>8. OneName' /\ Unused'
  BY <1>1 DEF Separate, OneName, Unused
<1>9. QED
  BY <1>5, <1>6, <1>7, <1>8 DEF Separate

\* The size check passes only when the whole document was put down.
LEMMA CheckedSize ==
  ASSUME TypeOK, Separate, NEW w \in Writers, CheckTemp(w)
  PROVE  off[w] = Size[w]
<1>1. data[tmp[Stamp(w)]] = Prefix(w, off[w]) /\ off[w] \in Nat
  BY DEF CheckTemp, Goto, Separate, OwnTemp, TypeOK
<1>2. Len(Prefix(w, off[w])) = off[w]
  BY <1>1 DEF Prefix
<1>3. QED
  BY <1>1, <1>2 DEF CheckTemp, TempGood

LEMMA SeparateNext ==
  TypeOK /\ LockInv /\ Apart /\ Separate /\ [Next]_vars => Separate'
<1> SUFFICES ASSUME TypeOK, LockInv, Apart, Separate, [Next]_vars
             PROVE  Separate'
  OBVIOUS
<1>1. CASE Tick
  BY <1>1 DEF Tick, files, Separate, OwnTemp, Checked, LiveApart, NeverTruncated,
              Complete, OneName, Unused, Stamp
<1>2. ASSUME NEW w \in Writers, Step(w) PROVE Separate'
  <2>1. CASE TakeStamp(w) \/ Flock(w) \/ Backup(w)
    BY <2>1, SeparateQuiet
       DEF TakeStamp, Flock, Backup, Goto, files, TypeOK
  <2>2. CASE WriteEnd(w) \/ WriteTruncated(w)
    BY <2>2, SeparateQuiet DEF WriteEnd, WriteTruncated, Goto, files, TypeOK
  <2>3. CASE CheckTemp(w)
    BY <2>3, SeparateQuiet, CheckedSize DEF CheckTemp, Goto, files, TypeOK
  <2>4. CASE RenameMissing(w) \/ Verify(w)
    BY <2>4, SeparateQuiet DEF RenameMissing, Verify, Goto, files, TypeOK
  <2>5. CASE OpenTemp(w)
    BY <2>5, SeparateOpen
  <2>6. CASE WriteChunk(w)
    BY <2>6, SeparateChunk
  <2>7. CASE RejectTemp(w)
    BY <2>7, SeparateRemove DEF RejectTemp, Goto, Busy
  <2>8. CASE Rename(w)
    BY <2>8, SeparateRename DEF Rename, Goto
  <2>9. QED
    BY <1>2, <2>1, <2>2, <2>3, <2>4, <2>5, <2>6, <2>7, <2>8 DEF Step
<1>3. ASSUME NEW w \in Writers, SshFault(w) PROVE Separate'
  <2>1. pc' = [pc EXCEPT ![w] = "error"]
    BY <1>3 DEF SshFault
  <2>2. CASE UNCHANGED <<live, tmp, data, fd, off, ts>>
    BY <2>1, <2>2, SeparateQuiet DEF TypeOK
  <2>3. CASE /\ pc[w] \in {"open", "write", "check"}
             /\ tmp' = [tmp EXCEPT ![Stamp(w)] = None]
             /\ UNCHANGED <<live, data, bak, ts, fd, off, installed>>
    BY <2>1, <2>3, SeparateRemove DEF Busy
  <2>4. CASE pc[w] = "rename" /\ DoRename(w)
    BY <2>1, <2>4, SeparateRename
  <2>5. QED
    BY <1>3, <2>2, <2>3, <2>4 DEF SshFault, files
<1>4. ASSUME NEW w \in Writers, Crash(w) PROVE Separate'
  BY <1>4, SeparateQuiet DEF Crash, files, TypeOK
<1>5. CASE UNCHANGED vars
  BY <1>5 DEF vars, Separate, OwnTemp, Checked, LiveApart, NeverTruncated,
              Complete, OneName, Unused, Stamp
<1>6. QED
  BY <1>1, <1>2, <1>3, <1>4, <1>5 DEF Next

LEMMA WriteInv == Spec => []IInv
<1>1. Init => IInv
  BY TypeInit, SeparateInit, SizeAssumption DEF IInv, Init, LockInv, Holding, Writers
<1>2. IInv /\ [Next]_vars => IInv'
  BY TypeNext, LockNext, ApartBefore, SeparateNext DEF IInv
<1>3. QED
  BY <1>1, <1>2, PTL DEF Spec

\* charon never reads a part of a document, however calls interleave, fail or
\* are killed, as long as two calls at work do not share a temporary name
\* (or are both local, where the lock separates them).
THEOREM LiveIsWhole == Spec => []LiveComplete
<1>1. IInv => LiveComplete
  BY DEF IInv, LiveComplete, Separate, LiveApart
<1>2. QED
  BY <1>1, WriteInv, PTL

-----------------------------------------------------------------------------
\* Only local calls are made, no two under one name.
LocalOnly ==
  /\ \A r \in Remote : ~Past(r)
  /\ \A v, w \in Local : v # w /\ Past(v) /\ Past(w) => Stamp(v) # Stamp(w)

DocOf(w) == IF w = Old THEN OldDoc ELSE Doc(w)

\* A local call that has made its backup, and not renamed yet, has backed up
\* what is live.
BackedUp ==
  \A w \in Local : pc[w] \in {"open", "write", "check", "rename"} =>
    bak[Stamp(w)] = data[live]

\* A backup was made by a call of its name that is past making it.
BackupOf ==
  \A s \in Stamps : bak[s] # <<>> =>
    \E v \in Local : pc[v] \notin {"called", "lock", "backup"} /\ Stamp(v) = s

Kept == \A w \in installed \union {Old} :
          data[live] = DocOf(w) \/ \E s \in Stamps : bak[s] = DocOf(w)

Saved == BackedUp /\ BackupOf /\ Kept

LEMMA LocalOnlyBefore == TypeOK /\ [Next]_vars /\ LocalOnly' => LocalOnly
BY StampStays DEF LocalOnly, Writers

LEMMA LocalOnlyApart == LocalOnly => Apart
BY DEF LocalOnly, Apart

LEMMA SavedInit == Init => Saved
<1> SUFFICES ASSUME Init PROVE Saved
  OBVIOUS
<1>1. BackedUp /\ BackupOf
  BY DEF Init, BackedUp, BackupOf, Writers
<1>2. data[live] = OldDoc /\ installed = {}
  BY DEF Init, Inodes
<1>3. Kept
  BY <1>2 DEF Kept, DocOf
<1>4. QED
  BY <1>1, <1>3 DEF Saved

\* No document is empty.
LEMMA DocsNotEmpty == \A w \in Inodes : DocOf(w) # <<>>
<1>1. \A w \in Writers : Len(Doc(w)) = Size[w] /\ Size[w] # 0
  BY SizeAssumption DEF Doc
<1>2. Len(OldDoc) # 0
  BY DEF OldDoc
<1>3. QED
  BY <1>1, <1>2 DEF DocOf, Inodes

\* A step that touches no backup and neither binds nor writes the live file.
LEMMA SavedQuiet ==
  ASSUME TypeOK, Saved, UNCHANGED <<bak, live, installed>>, data'[live] = data[live],
         \A v \in Local :
           /\ pc[v] \notin {"called", "lock", "backup"} =>
                /\ pc'[v] \notin {"called", "lock", "backup"} /\ Stamp(v)' = Stamp(v)
           /\ pc'[v] \in {"open", "write", "check", "rename"} =>
                pc[v] \in {"open", "write", "check", "rename"}
  PROVE  Saved'
<1>1. BackedUp'
  BY DEF Saved, BackedUp
<1>2. BackupOf'
  BY DEF Saved, BackupOf
<1>3. Kept'
  BY DEF Saved, Kept
<1>4. QED
  BY <1>1, <1>2, <1>3 DEF Saved

\* Under the lock a call is alone between its backup and its rename.
LEMMA Solitary ==
  ASSUME LockInv, NEW v \in Local, NEW w \in Local, pc[v] \in Holding, pc[w] \in Holding
  PROVE  v = w
BY DEF LockInv

\* The backup overwrites nothing: its name is not in use yet.
LEMMA SavedBackup ==
  ASSUME TypeOK, LockInv, LocalOnly, Saved, NEW w \in Local, Backup(w)
  PROVE  Saved'
<1> USE DEF TypeOK, Goto
<1>1. /\ pc[w] = "backup" /\ pc' = [pc EXCEPT ![w] = "open"]
      /\ bak' = [bak EXCEPT ![Stamp(w)] = data[live]]
      /\ UNCHANGED <<live, data, ts, installed>> /\ w \in Writers
  BY DEF Backup, Writers
<1>2. Stamp(w) \in Stamps /\ \A v \in Local : Stamp(v)' = Stamp(v)
  BY <1>1, StampType DEF Stamp
<1>3. bak[Stamp(w)] = <<>>
  <2>1. \A v \in Local : pc[v] \notin {"called", "lock", "backup"} => Stamp(v) # Stamp(w)
    BY <1>1 DEF LocalOnly, Past
  <2>2. QED
    BY <1>2, <2>1 DEF Saved, BackupOf
<1>4. BackedUp'
  <2>1. ASSUME NEW v \in Local, pc'[v] \in {"open", "write", "check", "rename"}
        PROVE  v = w
    BY <1>1, <2>1, Solitary DEF Holding
  <2>2. QED
    BY <1>1, <1>2, <2>1 DEF BackedUp
<1>5. BackupOf'
  BY <1>1, <1>2 DEF Saved, BackupOf, Writers
<1>6. Kept'
  <2>1. ASSUME NEW x \in installed \union {Old}, NEW s \in Stamps, bak[s] = DocOf(x)
        PROVE  bak'[s] = DocOf(x)
    <3>1. x \in Inodes
      BY DEF Inodes
    <3>2. s # Stamp(w)
      BY <1>3, <2>1, <3>1, DocsNotEmpty
    <3>3. QED
      BY <1>1, <2>1, <3>2
  <2>2. QED
    BY <1>1, <2>1 DEF Saved, Kept
<1>7. QED
  BY <1>4, <1>5, <1>6 DEF Saved

\* The rename puts another document in the place of one that is backed up.
LEMMA SavedRename ==
  ASSUME TypeOK, LockInv, Separate, LocalOnly, Saved, NEW w \in Local, Rename(w)
  PROVE  Saved'
<1> USE DEF TypeOK, Goto
<1>1. /\ pc[w] = "rename" /\ pc' = [pc EXCEPT ![w] = "verify"]
      /\ live' = tmp[Stamp(w)] /\ installed' = installed \union {w}
      /\ UNCHANGED <<data, bak, ts>> /\ w \in Writers
  BY DEF Rename, DoRename, Writers
<1>2. Stamp(w) \in Stamps /\ \A v \in Local : Stamp(v)' = Stamp(v)
  BY <1>1, StampType DEF Stamp
<1>3. data'[live'] = DocOf(w)
  <2>1. data[tmp[Stamp(w)]] = Doc(w)
    BY <1>1 DEF Separate, OwnTemp, Checked, Prefix, Doc
  <2>2. QED
    BY <1>1, <2>1, SizeAssumption DEF DocOf
<1>4. bak'[Stamp(w)] = data[live]
  BY <1>1 DEF Saved, BackedUp
<1>5. BackedUp'
  BY <1>1, Solitary DEF BackedUp, Holding, Writers
<1>6. BackupOf'
  BY <1>1, <1>2 DEF Saved, BackupOf, Writers
<1>7. Kept'
  <2>1. ASSUME NEW x \in installed \union {Old}
        PROVE  \E s \in Stamps : bak'[s] = DocOf(x)
    BY <1>1, <1>2, <1>4 DEF Saved, Kept
  <2>2. QED
    BY <1>1, <1>3, <2>1 DEF Kept
<1>8. QED
  BY <1>5, <1>6, <1>7 DEF Saved

LEMMA SavedNext ==
  TypeOK /\ LockInv /\ Separate /\ LocalOnly /\ LocalOnly' /\ Saved /\ [Next]_vars => Saved'
<1> SUFFICES ASSUME TypeOK, LockInv, Separate, LocalOnly, LocalOnly', Saved, [Next]_vars
             PROVE  Saved'
  OBVIOUS
<1>1. CASE Tick \/ UNCHANGED vars
  BY <1>1, SavedQuiet DEF Tick, vars, files, Stamp
<1>2. ASSUME NEW w \in Writers, Step(w) PROVE Saved'
  <2>1. w \in Local
    <3>1. Past(w)'
      BY <1>2 DEF Step, TakeStamp, Flock, Backup, OpenTemp, WriteChunk, WriteEnd,
         WriteTruncated, CheckTemp, RejectTemp, Rename, RenameMissing, Verify, Goto,
         Past, TypeOK
    <3>2. QED
      BY <3>1 DEF LocalOnly, Writers
  <2>2. CASE TakeStamp(w) \/ Flock(w)
    BY <2>2, <2>1, SavedQuiet DEF TakeStamp, Flock, Goto, files, TypeOK, Stamp, Writers
  <2>3. CASE Backup(w)
    BY <2>1, <2>3, SavedBackup
  <2>4. CASE OpenTemp(w)
    <3>1. data'[live] = data[live]
      BY <2>4, StampType DEF OpenTemp, Goto, Separate, LiveApart, Unused, TypeOK
    <3>2. QED
      BY <2>4, <3>1, SavedQuiet DEF OpenTemp, Goto, TypeOK, Stamp, Writers
  <2>5. CASE WriteChunk(w)
    <3>1. data'[live] = data[live]
      BY <2>5, StampType DEF WriteChunk, Goto, Separate, LiveApart, OwnTemp, TypeOK
    <3>2. QED
      BY <2>5, <3>1, SavedQuiet DEF WriteChunk, Goto, TypeOK, Stamp, Writers
  <2>6. CASE WriteEnd(w) \/ WriteTruncated(w) \/ CheckTemp(w)
    BY <2>6, SavedQuiet
       DEF WriteEnd, WriteTruncated, CheckTemp, Goto, files, TypeOK, Stamp, Writers
  <2>7. CASE RejectTemp(w) \/ RenameMissing(w) \/ Verify(w)
    BY <2>7, SavedQuiet
       DEF RejectTemp, RenameMissing, Verify, Goto, files, TypeOK, Stamp, Writers
  <2>8. CASE Rename(w)
    BY <2>1, <2>8, SavedRename
  <2>9. QED
    BY <1>2, <2>2, <2>3, <2>4, <2>5, <2>6, <2>7, <2>8 DEF Step
<1>3. ASSUME NEW w \in Writers, SshFault(w) PROVE Saved'
  BY <1>3 DEF SshFault, LocalOnly, Past
<1>4. ASSUME NEW w \in Writers, Crash(w) PROVE Saved'
  BY <1>4, SavedQuiet DEF Crash, files, TypeOK, Stamp, Writers
<1>5. QED
  BY <1>1, <1>2, <1>3, <1>4 DEF Next

\* While only local writers are at work no document that was ever live is
\* lost: it is live or in a backup, even when writers are killed half-way.
THEOREM NothingLost == Spec => []Recoverable
<1>1. Init => (LocalOnly => Saved)
  BY SavedInit
<1>2. IInv /\ (LocalOnly => Saved) /\ [Next]_vars => (LocalOnly => Saved)'
  BY LocalOnlyBefore, LocalOnlyApart, SavedNext DEF IInv
<1>3. (LocalOnly => Saved) => Recoverable
  BY DEF Recoverable, LocalOnly, Saved, Kept, DocOf
<1>4. QED
  BY <1>1, <1>2, <1>3, WriteInv, PTL DEF Spec

-----------------------------------------------------------------------------
\* A call is among the installed ones from its rename on, and not before.
Installs ==
  \A w \in Writers : /\ w \in installed => pc[w] \in {"verify", "ok", "error", "dead"}
                     /\ pc[w] \in {"verify", "ok"} => w \in installed

LEMMA InstallsNext == TypeOK /\ Installs /\ [Next]_vars => Installs'
<1> SUFFICES ASSUME TypeOK, Installs, [Next]_vars PROVE Installs'
  OBVIOUS
<1> USE DEF TypeOK, Installs, Goto
<1>1. CASE Tick \/ UNCHANGED vars
  BY <1>1 DEF Tick, vars
<1>2. ASSUME NEW w \in Writers, Step(w) PROVE Installs'
  <2>1. CASE TakeStamp(w) \/ Flock(w) \/ Backup(w) \/ OpenTemp(w)
    BY <2>1 DEF TakeStamp, Flock, Backup, OpenTemp
  <2>2. CASE WriteChunk(w) \/ WriteEnd(w) \/ WriteTruncated(w) \/ CheckTemp(w)
    BY <2>2 DEF WriteChunk, WriteEnd, WriteTruncated, CheckTemp
  <2>3. CASE Rename(w)
    BY <2>3 DEF Rename, DoRename
  <2>4. CASE RejectTemp(w) \/ RenameMissing(w) \/ Verify(w)
    BY <2>4 DEF RejectTemp, RenameMissing, Verify
  <2>5. QED
    BY <1>2, <2>1, <2>2, <2>3, <2>4 DEF Step
<1>3. ASSUME NEW w \in Writers, SshFault(w) PROVE Installs'
  BY <1>3 DEF SshFault, DoRename
<1>4. ASSUME NEW w \in Writers, Crash(w) PROVE Installs'
  BY <1>4 DEF Crash
<1>5. QED
  BY <1>1, <1>2, <1>3, <1>4 DEF Next

\* The rename makes the call's document the live one; no other step makes
\* another live.
LEMMA LiveDocRenamed ==
  ASSUME TypeOK, Separate, NEW w \in Writers, pc[w] = "rename", DoRename(w)
  PROVE  LiveDoc' = w
<1>1. data'[live'] = Doc(w)
  BY DEF Separate, OwnTemp, Checked, Prefix, Doc, DoRename
<1>2. Doc(w)[1] = w
  BY SizeAssumption DEF Doc
<1>3. NeverTruncated'
  BY <1>1 DEF NeverTruncated, Complete
<1>4. QED
  BY <1>1, <1>2, <1>3 DEF LiveDoc

LEMMA LiveDocKept ==
  ASSUME UNCHANGED live, data'[live] = data[live] PROVE LiveDoc' = LiveDoc
BY DEF LiveDoc, NeverTruncated, Complete

\* What a step of one call tells the callers.
told == [w \in Writers |-> Told(w)]

LEMMA ToldBy ==
  ASSUME TypeOK, NEW w \in Writers, NEW to, pc' = [pc EXCEPT ![w] = to]
  PROVE  /\ to = "ok" => told' = [told EXCEPT ![w] = "ok"]
         /\ to \in {"error", "dead"} => told' = [told EXCEPT ![w] = "error"]
         /\ to \notin {"ok", "error", "dead"} /\ pc[w] \notin {"ok", "error", "dead"}
              => told' = told
         /\ pc[w] \notin {"ok", "error", "dead"} => told[w] = "nothing"
BY DEF TypeOK, told, Told

LEMMA ToldNothing ==
  ASSUME TypeOK, NEW w \in Writers, pc[w] \in {"open", "write", "rename"},
         NEW to \in {"write", "verify"}, pc' = [pc EXCEPT ![w] = to]
  PROVE  told' = told /\ told[w] = "nothing"
<1>1. pc[w] \notin {"ok", "error", "dead"} /\ to \notin {"ok", "error", "dead"}
  OBVIOUS
<1>2. QED
  BY <1>1, ToldBy

\* Each step of the writers is one of the abstract write, or none of its.
LEMMA StepReplaces ==
  ASSUME TypeOK, Separate, Installs, [Next]_vars
  PROVE  [Replaced!ANext]_<<LiveDoc, installed, told>>
<1>1. CASE Tick \/ UNCHANGED vars
  <2>1. LiveDoc' = LiveDoc /\ told' = told /\ installed' = installed
    BY <1>1, LiveDocKept DEF Tick, vars, files, told, Told
  <2>2. QED
    BY <2>1
<1>2. ASSUME NEW w \in Writers, Step(w)
      PROVE  \/ UNCHANGED <<LiveDoc, installed, told>>
             \/ Replaced!Replace(w) \/ Replaced!Return(w) \/ Replaced!Fail(w)
  <2> USE DEF Goto, files
  <2>1. CASE TakeStamp(w) \/ Flock(w) \/ Backup(w) \/ WriteEnd(w) \/ WriteTruncated(w) \/ CheckTemp(w)
    <3>1. /\ UNCHANGED <<live, data, installed>>
          /\ pc[w] \notin {"ok", "error", "dead"}
          /\ \E to : to \notin {"ok", "error", "dead"} /\ pc' = [pc EXCEPT ![w] = to]
      BY <2>1 DEF TakeStamp, Flock, Backup, WriteEnd, WriteTruncated, CheckTemp
    <3>2. QED
      BY <3>1, LiveDocKept, ToldBy
  <2>2. CASE OpenTemp(w)
    <3>1. data'[live] = data[live] /\ live' = live
      BY <2>2, StampType DEF OpenTemp, Separate, LiveApart, Unused, TypeOK
    <3>2. pc[w] = "open" /\ pc' = [pc EXCEPT ![w] = "write"] /\ installed' = installed
      BY <2>2 DEF OpenTemp
    <3>3. told' = told
      BY <3>2, ToldNothing
    <3>4. QED
      BY <3>1, <3>2, <3>3, LiveDocKept
  <2>3. CASE WriteChunk(w)
    <3>1. data'[live] = data[live] /\ live' = live
      BY <2>3, StampType DEF WriteChunk, Separate, LiveApart, OwnTemp, TypeOK
    <3>2. pc[w] = "write" /\ pc' = [pc EXCEPT ![w] = "write"] /\ installed' = installed
      BY <2>3 DEF WriteChunk
    <3>3. told' = told
      BY <3>2, ToldNothing
    <3>4. QED
      BY <3>1, <3>2, <3>3, LiveDocKept
  <2>4. CASE RejectTemp(w) \/ RenameMissing(w)
    <3>1. /\ UNCHANGED <<live, data, installed>>
          /\ pc[w] \notin {"ok", "error", "dead"} /\ pc' = [pc EXCEPT ![w] = "error"]
      BY <2>4 DEF RejectTemp, RenameMissing
    <3>2. Replaced!Fail(w)
      BY <3>1, LiveDocKept, ToldBy DEF Replaced!Fail, told
    <3>3. QED
      BY <3>2
  <2>5. CASE Rename(w)
    <3>1. /\ pc[w] = "rename" /\ pc' = [pc EXCEPT ![w] = "verify"] /\ DoRename(w)
      BY <2>5 DEF Rename
    <3>2. w \notin installed /\ installed' = installed \union {w}
      BY <3>1 DEF Installs, DoRename
    <3>3. LiveDoc' = w
      BY <3>1, LiveDocRenamed
    <3>4. told' = told /\ told[w] = "nothing"
      BY <3>1, ToldNothing
    <3>5. QED
      BY <3>2, <3>3, <3>4 DEF Replaced!Replace, told
  <2>6. CASE Verify(w)
    <3>1. /\ pc[w] = "verify" /\ UNCHANGED <<live, data, installed>>
          /\ \E to \in {"ok", "error"} : pc' = [pc EXCEPT ![w] = to]
      BY <2>6 DEF Verify
    <3>2. w \in installed /\ LiveDoc' = LiveDoc /\ told[w] = "nothing"
      BY <3>1, LiveDocKept, ToldBy DEF Installs
    <3>3. CASE pc' = [pc EXCEPT ![w] = "ok"]
      <4>1. told' = [told EXCEPT ![w] = "ok"]
        BY <3>3, ToldBy
      <4>2. QED
        BY <3>1, <3>2, <4>1 DEF Replaced!Return, told
    <3>4. CASE pc' = [pc EXCEPT ![w] = "error"]
      <4>1. told' = [told EXCEPT ![w] = "error"]
        BY <3>4, ToldBy
      <4>2. QED
        BY <3>1, <3>2, <4>1 DEF Replaced!Fail, told
    <3>5. QED
      BY <3>1, <3>3, <3>4
  <2>7. QED
    BY <1>2, <2>1, <2>2, <2>3, <2>4, <2>5, <2>6 DEF Step
<1>3. ASSUME NEW w \in Writers, SshFault(w) PROVE Replaced!Fail(w)
  <2>1. /\ pc[w] \notin {"ok", "error", "dead"} /\ pc' = [pc EXCEPT ![w] = "error"]
        /\ \/ UNCHANGED <<live, data, installed>>
           \/ pc[w] = "rename" /\ DoRename(w)
    BY <1>3 DEF SshFault, files
  <2>2. told[w] = "nothing" /\ told' = [told EXCEPT ![w] = "error"]
    BY <2>1, ToldBy
  <2>3. CASE UNCHANGED <<live, data, installed>>
    BY <2>2, <2>3, LiveDocKept DEF Replaced!Fail, told
  <2>4. CASE pc[w] = "rename" /\ DoRename(w)
    <3>1. LiveDoc' = w /\ w \notin installed /\ installed' = installed \union {w}
      BY <2>4, LiveDocRenamed DEF Installs, DoRename
    <3>2. QED
      BY <2>2, <3>1 DEF Replaced!Fail, told
  <2>5. QED
    BY <2>1, <2>3, <2>4
<1>4. ASSUME NEW w \in Writers, Crash(w) PROVE Replaced!Fail(w)
  <2>1. /\ pc[w] \notin {"ok", "error", "dead"} /\ pc' = [pc EXCEPT ![w] = "dead"]
        /\ UNCHANGED <<live, data, installed>>
    BY <1>4 DEF Crash, files
  <2>2. QED
    BY <2>1, LiveDocKept, ToldBy DEF Replaced!Fail, told
<1>5. QED
  BY <1>1, <1>2, <1>3, <1>4 DEF Next, Replaced!ANext

LEMMA InitReplaces == Init => Replaced!AInit
<1> SUFFICES ASSUME Init PROVE Replaced!AInit
  OBVIOUS
<1>1. LiveDoc = Old
  BY DEF Init, LiveDoc, NeverTruncated, Complete, Inodes, OldDoc
<1>2. \A w \in Writers : Told(w) = "nothing"
  BY DEF Init, Told
<1>3. QED
  BY <1>1, <1>2 DEF Init, Replaced!AInit

\* A write, however it is interleaved with others, fails or is killed, is an
\* atomic replacement of the whole document, as long as calls at work use
\* temporary names of their own.
THEOREM WritesAreAtomic == Spec /\ []Apart => ImplementsAtomicConf
<1>1. Init => Replaced!AInit /\ Installs
  BY InitReplaces DEF Init, Installs
<1>2. IInv /\ Installs /\ [Next]_vars => Installs'
  BY InstallsNext DEF IInv
<1>3. IInv /\ Installs /\ Apart /\ [Next]_vars => [Replaced!ANext]_Replaced!avars
  BY StepReplaces DEF IInv, Replaced!avars, told
<1>4. QED
  BY <1>1, <1>2, <1>3, WriteInv, PTL DEF Spec, ImplementsAtomicConf, Replaced!ASpec

\* So it is when every remote call has a label of its own.
COROLLARY LabelledWritesAreAtomic ==
  ASSUME \A v \in Remote, w \in Writers : v # w => Label[v] # Label[w]
  PROVE  Spec => ImplementsAtomicConf
<1>1. Apart
  BY DEF Apart, Stamp
<1>2. QED
  BY <1>1, WritesAreAtomic, PTL
=============================================================================
