----------------------------- MODULE SafeWrite ------------------------------
(***************************************************************************)
(* safe_write_rw_eap.py: replacing the live rw-eap.conf from several       *)
(* processes at once.  A local writer (atomic_write_conf_local) holds an   *)
(* flock while it writes; a remote one (atomic_write_conf_remote, what the *)
(* portal and the bot call) runs one ssh command after the other and takes *)
(* no lock.  Both write a temporary file, check its size, rename it over   *)
(* the live name and check the size again.                                 *)
(*                                                                         *)
(* A file is an inode; a name is bound to an inode, and a rename moves the *)
(* binding, so a process that still holds the old file open writes through *)
(* the new name.  A document is a sequence of chunks, each chunk being the *)
(* writer it comes from.  A temporary name is <<label, second>>.           *)
(***************************************************************************)
EXTENDS Naturals, Sequences, FiniteSets

CONSTANTS Remote, Local,  \* calls of the two write functions
          Size,           \* Size[w]: chunks in the document w writes
          Label,          \* Label[w]: its caller_label
          MaxTime,        \* bound: the clock's last second
          MaxFaults,      \* bound: ssh commands that fail or are cut short
          MaxCrashes,     \* bound: writing processes that are killed
          Old,            \* the document (and inode) live at the start
          Hole,           \* the bytes of a gap in a file
          None            \* no inode, no holder, no time

Writers == Remote \union Local

ASSUME SizeAssumption ==
  /\ Remote \intersect Local = {}
  /\ Size \in [Writers -> Nat \ {0}]
  /\ Old \notin Writers /\ Hole \notin Writers \union {Old}
  /\ None \notin Writers \union {Old}
  /\ MaxTime \in Nat /\ MaxFaults \in Nat /\ MaxCrashes \in Nat

VARIABLES
  live,     \* the inode bound to the live name, rw-eap.conf
  tmp,      \* the inodes bound to the temporary names, by <<label, second>>
  data,     \* content of each inode
  bak,      \* content of each backup file, by <<label, second>>
  pc,       \* where each call is
  ts,       \* int(time.time()) each call has taken
  fd,       \* the inode each call's write has open
  off,      \* chunks that write has put down
  lock,     \* holder of RW_EAP_LOCK
  now, faults, crashes,
  installed \* history: the calls that have renamed their file into place

vars == <<live, tmp, data, bak, pc, ts, fd, off, lock, now, faults, crashes,
          installed>>
files == <<live, tmp, data, bak>>
bounds == <<now, faults, crashes>>

Seconds == 0..MaxTime
Stamps == {Label[w] : w \in Writers} \X Seconds
Inodes == Writers \union {Old}
Stamp(w) == <<Label[w], ts[w]>>

\* The document w is asked to write, and the one the run starts with.
Doc(w) == [i \in 1..Size[w] |-> w]
OldDoc == <<Old>>
Complete(c) == c = OldDoc \/ \E w \in Writers : c = Doc(w)

\* What a write of one more chunk at an offset makes of a file: the chunk
\* replaces what was there, and a gap before it reads as a hole.
PutChunk(c, n, w) ==
  [i \in 1..(IF n > Len(c) THEN n ELSE Len(c)) |->
     IF i = n THEN w ELSE IF i <= Len(c) THEN c[i] ELSE Hole]

Init ==
  /\ live = Old
  /\ tmp = [s \in Stamps |-> None]
  /\ data = [i \in Inodes |-> IF i = Old THEN OldDoc ELSE <<>>]
  /\ bak = [s \in Stamps |-> <<>>]
  /\ pc = [w \in Writers |-> "called"]
  /\ ts = [w \in Writers |-> 0]
  /\ fd = [w \in Writers |-> None]
  /\ off = [w \in Writers |-> 0]
  /\ lock = None
  /\ now = 0 /\ faults = 0 /\ crashes = 0
  /\ installed = {}

-----------------------------------------------------------------------------
Goto(w, from, to) == pc[w] = from /\ pc' = [pc EXCEPT ![w] = to]

Tick == /\ now < MaxTime
        /\ now' = now + 1
        /\ UNCHANGED <<files, pc, ts, fd, off, lock, faults, crashes,
                       installed>>

\* The call: ts = int(time.time()) and the names made from it, before the
\* lock.  The document is an argument: no lock is held while the caller edits.
TakeStamp(w) ==
  /\ Goto(w, "called", IF w \in Local THEN "lock" ELSE "backup")
  /\ ts' = [ts EXCEPT ![w] = now]
  /\ UNCHANGED <<files, fd, off, lock, bounds, installed>>

\* Mutant of Flock: the lock file is opened and never locked.
FlockUnlocked(w) ==
  /\ w \in Local
  /\ Goto(w, "lock", "backup")
  /\ lock' = w
  /\ UNCHANGED <<files, ts, fd, off, bounds, installed>>

\* _flock_exclusive
Flock(w) ==
  /\ w \in Local /\ lock = None
  /\ Goto(w, "lock", "backup")
  /\ lock' = w
  /\ UNCHANGED <<files, ts, fd, off, bounds, installed>>

\* The snapshot of the live file (cp over ssh, or read_bytes / write_bytes).
Backup(w) ==
  /\ Goto(w, "backup", "open")
  /\ bak' = [bak EXCEPT ![Stamp(w)] = data[live]]
  /\ UNCHANGED <<live, tmp, data, ts, fd, off, lock, bounds, installed>>

\* Mutant of OpenTemp: the live file is opened in 'w' mode.
OpenLive(w) ==
  /\ Goto(w, "open", "write")
  /\ data' = [data EXCEPT ![live] = <<>>]
  /\ fd' = [fd EXCEPT ![w] = live]
  /\ off' = [off EXCEPT ![w] = 0]
  /\ UNCHANGED <<live, tmp, bak, ts, lock, bounds, installed>>

\* tee (or write_bytes) opens the temporary name: the file of that name is
\* truncated, or a new one made.
OpenTemp(w) ==
  LET held == tmp[Stamp(w)]
      i    == IF held = None THEN w ELSE held
  IN /\ Goto(w, "open", "write")
     /\ tmp' = [tmp EXCEPT ![Stamp(w)] = i]
     /\ data' = [data EXCEPT ![i] = <<>>]
     /\ fd' = [fd EXCEPT ![w] = i]
     /\ off' = [off EXCEPT ![w] = 0]
     /\ UNCHANGED <<live, bak, ts, lock, bounds, installed>>

\* One chunk goes to the file that was opened, whatever its name is now.
WriteChunk(w) ==
  /\ off[w] < Size[w]
  /\ Goto(w, "write", "write")
  /\ off' = [off EXCEPT ![w] = @ + 1]
  /\ data' = [data EXCEPT ![fd[w]] = PutChunk(@, off[w] + 1, w)]
  /\ UNCHANGED <<live, tmp, bak, ts, fd, lock, bounds, installed>>

WriteEnd(w) ==
  /\ off[w] = Size[w]
  /\ Goto(w, "write", "check")
  /\ UNCHANGED <<files, ts, fd, off, lock, bounds, installed>>

\* The transport cuts the document short and still reports success: the case
\* the size check is there for.
WriteTruncated(w) ==
  /\ w \in Remote /\ faults < MaxFaults /\ off[w] < Size[w]
  /\ Goto(w, "write", "check")
  /\ faults' = faults + 1
  /\ UNCHANGED <<files, ts, fd, off, lock, now, crashes, installed>>

\* Mutant of TempGood: the file is there, whatever its size.
TempThere(w) == tmp[Stamp(w)] # None

\* stat of the temporary name: it must exist and have the expected size.
TempGood(w) == /\ tmp[Stamp(w)] # None
               /\ Len(data[tmp[Stamp(w)]]) = Size[w]

CheckTemp(w) ==
  /\ TempGood(w)
  /\ Goto(w, "check", "rename")
  /\ UNCHANGED <<files, ts, fd, off, lock, bounds, installed>>

\* The failed check removes the temporary file and raises.
RejectTemp(w) ==
  /\ ~TempGood(w)
  /\ Goto(w, "check", "error")
  /\ tmp' = [tmp EXCEPT ![Stamp(w)] = None]
  /\ lock' = IF lock = w THEN None ELSE lock
  /\ UNCHANGED <<live, data, bak, ts, fd, off, bounds, installed>>

\* Mutant of DoRename: a rename that does not fail when the file is gone.
DoRenameBlindly(w) ==
  /\ live' = tmp[Stamp(w)]
  /\ tmp' = [tmp EXCEPT ![Stamp(w)] = None]
  /\ installed' = installed \union {w}
  /\ UNCHANGED <<data, bak, ts, fd, off>>

\* mv / Path.replace: the live name takes over the file of the temporary one.
DoRename(w) ==
  /\ tmp[Stamp(w)] # None
  /\ live' = tmp[Stamp(w)]
  /\ tmp' = [tmp EXCEPT ![Stamp(w)] = None]
  /\ installed' = installed \union {w}
  /\ UNCHANGED <<data, bak, ts, fd, off>>

Rename(w) ==
  /\ Goto(w, "rename", "verify")
  /\ DoRename(w)
  /\ UNCHANGED <<lock, bounds>>

\* The temporary file is gone (another call of the same name renamed or
\* removed it): mv and replace raise.
RenameMissing(w) ==
  /\ tmp[Stamp(w)] = None
  /\ Goto(w, "rename", "error")
  /\ lock' = IF lock = w THEN None ELSE lock
  /\ UNCHANGED <<files, ts, fd, off, bounds, installed>>

\* stat of the live name after the rename.
Verify(w) ==
  /\ Goto(w, "verify",
          IF Len(data[live]) = Size[w] THEN "ok" ELSE "error")
  /\ lock' = IF lock = w THEN None ELSE lock
  /\ UNCHANGED <<files, ts, fd, off, bounds, installed>>

-----------------------------------------------------------------------------
\* An ssh command of a remote call raises (non-zero exit, or the timeout).
\* A failed tee and a failed stat of the temporary file are followed by
\* rm -f, which may itself fail; a failed mktmp, cp or final stat is not.
\* The backup or the rename may have happened before the command was given
\* up; a tee that is given up writes no more (its input is closed).
SshFault(w) ==
  /\ w \in Remote /\ faults < MaxFaults
  /\ faults' = faults + 1
  /\ pc[w] \in {"backup", "open", "write", "check", "rename", "verify"}
  /\ pc' = [pc EXCEPT ![w] = "error"]
  /\ \/ /\ pc[w] \in {"backup", "verify", "rename"}
        /\ UNCHANGED <<files, ts, fd, off, installed>>
     \/ /\ pc[w] = "backup"
        /\ bak' = [bak EXCEPT ![Stamp(w)] = data[live]]
        /\ UNCHANGED <<live, tmp, data, ts, fd, off, installed>>
     \/ /\ pc[w] \in {"open", "write", "check"}
        /\ \E gone \in BOOLEAN :
             tmp' = IF gone THEN [tmp EXCEPT ![Stamp(w)] = None] ELSE tmp
        /\ UNCHANGED <<live, data, bak, ts, fd, off, installed>>
     \/ /\ pc[w] = "rename"
        /\ DoRename(w)
  /\ UNCHANGED <<lock, now, crashes>>

\* Mutant of Crash: a lock that is a file, and outlives its process.
CrashKeepsLock(w) ==
  /\ crashes < MaxCrashes
  /\ pc[w] \notin {"ok", "error", "dead"}
  /\ pc' = [pc EXCEPT ![w] = "dead"]
  /\ crashes' = crashes + 1
  /\ UNCHANGED <<files, ts, fd, off, lock, now, faults, installed>>

\* The process is killed (gunicorn recycles a worker, the host restarts): it
\* takes no further step, and the kernel drops its flock.
Crash(w) ==
  /\ crashes < MaxCrashes
  /\ pc[w] \notin {"ok", "error", "dead"}
  /\ pc' = [pc EXCEPT ![w] = "dead"]
  /\ crashes' = crashes + 1
  /\ lock' = IF lock = w THEN None ELSE lock
  /\ UNCHANGED <<files, ts, fd, off, now, faults, installed>>

-----------------------------------------------------------------------------
Step(w) ==
  \/ TakeStamp(w) \/ Flock(w) \/ Backup(w) \/ OpenTemp(w)
  \/ WriteChunk(w) \/ WriteEnd(w) \/ WriteTruncated(w)
  \/ CheckTemp(w) \/ RejectTemp(w)
  \/ Rename(w) \/ RenameMissing(w) \/ Verify(w)

Next == \/ Tick
        \/ \E w \in Writers : Step(w) \/ SshFault(w) \/ Crash(w)

Fairness == \A w \in Writers : WF_vars(Step(w))
Spec == Init /\ [][Next]_vars
FairSpec == Spec /\ Fairness
-----------------------------------------------------------------------------
Past(w) == pc[w] # "called"
Ended(w) == pc[w] \in {"ok", "error", "dead"}

\* Every call that has taken its stamp uses names of its own.  Two local
\* calls may share them: the lock keeps them apart.
Apart == \A v \in Remote, w \in Writers :
           v # w /\ Past(v) /\ Past(w) => Stamp(v) # Stamp(w)

TypeOK ==
  /\ live \in Inodes
  /\ tmp \in [Stamps -> Inodes \union {None}]
  /\ data \in [Inodes -> Seq(Inodes \union {Hole})]
  /\ bak \in [Stamps -> Seq(Inodes \union {Hole})]
  /\ pc \in [Writers -> {"called", "lock", "backup", "open", "write",
                         "check", "rename", "verify", "ok", "error", "dead"}]
  /\ ts \in [Writers -> Seconds]
  /\ fd \in [Writers -> Inodes \union {None}]
  /\ off \in [Writers -> Nat]
  /\ lock \in Local \union {None}
  /\ now \in Seconds /\ faults \in 0..MaxFaults /\ crashes \in 0..MaxCrashes
  /\ installed \subseteq Writers

\* "The live conf file is NEVER opened in 'w' mode, NEVER truncated
\* mid-write": charon, reloading at any moment, finds one whole document.
NeverTruncated == Complete(data[live])

\* The same, for the calls whose temporary names are their own: neither ssh
\* faults, nor a killed writer, nor a stale temporary file that a killed
\* local writer left, can put a part of a document under the live name.
LiveComplete == Apart => NeverTruncated

\* While local writers have the file to themselves they lose no document:
\* whatever was live is live still or is in a backup, even if writers are
\* killed half-way.  This is what the backup taken under the lock is for (two
\* in the same second share the backup's name).
Recoverable ==
  (\A r \in Remote : ~Past(r)) /\
  (\A v, w \in Local : v # w /\ Past(v) /\ Past(w) => Stamp(v) # Stamp(w))
  => \A w \in installed \union {Old} :
       LET doc == IF w = Old THEN OldDoc ELSE Doc(w)
       IN data[live] = doc \/ \E s \in Stamps : bak[s] = doc

\* No writer waits for ever: the lock of a killed or failed writer is free.
Terminates == \A w \in Writers : <>Ended(w)

\* Whose document is live, and what the caller of w has been told.
LiveDoc == IF NeverTruncated THEN data[live][1] ELSE Hole
Told(w) == IF pc[w] = "ok" THEN "ok"
           ELSE IF pc[w] \in {"error", "dead"} THEN "error" ELSE "nothing"

\* A call is an atomic replacement (AtomicConf).
Replaced == INSTANCE AtomicConf WITH
  conf <- LiveDoc, told <- [w \in Writers |-> Told(w)]
ImplementsAtomicConf == Replaced!ASpec
=============================================================================
