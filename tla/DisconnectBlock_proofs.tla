----------------------- MODULE DisconnectBlock_proofs -----------------------
(***************************************************************************)
(* Theorems about DisconnectBlock, for any number of blocks, users,        *)
(* addresses, crashes, starts and failures.                                *)
(***************************************************************************)
EXTENDS DisconnectBlock, FiniteSetTheorems, TLAPS

\* Blocks that have come past iptables -I for an address, dead ones included.
Ruled(i) ==
  {b \in Blocks : ip[b] = i /\ pc[b] \in {"arm", "waiting", "lift", "over", "lost"}}

\* A block that is about to run iptables has an address.
HasIp == \A b \in Blocks : pc[b] \in {"drop", "lift"} => ip[b] # NoIp

\* At most one rule has been added for each of them.
RulesAdded == \A i \in Ips : rules[i] <= Cardinality(Ruled(i))

\* TypeOK with no more said of the rules than that they are counted.
Shape ==
  /\ reject \subseteq Users /\ stuck \subseteq Users /\ torn \subseteq Ips
  /\ rules \in [Ips -> Nat]
  /\ pc \in [Blocks -> Points]
  /\ user \in [Blocks -> Users] /\ ip \in [Blocks -> Ips \union {NoIp}]
  /\ up \in BOOLEAN /\ todo \in [Starters -> SUBSET Users]
  /\ crashes \in 0..MaxCrashes /\ starts \in 0..MaxStarts /\ faults \in 0..MaxFaults
  /\ HasIp

IInv == Shape /\ RulesAdded /\ DropHolds /\ RowHasTimer

-----------------------------------------------------------------------------
\* Sets of blocks are finite, and smaller ones have fewer elements.
LEMMA BlocksFinite ==
  ASSUME NEW T \in SUBSET Blocks, NEW S \in SUBSET T
  PROVE  /\ IsFiniteSet(S) /\ Cardinality(S) \in Nat
         /\ Cardinality(T) \in Nat /\ Cardinality(Blocks) \in Nat
         /\ Cardinality(S) <= Cardinality(T)
         /\ Cardinality(T) <= Cardinality(Blocks)
<1>1. IsFiniteSet(Blocks)
  BY FS_Interval, BlockAssumption DEF Blocks
<1>2. IsFiniteSet(T) /\ Cardinality(T) <= Cardinality(Blocks)
  BY <1>1, FS_Subset
<1>3. IsFiniteSet(S) /\ Cardinality(S) <= Cardinality(T)
  BY <1>2, FS_Subset
<1>4. QED
  BY <1>1, <1>2, <1>3, FS_CardinalityType

LEMMA InForceBlocks == \A i : InForce(i) \subseteq Blocks /\ Ruled(i) \subseteq Blocks
BY DEF InForce, Ruled

LEMMA ShapeInit == Init => Shape
<1> SUFFICES ASSUME Init PROVE Shape
  OBVIOUS
<1>1. (CHOOSE u \in Users : TRUE) \in Users
  BY BlockAssumption
<1>2. QED
  BY <1>1, BlockAssumption DEF Init, Shape, HasIp, Points, Starters

LEMMA ShapeNext == Shape /\ [Next]_vars => Shape'
<1> SUFFICES ASSUME Shape, [Next]_vars PROVE Shape'
  OBVIOUS
<1> USE BlockAssumption DEF Shape, HasIp, Points, Goto, Fault, Delete, bounds, histories
<1>1. ASSUME NEW b \in Blocks, NEW u \in Users, NEW i \in Ips \union {NoIp},
             Disconnect(b, u, i)
      PROVE  Shape'
  BY <1>1 DEF Disconnect
<1>2. ASSUME NEW b \in Blocks, InsertRow(b) PROVE Shape'
  BY <1>2 DEF InsertRow
<1>3. ASSUME NEW b \in Blocks, Drop(b) PROVE Shape'
  BY <1>3 DEF Drop, AddRule
<1>4. ASSUME NEW b \in Blocks, Arm(b) PROVE Shape'
  BY <1>4 DEF Arm
<1>5. ASSUME NEW b \in Blocks, Fire(b) PROVE Shape'
  BY <1>5 DEF Fire
<1>6. ASSUME NEW b \in Blocks, Lift(b) PROVE Shape'
  BY <1>6 DEF Lift, RemoveRule
<1>7. CASE Crash
  <2>1. pc' \in [Blocks -> Points]
    BY <1>7 DEF Crash
  <2>2. todo' \in [Starters -> SUBSET Users]
    BY <1>7 DEF Crash
  <2>3. crashes' \in 0..MaxCrashes /\ up' = FALSE
    BY <1>7 DEF Crash
  <2>4. HasIp'
    BY <1>7 DEF Crash
  <2>5. UNCHANGED <<reject, rules, user, ip, stuck, torn, starts, faults>>
    BY <1>7 DEF Crash
  <2>6. QED
    BY <2>1, <2>2, <2>3, <2>4, <2>5
<1>8. ASSUME NEW r \in Starters, StartUp(r) PROVE Shape'
  <2>1. todo' \in [Starters -> SUBSET Users] /\ stuck' \subseteq Users
    BY <1>8 DEF StartUp
  <2>2. starts' \in 0..MaxStarts
    BY <1>8 DEF StartUp, MayStart
  <2>3. up' \in BOOLEAN
    BY <1>8, Zenon DEF StartUp, MayStart
  <2>4. faults' \in 0..MaxFaults
    BY <1>8 DEF StartUp
  <2>5. UNCHANGED <<reject, rules, pc, user, ip, torn, crashes>>
    BY <1>8 DEF StartUp
  <2>6. QED
    BY <2>1, <2>2, <2>3, <2>4, <2>5
<1>9. ASSUME NEW r \in Starters, SweepRow(r) PROVE Shape'
  BY <1>9 DEF SweepRow
<1>10. ASSUME NEW u \in Users, Rewrite(u) PROVE Shape'
  BY <1>10 DEF Rewrite
<1>11. CASE UNCHANGED vars
  BY <1>11 DEF vars
<1>12. QED
  BY <1>1, <1>2, <1>3, <1>4, <1>5, <1>6, <1>7, <1>8, <1>9, <1>10, <1>11
     DEF Next, BlockStep

-----------------------------------------------------------------------------
\* A step that leaves the rules alone, puts no block in force and takes none
\* back before its iptables -I.
LEMMA RulesKept ==
  ASSUME Shape, RulesAdded, DropHolds, UNCHANGED rules, torn \subseteq torn',
         \A i \in Ips : InForce(i)' \subseteq InForce(i) /\ Ruled(i) \subseteq Ruled(i)'
  PROVE  RulesAdded' /\ DropHolds'
<1>1. ASSUME NEW i \in Ips
      PROVE  /\ rules'[i] <= Cardinality(Ruled(i)')
             /\ i \notin torn' => rules'[i] >= Cardinality(InForce(i)')
  <2>1. Ruled(i)' \subseteq Blocks /\ InForce(i) \subseteq Blocks
    BY DEF Ruled, InForce
  <2>2. Cardinality(Ruled(i)) <= Cardinality(Ruled(i)') /\ Cardinality(Ruled(i)) \in Nat
        /\ Cardinality(Ruled(i)') \in Nat
    <3>1. Ruled(i)' \in SUBSET Blocks /\ Ruled(i) \in SUBSET Ruled(i)'
      BY <2>1
    <3>2. QED
      BY <3>1, BlocksFinite
  <2>3. Cardinality(InForce(i)') <= Cardinality(InForce(i)) /\ Cardinality(InForce(i)) \in Nat
        /\ Cardinality(InForce(i)') \in Nat
    <3>1. InForce(i) \in SUBSET Blocks /\ InForce(i)' \in SUBSET InForce(i)
      BY <2>1
    <3>2. QED
      BY <3>1, BlocksFinite
  <2>4. rules'[i] = rules[i] /\ rules[i] \in Nat
    BY DEF Shape
  <2>5. rules[i] <= Cardinality(Ruled(i)) /\ (i \notin torn' => rules[i] >= Cardinality(InForce(i)))
    BY DEF RulesAdded, DropHolds
  <2>6. QED
    BY <2>2, <2>3, <2>4, <2>5
<1>2. QED
  BY <1>1 DEF RulesAdded, DropHolds

\* One block is put into force, and its rule added.
LEMMA RuleAdded ==
  ASSUME Shape, RulesAdded, DropHolds, NEW b \in Blocks, Goto(b, "drop", "arm"),
         AddRule(ip[b]), UNCHANGED ip, torn \subseteq torn'
  PROVE  RulesAdded' /\ DropHolds'
<1>1. ASSUME NEW i \in Ips
      PROVE  /\ rules'[i] <= Cardinality(Ruled(i)')
             /\ i \notin torn' => rules'[i] >= Cardinality(InForce(i)')
  <2>1. Ruled(i) \in SUBSET Blocks /\ InForce(i) \in SUBSET Blocks
    BY DEF Ruled, InForce
  <2>2. /\ IsFiniteSet(Ruled(i)) /\ IsFiniteSet(InForce(i))
        /\ Cardinality(Ruled(i)) \in Nat /\ Cardinality(InForce(i)) \in Nat
    BY <2>1, BlocksFinite
  <2>3. rules[i] <= Cardinality(Ruled(i)) /\ (i \notin torn' => rules[i] >= Cardinality(InForce(i)))
        /\ rules[i] \in Nat
    BY DEF RulesAdded, DropHolds, Shape
  <2>4. CASE i = ip[b]
    <3>1. Ruled(i)' = Ruled(i) \union {b} /\ b \notin Ruled(i)
      BY <2>4 DEF Ruled, Goto, Shape
    <3>2. InForce(i)' = InForce(i) \union {b} /\ b \notin InForce(i)
      BY <2>4 DEF InForce, Goto, Shape
    <3>3. /\ Cardinality(Ruled(i)') = Cardinality(Ruled(i)) + 1
          /\ Cardinality(InForce(i)') = Cardinality(InForce(i)) + 1
      BY <2>2, <3>1, <3>2, FS_AddElement
    <3>4. rules'[i] = rules[i] + 1
      BY <2>4 DEF AddRule, Shape
    <3>5. QED
      BY <2>2, <2>3, <3>3, <3>4
  <2>5. CASE i # ip[b]
    <3>1. Ruled(i)' = Ruled(i) /\ InForce(i)' = InForce(i)
      BY <2>5 DEF Ruled, InForce, Goto, Shape
    <3>2. rules'[i] = rules[i]
      BY <2>5 DEF AddRule, Shape
    <3>3. QED
      BY <2>3, <3>1, <3>2
  <2>6. QED
    BY <2>4, <2>5
<1>2. QED
  BY <1>1 DEF RulesAdded, DropHolds

\* One block in force is over, and one rule for its address is gone.
LEMMA RuleRemoved ==
  ASSUME Shape, RulesAdded, DropHolds, NEW b \in Blocks, Goto(b, "lift", "over"),
         RemoveRule(ip[b]), UNCHANGED ip, torn \subseteq torn'
  PROVE  RulesAdded' /\ DropHolds'
<1>1. ASSUME NEW i \in Ips
      PROVE  /\ rules'[i] <= Cardinality(Ruled(i)')
             /\ i \notin torn' => rules'[i] >= Cardinality(InForce(i)')
  <2>1. Ruled(i) \in SUBSET Blocks /\ InForce(i) \in SUBSET Blocks
    BY DEF Ruled, InForce
  <2>2. /\ IsFiniteSet(InForce(i))
        /\ Cardinality(Ruled(i)) \in Nat /\ Cardinality(InForce(i)) \in Nat
    BY <2>1, BlocksFinite
  <2>3. rules[i] <= Cardinality(Ruled(i)) /\ (i \notin torn' => rules[i] >= Cardinality(InForce(i)))
        /\ rules[i] \in Nat
    BY DEF RulesAdded, DropHolds, Shape
  <2>4. Ruled(i)' = Ruled(i)
    BY DEF Ruled, Goto, Shape
  <2>5. CASE i = ip[b]
    <3>1. InForce(i)' = InForce(i) \ {b} /\ b \in InForce(i)
      BY <2>5 DEF InForce, Goto, Shape
    <3>2. Cardinality(InForce(i)') = Cardinality(InForce(i)) - 1
      BY <2>2, <3>1, FS_RemoveElement
    <3>3. rules'[i] = IF rules[i] > 0 THEN rules[i] - 1 ELSE 0
      BY <2>5 DEF RemoveRule, Shape
    <3>4. QED
      BY <2>2, <2>3, <2>4, <3>2, <3>3
  <2>6. CASE i # ip[b]
    <3>1. InForce(i)' = InForce(i)
      BY <2>6 DEF InForce, Goto, Shape
    <3>2. rules'[i] = rules[i]
      BY <2>6 DEF RemoveRule, Shape
    <3>3. QED
      BY <2>3, <2>4, <3>1, <3>2
  <2>7. QED
    BY <2>5, <2>6
<1>2. QED
  BY <1>1 DEF RulesAdded, DropHolds

LEMMA RulesNext ==
  ASSUME Shape, RulesAdded, DropHolds, [Next]_vars PROVE RulesAdded' /\ DropHolds'
<1> USE BlockAssumption DEF Shape, HasIp, Goto, bounds, histories
<1>1. ASSUME NEW b \in Blocks, NEW u \in Users, NEW i \in Ips \union {NoIp},
             Disconnect(b, u, i)
      PROVE  RulesAdded' /\ DropHolds'
  <2>1. /\ UNCHANGED <<rules, torn>>
        /\ \A j \in Ips : InForce(j)' = InForce(j) /\ Ruled(j)' = Ruled(j)
    BY <1>1 DEF Disconnect, InForce, Ruled
  <2>2. QED
    BY <2>1, RulesKept
<1>2. ASSUME NEW b \in Blocks, InsertRow(b) \/ Arm(b) \/ Fire(b)
      PROVE  RulesAdded' /\ DropHolds'
  <2>1. UNCHANGED <<rules, torn, ip>>
    BY <1>2 DEF InsertRow, Arm, Fire
  <2>2. \E from, to : /\ Goto(b, from, to)
                      /\ \/ from = "row" /\ to \in {"drop", "over"}
                         \/ from = "row" /\ to = "arm" /\ ip[b] = NoIp
                         \/ from = "arm" /\ to \in {"waiting", "over"}
                         \/ from = "waiting" /\ to \in {"lift", "over"}
    BY <1>2 DEF InsertRow, Arm, Fire
  <2>3. \A j \in Ips : InForce(j)' \subseteq InForce(j) /\ Ruled(j) \subseteq Ruled(j)'
    BY <2>1, <2>2 DEF InForce, Ruled
  <2>4. QED
    BY <2>1, <2>3, RulesKept
<1>3. ASSUME NEW b \in Blocks, Drop(b) PROVE RulesAdded' /\ DropHolds'
  <2>1. CASE AddRule(ip[b]) /\ torn \subseteq torn'
    BY <1>3, <2>1, RuleAdded DEF Drop
  <2>2. CASE torn' = torn \union {ip[b]} /\ UNCHANGED rules
    <3>1. /\ \A i \in Ips : Ruled(i) \subseteq Ruled(i)'
          /\ \A i \in Ips : i # ip[b] => InForce(i)' = InForce(i)
      BY <1>3 DEF Drop, Ruled, InForce
    <3>2. ASSUME NEW i \in Ips
          PROVE  /\ rules'[i] <= Cardinality(Ruled(i)')
                 /\ i \notin torn' => rules'[i] >= Cardinality(InForce(i)')
      <4>1. /\ rules'[i] = rules[i] /\ rules[i] \in Nat
            /\ rules[i] <= Cardinality(Ruled(i))
            /\ i \notin torn' => rules[i] >= Cardinality(InForce(i)')
        BY <2>2, <3>1 DEF RulesAdded, DropHolds
      <4>2. /\ Cardinality(Ruled(i)) <= Cardinality(Ruled(i)')
            /\ Cardinality(Ruled(i)) \in Nat /\ Cardinality(Ruled(i)') \in Nat
        <5>1. Ruled(i)' \in SUBSET Blocks /\ Ruled(i) \in SUBSET Ruled(i)'
          BY <3>1 DEF Ruled
        <5>2. QED
          BY <5>1, BlocksFinite
      <4>3. QED
        BY <4>1, <4>2
    <3>3. QED
      BY <3>2 DEF RulesAdded, DropHolds
  <2>3. QED
    BY <1>3, <2>1, <2>2 DEF Drop
<1>4. ASSUME NEW b \in Blocks, Lift(b) PROVE RulesAdded' /\ DropHolds'
  <2>1. CASE RemoveRule(ip[b]) /\ torn \subseteq torn'
    BY <1>4, <2>1, RuleRemoved DEF Lift
  <2>2. CASE torn' = torn \union {ip[b]} /\ UNCHANGED rules
    <3>1. \A i \in Ips : InForce(i)' \subseteq InForce(i) /\ Ruled(i) \subseteq Ruled(i)'
      BY <1>4 DEF Lift, Ruled, InForce
    <3>2. QED
      BY <2>2, <3>1, RulesKept
  <2>3. QED
    BY <1>4, <2>1, <2>2 DEF Lift
<1>5. CASE Crash
  <2>1. \A i \in Ips : InForce(i)' \subseteq InForce(i) /\ Ruled(i) \subseteq Ruled(i)'
    BY <1>5 DEF Crash, Ruled, InForce
  <2>2. QED
    BY <1>5, <2>1, RulesKept DEF Crash
<1>6. ASSUME \/ \E r \in Starters : StartUp(r) \/ SweepRow(r)
             \/ \E u \in Users : Rewrite(u)
             \/ UNCHANGED vars
      PROVE  RulesAdded' /\ DropHolds'
  <2>1. UNCHANGED <<rules, torn, ip, pc>>
    BY <1>6 DEF StartUp, SweepRow, Rewrite, vars
  <2>2. \A i \in Ips : InForce(i)' = InForce(i) /\ Ruled(i)' = Ruled(i)
    BY <2>1 DEF InForce, Ruled
  <2>3. QED
    BY <2>1, <2>2, RulesKept
<1>7. QED
  BY <1>1, <1>2, <1>3, <1>4, <1>5, <1>6 DEF Next, BlockStep

-----------------------------------------------------------------------------
\* The rows a timer or the bot's sweep is not going to remove.
LEMMA TimersNext ==
  ASSUME Shape, RowHasTimer, [Next]_vars PROVE RowHasTimer'
<1> USE DEF Shape, RowHasTimer, Goto, Fault, Delete, bounds, histories
<1>1. ASSUME NEW b \in Blocks, NEW u \in Users, NEW i \in Ips \union {NoIp},
             Disconnect(b, u, i)
      PROVE  RowHasTimer'
  BY <1>1 DEF Disconnect
<1>2. ASSUME NEW b \in Blocks, InsertRow(b) PROVE RowHasTimer'
  BY <1>2 DEF InsertRow
<1>3. ASSUME NEW b \in Blocks, Drop(b) PROVE RowHasTimer'
  BY <1>3 DEF Drop
<1>4. ASSUME NEW b \in Blocks, Arm(b) PROVE RowHasTimer'
  BY <1>4 DEF Arm
<1>5. ASSUME NEW b \in Blocks, Fire(b) PROVE RowHasTimer'
  BY <1>5 DEF Fire
<1>6. ASSUME NEW b \in Blocks, Lift(b) PROVE RowHasTimer'
  BY <1>6 DEF Lift
<1>7. CASE Crash
  BY <1>7 DEF Crash
<1>8. ASSUME NEW r \in Starters, StartUp(r) PROVE RowHasTimer'
  BY <1>8 DEF StartUp, MayStart, Starters
<1>9. ASSUME NEW r \in Starters, SweepRow(r) PROVE RowHasTimer'
  BY <1>9 DEF SweepRow, Starters
<1>10. ASSUME NEW u \in Users, Rewrite(u) PROVE RowHasTimer'
  BY <1>10 DEF Rewrite
<1>11. CASE UNCHANGED vars
  BY <1>11 DEF vars
<1>12. QED
  BY <1>1, <1>2, <1>3, <1>4, <1>5, <1>6, <1>7, <1>8, <1>9, <1>10, <1>11
     DEF Next, BlockStep

LEMMA InvInit == Init => IInv
<1> SUFFICES ASSUME Init PROVE IInv
  OBVIOUS
<1>1. \A i \in Ips : InForce(i) = {} /\ rules[i] = 0
  BY DEF Init, InForce
<1>2. \A i \in Ips : Cardinality(Ruled(i)) \in Nat
  BY InForceBlocks, BlocksFinite
<1>3. RulesAdded /\ DropHolds
  BY <1>1, <1>2, FS_EmptySet DEF RulesAdded, DropHolds
<1>4. RowHasTimer
  BY DEF Init, RowHasTimer
<1>5. QED
  BY <1>3, <1>4, ShapeInit DEF IInv

LEMMA InvTypes == IInv => TypeOK
<1> SUFFICES ASSUME IInv PROVE TypeOK
  OBVIOUS
<1>1. ASSUME NEW i \in Ips PROVE rules[i] \in 0..Cardinality(Blocks)
  <2>1. Ruled(i) \in SUBSET Blocks
    BY DEF Ruled
  <2>2. /\ Cardinality(Ruled(i)) <= Cardinality(Blocks)
        /\ Cardinality(Ruled(i)) \in Nat /\ Cardinality(Blocks) \in Nat
    BY <2>1, BlocksFinite
  <2>3. rules[i] \in Nat /\ rules[i] <= Cardinality(Ruled(i))
    BY DEF IInv, Shape, RulesAdded
  <2>4. QED
    BY <2>2, <2>3
<1>2. QED
  BY <1>1 DEF IInv, Shape, TypeOK

LEMMA BlockInv == Spec => []IInv
<1>1. IInv /\ [Next]_vars => IInv'
  BY ShapeNext, RulesNext, TimersNext DEF IInv
<1>2. QED
  BY InvInit, <1>1, PTL DEF Spec

\* Every variable stays in its type, and there are never more DROP rules for
\* an address than blocks: -D takes out only what an -I has put in.
THEOREM BlockTypes == Spec => []TypeOK
BY BlockInv, InvTypes, PTL

\* While the bot runs every Reject row has a timer or the bot's sweep to
\* remove it, or a failed statement or thread is why it has not, whatever blocks
\* overlap, whichever processes sweep, crash and start.  (_block_user,
\* _startup_recover_orphaned_blocks)
THEOREM RejectHasTimer == Spec => []RowHasTimer
<1>1. IInv => RowHasTimer
  BY DEF IInv
<1>2. QED
  BY BlockInv, <1>1, PTL

\* A block in force has its own DROP rule: no number of other blocks for the
\* same address takes it out.  (_block_user, _unblock_user)
THEOREM RulePerBlock == Spec => []DropHolds
<1>1. IInv => DropHolds
  BY DEF IInv
<1>2. QED
  BY BlockInv, <1>1, PTL
=============================================================================
