-------------------------- MODULE CreateWizard_proofs --------------------------
(***************************************************************************)
(* Theorems about CreateWizard, for any sequence of steps with buttons and *)
(* any number of drafts, kills and failed saves.                           *)
(***************************************************************************)
EXTENDS CreateWizard, TLAPS

-----------------------------------------------------------------------------
\* The steps.  All the invariant needs of them are the next four lemmas.

LEMMA Surrounded ==
  ASSUME NEW S, NEW p \in Seq(S), NEW a, NEW b, NEW c
  PROVE  LET s == <<a>> \o p \o <<b, c>> IN
         /\ Len(p) \in Nat /\ Len(s) = Len(p) + 3 /\ DOMAIN s = 1 .. Len(s)
         /\ s[1] = a /\ s[Len(s) - 1] = b /\ s[Len(s)] = c
         /\ \A i \in DOMAIN p : i + 1 \in DOMAIN s /\ s[i + 1] = p[i]
  <1> DEFINE T == S \union {a, b, c}
             N == <<a>>
             E == <<b, c>>
  <1>1. p \in Seq(T) /\ Len(p) \in Nat /\ DOMAIN p = 1 .. Len(p)
    OBVIOUS
  <1>2. N \in Seq(T) /\ Len(N) = 1 /\ N[1] = a
    OBVIOUS
  <1>3. E \in Seq(T) /\ Len(E) = 2 /\ E[1] = b /\ E[2] = c
    OBVIOUS
  <1> HIDE DEF N, E, T
  <1> DEFINE q == N \o p
  <1>4. /\ q \in Seq(T) /\ Len(q) = Len(p) + 1 /\ q[1] = a
        /\ \A i \in 1 .. Len(p) : q[i + 1] = p[i]
    <2> N \in Seq(T) BY <1>2
    <2> p \in Seq(T) BY <1>1
    <2>1. q \in Seq(T) /\ Len(q) = Len(N) + Len(p) OBVIOUS
    <2>2. \A i \in 1 .. Len(N) : q[i] = N[i] OBVIOUS
    <2>3. \A i \in 1 .. Len(p) : q[Len(N) + i] = p[i] OBVIOUS
    <2> HIDE DEF q
    <2> QED BY <1>1, <1>2, <2>1, <2>2, <2>3
  <1> HIDE DEF q
  <1> DEFINE s == q \o E
  <1>5. /\ s \in Seq(T) /\ Len(s) = Len(q) + Len(E)
        /\ \A i \in 1 .. Len(q) : s[i] = q[i]
        /\ \A i \in 1 .. Len(E) : s[Len(q) + i] = E[i]
    <2> q \in Seq(T) BY <1>4
    <2> E \in Seq(T) BY <1>3
    <2>1. s \in Seq(T) /\ Len(s) = Len(q) + Len(E) OBVIOUS
    <2>2. \A i \in 1 .. Len(q) : s[i] = q[i] OBVIOUS
    <2>3. \A i \in 1 .. Len(E) : s[Len(q) + i] = E[i] OBVIOUS
    <2> QED BY <2>1, <2>2, <2>3
  <1> HIDE DEF s
  <1>6. DOMAIN s = 1 .. Len(s) BY <1>5
  <1>7. s[1] = a /\ s[Len(s) - 1] = b /\ s[Len(s)] = c
    <2>1. s[1] = a BY <1>1, <1>4, <1>5
    <2>2. s[Len(p) + 2] = E[1] BY <1>1, <1>3, <1>4, <1>5
    <2>3. s[Len(p) + 3] = E[2] BY <1>1, <1>3, <1>4, <1>5
    <2> QED BY <1>1, <1>3, <1>4, <1>5, <2>1, <2>2, <2>3
  <1>8. \A i \in DOMAIN p : i + 1 \in DOMAIN s /\ s[i + 1] = p[i]
    BY <1>1, <1>3, <1>4, <1>5, <1>6
  <1> QED BY <1>1, <1>3, <1>4, <1>5, <1>6, <1>7, <1>8 DEF s, q, N, E

LEMMA StepsShape ==
  /\ Len(Pickers) \in Nat /\ Len(Steps) = Len(Pickers) + 3 /\ DOMAIN Steps = 1 .. Len(Steps)
  /\ Steps[1] = "name"
  /\ Steps[Len(Steps) - 1] = "notes" /\ Steps[Len(Steps)] = "confirm"
  /\ \A i \in DOMAIN Pickers : i + 1 \in DOMAIN Steps /\ Steps[i + 1] = Pickers[i]
  BY WizardAssumption, Surrounded DEF Steps

LEMMA PositionOf ==
  ASSUME NEW i \in DOMAIN Steps
  PROVE  Steps[i] \in StepNames /\ Position(Steps[i]) = i
  <1>1. \A j \in DOMAIN Steps : Steps[j] = Steps[i] => j = i
    BY WizardAssumption
  <1> QED BY <1>1 DEF StepNames, Position

LEMMA NextStep ==
  ASSUME NEW s \in Keys
  PROVE  /\ Next1(s) \in StepNames
         /\ Before(Next1(s)) = Before(s) \union {s}
  <1>1. PICK i \in DOMAIN Steps : Steps[i] = s
    BY DEF Keys, StepNames
  <1>2. i \in 1 .. Len(Steps) - 1
    BY <1>1, StepsShape DEF Keys
  <1>3. i + 1 \in DOMAIN Steps
    BY <1>2, StepsShape
  <1>4. Position(s) = i /\ Next1(s) = Steps[i + 1] /\ Position(Next1(s)) = i + 1
    BY <1>1, <1>3, PositionOf DEF Next1
  <1>5. Before(Next1(s)) = {Steps[j] : j \in 1 .. i} /\ Before(s) = {Steps[j] : j \in 1 .. i - 1}
    BY <1>2, <1>4, StepsShape DEF Before
  <1>6. 1 .. i = (1 .. i - 1) \union {i}
    BY <1>2, StepsShape
  <1> QED BY <1>1, <1>3, <1>4, <1>5, <1>6, PositionOf

LEMMA StepBack ==
  ASSUME NEW s \in StepNames \ {"name"}
  PROVE  /\ Steps[Position(s) - 1] \in StepNames
         /\ Before(Steps[Position(s) - 1]) \subseteq Before(s)
  <1>1. PICK i \in DOMAIN Steps : Steps[i] = s
    BY DEF StepNames
  <1>2. i - 1 \in DOMAIN Steps /\ i \in Nat
    BY <1>1, StepsShape
  <1>3. Position(s) = i /\ Position(Steps[i - 1]) = i - 1 /\ Steps[i - 1] \in StepNames
    BY <1>1, <1>2, PositionOf
  <1>4. 1 .. i - 1 - 1 \subseteq 1 .. i - 1
    BY <1>2
  <1> QED BY <1>3, <1>4 DEF Before

LEMMA Ends ==
  /\ "name" \in Keys /\ "notes" \in Keys /\ "confirm" \in StepNames /\ "none" \notin StepNames
  /\ Before("name") = {} /\ Next1("notes") = "confirm"
  /\ \A s \in StepNames : Before(s) \subseteq Keys
  /\ \A i \in DOMAIN Pickers : Pickers[i] \in Keys
  <1>1. 1 \in DOMAIN Steps /\ Len(Steps) - 1 \in DOMAIN Steps /\ Len(Steps) \in DOMAIN Steps
    BY StepsShape
  <1>2. Position("name") = 1 /\ Position("notes") = Len(Steps) - 1 /\ Position("confirm") = Len(Steps)
        /\ {"name", "notes", "confirm"} \subseteq StepNames
    BY <1>1, StepsShape, PositionOf
  <1>3. Before("name") = {}
    BY <1>2 DEF Before
  <1>4. Next1("notes") = "confirm"
    BY <1>2, StepsShape DEF Next1
  <1>5. ASSUME NEW s \in StepNames PROVE Before(s) \subseteq Keys
    <2>1. PICK i \in DOMAIN Steps : Steps[i] = s
      BY DEF StepNames
    <2>2. Position(s) = i /\ i \in 1 .. Len(Steps) /\ Len(Steps) \in Nat
      BY <2>1, PositionOf, StepsShape
    <2>3. ASSUME NEW j \in 1 .. i - 1 PROVE Steps[j] \in Keys
      <3>1. j \in DOMAIN Steps /\ j # Len(Steps)
        BY <2>2, StepsShape
      <3>2. Position(Steps[j]) = j /\ Steps[j] \in StepNames
        BY <3>1, PositionOf
      <3> QED BY <3>1, <3>2, <1>2 DEF Keys
    <2> QED BY <2>2, <2>3 DEF Before
  <1>6. ASSUME NEW i \in DOMAIN Pickers PROVE Pickers[i] \in Keys
    <2>1. /\ i + 1 \in DOMAIN Steps /\ Steps[i + 1] = Pickers[i] /\ i + 1 # Len(Steps)
      BY StepsShape, WizardAssumption
    <2>2. Position(Pickers[i]) = i + 1 /\ Pickers[i] \in StepNames
      BY <2>1, PositionOf
    <2> QED BY <2>1, <2>2, <1>2 DEF Keys
  <1> QED BY <1>2, <1>3, <1>4, <1>5, <1>6, WizardAssumption DEF Keys

-----------------------------------------------------------------------------
\* What is not marked unsaved is saved.
Marked ==
  /\ "conversation" \notin unsaved => saved.conversation = live
  /\ "data" \notin unsaved => saved.data = data

\* What is saved of a conversation is one that was live, or none.
Taken == saved.conversation.step = "none" <=> saved.conversation.of = 0

IInv == TypeOK /\ Taken /\ (~torn => /\ Marked /\ OneDraftIn(live, data)
                                       /\ OneDraftIn(saved.conversation, saved.data))

LEMMA InitInv == Init => IInv
  <1> SUFFICES ASSUME Init PROVE IInv OBVIOUS
  <1>1. TypeOK
    <2>1. None \in Conversations /\ NoData \in Data
      BY WizardAssumption, Ends DEF None, NoData, Conversations, Data
    <2>2. saved \in [conversation : Conversations, data : Data]
      BY <2>1 DEF Init
    <2>3. live.step = "none" /\ live.of = 0 BY DEF Init, None
    <2>4. {0} \subseteq 0 .. MaxDrafts /\ {0} \subseteq 0 .. MaxKills /\ {0} \subseteq 0 .. MaxFaults
      BY WizardAssumption
    <2> QED BY <2>1, <2>2, <2>3, <2>4 DEF Init, TypeOK, Halves
  <1> QED BY <1>1 DEF Init, IInv, Taken, Marked, OneDraftIn, None

\* Which half of what is saved a save replaces.
LEMMA SavesParts ==
  ASSUME TypeOK, NEW halves, Saves(halves)
  PROVE  /\ saved' \in [conversation : Conversations, data : Data]
         /\ saved'.conversation = IF "conversation" \in halves THEN live
                                                               ELSE saved.conversation
         /\ saved'.data = IF "data" \in halves THEN data ELSE saved.data
  <1> DEFINE c == IF "conversation" \in halves THEN live ELSE saved.conversation
             d == IF "data" \in halves THEN data ELSE saved.data
  <1>1. c \in Conversations /\ d \in Data BY DEF TypeOK
  <1>2. saved' = [conversation |-> c, data |-> d]
    BY DEF TypeOK, Saves
  <1> QED BY <1>1, <1>2

LEMMA NextTypes ==
  ASSUME TypeOK, Taken, [Next]_vars
  PROVE  TypeOK'
  <1> USE WizardAssumption, Ends
      DEF TypeOK, Conversations, Data, Halves, None, NoData, Handling, Quietly, Enter,
          Stay, Answered, bounds
  <1>1. CASE UNCHANGED vars BY <1>1 DEF vars
  <1>2. CASE Start BY <1>2 DEF Start, Keys
  <1>3. CASE AnswerName
    <2> USE <1>3
    <2>1. live.step = "name" /\ Next1("name") \in StepNames /\ live.of # 0
      BY NextStep DEF AnswerName
    <2>2. live' \in {[live EXCEPT !.step = "name"], [live EXCEPT !.step = Next1("name")], live}
      BY <2>1 DEF AnswerName
    <2>3. live' \in Conversations /\ live'.step \in StepNames /\ live'.of = live.of
      BY <2>1, <2>2 DEF Keys
    <2>4. data' \in Data /\ unsaved' \in SUBSET Halves
      BY <2>1 DEF AnswerName
    <2> QED BY <2>1, <2>3, <2>4 DEF AnswerName
  <1>4. CASE Pick BY <1>4, NextStep DEF Pick, Keys
  <1>5. CASE AnswerNotes BY <1>5 DEF AnswerNotes, Keys
  <1>6. CASE Back
    <2> USE <1>6
    <2>1. live.step \in StepNames \ {"name"} BY DEF Back
    <2>2. Steps[Position(live.step) - 1] \in StepNames BY <2>1, StepBack
    <2>3. live' = [live EXCEPT !.step = Steps[Position(live.step) - 1]]
      BY <2>2 DEF Back
    <2> QED BY <2>1, <2>2, <2>3 DEF Back
  <1>7. CASE Cancel BY <1>7 DEF Cancel
  <1>8. CASE Other
    <2> USE <1>8
    <2>1. None \in Conversations OBVIOUS
    <2>2. saved' \in [conversation : Conversations, data : Data]
      BY <2>1 DEF Other
    <2>3. unsaved' \in SUBSET Halves BY DEF Other
    <2> QED BY <2>1, <2>2, <2>3 DEF Other
  <1>9. CASE Confirm
    <2> USE <1>9
    <2>1. live' \in Conversations /\ (live'.step = "none" <=> live'.of = 0)
      <3>1. CASE live' = live BY <3>1
      <3>2. CASE Enter("name") \/ Enter("none") BY <3>2 DEF Confirm, Keys
      <3>3. live' = live \/ Enter("name") \/ Enter("none") BY DEF Confirm
      <3> QED BY <3>1, <3>2, <3>3
    <2>2. unsaved' \in SUBSET Halves /\ busy' \in BOOLEAN
      BY DEF Confirm
    <2>3. busy' => live'.step = "confirm" /\ \A k \in ReadAtConfirm : data'[k] # 0
      BY DEF Confirm
    <2> QED BY <2>1, <2>2, <2>3 DEF Confirm
  <1>10. CASE Return
    <2> USE <1>10
    <2>1. None \in Conversations /\ NoData \in Data OBVIOUS
    <2>2. live' = None /\ data' \in Data /\ unsaved' \in SUBSET Halves /\ busy' = FALSE
      BY <2>1 DEF Return
    <2>3. live'.step = "none" /\ live'.of = 0 BY <2>2
    <2>4. UNCHANGED <<saved, drafts, kills, faults, torn>> BY DEF Return
    <2> QED BY <2>1, <2>2, <2>3, <2>4
  <1>11. CASE Save
    <2> USE <1>11
    <2>1. PICK halves : Saves(halves) BY DEF Save
    <2>2. saved' \in [conversation : Conversations, data : Data] BY <2>1, SavesParts
    <2>3. unsaved' = {} /\ UNCHANGED <<live, data, busy, drafts, kills>>
      BY DEF Save
    <2>4. \/ UNCHANGED <<faults, torn>>
          \/ faults < MaxFaults /\ faults' = faults + 1 /\ torn' = TRUE
      BY DEF Save
    <2>5. torn' \in BOOLEAN
      BY <2>4
    <2>6. faults \in Nat /\ MaxFaults \in Nat /\ faults <= MaxFaults
      OBVIOUS
    <2>7. faults' \in 0 .. MaxFaults
      BY <2>4, <2>6
    <2> QED BY <2>2, <2>3, <2>5, <2>7
  <1>12. CASE Kill
    <2> USE <1>12
    <2>1. PICK halves : Saves(halves) BY DEF Kill
    <2>2. saved' \in [conversation : Conversations, data : Data] BY <2>1, SavesParts
    <2>3. /\ kills' \in 0 .. MaxKills /\ torn' \in BOOLEAN /\ unsaved' = {} /\ busy' = FALSE
          /\ live' = saved'.conversation /\ data' = saved'.data
          /\ UNCHANGED <<drafts, faults>>
      BY DEF Kill
    <2>4. live' \in Conversations /\ data' \in Data BY <2>2, <2>3
    <2>5. live'.step = "none" <=> live'.of = 0
      BY <2>1, <2>3, SavesParts DEF Taken
    <2> QED BY <2>2, <2>3, <2>4, <2>5
  <1> QED BY <1>1, <1>2, <1>3, <1>4, <1>5, <1>6, <1>7, <1>8, <1>9, <1>10, <1>11, <1>12
          DEF Next, Handle

LEMMA NextTaken ==
  ASSUME TypeOK, Taken, [Next]_vars
  PROVE  Taken'
  <1> USE DEF Taken
  <1>1. CASE \E halves : Saves(halves)
    BY <1>1, SavesParts DEF TypeOK
  <1>2. CASE UNCHANGED saved
    BY <1>2
  <1>3. CASE saved' = [saved EXCEPT !.conversation = None]
    BY <1>3 DEF TypeOK, None
  <1> QED
    BY <1>1, <1>2, <1>3
    DEF Next, Handle, vars, Start, AnswerName, Pick, AnswerNotes, Back, Cancel, Other,
        Confirm, Return, Save, Kill, Quietly

LEMMA NextDraft ==
  ASSUME IInv, [Next]_vars, ~torn'
  PROVE  Marked' /\ OneDraftIn(live, data)' /\ OneDraftIn(saved.conversation, saved.data)'
  <1> USE WizardAssumption, Ends
      DEF IInv, TypeOK, Marked, OneDraftIn, Conversations, Data, Halves, None, Handling,
          Quietly, Enter, Stay, Answered, bounds
  <1>1. CASE UNCHANGED vars BY <1>1 DEF vars
  <1>2. CASE Start BY <1>2 DEF Start
  <1>3. CASE AnswerName
    <2> USE <1>3
    <2>1. /\ live.step = "name" /\ Next1("name") \in StepNames
          /\ Before(Next1("name")) = {"name"}
      BY NextStep DEF AnswerName
    <2>2. UNCHANGED <<saved, torn>> BY DEF AnswerName
    <2>3. CASE Enter("name") /\ UNCHANGED data BY <2>1, <2>2, <2>3
    <2>4. CASE Answered /\ (Enter(Next1("name")) \/ Stay)
      <3>1. data'["name"] = live.of /\ live'.of = live.of BY <2>1, <2>4
      <3>2. Before(live'.step) \subseteq {"name"} BY <2>1, <2>4
      <3>3. /\ "data" \in unsaved'
            /\ \/ "conversation" \in unsaved'
               \/ unsaved' = unsaved \union {"data"} /\ live' = live
        BY <2>1, <2>4
      <3> QED BY <2>1, <2>2, <3>1, <3>2, <3>3
    <2> QED BY <2>3, <2>4 DEF AnswerName
  <1>4. CASE Pick
    <2> USE <1>4
    <2>1. live.step \in Keys BY DEF Pick
    <2>2. live' = [live EXCEPT !.step = Next1(live.step)] /\ Next1(live.step) \in StepNames
      BY <2>1, NextStep DEF Pick
    <2>3. Before(live'.step) = Before(live.step) \union {live.step}
      BY <2>1, <2>2, NextStep
    <2>4. /\ data' = [data EXCEPT ![live.step] = live.of] /\ live'.of = live.of
          /\ UNCHANGED <<saved, torn>> /\ unsaved' = {"conversation", "data"}
      BY <2>2 DEF Pick
    <2>5. Before(live.step) \subseteq Keys BY <2>1 DEF Keys
    <2>6. \A k \in Before(live.step) : data[k] = live.of
      <3>1. ~torn /\ live # None BY <2>1, <2>4 DEF Keys
      <3> QED BY <3>1
    <2>7. data'[live.step] = live.of /\ \A k \in Keys \ {live.step} : data'[k] = data[k]
      BY <2>1, <2>4
    <2>8. \A k \in Before(live'.step) : data'[k] = live'.of
      BY <2>3, <2>4, <2>5, <2>6, <2>7
    <2> QED BY <2>4, <2>8
  <1>5. CASE AnswerNotes BY <1>5, NextStep DEF AnswerNotes
  <1>6. CASE Back BY <1>6, StepBack DEF Back
  <1>7. CASE Cancel BY <1>7 DEF Cancel
  <1>8. CASE Other BY <1>8 DEF Other
  <1>9. CASE Confirm BY <1>9 DEF Confirm
  <1>10. CASE Return BY <1>10 DEF Return
  <1>11. CASE Save
    <2> USE <1>11
    <2>1. Saves(unsaved) /\ UNCHANGED <<live, data, torn>> BY DEF Save
    <2>2. saved'.conversation = live /\ saved'.data = data
      BY <2>1, SavesParts
    <2> QED BY <2>1, <2>2
  <1>12. CASE Kill
    <2> USE <1>12
    <2>1. PICK halves \in {{}, unsaved} : Saves(halves) BY DEF Kill
    <2>2. ~torn /\ live' = saved'.conversation /\ data' = saved'.data
      BY DEF Kill
    <2>3. \/ saved'.conversation = live /\ saved'.data = data
          \/ saved'.conversation = saved.conversation /\ saved'.data = saved.data
      BY <2>1, <2>2, SavesParts
    <2> QED BY <2>2, <2>3
  <1> QED BY <1>1, <1>2, <1>3, <1>4, <1>5, <1>6, <1>7, <1>8, <1>9, <1>10, <1>11, <1>12
          DEF Next, Handle

LEMMA WizardInv == Spec => []IInv
  <1>1. IInv /\ [Next]_vars => IInv'
    BY NextTypes, NextTaken, NextDraft DEF IInv
  <1> QED BY InitInv, <1>1, PTL DEF Spec

\* The types; a conversation belongs to a /create; and create_client runs only
\* for a conversation at its last step, with every key there that Confirm reads.
THEOREM WizardTypes == Spec => []TypeOK
  BY WizardInv, PTL DEF IInv

\* What Confirm hands to create_client was all answered in one /create, unless
\* a save has written one half only.
THEOREM NoMixedDraft == Spec => []OneDraft
  <1>1. IInv => OneDraft BY DEF IInv, OneDraft
  <1> QED BY WizardInv, <1>1, PTL
=============================================================================
