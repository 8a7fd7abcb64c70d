---------------------------- MODULE CreateWizard ----------------------------
(***************************************************************************)
(* bot.py's /create: a ConversationHandler that asks for one thing after   *)
(* the other, keeps the answers in context.user_data, and hands them to    *)
(* create_client of app.py (module Portal) when Confirm is tapped.  One    *)
(* operator talks to it, through the polling process, which handles one    *)
(* update at a time.                                                       *)
(*                                                                         *)
(* Where the conversation is and what user_data holds are kept in memory.  *)
(* A job of the library saves what has changed every minute, by            *)
(* MariaDBPersistence: each of the two in a transaction of its own, in no  *)
(* fixed order, and a save that raises is not tried again.  A restart      *)
(* takes up what was saved.  An answer is represented by the number of the *)
(* /create it was given in, and 0 is no answer.                            *)
(*                                                                         *)
(* handle_update's write-through has no effect and neither has             *)
(* check_update's load: the first awaits a state the library's handler     *)
(* does not return, the second waits for the event loop it runs on.        *)
(***************************************************************************)
EXTENDS Naturals, Sequences

CONSTANTS Pickers,    \* the steps answered by a button, in their order
          Defaulted,  \* those of them that Confirm does not read
          MaxDrafts,  \* bound: /create commands that start a conversation
          MaxKills,   \* bound: kills of the process
          MaxFaults   \* bound: statements of a save that raise

Steps == <<"name">> \o Pickers \o <<"notes", "confirm">>
StepNames == {Steps[i] : i \in DOMAIN Steps}
Keys == StepNames \ {"confirm"}
Halves == {"conversation", "data"}
ReadAtConfirm == Keys \ Defaulted

ASSUME WizardAssumption ==
  /\ Pickers \in Seq(STRING)
  /\ Defaulted \subseteq {Pickers[i] : i \in DOMAIN Pickers}
  /\ \A i, j \in DOMAIN Steps : Steps[i] = Steps[j] => i = j
  /\ "none" \notin StepNames
  /\ {MaxDrafts, MaxKills, MaxFaults} \subseteq Nat

VARIABLES
  live,    \* the conversation: its step, and the number of its /create
  data,    \* user_data: by key, the /create it was answered in
  saved,   \* what bot_persistence has of the two
  unsaved, \* those the next save is to write
  busy,    \* create_client runs, and nothing else in this process
  drafts, kills, faults,
  torn     \* history: some save has written one of the two only

bounds == <<drafts, kills, faults>>
vars == <<live, data, saved, unsaved, busy, bounds, torn>>

None == [step |-> "none", of |-> 0]
NoData == [k \in Keys |-> 0]
Position(s) == CHOOSE i \in DOMAIN Steps : Steps[i] = s
Next1(s) == Steps[Position(s) + 1]
Before(s) == {Steps[i] : i \in 1 .. Position(s) - 1}

Init ==
  /\ live = None /\ data = NoData
  /\ saved = [conversation |-> None, data |-> NoData]
  /\ unsaved = {} /\ busy = FALSE
  /\ drafts = 0 /\ kills = 0 /\ faults = 0
  /\ torn = FALSE

-----------------------------------------------------------------------------
\* A handler of the conversation has returned the step: both are marked.
Enter(step) == /\ live' = IF step = "none" THEN None ELSE [live EXCEPT !.step = step]
               /\ unsaved' = Halves
\* A handler has raised: the conversation stays.
Stay == live' = live /\ unsaved' = unsaved \union {"data"}

Answered == data' = [data EXCEPT ![live.step] = live.of]
Handling(steps) == ~busy /\ live.step \in steps
Quietly == UNCHANGED <<saved, bounds, torn>>

\* create_start: it clears the keys; a reply that fails ends it.
Start ==
  /\ Handling({"none"}) /\ drafts < MaxDrafts
  /\ drafts' = drafts + 1
  /\ data' = NoData
  /\ live' \in {None, [step |-> "name", of |-> drafts + 1]}
  /\ unsaved' = Halves
  /\ UNCHANGED <<saved, busy, kills, faults, torn>>

\* ct_client_name_entered: a name that is taken is asked for again; the reply
\* may fail after the key is set.
AnswerName ==
  /\ Handling({"name"})
  /\ \/ Enter("name") /\ UNCHANGED data
     \/ Answered /\ (Enter(Next1("name")) \/ Stay)
  /\ UNCHANGED busy /\ Quietly

\* ct_duration_chosen, ct_cap_chosen, ct_speed_chosen, ct_device_type_chosen
Pick ==
  /\ Handling({Pickers[i] : i \in DOMAIN Pickers})
  /\ Answered /\ Enter(Next1(live.step))
  /\ UNCHANGED busy /\ Quietly

\* ct_notes_entered, for notes, /skip and /back alike: the expiry and the tier
\* are computed, defaults standing in for what is missing, then the name read.
AnswerNotes ==
  /\ Handling({"notes"})
  /\ Answered
  /\ \/ data["name"] # 0 /\ Enter("confirm")
     \/ Stay
  /\ UNCHANGED busy /\ Quietly

\* The Back button of every step that has buttons.
Back ==
  /\ Handling(StepNames \ {"name", "notes"})
  /\ Enter(Steps[Position(live.step) - 1])
  /\ UNCHANGED <<data, busy>> /\ Quietly

\* The Cancel button and /cancel: the answers stay.
Cancel ==
  /\ Handling(StepNames)
  /\ Enter("none")
  /\ UNCHANGED <<data, busy>> /\ Quietly

\* Mutant of Other: the dropped conversation is not marked.
OtherUnmarked ==
  /\ Handling(StepNames)
  /\ live' = None
  /\ saved' = [saved EXCEPT !.conversation = None] \/ UNCHANGED saved
  /\ UNCHANGED <<data, unsaved, busy, bounds, torn>>

\* check_update: a command that no handler of the step takes drops the
\* conversation, and deletes what is saved of it unless the deletion raises.
\* Then the command is handled; /create itself is not, this time.
Other ==
  /\ Handling(StepNames)
  /\ live' = None
  /\ saved' = [saved EXCEPT !.conversation = None] \/ UNCHANGED saved
  /\ \E h \in {{"conversation"}, Halves} : unsaved' = unsaved \union h
  /\ UNCHANGED <<data, busy, bounds, torn>>

\* Mutant of Confirm: every key is read as the duration is, with .get.
ConfirmAnyway ==
  /\ Handling({"confirm"})
  /\ \/ (Stay \/ Enter("name") \/ Enter("none")) /\ UNCHANGED busy
     \/ busy' = TRUE /\ UNCHANGED <<live, unsaved>>
  /\ UNCHANGED data /\ Quietly

\* ct_confirm: a missing key raises, and so may the look at radcheck; an
\* identity that is there leads back to the name, a speed plan that is none ends
\* it.  Of the duration it has the tier only, which the notes made of it or,
\* where it was missing, of ten days.
Confirm ==
  /\ Handling({"confirm"})
  /\ \/ Stay /\ UNCHANGED busy
     \/ /\ \A k \in ReadAtConfirm : data[k] # 0
        /\ \/ Enter("name") /\ UNCHANGED busy
           \/ Enter("none") /\ UNCHANGED busy
           \/ busy' = TRUE /\ UNCHANGED <<live, unsaved>>
  /\ UNCHANGED data /\ Quietly

\* create_client has returned, or raised.  The keys are cleared after the
\* password has been shown.
Return ==
  /\ busy /\ busy' = FALSE
  /\ Enter("none") /\ data' \in {data, NoData}
  /\ Quietly

-----------------------------------------------------------------------------
\* Mutant of Saves: the answers are saved when the conversation is over.
SavesStep(halves) ==
  saved' = [saved EXCEPT
    !.conversation = IF "conversation" \in halves THEN live ELSE @,
    !.data = IF "data" \in halves /\ live = None THEN data ELSE @]

Saves(halves) ==
  saved' = [saved EXCEPT
    !.conversation = IF "conversation" \in halves THEN live ELSE @,
    !.data = IF "data" \in halves THEN data ELSE @]

\* The job: update_user_data and update_conversation.
Save ==
  /\ ~busy /\ unsaved # {}
  /\ unsaved' = {}
  /\ \/ /\ Saves(unsaved)
        /\ UNCHANGED <<faults, torn>>
     \/ /\ faults < MaxFaults /\ faults' = faults + 1
        /\ \E halves \in SUBSET unsaved : halves # unsaved /\ Saves(halves)
        /\ torn' = TRUE
  /\ UNCHANGED <<live, data, busy, drafts, kills>>

\* The process is killed, between the two transactions of a save or not, and
\* is started again.
Kill ==
  /\ kills < MaxKills /\ kills' = kills + 1
  /\ \E halves \in SUBSET (IF busy THEN {} ELSE unsaved) :
       /\ Saves(halves)
       /\ torn' = (torn \/ halves \notin {{}, unsaved})
  /\ live' = saved'.conversation /\ data' = saved'.data
  /\ unsaved' = {} /\ busy' = FALSE
  /\ UNCHANGED <<drafts, faults>>

Handle == \/ Start \/ AnswerName \/ Pick \/ AnswerNotes \/ Back \/ Cancel \/ Other
          \/ Confirm
Next == Handle \/ Return \/ Save \/ Kill

Spec == Init /\ [][Next]_vars
FairSpec == Spec /\ WF_vars(Return) /\ SF_vars(Save)
-----------------------------------------------------------------------------
Conversations == [step : StepNames \union {"none"}, of : 0 .. MaxDrafts]
Data == [Keys -> 0 .. MaxDrafts]

\* The types, and: a conversation belongs to a /create, and create_client
\* runs only for a conversation at its last step whose answers are there, but
\* for the duration, which a save that wrote one half may have lost.
TypeOK ==
  /\ live \in Conversations /\ data \in Data
  /\ saved \in [conversation : Conversations, data : Data]
  /\ unsaved \in SUBSET Halves /\ busy \in BOOLEAN /\ torn \in BOOLEAN
  /\ drafts \in 0 .. MaxDrafts /\ kills \in 0 .. MaxKills /\ faults \in 0 .. MaxFaults
  /\ live.step = "none" <=> live.of = 0
  /\ busy => live.step = "confirm" /\ \A k \in ReadAtConfirm : data[k] # 0

OneDraftIn(conversation, d) ==
  conversation # None => \A k \in Before(conversation.step) : d[k] = conversation.of

\* What Confirm hands to create_client was all answered in the one /create it
\* ends: no customer gets the cap of one draft and the device of another,
\* whatever was cancelled, gone back on or restarted in between, as long as
\* no save has written one half only.
OneDraft ==
  ~torn => OneDraftIn(live, data) /\ OneDraftIn(saved.conversation, saved.data)

\* What the operator has done outlasts a restart in the end: again and again
\* all of it is saved, unless a save has failed half way.
SavedInTheEnd ==
  []<>(torn \/ saved = [conversation |-> live, data |-> data])
=============================================================================
