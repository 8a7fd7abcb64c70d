-------------------------- MODULE DisconnectBlock ---------------------------
(***************************************************************************)
(* bot.py: /disconnect with DISCONNECT_BLOCK_SECONDS > 0.  After charon    *)
(* has dropped the session the identity is blocked twice, by a radcheck    *)
(* row Auth-Type := Reject and by an iptables DROP rule for the client's   *)
(* address, and a threading.Timer lifts both.  The disconnect runs in the  *)
(* bot's event loop, one at a time, the timers in threads of the same      *)
(* process; a restart loses them, and what they left in radcheck is swept  *)
(* when a process builds the bot's application: the bot itself, and every  *)
(* gunicorn worker of the portal.  Portal's requests replace all radcheck  *)
(* rows of an identity.                                                    *)
(***************************************************************************)
EXTENDS Integers, FiniteSets

CONSTANTS Users,      \* identities
          Ips,        \* addresses of clients; one may serve several users
          MaxBlocks,  \* bound: calls of /disconnect in a run
          NoIp,       \* the session has no callingstationid
          MaxCrashes, \* bound: crashes of the bot
          MaxStarts,  \* bound: starts of portal workers
          MaxFaults   \* bound: statements, commands and threads that fail

ASSUME BlockAssumption ==
  /\ NoIp \notin Ips /\ Users # {} /\ MaxBlocks \in Nat
  /\ MaxCrashes \in Nat /\ MaxStarts \in Nat /\ MaxFaults \in Nat

Blocks == 1..MaxBlocks  \* the calls of /disconnect, in the order they come

VARIABLES
  reject,   \* the users with an Auth-Type := Reject row
  rules,    \* by address: the DROP rules in the INPUT chain
  pc,       \* where each block is
  user, ip, \* whom it blocks
  up,       \* the bot's process is running
  todo,     \* by process starting up: the rows its sweep has still to delete
  stuck,    \* history: users whose row a failure left without a timer
  torn,     \* history: addresses for which an iptables command failed
  crashes, starts, faults

bounds == <<crashes, starts, faults>>
histories == <<stuck, torn>>
vars == <<reject, rules, pc, user, ip, up, todo, histories, bounds>>

Starters == {"bot", "worker"}
Points == {"idle", "row", "drop", "arm", "waiting", "lift", "over", "lost"}

Init ==
  /\ reject = {} /\ rules = [i \in Ips |-> 0]
  /\ pc = [b \in Blocks |-> "idle"]
  /\ user = [b \in Blocks |-> CHOOSE u \in Users : TRUE]
  /\ ip = [b \in Blocks |-> NoIp]
  /\ up = TRUE /\ todo = [r \in Starters |-> {}]
  /\ stuck = {} /\ torn = {}
  /\ crashes = 0 /\ starts = 0 /\ faults = 0

-----------------------------------------------------------------------------
Goto(b, from, to) == pc[b] = from /\ pc' = [pc EXCEPT ![b] = to]

Fault == faults < MaxFaults /\ faults' = faults + 1 /\ UNCHANGED <<crashes, starts>>

\* A statement or a command that raises may have had its effect all the same:
\* it timed out, or its acknowledgement was lost.

\* The rows of these users are gone from radcheck.
Delete(us) == reject' = reject \ us /\ stuck' = stuck \ us

\* The event loop is free: neither a sweep nor a disconnect holds it.
LoopFree == /\ up /\ todo["bot"] = {}
            /\ \A b \in Blocks : pc[b] \notin {"row", "drop", "arm"}

NextCall(b) == pc[b] = "idle" /\ \A a \in Blocks : a < b => pc[a] # "idle"

\* disconnect_via_coa, up to radclient's success: the address is that of the
\* session radacct has.
Disconnect(b, u, i) ==
  /\ LoopFree /\ NextCall(b)
  /\ Goto(b, "idle", "row")
  /\ user' = [user EXCEPT ![b] = u]
  /\ ip' = [ip EXCEPT ![b] = i]
  /\ UNCHANGED <<reject, rules, up, todo, histories, bounds>>

\* _block_user, first layer: an INSERT that raises ends it, and arms no timer
\* for the row that may be there.
InsertRow(b) ==
  /\ \/ /\ Goto(b, "row", IF ip[b] = NoIp THEN "arm" ELSE "drop")
        /\ reject' = reject \union {user[b]}
        /\ UNCHANGED bounds
        /\ UNCHANGED stuck
     \/ /\ Goto(b, "row", "over")
        /\ \/ UNCHANGED <<reject, stuck>>
           \/ /\ reject' = reject \union {user[b]}
              /\ stuck' = stuck \union {user[b]}
        /\ Fault
  /\ UNCHANGED <<rules, user, ip, up, todo, torn>>

\* Mutant of AddRule: iptables -C first, and no second rule for an address.
AddRuleOnce(i) == rules' = [rules EXCEPT ![i] = 1]

AddRule(i) == rules' = [rules EXCEPT ![i] = @ + 1]

\* Second layer: iptables -I, whose failure is logged.
Drop(b) ==
  /\ Goto(b, "drop", "arm")
  /\ \/ AddRule(ip[b]) /\ UNCHANGED <<torn, bounds>>
     \/ torn' = torn \union {ip[b]} /\ Fault /\ (AddRule(ip[b]) \/ UNCHANGED rules)
  /\ UNCHANGED <<reject, user, ip, up, todo, stuck>>

\* The timer's thread, which may not start: what raises here is logged.
Arm(b) ==
  /\ \/ Goto(b, "arm", "waiting") /\ UNCHANGED <<stuck, bounds>>
     \/ Goto(b, "arm", "over") /\ stuck' = stuck \union {user[b]} /\ Fault
  /\ UNCHANGED <<reject, rules, user, ip, up, todo, torn>>

\* Mutant of Fire: without an address the timer finds nothing to revert.
FireWithAddress(b) ==
  /\ Goto(b, "waiting", IF ip[b] = NoIp THEN "over" ELSE "lift")
  /\ IF ip[b] = NoIp THEN UNCHANGED <<reject, stuck>> ELSE Delete({user[b]})
  /\ UNCHANGED <<rules, user, ip, up, todo, torn, bounds>>

\* _unblock_user after the block's seconds: the row goes, whichever block put
\* it there; if that fails the rule stays too.
Fire(b) ==
  /\ \/ /\ Goto(b, "waiting", IF ip[b] = NoIp THEN "over" ELSE "lift")
        /\ Delete({user[b]})
        /\ UNCHANGED bounds
     \/ /\ Goto(b, "waiting", "over")
        /\ \/ Delete({user[b]})
           \/ stuck' = stuck \union {user[b]} /\ UNCHANGED reject
        /\ Fault
  /\ UNCHANGED <<rules, user, ip, up, todo, torn>>

\* Mutant of RemoveRule: it counts on the rule being there.
RemoveRuleBlindly(i) == rules' = [rules EXCEPT ![i] = @ - 1]

\* iptables -D takes out one rule that matches, if there is one.
RemoveRule(i) == rules' = [rules EXCEPT ![i] = IF @ > 0 THEN @ - 1 ELSE 0]

Lift(b) ==
  /\ Goto(b, "lift", "over")
  /\ \/ RemoveRule(ip[b]) /\ UNCHANGED <<torn, bounds>>
     \/ torn' = torn \union {ip[b]} /\ Fault /\ (RemoveRule(ip[b]) \/ UNCHANGED rules)
  /\ UNCHANGED <<reject, user, ip, up, todo, stuck>>

-----------------------------------------------------------------------------
\* The bot's process dies, its timers with it.  Rules and rows stay.
Crash ==
  /\ up /\ crashes < MaxCrashes
  /\ up' = FALSE
  /\ crashes' = crashes + 1
  /\ pc' = [b \in Blocks |-> IF pc[b] \in {"idle", "over"} THEN pc[b] ELSE "lost"]
  /\ todo' = [todo EXCEPT !["bot"] = {}]
  /\ UNCHANGED <<reject, rules, user, ip, histories, starts, faults>>

\* The bot is restarted (Restart=always), or a portal worker starts.
MayStart(r) ==
  \/ r = "bot" /\ ~up /\ up' = TRUE /\ UNCHANGED starts
  \/ r = "worker" /\ starts < MaxStarts /\ starts' = starts + 1 /\ UNCHANGED up

\* Mutant of StartUp: the bot's application is built without the sweep.
StartUpUnswept(r) ==
  /\ MayStart(r)
  /\ UNCHANGED <<reject, rules, pc, user, ip, todo, histories, crashes, faults>>

\* _startup_recover_orphaned_blocks reads the rows, whosever they are.
StartUp(r) ==
  /\ MayStart(r)
  /\ \/ /\ todo' = [todo EXCEPT ![r] = reject]
        /\ UNCHANGED <<stuck, faults>>
     \/ /\ faults < MaxFaults /\ faults' = faults + 1
        /\ stuck' = IF r = "bot" THEN stuck \union reject ELSE stuck
        /\ UNCHANGED todo
  /\ UNCHANGED <<reject, rules, pc, user, ip, torn, crashes>>

\* It deletes one after the other, and gives up at the first failure.
SweepRow(r) ==
  /\ \E u \in todo[r] :
       \/ /\ todo' = [todo EXCEPT ![r] = @ \ {u}]
          /\ Delete({u})
          /\ UNCHANGED bounds
       \/ /\ todo' = [todo EXCEPT ![r] = {}]
          /\ \E gone \in {{}, {u}} :
               /\ reject' = reject \ gone
               /\ stuck' = (stuck \union IF r = "bot" THEN todo[r] ELSE {}) \ gone
          /\ Fault
  /\ UNCHANGED <<rules, pc, user, ip, up, torn>>

\* update_customer_password_radcheck, disable_customer_radcheck, and the
\* removal: DELETE FROM radcheck WHERE username.
Rewrite(u) ==
  /\ u \in reject
  /\ Delete({u})
  /\ UNCHANGED <<rules, pc, user, ip, up, todo, torn, bounds>>

BlockStep(b) == InsertRow(b) \/ Drop(b) \/ Arm(b) \/ Fire(b) \/ Lift(b)

Next ==
  \/ \E b \in Blocks :
       \/ \E u \in Users, i \in Ips \union {NoIp} : Disconnect(b, u, i)
       \/ BlockStep(b)
  \/ \E r \in Starters : StartUp(r) \/ SweepRow(r)
  \/ \E u \in Users : Rewrite(u)
  \/ Crash

Spec == Init /\ [][Next]_vars

\* The bot's loop and timers run, systemd restarts it, its sweep goes on.
Fairness == /\ \A b \in Blocks : WF_vars(BlockStep(b))
            /\ WF_vars(StartUp("bot")) /\ WF_vars(SweepRow("bot"))
FairSpec == Spec /\ Fairness
-----------------------------------------------------------------------------
InForce(i) == {b \in Blocks : ip[b] = i /\ pc[b] \in {"arm", "waiting", "lift"}}

\* A DROP rule is removed only where one was added.
TypeOK ==
  /\ reject \subseteq Users /\ stuck \subseteq Users /\ torn \subseteq Ips
  /\ rules \in [Ips -> 0..Cardinality(Blocks)]
  /\ pc \in [Blocks -> Points]
  /\ user \in [Blocks -> Users] /\ ip \in [Blocks -> Ips \union {NoIp}]
  /\ up \in BOOLEAN /\ todo \in [Starters -> SUBSET Users]
  /\ crashes \in 0..MaxCrashes /\ starts \in 0..MaxStarts /\ faults \in 0..MaxFaults

\* "In steady state, no Auth-Type=Reject rows should exist": while the bot
\* runs, a row is there only as long as a timer is going to remove it, or the
\* bot's sweep is; overlapping blocks of one user, sweeps of other processes
\* and crashes included.  Only a statement or a thread that fails can leave one.
RowHasTimer ==
  up => \A u \in reject \ (stuck \union todo["bot"]) :
          \E b \in Blocks : user[b] = u /\ pc[b] \in {"drop", "arm", "waiting"}

\* A block in force has its own DROP rule: the timer of another block for the
\* same address (two customers behind one router) takes out only its own.
\* Addresses for which a command has failed are left out: the timer of a block
\* that got no rule takes another's, although "a partial-block revert is safe".
DropHolds ==
  \A i \in Ips \ torn : rules[i] >= Cardinality(InForce(i))

\* Nobody stays rejected, even if the bot dies with its timers.
Lifted == \A u \in Users : u \in reject ~> u \notin reject \/ u \in stuck
=============================================================================
