------------------------------ MODULE Sessions ------------------------------
(***************************************************************************)
(* portal_auth.py: the server-side sessions of the operators (table        *)
(* operator_sessions, an 8 h window that slides, revocable) and of the     *)
(* customers (customer_portal_sessions, a 1 h window that slides, 7 days   *)
(* at most), and the clean-up loop every worker of app.py runs.            *)
(*                                                                         *)
(* All of these read time.time() first and run their statement later: a    *)
(* thread may wait for its turn, a connection or a row lock in between.    *)
(* The workers share one clock, in seconds; MaxDelay bounds that wait.     *)
(* verify_session and verify_operator_session are one step once the time   *)
(* is taken: their UPDATE locks the row until the commit.  slide=False has *)
(* no caller and is left out; last_active is written and never read.       *)
(***************************************************************************)
EXTENDS Naturals, FiniteSets

CONSTANTS Portal, Operator, \* the session ids that may be drawn, by kind
          Requests,         \* requests in progress at once
          Loops,            \* the workers' clean-up loops
          PortalTTL, MaxAge, OperatorTTL,
          MaxDelay,         \* bound: from time.time() to the statement
          MaxLogins,        \* bound: logins
          MaxTime,          \* bound: the clock
          MaxFaults,        \* bound: statements that raise
          NoRow

Tokens == Portal \union Operator
Processes == Requests \union Loops

ASSUME SessionsAssumption ==
  /\ Portal \intersect Operator = {} /\ Requests \intersect Loops = {}
  /\ Tokens # {}
  /\ {PortalTTL, MaxAge, OperatorTTL, MaxDelay, MaxLogins, MaxTime, MaxFaults} \subseteq Nat

ASSUME NoRowAssumption == NoRow \notin [created : Nat, expires : Nat, revoked : BOOLEAN]

VARIABLES
  clock,
  row,    \* by session id: NoRow, or its times and whether it is revoked
  at,     \* where each request and each clean-up loop is
  now,    \* the time it has taken
  tok,    \* the session a request is about
  faults,
  born,   \* history: the time its login had taken, Never without one
  active, \* history: the latest time a request served with it had taken
  gone    \* history: the sessions logged out of or revoked

locals == <<at, now, tok>>
history == <<born, active, gone>>
vars == <<clock, row, locals, faults, history>>

TTL(t) == IF t \in Portal THEN PortalTTL ELSE OperatorTTL
Rest == {"idle", "asleep"}
Never == MaxTime + 1
Created(t) == born[t] # Never

Init ==
  /\ clock = 0
  /\ row = [t \in Tokens |-> NoRow]
  /\ at = [p \in Processes |-> IF p \in Loops THEN "asleep" ELSE "idle"]
  /\ now = [p \in Processes |-> 0]
  /\ tok = [r \in Requests |-> NoRow]
  /\ faults = 0
  /\ born = [t \in Tokens |-> Never]
  /\ active = born
  /\ gone = {}

\* Time passes, but no process is kept waiting for more than MaxDelay.
Tick ==
  /\ clock < MaxTime
  /\ \A p \in Processes : at[p] \notin Rest => clock < now[p] + MaxDelay
  /\ clock' = clock + 1
  /\ UNCHANGED <<row, locals, faults, history>>

-----------------------------------------------------------------------------
Step(p, from, to) == at[p] = from /\ at' = [at EXCEPT ![p] = to]

\* A process that has returned has no locals.
Forget(p) ==
  /\ now' = [now EXCEPT ![p] = 0]
  /\ tok' = IF p \in Requests THEN [tok EXCEPT ![p] = NoRow] ELSE tok

Begin(r, t, to) ==
  /\ at[r] \in Rest /\ at' = [at EXCEPT ![r] = to]
  /\ now' = [now EXCEPT ![r] = clock]
  /\ tok' = [tok EXCEPT ![r] = t]
  /\ UNCHANGED <<clock, row, faults, history>>

\* The session ids drawn so far, by secrets.token_urlsafe(32): never one twice.
Drawn == {t \in Tokens : Created(t)}
           \union {tok[r] : r \in {q \in Requests : at[q] = "insert"}}

\* The password was right, and the customer and the device were active.
PortalLogin(r, t) ==
  /\ t \in Portal \ Drawn /\ Cardinality(Drawn) < MaxLogins
  /\ Begin(r, t, "insert")

OperatorLogin(r, t) ==
  /\ t \in Operator \ Drawn /\ Cardinality(Drawn) < MaxLogins
  /\ Begin(r, t, "insert")

\* create_session, create_operator_session
Insert(r) ==
  /\ Step(r, "insert", "idle") /\ Forget(r)
  /\ row' = [row EXCEPT ![tok[r]] =
               [created |-> now[r], expires |-> now[r] + TTL(tok[r]), revoked |-> FALSE]]
  /\ born' = [born EXCEPT ![tok[r]] = now[r]]
  /\ active' = [active EXCEPT ![tok[r]] = now[r]]
  /\ UNCHANGED <<clock, faults, gone>>

\* A request with a cookie that a login has set, perhaps long ago.
Request(r, t) == Created(t) /\ Begin(r, t, "verify")

\* Only a customer's logout asks for a valid session first.
PortalLogout(r, t) == t \in Portal /\ Created(t) /\ Begin(r, t, "verify.logout")
OperatorLogout(r, t) == t \in Operator /\ Created(t) /\ Begin(r, t, "delete")

\* Mutant of Matches: nobody looks at the age.
MatchesAnyAge(s, t, n) ==
  s # NoRow /\ s.expires >= n /\ ~s.revoked

\* Mutant of Matches: a revoked session is one that has expired.
MatchesRevoked(s, t, n) ==
  s # NoRow /\ s.expires >= n /\ (t \in Portal => s.created + MaxAge > n)

\* The WHERE of the UPDATE.
Matches(s, t, n) ==
  /\ s # NoRow /\ s.expires >= n
  /\ IF t \in Portal THEN s.created + MaxAge > n ELSE ~s.revoked

\* Mutant of Slide: the window is added to the old expiry.
SlideFurther(s, t, n) == [s EXCEPT !.expires = @ + TTL(t)]

\* Mutant of Slide: the expiry stays where the login put it.
SlideNever(s, t, n) == s

Slide(s, t, n) == [s EXCEPT !.expires = n + TTL(t)]

\* The WHERE of the DELETE when no row matched.
Stale(s, t, n) ==
  s # NoRow /\ (s.expires < n \/ (t \in Portal /\ s.created + MaxAge <= n))

Yes(r) ==
  LET t == tok[r] IN
  /\ \/ Step(r, "verify", "idle") /\ Forget(r)
     \/ Step(r, "verify.logout", "delete") /\ UNCHANGED <<now, tok>>
  /\ Matches(row[t], t, now[r])
  /\ row' = [row EXCEPT ![t] = Slide(@, t, now[r])]
  /\ active' = [active EXCEPT ![t] = IF @ > now[r] THEN @ ELSE now[r]]
  /\ UNCHANGED <<clock, faults, born, gone>>

No(r) ==
  LET t == tok[r] IN
  /\ Step(r, "verify", "idle") \/ Step(r, "verify.logout", "idle")
  /\ ~Matches(row[t], t, now[r])
  /\ row' = [row EXCEPT ![t] = IF Stale(@, t, now[r]) THEN NoRow ELSE @]
  /\ Forget(r)
  /\ UNCHANGED <<clock, faults, history>>

\* delete_session, delete_operator_session
Delete(r) ==
  /\ Step(r, "delete", "idle") /\ Forget(r)
  /\ row' = [row EXCEPT ![tok[r]] = NoRow]
  /\ gone' = gone \union {tok[r]}
  /\ UNCHANGED <<clock, faults, born, active>>

\* revoke_all_operator_sessions, of everybody or of one username.  Nothing in
\* these sources calls it: somebody does, by hand.
RevokeAll(S) ==
  /\ \E t \in S : row[t] # NoRow /\ ~row[t].revoked
  /\ row' = [t \in Tokens |-> IF t \in S /\ row[t] # NoRow
                              THEN [row[t] EXCEPT !.revoked = TRUE] ELSE row[t]]
  /\ gone' = gone \union {t \in S : row[t] # NoRow}
  /\ UNCHANGED <<clock, locals, faults, born, active>>

-----------------------------------------------------------------------------
(* _session_cleanup_loop *)

Purge(S, n) ==
  row' = [t \in Tokens |-> IF t \in S /\ row[t] # NoRow /\ row[t].expires < n
                           THEN NoRow ELSE row[t]]

\* The five minutes are over.
Wake(g) ==
  /\ Step(g, "asleep", "purge.portal")
  /\ now' = [now EXCEPT ![g] = clock]
  /\ UNCHANGED <<clock, row, tok, faults, history>>

\* purge_expired_sessions; then purge_expired_operator_sessions takes its time.
PurgePortal(g) ==
  /\ Step(g, "purge.portal", "purge.operator")
  /\ Purge(Portal, now[g])
  /\ now' = [now EXCEPT ![g] = clock]
  /\ UNCHANGED <<clock, tok, faults, history>>

\* Mutant of PurgeOperator: the first purge once more.
PurgePortalTwice(g) ==
  /\ Step(g, "purge.operator", "asleep") /\ Forget(g)
  /\ Purge(Portal, now[g])
  /\ UNCHANGED <<clock, faults, history>>

PurgeOperator(g) ==
  /\ Step(g, "purge.operator", "asleep") /\ Forget(g)
  /\ Purge(Operator, now[g])
  /\ UNCHANGED <<clock, faults, history>>

\* A statement raises (the request is answered 500, the loop logs it and goes
\* back to sleep, the second purge left out), or the worker is replaced.
Raise(p) ==
  /\ faults < MaxFaults /\ at[p] \notin Rest
  /\ faults' = faults + 1
  /\ at' = [at EXCEPT ![p] = IF p \in Loops THEN "asleep" ELSE "idle"]
  /\ Forget(p)
  /\ UNCHANGED <<clock, row, history>>

Serve(r) == Insert(r) \/ Yes(r) \/ No(r) \/ Delete(r)
Clean(g) == Wake(g) \/ PurgePortal(g) \/ PurgeOperator(g)

Next ==
  \/ Tick
  \/ \E r \in Requests :
       \/ Serve(r)
       \/ \E t \in Tokens : \/ PortalLogin(r, t) \/ OperatorLogin(r, t)
                           \/ Request(r, t)
                           \/ PortalLogout(r, t) \/ OperatorLogout(r, t)
  \/ \E S \in {Operator} \union {{t} : t \in Operator} : RevokeAll(S)
  \/ \E g \in Loops : Clean(g)
  \/ \E p \in Processes : Raise(p)

Spec == Init /\ [][Next]_vars

\* Time goes on, a thread gets its turn, and every loop wakes up again.
FairSpec == /\ Spec
            /\ WF_vars(Tick)
            /\ \A r \in Requests : WF_vars(Serve(r))
            /\ \A g \in Loops : WF_vars(Clean(g))
-----------------------------------------------------------------------------
Rows == [created : 0..MaxTime, expires : 0..MaxTime + PortalTTL + OperatorTTL,
         revoked : BOOLEAN]

TypeOK ==
  /\ clock \in 0..MaxTime /\ faults \in 0..MaxFaults
  /\ row \in [Tokens -> Rows \union {NoRow}]
  /\ at \in [Processes -> Rest \union {"insert", "verify", "verify.logout",
                                       "delete", "purge.portal", "purge.operator"}]
  /\ now \in [Processes -> 0..MaxTime]
  /\ tok \in [Requests -> Tokens \union {NoRow}]
  /\ born \in [Tokens -> 0..Never] /\ active \in [Tokens -> 0..Never]
  /\ gone \subseteq Tokens

\* However late the statements run, nobody is served who has been inactive for
\* longer than the window ("After 8h inactivity, operator must re-auth").
IdleOut ==
  [][\A r \in Requests : Yes(r) =>
       clock <= active[tok[r]] + TTL(tok[r]) + MaxDelay]_vars

\* And nobody who keeps within the window is thrown out, by another request
\* with an older time, by a purge in another worker or by the age check, as
\* long as the session was not ended and is not too old.
KeptWhileUsed ==
  [][\A r \in Requests : No(r) =>
       LET t == tok[r] IN
       \/ t \in gone
       \/ clock + MaxDelay > active[t] + TTL(t)
       \/ t \in Portal /\ clock >= born[t] + MaxAge]_vars

\* A session that was logged out of or revoked serves nobody from then on, not
\* even a request that had begun before.
GoneStaysGone == [][\A r \in Requests : Yes(r) => tok[r] \notin gone]_vars

\* "Expired sessions accumulated indefinitely": they no longer do.
Purged ==
  \A t \in Tokens :
    (row[t] # NoRow /\ row[t].expires < clock)
      ~> ~(row[t] # NoRow /\ row[t].expires < clock)

\* "A session that stays active can live indefinitely": a portal session that
\* is early enough for the clock to see its end does end, however it is used.
PortalSessionEnds ==
  \A t \in Portal :
    (Created(t) /\ born[t] + MaxAge + PortalTTL < MaxTime) ~> row[t] = NoRow
=============================================================================
