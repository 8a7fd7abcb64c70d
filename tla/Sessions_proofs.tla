---------------------------- MODULE Sessions_proofs ----------------------------
(***************************************************************************)
(* Theorems about Sessions, for any number of requests, clean-up loops and *)
(* session ids, and for every window, maximum age and delay: a session     *)
(* that is over serves nobody, nobody is served beyond the window, and     *)
(* nobody is thrown out who keeps within it.                               *)
(***************************************************************************)
EXTENDS Sessions, TLAPS

\* A process that has taken the time is not kept waiting for too long.
OnTime == \A p \in Processes :
            at[p] \notin Rest => now[p] <= clock /\ clock <= now[p] + MaxDelay

\* A request is about a session, and a session id is drawn once.
HasTok == \A r \in Requests : at[r] \notin Rest => tok[r] \in Tokens
Fresh == \A r \in Requests : at[r] = "insert" =>
           /\ ~Created(tok[r])
           /\ \A q \in Requests : at[q] = "insert" /\ tok[q] = tok[r] => q = r

\* Whatever there is of a session, a login has created.
Known == /\ \A r \in Requests : at[r] \in {"verify", "verify.logout", "delete"} =>
                                  Created(tok[r])
         /\ \A t \in gone : Created(t)
         /\ \A t \in Tokens : row[t] # NoRow => Created(t)
         /\ \A t \in Tokens : Created(t) => active[t] <= clock

\* What is left of a session that has been ended.
Ended == \A t \in gone : row[t] # NoRow => t \in Operator /\ row[t].revoked

\* The expiry of a session lies within MaxDelay of what its use entitles to.
InWindow(t) == /\ row[t].created = born[t] /\ (row[t].revoked => t \in gone)
               /\ row[t].expires <= active[t] + TTL(t)
               /\ active[t] + TTL(t) <= row[t].expires + MaxDelay
Windows == \A t \in Tokens : row[t] # NoRow => InWindow(t)

\* A session without a row has been ended, or is over.
Over(t) == \/ clock + MaxDelay > active[t] + TTL(t)
           \/ t \in Portal /\ clock >= born[t] + MaxAge
Missing == \A t \in Tokens :
             Created(t) /\ row[t] = NoRow => t \in gone \/ Over(t)

IInv == TypeOK /\ OnTime /\ HasTok /\ Fresh /\ Known /\ Ended /\ Windows /\ Missing

-----------------------------------------------------------------------------
USE SessionsAssumption DEF Processes, Tokens

LEMMA InitInv == Init => IInv
  <1> SUFFICES ASSUME Init PROVE IInv OBVIOUS
  <1>1. TypeOK BY DEF Init, TypeOK, Rest, Never
  <1>2. OnTime /\ HasTok /\ Fresh BY DEF Init, OnTime, HasTok, Fresh, Rest
  <1>3. Known /\ Ended /\ Windows /\ Missing
    BY DEF Init, Known, Ended, Windows, Missing, Created, Never
  <1> QED BY <1>1, <1>2, <1>3 DEF IInv

-----------------------------------------------------------------------------
\* A row under any operator's hand is a row again.
LEMMA NextTypes ==
  ASSUME TypeOK, HasTok, [Next]_vars
  PROVE  TypeOK'
  <1> USE DEF TypeOK, HasTok, locals, history
  <1>1. CASE UNCHANGED vars BY <1>1 DEF vars
  <1>2. CASE Tick BY <1>2 DEF Tick, Never
  <1>3. CASE \E r \in Requests : Insert(r)
    <2> PICK r \in Requests : Insert(r) BY <1>3
    <2>1. tok[r] \in Tokens BY DEF Insert, Step, Rest
    <2>2. [created |-> now[r], expires |-> now[r] + TTL(tok[r]), revoked |-> FALSE] \in Rows
      BY <2>1 DEF Rows, TTL
    <2> QED BY <2>1, <2>2 DEF Insert, Step, Forget, Rest, Never
  <1>4. CASE \E r \in Requests : Yes(r)
    <2> PICK r \in Requests : Yes(r) BY <1>4
    <2>1. tok[r] \in Tokens BY DEF Yes, Step, Rest
    <2>2. Slide(row[tok[r]], tok[r], now[r]) \in Rows
      BY <2>1 DEF Yes, Matches, Slide, Rows, TTL
    <2>3. row' \in [Tokens -> Rows \union {NoRow}] /\ active' \in [Tokens -> 0..Never]
      BY <2>1, <2>2 DEF Yes, Never
    <2>4. at' \in [Processes -> Rest \union {"insert", "verify", "verify.logout",
                                           "delete", "purge.portal", "purge.operator"}]
      BY DEF Yes, Step, Rest
    <2>5. now' \in [Processes -> 0..MaxTime] /\ tok' \in [Requests -> Tokens \union {NoRow}]
      BY DEF Yes, Forget
    <2> QED BY <2>3, <2>4, <2>5 DEF Yes
  <1>5. CASE \E r \in Requests : No(r) \/ Delete(r)
    BY <1>5 DEF No, Delete, Step, Forget, Rest
  <1>6. CASE \E r \in Requests, t \in Tokens :
               \/ PortalLogin(r, t) \/ OperatorLogin(r, t) \/ Request(r, t)
               \/ PortalLogout(r, t) \/ OperatorLogout(r, t)
    BY <1>6 DEF PortalLogin, OperatorLogin, Request, PortalLogout, OperatorLogout,
                Begin, Rest
  <1>7. CASE \E S \in {Operator} \union {{t} : t \in Operator} : RevokeAll(S)
    <2> PICK S \in {Operator} \union {{t} : t \in Operator} : RevokeAll(S) BY <1>7
    <2>1. \A t \in Tokens : row[t] # NoRow => [row[t] EXCEPT !.revoked = TRUE] \in Rows
      BY DEF Rows
    <2>2. /\ row' = [t \in Tokens |-> IF t \in S /\ row[t] # NoRow
                                     THEN [row[t] EXCEPT !.revoked = TRUE] ELSE row[t]]
          /\ gone' = gone \union {t \in S : row[t] # NoRow}
          /\ UNCHANGED <<clock, at, now, tok, faults, born, active>>
      BY DEF RevokeAll
    <2>3. row' \in [Tokens -> Rows \union {NoRow}]
      <3>1. \A t \in Tokens : (IF t \in S /\ row[t] # NoRow
                               THEN [row[t] EXCEPT !.revoked = TRUE] ELSE row[t])
                              \in Rows \union {NoRow}
        BY <2>1
      <3> QED BY <2>2, <3>1
    <2>4. gone' \subseteq Tokens BY <2>2
    <2> QED BY <2>2, <2>3, <2>4
  <1>8. CASE \E g \in Loops : Clean(g)
    BY <1>8 DEF Clean, Wake, PurgePortal, PurgeOperator, Purge, Step, Forget, Rest
  <1>9. CASE \E p \in Processes : Raise(p)
    BY <1>9 DEF Raise, Forget, Rest
  <1> QED BY <1>1, <1>2, <1>3, <1>4, <1>5, <1>6, <1>7, <1>8, <1>9 DEF Next, Serve

-----------------------------------------------------------------------------
\* The processes: their times, and what they are about.
LEMMA NextProcesses ==
  ASSUME IInv, [Next]_vars
  PROVE  OnTime' /\ HasTok' /\ Fresh'
  <1> USE DEF IInv, TypeOK, OnTime, HasTok, Fresh, Rest, Created, locals, history
  <1>1. CASE UNCHANGED vars BY <1>1 DEF vars
  <1>2. CASE Tick BY <1>2 DEF Tick
  <1>3. CASE \E r \in Requests : Insert(r)
    BY <1>3 DEF Insert, Step, Forget
  <1>4. CASE \E r \in Requests : Yes(r) BY <1>4 DEF Yes, Step, Forget
  <1>5. CASE \E r \in Requests : No(r) \/ Delete(r)
    BY <1>5 DEF No, Delete, Step, Forget
  <1>6. CASE \E r \in Requests, t \in Tokens :
               \/ PortalLogin(r, t) \/ OperatorLogin(r, t) \/ Request(r, t)
               \/ PortalLogout(r, t) \/ OperatorLogout(r, t)
    BY <1>6 DEF PortalLogin, OperatorLogin, Request, PortalLogout, OperatorLogout,
                Begin, Drawn
  <1>7. CASE \E S \in {Operator} \union {{t} : t \in Operator} : RevokeAll(S)
    BY <1>7 DEF RevokeAll
  <1>8. CASE \E g \in Loops : Clean(g)
    BY <1>8 DEF Clean, Wake, PurgePortal, PurgeOperator, Step, Forget
  <1>9. CASE \E p \in Processes : Raise(p)
    BY <1>9 DEF Raise, Forget
  <1> QED BY <1>1, <1>2, <1>3, <1>4, <1>5, <1>6, <1>7, <1>8, <1>9 DEF Next, Serve

-----------------------------------------------------------------------------
\* The sessions.  A login, a use and a refusal each change one of them, and
\* leave the others as they are.
SessionInv == Known /\ Ended /\ Windows /\ Missing

Others(t) == /\ clock' = clock
             /\ \A u \in Tokens \ {t} :
                  row'[u] = row[u] /\ born'[u] = born[u] /\ active'[u] = active[u]

LEMMA OneSession ==
  ASSUME IInv, NEW t \in Tokens, Others(t), gone' = gone,
         Created(t)', active'[t] <= clock,
         \A q \in Requests : at'[q] \in {"verify", "verify.logout", "delete"} =>
                             \/ at[q] = at'[q] /\ tok'[q] = tok[q]
                             \/ tok'[q] = t,
         row'[t] # NoRow => InWindow(t)' /\ t \notin gone,
         row'[t] = NoRow => t \in gone \/ Over(t)'
  PROVE  SessionInv'
  <1>1. \A u \in Tokens \ {t} : Created(u)' <=> Created(u)
    BY DEF Others, Created
  <1>2. \A u \in Tokens \ {t} : (Over(u)' <=> Over(u)) /\ (InWindow(u)' <=> InWindow(u))
    BY DEF Others, Over, InWindow
  <1>3. Known'
    <2>1. \A q \in Requests : at'[q] \in {"verify", "verify.logout", "delete"} =>
                              Created(tok[q])'
      <3> SUFFICES ASSUME NEW q \in Requests, tok'[q] # t,
                          at[q] \in {"verify", "verify.logout", "delete"}, tok'[q] = tok[q]
                   PROVE  Created(tok[q])'
        OBVIOUS
      <3>1. tok[q] \in Tokens /\ Created(tok[q])
        BY DEF IInv, HasTok, Known, Rest
      <3> QED BY <3>1, <1>1
    <2>2. \A u \in gone' : Created(u)'
      BY <1>1 DEF IInv, TypeOK, Known
    <2>3. \A u \in Tokens : row'[u] # NoRow => Created(u)'
      BY <1>1 DEF IInv, Known, Others
    <2>4. \A u \in Tokens : Created(u)' => active'[u] <= clock'
      BY <1>1 DEF IInv, Known, Others
    <2> QED BY <2>1, <2>2, <2>3, <2>4 DEF Known
  <1>4. Ended'
    BY DEF IInv, TypeOK, Ended, Others
  <1>5. Windows'
    BY <1>2 DEF IInv, Windows, Others
  <1>6. Missing'
    BY <1>1, <1>2 DEF IInv, Missing, Others
  <1> QED BY <1>3, <1>4, <1>5, <1>6 DEF SessionInv

LEMMA InsertSessions ==
  ASSUME IInv, NEW r \in Requests, NEW t \in Tokens, t = tok[r], Insert(r)
  PROVE  SessionInv'
  <1>1. t \in Tokens /\ now[r] <= clock /\ ~Created(t)
    BY DEF IInv, HasTok, OnTime, Fresh, Insert, Step, Rest
  <1>2. /\ now[r] \in 0..MaxTime /\ TTL(t) \in Nat /\ clock \in Nat
        /\ row \in [Tokens -> Rows \union {NoRow}]
        /\ born \in [Tokens -> 0..Never] /\ active \in [Tokens -> 0..Never]
    BY DEF IInv, TypeOK, TTL
  <1>3. /\ clock' = clock /\ gone' = gone
        /\ row' = [row EXCEPT ![t] = [created |-> now[r], expires |-> now[r] + TTL(t),
                                      revoked |-> FALSE]]
        /\ born' = [born EXCEPT ![t] = now[r]] /\ active' = [active EXCEPT ![t] = now[r]]
    BY DEF Insert, history
  <1>4. /\ row'[t] = [created |-> now[r], expires |-> now[r] + TTL(t), revoked |-> FALSE]
        /\ born'[t] = now[r] /\ active'[t] = now[r] /\ Others(t)
    BY <1>1, <1>2, <1>3 DEF Others
  <1>5. Created(t)' BY <1>2, <1>4 DEF Created, Never
  <1>6. \A q \in Requests : at'[q] \in {"verify", "verify.logout", "delete"} =>
                            at[q] = at'[q] /\ tok'[q] = tok[q]
    BY DEF IInv, TypeOK, Insert, Step, Forget
  <1>7. t \notin gone BY <1>1 DEF IInv, Known
  <1>8. InWindow(t)' BY <1>2, <1>4 DEF InWindow, TTL
  <1>9. row'[t] # NoRow
    <2>1. row'[t] \in [created : Nat, expires : Nat, revoked : BOOLEAN]
      BY <1>2, <1>4
    <2> QED BY <2>1, NoRowAssumption
  <1> QED BY <1>1, <1>3, <1>4, <1>5, <1>6, <1>7, <1>8, <1>9, OneSession

LEMMA YesSessions ==
  ASSUME IInv, NEW r \in Requests, NEW t \in Tokens, t = tok[r], Yes(r)
  PROVE  SessionInv'
  <1> DEFINE later == IF active[t] > now[r] THEN active[t] ELSE now[r]
  <1>1. /\ t \in Tokens /\ Created(t)
        /\ now[r] <= clock /\ clock <= now[r] + MaxDelay
    BY DEF IInv, HasTok, OnTime, Known, Yes, Step, Rest
  <1>2. /\ row[t] \in Rows /\ row[t] # NoRow /\ t \notin gone
        /\ row \in [Tokens -> Rows \union {NoRow}]
    BY <1>1 DEF IInv, TypeOK, Ended, Yes, Matches
  <1>3. /\ now[r] \in Nat /\ TTL(t) \in Nat /\ clock \in Nat /\ active[t] \in Nat
        /\ active \in [Tokens -> 0..Never] /\ active[t] <= clock
    BY <1>1 DEF IInv, TypeOK, TTL, Known, Never
  <1>4. /\ clock' = clock /\ born' = born /\ gone' = gone
        /\ row' = [row EXCEPT ![t] = Slide(@, t, now[r])]
        /\ active' = [active EXCEPT ![t] = later]
    BY DEF Yes
  <1>5. /\ row'[t] = [row[t] EXCEPT !.expires = now[r] + TTL(t)] /\ active'[t] = later
        /\ Others(t)
    BY <1>1, <1>2, <1>3, <1>4 DEF Slide, Others
  <1>6. later \in Nat /\ now[r] <= later /\ later <= clock /\ later <= now[r] + MaxDelay
    BY <1>1, <1>3
  <1>7. Created(t)' BY <1>1, <1>4 DEF Created
  <1>8. \A q \in Requests : at'[q] \in {"verify", "verify.logout", "delete"} =>
                            \/ at[q] = at'[q] /\ tok'[q] = tok[q]
                            \/ tok'[q] = t
    BY DEF IInv, TypeOK, Yes, Step, Forget
  <1>9. InWindow(t)'
    <2>1. InWindow(t) BY <1>1, <1>2 DEF IInv, Windows
    <2>2. /\ row'[t].created = row[t].created /\ row'[t].revoked = row[t].revoked
          /\ row'[t].expires = now[r] + TTL(t)
      BY <1>2, <1>5 DEF Rows
    <2> HIDE DEF later
    <2> QED BY <1>3, <1>4, <1>5, <1>6, <2>1, <2>2 DEF InWindow, TTL
  <1>10. row'[t] # NoRow
    BY <1>2, <1>3, <1>5, NoRowAssumption DEF Rows
  <1> QED BY <1>1, <1>2, <1>4, <1>5, <1>6, <1>7, <1>8, <1>9, <1>10, OneSession

LEMMA NoSessions ==
  ASSUME IInv, NEW r \in Requests, NEW t \in Tokens, t = tok[r], No(r)
  PROVE  SessionInv'
  <1>1. t \in Tokens /\ Created(t) /\ now[r] <= clock
    BY DEF IInv, HasTok, OnTime, Known, No, Step, Rest
  <1>2. /\ clock' = clock /\ born' = born /\ gone' = gone /\ active' = active
        /\ row' = [row EXCEPT ![t] = IF Stale(@, t, now[r]) THEN NoRow ELSE @]
    BY DEF No, history
  <1>3. /\ Others(t)
        /\ row'[t] = IF Stale(row[t], t, now[r]) THEN NoRow ELSE row[t]
    BY <1>1, <1>2 DEF IInv, TypeOK, Others
  <1>4. Created(t)' /\ active'[t] <= clock
    BY <1>1, <1>2 DEF IInv, Known, Created
  <1>5. \A q \in Requests : at'[q] \in {"verify", "verify.logout", "delete"} =>
                            at[q] = at'[q] /\ tok'[q] = tok[q]
    BY DEF IInv, TypeOK, No, Step, Forget
  <1>6. CASE t \in gone
    <2>1. Known' /\ Windows' /\ Ended'
      BY <1>1, <1>2, <1>3, <1>5 DEF IInv, TypeOK, HasTok, Rest, Known, Windows, InWindow,
                                   Ended, Created, Others
    <2>2. Missing'
      BY <1>1, <1>2, <1>3, <1>6 DEF IInv, Missing, Over, Created, Others
    <2> QED BY <2>1, <2>2 DEF SessionInv
  <1>7. CASE t \notin gone
    <2>1. row'[t] # NoRow => InWindow(t)'
      BY <1>1, <1>2, <1>3 DEF IInv, Windows, InWindow
    <2>2. row'[t] = NoRow => Over(t)'
      <3>1. CASE row[t] = NoRow
        BY <1>1, <1>2, <1>7, <3>1 DEF IInv, Missing, Over
      <3>2. CASE row[t] # NoRow /\ Stale(row[t], t, now[r])
        <4>1. /\ row[t] \in Rows /\ InWindow(t) /\ active[t] \in Nat /\ TTL(t) \in Nat
              /\ now[r] \in Nat /\ clock \in Nat
          BY <1>1, <3>2 DEF IInv, TypeOK, Windows, TTL, Never
        <4> QED BY <1>1, <1>2, <3>2, <4>1 DEF Stale, InWindow, Over, Rows
      <3> QED BY <1>3, <3>1, <3>2
    <2> QED BY <1>1, <1>2, <1>3, <1>4, <1>5, <1>7, <2>1, <2>2, OneSession
  <1> QED BY <1>6, <1>7

LEMMA NextSessions ==
  ASSUME IInv, [Next]_vars, TypeOK'
  PROVE  SessionInv'
  <1> USE DEF IInv, SessionInv, TypeOK, OnTime, HasTok, Fresh, Known, Ended, Windows,
              InWindow, Missing, Over, Created, Rest, Rows, TTL, locals, history
  <1>1. CASE UNCHANGED vars BY <1>1 DEF vars
  <1>2. CASE Tick BY <1>2 DEF Tick
  <1>3. CASE \E r \in Requests : Insert(r)
    <2> PICK r \in Requests : Insert(r) BY <1>3
    <2>1. tok[r] \in Tokens BY DEF Insert, Step
    <2> PICK t \in Tokens : t = tok[r] BY <2>1
    <2> QED BY InsertSessions DEF SessionInv
  <1>4. CASE \E r \in Requests : Yes(r)
    <2> PICK r \in Requests : Yes(r) BY <1>4
    <2>1. tok[r] \in Tokens BY DEF Yes, Step
    <2> PICK t \in Tokens : t = tok[r] BY <2>1
    <2> QED BY YesSessions DEF SessionInv
  <1>5. CASE \E r \in Requests : No(r)
    <2> PICK r \in Requests : No(r) BY <1>5
    <2>1. tok[r] \in Tokens BY DEF No, Step
    <2> PICK t \in Tokens : t = tok[r] BY <2>1
    <2> QED BY NoSessions DEF SessionInv
  <1>6. CASE \E r \in Requests : Delete(r)
    BY <1>6 DEF Delete, Step, Forget
  <1>7. CASE \E r \in Requests, t \in Tokens :
               \/ PortalLogin(r, t) \/ OperatorLogin(r, t) \/ Request(r, t)
               \/ PortalLogout(r, t) \/ OperatorLogout(r, t)
    BY <1>7 DEF PortalLogin, OperatorLogin, Request, PortalLogout, OperatorLogout, Begin
  <1>8. CASE \E S \in {Operator} \union {{t} : t \in Operator} : RevokeAll(S)
    BY <1>8 DEF RevokeAll
  <1>9. CASE \E g \in Loops : Clean(g)
    BY <1>9 DEF Clean, Wake, PurgePortal, PurgeOperator, Purge, Step, Forget
  <1>10. CASE \E p \in Processes : Raise(p)
    BY <1>10 DEF Raise, Forget
  <1> QED BY <1>1, <1>2, <1>3, <1>4, <1>5, <1>6, <1>7, <1>8, <1>9, <1>10 DEF Next, Serve

LEMMA SessionsInv == Spec => []IInv
  <1>1. IInv /\ [Next]_vars => IInv'
    BY NextTypes, NextProcesses, NextSessions DEF IInv, SessionInv
  <1> QED BY InitInv, <1>1, PTL DEF Spec

\* The types, whatever requests and clean-up loops do.
THEOREM SessionTypes == Spec => []TypeOK
  BY SessionsInv, PTL DEF IInv

\* A session that was logged out of or revoked serves nobody from then on
\* (verify_session, verify_operator_session).
THEOREM EndedServesNobody == Spec => GoneStaysGone
  <1>1. IInv => \A r \in Requests : Yes(r) => tok[r] \notin gone
    BY DEF IInv, Ended, Yes, Matches
  <1>2. IInv /\ [Next]_vars => [\A r \in Requests : Yes(r) => tok[r] \notin gone]_vars
    BY <1>1
  <1> QED BY SessionsInv, <1>2, PTL DEF Spec, GoneStaysGone

\* Nobody is served who has been inactive for longer than the window: the
\* expiry never runs ahead of the last use, whatever slides it.
THEOREM IdleIsOut == Spec => IdleOut
  <1>1. IInv => \A r \in Requests : Yes(r) =>
                  clock <= active[tok[r]] + TTL(tok[r]) + MaxDelay
    <2> SUFFICES ASSUME IInv, NEW r \in Requests, Yes(r)
                 PROVE  clock <= active[tok[r]] + TTL(tok[r]) + MaxDelay
      OBVIOUS
    <2>1. tok[r] \in Tokens /\ clock <= now[r] + MaxDelay
      BY DEF IInv, HasTok, OnTime, Yes, Step, Rest
    <2>2. row[tok[r]] # NoRow /\ row[tok[r]].expires >= now[r]
      BY DEF Yes, Matches
    <2> QED BY <2>1, <2>2 DEF IInv, Windows, InWindow, TypeOK, TTL, Rows, Never
  <1>2. IInv /\ [Next]_vars =>
          [\A r \in Requests : Yes(r) =>
             clock <= active[tok[r]] + TTL(tok[r]) + MaxDelay]_vars
    BY <1>1
  <1> QED BY SessionsInv, <1>2, PTL DEF Spec, IdleOut

\* Nobody is thrown out who keeps within the window, as long as the session
\* was not ended and is not too old.
THEOREM UsedIsKept == Spec => KeptWhileUsed
  <1> DEFINE Kept(r) == LET t == tok[r] IN
                        \/ t \in gone
                        \/ clock + MaxDelay > active[t] + TTL(t)
                        \/ t \in Portal /\ clock >= born[t] + MaxAge
  <1>1. IInv => \A r \in Requests : No(r) => Kept(r)
    <2> SUFFICES ASSUME IInv, NEW r \in Requests, No(r)
                 PROVE  Kept(r)
      OBVIOUS
    <2>1. tok[r] \in Tokens /\ Created(tok[r]) /\ now[r] <= clock
      BY DEF IInv, HasTok, Known, OnTime, No, Step, Rest
    <2>2. CASE row[tok[r]] = NoRow
      BY <2>1, <2>2 DEF IInv, Missing, Over
    <2>3. CASE row[tok[r]] # NoRow
      BY <2>1, <2>3 DEF IInv, No, Matches, Windows, InWindow, TypeOK, TTL, Rows, Never
    <2> QED BY <2>2, <2>3
  <1>2. IInv /\ [Next]_vars => [\A r \in Requests : No(r) => Kept(r)]_vars
    BY <1>1
  <1> QED BY SessionsInv, <1>2, PTL DEF Spec, KeptWhileUsed
=============================================================================
