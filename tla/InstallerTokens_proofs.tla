----------------------- MODULE InstallerTokens_proofs -----------------------
(***************************************************************************)
(* Proofs about InstallerTokens.  What Portal_proofs shows of Portal's     *)
(* steps carries over: the steps of a token and of a fetch leave the       *)
(* stores alone, and only count a fault or a killed worker, and those of a *)
(* command change no more of them than a status.                           *)
(***************************************************************************)
EXTENDS InstallerTokens, Portal_proofs

States == {"asked", "valid", "expired", "burnt"}
Steps == {"idle", "secret", "burn", "audit"} \union Over

LEMMA NobodyType == Nobody \in Ids
<1>1. PICK c \in Names, d \in Devs : Identity(c, d) \in Ids
  BY PortalAssumption, IdentityType
<1>2. QED
  BY <1>1 DEF Nobody

\* A call that is over without a password.
LEMMA ForgetType ==
  ASSUME TokensTypeOK, NEW f \in Fetches, NEW from, Forget(f, from), UNCHANGED <<flags, token>>
  PROVE  TokensTypeOK'
BY NobodyType DEF Forget, Move, TokensTypeOK, flags, Over

LEMMA ForgetGoes ==
  ASSUME TokensTypeOK, NEW f \in Fetches, NEW from, Forget(f, from)
  PROVE  /\ step[f] = from /\ step'[f] = "nothing" /\ of'[f] = NoRow /\ ~late'[f] /\ ~alone'[f]
         /\ \A g \in Fetches \ {f} :
              /\ step'[g] = step[g] /\ of'[g] = of[g] /\ who'[g] = who[g] /\ got'[g] = got[g]
              /\ late'[g] = late[g] /\ alone'[g] = alone[g]
BY DEF Forget, Move, TokensTypeOK

\* The calls of a fetch that end without a password, and what the others leave.
Ends(f) == \E from \in Steps : Forget(f, from)

LEMMA EndsOr ==
  ASSUME TypeOK, TokensTypeOK, FetchStep
  PROVE  /\ UNCHANGED flags
         /\ \E f \in Fetches :
              \/ Ends(f) /\ UNCHANGED token
              \/ (\E k \in Tokens : Fetch(f, k)) /\ ~Ends(f)
              \/ \E c \in Names : Bake(f, c)
              \/ (ReadSecret(f) \/ Burn(f) \/ Answer(f)) /\ ~Ends(f)
<1>1. PICK f \in Fetches :
        \/ \E k \in Tokens : Fetch(f, k)
        \/ \E c \in Names : Bake(f, c)
        \/ ReadSecret(f) \/ Burn(f) \/ Answer(f) \/ Kill(f)
  BY DEF FetchStep
<1>2. UNCHANGED flags
  BY <1>1 DEF Fetch, Bake, ReadSecret, Burn, Answer, Kill, NoAnswer
<1>3. ASSUME NEW k \in Tokens, Fetch(f, k), Ends(f) PROVE UNCHANGED token
  BY <1>3 DEF Fetch, NoAnswer
<1>4. ReadSecret(f) /\ Ends(f) => UNCHANGED token
  BY DEF ReadSecret, NoAnswer
<1>5. Burn(f) /\ Ends(f) => UNCHANGED token
  BY DEF Burn, NoAnswer, Ends, Forget, Move, TokensTypeOK
<1>6. Answer(f) => UNCHANGED token
  BY DEF Answer, NoAnswer
<1>7. Kill(f) => Ends(f) /\ UNCHANGED token
  BY DEF Kill, Ends, TokensTypeOK, Steps
<1>8. QED
  BY <1>1, <1>2, <1>3, <1>4, <1>5, <1>6, <1>7

\* What the calls that go on do.
LEMMA GoesOn ==
  ASSUME TypeOK, TokensTypeOK, NEW f \in Fetches, ~Ends(f)
  PROVE  /\ \A k \in Tokens : Fetch(f, k) =>
              /\ Serves(k) /\ Move(f, "idle", "secret")
              /\ \E i \in UserIds(token[k].row) : who' = [who EXCEPT ![f] = i]
              /\ of' = [of EXCEPT ![f] = k]
              /\ late' = [late EXCEPT ![f] =
                            \/ token[k].state = "expired"
                            \/ \E g \in Fetches : of[g] = k /\ step[g] = "password"]
              /\ alone' = [alone EXCEPT ![f] = Quiet]
              /\ UNCHANGED <<vars, token, got>>
         /\ ReadSecret(f) =>
              /\ conf.blk[who[f]] # NoRow
              /\ Move(f, "secret", IF of[f] = NoRow THEN "audit" ELSE "burn")
              /\ got' = [got EXCEPT ![f] = conf.blk[who[f]]]
              /\ UNCHANGED <<vars, token, of, who, late, alone>>
         /\ Burn(f) =>
              /\ Move(f, "burn", "audit")
              /\ token' = [token EXCEPT ![of[f]].state = "burnt"]
              /\ UNCHANGED <<vars, of, who, got, late, alone>>
         /\ Answer(f) =>
              /\ Move(f, "audit", "password")
              /\ alone' = [alone EXCEPT ![f] = FALSE]
              /\ UNCHANGED <<vars, token, of, who, got, late>>
<1>1. \A from \in Steps : ~Forget(f, from) /\ ~NoAnswer(f, from)
  BY DEF Ends, NoAnswer
<1>2. {"idle", "secret", "burn", "audit"} \subseteq Steps
  BY DEF Steps
<1>3. ASSUME NEW k \in Tokens, Fetch(f, k)
      PROVE  /\ Serves(k) /\ Move(f, "idle", "secret")
             /\ \E i \in UserIds(token[k].row) : who' = [who EXCEPT ![f] = i]
             /\ of' = [of EXCEPT ![f] = k]
             /\ late' = [late EXCEPT ![f] =
                           \/ token[k].state = "expired"
                           \/ \E g \in Fetches : of[g] = k /\ step[g] = "password"]
             /\ alone' = [alone EXCEPT ![f] = Quiet]
             /\ UNCHANGED <<vars, token, got>>
  BY <1>1, <1>2, <1>3, Zenon DEF Fetch
<1>4. ReadSecret(f) =>
        /\ conf.blk[who[f]] # NoRow
        /\ Move(f, "secret", IF of[f] = NoRow THEN "audit" ELSE "burn")
        /\ got' = [got EXCEPT ![f] = conf.blk[who[f]]]
        /\ UNCHANGED <<vars, token, of, who, late, alone>>
  BY <1>1, <1>2 DEF ReadSecret
<1>5. Burn(f) =>
        /\ Move(f, "burn", "audit")
        /\ token' = [token EXCEPT ![of[f]].state = "burnt"]
        /\ UNCHANGED <<vars, of, who, got, late, alone>>
  BY <1>1, <1>2 DEF Burn
<1>6. Answer(f) =>
        /\ Move(f, "audit", "password")
        /\ alone' = [alone EXCEPT ![f] = FALSE]
        /\ UNCHANGED <<vars, token, of, who, got, late>>
  BY <1>1, <1>2 DEF Answer
<1>7. QED
  BY <1>3, <1>4, <1>5, <1>6

\* A step of a token or of a fetch changes no variable of Portal but a count.
LEMMA StoresKept ==
  ASSUME TypeOK, TokenStep \/ FetchStep
  PROVE  /\ UNCHANGED <<tables, gateway, at, locals>>
         /\ faults' \in 0..MaxFaults /\ crashes' \in 0..MaxCrashes
<1>1. CASE UNCHANGED vars
  BY <1>1 DEF vars, bounds, TypeOK
<1>2. CASE \E f \in Fetches, from \in Steps : NoAnswer(f, from)
  BY <1>2, TypeShape, FaultType DEF NoAnswer
<1>3. CASE \E f \in Fetches : Kill(f)
  BY <1>3, PortalAssumption DEF Kill, TypeOK
<1>4. TokenStep => UNCHANGED vars
  BY DEF TokenStep, Ask, Insert, Expire, Become
<1>5. FetchStep => \/ UNCHANGED vars
                   \/ \E f \in Fetches, from \in Steps : NoAnswer(f, from)
                   \/ \E f \in Fetches : Kill(f)
  BY DEF FetchStep, Fetch, Bake, ReadSecret, Burn, Answer, Steps
<1>6. QED
  BY <1>1, <1>2, <1>3, <1>4, <1>5

\* A command changes no more than one status.
LEMMA CommandKeeps ==
  ASSUME TypeOK, CommandStep
  PROVE  /\ UNCHANGED <<users, devices, radcheck, gateway, at, locals, bounds>>
         /\ customers' \in [Names -> Customers]
<1>1. CASE UNCHANGED vars
  BY <1>1 DEF vars, tables, TypeOK
<1>2. ASSUME NEW c \in Names, Renew(c)
      PROVE  /\ UNCHANGED <<users, devices, radcheck, gateway, at, locals, bounds>>
             /\ customers' \in [Names -> Customers]
  <2>1. devices[c] # NoRow /\ devices[c].row = RowOf(customers[c])
    BY <1>2 DEF Renew, Is
  <2>2. RowOf(customers[c]) # NoRow
    BY <2>1, PortalAssumption DEF TypeOK, Devices, Rows
  <2>3. customers[c] \in [row : Rows, status : {"active", "archived"}]
    BY <2>2 DEF RowOf, TypeOK, Customers
  <2>4. [customers[c] EXCEPT !.status = "active"] \in Customers
    BY <2>3 DEF Customers
  <2>5. QED
    BY <1>2, <2>4 DEF Renew, TypeOK
<1>3. QED
  BY <1>1, <1>2 DEF CommandStep, Switch, SwitchDevice

LEMMA PortalKept ==
  ASSUME TypeOK, OwnInv, [TNext]_tvars PROVE TypeOK' /\ OwnInv'
<1>1. CASE [Next]_vars
  BY <1>1, TypeNext, TypeShape, OwnNext
<1>2. CASE TokenStep \/ FetchStep
  <2>1. UNCHANGED <<tables, gateway, at, locals>>
    BY <1>2, StoresKept
  <2>2. TypeOK'
    BY <1>2, <2>1, StoresKept DEF TypeOK, tables, gateway, locals
  <2>3. OwnInv'
    BY <2>1 DEF OwnInv, Own, tables, gateway, locals
  <2>4. QED
    BY <2>2, <2>3
<1>3. CASE CommandStep
  <2>1. TypeOK'
    BY <1>3, CommandKeeps DEF TypeOK, gateway, locals, bounds
  <2>2. OwnInv'
    BY <1>3, CommandKeeps DEF OwnInv, Own, gateway, locals
  <2>3. QED
    BY <2>1, <2>2
<1>4. [TNext]_tvars => [Next]_vars \/ CommandStep \/ TokenStep \/ FetchStep
  BY DEF TNext, PortalStep, tvars
<1>5. QED
  BY <1>1, <1>2, <1>3, <1>4

-----------------------------------------------------------------------------
\* A customer a token is made for exists and has a device.
LEMMA MayInstallType ==
  ASSUME TypeOK, NEW c \in Names, MayInstall(c)
  PROVE  /\ customers[c] # NoRow /\ customers[c].row \in Rows
         /\ devices[c] # NoRow /\ devices[c].name \in Devs
<1>1. devices[c] # NoRow /\ devices[c].row = RowOf(customers[c])
  BY DEF MayInstall, Is
<1>2. devices[c] \in Devices /\ customers[c] \in Customers
  BY DEF TypeOK
<1>3. devices[c].row \in Rows /\ devices[c].name \in Devs
  BY <1>1, <1>2 DEF Devices
<1>4. RowOf(customers[c]) # NoRow
  BY <1>1, <1>3, PortalAssumption DEF Rows
<1>5. customers[c] # NoRow
  BY <1>4 DEF RowOf
<1>6. customers[c].row \in Rows
  BY <1>2, <1>5 DEF Customers
<1>7. QED
  BY <1>1, <1>3, <1>5, <1>6

LEMMA TokensInit == TInit => TokensTypeOK
BY NobodyType DEF TInit, TokensTypeOK, Over

\* A fetch that found its token, and one that has burnt it.
Behind(f, from) == step[f] \in from /\ of[f] # NoRow
TokensInv ==
  \A f \in Fetches :
    /\ step[f] = "idle" => of[f] = NoRow
    /\ step[f] = "burn" => of[f] # NoRow
    /\ Behind(f, {"secret", "burn"}) =>
         token[of[f]] # NoRow /\ token[of[f]].state \notin {"asked"}
    /\ Behind(f, {"audit", "password"}) =>
         token[of[f]] # NoRow /\ token[of[f]].state = "burnt"
    /\ ~late[f]

\* A password that was read is one generated for the identity.
GotInv ==
  \A f \in Fetches, i \in Ids :
    step[f] \in {"burn", "audit", "password"} /\ who[f] = i => got[f] \in Own(i)

LEMMA BecomeType ==
  ASSUME TokensTypeOK, NEW k \in Tokens, NEW from, NEW to \in States, Become(k, from, to)
  PROVE  token' \in [Tokens -> {NoRow} \union TokenRows]
BY DEF TokensTypeOK, Become, States, TokenRows

LEMMA TokensNext ==
  TypeOK /\ TokensTypeOK /\ TokensInv /\ [TNext]_tvars => TokensTypeOK'
<1> SUFFICES ASSUME TypeOK, TokensTypeOK, TokensInv, [TNext]_tvars PROVE TokensTypeOK'
  OBVIOUS
<1>1. CASE UNCHANGED tvars
  BY <1>1 DEF tvars, flags, fetchVars, TokensTypeOK
<1>2. CASE PortalStep
  <2>1. \A c \in Names : /\ Created(c) \in BOOLEAN
                         /\ DoesToRow(c, "unarchive.status", "unarchive.device") \in BOOLEAN
                         /\ DoesToRow(c, "archive.status", "archive.device") \in BOOLEAN
    BY DEF Created, Does, DoesToRow
  <2>2. enabled' \in [Names -> BOOLEAN] /\ inUse' \in [Names -> BOOLEAN]
    BY <1>2, <2>1 DEF PortalStep, TokensTypeOK
  <2>3. QED
    BY <1>2, <2>2 DEF PortalStep, BesideFetches, TokensTypeOK
<1>3. CASE CommandStep
  <2>1. enabled' \in [Names -> BOOLEAN] /\ inUse' \in [Names -> BOOLEAN]
    BY <1>3 DEF CommandStep, Renew, Switch, SwitchDevice, flags, TokensTypeOK
  <2>2. QED
    BY <1>3, <2>1 DEF CommandStep, BesideFetches, TokensTypeOK
<1>4. CASE TokenStep
  <2>1. ASSUME NEW k \in Tokens, Insert(k) \/ Expire(k) PROVE TokensTypeOK'
    BY <2>1, BecomeType DEF Insert, Expire, Become, flags, fetchVars, TokensTypeOK, States
  <2>2. ASSUME NEW k \in Tokens, NEW c \in Names, Ask(k, c) PROVE TokensTypeOK'
    <3>2. customers[c].row \in Rows
      BY <2>2, MayInstallType DEF Ask
    <3>3. QED
      BY <2>2, <3>2 DEF Ask, flags, fetchVars, TokensTypeOK, TokenRows
  <2>3. QED
    BY <1>4, <2>1, <2>2 DEF TokenStep
<1>5. CASE FetchStep
  <2>0. UNCHANGED flags
    BY <1>5, EndsOr
  <2>1. ASSUME NEW f \in Fetches, Ends(f), UNCHANGED token PROVE TokensTypeOK'
    BY <2>0, <2>1, ForgetType DEF Ends
  <2>2. ASSUME NEW f \in Fetches, ~Ends(f), NEW k \in Tokens, Fetch(f, k) PROVE TokensTypeOK'
    <3>1. step' \in [Fetches -> Steps] /\ who' \in [Fetches -> Ids]
      BY <2>2, GoesOn DEF Move, UserIds, TokensTypeOK, Steps, Over
    <3>2. late' \in [Fetches -> BOOLEAN] /\ alone' \in [Fetches -> BOOLEAN]
      BY <2>2, GoesOn DEF TokensTypeOK, Quiet
    <3>3. of' \in [Fetches -> Tokens \union {NoRow}] /\ UNCHANGED <<token, got>>
      BY <2>2, GoesOn DEF TokensTypeOK
    <3>4. QED
      BY <2>0, <3>1, <3>2, <3>3 DEF TokensTypeOK, Steps, flags
  <2>3. ASSUME NEW f \in Fetches, NEW c \in Names, Bake(f, c) PROVE TokensTypeOK'
    <3>2. devices[c].name \in Devs
      BY <2>3, MayInstallType DEF Bake
    <3>3. Identity(c, devices[c].name) \in Ids
      BY <3>2, IdentityType
    <3>4. QED
      BY <2>3, <3>3 DEF Bake, Move, TokensTypeOK, Quiet, flags
  <2>4. ASSUME NEW f \in Fetches, ~Ends(f), ReadSecret(f) PROVE TokensTypeOK'
    <3>1. conf.blk[who[f]] \in Secrets \union {NoRow}
      BY DEF TypeOK, TokensTypeOK, Files, Blocks
    <3>2. QED
      BY <2>0, <2>4, <3>1, GoesOn DEF Move, TokensTypeOK, Over, flags
  <2>5. ASSUME NEW f \in Fetches, ~Ends(f), Answer(f) PROVE TokensTypeOK'
    BY <2>0, <2>5, GoesOn DEF Move, TokensTypeOK, Over, flags
  <2>6. ASSUME NEW f \in Fetches, ~Ends(f), Burn(f) PROVE TokensTypeOK'
    <3>1. of[f] \in Tokens /\ token[of[f]] # NoRow
      BY <2>6, GoesOn DEF Move, TokensInv, TokensTypeOK, Behind
    <3>2. QED
      BY <2>0, <2>6, <3>1, GoesOn DEF Move, TokensTypeOK, TokenRows, flags
  <2>7. QED
    BY <1>5, <2>1, <2>2, <2>3, <2>4, <2>5, <2>6, EndsOr
<1>6. QED
  BY <1>1, <1>2, <1>3, <1>4, <1>5 DEF TNext

\* What the invariant needs of a step that answers or moves no fetch: tokens
\* that were found stay there, the customer's, and a burnt one stays burnt.
TokensKept ==
  \A k \in Tokens : token[k] # NoRow =>
    /\ token'[k] # NoRow /\ token'[k].row = token[k].row
    /\ token[k].state # "asked" => token'[k].state # "asked"
    /\ token[k].state = "burnt" => token'[k].state = "burnt"

LEMMA TokensStay == ASSUME TypeOK, TokensTypeOK, TokensInv, [TNext]_tvars PROVE TokensKept
<1>0. TokensTypeOK'
  BY TokensNext
<1>1. CASE UNCHANGED token
  BY <1>1 DEF TokensKept
<1>2. ASSUME NEW k \in Tokens, Insert(k) \/ Expire(k) PROVE TokensKept
  <2>1. PICK to \in {"valid", "expired"} :
           /\ token[k] # NoRow /\ token[k].state \in {"asked", "valid"}
           /\ token' = [token EXCEPT ![k].state = to]
    BY <1>2 DEF Insert, Expire, Become
  <2>2. token'[k] # NoRow /\ token'[k].state = to
    BY <2>1, <1>0, TokensAssumption DEF TokensTypeOK, TokenRows
  <2>3. QED
    BY <2>1, <2>2 DEF TokensKept, TokensTypeOK
<1>3. ASSUME NEW k \in Tokens, NEW c \in Names, Ask(k, c) PROVE TokensKept
  BY <1>3 DEF Ask, TokensKept, TokensTypeOK
<1>4. ASSUME NEW f \in Fetches, Burn(f), ~Ends(f) PROVE TokensKept
  <2>1. /\ of[f] \in Tokens /\ token[of[f]] \in TokenRows
        /\ token' = [token EXCEPT ![of[f]].state = "burnt"]
    BY <1>4, GoesOn DEF Move, TokensInv, TokensTypeOK, Behind
  <2>2. token'[of[f]].state = "burnt" /\ token'[of[f]] \in TokenRows
    BY <2>1 DEF TokensTypeOK, TokenRows
  <2>3. QED
    BY <2>1, <2>2, TokensAssumption DEF TokensKept, TokensTypeOK
<1>5. [TNext]_tvars =>
        \/ UNCHANGED token
        \/ \E k \in Tokens : Insert(k) \/ Expire(k)
        \/ \E k \in Tokens, c \in Names : Ask(k, c)
        \/ \E f \in Fetches : Burn(f) /\ ~Ends(f)
  <2>1. UNCHANGED tvars \/ PortalStep \/ CommandStep => UNCHANGED token
    BY DEF tvars, PortalStep, CommandStep, BesideFetches
  <2>2. FetchStep => UNCHANGED token \/ \E f \in Fetches : Burn(f) /\ ~Ends(f)
    BY EndsOr, GoesOn DEF Bake
  <2>3. QED
    BY <2>1, <2>2 DEF TNext, TokenStep
<1>6. QED
  BY <1>1, <1>2, <1>3, <1>4, <1>5

\* The other fetches stay where they are.
LEMMA OthersStay ==
  ASSUME TypeOK, TokensTypeOK, NEW g \in Fetches, NEW f \in Fetches \ {g},
         \/ Ends(g)
         \/ (\E k \in Tokens : Fetch(g, k)) /\ ~Ends(g)
         \/ \E c \in Names : Bake(g, c)
         \/ (ReadSecret(g) \/ Burn(g) \/ Answer(g)) /\ ~Ends(g)
  PROVE  /\ step'[f] = step[f] /\ of'[f] = of[f] /\ who'[f] = who[f] /\ got'[f] = got[f]
         /\ late'[f] = late[f] /\ alone'[f] = alone[f]
<1>1. CASE Ends(g)
  BY <1>1, ForgetGoes DEF Ends
<1>2. ASSUME NEW k \in Tokens, Fetch(g, k), ~Ends(g)
      PROVE  /\ step'[f] = step[f] /\ of'[f] = of[f] /\ who'[f] = who[f] /\ got'[f] = got[f]
             /\ late'[f] = late[f] /\ alone'[f] = alone[f]
  BY <1>2, GoesOn DEF Move, TokensTypeOK
<1>3. ASSUME NEW c \in Names, Bake(g, c)
      PROVE  /\ step'[f] = step[f] /\ of'[f] = of[f] /\ who'[f] = who[f] /\ got'[f] = got[f]
             /\ late'[f] = late[f] /\ alone'[f] = alone[f]
  BY <1>3 DEF Bake, Move, TokensTypeOK
<1>4. CASE (ReadSecret(g) \/ Burn(g) \/ Answer(g)) /\ ~Ends(g)
  BY <1>4, GoesOn DEF Move, TokensTypeOK
<1>5. QED
  BY <1>1, <1>2, <1>3, <1>4

LEMMA TokensInvNext ==
  TypeOK /\ TokensTypeOK /\ TokensInv /\ [TNext]_tvars => TokensInv'
<1> SUFFICES ASSUME TypeOK, TokensTypeOK, TokensInv, [TNext]_tvars, NEW f \in Fetches
             PROVE  /\ step'[f] = "idle" => of'[f] = NoRow
                    /\ step'[f] = "burn" => of'[f] # NoRow
                    /\ Behind(f, {"secret", "burn"})' =>
                         token'[of'[f]] # NoRow /\ token'[of'[f]].state \notin {"asked"}
                    /\ Behind(f, {"audit", "password"})' =>
                         token'[of'[f]] # NoRow /\ token'[of'[f]].state = "burnt"
                    /\ ~late'[f]
  BY DEF TokensInv
<1>1. TokensKept
  BY TokensStay
<1>2. CASE step'[f] = step[f] /\ of'[f] = of[f] /\ late'[f] = late[f]
  BY <1>1, <1>2 DEF TokensInv, TokensTypeOK, Behind, TokensKept
<1>3. CASE Ends(f)
  BY <1>3, ForgetGoes DEF Ends, Behind
<1>4. CASE \E k \in Tokens : Fetch(f, k) /\ ~Ends(f)
  <2>1. PICK k \in Tokens : Fetch(f, k) /\ ~Ends(f)
    BY <1>4
  <2>2. Valid(k) /\ step'[f] = "secret" /\ of'[f] = k /\ UNCHANGED token
    BY <2>1, GoesOn DEF Serves, Move, TokensTypeOK
  <2>3. ~late'[f]
    <3>1. \A g \in Fetches : ~(of[g] = k /\ step[g] = "password")
      BY <2>2, TokensAssumption DEF Valid, TokensInv, Behind
    <3>2. QED
      BY <2>1, <2>2, <3>1, GoesOn DEF Valid, TokensTypeOK
  <2>4. QED
    BY <2>2, <2>3 DEF Valid, Behind
<1>5. CASE \E c \in Names : Bake(f, c)
  BY <1>5 DEF Bake, Move, TokensTypeOK, TokensInv, Behind
<1>6. CASE ReadSecret(f) /\ ~Ends(f)
  BY <1>6, GoesOn DEF Move, TokensTypeOK, TokensInv, Behind
<1>7. CASE Burn(f) /\ ~Ends(f)
  <2>1. /\ step[f] = "burn" /\ step'[f] = "audit" /\ of' = of /\ late' = late
        /\ token' = [token EXCEPT ![of[f]].state = "burnt"]
    BY <1>7, GoesOn DEF Move, TokensTypeOK
  <2>2. of[f] \in Tokens /\ token[of[f]] \in TokenRows
    BY <2>1 DEF TokensInv, TokensTypeOK, Behind
  <2>3. token'[of[f]].state = "burnt" /\ token'[of[f]] # NoRow
    BY <2>1, <2>2, TokensAssumption DEF TokensTypeOK, TokenRows
  <2>4. QED
    BY <2>1, <2>3 DEF TokensInv, Behind
<1>8. CASE Answer(f) /\ ~Ends(f)
  BY <1>8, GoesOn DEF Move, TokensTypeOK, TokensInv, Behind
<1>9. QED
  <2>1. CASE UNCHANGED tvars \/ PortalStep \/ CommandStep \/ TokenStep
    BY <1>2, <2>1 DEF tvars, fetchVars, PortalStep, CommandStep, BesideFetches, TokenStep, Ask,
                      Insert, Expire, Become
  <2>2. CASE FetchStep
    <3>1. PICK g \in Fetches :
            \/ Ends(g)
            \/ (\E k \in Tokens : Fetch(g, k)) /\ ~Ends(g)
            \/ \E c \in Names : Bake(g, c)
            \/ (ReadSecret(g) \/ Burn(g) \/ Answer(g)) /\ ~Ends(g)
      BY <2>2, EndsOr
    <3>2. CASE g # f
      BY <3>1, <3>2, OthersStay, <1>2
    <3>3. CASE g = f
      BY <3>1, <3>3, <1>3, <1>4, <1>5, <1>6, <1>7, <1>8
    <3>4. QED
      BY <3>2, <3>3
  <2>3. QED
    BY <2>1, <2>2 DEF TNext

LEMMA TokensHold == TSpec => [](TypeOK /\ OwnInv /\ TokensTypeOK /\ TokensInv)
<1>1. TInit => TypeOK /\ OwnInv /\ TokensTypeOK /\ TokensInv
  BY TypeInit, OwnInit, TokensInit DEF TInit, TokensInv, Behind
<1>2. TypeOK /\ OwnInv /\ TokensTypeOK /\ TokensInv /\ [TNext]_tvars
        => (TypeOK /\ OwnInv /\ TokensTypeOK /\ TokensInv)'
  BY PortalKept, TokensNext, TokensInvNext
<1>3. QED
  BY <1>1, <1>2, PTL DEF TSpec

\* Beside whatever the portal does, every token's row, every fetch and what it
\* has read keep their types.
THEOREM TokensTypes == TSpec => []TokensTypeOK
BY TokensHold, PTL

\* Once a token has expired or somebody has its password, whoever comes after
\* that is refused: no failed statement, killed worker, concurrent fetch or
\* request of the portal brings the token back.
THEOREM SpentTokens == TSpec => []SpentServesNobody
<1>1. TokensInv => SpentServesNobody
  BY DEF TokensInv, SpentServesNobody
<1>2. QED
  BY <1>1, TokensHold, PTL

-----------------------------------------------------------------------------
LEMMA OwnKept ==
  ASSUME TypeOK, [TNext]_tvars, NEW i \in Ids PROVE Own(i) \subseteq Own(i)'
<1>1. CASE [Next]_vars
  BY <1>1, TypeShape, OwnGrows
<1>2. CASE TokenStep \/ FetchStep \/ CommandStep
  BY <1>2, StoresKept, CommandKeeps DEF Own, locals
<1>3. QED
  BY <1>1, <1>2 DEF TNext, PortalStep, tvars

LEMMA GotNext ==
  TypeOK /\ OwnInv /\ TokensTypeOK /\ TokensInv /\ GotInv /\ [TNext]_tvars => GotInv'
<1> SUFFICES ASSUME TypeOK, OwnInv, TokensTypeOK, TokensInv, GotInv, [TNext]_tvars,
                    NEW f \in Fetches, NEW i \in Ids,
                    step'[f] \in {"burn", "audit", "password"}, who'[f] = i
             PROVE  got'[f] \in Own(i)'
  BY DEF GotInv
<1>2. Own(i) \subseteq Own(i)'
  BY OwnKept
<1>3. CASE /\ who'[f] = who[f] /\ got'[f] = got[f]
           /\ step[f] \in {"burn", "audit", "password"}
  BY <1>2, <1>3 DEF GotInv
<1>4. CASE ReadSecret(f) /\ ~Ends(f)
  <2>1. got'[f] = conf.blk[who[f]] /\ got'[f] # NoRow /\ who' = who
    BY <1>4, GoesOn DEF TokensTypeOK
  <2>2. got'[f] \in Own(i)
    BY <2>1, TypeShape DEF OwnInv, Unmarked
  <2>3. QED
    BY <1>2, <2>2
<1>5. CASE UNCHANGED tvars \/ PortalStep \/ CommandStep \/ TokenStep
  BY <1>3, <1>5 DEF tvars, fetchVars, PortalStep, CommandStep, BesideFetches, TokenStep, Ask,
                    Insert, Expire, Become
<1>6. CASE FetchStep
  <2>1. PICK g \in Fetches :
          \/ Ends(g)
          \/ (\E k \in Tokens : Fetch(g, k)) /\ ~Ends(g)
          \/ \E c \in Names : Bake(g, c)
          \/ (ReadSecret(g) \/ Burn(g) \/ Answer(g)) /\ ~Ends(g)
    BY <1>6, EndsOr
  <2>2. CASE g # f
    BY <2>1, <2>2, OthersStay, <1>3
  <2>3. CASE g = f
    <3>1. ~Ends(f)
      BY ForgetGoes DEF Ends
    <3>2. ASSUME NEW k \in Tokens, Fetch(f, k) PROVE FALSE
      BY <3>1, <3>2, GoesOn DEF Move, TokensTypeOK
    <3>3. ASSUME NEW c \in Names, Bake(f, c) PROVE step'[f] = "secret"
      BY <3>3 DEF Bake, Move, TokensTypeOK
    <3>4. CASE Burn(f) \/ Answer(f)
      <4>1. /\ step[f] \in {"burn", "audit"} /\ who' = who /\ got' = got
        BY <3>1, <3>4, GoesOn DEF Move
      <4>2. QED
        BY <4>1, <1>3
    <3>5. QED
      BY <1>4, <2>1, <2>3, <3>1, <3>2, <3>3, <3>4
  <2>4. QED
    BY <2>2, <2>3
<1>7. QED
  BY <1>5, <1>6 DEF TNext

\* However requests interleave, fail and are killed beside it, a fetch hands
\* out a password that was generated for the identity it has looked up, never
\* another customer's.
THEOREM FetchOwnSecret == TSpec => []ServedOwn
<1>1. TInit => TypeOK /\ OwnInv /\ TokensTypeOK /\ TokensInv /\ GotInv
  <2>1. TInit => TypeOK /\ OwnInv /\ TokensTypeOK
    BY TypeInit, OwnInit, TokensInit DEF TInit
  <2>2. TInit => TokensInv /\ \A f \in Fetches : step[f] = "idle"
    BY DEF TInit, TokensInv, Behind
  <2>3. (\A f \in Fetches : step[f] = "idle") => GotInv
    BY DEF GotInv
  <2>4. QED
    BY <2>1, <2>2, <2>3
<1>2. TypeOK /\ OwnInv /\ TokensTypeOK /\ TokensInv /\ GotInv /\ [TNext]_tvars
        => (TypeOK /\ OwnInv /\ TokensTypeOK /\ TokensInv /\ GotInv)'
  BY PortalKept, TokensNext, TokensInvNext, GotNext
<1>3. TokensTypeOK /\ GotInv => ServedOwn
  <2>1. \A i \in Ids : Own(i) \subseteq Made(i)
    BY DEF Own, Made, Early
  <2>2. QED
    BY <2>1 DEF GotInv, ServedOwn, TokensTypeOK
<1>4. QED
  BY <1>1, <1>2, <1>3, PTL DEF TSpec

-----------------------------------------------------------------------------
(* What is handed out connects.  A fetch beside which the portal and the   *)
(* commands have been quiet still finds what it has looked up and read as   *)
(* it was.                                                                  *)
Connects(f) ==
  /\ of[f] # NoRow =>
       /\ token[of[f]] # NoRow
       /\ \E c \in Names : /\ customers[c] # NoRow /\ enabled[c]
                           /\ token[of[f]].row = customers[c].row
                           /\ who[f] \in UserIds(customers[c].row)
  /\ step[f] \in {"burn", "audit"} => got[f] = conf.blk[who[f]]

ConnectInv == \A f \in Fetches : alone[f] /\ Fetching(f) => Connects(f)

LEMMA ConnectStays ==
  ASSUME TypeOK, TokensTypeOK, TokenStep \/ FetchStep, TokensKept, UNCHANGED flags,
         NEW f \in Fetches, alone[f] /\ Fetching(f) => Connects(f),
         alone'[f] = alone[f], Fetching(f), of'[f] = of[f], who'[f] = who[f], got'[f] = got[f],
         step'[f] \in {"burn", "audit"} => step[f] \in {"burn", "audit"}
  PROVE  alone'[f] => Connects(f)'
<1> SUFFICES ASSUME alone[f] PROVE Connects(f)'
  OBVIOUS
<1>1. UNCHANGED <<customers, users, conf, enabled>>
  BY StoresKept DEF tables, gateway, flags
<1>2. of[f] # NoRow => /\ token'[of[f]] # NoRow
                       /\ token'[of[f]].row = token[of[f]].row
  BY DEF Connects, TokensKept, TokensTypeOK
<1>3. QED
  BY <1>1, <1>2 DEF Connects, UserIds

\* Where a fetch stands with what it has found.
LEMMA FetchConnects ==
  ASSUME TypeOK, TokensTypeOK, NEW f \in Fetches, ~Ends(f), NEW k \in Tokens, Fetch(f, k),
         UNCHANGED flags
  PROVE  Connects(f)'
<1>1. /\ Valid(k) /\ \E c \in Names : Holder(k, c)
      /\ step'[f] = "secret" /\ of'[f] = k /\ who'[f] \in UserIds(token[k].row)
      /\ UNCHANGED <<vars, token>>
  BY GoesOn DEF Serves, Move, TokensTypeOK, UserIds
<1>2. PICK c \in Names : Is(customers[c], token[k].row) /\ enabled[c]
  BY <1>1 DEF Holder, MayInstall
<1>3. /\ token'[of'[f]] # NoRow /\ customers'[c] # NoRow /\ enabled'[c]
      /\ token'[of'[f]].row = customers'[c].row
      /\ who'[f] \in UserIds(customers[c].row)'
  BY <1>1, <1>2 DEF Valid, Is, UserIds, vars, tables, flags
<1>4. QED
  BY <1>1, <1>3 DEF Connects

LEMMA ConnectNext ==
  TypeOK /\ TokensTypeOK /\ TokensInv /\ ConnectInv /\ [TNext]_tvars => ConnectInv'
<1> SUFFICES ASSUME TypeOK, TokensTypeOK, TokensInv, ConnectInv, [TNext]_tvars,
                    NEW f \in Fetches, alone'[f], Fetching(f)'
             PROVE  Connects(f)'
  BY DEF ConnectInv
<1>1. TokensKept
  BY TokensStay
<1>2. CASE UNCHANGED tvars
  BY <1>2 DEF tvars, fetchVars, flags, vars, tables, gateway, ConnectInv, Fetching, Connects,
              UserIds
<1>3. CASE PortalStep \/ CommandStep
  BY <1>3 DEF PortalStep, CommandStep, BesideFetches, Fetching
<1>4. CASE TokenStep
  <2>1. UNCHANGED <<fetchVars, flags>>
    BY <1>4 DEF TokenStep, Ask, Insert, Expire, Become
  <2>2. QED
    BY <1>1, <1>4, <2>1, ConnectStays DEF fetchVars, Fetching, ConnectInv
<1>5. CASE FetchStep
  <2>1. UNCHANGED flags
    BY <1>5, EndsOr
  <2>2. PICK g \in Fetches :
          \/ Ends(g)
          \/ (\E k \in Tokens : Fetch(g, k)) /\ ~Ends(g)
          \/ \E c \in Names : Bake(g, c)
          \/ (ReadSecret(g) \/ Burn(g) \/ Answer(g)) /\ ~Ends(g)
    BY <1>5, EndsOr
  <2>3. CASE g # f
    <3>1. /\ step'[f] = step[f] /\ of'[f] = of[f] /\ who'[f] = who[f] /\ got'[f] = got[f]
          /\ alone'[f] = alone[f]
      BY <2>2, <2>3, OthersStay
    <3>2. QED
      BY <1>1, <1>5, <2>1, <3>1, ConnectStays DEF Fetching, ConnectInv
  <2>4. CASE g = f
    <3>1. ~Ends(f)
      BY ForgetGoes DEF Ends
    <3>2. CASE \E k \in Tokens : Fetch(f, k)
      BY <2>1, <3>1, <3>2, FetchConnects
    <3>3. CASE \E c \in Names : Bake(f, c)
      BY <3>3 DEF Bake, Move, TokensInv, TokensTypeOK, Connects
    <3>4. CASE ReadSecret(f)
      <4>1. /\ step[f] = "secret" /\ got'[f] = conf.blk[who[f]]
            /\ UNCHANGED <<vars, token, of, who, alone>>
        BY <3>1, <3>4, GoesOn DEF Move, TokensTypeOK
      <4>2. Connects(f)
        BY <4>1 DEF ConnectInv, Fetching, Over
      <4>3. QED
        BY <2>1, <4>1, <4>2 DEF Connects, UserIds, vars, tables, gateway, flags
    <3>5. CASE Burn(f)
      <4>1. /\ step[f] = "burn" /\ UNCHANGED <<of, who, got, alone>>
        BY <3>1, <3>5, GoesOn DEF Move
      <4>2. QED
        BY <1>1, <1>5, <2>1, <4>1, ConnectStays DEF Fetching, Over, ConnectInv
    <3>6. ~Answer(f)
      BY <3>1, GoesOn DEF Move, Fetching, Over, TokensTypeOK
    <3>7. QED
      BY <2>2, <2>4, <3>1, <3>2, <3>3, <3>4, <3>5, <3>6
  <2>5. QED
    BY <2>3, <2>4
<1>6. QED
  BY <1>2, <1>3, <1>4, <1>5 DEF TNext

\* Only a fetch about to answer gives a password.
LEMMA AnswersFromAudit ==
  ASSUME TypeOK, TokensTypeOK, [TNext]_tvars, NEW f \in Fetches,
         step[f] # "password", step'[f] = "password"
  PROVE  step[f] = "audit"
<1>1. ~(UNCHANGED tvars \/ PortalStep \/ CommandStep \/ TokenStep)
  BY DEF tvars, fetchVars, PortalStep, CommandStep, BesideFetches, TokenStep, Ask, Insert,
         Expire, Become
<1>2. PICK g \in Fetches :
        \/ Ends(g)
        \/ (\E k \in Tokens : Fetch(g, k)) /\ ~Ends(g)
        \/ \E c \in Names : Bake(g, c)
        \/ (ReadSecret(g) \/ Burn(g) \/ Answer(g)) /\ ~Ends(g)
  BY <1>1, EndsOr DEF TNext
<1>3. g = f /\ ~Ends(f)
  BY <1>2, OthersStay, ForgetGoes DEF Ends
<1>4. ~\E c \in Names : Bake(f, c)
  BY DEF Bake, Move, TokensTypeOK
<1>5. QED
  BY <1>2, <1>3, <1>4, GoesOn DEF Move, TokensTypeOK

\* Whatever ran before and whatever else is being fetched, a password that is
\* handed out while the portal is quiet, its stores agree on the identity and
\* no archived customer is enabled is the one that connects, for the customer
\* the token was made for.
THEOREM ServedPasswordConnects == TSpec => ServedConnects
<1> DEFINE Inv == TypeOK /\ OwnInv /\ TokensTypeOK /\ TokensInv
<1>1. TInit => ConnectInv
  BY DEF TInit, ConnectInv
<1>2. Inv /\ ConnectInv /\ [TNext]_tvars => ConnectInv'
  BY ConnectNext
<1>3. ASSUME Inv, ConnectInv, [TNext]_tvars, NEW f \in Fetches,
             step[f] # "password", step'[f] = "password", alone[f], Quiet, Agreed(who[f]),
             \A c \in Names : enabled[c] => Status(c) = "active",
             of[f] # NoRow \/ \E c \in Names : /\ Status(c) = "active"
                                               /\ who[f] \in UserIds(customers[c].row)
      PROVE  \E c \in Names :
               /\ Status(c) = "active" /\ who[f] \in UserIds(customers[c].row)
               /\ of[f] # NoRow => token[of[f]].row = customers[c].row
               /\ got[f] = radcheck[who[f]] /\ got[f] = charon[who[f]]
  <2>1. step[f] = "audit"
    BY <1>3, AnswersFromAudit
  <2>2. Connects(f)
    BY <1>3, <2>1 DEF ConnectInv, Fetching, Over
  <2>3. PICK c \in Names : /\ Status(c) = "active" /\ who[f] \in UserIds(customers[c].row)
                           /\ of[f] # NoRow => token[of[f]].row = customers[c].row
    BY <1>3, <2>2 DEF Connects
  <2>4. QED
    BY <1>3, <2>1, <2>2, <2>3 DEF Connects, Agreed
<1>4. Inv /\ ConnectInv /\ [TNext]_tvars =>
        [\A f \in Fetches :
           /\ step[f] # "password" /\ step'[f] = "password" /\ alone[f] /\ Quiet
           /\ Agreed(who[f]) /\ \A c \in Names : enabled[c] => Status(c) = "active"
           /\ of[f] # NoRow \/ \E c \in Names : /\ Status(c) = "active"
                                                /\ who[f] \in UserIds(customers[c].row)
           => \E c \in Names :
               /\ Status(c) = "active"
               /\ who[f] \in UserIds(customers[c].row)
               /\ of[f] # NoRow => token[of[f]].row = customers[c].row
               /\ got[f] = radcheck[who[f]] /\ got[f] = charon[who[f]]]_tvars
  BY <1>3
<1>5. QED
  BY <1>1, <1>2, <1>4, TokensHold, PTL DEF TSpec, ServedConnects
=============================================================================
