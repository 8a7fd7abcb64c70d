-------------------------- MODULE InstallerTokens ---------------------------
(***************************************************************************)
(* installer_tokens.py beside the requests of Portal: an operator's        *)
(* request makes a token for a customer, and whoever has the token fetches *)
(* the customer's password with it, which is read from rw-eap.conf at that *)
(* moment.  A "hostile" installer carries the password without a token.    *)
(* A fetch is a few reads of the tables, an ssh round trip, the UPDATE     *)
(* that burns the token and an INSERT into the audit log, and Portal's     *)
(* requests and other fetches run between them.  Who may fetch is a matter *)
(* of is_active, in two tables, which is not customers.status: archiving   *)
(* sets both, the bot's /disable, /enable and /renew only one of them.     *)
(***************************************************************************)
EXTENDS Portal

CONSTANTS Tokens,  \* the tokens of a run
          Fetches  \* the calls that may be answered with a password

TokenRows == [row : Rows, state : {"asked", "valid", "expired", "burnt"}]

ASSUME TokensAssumption == NoRow \notin Tokens \union TokenRows

VARIABLES
  enabled, \* customers.is_active, by name
  inUse,   \* devices.is_active, by customer
  token, \* by token: NoRow or the row id of its customer and its state
  step,  \* where each fetch is
  of,    \* the token it was called with, NoRow for a hostile installer
  who,   \* the identity it looked up
  got,   \* the password it read
  late,  \* history: its token was expired or had been answered before
  alone  \* history: no request or command has run beside it, which is going on

fetchVars == <<step, of, who, got, late, alone>>
flags == <<enabled, inUse>>
tvars == <<vars, flags, token, fetchVars>>

Nobody == CHOOSE i \in Ids : TRUE
Over == {"password", "nothing"}
Fetching(f) == step[f] \notin Over \union {"idle"}

TInit ==
  /\ Init
  /\ enabled = [c \in Names |-> customers[c] # NoRow] /\ inUse = enabled
  /\ token = [k \in Tokens |-> NoRow]
  /\ step = [f \in Fetches |-> "idle"]
  /\ of = [f \in Fetches |-> NoRow]
  /\ who = [f \in Fetches |-> Nobody]
  /\ got = [f \in Fetches |-> NoRow]
  /\ late = [f \in Fetches |-> FALSE]
  /\ alone = [f \in Fetches |-> FALSE]

-----------------------------------------------------------------------------
(* create_installer_token *)

\* The customer and its device are there, and is_active.
MayInstall(c) == Is(devices[c], RowOf(customers[c])) /\ enabled[c] /\ inUse[c]

Ask(k, c) ==
  /\ token[k] = NoRow /\ MayInstall(c)
  /\ token' = [token EXCEPT ![k] = [row |-> customers[c].row, state |-> "asked"]]
  /\ UNCHANGED <<vars, flags, fetchVars>>

Become(k, from, to) ==
  /\ token[k] # NoRow /\ token[k].state = from
  /\ token' = [token EXCEPT ![k].state = to]
  /\ UNCHANGED <<vars, flags, fetchVars>>

Insert(k) == Become(k, "asked", "valid")

\* The second after expires_at has come.
Expire(k) == Become(k, "valid", "expired")

-----------------------------------------------------------------------------
Move(f, from, to) == step[f] = from /\ step' = [step EXCEPT ![f] = to]

\* The call is over without a password, and what it knew is gone.
Forget(f, from) ==
  /\ Move(f, from, "nothing")
  /\ of' = [of EXCEPT ![f] = NoRow] /\ who' = [who EXCEPT ![f] = Nobody]
  /\ got' = [got EXCEPT ![f] = NoRow]
  /\ late' = [late EXCEPT ![f] = FALSE] /\ alone' = [alone EXCEPT ![f] = FALSE]

\* A read or a statement that raises.
NoAnswer(f, from) ==
  /\ Fault /\ Forget(f, from)
  /\ UNCHANGED <<tables, gateway, at, locals, flags, token>>

\* Mutant of Valid: the row is looked for, and nothing else.
Found(k) == token[k] # NoRow /\ token[k].state # "asked"

Valid(k) == token[k] # NoRow /\ token[k].state = "valid"

\* Mutant of Holder: the token's customer need not be active.
HolderAnyStatus(k, c) == Is(customers[c], token[k].row) /\ Is(devices[c], token[k].row)

Holder(k, c) == Is(customers[c], token[k].row) /\ MayInstall(c)

\* consume_installer_token: the token, its customer, the device and the users
\* row are looked up; a fetch that finds one of them missing is refused.
Serves(k) == Valid(k) /\ (\E c \in Names : Holder(k, c)) /\ UserIds(token[k].row) # {}

Fetch(f, k) ==
  \/ /\ Serves(k)
     /\ Move(f, "idle", "secret")
     /\ \E i \in UserIds(token[k].row) : who' = [who EXCEPT ![f] = i]
     /\ of' = [of EXCEPT ![f] = k]
     /\ late' = [late EXCEPT ![f] =
                   \/ token[k].state = "expired"
                   \/ \E g \in Fetches : of[g] = k /\ step[g] = "password"]
     /\ alone' = [alone EXCEPT ![f] = Quiet]
     /\ UNCHANGED <<vars, flags, token, got>>
  \/ /\ ~Serves(k)
     /\ Forget(f, "idle")
     /\ UNCHANGED <<vars, flags, token>>
  \/ NoAnswer(f, "idle")

\* Mutant of Bake: the identity is the customer's name.
BakeBareName(f, c) ==
  /\ MayInstall(c)
  /\ Move(f, "idle", "secret")
  /\ who' = [who EXCEPT ![f] = c]
  /\ alone' = [alone EXCEPT ![f] = Quiet]
  /\ UNCHANGED <<vars, flags, token, of, got, late>>

\* mode=hostile: the identity is made of the names, no token is involved.
Bake(f, c) ==
  /\ MayInstall(c)
  /\ Move(f, "idle", "secret")
  /\ who' = [who EXCEPT ![f] = Identity(c, devices[c].name)]
  /\ alone' = [alone EXCEPT ![f] = Quiet]
  /\ UNCHANGED <<vars, flags, token, of, got, late>>

\* _read_eap_secret_from_conf: an unreadable file and a missing block are
\* both answered with an error.
ReadSecret(f) ==
  LET s == conf.blk[who[f]] IN
  \/ /\ s # NoRow
     /\ Move(f, "secret", IF of[f] = NoRow THEN "audit" ELSE "burn")
     /\ got' = [got EXCEPT ![f] = s]
     /\ UNCHANGED <<vars, flags, token, of, who, late, alone>>
  \/ /\ s = NoRow
     /\ Forget(f, "secret")
     /\ UNCHANGED <<vars, flags, token>>
  \/ NoAnswer(f, "secret")

\* The UPDATE of consumed_at, which does not ask whether it is NULL still.
Burn(f) ==
  \/ /\ Move(f, "burn", "audit")
     /\ token' = [token EXCEPT ![of[f]].state = "burnt"]
     /\ UNCHANGED <<vars, flags, of, who, got, late, alone>>
  \/ NoAnswer(f, "burn")

\* The audit row, and the response.
Answer(f) ==
  \/ /\ Move(f, "audit", "password")
     /\ alone' = [alone EXCEPT ![f] = FALSE]
     /\ UNCHANGED <<vars, flags, token, of, who, got, late>>
  \/ NoAnswer(f, "audit")

\* The worker is killed before it has answered.
Kill(f) ==
  /\ crashes < MaxCrashes /\ Fetching(f)
  /\ crashes' = crashes + 1
  /\ Forget(f, step[f])
  /\ UNCHANGED <<tables, gateway, at, locals, faults, flags, token>>

-----------------------------------------------------------------------------
(* Portal's requests, and what else changes the two flags or the status.   *)

BesideFetches ==
  /\ alone' = [f \in Fetches |-> alone[f] /\ ~Fetching(f)]
  /\ UNCHANGED <<token, step, of, who, got, late>>

\* A request about the customer makes this step.
Does(c, from, to) == \E w \in Requests : cust[w] = c /\ at[w] = from /\ at'[w] = to
DoesToRow(c, from, to) ==
  \E w \in Requests : /\ cust[w] = c /\ at[w] = from /\ at'[w] = to
                       /\ Is(customers[c], row[w])

Created(c) == Does(c, "create.commit", "ok")

PortalStep ==
  /\ Next
  /\ enabled' = [c \in Names |->
       \/ Created(c) \/ DoesToRow(c, "unarchive.status", "unarchive.device")
       \/ enabled[c] /\ ~DoesToRow(c, "archive.status", "archive.device")]
  /\ inUse' = [c \in Names |-> inUse[c] \/ Created(c)]
  /\ BesideFetches

\* /disable and /enable, which look at nothing.  (A command that finds what it
\* sets is no step, here and below.)
Switch(c, b) ==
  /\ customers[c] # NoRow /\ enabled[c] # b
  /\ enabled' = [enabled EXCEPT ![c] = b]
  /\ UNCHANGED <<vars, inUse>>

\* update_device, of is_active.
SwitchDevice(c, b) ==
  /\ devices[c] # NoRow /\ inUse[c] # b
  /\ inUse' = [inUse EXCEPT ![c] = b]
  /\ UNCHANGED <<vars, enabled>>

\* /renew: the status, not the flag; no radcheck row has the mark it looks for.
Renew(c) ==
  /\ Is(devices[c], RowOf(customers[c])) /\ inUse[c] /\ Status(c) # "active"
  /\ customers' = [customers EXCEPT ![c].status = "active"]
  /\ UNCHANGED <<users, devices, radcheck, gateway, at, locals, bounds, flags>>

CommandStep ==
  /\ \E c \in Names : Renew(c) \/ \E b \in BOOLEAN : Switch(c, b) \/ SwitchDevice(c, b)
  /\ BesideFetches

TokenStep == \E k \in Tokens : Insert(k) \/ Expire(k) \/ \E c \in Names : Ask(k, c)

FetchStep ==
  \E f \in Fetches :
    \/ \E k \in Tokens : Fetch(f, k)
    \/ \E c \in Names : Bake(f, c)
    \/ ReadSecret(f) \/ Burn(f) \/ Answer(f) \/ Kill(f)

TNext == PortalStep \/ CommandStep \/ TokenStep \/ FetchStep
TSpec == TInit /\ [][TNext]_tvars
-----------------------------------------------------------------------------
\* The types of what this module adds, and what a fetch at each point has.
TokensTypeOK ==
  /\ enabled \in [Names -> BOOLEAN] /\ inUse \in [Names -> BOOLEAN]
  /\ token \in [Tokens -> {NoRow} \union TokenRows]
  /\ step \in [Fetches -> {"idle", "secret", "burn", "audit"} \union Over]
  /\ of \in [Fetches -> Tokens \union {NoRow}]
  /\ who \in [Fetches -> Ids]
  /\ got \in [Fetches -> Secrets \union {NoRow}]
  /\ late \in [Fetches -> BOOLEAN] /\ alone \in [Fetches -> BOOLEAN]

\* "Single-use ... Time-bounded": once a token has expired or somebody has
\* been answered with its password, a fetch that begins after that gets
\* nothing, whatever fails in it or in others, and whichever worker serves it.
SpentServesNobody == \A f \in Fetches : late[f] => step[f] # "password"

\* A password that is handed out connects, although the token may have been
\* made before any number of rotations: if the stores agree on the identity, no
\* archived customer is enabled and no request or command ran beside the fetch,
\* it is the present secret of a customer who is active now, and a token's
\* password is that of the customer it was made for.  Of a hostile installer
\* this holds as long as the identity it makes of the names is still an active
\* customer's, which a rename of the device may end.
ServedConnects ==
  [][\A f \in Fetches :
       /\ step[f] # "password" /\ step'[f] = "password" /\ alone[f] /\ Quiet
       /\ Agreed(who[f]) /\ \A c \in Names : enabled[c] => Status(c) = "active"
       /\ of[f] # NoRow \/ \E c \in Names : /\ Status(c) = "active"
                                            /\ who[f] \in UserIds(customers[c].row)
       => \E c \in Names :
           /\ Status(c) = "active"
           /\ who[f] \in UserIds(customers[c].row)
           /\ of[f] # NoRow => token[of[f]].row = customers[c].row
           /\ got[f] = radcheck[who[f]] /\ got[f] = charon[who[f]]]_tvars

\* "Bound to customer", as far as it goes with requests interleaving: the
\* password of a fetch is one that was generated for the identity it looked up.
ServedOwn == \A f \in Fetches : step[f] = "password" => got[f] \in Made(who[f])

\* "plain-text, only returned ONCE"
ServedOnce ==
  \A f, g \in Fetches :
    f # g /\ of[f] = of[g] /\ of[f] # NoRow
      => ~(step[f] = "password" /\ step[g] = "password")
=============================================================================
