------------------------------ MODULE Accounts ------------------------------
(***************************************************************************)
(* What the portal promises its operator, the four stores put aside: an    *)
(* account has one identity and is active or not, an identity connects     *)
(* with one secret or not at all, and one request is served at a time.  A  *)
(* request works on the account of its customer and hands out each secret  *)
(* once.  It is over only when nobody connects but the active accounts,    *)
(* and all of these, except one whose identity reads like a customer's     *)
(* name: a request for the customer of that name may shut it out, and that *)
(* is all it can do to an account not its own.                             *)
(***************************************************************************)
CONSTANTS Names,    \* the customers
          Ids,      \* the identities an account may have
          Secrets,
          None

VARIABLES account,  \* by customer: None or its identity and whether it is active
          login,    \* by identity: the secret that connects, or None
          served,   \* the customers with a request in progress
          spent     \* the secrets that are not handed out again

avars == <<account, login, served, spent>>

Has(c, i) == account[c] # None /\ account[c].id = i
Active(i) == \E c \in Names : Has(c, i) /\ account[c].active
Settled == \A i \in Ids : /\ login[i] # None => Active(i)
                          /\ Active(i) /\ i \notin Names => login[i] # None
Free(c, i) == \A b \in Names \ {c} : ~Has(b, i)

AInit == /\ \A c \in Names : account[c] # None => account[c].active
         /\ \A c \in Names, i \in Ids : Has(c, i) => Free(c, i)
         /\ \A i \in Ids : login[i] \in spent \union {None}
         /\ Settled /\ served = {}

Begin(c) == /\ served = {} /\ served' = {c}
            /\ UNCHANGED <<account, login, spent>>

\* Refused at the first look; the secret it drew goes with it.
Refuse(s) == /\ served = {} /\ spent' = spent \union {s}
             /\ UNCHANGED <<account, login, served>>

GoOn(c) == served = {c} /\ UNCHANGED <<served, spent>>
HandOut(c, s) == served = {c} /\ spent' = spent \union {s} /\ UNCHANGED served
End(c, s) == /\ served = {c} /\ served' = {}
             /\ spent' = spent \union {s}
             /\ Settled'

SetActive(c, b) == /\ account[c] # None
                   /\ account' = [account EXCEPT ![c].active = b]
                   /\ UNCHANGED login
Drop(c) == account' = [account EXCEPT ![c] = None] /\ UNCHANGED login

\* The identity of the account, or one that nobody has (any more), or the one
\* that is the customer's own name.
Revoke(c, i) == /\ Free(c, i) \/ i = c
                /\ login' = [login EXCEPT ![i] = None]
                /\ UNCHANGED account

Issue(c, s) == /\ account[c] # None /\ account[c].active /\ s \notin spent
               /\ login' = [login EXCEPT ![account[c].id] = s]
               /\ UNCHANGED account
Open(c, i, s) == /\ account[c] = None /\ Free(c, i) /\ s \notin spent
                 /\ account' = [account EXCEPT ![c] = [id |-> i, active |-> TRUE]]
                 /\ login' = [login EXCEPT ![i] = s]

ANext ==
  \/ \E s \in Secrets : Refuse(s)
  \/ \E c \in Names :
       \/ Begin(c)
       \/ GoOn(c) /\ (Drop(c) \/ \E b \in BOOLEAN : SetActive(c, b))
       \/ GoOn(c) /\ \E i \in Ids : Revoke(c, i)
       \/ \E s \in Secrets : HandOut(c, s) /\ Issue(c, s)
       \/ \E s \in Secrets :
            /\ End(c, s)
            /\ \/ UNCHANGED <<account, login>>
               \/ Issue(c, s) \/ \E i \in Ids : Revoke(c, i) \/ Open(c, i, s)

ASpec == AInit /\ [][ANext]_avars
=============================================================================
