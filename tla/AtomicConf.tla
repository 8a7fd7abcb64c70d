----------------------------- MODULE AtomicConf -----------------------------
(***************************************************************************)
(* What safe_write_rw_eap.py promises its callers: a write of rw-eap.conf  *)
(* replaces the whole document in one step, happens at most once, and a    *)
(* call that returns normally did replace it.  A call that raises may have *)
(* replaced it or not (the check after the rename may be what failed).     *)
(***************************************************************************)
CONSTANTS Writers,   \* the calls to the two write functions
          Old        \* the document live before any of them

VARIABLES conf,      \* whose document is live
          installed, \* the calls whose document has been live
          told       \* what each call's caller has been told so far

avars == <<conf, installed, told>>

AInit == /\ conf = Old
         /\ installed = {}
         /\ told = [w \in Writers |-> "nothing"]

Replace(w) == /\ told[w] = "nothing" /\ w \notin installed
              /\ conf' = w
              /\ installed' = installed \union {w}
              /\ UNCHANGED told

Return(w) == /\ told[w] = "nothing" /\ w \in installed
             /\ told' = [told EXCEPT ![w] = "ok"]
             /\ UNCHANGED <<conf, installed>>

\* An exception, or the end of the calling process: after the replacement,
\* without it, or as the rename that made it is given up.
Fail(w) == /\ told[w] = "nothing"
           /\ told' = [told EXCEPT ![w] = "error"]
           /\ \/ UNCHANGED <<conf, installed>>
              \/ /\ w \notin installed
                 /\ conf' = w
                 /\ installed' = installed \union {w}

ANext == \E w \in Writers : Replace(w) \/ Return(w) \/ Fail(w)

ASpec == AInit /\ [][ANext]_avars
=============================================================================
