---------------------------- MODULE MCSafeWrite -----------------------------
(* Instances of SafeWrite for TLC.  quota-monitor is the local writer of    *)
(* the deployment, the portal and the bot are the remote ones.              *)
EXTENDS SafeWrite

CONSTANTS r1, r2, l1, l2

\* Documents of different lengths.
Sizes == [w \in Writers |-> IF w \in {r1, l1} THEN 2 ELSE 1]

\* Every call under one label per kind of caller, as the code has it.
OneLabelPerKind == [w \in Writers |-> IF w \in Remote THEN "portal" ELSE "quotamon"]
=============================================================================
