------------------------- MODULE MCInstallerTokens --------------------------
(* Instances of InstallerTokens for TLC. *)
EXTENDS InstallerTokens, TLC

CONSTANTS q1, q2, f1, f2

OneName == {<<"acme">>}
TwoDevs == {<<"ios">>, <<"mac">>}

\* Bound: one statement or command fails, or one process is killed.
OneFailure == faults + crashes <= 1

TokenSymmetry == Permutations(Requests) \union Permutations(Fetches)
=============================================================================
