------------------------------ MODULE MCPortal ------------------------------
(* Instances of Portal for TLC. *)
EXTENDS Portal, TLC

CONSTANTS q1, q2, q3, q4

\* Two customers, one's name the beginning of the other's.
Acme == <<"acme">>
AcmeCorp == <<"acme", "corp">>
TwoNames == {Acme, AcmeCorp}
OneName == {Acme}

TwoDevs == {<<"ios">>, <<"mac">>}
\* A device that gives acme the identity acme-corp, which is a name too.
CorpDevs == {<<"ios">>, <<"corp">>}

RequestSymmetry == Permutations(Requests)
=============================================================================
