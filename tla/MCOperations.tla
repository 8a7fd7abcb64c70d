---------------------------- MODULE MCOperations ----------------------------
(* Instances of Operations for TLC. *)
EXTENDS Operations, TLC

CONSTANTS q1, q2, q3, q4

\* Two customers, one's name the beginning of the other's.
Acme == <<"acme">>
AcmeCorp == <<"acme", "corp">>
TwoNames == {Acme, AcmeCorp}
OneName == {Acme}

OneDev == {<<"ios">>}
TwoDevs == {<<"ios">>, <<"mac">>}
\* The device that /renew_orphan sees in the identity acme-corp-ios too.
CorpDevs == {<<"ios">>, <<"corp", "ios">>}

RequestSymmetry == Permutations(Requests)
=============================================================================
