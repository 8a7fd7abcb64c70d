--------------------------- MODULE MCCreateWizard ---------------------------
(* Instances of CreateWizard for TLC. *)
EXTENDS CreateWizard

FourPickers == <<"duration", "cap", "speed", "device">>
NoDuration == {"duration"}
=============================================================================
