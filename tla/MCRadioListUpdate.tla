------------------------- MODULE MCRadioListUpdate -------------------------
(* The instance that TLC checks is given by the configuration alone.       *)
EXTENDS RadioListUpdateProps
=============================================================================
