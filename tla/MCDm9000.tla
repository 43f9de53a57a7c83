----------------------------- MODULE MCDm9000 -----------------------------
(* The instance that TLC checks is given by the configurations alone.      *)
EXTENDS Dm9000Props
=============================================================================
