----------------------------- MODULE MCSockets -----------------------------
(* The instance that TLC checks is given by the configurations alone.      *)
EXTENDS SocketsProps
=============================================================================
