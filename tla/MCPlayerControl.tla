-------------------------- MODULE MCPlayerControl --------------------------
(* Lists for TLC: a directory of two files, an m3u file with a name that   *)
(* no branch of the player knows, and an empty directory.                  *)
EXTENDS PlayerControlProps

SomeLists == {<<"mp3", "wav">>, <<"wma">>, <<>>}
=============================================================================
