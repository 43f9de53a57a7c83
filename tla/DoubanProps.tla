---------------------------- MODULE DoubanProps ----------------------------
(* What the radio must do: the properties checked of Douban.               *)
EXTENDS Douban

(* Every variable has its type.                                            *)
TypeOK ==
  /\ radio \in BOOLEAN /\ session \in BOOLEAN /\ reading \in BOOLEAN
  /\ over \in BOOLEAN /\ halted \in BOOLEAN
  /\ items \in [Song -> {"null", "live", "freed"}]
  /\ size \in 0 .. DOUBAN_SONG_MAX /\ current \in 0 .. DOUBAN_SONG_MAX
  /\ sessions \in Nat /\ length \in 0 .. Room

(* The url that the loop opens, or plays from, is a string of the present  *)
(* list that is still in use: after a list that failed to load, too, whose *)
(* old items keep their pointers and their number.                         *)
(* (douban_radio.c:141-145, 155, 161-165, 178-182, 236-242, 279)           *)
LiveUrl ==
  reading /\ ~ halted => current < size /\ items[current + 1] = "live"

\* A radio that is gone has left no string on the heap, however its lists
\* grew, shrank or failed; one that is there owns those of its songs only.
NoLeak ==
  \A i \in Song : items[i] = "live" => radio /\ i <= size

\* The session that is open is the current song's: none is left behind by
\* a song that ends, a link that fails, a new list or the end of the job.
OneSession == sessions = IF session THEN 1 ELSE 0

(* Strings and sessions belong to a radio that is there, and only to its   *)
(* songs: none is left by lists that grow, shrink or fail, by songs that   *)
(* end and links that fail, or by the end of the job.                      *)
(* (douban_radio.c:150-183, 206-217, 236-242, 279-280)                     *)
GivenBack == NoLeak /\ OneSession

(* A call returns, although it passes over songs that end at once and      *)
(* links that fail: only between two calls is the radio stopped.           *)
(* (douban_radio.c:148-189)                                                *)
ReadReturns == reading ~> (~ reading \/ halted)

-----------------------------------------------------------------------------
(* The inductive invariant behind the safety properties.                   *)

\* A call is in its loop with a radio, a song of the list and room for it.
InList == reading /\ ~ halted => radio /\ current < size /\ length > 0

\* The list up to size is in use, unless the radio has come to its end.
LiveList ==
  radio /\ ~ halted /\ current < size =>
    \A i \in 1 .. size : items[i] = "live"

\* A session belongs to a radio.
NoneWithout == ~ radio => ~ session

IInv == TypeOK /\ NoLeak /\ OneSession /\ InList /\ LiveList /\ NoneWithout
=============================================================================
