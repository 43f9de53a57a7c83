------------------------- MODULE PlayerControlProps -------------------------
(* What the control of the player must do: the properties checked of       *)
(* PlayerControl.                                                          *)
EXTENDS PlayerControl, FiniteSets

Event == {"EVENT", "PLAY", "INFO", "STOP", "FREEZE"}

(* Every variable has its type.                                            *)
TypeOK ==
  /\ play_list \in Seq(Kind) /\ play_item_current \in Nat
  /\ player_mode \in {"STOP", "FILE", "RADIO"}
  /\ next_step \in {"STOP", "PREV", "NEXT", "SEEK"}
  /\ info_timer \in BOOLEAN /\ is_playing \in BOOLEAN
  /\ ui \in {"loop", "append", "fault"}
  /\ frozen \in {"no", "posted", "yes"}
  /\ ui_mq \in Seq(Event) /\ Len(ui_mq) <= UiSlots
  /\ mq \in Seq(Kind)
  /\ player \in {"recv", "connect", "play"} /\ item \in Kind \cup {"none"}
  /\ lost \in BOOLEAN

\* How often event is in the queue.
Pending(event) == Cardinality({i \in 1 .. Len(ui_mq) : ui_mq[i] = event})

\* The requests on their way, the item being played, the reports on theirs.
Outstanding ==
  Len(mq) + (IF player = "recv" THEN 0 ELSE 1) + Pending("STOP")

(* The UI's mode tells the truth about the other thread: in STOP nothing   *)
(* is requested, played or still to be reported; in the other modes        *)
(* exactly one item is - or none any more, once a report is lost - however *)
(* stops, choices and natural ends meet.                                   *)
(* (player_ui.c:320-327, 711, 728-734; player_bg.c:63-101)                 *)
ModeExact ==
  Outstanding = IF player_mode = "STOP" \/ lost THEN 0 ELSE 1

(* With nothing to play the position is not drawn, now or by a report that *)
(* is still queued, as long as the UI has not followed an item that does   *)
(* not exist.  (player_ui.c:697-700, 728-734)                              *)
QuietAtRest ==
  ui # "fault" /\ player_mode = "STOP" => ~ info_timer /\ Pending("PLAY") = 0

(* The index is changed by six functions and the list is replaced by       *)
(* three, one of which - an empty directory - leaves the index behind.  It *)
(* never outlives the list that comes next: where there is a list, it is   *)
(* one of the list's; and the UI follows it to an item that does not exist *)
(* only where there is none.                                               *)
(* (play_list.c:17-131, player_ui.c:248-313, 386-410, 450-479, 713-727)    *)
CurrentInList ==
  /\ play_list # <<>> => play_item_current < Len(play_list)
  /\ ui = "fault" => play_list = <<>>

(* A user who asked for a stop gets one - the mode is STOP some time later *)
(* - unless he asks for something else or the report of the item's end is  *)
(* lost: no start of the player overwrites his wish.                       *)
(* (player_ui.c:260-265, 378-384; player_bg.c:40-43, 63-101)               *)
StopWorks ==
  (next_step = "STOP" /\ player_mode # "STOP")
    ~> (player_mode = "STOP" \/ next_step # "STOP" \/ lost)
=============================================================================
