--------------------------- MODULE PlayerControl ---------------------------
(***************************************************************************)
(* Who plays what: the user interface (player_ui.c, thread ply_ui), which  *)
(* owns the play list (play_list.c) and the player's mode, and the player  *)
(* thread (player_bg.c, with the loops of mp3.c and wav.c).  The UI starts *)
(* an item with a message of the queue "player" and stops it by clearing   *)
(* is_playing; the player reports through the UI's event queue, which has  *)
(* four places and which keys, touches and timers fill as well.            *)
(*                                                                         *)
(* Atomicity.  The player (priority 13) runs before the UI (priority 25):  *)
(* what it does between two waits is one step, and the UI moves only while *)
(* it waits.  The UI can be left at any of its accesses of what both share.*)
(***************************************************************************)
EXTENDS Integers, Sequences

CONSTANTS
  UiSlots,   \* places in the UI's event queue
  Kind,      \* what an item of a list may be
  Lists      \* the lists a directory or an m3u file may give

ASSUME SlotsAssumption == UiSlots \in Nat \ {0}
ASSUME KindAssumption ==
  "radio" \in Kind /\ Kind \subseteq {"mp3", "wav", "radio", "wma"}
ASSUME ListsAssumption == Lists \subseteq Seq(Kind)

VARIABLES
  play_list, play_item_current,
  player_mode, next_step,
  info_timer,    \* the timer that draws the position is running
  ui,            \* what the UI thread does
  frozen,        \* the USB cable: "no", "posted" to the queue, "yes"
  ui_mq,         \* the event queue of ply_ui
  mq,            \* the queue "player" of requests
  is_playing,
  player,        \* where the player thread waits
  item,          \* what it plays
  lost           \* history: an item was never reported as ended

list == <<play_list, play_item_current>>
vars == <<play_list, play_item_current, player_mode, next_step, info_timer,
          ui, frozen, ui_mq, mq, is_playing, player, item, lost>>

-----------------------------------------------------------------------------
(* Plausible faults, each in the place of the definition of its idea.      *)

FaultSend(q, event) ==   \* a full queue is not refused
  Append(q, event)
FaultBusy ==             \* play_item does not look at the mode
  FALSE
FaultStart ==            \* play_list_start leaves the index as it is
  play_item_current
FaultQuiet ==            \* the timer is left running when nothing follows
  UNCHANGED info_timer
FaultPlayerFirst ==      \* the UI need not wait for the player
  TRUE

Init ==
  /\ play_list = <<>> /\ play_item_current = 0
  /\ player_mode = "STOP" /\ next_step = "STOP" /\ info_timer = FALSE
  /\ ui = "loop" /\ frozen = "no" /\ ui_mq = <<>>
  /\ mq = <<>> /\ is_playing = FALSE /\ player = "recv" /\ item = "none"
  /\ lost = FALSE

-----------------------------------------------------------------------------
(* The UI's event queue: rtgui_thread_send, whose result nobody looks at.  *)

Send(q, event) == IF Len(q) < UiSlots THEN Append(q, event) ELSE q

\* Keys, touches, paintings and timers.
PostEvent ==
  /\ ui_mq' = Send(ui_mq, "EVENT") /\ ui_mq' # ui_mq
  /\ UNCHANGED <<list, player_mode, next_step, info_timer, ui, frozen,
                 mq, is_playing, player, item, lost>>

\* The host computer has begun to use the cable.
player_ui_freeze ==
  /\ frozen = "no"
  /\ ui_mq' = Send(ui_mq, "FREEZE")
  /\ frozen' = "posted"
  /\ UNCHANGED <<list, player_mode, next_step, info_timer, ui, mq, is_playing,
                 player, item, lost>>

-----------------------------------------------------------------------------
(* The play list.                                                          *)

NextIndex(i) == IF i < Len(play_list) - 1 THEN i + 1 ELSE 0
PrevIndex(i) == IF i > 0 THEN i - 1 ELSE Len(play_list) - 1

\* Item 0 of no list is the null pointer, another one points nowhere.
NoItem == play_list = <<>> /\ play_item_current = 0
WildItem == play_item_current >= Len(play_list) /\ ~ NoItem
play_list_current == play_list[play_item_current + 1]

play_list_start == 0

-----------------------------------------------------------------------------
(* The player thread.                                                      *)

PlayerReady == player = "recv" /\ mq # <<>>

\* Its priority is the higher one: the UI runs once it waits for a request.
PlayerFirst == ~ PlayerReady
UiOnly == <<list, player_mode, next_step, info_timer, ui, frozen>>

\* A file: the player opens it.
ReceiveFile ==
  /\ PlayerReady /\ Head(mq) \in {"mp3", "wav"}
  /\ mq' = Tail(mq)
  /\ item' = Head(mq)
  /\ is_playing' = TRUE
  /\ ui_mq' = Send(ui_mq, "PLAY")
  /\ player' = "play"
  /\ UNCHANGED <<UiOnly, lost>>

\* A station, or a channel of douban: the player connects.
ReceiveRadio ==
  /\ PlayerReady /\ Head(mq) = "radio"
  /\ mq' = Tail(mq)
  /\ item' = Head(mq)
  /\ is_playing' = TRUE
  /\ ui_mq' = Send(Send(ui_mq, "PLAY"), "INFO")
  /\ player' = "connect"
  /\ UNCHANGED <<UiOnly, lost>>

\* Any other name: no branch for it.
ReceiveOther ==
  /\ PlayerReady /\ Head(mq) = "wma"
  /\ mq' = Tail(mq)
  /\ lost' = TRUE
  /\ UNCHANGED <<UiOnly, ui_mq, is_playing, player, item>>

Connected ==
  /\ player = "connect"
  /\ ui_mq' = Send(Send(ui_mq, "INFO"), "INFO")
  /\ player' = "play"
  /\ UNCHANGED <<UiOnly, mq, is_playing, item, lost>>

\* The net buffer is empty, or full enough again.
player_set_buffer_status ==
  /\ player = "play" /\ item = "radio"
  /\ ui_mq' = Send(ui_mq, "INFO") /\ ui_mq' # ui_mq
  /\ UNCHANGED <<UiOnly, mq, is_playing, player, item, lost>>

player_notify_stop ==
  /\ ui_mq' = Send(ui_mq, "STOP")
  /\ is_playing' = FALSE
  /\ player' = "recv" /\ item' = "none"
  /\ lost' = (lost \/ Len(ui_mq) = UiSlots)
  /\ UNCHANGED <<UiOnly, mq>>

ConnectFailed == player = "connect" /\ player_notify_stop

\* The end of the file or of the stream, or an error.
EndOfData == player = "play" /\ player_notify_stop

\* mp3_decoder_run looks at is_playing, wav does not.
Noticed == ~ is_playing /\ item # "wav"
DecoderStops == player = "play" /\ Noticed /\ player_notify_stop

Player ==
  \/ ReceiveFile \/ ReceiveRadio \/ ReceiveOther
  \/ Connected \/ ConnectFailed \/ player_set_buffer_status
  \/ EndOfData \/ DecoderStops

-----------------------------------------------------------------------------
(* The UI thread.                                                          *)

MayRun == ui = "loop" /\ PlayerFirst
PlayerOnly == <<player, item, lost>>

Take(event) ==
  /\ MayRun
  /\ ui_mq # <<>> /\ Head(ui_mq) = event
  /\ ui_mq' = Tail(ui_mq)

player_stop_req(step) ==
  /\ next_step' = step
  /\ is_playing' = FALSE
  /\ UNCHANGED <<player_mode, mq>>

Mode(kind) == IF kind = "radio" THEN "RADIO" ELSE "FILE"

Request(kind) ==
  /\ player_mode' = Mode(kind)
  /\ mq' = Append(mq, kind)
  /\ next_step' = "NEXT"
  /\ UNCHANGED is_playing

Busy == player_mode # "STOP"

player_play_item(kind) ==
  \/ Busy /\ player_stop_req("SEEK")
  \/ ~ Busy /\ Request(kind)

\* The item to play does not exist: what the UI does then is not modelled.
Fault ==
  /\ ui' = "fault"
  /\ UNCHANGED <<list, next_step, mq, is_playing>>

\* The button in the middle, or the current item of the list box.
PlayOrStop ==
  \/ Busy /\ player_stop_req("STOP") /\ UNCHANGED <<list, ui>>
  \/ /\ ~ Busy
     /\ \/ NoItem /\ UNCHANGED <<list, ui, player_mode, next_step, mq, is_playing>>
        \/ WildItem /\ Fault /\ UNCHANGED player_mode
        \/ /\ ~ NoItem /\ ~ WildItem
           /\ Request(play_list_current)
           /\ UNCHANGED <<list, ui>>

SkipButton ==
  /\ \E step \in {"NEXT", "PREV"} : player_stop_req(step)
  /\ UNCHANGED <<list, ui>>

\* Another item of the list box.
player_play_list_onitem ==
  \E i \in 0 .. Len(play_list) - 1 :
    /\ i # play_item_current
    /\ play_item_current' = i
    /\ player_play_item(play_list[i + 1])
    /\ UNCHANGED <<play_list, ui>>

\* A station or a channel becomes the whole list.  Without a list of stations
\* the old list is started again, even if there is none.
function_play_radio ==
  \/ /\ play_list' = <<"radio">> /\ play_item_current' = play_list_start
     /\ player_play_item("radio")
     /\ UNCHANGED ui
  \/ /\ play_list # <<>>
     /\ play_item_current' = play_list_start
     /\ player_play_item(Head(play_list))
     /\ UNCHANGED <<play_list, ui>>
  \/ /\ play_list = <<>> /\ ~ Busy /\ Fault /\ UNCHANGED player_mode
  \/ /\ play_list = <<>> /\ Busy /\ player_stop_req("SEEK")
     /\ UNCHANGED <<list, ui>>

\* A directory or a file is chosen: "stop playing" ...
function_filelist ==
  /\ player_stop_req("STOP")
  /\ ui' = "append"
  /\ UNCHANGED list

UserActs ==
  \/ PlayOrStop \/ SkipButton \/ player_play_list_onitem
  \/ function_play_radio \/ function_filelist

\* While the cable is in use the modal view keeps the user's events.
HandleEvent ==
  /\ Take("EVENT")
  /\ \/ frozen # "yes" /\ UserActs
     \/ UNCHANGED <<list, player_mode, next_step, ui, mq, is_playing>>
  /\ UNCHANGED <<info_timer, frozen, PlayerOnly>>

\* ... the new list is read, which takes the tags of every file, and started
\* if it has an item.  A directory or an m3u file that cannot be opened leaves
\* the old list, which is started again; a file of an unknown type leaves all.
AppendFiles ==
  /\ ui = "append" /\ PlayerFirst
  /\ ui' = "loop"
  /\ \/ /\ play_list' \in Lists \cup {play_list}
        /\ \/ /\ play_list' # <<>>
              /\ play_item_current' = play_list_start
              /\ player_play_item(Head(play_list'))
           \/ /\ play_list' = <<>>
              /\ UNCHANGED <<play_item_current, player_mode, next_step, mq,
                             is_playing>>
     \/ UNCHANGED <<list, player_mode, next_step, mq, is_playing>>
  /\ UNCHANGED <<info_timer, frozen, ui_mq, PlayerOnly>>

HandlePlay ==
  /\ Take("PLAY")
  /\ info_timer' = TRUE
  /\ UNCHANGED <<list, player_mode, next_step, ui, frozen, mq, is_playing,
                 PlayerOnly>>

HandleInfo ==
  /\ Take("INFO")
  /\ UNCHANGED <<list, player_mode, next_step, info_timer, ui, frozen, mq,
                 is_playing, PlayerOnly>>

\* What follows the item that has ended.
Step == IF player_mode = "RADIO" THEN "STOP" ELSE next_step

Quiet == info_timer' = FALSE

Follow ==
  /\ Step \in {"NEXT", "PREV", "SEEK"} /\ play_list # <<>>
  /\ play_item_current' = CASE Step = "NEXT" -> NextIndex(play_item_current)
                            [] Step = "PREV" -> PrevIndex(play_item_current)
                            [] Step = "SEEK" -> play_item_current
  /\ play_item_current' < Len(play_list)
  /\ Request(play_list[play_item_current' + 1])
  /\ UNCHANGED <<play_list, info_timer, ui>>

Rest ==
  /\ Step = "STOP" \/ (play_list = <<>> /\ (Step = "SEEK" => NoItem))
  /\ player_mode' = "STOP" /\ next_step' = Step
  /\ Quiet
  /\ UNCHANGED <<list, ui, mq, is_playing>>

HandleStop ==
  /\ Take("STOP")
  /\ \/ Follow
     \/ Rest
     \/ /\ Step = "SEEK" /\ WildItem
        /\ player_mode' = "STOP"
        /\ Fault /\ UNCHANGED info_timer
  /\ UNCHANGED <<frozen, PlayerOnly>>

HandleFreeze ==
  /\ Take("FREEZE")
  /\ frozen' = "yes"
  /\ IF is_playing THEN player_stop_req("STOP")
                   ELSE UNCHANGED <<player_mode, next_step, mq, is_playing>>
  /\ UNCHANGED <<list, info_timer, ui, PlayerOnly>>

Ui ==
  \/ HandleEvent \/ HandlePlay \/ HandleInfo \/ HandleStop \/ HandleFreeze
  \/ AppendFiles

Next == Player \/ Ui \/ PostEvent \/ player_ui_freeze

Spec == Init /\ [][Next]_vars

\* Every thread runs when it can; a connection is made or refused, and a wav
\* file, which nothing else stops, comes to its end.
Fairness ==
  /\ WF_vars(Ui)
  /\ WF_vars(ReceiveFile \/ ReceiveRadio \/ ReceiveOther)
  /\ WF_vars(Connected \/ ConnectFailed)
  /\ WF_vars(DecoderStops)
  /\ WF_vars(EndOfData /\ item = "wav")

FairSpec == Spec /\ Fairness
=============================================================================
