------------------------ MODULE PlayerControlProofs ------------------------
(* Types and the list's index, for every queue, list and kind of item.     *)
EXTENDS PlayerControlProps, SequenceTheorems, FiniteSetTheorems, TLAPS

(* The events' queue takes an event or refuses it: its types and its limit *)
(* are kept.  (rtgui_thread_send)                                          *)
LEMMA SendType ==
  ASSUME NEW q \in Seq(Event), Len(q) <= UiSlots, NEW event \in Event
  PROVE  Send(q, event) \in Seq(Event) /\ Len(Send(q, event)) <= UiSlots
BY SlotsAssumption DEF SlotsAssumption, Send

(* What is left of a queue after its first element was taken.  (rt_mq_recv)*)
LEMMA TailType ==
  ASSUME NEW S, NEW q \in Seq(S), q # <<>>
  PROVE  /\ Head(q) \in S /\ Tail(q) \in Seq(S)
         /\ Len(Tail(q)) <= Len(q)
BY HeadTailProperties

(* What a request writes.  (player_play_file, player_play_url)             *)
LEMMA RequestType ==
  ASSUME TypeOK, NEW kind \in Kind, Request(kind)
  PROVE  /\ player_mode' \in {"STOP", "FILE", "RADIO"}
         /\ next_step' \in {"STOP", "PREV", "NEXT", "SEEK"}
         /\ is_playing' \in BOOLEAN /\ mq' \in Seq(Kind)
BY DEF TypeOK, Request, Mode

(* What a stop writes.  (player_stop_req)                                  *)
LEMMA StopType ==
  ASSUME TypeOK, NEW step \in {"STOP", "PREV", "NEXT", "SEEK"},
         player_stop_req(step)
  PROVE  /\ player_mode' \in {"STOP", "FILE", "RADIO"}
         /\ next_step' \in {"STOP", "PREV", "NEXT", "SEEK"}
         /\ is_playing' \in BOOLEAN /\ mq' \in Seq(Kind)
BY DEF TypeOK, player_stop_req

(* What the choice of an item writes.  (player_play_item)                  *)
LEMMA PlayItemType ==
  ASSUME TypeOK, NEW kind \in Kind, player_play_item(kind)
  PROVE  /\ player_mode' \in {"STOP", "FILE", "RADIO"}
         /\ next_step' \in {"STOP", "PREV", "NEXT", "SEEK"}
         /\ is_playing' \in BOOLEAN /\ mq' \in Seq(Kind)
BY RequestType, StopType DEF player_play_item

\* The variables that the user's actions may change.
UserType ==
  /\ play_list \in Seq(Kind) /\ play_item_current \in Nat
  /\ player_mode \in {"STOP", "FILE", "RADIO"}
  /\ next_step \in {"STOP", "PREV", "NEXT", "SEEK"}
  /\ is_playing \in BOOLEAN /\ mq \in Seq(Kind)
  /\ ui \in {"loop", "append", "fault"}

(* A list made of one item is a list, and so is its only item a kind.      *)
LEMMA OneItem == <<"radio">> \in Seq(Kind)
BY KindAssumption DEF KindAssumption

(* Whatever the user does keeps the types.  (player_ui.c:232-479)          *)
LEMMA UserActsType == ASSUME TypeOK, UserActs PROVE UserType'
<1> USE DEF list
<1>t. UserType
  BY DEF TypeOK, UserType
<1>f. ASSUME Fault, UNCHANGED player_mode PROVE UserType'
  BY <1>f, <1>t DEF Fault, UserType
<1>1. CASE PlayOrStop
  <2>1. CASE Busy /\ player_stop_req("STOP") /\ UNCHANGED <<list, ui>>
    BY <2>1, <1>t, StopType DEF UserType
  <2>2. CASE /\ NoItem
             /\ UNCHANGED <<list, ui, player_mode, next_step, mq, is_playing>>
    BY <2>2, <1>t DEF UserType
  <2>3. CASE Fault /\ UNCHANGED player_mode
    BY <2>3, <1>f
  <2>4. CASE /\ ~ NoItem /\ ~ WildItem
             /\ Request(play_list_current) /\ UNCHANGED <<list, ui>>
    <3>1. play_item_current + 1 \in 1 .. Len(play_list)
      BY <2>4 DEF TypeOK, NoItem, WildItem
    <3>2. play_list_current \in Kind
      BY <3>1, ElementOfSeq DEF TypeOK, play_list_current
    <3> QED BY <2>4, <3>2, <1>t, RequestType DEF UserType
  <2> QED BY <1>1, <2>1, <2>2, <2>3, <2>4 DEF PlayOrStop
<1>2. CASE SkipButton
  <2>1. PICK step \in {"NEXT", "PREV"} : player_stop_req(step)
    BY <1>2 DEF SkipButton
  <2> QED BY <2>1, <1>2, <1>t, StopType DEF UserType, SkipButton
<1>3. CASE player_play_list_onitem
  <2>1. PICK i \in 0 .. Len(play_list) - 1 :
          /\ play_item_current' = i
          /\ player_play_item(play_list[i + 1])
          /\ UNCHANGED <<play_list, ui>>
    BY <1>3 DEF player_play_list_onitem
  <2>2. i \in Nat /\ i + 1 \in 1 .. Len(play_list)
    BY DEF TypeOK
  <2>3. play_list[i + 1] \in Kind
    BY <2>2, ElementOfSeq DEF TypeOK
  <2> QED BY <2>1, <2>2, <2>3, <1>t, PlayItemType DEF UserType
<1>4. CASE function_play_radio
  <2>1. CASE /\ play_list' = <<"radio">> /\ play_item_current' = play_list_start
             /\ player_play_item("radio") /\ UNCHANGED ui
    BY <2>1, <1>t, OneItem, KindAssumption, PlayItemType
    DEF KindAssumption, UserType, play_list_start
  <2>2. CASE /\ play_list # <<>> /\ play_item_current' = play_list_start
             /\ player_play_item(Head(play_list)) /\ UNCHANGED <<play_list, ui>>
    <3>1. Head(play_list) \in Kind
      BY <2>2, TailType DEF TypeOK
    <3> QED BY <2>2, <3>1, <1>t, PlayItemType DEF UserType, play_list_start
  <2>3. CASE Fault /\ UNCHANGED player_mode
    BY <2>3, <1>f
  <2>4. CASE player_stop_req("SEEK") /\ UNCHANGED <<list, ui>>
    BY <2>4, <1>t, StopType DEF UserType
  <2> QED BY <1>4, <2>1, <2>2, <2>3, <2>4 DEF function_play_radio
<1>5. CASE function_filelist
  BY <1>5, <1>t, StopType DEF UserType, function_filelist
<1> QED BY <1>1, <1>2, <1>3, <1>4, <1>5 DEF UserActs

(* A new list keeps the types.  (player_ui.c:386-479, play_list.c)         *)
LEMMA AppendType == ASSUME TypeOK, AppendFiles PROVE UserType'
<1> USE DEF list
<1>t. UserType
  BY DEF TypeOK, UserType
<1>1. CASE play_list' \in Lists \cup {play_list}
  <2>1. play_list' \in Seq(Kind)
    BY <1>1, ListsAssumption DEF ListsAssumption, TypeOK
  <2>2. CASE /\ play_list' # <<>> /\ play_item_current' = play_list_start
             /\ player_play_item(Head(play_list'))
    <3>1. Head(play_list') \in Kind
      BY <2>1, <2>2, TailType
    <3> QED BY <2>1, <2>2, <3>1, PlayItemType
            DEF AppendFiles, UserType, play_list_start
  <2>3. CASE UNCHANGED <<play_item_current, player_mode, next_step, mq, is_playing>>
    BY <2>1, <2>3, <1>t DEF AppendFiles, UserType
  <2>4. CASE UNCHANGED <<list, player_mode, next_step, mq, is_playing>>
    BY <2>4, <1>t DEF AppendFiles, UserType
  <2> QED BY <2>2, <2>3, <2>4 DEF AppendFiles
<1>2. CASE UNCHANGED <<list, player_mode, next_step, mq, is_playing>>
  BY <1>2, <1>t DEF AppendFiles, UserType
<1> QED BY <1>1, <1>2 DEF AppendFiles

(* The end of an item keeps the types.  (player_ui.c:704-734)              *)
LEMMA HandleStopType ==
  ASSUME TypeOK, HandleStop PROVE UserType' /\ info_timer' \in BOOLEAN
<1> USE DEF list
<1>t. UserType
  BY DEF TypeOK, UserType
<1>1. CASE Follow
  <2>1. play_list # <<>> /\ play_list \in Seq(Kind) /\ Len(play_list) \in Nat
    BY <1>1 DEF Follow, TypeOK
  <2>2. Len(play_list) > 0
    BY <2>1, EmptySeq
  <2>3. play_item_current' \in Nat
    BY <1>1, <2>1, <2>2 DEF Follow, TypeOK, NextIndex, PrevIndex
  <2>4. play_item_current' + 1 \in 1 .. Len(play_list)
    BY <1>1, <2>1, <2>3 DEF Follow
  <2>5. play_list[play_item_current' + 1] \in Kind
    BY <2>1, <2>4, ElementOfSeq
  <2>6. Request(play_list[play_item_current' + 1])
    BY <1>1 DEF Follow
  <2>7. play_list' = play_list /\ info_timer' = info_timer /\ ui' = ui
    BY <1>1 DEF Follow
  <2> QED BY <2>1, <2>3, <2>5, <2>6, <2>7, <1>t, RequestType
          DEF UserType, TypeOK
<1>2. CASE Rest
  <2>1. next_step' \in {"STOP", "PREV", "NEXT", "SEEK"}
    BY <1>2 DEF Rest, Step, TypeOK
  <2> QED BY <1>2, <2>1, <1>t DEF Rest, Quiet, UserType
<1>3. CASE player_mode' = "STOP" /\ Fault /\ UNCHANGED info_timer
  BY <1>3, <1>t DEF Fault, UserType, TypeOK
<1> QED BY <1>1, <1>2, <1>3 DEF HandleStop

(* Every step keeps the types.                                             *)
LEMMA TypeStep == TypeOK /\ [Next]_vars => TypeOK'
<1> SUFFICES ASSUME TypeOK, [Next]_vars PROVE TypeOK'
  OBVIOUS
<1> USE DEF list, UiOnly, PlayerOnly, Event
<1>q. ui_mq \in Seq(Event) /\ Len(ui_mq) <= UiSlots /\ mq \in Seq(Kind)
  BY DEF TypeOK
<1>1. CASE ReceiveFile
  <2>1. Head(mq) \in Kind /\ mq' \in Seq(Kind)
    BY <1>1, <1>q, TailType DEF ReceiveFile, PlayerReady
  <2>2. ui_mq' \in Seq(Event) /\ Len(ui_mq') <= UiSlots
    BY <1>1, <1>q, SendType DEF ReceiveFile
  <2> QED BY <1>1, <2>1, <2>2 DEF ReceiveFile, TypeOK
<1>2. CASE ReceiveRadio
  <2>1. Head(mq) \in Kind /\ mq' \in Seq(Kind)
    BY <1>2, <1>q, TailType DEF ReceiveRadio, PlayerReady
  <2>2. ui_mq' \in Seq(Event) /\ Len(ui_mq') <= UiSlots
    BY <1>2, <1>q, SendType DEF ReceiveRadio
  <2> QED BY <1>2, <2>1, <2>2 DEF ReceiveRadio, TypeOK
<1>3. CASE ReceiveOther
  <2>1. mq' \in Seq(Kind)
    BY <1>3, <1>q, TailType DEF ReceiveOther, PlayerReady
  <2> QED BY <1>3, <2>1 DEF ReceiveOther, TypeOK
<1>4. CASE Connected
  <2>1. ui_mq' \in Seq(Event) /\ Len(ui_mq') <= UiSlots
    BY <1>4, <1>q, SendType DEF Connected
  <2> QED BY <1>4, <2>1 DEF Connected, TypeOK
<1>5. CASE player_set_buffer_status
  <2>1. ui_mq' \in Seq(Event) /\ Len(ui_mq') <= UiSlots
    BY <1>5, <1>q, SendType DEF player_set_buffer_status
  <2> QED BY <1>5, <2>1 DEF player_set_buffer_status, TypeOK
<1>6. CASE player_notify_stop
  <2>1. ui_mq' \in Seq(Event) /\ Len(ui_mq') <= UiSlots
    BY <1>6, <1>q, SendType DEF player_notify_stop
  <2>2. lost' \in BOOLEAN
    BY <1>6, Zenon DEF player_notify_stop, TypeOK
  <2> QED BY <1>6, <2>1, <2>2 DEF player_notify_stop, TypeOK
<1>7. CASE Player
  BY <1>7, <1>1, <1>2, <1>3, <1>4, <1>5, <1>6
  DEF Player, ConnectFailed, EndOfData, DecoderStops
<1>8. ASSUME NEW event, Take(event)
      PROVE  ui_mq' \in Seq(Event) /\ Len(ui_mq') <= UiSlots
  <2>1. /\ ui_mq' \in Seq(Event) /\ Len(ui_mq') <= Len(ui_mq)
        /\ Len(ui_mq) \in Nat /\ Len(ui_mq') \in Nat
    BY <1>8, <1>q, TailType, LenProperties DEF Take
  <2> QED BY <2>1, <1>q, SlotsAssumption DEF SlotsAssumption
<1>9. CASE HandleEvent
  <2>1. UserType'
    BY <1>9, UserActsType DEF HandleEvent, UserType, TypeOK
  <2> QED BY <1>9, <2>1, <1>8 DEF HandleEvent, UserType, TypeOK
<1>10. CASE HandlePlay
  BY <1>10, <1>8 DEF HandlePlay, TypeOK
<1>11. CASE HandleInfo
  BY <1>11, <1>8 DEF HandleInfo, TypeOK
<1>12. CASE HandleStop
  BY <1>12, <1>8, HandleStopType DEF HandleStop, UserType, TypeOK
<1>13. CASE HandleFreeze
  <2>1. /\ Take("FREEZE") /\ frozen' = "yes"
        /\ UNCHANGED <<list, info_timer, ui, PlayerOnly>>
    BY <1>13 DEF HandleFreeze
  <2>2. CASE player_stop_req("STOP")
    BY <2>1, <2>2, <1>8, StopType DEF TypeOK
  <2>3. CASE UNCHANGED <<player_mode, next_step, mq, is_playing>>
    BY <2>1, <2>3, <1>8 DEF TypeOK
  <2> QED BY <1>13, <2>2, <2>3 DEF HandleFreeze
<1>14. CASE AppendFiles
  <2>1. UNCHANGED <<info_timer, frozen, ui_mq, PlayerOnly>>
    BY <1>14 DEF AppendFiles
  <2> QED BY <1>14, <2>1, AppendType DEF UserType, TypeOK
<1>15. CASE PostEvent
  <2>1. ui_mq' \in Seq(Event) /\ Len(ui_mq') <= UiSlots
    BY <1>15, <1>q, SendType DEF PostEvent
  <2> QED BY <1>15, <2>1 DEF PostEvent, TypeOK
<1>16. CASE player_ui_freeze
  <2>1. ui_mq' \in Seq(Event) /\ Len(ui_mq') <= UiSlots
    BY <1>16, <1>q, SendType DEF player_ui_freeze
  <2> QED BY <1>16, <2>1 DEF player_ui_freeze, TypeOK
<1>17. CASE UNCHANGED vars
  BY <1>17 DEF vars, TypeOK
<1> QED BY <1>7, <1>9, <1>10, <1>11, <1>12, <1>13, <1>14, <1>15, <1>16, <1>17
        DEF Next, Ui

(* Types, and with them that the four places of the events' queue are      *)
(* never overrun.  (player_ui.c, player_bg.c, play_list.c)                 *)
THEOREM TypeCorrect == Spec => []TypeOK
<1>1. <<>> \in Seq(Kind) /\ <<>> \in Seq(Event) /\ Len(<<>>) <= UiSlots
  BY SlotsAssumption DEF SlotsAssumption
<1>2. Init => TypeOK
  <2> SUFFICES ASSUME Init PROVE TypeOK
    OBVIOUS
  <2>1. play_list \in Seq(Kind) /\ mq \in Seq(Kind)
    BY <1>1, Zenon DEF Init
  <2>2. ui_mq \in Seq(Event) /\ Len(ui_mq) <= UiSlots
    BY <1>1, Zenon DEF Init
  <2> QED BY <2>1, <2>2 DEF Init, TypeOK
<1> QED BY <1>2, TypeStep, PTL DEF Spec

-----------------------------------------------------------------------------
(* The index.  Only a list that replaces another or a step in the list     *)
(* moves it, and only where there is no list does it point to no item.     *)
LEMMA EmptyAtFault ==
  ASSUME TypeOK, CurrentInList, WildItem \/ play_list = <<>>
  PROVE  play_list = <<>>
<1>1. play_item_current \in Nat /\ Len(play_list) \in Nat
  BY LenProperties DEF TypeOK
<1> QED BY <1>1 DEF CurrentInList, WildItem

LEMMA ChoiceIndex ==
  ASSUME TypeOK, CurrentInList, ui # "fault", UserActs \/ AppendFiles
  PROVE  CurrentInList'
<1> USE DEF list, CurrentInList
<1>1. ASSUME UNCHANGED list, ui' # "fault" PROVE CurrentInList'
  BY <1>1
<1>2. ASSUME Fault, WildItem \/ play_list = <<>> PROVE CurrentInList'
  BY <1>2, EmptyAtFault DEF Fault
<1>3. ASSUME play_list' \in Seq(Kind), play_item_current' = play_list_start,
             ui' # "fault"
      PROVE  CurrentInList'
  <2>1. play_list' # <<>> => Len(play_list') > 0
    BY <1>3, EmptySeq, LenProperties
  <2> QED BY <1>3, <2>1 DEF play_list_start
<1>4. CASE PlayOrStop
  BY <1>4, <1>1, <1>2 DEF PlayOrStop
<1>5. CASE SkipButton
  BY <1>5, <1>1 DEF SkipButton
<1>6. CASE player_play_list_onitem
  <2>1. PICK i \in 0 .. Len(play_list) - 1 :
          play_item_current' = i /\ UNCHANGED <<play_list, ui>>
    BY <1>6 DEF player_play_list_onitem
  <2>2. Len(play_list) \in Nat
    BY LenProperties DEF TypeOK
  <2> QED BY <2>1, <2>2
<1>7. CASE function_play_radio
  <2>1. CASE /\ play_list' = <<"radio">> /\ play_item_current' = play_list_start
             /\ UNCHANGED ui
    BY <2>1, <1>3, OneItem
  <2>2. CASE play_item_current' = play_list_start /\ UNCHANGED <<play_list, ui>>
    BY <2>2, <1>3 DEF TypeOK
  <2>3. CASE play_list = <<>> /\ Fault
    BY <2>3, <1>2
  <2>4. CASE UNCHANGED <<list, ui>>
    BY <2>4, <1>1
  <2> QED BY <1>7, <2>1, <2>2, <2>3, <2>4 DEF function_play_radio
<1>8. CASE function_filelist
  BY <1>8, <1>1 DEF function_filelist
<1>9. CASE AppendFiles
  <2>1. play_list' \in Seq(Kind) /\ ui' = "loop"
    BY <1>9, AppendType DEF AppendFiles, UserType
  <2>2. CASE play_item_current' = play_list_start
    BY <2>1, <2>2, <1>3
  <2>3. CASE play_list' = <<>>
    BY <2>1, <2>3
  <2>4. CASE UNCHANGED list
    BY <2>1, <2>4, <1>1
  <2> QED BY <1>9, <2>2, <2>3, <2>4 DEF AppendFiles
<1> QED BY <1>4, <1>5, <1>6, <1>7, <1>8, <1>9 DEF UserActs

LEMMA IndexStep == TypeOK /\ CurrentInList /\ [Next]_vars => CurrentInList'
<1> SUFFICES ASSUME TypeOK, CurrentInList, [Next]_vars PROVE CurrentInList'
  OBVIOUS
<1> USE DEF list, UiOnly
<1>1. CASE UNCHANGED <<list, ui>>
  BY <1>1 DEF CurrentInList
<1>2. CASE HandleEvent
  <2>1. ui # "fault"
    BY <1>2 DEF HandleEvent, Take, MayRun
  <2>2. CASE UserActs
    BY <2>1, <2>2, ChoiceIndex
  <2> QED BY <1>2, <2>2, <1>1 DEF HandleEvent
<1>3. CASE AppendFiles
  <2>1. ui # "fault"
    BY <1>3 DEF AppendFiles
  <2> QED BY <1>3, <2>1, ChoiceIndex
<1>4. CASE HandleStop
  <2>1. CASE Follow
    <3>1. ui # "fault"
      BY <1>4 DEF HandleStop, Take, MayRun
    <3> QED BY <2>1, <3>1 DEF Follow, CurrentInList
  <2>2. CASE Rest
    BY <2>2, <1>1 DEF Rest
  <2>3. CASE WildItem /\ Fault
    BY <2>3, EmptyAtFault DEF Fault, CurrentInList
  <2> QED BY <1>4, <2>1, <2>2, <2>3 DEF HandleStop
<1>5. CASE HandlePlay \/ HandleInfo \/ HandleFreeze
  BY <1>5, <1>1 DEF HandlePlay, HandleInfo, HandleFreeze
<1>6. CASE Player
  BY <1>6, <1>1 DEF Player, ReceiveFile, ReceiveRadio, ReceiveOther, Connected,
     ConnectFailed, player_set_buffer_status, EndOfData, DecoderStops,
     player_notify_stop
<1>7. CASE PostEvent \/ player_ui_freeze \/ UNCHANGED vars
  BY <1>7, <1>1 DEF PostEvent, player_ui_freeze, vars
<1> QED BY <1>2, <1>3, <1>4, <1>5, <1>6, <1>7 DEF Next, Ui

(* The index is one of the list's wherever there is a list, and an item    *)
(* that does not exist is followed only where there is none: whatever the  *)
(* list is replaced by, empty or not, and however the end of an item meets *)
(* the choice of the next.  (play_list.c:17-131, player_ui.c:248-479)      *)
THEOREM CurrentInListTheorem == Spec => []CurrentInList
<1>1. Init => CurrentInList
  BY DEF Init, CurrentInList
<1> QED BY <1>1, TypeCorrect, IndexStep, PTL DEF Spec

-----------------------------------------------------------------------------
(* The queue of events: which are in it, how often and in which order.     *)

Has(q, event) == \E i \in 1 .. Len(q) : q[i] = event

AtMostOnce(q, event) ==
  \A i, j \in 1 .. Len(q) : q[i] = event /\ q[j] = event => i = j

\* An item is reported as started before it is reported as ended.
StartsFirst(q) ==
  \A i, j \in 1 .. Len(q) : q[i] = "STOP" /\ q[j] = "PLAY" => j < i

(* An event is added at the end or dropped.  (rtgui_thread_send)           *)
LEMMA SendFacts ==
  ASSUME NEW q \in Seq(Event), NEW x \in Event
  PROVE  /\ \A event : Has(Send(q, x), event) <=>
                Has(q, event) \/ (event = x /\ Len(q) < UiSlots)
         /\ \A event : AtMostOnce(q, event) /\ (event = x => ~ Has(q, event))
                         => AtMostOnce(Send(q, x), event)
         /\ StartsFirst(q) /\ (x = "PLAY" => ~ Has(q, "STOP"))
              => StartsFirst(Send(q, x))
<1> DEFINE n == Len(q)
           r == Append(q, x)
<1>1. n \in Nat
  BY LenProperties
<1>2. /\ Len(r) = n + 1 /\ r[n + 1] = x
      /\ \A i \in 1 .. n : r[i] = q[i]
  BY AppendProperties
<1>3. CASE n < UiSlots
  <2>1. Send(q, x) = r
    BY <1>3 DEF Send
  <2> HIDE DEF n, r
  <2>2. \A event : Has(r, event) <=> Has(q, event) \/ event = x
    BY <1>1, <1>2 DEF Has, n
  <2>3. \A event : AtMostOnce(q, event) /\ (event = x => ~ Has(q, event))
                     => AtMostOnce(r, event)
    BY <1>1, <1>2 DEF Has, AtMostOnce, n
  <2>4. StartsFirst(q) /\ (x = "PLAY" => ~ Has(q, "STOP")) => StartsFirst(r)
    BY <1>1, <1>2 DEF Has, StartsFirst, n
  <2> QED BY <2>1, <2>2, <2>3, <2>4, <1>3 DEF n
<1>4. CASE ~ (n < UiSlots)
  BY <1>4 DEF Send
<1> QED BY <1>3, <1>4

(* The first event is taken.  (rtgui_thread_recv)                          *)
LEMMA TakeFacts ==
  ASSUME NEW q \in Seq(Event), q # <<>>
  PROVE  /\ \A event : Has(q, event) <=>
                Head(q) = event \/ Has(Tail(q), event)
         /\ \A event : AtMostOnce(q, event) =>
                /\ AtMostOnce(Tail(q), event)
                /\ Head(q) = event => ~ Has(Tail(q), event)
         /\ StartsFirst(q) =>
              /\ StartsFirst(Tail(q))
              /\ Head(q) = "STOP" => ~ Has(Tail(q), "PLAY")
<1> DEFINE n == Len(q)
           t == Tail(q)
<1>1. n \in Nat \ {0} /\ Head(q) = q[1]
  BY EmptySeq, LenProperties, HeadTailProperties
<1>2. /\ Len(t) = n - 1
      /\ \A i \in 1 .. n - 1 : t[i] = q[i + 1]
  BY <1>1, HeadTailProperties
<1> HIDE DEF n, t
<1>3. \A i \in 2 .. n : i - 1 \in 1 .. n - 1 /\ t[i - 1] = q[i]
  BY <1>1, <1>2
<1>4. \A event : Has(q, event) <=> Head(q) = event \/ Has(t, event)
  BY <1>1, <1>2, <1>3 DEF Has, n
<1>5. \A event : AtMostOnce(q, event) =>
        AtMostOnce(t, event) /\ (Head(q) = event => ~ Has(t, event))
  BY <1>1, <1>2 DEF Has, AtMostOnce, n
<1>6. StartsFirst(q) =>
        StartsFirst(t) /\ (Head(q) = "STOP" => ~ Has(t, "PLAY"))
  BY <1>1, <1>2 DEF Has, StartsFirst, n
<1> QED BY <1>4, <1>5, <1>6 DEF t

(* The number of an event in the queue, where it is there at most once.    *)
LEMMA PendingFacts ==
  ASSUME NEW event, TypeOK
  PROVE  /\ ~ Has(ui_mq, event) <=> Pending(event) = 0
         /\ Has(ui_mq, event) /\ AtMostOnce(ui_mq, event) => Pending(event) = 1
<1> DEFINE P == {i \in 1 .. Len(ui_mq) : ui_mq[i] = event}
<1>1. IsFiniteSet(P)
  <2>1. Len(ui_mq) \in Nat
    BY LenProperties DEF TypeOK
  <2>2. IsFiniteSet(1 .. Len(ui_mq))
    BY <2>1, FS_Interval
  <2> QED BY <2>2, FS_Subset
<1>2. ~ Has(ui_mq, event) <=> P = {}
  BY DEF Has
<1>3. Pending(event) = Cardinality(P)
  BY DEF Pending
<1>4. ASSUME Has(ui_mq, event), AtMostOnce(ui_mq, event)
      PROVE  Cardinality(P) = 1
  <2>1. PICK i \in 1 .. Len(ui_mq) : ui_mq[i] = event
    BY <1>4 DEF Has
  <2>2. P = {i}
    BY <1>4, <2>1 DEF AtMostOnce
  <2> QED BY <2>2, FS_Singleton
<1>5. Cardinality(P) = 0 <=> P = {}
  BY <1>1, FS_EmptySet
<1> QED BY <1>2, <1>3, <1>4, <1>5

-----------------------------------------------------------------------------
(* One item at a time: a request on its way, the item being played and the *)
(* report of its end are never two at once.                                *)

NothingOn == mq = <<>> /\ player = "recv" /\ ~ Has(ui_mq, "STOP")

OneAtATime ==
  /\ Len(mq) <= 1
  /\ mq # <<>> => player = "recv" /\ ~ Has(ui_mq, "STOP")
  /\ player # "recv" => ~ Has(ui_mq, "STOP")
  /\ AtMostOnce(ui_mq, "STOP")

\* In STOP, and after a report was lost, it is none; a lost report leaves
\* the mode as it was, for good.
RestIsRest ==
  /\ player_mode = "STOP" \/ lost => NothingOn
  /\ lost => player_mode # "STOP"

\* Nothing to come will start the timer in STOP.
Started ==
  /\ StartsFirst(ui_mq)
  /\ ui # "fault" /\ player_mode = "STOP"
       => ~ info_timer /\ ~ Has(ui_mq, "PLAY")

\* In the other modes it is one, unless its report was lost.
BusyIsBusy == player_mode # "STOP" /\ ~ lost => ~ NothingOn

ItemInv == OneAtATime /\ RestIsRest /\ BusyIsBusy /\ Started

LEMMA ItemInit == Init => ItemInv
BY EmptySeq DEF Init, ItemInv, OneAtATime, RestIsRest, Started, StartsFirst,
   BusyIsBusy, NothingOn, Has, AtMostOnce

\* A request where none was.
LEMMA RequestOne ==
  ASSUME mq = <<>>, NEW kind, Request(kind)
  PROVE  player_mode' # "STOP" /\ mq' # <<>> /\ Len(mq') = 1
<1>1. mq' = Append(<<>>, kind)
  BY DEF Request
<1>2. Append(<<>>, kind) = <<kind>>
  OBVIOUS
<1>3. <<kind>> # <<>> /\ Len(<<kind>>) = 1
  OBVIOUS
<1> QED BY <1>1, <1>2, <1>3 DEF Request, Mode

\* All that a choice does to the mode and the requests: nothing, or a request
\* that ends the rest.
Chosen ==
  \/ UNCHANGED <<player_mode, mq>>
  \/ /\ player_mode = "STOP" /\ player_mode' # "STOP"
     /\ mq' # <<>> /\ Len(mq') = 1

(* Every button and list of the user starts an item only at rest.          *)
(* (player_ui.c:232-479)                                                   *)
LEMMA ChoiceStep ==
  ASSUME RestIsRest, UserActs \/ AppendFiles
  PROVE  Chosen
<1> USE DEF list
<1>1. ASSUME NEW step, player_stop_req(step) PROVE Chosen
  BY <1>1 DEF player_stop_req, Chosen
<1>2. ASSUME NEW kind, ~ Busy, Request(kind) PROVE Chosen
  BY <1>2, RequestOne DEF RestIsRest, NothingOn, Busy, Chosen
<1>3. ASSUME NEW kind, player_play_item(kind) PROVE Chosen
  BY <1>3, <1>1, <1>2 DEF player_play_item
<1>4. ASSUME Fault, UNCHANGED player_mode PROVE Chosen
  BY <1>4 DEF Fault, Chosen
<1>5. CASE PlayOrStop
  BY <1>5, <1>1, <1>2, <1>4 DEF PlayOrStop, Chosen
<1>6. CASE SkipButton
  BY <1>6, <1>1 DEF SkipButton
<1>7. CASE player_play_list_onitem
  BY <1>7, <1>3 DEF player_play_list_onitem
<1>8. CASE function_play_radio
  BY <1>8, <1>1, <1>3, <1>4 DEF function_play_radio
<1>9. CASE function_filelist
  BY <1>9, <1>1 DEF function_filelist
<1>10. CASE AppendFiles
  BY <1>10, <1>3 DEF AppendFiles, Chosen
<1> QED BY <1>5, <1>6, <1>7, <1>8, <1>9, <1>10 DEF UserActs

\* The player's own steps: it takes a request, plays and reports.
LEMMA PlayerItem ==
  ASSUME TypeOK, ItemInv, Player
  PROVE  ItemInv'
<1> USE DEF ItemInv, OneAtATime, RestIsRest, Started, BusyIsBusy, NothingOn,
            UiOnly, Event
<1>q. /\ ui_mq \in Seq(Event) /\ Len(ui_mq) <= UiSlots
      /\ Len(ui_mq) \in Nat /\ UiSlots \in Nat
  BY LenProperties, SlotsAssumption DEF TypeOK, SlotsAssumption
<1>t. ASSUME mq # <<>> PROVE Tail(mq) = <<>> /\ Len(Tail(mq)) = 0
  <2>1. mq \in Seq(Kind) /\ Len(mq) \in Nat /\ Len(mq) <= 1
    BY LenProperties DEF TypeOK
  <2>2. Len(mq) = 1
    BY <2>1, <1>t, EmptySeq
  <2>3. Tail(mq) \in Seq(Kind) /\ Len(Tail(mq)) = 0
    BY <2>1, <2>2, <1>t, HeadTailProperties
  <2> QED BY <2>3, EmptySeq
<1>1. CASE ReceiveFile
  <2>1. ui_mq' = Send(ui_mq, "PLAY")
    BY <1>1 DEF ReceiveFile
  <2>2. mq # <<>> /\ mq' = Tail(mq) /\ player' = "play"
    BY <1>1 DEF ReceiveFile, PlayerReady
  <2> QED BY <1>1, <2>1, <2>2, <1>q, <1>t, SendFacts DEF ReceiveFile
<1>2. CASE ReceiveRadio
  <2>1. /\ ui_mq' = Send(Send(ui_mq, "PLAY"), "INFO")
        /\ Send(ui_mq, "PLAY") \in Seq(Event)
    BY <1>2, <1>q, SendType DEF ReceiveRadio
  <2>2. mq # <<>> /\ mq' = Tail(mq) /\ player' = "connect"
    BY <1>2 DEF ReceiveRadio, PlayerReady
  <2>3. /\ ~ Has(Send(ui_mq, "PLAY"), "STOP")
        /\ AtMostOnce(Send(ui_mq, "PLAY"), "STOP")
        /\ StartsFirst(Send(ui_mq, "PLAY"))
    BY <2>2, <1>q, SendFacts
  <2>4. /\ ~ Has(ui_mq', "STOP") /\ AtMostOnce(ui_mq', "STOP")
        /\ StartsFirst(ui_mq')
    BY <2>1, <2>3, SendFacts
  <2> QED BY <1>2, <2>2, <2>4, <1>t DEF ReceiveRadio
<1>3. CASE ReceiveOther
  BY <1>3, <1>t DEF ReceiveOther, PlayerReady
<1>4. CASE Connected
  <2>1. /\ ui_mq' = Send(Send(ui_mq, "INFO"), "INFO")
        /\ Send(ui_mq, "INFO") \in Seq(Event)
    BY <1>4, <1>q, SendType DEF Connected
  <2>2. player = "connect" /\ player' = "play"
    BY <1>4 DEF Connected
  <2>3. /\ ~ Has(Send(ui_mq, "INFO"), "STOP")
        /\ AtMostOnce(Send(ui_mq, "INFO"), "STOP")
        /\ StartsFirst(Send(ui_mq, "INFO"))
    BY <2>2, <1>q, SendFacts
  <2>4. /\ ~ Has(ui_mq', "STOP") /\ AtMostOnce(ui_mq', "STOP")
        /\ StartsFirst(ui_mq')
    BY <2>1, <2>3, SendFacts
  <2> QED BY <1>4, <2>2, <2>4 DEF Connected
<1>5. CASE player_set_buffer_status
  <2>1. ui_mq' = Send(ui_mq, "INFO") /\ player = "play" /\ player' = "play"
    BY <1>5 DEF player_set_buffer_status
  <2> QED BY <1>5, <2>1, <1>q, SendFacts DEF player_set_buffer_status
<1>6. CASE player # "recv" /\ player_notify_stop
  <2>1. /\ ui_mq' = Send(ui_mq, "STOP") /\ mq = <<>> /\ ~ Has(ui_mq, "STOP")
        /\ ~ lost /\ player_mode # "STOP"
        /\ lost' <=> Len(ui_mq) = UiSlots
    BY <1>6 DEF player_notify_stop
  <2>2. /\ Has(ui_mq', "STOP") <=> ~ lost'
        /\ AtMostOnce(ui_mq', "STOP") /\ StartsFirst(ui_mq')
    BY <2>1, <1>q, SendFacts
  <2> QED BY <1>6, <2>1, <2>2 DEF player_notify_stop
<1> QED BY <1>1, <1>2, <1>3, <1>4, <1>5, <1>6
        DEF Player, ConnectFailed, EndOfData, DecoderStops

\* What the interface finds when it has taken an event.
LEMMA TakeItem ==
  ASSUME TypeOK, ItemInv, NEW event, Take(event)
  PROVE  /\ Has(ui_mq, event)
         /\ Has(ui_mq', "STOP") => Has(ui_mq, "STOP") /\ event # "STOP"
         /\ Has(ui_mq, "STOP") => Has(ui_mq', "STOP") \/ event = "STOP"
         /\ Has(ui_mq', "PLAY") => Has(ui_mq, "PLAY") /\ event # "STOP"
         /\ AtMostOnce(ui_mq', "STOP") /\ StartsFirst(ui_mq')
<1>1. /\ ui_mq \in Seq(Event) /\ ui_mq # <<>> /\ Head(ui_mq) = event
      /\ ui_mq' = Tail(ui_mq)
  BY DEF TypeOK, Take
<1> QED BY <1>1, TakeFacts DEF ItemInv, OneAtATime, Started

\* The interface's steps.
LEMMA UiItem ==
  ASSUME TypeOK, ItemInv, Ui
  PROVE  ItemInv'
<1> USE DEF ItemInv, OneAtATime, RestIsRest, Started, BusyIsBusy, NothingOn,
            PlayerOnly
<1>u. ui # "fault"
  BY DEF Ui, HandleEvent, HandlePlay, HandleInfo, HandleStop, HandleFreeze,
         AppendFiles, Take, MayRun
<1>1. CASE HandleEvent
  <2>1. Take("EVENT") /\ UNCHANGED <<info_timer, player, lost>>
    BY <1>1 DEF HandleEvent
  <2>2. Chosen
    BY <1>1, ChoiceStep DEF HandleEvent, Chosen
  <2>3. /\ Has(ui_mq', "STOP") <=> Has(ui_mq, "STOP")
        /\ Has(ui_mq', "PLAY") => Has(ui_mq, "PLAY")
        /\ AtMostOnce(ui_mq', "STOP") /\ StartsFirst(ui_mq')
    BY <2>1, TakeItem
  <2>4. CASE UNCHANGED <<player_mode, mq>>
    BY <2>1, <2>3, <2>4, <1>u
  <2>5. CASE /\ player_mode = "STOP" /\ player_mode' # "STOP"
             /\ mq' # <<>> /\ Len(mq') = 1
    BY <2>1, <2>3, <2>5, <1>u
  <2> QED BY <2>2, <2>4, <2>5 DEF Chosen
<1>2. CASE AppendFiles
  <2>1. UNCHANGED <<info_timer, player, lost, ui_mq>>
    BY <1>2 DEF AppendFiles
  <2>2. Chosen
    BY <1>2, ChoiceStep
  <2>3. /\ Has(ui_mq', "STOP") <=> Has(ui_mq, "STOP")
        /\ Has(ui_mq', "PLAY") <=> Has(ui_mq, "PLAY")
        /\ AtMostOnce(ui_mq', "STOP") /\ StartsFirst(ui_mq')
    BY <2>1, Zenon
  <2>4. CASE UNCHANGED <<player_mode, mq>>
    BY <2>1, <2>3, <2>4, <1>u
  <2>5. CASE /\ player_mode = "STOP" /\ player_mode' # "STOP"
             /\ mq' # <<>> /\ Len(mq') = 1
    BY <2>1, <2>3, <2>5, <1>u
  <2> QED BY <2>2, <2>4, <2>5 DEF Chosen
<1>3. CASE HandlePlay
  <2>1. Take("PLAY") /\ UNCHANGED <<player_mode, mq, player, lost>>
    BY <1>3 DEF HandlePlay
  <2>2. /\ Has(ui_mq, "PLAY")
        /\ Has(ui_mq', "STOP") <=> Has(ui_mq, "STOP")
        /\ AtMostOnce(ui_mq', "STOP") /\ StartsFirst(ui_mq')
    BY <2>1, TakeItem
  <2> QED BY <2>1, <2>2, <1>u
<1>4. CASE HandleInfo
  <2>1. Take("INFO") /\ UNCHANGED <<player_mode, mq, player, lost, info_timer>>
    BY <1>4 DEF HandleInfo
  <2>2. /\ Has(ui_mq', "STOP") <=> Has(ui_mq, "STOP")
        /\ Has(ui_mq', "PLAY") => Has(ui_mq, "PLAY")
        /\ AtMostOnce(ui_mq', "STOP") /\ StartsFirst(ui_mq')
    BY <2>1, TakeItem
  <2> QED BY <2>1, <2>2, <1>u
<1>5. CASE HandleFreeze
  <2>1. Take("FREEZE") /\ UNCHANGED <<player_mode, mq, player, lost, info_timer>>
    BY <1>5 DEF HandleFreeze, player_stop_req
  <2>2. /\ Has(ui_mq', "STOP") <=> Has(ui_mq, "STOP")
        /\ Has(ui_mq', "PLAY") => Has(ui_mq, "PLAY")
        /\ AtMostOnce(ui_mq', "STOP") /\ StartsFirst(ui_mq')
    BY <2>1, TakeItem
  <2> QED BY <2>1, <2>2, <1>u
<1>6. CASE HandleStop
  <2>1. Take("STOP") /\ UNCHANGED <<player, lost>>
    BY <1>6 DEF HandleStop
  <2>2. /\ Has(ui_mq, "STOP") /\ ~ Has(ui_mq', "STOP")
        /\ ~ Has(ui_mq', "PLAY")
        /\ AtMostOnce(ui_mq', "STOP") /\ StartsFirst(ui_mq')
    BY <2>1, TakeItem
  <2>3. mq = <<>> /\ player = "recv" /\ ~ lost /\ player_mode # "STOP"
    BY <2>2
  <2>4. CASE Follow
    <3>1. player_mode' # "STOP" /\ mq' # <<>> /\ Len(mq') = 1
      BY <2>3, <2>4, RequestOne DEF Follow
    <3> QED BY <2>1, <2>2, <2>3, <3>1
  <2>5. CASE Rest
    BY <2>1, <2>2, <2>3, <2>5 DEF Rest, Quiet
  <2>6. CASE player_mode' = "STOP" /\ Fault
    BY <2>1, <2>2, <2>3, <2>6 DEF Fault
  <2> QED BY <1>6, <2>4, <2>5, <2>6 DEF HandleStop
<1> QED BY <1>1, <1>2, <1>3, <1>4, <1>5, <1>6 DEF Ui

(* No step brings a second item, or any at rest; and the one there is goes *)
(* without a successor only by a report that is lost.                      *)
LEMMA ItemStep ==
  ASSUME TypeOK, ItemInv, [Next]_vars
  PROVE  ItemInv'
<1> USE DEF ItemInv, OneAtATime, RestIsRest, Started, BusyIsBusy, NothingOn
<1>1. CASE PostEvent \/ player_ui_freeze
  <2>1. PICK event \in {"EVENT", "FREEZE"} : ui_mq' = Send(ui_mq, event)
    BY <1>1 DEF PostEvent, player_ui_freeze
  <2>2. UNCHANGED <<player_mode, info_timer, ui, mq, player, lost>>
    BY <1>1 DEF PostEvent, player_ui_freeze
  <2>3. /\ Has(ui_mq', "STOP") <=> Has(ui_mq, "STOP")
        /\ Has(ui_mq', "PLAY") <=> Has(ui_mq, "PLAY")
        /\ AtMostOnce(ui_mq', "STOP") /\ StartsFirst(ui_mq')
    BY <2>1, SendFacts DEF TypeOK, Event
  <2> QED BY <2>2, <2>3
<1>2. CASE UNCHANGED vars
  BY <1>2 DEF vars
<1> QED BY PlayerItem, UiItem, <1>1, <1>2 DEF Next

\* In STOP the position is not drawn, and nothing on its way will do it:
\* after any presses, ends, failures and lost reports, with any lists, until
\* the interface follows an item that does not exist.
\* (player_ui.c:697-700, 728-734)
THEOREM QuietAtRestTheorem == Spec => []QuietAtRest
<1>1. TypeOK /\ ItemInv => QuietAtRest
  BY PendingFacts DEF ItemInv, Started, QuietAtRest
<1> QED BY TypeCorrect, <1>1, ItemInit, ItemStep, PTL DEF Spec

\* What the invariants say in the numbers of the property.
LEMMA Numbers == TypeOK /\ ItemInv => ModeExact
<1> SUFFICES ASSUME TypeOK, ItemInv PROVE ModeExact
  OBVIOUS
<1> USE DEF ItemInv, OneAtATime, RestIsRest, BusyIsBusy, NothingOn, Outstanding
<1>1. /\ Len(mq) \in Nat /\ Len(mq) <= 1
      /\ mq = <<>> <=> Len(mq) = 0
  BY EmptySeq, LenProperties DEF TypeOK
<1>2. /\ ~ Has(ui_mq, "STOP") => Pending("STOP") = 0
      /\ Has(ui_mq, "STOP") => Pending("STOP") = 1
  BY PendingFacts
<1>3. CASE player_mode = "STOP" \/ lost
  BY <1>1, <1>2, <1>3 DEF ModeExact
<1>4. CASE ~ (player_mode = "STOP" \/ lost)
  BY <1>1, <1>2, <1>4 DEF ModeExact
<1> QED BY <1>3, <1>4

\* The mode tells the truth about the player, whatever meets what: in STOP
\* nothing is requested, played or to be reported, else exactly one item is,
\* or none once a report is lost; with any lists, the empty one included.
\* (player_ui.c:320-327, 711-734; player_bg.c:63-101)
THEOREM ModeExactTheorem == Spec => []ModeExact
BY TypeCorrect, ItemInit, ItemStep, Numbers, PTL DEF Spec
=============================================================================
