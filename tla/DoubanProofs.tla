---------------------------- MODULE DoubanProofs ----------------------------
(* The safety of the radio, for lists and blocks of every size.            *)
EXTENDS DoubanProps, TLAPS

(* A list that is loaded, fails to load or stops the machine leaves no     *)
(* string of an item that it does not count, and the new list is in use.   *)
(* (douban_radio_playlist_load)                                            *)
LEMMA LoadLemma ==
  ASSUME IInv, NEW c \in 0 .. DOUBAN_SONG_MAX, c >= size, radio,
         douban_radio_playlist_load(c)
  PROVE  /\ items' \in [Song -> {"null", "live", "freed"}]
         /\ size' \in 0 .. DOUBAN_SONG_MAX /\ current' \in 0 .. DOUBAN_SONG_MAX
         /\ halted' \in BOOLEAN
         /\ \A i \in Song : items'[i] = "live" => i <= size'
         /\ ~ halted' /\ current' < size' =>
              \A i \in 1 .. size' : items'[i] = "live"
<1> USE SongAssumption DEF SongAssumption, IInv, TypeOK, NoLeak, Song
<1>1. CASE halted' = TRUE /\ current' = c /\ UNCHANGED list
  BY <1>1 DEF list
<1>2. CASE items' = Freed /\ current' = c /\ UNCHANGED <<size, halted>>
  BY <1>2 DEF Freed, Counted
<1>3. ASSUME NEW n \in 0 .. DOUBAN_SONG_MAX,
             size' = n, current' = 0, UNCHANGED halted,
             items' = [i \in Song |-> IF i \in Songs(n) THEN "live" ELSE Freed[i]]
      PROVE  /\ items' \in [Song -> {"null", "live", "freed"}]
             /\ size' \in 0 .. DOUBAN_SONG_MAX /\ current' \in 0 .. DOUBAN_SONG_MAX
             /\ halted' \in BOOLEAN
             /\ \A i \in Song : items'[i] = "live" => i <= size'
             /\ ~ halted' /\ current' < size' =>
                  \A i \in 1 .. size' : items'[i] = "live"
  BY <1>3 DEF Freed, Counted, Songs
<1> QED BY <1>1, <1>2, <1>3 DEF douban_radio_playlist_load

(* The next song, or the next list, keeps the invariant.  (NextSong)       *)
LEMMA NextSongLemma ==
  ASSUME IInv, NEW c \in 0 .. DOUBAN_SONG_MAX, InLoop, NextSong(c),
         UNCHANGED radio
  PROVE  /\ items' \in [Song -> {"null", "live", "freed"}]
         /\ size' \in 0 .. DOUBAN_SONG_MAX /\ current' \in 0 .. DOUBAN_SONG_MAX
         /\ reading' \in BOOLEAN /\ over' \in BOOLEAN /\ halted' \in BOOLEAN
         /\ length' \in 0 .. Room
         /\ NoLeak' /\ InList' /\ LiveList'
<1>1. CASE GoOn(c)
  BY <1>1, SongAssumption, RoomAssumption
  DEF SongAssumption, RoomAssumption, IInv, TypeOK, InLoop, GoOn, list, call,
      AtEnd, NoLeak, InList, LiveList
<1>2. CASE LoadAndBreak(c)
  <2>1. radio /\ c >= size
    BY <1>2 DEF LoadAndBreak, AtEnd, IInv, InList, InLoop
  <2>2. douban_radio_playlist_load(c)
    BY <1>2 DEF LoadAndBreak
  <2>3. /\ items' \in [Song -> {"null", "live", "freed"}]
        /\ size' \in 0 .. DOUBAN_SONG_MAX /\ current' \in 0 .. DOUBAN_SONG_MAX
        /\ halted' \in BOOLEAN
        /\ \A i \in Song : items'[i] = "live" => i <= size'
        /\ ~ halted' /\ current' < size' =>
             \A i \in 1 .. size' : items'[i] = "live"
    BY <2>1, <2>2, LoadLemma
  <2>4. ~ reading' /\ reading' \in BOOLEAN /\ over' \in BOOLEAN
    BY <1>2 DEF LoadAndBreak
  <2>5. length' \in 0 .. Room
    BY <1>2, RoomAssumption DEF LoadAndBreak, RoomAssumption
  <2>6. NoLeak' /\ InList' /\ LiveList'
    BY <2>1, <2>3, <2>4 DEF NoLeak, InList, LiveList
  <2> QED
    BY <2>3, <2>4, <2>5, <2>6
<1> QED BY <1>1, <1>2 DEF NextSong

(* The strings, the sessions and the numbers agree in every reachable      *)
(* state.  (douban_radio.c:115-300)                                        *)
THEOREM Invariant == Spec => []IInv
<1> USE SongAssumption, RoomAssumption DEF SongAssumption, RoomAssumption
<1>1. Init => IInv
  <2> SUFFICES ASSUME Init PROVE IInv
    OBVIOUS
  <2>1. items \in [Song -> {"null", "live", "freed"}]
    BY DEF Init
  <2>2. TypeOK
    <3>1. {size, current} \subseteq 0 .. DOUBAN_SONG_MAX
      BY DEF Init
    <3>2. length \in 0 .. Room /\ sessions \in Nat
      BY DEF Init
    <3> QED BY <2>1, <3>1, <3>2 DEF Init, TypeOK
  <2>3. OneSession
    BY DEF Init, OneSession
  <2>4. NoLeak /\ InList /\ LiveList /\ NoneWithout
    BY DEF Init, NoLeak, InList, LiveList, NoneWithout
  <2> QED BY <2>2, <2>3, <2>4 DEF IInv
<1>2. ASSUME IInv, [Next]_vars PROVE IInv'
  <2> USE <1>2 DEF IInv
  <2>1. CASE douban_radio_open
    <3>1. PICK n \in 0 .. DOUBAN_SONG_MAX :
            /\ radio' \in BOOLEAN /\ (radio' <=> n # 0) /\ size' = n
            /\ items' = [i \in Song |-> IF i \in 1 .. n THEN "live" ELSE "null"]
      BY <2>1 DEF douban_radio_open, Songs
    <3>2. /\ ~ radio /\ ~ halted /\ current' = 0 /\ session' = FALSE
          /\ UNCHANGED <<sessions, reading, length, over, halted>>
      BY <2>1 DEF douban_radio_open, call
    <3>3. ~ reading /\ sessions' = 0
      BY <3>2 DEF InList, OneSession, NoneWithout, TypeOK
    <3>4. items' \in [Song -> {"null", "live", "freed"}]
      BY <3>1
    <3>5. size' \in 0 .. DOUBAN_SONG_MAX /\ current' \in 0 .. DOUBAN_SONG_MAX
      BY <3>1, <3>2
    <3>6. TypeOK'
      BY <3>1, <3>2, <3>4, <3>5 DEF TypeOK
    <3>7. \A i \in Song : items'[i] = "live" => i <= n /\ n # 0
      BY <3>1 DEF Song
    <3>8. \A i \in 1 .. n : items'[i] = "live"
      BY <3>1 DEF Song
    <3>9. NoLeak' /\ LiveList'
      BY <3>1, <3>7, <3>8 DEF NoLeak, LiveList
    <3> QED
      BY <3>2, <3>3, <3>6, <3>9 DEF OneSession, InList, NoneWithout
  <2>2. CASE ReadAtEnd
    <3>1. /\ current \in 0 .. DOUBAN_SONG_MAX /\ current >= size /\ radio
          /\ douban_radio_playlist_load(current)
      BY <2>2 DEF ReadAtEnd, Called, AtEnd, TypeOK
    <3>2. /\ items' \in [Song -> {"null", "live", "freed"}]
          /\ size' \in 0 .. DOUBAN_SONG_MAX /\ current' \in 0 .. DOUBAN_SONG_MAX
          /\ halted' \in BOOLEAN
          /\ \A i \in Song : items'[i] = "live" => i <= size'
          /\ ~ halted' /\ current' < size' =>
               \A i \in 1 .. size' : items'[i] = "live"
      BY <1>2, <3>1, LoadLemma
    <3> QED
      BY <2>2, <3>2
      DEF ReadAtEnd, Called, TypeOK, NoLeak, OneSession, InList, LiveList,
          NoneWithout
  <2>3. CASE douban_radio_read
    BY <2>3 DEF douban_radio_read, Called, list, AtEnd, TypeOK, NoLeak,
                OneSession, InList, LiveList, NoneWithout
  <2>4. CASE OpenSong
    BY <2>4 DEF OpenSong, InLoop, list, call, TypeOK, NoLeak, OneSession,
                InList, LiveList, NoneWithout
  <2>5. CASE OpenFails
    <3>1. PICK c \in 0 .. DOUBAN_SONG_MAX : NextSong(c)
      <4>1. InLoop /\ current < size /\ size <= DOUBAN_SONG_MAX
        BY <2>5 DEF OpenFails, InLoop, InList, TypeOK
      <4>2. CASE LoadAndBreak(Advance(current))
        BY <4>1, <4>2 DEF NextSong, Advance, TypeOK
      <4>3. CASE /\ ~ AtEnd(Advance(current))
                 /\ NextSong(Advance(Advance(current)))
        BY <4>1, <4>3 DEF Advance, AtEnd, TypeOK
      <4> QED BY <2>5, <4>2, <4>3 DEF OpenFails
    <3>2. InLoop /\ UNCHANGED <<radio, session, sessions>>
      BY <2>5 DEF OpenFails
    <3> QED
      BY <1>2, <3>1, <3>2, NextSongLemma DEF TypeOK, OneSession, NoneWithout
  <2>6. CASE SongData
    <3>1. /\ reading /\ ~ halted /\ length' = length - 1 /\ over' = FALSE
          /\ reading' <=> length' # 0
          /\ reading' \in BOOLEAN
          /\ UNCHANGED <<radio, items, size, current, session, sessions, halted>>
      BY <2>6 DEF SongData, InLoop, list
    <3>2. length' \in 0 .. Room
      BY <3>1 DEF TypeOK, InList
    <3>3. TypeOK'
      BY <3>1, <3>2 DEF TypeOK
    <3>4. reading' => length' > 0
      <4>1. length' # 0 => length' > 0
        BY <3>2
      <4> QED BY <3>1, <4>1
    <3> QED
      BY <3>1, <3>3, <3>4 DEF NoLeak, OneSession, InList, LiveList, NoneWithout
  <2>7. CASE SongEnds
    <3>1. /\ InLoop /\ UNCHANGED radio /\ NextSong(Advance(current))
          /\ session' = FALSE /\ sessions' = 0
      BY <2>7 DEF SongEnds, CloseSession, OneSession
    <3>2. Advance(current) \in 0 .. DOUBAN_SONG_MAX
      BY <3>1 DEF InLoop, InList, TypeOK, Advance
    <3> QED
      BY <3>1, <3>2, NextSongLemma DEF TypeOK, OneSession, NoneWithout
  <2>8. CASE douban_radio_close
    <3>1. CASE /\ FreesAgain
               /\ halted' = TRUE
               /\ UNCHANGED <<radio, list, current, session, sessions, over>>
      BY <2>8, <3>1 DEF douban_radio_close, list, TypeOK, NoLeak, OneSession,
                        InList, LiveList, NoneWithout
    <3>2. CASE /\ ~ FreesAgain
               /\ items' = Freed
               /\ IF session THEN CloseSession ELSE UNCHANGED <<session, sessions>>
               /\ radio' = FALSE /\ over' = FALSE
               /\ UNCHANGED <<size, current, halted>>
      <4>1. items' \in [Song -> {"null", "live", "freed"}]
        BY <3>2 DEF Freed, TypeOK
      <4>2. \A i \in Song : items'[i] # "live"
        BY <3>2 DEF Freed, Counted, TypeOK, NoLeak, Song
      <4>3. session' = FALSE /\ sessions' = 0
        BY <3>2 DEF CloseSession, OneSession, TypeOK
      <4> QED
        BY <2>8, <3>2, <4>1, <4>2, <4>3
        DEF douban_radio_close, TypeOK, NoLeak, OneSession, InList, LiveList,
            NoneWithout
    <3> QED BY <2>8, <3>1, <3>2 DEF douban_radio_close
  <2>9. CASE UNCHANGED vars
    BY <2>9 DEF vars, TypeOK, NoLeak, OneSession, InList, LiveList, NoneWithout
  <2> QED
    BY <2>1, <2>2, <2>3, <2>4, <2>5, <2>6, <2>7, <2>8, <2>9 DEF Next, Loop
<1> QED BY <1>1, <1>2, PTL DEF Spec

(* Every variable has its type.                                            *)
THEOREM TypeCorrect == Spec => []TypeOK
<1>1. IInv => TypeOK
  BY DEF IInv
<1> QED BY <1>1, Invariant, PTL

(* No url that was freed is opened or played, however loads and links      *)
(* fail.  (douban_radio.c:155)                                             *)
THEOREM LiveUrlTheorem == Spec => []LiveUrl
<1>1. IInv => LiveUrl
  BY SongAssumption DEF SongAssumption, IInv, TypeOK, InList, LiveList, LiveUrl, Song
<1> QED BY <1>1, Invariant, PTL

(* Strings and sessions are given back by the end of every radio.          *)
(* (douban_radio.c:200-221, 236-247)                                       *)
THEOREM NothingLeft == Spec => []GivenBack
<1>1. IInv => GivenBack
  BY DEF IInv, GivenBack
<1> QED BY <1>1, Invariant, PTL
=============================================================================
