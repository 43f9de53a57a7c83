------------------------------- MODULE Douban -------------------------------
(***************************************************************************)
(* The radio douban.fm (douban_radio.c): a list of songs, each an item of  *)
(* strings on the heap and an http session while it is played; at the end  *)
(* of the list the next one is loaded.  One thread at a time uses a radio: *)
(* the player opens it, the net buffer's worker reads and closes it.       *)
(*                                                                         *)
(* The four strings of an item are taken and freed together and stand for  *)
(* one, its url.  Left out are a list that does not give every string of   *)
(* every song, and one that is cut off in the middle of a song.            *)
(***************************************************************************)
EXTENDS Integers

CONSTANTS
  DOUBAN_SONG_MAX,  \* songs of a list
  Room              \* pieces of more than 32 bytes that fill a call's block

ASSUME SongAssumption == DOUBAN_SONG_MAX \in Nat \ {0}
ASSUME RoomAssumption == Room \in Nat \ {0}

Song == 1 .. DOUBAN_SONG_MAX

VARIABLES
  radio,     \* there is a struct douban_radio
  items,     \* the string of each item: "null", "live" or "freed"
  size, current,
  session,   \* the current song has a session
  sessions,  \* http sessions opened and not closed
  reading,   \* the worker is in the loop of douban_radio_read
  length,    \* room left in its block
  over,      \* the last call gave back nothing: the job will end
  halted     \* rt_free has found a string that is not in use
list == <<items, size>>
call == <<reading, length, over>>
vars == <<radio, items, size, current, session, sessions, reading, length, over, halted>>

-----------------------------------------------------------------------------
(* Plausible faults, each in the place of the definition of its idea.      *)

FaultAtEnd(c) ==         \* > for >=
  c > size
FaultAdvance(c) ==       \* a song that has ended is opened again
  c
FaultCounted ==          \* the songs played are freed, not all
  1 .. current
FaultCloseSession ==     \* the session is forgotten, not closed
  session' = FALSE /\ UNCHANGED sessions
FaultSongs(n) ==         \* the item is filled one place too far
  2 .. n + 1

Init ==
  /\ radio = FALSE
  /\ items = [i \in Song |-> "null"] /\ size = 0 /\ current = 0
  /\ session = FALSE /\ sessions = 0
  /\ reading = FALSE /\ length = 0 /\ over = FALSE /\ halted = FALSE

-----------------------------------------------------------------------------
(* The list.                                                               *)

\* The items that a list frees: as many as it has songs.
Counted == 1 .. size
Freed == [i \in Song |-> IF i \in Counted /\ items[i] = "live" THEN "freed"
                         ELSE items[i]]

\* rt_free asserts that what it is given is in use.
FreesAgain == \E i \in Counted : items[i] = "freed"

\* The items that the parser's callback fills for n songs.
Songs(n) == 1 .. n

\* douban_radio_playlist_load, reached with song c: the old strings are freed,
\* and the numbers are reset only after the new list has arrived, which takes
\* memory and a connection.  No caller has a session open.
douban_radio_playlist_load(c) ==
  \/ /\ FreesAgain
     /\ halted' = TRUE /\ current' = c
     /\ UNCHANGED list
  \/ /\ ~ FreesAgain
     /\ items' = Freed /\ current' = c
     /\ UNCHANGED <<size, halted>>
  \/ /\ ~ FreesAgain
     /\ \E n \in 0 .. DOUBAN_SONG_MAX :
          /\ size' = n
          /\ items' = [i \in Song |-> IF i \in Songs(n) THEN "live" ELSE Freed[i]]
     /\ current' = 0
     /\ UNCHANGED halted

\* A new radio has no strings of an earlier one; without songs it is given up.
douban_radio_open ==
  /\ ~ radio /\ ~ halted
  /\ \E n \in 0 .. DOUBAN_SONG_MAX :
       /\ radio' = (n # 0) /\ size' = n
       /\ items' = [i \in Song |-> IF i \in Songs(n) THEN "live" ELSE "null"]
  /\ current' = 0 /\ session' = FALSE
  /\ UNCHANGED <<sessions, call, halted>>

-----------------------------------------------------------------------------
(* douban_radio_read.                                                      *)

AtEnd(c) == c >= size
Advance(c) == c + 1

CloseSession == session' = FALSE /\ sessions' = sessions - 1

Called == radio /\ ~ reading /\ ~ over /\ ~ halted

\* A call after the last song loads the next list and gives back nothing.
ReadAtEnd ==
  /\ Called /\ AtEnd(current)
  /\ douban_radio_playlist_load(current)
  /\ over' = TRUE
  /\ UNCHANGED <<radio, session, sessions, reading, length>>

douban_radio_read ==
  /\ Called /\ ~ AtEnd(current)
  /\ reading' = TRUE /\ length' = Room
  /\ UNCHANGED <<radio, list, current, session, sessions, over, halted>>

InLoop == reading /\ ~ halted

\* The loop goes on with song c, or the call ends with what it has.
GoOn(c) ==
  /\ ~ AtEnd(c)
  /\ current' = c
  /\ UNCHANGED <<list, call, halted>>

LoadAndBreak(c) ==
  /\ AtEnd(c)
  /\ douban_radio_playlist_load(c)
  /\ reading' = FALSE /\ length' = 0
  /\ over' = (length = Room)

NextSong(c) == GoOn(c) \/ LoadAndBreak(c)

OpenSong ==
  /\ InLoop /\ ~ session
  /\ session' = TRUE /\ sessions' = sessions + 1
  /\ UNCHANGED <<radio, list, current, call, halted>>

\* "can't open this link": after the last song the call ends; otherwise the
\* session, RT_NULL, is read and closed, and takes the next song with it.
\* That http_session_read finds no data at the null pointer is assumed: the
\* code does not say what the reads of http.c:336 and 368 find there.
OpenFails ==
  /\ InLoop /\ ~ session
  /\ \/ LoadAndBreak(Advance(current))
     \/ /\ ~ AtEnd(Advance(current))
        /\ NextSong(Advance(Advance(current)))
  /\ UNCHANGED <<radio, session, sessions>>

SongData ==
  /\ InLoop /\ session
  /\ length' = length - 1
  /\ reading' = (length' # 0) /\ over' = FALSE
  /\ UNCHANGED <<radio, list, current, session, sessions, halted>>

SongEnds ==
  /\ InLoop /\ session
  /\ CloseSession
  /\ NextSong(Advance(current))
  /\ UNCHANGED radio

Loop == OpenSong \/ OpenFails \/ SongData \/ SongEnds

-----------------------------------------------------------------------------
(* The end of the job, by itself or because the player stops it.           *)

douban_radio_close ==
  /\ radio /\ ~ reading /\ ~ halted
  /\ \/ /\ FreesAgain
        /\ halted' = TRUE
        /\ UNCHANGED <<radio, list, current, session, sessions, over>>
     \/ /\ ~ FreesAgain
        /\ items' = Freed
        /\ IF session THEN CloseSession ELSE UNCHANGED <<session, sessions>>
        /\ radio' = FALSE /\ over' = FALSE
        /\ UNCHANGED <<size, current, halted>>
  /\ UNCHANGED <<reading, length>>

Next ==
  \/ douban_radio_open \/ ReadAtEnd \/ douban_radio_read \/ Loop
  \/ douban_radio_close

Spec == Init /\ [][Next]_vars

\* The worker runs, and a session's socket answers or times out.
FairSpec == Spec /\ WF_vars(Loop)
=============================================================================
