------------------------------ MODULE Sockets ------------------------------
(***************************************************************************)
(* The sockets that stations (http.c), douban's songs and lists (http.c,   *)
(* douban_radio.c) and the update of the radio list (radio_list_update.c)  *)
(* share: lwIP's table of them, and what each connecting function takes    *)
(* for its handle.  http_connect returns the socket it has made;           *)
(* shoutcast_connect and radio_list_update_servicer_connect go on with the *)
(* result of connect, which is 0 when it succeeds, and so with whatever    *)
(* socket 0 is.                                                            *)
(*                                                                         *)
(* What is read is abstracted away: a session is known by the place of the *)
(* table it has made, and by the one it sends to, reads from and closes.   *)
(***************************************************************************)
EXTENDS Integers, FiniteSets

CONSTANTS
  NumSockets,   \* places of lwIP's table
  Stations,     \* sessions of shoutcast_session_open
  Downloads,    \* sessions of http_session_open
  Updates,      \* the update of the radio list
  None          \* no session, no socket

Sessions == Stations \cup Downloads \cup Updates
Slots == 0 .. NumSockets - 1

ASSUME NumSocketsAssumption == NumSockets \in Nat \ {0}
ASSUME SessionsAssumption ==
  /\ None \notin Sessions /\ None \notin Int
  /\ Stations \cap Downloads = {} /\ Stations \cap Updates = {}
  /\ Downloads \cap Updates = {}

VARIABLES
  conn,   \* the session that made the socket in each place, None if free
  pc,     \* where each session is
  made,   \* socket_handle: the place of its own socket
  peer,   \* session->socket, or peer_handle: the place it uses
  mixed   \* history: since the table was last empty, a station or an update
          \* has met another session, or a lost socket was in the table
vars == <<conn, pc, made, peer, mixed>>

Idle == {c \in Sessions : pc[c] = "idle"}
\* Places of the table that no session will ever close.
Leaked ==
  {i \in Slots : conn[i] # None /\ (conn[i] \in Idle \/ made[conn[i]] # i)}

-----------------------------------------------------------------------------
(* Plausible faults, each in the place of the definition of its idea.      *)

FaultFirstFree(i) ==          \* one place too many is looked at
  (i \in Slots => conn[i] = None) /\ \A j \in Slots : j < i => conn[j] # None
FaultHandle(c) ==             \* http_connect uses connect's result, too
  0
FaultErrorCloses(c) ==        \* connect's result is closed, not the socket
  {peer[c]}

Init ==
  /\ conn = [i \in Slots |-> None]
  /\ pc = [c \in Sessions |-> "idle"]
  /\ made = [c \in Sessions |-> None]
  /\ peer = [c \in Sessions |-> None]
  /\ mixed = FALSE

-----------------------------------------------------------------------------
(* lwIP's table.                                                           *)

FirstFree(i) ==
  i \in Slots /\ conn[i] = None /\ \A j \in Slots : j < i => conn[j] # None

\* Closing a place that is free, or that none has, is an error nobody reads.
Closing(places) ==
  conn' = [i \in Slots |-> IF i \in places THEN None ELSE conn[i]]

-----------------------------------------------------------------------------
(* A session: socket, connect, request and headers, reading, close.        *)

\* The player opens its stations one after the other; it does not wait for
\* the worker to close the one before.  Everything else may overlap.
Turn(c) == c \in Stations => \A d \in Stations : pc[d] \in {"idle", "open"}

Meets(c) ==
  IF Idle = Sessions /\ \A i \in Slots : conn[i] = None
  THEN FALSE
  ELSE \/ mixed \/ Leaked # {}
       \/ \E d \in Sessions \ Idle : ~ {c, d} \subseteq Downloads

\* socket() fails when no place is free: nothing has changed.
Socket(c) ==
  /\ pc[c] = "idle" /\ Turn(c)
  /\ \E i \in 0 .. NumSockets :
       /\ FirstFree(i)
       /\ conn' = [conn EXCEPT ![i] = c]
       /\ made' = [made EXCEPT ![c] = i]
  /\ pc' = [pc EXCEPT ![c] = "made"]
  /\ mixed' = Meets(c)
  /\ UNCHANGED peer

End(c) ==
  /\ pc' = [pc EXCEPT ![c] = "idle"]
  /\ made' = [made EXCEPT ![c] = None]
  /\ peer' = [peer EXCEPT ![c] = None]
  /\ UNCHANGED mixed

\* What each kind of session goes on with after connect.
Handle(c) == IF c \in Downloads THEN made[c] ELSE 0

Connect(c) ==
  /\ pc[c] = "made"
  /\ peer' = [peer EXCEPT ![c] = Handle(c)]
  /\ pc' = [pc EXCEPT ![c] = "connected"]
  /\ UNCHANGED <<conn, made, mixed>>

\* What is closed when connect fails, or when the station's server answers
\* with an error.
ErrorCloses(c) == {made[c]}

ConnectFails(c) ==
  /\ pc[c] = "made" /\ c \notin Downloads
  /\ Closing(ErrorCloses(c))
  /\ End(c)

\* The header says OK, or no header came at all: a recv of nothing is taken
\* for the blank line.
HeadersRead(c) ==
  /\ pc[c] = "connected"
  /\ conn[peer[c]] # None
  /\ pc' = [pc EXCEPT ![c] = "open"]
  /\ UNCHANGED <<conn, made, peer, mixed>>

StationOpens(c) == c \in Stations /\ HeadersRead(c)
DownloadOpens(c) == c \in Downloads /\ HeadersRead(c)
UpdateOpens(c) == c \in Updates /\ HeadersRead(c)

\* An error status, a wrong type of content, or nothing in the place it uses.
StationRefused(c) ==
  /\ pc[c] = "connected" /\ c \in Stations
  /\ Closing(ErrorCloses(c))
  /\ End(c)

UpdateRefused(c) ==
  /\ pc[c] = "connected" /\ c \in Updates
  /\ Closing({peer[c]})
  /\ End(c)

\* http_connect returns without closing.
HttpGivesUp(c) ==
  /\ pc[c] \in {"made", "connected"} /\ c \in Downloads
  /\ End(c)
  /\ UNCHANGED conn

\* radio.pls cannot be opened: update_radio_list returns.
NoFile(c) ==
  /\ pc[c] = "open" /\ c \in Updates
  /\ End(c)
  /\ UNCHANGED conn

\* The worker, or the player when the worker does not take the job; douban;
\* the update when its list has been read.
Close(c) ==
  /\ pc[c] = "open"
  /\ Closing({peer[c]})
  /\ End(c)

Next ==
  \E c \in Sessions :
    \/ Socket(c)
    \/ Connect(c) \/ ConnectFails(c)
    \/ StationOpens(c) \/ StationRefused(c)
    \/ UpdateOpens(c) \/ UpdateRefused(c)
    \/ DownloadOpens(c)
    \/ HttpGivesUp(c) \/ NoFile(c)
    \/ Close(c)

Spec == Init /\ [][Next]_vars
=============================================================================
