---------------------------- MODULE SocketsProofs ----------------------------
(* Proofs about Sockets for every size of the table and all sets of        *)
(* sessions, overlapping in every way.                                     *)
EXTENDS SocketsProps, TLAPS

LEMMA InitHolds == Init => IInv
<1> SUFFICES ASSUME Init PROVE IInv
  OBVIOUS
<1> USE DEF Init
<1>1. TypeOK
  BY DEF TypeOK
<1>2. Idle = Sessions
  BY DEF Idle
<1> QED
  BY <1>1, <1>2 DEF IInv, Held, HandleKnown, Apart

(* Who makes a socket either is the first in an empty table, or mixes, or  *)
(* is a download among downloads.                                          *)
LEMMA MeetsCases ==
  ASSUME IInv, NEW c \in Sessions, pc[c] = "idle", ~ Meets(c)
  PROVE  \/ \A d \in Sessions : d \in Idle
         \/ ~ mixed /\ c \in Downloads /\ Sessions \ Idle \subseteq Downloads
<1> USE SessionsAssumption DEF IInv
<1>1. CASE Idle = Sessions
  BY <1>1
<1>2. CASE Idle # Sessions
  <2>1. ~ mixed /\ \A d \in Sessions \ Idle : {c, d} \subseteq Downloads
    BY <1>2 DEF Meets
  <2>2. PICK d \in Sessions : d \notin Idle
    BY <1>2 DEF Idle
  <2> QED
    BY <2>1, <2>2
<1> QED
  BY <1>1, <1>2

(* Unmixed and with every session idle, the table is empty.                *)
LEMMA MeetsEmpty ==
  ASSUME IInv, NEW c \in Sessions, ~ Meets(c), \A d \in Sessions : d \in Idle,
         NEW j \in Slots
  PROVE conn[j] = None
<1> USE SessionsAssumption DEF IInv
<1> SUFFICES ASSUME conn[j] # None PROVE FALSE
  OBVIOUS
<1>1. conn[j] \in Idle
  BY DEF TypeOK
<1>2. j \in Leaked
  BY <1>1 DEF Leaked
<1> QED
  BY <1>2 DEF Meets

(* A socket is made in a place that was free.                              *)
LEMMA SocketKeeps ==
  ASSUME IInv, NEW c \in Sessions, Socket(c)
  PROVE IInv'
<1> USE SessionsAssumption DEF IInv
<1> PICK i \in Slots : /\ conn[i] = None
                       /\ \A j \in Slots : j < i => conn[j] # None
                       /\ conn' = [conn EXCEPT ![i] = c]
                       /\ made' = [made EXCEPT ![c] = i]
  BY DEF Socket, FirstFree
<1>0. /\ pc[c] = "idle"
      /\ pc' = [pc EXCEPT ![c] = "made"]
      /\ peer' = peer
      /\ mixed' = Meets(c)
  BY DEF Socket
<1>1. TypeOK'
  <2>1. Meets(c) \in BOOLEAN
    BY DEF Meets, TypeOK
  <2> QED
    BY <1>0, <2>1 DEF TypeOK
<1>2. Idle' = Idle \ {c} /\ c \in Idle
  BY <1>0 DEF Idle, TypeOK
<1>3. ASSUME NEW d \in Sessions \ Idle', d # c
      PROVE d \in Sessions \ Idle /\ made'[d] = made[d]
  BY <1>2, <1>3 DEF TypeOK
<1>4. made'[c] = i /\ conn'[i] = c
  BY DEF TypeOK
<1>5. Held'
  <2> SUFFICES ASSUME NEW d \in Sessions \ Idle'
               PROVE /\ made'[d] \in Slots
                     /\ made'[d] # 0 => conn'[made'[d]] = d
    BY DEF Held
  <2>1. CASE d = c
    BY <1>4, <2>1
  <2>2. CASE d # c
    <3>1. made[d] \in Slots /\ (made[d] # 0 => conn[made[d]] = d)
      BY <1>3, <2>2 DEF Held
    <3>2. made[d] # 0 => made[d] # i
      BY <3>1
    <3> QED
      BY <1>3, <2>2, <3>1, <3>2 DEF TypeOK
  <2> QED
    BY <2>1, <2>2
<1>6. HandleKnown'
  BY <1>0 DEF HandleKnown, Handle, TypeOK
<1>7. Apart'
  <2> SUFFICES ASSUME ~ Meets(c), NEW d \in Sessions \ Idle'
               PROVE /\ conn'[made'[d]] = d
                     /\ d \notin Downloads
                          => made'[d] = 0 /\ Sessions \ Idle' = {d}
    BY <1>0 DEF Apart
  <2>1. CASE \A e \in Sessions : e \in Idle
    <3>1. d = c /\ Sessions \ Idle' = {c}
      BY <1>2, <2>1
    <3>2. i = 0
      <4>1. 0 \in Slots /\ i \in Nat
        BY NumSocketsAssumption DEF Slots
      <4>2. conn[0] = None
        BY <2>1, <4>1, MeetsEmpty
      <4> QED
        BY <4>1, <4>2
    <3> QED
      BY <1>4, <3>1, <3>2
  <2>2. CASE ~ \A e \in Sessions : e \in Idle
    <3>1. ~ mixed /\ c \in Downloads /\ Sessions \ Idle \subseteq Downloads
      BY <1>0, <2>2, MeetsCases
    <3>2. d \in Downloads
      BY <1>3, <3>1
    <3>3. CASE d = c
      BY <1>4, <3>2, <3>3
    <3>4. CASE d # c
      <4>1. conn[made[d]] = d /\ made[d] \in Slots
        BY <1>3, <3>1, <3>4 DEF Apart, Held
      <4>2. made[d] # i
        BY <4>1
      <4> QED
        BY <1>3, <3>2, <3>4, <4>1, <4>2 DEF TypeOK
    <3> QED
      BY <3>3, <3>4
  <2> QED
    BY <2>1, <2>2
<1> QED
  BY <1>1, <1>5, <1>6, <1>7

(* connect and the headers change neither table nor places.                *)
LEMMA MovesKeep ==
  ASSUME IInv, NEW c \in Sessions, Connect(c) \/ HeadersRead(c)
  PROVE IInv'
<1> USE SessionsAssumption, NumSocketsAssumption DEF IInv
<1>0. /\ conn' = conn /\ made' = made /\ mixed' = mixed
      /\ pc[c] # "idle"
      /\ \E s \in {"connected", "open"} : pc' = [pc EXCEPT ![c] = s]
  BY DEF Connect, HeadersRead
<1>1. TypeOK'
  <2>1. CASE Connect(c)
    <3>1. Handle(c) \in Slots
      <4>1. made[c] \in Slots
        BY <1>0 DEF Held, Idle
      <4>2. 0 \in Slots
        BY DEF Slots
      <4> QED
        BY <4>1, <4>2 DEF Handle
    <3> QED
      BY <2>1, <3>1 DEF TypeOK, Connect
  <2>2. CASE HeadersRead(c)
    BY <2>2 DEF TypeOK, HeadersRead
  <2> QED
    BY <2>1, <2>2
<1>2. Idle' = Idle
  BY <1>0 DEF Idle, TypeOK
<1>3. Held' /\ Apart'
  BY <1>0, <1>2 DEF Held, Apart
<1>4. HandleKnown'
  <2>1. CASE Connect(c)
    BY <2>1 DEF HandleKnown, Handle, Connect, TypeOK
  <2>2. CASE HeadersRead(c)
    BY <2>2 DEF HandleKnown, Handle, HeadersRead, TypeOK
  <2> QED
    BY <2>1, <2>2
<1> QED
  BY <1>1, <1>3, <1>4

(* A session ends: what is closed is its own socket or place 0, and a      *)
(* download closes nothing but its own.                                    *)
LEMMA EndKeeps ==
  ASSUME IInv, NEW c \in Sessions, pc[c] # "idle", End(c),
         NEW places, Closing(places),
         \A i \in places : i = made[c] \/ (i = 0 /\ c \notin Downloads)
  PROVE IInv'
<1> USE SessionsAssumption DEF IInv
<1>0. /\ pc' = [pc EXCEPT ![c] = "idle"]
      /\ made' = [made EXCEPT ![c] = None]
      /\ peer' = [peer EXCEPT ![c] = None]
      /\ conn' = [i \in Slots |-> IF i \in places THEN None ELSE conn[i]]
      /\ mixed' = mixed
  BY DEF End, Closing
<1>1. TypeOK'
  BY <1>0 DEF TypeOK
<1>2. Idle' = Idle \cup {c} /\ c \notin Idle
  BY <1>0 DEF Idle, TypeOK
<1>3. ASSUME NEW d \in Sessions \ Idle'
      PROVE d \in Sessions \ Idle /\ d # c /\ made'[d] = made[d]
  BY <1>0, <1>2, <1>3 DEF TypeOK
<1>4. Held'
  <2> SUFFICES ASSUME NEW d \in Sessions \ Idle'
               PROVE /\ made'[d] \in Slots
                     /\ made'[d] # 0 => conn'[made'[d]] = d
    BY DEF Held
  <2>1. made[d] \in Slots /\ (made[d] # 0 => conn[made[d]] = d)
    BY <1>3 DEF Held
  <2>2. made[d] # 0 => made[d] # made[c]
    BY <1>2, <1>3, <2>1 DEF Held
  <2> QED
    BY <1>0, <1>3, <2>1, <2>2
<1>5. HandleKnown'
  BY <1>0 DEF HandleKnown, Handle, TypeOK
<1>6. Apart'
  <2> SUFFICES ASSUME ~ mixed, NEW d \in Sessions \ Idle'
               PROVE /\ conn'[made'[d]] = d
                     /\ d \notin Downloads
                          => made'[d] = 0 /\ Sessions \ Idle' = {d}
    BY <1>0 DEF Apart
  <2>1. c \in Downloads /\ d \in Downloads
    BY <1>2, <1>3 DEF Apart
  <2>2. conn[made[c]] = c /\ conn[made[d]] = d /\ made[d] \in Slots
    BY <1>2, <1>3 DEF Apart, Held
  <2>3. made[d] \notin places
    BY <1>3, <2>1, <2>2
  <2> QED
    BY <1>0, <1>3, <2>1, <2>2, <2>3
<1> QED
  BY <1>1, <1>4, <1>5, <1>6

(* What a session closes when it ends.                                     *)
LEMMA EndCases ==
  ASSUME IInv, NEW c \in Sessions,
         \/ ConnectFails(c) \/ StationRefused(c) \/ UpdateRefused(c)
         \/ HttpGivesUp(c) \/ NoFile(c) \/ Close(c)
  PROVE /\ pc[c] # "idle" /\ End(c)
        /\ \E places :
             /\ Closing(places)
             /\ \A i \in places : i = made[c] \/ (i = 0 /\ c \notin Downloads)
             /\ \/ made[c] \in places
                \/ HttpGivesUp(c) \/ NoFile(c)
                \/ 0 \in places /\ c \notin Downloads
                     /\ (Close(c) \/ UpdateRefused(c))
<1>1. CASE ConnectFails(c) \/ StationRefused(c)
  <2>1. pc[c] # "idle" /\ End(c) /\ Closing({made[c]})
    BY <1>1 DEF ConnectFails, StationRefused, ErrorCloses
  <2> QED
    BY <2>1
<1>2. CASE HttpGivesUp(c) \/ NoFile(c)
  <2>1. pc[c] # "idle" /\ End(c) /\ conn' = conn
    BY <1>2 DEF HttpGivesUp, NoFile
  <2>2. Closing({})
    <3>1. conn = [i \in Slots |-> conn[i]]
      BY DEF IInv, TypeOK
    <3> QED
      BY <2>1, <3>1 DEF Closing
  <2>3. \A i \in {} : i = made[c] \/ (i = 0 /\ c \notin Downloads)
    OBVIOUS
  <2> QED
    BY <1>2, <2>1, <2>2, <2>3
<1>3. CASE Close(c) \/ UpdateRefused(c)
  <2>1. pc[c] # "idle" /\ End(c) /\ Closing({peer[c]}) /\ peer[c] = Handle(c)
    BY <1>3 DEF Close, UpdateRefused, IInv, HandleKnown
  <2>2. CASE c \in Downloads
    BY <2>1, <2>2 DEF Handle
  <2>3. CASE c \notin Downloads
    <3>1. Closing({0})
      BY <2>1, <2>3 DEF Handle
    <3> QED
      BY <1>3, <2>1, <2>3, <3>1
  <2> QED
    BY <2>2, <2>3
<1> QED
  BY <1>1, <1>2, <1>3

(* One step, one case per kind of action.                                  *)
LEMMA StepHolds ==
  ASSUME IInv, [Next]_vars
  PROVE IInv'
<1>1. CASE UNCHANGED vars
  BY <1>1 DEF vars, IInv, TypeOK, Held, HandleKnown, Handle, Apart, Idle
<1>2. CASE Next
  <2> PICK c \in Sessions :
        \/ Socket(c) \/ Connect(c) \/ HeadersRead(c)
        \/ ConnectFails(c) \/ StationRefused(c) \/ UpdateRefused(c)
        \/ HttpGivesUp(c) \/ NoFile(c) \/ Close(c)
    BY <1>2 DEF Next, StationOpens, DownloadOpens, UpdateOpens
  <2>1. CASE Socket(c)
    BY <2>1, SocketKeeps
  <2>2. CASE Connect(c) \/ HeadersRead(c)
    BY <2>2, MovesKeep
  <2>3. CASE \/ ConnectFails(c) \/ StationRefused(c) \/ UpdateRefused(c)
             \/ HttpGivesUp(c) \/ NoFile(c) \/ Close(c)
    BY <2>3, EndCases, EndKeeps
  <2> QED
    BY <2>1, <2>2, <2>3
<1> QED
  BY <1>1, <1>2

LEMMA Invariant == Spec => []IInv
<1>1. IInv /\ [Next]_vars => IInv'
  BY StepHolds
<1> QED
  BY <1>1, InitHolds, PTL DEF Spec

(* The types of the table and of every session.                            *)
THEOREM TypeCorrect == Spec => []TypeOK
<1>1. IInv => TypeOK
  BY DEF IInv
<1> QED
  BY <1>1, Invariant, PTL

(* A download above place 0 uses the socket it has made whatever the       *)
(* others do, and every session does as long as no station or update has   *)
(* met another session or a lost socket: for every size of the table and   *)
(* number of sessions.  (http.c:225-288, 397-511;                          *)
(* radio_list_update.c:56-133)                                             *)
THEOREM OwnStreamTheorem == Spec => []OwnStream
<1>1. IInv => OwnStream
  <2> SUFFICES ASSUME IInv, NEW c \in Sessions \ Idle, pc[c] # "made",
                      (c \in Downloads /\ made[c] # 0) \/ ~ mixed
               PROVE UsesItsOwn(c)
    BY DEF OwnStream
  <2>1. pc[c] \in {"connected", "open"}
    BY DEF IInv, TypeOK, Idle
  <2>2. peer[c] = Handle(c)
    BY <2>1 DEF IInv, HandleKnown
  <2>3. conn[made[c]] = c
    BY DEF IInv, Held, Apart
  <2>4. c \notin Downloads => made[c] = 0
    BY DEF IInv, Apart
  <2> QED
    BY <2>2, <2>3, <2>4 DEF UsesItsOwn, Handle
<1> QED
  BY <1>1, Invariant, PTL

(* A place that is lost at the end of a session is its own, not closed.    *)
LEMMA LostAtEnd ==
  ASSUME IInv, NEW c \in Sessions, pc[c] # "idle", End(c),
         NEW places, Closing(places), NEW j \in Leaked' \ Leaked
  PROVE made[c] = j /\ j \notin places
<1> USE SessionsAssumption DEF IInv
<1>1. /\ j \in Slots /\ conn'[j] # None
      /\ conn'[j] \in Idle' \/ made'[conn'[j]] # j
  BY DEF Leaked
<1>2. conn'[j] = conn[j] /\ j \notin places
  BY <1>1 DEF Closing
<1>3. conn[j] \in Sessions \ Idle /\ made[conn[j]] = j
  BY <1>1, <1>2 DEF Leaked, TypeOK
<1>4. conn[j] # c => conn[j] \notin Idle' /\ made'[conn[j]] = j
  BY <1>3 DEF End, Idle, TypeOK
<1> QED
  BY <1>1, <1>2, <1>3, <1>4

(* Every lost socket is lost by http_connect's returns, by an update       *)
(* without a file, or, after an overlap, by a station or an update that    *)
(* closes place 0 and not its own.  (http.c:229, 258, 274, 651;            *)
(* radio_list_update.c:89-113, 172, 195)                                   *)
THEOREM LostOnlyThereTheorem == Spec => LostOnlyThere
<1> DEFINE Way(c, i) ==
             /\ made[c] = i
             /\ \/ HttpGivesUp(c) \/ NoFile(c)
                \/ mixed /\ i # 0 /\ c \notin Downloads
                     /\ (Close(c) \/ UpdateRefused(c))
           There == \A i \in Leaked' \ Leaked : \E c \in Sessions : Way(c, i)
<1>1. ASSUME IInv, [Next]_vars PROVE [There]_vars
  <2> SUFFICES ASSUME Next, NEW j \in Leaked' \ Leaked
               PROVE \E c \in Sessions : Way(c, j)
    BY <1>1
  <2> USE SessionsAssumption
  <2> PICK c \in Sessions :
        \/ Socket(c) \/ Connect(c) \/ HeadersRead(c)
        \/ ConnectFails(c) \/ StationRefused(c) \/ UpdateRefused(c)
        \/ HttpGivesUp(c) \/ NoFile(c) \/ Close(c)
    BY DEF Next, StationOpens, DownloadOpens, UpdateOpens
  <2>1. CASE Socket(c)
    <3> PICK i \in Slots : /\ conn[i] = None
                           /\ conn' = [conn EXCEPT ![i] = c]
                           /\ made' = [made EXCEPT ![c] = i]
      BY <2>1 DEF Socket, FirstFree
    <3>1. /\ j \in Slots /\ conn'[j] # None
          /\ conn'[j] \in Idle' \/ made'[conn'[j]] # j
      BY DEF Leaked
    <3>2. c \in Idle /\ Idle' = Idle \ {c}
      BY <1>1, <2>1 DEF Socket, Idle, IInv, TypeOK
    <3>3. j # i
      BY <1>1, <3>1, <3>2 DEF IInv, TypeOK
    <3>4. conn[j] \in Sessions \ Idle /\ made[conn[j]] = j
      BY <1>1, <3>1, <3>3 DEF Leaked, IInv, TypeOK
    <3> QED
      BY <1>1, <3>1, <3>2, <3>3, <3>4 DEF IInv, TypeOK
  <2>2. CASE Connect(c) \/ HeadersRead(c)
    <3>1. /\ conn' = conn /\ made' = made /\ pc[c] # "idle"
          /\ \E st \in {"connected", "open"} : pc' = [pc EXCEPT ![c] = st]
      BY <2>2 DEF Connect, HeadersRead
    <3>2. Idle' = Idle
      BY <1>1, <3>1 DEF Idle, IInv, TypeOK
    <3> QED
      BY <3>1, <3>2 DEF Leaked
  <2>3. CASE \/ ConnectFails(c) \/ StationRefused(c) \/ UpdateRefused(c)
             \/ HttpGivesUp(c) \/ NoFile(c) \/ Close(c)
    <3>1. pc[c] # "idle" /\ End(c)
      BY <1>1, <2>3, EndCases
    <3> PICK places :
          /\ Closing(places)
          /\ \/ made[c] \in places
             \/ HttpGivesUp(c) \/ NoFile(c)
             \/ 0 \in places /\ c \notin Downloads
                  /\ (Close(c) \/ UpdateRefused(c))
      BY <1>1, <2>3, EndCases
    <3>2. made[c] = j /\ j \notin places
      BY <1>1, <3>1, LostAtEnd
    <3>3. CASE HttpGivesUp(c) \/ NoFile(c)
      BY <3>2, <3>3
    <3>4. CASE 0 \in places /\ c \notin Downloads
                 /\ (Close(c) \/ UpdateRefused(c))
      <4>1. j # 0
        BY <3>2, <3>4
      <4>2. c \in Sessions \ Idle
        BY <3>1 DEF Idle
      <4>3. mixed
        BY <1>1, <3>2, <3>4, <4>1, <4>2 DEF IInv, Apart
      <4> QED
        BY <3>2, <3>4, <4>1, <4>3
    <3> QED
      BY <3>2, <3>3, <3>4
  <2> QED
    BY <2>1, <2>2, <2>3
<1>2. [][There]_vars <=> LostOnlyThere
  BY DEF LostOnlyThere
<1> HIDE DEF There
<1> QED
  BY <1>1, <1>2, Invariant, PTL DEF Spec
=============================================================================
