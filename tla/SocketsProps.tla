---------------------------- MODULE SocketsProps ----------------------------
(* Whose socket a session uses, and which sockets are lost: the properties *)
(* checked of Sockets.                                                     *)
EXTENDS Sockets

(* Every variable has its type.                                            *)
TypeOK ==
  /\ conn \in [Slots -> Sessions \cup {None}]
  /\ pc \in [Sessions -> {"idle", "made", "connected", "open"}]
  /\ made \in [Sessions -> Slots \cup {None}]
  /\ peer \in [Sessions -> Slots \cup {None}]
  /\ mixed \in BOOLEAN

\* The session sends to, reads from and will close the socket it has made,
\* and that is still there.
UsesItsOwn(c) == peer[c] = made[c] /\ conn[made[c]] = c

(* A connected session uses the socket it has made: a download above place *)
(* 0 whatever the others do, and every session as long as no station or    *)
(* update has met another session and no socket was lost before it.  Short *)
(* of that a session of any kind may lose place 0 to a station or an       *)
(* update, which use and close it whosever it is.  (http.c:225-288,        *)
(* 397-511; radio_list_update.c:56-133)                                    *)
OwnStream ==
  \A c \in Sessions \ Idle :
    pc[c] # "made" /\ ((c \in Downloads /\ made[c] # 0) \/ ~ mixed)
      => UsesItsOwn(c)

(* Every socket that is lost is the own one of a session that ends, in one *)
(* of these ways: http_connect returns from an error without closing, an   *)
(* update cannot write its file, or a station or an update, having met     *)
(* another session, closes place 0 and not its own.  All the other ways    *)
(* out give the socket back.  (http.c:229, 258, 274, 651;                  *)
(* radio_list_update.c:89-113, 172, 195)                                   *)
LostOnlyThere ==
  [][\A i \in Leaked' \ Leaked :
       \E c \in Sessions :
         /\ made[c] = i
         /\ \/ HttpGivesUp(c) \/ NoFile(c)
            \/ mixed /\ i # 0 /\ c \notin Downloads
                 /\ (Close(c) \/ UpdateRefused(c))]_vars

-----------------------------------------------------------------------------
(* The inductive invariant.                                                *)

HandleKnown ==
  \A c \in Sessions : pc[c] \in {"connected", "open"} => peer[c] = Handle(c)

\* The socket of a session is in the table until the session ends, unless it
\* has place 0.
Held ==
  \A c \in Sessions \ Idle :
    made[c] \in Slots /\ (made[c] # 0 => conn[made[c]] = c)

\* Unmixed, place 0 is held, too, and a station or an update is alone there.
Apart ==
  ~ mixed
    => \A c \in Sessions \ Idle :
         /\ conn[made[c]] = c
         /\ c \notin Downloads => made[c] = 0 /\ Sessions \ Idle = {c}

IInv == TypeOK /\ HandleKnown /\ Held /\ Apart

-----------------------------------------------------------------------------
(* What a comment of the code says and the code does not do.               *)

(* "http connect returns valid socket.  Save in handle list."              *)
(* (http.c:555): the socket of a station that is open is the one made for  *)
(* it.  http.c:397 keeps connect's result instead.                         *)
ValidSocket ==
  \A c \in Stations : pc[c] = "open" => UsesItsOwn(c)
=============================================================================
