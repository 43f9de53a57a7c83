--------------------------- MODULE ShoutcastProps ---------------------------
(* What shoutcast_session_read must do: the properties checked of          *)
(* Shoutcast.                                                              *)
EXTENDS Shoutcast, FiniteSets

(* Every variable has its type; the counters stay below their limits.      *)
TypeOK ==
  /\ open \in BOOLEAN
  /\ current_meta_chunk \in 0 .. Metaint - 1
  /\ first_meta_size \in {k * Unit : k \in MetaLength}
  /\ wire \in Seq(Byte) /\ received \in Seq(Byte) /\ buffer \in Seq(Byte)
  /\ Len(received) <= Length /\ result \in 0 .. Length
  /\ halted \in BOOLEAN /\ astray \in BOOLEAN

(* A call that returns gives back the music it has received, all of it and *)
(* nothing else, wherever the metadata begins - in the block, at its end or *)
(* not at all - until a length byte does not come, in a session that has   *)
(* not begun with the text of another.  (http.c:587-638)                   *)
OnlyMusic ==
  ~ astray =>
    /\ \A i \in 1 .. Len(buffer) : buffer[i] = Music
    /\ Len(buffer) =
         Cardinality({i \in 1 .. Len(received) : received[i] = Music})
    /\ result = Len(buffer)

\* What the counters say of the byte i of the wire.
Expected(i) ==
  IF i <= first_meta_size THEN {Text}
  ELSE IF i <= first_meta_size + (Metaint - current_meta_chunk) THEN {Music}
  ELSE {LengthByte(k) : k \in MetaLength}

(* The counters keep step with the server from block to block, so that a   *)
(* byte of music is never taken for a length: wherever blocks, short ones  *)
(* and sessions end, up to the same two.  (http.c:595-636)                 *)
InStep ==
  open /\ ~ astray =>
    \A i \in 1 .. first_meta_size + (Metaint - current_meta_chunk) + 1 :
      i <= Len(wire) => wire[i] \in Expected(i)

-----------------------------------------------------------------------------
(* The inductive invariant behind the three.                               *)

TextSize(k) == k * Unit

IsLength(byte) == \E k \in MetaLength : byte = LengthByte(k)

\* What follows the length byte k at p: its text, all of it, then music up to
\* the next length byte.
Follows(w, p, k) ==
  LET end == p + TextSize(k)
  IN /\ end <= Len(w)
     /\ \A i \in 1 .. Len(w) :
          /\ p < i /\ i <= end => w[i] = Text
          /\ end < i /\ i <= end + Metaint => w[i] = Music
          /\ i = end + Metaint + 1 => IsLength(w[i])

AllFollow(w) ==
  \A p \in 1 .. Len(w), k \in MetaLength :
    w[p] = LengthByte(k) => Follows(w, p, k)

\* The server sends whole chunks: what it has sent ends with a text.
EndsWhole(w, size, chunk) ==
  \/ Len(w) = size /\ chunk = 0
  \/ \E p \in 1 .. Len(w), k \in MetaLength :
       w[p] = LengthByte(k) /\ Len(w) = p + TextSize(k)

\* The text the counters know of, the rest of the music, a length byte.
StartsAs(w, size, chunk) ==
  LET next == size + (Metaint - chunk) + 1
  IN \A i \in 1 .. Len(w) :
       /\ i <= size => w[i] = Text
       /\ size < i /\ i < next => w[i] = Music
       /\ i = next => IsLength(w[i])

Framed(w, size, chunk) ==
  StartsAs(w, size, chunk) /\ AllFollow(w) /\ EndsWhole(w, size, chunk)

FrameInv ==
  open /\ ~ astray =>
    /\ first_meta_size > 0 => current_meta_chunk = 0
    /\ Framed(wire, first_meta_size, current_meta_chunk)

-----------------------------------------------------------------------------
(* What a comment of the code says and the code does not do.               *)

(* "skip meta data" (http.c:590, 625): the text is skipped wherever a call *)
(* ends, and no memmove is given a negative size for it.                   *)
MetaSkipped == ~ halted
=============================================================================
