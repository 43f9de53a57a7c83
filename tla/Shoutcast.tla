----------------------------- MODULE Shoutcast -----------------------------
(***************************************************************************)
(* The stream of a station (http.c).  After every metaint bytes of music   *)
(* the server sends a byte that says how many times 16 bytes of text       *)
(* follow; shoutcast_session_read, which the net buffer's worker calls for *)
(* a block at a time, has to give back the music alone.  It knows where it *)
(* is by two counters: current_meta_chunk of the session, and              *)
(* first_meta_size, a static variable that outlives the session.           *)
(*                                                                         *)
(* Bytes are told apart by their kind only: Music, Text, or the length.    *)
(*                                                                         *)
(* Where a call ends inside a text, the size for memmove is negative and   *)
(* taken as unsigned, nearly 4 GB: it runs out of the memory, the worker   *)
(* never returns from it and nothing that follows is modelled (halted).    *)
(***************************************************************************)
EXTENDS Integers, Sequences, SequencesExt

CONSTANTS
  Length,    \* what a call asks for: NETBUF_BLOCK_SIZE
  Metaint,   \* the server's icy-metaint
  Unit,      \* bytes of text that the length byte counts as one (16)
  MaxMeta    \* the largest length byte (255)

ASSUME LengthAssumption == Length \in Nat \ {0}
ASSUME MetaAssumption ==
  /\ Unit \in Nat \ {0} /\ MaxMeta \in Nat
  /\ Unit * MaxMeta < Length        \* 4080 < 4096
  /\ Metaint \in Nat /\ Length < Metaint

MetaLength == 0 .. MaxMeta
Music == <<"music">>
Text == <<"text">>
LengthByte(k) == <<"length", k>>
Byte == {Music, Text} \cup {LengthByte(k) : k \in MetaLength}

\* What the code makes of a byte it takes for a length.
TakenFor(byte) ==
  {k \in MetaLength : byte[1] = "length" => byte = LengthByte(k)}

VARIABLES
  open,                \* there is a session
  current_meta_chunk,  \* bytes of music since the last metadata
  first_meta_size,     \* bytes of text at the start of the next block
  wire,                \* what the server has sent and nobody received
  received,            \* what the last call received ...
  buffer,              \* ... and gave back,
  result,              \* of what length
  halted,              \* memmove has been given a negative size
  astray               \* history: this session began with a text left by the
                       \* one before, or a length byte has not come
vars == <<open, current_meta_chunk, first_meta_size, wire, received, buffer,
          result, halted, astray>>

-----------------------------------------------------------------------------
(* Plausible faults, each in the place of the definition of its idea.      *)

FaultRest(chunk, n, meta) ==    \* the length byte itself is forgotten
  n - (Metaint - chunk) - meta
FaultSkip(b, from, count) ==    \* the text is left where it is
  b
FaultAtEnd(n) ==                \* the length byte counts as music
  current_meta_chunk + n = Metaint + 1

\* The bytes of b without count of them after the first from.
Skip(b, from, count) ==
  SubSeq(b, 1, from) \o SubSeq(b, from + count + 1, Len(b))

Init ==
  /\ open = FALSE /\ current_meta_chunk = 0 /\ first_meta_size = 0
  /\ wire = <<>> /\ received = <<>> /\ buffer = <<>> /\ result = 0
  /\ halted = FALSE /\ astray = FALSE

-----------------------------------------------------------------------------
(* The server.                                                             *)

Chunk(k) ==
  [i \in 1 .. Metaint + 1 + k * Unit |->
     CASE i <= Metaint -> Music
       [] i = Metaint + 1 -> LengthByte(k)
       [] OTHER -> Text]

\* Bound: no more is sent while a whole block is on the way.
ServerSends ==
  /\ open /\ Len(wire) < Length + 2
  /\ \E k \in MetaLength : wire' = wire \o Chunk(k)
  /\ UNCHANGED <<open, current_meta_chunk, first_meta_size, received, buffer,
                 result, halted, astray>>

-----------------------------------------------------------------------------
(* The session.                                                            *)

NothingYet == wire' = <<>> /\ received' = <<>> /\ buffer' = <<>> /\ result' = 0

\* The static first_meta_size is left as it is.
shoutcast_session_open ==
  /\ ~ halted /\ ~ open
  /\ open' = TRUE
  /\ current_meta_chunk' = 0
  /\ astray' = (first_meta_size # 0)
  /\ NothingYet
  /\ UNCHANGED <<first_meta_size, halted>>

shoutcast_session_close ==
  /\ ~ halted /\ open
  /\ open' = FALSE
  /\ NothingYet
  /\ UNCHANGED <<current_meta_chunk, first_meta_size, halted, astray>>

\* The loop of recv ends with the block, or earlier on a timeout or at the
\* end of the stream.
Receive(n) == ~ halted /\ open /\ n <= Len(wire)

Block(n) == SubSeq(wire, 1, n)

GiveBack(n, bytes, total) ==
  /\ received' = Block(n) /\ buffer' = bytes /\ result' = total
  /\ UNCHANGED <<open, halted>>

\* memmove takes its size as unsigned.
Halt ==
  /\ halted' = TRUE
  /\ UNCHANGED <<open, current_meta_chunk, first_meta_size, wire, received,
                 buffer, result, astray>>

\* "skip meta data" of the byte that was read before this block.
SkipText ==
  \E n \in 0 .. Length :
    /\ Receive(n)
    /\ first_meta_size > 0
    /\ \/ n < first_meta_size /\ Halt
       \/ /\ n >= first_meta_size
          /\ wire' = SubSeq(wire, n + 1, Len(wire))
          /\ GiveBack(n, Skip(Block(n), 0, first_meta_size),
                         n - first_meta_size)
          /\ current_meta_chunk' = n - first_meta_size
          /\ first_meta_size' = 0
          /\ UNCHANGED astray

\* Where the music ends: with the block, or inside it.
AtEnd(n) == current_meta_chunk + n = Metaint
Beyond(n) == current_meta_chunk + n > Metaint

\* The block ends where the metadata begins: "remove meta data in next
\* packet".  The recv of the length byte is not checked; without a byte the
\* variable has any value.
TakeLength ==
  \E n \in 0 .. Length, took \in {0, 1} :
    /\ Receive(n)
    /\ first_meta_size = 0 /\ AtEnd(n)
    /\ n + took <= Len(wire)
    /\ wire' = SubSeq(wire, n + took + 1, Len(wire))
    /\ \E k \in IF took = 1 THEN TakenFor(wire[n + 1]) ELSE MetaLength :
         first_meta_size' = k * Unit
    /\ astray' = (astray \/ took = 0)
    /\ current_meta_chunk' = 0
    /\ GiveBack(n, Block(n), n)

Rest(chunk, n, meta) == n - (Metaint - chunk) - (meta + 1)

\* The metadata is inside the block, at least its length byte.
SkipInside ==
  \E n \in 0 .. Length :
    /\ Receive(n)
    /\ first_meta_size = 0 /\ Beyond(n)
    /\ LET at == Metaint - current_meta_chunk
       IN \E k \in TakenFor(wire[at + 1]) :
            LET rest == Rest(current_meta_chunk, n, k * Unit)
            IN \/ rest < 0 /\ Halt
               \/ /\ rest >= 0
                  /\ wire' = SubSeq(wire, n + 1, Len(wire))
                  /\ GiveBack(n, Skip(Block(n), at, k * Unit + 1),
                                 n - (k * Unit + 1))
                  /\ current_meta_chunk' = rest
                  /\ UNCHANGED <<first_meta_size, astray>>

JustMusic ==
  \E n \in 0 .. Length :
    /\ Receive(n)
    /\ first_meta_size = 0 /\ ~ AtEnd(n) /\ ~ Beyond(n)
    /\ wire' = SubSeq(wire, n + 1, Len(wire))
    /\ GiveBack(n, Block(n), n)
    /\ current_meta_chunk' = current_meta_chunk + n
    /\ UNCHANGED <<first_meta_size, astray>>

shoutcast_session_read == SkipText \/ TakeLength \/ SkipInside \/ JustMusic

Next ==
  \/ ServerSends
  \/ shoutcast_session_open \/ shoutcast_session_close
  \/ shoutcast_session_read

Spec == Init /\ [][Next]_vars
=============================================================================
