-------------------------- MODULE ShoutcastProofs --------------------------
(* The counters of the stream keep step with the server and the music is   *)
(* given back alone, for every length of a block, of the music between the *)
(* metadata and of its text, wherever calls and sessions end.              *)
EXTENDS ShoutcastProps, SequenceTheorems, FiniteSetTheorems, TLAPS

\* The three kinds of byte differ, and a length byte says one length.
LEMMA Bytes ==
  /\ Text \in Byte /\ Music \in Byte /\ Text # Music
  /\ \A k \in MetaLength :
       /\ LengthByte(k) \in Byte
       /\ LengthByte(k) # Text /\ LengthByte(k) # Music
       /\ TakenFor(LengthByte(k)) = {k}
<1>1. /\ Len(Text) = 1 /\ Len(Music) = 1
      /\ Text[1] = "text" /\ Music[1] = "music"
  BY DEF Text, Music
<1>2. ASSUME NEW k \in MetaLength
      PROVE  /\ Len(LengthByte(k)) = 2
             /\ LengthByte(k)[1] = "length" /\ LengthByte(k)[2] = k
  BY DEF LengthByte
<1>3. Text # Music
  BY <1>1
<1>4. \A k \in MetaLength : LengthByte(k) # Text /\ LengthByte(k) # Music
  BY <1>1, <1>2
<1>5. \A k, j \in MetaLength : LengthByte(k) = LengthByte(j) => k = j
  BY <1>2
<1>6. \A k \in MetaLength : TakenFor(LengthByte(k)) = {k}
  BY <1>2, <1>5 DEF TakenFor
<1>7. QED
  BY <1>3, <1>4, <1>6 DEF Byte

\* A byte is of one kind.
LEMMA Kinds ==
  /\ ~ IsLength(Text) /\ ~ IsLength(Music)
  /\ \A byte : IsLength(byte) => byte # Text /\ byte # Music
BY Bytes DEF IsLength

\* The text of a length byte is shorter than a block.
LEMMA TextFits ==
  ASSUME NEW k \in MetaLength
  PROVE  TextSize(k) \in Nat /\ TextSize(k) < Length
<1>1. /\ k \in Nat /\ MaxMeta \in Nat /\ Unit \in Nat /\ MaxMeta - k \in Nat
      /\ Unit * MaxMeta < Length /\ Length \in Nat
  BY MetaAssumption, LengthAssumption DEF MetaLength
<1>2. /\ k * Unit \in Nat /\ (MaxMeta - k) * Unit \in Nat
      /\ Unit * MaxMeta = k * Unit + (MaxMeta - k) * Unit
  BY <1>1
<1>3. QED
  BY <1>1, <1>2 DEF TextSize

\* The sizes.
LEMMA Sizes ==
  Metaint \in Nat /\ Length \in Nat /\ 0 < Length /\ Length < Metaint
BY LengthAssumption, MetaAssumption

\* What is left of a sequence without its first n elements.
LEMMA DropFirst ==
  ASSUME NEW S, NEW s \in Seq(S), NEW n \in 0 .. Len(s)
  PROVE  /\ SubSeq(s, n + 1, Len(s)) \in Seq(S)
         /\ Len(SubSeq(s, n + 1, Len(s))) = Len(s) - n
         /\ \A i \in 1 .. Len(s) - n : SubSeq(s, n + 1, Len(s))[i] = s[n + i]
<1> DEFINE t == SubSeq(s, n + 1, Len(s))
<1>1. Len(s) \in Nat /\ \A i \in 1 .. Len(s) : s[i] \in S
  BY LenProperties
<1>2. n + 1 \in Int /\ \A i \in n + 1 .. Len(s) : s[i] \in S
  BY <1>1
<1>3. /\ t \in Seq(S)
      /\ Len(t) = IF n + 1 <= Len(s) THEN Len(s) - (n + 1) + 1 ELSE 0
      /\ \A i \in 1 .. Len(s) - (n + 1) + 1 : t[i] = s[(n + 1) + i - 1]
  BY <1>1, <1>2, SubSeqProperties
<1> HIDE DEF t
<1>4. Len(t) = Len(s) - n
  BY <1>1, <1>3
<1>5. \A i \in 1 .. Len(s) - n : t[i] = s[n + i]
  <2>1. /\ Len(s) - (n + 1) + 1 = Len(s) - n
        /\ \A i \in 1 .. Len(s) - n : (n + 1) + i - 1 = n + i
    BY <1>1
  <2>2. QED
    BY <1>1, <1>3, <2>1
<1>6. QED
  BY <1>3, <1>4, <1>5 DEF t

\* The first n elements of a sequence.
LEMMA TakeFirst ==
  ASSUME NEW S, NEW s \in Seq(S), NEW n \in 0 .. Len(s)
  PROVE  /\ SubSeq(s, 1, n) \in Seq(S)
         /\ Len(SubSeq(s, 1, n)) = n
         /\ \A i \in 1 .. n : SubSeq(s, 1, n)[i] = s[i]
<1> DEFINE t == SubSeq(s, 1, n)
<1>1. Len(s) \in Nat /\ \A i \in 1 .. Len(s) : s[i] \in S
  BY LenProperties
<1>2. n \in Int /\ \A i \in 1 .. n : s[i] \in S
  BY <1>1
<1>3. /\ t \in Seq(S)
      /\ Len(t) = IF 1 <= n THEN n - 1 + 1 ELSE 0
      /\ \A i \in 1 .. n - 1 + 1 : t[i] = s[1 + i - 1]
  BY <1>2, SubSeqProperties
<1> HIDE DEF t
<1>4. Len(t) = n /\ \A i \in 1 .. n : t[i] = s[i]
  BY <1>2, <1>3
<1>5. QED
  BY <1>3, <1>4 DEF t

-----------------------------------------------------------------------------
(* Streams: what stays framed.                                             *)

Drop(w, n) == SubSeq(w, n + 1, Len(w))

\* A length byte comes no earlier than the counters say, and after one there
\* is none before its text and the music have passed.
LEMMA NoneBefore ==
  ASSUME NEW w \in Seq(Byte), NEW size \in Nat, NEW chunk \in 0 .. Metaint - 1,
         StartsAs(w, size, chunk),
         NEW p \in 1 .. Len(w), IsLength(w[p])
  PROVE  p >= size + (Metaint - chunk) + 1
BY Kinds, Sizes DEF StartsAs

LEMMA NoneBetween ==
  ASSUME NEW w \in Seq(Byte), NEW q \in 1 .. Len(w), NEW k \in MetaLength,
         Follows(w, q, k),
         NEW p \in 1 .. Len(w), IsLength(w[p]), p > q
  PROVE  p >= q + TextSize(k) + Metaint + 1
BY Kinds, Sizes, TextFits DEF Follows

\* What follows a length byte stays when the start of the stream is taken.
LEMMA DropFollows ==
  ASSUME NEW w \in Seq(Byte), AllFollow(w), NEW n \in 0 .. Len(w)
  PROVE  AllFollow(Drop(w, n))
<1> DEFINE t == Drop(w, n)
<1>1. /\ Len(w) \in Nat /\ Len(t) = Len(w) - n
      /\ \A i \in 1 .. Len(w) - n : t[i] = w[n + i]
  BY DropFirst, LenProperties DEF Drop
<1> HIDE DEF t
<1>2. SUFFICES ASSUME NEW p \in 1 .. Len(t), NEW k \in MetaLength,
                      t[p] = LengthByte(k)
               PROVE  Follows(t, p, k)
  BY DEF AllFollow, t
<1>3. n + p \in 1 .. Len(w) /\ w[n + p] = LengthByte(k)
  BY <1>1, <1>2
<1>4. Follows(w, n + p, k)
  BY <1>3 DEF AllFollow
<1>5. TextSize(k) \in Nat /\ Metaint \in Nat
  BY TextFits, Sizes
<1>6. p + TextSize(k) <= Len(t)
  BY <1>1, <1>4, <1>5 DEF Follows
<1>7. ASSUME NEW i \in 1 .. Len(t)
      PROVE  /\ p < i /\ i <= p + TextSize(k) => t[i] = Text
             /\ p + TextSize(k) < i /\ i <= p + TextSize(k) + Metaint
                  => t[i] = Music
             /\ i = p + TextSize(k) + Metaint + 1 => IsLength(t[i])
  <2>1. n + i \in 1 .. Len(w) /\ t[i] = w[n + i]
    BY <1>1
  <2> DEFINE end == p + TextSize(k)
  <2>2. n \in Nat /\ p \in Nat /\ i \in Nat /\ end \in Nat
        /\ (n + p) + TextSize(k) = n + end
    BY <1>1, <1>5
  <2>3. LET e == (n + p) + TextSize(k)
        IN /\ n + p < n + i /\ n + i <= e => w[n + i] = Text
           /\ e < n + i /\ n + i <= e + Metaint => w[n + i] = Music
           /\ n + i = e + Metaint + 1 => IsLength(w[n + i])
    BY <1>4, <2>1 DEF Follows
  <2>4. /\ n + p < n + i /\ n + i <= n + end => w[n + i] = Text
        /\ n + end < n + i /\ n + i <= n + end + Metaint => w[n + i] = Music
        /\ n + i = n + end + Metaint + 1 => IsLength(w[n + i])
    BY <2>2, <2>3, Zenon
  <2> HIDE DEF end
  <2>5. /\ p < i /\ i <= end => t[i] = Text
        /\ end < i /\ i <= end + Metaint => t[i] = Music
        /\ i = end + Metaint + 1 => IsLength(t[i])
    <3>1. (p < i <=> n + p < n + i) /\ (i <= end <=> n + i <= n + end)
      BY <2>2
    <3>2. end < i <=> n + end < n + i
      BY <2>2
    <3>3. i <= end + Metaint <=> n + i <= n + end + Metaint
      BY <1>5, <2>2
    <3>4. i = end + Metaint + 1 <=> n + i = n + end + Metaint + 1
      BY <1>5, <2>2
    <3>5. QED
      BY <2>1, <2>4, <3>1, <3>2, <3>3, <3>4, Zenon
  <2>6. QED
    BY <2>5 DEF end
<1>8. QED
  BY <1>6, <1>7 DEF Follows

\* Of a chunk.
LEMMA ChunkBytes ==
  ASSUME NEW k \in MetaLength
  PROVE  /\ Chunk(k) \in Seq(Byte)
         /\ Len(Chunk(k)) = Metaint + 1 + TextSize(k)
         /\ \A i \in 1 .. Metaint : Chunk(k)[i] = Music
         /\ Chunk(k)[Metaint + 1] = LengthByte(k)
         /\ \A i \in Metaint + 2 .. Metaint + 1 + TextSize(k) : Chunk(k)[i] = Text
<1> DEFINE n == Metaint + 1 + TextSize(k)
           f == [i \in 1 .. n |-> CASE i <= Metaint -> Music
                                    [] i = Metaint + 1 -> LengthByte(k)
                                    [] OTHER -> Text]
<1>1. n \in Nat /\ Metaint \in Nat /\ TextSize(k) \in Nat
  BY TextFits, Sizes
<1>2. Chunk(k) = f
  BY DEF Chunk, TextSize
<1> HIDE DEF n
<1>3. \A i \in 1 .. n : f[i] \in Byte
  BY Bytes
<1>4. f \in Seq(Byte) /\ Len(f) = n
  <2>1. f \in [1 .. n -> Byte]
    BY <1>3
  <2>2. f \in Seq(Byte) /\ DOMAIN f = 1 .. n
    BY <1>1, <2>1, SeqDef
  <2>3. Len(f) \in Nat /\ DOMAIN f = 1 .. Len(f)
    BY <2>2, LenProperties
  <2> HIDE DEF f
  <2>4. QED
    BY <1>1, <2>2, <2>3
<1>5. /\ \A i \in 1 .. n : i <= Metaint => f[i] = Music
      /\ \A i \in 1 .. n : i = Metaint + 1 => f[i] = LengthByte(k)
      /\ \A i \in 1 .. n : i > Metaint + 1 => f[i] = Text
  BY <1>1
<1> HIDE DEF f
<1>6. QED
  BY <1>1, <1>2, <1>4, <1>5 DEF n

\* The server's next chunk goes on where the last one ended.
LEMMA SendFrames ==
  ASSUME NEW w \in Seq(Byte), NEW size \in Nat, NEW chunk \in 0 .. Metaint - 1,
         Framed(w, size, chunk), NEW k \in MetaLength
  PROVE  /\ w \o Chunk(k) \in Seq(Byte)
         /\ Framed(w \o Chunk(k), size, chunk)
<1> DEFINE n == Len(w)
           t == w \o Chunk(k)
           at == n + Metaint + 1
           next == size + (Metaint - chunk) + 1
<1>1. n \in Nat /\ Metaint \in Nat /\ TextSize(k) \in Nat /\ Metaint > 0
  BY LenProperties, TextFits, Sizes
<1>2. /\ Chunk(k) \in Seq(Byte) /\ Len(Chunk(k)) = Metaint + 1 + TextSize(k)
      /\ \A i \in 1 .. Metaint : Chunk(k)[i] = Music
      /\ Chunk(k)[Metaint + 1] = LengthByte(k)
      /\ \A i \in Metaint + 2 .. Metaint + 1 + TextSize(k) : Chunk(k)[i] = Text
  BY ChunkBytes
<1>3. /\ t \in Seq(Byte) /\ Len(t) = n + (Metaint + 1 + TextSize(k))
      /\ \A i \in 1 .. n + (Metaint + 1 + TextSize(k)) :
           t[i] = IF i <= n THEN w[i] ELSE Chunk(k)[i - n]
  BY <1>2, ConcatProperties
<1> HIDE DEF t
<1>4. at \in 1 .. Len(t) /\ at \in Nat /\ at > n /\ Len(t) = at + TextSize(k)
  BY <1>1, <1>3
<1>5. \A i \in 1 .. n : i \in 1 .. Len(t) /\ t[i] = w[i]
  BY <1>1, <1>3
<1>6. \A i \in n + 1 .. n + Metaint : t[i] = Music
  <2>1. SUFFICES ASSUME NEW i \in n + 1 .. n + Metaint PROVE t[i] = Music
    OBVIOUS
  <2>2. i - n \in 1 .. Metaint /\ t[i] = Chunk(k)[i - n]
    BY <1>1, <1>3
  <2>3. QED
    BY <1>2, <2>2
<1>7. t[at] = LengthByte(k)
  <2>1. t[at] = Chunk(k)[at - n] /\ at - n = Metaint + 1
    BY <1>1, <1>3
  <2>2. QED
    BY <1>2, <2>1
<1>8. \A i \in at + 1 .. Len(t) : t[i] = Text
  <2>1. SUFFICES ASSUME NEW i \in at + 1 .. Len(t) PROVE t[i] = Text
    OBVIOUS
  <2>2. i - n \in Metaint + 2 .. Metaint + 1 + TextSize(k)
        /\ t[i] = Chunk(k)[i - n]
    BY <1>1, <1>3
  <2>3. QED
    BY <1>2, <2>2
<1>9. StartsAs(w, size, chunk) /\ AllFollow(w) /\ EndsWhole(w, size, chunk)
  BY DEF Framed
<1>10. next \in Nat /\ ((n = size /\ chunk = 0 /\ next = at) \/ next <= n)
  <2>1. CASE n = size /\ chunk = 0
    BY <1>1, <2>1
  <2>2. ASSUME NEW p \in 1 .. Len(w), NEW j \in MetaLength,
               w[p] = LengthByte(j), Len(w) = p + TextSize(j)
        PROVE  next \in Nat /\ next <= n
    <3>1. p >= next
      BY <1>9, <2>2, NoneBefore DEF IsLength
    <3>2. QED
      BY <1>1, <2>2, <3>1, TextFits
  <2>3. QED
    BY <1>9, <2>1, <2>2 DEF EndsWhole
<1> HIDE DEF at, next
<1>11. StartsAs(t, size, chunk)
  <2>1. ASSUME NEW i \in 1 .. Len(t)
        PROVE  /\ i <= size => t[i] = Text
               /\ size < i /\ i < next => t[i] = Music
               /\ i = next => IsLength(t[i])
    <3>1. CASE i <= n
      <4>1. i \in 1 .. n /\ t[i] = w[i]
        BY <1>1, <1>5, <3>1
      <4>2. /\ i <= size => w[i] = Text
            /\ size < i /\ i < next => w[i] = Music
            /\ i = next => IsLength(w[i])
        BY <1>9, <4>1 DEF StartsAs, next
      <4>3. QED
        BY <4>1, <4>2, Zenon
    <3>2. CASE i > n
      <4>1. ~ (i <= size) /\ (i < next => i \in n + 1 .. n + Metaint)
        BY <1>1, <1>4, <1>10, <3>2 DEF at, next
      <4>2. i = next => i = at
        BY <1>1, <1>10, <3>2
      <4>3. i = next => IsLength(t[i])
        BY <1>7, <4>2 DEF IsLength
      <4>4. QED
        BY <1>6, <4>1, <4>3
    <3>3. QED
      BY <1>1, <3>1, <3>2
  <2>2. QED
    BY <2>1 DEF StartsAs, next
<1>12. ASSUME NEW p \in 1 .. Len(t), NEW j \in MetaLength, t[p] = LengthByte(j)
       PROVE  Follows(t, p, j)
  <2> DEFINE end == p + TextSize(j)
  <2>1. end \in Nat /\ TextSize(j) \in Nat /\ p \in Nat
    BY TextFits
  <2>2. CASE p > n
    <3>1. p = at
      <4>1. t[p] # Text /\ t[p] # Music
        BY <1>12, Bytes
      <4>2. p \notin n + 1 .. n + Metaint /\ p \notin at + 1 .. Len(t)
        BY <1>6, <1>8, <4>1
      <4>3. QED
        BY <1>1, <1>4, <2>2, <4>2 DEF at
    <3>2. j = k
      BY <1>7, <1>12, <3>1, Bytes
    <3>3. QED
      BY <1>1, <1>4, <1>8, <3>1, <3>2 DEF Follows
  <2>3. CASE p <= n
    <3>1. p \in 1 .. n /\ w[p] = LengthByte(j)
      BY <1>1, <1>5, <1>12, <2>1, <2>3
    <3>2. Follows(w, p, j)
      BY <1>9, <3>1 DEF AllFollow
    <3>3. end <= n
      BY <3>2 DEF Follows
    <3>4. end = n \/ end + Metaint + 1 <= n
      <4>1. n # size
        <5>1. p > size
          BY <1>1, <1>9, <3>1, NoneBefore DEF IsLength
        <5>2. QED
          BY <5>1, <2>3
      <4>2. PICK q \in 1 .. n, i \in MetaLength :
              w[q] = LengthByte(i) /\ n = q + TextSize(i)
        BY <1>9, <4>1 DEF EndsWhole
      <4>3. Follows(w, q, i) /\ TextSize(i) \in Nat
        BY <1>9, <4>2, TextFits DEF AllFollow
      <4> DEFINE far == q + TextSize(i) + Metaint + 1
      <4>4. ~ (q < p)
        <5>1. IsLength(w[p]) /\ p \in 1 .. Len(w) /\ q \in 1 .. Len(w)
          BY <3>1, <4>2 DEF IsLength
        <5>2. q < p => p >= far
          BY <4>3, <5>1, NoneBetween
        <5>3. far \in Nat /\ far > n
          BY <1>1, <4>2, <4>3
        <5> HIDE DEF far
        <5>4. QED
          BY <3>1, <5>2, <5>3
      <4>5. CASE q = p
        <5>1. i = j
          BY <3>1, <4>2, <4>5, Bytes
        <5>2. QED
          BY <4>2, <4>5, <5>1
      <4>6. CASE q > p
        <5>1. IsLength(w[q]) /\ p \in 1 .. Len(w) /\ q \in 1 .. Len(w)
          BY <3>1, <4>2 DEF IsLength
        <5>2. q >= p + TextSize(j) + Metaint + 1
          BY <3>2, <4>6, <5>1, NoneBetween
        <5>3. q >= end + Metaint + 1
          BY <5>2
        <5> HIDE DEF end
        <5>4. QED
          BY <1>1, <2>1, <4>2, <4>3, <5>3
      <4>7. QED
        BY <2>1, <4>4, <4>5, <4>6
    <3> HIDE DEF end
    <3>5. ASSUME NEW i \in 1 .. Len(t)
          PROVE  /\ p < i /\ i <= end => t[i] = Text
                 /\ end < i /\ i <= end + Metaint => t[i] = Music
                 /\ i = end + Metaint + 1 => IsLength(t[i])
      <4>1. CASE i <= n
        <5>1. i \in 1 .. n /\ t[i] = w[i]
          BY <1>1, <1>5, <4>1
        <5>2. /\ p < i /\ i <= end => w[i] = Text
              /\ end < i /\ i <= end + Metaint => w[i] = Music
              /\ i = end + Metaint + 1 => IsLength(w[i])
          BY <3>2, <5>1 DEF Follows, end
        <5>3. QED
          BY <5>1, <5>2, Zenon
      <4>2. CASE i > n
        <5>1. /\ ~ (i <= end)
              /\ i <= end + Metaint => i \in n + 1 .. n + Metaint
              /\ i = end + Metaint + 1 => i = at
          BY <1>1, <2>1, <3>3, <3>4, <4>2 DEF at
        <5>2. i = at => IsLength(t[i])
          BY <1>7 DEF IsLength
        <5>3. QED
          BY <1>6, <5>1, <5>2
      <4>3. QED
        BY <1>1, <4>1, <4>2
    <3>6. end <= Len(t)
      BY <1>1, <1>3, <2>1, <3>3
    <3>7. QED
      BY <3>5, <3>6 DEF Follows, end
  <2>4. QED
    BY <1>1, <2>1, <2>2, <2>3
<1>13. EndsWhole(t, size, chunk)
  BY <1>4, <1>7 DEF EndsWhole
<1>14. QED
  BY <1>3, <1>11, <1>12, <1>13 DEF Framed, AllFollow, t

\* Dropping twice is dropping once.
LEMMA DropTwice ==
  ASSUME NEW w \in Seq(Byte), NEW m \in 0 .. Len(w), NEW n \in m .. Len(w)
  PROVE  Drop(Drop(w, m), n - m) = Drop(w, n)
<1> DEFINE s == Drop(w, m)
           t == Drop(w, n)
           u == Drop(s, n - m)
<1>1. Len(w) \in Nat
  BY LenProperties
<1>2. /\ s \in Seq(Byte) /\ Len(s) = Len(w) - m
      /\ \A i \in 1 .. Len(w) - m : s[i] = w[m + i]
  BY DropFirst DEF Drop
<1>3. n \in 0 .. Len(w)
  BY <1>1
<1>4. /\ t \in Seq(Byte) /\ Len(t) = Len(w) - n
      /\ \A i \in 1 .. Len(w) - n : t[i] = w[n + i]
  BY <1>3, DropFirst DEF Drop
<1> HIDE DEF s, t
<1>5. n - m \in 0 .. Len(s)
  BY <1>1, <1>2
<1>6. /\ u \in Seq(Byte) /\ Len(u) = Len(s) - (n - m)
      /\ \A i \in 1 .. Len(s) - (n - m) : u[i] = s[(n - m) + i]
  BY <1>2, <1>5, DropFirst DEF Drop
<1> HIDE DEF u
<1>7. Len(u) = Len(t)
  BY <1>1, <1>2, <1>4, <1>6
<1>8. ASSUME NEW i \in 1 .. Len(u)
      PROVE  u[i] = t[i]
  <2>1. /\ i \in 1 .. Len(w) - n /\ (n - m) + i \in 1 .. Len(w) - m
        /\ m + ((n - m) + i) = n + i
    BY <1>1, <1>2, <1>6
  <2>2. u[i] = s[(n - m) + i]
    BY <1>6
  <2>3. QED
    BY <1>2, <1>4, <2>1, <2>2
<1>9. u = t
  BY <1>4, <1>6, <1>7, <1>8, SeqEqual
<1>10. QED
  BY <1>9 DEF s, t, u

\* A last length byte that is not taken yet is the last one of the rest.
LEMMA DropEnds ==
  ASSUME NEW w \in Seq(Byte), NEW n \in 0 .. Len(w),
         NEW p \in n + 1 .. Len(w), NEW k \in MetaLength,
         w[p] = LengthByte(k), Len(w) = p + TextSize(k),
         NEW size, NEW chunk
  PROVE  EndsWhole(Drop(w, n), size, chunk)
<1>1. /\ Len(w) \in Nat /\ Len(Drop(w, n)) = Len(w) - n
      /\ \A i \in 1 .. Len(w) - n : Drop(w, n)[i] = w[n + i]
  BY DropFirst, LenProperties DEF Drop
<1>2. p - n \in 1 .. Len(w) - n /\ n + (p - n) = p
  BY <1>1
<1>3. Drop(w, n)[p - n] = LengthByte(k)
  BY <1>1, <1>2
<1>4. Len(Drop(w, n)) = (p - n) + TextSize(k)
  BY <1>1, TextFits
<1>5. QED
  BY <1>1, <1>2, <1>3, <1>4 DEF EndsWhole

\* Taking all the text the counters know of and less music than is left of
\* the chunk.
LEMMA ReadMusic ==
  ASSUME NEW w \in Seq(Byte), NEW size \in Nat, NEW chunk \in 0 .. Metaint - 1,
         Framed(w, size, chunk), NEW n \in 0 .. Len(w),
         size <= n, chunk + (n - size) < Metaint
  PROVE  /\ Framed(Drop(w, n), 0, chunk + (n - size))
         /\ \A i \in 1 .. n : IF i <= size THEN w[i] = Text ELSE w[i] = Music
<1> DEFINE t == Drop(w, n)
           next == size + (Metaint - chunk) + 1
           rest == chunk + (n - size)
<1>1. /\ Len(w) \in Nat /\ Len(t) = Len(w) - n
      /\ \A i \in 1 .. Len(w) - n : t[i] = w[n + i]
  BY DropFirst, LenProperties DEF Drop
<1> HIDE DEF t
<1>2. StartsAs(w, size, chunk) /\ AllFollow(w) /\ EndsWhole(w, size, chunk)
  BY DEF Framed
<1>3. /\ rest \in 0 .. Metaint - 1 /\ n < next /\ next \in Nat
      /\ 0 + (Metaint - rest) + 1 = next - n
  BY Sizes
<1> HIDE DEF rest
<1>4. \A i \in 1 .. Len(w) :
        /\ i <= size => w[i] = Text
        /\ size < i /\ i < next => w[i] = Music
        /\ i = next => IsLength(w[i])
  BY <1>2 DEF StartsAs
<1>5. StartsAs(t, 0, rest)
  <2>1. ASSUME NEW i \in 1 .. Len(t)
        PROVE  /\ ~ (i <= 0)
               /\ i < next - n => t[i] = Music
               /\ i = next - n => IsLength(t[i])
    <3>1. n + i \in 1 .. Len(w) /\ t[i] = w[n + i] /\ size < n + i
      BY <1>1
    <3>2. (i < next - n <=> n + i < next) /\ (i = next - n <=> n + i = next)
      BY <1>3
    <3>3. /\ n + i < next => t[i] = Music
          /\ n + i = next => IsLength(t[i])
      BY <1>4, <3>1
    <3>4. QED
      BY <3>2, <3>3
  <2> HIDE DEF next
  <2>2. QED
    BY <1>3, <2>1 DEF StartsAs
<1>6. EndsWhole(t, 0, rest)
  <2>1. CASE Len(w) = size /\ chunk = 0
    <3>1. Len(t) = 0 /\ rest = 0
      BY <1>1, <2>1 DEF rest
    <3>2. QED
      BY <3>1 DEF EndsWhole
  <2>2. ASSUME NEW p \in 1 .. Len(w), NEW k \in MetaLength,
               w[p] = LengthByte(k), Len(w) = p + TextSize(k)
        PROVE  EndsWhole(t, 0, rest)
    <3>1. p >= next
      BY <1>2, <2>2, NoneBefore DEF IsLength
    <3>2. p \in n + 1 .. Len(w)
      BY <1>1, <1>3, <3>1
    <3>3. QED
      BY <2>2, <3>2, DropEnds DEF t
  <2>3. QED
    BY <1>2, <2>1, <2>2 DEF EndsWhole
<1>7. AllFollow(t)
  BY <1>2, DropFollows DEF t
<1>8. ASSUME NEW i \in 1 .. n
      PROVE  IF i <= size THEN w[i] = Text ELSE w[i] = Music
  <2> HIDE DEF next
  <2>1. i \in 1 .. Len(w) /\ i < next /\ (i <= size \/ size < i)
    BY <1>1, <1>3
  <2>2. QED
    BY <1>4, <2>1
<1>9. QED
  BY <1>5, <1>6, <1>7, <1>8 DEF Framed, t, rest

\* After a length byte comes what it says.
LEMMA AfterLength ==
  ASSUME NEW w \in Seq(Byte), NEW m \in 1 .. Len(w), NEW k \in MetaLength,
         Follows(w, m, k)
  PROVE  StartsAs(Drop(w, m), TextSize(k), 0)
<1> DEFINE t == Drop(w, m)
<1>1. PICK size \in Nat : size = TextSize(k)
  BY TextFits
<1>2. /\ Len(w) \in Nat /\ m \in 0 .. Len(w) /\ Len(t) = Len(w) - m
      /\ \A i \in 1 .. Len(w) - m : t[i] = w[m + i]
  BY DropFirst, LenProperties DEF Drop
<1> HIDE DEF t
<1>3. m \in Nat /\ m + size \in Nat /\ Metaint \in Nat
  BY <1>2, Sizes
<1>4. ASSUME NEW i \in 1 .. Len(t)
      PROVE  /\ i <= size => t[i] = Text
             /\ size < i /\ i < size + Metaint + 1 => t[i] = Music
             /\ i = size + Metaint + 1 => IsLength(t[i])
  <2>1. i \in Nat /\ i > 0 /\ m + i \in 1 .. Len(w) /\ t[i] = w[m + i]
    BY <1>2
  <2>2. /\ m < m + i /\ m + i <= m + size => w[m + i] = Text
        /\ m + size < m + i /\ m + i <= m + size + Metaint => w[m + i] = Music
        /\ m + i = m + size + Metaint + 1 => IsLength(w[m + i])
    BY <1>1, <2>1 DEF Follows
  <2>3. m < m + i /\ (i <= size <=> m + i <= m + size)
    BY <1>3, <2>1
  <2>4. (size < i <=> m + size < m + i)
    BY <1>3, <2>1
  <2>5. i < size + Metaint + 1 <=> m + i <= m + size + Metaint
    BY <1>3, <2>1
  <2>6. i = size + Metaint + 1 <=> m + i = m + size + Metaint + 1
    BY <1>3, <2>1
  <2>7. QED
    BY <2>1, <2>2, <2>3, <2>4, <2>5, <2>6, Zenon
<1>5. size + (Metaint - 0) + 1 = size + Metaint + 1
  BY <1>3
<1>6. QED
  BY <1>1, <1>4, <1>5 DEF StartsAs, t

\* Taking the rest of the music and the length byte.
LEMMA ReadLength ==
  ASSUME NEW w \in Seq(Byte), NEW chunk \in 0 .. Metaint - 1,
         Framed(w, 0, chunk), NEW m \in 1 .. Len(w),
         m = Metaint - chunk + 1, NEW k \in MetaLength, w[m] = LengthByte(k)
  PROVE  /\ Framed(Drop(w, m), TextSize(k), 0)
         /\ \A i \in 1 .. m - 1 : w[i] = Music
<1> DEFINE t == Drop(w, m)
<1>1. /\ Len(w) \in Nat /\ m \in 0 .. Len(w) /\ Len(t) = Len(w) - m
      /\ \A i \in 1 .. Len(w) - m : t[i] = w[m + i]
  BY DropFirst, LenProperties DEF Drop
<1> HIDE DEF t
<1>2. StartsAs(w, 0, chunk) /\ AllFollow(w) /\ EndsWhole(w, 0, chunk)
  BY DEF Framed
<1>3. TextSize(k) \in Nat /\ Metaint \in Nat
  BY TextFits, Sizes
<1>4. Follows(w, m, k)
  BY <1>2 DEF AllFollow
<1>5. StartsAs(t, TextSize(k), 0)
  BY <1>4, AfterLength DEF t
<1>6. EndsWhole(t, TextSize(k), 0)
  <2>1. CASE Len(w) = 0 /\ chunk = 0
    BY <2>1
  <2>2. ASSUME NEW p \in 1 .. Len(w), NEW j \in MetaLength,
               w[p] = LengthByte(j), Len(w) = p + TextSize(j)
        PROVE  EndsWhole(t, TextSize(k), 0)
    <3>1. p >= 0 + (Metaint - chunk) + 1
      BY <1>2, <2>2, NoneBefore DEF IsLength
    <3>2. p >= m
      BY <1>3, <3>1
    <3>3. CASE p = m
      <4>1. j = k
        BY <2>2, <3>3, Bytes
      <4>2. Len(t) = TextSize(k)
        BY <1>1, <1>3, <2>2, <3>3, <4>1
      <4>3. QED
        BY <4>2 DEF EndsWhole
    <3>4. CASE p > m
      <4>1. p \in m + 1 .. Len(w)
        BY <1>1, <3>4
      <4>2. QED
        BY <1>1, <2>2, <4>1, DropEnds DEF t
    <3>5. QED
      BY <3>2, <3>3, <3>4
  <2>3. QED
    BY <1>2, <2>1, <2>2 DEF EndsWhole
<1>7. AllFollow(t)
  BY <1>1, <1>2, DropFollows DEF t
<1>8. \A i \in 1 .. m - 1 : w[i] = Music
  BY <1>1, <1>2, <1>3 DEF StartsAs
<1>9. QED
  BY <1>5, <1>6, <1>7, <1>8 DEF Framed, t

\* A block that holds the rest of the music, the length byte, its text and
\* music again.
LEMMA ReadOver ==
  ASSUME NEW w \in Seq(Byte), NEW chunk \in 0 .. Metaint - 1,
         Framed(w, 0, chunk), NEW n \in 0 .. Len(w), n < Metaint,
         NEW m \in 1 .. n, m = Metaint - chunk + 1,
         NEW k \in MetaLength, w[m] = LengthByte(k), m + TextSize(k) <= n
  PROVE  /\ Framed(Drop(w, n), 0, n - m - TextSize(k))
         /\ \A i \in 1 .. m - 1 : w[i] = Music
         /\ \A i \in m + 1 .. m + TextSize(k) : w[i] = Text
         /\ \A i \in m + TextSize(k) + 1 .. n : w[i] = Music
<1> DEFINE t == Drop(w, m)
           size == TextSize(k)
<1>1. Len(w) \in Nat /\ m \in 1 .. Len(w) /\ m \in 0 .. Len(w) /\ size \in Nat
      /\ n - m \in Nat /\ n \in m .. Len(w) /\ n \in Nat /\ m \in Nat
      /\ Metaint \in Nat /\ Metaint > 0 /\ n - m < Metaint
  BY LenProperties, TextFits, Sizes
<1> HIDE DEF size
<1>2. Framed(t, size, 0) /\ \A i \in 1 .. m - 1 : w[i] = Music
  BY <1>1, ReadLength DEF size
<1>3. /\ t \in Seq(Byte) /\ Len(t) = Len(w) - m
      /\ \A i \in 1 .. Len(w) - m : t[i] = w[m + i]
  BY <1>1, DropFirst DEF Drop
<1>4. Drop(t, n - m) = Drop(w, n)
  BY <1>1, DropTwice
<1> HIDE DEF t
<1>5. /\ n - m \in 0 .. Len(t) /\ 0 \in 0 .. Metaint - 1
      /\ n - m < Metaint
  BY <1>1, <1>3
<1>7. size <= n - m
  BY <1>1 DEF size
<1>8. 0 + (n - m - size) < Metaint
  BY <1>1, <1>5
<1>9. /\ Framed(Drop(t, n - m), 0, 0 + (n - m - size))
      /\ \A i \in 1 .. n - m : IF i <= size THEN t[i] = Text ELSE t[i] = Music
  <2>1. PICK c \in 0 .. Len(t) : c = n - m
    BY <1>5
  <2>2. t \in Seq(Byte) /\ size \in Nat /\ 0 \in 0 .. Metaint - 1
        /\ Framed(t, size, 0) /\ size <= c /\ 0 + (c - size) < Metaint
    BY <1>1, <1>2, <1>3, <1>5, <1>7, <1>8, <2>1
  <2>3. /\ Framed(Drop(t, c), 0, 0 + (c - size))
        /\ \A i \in 1 .. c : IF i <= size THEN t[i] = Text ELSE t[i] = Music
    BY <2>2, ReadMusic
  <2>4. QED
    BY <2>1, <2>3
<1>10. 0 + (n - m - size) = n - m - size /\ m + size <= n
  BY <1>1, <1>7
<1>11. ASSUME NEW i \in m + 1 .. n
       PROVE  IF i <= m + size THEN w[i] = Text ELSE w[i] = Music
  <2>1. /\ i - m \in 1 .. n - m /\ i - m \in 1 .. Len(w) - m
        /\ m + (i - m) = i /\ (i - m <= size <=> i <= m + size)
    BY <1>1
  <2>2. t[i - m] = w[i]
    BY <1>3, <2>1
  <2>3. QED
    BY <1>9, <2>1, <2>2
<1>12. /\ \A i \in m + 1 .. m + size : w[i] = Text
       /\ \A i \in m + size + 1 .. n : w[i] = Music
  BY <1>1, <1>10, <1>11
<1>13. Framed(Drop(w, n), 0, n - m - size)
  BY <1>4, <1>9, <1>10
<1>14. QED
  BY <1>2, <1>10, <1>12, <1>13 DEF size

-----------------------------------------------------------------------------
(* What is given back.                                                     *)

MusicOf(r) == {i \in 1 .. Len(r) : r[i] = Music}

\* A block of music is given back as it is.
LEMMA GivesAll ==
  ASSUME NEW r \in Seq(Byte), \A i \in 1 .. Len(r) : r[i] = Music
  PROVE  Len(r) = Cardinality(MusicOf(r))
<1>1. Len(r) \in Nat /\ MusicOf(r) = 1 .. Len(r)
  BY LenProperties DEF MusicOf
<1>2. Cardinality(1 .. Len(r)) = Len(r)
  <2>1. Cardinality(1 .. Len(r))
          = IF 1 > Len(r) THEN 0 ELSE Len(r) - 1 + 1
    BY <1>1, FS_Interval
  <2>2. QED
    BY <1>1, <2>1
<1>3. QED
  BY <1>1, <1>2

\* Of a block with count bytes that are no music, the rest is given back.
LEMMA GivesRest ==
  ASSUME NEW r \in Seq(Byte), NEW from \in Nat, NEW count \in Nat,
         from + count <= Len(r),
         \A i \in 1 .. from : r[i] = Music,
         \A i \in from + 1 .. from + count : r[i] # Music,
         \A i \in from + count + 1 .. Len(r) : r[i] = Music
  PROVE  /\ Skip(r, from, count) \in Seq(Byte)
         /\ Len(Skip(r, from, count)) = Len(r) - count
         /\ \A i \in 1 .. Len(Skip(r, from, count)) :
              Skip(r, from, count)[i] = Music
         /\ Len(Skip(r, from, count)) = Cardinality(MusicOf(r))
<1> DEFINE n == Len(r)
           a == SubSeq(r, 1, from)
           b == SubSeq(r, from + count + 1, n)
           s == a \o b
           A == 1 .. from
           B == from + count + 1 .. n
<1>1. n \in Nat /\ from \in 0 .. n /\ from + count \in 0 .. n
  BY LenProperties
<1>2. a \in Seq(Byte) /\ Len(a) = from /\ \A i \in 1 .. from : a[i] = r[i]
  BY <1>1, TakeFirst
<1>3. /\ b \in Seq(Byte) /\ Len(b) = n - (from + count)
      /\ \A i \in 1 .. n - (from + count) : b[i] = r[(from + count) + i]
  BY <1>1, DropFirst
<1> HIDE DEF a, b
<1>4. /\ s \in Seq(Byte) /\ Len(s) = Len(a) + Len(b)
      /\ \A i \in 1 .. Len(a) + Len(b) :
           s[i] = IF i <= Len(a) THEN a[i] ELSE b[i - Len(a)]
  <2>1. a \in Seq(Byte) /\ b \in Seq(Byte)
    BY <1>2, <1>3
  <2> HIDE DEF A, B, n
  <2>2. QED
    BY <2>1, ConcatProperties, Zenon
<1> HIDE DEF s
<1>5. Len(s) = n - count
  BY <1>1, <1>2, <1>3, <1>4
<1>6. \A i \in 1 .. Len(s) : s[i] = Music
  <2>1. SUFFICES ASSUME NEW i \in 1 .. Len(s) PROVE s[i] = Music
    OBVIOUS
  <2>2. CASE i <= from
    <3>1. i \in 1 .. from /\ s[i] = a[i]
      BY <1>2, <1>4, <2>2
    <3>2. QED
      BY <1>2, <3>1
  <2>3. CASE i > from
    <3>1. /\ i - from \in 1 .. n - (from + count)
          /\ (from + count) + (i - from) \in B
      BY <1>1, <1>5, <2>3
    <3>2. s[i] = b[i - from] /\ b[i - from] = r[(from + count) + (i - from)]
      BY <1>2, <1>3, <1>4, <2>3, <3>1
    <3>3. QED
      BY <3>1, <3>2
  <2>4. QED
    BY <1>1, <2>2, <2>3
<1>7. MusicOf(r) = A \cup B
  <2>1. ASSUME NEW i \in 1 .. n
        PROVE  r[i] = Music <=> i \in A \cup B
    <3>1. i \in A \/ i \in from + 1 .. from + count \/ i \in B
      BY <1>1
    <3>2. i \in from + 1 .. from + count => i \notin A /\ i \notin B
      BY <1>1
    <3>3. QED
      BY <3>1, <3>2
  <2>2. A \cup B \subseteq 1 .. n
    BY <1>1
  <2> HIDE DEF A, B
  <2>3. QED
    BY <2>1, <2>2 DEF MusicOf
<1>8. Cardinality(A \cup B) = n - count
  <2>1. IsFiniteSet(A) /\ Cardinality(A) = IF 1 > from THEN 0 ELSE from - 1 + 1
    BY <1>1, FS_Interval
  <2>2. /\ IsFiniteSet(B)
        /\ Cardinality(B) = IF from + count + 1 > n THEN 0
                            ELSE n - (from + count + 1) + 1
    <3>1. from + count + 1 \in Int /\ n \in Int
      BY <1>1
    <3>2. QED
      BY <3>1, FS_Interval
  <2>3. A \cap B = {}
    BY <1>1
  <2> HIDE DEF A, B
  <2>4. Cardinality(A \cup B)
          = Cardinality(A) + Cardinality(B) - Cardinality(A \cap B)
    BY <2>1, <2>2, FS_Union
  <2>5. Cardinality(A \cap B) = 0
    BY <2>3, FS_EmptySet
  <2>6. Cardinality(A) = from /\ Cardinality(B) = n - (from + count)
    BY <1>1, <2>1, <2>2
  <2>7. Cardinality(A \cup B) = from + (n - (from + count)) - 0
    BY <2>4, <2>5, <2>6
  <2>8. QED
    BY <1>1, <2>7
<1>9. Skip(r, from, count) = s
  BY DEF Skip, s, a, b
<1> HIDE DEF n
<1>10. QED
  BY <1>4, <1>5, <1>6, <1>7, <1>8, <1>9 DEF n

-----------------------------------------------------------------------------
(* The types.                                                              *)

\* What a session starts and ends with.
LEMMA Empty ==
  /\ <<>> \in Seq(Byte) /\ Len(<<>>) = 0
  /\ Cardinality(MusicOf(<<>>)) = 0
  /\ \A chunk \in 0 .. Metaint - 1 : chunk = 0 => Framed(<<>>, 0, chunk)
<1>1. <<>> \in Seq(Byte) /\ Len(<<>>) = 0
  BY EmptySeq
<1>2. MusicOf(<<>>) = {}
  BY <1>1 DEF MusicOf
<1>3. Cardinality(MusicOf(<<>>)) = 0
  BY <1>2, FS_EmptySet
<1>4. ASSUME NEW chunk \in 0 .. Metaint - 1, chunk = 0
      PROVE  Framed(<<>>, 0, chunk)
  BY <1>1, <1>4 DEF Framed, StartsAs, AllFollow, EndsWhole
<1>5. QED
  BY <1>1, <1>3, <1>4

\* No text is empty text.
LEMMA NoText == 0 \in {k * Unit : k \in MetaLength}
<1>1. 0 \in MetaLength /\ 0 * Unit = 0
  BY MetaAssumption DEF MetaLength
<1>2. QED
  BY <1>1

\* Of first_meta_size.
LEMMA SizeType ==
  ASSUME TypeOK
  PROVE  first_meta_size \in Nat
<1>1. PICK k \in MetaLength : first_meta_size = k * Unit
  BY DEF TypeOK
<1>2. QED
  BY <1>1, TextFits DEF TextSize

\* Bytes skipped leave bytes.
LEMMA SkipType ==
  ASSUME NEW r \in Seq(Byte), NEW from \in Nat, NEW count \in Nat,
         from + count <= Len(r)
  PROVE  Skip(r, from, count) \in Seq(Byte)
<1>1. Len(r) \in Nat
  BY LenProperties
<1>2. from \in 0 .. Len(r) /\ from + count \in 0 .. Len(r)
  BY <1>1
<1>3. SubSeq(r, 1, from) \in Seq(Byte)
  BY <1>2, TakeFirst
<1>4. SubSeq(r, from + count + 1, Len(r)) \in Seq(Byte)
  BY <1>2, DropFirst
<1>5. QED
  BY <1>3, <1>4, ConcatProperties, Zenon DEF Skip

\* Of a call's bytes and what it leaves.
LEMMA Receives ==
  ASSUME TypeOK, NEW n \in 0 .. Length, Receive(n)
  PROVE  /\ open /\ n \in 0 .. Len(wire) /\ wire \in Seq(Byte)
         /\ Len(wire) \in Nat
         /\ Block(n) \in Seq(Byte) /\ Len(Block(n)) = n
         /\ \A i \in 1 .. n : Block(n)[i] = wire[i]
         /\ Drop(wire, n) \in Seq(Byte)
<1>1. wire \in Seq(Byte) /\ Len(wire) \in Nat
  BY LenProperties DEF TypeOK
<1>2. n \in 0 .. Len(wire)
  BY <1>1 DEF Receive
<1>3. Drop(wire, n) \in Seq(Byte)
  BY <1>1, <1>2, DropFirst DEF Drop
<1>4. QED
  BY <1>1, <1>2, <1>3, TakeFirst DEF Receive, Block

\* A call that returns with these has kept the types.
LEMMA ReturnType ==
  ASSUME TypeOK, NEW n \in 0 .. Length, Receive(n),
         NEW bytes \in Seq(Byte), NEW total \in 0 .. Length,
         GiveBack(n, bytes, total),
         wire' \in Seq(Byte), astray' \in BOOLEAN,
         first_meta_size' \in {k * Unit : k \in MetaLength},
         current_meta_chunk' \in 0 .. Metaint - 1
  PROVE  TypeOK'
<1>1. /\ received' \in Seq(Byte) /\ Len(received') = n /\ n <= Length
      /\ buffer' \in Seq(Byte) /\ result' \in 0 .. Length
  BY Receives DEF GiveBack
<1>2. open' \in BOOLEAN /\ halted' \in BOOLEAN
  BY DEF TypeOK, GiveBack
<1>3. QED
  BY <1>1, <1>2 DEF TypeOK

LEMMA HaltType ==
  ASSUME TypeOK, Halt
  PROVE  TypeOK'
BY DEF TypeOK, Halt

LEMMA SkipTextType ==
  ASSUME TypeOK, SkipText
  PROVE  TypeOK'
<1>1. PICK n \in 0 .. Length :
        /\ Receive(n)
        /\ \/ Halt
           \/ /\ n >= first_meta_size
              /\ wire' = Drop(wire, n)
              /\ GiveBack(n, Skip(Block(n), 0, first_meta_size),
                             n - first_meta_size)
              /\ current_meta_chunk' = n - first_meta_size
              /\ first_meta_size' = 0
              /\ astray' = astray
  BY DEF SkipText, Drop
<1>2. CASE Halt
  BY <1>2, HaltType
<1>3. CASE ~ Halt
  <2>1. first_meta_size \in Nat /\ 0 + first_meta_size <= n /\ n \in Nat
    BY <1>1, <1>3, SizeType
  <2>2. Skip(Block(n), 0, first_meta_size) \in Seq(Byte)
    BY <1>1, <2>1, Receives, SkipType
  <2>3. n - first_meta_size \in 0 .. Length
    BY <2>1, Sizes
  <2>4. wire' \in Seq(Byte) /\ astray' \in BOOLEAN
    BY <1>1, <1>3, Receives DEF TypeOK
  <2>5. first_meta_size' \in {k * Unit : k \in MetaLength}
    BY <1>1, <1>3, NoText
  <2>6. current_meta_chunk' \in 0 .. Metaint - 1
    BY <1>1, <1>3, <2>3, Sizes
  <2>7. QED
    BY <1>1, <1>3, <2>2, <2>3, <2>4, <2>5, <2>6, ReturnType
<1>4. QED
  BY <1>2, <1>3

LEMMA TakeLengthType ==
  ASSUME TypeOK, TakeLength
  PROVE  TypeOK'
<1>1. PICK n \in 0 .. Length, took \in {0, 1} :
        /\ Receive(n)
        /\ n + took <= Len(wire)
        /\ wire' = Drop(wire, n + took)
        /\ \E k \in IF took = 1 THEN TakenFor(wire[n + 1]) ELSE MetaLength :
             first_meta_size' = k * Unit
        /\ astray' = (astray \/ took = 0)
        /\ current_meta_chunk' = 0
        /\ GiveBack(n, Block(n), n)
  BY DEF TakeLength, Drop
<1>2. /\ wire \in Seq(Byte) /\ Len(wire) \in Nat
      /\ Block(n) \in Seq(Byte) /\ n + took \in 0 .. Len(wire)
  BY <1>1, Receives
<1>3. wire' \in Seq(Byte)
  BY <1>1, <1>2, DropFirst DEF Drop
<1>4. first_meta_size' \in {k * Unit : k \in MetaLength}
  <2>1. PICK k \in MetaLength : first_meta_size' = k * Unit
    BY <1>1 DEF TakenFor
  <2>2. QED
    BY <2>1
<1>5. current_meta_chunk' \in 0 .. Metaint - 1
  BY <1>1, Sizes
<1>6. astray' \in BOOLEAN
  BY <1>1
<1>7. QED
  BY <1>1, <1>2, <1>3, <1>4, <1>5, <1>6, ReturnType

\* The block with its metadata inside, as one step.
Inside(n, at, k) ==
  /\ Receive(n) /\ first_meta_size = 0
  /\ at = Metaint - current_meta_chunk /\ at + 1 <= n
  /\ k \in TakenFor(wire[at + 1])
  /\ n - at - (TextSize(k) + 1) >= 0
  /\ wire' = Drop(wire, n)
  /\ GiveBack(n, Skip(Block(n), at, TextSize(k) + 1), n - (TextSize(k) + 1))
  /\ current_meta_chunk' = n - at - (TextSize(k) + 1)
  /\ first_meta_size' = first_meta_size /\ astray' = astray

LEMMA SkipInsideIs ==
  ASSUME TypeOK, SkipInside
  PROVE  Halt \/ \E n \in 0 .. Length, at \in 0 .. Metaint, k \in MetaLength :
                   Inside(n, at, k)
<1>1. PICK n \in 0 .. Length,
           k \in TakenFor(wire[Metaint - current_meta_chunk + 1]) :
        /\ Receive(n) /\ first_meta_size = 0
        /\ current_meta_chunk + n > Metaint
        /\ \/ Halt
           \/ /\ n - (Metaint - current_meta_chunk) - (TextSize(k) + 1) >= 0
              /\ wire' = Drop(wire, n)
              /\ GiveBack(n, Skip(Block(n), Metaint - current_meta_chunk,
                                            TextSize(k) + 1),
                             n - (TextSize(k) + 1))
              /\ current_meta_chunk' =
                   n - (Metaint - current_meta_chunk) - (TextSize(k) + 1)
              /\ first_meta_size' = first_meta_size /\ astray' = astray
  BY DEF SkipInside, Beyond, Rest, Drop, TextSize
<1>2. PICK at \in 0 .. Metaint : at = Metaint - current_meta_chunk
  BY Sizes DEF TypeOK
<1>3. k \in MetaLength
  BY DEF TakenFor
<1>4. at + 1 <= n
  BY <1>1, <1>2, Sizes DEF TypeOK
<1>5. Halt \/ Inside(n, at, k)
  BY <1>1, <1>2, <1>4 DEF Inside
<1>6. QED
  BY <1>3, <1>5

LEMMA SkipInsideType ==
  ASSUME TypeOK, SkipInside
  PROVE  TypeOK'
<1>1. CASE Halt
  BY <1>1, HaltType
<1>2. ASSUME NEW n \in 0 .. Length, NEW at \in 0 .. Metaint,
             NEW k \in MetaLength, Inside(n, at, k)
      PROVE  TypeOK'
  <2>1. PICK count \in Nat : count = TextSize(k) + 1
    BY TextFits
  <2>2. /\ Receive(n) /\ n - at - count >= 0 /\ wire' = Drop(wire, n)
        /\ GiveBack(n, Skip(Block(n), at, count), n - count)
        /\ current_meta_chunk' = n - at - count
        /\ first_meta_size' = first_meta_size /\ astray' = astray
        /\ at = Metaint - current_meta_chunk
    BY <1>2, <2>1 DEF Inside
  <2>3. /\ at \in Nat /\ n \in Nat /\ at + count <= n
        /\ n - count \in 0 .. Length /\ n - at - count \in 0 .. Metaint - 1
    BY <2>2, Sizes
  <2>4. Skip(Block(n), at, count) \in Seq(Byte)
    BY <2>2, <2>3, Receives, SkipType
  <2>5. wire' \in Seq(Byte) /\ astray' \in BOOLEAN
    BY <2>2, Receives DEF TypeOK
  <2>6. first_meta_size' \in {j * Unit : j \in MetaLength}
    BY <2>2 DEF TypeOK
  <2>7. QED
    BY <2>2, <2>3, <2>4, <2>5, <2>6, ReturnType
<1>3. QED
  BY <1>1, <1>2, SkipInsideIs

LEMMA JustMusicType ==
  ASSUME TypeOK, JustMusic
  PROVE  TypeOK'
<1>1. PICK n \in 0 .. Length :
        /\ Receive(n)
        /\ ~ (current_meta_chunk + n = Metaint)
        /\ ~ (current_meta_chunk + n > Metaint)
        /\ wire' = Drop(wire, n)
        /\ GiveBack(n, Block(n), n)
        /\ current_meta_chunk' = current_meta_chunk + n
        /\ first_meta_size' = first_meta_size /\ astray' = astray
  BY DEF JustMusic, AtEnd, Beyond, Drop
<1>2. wire' \in Seq(Byte) /\ Block(n) \in Seq(Byte)
  BY <1>1, Receives
<1>3. current_meta_chunk' \in 0 .. Metaint - 1
  BY <1>1, Sizes DEF TypeOK
<1>4. first_meta_size' \in {j * Unit : j \in MetaLength} /\ astray' \in BOOLEAN
  BY <1>1 DEF TypeOK
<1>5. QED
  BY <1>1, <1>2, <1>3, <1>4, ReturnType

\* The two ends of a session.
LEMMA NothingType ==
  ASSUME NothingYet
  PROVE  /\ wire' \in Seq(Byte) /\ received' \in Seq(Byte)
         /\ buffer' \in Seq(Byte)
         /\ Len(received') <= Length /\ result' \in 0 .. Length
BY Empty, Sizes DEF NothingYet

LEMMA TypeStep ==
  ASSUME TypeOK, [Next]_vars
  PROVE  TypeOK'
<1>1. CASE ServerSends
  <2>1. PICK k \in MetaLength : wire' = wire \o Chunk(k)
    BY <1>1 DEF ServerSends
  <2>2. wire' \in Seq(Byte)
    <3>1. wire \in Seq(Byte) /\ Chunk(k) \in Seq(Byte)
      BY ChunkBytes DEF TypeOK
    <3>2. QED
      BY <2>1, <3>1, ConcatProperties, Zenon
  <2>3. QED
    BY <1>1, <2>2 DEF ServerSends, TypeOK
<1>2. CASE shoutcast_session_open
  <2>1. /\ open' = TRUE /\ current_meta_chunk' = 0 /\ NothingYet
        /\ first_meta_size' = first_meta_size /\ halted' = halted
    BY <1>2 DEF shoutcast_session_open
  <2>2. astray' \in BOOLEAN
    BY <1>2 DEF shoutcast_session_open
  <2>3. current_meta_chunk' \in 0 .. Metaint - 1
    BY <2>1, Sizes
  <2>4. QED
    BY <2>1, <2>2, <2>3, NothingType DEF TypeOK
<1>3. CASE shoutcast_session_close
  BY <1>3, NothingType DEF shoutcast_session_close, TypeOK
<1>4. CASE shoutcast_session_read
  BY <1>4, SkipTextType, TakeLengthType, SkipInsideType, JustMusicType
  DEF shoutcast_session_read
<1>5. CASE UNCHANGED vars
  BY <1>5 DEF vars, TypeOK
<1>6. QED
  BY <1>1, <1>2, <1>3, <1>4, <1>5 DEF Next

LEMMA TypeInit ==
  ASSUME Init
  PROVE  TypeOK
<1>1. first_meta_size \in {k * Unit : k \in MetaLength}
  BY NoText DEF Init
<1>2. current_meta_chunk \in 0 .. Metaint - 1
  BY Sizes DEF Init
<1>3. wire \in Seq(Byte) /\ received \in Seq(Byte) /\ buffer \in Seq(Byte)
      /\ Len(received) <= Length /\ result \in 0 .. Length
  BY Empty, Sizes DEF Init
<1>4. QED
  BY <1>1, <1>2, <1>3 DEF Init, TypeOK

(* Every variable keeps its type: the music counted is always less than    *)
(* Metaint, the text to skip is what some length byte says and the length  *)
(* given back is one of the block's, wherever a call or a session ends.    *)
THEOREM TypeCorrect == Spec => []TypeOK
BY TypeInit, TypeStep, PTL DEF Spec

-----------------------------------------------------------------------------
(* The invariant, up to the step in which the session goes astray.         *)

IInv == FrameInv /\ OnlyMusic

LEMMA IInit ==
  ASSUME Init
  PROVE  IInv
<1>1. FrameInv
  BY DEF Init, FrameInv
<1>2. OnlyMusic
  BY Empty DEF Init, OnlyMusic, MusicOf
<1>3. QED
  BY <1>1, <1>2 DEF IInv

\* What a call that has framed what is left, and has given back the music
\* alone, leaves.
LEMMA ReadKeeps ==
  ASSUME TypeOK, TypeOK', NEW n \in 0 .. Length, Receive(n),
         NEW bytes, NEW total, GiveBack(n, bytes, total),
         first_meta_size' > 0 => current_meta_chunk' = 0,
         Framed(wire', first_meta_size', current_meta_chunk'),
         \A i \in 1 .. Len(bytes) : bytes[i] = Music,
         Len(bytes) = Cardinality(MusicOf(Block(n))),
         total = Len(bytes)
  PROVE  IInv'
<1>1. received' = Block(n) /\ buffer' = bytes /\ result' = total
  BY DEF GiveBack
<1>2. FrameInv'
  BY DEF FrameInv
<1>3. OnlyMusic'
  BY <1>1 DEF OnlyMusic, MusicOf
<1>4. QED
  BY <1>2, <1>3 DEF IInv

LEMMA HaltKeeps ==
  ASSUME IInv, Halt
  PROVE  IInv'
BY DEF Halt, IInv, FrameInv, OnlyMusic

LEMMA SkipTextKeeps ==
  ASSUME TypeOK, TypeOK', IInv, ~ astray, SkipText
  PROVE  IInv'
<1>0. CASE Halt
  BY <1>0, HaltKeeps
<1> SUFFICES ASSUME ~ Halt PROVE IInv'
  BY <1>0
<1> DEFINE size == first_meta_size
<1>1. PICK n \in 0 .. Length :
        /\ size > 0
        /\ Receive(n)
        /\ n >= size
        /\ wire' = Drop(wire, n)
        /\ GiveBack(n, Skip(Block(n), 0, size), n - size)
        /\ current_meta_chunk' = n - size
        /\ first_meta_size' = 0
  BY DEF SkipText, Drop
<1>2. /\ size \in Nat /\ n \in Nat /\ n < Metaint
      /\ Metaint \in Nat /\ size <= n
  BY <1>1, SizeType, Sizes
<1>3. /\ open /\ n \in 0 .. Len(wire)
      /\ Block(n) \in Seq(Byte) /\ Len(Block(n)) = n
      /\ \A i \in 1 .. n : Block(n)[i] = wire[i]
  BY <1>1, Receives
<1>4. /\ wire \in Seq(Byte) /\ current_meta_chunk = 0
      /\ current_meta_chunk \in 0 .. Metaint - 1
      /\ Framed(wire, size, current_meta_chunk)
  BY <1>1, <1>3 DEF IInv, TypeOK, FrameInv
<1> HIDE DEF size
<1>6. current_meta_chunk + (n - size) < Metaint
  BY <1>2, <1>4
<1>7. /\ Framed(wire', 0, current_meta_chunk + (n - size))
      /\ \A i \in 1 .. n : IF i <= size THEN wire[i] = Text ELSE wire[i] = Music
  BY <1>1, <1>2, <1>3, <1>4, <1>6, ReadMusic
<1>8. current_meta_chunk + (n - size) = current_meta_chunk'
  BY <1>1, <1>2, <1>4
<1>9. PICK r \in Seq(Byte) : r = Block(n)
  BY <1>3
<1>10. /\ Len(r) = n /\ 0 \in Nat /\ 0 + size <= Len(r)
       /\ \A i \in 1 .. 0 : r[i] = Music
       /\ \A i \in 0 + 1 .. 0 + size : r[i] # Music
       /\ \A i \in 0 + size + 1 .. Len(r) : r[i] = Music
  <2>1. Len(r) = n /\ \A i \in 1 .. n : r[i] =
          IF i <= size THEN Text ELSE Music
    BY <1>3, <1>7, <1>9
  <2>2. QED
    BY <1>2, <2>1, Bytes
<1>11. /\ \A i \in 1 .. Len(Skip(r, 0, size)) : Skip(r, 0, size)[i] = Music
       /\ Len(Skip(r, 0, size)) = Len(r) - size
       /\ Len(Skip(r, 0, size)) = Cardinality(MusicOf(r))
  BY <1>2, <1>10, GivesRest, Zenon
<1>12. /\ GiveBack(n, Skip(r, 0, size), n - size)
       /\ n - size = Len(Skip(r, 0, size))
  BY <1>1, <1>9, <1>10, <1>11
<1>13. QED
  BY <1>1, <1>7, <1>8, <1>9, <1>11, <1>12, ReadKeeps

LEMMA JustMusicKeeps ==
  ASSUME TypeOK, TypeOK', IInv, ~ astray, JustMusic
  PROVE  IInv'
<1>1. PICK n \in 0 .. Length :
        /\ first_meta_size = 0
        /\ ~ (current_meta_chunk + n = Metaint)
        /\ ~ (current_meta_chunk + n > Metaint)
        /\ Receive(n)
        /\ wire' = Drop(wire, n)
        /\ GiveBack(n, Block(n), n)
        /\ current_meta_chunk' = current_meta_chunk + n
        /\ first_meta_size' = first_meta_size
  BY DEF JustMusic, AtEnd, Beyond, Drop
<1>2. n \in Nat /\ Metaint \in Nat
  BY Sizes
<1>3. /\ open /\ n \in 0 .. Len(wire)
      /\ Block(n) \in Seq(Byte) /\ Len(Block(n)) = n
      /\ \A i \in 1 .. n : Block(n)[i] = wire[i]
  BY <1>1, Receives
<1>4. /\ wire \in Seq(Byte) /\ current_meta_chunk \in 0 .. Metaint - 1
      /\ Framed(wire, 0, current_meta_chunk)
  BY <1>1, <1>3 DEF IInv, TypeOK, FrameInv
<1>5. /\ 0 \in Nat /\ 0 <= n /\ n - 0 = n
      /\ current_meta_chunk + (n - 0) < Metaint
  BY <1>1, <1>2, <1>4
<1>6. /\ Framed(wire', 0, current_meta_chunk')
      /\ \A i \in 1 .. n : IF i <= 0 THEN wire[i] = Text ELSE wire[i] = Music
  BY <1>1, <1>3, <1>4, <1>5, ReadMusic
<1>7. \A i \in 1 .. Len(Block(n)) : Block(n)[i] = Music
  BY <1>2, <1>3, <1>6
<1>8. Len(Block(n)) = Cardinality(MusicOf(Block(n)))
  BY <1>3, <1>7, GivesAll
<1>9. QED
  BY <1>1, <1>3, <1>6, <1>7, <1>8, ReadKeeps

LEMMA TakeLengthKeeps ==
  ASSUME TypeOK, TypeOK', IInv, ~ astray', TakeLength
  PROVE  IInv'
<1>1. PICK n \in 0 .. Length :
        /\ first_meta_size = 0 /\ current_meta_chunk + n = Metaint
        /\ Receive(n) /\ ~ astray
        /\ n + 1 <= Len(wire)
        /\ wire' = Drop(wire, n + 1)
        /\ \E k \in TakenFor(wire[n + 1]) : first_meta_size' = k * Unit
        /\ current_meta_chunk' = 0
        /\ GiveBack(n, Block(n), n)
  BY DEF TakeLength, AtEnd, Drop
<1>2. n \in Nat /\ Metaint \in Nat /\ Metaint > 0
  BY Sizes
<1>3. /\ open /\ n \in 0 .. Len(wire)
      /\ Block(n) \in Seq(Byte) /\ Len(Block(n)) = n
      /\ \A i \in 1 .. n : Block(n)[i] = wire[i]
  BY <1>1, Receives
<1>4. /\ wire \in Seq(Byte) /\ current_meta_chunk \in 0 .. Metaint - 1
      /\ Framed(wire, 0, current_meta_chunk) /\ Len(wire) \in Nat
  BY <1>1, <1>3, LenProperties DEF IInv, TypeOK, FrameInv
<1>5. /\ n + 1 \in 1 .. Len(wire) /\ n + 1 = Metaint - current_meta_chunk + 1
      /\ n + 1 = 0 + (Metaint - current_meta_chunk) + 1 /\ (n + 1) - 1 = n
      /\ n + 1 \in 0 .. Len(wire)
  BY <1>1, <1>2, <1>4
<1>6. PICK k \in MetaLength : wire[n + 1] = LengthByte(k)
  BY <1>4, <1>5 DEF Framed, StartsAs, IsLength
<1>7. first_meta_size' = TextSize(k)
  BY <1>1, <1>6, Bytes DEF TextSize
<1>8. /\ Framed(wire', first_meta_size', current_meta_chunk')
      /\ \A i \in 1 .. n : wire[i] = Music
  BY <1>1, <1>4, <1>5, <1>6, <1>7, ReadLength
<1>9. \A i \in 1 .. Len(Block(n)) : Block(n)[i] = Music
  BY <1>3, <1>8
<1>10. Len(Block(n)) = Cardinality(MusicOf(Block(n)))
  BY <1>3, <1>9, GivesAll
<1>11. QED
  BY <1>1, <1>3, <1>8, <1>9, <1>10, ReadKeeps

LEMMA SkipInsideKeeps ==
  ASSUME TypeOK, TypeOK', IInv, ~ astray, SkipInside
  PROVE  IInv'
<1>0. CASE Halt
  BY <1>0, HaltKeeps
<1>1. ASSUME NEW n \in 0 .. Length, NEW at \in 0 .. Metaint,
             NEW j \in MetaLength, Inside(n, at, j)
      PROVE  IInv'
  <2>1. /\ Receive(n) /\ first_meta_size = 0
        /\ at = Metaint - current_meta_chunk /\ at + 1 <= n
        /\ wire' = Drop(wire, n) /\ first_meta_size' = 0
    BY <1>1 DEF Inside
  <2>2. n \in Nat /\ Metaint \in Nat /\ n < Metaint /\ at \in Nat
    BY Sizes
  <2>3. /\ open /\ n \in 0 .. Len(wire) /\ Len(wire) \in Nat
        /\ Block(n) \in Seq(Byte) /\ Len(Block(n)) = n
        /\ \A i \in 1 .. n : Block(n)[i] = wire[i]
    BY <2>1, Receives
  <2>4. /\ wire \in Seq(Byte) /\ current_meta_chunk \in 0 .. Metaint - 1
        /\ Framed(wire, 0, current_meta_chunk)
    BY <2>1, <2>3 DEF IInv, TypeOK, FrameInv
  <2>5. PICK m \in 1 .. n : m = at + 1
    BY <2>1, <2>2
  <2>6. /\ m \in 1 .. Len(wire) /\ m = Metaint - current_meta_chunk + 1
        /\ m = 0 + (Metaint - current_meta_chunk) + 1 /\ m - 1 = at /\ 0 < m
    BY <2>1, <2>2, <2>3, <2>4, <2>5
  <2>7. PICK k \in MetaLength : wire[m] = LengthByte(k)
    BY <2>4, <2>6 DEF Framed, StartsAs, IsLength
  <2>8. j = k
    BY <1>1, <2>5, <2>7, Bytes DEF Inside
  <2>9. PICK size \in Nat : size = TextSize(k)
    BY TextFits
  <2>10. /\ n - at - (size + 1) >= 0
         /\ GiveBack(n, Skip(Block(n), at, size + 1), n - (size + 1))
         /\ current_meta_chunk' = n - at - (size + 1)
    BY <1>1, <2>8, <2>9 DEF Inside
  <2>11. m + size <= n /\ n - m - size = n - at - (size + 1)
    BY <2>2, <2>5, <2>10
  <2>12. /\ Framed(wire', 0, n - m - size)
         /\ \A i \in 1 .. m - 1 : wire[i] = Music
         /\ \A i \in m + 1 .. m + size : wire[i] = Text
         /\ \A i \in m + size + 1 .. n : wire[i] = Music
    <3>1. m + TextSize(k) <= n
      BY <2>9, <2>11
    <3>2. /\ Framed(Drop(wire, n), 0, n - m - TextSize(k))
          /\ \A i \in 1 .. m - 1 : wire[i] = Music
          /\ \A i \in m + 1 .. m + TextSize(k) : wire[i] = Text
          /\ \A i \in m + TextSize(k) + 1 .. n : wire[i] = Music
      BY <2>2, <2>3, <2>4, <2>6, <2>7, <3>1, ReadOver
    <3>3. QED
      BY <2>1, <2>9, <3>2
  <2>13. PICK r \in Seq(Byte), count \in Nat : r = Block(n) /\ count = size + 1
    BY <2>3
  <2>14. Len(r) = n /\ at + count <= Len(r) /\ \A i \in 1 .. n : r[i] = wire[i]
    BY <2>2, <2>3, <2>5, <2>11, <2>13
  <2>15. /\ \A i \in 1 .. at : r[i] = Music
         /\ \A i \in at + count + 1 .. Len(r) : r[i] = Music
    BY <2>2, <2>5, <2>11, <2>12, <2>13, <2>14
  <2>16. \A i \in at + 1 .. at + count : r[i] # Music
    <3>1. SUFFICES ASSUME NEW i \in at + 1 .. at + count PROVE r[i] # Music
      OBVIOUS
    <3>2. i \in 1 .. n /\ (i = m \/ i \in m + 1 .. m + size)
      BY <2>2, <2>5, <2>11, <2>13
    <3>3. wire[i] # Music
      BY <2>7, <2>12, <3>2, Bytes
    <3>4. QED
      BY <2>14, <3>2, <3>3
  <2>17. /\ \A i \in 1 .. Len(Skip(r, at, count)) :
              Skip(r, at, count)[i] = Music
         /\ Len(Skip(r, at, count)) = Len(r) - count
         /\ Len(Skip(r, at, count)) = Cardinality(MusicOf(r))
    <3>1. at \in Nat /\ at + count <= Len(r)
      BY <2>2, <2>14
    <3>2. QED
      BY <2>15, <2>16, <3>1, GivesRest, Zenon
  <2>18. /\ GiveBack(n, Skip(r, at, count), n - count)
         /\ n - count = Len(Skip(r, at, count))
    BY <2>10, <2>13, <2>14, <2>17
  <2>19. Framed(wire', first_meta_size', current_meta_chunk')
    BY <2>1, <2>10, <2>11, <2>12
  <2>20. QED
    BY <2>1, <2>13, <2>17, <2>18, <2>19, ReadKeeps
<1>2. QED
  BY <1>0, <1>1, SkipInsideIs

\* The server's step and the two ends of a session.
LEMMA SessionKeeps ==
  ASSUME TypeOK, IInv, ~ astray',
         ServerSends \/ shoutcast_session_open \/ shoutcast_session_close
  PROVE  IInv'
<1>1. CASE ServerSends
  <2>1. PICK k \in MetaLength : wire' = wire \o Chunk(k)
    BY <1>1 DEF ServerSends
  <2>2. /\ open /\ open' = open /\ astray' = astray
        /\ current_meta_chunk' = current_meta_chunk
        /\ first_meta_size' = first_meta_size
        /\ received' = received /\ buffer' = buffer /\ result' = result
    BY <1>1 DEF ServerSends
  <2>3. /\ wire \in Seq(Byte) /\ current_meta_chunk \in 0 .. Metaint - 1
        /\ first_meta_size \in Nat
        /\ first_meta_size > 0 => current_meta_chunk = 0
        /\ Framed(wire, first_meta_size, current_meta_chunk)
    BY <2>2, SizeType DEF TypeOK, IInv, FrameInv
  <2>4. Framed(wire', first_meta_size, current_meta_chunk)
    BY <2>1, <2>3, SendFrames
  <2>5. FrameInv'
    BY <2>2, <2>3, <2>4 DEF FrameInv
  <2>6. OnlyMusic'
    BY <2>2 DEF IInv, OnlyMusic
  <2>7. QED
    BY <2>5, <2>6 DEF IInv
<1>2. CASE shoutcast_session_open \/ shoutcast_session_close
  <2>1. open' => first_meta_size' = 0 /\ current_meta_chunk' = 0
    BY <1>2 DEF shoutcast_session_open, shoutcast_session_close
  <2>2. wire' = <<>> /\ received' = <<>> /\ buffer' = <<>> /\ result' = 0
    BY <1>2 DEF shoutcast_session_open, shoutcast_session_close, NothingYet
  <2>3. 0 \in 0 .. Metaint - 1
    BY Sizes
  <2>4. FrameInv'
    BY <2>1, <2>2, <2>3, Empty DEF FrameInv
  <2>5. OnlyMusic'
    BY <2>2, Empty DEF OnlyMusic, MusicOf
  <2>6. QED
    BY <2>4, <2>5 DEF IInv
<1>3. QED
  BY <1>1, <1>2

LEMMA IStep ==
  ASSUME TypeOK, TypeOK', IInv, [Next]_vars
  PROVE  IInv'
<1>1. CASE astray'
  BY <1>1 DEF IInv, FrameInv, OnlyMusic
<1>2. SUFFICES ASSUME ~ astray' PROVE IInv'
  BY <1>1
<1>3. CASE ServerSends \/ shoutcast_session_open \/ shoutcast_session_close
  BY <1>2, <1>3, SessionKeeps
<1>4. CASE SkipText
  <2>1. ~ astray
    BY <1>2, <1>4 DEF SkipText, Halt
  <2>2. QED
    BY <1>4, <2>1, SkipTextKeeps
<1>5. CASE TakeLength
  BY <1>2, <1>5, TakeLengthKeeps
<1>6. CASE SkipInside
  <2>1. ~ astray
    BY <1>2, <1>6 DEF SkipInside, Halt
  <2>2. QED
    BY <1>6, <2>1, SkipInsideKeeps
<1>7. CASE JustMusic
  <2>1. ~ astray
    BY <1>2, <1>7 DEF JustMusic
  <2>2. QED
    BY <1>7, <2>1, JustMusicKeeps
<1>8. CASE UNCHANGED vars
  BY <1>8 DEF vars, IInv, FrameInv, OnlyMusic
<1>9. QED
  BY <1>3, <1>4, <1>5, <1>6, <1>7, <1>8 DEF Next, shoutcast_session_read

LEMMA IAlways == Spec => [](TypeOK /\ IInv)
<1>1. Init => IInv
  BY IInit
<1>2. TypeOK /\ TypeOK' /\ IInv /\ [Next]_vars => IInv'
  BY IStep
<1>3. QED
  BY <1>1, <1>2, TypeCorrect, PTL DEF Spec

-----------------------------------------------------------------------------
(* The results.                                                            *)

(* What a call of shoutcast_session_read that returns gives back is the    *)
(* music it has received, all of it and nothing else, wherever in the      *)
(* block the metadata begins and wherever calls and sessions end, until a  *)
(* length byte does not come or a session begins with the text of another. *)
THEOREM OnlyMusicTheorem == Spec => []OnlyMusic
<1>1. IInv => OnlyMusic
  BY DEF IInv
<1>2. QED
  BY <1>1, IAlways, PTL

(* The counters keep step with the server, up to the same two: what they   *)
(* take for music, text or a length byte is just that.                     *)
THEOREM InStepTheorem == Spec => []InStep
<1>1. ASSUME TypeOK, IInv
      PROVE  InStep
  <2> DEFINE next == first_meta_size + (Metaint - current_meta_chunk) + 1
  <2>1. TypeOK /\ FrameInv
    BY <1>1 DEF IInv
  <2>2. /\ first_meta_size \in Nat /\ next \in Nat /\ Len(wire) \in Nat
        /\ next - 1 = first_meta_size + (Metaint - current_meta_chunk)
    BY <2>1, SizeType, Sizes, LenProperties DEF TypeOK
  <2>3. ASSUME open, ~ astray, NEW i \in 1 .. next, i <= Len(wire)
        PROVE  wire[i] \in Expected(i)
    <3>1. i \in 1 .. Len(wire)
      BY <2>2, <2>3
    <3>2. /\ i <= first_meta_size => wire[i] = Text
          /\ first_meta_size < i /\ i < next => wire[i] = Music
          /\ i = next => IsLength(wire[i])
      BY <2>1, <2>3, <3>1 DEF FrameInv, Framed, StartsAs
    <3>3. /\ ~ (i <= first_meta_size) => first_meta_size < i
          /\ i <= next - 1 <=> i < next
          /\ i < next \/ i = next
      BY <2>2
    <3> HIDE DEF next
    <3>4. QED
      BY <2>2, <3>2, <3>3 DEF Expected, IsLength
  <2>4. QED
    BY <2>3 DEF InStep
<1>2. QED
  BY <1>1, IAlways, PTL
=============================================================================
