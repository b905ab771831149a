-------------------------- MODULE TransportProofs --------------------------
(* Proofs about Transport, for frames, bodies, slices and a socket of any   *)
(* size: encode and decode of a header are inverse to each other, for every *)
(* header and every buffer, where the tests of header.rs draw samples; the  *)
(* application reads the bytes of the bodies in order (BytesKept) and       *)
(* Chunks::len counts them (LengthExact); the frames received are the       *)
(* frames sent (FramesKept), all of them after a clean end (CleanEndKept).  *)
(*                                                                          *)
(* What FlattenSeq and the loop of poll_read compute is found by induction  *)
(* over the number of blocks and of rounds, as sets of numbers closed under *)
(* successor (NatInduct).                                                   *)
EXTENDS Transport, SumProofs, SequenceTheorems, TLAPS

----------------------------------------------------------------------------
(* The header codec                                                       *)

U24 == {n \in Nat : n < 16777216}

\* Cutting the low byte off a number and putting it back.
LEMMA HighLow ==
  ASSUME NEW n \in Nat
  PROVE  High(n) \in Nat /\ Low(n) \in Byte /\ 256 * High(n) + Low(n) = n
BY SMT DEF High, Low, Byte

\* How wide the rest is.
LEMMA HighWidth ==
  ASSUME NEW n \in Nat
  PROVE  /\ n \in U16 => High(n) \in Byte
         /\ n \in U24 => High(n) \in U16
         /\ n \in U32 => High(n) \in U24
<1>1. n \in U16 => High(n) \in Byte
  <2>1. n < 65536 => n \div 256 < 256
    BY SMT
  <2>2. QED
    BY <2>1, HighLow, SMT DEF High, Byte, U16
<1>2. n \in U24 => High(n) \in U16
  <2>1. n < 16777216 => n \div 256 < 65536
    BY SMT
  <2>2. QED
    BY <2>1, HighLow, SMT DEF High, U16, U24
<1>3. n \in U32 => High(n) \in U24
  <2>1. n \div 65536 < 65536 => n \div 256 < 16777216
    BY SMT
  <2>2. QED
    BY <2>1, HighLow, SMT DEF High, U24, U32
<1>4. QED
  BY <1>1, <1>2, <1>3

\* Putting a byte under a number and cutting it off again.
LEMMA PutCut ==
  ASSUME NEW a \in Nat, NEW b \in Byte
  PROVE  256 * a + b \in Nat /\ High(256 * a + b) = a /\ Low(256 * a + b) = b
BY SMT DEF High, Low, Byte

\* to_be_bytes of a u16 gives bytes, and from_be_bytes undoes it.
LEMMA RoundTripU16 ==
  ASSUME NEW n \in U16
  PROVE  /\ be_u16(n)[1] \in Byte /\ be_u16(n)[2] \in Byte
         /\ from_be_u16(be_u16(n)[1], be_u16(n)[2]) = n
<1>1. n \in Nat
  BY DEF U16
<1>2. be_u16(n)[1] = High(n) /\ be_u16(n)[2] = Low(n)
  BY DEF be_u16
<1>3. QED
  BY <1>1, <1>2, HighLow, HighWidth, SMT DEF from_be_u16

\* The same for a u32.
LEMMA RoundTripU32 ==
  ASSUME NEW n \in U32
  PROVE  /\ \A i \in 1 .. 4 : be_u32(n)[i] \in Byte
         /\ from_be_u32(be_u32(n)[1], be_u32(n)[2], be_u32(n)[3], be_u32(n)[4]) = n
<1> DEFINE a == High(n)
           b == High(a)
<1>1. n \in Nat /\ a \in U24 /\ a \in Nat
  BY HighWidth, HighLow DEF U32, U24
<1>2. b \in U16 /\ b \in Nat /\ High(b) \in Byte
  BY <1>1, HighWidth, HighLow
<1>3. be_u32(n) = <<High(b), Low(b), Low(a), Low(n)>>
  BY DEF be_u32
<1>4. Low(b) \in Byte /\ Low(a) \in Byte /\ Low(n) \in Byte
  BY <1>1, <1>2, HighLow
<1>5. 256 * High(b) + Low(b) = b /\ 256 * b + Low(a) = a /\ 256 * a + Low(n) = n
  BY <1>1, <1>2, HighLow
<1>6. \A i \in 1 .. 4 : be_u32(n)[i] \in Byte
  BY <1>2, <1>3, <1>4
<1>7. from_be_u32(High(b), Low(b), Low(a), Low(n)) = n
  BY <1>5 DEF from_be_u32
<1> HIDE DEF a, b
<1>8. QED
  BY <1>3, <1>6, <1>7

\* from_be_bytes of two bytes is a u16, and to_be_bytes undoes it.
LEMMA RoundTripBytes2 ==
  ASSUME NEW a \in Byte, NEW b \in Byte
  PROVE  be_u16(from_be_u16(a, b)) = <<a, b>>
<1>1. a \in Nat
  BY DEF Byte
<1>2. QED
  BY <1>1, PutCut DEF be_u16, from_be_u16

\* The same for four bytes.
LEMMA RoundTripBytes4 ==
  ASSUME NEW a \in Byte, NEW b \in Byte, NEW c \in Byte, NEW d \in Byte
  PROVE  be_u32(from_be_u32(a, b, c, d)) = <<a, b, c, d>>
<1> DEFINE x == 256 * a + b
           y == 256 * x + c
           z == 256 * y + d
<1>1. a \in Nat
  BY DEF Byte
<1>2. x \in Nat /\ High(x) = a /\ Low(x) = b
  BY <1>1, PutCut
<1>3. y \in Nat /\ High(y) = x /\ Low(y) = c
  BY <1>2, PutCut
<1>4. High(z) = y /\ Low(z) = d
  BY <1>3, PutCut
<1>5. from_be_u32(a, b, c, d) = z
  BY DEF from_be_u32
<1> HIDE DEF x, y, z
<1>6. QED
  BY <1>2, <1>3, <1>4, <1>5 DEF be_u32

\* decode undoes encode: a header read from the wire is the header that was
\* written, for every tag, flag word, stream id and length (header.rs, encode
\* and decode), and encode yields 12 bytes.
THEOREM DecodeEncode ==
  ASSUME NEW h \in Headers
  PROVE  /\ encode(h) \in Buffers
         /\ decode_error(encode(h)) = "None"
         /\ decode(encode(h)) = h
<1> DEFINE f == be_u16(h.flags)
           s == be_u32(h.stream_id)
           l == be_u32(h.length)
           e == encode(h)
<1>1. /\ h.version = 0 /\ h.tag \in Tags
      /\ h.flags \in U16 /\ h.stream_id \in U32 /\ h.length \in U32
      /\ h = [version |-> h.version, tag |-> h.tag, flags |-> h.flags,
              stream_id |-> h.stream_id, length |-> h.length]
  BY DEF Headers
<1>2. /\ f[1] \in Byte /\ f[2] \in Byte /\ from_be_u16(f[1], f[2]) = h.flags
  BY <1>1, RoundTripU16
<1>3. /\ s[1] \in Byte /\ s[2] \in Byte /\ s[3] \in Byte /\ s[4] \in Byte
      /\ from_be_u32(s[1], s[2], s[3], s[4]) = h.stream_id
  BY <1>1, RoundTripU32
<1>4. /\ l[1] \in Byte /\ l[2] \in Byte /\ l[3] \in Byte /\ l[4] \in Byte
      /\ from_be_u32(l[1], l[2], l[3], l[4]) = h.length
  BY <1>1, RoundTripU32
<1>5. e = <<h.version, TagByte[h.tag], f[1], f[2],
            s[1], s[2], s[3], s[4], l[1], l[2], l[3], l[4]>>
  BY DEF encode
<1>6. TagByte[h.tag] \in 0 .. 3 /\ TagOf(TagByte[h.tag]) = h.tag
  BY <1>1 DEF TagByte, TagOf, Tags
<1> HIDE DEF f, s, l, e
<1>7. e \in Buffers
  <2>1. h.version \in Byte /\ TagByte[h.tag] \in Byte
    BY <1>1, <1>6 DEF Byte
  <2>2. QED
    BY <1>2, <1>3, <1>4, <1>5, <2>1 DEF Buffers, HEADER_SIZE
<1>8. decode_error(e) = "None"
  <2>1. e[1] = 0 /\ e[2] = TagByte[h.tag]
    BY <1>1, <1>5
  <2>2. ~(e[2] > 3)
    BY <1>6, <2>1
  <2>3. QED
    BY <2>1, <2>2 DEF decode_error
<1>9. decode(e) = h
  <2>1. /\ e[2] = TagByte[h.tag] /\ e[3] = f[1] /\ e[4] = f[2]
        /\ e[5] = s[1] /\ e[6] = s[2] /\ e[7] = s[3] /\ e[8] = s[4]
        /\ e[9] = l[1] /\ e[10] = l[2] /\ e[11] = l[3] /\ e[12] = l[4]
    BY <1>5
  <2>2. decode(e) = HeaderOf(h.tag, h.flags, h.stream_id, h.length)
    BY <1>2, <1>3, <1>4, <1>6, <2>1 DEF decode
  <2>3. QED
    BY <1>1, <2>2 DEF HeaderOf
<1>10. QED
  BY <1>7, <1>8, <1>9 DEF e

\* encode undoes decode: two different headers on the wire never decode to the
\* same frame header; decode loses nothing of a header it accepts.
THEOREM EncodeDecode ==
  ASSUME NEW buf \in Buffers, decode_error(buf) = "None"
  PROVE  encode(decode(buf)) = buf
<1>1. \A i \in 1 .. 12 : buf[i] \in Byte
  BY DEF Buffers, HEADER_SIZE
<1>2. buf = <<buf[1], buf[2], buf[3], buf[4], buf[5], buf[6], buf[7], buf[8],
              buf[9], buf[10], buf[11], buf[12]>>
  BY DEF Buffers, HEADER_SIZE
<1>3. buf[1] = 0 /\ ~(buf[2] > 3)
  BY DEF decode_error
<1>4. buf[2] \in 0 .. 3
  BY <1>1, <1>3 DEF Byte
<1>5. TagByte[TagOf(buf[2])] = buf[2]
  BY <1>4 DEF TagByte, TagOf
<1> DEFINE h == decode(buf)
           f == from_be_u16(buf[3], buf[4])
           s == from_be_u32(buf[5], buf[6], buf[7], buf[8])
           l == from_be_u32(buf[9], buf[10], buf[11], buf[12])
<1>6. be_u16(f) = <<buf[3], buf[4]>>
  BY <1>1, RoundTripBytes2
<1>7. be_u32(s) = <<buf[5], buf[6], buf[7], buf[8]>>
  <2>1. buf[5] \in Byte /\ buf[6] \in Byte /\ buf[7] \in Byte /\ buf[8] \in Byte
    BY <1>1
  <2>2. QED
    BY <2>1, RoundTripBytes4, Zenon
<1>8. be_u32(l) = <<buf[9], buf[10], buf[11], buf[12]>>
  <2>1. buf[9] \in Byte /\ buf[10] \in Byte /\ buf[11] \in Byte /\ buf[12] \in Byte
    BY <1>1
  <2>2. QED
    BY <2>1, RoundTripBytes4, Zenon
<1>9. /\ h.version = 0 /\ h.tag = TagOf(buf[2])
      /\ h.flags = f /\ h.stream_id = s /\ h.length = l
  BY DEF decode, HeaderOf
<1> HIDE DEF h, f, s, l
<1>10. encode(h) = <<0, buf[2], buf[3], buf[4], buf[5], buf[6], buf[7], buf[8],
                     buf[9], buf[10], buf[11], buf[12]>>
  BY <1>5, <1>6, <1>7, <1>8, <1>9 DEF encode
<1>11. QED
  BY <1>2, <1>3, <1>10 DEF h

\* The flags on_frame tests in the u16 of a header (Flags::contains) are the
\* flags the sender set, for every combination: no two share a bit.
THEOREM FlagsTold ==
  ASSUME NEW flags \in SUBSET Flags, NEW f \in Flags
  PROVE  contains(bits(flags), f) <=> f \in flags
<1> DEFINE y == IF "SYN" \in flags THEN 1 ELSE 0
           a == IF "ACK" \in flags THEN 1 ELSE 0
           n == IF "FIN" \in flags THEN 1 ELSE 0
           r == IF "RST" \in flags THEN 1 ELSE 0
<1>1. y \in 0 .. 1 /\ a \in 0 .. 1 /\ n \in 0 .. 1 /\ r \in 0 .. 1
  OBVIOUS
<1>2. bits(flags) = y + 2 * a + 4 * n + 8 * r
  BY DEF bits, FlagBit
<1>3. /\ y = 1 <=> "SYN" \in flags
      /\ a = 1 <=> "ACK" \in flags
      /\ n = 1 <=> "FIN" \in flags
      /\ r = 1 <=> "RST" \in flags
  OBVIOUS
<1>4. FlagBit["SYN"] = 1 /\ FlagBit["ACK"] = 2 /\ FlagBit["FIN"] = 4 /\ FlagBit["RST"] = 8
  BY DEF FlagBit
<1> HIDE DEF y, a, n, r
<1>5. CASE f = "SYN"
  <2>1. ((y + 2 * a + 4 * n + 8 * r) \div 1) % 2 = y
    BY <1>1
  <2>2. QED
    BY <1>2, <1>3, <1>4, <1>5, <2>1 DEF contains
<1>6. CASE f = "ACK"
  <2>1. ((y + 2 * a + 4 * n + 8 * r) \div 2) % 2 = a
    BY <1>1
  <2>2. QED
    BY <1>2, <1>3, <1>4, <1>6, <2>1 DEF contains
<1>7. CASE f = "FIN"
  <2>1. ((y + 2 * a + 4 * n + 8 * r) \div 4) % 2 = n
    BY <1>1
  <2>2. QED
    BY <1>2, <1>3, <1>4, <1>7, <2>1 DEF contains
<1>8. CASE f = "RST"
  <2>1. ((y + 2 * a + 4 * n + 8 * r) \div 8) % 2 = r
    BY <1>1
  <2>2. QED
    BY <1>2, <1>3, <1>4, <1>8, <2>1 DEF contains
<1>9. QED
  BY <1>5, <1>6, <1>7, <1>8 DEF Flags

Bytes == Seq(Byte)

----------------------------------------------------------------------------
(* Concatenation                                                            *)

\* Concatenation of bytes, as the other proofs use it.
LEMMA Assoc ==
  ASSUME NEW a \in Bytes, NEW b \in Bytes, NEW c \in Bytes
  PROVE  (a \o b) \o c = a \o (b \o c)
BY ConcatAssociative DEF Bytes

\* f[i] is the concatenation of the first i of the n blocks of s.
IsFlat(s, n, f) ==
  f = [i \in 1 .. n |-> IF i = 1 THEN s[i] ELSE f[i-1] \o s[i]]

\* Such a function at one place.
LEMMA FlatAt ==
  ASSUME NEW s, NEW n \in Nat, NEW f, IsFlat(s, n, f), NEW i \in 1 .. n
  PROVE  f[i] = IF i = 1 THEN s[i] ELSE f[i-1] \o s[i]
<1> DEFINE h == [j \in 1 .. n |-> IF j = 1 THEN s[j] ELSE f[j-1] \o s[j]]
<1>1. f = h
  BY DEF IsFlat
<1>2. h[i] = IF i = 1 THEN s[i] ELSE f[i-1] \o s[i]
  OBVIOUS
<1> HIDE DEF h
<1> QED
  BY <1>1, <1>2

\* At the first place.
LEMMA FlatFirst ==
  ASSUME NEW s, NEW n \in Nat, NEW f, IsFlat(s, n, f), n > 0
  PROVE  f[1] = s[1]
<1>1. 1 \in 1 .. n
  OBVIOUS
<1>2. f[1] = IF 1 = 1 THEN s[1] ELSE f[1-1] \o s[1]
  BY <1>1, FlatAt
<1> QED
  BY <1>2

\* From one place to the next.
LEMMA FlatNext ==
  ASSUME NEW s, NEW n \in Nat, NEW f, IsFlat(s, n, f),
         NEW i \in Nat, i > 0, i + 1 <= n
  PROVE  f[i+1] = f[i] \o s[i+1]
<1>1. i + 1 \in 1 .. n /\ i + 1 # 1 /\ (i + 1) - 1 = i
  OBVIOUS
<1> DEFINE h == [j \in 1 .. n |-> IF j = 1 THEN s[j] ELSE f[j-1] \o s[j]]
<1>2. f = h
  BY DEF IsFlat
<1>3. h[i+1] = f[(i+1)-1] \o s[i+1]
  BY <1>1
<1> HIDE DEF h
<1> QED
  BY <1>1, <1>2, <1>3

\* A function of concatenations exists for every sequence of blocks.
LEMMA FlatExists ==
  ASSUME NEW s PROVE \A n \in Nat : \E f : IsFlat(s, n, f)
<1> DEFINE T == {n \in Nat : \E f : IsFlat(s, n, f)}
<1>1. 0 \in T
  <2> DEFINE f == [i \in 1 .. 0 |-> {}]
  <2>1. IsFlat(s, 0, f)
    BY DEF IsFlat
  <2> QED
    BY <2>1
<1>2. ASSUME NEW n \in T PROVE n + 1 \in T
  <2>1. PICK f : IsFlat(s, n, f)
    BY <1>2
  <2> DEFINE g == [i \in 1 .. n + 1 |-> IF i <= n THEN f[i]
                                        ELSE IF i = 1 THEN s[i] ELSE f[i-1] \o s[i]]
  <2>2. \A i \in 1 .. n : f[i] = IF i = 1 THEN s[i] ELSE f[i-1] \o s[i]
    BY <2>1, FlatAt
  <2>5. \A i \in 1 .. n + 1 : g[i] = IF i <= n THEN f[i]
                                     ELSE IF i = 1 THEN s[i] ELSE f[i-1] \o s[i]
    OBVIOUS
  <2>6. DOMAIN g = 1 .. n + 1 /\ g = [i \in 1 .. n + 1 |-> g[i]]
    OBVIOUS
  <2> HIDE DEF g
  <2>3. \A i \in 1 .. n + 1 : g[i] = IF i = 1 THEN s[i] ELSE g[i-1] \o s[i]
    <3> TAKE i \in 1 .. n + 1
    <3>1. CASE i = 1
      BY <3>1, <2>2, <2>5
    <3>2. CASE i # 1
      <4>1. i - 1 \in 1 .. n + 1 /\ i - 1 <= n /\ g[i-1] = f[i-1]
        BY <3>2, <2>5
      <4>2. CASE i <= n
        <5>1. g[i] = f[i]
          BY <4>2, <2>5
        <5>2. f[i] = f[i-1] \o s[i]
          <6>1. n \in Nat /\ i \in 1 .. n
            BY <4>2
          <6> HIDE DEF T
          <6> QED
            BY <6>1, <3>2, <2>2
        <5> QED
          BY <5>1, <5>2, <4>1, <3>2
      <4>3. CASE ~(i <= n)
        BY <4>1, <4>3, <3>2, <2>5
      <4> QED
        BY <4>2, <4>3
    <3> QED
      BY <3>1, <3>2
  <2>4. IsFlat(s, n + 1, g)
    BY <2>3, <2>6 DEF IsFlat
  <2> QED
    BY <2>4
<1>3. T \in SUBSET Nat
  OBVIOUS
<1> QED
  BY <1>1, <1>2, <1>3, NatInduct

\* Two such functions agree as far as their blocks do.
LEMMA FlatUnique ==
  ASSUME NEW s \in Seq(Bytes), NEW t \in Seq(Bytes),
         NEW n \in Nat, NEW m \in Nat, NEW f, NEW g,
         IsFlat(s, n, f), IsFlat(t, m, g),
         n <= m, \A i \in 1 .. n : s[i] = t[i]
  PROVE  \A i \in 1 .. n : f[i] = g[i]
<1> DEFINE T == {i \in Nat : i \in 1 .. n => f[i] = g[i]}
<1>1. 0 \in T
  OBVIOUS
<1>2. ASSUME NEW i \in T PROVE i + 1 \in T
  <2>1. i \in Nat /\ (i \in 1 .. n => f[i] = g[i])
    OBVIOUS
  <2>2. ASSUME i + 1 \in 1 .. n PROVE f[i+1] = g[i+1]
    <3>1. CASE i = 0
      <4>1. n > 0 /\ m > 0
        BY <2>1, <2>2
      <4>2. f[1] = s[1] /\ g[1] = t[1] /\ s[1] = t[1]
        BY <4>1, FlatFirst
      <4> QED
        BY <3>1, <4>2
    <3>2. CASE i # 0
      <4>1. i > 0 /\ i + 1 <= n /\ i + 1 <= m /\ f[i] = g[i]
        BY <2>1, <2>2, <3>2
      <4>2. f[i+1] = f[i] \o s[i+1]
        BY <4>1, <2>1, FlatNext
      <4>3. g[i+1] = g[i] \o t[i+1]
        BY <4>1, <2>1, FlatNext
      <4> QED
        BY <4>1, <4>2, <4>3, <2>2
    <3> QED
      BY <3>1, <3>2
  <2> QED
    BY <2>1, <2>2
<1>3. T \in SUBSET Nat
  OBVIOUS
<1>4. \A i \in Nat : i \in T
  <2> HIDE DEF T
  <2> QED
    BY <1>1, <1>2, <1>3, NatInduct
<1> QED
  BY <1>4

\* What Concat computes: the last of the concatenations.
LEMMA ConcatValue ==
  ASSUME NEW s, Len(s) \in Nat \ {0}
  PROVE  \E f : IsFlat(s, Len(s), f) /\ Concat(s) = f[Len(s)]
<1> DEFINE F == CHOOSE f : IsFlat(s, Len(s), f)
<1>1. IsFlat(s, Len(s), F)
  BY FlatExists
<1>2. Concat(s) = F[Len(s)]
  BY DEF Concat, FlattenSeq, IsFlat
<1> QED
  BY <1>1, <1>2

\* Nothing is the concatenation of no blocks.
LEMMA ConcatNone == Concat(<<>>) = <<>>
BY DEF Concat, FlattenSeq

\* Concatenations of byte blocks are bytes.
LEMMA FlatBytes ==
  ASSUME NEW s \in Seq(Bytes), NEW f, IsFlat(s, Len(s), f)
  PROVE  \A i \in 1 .. Len(s) : f[i] \in Bytes
<1> DEFINE T == {i \in Nat : i \in 1 .. Len(s) => f[i] \in Bytes}
<1>1. 0 \in T
  OBVIOUS
<1>2. ASSUME NEW i \in T PROVE i + 1 \in T
  <2> SUFFICES ASSUME i + 1 \in 1 .. Len(s) PROVE f[i+1] \in Bytes
    OBVIOUS
  <2>1. s[i+1] \in Bytes /\ i \in Nat /\ Len(s) \in Nat
    OBVIOUS
  <2>3. CASE i = 0
    <3>0. Len(s) > 0
      BY <2>1, <2>3
    <3>1. f[1] = s[1]
      BY <2>1, <3>0, FlatFirst
    <3> QED
      BY <2>1, <2>3, <3>1
  <2>4. CASE i # 0
    <3>1. f[i] \in Bytes
      BY <2>1, <2>4
    <3>3. i \in Nat /\ i > 0 /\ i + 1 <= Len(s)
      BY <2>1, <2>4
    <3>2. f[i+1] = f[i] \o s[i+1]
      BY <2>1, <3>3, FlatNext
    <3> QED
      BY <3>1, <3>2, <2>1, ConcatProperties DEF Bytes
  <2> QED
    BY <2>3, <2>4
<1>3. T \in SUBSET Nat
  OBVIOUS
<1>4. \A i \in Nat : i \in T
  <2> HIDE DEF T
  <2> QED
    BY <1>1, <1>2, <1>3, NatInduct
<1> QED
  BY <1>4

\* So is the whole.
LEMMA ConcatBytes == ASSUME NEW s \in Seq(Bytes) PROVE Concat(s) \in Bytes
<1>1. CASE s = <<>>
  <2>1. <<>> \in Bytes
    BY EmptySeq DEF Bytes
  <2> QED
    BY <1>1, <2>1, ConcatNone
<1>2. CASE s # <<>>
  <2>1. Len(s) \in Nat \ {0} /\ Len(s) \in 1 .. Len(s)
    BY <1>2, EmptySeq
  <2>2. PICK f : IsFlat(s, Len(s), f) /\ Concat(s) = f[Len(s)]
    BY <2>1, ConcatValue
  <2> QED
    BY <2>1, <2>2, FlatBytes
<1> QED
  BY <1>1, <1>2

\* A block more at the end.
LEMMA ConcatAppend ==
  ASSUME NEW s \in Seq(Bytes), NEW x \in Bytes
  PROVE  Concat(Append(s, x)) = Concat(s) \o x
<1>1. PICK t : t = Append(s, x)
  OBVIOUS
<1>2. /\ t \in Seq(Bytes) /\ Len(t) = Len(s) + 1 /\ Len(s) \in Nat
      /\ \A i \in 1 .. Len(s) : t[i] = s[i]
      /\ t[Len(s) + 1] = x
  BY <1>1, AppendProperties
<1>3. PICK g : IsFlat(t, Len(t), g) /\ Concat(t) = g[Len(t)]
  BY <1>2, ConcatValue
<1>4. g[Len(t)] = IF Len(t) = 1 THEN t[Len(t)] ELSE g[Len(t)-1] \o t[Len(t)]
  BY <1>2, <1>3, FlatAt
<1>5. CASE s = <<>>
  <2>1. Len(t) = 1 /\ Concat(t) = x
    BY <1>2, <1>3, <1>4, <1>5
  <2>2. <<>> \o x = x
    BY ConcatEmptySeq DEF Bytes
  <2> QED
    BY <2>1, <2>2, <1>1, <1>5, ConcatNone
<1>6. CASE s # <<>>
  <2>1. Len(s) \in Nat \ {0} /\ Len(s) \in 1 .. Len(s)
    BY <1>6, EmptySeq
  <2>2. PICK f : IsFlat(s, Len(s), f) /\ Concat(s) = f[Len(s)]
    BY <2>1, ConcatValue
  <2>3. \A i \in 1 .. Len(s) : f[i] = g[i]
    <3>1. Len(s) <= Len(t) /\ \A i \in 1 .. Len(s) : s[i] = t[i]
      BY <1>2
    <3>2. Len(s) \in Nat /\ Len(t) \in Nat /\ s \in Seq(Bytes) /\ t \in Seq(Bytes)
      BY <1>2
    <3>3. IsFlat(s, Len(s), f) /\ IsFlat(t, Len(t), g)
      BY <1>3, <2>2
    <3> QED
      BY ONLY <3>1, <3>2, <3>3, FlatUnique
  <2>4. Len(t) # 1 /\ Len(t) - 1 = Len(s) /\ t[Len(t)] = x
    BY <1>2, <2>1
  <2> QED
    BY <1>1, <1>3, <1>4, <2>1, <2>2, <2>3, <2>4
<1> QED
  BY <1>5, <1>6

\* The first block and the others.
LEMMA ConcatHead ==
  ASSUME NEW s \in Seq(Bytes), s # <<>>
  PROVE  Concat(s) = Head(s) \o Concat(Tail(s))
<1>1. PICK t : t = Tail(s)
  OBVIOUS
<1>2. /\ t \in Seq(Bytes) /\ Len(s) \in Nat \ {0} /\ Len(t) = Len(s) - 1
      /\ Head(s) = s[1] /\ s[1] \in Bytes
      /\ \A i \in 1 .. Len(t) : t[i] = s[i+1]
  BY <1>1
<1>3. PICK f : IsFlat(s, Len(s), f) /\ Concat(s) = f[Len(s)]
  BY <1>2, ConcatValue
<1>4. f[1] = s[1]
  <2>1. Len(s) > 0 /\ Len(s) \in Nat
    BY <1>2
  <2> QED
    BY <2>1, <1>3, FlatFirst
<1>5. CASE t = <<>>
  <2>0. Len(t) = 0
    BY <1>5
  <2>3. Len(s) = 1
    BY <1>2, <2>0
  <2>1. Concat(s) = s[1]
    BY <1>3, <1>4, <2>3
  <2>2. s[1] \o <<>> = s[1]
    BY <1>2, ConcatEmptySeq DEF Bytes
  <2> QED
    BY <2>1, <2>2, <1>1, <1>2, <1>5, ConcatNone
<1>6. CASE t # <<>>
  <2>1. Len(t) \in Nat \ {0} /\ Len(t) \in 1 .. Len(t)
    BY <1>2, <1>6, EmptySeq
  <2>2. PICK g : IsFlat(t, Len(t), g) /\ Concat(t) = g[Len(t)]
    BY <2>1, ConcatValue
  <2>3. \A i \in 1 .. Len(t) : g[i] \in Bytes
    BY <1>2, <2>2, FlatBytes
  <2> DEFINE F == [i \in 1 .. Len(s) |-> IF i = 1 THEN s[1] ELSE s[1] \o g[i-1]]
  <2>4. ASSUME NEW i \in 1 .. Len(s)
        PROVE  F[i] = IF i = 1 THEN s[i] ELSE F[i-1] \o s[i]
    <3>1. CASE i = 1
      BY <3>1
    <3>2. CASE i = 2
      <4>0. Len(t) \in Nat /\ Len(t) > 0
        BY <2>1
      <4>1. g[1] = t[1]
        BY <4>0, <2>2, FlatFirst
      <4>2. t[1] = s[2]
        BY <4>0, <1>2
      <4> QED
        <5>3. 1 \in 1 .. Len(s) /\ 2 \in 1 .. Len(s) /\ 2 # 1 /\ 2 - 1 = 1
          BY <3>2, <1>2
        <5>4. F[2] = s[1] \o g[2-1] /\ F[1] = s[1]
          BY <5>3
        <5>1. F[2] = s[1] \o g[1] /\ F[1] = s[1]
          <6> HIDE DEF F
          <6> QED
            BY <5>3, <5>4
        <5> HIDE DEF F
        <5>2. F[2] = F[1] \o s[2]
          BY <5>1, <4>1, <4>2
        <5> QED
          BY <3>2, <5>2
    <3>3. CASE i > 2
      <4>1. PICK j \in Nat : i = j + 2
        BY <3>3, <1>2
      <4>2. /\ j > 0 /\ j + 1 <= Len(t) /\ Len(t) \in Nat
            /\ i # 1 /\ i - 1 \in 1 .. Len(s) /\ i - 1 # 1
            /\ i - 1 = j + 1 /\ (i - 1) - 1 = j
        BY <3>3, <4>1, <1>2
      <4>3. g[j+1] = g[j] \o t[j+1]
        BY <4>2, <2>2, FlatNext
      <4>4. g[j] \in Bytes /\ t[j+1] \in Bytes /\ t[j+1] = s[i]
        BY <4>1, <4>2, <2>3, <1>2
      <4>5. s[1] \o (g[j] \o t[j+1]) = (s[1] \o g[j]) \o t[j+1]
        <5>1. \A a, b, c \in Bytes : (a \o b) \o c = a \o (b \o c)
          BY Assoc
        <5> QED
          BY <1>2, <4>4, <5>1
      <4>6. F[i] = s[1] \o g[i-1]
        BY <4>2
      <4>7. F[i-1] = s[1] \o g[(i-1)-1]
        BY <4>2
      <4> HIDE DEF F
      <4>8. F[i] = F[i-1] \o s[i]
        BY <4>2, <4>3, <4>4, <4>5, <4>6, <4>7
      <4> QED
        BY <4>2, <4>8
    <3> QED
      BY <3>1, <3>2, <3>3
  <2>5. F = [i \in 1 .. Len(s) |-> F[i]]
    OBVIOUS
  <2>6. Len(s) # 1 /\ Len(s) \in 1 .. Len(s) /\ Len(s) - 1 = Len(t)
    BY <1>2, <2>1
  <2>7. F[Len(s)] = s[1] \o g[Len(t)]
    BY <2>6
  <2> HIDE DEF F
  <2>8. IsFlat(s, Len(s), F)
    BY <2>4, <2>5 DEF IsFlat
  <2>9. Len(s) \in Nat /\ Len(s) <= Len(s) /\ \A i \in 1 .. Len(s) : s[i] = s[i]
    BY <1>2
  <2>10. \A i \in 1 .. Len(s) : f[i] = F[i]
    BY <2>8, <2>9, <1>3, FlatUnique
  <2> QED
    BY <1>1, <1>2, <1>3, <2>2, <2>6, <2>7, <2>9, <2>10
<1> QED
  BY <1>5, <1>6

----------------------------------------------------------------------------
(* The receive buffer                                                       *)

ChunkSet == [vec : Bytes, offset : Nat]

Refs(q) == [i \in DOMAIN q |-> as_ref(q[i])]
Left(q) == Concat(Refs(q))

\* Cursors are within their chunks, and only the first chunk was read from.
Cursors(q) ==
  /\ q \in Seq(ChunkSet)
  /\ \A i \in 1 .. Len(q) : q[i].offset <= Len(q[i].vec) /\ (i > 1 => q[i].offset = 0)

\* The buffer: its length counts the vectors, cursors or not.
BufferOK(ch) ==
  /\ ch \in [seq : Seq(ChunkSet), len : Nat] /\ Cursors(ch.seq)
  /\ len(ch) = Len(Left(ch.seq))

\* What is past the cursor.
LEMMA RefBytes ==
  ASSUME NEW c \in ChunkSet, c.offset <= Len(c.vec)
  PROVE  as_ref(c) \in Bytes /\ Len(as_ref(c)) = Len(c.vec) - c.offset
<1>1. PICK v \in Seq(Byte), o \in Nat : v = c.vec /\ o = c.offset
  BY DEF ChunkSet, Bytes
<1>2. o <= Len(v) /\ Len(v) \in Nat
  BY <1>1
<1>3. \A i \in o + 1 .. Len(v) : v[i] \in Byte
  BY <1>1, <1>2
<1>4. /\ SubSeq(v, o + 1, Len(v)) \in Seq(Byte)
      /\ Len(SubSeq(v, o + 1, Len(v))) = IF o + 1 <= Len(v) THEN Len(v) - (o + 1) + 1 ELSE 0
  BY <1>2, <1>3, SubSeqProperties
<1>5. Len(SubSeq(v, o + 1, Len(v))) = Len(v) - o
  BY <1>2, <1>4
<1> QED
  BY <1>1, <1>4, <1>5 DEF as_ref, Bytes

\* The blocks of a buffer.
LEMMA RefsBytes ==
  ASSUME NEW q, Cursors(q)
  PROVE  Refs(q) \in Seq(Bytes) /\ Len(Refs(q)) = Len(q) /\ Left(q) \in Bytes
<1>1. q \in Seq(ChunkSet) /\ Len(q) \in Nat /\ DOMAIN q = 1 .. Len(q)
  BY DEF Cursors
<1>2. \A i \in 1 .. Len(q) : as_ref(q[i]) \in Bytes
  BY <1>1, RefBytes DEF Cursors
<1>3. Refs(q) = [i \in 1 .. Len(q) |-> as_ref(q[i])]
  BY <1>1 DEF Refs
<1>4. Refs(q) \in Seq(Bytes) /\ Len(Refs(q)) = Len(q)
  BY <1>1, <1>2, <1>3
<1> QED
  BY <1>4, ConcatBytes DEF Left

\* What is left of the first chunk comes first.
LEMMA LeftHead ==
  ASSUME NEW q, Cursors(q), q # <<>>
  PROVE  /\ Cursors(Tail(q)) /\ Head(q) \in ChunkSet
         /\ Head(q).offset <= Len(Head(q).vec)
         /\ \A i \in 1 .. Len(Tail(q)) : Tail(q)[i].offset = 0
         /\ as_ref(Head(q)) \in Bytes /\ Left(Tail(q)) \in Bytes
         /\ Left(q) = as_ref(Head(q)) \o Left(Tail(q))
<1>1. q \in Seq(ChunkSet) /\ Len(q) \in Nat \ {0} /\ DOMAIN q = 1 .. Len(q)
  BY EmptySeq DEF Cursors
<1>2. PICK t : t = Tail(q)
  OBVIOUS
<1>3. /\ t \in Seq(ChunkSet) /\ Len(t) = Len(q) - 1 /\ Len(t) \in Nat /\ Head(q) = q[1]
      /\ \A i \in 1 .. Len(t) : t[i] = q[i+1]
  BY <1>1, <1>2
<1>4. \A i \in 1 .. Len(t) : t[i].offset = 0 /\ t[i].offset <= Len(t[i].vec)
  <2> TAKE i \in 1 .. Len(t)
  <2>1. i + 1 \in 1 .. Len(q) /\ i + 1 > 1 /\ t[i] = q[i+1]
    BY <1>1, <1>3
  <2> QED
    BY <2>1 DEF Cursors
<1>5. Cursors(t)
  BY <1>3, <1>4 DEF Cursors
<1>6. q[1] \in ChunkSet /\ q[1].offset <= Len(q[1].vec)
  BY <1>1 DEF Cursors
<1>7. Refs(q) \in Seq(Bytes) /\ Len(Refs(q)) = Len(q) /\ Refs(t) \in Seq(Bytes) /\ Len(Refs(t)) = Len(t)
  BY <1>5, RefsBytes
<1>8. Head(Refs(q)) = as_ref(q[1])
  <2>1. Refs(q)[1] = as_ref(q[1])
    BY <1>1 DEF Refs
  <2> QED
    BY <2>1, <1>7, <1>1
<1>9. Tail(Refs(q)) = Refs(t)
  <2>1. PICK u : u = Tail(Refs(q))
    OBVIOUS
  <2>2. /\ u \in Seq(Bytes) /\ Len(u) = Len(Refs(q)) - 1
        /\ \A i \in 1 .. Len(u) : u[i] = Refs(q)[i+1]
    BY <2>1, <1>1, <1>7
  <2>3. \A i \in 1 .. Len(u) : u[i] = Refs(t)[i]
    <3> TAKE i \in 1 .. Len(u)
    <3>1. i \in 1 .. Len(t) /\ i + 1 \in 1 .. Len(q) /\ DOMAIN t = 1 .. Len(t)
      BY <2>2, <1>3, <1>7, <1>1
    <3>2. Refs(q)[i+1] = as_ref(q[i+1]) /\ Refs(t)[i] = as_ref(t[i])
      BY <3>1, <1>1 DEF Refs
    <3> QED
      BY <3>1, <3>2, <2>2, <1>3
  <2>4. Len(u) = Len(Refs(t))
    BY <2>2, <1>7, <1>3
  <2> QED
    BY <2>1, <2>2, <2>3, <2>4, <1>7, SeqEqual
<1>10. Refs(q) # <<>>
  BY <1>7, <1>1
<1>11. Left(q) = as_ref(q[1]) \o Left(t)
  BY <1>7, <1>8, <1>9, <1>10, ConcatHead DEF Left
<1> QED
  BY <1>2, <1>3, <1>4, <1>5, <1>6, <1>11, RefBytes, RefsBytes

\* A chunk more at the end.
LEMMA LeftAppend ==
  ASSUME NEW q, Cursors(q), NEW x \in Bytes
  PROVE  LET c == [vec |-> x, offset |-> 0]
         IN  Cursors(Append(q, c)) /\ Left(Append(q, c)) = Left(q) \o x
<1>1. PICK c : c = [vec |-> x, offset |-> 0]
  OBVIOUS
<1>2. c \in ChunkSet /\ c.offset = 0 /\ c.vec = x /\ Len(x) \in Nat
  BY <1>1 DEF ChunkSet, Bytes
<1>3. as_ref(c) = x
  <2>1. x \in Seq(Byte) /\ 0 + 1 = 1
    BY DEF Bytes
  <2>2. as_ref(c) = SubSeq(x, 1, Len(x))
    BY <1>2, <2>1 DEF as_ref
  <2> QED
    BY <2>1, <2>2, SubSeqFull
<1>4. q \in Seq(ChunkSet) /\ Len(q) \in Nat /\ DOMAIN q = 1 .. Len(q)
  BY DEF Cursors
<1>5. PICK t : t = Append(q, c)
  OBVIOUS
<1>6. /\ t \in Seq(ChunkSet) /\ Len(t) = Len(q) + 1 /\ t[Len(q) + 1] = c
      /\ \A i \in 1 .. Len(q) : t[i] = q[i]
  BY <1>2, <1>4, <1>5, AppendProperties
<1>7. Cursors(t)
  <2>1. ASSUME NEW i \in 1 .. Len(t)
        PROVE  t[i].offset <= Len(t[i].vec) /\ (i > 1 => t[i].offset = 0)
    <3>1. CASE i \in 1 .. Len(q)
      BY <3>1, <1>6 DEF Cursors
    <3>2. CASE i = Len(q) + 1
      BY <3>2, <1>2, <1>6
    <3> QED
      BY <3>1, <3>2, <1>4, <1>6
  <2> QED
    BY <1>6, <2>1 DEF Cursors
<1>8. /\ Refs(q) \in Seq(Bytes) /\ Len(Refs(q)) = Len(q)
      /\ Refs(t) \in Seq(Bytes) /\ Len(Refs(t)) = Len(t)
  BY <1>7, RefsBytes
<1>9. Refs(t) = Append(Refs(q), x)
  <2>1. PICK u : u = Append(Refs(q), x)
    OBVIOUS
  <2>2. /\ u \in Seq(Bytes) /\ Len(u) = Len(Refs(q)) + 1 /\ u[Len(Refs(q)) + 1] = x
        /\ \A i \in 1 .. Len(Refs(q)) : u[i] = Refs(q)[i]
    BY <2>1, <1>8, AppendProperties
  <2>3. DOMAIN t = 1 .. Len(t) /\ Len(u) = Len(t)
    BY <1>6, <1>8, <2>2
  <2>4. ASSUME NEW i \in 1 .. Len(u) PROVE u[i] = Refs(t)[i]
    <3>1. Refs(t)[i] = as_ref(t[i])
      BY <2>3 DEF Refs
    <3>2. CASE i \in 1 .. Len(q)
      <4>1. Refs(q)[i] = as_ref(q[i])
        BY <1>4, <3>2 DEF Refs
      <4> QED
        BY <3>1, <3>2, <4>1, <1>6, <1>8, <2>2
    <3>3. CASE i = Len(q) + 1
      BY <3>1, <3>3, <1>3, <1>6, <1>8, <2>2
    <3> QED
      BY <3>2, <3>3, <1>4, <1>6, <2>3
  <2> QED
    BY <2>1, <2>2, <2>3, <2>4, <1>8, SeqEqual
<1>10. Left(t) = Left(q) \o x
  BY <1>8, <1>9, ConcatAppend DEF Left
<1> QED
  BY <1>1, <1>5, <1>7, <1>10

\* Chunks::push: the bytes come last.
LEMMA PushBytes ==
  ASSUME NEW ch, BufferOK(ch), NEW x \in Bytes
  PROVE  BufferOK(push(ch, x)) /\ Left(push(ch, x).seq) = Left(ch.seq) \o x
<1>1. /\ ch.seq \in Seq(ChunkSet) /\ ch.len \in Nat /\ Cursors(ch.seq)
      /\ len(ch) = Len(Left(ch.seq)) /\ Left(ch.seq) \in Bytes
  BY RefsBytes DEF BufferOK
<1>2. PICK d : d = push(ch, x)
  OBVIOUS
<1>3. Len(x) \in Nat /\ Len(Left(ch.seq)) \in Nat
  BY <1>1 DEF Bytes
<1>4. CASE x = <<>>
  <2>1. d.seq = ch.seq /\ d.len = ch.len + Len(x) /\ d \in [seq : Seq(ChunkSet), len : Nat]
    BY <1>1, <1>2, <1>3, <1>4 DEF push
  <2>2. Len(x) = 0 /\ d.len = ch.len
    BY <1>4, <1>1, <2>1
  <2>3. len(d) = len(ch)
    BY <2>1, <2>2 DEF len
  <2>4. Left(ch.seq) \o x = Left(ch.seq)
    BY <1>4, <1>1, ConcatEmptySeq DEF Bytes
  <2> QED
    BY <1>1, <1>2, <2>1, <2>3, <2>4 DEF BufferOK
<1>5. CASE x # <<>>
  <2>1. PICK c : c = [vec |-> x, offset |-> 0]
    OBVIOUS
  <2>2. d.seq = Append(ch.seq, c) /\ d.len = ch.len + Len(x)
    BY <1>2, <1>5, <2>1 DEF push
  <2>3. Cursors(d.seq) /\ Left(d.seq) = Left(ch.seq) \o x
    BY <1>1, <2>1, <2>2, LeftAppend
  <2>4. d \in [seq : Seq(ChunkSet), len : Nat]
    <3>1. d = [seq |-> d.seq, len |-> d.len]
      BY <1>2 DEF push
    <3>2. d.seq \in Seq(ChunkSet) /\ d.len \in Nat
      BY <2>2, <2>3, <1>1, <1>3 DEF Cursors
    <3> QED
      BY <3>1, <3>2
  <2>5. Len(Left(d.seq)) = Len(Left(ch.seq)) + Len(x)
    BY <2>3, <1>1, ConcatProperties DEF Bytes
  <2>6. len(d) = len(ch) + Len(x)
    <3>1. c \in ChunkSet /\ c.offset = 0
      BY <2>1 DEF ChunkSet
    <3>2. d.seq # <<>>
      BY <2>2, <3>1, <1>1
    <3>3. CASE ch.seq = <<>>
      <4>1. Head(d.seq) = c
        BY <2>2, <3>3, <3>1
      <4> QED
        BY <4>1, <3>1, <3>2, <3>3, <2>2, <1>1, <1>3 DEF len
    <3>4. CASE ch.seq # <<>>
      <4>1. Head(d.seq) = Head(ch.seq) /\ Head(ch.seq).offset \in Nat
        <5>1. PICK q \in Seq(ChunkSet) : q = ch.seq
          BY <1>1
        <5>2. Head(Append(q, c)) = Head(q) /\ Head(q) \in ChunkSet
          BY <5>1, <3>1, <3>4
        <5>3. Head(q).offset \in Nat
          BY <5>2 DEF ChunkSet
        <5> QED
          BY <5>1, <5>2, <5>3, <2>2
      <4>2. len(d) = d.len - Head(d.seq).offset
        BY <3>2 DEF len
      <4>3. len(ch) = ch.len - Head(ch.seq).offset
        BY <3>4 DEF len
      <4>4. PICK o \in Nat, m \in Nat, k \in Nat : o = Head(ch.seq).offset /\ m = ch.len /\ k = Len(x)
        BY <4>1, <1>1, <1>3
      <4>6. d.len = m + k
        BY <2>2, <4>4
      <4>7. Head(d.seq).offset = o
        BY <4>1, <4>4
      <4>5. len(d) = m + k - o /\ len(ch) = m - o
        BY ONLY <4>2, <4>3, <4>4, <4>6, <4>7
      <4> QED
        BY <4>4, <4>5
    <3> QED
      BY <3>3, <3>4
  <2> QED
    BY <1>1, <1>2, <2>3, <2>4, <2>5, <2>6 DEF BufferOK
<1> QED
  BY <1>4, <1>5

\* Chunks::pop: what is left of the first chunk goes, the others stay.
LEMMA PopBytes ==
  ASSUME NEW ch, BufferOK(ch), ch.seq # <<>>
  PROVE  /\ BufferOK(pop(ch)) /\ as_ref(Head(ch.seq)) \in Bytes
         /\ Left(ch.seq) = as_ref(Head(ch.seq)) \o Left(pop(ch).seq)
<1>1. /\ ch.seq \in Seq(ChunkSet) /\ ch.len \in Nat /\ Cursors(ch.seq)
      /\ len(ch) = Len(Left(ch.seq)) /\ Left(ch.seq) \in Bytes
  BY RefsBytes DEF BufferOK
<1>2. PICK c, t : c = Head(ch.seq) /\ t = Tail(ch.seq)
  OBVIOUS
<1>3. /\ Cursors(t) /\ c \in ChunkSet /\ c.offset <= Len(c.vec)
      /\ \A i \in 1 .. Len(t) : t[i].offset = 0
      /\ as_ref(c) \in Bytes /\ Left(t) \in Bytes
      /\ Left(ch.seq) = as_ref(c) \o Left(t)
  BY <1>1, <1>2, LeftHead
<1>4. c.offset \in Nat /\ Len(c.vec) \in Nat /\ Len(as_ref(c)) = Len(c.vec) - c.offset
  BY <1>3, RefBytes DEF ChunkSet, Bytes
<1>5. Len(Left(ch.seq)) = Len(as_ref(c)) + Len(Left(t)) /\ Len(Left(t)) \in Nat
  BY <1>3, ConcatProperties DEF Bytes
<1>6. ch.len = Len(c.vec) + Len(Left(t))
  <2>1. len(ch) = ch.len - c.offset
    BY <1>2 DEF len
  <2>2. ch.len - c.offset = Len(c.vec) - c.offset + Len(Left(t))
    BY ONLY <2>1, <1>1, <1>4, <1>5, Zenon
  <2>3. PICK a \in Nat, o \in Nat, v \in Nat, n \in Nat :
          a = ch.len /\ o = c.offset /\ v = Len(c.vec) /\ n = Len(Left(t))
    BY <1>1, <1>4, <1>5
  <2>4. a - o = v - o + n
    BY ONLY <2>2, <2>3, Zenon
  <2>5. a = v + n
    BY ONLY <2>4, a \in Nat, o \in Nat, v \in Nat, n \in Nat
  <2> QED
    BY <2>3, <2>5
<1>7. PICK d : d = pop(ch)
  OBVIOUS
<1>8. d.seq = t /\ d.len = ch.len - (Len(c.vec) - c.offset + c.offset) /\ d = [seq |-> d.seq, len |-> d.len]
  BY <1>2, <1>7 DEF pop, remaining
<1>9. d.len = Len(Left(t))
  BY <1>4, <1>5, <1>6, <1>8
<1>10. len(d) = Len(Left(t))
  <2>1. CASE t = <<>>
    BY <2>1, <1>5, <1>8, <1>9 DEF len
  <2>2. CASE t # <<>>
    <3>1. Head(t).offset = 0
      BY <2>2, <1>3 DEF Cursors
    <3> QED
      BY <2>2, <3>1, <1>5, <1>8, <1>9 DEF len
  <2> QED
    BY <2>1, <2>2
<1>11. d \in [seq : Seq(ChunkSet), len : Nat]
  BY <1>3, <1>5, <1>8, <1>9 DEF Cursors
<1> QED
  BY <1>2, <1>3, <1>7, <1>8, <1>10, <1>11 DEF BufferOK

\* Bytes cut in two.
LEMMA CutBytes ==
  ASSUME NEW v \in Bytes, NEW o \in Nat, NEW k \in Nat, o + k <= Len(v)
  PROVE  /\ SubSeq(v, o + 1, o + k) \in Bytes /\ Len(SubSeq(v, o + 1, o + k)) = k
         /\ SubSeq(v, o + k + 1, Len(v)) \in Bytes
         /\ SubSeq(v, o + 1, Len(v))
              = SubSeq(v, o + 1, o + k) \o SubSeq(v, o + k + 1, Len(v))
<1>1. v \in Seq(Byte) /\ Len(v) \in Nat
  BY DEF Bytes
<1>2. /\ \A i \in o + 1 .. o + k : v[i] \in Byte
      /\ \A i \in o + k + 1 .. Len(v) : v[i] \in Byte
  BY <1>1
<1>3. /\ SubSeq(v, o + 1, o + k) \in Seq(Byte)
      /\ Len(SubSeq(v, o + 1, o + k)) = IF o + 1 <= o + k THEN (o + k) - (o + 1) + 1 ELSE 0
  BY <1>1, <1>2, SubSeqProperties
<1>4. SubSeq(v, o + k + 1, Len(v)) \in Seq(Byte)
  BY <1>1, <1>2, SubSeqProperties
<1>5. Len(SubSeq(v, o + 1, o + k)) = k
  BY <1>3
<1>6. o + 1 \in 1 .. Len(v) + 1 /\ o + k \in (o + 1) - 1 .. Len(v) /\ Len(v) \in o + k .. Len(v)
  BY <1>1
<1>7. SubSeq(v, o + 1, o + k) \o SubSeq(v, (o + k) + 1, Len(v)) = SubSeq(v, o + 1, Len(v))
  BY <1>1, <1>6, ConcatAdjacentSubSeq
<1> QED
  BY <1>3, <1>4, <1>5, <1>7 DEF Bytes

\* Chunk::advance: the first k bytes of the first chunk go.
LEMMA AdvanceBytes ==
  ASSUME NEW ch, BufferOK(ch), ch.seq # <<>>, NEW k \in Nat, k <= remaining(Head(ch.seq))
  PROVE  /\ BufferOK(advance(ch, k))
         /\ SubSeq(as_ref(Head(ch.seq)), 1, k) \in Bytes
         /\ Len(SubSeq(as_ref(Head(ch.seq)), 1, k)) = k
         /\ Left(ch.seq) = SubSeq(as_ref(Head(ch.seq)), 1, k) \o Left(advance(ch, k).seq)
<1>1. /\ ch \in [seq : Seq(ChunkSet), len : Nat]
      /\ ch.seq \in Seq(ChunkSet) /\ ch.len \in Nat /\ Cursors(ch.seq)
      /\ len(ch) = Len(Left(ch.seq)) /\ Left(ch.seq) \in Bytes
  BY RefsBytes DEF BufferOK
<1>2. PICK c, t : c = Head(ch.seq) /\ t = Tail(ch.seq)
  OBVIOUS
<1>3. /\ Cursors(t) /\ c \in ChunkSet /\ c.offset <= Len(c.vec)
      /\ \A i \in 1 .. Len(t) : t[i].offset = 0
      /\ as_ref(c) \in Bytes /\ Left(t) \in Bytes
      /\ Left(ch.seq) = as_ref(c) \o Left(t)
  BY <1>1, <1>2, LeftHead
<1>4. PICK v \in Bytes, o \in Nat : v = c.vec /\ o = c.offset
  BY <1>3 DEF ChunkSet
<1>5. Len(v) \in Nat /\ o + k <= Len(v)
  <2>1. PICK m \in Nat : m = Len(v)
    BY <1>4 DEF Bytes
  <2>2. remaining(c) = m - o /\ k <= remaining(c)
    BY <1>2, <1>4, <2>1 DEF remaining
  <2> QED
    BY <2>1, <2>2
<1>6. PICK d : d = [vec |-> v, offset |-> o + k]
  OBVIOUS
<1>7. d \in ChunkSet /\ d.offset = o + k /\ d.vec = v
  BY <1>6 DEF ChunkSet
<1>8. PICK q : q = [ch.seq EXCEPT ![1] = d]
  OBVIOUS
<1>9. /\ q \in Seq(ChunkSet) /\ q # <<>> /\ Len(q) = Len(ch.seq) /\ Len(q) \in Nat \ {0}
      /\ q[1] = d /\ \A i \in 1 .. Len(q) : i > 1 => q[i] = ch.seq[i]
  BY <1>1, <1>7, <1>8
<1>10. PICK a : a = advance(ch, k)
  OBVIOUS
<1>11. a = [seq |-> q, len |-> ch.len]
  <2>1. ch.seq[1] = c /\ 1 \in DOMAIN ch.seq
    BY <1>1, <1>2
  <2>2. [c EXCEPT !.offset = c.offset + k] = d
    BY <1>3, <1>4, <1>6 DEF ChunkSet
  <2>3. a = [ch EXCEPT !.seq = [ch.seq EXCEPT ![1] = [ch.seq[1] EXCEPT !.offset = ch.seq[1].offset + k]]]
    BY <1>10 DEF advance
  <2>4. a = [ch EXCEPT !.seq = [ch.seq EXCEPT ![1] = d]]
    BY <2>1, <2>2, <2>3
  <2>5. a = [ch EXCEPT !.seq = q]
    BY <2>4, <1>8
  <2> QED
    BY <2>5, <1>1
<1>12. Cursors(q)
  <2>1. ASSUME NEW i \in 1 .. Len(q)
        PROVE  q[i].offset <= Len(q[i].vec) /\ (i > 1 => q[i].offset = 0)
    <3>1. CASE i = 1
      BY <3>1, <1>5, <1>7, <1>9
    <3>2. CASE i > 1
      <4>1. q[i] = ch.seq[i] /\ i \in 1 .. Len(ch.seq)
        BY <3>2, <1>9
      <4> QED
        BY <4>1, <3>2, <1>1 DEF Cursors
    <3> QED
      BY <3>1, <3>2
  <2> QED
    BY <2>1, <1>9 DEF Cursors
<1>13. Head(q) = d /\ Tail(q) = t
  <2>1. Head(q) = d
    BY <1>9
  <2>2. /\ Tail(q) \in Seq(ChunkSet) /\ Len(Tail(q)) = Len(q) - 1
        /\ \A i \in 1 .. Len(Tail(q)) : Tail(q)[i] = q[i+1]
    BY <1>9
  <2>3. /\ t \in Seq(ChunkSet) /\ Len(t) = Len(ch.seq) - 1
        /\ \A i \in 1 .. Len(t) : t[i] = ch.seq[i+1]
    BY <1>1, <1>2
  <2>4. Len(Tail(q)) = Len(t) /\ \A i \in 1 .. Len(Tail(q)) : Tail(q)[i] = t[i]
    BY <2>2, <2>3, <1>9
  <2> QED
    BY <2>1, <2>2, <2>3, <2>4, SeqEqual
<1>14. Left(q) = as_ref(d) \o Left(t) /\ as_ref(d) \in Bytes
  BY <1>9, <1>12, <1>13, LeftHead
<1>15. PICK r \in Bytes : r = SubSeq(v, o + 1, o + k) /\ Len(r) = k
  BY <1>5, CutBytes
<1>16. as_ref(c) = r \o as_ref(d)
  <2>1. as_ref(d) = SubSeq(v, o + k + 1, Len(v)) /\ as_ref(c) = SubSeq(v, o + 1, Len(v))
    BY <1>4, <1>7 DEF as_ref
  <2>2. SubSeq(v, o + 1, Len(v)) = SubSeq(v, o + 1, o + k) \o SubSeq(v, o + k + 1, Len(v))
    BY <1>5, CutBytes
  <2> QED
    BY <2>1, <2>2, <1>15, Zenon
<1>17. SubSeq(as_ref(c), 1, k) = r
  <2>1. r \in Seq(Byte) /\ as_ref(d) \in Seq(Byte) /\ Len(r) = k
    BY <1>14, <1>15 DEF Bytes
  <2>2. CASE k = 0
    <3>1. SubSeq(as_ref(c), 1, k) = <<>>
      BY <2>2, SubSeqEmpty
    <3> QED
      BY <3>1, <2>1, <2>2
  <2>3. CASE k > 0
    <3>1. SubSeq(r \o as_ref(d), 1, k) = SubSeq(r, 1, k)
      BY <2>1, <2>3, SubSeqOfConcat1
    <3>2. SubSeq(r, 1, Len(r)) = r
      BY <2>1, SubSeqFull
    <3> QED
      BY <3>1, <3>2, <2>1, <1>16
  <2> QED
    BY <2>2, <2>3
<1>18. Left(ch.seq) = r \o Left(q)
  <2>1. (r \o as_ref(d)) \o Left(t) = r \o (as_ref(d) \o Left(t))
    BY ONLY <1>3, <1>14, Assoc
  <2> QED
    BY <2>1, <1>3, <1>14, <1>16
<1>19. len(a) = Len(Left(q))
  <2>1. Len(Left(ch.seq)) = Len(r) + Len(Left(q)) /\ Len(Left(q)) \in Nat
    BY <1>12, <1>18, RefsBytes, ConcatProperties DEF Bytes
  <2>2. len(ch) = ch.len - o /\ len(a) = ch.len - (o + k)
    <3>1. len(ch) = ch.len - o
      BY <1>2, <1>4 DEF len
    <3>2. a.seq = q /\ a.len = ch.len /\ q # <<>> /\ Head(q).offset = o + k
      BY <1>7, <1>9, <1>11, <1>13
    <3> QED
      BY <3>1, <3>2 DEF len
  <2>3. PICK x \in Nat, y \in Nat : x = ch.len /\ y = Len(Left(q))
    BY <2>1, <1>1
  <2>4. x - o = k + y
    BY <2>1, <2>2, <2>3, <1>1, <1>15
  <2>5. x - (o + k) = y
    BY ONLY <2>4, x \in Nat, y \in Nat, o \in Nat, k \in Nat
  <2> QED
    BY <2>2, <2>3, <2>5
<1>20. a \in [seq : Seq(ChunkSet), len : Nat] /\ a.seq = q
  BY <1>1, <1>9, <1>11
<1> QED
  BY <1>2, <1>10, <1>12, <1>15, <1>17, <1>18, <1>19, <1>20 DEF BufferOK

----------------------------------------------------------------------------
(* Stream::poll_read                                                        *)

\* The states of its loop, for a slice of n bytes: what was copied and what is
\* left are together the bytes x that were there before.
Copies(n, x) ==
  {c \in [chunks : [seq : Seq(ChunkSet), len : Nat], out : Bytes, done : BOOLEAN] :
     BufferOK(c.chunks) /\ Len(c.out) <= n /\ c.out \o Left(c.chunks.seq) = x}

\* A round of the loop loses and repeats nothing.
LEMMA RoundKeeps ==
  ASSUME NEW n \in Nat, NEW x, NEW c \in Copies(n, x)
  PROVE  CopyRound(c, n) \in Copies(n, x)
<1>1. /\ c \in [chunks : [seq : Seq(ChunkSet), len : Nat], out : Bytes, done : BOOLEAN]
      /\ BufferOK(c.chunks) /\ Len(c.out) <= n /\ c.out \o Left(c.chunks.seq) = x
  BY DEF Copies
<1>2. PICK ch, out : ch = c.chunks /\ out = c.out
  OBVIOUS
<1>3. /\ BufferOK(ch) /\ Len(out) <= n /\ out \o Left(ch.seq) = x
      /\ out \in Bytes /\ Len(out) \in Nat
  <2>1. BufferOK(ch) /\ Len(out) <= n /\ out \o Left(ch.seq) = x /\ out \in Bytes
    BY <1>1, <1>2
  <2>2. Len(out) \in Nat
    BY ONLY <2>1 DEF Bytes
  <2> QED
    BY <2>1, <2>2
<1>4. CASE c.done
  BY <1>4 DEF CopyRound
<1>5. CASE ~c.done /\ ch.seq = <<>>
  <2>1. CopyRound(c, n) = [c EXCEPT !.done = TRUE]
    BY <1>2, <1>5 DEF CopyRound
  <2> QED
    BY <2>1, <1>1 DEF Copies
<1>6. CASE ~c.done /\ ch.seq # <<>> /\ remaining(Head(ch.seq)) = 0
  <2>1. CopyRound(c, n) = [c EXCEPT !.chunks = pop(c.chunks)]
    BY <1>2, <1>6 DEF CopyRound
  <2>2. PICK d : d = pop(ch)
    OBVIOUS
  <2>3. /\ BufferOK(d) /\ as_ref(Head(ch.seq)) \in Bytes
        /\ Left(ch.seq) = as_ref(Head(ch.seq)) \o Left(d.seq)
    BY <1>3, <1>6, <2>2, PopBytes
  <2>4. as_ref(Head(ch.seq)) = <<>>
    <3>1. Cursors(ch.seq)
      BY <1>3 DEF BufferOK
    <3>2. Head(ch.seq) \in ChunkSet /\ Head(ch.seq).offset <= Len(Head(ch.seq).vec)
      BY <3>1, <1>6, LeftHead
    <3>3. Len(as_ref(Head(ch.seq))) = Len(Head(ch.seq).vec) - Head(ch.seq).offset
      BY <3>2, RefBytes
    <3>4. Len(as_ref(Head(ch.seq))) = 0
      BY <3>3, <1>6 DEF remaining
    <3> QED
      BY <3>4, <2>3, EmptySeq DEF Bytes
  <2>5. Left(d.seq) \in Bytes
    BY <2>3, RefsBytes DEF BufferOK
  <2>6. Left(ch.seq) = Left(d.seq)
    BY <2>3, <2>4, <2>5, ConcatEmptySeq DEF Bytes
  <2>7. d \in [seq : Seq(ChunkSet), len : Nat]
    BY <2>3 DEF BufferOK
  <2>8. PICK e : e = [c EXCEPT !.chunks = d]
    OBVIOUS
  <2>9. e.chunks = d /\ e.out = c.out
        /\ e \in [chunks : [seq : Seq(ChunkSet), len : Nat], out : Bytes, done : BOOLEAN]
    BY <2>7, <2>8, <1>1
  <2>10. e \in Copies(n, x)
    BY <2>3, <2>6, <2>9, <1>1, <1>2 DEF Copies
  <2> QED
    BY <2>1, <2>2, <2>8, <2>10, <1>2
<1>7. CASE ~c.done /\ ch.seq # <<>> /\ remaining(Head(ch.seq)) # 0
  <2>1. Cursors(ch.seq)
    BY <1>3 DEF BufferOK
  <2>2. Head(ch.seq) \in ChunkSet /\ Head(ch.seq).offset <= Len(Head(ch.seq).vec)
    BY <2>1, <1>7, LeftHead
  <2>3. remaining(Head(ch.seq)) \in Nat
    BY <2>2 DEF remaining, ChunkSet, Bytes
  <2>4. PICK k : k = IF remaining(Head(ch.seq)) <= n - Len(out) THEN remaining(Head(ch.seq))
                                                                  ELSE n - Len(out)
    OBVIOUS
  <2>5. k \in Nat /\ k <= remaining(Head(ch.seq)) /\ Len(out) + k <= n
    BY <2>3, <2>4, <1>3
  <2>6. PICK d, r : d = advance(ch, k) /\ r = SubSeq(as_ref(Head(ch.seq)), 1, k)
    OBVIOUS
  <2>7. BufferOK(d) /\ r \in Bytes /\ Len(r) = k /\ Left(ch.seq) = r \o Left(d.seq)
    BY <2>5, <2>6, <1>3, <1>7, AdvanceBytes
  <2>8. PICK e : e = [chunks |-> d, out |-> out \o r, done |-> Len(out) + k = n]
    OBVIOUS
  <2>9. CopyRound(c, n) = e
    BY <2>4, <2>6, <2>8, <1>2, <1>7 DEF CopyRound
  <2>10. out \o r \in Bytes /\ Len(out \o r) = Len(out) + k
    BY <2>7, <1>3, ConcatProperties DEF Bytes
  <2>11. (out \o r) \o Left(d.seq) = out \o Left(ch.seq)
    <3>1. Left(d.seq) \in Bytes
      BY <2>7, RefsBytes DEF BufferOK
    <3>2. (out \o r) \o Left(d.seq) = out \o (r \o Left(d.seq))
      BY ONLY <3>1, <2>7, <1>3, Assoc
    <3> QED
      BY <3>2, <2>7
  <2>12. d \in [seq : Seq(ChunkSet), len : Nat]
    BY <2>7 DEF BufferOK
  <2>13. /\ e \in [chunks : [seq : Seq(ChunkSet), len : Nat], out : Bytes, done : BOOLEAN]
         /\ e.chunks = d /\ e.out = out \o r
    BY <2>8, <2>10, <2>12
  <2>14. Len(e.out) <= n /\ e.out \o Left(e.chunks.seq) = x
    BY <2>5, <2>10, <2>11, <2>13, <1>3
  <2>15. e \in Copies(n, x)
    BY <2>7, <2>13, <2>14 DEF Copies
  <2> QED
    BY <2>9, <2>15
<1> QED
  BY <1>4, <1>5, <1>6, <1>7

\* The function the loop is folded with: it[s] is what rounds numbered by s
\* leave.  The rounds do not look at their number.
IsLoop(start, n, m, it) ==
  it = [s \in SUBSET (1 .. m) |->
          IF s = {} THEN start ELSE CopyRound(it[s \ {Max(s)}], n)]

\* The greatest of some numbers is one of them.
LEMMA MaxIn ==
  ASSUME NEW m \in Nat, NEW s \in SUBSET (1 .. m), s # {}
  PROVE  Max(s) \in s
<1> DEFINE U == {u \in Nat : \A i \in s : i <= u}
<1>1. U \in SUBSET Nat /\ m \in U
  OBVIOUS
<1>2. PICK u \in U : \A w \in U : u <= w
  <2> HIDE DEF U
  <2> QED
    BY <1>1, LeastNat
<1>3. u \in Nat /\ \A i \in s : i <= u
  BY <1>2
<1>4. u \in s
  <2> SUFFICES ASSUME u \notin s PROVE FALSE
    OBVIOUS
  <2>1. PICK i \in s : TRUE
    OBVIOUS
  <2>2. u > 0 /\ u - 1 \in Nat
    BY <2>1, <1>3
  <2>3. \A j \in s : j <= u - 1
    BY <1>3
  <2>4. u - 1 \in U
    BY <2>2, <2>3
  <2> QED
    BY <2>2, <2>4, <1>2
<1> QED
  BY <1>3, <1>4 DEF Max

\* There is such a function: the number of the rounds tells the result.
LEMMA LoopExists ==
  ASSUME NEW start, NEW n, NEW m \in Nat
  PROVE  \E it : IsLoop(start, n, m, it)
<1> DEFINE IsRow(h, k) ==
             h = [i \in 0 .. k |-> IF i = 0 THEN start ELSE CopyRound(h[i-1], n)]
           T == {k \in Nat : \E h : IsRow(h, k)}
<1>1. 0 \in T
  <2> DEFINE h == [i \in 0 .. 0 |-> start]
  <2>1. IsRow(h, 0)
    OBVIOUS
  <2> QED
    BY <2>1
<1>2. ASSUME NEW k \in T PROVE k + 1 \in T
  <2>1. PICK h : IsRow(h, k)
    BY <1>2
  <2>2. k \in Nat
    BY <1>2
  <2> DEFINE g == [i \in 0 .. k + 1 |-> IF i = 0 THEN start ELSE CopyRound(h[i-1], n)]
  <2>3. \A i \in 0 .. k : g[i] = h[i]
    <3> DEFINE h2 == [i \in 0 .. k |-> IF i = 0 THEN start ELSE CopyRound(h[i-1], n)]
    <3>1. h = h2
      BY <2>1
    <3>2. \A i \in 0 .. k : g[i] = h2[i]
      BY <2>2
    <3> HIDE DEF g, h2
    <3> QED
      BY <3>1, <3>2
  <2>4. \A i \in 0 .. k + 1 : g[i] = IF i = 0 THEN start ELSE CopyRound(g[i-1], n)
    <3> TAKE i \in 0 .. k + 1
    <3>1. CASE i = 0
      BY <3>1
    <3>2. CASE i # 0
      <4>1. i - 1 \in 0 .. k
        BY <3>2, <2>2
      <4>2. g[i] = CopyRound(h[i-1], n)
        BY <3>2
      <4> HIDE DEF g
      <4>3. g[i-1] = h[i-1]
        BY <4>1, <2>3
      <4> QED
        BY <3>2, <4>2, <4>3
    <3> QED
      BY <3>1, <3>2
  <2>5. g = [i \in 0 .. k + 1 |-> g[i]]
    OBVIOUS
  <2> HIDE DEF g
  <2>6. IsRow(g, k + 1)
    BY <2>4, <2>5
  <2> QED
    BY <2>2, <2>6
<1>3. T \in SUBSET Nat
  OBVIOUS
<1>4. PICK h : IsRow(h, m)
  <2>1. \A k \in Nat : k \in T
    <3> HIDE DEF T
    <3> QED
      BY <1>1, <1>2, <1>3, NatInduct
  <2> QED
    BY <2>1
<1>5. /\ h[0] = start
      /\ \A i \in 1 .. m : h[i] = CopyRound(h[i-1], n)
  <2> DEFINE h2 == [i \in 0 .. m |-> IF i = 0 THEN start ELSE CopyRound(h[i-1], n)]
  <2>1. h = h2
    BY <1>4
  <2>2. h2[0] = start /\ \A i \in 1 .. m : h2[i] = CopyRound(h[i-1], n)
    OBVIOUS
  <2> HIDE DEF h2
  <2> QED
    BY <2>1, <2>2
<1> DEFINE it == [s \in SUBSET (1 .. m) |-> h[Cardinality(s)]]
<1>6. ASSUME NEW s \in SUBSET (1 .. m)
      PROVE  it[s] = IF s = {} THEN start ELSE CopyRound(it[s \ {Max(s)}], n)
  <2>0. IsFiniteSet(1 .. m) /\ Cardinality(1 .. m) = m
    BY FS_Interval
  <2>1. IsFiniteSet(s) /\ Cardinality(s) \in Nat /\ Cardinality(s) <= m
    BY <2>0, FS_Subset, FS_CardinalityType
  <2>2. CASE s = {}
    <3>1. Cardinality(s) = 0
      BY <2>2, FS_EmptySet
    <3> QED
      BY <2>2, <3>1, <1>5
  <2>3. CASE s # {}
    <3>1. Max(s) \in s
      BY <2>3, MaxIn
    <3>2. PICK t : t = s \ {Max(s)}
      OBVIOUS
    <3>3. t \in SUBSET (1 .. m) /\ Cardinality(t) = Cardinality(s) - 1
      BY <2>1, <3>1, <3>2, FS_RemoveElement
    <3>4. Cardinality(s) \in 1 .. m
      <4>1. Cardinality(s) # 0
        BY <2>1, <2>3, FS_EmptySet
      <4> QED
        BY <2>1, <4>1
    <3>5. h[Cardinality(s)] = CopyRound(h[Cardinality(t)], n)
      BY <3>3, <3>4, <1>5
    <3>6. it[s] = h[Cardinality(s)] /\ it[t] = h[Cardinality(t)]
      BY <3>3
    <3> HIDE DEF it
    <3> QED
      BY <2>3, <3>2, <3>5, <3>6
  <2> QED
    BY <2>2, <2>3
<1>7. it = [s \in SUBSET (1 .. m) |-> it[s]]
  OBVIOUS
<1> HIDE DEF it
<1>8. IsLoop(start, n, m, it)
  BY <1>6, <1>7 DEF IsLoop
<1> QED
  BY <1>8

\* Whatever the number of rounds, nothing is lost or repeated.
LEMMA LoopKeeps ==
  ASSUME NEW n \in Nat, NEW x, NEW start \in Copies(n, x), NEW m \in Nat,
         NEW it, IsLoop(start, n, m, it)
  PROVE  it[1 .. m] \in Copies(n, x)
<1> DEFINE T == {k \in Nat : \A s \in SUBSET (1 .. m) :
                               Cardinality(s) = k => it[s] \in Copies(n, x)}
<1>1. ASSUME NEW s \in SUBSET (1 .. m)
      PROVE  it[s] = IF s = {} THEN start ELSE CopyRound(it[s \ {Max(s)}], n)
  <2> DEFINE j == [u \in SUBSET (1 .. m) |->
                     IF u = {} THEN start ELSE CopyRound(it[u \ {Max(u)}], n)]
  <2>1. it = j
    BY DEF IsLoop
  <2>2. j[s] = IF s = {} THEN start ELSE CopyRound(it[s \ {Max(s)}], n)
    OBVIOUS
  <2> HIDE DEF j
  <2> QED
    BY <2>1, <2>2
<1>2. IsFiniteSet(1 .. m) /\ Cardinality(1 .. m) = m
  BY FS_Interval
<1>3. \A s \in SUBSET (1 .. m) : IsFiniteSet(s) /\ Cardinality(s) \in Nat
  BY <1>2, FS_Subset, FS_CardinalityType
<1>4. 0 \in T
  <2>1. ASSUME NEW s \in SUBSET (1 .. m), Cardinality(s) = 0 PROVE it[s] \in Copies(n, x)
    <3>1. s = {}
      BY <2>1, <1>3, FS_EmptySet
    <3> QED
      BY <3>1, <1>1
  <2> QED
    BY <2>1
<1>5. ASSUME NEW k \in T PROVE k + 1 \in T
  <2>1. k \in Nat /\ \A s \in SUBSET (1 .. m) : Cardinality(s) = k => it[s] \in Copies(n, x)
    BY <1>5
  <2>2. ASSUME NEW s \in SUBSET (1 .. m), Cardinality(s) = k + 1
        PROVE  it[s] \in Copies(n, x)
    <3>1. s # {}
      BY <2>1, <2>2, FS_EmptySet
    <3>2. PICK t : t = s \ {Max(s)}
      OBVIOUS
    <3>3. t \in SUBSET (1 .. m) /\ Cardinality(t) = Cardinality(s) - 1
      BY <3>1, <3>2, <1>3, MaxIn, FS_RemoveElement
    <3>4. it[t] \in Copies(n, x)
      BY <3>3, <2>1, <2>2
    <3>5. it[s] = CopyRound(it[t], n)
      BY <3>1, <3>2, <1>1
    <3> QED
      BY <3>4, <3>5, RoundKeeps
  <2>3. \A s \in SUBSET (1 .. m) : Cardinality(s) = k + 1 => it[s] \in Copies(n, x)
    BY <2>2
  <2>4. k + 1 \in Nat
    BY <2>1
  <2> QED
    BY <2>3, <2>4, Zenon
<1>6. T \in SUBSET Nat
  OBVIOUS
<1>7. \A k \in Nat : k \in T
  <2> HIDE DEF T
  <2> QED
    BY <1>4, <1>5, <1>6, NatInduct
<1> QED
  BY <1>2, <1>7

\* Stream::poll_read copies bytes from the front of the buffer and leaves the
\* others, whatever the size of the slice.
LEMMA ReadBytes ==
  ASSUME NEW ch, BufferOK(ch), NEW n \in Nat
  PROVE  /\ BufferOK(read_into(ch, n).chunks)
         /\ read_into(ch, n).out \in Bytes /\ Len(read_into(ch, n).out) <= n
         /\ Left(ch.seq) = read_into(ch, n).out \o Left(read_into(ch, n).chunks.seq)
<1>1. ch \in [seq : Seq(ChunkSet), len : Nat] /\ Cursors(ch.seq) /\ Left(ch.seq) \in Bytes
  BY RefsBytes DEF BufferOK
<1>2. PICK m : m = 2 * Len(ch.seq) + 1
  OBVIOUS
<1>3. m \in Nat
  BY <1>1, <1>2
<1>4. PICK start : start = [chunks |-> ch, out |-> <<>>, done |-> FALSE]
  OBVIOUS
<1>5. start \in Copies(n, Left(ch.seq))
  <2>1. <<>> \in Bytes /\ Len(<<>>) = 0 /\ <<>> \o Left(ch.seq) = Left(ch.seq)
    <3>1. <<>> \in Bytes /\ Len(<<>>) = 0
      BY EmptySeq DEF Bytes
    <3>2. <<>> \o Left(ch.seq) = Left(ch.seq)
      BY <1>1, ConcatEmptySeq DEF Bytes
    <3> QED
      BY <3>1, <3>2
  <2>2. /\ start \in [chunks : [seq : Seq(ChunkSet), len : Nat], out : Bytes, done : BOOLEAN]
        /\ start.chunks = ch /\ start.out = <<>>
    BY <1>1, <1>4, <2>1
  <2>3. Len(start.out) <= n
    BY <2>1, <2>2
  <2> QED
    BY <2>1, <2>2, <2>3 DEF Copies
<1> DEFINE it == CHOOSE f : IsLoop(start, n, m, f)
<1>6. IsLoop(start, n, m, it)
  BY <1>3, LoopExists
<1>7. read_into(ch, n) = it[1 .. m]
  BY <1>2, <1>4 DEF read_into, FoldLeft, MapThenFoldSet, IsLoop
<1> HIDE DEF it
<1>8. it[1 .. m] \in Copies(n, Left(ch.seq))
  BY <1>3, <1>5, <1>6, LoopKeeps
<1> QED
  BY <1>7, <1>8 DEF Copies

----------------------------------------------------------------------------
(* Types                                                                    *)

WireFrames == [header : Headers, body : Bytes]

WriteTypes ==
  /\ write_state \in [kind : {"Init", "Header", "Body", "Poisoned"}, part : Bytes,
                      offset : Nat, body : Bytes]
  /\ write_state.offset <= Len(write_state.part)

ReadTypes == read_state \in [kind : {"Header", "Body"}, buffer : Bytes, header : Headers]

FrameTypes == sent \in Seq(WireFrames) /\ got \in Seq(WireFrames)

TransportTypes == WriteTypes /\ ReadTypes /\ pipe \in Bytes /\ FrameTypes

\* A buffer for a header holds 12 bytes.
LEMMA BuffersAreBytes ==
  ASSUME NEW b PROVE b \in Buffers <=> b \in Bytes /\ Len(b) = HEADER_SIZE
<1>1. ASSUME b \in Buffers PROVE b \in Bytes /\ Len(b) = HEADER_SIZE
  <2>1. b = [i \in 1 .. 12 |-> b[i]] /\ \A i \in 1 .. 12 : b[i] \in Byte
    BY <1>1 DEF Buffers, HEADER_SIZE
  <2>2. PICK n \in Nat : n = 12
    OBVIOUS
  <2>3. b = [i \in 1 .. n |-> b[i]] /\ \A i \in 1 .. n : b[i] \in Byte
    BY <2>1, <2>2
  <2>4. b \in Seq(Byte) /\ Len(b) = n
    BY <2>3
  <2> QED
    BY <2>2, <2>4 DEF Bytes, HEADER_SIZE
<1>2. ASSUME b \in Bytes, Len(b) = HEADER_SIZE PROVE b \in Buffers
  BY <1>2, LenProperties DEF Buffers, Bytes, HEADER_SIZE
<1> QED
  BY <1>1, <1>2

\* What decode returns is a header.
LEMMA DecodeHeaders ==
  ASSUME NEW b \in Buffers, decode_error(b) = "None" PROVE decode(b) \in Headers
<1>1. \A i \in 1 .. 12 : b[i] \in Byte
  BY DEF Buffers, HEADER_SIZE
<1>2. TagOf(b[2]) \in Tags
  <2>1. b[1] = 0 /\ ~(b[2] > 3)
    BY DEF decode_error
  <2>2. b[2] \in {0, 1, 2, 3}
    BY <1>1, <2>1 DEF Byte
  <2> QED
    BY <2>2 DEF TagOf, Tags
<1>3. ASSUME NEW x \in Byte, NEW y \in Byte PROVE from_be_u16(x, y) \in U16
  BY SMT DEF from_be_u16, U16, Byte
<1>4. ASSUME NEW x \in Byte, NEW y \in Byte, NEW z \in Byte, NEW w \in Byte
      PROVE  from_be_u32(x, y, z, w) \in U32
  BY SMT DEF from_be_u32, U32, Byte
<1>5. from_be_u16(b[3], b[4]) \in U16
  BY <1>1, <1>3
<1>6. from_be_u32(b[5], b[6], b[7], b[8]) \in U32 /\ from_be_u32(b[9], b[10], b[11], b[12]) \in U32
  <2>1. b[5] \in Byte /\ b[6] \in Byte /\ b[7] \in Byte /\ b[8] \in Byte
    BY <1>1
  <2>2. b[9] \in Byte /\ b[10] \in Byte /\ b[11] \in Byte /\ b[12] \in Byte
    BY <1>1
  <2> QED
    BY ONLY <2>1, <2>2, <1>4
<1> QED
  BY <1>2, <1>5, <1>6 DEF decode, HeaderOf, Headers

\* The reader's buffer grows by what it takes from the socket.
LEMMA FilledBytes ==
  ASSUME TransportTypes, NEW n, TakesBytes(n)
  PROVE  /\ n \in Nat \ {0} /\ n <= Len(pipe) /\ n <= Want /\ Want \in Int
         /\ SubSeq(pipe, 1, n) \in Bytes /\ Len(SubSeq(pipe, 1, n)) = n
         /\ Filled(n) \in Bytes /\ Len(Filled(n)) = Len(read_state.buffer) + n
         /\ pipe' \in Bytes /\ pipe = SubSeq(pipe, 1, n) \o pipe'
<1>1. /\ pipe \in Bytes /\ Len(pipe) \in Nat
      /\ read_state.buffer \in Bytes /\ Len(read_state.buffer) \in Nat
      /\ read_state.header.length \in Nat
  BY DEF TransportTypes, ReadTypes, Bytes, Headers, U32
<1>2. Want \in Int
  BY <1>1 DEF Want, HEADER_SIZE
<1>3. n \in Nat \ {0} /\ n <= Len(pipe) /\ n <= Want
  BY <1>2 DEF TakesBytes
<1>4. 0 + n <= Len(pipe) /\ 0 + 1 = 1 /\ 0 + n = n /\ n \in Nat
  BY <1>1, <1>3
<1>5. /\ SubSeq(pipe, 1, n) \in Bytes /\ Len(SubSeq(pipe, 1, n)) = n
      /\ SubSeq(pipe, n + 1, Len(pipe)) \in Bytes
      /\ SubSeq(pipe, 1, Len(pipe)) = SubSeq(pipe, 1, n) \o SubSeq(pipe, n + 1, Len(pipe))
  <2>1. /\ SubSeq(pipe, 0 + 1, 0 + n) \in Bytes /\ Len(SubSeq(pipe, 0 + 1, 0 + n)) = n
        /\ SubSeq(pipe, 0 + n + 1, Len(pipe)) \in Bytes
        /\ SubSeq(pipe, 0 + 1, Len(pipe))
             = SubSeq(pipe, 0 + 1, 0 + n) \o SubSeq(pipe, 0 + n + 1, Len(pipe))
    BY <1>1, <1>4, CutBytes
  <2> QED
    BY <2>1, <1>4
<1>6. SubSeq(pipe, 1, Len(pipe)) = pipe
  BY <1>1, SubSeqFull DEF Bytes
<1>7. Filled(n) \in Bytes /\ Len(Filled(n)) = Len(read_state.buffer) + n
  BY <1>1, <1>5, ConcatProperties DEF Filled, Bytes
<1> QED
  BY <1>2, <1>3, <1>5, <1>6, <1>7 DEF TakesBytes

\* An encoded header is 12 bytes.
LEMMA EncodeBytes ==
  ASSUME NEW h \in Headers PROVE encode(h) \in Bytes /\ Len(encode(h)) = HEADER_SIZE
BY DecodeEncode, BuffersAreBytes

\* Frames to send are frames.
LEMMA FramesTyped == ASSUME NEW f \in Frames PROVE f \in WireFrames
BY TransportAssumption DEF WireFrames, Bytes

\* start_send (Active::poll, Closing::poll).
LEMMA SendTypes ==
  ASSUME TransportTypes, NEW f \in Frames, SendFrame(f), UNCHANGED got
  PROVE  TransportTypes'
<1>1. f \in WireFrames /\ f.header \in Headers /\ f.body \in Bytes
  BY FramesTyped DEF WireFrames
<1>2. encode(f.header) \in Bytes /\ Len(encode(f.header)) = 12
  BY <1>1, EncodeBytes DEF HEADER_SIZE
<1>3. write_state' = [kind |-> "Header", part |-> encode(f.header), offset |-> 0, body |-> f.body]
  BY DEF SendFrame, start_send
<1>4. WriteTypes'
  BY <1>1, <1>2, <1>3 DEF WriteTypes
<1>5. FrameTypes'
  <2>1. sent \in Seq(WireFrames) /\ got \in Seq(WireFrames)
    BY DEF TransportTypes, FrameTypes
  <2>2. Append(sent, f) \in Seq(WireFrames)
    BY <2>1, <1>1, AppendProperties
  <2> QED
    BY <2>1, <2>2 DEF SendFrame, FrameTypes
<1> QED
  BY <1>4, <1>5 DEF TransportTypes, ReadTypes, SendFrame

\* What the socket takes in one round of poll_ready.
TakenBy(n) == IF n > Rest THEN Rest ELSE n

\* It is a part of what is left of the header or the body being written.
LEMMA WriteBytes ==
  ASSUME TransportTypes, NEW n \in Nat
  PROVE  /\ Rest \in Nat /\ TakenBy(n) \in Nat
         /\ write_state.offset + TakenBy(n) <= Len(write_state.part)
         /\ SubSeq(write_state.part, write_state.offset + 1,
                   write_state.offset + TakenBy(n)) \in Bytes
<1>1. PICK v \in Bytes, o \in Nat : v = write_state.part /\ o = write_state.offset
  BY DEF TransportTypes, WriteTypes
<1>2. Len(v) \in Nat /\ o <= Len(v)
  BY <1>1 DEF TransportTypes, WriteTypes, Bytes
<1>3. Rest = Len(v) - o /\ Rest \in Nat
  BY <1>1, <1>2 DEF Rest
<1>4. PICK k : k = TakenBy(n)
  OBVIOUS
<1>5. k \in Nat /\ o + k <= Len(v)
  BY <1>2, <1>3, <1>4 DEF TakenBy
<1>6. SubSeq(v, o + 1, o + k) \in Bytes
  BY <1>5, CutBytes
<1> QED
  BY <1>1, <1>3, <1>4, <1>5, <1>6

\* A round of poll_ready.
LEMMA PollReadyTypes ==
  ASSUME TransportTypes, NEW n \in Nat, PollReady(n), UNCHANGED <<sent, got>>
  PROVE  TransportTypes'
<1>1. PICK k : k = TakenBy(n)
  OBVIOUS
<1>2. k \in Nat /\ SubSeq(write_state.part, write_state.offset + 1, write_state.offset + k) \in Bytes
  BY <1>1, WriteBytes
<1>3. pipe' \in Bytes
  <2>1. pipe' = pipe \o SubSeq(write_state.part, write_state.offset + 1, write_state.offset + k)
    BY <1>1 DEF PollReady, TakenBy
  <2>2. pipe \in Bytes
    BY DEF TransportTypes
  <2> QED
    BY <1>2, <2>1, <2>2, ConcatProperties DEF Bytes
<1>4. WriteTypes'
  <2>1. write_state' = AfterWrite(write_state, n)
    BY DEF PollReady
  <2>2. PICK w : w = write_state
    OBVIOUS
  <2>3. /\ w \in [kind : {"Init", "Header", "Body", "Poisoned"}, part : Bytes,
                  offset : Nat, body : Bytes]
        /\ w.offset <= Len(w.part) /\ Len(w.part) \in Nat
    BY <2>2 DEF TransportTypes, WriteTypes, Bytes
  <2>4. <<>> \in Bytes /\ Len(<<>>) = 0 /\ \A b \in Bytes : Len(b) \in Nat
    BY EmptySeq DEF Bytes
  <2>5. CASE w.offset + n > Len(w.part)
    <3>1. write_state' = Poisoned
      BY <2>1, <2>2, <2>5 DEF AfterWrite
    <3> QED
      BY <3>1, <2>4 DEF Poisoned, WriteInit, WriteTypes
  <2>6. CASE w.offset + n = Len(w.part)
    <3>1. write_state' = IF w.kind = "Header" /\ w.body # <<>>
                         THEN [kind |-> "Body", part |-> w.body, offset |-> 0, body |-> <<>>]
                         ELSE WriteInit
      BY <2>1, <2>2, <2>3, <2>6 DEF AfterWrite
    <3>2. CASE w.kind = "Header" /\ w.body # <<>>
      BY <3>1, <3>2, <2>3, <2>4 DEF WriteTypes
    <3>3. CASE ~(w.kind = "Header" /\ w.body # <<>>)
      BY <3>1, <3>3, <2>4 DEF WriteInit, WriteTypes
    <3> QED
      BY <3>2, <3>3
  <2>7. CASE w.offset + n < Len(w.part)
    <3>1. write_state' = [w EXCEPT !.offset = w.offset + n]
      BY <2>1, <2>2, <2>3, <2>7 DEF AfterWrite
    <3> QED
      BY <3>1, <2>3, <2>7 DEF WriteTypes
  <2> QED
    BY <2>3, <2>5, <2>6, <2>7
<1> QED
  BY <1>3, <1>4 DEF TransportTypes, ReadTypes, FrameTypes, PollReady

\* A prefix of what is on the socket.
LEMMA PrefixBytes ==
  ASSUME NEW v \in Bytes, NEW n \in 0 .. Len(v)
  PROVE  /\ SubSeq(v, 1, n) \in Bytes /\ SubSeq(v, n + 1, Len(v)) \in Bytes
         /\ v = SubSeq(v, 1, n) \o SubSeq(v, n + 1, Len(v))
<1>1. Len(v) \in Nat /\ n \in Nat /\ 0 + n <= Len(v) /\ 0 + 1 = 1 /\ 0 + n = n
  BY DEF Bytes
<1>2. /\ SubSeq(v, 0 + 1, 0 + n) \in Bytes /\ SubSeq(v, 0 + n + 1, Len(v)) \in Bytes
      /\ SubSeq(v, 0 + 1, Len(v)) = SubSeq(v, 0 + 1, 0 + n) \o SubSeq(v, 0 + n + 1, Len(v))
  BY <1>1, CutBytes
<1>3. SubSeq(v, 1, Len(v)) = v
  BY SubSeqFull DEF Bytes
<1> QED
  BY <1>1, <1>2, <1>3

\* The frame that poll_next returns.
LEMMA FrameTyped ==
  ASSUME TransportTypes, NEW n, FrameRead(n)
  PROVE  FrameOf(n) \in WireFrames
<1>1. TakesBytes(n) /\ n = Want /\ Filled(n) \in Bytes
      /\ Len(Filled(n)) = Len(read_state.buffer) + n
  BY FilledBytes DEF FrameRead
<1>2. CASE read_state.kind = "Body"
  BY <1>1, <1>2 DEF FrameOf, WireFrames, TransportTypes, ReadTypes
<1>3. CASE read_state.kind # "Body"
  <2>1. decode_error(Filled(n)) = "None"
    BY <1>3 DEF FrameRead, HasNoBody
  <2>2. read_state.kind = "Header" /\ Len(read_state.buffer) \in Nat
    BY <1>3 DEF TransportTypes, ReadTypes, Bytes
  <2>3. Len(Filled(n)) = HEADER_SIZE
    BY <1>1, <2>2 DEF Want, HEADER_SIZE
  <2>4. decode(Filled(n)) \in Headers
    BY <1>1, <2>1, <2>3, BuffersAreBytes, DecodeHeaders
  <2>5. <<>> \in Bytes
    BY EmptySeq DEF Bytes
  <2> QED
    BY <1>3, <2>4, <2>5 DEF FrameOf, WireFrames
<1> QED
  BY <1>2, <1>3

\* Types stay.
LEMMA NextTypes == TransportTypes /\ [Next]_vars => TransportTypes'
<1> SUFFICES ASSUME TransportTypes, [Next]_vars PROVE TransportTypes'
  OBVIOUS
<1> USE DEF vars, ioVars
<1>1. CASE Send
  <2>1. PICK f \in Frames : ActiveSend(f) \/ ClosingSend(f)
    BY <1>1 DEF Send
  <2>2. SendFrame(f) /\ UNCHANGED got
    BY <2>1 DEF ActiveSend, ClosingSend
  <2> QED
    BY <2>2, SendTypes
<1>2. CASE Write
  <2>1. PICK n \in 1 .. Rest + 1 : PollReady(n)
    BY <1>2 DEF Write
  <2>2. Rest \in Nat
    BY WriteBytes
  <2>3. n \in Nat /\ UNCHANGED <<sent, got>>
    BY <1>2, <2>2 DEF Write
  <2> QED
    BY <2>1, <2>3, PollReadyTypes
<1>3. CASE ActiveFails \/ CloseActive \/ ClosingFlushed \/ ClosingFails \/ ReceiveEnds
           \/ poll_next \/ \E n \in 1 .. MAX_FRAME_BODY_LEN + 1 : poll_read(n)
  <2>1. UNCHANGED <<write_state, read_state, pipe, sent, got>>
    BY <1>3 DEF ActiveFails, CloseActive, ClosingFlushed, ClosingFails, ReceiveEnds,
                ReadEnds, poll_next, poll_read
  <2> QED
    BY <2>1 DEF TransportTypes, WriteTypes, ReadTypes, FrameTypes
<1>4. CASE ClosingSocket
  BY <1>4 DEF ClosingSocket, poll_close, TransportTypes, WriteTypes, ReadTypes, FrameTypes
<1>5. CASE Fault
  <2>1. PICK n \in 0 .. Len(pipe) : pipe' = SubSeq(pipe, 1, n)
    BY <1>5 DEF Fault, SocketFails
  <2>2. pipe' \in Bytes
    BY <2>1, PrefixBytes DEF TransportTypes
  <2> QED
    BY <1>5, <2>2 DEF Fault, SocketFails, TransportTypes, WriteTypes, ReadTypes, FrameTypes
<1>6. CASE ForeignHeader
  <2>1. PICK b \in ForeignHeaders : pipe' = pipe \o b
    BY <1>6 DEF ForeignHeader
  <2>2. b \in Bytes
    BY FrameIoAssumption, BuffersAreBytes
  <2>3. pipe' \in Bytes
    BY <2>1, <2>2, ConcatProperties DEF TransportTypes, Bytes
  <2>4. Malformed \in WireFrames
    BY EmptySeq DEF Malformed, HeaderOf, WireFrames, Headers, Tags, U16, U32, Bytes
  <2>5. FrameTypes'
    BY <1>6, <2>4, AppendProperties DEF ForeignHeader, TransportTypes, FrameTypes
  <2> QED
    BY <1>6, <2>3, <2>5 DEF ForeignHeader, TransportTypes, WriteTypes, ReadTypes
<1>7. CASE Receive
  <2>1. PICK n \in 1 .. Want :
          \/ /\ ReadSome(n) \/ HeaderRefused(n) \/ BodyStarts(n)
             /\ UNCHANGED <<sender, buffer, sent, got, taken>>
          \/ /\ FrameRead(n)
             /\ got' = Append(got, FrameOf(n))
             /\ buffer' = push(buffer, FrameOf(n).body)
             /\ UNCHANGED <<sender, sent, taken>>
    BY <1>7 DEF Receive
  <2>2. TakesBytes(n)
    BY <2>1 DEF ReadSome, HeaderRefused, BodyStarts, FrameRead
  <2>3. /\ pipe' \in Bytes /\ Filled(n) \in Bytes
        /\ Len(Filled(n)) = Len(read_state.buffer) + n
    BY <2>2, FilledBytes
  <2>4. WriteTypes'
    BY <2>2 DEF TakesBytes, TransportTypes, WriteTypes
  <2>5. ReadTypes'
    <3>1. CASE ReadSome(n) \/ HeaderRefused(n)
      <4>1. read_state' = [read_state EXCEPT !.buffer = Filled(n)]
        BY <3>1 DEF ReadSome, HeaderRefused
      <4> QED
        BY <4>1, <2>3 DEF TransportTypes, ReadTypes
    <3>2. CASE BodyStarts(n)
      <4>1. /\ n = Want /\ read_state.kind = "Header" /\ decode_error(Filled(n)) = "None"
            /\ read_state' = [kind |-> "Body", buffer |-> <<>>, header |-> decode(Filled(n))]
        BY <3>2 DEF BodyStarts
      <4>2. Len(Filled(n)) = HEADER_SIZE
        BY <4>1, <2>3 DEF Want, HEADER_SIZE, TransportTypes, ReadTypes, Bytes
      <4>3. decode(Filled(n)) \in Headers
        BY <4>1, <4>2, <2>3, BuffersAreBytes, DecodeHeaders
      <4> QED
        BY <4>1, <4>3, EmptySeq DEF ReadTypes, Bytes
    <3>3. CASE FrameRead(n)
      <4>1. read_state' = ReadInit
        BY <3>3 DEF FrameRead
      <4> QED
        BY <4>1, EmptySeq DEF ReadInit, ReadTypes, HeaderOf, Headers, Tags, U16, U32, Bytes
    <3> QED
      BY <2>1, <3>1, <3>2, <3>3
  <2>6. FrameTypes'
    <3>1. CASE UNCHANGED <<sent, got>>
      BY <3>1 DEF TransportTypes, FrameTypes
    <3>2. CASE FrameRead(n) /\ got' = Append(got, FrameOf(n)) /\ UNCHANGED sent
      BY <3>2, FrameTyped, AppendProperties DEF TransportTypes, FrameTypes
    <3> QED
      BY <2>1, <3>1, <3>2
  <2> QED
    BY <2>3, <2>4, <2>5, <2>6 DEF TransportTypes
<1>8. CASE UNCHANGED vars
  BY <1>8 DEF TransportTypes, WriteTypes, ReadTypes, FrameTypes
<1> QED
  BY <1>1, <1>2, <1>3, <1>4, <1>5, <1>6, <1>7, <1>8 DEF Next

----------------------------------------------------------------------------
(* The bytes of the receive buffer                                          *)

BufferInv == BufferOK(buffer) /\ taken \in Bytes /\ BytesInOrder

\* What was received grows by the body of a frame.
LEMMA ReceivedAppend ==
  ASSUME NEW g \in Seq(WireFrames), NEW f \in WireFrames
  PROVE  LET bodies(s) == [i \in DOMAIN s |-> s[i].body]
         IN  /\ Concat(bodies(g)) \in Bytes
             /\ Concat(bodies(Append(g, f))) = Concat(bodies(g)) \o f.body
<1> DEFINE bodies(s) == [i \in DOMAIN s |-> s[i].body]
<1>1. PICK t : t = Append(g, f)
  OBVIOUS
<1>2. /\ t \in Seq(WireFrames) /\ Len(t) = Len(g) + 1 /\ t[Len(g) + 1] = f
      /\ \A i \in 1 .. Len(g) : t[i] = g[i]
      /\ Len(g) \in Nat /\ Len(t) \in Nat /\ DOMAIN g = 1 .. Len(g) /\ DOMAIN t = 1 .. Len(t)
  BY <1>1, AppendProperties
<1>3. f.body \in Bytes /\ \A x \in WireFrames : x.body \in Bytes
  BY DEF WireFrames
<1>4. PICK u, v : u = bodies(g) /\ v = bodies(t)
  OBVIOUS
<1>5. /\ u = [i \in 1 .. Len(g) |-> g[i].body] /\ \A i \in 1 .. Len(g) : g[i].body \in Bytes
      /\ v = [i \in 1 .. Len(t) |-> t[i].body] /\ \A i \in 1 .. Len(t) : t[i].body \in Bytes
  BY <1>2, <1>3, <1>4
<1>6. u \in Seq(Bytes) /\ Len(u) = Len(g) /\ v \in Seq(Bytes) /\ Len(v) = Len(t)
  BY <1>2, <1>5
<1>7. v = Append(u, f.body)
  <2>1. PICK w : w = Append(u, f.body)
    OBVIOUS
  <2>2. /\ w \in Seq(Bytes) /\ Len(w) = Len(u) + 1 /\ w[Len(u) + 1] = f.body
        /\ \A i \in 1 .. Len(u) : w[i] = u[i]
    BY <2>1, <1>3, <1>6, AppendProperties
  <2>3. Len(w) = Len(v)
    BY <2>2, <1>2, <1>6
  <2>4. ASSUME NEW i \in 1 .. Len(w) PROVE w[i] = v[i]
    <3>1. v[i] = t[i].body
      BY <2>3, <1>5, <1>6
    <3>2. CASE i \in 1 .. Len(g)
      BY <3>1, <3>2, <2>2, <1>2, <1>5, <1>6
    <3>3. CASE i = Len(g) + 1
      BY <3>1, <3>3, <2>2, <1>2, <1>6
    <3> QED
      BY <3>2, <3>3, <2>2, <1>2, <1>6
  <2> QED
    BY <2>1, <2>2, <2>3, <2>4, <1>6, SeqEqual
<1>8. Concat(u) \in Bytes /\ Concat(v) = Concat(u) \o f.body
  BY <1>3, <1>6, <1>7, ConcatAppend, ConcatBytes
<1> QED
  BY <1>1, <1>4, <1>8

\* Init: nothing received, nothing buffered, nothing taken.
LEMMA InitBuffer == Init => TransportTypes /\ BufferInv
<1> SUFFICES ASSUME Init PROVE TransportTypes /\ BufferInv
  OBVIOUS
<1>1. <<>> \in Bytes /\ Len(<<>>) = 0
  BY EmptySeq DEF Bytes
<1>2. TransportTypes
  <2>1. WriteTypes
    BY <1>1 DEF Init, IoInit, WriteInit, WriteTypes
  <2>2. ReadTypes
    BY <1>1 DEF Init, IoInit, ReadInit, ReadTypes, HeaderOf, Headers, Tags, U16, U32
  <2>3. FrameTypes
    BY EmptySeq DEF Init, FrameTypes
  <2> QED
    BY <1>1, <2>1, <2>2, <2>3 DEF Init, IoInit, TransportTypes
<1>3. ASSUME NEW q, q = <<>> PROVE Refs(q) = <<>> /\ [i \in DOMAIN q |-> q[i].body] = <<>>
  <2>1. DOMAIN q = {}
    BY <1>3
  <2> QED
    BY <2>1 DEF Refs
<1>4. Left(<<>>) = <<>>
  BY <1>3, ConcatNone DEF Left
<1>5. Received = <<>>
  BY <1>3, ConcatNone DEF Init, Received
<1>6. Buffered = Left(buffer.seq)
  BY DEF Buffered, Left, Refs
<1>7. buffer.seq = <<>> /\ buffer.len = 0 /\ buffer \in [seq : Seq(ChunkSet), len : Nat]
  BY EmptySeq DEF Init, NoChunks
<1>8. BufferOK(buffer)
  BY <1>1, <1>4, <1>7 DEF BufferOK, Cursors, len
<1>9. <<>> \o <<>> = <<>>
  BY <1>1, ConcatEmptySeq
<1> QED
  BY <1>1, <1>2, <1>4, <1>5, <1>6, <1>7, <1>8, <1>9 DEF Init, BufferInv, BytesInOrder

\* The bytes between the socket and the application: a frame's body comes in at
\* the end of the buffer, a read or a packet goes out at its front.
LEMMA NextBuffer == TransportTypes /\ BufferInv /\ [Next]_vars => BufferInv'
<1> SUFFICES ASSUME TransportTypes, BufferInv, [Next]_vars PROVE BufferInv'
  OBVIOUS
<1> USE DEF vars, ioVars
<1>1. /\ BufferOK(buffer) /\ taken \in Bytes /\ taken \o Buffered = Received
      /\ got \in Seq(WireFrames)
  BY DEF BufferInv, BytesInOrder, TransportTypes, FrameTypes
<1>2. Buffered = Left(buffer.seq) /\ Buffered' = Left(buffer'.seq)
  BY DEF Buffered, Left, Refs
<1>3. Left(buffer.seq) \in Bytes
  BY <1>1, RefsBytes DEF BufferOK
<1>4. CASE UNCHANGED <<buffer, got, taken>>
  BY <1>1, <1>4 DEF BufferInv, BytesInOrder, Buffered, Received
<1>5. ASSUME NEW x \in Bytes, taken' = taken \o x, got' = got,
             BufferOK(buffer'), Left(buffer.seq) = x \o Left(buffer'.seq)
      PROVE  BufferInv'
  <2>1. Left(buffer'.seq) \in Bytes
    BY <1>5, RefsBytes DEF BufferOK
  <2>2. taken \o x \in Bytes /\ (taken \o x) \o Left(buffer'.seq) = taken \o (x \o Left(buffer'.seq))
    BY <1>1, <1>5, <2>1, Assoc, ConcatProperties DEF Bytes
  <2>3. Received' = Received
    BY <1>5 DEF Received
  <2> QED
    BY <1>1, <1>2, <1>5, <2>2, <2>3 DEF BufferInv, BytesInOrder
<1>6. CASE \E n \in 1 .. MAX_FRAME_BODY_LEN + 1 : poll_read(n)
  <2>1. PICK n \in 1 .. MAX_FRAME_BODY_LEN + 1 : poll_read(n)
    BY <1>6
  <2>2. n \in Nat
    BY FrameIoAssumption
  <2>3. PICK c : c = read_into(buffer, n)
    OBVIOUS
  <2>4. buffer' = c.chunks /\ taken' = taken \o c.out /\ got' = got
    BY <2>1, <2>3 DEF poll_read
  <2>5. BufferOK(c.chunks) /\ c.out \in Bytes /\ Left(buffer.seq) = c.out \o Left(c.chunks.seq)
    BY <1>1, <2>2, <2>3, ReadBytes
  <2> QED
    BY <2>4, <2>5, <1>5
<1>7. CASE poll_next
  <2>1. /\ buffer.seq # <<>> /\ buffer' = pop(buffer) /\ got' = got
        /\ taken' = taken \o as_ref(Head(buffer.seq))
    BY <1>7 DEF poll_next, next_packet, as_ref
  <2>2. /\ BufferOK(pop(buffer)) /\ as_ref(Head(buffer.seq)) \in Bytes
        /\ Left(buffer.seq) = as_ref(Head(buffer.seq)) \o Left(pop(buffer).seq)
    BY <1>1, <2>1, PopBytes
  <2> QED
    BY <2>1, <2>2, <1>5
<1>8. CASE Receive
  <2>1. CASE UNCHANGED <<buffer, got, taken>>
    BY <1>4, <2>1
  <2>2. CASE ~ UNCHANGED <<buffer, got, taken>>
    <3>1. PICK n : /\ FrameRead(n)
                   /\ got' = Append(got, FrameOf(n))
                   /\ buffer' = push(buffer, FrameOf(n).body)
                   /\ taken' = taken
      BY <1>8, <2>2 DEF Receive
    <3>2. PICK f : f = FrameOf(n)
      OBVIOUS
    <3>3. f \in WireFrames /\ f.body \in Bytes
      BY <3>1, <3>2, FrameTyped DEF WireFrames
    <3>4. BufferOK(buffer') /\ Left(buffer'.seq) = Left(buffer.seq) \o f.body
      BY <1>1, <3>1, <3>2, <3>3, PushBytes
    <3>5. Received' = Received \o f.body
      BY <1>1, <3>1, <3>2, <3>3, ReceivedAppend DEF Received
    <3>6. taken \o (Left(buffer.seq) \o f.body) = (taken \o Left(buffer.seq)) \o f.body
      BY ONLY <1>1, <1>3, <3>3, Assoc
    <3> QED
      BY <1>1, <1>2, <3>1, <3>4, <3>5, <3>6 DEF BufferInv, BytesInOrder
  <2> QED
    BY <2>1, <2>2
<1>9. CASE \/ Send \/ Write \/ ActiveFails \/ CloseActive \/ ClosingFlushed \/ ClosingSocket
           \/ ClosingFails \/ ReceiveEnds \/ Fault \/ ForeignHeader \/ UNCHANGED vars
  <2>1. UNCHANGED <<buffer, got, taken>>
    BY <1>9 DEF Send, ActiveSend, ClosingSend, Write, ActiveFails, CloseActive, ClosingFlushed,
                ClosingSocket, ClosingFails, ReceiveEnds, Fault, ForeignHeader
  <2> QED
    BY <1>4, <2>1
<1> QED
  BY <1>6, <1>7, <1>8, <1>9 DEF Next

\* poll_read and poll_next hand the application the bytes of the bodies in
\* order, each once: whatever the slices, whichever of the two is called, and
\* however long the bodies are (stream.rs, chunks.rs).
THEOREM BytesKept == Spec => []BytesInOrder
<1>1. Init => TransportTypes /\ BufferInv
  BY InitBuffer
<1>2. (TransportTypes /\ BufferInv) /\ [Next]_vars => (TransportTypes /\ BufferInv)'
  BY NextTypes, NextBuffer
<1>3. BufferInv => BytesInOrder
  BY DEF BufferInv
<1> QED
  BY <1>1, <1>2, <1>3, PTL DEF Spec

\* Chunks::len is the number of bytes that can still be read.
THEOREM LengthExact == Spec => []BufferLenExact
<1>1. Init => TransportTypes /\ BufferInv
  BY InitBuffer
<1>2. (TransportTypes /\ BufferInv) /\ [Next]_vars => (TransportTypes /\ BufferInv)'
  BY NextTypes, NextBuffer
<1>3. BufferInv => BufferLenExact
  BY DEF BufferInv, BufferOK, BufferLenExact, Buffered, Left, Refs
<1> QED
  BY <1>1, <1>2, <1>3, PTL DEF Spec

----------------------------------------------------------------------------
(* Frames on the wire                                                       *)

Wire(f) == encode(f.header) \o f.body

\* The bytes that stand for a frame: its own, or the malformed header of a
\* foreign sender.
Block(f, b) == (f \in Frames /\ b = Wire(f)) \/ b \in ForeignHeaders

Blocks(c, w) ==
  /\ c \in Seq(WireFrames) /\ w \in Seq(Bytes) /\ Len(w) = Len(c)
  /\ \A i \in 1 .. Len(c) : Block(c[i], w[i])

\* Two ways to cut the same bytes at the same place.
LEMMA CutAlike ==
  ASSUME NEW u \in Bytes, NEW v \in Bytes, NEW x \in Bytes, NEW y \in Bytes,
         u \o v = x \o y, Len(u) = Len(x)
  PROVE  u = x /\ v = y
<1>1. /\ Len(u) \in Nat /\ Len(v) \in Nat /\ Len(x) \in Nat /\ Len(y) \in Nat
      /\ u \in Seq(Byte) /\ v \in Seq(Byte) /\ x \in Seq(Byte) /\ y \in Seq(Byte)
  BY DEF Bytes
<1>2. \A i \in 1 .. Len(u) + Len(v) :
        (u \o v)[i] = IF i <= Len(u) THEN u[i] ELSE v[i - Len(u)]
  BY <1>1, ConcatProperties
<1>3. \A i \in 1 .. Len(x) + Len(y) :
        (x \o y)[i] = IF i <= Len(x) THEN x[i] ELSE y[i - Len(x)]
  BY <1>1, ConcatProperties
<1>4. \A i \in 1 .. Len(u) : u[i] = x[i]
  <2> TAKE i \in 1 .. Len(u)
  <2>1. i \in 1 .. Len(u) + Len(v) /\ i \in 1 .. Len(x) + Len(y) /\ i <= Len(u) /\ i <= Len(x)
    BY <1>1
  <2> QED
    BY <2>1, <1>2, <1>3
<1>5. u = x
  BY <1>1, <1>4, SeqEqual
<1> QED
  BY <1>1, <1>5, ConcatSimplifications

\* Joining bytes.
LEMMA Join ==
  ASSUME NEW a \in Bytes, NEW b \in Bytes
  PROVE  a \o b \in Bytes /\ Len(a \o b) = Len(a) + Len(b) /\ Len(a) \in Nat /\ Len(b) \in Nat
BY ConcatProperties DEF Bytes

\* The bytes of a frame are its header's and its body's.
LEMMA WireBytes ==
  ASSUME NEW f \in Frames
  PROVE  /\ f.header \in Headers /\ encode(f.header) \in Bytes
         /\ Len(encode(f.header)) = HEADER_SIZE
         /\ f.body \in Bytes /\ Len(f.body) \in Nat
         /\ Wire(f) \in Bytes /\ Len(Wire(f)) = HEADER_SIZE + Len(f.body)
<1>1. f.header \in Headers /\ f.body \in Bytes
  BY FramesTyped DEF WireFrames
<1>2. encode(f.header) \in Bytes /\ Len(encode(f.header)) = HEADER_SIZE
  BY <1>1, EncodeBytes
<1> QED
  BY <1>1, <1>2, Join DEF Wire

\* A malformed header is 12 bytes that poll_next refuses.
LEMMA ForeignBytes ==
  ASSUME NEW b \in ForeignHeaders
  PROVE  b \in Bytes /\ Len(b) = HEADER_SIZE /\ Refused(b)
BY FrameIoAssumption, BuffersAreBytes

\* One more frame on its way.
LEMMA BlocksAppend ==
  ASSUME NEW c, NEW w, Blocks(c, w), NEW f \in WireFrames, NEW b \in Bytes, Block(f, b)
  PROVE  /\ Blocks(Append(c, f), Append(w, b))
         /\ Concat(w) \in Bytes /\ Concat(Append(w, b)) = Concat(w) \o b
<1>1. PICK d, v : d = Append(c, f) /\ v = Append(w, b)
  OBVIOUS
<1>2. c \in Seq(WireFrames) /\ w \in Seq(Bytes) /\ Len(w) = Len(c) /\ Len(c) \in Nat
  BY DEF Blocks
<1>3. /\ d \in Seq(WireFrames) /\ Len(d) = Len(c) + 1 /\ d[Len(c) + 1] = f
      /\ \A i \in 1 .. Len(c) : d[i] = c[i]
  BY <1>1, <1>2, AppendProperties
<1>4. /\ v \in Seq(Bytes) /\ Len(v) = Len(w) + 1 /\ v[Len(w) + 1] = b
      /\ \A i \in 1 .. Len(w) : v[i] = w[i]
  BY <1>1, <1>2, AppendProperties
<1>5. ASSUME NEW i \in 1 .. Len(d) PROVE Block(d[i], v[i])
  <2>1. CASE i \in 1 .. Len(c)
    <3>1. Block(c[i], w[i])
      BY <2>1 DEF Blocks
    <3>2. d[i] = c[i] /\ v[i] = w[i]
      BY <2>1, <1>2, <1>3, <1>4
    <3> QED
      BY <3>1, <3>2
  <2>2. CASE i = Len(c) + 1
    BY <2>2, <1>2, <1>3, <1>4
  <2> QED
    BY <2>1, <2>2, <1>2, <1>3
<1>6. Blocks(d, v)
  BY <1>2, <1>3, <1>4, <1>5 DEF Blocks
<1> QED
  BY <1>1, <1>2, <1>6, ConcatAppend, ConcatBytes

\* The first frame on its way and the others.
LEMMA BlocksTail ==
  ASSUME NEW c, NEW w, Blocks(c, w), w # <<>>
  PROVE  /\ c # <<>> /\ Head(c) \in WireFrames /\ Head(w) \in Bytes /\ Block(Head(c), Head(w))
         /\ Blocks(Tail(c), Tail(w)) /\ Concat(Tail(w)) \in Bytes
         /\ Concat(w) = Head(w) \o Concat(Tail(w))
<1>1. /\ c \in Seq(WireFrames) /\ w \in Seq(Bytes) /\ Len(w) = Len(c)
      /\ Len(w) \in Nat \ {0} /\ Len(c) \in Nat \ {0} /\ c # <<>>
  BY EmptySeq DEF Blocks
<1>2. PICK d, v : d = Tail(c) /\ v = Tail(w)
  OBVIOUS
<1>3. /\ d \in Seq(WireFrames) /\ Len(d) = Len(c) - 1 /\ Head(c) = c[1] /\ Head(c) \in WireFrames
      /\ \A i \in 1 .. Len(d) : d[i] = c[i+1]
  BY <1>1, <1>2, HeadTailProperties
<1>4. /\ v \in Seq(Bytes) /\ Len(v) = Len(w) - 1 /\ Head(w) = w[1] /\ Head(w) \in Bytes
      /\ \A i \in 1 .. Len(v) : v[i] = w[i+1]
  BY <1>1, <1>2, HeadTailProperties
<1>5. ASSUME NEW i \in 1 .. Len(d) PROVE Block(d[i], v[i])
  <2>1. i + 1 \in 1 .. Len(c) /\ i \in 1 .. Len(v)
    BY <1>1, <1>3, <1>4
  <2>2. Block(c[i+1], w[i+1])
    BY <2>1 DEF Blocks
  <2> QED
    BY <2>1, <2>2, <1>3, <1>4
<1>6. Blocks(d, v)
  <2>1. Len(v) = Len(d)
    BY <1>1, <1>3, <1>4
  <2> QED
    BY <2>1, <1>3, <1>4, <1>5 DEF Blocks
<1>7. Block(c[1], w[1])
  BY <1>1 DEF Blocks
<1> QED
  BY <1>1, <1>2, <1>3, <1>4, <1>6, <1>7, ConcatHead, ConcatBytes

\* A header that poll_next does not refuse is the header of the first frame on
\* its way: no byte of it belongs to another frame.
LEMMA FirstFrame ==
  ASSUME NEW c, NEW w, Blocks(c, w), NEW u \in Bytes, NEW v \in Bytes,
         Concat(w) = u \o v, Len(u) = HEADER_SIZE, ~ Refused(u)
  PROVE  /\ w # <<>> /\ Head(c) \in Frames /\ u = encode(Head(c).header)
         /\ Head(w) = Wire(Head(c)) /\ v = Head(c).body \o Concat(Tail(w))
<1>1. w # <<>>
  <2>1. Len(u \o v) = HEADER_SIZE + Len(v) /\ Len(v) \in Nat
    BY Join
  <2>2. u \o v # <<>>
    BY <2>1 DEF HEADER_SIZE
  <2> QED
    BY <2>2, ConcatNone
<1>2. PICK f, b, y : f = Head(c) /\ b = Head(w) /\ y = Concat(Tail(w))
  OBVIOUS
<1>3. f \in WireFrames /\ b \in Bytes /\ Block(f, b) /\ y \in Bytes /\ u \o v = b \o y
  BY <1>1, <1>2, BlocksTail
<1>4. CASE b \in ForeignHeaders
  <2>1. Len(b) = HEADER_SIZE /\ Refused(b)
    BY <1>4, ForeignBytes
  <2>2. u = b
    BY <1>3, <2>1, CutAlike
  <2> QED
    BY <2>1, <2>2
<1>5. CASE f \in Frames /\ b = Wire(f)
  <2>1. /\ encode(f.header) \in Bytes /\ Len(encode(f.header)) = HEADER_SIZE /\ f.body \in Bytes
    BY <1>5, WireBytes
  <2>2. b \o y = encode(f.header) \o (f.body \o y) /\ f.body \o y \in Bytes
    <3>1. PICK h, d : h = encode(f.header) /\ d = f.body
      OBVIOUS
    <3>4. b = encode(f.header) \o f.body
      BY ONLY <1>5 DEF Wire
    <3>2. h \in Bytes /\ d \in Bytes /\ y \in Bytes /\ b = h \o d
      BY <1>3, <2>1, <3>1, <3>4
    <3>3. (h \o d) \o y = h \o (d \o y)
      BY ONLY <3>2, Assoc
    <3>5. d \o y \in Bytes
      BY <3>2, Join
    <3> QED
      BY <3>1, <3>2, <3>3, <3>5
  <2>3. u = encode(f.header) /\ v = f.body \o y
    <3>1. PICK h, z : h = encode(f.header) /\ z = f.body \o y
      OBVIOUS
    <3>2. h \in Bytes /\ z \in Bytes /\ u \o v = h \o z /\ Len(u) = Len(h)
      BY <1>3, <2>1, <2>2, <3>1
    <3>3. u = h /\ v = z
      BY <3>2, CutAlike
    <3> QED
      BY <3>1, <3>3
  <2> QED
    BY <1>1, <1>2, <1>5, <2>3
<1> QED
  BY <1>3, <1>4, <1>5 DEF Block

\* A frame on its way leaves bytes to read.
LEMMA NoBlocks ==
  ASSUME NEW c, NEW w, Blocks(c, w), Concat(w) = <<>> PROVE c = <<>>
<1> SUFFICES ASSUME w # <<>> PROVE FALSE
  BY EmptySeq DEF Blocks
<1>1. PICK f, b, y : f = Head(c) /\ b = Head(w) /\ y = Concat(Tail(w))
  OBVIOUS
<1>2. b \in Bytes /\ y \in Bytes /\ b \o y = <<>> /\ Block(f, b)
  BY <1>1, BlocksTail
<1>3. Len(b) = 0
  BY <1>2, ConcatEqualIffEmpty DEF Bytes
<1>4. CASE b \in ForeignHeaders
  BY <1>3, <1>4, ForeignBytes DEF HEADER_SIZE
<1>5. CASE f \in Frames /\ b = Wire(f)
  BY <1>3, <1>5, WireBytes DEF HEADER_SIZE
<1> QED
  BY <1>2, <1>4, <1>5 DEF Block

----------------------------------------------------------------------------
(* The frames on their way                                                  *)

\* The bytes of the frame being read that were read, and of the frame being
\* written that are not yet written.
InRead ==
  IF read_state.kind = "Header" THEN read_state.buffer
  ELSE encode(read_state.header) \o read_state.buffer

InWrite ==
  IF Writing THEN SubSeq(write_state.part, write_state.offset + 1, Len(write_state.part))
                    \o write_state.body
  ELSE <<>>

\* c are the frames sent and not received, w their bytes.  Read, on the socket
\* and still to come, r, they are the bytes of these frames and no others; what
\* is to come is what is left to write, unless the socket broke.
OnTheWay(c, w, r) ==
  /\ Blocks(c, w) /\ r \in Bytes /\ sent = got \o c
  /\ (InRead \o pipe) \o r = Concat(w)
  /\ sock # "failed" => r = InWrite

Shape ==
  /\ write_state.kind # "Poisoned"
  /\ write_state.kind = "Body" => write_state.body = <<>>
  /\ read_state.kind = "Body" => /\ read_state.header.tag = "Data"
                                 /\ read_state.header.length \in 1 .. MAX_FRAME_BODY_LEN

Course == Shape /\ \E c, w, r : OnTheWay(c, w, r)

\* What was read is bytes.
LEMMA InReadBytes ==
  ASSUME TransportTypes PROVE InRead \in Bytes /\ pipe \in Bytes /\ InRead \o pipe \in Bytes
<1>1. read_state.buffer \in Bytes /\ read_state.header \in Headers /\ pipe \in Bytes
  BY DEF TransportTypes, ReadTypes
<1>2. encode(read_state.header) \in Bytes
  BY <1>1, EncodeBytes
<1>3. encode(read_state.header) \o read_state.buffer \in Bytes
  BY <1>1, <1>2, Join
<1>4. InRead \in Bytes
  BY <1>1, <1>3 DEF InRead
<1> QED
  BY <1>1, <1>4, Join

\* A step that neither sends nor receives a frame, and moves or loses bytes.
LEMMA MoveCourse ==
  ASSUME NEW c, NEW w, NEW r, OnTheWay(c, w, r), UNCHANGED <<sent, got>>, Shape',
         NEW s \in Bytes, (InRead' \o pipe') \o s = (InRead \o pipe) \o r,
         sock' # "failed" => s = InWrite'
  PROVE  Course'
<1>1. OnTheWay(c, w, s)'
  BY DEF OnTheWay
<1> QED
  BY <1>1 DEF Course

\* A new frame, with its bytes, at the end.
LEMMA AddCourse ==
  ASSUME TransportTypes, TransportTypes', NEW c, NEW w, NEW r, OnTheWay(c, w, r),
         NEW f \in WireFrames, NEW b \in Bytes, Block(f, b),
         sent' = Append(sent, f), UNCHANGED got, Shape',
         NEW s \in Bytes, (InRead' \o pipe') \o s = ((InRead \o pipe) \o r) \o b,
         sock' # "failed" => s = InWrite'
  PROVE  Course'
<1>1. /\ Blocks(c, w) /\ sent = got \o c /\ (InRead \o pipe) \o r = Concat(w)
      /\ got \in Seq(WireFrames) /\ c \in Seq(WireFrames)
  BY DEF OnTheWay, Blocks, TransportTypes, FrameTypes
<1>2. PICK d, v : d = Append(c, f) /\ v = Append(w, b)
  OBVIOUS
<1>3. Blocks(d, v) /\ Concat(v) = Concat(w) \o b
  BY <1>1, <1>2, BlocksAppend
<1>4. Append(got \o c, f) = got \o d
  <2>1. <<f>> \in Seq(WireFrames) /\ got \o c \in Seq(WireFrames)
    BY <1>1, ConcatProperties
  <2>2. Append(got \o c, f) = (got \o c) \o <<f>>
    BY <2>1, AppendIsConcat
  <2>3. d = c \o <<f>>
    BY <1>1, <1>2, AppendIsConcat
  <2>4. (got \o c) \o <<f>> = got \o (c \o <<f>>)
    <3>1. \A x, y, z \in Seq(WireFrames) : (x \o y) \o z = x \o (y \o z)
      BY ConcatAssociative
    <3>2. got \in Seq(WireFrames) /\ c \in Seq(WireFrames) /\ <<f>> \in Seq(WireFrames)
      BY <1>1, <2>1
    <3> QED
      BY ONLY <3>1, <3>2, Zenon
  <2> QED
    BY <2>2, <2>3, <2>4
<1>5. OnTheWay(d, v, s)'
  <2>1. sent' = got' \o d
    BY <1>1, <1>4
  <2>2. (InRead' \o pipe') \o s = Concat(v)
    BY <1>1, <1>3
  <2> QED
    BY <1>3, <2>1, <2>2 DEF OnTheWay
<1> QED
  BY <1>5 DEF Course

\* start_send: the frame goes behind those on their way; on a broken socket it
\* never arrives, but it does not come before them either.
LEMMA SendCourse ==
  ASSUME TransportTypes, TransportTypes', Course, NEW f \in Frames,
         ReadyOk \/ ReadyErr, SendFrame(f), UNCHANGED got
  PROVE  Course'
<1>1. PICK c, w, r : OnTheWay(c, w, r)
  BY DEF Course
<1>2. PICK b : b = Wire(f)
  OBVIOUS
<1>3. /\ b \in Bytes /\ f \in WireFrames /\ Block(f, b)
      /\ encode(f.header) \in Bytes /\ f.body \in Bytes
  BY <1>2, WireBytes, FramesTyped DEF Block
<1>4. /\ write_state' = [kind |-> "Header", part |-> encode(f.header), offset |-> 0, body |-> f.body]
      /\ sent' = Append(sent, f) /\ UNCHANGED <<read_state, pipe, sock, result>>
  BY DEF SendFrame, start_send
<1>5. Shape'
  BY <1>4 DEF Course, Shape
<1>6. InRead' = InRead /\ pipe' = pipe
  BY <1>4 DEF InRead
<1>7. r \in Bytes /\ InRead \o pipe \in Bytes /\ r \o b \in Bytes
  BY <1>1, <1>3, InReadBytes, Join DEF OnTheWay
<1>8. (InRead' \o pipe') \o (r \o b) = ((InRead \o pipe) \o r) \o b
  <2>1. PICK x : x = InRead \o pipe
    OBVIOUS
  <2>2. (x \o r) \o b = x \o (r \o b)
    <3>1. x \in Bytes /\ r \in Bytes /\ b \in Bytes
      BY <1>3, <1>7, <2>1
    <3> QED
      BY ONLY <3>1, Assoc
  <2> QED
    BY <1>6, <2>1, <2>2
<1>9. ASSUME sock' # "failed" PROVE r \o b = InWrite'
  <2>1. write_state.kind = "Init" /\ sock # "failed"
    BY <1>4, <1>9 DEF ReadyOk, ReadyErr, Course, Shape
  <2>2. r = <<>>
    BY <1>1, <2>1 DEF OnTheWay, InWrite, Writing
  <2>3. r \o b = b
    BY <1>3, <2>2, ConcatEmptySeq DEF Bytes
  <2>4. InWrite' = SubSeq(encode(f.header), 1, Len(encode(f.header))) \o f.body
    <3>1. /\ write_state'.kind = "Header" /\ write_state'.part = encode(f.header)
          /\ write_state'.offset = 0 /\ write_state'.body = f.body
      BY <1>4
    <3>2. write_state'.offset + 1 = 1 /\ write_state'.kind \in {"Header", "Body"}
      BY <3>1
    <3> QED
      BY <3>1, <3>2, Zenon DEF InWrite, Writing
  <2>5. SubSeq(encode(f.header), 1, Len(encode(f.header))) = encode(f.header)
    BY <1>3, SubSeqFull DEF Bytes
  <2> QED
    BY <1>2, <2>3, <2>4, <2>5 DEF Wire
<1> QED
  BY <1>1, <1>3, <1>4, <1>5, <1>7, <1>8, <1>9, AddCourse

\* One round of poll_ready moves bytes from the frame being written to the
\* socket: what is left is what was left without them.
LEMMA WriteMoves ==
  ASSUME ~ Overcount, TransportTypes, Shape, NEW n \in Nat, PollReady(n)
  PROVE  /\ Shape' /\ InWrite \in Bytes /\ InWrite' \in Bytes
         /\ \E z \in Bytes : pipe' = pipe \o z /\ InWrite = z \o InWrite'
<1>1. PICK v \in Bytes, o \in Nat, e \in Bytes :
        v = write_state.part /\ o = write_state.offset /\ e = write_state.body
  BY DEF TransportTypes, WriteTypes
<1>2. PICK m \in Nat : m = Len(v)
  BY DEF Bytes
<1>3. o <= m /\ Rest = m - o /\ n <= Rest /\ n > 0 /\ ~ (n > Rest)
  <2>1. o <= m /\ Rest = m - o
    BY <1>1, <1>2 DEF TransportTypes, WriteTypes, Rest
  <2>2. n \in 1 .. Rest + 0
    BY DEF PollReady
  <2> QED
    BY <2>1, <2>2
<1>4. o + n <= m /\ o + n \in Nat
  BY <1>3
<1>5. PICK z, y : z = SubSeq(v, o + 1, o + n) /\ y = SubSeq(v, o + n + 1, m)
  OBVIOUS
<1>6. z \in Bytes /\ y \in Bytes /\ SubSeq(v, o + 1, m) = z \o y
  BY <1>2, <1>4, <1>5, CutBytes
<1>7. pipe' = pipe \o z
  <2>1. pipe' = pipe \o SubSeq(write_state.part, write_state.offset + 1, write_state.offset + n)
    BY <1>3 DEF PollReady
  <2> QED
    BY <2>1, <1>1, <1>5
<1>8. Writing /\ write_state' = AfterWrite(write_state, n) /\ read_state' = read_state
  BY DEF PollReady
<1>9. InWrite = (z \o y) \o e
  BY <1>1, <1>2, <1>6, <1>8 DEF InWrite
<1>10. y \o e \in Bytes /\ z \o y \in Bytes
  BY <1>1, <1>6, Join
<1>11. (z \o y) \o e = z \o (y \o e)
  <2>1. z \in Bytes /\ y \in Bytes /\ e \in Bytes
    BY <1>1, <1>6
  <2> QED
    BY ONLY <2>1, Assoc
<1>14. (z \o y) \o e \in Bytes
  BY <1>1, <1>10, Join
<1>12. Shape' /\ InWrite' = y \o e
  <2>1. CASE o + n < m
    <3>1. write_state' = [write_state EXCEPT !.offset = o + n]
      BY <1>1, <1>2, <1>8, <2>1 DEF AfterWrite
    <3>2. /\ write_state'.kind = write_state.kind /\ write_state'.part = v
          /\ write_state'.offset = o + n /\ write_state'.body = e
      BY <1>1, <3>1 DEF TransportTypes, WriteTypes
    <3>3. Shape'
      BY <1>1, <1>8, <3>2 DEF Shape
    <3>4. Writing'
      BY <1>8, <3>2 DEF Writing
    <3>5. InWrite' = SubSeq(v, (o + n) + 1, m) \o e
      BY <1>2, <3>2, <3>4, Zenon DEF InWrite
    <3> QED
      BY <1>5, <3>3, <3>5
  <2>2. CASE o + n = m
    <3>1. y = <<>>
      <4>1. o + n + 1 \in Int /\ m \in Int /\ m < o + n + 1
        BY <2>2
      <4> QED
        BY <4>1, <1>5, SubSeqEmpty
    <3>2. y \o e = e /\ e \o <<>> = e
      BY <1>1, <3>1, ConcatEmptySeq DEF Bytes
    <3>3. write_state' = IF write_state.kind = "Header" /\ e # <<>>
                         THEN [kind |-> "Body", part |-> e, offset |-> 0, body |-> <<>>]
                         ELSE WriteInit
      BY <1>1, <1>2, <1>8, <2>2 DEF AfterWrite
    <3>4. CASE write_state.kind = "Header" /\ e # <<>>
      <4>1. /\ write_state'.kind = "Body" /\ write_state'.part = e
            /\ write_state'.offset = 0 /\ write_state'.body = <<>>
        BY <3>3, <3>4
      <4>2. write_state'.offset + 1 = 1 /\ Writing'
        BY <4>1 DEF Writing
      <4>3. InWrite' = SubSeq(e, 1, Len(e)) \o <<>>
        BY <4>1, <4>2, Zenon DEF InWrite
      <4>4. SubSeq(e, 1, Len(e)) = e
        BY <1>1, SubSeqFull DEF Bytes
      <4>5. Shape'
        BY <1>8, <4>1 DEF Shape
      <4> QED
        BY <3>2, <4>3, <4>4, <4>5
    <3>5. CASE ~ (write_state.kind = "Header" /\ e # <<>>)
      <4>1. write_state'.kind = "Init"
        BY <3>3, <3>5 DEF WriteInit
      <4>2. e = <<>>
        BY <1>1, <1>8, <3>5 DEF Writing, Shape
      <4>3. InWrite' = <<>>
        BY <4>1 DEF InWrite, Writing
      <4>4. Shape'
        BY <1>8, <4>1 DEF Shape
      <4> QED
        BY <3>2, <4>2, <4>3, <4>4
    <3> QED
      BY <3>4, <3>5
  <2> QED
    BY <1>4, <2>1, <2>2
<1> QED
  BY <1>6, <1>7, <1>9, <1>10, <1>11, <1>12, <1>14

\* poll_ready.
LEMMA WriteCourse ==
  ASSUME ~ Overcount, TransportTypes, Course, NEW n \in Nat, PollReady(n), UNCHANGED <<sent, got>>
  PROVE  Course'
<1>1. PICK c, w, r : OnTheWay(c, w, r)
  BY DEF Course
<1>2. Shape
  BY DEF Course
<1>3. PICK z \in Bytes : pipe' = pipe \o z /\ InWrite = z \o InWrite'
  BY <1>2, WriteMoves
<1>4. Shape' /\ InWrite' \in Bytes
  BY <1>2, WriteMoves
<1>5. sock = "open" /\ sock' = "open" /\ read_state' = read_state
  BY DEF PollReady
<1>6. r = z \o InWrite'
  BY <1>1, <1>3, <1>5 DEF OnTheWay
<1>7. InRead' = InRead
  BY <1>5 DEF InRead
<1>8. PICK a, p, s : a = InRead /\ p = pipe /\ s = InWrite'
  OBVIOUS
<1>9. a \in Bytes /\ p \in Bytes /\ s \in Bytes /\ a \o p \in Bytes
  BY <1>4, <1>8, InReadBytes
<1>10. (a \o (p \o z)) = (a \o p) \o z
  <2>1. a \in Bytes /\ p \in Bytes /\ z \in Bytes
    BY <1>9
  <2> QED
    BY ONLY <2>1, Assoc
<1>11. ((a \o p) \o z) \o s = (a \o p) \o (z \o s)
  <2>1. PICK x : x = a \o p
    OBVIOUS
  <2>2. x \in Bytes /\ z \in Bytes /\ s \in Bytes
    BY <1>9, <2>1
  <2>3. (x \o z) \o s = x \o (z \o s)
    BY ONLY <2>2, Assoc
  <2> QED
    BY <2>1, <2>3
<1>12. (InRead' \o pipe') \o s = (InRead \o pipe) \o r
  BY <1>3, <1>6, <1>7, <1>8, <1>10, <1>11
<1> QED
  BY <1>1, <1>4, <1>8, <1>12, MoveCourse

\* The socket breaks and loses a suffix of what it holds.
LEMMA FaultCourse ==
  ASSUME TransportTypes, Course, SocketFails, UNCHANGED <<sent, got>>
  PROVE  Course'
<1>1. PICK c, w, r : OnTheWay(c, w, r)
  BY DEF Course
<1>2. PICK n \in 0 .. Len(pipe) : pipe' = SubSeq(pipe, 1, n)
  BY DEF SocketFails
<1>3. PICK x, z : x = pipe' /\ z = SubSeq(pipe, n + 1, Len(pipe))
  OBVIOUS
<1>4. x \in Bytes /\ z \in Bytes /\ pipe = x \o z
  BY <1>2, <1>3, PrefixBytes DEF TransportTypes
<1>5. sock' = "failed" /\ UNCHANGED <<write_state, read_state>>
  BY DEF SocketFails
<1>6. Shape' /\ InRead' = InRead
  BY <1>5 DEF Course, Shape, InRead
<1>7. PICK a : a = InRead
  OBVIOUS
<1>8. a \in Bytes /\ r \in Bytes
  BY <1>1, <1>7, InReadBytes DEF OnTheWay
<1>9. a \o (x \o z) = (a \o x) \o z
  <2>1. a \in Bytes /\ x \in Bytes /\ z \in Bytes
    BY <1>4, <1>8
  <2> QED
    BY ONLY <2>1, Assoc
<1>10. a \o x \in Bytes /\ z \o r \in Bytes
  BY <1>4, <1>8, Join
<1>11. ((a \o x) \o z) \o r = (a \o x) \o (z \o r)
  <2>1. PICK y : y = a \o x
    OBVIOUS
  <2>2. (y \o z) \o r = y \o (z \o r)
    <3>1. y \in Bytes /\ z \in Bytes /\ r \in Bytes
      BY <2>1, <1>4, <1>8, <1>10
    <3> QED
      BY ONLY <3>1, Assoc
  <2> QED
    BY <2>1, <2>2
<1>12. (InRead' \o pipe') \o (z \o r) = (InRead \o pipe) \o r
  BY <1>3, <1>4, <1>6, <1>7, <1>9, <1>11
<1> QED
  BY <1>1, <1>5, <1>6, <1>10, <1>12, MoveCourse

\* A foreign sender puts a malformed header behind the frames on their way.
LEMMA ForeignCourse ==
  ASSUME TransportTypes, TransportTypes', Course, ForeignHeader
  PROVE  Course'
<1>1. PICK c, w, r : OnTheWay(c, w, r)
  BY DEF Course
<1>2. PICK b \in ForeignHeaders : pipe' = pipe \o b
  BY DEF ForeignHeader
<1>3. /\ ReadyOk /\ sock = "open" /\ sent' = Append(sent, Malformed)
      /\ UNCHANGED <<write_state, read_state, got>>
  BY DEF ForeignHeader
<1>4. b \in Bytes /\ Block(Malformed, b) /\ Malformed \in WireFrames /\ <<>> \in Bytes
  BY <1>2, ForeignBytes, EmptySeq DEF Block, Malformed, HeaderOf, WireFrames, Headers, Tags, U16,
                                      U32, Bytes
<1>5. Shape' /\ InRead' = InRead /\ InWrite' = <<>> /\ InWrite = <<>>
  BY <1>3 DEF Course, Shape, InRead, InWrite, ReadyOk, Writing
<1>6. r = <<>>
  BY <1>1, <1>3, <1>5 DEF OnTheWay
<1>7. PICK a, p : a = InRead /\ p = pipe
  OBVIOUS
<1>8. a \in Bytes /\ p \in Bytes /\ a \o p \in Bytes
  BY <1>7, InReadBytes
<1>9. a \o (p \o b) = (a \o p) \o b
  <2>1. a \in Bytes /\ p \in Bytes /\ b \in Bytes
    BY <1>4, <1>8
  <2> QED
    BY ONLY <2>1, Assoc
<1>10. (a \o p) \o <<>> = a \o p
  BY <1>8, ConcatEmptySeq DEF Bytes
<1>13. (a \o p) \o b \in Bytes
  BY <1>4, <1>8, Join
<1>11. ((a \o p) \o b) \o <<>> = (a \o p) \o b
  BY <1>13, ConcatEmptySeq DEF Bytes
<1>12. (InRead' \o pipe') \o <<>> = ((InRead \o pipe) \o r) \o b
  BY <1>2, <1>5, <1>6, <1>7, <1>9, <1>10, <1>11
<1> QED
  BY <1>1, <1>3, <1>4, <1>5, <1>12, AddCourse

\* The part of a frame that is read once n more bytes of it are.
InFull(n) ==
  IF read_state.kind = "Header" THEN Filled(n) ELSE encode(read_state.header) \o Filled(n)

\* Reading takes the bytes from the socket and changes none.
LEMMA ReadMoves ==
  ASSUME TransportTypes, NEW n, TakesBytes(n), NEW r \in Bytes
  PROVE  /\ InFull(n) \in Bytes /\ pipe' \in Bytes /\ pipe' \o r \in Bytes
         /\ (InRead \o pipe) \o r = InFull(n) \o (pipe' \o r)
         /\ (InFull(n) \o pipe') \o r = InFull(n) \o (pipe' \o r)
<1>1. PICK z, q, f : z = SubSeq(pipe, 1, n) /\ q = pipe' /\ f = InFull(n)
  OBVIOUS
<1>2. /\ z \in Bytes /\ q \in Bytes /\ pipe = z \o q /\ Filled(n) \in Bytes
      /\ Filled(n) = read_state.buffer \o z
  BY <1>1, FilledBytes DEF Filled
<1>3. read_state.buffer \in Bytes /\ read_state.header \in Headers
      /\ read_state.kind \in {"Header", "Body"}
  BY DEF TransportTypes, ReadTypes
<1>4. PICK h, b : h = encode(read_state.header) /\ b = read_state.buffer
  OBVIOUS
<1>5. h \in Bytes /\ b \in Bytes
  BY <1>3, <1>4, EncodeBytes
<1>6. h \o (b \o z) = (h \o b) \o z
  <2>1. h \in Bytes /\ b \in Bytes /\ z \in Bytes
    BY <1>2, <1>5
  <2> QED
    BY ONLY <2>1, Assoc
<1>7. f = InRead \o z
  <2>1. CASE read_state.kind = "Header"
    BY <2>1, <1>1, <1>2 DEF InFull, InRead
  <2>2. CASE read_state.kind = "Body"
    <3>1. f = h \o (b \o z) /\ InRead = h \o b
      BY <2>2, <1>1, <1>2, <1>4 DEF InFull, InRead
    <3> QED
      BY <3>1, <1>6
  <2> QED
    BY <1>3, <2>1, <2>2
<1>8. PICK a : a = InRead
  OBVIOUS
<1>9. a \in Bytes
  BY <1>8, InReadBytes
<1>10. f \in Bytes /\ f = a \o z
  BY <1>2, <1>7, <1>8, <1>9, Join
<1>11. q \o r \in Bytes
  BY <1>2, Join
<1>12. a \o (z \o q) = f \o q
  <2>1. a \in Bytes /\ z \in Bytes /\ q \in Bytes
    BY <1>2, <1>9
  <2>2. (a \o z) \o q = a \o (z \o q)
    BY ONLY <2>1, Assoc
  <2> QED
    BY <1>10, <2>2
<1>13. (f \o q) \o r = f \o (q \o r)
  BY ONLY <1>2, <1>10, Assoc
<1> QED
  BY <1>1, <1>2, <1>8, <1>10, <1>11, <1>12, <1>13

\* poll_next reads a part of a header or a body, or a header it refuses.
LEMMA ReadCourse ==
  ASSUME TransportTypes, Course, NEW n, ReadSome(n) \/ HeaderRefused(n), UNCHANGED <<sent, got>>
  PROVE  Course'
<1>1. PICK c, w, r : OnTheWay(c, w, r)
  BY DEF Course
<1>2. /\ TakesBytes(n) /\ UNCHANGED <<write_state, sock>>
      /\ read_state' = [read_state EXCEPT !.buffer = Filled(n)]
  BY DEF ReadSome, HeaderRefused, TakesBytes
<1>3. /\ read_state'.kind = read_state.kind /\ read_state'.header = read_state.header
      /\ read_state'.buffer = Filled(n)
  BY <1>2 DEF TransportTypes, ReadTypes
<1>4. InRead' = InFull(n) /\ InWrite' = InWrite /\ Shape'
  <2>1. InRead' = InFull(n)
    BY <1>3 DEF InRead, InFull
  <2>2. InWrite' = InWrite
    BY <1>2 DEF InWrite, Writing
  <2>3. Shape'
    BY <1>2, <1>3 DEF Course, Shape
  <2> QED
    BY <2>1, <2>2, <2>3
<1>5. r \in Bytes /\ (sock' # "failed" => r = InWrite')
  BY <1>1, <1>2, <1>4 DEF OnTheWay
<1>6. (InRead' \o pipe') \o r = (InRead \o pipe) \o r
  <2>1. /\ (InRead \o pipe) \o r = InFull(n) \o (pipe' \o r)
        /\ (InFull(n) \o pipe') \o r = InFull(n) \o (pipe' \o r)
    BY <1>2, <1>5, ReadMoves
  <2> QED
    BY <1>4, <2>1
<1> QED
  BY <1>1, <1>4, <1>5, <1>6, MoveCourse

\* poll_next reads the last bytes of a header: it decodes to what was encoded.
LEMMA BodyCourse ==
  ASSUME TransportTypes, Course, NEW n, BodyStarts(n), UNCHANGED <<sent, got>>
  PROVE  Course'
<1>1. PICK c, w, r : OnTheWay(c, w, r)
  BY DEF Course
<1>2. PICK u : u = Filled(n)
  OBVIOUS
<1>3. /\ TakesBytes(n) /\ n = Want /\ UNCHANGED <<write_state, sock>> /\ read_state.kind = "Header"
      /\ decode_error(u) = "None" /\ decode(u).tag = "Data"
      /\ decode(u).length \in 1 .. MAX_FRAME_BODY_LEN
      /\ read_state' = [kind |-> "Body", buffer |-> <<>>, header |-> decode(u)]
  BY <1>2 DEF BodyStarts, TakesBytes
<1>4. u \in Bytes /\ Len(u) = HEADER_SIZE
  <2>1. u \in Bytes /\ Len(u) = Len(read_state.buffer) + n
    BY <1>2, <1>3, FilledBytes
  <2>2. Len(read_state.buffer) \in Nat
    BY DEF TransportTypes, ReadTypes, Bytes
  <2>3. n = 12 - Len(read_state.buffer)
    BY <1>3 DEF Want, HEADER_SIZE
  <2> QED
    BY <2>1, <2>2, <2>3 DEF HEADER_SIZE
<1>5. encode(decode(u)) = u
  BY <1>3, <1>4, BuffersAreBytes, EncodeDecode
<1>6. /\ read_state'.kind = "Body" /\ read_state'.buffer = <<>> /\ read_state'.header = decode(u)
  BY <1>3
<1>7. InRead' = InFull(n)
  <2>1. InRead' = u \o <<>>
    BY <1>5, <1>6 DEF InRead
  <2>2. u \o <<>> = u
    BY <1>4, ConcatEmptySeq DEF Bytes
  <2>3. InFull(n) = u
    BY <1>2, <1>3 DEF InFull
  <2> QED
    BY <2>1, <2>2, <2>3
<1>8. InWrite' = InWrite
  BY <1>3 DEF InWrite, Writing
<1>9. Shape'
  BY <1>3, <1>6 DEF Course, Shape
<1>10. r \in Bytes /\ (sock' # "failed" => r = InWrite')
  BY <1>1, <1>3, <1>8 DEF OnTheWay
<1>11. (InRead' \o pipe') \o r = (InRead \o pipe) \o r
  <2>1. /\ (InRead \o pipe) \o r = InFull(n) \o (pipe' \o r)
        /\ (InFull(n) \o pipe') \o r = InFull(n) \o (pipe' \o r)
    BY <1>3, <1>10, ReadMoves
  <2> QED
    BY <1>7, <2>1
<1> QED
  BY <1>1, <1>9, <1>10, <1>11, MoveCourse

\* The first frame on its way arrives.
LEMMA TakeCourse ==
  ASSUME TransportTypes, Shape, NEW c, NEW w, NEW r, OnTheWay(c, w, r), w # <<>>,
         got' = Append(got, Head(c)), read_state' = ReadInit,
         UNCHANGED <<write_state, sock, sent>>, pipe' \in Bytes, pipe' \o r = Concat(Tail(w))
  PROVE  Course'
<1>1. /\ Blocks(c, w) /\ r \in Bytes /\ sent = got \o c /\ got \in Seq(WireFrames)
      /\ c \in Seq(WireFrames) /\ (sock # "failed" => r = InWrite)
  BY DEF OnTheWay, Blocks, TransportTypes, FrameTypes
<1>2. c # <<>> /\ Head(c) \in WireFrames /\ Blocks(Tail(c), Tail(w))
  BY <1>1, BlocksTail
<1>3. PICK f, t : f = Head(c) /\ t = Tail(c)
  OBVIOUS
<1>4. f \in WireFrames /\ t \in Seq(WireFrames) /\ <<f>> \in Seq(WireFrames) /\ c = <<f>> \o t
  <2>1. f \in WireFrames /\ t \in Seq(WireFrames) /\ <<f>> \in Seq(WireFrames)
    BY <1>1, <1>2, <1>3
  <2>2. Len(<<f>> \o t) = Len(c)
    BY <1>1, <1>2, <1>3, <2>1
  <2>3. \A i \in 1 .. Len(c) : c[i] = (<<f>> \o t)[i]
    BY <1>1, <1>2, <1>3, <2>1
  <2>4. <<f>> \o t \in Seq(WireFrames)
    BY <2>1, ConcatProperties
  <2> QED
    BY <1>1, <2>1, <2>2, <2>3, <2>4, SeqEqual
<1>5. sent' = got' \o t
  <2>1. Append(got, f) = got \o <<f>>
    BY <1>1, <1>4, AppendIsConcat
  <2>2. (got \o <<f>>) \o t = got \o (<<f>> \o t)
    BY <1>1, <1>4, ConcatAssociative
  <2> QED
    BY <1>1, <1>3, <1>4, <2>1, <2>2
<1>6. InRead' = <<>>
  BY DEF InRead, ReadInit
<1>7. <<>> \o pipe' = pipe'
  BY ConcatEmptySeq DEF Bytes
<1>8. InWrite' = InWrite
  BY DEF InWrite, Writing
<1>9. Shape'
  BY DEF Shape, ReadInit
<1>10. OnTheWay(t, Tail(w), r)'
  <2>1. (InRead' \o pipe') \o r = Concat(Tail(w))
    BY <1>6, <1>7
  <2> QED
    BY <1>1, <1>2, <1>3, <1>5, <1>8, <2>1 DEF OnTheWay
<1> QED
  BY <1>9, <1>10 DEF Course

\* poll_next returns the first frame on its way, header and body.
LEMMA FrameCourse ==
  ASSUME TransportTypes, Course, NEW n, FrameRead(n),
         got' = Append(got, FrameOf(n)), UNCHANGED sent
  PROVE  Course'
<1>1. PICK c, w, r : OnTheWay(c, w, r)
  BY DEF Course
<1>2. PICK u, v : u = Filled(n) /\ v = pipe' \o r
  OBVIOUS
<1>3. /\ TakesBytes(n) /\ n = Want /\ UNCHANGED <<write_state, sock>> /\ read_state' = ReadInit
      /\ (read_state.kind = "Body" \/ HasNoBody(u))
  BY <1>2 DEF FrameRead, TakesBytes
<1>4. r \in Bytes /\ Blocks(c, w) /\ (InRead \o pipe) \o r = Concat(w) /\ Shape
  BY <1>1 DEF OnTheWay, Course
<1>5. pipe' \in Bytes /\ v \in Bytes /\ Concat(w) = InFull(n) \o v
  BY <1>2, <1>3, <1>4, ReadMoves
<1>6. /\ u \in Bytes /\ Len(u) = Len(read_state.buffer) + n /\ Len(read_state.buffer) \in Nat
      /\ read_state.kind \in {"Header", "Body"}
      /\ read_state.header \in Headers /\ read_state.header.length \in Nat
  <2>1. u \in Bytes /\ Len(u) = Len(read_state.buffer) + n
    BY <1>2, <1>3, FilledBytes
  <2> QED
    BY <2>1 DEF TransportTypes, ReadTypes, Bytes, Headers, U32
<1>7. CASE read_state.kind = "Header"
  <2>1. Len(u) = HEADER_SIZE
    BY <1>3, <1>6, <1>7 DEF Want, HEADER_SIZE
  <2>2. decode_error(u) = "None" /\ (decode(u).tag # "Data" \/ decode(u).length = 0)
    BY <1>3, <1>7 DEF HasNoBody
  <2>3. ~ Refused(u)
    BY <2>2, FrameIoAssumption DEF Refused
  <2>4. Concat(w) = u \o v
    BY <1>2, <1>5, <1>7 DEF InFull
  <2>5. PICK f : f = Head(c)
    OBVIOUS
  <2>6. /\ w # <<>> /\ f \in Frames /\ u = encode(f.header) /\ v = f.body \o Concat(Tail(w))
    <3>1. u \in Bytes /\ v \in Bytes /\ Blocks(c, w)
      BY <1>4, <1>5, <1>6
    <3> QED
      BY ONLY <3>1, <2>1, <2>3, <2>4, <2>5, FirstFrame
  <2>7. f \in WireFrames /\ f.header \in Headers /\ f.body \in Bytes /\ decode(u) = f.header
    <3>1. f \in WireFrames /\ f.header \in Headers /\ f.body \in Bytes
      BY <2>6, FramesTyped DEF WireFrames
    <3> QED
      BY <3>1, <2>6, DecodeEncode
  <2>8. f.body = <<>>
    <3>1. IF f.header.tag = "Data" THEN f.header.length = Len(f.body) ELSE f.body = <<>>
      BY <2>6, TransportAssumption
    <3>2. Len(f.body) = 0 => f.body = <<>>
      BY <2>7, EmptySeq DEF Bytes
    <3> QED
      BY <2>2, <2>7, <3>1, <3>2
  <2>9. FrameOf(n) = f
    <3>1. FrameOf(n) = [header |-> f.header, body |-> f.body]
      BY <1>2, <1>7, <2>7, <2>8 DEF FrameOf
    <3> QED
      BY <3>1, <2>7 DEF WireFrames
  <2>10. pipe' \o r = Concat(Tail(w))
    <3>1. Concat(Tail(w)) \in Bytes
      BY <1>4, <2>6, BlocksTail
    <3>2. <<>> \o Concat(Tail(w)) = Concat(Tail(w))
      BY <3>1, ConcatEmptySeq DEF Bytes
    <3> QED
      BY <1>2, <2>6, <2>8, <3>2
  <2> QED
    BY <1>1, <1>3, <1>4, <1>5, <2>5, <2>6, <2>9, <2>10, TakeCourse
<1>8. CASE read_state.kind = "Body"
  <2>1. PICK h, x : h = read_state.header /\ x = encode(h)
    OBVIOUS
  <2>2. /\ h \in Headers /\ x \in Bytes /\ Len(x) = HEADER_SIZE
        /\ decode_error(x) = "None" /\ decode(x) = h
    BY <1>6, <2>1, EncodeBytes, DecodeEncode
  <2>3. h.tag = "Data" /\ h.length \in 1 .. MAX_FRAME_BODY_LEN
    BY <1>4, <1>8, <2>1 DEF Shape
  <2>4. ~ Refused(x)
    BY <2>2, <2>3, FrameIoAssumption DEF Refused
  <2>5. u \o v \in Bytes
    BY <1>5, <1>6, Join
  <2>6. Concat(w) = x \o (u \o v)
    <3>1. Concat(w) = (x \o u) \o v
      BY <1>2, <1>5, <1>8, <2>1 DEF InFull
    <3>2. (x \o u) \o v = x \o (u \o v)
      BY ONLY <1>5, <1>6, <2>2, Assoc
    <3> QED
      BY <3>1, <3>2
  <2>7. PICK f, y : f = Head(c) /\ y = Concat(Tail(w))
    OBVIOUS
  <2>8. w # <<>> /\ f \in Frames /\ x = encode(f.header) /\ u \o v = f.body \o y
    <3>1. PICK z : z = u \o v
      OBVIOUS
    <3>3. x \in Bytes /\ z \in Bytes /\ Blocks(c, w) /\ Concat(w) = x \o z
      BY <1>4, <2>2, <2>5, <2>6, <3>1
    <3>4. Len(x) = HEADER_SIZE /\ ~ Refused(x)
      BY <2>2, <2>4
    <3>5. /\ w # <<>> /\ Head(c) \in Frames /\ x = encode(Head(c).header)
          /\ z = Head(c).body \o Concat(Tail(w))
      BY ONLY <3>3, <3>4, FirstFrame
    <3>2. w # <<>> /\ f \in Frames /\ x = encode(f.header) /\ z = f.body \o y
      BY <2>7, <3>5
    <3> QED
      BY <3>1, <3>2
  <2>9. f \in WireFrames /\ f.header = h /\ f.body \in Bytes
    <3>1. f \in WireFrames /\ f.header \in Headers /\ f.body \in Bytes
      BY <2>8, FramesTyped DEF WireFrames
    <3> QED
      BY <3>1, <2>2, <2>8, DecodeEncode
  <2>10. Len(f.body) = h.length
    BY <2>3, <2>8, <2>9, TransportAssumption
  <2>11. Len(u) = h.length
    BY <1>3, <1>6, <1>8, <2>1 DEF Want
  <2>12. y \in Bytes
    BY <1>4, <2>7, <2>8, BlocksTail
  <2>13. u = f.body /\ v = y
    <3>1. PICK d : d = f.body
      OBVIOUS
    <3>2. d \in Bytes /\ u \o v = d \o y /\ Len(u) = Len(d)
      BY <2>8, <2>9, <2>10, <2>11, <3>1
    <3>3. u = d /\ v = y
      BY <1>5, <1>6, <2>12, <3>2, CutAlike
    <3> QED
      BY <3>1, <3>3
  <2>14. FrameOf(n) = f
    <3>1. FrameOf(n) = [header |-> f.header, body |-> f.body]
      BY <1>2, <1>8, <2>1, <2>9, <2>13 DEF FrameOf
    <3> QED
      BY <3>1, <2>9 DEF WireFrames
  <2>15. pipe' \o r = Concat(Tail(w))
    BY <1>2, <2>7, <2>13
  <2> QED
    BY <1>1, <1>3, <1>4, <1>5, <2>7, <2>8, <2>14, <2>15, TakeCourse
<1> QED
  BY <1>6, <1>7, <1>8

\* Steps that touch neither the frames nor the bytes between the two ends.
LEMMA StillCourse ==
  ASSUME Course, UNCHANGED <<write_state, read_state, pipe, sent, got>>,
         sock' # "failed" => sock # "failed"
  PROVE  Course'
<1>1. PICK c, w, r : OnTheWay(c, w, r)
  BY DEF Course
<1>2. Shape' /\ InRead' = InRead /\ InWrite' = InWrite
  BY DEF Course, Shape, InRead, InWrite, Writing
<1>3. r \in Bytes /\ (sock' # "failed" => r = InWrite')
  BY <1>1, <1>2 DEF OnTheWay
<1>4. (InRead' \o pipe') \o r = (InRead \o pipe) \o r
  BY <1>2
<1> QED
  BY <1>1, <1>2, <1>3, <1>4, MoveCourse

\* The frames between the two ends at Init.
LEMMA InitCourse == Init => Course
<1> SUFFICES ASSUME Init PROVE Course
  OBVIOUS
<1>1. <<>> \in Bytes /\ <<>> \o <<>> = <<>>
  BY EmptySeq, ConcatEmptySeq DEF Bytes
<1>2. Shape
  BY DEF Init, IoInit, WriteInit, ReadInit, Shape
<1>3. InRead = <<>> /\ InWrite = <<>> /\ pipe = <<>>
  BY DEF Init, IoInit, WriteInit, ReadInit, InRead, InWrite, Writing
<1>4. Blocks(<<>>, <<>>)
  BY EmptySeq DEF Blocks
<1>5. OnTheWay(<<>>, <<>>, <<>>)
  BY <1>1, <1>3, <1>4, ConcatNone DEF OnTheWay, Init
<1> QED
  BY <1>2, <1>5 DEF Course

\* Every step keeps the bytes between the two ends those of the frames sent and
\* not received.
LEMMA NextCourse ==
  ASSUME ~ Overcount, TransportTypes, Course, [Next]_vars PROVE Course'
<1> USE DEF vars, ioVars
<1>0. TransportTypes'
  BY NextTypes
<1>1. CASE Send
  <2>1. PICK f \in Frames : ActiveSend(f) \/ ClosingSend(f)
    BY <1>1 DEF Send
  <2>2. SendFrame(f) /\ UNCHANGED got /\ (ReadyOk \/ ReadyErr)
    BY <2>1 DEF ActiveSend, ClosingSend
  <2> QED
    BY <1>0, <2>2, SendCourse
<1>2. CASE Write
  <2>1. PICK n \in 1 .. Rest + 1 : PollReady(n)
    BY <1>2 DEF Write
  <2>2. Rest \in Nat
    BY WriteBytes
  <2>3. n \in Nat /\ UNCHANGED <<sent, got>>
    BY <1>2, <2>2 DEF Write
  <2> QED
    BY <2>1, <2>3, WriteCourse
<1>3. CASE \/ ActiveFails \/ CloseActive \/ ClosingFlushed \/ ClosingSocket \/ ClosingFails
           \/ ReceiveEnds \/ poll_next \/ \E n \in 1 .. MAX_FRAME_BODY_LEN + 1 : poll_read(n)
  <2>1. UNCHANGED <<write_state, read_state, pipe, sent, got>>
    BY <1>3 DEF ActiveFails, CloseActive, ClosingFlushed, ClosingSocket, poll_close, ClosingFails,
                ReceiveEnds, ReadEnds, poll_next, poll_read
  <2>2. sock' # "failed" => sock # "failed"
    BY <1>3 DEF ActiveFails, CloseActive, ClosingFlushed, ClosingSocket, poll_close, ClosingFails,
                ReceiveEnds, ReadEnds, poll_next, poll_read
  <2> QED
    BY <2>1, <2>2, StillCourse
<1>4. CASE Fault
  BY <1>4, FaultCourse DEF Fault
<1>5. CASE ForeignHeader
  BY <1>0, <1>5, ForeignCourse
<1>6. CASE Receive
  <2>1. PICK n \in 1 .. Want :
          \/ /\ ReadSome(n) \/ HeaderRefused(n) \/ BodyStarts(n)
             /\ UNCHANGED <<sender, buffer, sent, got, taken>>
          \/ /\ FrameRead(n)
             /\ got' = Append(got, FrameOf(n))
             /\ buffer' = push(buffer, FrameOf(n).body)
             /\ UNCHANGED <<sender, sent, taken>>
    BY <1>6 DEF Receive
  <2>2. CASE (ReadSome(n) \/ HeaderRefused(n)) /\ UNCHANGED <<sent, got>>
    BY <2>2, ReadCourse
  <2>3. CASE BodyStarts(n) /\ UNCHANGED <<sent, got>>
    BY <2>3, BodyCourse
  <2>4. CASE FrameRead(n) /\ got' = Append(got, FrameOf(n)) /\ UNCHANGED sent
    BY <2>4, FrameCourse
  <2> QED
    BY <2>1, <2>2, <2>3, <2>4
<1>7. CASE UNCHANGED vars
  BY <1>7, StillCourse
<1> QED
  BY <1>1, <1>2, <1>3, <1>4, <1>5, <1>6, <1>7 DEF Next

\* Course is the whole of it.
LEMMA CourseFrames == ASSUME TransportTypes, Course PROVE FramesIntact
<1>1. PICK c, w, r : OnTheWay(c, w, r)
  BY DEF Course
<1>2. sent = got \o c /\ got \in Seq(WireFrames) /\ c \in Seq(WireFrames)
  BY <1>1 DEF OnTheWay, Blocks, TransportTypes, FrameTypes
<1>3. PICK s : s = got \o c
  OBVIOUS
<1>4. /\ s \in Seq(WireFrames) /\ Len(s) = Len(got) + Len(c) /\ Len(got) \in Nat /\ Len(c) \in Nat
      /\ \A i \in 1 .. Len(got) : s[i] = got[i]
  BY <1>2, <1>3, ConcatProperties
<1>5. SubSeq(got, 1, Len(got)) = SubSeq(s, 1, Len(got))
  <2>1. /\ 1 \in Int /\ Len(got) \in Int
        /\ \A i \in 1 .. Len(got) : got[i] \in WireFrames /\ s[i] \in WireFrames
    BY <1>2, <1>4
  <2>2. /\ SubSeq(s, 1, Len(got)) \in Seq(WireFrames)
        /\ Len(SubSeq(s, 1, Len(got))) = IF 1 <= Len(got) THEN Len(got) - 1 + 1 ELSE 0
        /\ \A i \in 1 .. Len(got) - 1 + 1 : SubSeq(s, 1, Len(got))[i] = s[1 + i - 1]
    BY <2>1, SubSeqProperties
  <2>3. SubSeq(got, 1, Len(got)) = got
    BY <1>2, SubSeqFull
  <2>4. Len(SubSeq(s, 1, Len(got))) = Len(got)
    BY <1>4, <2>2
  <2>5. \A i \in 1 .. Len(got) : SubSeq(s, 1, Len(got))[i] = s[i]
    <3> TAKE i \in 1 .. Len(got)
    <3>1. i \in 1 .. Len(got) - 1 + 1 /\ 1 + i - 1 = i
      BY <1>4
    <3> QED
      BY <2>2, <3>1
  <2>6. got = SubSeq(s, 1, Len(got))
    BY <1>2, <1>4, <2>2, <2>4, <2>5, SeqEqual
  <2> QED
    BY <2>3, <2>6
<1> QED
  BY <1>2, <1>3, <1>4, <1>5 DEF FramesIntact, IsPrefix

\* The frames poll_next returns are the frames given to start_send, in order and
\* unchanged: for all frames, however long their bodies, however the socket cuts
\* the bytes up, wherever it breaks, and whatever malformed header a foreign
\* sender ends with.  The socket must not claim more than it was given
\* (poll_ready goes to Poisoned on that and Active::poll sends on).
THEOREM FramesKept == ASSUME ~ Overcount PROVE Spec => []FramesIntact
<1>1. Init => TransportTypes /\ Course
  BY InitBuffer, InitCourse
<1>2. (TransportTypes /\ Course) /\ [Next]_vars => (TransportTypes /\ Course)'
  BY NextTypes, NextCourse
<1>3. TransportTypes /\ Course => FramesIntact
  BY CourseFrames
<1> QED
  BY <1>1, <1>2, <1>3, PTL DEF Spec

----------------------------------------------------------------------------
(* The clean end                                                            *)

\* The socket is closed by a sender that is gone with nothing left to write,
\* and the reading ends cleanly only on a socket that is no longer open.
Ending ==
  /\ sock = "closed" => sender = "Gone" /\ write_state.kind = "Init"
  /\ result = "end" => sock # "open"
  /\ CleanEndIsComplete

\* A clean end on a closed socket finds no frame on its way.
LEMMA EndCourse ==
  ASSUME TransportTypes, Course, Ending, ReadEnds, result' = "end", sock = "closed"
  PROVE  got = sent
<1>1. PICK c, w, r : OnTheWay(c, w, r)
  BY DEF Course
<1>2. pipe = <<>> /\ read_state.kind = "Header" /\ read_state.buffer = <<>>
  BY DEF ReadEnds, EndOfPipe
<1>3. InRead = <<>> /\ InWrite = <<>>
  BY <1>2 DEF Ending, InRead, InWrite, Writing
<1>4. r = <<>> /\ sent = got \o c /\ Blocks(c, w) /\ (InRead \o pipe) \o r = Concat(w)
  BY <1>1, <1>3 DEF OnTheWay
<1>5. <<>> \o <<>> = <<>>
  BY EmptySeq, ConcatEmptySeq DEF Bytes
<1>6. Concat(w) = <<>>
  BY <1>2, <1>3, <1>4, <1>5
<1>7. c = <<>>
  BY <1>4, <1>6, NoBlocks
<1>8. got \o <<>> = got
  BY ConcatEmptySeq DEF TransportTypes, FrameTypes
<1> QED
  BY <1>4, <1>7, <1>8

\* No step after the end undoes it: a sender that closed sends nothing, and a
\* socket that broke is never closed.
LEMMA NextEnding ==
  ASSUME ~ Overcount, TransportTypes, Course, Ending, [Next]_vars PROVE Ending'
<1> USE DEF vars, ioVars, Ending, CleanEndIsComplete
<1>1. CASE Send
  BY <1>1 DEF Send, ActiveSend, ClosingSend, SendFrame, start_send
<1>2. CASE Write
  <2>1. PICK n \in 1 .. Rest + 1 : PollReady(n)
    BY <1>2 DEF Write
  <2>2. sock = "open" /\ UNCHANGED <<sock, result, sent, got, sender>>
    BY <1>2, <2>1 DEF Write, PollReady
  <2> QED
    BY <2>2
<1>3. CASE ActiveFails
  BY <1>3 DEF ActiveFails
<1>4. CASE CloseActive \/ ClosingFlushed \/ ClosingFails
  BY <1>4 DEF CloseActive, ClosingFlushed, ClosingFails
<1>5. CASE ClosingSocket
  BY <1>5 DEF ClosingSocket, poll_close, ReadyOk
<1>6. CASE poll_next \/ \E n \in 1 .. MAX_FRAME_BODY_LEN + 1 : poll_read(n)
  <2>1. UNCHANGED <<ioVars, sender, sent, got>>
    BY <1>6 DEF poll_next, poll_read
  <2> QED
    BY <2>1
<1>7. CASE ReceiveEnds
  <2>1. /\ ReadEnds /\ result = "none" /\ sock # "open"
        /\ UNCHANGED <<write_state, sock, sender, sent, got>>
    BY <1>7 DEF ReceiveEnds, ReadEnds
  <2>2. ASSUME result' = "end", sock = "closed" PROVE got = sent
    BY <2>1, <2>2, EndCourse
  <2> QED
    BY <2>1, <2>2
<1>8. CASE Fault
  BY <1>8 DEF Fault, SocketFails
<1>9. CASE ForeignHeader
  BY <1>9 DEF ForeignHeader, ReadyOk
<1>10. CASE Receive
  <2>1. PICK n \in 1 .. Want : /\ ReadSome(n) \/ HeaderRefused(n) \/ BodyStarts(n) \/ FrameRead(n)
                               /\ UNCHANGED <<sender, sent>>
    BY <1>10 DEF Receive
  <2>2. UNCHANGED <<write_state, sock>> /\ result = "none" /\ result' # "end"
    BY <2>1 DEF ReadSome, HeaderRefused, BodyStarts, FrameRead, TakesBytes
  <2> QED
    BY <2>1, <2>2
<1>11. CASE UNCHANGED vars
  BY <1>11
<1> QED
  BY <1>1, <1>2, <1>3, <1>4, <1>5, <1>6, <1>7, <1>8, <1>9, <1>10, <1>11 DEF Next

\* A remote that is told a clean end on a socket that was closed has all frames:
\* Closing leaves no frame half written before it closes the socket.
THEOREM CleanEndKept == ASSUME ~ Overcount PROVE Spec => []CleanEndIsComplete
<1>1. Init => TransportTypes /\ Course /\ Ending
  <2>1. Init => Ending
    BY DEF Init, IoInit, Ending, CleanEndIsComplete
  <2> QED
    BY <2>1, InitBuffer, InitCourse
<1>2. (TransportTypes /\ Course /\ Ending) /\ [Next]_vars => (TransportTypes /\ Course /\ Ending)'
  BY NextTypes, NextCourse, NextEnding
<1>3. Ending => CleanEndIsComplete
  BY DEF Ending
<1> QED
  BY <1>1, <1>2, <1>3, PTL DEF Spec

============================================================================
