---------------------------- MODULE HeaderCodec ----------------------------
(* The wire form of a frame header (frame/header.rs): 12 bytes, version,    *)
(* tag, flags (u16), stream id (u32) and length (u32), the numbers in big   *)
(* endian.  A header here is what header::Header holds: its flags are the   *)
(* u16 itself, and `bits` gives the u16 of a set of flag names.             *)
EXTENDS Frame, Sequences

HEADER_SIZE == 12

Byte == 0 .. 255

\* Below 2^16 and below 2^32, a number TLC does not have.
U16 == {n \in Nat : n < 65536}
U32 == {n \in Nat : n \div 65536 < 65536}

\* What header::Header can hold, and the buffers a header is read into.
Headers ==
  [version : {0}, tag : Tags, flags : U16, stream_id : U32, length : U32]
Buffers == [1 .. HEADER_SIZE -> Byte]

\* Tag as u8.
TagByte == [Data |-> 0, WindowUpdate |-> 1, Ping |-> 2, GoAway |-> 3]

FlagBit == [SYN |-> 1, ACK |-> 2, FIN |-> 4, RST |-> 8]

bits(flags) ==
  LET bit(f) == IF f \in flags THEN FlagBit[f] ELSE 0
  IN  bit("SYN") + bit("ACK") + bit("FIN") + bit("RST")

\* Flags::contains for one flag.
contains(u16, flag) == (u16 \div FlagBit[flag]) % 2 = 1

HeaderOf(tag, flags, stream_id, length) ==
  [version |-> 0, tag |-> tag, flags |-> flags, stream_id |-> stream_id,
   length |-> length]

\* to_be_bytes and from_be_bytes, a byte at a time.
High(n) == n \div 256
Low(n)  == n % 256

be_u16(n) == <<High(n), Low(n)>>
be_u32(n) ==
  <<High(High(High(n))), Low(High(High(n))), Low(High(n)), Low(n)>>

from_be_u16(a, b)       == 256 * a + b
from_be_u32(a, b, c, d) == 256 * (256 * (256 * a + b) + c) + d

encode(h) ==
  LET f == be_u16(h.flags)
      s == be_u32(h.stream_id)
      l == be_u32(h.length)
  IN  <<h.version, TagByte[h.tag], f[1], f[2],
        s[1], s[2], s[3], s[4], l[1], l[2], l[3], l[4]>>

TagOf(b) ==
  CASE b = 0 -> "Data" [] b = 1 -> "WindowUpdate" [] b = 2 -> "Ping" [] b = 3 -> "GoAway"

\* HeaderDecodeError, or "None" for a header that decodes.
decode_error(buf) ==
  CASE buf[1] # 0 -> "Version"
    [] buf[1] = 0 /\ buf[2] > 3 -> "Type"
    [] OTHER -> "None"

\* The header of a buffer without decode_error.
decode(buf) ==
  HeaderOf(TagOf(buf[2]), from_be_u16(buf[3], buf[4]),
           from_be_u32(buf[5], buf[6], buf[7], buf[8]),
           from_be_u32(buf[9], buf[10], buf[11], buf[12]))
============================================================================
