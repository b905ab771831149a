------------------------------- MODULE Chunks -------------------------------
(* The receive buffer of a stream (chunks.rs): a queue of chunks, each a    *)
(* byte vector with a cursor, and the number of bytes of all vectors; and   *)
(* the two ways stream.rs takes bytes out of it.                            *)
EXTENDS Integers, Sequences, SequencesExt

NoChunks == [seq |-> <<>>, len |-> 0]

\* Chunk::len and Chunk::as_ref: what is past the cursor.
remaining(c) == Len(c.vec) - c.offset
as_ref(c)    == SubSeq(c.vec, c.offset + 1, Len(c.vec))

\* Chunks::len.
len(ch) == ch.len - (IF ch.seq = <<>> THEN 0 ELSE Head(ch.seq).offset)

\* Empty vectors are not queued.
push(ch, x) ==
  [seq |-> IF x = <<>> THEN ch.seq ELSE Append(ch.seq, [vec |-> x, offset |-> 0]),
   len |-> ch.len + Len(x)]

\* Mutant: only the bytes past the cursor are taken off the length.
pop_remaining(ch) ==
  IF ch.seq = <<>> THEN ch
  ELSE [seq |-> Tail(ch.seq), len |-> ch.len - remaining(Head(ch.seq))]

pop(ch) ==
  IF ch.seq = <<>> THEN ch
  ELSE [seq |-> Tail(ch.seq),
        len |-> ch.len - (remaining(Head(ch.seq)) + Head(ch.seq).offset)]

\* Chunk::advance on the first chunk.
advance(ch, k) == [ch EXCEPT !.seq[1].offset = @ + k]

----------------------------------------------------------------------------
(* Stream::poll_read: one round of its loop, and the loop                   *)

\* c.out is what was copied so far into a slice of n bytes.
CopyRound(c, n) ==
  LET first == Head(c.chunks.seq)
      k     == IF remaining(first) <= n - Len(c.out) THEN remaining(first)
                                                     ELSE n - Len(c.out)
  IN  CASE c.done -> c
        [] ~c.done /\ c.chunks.seq = <<>> -> [c EXCEPT !.done = TRUE]
        [] ~c.done /\ c.chunks.seq # <<>> ->
             IF remaining(first) = 0 THEN [c EXCEPT !.chunks = pop(@)]
             ELSE [chunks |-> advance(c.chunks, k),
                   out |-> c.out \o SubSeq(as_ref(first), 1, k),
                   done |-> Len(c.out) + k = n]

\* A chunk costs at most two rounds, one to empty it and one to pop it.
read_into(ch, n) ==
  FoldLeft(LAMBDA c, i : CopyRound(c, n),
           [chunks |-> ch, out |-> <<>>, done |-> FALSE],
           [i \in 1 .. 2 * Len(ch.seq) + 1 |-> i])

\* Mutant: the whole vector is handed out, its consumed part too.
next_packet_whole(ch) == Head(ch.seq).vec

\* Stream::poll_next: what is left of the first chunk.
next_packet(ch) ==
  SubSeq(Head(ch.seq).vec, Head(ch.seq).offset + 1, Len(Head(ch.seq).vec))
============================================================================
