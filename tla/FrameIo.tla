------------------------------ MODULE FrameIo ------------------------------
(* frame::Io (frame/io.rs) byte by byte, for one direction of a session:    *)
(* the Sink half of the sender, the Stream half of the receiver, and the    *)
(* socket between them.                                                     *)
(*                                                                          *)
(* A frame is [header, body].  A write state keeps the part being written   *)
(* (`part`: the encoded header or the body), a read state the bytes of the  *)
(* part read so far (`buffer`, whose length is the code's offset).          *)
(* ReadState::Init becomes Header with offset 0 before anything is read, so *)
(* it is not told apart from it.                                            *)
EXTENDS HeaderCodec, SequencesExt

CONSTANTS
  MAX_FRAME_BODY_LEN,   \* longest body the receiver allocates
  PipeCap,              \* bytes the socket holds
  ForeignHeaders,       \* malformed headers a foreign sender may put on it
  Overcount             \* whether poll_write may claim more than it was given

\* A header that does not decode, or announces too much.
Refused(buf) ==
  \/ decode_error(buf) # "None"
  \/ /\ decode_error(buf) = "None" /\ decode(buf).tag = "Data"
     /\ decode(buf).length > MAX_FRAME_BODY_LEN

ASSUME FrameIoAssumption ==
  /\ MAX_FRAME_BODY_LEN \in Nat /\ PipeCap \in Nat \ {0}
  /\ Overcount \in BOOLEAN
  /\ \A b \in ForeignHeaders : b \in Buffers /\ Refused(b)

VARIABLES
  write_state,   \* WriteState: kind, part, offset, and the body that follows
  read_state,    \* ReadState: kind, buffer, and the decoded header
  pipe,          \* bytes accepted by the socket and not read
  sock,          \* "open"; "closed" by poll_close; "failed"
  result         \* what ended the reading: "none" yet, "end", "error"

ioVars == <<write_state, read_state, pipe, sock, result>>

WriteInit == [kind |-> "Init", part |-> <<>>, offset |-> 0, body |-> <<>>]
Poisoned  == [WriteInit EXCEPT !.kind = "Poisoned"]
ReadInit  == [kind |-> "Header", buffer |-> <<>>, header |-> HeaderOf("Data", 0, 0, 0)]

IoInit ==
  /\ write_state = WriteInit /\ read_state = ReadInit
  /\ pipe = <<>> /\ sock = "open" /\ result = "none"

----------------------------------------------------------------------------
(* Sink                                                                     *)

Writing == write_state.kind \in {"Header", "Body"}

\* What poll_ready returns once the socket takes no more bytes from it.
ReadyOk  == write_state.kind = "Init"
ReadyErr == write_state.kind = "Poisoned" \/ (Writing /\ sock = "failed")

start_send(f) ==
  write_state' = [kind |-> "Header", part |-> encode(f.header), offset |-> 0,
                  body |-> f.body]

Rest == Len(write_state.part) - write_state.offset

\* Mutant: the frame is done with its header.
AfterWrite_skips_body(w, n) ==
  CASE w.offset + n > Len(w.part) -> Poisoned
    [] w.offset + n = Len(w.part) -> WriteInit
    [] OTHER                      -> [w EXCEPT !.offset = @ + n]

\* The write state after the socket took n bytes.
AfterWrite(w, n) ==
  CASE w.offset + n > Len(w.part) -> Poisoned
    [] w.offset + n = Len(w.part) ->
         IF w.kind = "Header" /\ w.body # <<>>
         THEN [kind |-> "Body", part |-> w.body, offset |-> 0, body |-> <<>>]
         ELSE WriteInit
    [] OTHER -> [w EXCEPT !.offset = @ + n]

\* One round of poll_ready's loop in which the socket takes bytes: some of
\* them, all, or, if it is wrong about what it took, more than there are.
PollReady(n) ==
  LET k == IF n > Rest THEN Rest ELSE n
  IN  /\ Writing /\ sock = "open"
      /\ n \in 1 .. Rest + (IF Overcount THEN 1 ELSE 0)
      /\ Len(pipe) + k <= PipeCap
      /\ pipe' = pipe \o SubSeq(write_state.part, write_state.offset + 1,
                                write_state.offset + k)
      /\ write_state' = AfterWrite(write_state, n)
      /\ UNCHANGED <<read_state, sock, result>>

\* poll_close: only once nothing is left to write.
poll_close ==
  /\ ReadyOk /\ sock = "open"
  /\ sock' = "closed"
  /\ UNCHANGED <<write_state, read_state, pipe, result>>

\* The socket breaks: from now on writes fail or write nothing, and a suffix
\* of what it accepted may never arrive.
SocketFails ==
  /\ sock = "open" /\ sock' = "failed"
  /\ \E n \in 0 .. Len(pipe) : pipe' = SubSeq(pipe, 1, n)
  /\ UNCHANGED <<write_state, read_state, result>>

----------------------------------------------------------------------------
(* Stream: rounds of poll_next's loop                                       *)

Want ==
  (IF read_state.kind = "Header" THEN HEADER_SIZE ELSE read_state.header.length)
    - Len(read_state.buffer)

Filled(n) == read_state.buffer \o SubSeq(pipe, 1, n)

TakesBytes(n) ==
  /\ result = "none" /\ n \in 1 .. Want /\ n <= Len(pipe)
  /\ pipe' = SubSeq(pipe, n + 1, Len(pipe))
  /\ UNCHANGED <<write_state, sock>>

\* poll_read fills a part of the buffer.
ReadSome(n) ==
  /\ TakesBytes(n) /\ n < Want
  /\ read_state' = [read_state EXCEPT !.buffer = Filled(n)]
  /\ UNCHANGED result

\* The last bytes of a header with which the reading ends.
HeaderRefused(n) ==
  /\ TakesBytes(n) /\ n = Want /\ read_state.kind = "Header"
  /\ Refused(Filled(n))
  /\ read_state' = [read_state EXCEPT !.buffer = Filled(n)]
  /\ result' = "error"

\* The last bytes of the header of a data frame that has a body.
BodyStarts(n) ==
  LET buf == Filled(n)
  IN  /\ TakesBytes(n) /\ n = Want /\ read_state.kind = "Header"
      /\ decode_error(buf) = "None" /\ decode(buf).tag = "Data"
      /\ decode(buf).length \in 1 .. MAX_FRAME_BODY_LEN
      /\ read_state' = [kind |-> "Body", buffer |-> <<>>, header |-> decode(buf)]
      /\ UNCHANGED result

\* Mutant: a data frame without a body waits for the first byte of it.
HasNoBody_unless_tagged(buf) == decode_error(buf) = "None" /\ decode(buf).tag # "Data"

\* The header in buf is a whole frame.
HasNoBody(buf) ==
  /\ decode_error(buf) = "None"
  /\ decode(buf).tag # "Data" \/ decode(buf).length = 0

\* The frame whose last n bytes come in.
FrameOf(n) ==
  IF read_state.kind = "Body"
  THEN [header |-> read_state.header, body |-> Filled(n)]
  ELSE [header |-> decode(Filled(n)), body |-> <<>>]

\* The last bytes of a frame, which poll_next returns.
FrameRead(n) ==
  /\ TakesBytes(n) /\ n = Want
  /\ read_state.kind = "Body" \/ HasNoBody(Filled(n))
  /\ read_state' = ReadInit
  /\ UNCHANGED result

\* The end of the socket is an end only between two frames.
EndOfPipe ==
  IF read_state.kind = "Header" /\ read_state.buffer = <<>> THEN "end" ELSE "error"

\* poll_read returns 0 at the end of the socket, or fails with it.
ReadEnds ==
  /\ result = "none" /\ pipe = <<>> /\ sock # "open"
  /\ \/ result' = EndOfPipe
     \/ sock = "failed" /\ result' = "error"
  /\ UNCHANGED <<write_state, read_state, pipe, sock>>
============================================================================
