----------------------------- MODULE Transport -----------------------------
(* One direction of a session down to its bytes: the sending half of a      *)
(* connection (Active::poll, Closing::poll) over frame::Io, the socket, and *)
(* at the other end frame::Io again, on_data and a stream's receive buffer  *)
(* from which the application reads.  What the frames are and when there is *)
(* one to send is left open; Session decides that.                          *)
EXTENDS FrameIo, Chunks

CONSTANTS
  Frames,       \* frames a connection may have to send
  MaxFrames,    \* bound: how many it sends
  SocketFaults  \* whether the socket may break

ASSUME TransportAssumption ==
  /\ MaxFrames \in Nat /\ SocketFaults \in BOOLEAN
  /\ Frames \subseteq [header : Headers, body : Seq(Byte)]
  /\ \A f \in Frames : IF f.header.tag = "Data" THEN f.header.length = Len(f.body)
                                               ELSE f.body = <<>>

VARIABLES
  sender,   \* "Active", "Flushing" and "ClosingSocket" of Closing, "Gone"
  buffer,   \* the Chunks of the stream the data frames are for
  sent,     \* history: frames given to start_send
  got,      \* history: frames poll_next returned
  taken     \* history: bytes the application has read

vars == <<ioVars, sender, buffer, sent, got, taken>>

Init ==
  /\ IoInit /\ sender = "Active" /\ buffer = NoChunks
  /\ sent = <<>> /\ got = <<>> /\ taken = <<>>

----------------------------------------------------------------------------
(* The sending connection                                                   *)

SendFrame(f) ==
  /\ start_send(f)
  /\ sent' = Append(sent, f)
  /\ UNCHANGED <<read_state, pipe, sock, result>>

HasFrame == Len(sent) < MaxFrames

\* Active::poll takes an error of poll_ready for readiness: the next frame
\* replaces one that could not be written.
ActiveSend(f) ==
  /\ sender = "Active" /\ HasFrame /\ (ReadyOk \/ ReadyErr)
  /\ SendFrame(f)
  /\ UNCHANGED <<sender, buffer, got, taken>>

\* With no frame to send, the error comes out of poll_flush and the socket is
\* dropped with the connection.
ActiveFails ==
  /\ sender = "Active" /\ ReadyErr
  /\ sender' = "Gone" /\ sock' = "failed"
  /\ UNCHANGED <<write_state, read_state, pipe, result, buffer, sent, got, taken>>

\* Active::close; what Closing has to flush is left open as well.
CloseActive ==
  /\ sender = "Active" /\ sender' = "Flushing"
  /\ UNCHANGED <<ioVars, buffer, sent, got, taken>>

ClosingSend(f) ==
  /\ sender = "Flushing" /\ HasFrame /\ ReadyOk
  /\ SendFrame(f)
  /\ UNCHANGED <<sender, buffer, got, taken>>

\* Mutant: the socket is closed without waiting for the last frame.
ClosingFlushed_early ==
  /\ sender = "Flushing" /\ sender' = "Gone" /\ sock = "open" /\ sock' = "closed"
  /\ UNCHANGED <<write_state, read_state, pipe, result, buffer, sent, got, taken>>

ClosingFlushed ==
  /\ sender = "Flushing" /\ ReadyOk
  /\ sender' = "ClosingSocket"
  /\ UNCHANGED <<ioVars, buffer, sent, got, taken>>

ClosingSocket ==
  /\ sender = "ClosingSocket" /\ poll_close
  /\ sender' = "Gone"
  /\ UNCHANGED <<buffer, sent, got, taken>>

ClosingFails ==
  /\ \/ sender = "Flushing" /\ ReadyErr
     \/ sender = "ClosingSocket" /\ sock = "failed"
  /\ sender' = "Gone"
  /\ UNCHANGED <<ioVars, buffer, sent, got, taken>>

\* poll_ready, called by either.
Write ==
  /\ sender # "Gone" /\ \E n \in 1 .. Rest + 1 : PollReady(n)
  /\ UNCHANGED <<sender, buffer, sent, got, taken>>

----------------------------------------------------------------------------
(* The receiving connection and its application                             *)

\* on_data: the body goes to the buffer.
Receive ==
  \E n \in 1 .. Want :
    \/ /\ ReadSome(n) \/ HeaderRefused(n) \/ BodyStarts(n)
       /\ UNCHANGED <<sender, buffer, sent, got, taken>>
    \/ /\ FrameRead(n)
       /\ got' = Append(got, FrameOf(n))
       /\ buffer' = push(buffer, FrameOf(n).body)
       /\ UNCHANGED <<sender, sent, taken>>

ReceiveEnds == ReadEnds /\ UNCHANGED <<sender, buffer, sent, got, taken>>

\* AsyncRead::poll_read with a slice of n bytes; a call that finds emptied
\* chunks only pops them and takes nothing.
poll_read(n) ==
  LET c == read_into(buffer, n)
  IN  /\ buffer.seq # <<>>
      /\ buffer' = c.chunks /\ taken' = taken \o c.out
      /\ UNCHANGED <<ioVars, sender, sent, got>>

\* The futures::Stream impl hands out a chunk at a time; after a poll_read
\* that stopped at the end of a chunk it is an empty one.
poll_next ==
  /\ buffer.seq # <<>>
  /\ taken' = taken \o next_packet(buffer)
  /\ buffer' = pop(buffer)
  /\ UNCHANGED <<ioVars, sender, sent, got>>

----------------------------------------------------------------------------
(* The environment                                                          *)

Fault ==
  /\ SocketFaults /\ SocketFails
  /\ UNCHANGED <<sender, buffer, sent, got, taken>>

\* A sender that is not this implementation puts a malformed header on the
\* socket; what follows it makes no difference.
Malformed == [header |-> HeaderOf("GoAway", 0, 0, 3), body |-> <<>>]

ForeignHeader ==
  /\ sender = "Active" /\ ReadyOk /\ sock = "open"
  /\ \E b \in ForeignHeaders : pipe' = pipe \o b
  /\ sent' = Append(sent, Malformed)
  /\ sender' = "Gone" /\ sock' = "closed"
  /\ UNCHANGED <<write_state, read_state, result, buffer, got, taken>>

Send == \E f \in Frames : ActiveSend(f) \/ ClosingSend(f)

Next ==
  \/ Send \/ Write \/ ActiveFails
  \/ CloseActive \/ ClosingFlushed \/ ClosingSocket \/ ClosingFails
  \/ Receive \/ ReceiveEnds
  \/ \E n \in 1 .. MAX_FRAME_BODY_LEN + 1 : poll_read(n)
  \/ poll_next
  \/ Fault \/ ForeignHeader

Spec == Init /\ [][Next]_vars

\* Both connections are polled whenever the socket lets them go on.
FairSpec == Spec /\ WF_vars(Write) /\ WF_vars(Receive)

----------------------------------------------------------------------------

Concat(ss) == FlattenSeq(ss)

Received == Concat([i \in DOMAIN got |-> got[i].body])
Buffered == Concat([i \in DOMAIN buffer.seq |-> as_ref(buffer.seq[i])])

\* The frames poll_next returns are the frames given to start_send, in order
\* and unchanged, however the socket cuts the bytes up and wherever it breaks,
\* and none comes out of a malformed header.  Active::poll goes on sending
\* after a failed write (connection.rs, poll): on a socket that stays broken
\* the torn frame is still the last thing the remote sees.
FramesIntact == IsPrefix(got, sent)

\* A remote told a clean end by a socket that was closed has all frames: Closing
\* and poll_close leave no frame half written (closing.rs, Io::poll_close).
CleanEndIsComplete == result = "end" /\ sock = "closed" => got = sent

\* The application gets the bytes of the bodies in order, each once, though it
\* mixes poll_read with slices of any size and poll_next.
BytesInOrder == taken \o Buffered = Received

\* Chunks::len, with which next_window_update reckons, is the number of bytes
\* that can still be read: chunks that are emptied and not yet popped, and a
\* first chunk read in part, do not disturb it, and it never underflows.
BufferLenExact == len(buffer) = Len(Buffered)

\* Every frame given to start_send arrives, frames without a body too, unless
\* the socket breaks (poll_ready, poll_next).
FramesArrive ==
  []<>(got = sent \/ sock = "failed" \/ Malformed \in ToSet(sent))
============================================================================
