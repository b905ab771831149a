------------------------------- MODULE Stream -------------------------------
(* The operations of a Stream handle (connection/stream.rs), run by         *)
(* application tasks concurrently with the connection's own task.           *)
(*                                                                          *)
(* A handle is used by one operation at a time (&mut self), but the         *)
(* connection can step in wherever an operation does not hold the stream's  *)
(* mutex.  Each operation is therefore cut where that can be observed:      *)
(*                                                                          *)
(*   write   take credit and build the frame | start_send on the channel    *)
(*   read    check state and channel | take the window update |             *)
(*           start_send it, then copy                                       *)
(*   close   start_send the close command    | update_state(SendClosed)     *)
(*                                                                          *)
(* handle.op holds the frame of an operation that is between its parts.     *)
(* A poll that returns Pending leaves its waker (reader, writer), and its   *)
(* task does not poll again before it is woken.  A full channel makes the   *)
(* senders wait; the channel wakes them itself.                             *)
EXTENDS Endpoint

CONSTANTS
  MaxBytes,   \* bound: bytes each peer writes to a stream
  MaxCloses   \* bound: poll_close calls on one handle

ASSUME StreamAssumption == MaxBytes \in [Peers -> Nat] /\ MaxCloses \in Nat

Free(p, id) == live(p, id) /\ handle[p][id].op = Idle

\* Stream::add_flag: the flag the first outgoing frame of a handle carries.
add_flag(p, id) ==
  CASE handle[p][id].flag = "Syn"  -> {"SYN"}
    [] handle[p][id].flag = "Ack"  -> {"ACK"}
    [] handle[p][id].flag = "None" -> {}

BeginOp(p, id, kind, f) ==
  handle' = [handle EXCEPT ![p][id].flag = "None",
                           ![p][id].op = [kind |-> kind, frame |-> f]]

EndOp(p, id) == handle' = [handle EXCEPT ![p][id].op = Idle]

----------------------------------------------------------------------------
(* AsyncWrite::poll_write                                                   *)

WriteReady(p, id) ==
  /\ Free(p, id) /\ ~shared[p][id].writer
  /\ ~ChanClosed(p, id) /\ ~ChanFull(p, id)
  /\ can_write(shared[p][id].state)

\* Mutant: a write is cut to the frame size only, not to the credit left.
Accepted_without_credit(p, id, n) == Min2(n, SplitSendSize)

\* How much of a buffer of n bytes one call takes.
Accepted(p, id, n) ==
  Min2(Min2(shared[p][id].fc.send_window, n), SplitSendSize)

\* Credit is consumed under the lock; the first frame of an inbound stream
\* carries the ACK and marks the stream acknowledged.
poll_write(p, id, n) ==
  LET k == Accepted(p, id, n)
      s == [shared[p][id] EXCEPT !.fc = consume_send_window(@, k)]
      f == with_flags(data(id, written[p][id], k), add_flag(p, id))
  IN  /\ WriteReady(p, id)
      /\ shared[p][id].fc.send_window > 0
      /\ shared' = [shared EXCEPT ![p][id] =
                      IF "ACK" \in f.flags THEN To(s, "OpenAcked") ELSE s]
      /\ BeginOp(p, id, "write", f)
      /\ UNCHANGED <<connVars, pendVars, sockVars, entry, acc, chan, ghostVars>>

\* No credit left: the writer parks until a window update wakes it.
WritePark(p, id) ==
  /\ WriteReady(p, id)
  /\ shared[p][id].fc.send_window = 0
  /\ shared' = [shared EXCEPT ![p][id].writer = TRUE]
  /\ UNCHANGED <<connVars, pendVars, sockVars, entry, acc, handleVars, ghostVars>>

\* start_send.  It counts the message, unless the receiver is closed, and then
\* queues it: a receiver closed in between still gets it while Closing drains
\* the channels.  Otherwise the frame is gone, refused with an error or
\* accepted too late (CommandChannel); the credit stays consumed.
WriteSend(p, id) ==
  LET f == handle[p][id].op.frame
  IN  /\ handle[p][id].op.kind = "write"
      /\ EndOp(p, id)
      /\ \/ ChanClosed(p, id) /\ UNCHANGED <<chan, written>>
         \/ /\ ChanClosed(p, id) => conn[p] = "Draining"
            /\ chan' = [chan EXCEPT ![p][id] = Append(@, f)]
            /\ written' = [written EXCEPT ![p][id] = @ + f.len]
      /\ UNCHANGED <<connVars, pendVars, sockVars, tableVars, rcvd>>

----------------------------------------------------------------------------
(* AsyncRead::poll_read, and poll_next of the Stream impl: how many of the  *)
(* buffered bytes a call takes is the caller's choice                       *)

\* What poll_read does before it looks at the buffer: give up, or send a
\* window update, or go on without one.
ReadStep(p, id) ==
  LET s == shared[p][id]
  IN  CASE ~ReadAfterClose /\ ChanClosed(p, id)     -> "eof"
        [] ~can_read(s.state)                       -> "copy"
        [] OTHER ->
             CASE ChanClosed(p, id)                 -> "error"
               [] ChanFull(p, id)                   -> "copy"
               [] OTHER -> IF UpdateDue(s.fc, s.buf) THEN "update" ELSE "copy"

ReadReady(p, id) == Free(p, id) /\ ~shared[p][id].reader

\* Stream::send_window_update up to poll_ready.  Whether an update is due is
\* settled here: arriving data fills the buffer as it shrinks the window.
ReadCheck(p, id) ==
  /\ ReadReady(p, id) /\ ReadStep(p, id) = "update"
  /\ handle' = [handle EXCEPT ![p][id].op = [kind |-> "check", frame |-> term]]
  /\ UNCHANGED <<connVars, pendVars, sockVars, tableVars, chan, ghostVars>>

\* Stream::send_window_update up to start_send.  The lock was released since
\* ReadCheck: the remote's FIN or reset may have come.
send_window_update(p, id, fast) ==
  LET s == shared[p][id]
      f == window_update(id, NextCredit(s.fc, acc[p], fast, s.buf))
  IN  /\ handle[p][id].op.kind = "check"
      /\ fast => rtt[p].known
      /\ shared' = [shared EXCEPT ![p][id].fc =
                      AfterUpdate(@, acc[p], fast, s.buf)]
      /\ acc' = [acc EXCEPT ![p] = AccAfterUpdate(s.fc, @, fast)]
      /\ BeginOp(p, id, "read", with_flags(f, add_flag(p, id)))
      /\ UNCHANGED <<connVars, pendVars, sockVars, entry, chan, ghostVars>>

\* Take k bytes out of the buffer, or park if there is nothing to take and
\* more may come.  A read with a full channel and an empty buffer waits for
\* both the channel and the connection, and is simply polled again.
CopyOrPark(p, id, k) ==
  LET s == shared[p][id]
  IN  shared' = [shared EXCEPT ![p][id] =
        IF s.buf > 0 THEN [s EXCEPT !.buf = @ - k]
        ELSE [s EXCEPT !.reader = can_read(s.state)]]

ReadSizes(p, id) ==
  IF shared[p][id].buf > 0 THEN 1 .. shared[p][id].buf ELSE {0}

ReadCopy(p, id, k) ==
  /\ ReadReady(p, id)
  /\ ReadStep(p, id) = "copy"
  /\ k \in ReadSizes(p, id)
  /\ k = 0 => can_read(shared[p][id].state) /\ ~ChanFull(p, id)
  /\ CopyOrPark(p, id, k)
  /\ UNCHANGED <<connVars, pendVars, sockVars, entry, acc, handleVars, ghostVars>>

\* start_send the window update; if the receiver was closed in between the
\* read fails before it looks at the buffer.
ReadUpdateSend(p, id, k) ==
  /\ handle[p][id].op.kind = "read"
  /\ EndOp(p, id)
  /\ k \in ReadSizes(p, id)
  /\ IF ChanClosed(p, id)
     THEN UNCHANGED <<chan, shared>>
     ELSE /\ chan' = [chan EXCEPT ![p][id] = Append(@, handle[p][id].op.frame)]
          /\ CopyOrPark(p, id, k)
  /\ UNCHANGED <<connVars, pendVars, sockVars, entry, acc, ghostVars>>

----------------------------------------------------------------------------
(* AsyncWrite::poll_close and dropping the handle                           *)

\* The command is sent first, the state changes after: the connection may
\* send the FIN, and even receive the remote's, in between.
poll_close(p, id) ==
  LET ack == handle[p][id].flag = "Ack"
      f   == close_stream(id, ack)
      h   == handle[p][id]
  IN  /\ Free(p, id)
      /\ shared[p][id].state # "Closed"
      /\ ~ChanClosed(p, id) /\ ~ChanFull(p, id)
      /\ h.closes < MaxCloses
      /\ handle' = [handle EXCEPT ![p][id] =
           [h EXCEPT !.flag = IF ack THEN "None" ELSE @,
                     !.op = [kind |-> "close", frame |-> f],
                     !.closes = @ + 1]]
      /\ chan' = [chan EXCEPT ![p][id] = Append(@, f)]
      /\ UNCHANGED <<connVars, pendVars, sockVars, tableVars, ghostVars>>

\* Mutant: poll_close sends the FIN and leaves the stream writable.
CloseDone_stays_open(p, id) ==
  /\ handle[p][id].op.kind = "close"
  /\ EndOp(p, id)
  /\ UNCHANGED <<connVars, pendVars, sockVars, tableVars, chan, ghostVars>>

CloseDone(p, id) ==
  /\ handle[p][id].op.kind = "close"
  /\ EndOp(p, id)
  /\ shared' = [shared EXCEPT ![p][id] = To(@, "SendClosed")]
  /\ UNCHANGED <<connVars, pendVars, sockVars, entry, acc, chan, ghostVars>>

\* Both senders go; the connection learns of it from the channel's end.
DropHandle(p, id) ==
  LET H == [handle[p] EXCEPT ![id] = [NoHandle EXCEPT !.life = "dropped"]]
  IN  /\ Free(p, id)
      /\ handle' = [handle EXCEPT ![p] = H]
      /\ SetStreams(p, entry[p], shared[p], H)
      /\ UNCHANGED <<connVars, pendVars, sockVars, chan, ghostVars>>
============================================================================
