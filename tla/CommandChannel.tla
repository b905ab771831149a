--------------------------- MODULE CommandChannel ---------------------------
(* The command channel of one stream whose reading and writing halves run   *)
(* in two tasks, against the connection's task that takes the commands and  *)
(* may close down at any moment.                                            *)
(*                                                                          *)
(* The channel is futures::channel::mpsc, modelled from how the code uses   *)
(* it.  A send is two steps that the receiving thread can come between: the *)
(* message is counted (and the sender parked if there are too many), then   *)
(* it is queued.  A parked sender has room for one waker.  A Stream owns    *)
(* two senders, `sender` for writing and closing and `window_update_sender` *)
(* for reading (connection/stream.rs).  The halves exclude each other while *)
(* one is being polled (&mut self).                                         *)
EXTENDS Integers, Sequences, SequencesExt

CONSTANTS
  Buffer,        \* mpsc::channel(10)
  MaxCommands    \* bound: commands each half sends

ASSUME ChannelAssumption ==
  Buffer \in Nat /\ MaxCommands \in Nat \ {0}

Halves  == {"read", "write"}
Senders == {"sender", "window_update_sender"}

VARIABLES
  open,      \* the receiver was not closed
  count,     \* messages counted and not taken
  queue,     \* messages queued and not taken, oldest first
  parked,    \* the parked senders, in the order they will be released
  waker,     \* the task each sender wakes when it is released
  task,      \* what each half is doing
  left,      \* commands each half has yet to send
  conn,      \* the connection: "Active", the steps of Closing and Cleanup, "Gone"
  pending,   \* pending_write_frame, 0 or 1 command
  taken,     \* history: commands the connection took to send, in order
  accepted,  \* history: commands whose start_send returned Ok, in order
  cut        \* history: how many were accepted before the connection closed

chanVars == <<open, count, queue, parked, waker>>
taskVars == <<task, left, accepted>>
connVars == <<conn, pending, taken, cut>>
vars == <<chanVars, taskVars, connVars>>

Init ==
  /\ open = TRUE /\ count = 0 /\ queue = <<>> /\ parked = <<>>
  /\ waker = [s \in Senders |-> "none"]
  /\ task = [h \in Halves |-> "idle"] /\ left = [h \in Halves |-> MaxCommands]
  /\ conn = "Active" /\ pending = <<>> /\ taken = <<>> /\ accepted = <<>>
  /\ cut = MaxCommands * 2

----------------------------------------------------------------------------
(* A half of the stream                                                     *)

\* Mutant: one sender for both halves.
SenderOf_shared(h) == "sender"

SenderOf(h) == IF h = "write" THEN "sender" ELSE "window_update_sender"

Parked(h) == SenderOf(h) \in ToSet(parked)

\* A half that is awake has the stream to itself when it is polled.
MayPoll(h) ==
  /\ task[h] = "idle" /\ left[h] > 0
  /\ \A g \in Halves : task[g] \notin {"count", "queue"}

\* poll_ready reports that the receiver was closed: the half gives up.
PollClosed(h) ==
  /\ MayPoll(h) /\ ~open
  /\ task' = [task EXCEPT ![h] = "done"]
  /\ UNCHANGED <<chanVars, left, accepted, connVars>>

\* Mutant: every poll sends on a fresh clone of the sender.
PollReady_on_clone(h) ==
  /\ MayPoll(h) /\ open
  /\ task' = [task EXCEPT ![h] = "count"]
  /\ UNCHANGED <<chanVars, left, accepted, connVars>>

PollReady(h) ==
  /\ MayPoll(h) /\ open /\ ~Parked(h)
  /\ task' = [task EXCEPT ![h] = "count"]
  /\ UNCHANGED <<chanVars, left, accepted, connVars>>

\* The sender is parked: the task's waker takes the only place there is.  A
\* writer goes to sleep.  A reader does too unless it has data to return; that
\* new data may wake it as well is left out.
PollPending(h) ==
  /\ MayPoll(h) /\ open /\ Parked(h)
  /\ waker' = [waker EXCEPT ![SenderOf(h)] = h]
  /\ \/ task' = [task EXCEPT ![h] = "asleep"]
     \/ h = "read" /\ waker[SenderOf(h)] # h /\ UNCHANGED task
  /\ UNCHANGED <<open, count, queue, parked, left, accepted, connVars>>

\* start_send, first step: the message is counted and, if it exceeds the
\* buffer, its sender parked.  It fails if the receiver was closed since.
SendCounts(h) ==
  /\ task[h] = "count"
  /\ IF open
     THEN /\ count' = count + 1
          /\ parked' = IF count + 1 > Buffer THEN Append(parked, SenderOf(h))
                                             ELSE parked
          /\ waker' = [waker EXCEPT ![SenderOf(h)] = IF count + 1 > Buffer
                                                     THEN "none" ELSE @]
          /\ task' = [task EXCEPT ![h] = "queue"]
     ELSE /\ task' = [task EXCEPT ![h] = "done"]
          /\ UNCHANGED <<count, parked, waker>>
  /\ UNCHANGED <<open, queue, left, accepted, connVars>>

\* start_send, second step: it is queued, and start_send returns Ok.
SendQueues(h) ==
  LET msg == <<h, left[h]>>
  IN  /\ task[h] = "queue"
      /\ queue' = Append(queue, msg)
      /\ accepted' = Append(accepted, msg)
      /\ left' = [left EXCEPT ![h] = @ - 1]
      /\ task' = [task EXCEPT ![h] = IF left[h] = 1 THEN "done" ELSE "idle"]
      /\ UNCHANGED <<open, count, parked, waker, connVars>>

----------------------------------------------------------------------------
(* The receiving end                                                        *)

\* The tasks that the release of senders S wakes.
Wakes(S) ==
  task' = [h \in Halves |->
             IF task[h] = "asleep" /\ \E s \in S : waker[s] = h
             THEN "idle" ELSE task[h]]

\* A message is taken and the sender that parked first is released.
Pop ==
  LET first == IF parked = <<>> THEN {} ELSE {Head(parked)}
  IN  /\ queue # <<>>
      /\ queue' = Tail(queue) /\ count' = count - 1
      /\ parked' = IF parked = <<>> THEN parked ELSE Tail(parked)
      /\ waker' = [s \in Senders |-> IF s \in first THEN "none" ELSE waker[s]]
      /\ Wakes(first)
      /\ UNCHANGED <<open, left, accepted>>

\* Receiver::close: no more messages are counted, all senders are released.
CloseReceiver ==
  /\ open' = FALSE /\ parked' = <<>>
  /\ waker' = [s \in Senders |-> IF s \in ToSet(parked) THEN "none" ELSE waker[s]]
  /\ Wakes(ToSet(parked))
  /\ UNCHANGED <<count, queue, left, accepted>>

\* Active::poll takes a command while its slot is free.
TakeCommand ==
  /\ conn = "Active" /\ pending = <<>>
  /\ Pop
  /\ pending' = <<Head(queue)>> /\ taken' = Append(taken, Head(queue))
  /\ UNCHANGED <<conn, cut>>

SendPending ==
  /\ conn = "Active" /\ pending # <<>>
  /\ pending' = <<>>
  /\ UNCHANGED <<chanVars, taskVars, conn, taken, cut>>

\* Connection::poll_close and ClosingStreamReceiver of Closing; a failure of
\* the connection and ClosingStreamReceiver of Cleanup.
StartClosing ==
  /\ conn = "Active" /\ conn' \in {"Draining", "CleanupDraining"}
  /\ CloseReceiver
  /\ pending' = <<>> /\ cut' = Len(accepted)
  /\ UNCHANGED taken

\* DrainingStreamReceiver of Closing: commands go behind the pending frames.
DrainCommand ==
  /\ conn = "Draining"
  /\ Pop
  /\ taken' = Append(taken, Head(queue))
  /\ UNCHANGED <<conn, pending, cut>>

\* Mutant: the go-away frame is sent at once.
DrainDone_at_once ==
  /\ conn = "Draining"
  /\ conn' = "Flushing"
  /\ UNCHANGED <<chanVars, taskVars, pending, taken, cut>>

\* The receiver has no message ready: Closing goes on to the go-away frame,
\* whether the channel has ended or a message is only counted so far.
DrainDone ==
  /\ conn = "Draining" /\ queue = <<>>
  /\ conn' = "Flushing"
  /\ UNCHANGED <<chanVars, taskVars, pending, taken, cut>>

\* DrainingStreamReceiver of Cleanup; and dropping the receiver, which waits
\* for counted messages and throws them away.
Discard ==
  /\ conn \in {"CleanupDraining", "Dropping"}
  /\ Pop
  /\ UNCHANGED connVars

\* Closing has flushed its frames, or Cleanup has nothing to discard.
StartDropping ==
  /\ conn = "Flushing" \/ (conn = "CleanupDraining" /\ queue = <<>>)
  /\ conn' = "Dropping"
  /\ UNCHANGED <<chanVars, taskVars, pending, taken, cut>>

Dropped ==
  /\ conn = "Dropping" /\ count = 0
  /\ conn' = "Gone"
  /\ UNCHANGED <<chanVars, taskVars, pending, taken, cut>>

----------------------------------------------------------------------------

HalfStep(h) ==
  PollClosed(h) \/ PollReady(h) \/ PollPending(h) \/ SendCounts(h) \/ SendQueues(h)

ConnectionStep ==
  \/ TakeCommand \/ SendPending
  \/ DrainCommand \/ DrainDone \/ Discard \/ StartDropping \/ Dropped

Next == (\E h \in Halves : HalfStep(h)) \/ ConnectionStep \/ StartClosing

Spec == Init /\ [][Next]_vars

\* Tasks that were woken are polled; the connection is polled and its remote
\* reads.  The connection need not close.
FairSpec ==
  Spec /\ WF_vars(ConnectionStep) /\ \A h \in Halves : WF_vars(HalfStep(h))

----------------------------------------------------------------------------

\* A half that sleeps on the channel will be woken: its sender is parked and
\* keeps its waker.  A stream has two senders so that no half takes the place
\* of the other's waker (Stream::window_update_sender).
SleeperHasWaker ==
  \A h \in Halves : task[h] = "asleep" =>
    Parked(h) /\ waker[SenderOf(h)] = h /\ open

\* Every command is sent or refused at last: a full channel, and a connection
\* that closes while it is full, hold up neither half for ever.
HalvesFinish == <>(\A h \in Halves : task[h] = "done")

\* The channel never holds more than its buffer and one message for each of
\* the two senders, however often the halves are polled.
QueueBounded == count <= Buffer + 2

\* What was accepted before a graceful close goes out before the go-away
\* frame, in order (Closing::poll, DrainingStreamReceiver).
ClosingTakesAccepted ==
  conn = "Flushing" => IsPrefix(SubSeq(accepted, 1, cut), taken)

\* The comment in Closing::poll: once the receivers have nothing ready there
\* are no more frames from streams, and the go-away frame is the last.
NoMoreFrames == conn = "Flushing" => accepted = taken
============================================================================
