------------------------- MODULE SessionProperties -------------------------
(* What makes a session correct.                                            *)
EXTENDS Session

----------------------------------------------------------------------------
(* Frames under way                                                         *)

FrameSet == [tag : Tags, flags : SUBSET Flags, id : 0 .. MAX_ID,
             len : 0 .. U32_MAX, pos : Nat]

StreamFrames(id) == {f \in FrameSet : IsStreamFrame(f) /\ f.id = id}
BodyFrames       == {f \in FrameSet : f.tag = "Data" /\ f.len > 0}
CreditFrames     == {f \in FrameSet : f.tag = "WindowUpdate"}

\* The elements of s that are in S, in their order.  (SelectSeq would do, but
\* the proof system knows nothing about it.)
Only(s, S) ==
  LET F[i \in 0 .. Len(s)] ==
        IF i = 0 THEN <<>>
        ELSE IF s[i] \in S THEN Append(F[i-1], s[i]) ELSE F[i-1]
  IN  F[Len(s)]

Total(s) == SumFunctionOnSet([i \in DOMAIN s |-> s[i].len], DOMAIN s)

\* Frames of p that its connection has taken charge of, oldest first.
Outgoing(p) == wire[p] \o pendR[p] \o pendW[p] \o pendQ[p]

\* The commands the connection of p will take: one that failed takes none.
Queued(p, id) ==
  IF conn[p] \in {"Active"} \cup ClosingStates THEN chan[p][id] ELSE <<>>

\* All frames of stream id on their way from p, oldest first.
Path(p, id) == Only(Outgoing(p), StreamFrames(id)) \o Queued(p, id)

\* The frame of an operation that has not reached the channel yet.
Unsent(p, id) ==
  IF handle[p][id].op.kind \in {"write", "read"}
  THEN <<handle[p][id].op.frame>> ELSE <<>>

Bodies(p, id) == Only(Path(p, id), BodyFrames)

\* Bytes and credit that p has taken from its windows and the remote has not
\* got yet.
InFlight(p, id) == Total(Only(Path(p, id) \o Unsent(p, id), BodyFrames))
Granted(p, id)  == Total(Only(Path(p, id) \o Unsent(p, id), CreditFrames))

GoingAway(p) == \E i \in DOMAIN Outgoing(p) : Outgoing(p)[i].tag = "GoAway"

\* The receiver q takes the frames of id: it has the entry, or the SYN is yet
\* to come and nothing made q refuse it.
Listening(q, id) ==
  /\ conn[q] = "Active" /\ ~GoingAway(q)
  /\ \/ id \in entry[q]
     \/ handle[q][id].life = "none" /\ ~is_outbound(q, id)

----------------------------------------------------------------------------
(* Invariants                                                               *)

SharedSet ==
  [state : StreamStates \cup {"None"},
   fc : [receive_window : 0 .. U32_MAX, max_receive_window : DEFAULT_CREDIT .. U32_MAX,
         send_window : 0 .. U32_MAX],
   buf : 0 .. U32_MAX, reader : BOOLEAN, writer : BOOLEAN]

\* Type correctness of the whole session, the windows' u32 range included: no
\* checked or unchecked arithmetic of flow_control.rs leaves it.
TypeOK ==
  /\ conn \in [Peers -> ConnStates] /\ sock \in [Peers -> {"open", "closed"}]
  /\ nextId \in [Peers -> 1 .. MAX_ID + 1] /\ newOut \in [Peers -> BOOLEAN]
  /\ entry \in [Peers -> SUBSET Ids]
  /\ acc \in [Peers -> 0 .. GrowthBudget]
  /\ \A p \in Peers :
       /\ (wire[p] # <<>> => SizeOf(Front(wire[p])) <= SockCap)
       /\ Len(pendR[p]) <= 1 /\ Len(pendW[p]) <= 1
       /\ \A i \in DOMAIN Outgoing(p) : Outgoing(p)[i] \in FrameSet
       /\ rtt[p].st \in {"due", "idle", "await"} /\ rtt[p].id \in 0 .. MaxPings[p]
       /\ \A id \in Ids :
            /\ shared[p][id] \in SharedSet
            /\ rx[p][id] \in {"none", "open", "closed", "done"}
            /\ handle[p][id].life \in {"none", "live", "dropped"}
            /\ Len(chan[p][id]) <= ChanCap
            /\ handle[p][id].op.frame \in FrameSet
            /\ written[p][id] \in 0 .. MaxBytes[p] /\ rcvd[p][id] \in Nat

\* No credit is lost or invented: what a sender may still send, what it has
\* under way and the credit under way to it add up to the receiver's window
\* (consume/increase_send_window, consume_receive_window, next_window_update).
CreditConserved ==
  \A p \in Peers, id \in Ids :
    LET q == Other(p)
    IN  conn[p] = "Active" /\ id \in entry[p] /\ Listening(q, id) =>
          shared[p][id].fc.send_window + InFlight(p, id) + Granted(q, id)
            = IF id \in entry[q] THEN shared[q][id].fc.receive_window
                                 ELSE DEFAULT_CREDIT

\* Two peers that run this code never accuse each other of a protocol error
\* (on_data, on_window_update, handle_pong), however their streams' ends,
\* resets and late frames cross.
NoProtocolError ==
  \A p \in Peers : protocol_error \notin ToSet(Outgoing(p))

Contiguous(s, from) ==
  \A i \in DOMAIN s : s[i].pos = IF i = 1 THEN from ELSE s[i-1].pos + s[i-1].len

\* The bytes under way continue exactly where the receive buffer ends, in
\* order, without gap or repetition, and up to the last byte poll_write queued
\* while the connection took commands: a graceful close leaves none of these
\* behind.  (What the channel accepts after closing.rs has drained it is lost,
\* drain_race in CommandChannel, and no part of `written`.)
BytesIntact ==
  \A p \in Peers, id \in Ids :
    LET q == Other(p)
    IN  Listening(q, id) =>
          /\ Contiguous(Bodies(p, id), rcvd[q][id])
          /\ \/ conn[p] \in {"Active"} \cup ClosingStates
             \/ wire[p] # <<>> /\ Last(wire[p]) = term
             => rcvd[q][id] + Total(Bodies(p, id)) = written[p][id]

\* A reader is told the end of the stream only after every byte its peer wrote
\* arrived: FIN overtakes nothing on its way through the channel, the pending
\* slots and the socket (poll_close, on_data).  Only a reset or the end of a
\* connection cuts a stream short.
EofMeansAll ==
  \A p \in Endpoints, id \in Ids :
    LET q == Other(p)
        s == shared[q][id].state
    IN  \/ s = "RecvClosed"
        \/ s = "Closed" /\ live(p, id) /\ live(q, id)
             /\ conn[p] = "Active" /\ conn[q] = "Active"
        => rcvd[q][id] = written[p][id]

\* A handle whose entry has left the table of an active connection sees its
\* stream closed: no writer goes on writing to a stream that was reset, and no
\* path out of the table forgets to say so (on_data, on_window_update).
HandleSeesEnd ==
  \A p \in Endpoints, id \in Ids :
    conn[p] = "Active" /\ live(p, id) /\ id \notin entry[p]
      => shared[p][id].state = "Closed"

\* No missed wake-up: a parked reader has nothing to read and more to expect,
\* a parked writer has no credit and, unless its own side closed, may write.
ParkedForReason ==
  \A p \in Endpoints, id \in Ids :
    LET s == shared[p][id]
    IN  live(p, id) =>
          /\ s.reader => s.buf = 0 /\ can_read(s.state)
          /\ s.writer => s.fc.send_window = 0
          /\ s.writer /\ handle[p][id].closes = 0 => can_write(s.state)

\* The shared counter is exactly the windows' excess over the default, over
\* all streams a table or a handle still holds (next_window_update, Drop for
\* FlowController).
AccExact ==
  \A p \in Endpoints :
    acc[p] = ExcessOf(shared[p], Ids)

\* Every entry of an active connection still has the receiver whose end will
\* remove it (on_drop_stream), so no entry outlives its handle for ever.
EntryHasReceiver ==
  \A p \in Endpoints, id \in Ids :
    conn[p] = "Active" /\ id \in entry[p]
      => rx[p][id] = "open" /\ shared[p][id].state # "None"

\* Config::max_num_streams and MAX_ACK_BACKLOG hold, whoever opens streams.
StreamLimits ==
  \A p \in Endpoints : /\ Cardinality(entry[p]) <= MaxNumStreams
                       /\ ack_backlog(p) <= MAX_ACK_BACKLOG

\* Config::set_max_connection_receive_window: the windows of all streams in the
\* table stay within the connection's limit together, inbound and outbound
\* (next_window_update, poll_new_outbound, on_data).
ConnWindowBounded ==
  \A p \in Endpoints :
    SumFunctionOnSet([id \in Ids |-> shared[p][id].fc.max_receive_window], entry[p])
      <= MaxConnWindow

\* A task that waits to open a stream waits because the backlog is full: the
\* ACK that makes room wakes it (poll_new_outbound, on_frame).  Where streams
\* are reset, dropped or closed before they are acknowledged the backlog
\* shrinks without a wake-up, and this does not hold.
OpenerWaits == \A p \in Endpoints : newOut[p] => AtAckBacklog(p)

\* The receive buffer never outgrows the window the remote was granted,
\* whatever the remote sends.
BufferBounded ==
  \A p \in Endpoints, id \in Ids :
    LET s == shared[p][id]
    IN  /\ s.buf <= s.fc.max_receive_window
        /\ s.buf + s.fc.receive_window <= s.fc.max_receive_window

----------------------------------------------------------------------------
(* Action properties                                                        *)

\* Closed is final and a half once closed stays closed, as long as the Shared
\* lives (update_state).
NoReopen ==
  [][\A p \in Endpoints, id \in Ids :
       LET s == shared[p][id].state
           t == shared'[p][id].state
       IN  s # "None" /\ t # "None" =>
             /\ ~can_read(s) => ~can_read(t)
             /\ ~can_write(s) => ~can_write(t)
             /\ s = "OpenAcked" => t # "OpenPending"]_allVars

\* Every stream of p is closed and nobody sleeps on one, but a writer whose
\* own side closed the stream.
AllTold(p) ==
  \A id \in Ids : shared[p][id].state # "None" =>
    /\ shared[p][id].state = "Closed"
    /\ ~shared[p][id].reader
    /\ handle[p][id].closes = 0 => ~shared[p][id].writer

\* A connection that ends by an error, by the remote or by being dropped while
\* active tells all its streams in that very step, and whatever their tasks were
\* in the middle of, nobody falls asleep on one later (drop_all_streams).  A
\* connection its own application closes goes through Closing instead, which
\* tells no stream.
CleanupWakesAll ==
  [][\A p \in Endpoints :
       /\ conn[p] = "Active" \/ AllTold(p)
       /\ conn'[p] \notin {"Active"} \cup ClosingStates
       => AllTold(p)']_allVars

----------------------------------------------------------------------------
(* Refinement                                                               *)

\* The end of the reading side of id at q as its user can tell it.
PipeStatus(q, id) ==
  CASE shared[q][id].state = "RecvClosed" -> "eof"
    [] \/ shared[q][id].state = "Closed"
       \/ shared[q][id].state = "None" /\ handle[q][id].life # "none" -> "over"
    [] OTHER -> "open"

Pipe(p, id) ==
  INSTANCE BytePipe WITH sent <- written[p][id],
                         received <- rcvd[Other(p)][id],
                         status <- PipeStatus(Other(p), id)

\* Each direction of each stream keeps the promise of BytePipe: through
\* channel, pending slots, socket, window updates, half-closes and drops the
\* reader gets what was written, and the end last.
StreamsArePipes ==
  /\ \A p \in Peers, id \in Ids : Pipe(p, id)!PipeInit
  /\ [][\A p \in Peers, id \in Ids : Pipe(p, id)!PipeStep]_allVars

\* The direction from p of stream id is in working order on both sides.
Flowing(p, id) ==
  conn[p] = "Active" /\ id \in entry[p] /\ Listening(Other(p), id)

\* The Shared of the receiver, or what it will be once the SYN arrives.
Receiver(q, id) == IF id \in entry[q] THEN shared[q][id] ELSE NewShared(0)

If(c, n) == IF c THEN n ELSE 0

Loop(p, id) ==
  INSTANCE CreditLoop WITH
    stage  <- IF Flowing(p, id) THEN "on" ELSE "off",
    send   <- If(Flowing(p, id), shared[p][id].fc.send_window),
    flight <- If(Flowing(p, id), InFlight(p, id)),
    recv   <- If(Flowing(p, id), Receiver(Other(p), id).fc.receive_window),
    max    <- If(Flowing(p, id), Receiver(Other(p), id).fc.max_receive_window),
    buf    <- If(Flowing(p, id), Receiver(Other(p), id).buf),
    credit <- If(Flowing(p, id), Granted(Other(p), id)),
    verdict <- IF \E q \in Peers : protocol_error \in ToSet(Outgoing(q))
               THEN "broken" ELSE "ok"

\* Each direction of each stream passes its credit round as CreditLoop does,
\* so what is proved of CreditLoop for every window size holds of it.
StreamsAreCreditLoops ==
  /\ \A p \in Peers, id \in Ids : Loop(p, id)!LoopInit
  /\ [][\A p \in Peers, id \in Ids :
          [Loop(p, id)!LoopNext]_(Loop(p, id)!loop)]_allVars

Budget(p) ==
  INSTANCE WindowBudget WITH
    NumSlots <- NumIds,
    window <- [id \in Ids |-> If(shared[p][id].state # "None",
                                shared[p][id].fc.max_receive_window)],
    total <- acc[p]

\* The streams of a connection share its growth budget as WindowBudget does,
\* whoever lets go of a stream last, so what is proved of WindowBudget for any
\* number of streams holds of them (next_window_update, Drop).
StreamsShareBudget ==
  /\ \A p \in Endpoints : Budget(p)!BudgetInit
  /\ [][\A p \in Endpoints :
          [Budget(p)!BudgetNext]_(Budget(p)!budget)]_allVars

----------------------------------------------------------------------------
(* Progress, under FairSpec                                                 *)

\* A writer that ran out of credit does not wait for ever while the remote
\* application reads: it is woken by a window update, or closes itself
\* (send_window_update, on_window_update).
WriterWoken ==
  []<>(\A p \in Endpoints, id \in Ids :
         shared[p][id].writer => \/ handle[p][id].closes > 0
                                \/ handle[Other(p)][id].life = "dropped")

\* Every byte poll_write accepted is read by the remote application, however
\* small the channel and the socket are, unless a side drops the stream: again
\* and again nothing is left on the way or in the buffer.
AllRead ==
  []<>(\A p \in Endpoints, id \in Ids :
         \/ rcvd[Other(p)][id] - shared[Other(p)][id].buf = written[p][id]
         \/ \E q \in Peers : handle[q][id].life = "dropped")

\* A closed sending half is seen by the remote reader, if the remote has the
\* stream at all (the SYN goes with the first data frame, not with a FIN).
CloseSeen ==
  <>[](\A p \in Endpoints, id \in Ids :
         handle[p][id].closes > 0 /\ live(Other(p), id)
           => ~can_read(shared[Other(p)][id].state))

\* Dropping a handle ends the stream on both sides: the entry goes, and the
\* remote's reader does not wait for ever (on_drop_stream: RST, FIN or a FIN
\* sent before).
DropReachesPeer ==
  <>[](\A p \in Endpoints, id \in Ids :
         handle[p][id].life = "dropped" =>
           /\ id \notin entry[p]
           /\ shared[Other(p)][id].state \in {"None", "RecvClosed", "Closed"})

----------------------------------------------------------------------------
(* What comments, tests and the changelog say, and the code does not do     *)

\* test-harness/tests/poll_api.rs, write_deadlock: two endpoints that cannot
\* write make progress by reading.  Here: never are both unable to write and
\* both refusing to read because an answer waits to be written.
SomeoneReads ==
  \E p \in Endpoints :
    conn[p] # "Active" \/ SockReady(p) \/ pendR[p] = <<>>

\* The comment in on_drop_stream: when a closed stream is dropped its remote,
\* which may be out of credit and blocked, is reset "in any case".
DropUnblocksWriter ==
  []<>(\A p \in Endpoints, id \in Ids :
         shared[p][id].writer => handle[p][id].closes > 0)

\* Config::set_read_after_close: data that was buffered when the connection was
\* closed can be read.
BufferedDataReadable ==
  \A p \in Endpoints, id \in Ids :
    live(p, id) /\ shared[p][id].buf > 0 => ReadStep(p, id) # "error"
============================================================================
