# rust-yamux: a TLA+ model, its model checks and its proofs

This project specifies the `yamux` crate of this repository (`src/yamux/src`):
the connection state machine, stream handles, flow control, round-trip
measurement, the ways a connection ends, the command channel between handles
and connection, and the transport of frames down to their bytes. The other parts of the repository
(`test-harness`, `quickcheck-ext`) are test support.

## 1. The system

| Component | State | Operations | Source |
|---|---|---|---|
| `Connection` / `Active` | stream table, receivers of the streams' commands, two one-frame slots (`pending_read_frame`, `pending_write_frame`), next id, waker of a task that waits to open a stream | `poll_next_inbound`, `poll_new_outbound`, `poll_close`, drop; inside `poll`: send, take a command, read and handle a frame | `connection.rs` |
| `Stream` | flag of its first frame, two senders of one channel | `poll_read`/`poll_next`, `poll_write`, `poll_close`, drop | `connection/stream.rs` |
| `Shared` | stream state, windows, receive buffer, reader and writer waker; behind a mutex, held by the table and the handle | `update_state` and window operations | `connection/stream.rs` |
| `FlowController` | `receive_window`, `max_receive_window`, `send_window`; a counter shared by all streams of the connection | `next_window_update`, consume/increase, drop | `connection/stream/flow_control.rs` |
| `Rtt` | ping state, next nonce | `next_ping`, `handle_pong` | `connection/rtt.rs` |
| `Closing`, `Cleanup` | pending frames, receivers, step | `poll` | `connection/closing.rs`, `connection/cleanup.rs` |
| frames, header codec, frame I/O | read and write state | constructors, `encode`/`decode`, `Sink` and `Stream` of frames | `frame.rs`, `frame/` |
| `Chunks`, `TaggedStream`, `Config`, errors | | | `chunks.rs`, `tagged_stream.rs`, `lib.rs`, `error.rs` |

Handles live in application tasks, the connection in a task of its own. They
meet at two places: `Shared` behind its mutex, and the mpsc channel on which a
handle queues frames (and whose end tells the connection that the handle was
dropped). Two connections meet at the socket, a reliable byte stream that may
break.

What is hard here: a handle's operation takes the mutex several times and the
connection can step in between; a task that returned `Pending` must be woken by
the right event; a stream ends in many ways (FIN from either side, RST, drop,
go-away, socket error) which cross on the wire with data and credit; queues of
bounded size push back on each other; windows are u32 and the shared counter is
usize, both with unchecked subtractions. `PROJECT.json` lists the hazards with
their lines.

## 2. Modules

| Module | What it models |
|---|---|
| `Frame` | frames as records; a body is its length and its position in the byte sequence its writer produced |
| `StreamState` | `State`, `update_state`, `can_read`, `can_write` |
| `FlowController` | the window arithmetic as operators; `ConfigAccepted` is the assertion of `Config`'s setters |
| `Endpoint` | the state of two peers, `Init`, helpers for table, channel and socket |
| `Stream` | the operations of a handle, cut where the mutex is released |
| `Connection` | one action per step of `Active::poll` and per frame handler, `poll_new_outbound`, `cleanup` |
| `Shutdown` | `Connection::poll_close`, `Closing`, `Cleanup`, drop of the connection |
| `Session` | the composition: `SessionNext`, `Spec`, `Fairness`, foreign peers |
| `SessionProperties` | the properties of a session and its refinements |
| `BytePipe` | abstract: one direction of a stream is a byte pipe with an end |
| `CreditLoop` | abstract: the credit of one direction, for windows of any size |
| `WindowBudget` | abstract: the growth budget the streams of a connection share |
| `FlowControl` | the last two together: stream 1 runs the credit loop, its maximum is what the budget lets it be |
| `HeaderCodec` | `encode`, `decode` and its errors on 12 bytes; flags as bits |
| `Chunks` | the receive buffer, and the two ways `stream.rs` takes bytes out of it |
| `FrameIo` | the write and read states of `frame::Io` and the socket between two of them |
| `Transport` | one direction of a session in bytes: sending connection (`Active`, `Closing`), `FrameIo`, `on_data`, `Chunks`, application |
| `CommandChannel` | the mpsc channel of one stream, the two halves of a split stream, the connection that drains it |
| `FlowControlProofs` | proofs about the flow control: each half, then both together |
| `CommandChannelProofs` | proofs about the channel of a split stream |
| `TransportProofs` | proofs about `HeaderCodec` (`encode` and `decode` are inverse) and `Transport`: frames on the wire, bytes through the receive buffer |
| `SessionProofs` | proofs about `Session`: wake-ups, ends of streams, buffers, limits |
| `SumProofs` | sums over finite sets, and induction in the form of sets that the provers can use |
| `SessionBudgetProofs` | proofs about `Session`: ids, the shared counter, the connection's window, closed halves |
| `SessionFlowProofs` | proofs about `Session` with two endpoints that run this code: the frames of a stream under way, and its credit; and the types of any session |
| `SessionPipeProofs` | the same: no protocol errors, bytes, the end of a stream, the refinement of `BytePipe` |
| `MCSession`, `MCTransport` | values of constants for TLC |

The modules form three layers that meet at stated abstractions. `Session`
composes endpoints over a socket of whole frames and bounded channels. `Transport` is what that socket is made of: its property `FramesIntact`
is the FIFO that `Session` assumes. `CommandChannel` is what the channel is made
of: `ClosingTakesAccepted` and `HalvesFinish` justify the bounded FIFO of
`Session`, and `drain_race` shows what becomes of a send that a closing connection
overtakes.
`CreditLoop`, `WindowBudget` and `BytePipe` are what a session promises.

Definitions named `X_...` with a comment "Mutant" are faulty variants of `X`;
no specification uses them. Replacing `X` by its mutant must break the property
that `PROJECT.json` names, which shows that the property depends on that code.

### State and actions

Every variable is a function of the peer (`"Client"`, `"Server"`). The comment
of `Endpoint` says which field of the code each one stands for. `written` and
`rcvd` are history: bytes that `poll_write` queued while the connection took
commands, and bytes put into the receive buffer.

* A read is three steps (check state and channel; take the window update under
  the lock; `start_send` it, then copy), a write two (take credit and build the
  frame; `start_send`), a close two (`start_send` the command;
  `update_state(SendClosed)`). Between the parts the connection may do anything.
  Merged are parts whose order with any step of another task makes no
  difference: the last two parts of a read, the ACK's state update in
  `poll_write` with the credit it takes, `is_closed` and `poll_ready` in
  `poll_close` with its `start_send`.
* The library's `start_send` counts a message and then queues it; `Closing` may close
  the receivers in between. `WriteSend` has the three outcomes for a body: it is
  queued before the receivers close; the message was counted before and is queued
  while they are drained, to be sent like the others; or it is refused, or
  accepted after the drain and discarded with the receiver. In the last case
  nobody ever sends it, and it is not part of `written`, whatever `start_send` told
  the writer.
* A parked task (`reader`, `writer`) polls again only after it was woken. A task
  waiting for room in the channel is woken by the channel and simply tries
  again.
* `fast` stands for "a round trip time is known and less than two of them passed
  since the last update": time itself is not modelled.
* The socket accepts a frame when what is on it is at most `SockCap` header
  sizes, so `wire` holds the frame in `frame::Io`'s write state as well. A
  dropped socket may lose any suffix of the accepted frames; a closed one does
  not.
* Freeing a `Shared` is part of the step that drops its last holder, table or
  handle (`SetStreams`), with the return of its excess to the counter.
* Opening a stream sends nothing: SYN goes with the first frame, so a stream
  that is closed before it is written to sends a FIN its remote ignores.

External parts, modelled from how the code uses them: the mpsc channel, the
socket, and a foreign remote.

`Transport` works on bytes. A frame is its header and body; `start_send` encodes
the header, a `poll_ready` step hands the socket any number of the bytes left
(or, with `Overcount`, lets it claim one more than there are, which poisons the
sink), a `poll_next` step takes any number of the bytes wanted. `ReadState::Init`
is not told apart from a header of which nothing was read. The socket may break
at any moment; it then stays broken and any suffix of its bytes is lost.
`sender` is the part of `Active::poll` and `Closing::poll` that deals with the
sink, including that `Active::poll` goes on after an error of `poll_ready`. A
foreign sender may end its side with a header of unknown version or type or
with a body beyond the maximum.

In `CommandChannel` a send is two steps, as in the library: the message is
counted, and parks its sender if it exceeds the buffer; then it is queued. A
sender keeps one waker. `&mut self` keeps the halves of a stream from being
polled at the same time, not from sleeping on the channel at the same time.
Dropping the receiver waits for counted messages and discards them.

## 3. What is checked

All session runs use `MCSession` with small constants: default credit 2, u32
range 15, one-command channels, two or three ids. Default credit 2 is the least
for which half a window, a partly consumed window and an exhausted window
differ; 3 bytes against a window of 2 force a writer to park; one-command
channels and a socket of one or two frames make every queue fill up. In `tuning`
4 bytes are enough for the window to grow twice (2, 4, 5) to the connection's
limit; the server, which does the reading, pings twice, and the client once, so that
pings and pongs cross. `foreign` enumerates every single flag (SYN, ACK, FIN, RST)
on data and window updates of a stream. In `limits` two
streams compete for one byte of growth: the second finds the budget taken. They are
not dropped there; in `foreign` a stream that has grown is reset, finished or dropped
while others are opened, so that its share comes back, with the handle or with the
entry (`AccExact`).
`transport` sends up to three frames out of four kinds (SYN with a body of two
bytes, body of one, empty FIN, window update) over a socket of 5 bytes, less than
half a header; ids and lengths need several bytes. `channel` has a buffer of 1
and five commands for each half, so that both senders park in either order more
than once. `flow_control` has three streams where two are allowed.

Applications may stop and bounds end every behaviour, so most runs do not check
for deadlock; lost wake-ups are the business of `ParkedForReason`,
`SleeperHasWaker`, `OpenerWaits` and of the liveness properties. `flow_control`
checks for deadlock.

| Run | Question | Properties |
|---|---|---|
| `stream` | a stream's whole life between two endpoints, all ends crossing all frames, and liveness with one-frame queues | `TypeOK`, `CreditConserved`, `NoProtocolError`, `BytesIntact`, `EofMeansAll`, `HandleSeesEnd`, `ParkedForReason`, `EntryHasReceiver`, `NoReopen`, `StreamsArePipes`, `WriterWoken`, `AllRead`, `CloseSeen`, `DropReachesPeer` |
| `tuning` | crossing pings, window growth up to the limit, stream limit and id exhaustion | `NoProtocolError`, `StreamsAreCreditLoops` |
| `limits` | both sides open streams at once over full queues, and their windows grow out of one budget | `StreamLimits`, `ConnWindowBounded`, `OpenerWaits`, `StreamsShareBudget` |
| `shutdown` | close, drop and socket failure at every moment | `BytesIntact`, `CleanupWakesAll` |
| `foreign` | a server facing a remote that sends any frame in any order | `TypeOK`, `BufferBounded`, `StreamLimits`, `AccExact` |
| `flow_control` | credit loop and growth budget together; the invariants proved in section 4 | `LoopInv`, `NeverBroken`, `TotalIsSum`, `NoUnderflow`, `MemoryAccounted` |
| `transport` | frames cut up, torn, refused and reassembled; bytes in and out of the receive buffer | `FramesIntact`, `CleanEndIsComplete`, `BytesInOrder`, `BufferLenExact`, `FramesArrive` |
| `channel` | split stream over a full channel, close and failure at every moment | `SleeperHasWaker`, `QueueBounded`, `ClosingTakesAccepted`, `HalvesFinish` |

The central ones in words. *CreditConserved*: send window, data under way and
credit under way add up to the receiver's window, in every state and however
frames cross. *BytesIntact*: the data frames under way continue exactly where
the receive buffer ends; unless the connection failed or was dropped, they reach the
last byte that `poll_write` queued while the connection took commands, until a
graceful close has drained the channels (after a failure the
socket may lose any suffix, and what is left in the channel is not on its way any
more). It does not say that a graceful close sends every body that `start_send`
accepted: it does not, see `drain_race` below. *EofMeansAll*: the end of a stream is seen only after
all of its bytes. *ParkedForReason*: nobody sleeps on a condition that has
become true. *HandleSeesEnd*: whatever
removes an entry also closes the stream for its handle. (A reset closes and removes
under one `&mut self`, a single step here: the order of the two in `on_data`, which its
comment insists on, makes no difference to the property.)
*CleanupWakesAll*: the step in which a connection fails, is ended by the remote, or is
dropped while active closes all streams and wakes whoever sleeps on one, and nobody falls
asleep afterwards.
*StreamsArePipes*, *StreamsAreCreditLoops*, *StreamsShareBudget* are
refinements: each direction of each stream, and each connection's counter, is an
instance of the abstract module under the mapping stated there.
*FramesIntact*: what `poll_next` returns is a prefix of what was sent, however the
socket cuts the bytes up and wherever it breaks. *CleanEndIsComplete*: a clean end of a
closed socket means all frames arrived. *BytesInOrder*, *BufferLenExact*: mixing
`poll_read` and `poll_next` neither loses nor repeats a byte, and `Chunks::len` is
exact. *SleeperHasWaker*: neither half of a split stream takes the other's waker
away (it fails with a single sender, the fault fixed in 0.14.1).
*MemoryAccounted*: all a remote may still send on a stream, and what it sent,
fits the window the connection's counter accounts for. (The refinements are
written as an initial part and a step part because TLC does not take a quantifier
over temporal formulas.)

### Fairness

`stream` and `late_reset` assume, for each endpoint, weak fairness of the steps of
its connection (the loop of `poll`, `Closing`, `Cleanup`) and weak fairness of its
application finishing an operation once begun or reading. The first is what the
crate demands of its user, to keep polling the connection; which of the loop's
steps is taken is left open, so nothing rests on their order. The second is an
assumption on the application that the liveness of a flow-controlled stream
cannot do without. Nobody is assumed to open, write, close or drop, and time need
not pass. `transport` assumes weak fairness of writing and reading
bytes: both connections are polled when the socket lets them go on. `channel`
assumes that woken tasks are polled and that the connection is polled and can
send; it need not ever close.

### Disagreements

Four runs end in a counterexample: the code does not do what a comment, a test's
description or the documentation says.

* `write_deadlock` (`SomeoneReads`): `poll` does not read while an answer waits in
  `pending_read_frame`. Two endpoints that each hold a pong and face a full
  socket both stop reading. The test `write_deadlock` of
  `test-harness/tests/poll_api.rs` describes this deadlock as avoided by reading.
* `late_reset` (`DropUnblocksWriter`): after `poll_close` and drop, a remote writer
  without credit is left parked. The comment in `on_drop_stream` relies on an RST
  from `on_data`, but `on_frame` drops frames of unknown streams silently, and a
  writer without credit sends none.
* `read_after_close` (`BufferedDataReadable`): with `read_after_close` set, a read
  of buffered data fails after the connection was closed, because the window
  update it tries first fails.
* `drain_race` (`NoMoreFrames`): `Closing` takes `Pending` of the receivers to mean
  that no more frames come. A task that is between the two halves of a send at
  that moment makes the channel `Pending`; its frame is accepted afterwards
  (`start_send` returns `Ok`) and discarded. What was accepted before the close
  is not lost (`ClosingTakesAccepted`).

Met while modelling, without a run:

* When the local half closes second, `poll_close` makes the state `Closed` and the
  entry stays until the handle is dropped; the changelog of 0.15.0 says entries
  are removed on a completed close "instead of waiting for the local handle".
* `State::Open::acknowledged` is documented to be set when an ACK is sent, but an
  ACK that goes out on a window update does not set it.
* `MAX_ACK_BACKLOG` is documented as a limit on streams without acknowledgement,
  but a stream that was closed before its acknowledgement stops counting, because
  `is_pending_ack` looks at open streams only; `StreamLimits` therefore states the
  limit for the count the code uses. For the same reason a reset, drop or close
  makes room without waking the task that waits to open a stream; `OpenerWaits`
  is checked where streams stay open.
* `WriteState::Poisoned` (0.13.8) is there so that a sink whose socket claimed to
  have written more than it was given is not used again, but `Active::poll` takes
  the error of `poll_ready` for readiness and `start_send` overwrites the poisoned
  state with the next frame, if there is one. On a socket that counts right
  nothing comes of this: the error is that of a broken socket, and the torn
  frame stays the last thing the remote sees (`FramesIntact`). With
  `Overcount = TRUE` in `transport.cfg` TLC finds `FramesIntact` violated: a header
  goes out without its body, and the remote takes the next header for the body.
* A `poll_next` after a `poll_read` that stopped at the end of a chunk returns an
  empty packet.
* Handles of streams that left the table keep their buffers: the connection limit
  bounds the windows of the streams in the table (`ConnWindowBounded`), not the
  bytes such handles still hold.

## 4. What is proved

`FlowControlProofs`, first of `CreditLoop` (for every `DEFAULT_CREDIT`, `U32_MAX`
with `FlowAssumption`):

* `LoopSafe`: `LoopSpec => []LoopInv`. Windows stay u32, credit is conserved,
  window plus buffer stay within the maximum.
* `LoopNeverBroken`: `LoopSpec => []NeverBroken`. Data always fits the window
  and credit never overflows.

`NeverBroken` alone is not inductive. That arriving data fits needs
`Conservation` (data under way is part of the receiver's window); that credit
does not overflow needs `WindowBound` and the type of the maximum in addition.
The only arithmetic lemma is `ConsumedFillsUp`: given `WindowBound`, the
`saturating_sub` of `next_window_update` never saturates, and a grant fills the
window up exactly.

Then of `WindowBudget` (for every number of streams and every limit):

* `TotalSafe`: `BudgetSpec => []TotalIsSum`.
* `BudgetSafe`: `BudgetSpec => []NoUnderflow`. The two usize subtractions of
  `next_window_update` and the one of `Drop` never underflow, and the
  assertions of `assert_invariants` about the maximum hold.

`NoUnderflow` for one stream needs the sum over all. `TotalIsSum` says that a
function of partial sums exists, and states that it ascends. A step at stream `j` shifts
all partial sums from `j` on by the same amount (`ShiftedSum`), which names the
new function explicitly; no induction is needed.

Then of `FlowControl` (the same constants together):

* `MemorySafe`: `FlowSpec => []MemoryAccounted`. `FlowControl` is composed of steps of
  the two halves (`FlowStepsLoop`, `FlowStepsBudget`), so their invariants hold of
  it. The theorem needs one more fact, which neither half can state: `MaxIsBooked`, the maximum the receiver reckons with is the
  window the connection has on its books.

`TransportProofs`, first of `HeaderCodec` (for every value of the fields):

* `DecodeEncode`: `encode` yields 12 bytes that `decode` accepts and turns back into
  the same header.
* `EncodeDecode`: a header `decode` accepts is encoded to the same bytes.
* `FlagsTold`: the flags found in the u16 are those that were set.

The numbers go through two facts about one byte: `HighLow` (a number is its high
part times 256 plus its low byte) and `PutCut` (appending a byte and cutting it
off again); u16 and u32 apply them twice and four times.

Then `TransportProofs` of `Transport` (for any frames and bodies, any maximum of a body,
a socket of any size, slices of any length):

* `BytesKept` (`BytesInOrder`) and `LengthExact` (`BufferLenExact`). The inductive
  invariant is `BufferInv`: cursors are within their chunks, only the first chunk
  was read from, and the length is that of the vectors. `PushBytes`, `PopBytes`
  and `AdvanceBytes` say what each operation of `Chunks` does to the bytes that are
  left, `RoundKeeps` what a round of the loop of `poll_read` does, `ReadBytes` what the
  loop does.
* `FramesKept` (`FramesIntact`) and `CleanEndKept` (`CleanEndIsComplete`), on a socket
  that does not claim more than it was given (`~Overcount`; section 3 says what
  happens otherwise). `FramesIntact` says nothing about a frame that is half
  written and half read. `Course` does: what the reader has of a frame, the bytes
  on the socket, and bytes still to come are, joined, the bytes of the frames sent
  and not received; those to come are what is left in the write state, unless
  the socket broke. Then nobody knows them, but what did arrive still is a
  beginning of these frames, and a frame sent over a torn one only makes the
  end longer that never arrives. `FirstFrame` cuts the first header off: by
  `DecodeEncode` it is the header of the first frame, so that as many bytes are read
  for the body as were written, or it is a malformed one, which is refused.
  `CleanEndKept` adds that a socket is closed by a sender with nothing left to
  write (`Ending`).

`FlattenSeq` is recursive and the loop of `poll_read` a fold. What they compute is
proved by induction over the number of blocks (`FlatUnique`, `ConcatAppend`,
`ConcatHead`) and of rounds (`LoopKeeps`), with `NatInduct` of `SumProofs`.

`CommandChannelProofs` (for every buffer size and number of commands):

* `QueueSafe`, `SleepersWake`, `ClosingComplete`: the channel holds at most its
  buffer and one command for each sender, no half sleeps without a waker the
  connection will use, and a graceful close takes all that was accepted before.
  The inductive invariant `ChannelInv` adds that a sender is parked at most
  once, that the messages counted are those queued and those about to be, and
  who must still be woken in each stage of the close.

`SessionProofs` (for any two endpoints, or an endpoint and a foreign remote, any
number of ids, any limits, windows and sizes of channel and socket):

* `NobodyParkedInVain` (`ParkedForReason`), `HandlesSeeEnd` (`HandleSeesEnd`),
  `EntriesHaveReceivers` (`EntryHasReceiver`), `CleanupTellsAll`
  (`CleanupWakesAll`), `BuffersBounded` (`BufferBounded`), `LimitsHold`
  (`StreamLimits`).

The inductive invariant is `SessionInv`: types of the streams and of the frames
under way, `StreamLimits`, and `StreamOK` for each stream of each endpoint.
`StreamOK` relates the five things that are kept about a stream (state of the
connection, entry, receiver, `Shared`, handle): `Held` (a `Shared` exists exactly
as long as the table or a handle holds it), `Tabled` (an entry of an active
connection has its receiver; a handle without one sees `Closed`), `Parked` (who
sleeps has a reason), `Told` (after a cleanup nobody sleeps), `Bounded` (buffer
and window fit the maximum). None of the six is inductive alone: that a parked
reader is woken when its stream is reset needs that the entry through which the
reset arrives is there, which needs the receiver, and so on.
The proof is one lemma for each kind of change to one stream (`SpendStep`,
`CopyStep`, `UpdateStep`, `FinStep`, `LeaveStep`, ...), one for each action, and
`StreamsMove`, which says what the actions have in common: a step moves one stream
of one endpoint or ends a whole connection, and everything else stays.
`CleanupWakesAll` is about steps, and `Told` covers the states of `Cleanup`; what it adds is the
step to `Closed`, from an active connection that is dropped (`DropCloses`) and from a
cleanup, and that a closed connection's streams stay told (`ClosedIsTold`).
`StreamsMove` also records what a step does to the shared counter and in which
order stream states follow each other, which the next module uses.

`SessionBudgetProofs` (the same generality):

* `CounterExact` (`AccExact`): the shared counter is the sum of what the windows of
  the streams that still exist grew by.
* `WindowsWithinLimit` (`ConnWindowBounded`): it follows from `CounterExact`, the
  budget test in `next_window_update`, `StreamLimits` and the assertion on the
  configuration.
* `ClosedStaysClosed` (`NoReopen`).

Each step changes the counter by as much as the windows of the streams it
touches; the difficulty is opening. A `Shared` put into a place that was taken
would lose the share of the one before it, and reopen it. An endpoint never
chooses an id twice, but for the one that accepts this is not enough: it must
not meet the same SYN twice. `Journey` follows the SYN of each outbound stream
through the flag of the handle, the operation that took it, the channel, the
pending slots and the socket to the remote's table: it is at one of these places at
most. `Foreign` is what `ReusesId` leaves of this for a foreign remote.

`SessionFlowProofs`, at its end (the same generality):

* `SessionTyped` (`TypeOK`). The invariant is `TypeInv`. That the windows and the
  counter are in range is known from `SessionInv` and `CounterExact`; what is left are
  the queues. A handle tests its channel for room (`poll_ready`) and sends some steps
  later, with the lock released in between; the test still holds then, since nobody
  else sends to this channel, and that has to be part of the invariant (`Queue`).
  The socket is over its limit by one frame at most (`Roomy`): `Bulk` is the size of a
  beginning of the queue, and frames leave it at the front or, when the socket is
  dropped, at the end.

`SessionFlowProofs` and `SessionPipeProofs` (two endpoints that both run this code,
`BothOurs`: `Endpoints = Peers`; otherwise the same generality):

* `CreditIsConserved` (`CreditConserved`).
* `NoFalseAccusation` (`NoProtocolError`): no endpoint ever sends the go-away that
  accuses the other, for a default credit above 1 (it is 256 KiB).
* `BytesArriveIntact` (`BytesIntact`), with what counts as written as in section 2.
* `EofAfterAllBytes` (`EofMeansAll`).
* `SessionImplementsPipes` (`StreamsArePipes`): every step of a session is a step of
  `BytePipe` for each direction of each stream, or leaves it alone.

All of them are about the frames of one stream on their way from one endpoint `p`,
its `Path`: those on the socket, in the pending slot or the queue of `Closing`, and
in the channel, in the order in which they will arrive. `Path` selects from a
concatenation, and amounts are folds over it; the lemmas on `Only`, `Cat` and `Within`
say what both do when a frame is appended, taken or handed on, by `NatInduct`.
A step then moves a frame along the `Path` (which stays as it is), adds one at its
end, takes the first one off, or cuts it. Five inductive invariants follow, each a
strengthening of the one before:

* `Settled`: `RouteInv` of the module before, one frame in each slot, and the
  commands of a channel are those of its stream.
* `CreditInv`: `Settled`, and for each stream and direction `Even` (what the sender
  may send, has under way and is being granted is the receiver's window, as long
  as both sides hear the stream) and `Sound`. `Even` needs `Fair` in `Sound`: once a side
  stopped hearing, the sum can only be too small. It counts a stream that one side
  has not opened yet with the window it will have, so `Sound` also says that the SYN
  is the first of the frames that the other side waits for (`SynAhead`), that only the
  opener sends it (`Shaped`), and that there are no frames of streams that nobody has
  (`NotYet`).
* `ClearInv`, for `NoProtocolError`: `CreditInv` keeps data within the window and credit
  within u32. The other accusations are about SYNs, excluded by `Journey` and by
  `Fresh` (a stream that has not sent its SYN has nothing to grant, so its first
  frame is data), and a pong that nobody asked for: `Timed` says that a ping, or the
  answer to it, is under way only while its sender awaits it, once and with its
  nonce. That the accusation is not under way has to be part of the invariant.
* `ByteInv`, for `BytesIntact`: the bodies on the `Path` continue what the remote got
  (`Intact`); the frame of a write begins where the bytes before it end (`Dated`); and
  the terminating frame is the last that leaves a closing connection, when all
  channels are closed and empty (`Termed`), so that what is cut off by a graceful close
  was not queued before.
* `EofInv`, for `EofMeansAll`: a FIN ends the `Path`, its sender is silent by then and the
  bytes ahead of it are all; a reset is under way only after its sender's handle is
  gone (`Ceases`); hence whoever can see the end has got everything (`EndInv`).
  `EofMeansAll` alone says nothing while the FIN is under way.

The refinement adds no invariant. `PipeOwn` and `PipeOther` look at the direction
away from the endpoint that takes the step and at the one towards it; a step that
ends a stream or a connection is a cut of the pipe, and `EndInv` after the step says
that an end that is no cut came after the last byte.

`SumProofs` has what the sums need, and the other modules use its induction. A sum
over a set is defined by recursion, and the library's induction theorems are beyond the provers; `SubsetInduct` and
`NatInduct` state induction with a set in place of the operator, and from them
follow that a sum does not depend on the order, changes by as much as one of its
terms, and is bounded if its terms are.

### Assumptions of the proofs

Besides sizes and ranges (`FlowAssumption`, `StreamAssumption`): `ConfigAccepted`, which
the setters of `Config` assert; `MAX_ID <= NumIds + 2`, the end of the id space lies
right after the ids that are modelled, so that no stream is opened without a
place in the model; `MaxPings` within u32, as the nonces are; and frames of a
foreign remote have a u32 length, known flags and, when they are for a stream, one
of the modelled ids (`SessionAssumption`). In `Transport`, a frame announces the length of
its body if it is a data frame and has none otherwise (`TransportAssumption`; the
constructors of `frame.rs` do that), and the malformed headers of a foreign sender are 12
bytes that `poll_next` refuses (`FrameIoAssumption`). TLC evaluates all of them on every
run that uses the module.

The theorems of `SessionFlowProofs` and `SessionPipeProofs`, except `SessionTyped`, have
`BothOurs` as a hypothesis, since they are about what two endpoints of this code may expect of
each other; `stream`, `tuning`, `limits` and `shutdown` are such sessions. That the
default credit is above 1 is a hypothesis of `NoFalseAccusation`. It spares the
proof a case: with 1, half the window is 0, so that an opener may grant credit
before it has written, and its SYN goes out on a window update.

### Only model-checked

* Liveness (`WriterWoken`, `AllRead`, `CloseSeen`, `DropReachesPeer`, `FramesArrive`,
  `HalvesFinish`): fairness and `ENABLED` are out of the provers' reach.
* `StreamsAreCreditLoops`: TLC checks it. The credit of a session is proved directly
  (`CreditIsConserved`, `NoFalseAccusation`) and does not rest on this refinement.
* `StreamsShareBudget` is stated for runs in which a step lets go of at most one
  stream with a grown window, as in `limits`. In general the end of a connection
  drops several at once, which is several steps of `WindowBudget`, not one.
  `CounterExact` says for every session what matters here.
* `OpenerWaits` holds only where streams are not closed before they are
  acknowledged (section 3), so it is no theorem of `Session`.

## 5. Limits of the model

* Left out: error values and their text, logging, `poll_flush` of a stream (no
  state of its own), zero-length writes and reads into an empty slice, the test
  support crates.
* Two handles of one id: a foreign remote could open an id again while the
  handle of the earlier stream lives; `ReusesId` excludes it. Stream id 0 is not
  enumerated.
* `Session` keeps frames whole. Of the three commands, a window update and a FIN
  are sent in one step there: with a close in between, the code may still
  send them in the drain or discard them (`drain_race`), where the model refuses
  them. They carry no bytes; the credit and the FINs of a connection that is closing
  are no part of what is claimed of it. What frames and the steps of a send are made of is
  the business of `Transport` and `CommandChannel`, which in turn leave open what
  the frames and commands are. The three are not composed: the product is beyond
  TLC.
* `Transport` has one stream and one direction, and does not model flow control;
  a broken socket does not recover. `CommandChannel` has one stream; new data
  that wakes a sleeping reader is left out.
* A connection closed by its own application does not wake parked readers and
  writers of its streams. The code promises nothing here, and `CleanupWakesAll`
  leaves `Closing` out, also when a connection is dropped in the middle of it.
* Bounds: `MaxBytes`, `MaxOpen`, `MaxCloses` (one `poll_close` per handle),
  `MaxPings` (0 starts after the first exchange), `MaxForeign`, `MAX_ID` (the end of the id space) and
  `NumIds` (ids that are used);
  `MaxFrames`, `PipeCap`; `MaxCommands`; `NumSlots`.

## 6. Plan

Done: sessions, flow control, transport, header codec, receive buffer, command
channel, and the proofs of section 4. What is left is `StreamsAreCreditLoops` as a
theorem. It needs what a step does to each window by itself, where `CreditInv` only
needs the balance, and that an opener's window is untouched until the SYN arrives.
