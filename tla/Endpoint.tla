------------------------------ MODULE Endpoint ------------------------------
(* The state of two yamux endpoints joined by a socket, and the helpers that *)
(* the stream, connection and shutdown actions share.                       *)
(*                                                                          *)
(* Every variable is a function of the peer.  What one `Connection` owns:   *)
(*                                                                          *)
(*   conn     ConnectionState, with the steps of Closing and Cleanup;       *)
(*   nextId   Active::next_id;                                              *)
(*   entry    the keys of Active::streams;                                  *)
(*   rx       the receiving end of each stream's command channel;           *)
(*   pendR    pending_read_frame, pendW  pending_write_frame (0 or 1 frame);*)
(*   pendQ    Closing::pending_frames;                                      *)
(*   newOut   whether a task is parked in new_outbound_stream_waker;        *)
(*   rtt      the ping state; acc  accumulated_max_stream_windows;          *)
(*   wire     frames accepted by the peer's socket and not read by the      *)
(*            other side, oldest first; sock  its sending half.             *)
(*                                                                          *)
(* What a `Stream` handle and the connection share: `shared` (stream::      *)
(* Shared behind its mutex) and `chan` (the mpsc channel of commands).  The *)
(* handle alone owns `handle`.  `written` and `rcvd` are history variables: *)
(* bytes poll_write queued while the connection takes commands, and bytes   *)
(* put in the receive buffer.                                               *)
EXTENDS Frame, StreamState, FlowController, Sequences, FiniteSets,
        FiniteSetsExt, SequencesExt

CONSTANTS
  MAX_ID,           \* u32::MAX as far as stream ids are concerned
  NumIds,           \* bound: no peer uses an id beyond 1 .. NumIds (an endpoint
                    \* hands out none beyond MAX_ID - 2)
  MAX_ACK_BACKLOG,  \* unacknowledged outbound streams before opening waits
  ChanCap,          \* commands a stream's channel holds before senders wait
  SockCap,          \* what the socket holds in one direction, in headers
  SplitSendSize,    \* Config::split_send_size
  ReadAfterClose,   \* Config::read_after_close
  Endpoints,        \* the peers that run this code; the others are foreign
  MaxPings          \* bound: pings by peer; 0 starts after the first exchange

Peers    == {"Client", "Server"}
Other(p) == CHOOSE q \in Peers : q # p
Ids      == 1 .. NumIds

ASSUME EndpointAssumption ==
  /\ MAX_ID \in Nat \ {0} /\ NumIds \in 1 .. MAX_ID /\ MAX_ID <= NumIds + 2
  /\ MAX_ACK_BACKLOG \in Nat /\ 2 <= U32_MAX
  /\ ChanCap \in Nat \ {0} /\ SockCap \in Nat
  /\ SplitSendSize \in Nat \ {0} /\ ReadAfterClose \in BOOLEAN
  /\ Endpoints \subseteq Peers /\ MaxPings \in [Peers -> 0 .. U32_MAX]

VARIABLES conn, nextId, entry, rx, pendR, pendW, pendQ, newOut, rtt, acc,
          wire, sock, shared, chan, handle, written, rcvd

connVars   == <<conn, nextId, rx, newOut, rtt>>
pendVars   == <<pendR, pendW, pendQ>>
sockVars   == <<wire, sock>>
tableVars  == <<entry, shared, acc>>
handleVars == <<chan, handle>>
ghostVars  == <<written, rcvd>>
vars == <<connVars, pendVars, sockVars, tableVars, handleVars, ghostVars>>

----------------------------------------------------------------------------
(* Streams                                                                  *)

is_outbound(p, id) == is_client(id) <=> p = "Client"

NewShared(send) ==
  [state |-> "OpenPending", fc |-> new_controller(send), buf |-> 0,
   reader |-> FALSE, writer |-> FALSE]

\* The place of a Shared that does not exist (any more).
NoShared == [NewShared(0) EXCEPT !.state = "None"]

Idle     == [kind |-> "idle", frame |-> term]
NoHandle == [life |-> "none", flag |-> "None", op |-> Idle, closes |-> 0]

NewHandle(flag) == [NoHandle EXCEPT !.life = "live", !.flag = flag]

live(p, id) == handle[p][id].life = "live"

\* `w.take().wake()` on both wakers of a stream.
Woken(s)  == [s EXCEPT !.reader = FALSE, !.writer = FALSE]
To(s, st) == [s EXCEPT !.state = update_state(@, st)]

\* The bytes by which a stream's maximum exceeds the default, and a set's.
Excess(s)        == s.fc.max_receive_window - DEFAULT_CREDIT
ExcessOf(S, ids) == SumFunctionOnSet([id \in Ids |-> Excess(S[id])], ids)

\* Mutant: a Shared that is dropped keeps its share of the budget.
SetStreams_leaks(p, ent, S, H) ==
  /\ entry'  = [entry EXCEPT ![p] = ent]
  /\ shared' = [shared EXCEPT ![p] =
                  [id \in Ids |-> IF id \in ent \/ H[id].life = "live"
                                 THEN S[id] ELSE NoShared]]
  /\ UNCHANGED acc

\* The table of p becomes `ent` with contents S.  A Shared that neither the
\* table nor a live handle of H holds is dropped, and its FlowController
\* (Drop for FlowController) gives its excess back.
SetStreams(p, ent, S, H) ==
  LET freed == {id \in Ids : /\ S[id].state # "None"
                             /\ id \notin ent /\ H[id].life # "live"}
  IN  /\ entry'  = [entry EXCEPT ![p] = ent]
      /\ shared' = [shared EXCEPT ![p] =
                      [id \in Ids |-> IF id \in freed THEN NoShared ELSE S[id]]]
      /\ acc'    = [acc EXCEPT ![p] = @ - ExcessOf(S, freed)]

\* Mutant: the streams are closed and nobody is woken.
DropAllStreams_silently(p) ==
  SetStreams(p, {},
             [id \in Ids |-> IF id \in entry[p]
                             THEN To(shared[p][id], "Closed")
                             ELSE shared[p][id]],
             handle[p])

\* Active::drop_all_streams: every stream of the table is closed and woken.
DropAllStreams(p) ==
  SetStreams(p, {},
             [id \in Ids |-> IF id \in entry[p]
                             THEN Woken(To(shared[p][id], "Closed"))
                             ELSE shared[p][id]],
             handle[p])

----------------------------------------------------------------------------
(* Channel and socket (external: futures::channel::mpsc, the user's socket) *)

ChanClosed(p, id) == rx[p][id] = "closed"
ChanFull(p, id)   == Len(chan[p][id]) >= ChanCap

CloseReceivers(p) ==
  rx' = [rx EXCEPT ![p] =
           [id \in Ids |-> IF rx[p][id] = "open" THEN "closed" ELSE rx[p][id]]]

\* The channel of id is empty and all of its senders are gone.
ChanEnded(p, id) == rx[p][id] = "open" /\ chan[p][id] = <<>> /\ ~live(p, id)

\* Space a frame takes on the socket, in units of a header.
Size(f) == 1 + (IF f.tag = "Data" THEN f.len ELSE 0)
SizeOf(s) == SumFunctionOnSet([i \in DOMAIN s |-> Size(s[i])], DOMAIN s)

\* frame::Io accepts a frame once the one before it is entirely in the socket.
SockReady(p) == SizeOf(wire[p]) <= SockCap

SendFrame(p, f) == wire' = [wire EXCEPT ![p] = Append(@, f)]

\* The socket is dropped: a suffix of what it accepted may never arrive.
DropSocket(p) ==
  /\ sock' = [sock EXCEPT ![p] = "closed"]
  /\ \E n \in 0 .. Len(wire[p]) :
       wire' = [wire EXCEPT ![p] = SubSeq(@, 1, n)]

----------------------------------------------------------------------------
(* Connection::new on both sides                                            *)

InitRtt(p) ==
  IF MaxPings[p] = 0 THEN [st |-> "idle", id |-> 0, known |-> TRUE]
                     ELSE [st |-> "due",  id |-> 0, known |-> FALSE]

PerStream(v) == [p \in Peers |-> [id \in Ids |-> v]]

Init ==
  /\ conn   = [p \in Peers |-> "Active"]
  /\ nextId = [p \in Peers |-> IF p = "Client" THEN 1 ELSE 2]
  /\ entry  = [p \in Peers |-> {}]
  /\ rx     = PerStream("none")
  /\ pendR  = [p \in Peers |-> <<>>]
  /\ pendW  = [p \in Peers |-> <<>>]
  /\ pendQ  = [p \in Peers |-> <<>>]
  /\ newOut = [p \in Peers |-> FALSE]
  /\ rtt    = [p \in Peers |-> InitRtt(p)]
  /\ acc    = [p \in Peers |-> 0]
  /\ wire   = [p \in Peers |-> <<>>]
  /\ sock   = [p \in Peers |-> "open"]
  /\ shared = PerStream(NoShared)
  /\ chan   = PerStream(<<>>)
  /\ handle = PerStream(NoHandle)
  /\ written = PerStream(0)
  /\ rcvd    = PerStream(0)
============================================================================
