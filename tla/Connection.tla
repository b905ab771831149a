----------------------------- MODULE Connection -----------------------------
(* The active connection (connection.rs): the steps of Active::poll, the    *)
(* frame handlers, and poll_new_outbound.                                   *)
(*                                                                          *)
(* One call of poll runs through its steps many times; each step here is    *)
(* one of them.  The loop prefers sending over taking commands over reading,*)
(* but only when the socket is writable, which can change between any two   *)
(* iterations, so the steps carry no order beyond their own guards.         *)
EXTENDS Stream

CONSTANTS
  MaxOpen,        \* bound: outbound streams each peer opens
  SocketFaults    \* whether the socket may fail at any moment

ASSUME ConnectionAssumption ==
  MaxOpen \in [Peers -> Nat] /\ SocketFaults \in BOOLEAN

Active(p) == p \in Endpoints /\ conn[p] = "Active"

\* Active::cleanup: an unrecoverable error closes all streams and drops the
\* socket with the frames still pending.
cleanup(p) ==
  /\ conn' = [conn EXCEPT ![p] = "CleanupReceivers"]
  /\ DropAllStreams(p)
  /\ DropSocket(p)
  /\ pendR' = [pendR EXCEPT ![p] = <<>>]
  /\ pendW' = [pendW EXCEPT ![p] = <<>>]
  /\ newOut' = [newOut EXCEPT ![p] = FALSE]
  /\ UNCHANGED <<nextId, rx, rtt, pendQ, handleVars, ghostVars>>

----------------------------------------------------------------------------
(* Active::poll, the sending half                                           *)

\* Rtt::next_ping.
PollPing(p) ==
  /\ Active(p) /\ SockReady(p) /\ rtt[p].st = "due"
  /\ SendFrame(p, ping(rtt[p].id))
  /\ rtt' = [rtt EXCEPT ![p].st = "await", ![p].id = @ + 1]
  /\ UNCHANGED <<conn, nextId, rx, newOut, pendVars, sock, tableVars,
                 handleVars, ghostVars>>

\* The interval between pings passes.
PingInterval(p) ==
  /\ Active(p) /\ rtt[p].st = "idle" /\ rtt[p].id < MaxPings[p]
  /\ rtt' = [rtt EXCEPT ![p].st = "due"]
  /\ UNCHANGED <<conn, nextId, rx, newOut, pendVars, sockVars, tableVars,
                 handleVars, ghostVars>>

\* Answers to frames (pongs, go-aways) go before frames of the streams.
PollSend(p) ==
  /\ Active(p) /\ SockReady(p) /\ rtt[p].st # "due"
  /\ \/ /\ pendR[p] # <<>>
        /\ SendFrame(p, Head(pendR[p]))
        /\ pendR' = [pendR EXCEPT ![p] = <<>>]
        /\ UNCHANGED pendW
     \/ /\ pendR[p] = <<>> /\ pendW[p] # <<>>
        /\ SendFrame(p, Head(pendW[p]))
        /\ pendW' = [pendW EXCEPT ![p] = <<>>]
        /\ UNCHANGED pendR
  /\ UNCHANGED <<connVars, pendQ, sock, tableVars, handleVars, ghostVars>>

\* Mutant: the command replaces a frame that still waits for the socket.
PollCommand_overwrites(p, id) ==
  /\ Active(p)
  /\ rx[p][id] = "open" /\ chan[p][id] # <<>>
  /\ pendW' = [pendW EXCEPT ![p] = <<Head(chan[p][id])>>]
  /\ chan' = [chan EXCEPT ![p][id] = Tail(@)]
  /\ UNCHANGED <<connVars, pendR, pendQ, sockVars, tableVars, handle, ghostVars>>

\* The next command of some stream becomes the pending frame.
PollCommand(p, id) ==
  /\ Active(p) /\ pendW[p] = <<>>
  /\ rx[p][id] = "open" /\ chan[p][id] # <<>>
  /\ pendW' = [pendW EXCEPT ![p] = <<Head(chan[p][id])>>]
  /\ chan' = [chan EXCEPT ![p][id] = Tail(@)]
  /\ UNCHANGED <<connVars, pendR, pendQ, sockVars, tableVars, handle, ghostVars>>

\* Mutant: a stream the remote has finished is dropped without our FIN.
DropFrame_open_only(id, state) ==
  IF state \in OpenStates THEN <<reset_stream(id)>> ELSE <<>>

\* The frame that tells the remote about a dropped stream, by its last state.
DropFrame(id, state) ==
  CASE state \in OpenStates    -> <<reset_stream(id)>>
    [] state = "RecvClosed"    -> <<close_stream(id, FALSE)>>
    [] OTHER                   -> <<>>

\* Mutant: the end of the channel is taken, the entry stays in the table.
on_drop_stream_keeps_entry(p, id) ==
  /\ Active(p) /\ pendW[p] = <<>> /\ ChanEnded(p, id)
  /\ rx' = [rx EXCEPT ![p][id] = "done"]
  /\ UNCHANGED <<conn, nextId, newOut, rtt, pendVars, sockVars, tableVars,
                 handleVars, ghostVars>>

\* TaggedStream reports the end of a channel; the entry may be gone already.
on_drop_stream(p, id) ==
  /\ Active(p) /\ pendW[p] = <<>> /\ ChanEnded(p, id)
  /\ rx' = [rx EXCEPT ![p][id] = "done"]
  /\ IF id \in entry[p]
     THEN /\ pendW' = [pendW EXCEPT ![p] = DropFrame(id, shared[p][id].state)]
          /\ SetStreams(p, entry[p] \ {id},
                        [shared[p] EXCEPT ![id] = Woken(To(@, "Closed"))],
                        handle[p])
     ELSE UNCHANGED <<pendW, tableVars>>
  /\ UNCHANGED <<conn, nextId, newOut, rtt, pendR, pendQ, sockVars,
                 handleVars, ghostVars>>

----------------------------------------------------------------------------
(* Active::poll, the receiving half, and on_frame                           *)

IsStreamFrame(f) == f.tag \in {"Data", "WindowUpdate"}
CarriesAck(f)    == IsStreamFrame(f) /\ "ACK" \in f.flags

\* Mutant: an ACK does not wake the task that waits for one.
Receive_silently(p, f) ==
  /\ Active(p) /\ pendR[p] = <<>>
  /\ wire[Other(p)] # <<>> /\ f = Head(wire[Other(p)])
  /\ wire' = [wire EXCEPT ![Other(p)] = Tail(@)]
  /\ UNCHANGED newOut

\* The oldest unread frame is taken off the socket, unless an answer is still
\* waiting to be sent.  An ACK wakes a task waiting to open a stream.
Receive(p, f) ==
  /\ Active(p) /\ pendR[p] = <<>>
  /\ wire[Other(p)] # <<>> /\ f = Head(wire[Other(p)])
  /\ wire' = [wire EXCEPT ![Other(p)] = Tail(@)]
  /\ newOut' = [newOut EXCEPT ![p] = @ /\ ~CarriesAck(f)]

\* The streams of p once on_frame has handled the ACK flag of f.
Acked(p, f) ==
  IF CarriesAck(f) /\ f.id \in entry[p]
  THEN [shared[p] EXCEPT ![f.id] = To(@, "OpenAcked")]
  ELSE shared[p]

\* Action::Terminate: the connection answers and stays active.
Terminate(p, f, goaway) ==
  /\ pendR' = [pendR EXCEPT ![p] = <<goaway>>]
  /\ SetStreams(p, entry[p], Acked(p, f), handle[p])
  /\ UNCHANGED <<conn, nextId, rx, rtt, pendW, pendQ, sock, handleVars, ghostVars>>

\* Mutant: a frame for a stream without entry is a protocol error.
OnUnknown_terminates(p, f) ==
  /\ Receive(p, f)
  /\ IsStreamFrame(f) /\ "SYN" \notin f.flags /\ f.id \notin entry[p]
  /\ Terminate(p, f, protocol_error)

\* A frame other than a SYN for a stream without entry is dropped.
OnUnknown(p, f) ==
  /\ Receive(p, f)
  /\ IsStreamFrame(f) /\ "SYN" \notin f.flags /\ f.id \notin entry[p]
  /\ UNCHANGED <<conn, nextId, rx, rtt, pendVars, sock, tableVars,
                 handleVars, ghostVars>>

KnownOrSyn(p, f) == "SYN" \in f.flags \/ f.id \in entry[p]

\* Mutant: the entry is removed, the handle is woken but its state not changed.
OnReset_keeps_state(p, f) ==
  /\ Receive(p, f)
  /\ IsStreamFrame(f) /\ "RST" \in f.flags /\ KnownOrSyn(p, f)
  /\ SetStreams(p, entry[p] \ {f.id},
                IF f.id \in entry[p]
                THEN [Acked(p, f) EXCEPT ![f.id] = Woken(@)]
                ELSE shared[p],
                handle[p])
  /\ UNCHANGED <<conn, nextId, rx, rtt, pendVars, sock, handleVars, ghostVars>>

\* RST on a data frame or a window update.
OnReset(p, f) ==
  /\ Receive(p, f)
  /\ IsStreamFrame(f) /\ "RST" \in f.flags /\ KnownOrSyn(p, f)
  /\ SetStreams(p, entry[p] \ {f.id},
                IF f.id \in entry[p]
                THEN [Acked(p, f) EXCEPT ![f.id] = Woken(To(@, "Closed"))]
                ELSE shared[p],
                handle[p])
  /\ UNCHANGED <<conn, nextId, rx, rtt, pendVars, sock, handleVars, ghostVars>>

is_valid_remote_id(p, id) == ~is_outbound(p, id)

\* Mutant: max_num_streams is not checked for inbound streams.
SynError_without_limit(p, f) ==
  IF ~is_valid_remote_id(p, f.id) \/ f.id \in entry[p]
     \/ f.len > IF f.tag = "Data" THEN DEFAULT_CREDIT
                                  ELSE U32_MAX - DEFAULT_CREDIT
  THEN <<protocol_error>> ELSE <<>>

\* Why a SYN is refused: the go-away frame of the first check that fails.
SynError(p, f) ==
  CASE ~is_valid_remote_id(p, f.id)             -> <<protocol_error>>
    [] f.id \in entry[p]                        -> <<protocol_error>>
    [] Cardinality(entry[p]) = MaxNumStreams    ->
         IF f.tag = "Data" THEN <<internal_error>> ELSE <<protocol_error>>
    [] f.tag = "Data" /\ f.len > DEFAULT_CREDIT -> <<protocol_error>>
    [] f.tag = "WindowUpdate" /\ f.len + DEFAULT_CREDIT > U32_MAX
                                                -> <<protocol_error>>
    [] OTHER                                    -> <<>>

IsSyn(f) == IsStreamFrame(f) /\ "SYN" \in f.flags /\ "RST" \notin f.flags

RejectSyn(p, f) ==
  /\ Receive(p, f) /\ IsSyn(f) /\ SynError(p, f) # <<>>
  /\ Terminate(p, f, Head(SynError(p, f)))

\* The Shared of an inbound stream: a data frame brings its first bytes, a
\* window update brings credit beyond the default.
InboundShared(f) ==
  LET n == IF f.tag = "Data" THEN f.len ELSE 0
      c == IF f.tag = "Data" THEN 0 ELSE f.len
      s == [NewShared(DEFAULT_CREDIT + c) EXCEPT
              !.fc = consume_receive_window(@, n), !.buf = n]
  IN  IF "FIN" \in f.flags THEN To(s, "RecvClosed") ELSE s

\* make_new_inbound_stream and Action::New: the stream is handed out.
AcceptSyn(p, f) ==
  LET H == [handle[p] EXCEPT ![f.id] = NewHandle("Ack")]
      s == InboundShared(f)
  IN  /\ Receive(p, f) /\ IsSyn(f) /\ SynError(p, f) = <<>>
      /\ handle' = [handle EXCEPT ![p] = H]
      /\ rx' = [rx EXCEPT ![p][f.id] = "open"]
      /\ SetStreams(p, entry[p] \cup {f.id}, [shared[p] EXCEPT ![f.id] = s], H)
      /\ rcvd' = [rcvd EXCEPT ![p][f.id] = s.buf]
      /\ UNCHANGED <<conn, nextId, rtt, pendVars, sock, chan, written>>

\* A frame of an existing stream that carries neither RST nor SYN.
IsPlain(p, f, tag) ==
  /\ f.tag = tag /\ f.id \in entry[p]
  /\ "RST" \notin f.flags /\ "SYN" \notin f.flags

\* The table entry goes when the FIN finds the sending half closed already;
\* the handle keeps the state alive.
AfterFin(p, f, s) ==
  IF "FIN" \in f.flags /\ s.state = "Closed" THEN entry[p] \ {f.id} ELSE entry[p]

\* Mutant: a frame without body is dropped before its FIN is looked at.
Finished_skips_empty(s, f) ==
  IF "FIN" \in f.flags /\ f.len > 0 THEN To(s, "RecvClosed") ELSE s

Finished(s, f) == IF "FIN" \in f.flags THEN To(s, "RecvClosed") ELSE s

\* Mutant: the reader is not woken.
Delivered_silently(s, f) ==
  Finished([s EXCEPT !.fc = consume_receive_window(@, f.len),
                     !.buf = @ + f.len], f)

\* The body goes to the buffer, and the reader is woken.
Delivered(s, f) ==
  Finished([s EXCEPT !.fc = consume_receive_window(@, f.len),
                     !.buf = @ + f.len, !.reader = FALSE], f)

on_data(p, f) ==
  LET s1 == Acked(p, f)[f.id]
      s2 == Delivered(s1, f)
  IN  /\ Receive(p, f) /\ IsPlain(p, f, "Data")
      /\ \/ /\ can_consume_receive_window(s1.fc, f.len)
            /\ SetStreams(p, AfterFin(p, f, s2),
                          [shared[p] EXCEPT ![f.id] = s2], handle[p])
            /\ rcvd' = [rcvd EXCEPT ![p][f.id] = @ + f.len]
            /\ UNCHANGED <<conn, nextId, rx, rtt, pendVars, sock, handleVars,
                           written>>
         \/ /\ ~can_consume_receive_window(s1.fc, f.len)
            /\ Terminate(p, f, protocol_error)

\* Mutant: the writer is not woken.
Refilled_silently(s, f) ==
  Finished([s EXCEPT !.fc = increase_send_window_by(@, f.len)], f)

\* The credit goes to the sender's window, and the writer is woken.
Refilled(s, f) ==
  Finished([s EXCEPT !.fc = increase_send_window_by(@, f.len),
                     !.writer = FALSE,
                     !.reader = @ /\ "FIN" \notin f.flags], f)

on_window_update(p, f) ==
  LET s1 == Acked(p, f)[f.id]
      s2 == Refilled(s1, f)
  IN  /\ Receive(p, f) /\ IsPlain(p, f, "WindowUpdate")
      /\ \/ /\ can_increase_send_window_by(s1.fc, f.len)
            /\ SetStreams(p, AfterFin(p, f, s2),
                          [shared[p] EXCEPT ![f.id] = s2], handle[p])
            /\ UNCHANGED <<conn, nextId, rx, rtt, pendVars, sock, handleVars,
                           ghostVars>>
         \/ /\ ~can_increase_send_window_by(s1.fc, f.len)
            /\ Terminate(p, f, protocol_error)

\* A ping is answered unless it names a stream that does not exist.
on_ping(p, f) ==
  /\ Receive(p, f) /\ f.tag = "Ping" /\ "ACK" \notin f.flags
  /\ pendR' = [pendR EXCEPT ![p] =
       IF f.id = CONNECTION_ID \/ f.id \in entry[p] THEN <<pong(f.len)>> ELSE <<>>]
  /\ UNCHANGED <<conn, nextId, rx, rtt, pendW, pendQ, sock, tableVars,
                 handleVars, ghostVars>>

\* Mutant: the pong is compared with the next ping's nonce.
handle_pong_expects_next(p, f) ==
  /\ Receive(p, f) /\ f.tag = "Ping" /\ "ACK" \in f.flags
  /\ IF rtt[p].st = "await" /\ f.len = rtt[p].id
     THEN /\ rtt' = [rtt EXCEPT ![p].st = "idle", ![p].known = TRUE]
          /\ UNCHANGED pendR
     ELSE /\ pendR' = [pendR EXCEPT ![p] = <<protocol_error>>]
          /\ UNCHANGED rtt
  /\ UNCHANGED <<conn, nextId, rx, pendW, pendQ, sock, tableVars, handleVars,
                 ghostVars>>

\* Rtt::handle_pong: an unexpected pong is a protocol error.
handle_pong(p, f) ==
  /\ Receive(p, f) /\ f.tag = "Ping" /\ "ACK" \in f.flags
  /\ IF rtt[p].st = "await" /\ f.len = rtt[p].id - 1
     THEN /\ rtt' = [rtt EXCEPT ![p].st = "idle", ![p].known = TRUE]
          /\ UNCHANGED pendR
     ELSE /\ pendR' = [pendR EXCEPT ![p] = <<protocol_error>>]
          /\ UNCHANGED rtt
  /\ UNCHANGED <<conn, nextId, rx, pendW, pendQ, sock, tableVars, handleVars,
                 ghostVars>>

\* A go-away of any code, a socket error, or the socket's other end is gone:
\* the end is read or, perhaps before everything is read, a write fails.
PollFail(p) ==
  /\ Active(p)
  /\ \/ /\ pendR[p] = <<>> /\ wire[Other(p)] # <<>>
        /\ Head(wire[Other(p)]).tag = "GoAway"
     \/ SocketFaults
     \/ sock[Other(p)] = "closed"
  /\ cleanup(p)

on_frame(p) ==
  wire[Other(p)] # <<>> /\
  LET f == Head(wire[Other(p)])
  IN  \/ OnUnknown(p, f) \/ OnReset(p, f)
      \/ RejectSyn(p, f) \/ AcceptSyn(p, f)
      \/ on_data(p, f)   \/ on_window_update(p, f)
      \/ on_ping(p, f)   \/ handle_pong(p, f)

----------------------------------------------------------------------------
(* Active::poll_new_outbound                                                *)

ack_backlog(p) ==
  Cardinality({id \in entry[p] : /\ is_outbound(p, id)
                                 /\ is_pending_ack(shared[p][id].state)})

Opened(p) == nextId[p] \div 2 - (IF p = "Client" THEN 0 ELSE 1)

MayOpen(p) == Active(p) /\ ~newOut[p] /\ Opened(p) < MaxOpen[p]

AtStreamLimit(p) == Cardinality(entry[p]) >= MaxNumStreams
\* Mutant: one stream too many.
AtAckBacklog_off_by_one(p) == ack_backlog(p) > MAX_ACK_BACKLOG

AtAckBacklog(p)  == ack_backlog(p) >= MAX_ACK_BACKLOG

\* next_stream_id: the id after the next one must exist too.
NoIdLeft(p) == nextId[p] + 2 > MAX_ID

\* TooManyStreams and NoMoreStreamIds are errors of the whole connection.
OpenFail(p) ==
  /\ MayOpen(p)
  /\ \/ AtStreamLimit(p)
     \/ ~AtAckBacklog(p) /\ NoIdLeft(p)
  /\ cleanup(p)

OpenWait(p) ==
  /\ MayOpen(p) /\ ~AtStreamLimit(p) /\ AtAckBacklog(p)
  /\ newOut' = [newOut EXCEPT ![p] = TRUE]
  /\ UNCHANGED <<conn, nextId, rx, rtt, pendVars, sockVars, tableVars,
                 handleVars, ghostVars>>

poll_new_outbound(p) ==
  LET id == nextId[p]
      H  == [handle[p] EXCEPT ![id] = NewHandle("Syn")]
  IN  /\ MayOpen(p) /\ ~AtStreamLimit(p) /\ ~AtAckBacklog(p)
      /\ ~NoIdLeft(p)
      /\ nextId' = [nextId EXCEPT ![p] = @ + 2]
      /\ handle' = [handle EXCEPT ![p] = H]
      /\ rx' = [rx EXCEPT ![p][id] = "open"]
      /\ SetStreams(p, entry[p] \cup {id},
                    [shared[p] EXCEPT ![id] = NewShared(DEFAULT_CREDIT)], H)
      /\ UNCHANGED <<conn, newOut, rtt, pendVars, sockVars, chan, ghostVars>>
============================================================================
