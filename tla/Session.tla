------------------------------ MODULE Session ------------------------------
(* Two endpoints over one socket: the composition of the stream handles, the *)
(* connections and their shutdown.  A peer outside Endpoints is a foreign   *)
(* implementation: it sends any of ForeignFrames and reads whatever comes.  *)
EXTENDS Shutdown

CONSTANTS
  ForeignFrames,   \* frames a foreign peer may send
  MaxForeign,      \* bound: how many of them it sends
  MayDrop          \* the peers whose application drops stream handles

VARIABLE sentForeign

ASSUME SessionAssumption ==
  /\ MaxForeign \in Nat /\ MayDrop \subseteq Peers
  /\ ForeignFrames \subseteq [tag : Tags, flags : SUBSET Flags, id : 0 .. NumIds,
                              len : 0 .. U32_MAX, pos : {0}]
  /\ \A f \in ForeignFrames : IsStreamFrame(f) => f.id \in Ids

allVars == <<vars, sentForeign>>

SessionInit == Init /\ sentForeign = 0

\* A foreign peer does not open an id again while the handle of the stream
\* that had it is still alive: two handles with one id are not modelled.
ReusesId(p, f) ==
  LET q == Other(p)
  IN  /\ f.id \in Ids /\ "SYN" \in f.flags
      /\ \/ \E i \in DOMAIN wire[p] : wire[p][i].id = f.id
         \/ f.id \notin entry[q] /\ rx[q][f.id] \notin {"none", "done"}

ForeignSend ==
  \E p \in Peers \ Endpoints, f \in ForeignFrames :
    /\ sentForeign < MaxForeign /\ SockReady(p) /\ sock[p] = "open"
    /\ ~ReusesId(p, f)
    /\ SendFrame(p, f)
    /\ sentForeign' = sentForeign + 1
    /\ UNCHANGED <<connVars, pendVars, sock, tableVars, handleVars, ghostVars>>

ForeignReceive ==
  \E p \in Peers \ Endpoints :
    /\ wire[Other(p)] # <<>>
    /\ wire' = [wire EXCEPT ![Other(p)] = Tail(@)]
    /\ UNCHANGED <<connVars, pendVars, sock, tableVars, handleVars, ghostVars,
                   sentForeign>>

\* stream_receivers.poll_next: a command of some stream, or the end of one.
TakeCommand(p) ==
  \E id \in Ids : PollCommand(p, id) \/ on_drop_stream(p, id)

\* What the connection's task does when it is polled.
ConnectionStep(p) ==
  \/ PollPing(p) \/ PollSend(p) \/ on_frame(p) \/ PollFail(p)
  \/ TakeCommand(p)

\* The rest of an operation a handle has begun.
FinishOp(p, id) ==
  \/ WriteSend(p, id) \/ CloseDone(p, id)
  \/ \E fast \in BOOLEAN : send_window_update(p, id, fast)
  \/ \E k \in 0 .. shared[p][id].buf : ReadUpdateSend(p, id, k)

ReadStart(p, id) ==
  \/ ReadCheck(p, id)
  \/ \E k \in 0 .. shared[p][id].buf : ReadCopy(p, id, k)

WriteStart(p, id) ==
  \/ \E n \in 1 .. MaxBytes[p] - written[p][id] : poll_write(p, id, n)
  \/ written[p][id] < MaxBytes[p] /\ WritePark(p, id)

ApplicationStep(p) ==
  \/ OpenFail(p) \/ OpenWait(p) \/ poll_new_outbound(p)
  \/ \E id \in Ids : \/ WriteStart(p, id) \/ ReadStart(p, id)
                     \/ poll_close(p, id) \/ FinishOp(p, id)
                     \/ p \in MayDrop /\ DropHandle(p, id)

ShutdownStep(p) ==
  \/ CloseAllReceivers(p) \/ DrainDone(p)
  \/ FlushFrame(p) \/ CloseSocket(p) \/ ClosingError(p) \/ CleanupDrain(p)
  \/ \E id \in Ids : DrainCommand(p, id)

EndpointStep(p) ==
  \/ ConnectionStep(p) \/ ApplicationStep(p) \/ ShutdownStep(p)
  \/ PingInterval(p) \/ connection_close(p) \/ connection_drop(p)

SessionNext ==
  \/ \E p \in Endpoints : EndpointStep(p) /\ UNCHANGED sentForeign
  \/ ForeignSend
  \/ ForeignReceive

Spec == SessionInit /\ [][SessionNext]_allVars

\* The connection's task is polled whenever it can do something, as the crate
\* demands of its user; tasks in the middle of an operation run on, and
\* applications keep reading.  Which of the steps is taken is left open.  Nobody
\* has to open, write, close or drop anything, and time need not pass.
Fairness ==
  \A p \in Endpoints :
    /\ WF_allVars((ConnectionStep(p) \/ ShutdownStep(p)) /\ UNCHANGED sentForeign)
    /\ WF_allVars((\E id \in Ids : FinishOp(p, id) \/ ReadStart(p, id))
                    /\ UNCHANGED sentForeign)

FairSpec == Spec /\ Fairness
============================================================================
