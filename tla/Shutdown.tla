------------------------------ MODULE Shutdown ------------------------------
(* The end of a connection: Connection::poll_close and the Closing future   *)
(* (connection/closing.rs), the Cleanup future (connection/cleanup.rs) and  *)
(* dropping the Connection.  The handles go on living, in other tasks.      *)
EXTENDS Connection

CONSTANT
  MayClose   \* the peers whose application closes or drops its connection

ASSUME ShutdownAssumption == MayClose \subseteq Peers

Goto(p, state) == conn' = [conn EXCEPT ![p] = state]

ClosingStates == {"ClosingReceivers", "Draining", "Flushing", "ClosingSocket"}
CleanupStates == {"CleanupReceivers", "CleanupDraining"}
ConnStates    == {"Active", "Closed"} \cup ClosingStates \cup CleanupStates

\* Mutant: the frames that wait for the socket are forgotten.
connection_close_forgets(p) ==
  /\ Active(p) /\ p \in MayClose
  /\ Goto(p, "ClosingReceivers")
  /\ pendR' = [pendR EXCEPT ![p] = <<>>]
  /\ pendW' = [pendW EXCEPT ![p] = <<>>]
  /\ newOut' = [newOut EXCEPT ![p] = FALSE]
  /\ SetStreams(p, {}, shared[p], handle[p])
  /\ UNCHANGED <<nextId, rx, rtt, pendQ, sockVars, handleVars, ghostVars>>

\* poll_close on an active connection.  Active::close keeps the pending frames
\* but lets go of the table without closing or waking its streams.
connection_close(p) ==
  /\ Active(p) /\ p \in MayClose
  /\ Goto(p, "ClosingReceivers")
  /\ pendQ' = [pendQ EXCEPT ![p] = pendR[p] \o pendW[p]]
  /\ pendR' = [pendR EXCEPT ![p] = <<>>]
  /\ pendW' = [pendW EXCEPT ![p] = <<>>]
  /\ newOut' = [newOut EXCEPT ![p] = FALSE]
  /\ SetStreams(p, {}, shared[p], handle[p])
  /\ UNCHANGED <<nextId, rx, rtt, sockVars, handleVars, ghostVars>>

\* State::ClosingStreamReceiver, in Closing and in Cleanup.
CloseAllReceivers(p) ==
  /\ \/ conn[p] = "ClosingReceivers" /\ Goto(p, "Draining")
     \/ conn[p] = "CleanupReceivers" /\ Goto(p, "CleanupDraining")
  /\ CloseReceivers(p)
  /\ UNCHANGED <<nextId, newOut, rtt, pendVars, sockVars, tableVars,
                 handleVars, ghostVars>>

\* State::DrainingStreamReceiver of Closing: commands queue up behind the
\* frames that were pending, in the order each stream gave them.
DrainCommand(p, id) ==
  /\ conn[p] = "Draining" /\ chan[p][id] # <<>>
  /\ pendQ' = [pendQ EXCEPT ![p] = Append(@, Head(chan[p][id]))]
  /\ chan' = [chan EXCEPT ![p][id] = Tail(@)]
  /\ UNCHANGED <<connVars, pendR, pendW, sockVars, tableVars, handle, ghostVars>>

DrainDone(p) ==
  /\ conn[p] = "Draining" /\ \A id \in Ids : chan[p][id] = <<>>
  /\ pendQ' = [pendQ EXCEPT ![p] = Append(@, term)]
  /\ Goto(p, "Flushing")
  /\ UNCHANGED <<nextId, rx, newOut, rtt, pendR, pendW, sockVars, tableVars,
                 handleVars, ghostVars>>

\* State::FlushingPendingFrames.
FlushFrame(p) ==
  /\ conn[p] = "Flushing" /\ SockReady(p)
  /\ \/ /\ pendQ[p] # <<>>
        /\ SendFrame(p, Head(pendQ[p]))
        /\ pendQ' = [pendQ EXCEPT ![p] = Tail(@)]
        /\ UNCHANGED conn
     \/ /\ pendQ[p] = <<>> /\ Goto(p, "ClosingSocket")
        /\ UNCHANGED <<wire, pendQ>>
  /\ UNCHANGED <<nextId, rx, newOut, rtt, pendR, pendW, sock, tableVars,
                 handleVars, ghostVars>>

\* State::ClosingSocket: what the socket accepted still reaches the remote.
CloseSocket(p) ==
  /\ conn[p] = "ClosingSocket"
  /\ Goto(p, "Closed")
  /\ sock' = [sock EXCEPT ![p] = "closed"]
  /\ UNCHANGED <<nextId, rx, newOut, rtt, pendVars, wire, tableVars,
                 handleVars, ghostVars>>

\* A socket error ends Closing; its pending frames are lost.
ClosingError(p) ==
  /\ conn[p] \in {"Flushing", "ClosingSocket"}
  /\ SocketFaults \/ sock[Other(p)] = "closed"
  /\ Goto(p, "Closed")
  /\ DropSocket(p)
  /\ pendQ' = [pendQ EXCEPT ![p] = <<>>]
  /\ UNCHANGED <<nextId, rx, newOut, rtt, pendR, pendW, tableVars, handleVars,
                 ghostVars>>

\* Receivers are dropped, and the commands in them.
DropReceivers(p) == chan' = [chan EXCEPT ![p] = [id \in Ids |-> <<>>]]

\* State::DrainingStreamReceiver of Cleanup.
CleanupDrain(p) ==
  /\ conn[p] = "CleanupDraining"
  /\ Goto(p, "Closed")
  /\ DropReceivers(p)
  /\ UNCHANGED <<nextId, rx, newOut, rtt, pendVars, sockVars, tableVars, handle,
                 ghostVars>>

\* Mutant: an active connection lets go of its streams without a word.
connection_drop_untold(p) ==
  /\ p \in Endpoints \cap MayClose /\ conn[p] # "Closed"
  /\ Goto(p, "Closed")
  /\ IF conn[p] = "Active" THEN SetStreams(p, {}, shared[p], handle[p])
                           ELSE UNCHANGED tableVars
  /\ IF sock[p] = "open" THEN DropSocket(p) ELSE UNCHANGED sockVars
  /\ CloseReceivers(p) /\ DropReceivers(p)
  /\ pendR' = [pendR EXCEPT ![p] = <<>>]
  /\ pendW' = [pendW EXCEPT ![p] = <<>>]
  /\ pendQ' = [pendQ EXCEPT ![p] = <<>>]
  /\ newOut' = [newOut EXCEPT ![p] = FALSE]
  /\ UNCHANGED <<nextId, rtt, handle, ghostVars>>

\* Drop for Connection: only an active one closes and wakes its streams.
connection_drop(p) ==
  /\ p \in Endpoints \cap MayClose /\ conn[p] # "Closed"
  /\ Goto(p, "Closed")
  /\ IF conn[p] = "Active" THEN DropAllStreams(p) ELSE UNCHANGED tableVars
  /\ IF sock[p] = "open" THEN DropSocket(p) ELSE UNCHANGED sockVars
  /\ CloseReceivers(p) /\ DropReceivers(p)
  /\ pendR' = [pendR EXCEPT ![p] = <<>>]
  /\ pendW' = [pendW EXCEPT ![p] = <<>>]
  /\ pendQ' = [pendQ EXCEPT ![p] = <<>>]
  /\ newOut' = [newOut EXCEPT ![p] = FALSE]
  /\ UNCHANGED <<nextId, rtt, handle, ghostVars>>
============================================================================
