---------------------------- MODULE FlowControl ----------------------------
(* CreditLoop and WindowBudget together: the receiving end of the loop is   *)
(* stream 1 of a connection that has other streams, so its maximum is what  *)
(* the shared budget lets it be.                                            *)
EXTENDS CreditLoop, WindowBudget

ASSUME StreamAssumption == NumSlots >= 1

flow == <<loop, budget>>

FlowInit == LoopInit /\ BudgetInit

StreamStarts == Start /\ Create(1)

\* Either side lets go of the stream; the receiver's Shared may live on.
StreamStops == Stop /\ UNCHANGED budget

\* Mutant: the maximum is doubled without taking from the budget.
Update_off_budget == Grant /\ max' = Min2(2 * max, U32_MAX) /\ UNCHANGED budget

\* next_window_update: the maximum stays, or grows within the budget.
Update ==
  \/ Grant /\ max' = max /\ UNCHANGED budget
  \/ Grant /\ Grow(1) /\ max' = window'[1]

\* The receiver has not heard of the end, or its handle outlives the entry.
Lingers == stage = "off" /\ (Grow(1) \/ Release(1)) /\ UNCHANGED loop

OtherStreams ==
  /\ \E i \in Slots \ {1} : Create(i) \/ Grow(i) \/ Release(i)
  /\ UNCHANGED loop

FlowNext ==
  \/ StreamStarts \/ StreamStops \/ Update \/ Lingers \/ OtherStreams
  \/ (Spend \/ Arrive \/ Consume \/ Refill) /\ UNCHANGED budget

FlowSpec == FlowInit /\ [][FlowNext]_flow

\* What the sender of stream 1 may have under way, in its buffer or yet to send
\* fits the window the connection has accounted for, with the streams' growth
\* within the limit of Config: the memory a remote can make the connection hold.
MemoryAccounted ==
  stage = "on" =>
    /\ send + flight + credit + buf <= window[1]
    /\ window[1] - DEFAULT_CREDIT <= total
============================================================================
