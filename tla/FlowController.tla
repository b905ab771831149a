--------------------------- MODULE FlowController ---------------------------
(* The flow control arithmetic of one stream                                *)
(* (connection/stream/flow_control.rs) as operators: a controller is a      *)
(* record with receive_window, max_receive_window and send_window; `acc` is *)
(* the connection-wide accumulated_max_stream_windows.                      *)
EXTENDS Integers

CONSTANTS
  DEFAULT_CREDIT,   \* initial window of a stream
  U32_MAX,          \* largest u32: the width of every window
  MaxConnWindow,    \* Config::max_connection_receive_window (None: usize::MAX)
  MaxNumStreams     \* Config::max_num_streams

\* What the setters of Config assert: every stream gets its default window.
ConfigAccepted == MaxNumStreams * DEFAULT_CREDIT <= MaxConnWindow

ASSUME FlowAssumption ==
  /\ DEFAULT_CREDIT \in Nat \ {0}
  /\ U32_MAX \in Nat
  /\ DEFAULT_CREDIT <= U32_MAX
  /\ MaxNumStreams \in Nat
  /\ MaxConnWindow \in Nat
  /\ ConfigAccepted

Min2(a, b) == IF a <= b THEN a ELSE b

saturating_sub(a, b) == IF a >= b THEN a - b ELSE 0

\* The growth budget the streams share: what the connection limit leaves above
\* DEFAULT_CREDIT for each permitted stream.
GrowthBudget == MaxConnWindow - MaxNumStreams * DEFAULT_CREDIT

new_controller(send) ==
  [receive_window |-> DEFAULT_CREDIT, max_receive_window |-> DEFAULT_CREDIT,
   send_window |-> send]

\* Bytes the application has taken out of the buffer and not granted again.
Consumed(max, recv, buffer_len) == saturating_sub(max - recv, buffer_len)

\* No update while half or more of the window is still with the sender.
UpdateDue(fc, buffer_len) ==
  Consumed(fc.max_receive_window, fc.receive_window, buffer_len)
    >= fc.max_receive_window \div 2

\* Mutant: doubling looks at u32 only, not at the connection's budget.
GrownMax_unbudgeted(max, acc) == Min2(2 * max, U32_MAX)

\* Auto-tuning: double the maximum, within u32 and the connection's budget.
GrownMax(max, acc) ==
  Min2(Min2(2 * max, U32_MAX), Min2(max + (GrowthBudget - acc), U32_MAX))

\* max_receive_window after next_window_update; `fast` says that a round trip
\* time is known and less than two of them passed since the last update.
NextMax(fc, acc, fast) ==
  IF fast THEN GrownMax(fc.max_receive_window, acc) ELSE fc.max_receive_window

\* Mutant: the credit is not recalculated after the maximum has grown.
NextCredit_of_old_max(fc, acc, fast, buffer_len) ==
  Consumed(fc.max_receive_window, fc.receive_window, buffer_len)

\* The credit next_window_update returns when it returns Some.
NextCredit(fc, acc, fast, buffer_len) ==
  Consumed(NextMax(fc, acc, fast), fc.receive_window, buffer_len)

\* Mutant: the granted credit is not added to the receive window.
AfterUpdate_keeps_window(fc, acc, fast, buffer_len) ==
  [fc EXCEPT !.max_receive_window = NextMax(fc, acc, fast)]

\* Mutant: a stream's growth is held against its own excess, not against the
\* counter that all streams share.
AfterUpdate_own_budget(fc, acc, fast, buffer_len) ==
  LET own == fc.max_receive_window - DEFAULT_CREDIT
  IN  [fc EXCEPT !.max_receive_window = NextMax(fc, own, fast),
                 !.receive_window = @ + NextCredit(fc, own, fast, buffer_len)]

\* The controller and the shared counter next_window_update leaves behind.
AfterUpdate(fc, acc, fast, buffer_len) ==
  [fc EXCEPT !.max_receive_window = NextMax(fc, acc, fast),
             !.receive_window = @ + NextCredit(fc, acc, fast, buffer_len)]

AccAfterUpdate(fc, acc, fast) ==
  acc + (NextMax(fc, acc, fast) - fc.max_receive_window)

\* Mutant: a body is compared with the maximum instead of the window left.
can_consume_maximum(fc, n) == n <= fc.max_receive_window

\* The checked operations: whether they succeed, and their results.
can_consume_receive_window(fc, n) == n <= fc.receive_window
consume_receive_window(fc, n)     == [fc EXCEPT !.receive_window = @ - n]

\* Mutant: the addition to the send window is not checked.
can_always_increase(fc, n) == TRUE

can_increase_send_window_by(fc, n) == fc.send_window + n <= U32_MAX
increase_send_window_by(fc, n)     == [fc EXCEPT !.send_window = @ + n]

consume_send_window(fc, n) == [fc EXCEPT !.send_window = @ - n]
============================================================================
