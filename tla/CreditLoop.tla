----------------------------- MODULE CreditLoop -----------------------------
(* The credit of one direction of a stream, as a sender and a receiver that  *)
(* both run flow_control.rs pass it around, for windows of any size: the     *)
(* sender spends credit on data, data takes up window, reading and granting  *)
(* a window update gives credit back.  Frames under way are only counted.    *)
EXTENDS FlowController

VARIABLES
  stage,     \* "on": the stream exists and both sides accept its frames
  send,      \* the sender's send_window
  flight,    \* bytes of data under way
  recv,      \* the receiver's receive_window
  max,       \* the receiver's max_receive_window
  buf,       \* bytes in the receive buffer
  credit,    \* credit of window updates under way
  verdict    \* "broken": a side found the other to violate the protocol

loop == <<stage, send, flight, recv, max, buf, credit, verdict>>

\* No stream: no windows, nothing under way.
Off == stage = "off" /\ send = 0 /\ recv = 0 /\ max = 0
                  /\ flight = 0 /\ buf = 0 /\ credit = 0

\* All windows at w, nothing under way.
ResetTo(w) ==
  /\ send' = w /\ recv' = w /\ max' = w
  /\ flight' = 0 /\ buf' = 0 /\ credit' = 0
  /\ UNCHANGED verdict

LoopInit == Off /\ verdict = "ok"

\* make_new_outbound_stream; the receiver starts from the same values when the
\* SYN arrives (make_new_inbound_stream).
Start == stage = "off" /\ stage' = "on" /\ ResetTo(DEFAULT_CREDIT)

\* The entry goes on either side, or a connection ends.
Stop == stage = "on" /\ stage' = "off" /\ ResetTo(0)

\* poll_write takes k bytes of credit.
Spend ==
  \E k \in 1 .. send :
    /\ send' = send - k /\ flight' = flight + k
    /\ UNCHANGED <<stage, recv, max, buf, credit, verdict>>

\* on_data: a body of k bytes that exceeds the window is a protocol error.
Arrive ==
  \E k \in 1 .. flight :
    /\ flight' = flight - k
    /\ IF k <= recv
       THEN recv' = recv - k /\ buf' = buf + k /\ UNCHANGED verdict
       ELSE verdict' = "broken" /\ UNCHANGED <<recv, buf>>
    /\ UNCHANGED <<stage, send, max, credit>>

\* poll_read takes k bytes out of the buffer.
Consume ==
  \E k \in 1 .. buf :
    buf' = buf - k /\ UNCHANGED <<stage, send, flight, recv, max, credit, verdict>>

\* Mutant: bytes that are still buffered are granted again.
Grant_ignores_buffer ==
  \E m \in max .. U32_MAX :
    LET c == m - recv
    IN  /\ max' = m /\ recv' = recv + c /\ credit' = credit + c
        /\ stage = "on" /\ UNCHANGED <<stage, send, flight, buf, verdict>>

\* next_window_update, with whatever maximum the auto-tuning arrives at.
Grant ==
  \E m \in max .. U32_MAX :
    LET c == Consumed(m, recv, buf)
    IN  /\ max' = m /\ recv' = recv + c /\ credit' = credit + c
        /\ stage = "on" /\ UNCHANGED <<stage, send, flight, buf, verdict>>

\* Mutant: a window of exactly u32::MAX counts as an overflow.
Refill_below_max ==
  \E c \in 1 .. credit :
    /\ credit' = credit - c
    /\ IF send + c < U32_MAX
       THEN send' = send + c /\ UNCHANGED verdict
       ELSE verdict' = "broken" /\ UNCHANGED send
    /\ UNCHANGED <<stage, flight, recv, max, buf>>

\* on_window_update: a window beyond u32 is a protocol error.
Refill ==
  \E c \in 1 .. credit :
    /\ credit' = credit - c
    /\ IF send + c <= U32_MAX
       THEN send' = send + c /\ UNCHANGED verdict
       ELSE verdict' = "broken" /\ UNCHANGED send
    /\ UNCHANGED <<stage, flight, recv, max, buf>>

LoopNext ==
  \/ Start \/ Stop
  \/ Spend \/ Arrive \/ Consume \/ Grant \/ Refill

LoopSpec == LoopInit /\ [][LoopNext]_loop

----------------------------------------------------------------------------

\* The state of the loop: windows are u32 values, the counters are naturals.
LoopTypeOK ==
  /\ stage \in {"on", "off"} /\ verdict \in {"ok", "broken"}
  /\ send \in 0 .. U32_MAX /\ recv \in 0 .. U32_MAX /\ max \in 0 .. U32_MAX
  /\ flight \in Nat /\ buf \in Nat /\ credit \in Nat

\* No credit is lost or invented on the way round (consume_send_window,
\* consume_receive_window, next_window_update, increase_send_window_by).
Conservation == send + flight + credit = recv

\* Buffer and window together never exceed the maximum: the memory bound that
\* assert_invariants states, strengthened so that it is inductive.
WindowBound == recv + buf <= max

LoopInv == LoopTypeOK /\ Conservation /\ WindowBound /\ (stage = "off" => Off)

\* Neither side ever finds the other in violation of the protocol: data always
\* fits the window (on_data) and credit never overflows (on_window_update).
NeverBroken == verdict = "ok"
============================================================================
