---------------------------- MODULE StreamState ----------------------------
(* The state of a yamux stream and its update rule (connection/stream.rs).  *)
(* State::Open { acknowledged } is split in two values.                     *)

OpenStates   == {"OpenPending", "OpenAcked"}
StreamStates == OpenStates \cup {"SendClosed", "RecvClosed", "Closed"}

can_read(s)  == s \notin {"RecvClosed", "Closed"}
can_write(s) == s \notin {"SendClosed", "Closed"}

is_pending_ack(s) == s = "OpenPending"

\* Mutant: only Closed is remembered, a half-closed stream goes anywhere.
update_state_half_reopens(current, next) ==
  IF current = "Closed" THEN current ELSE next

\* Shared::update_state: the state after asking for `next` in state `current`.
\* An open stream goes anywhere; a half-closed one only on to Closed, by a
\* reset or by the other half; Closed is final.
update_state(current, next) ==
  IF current \in OpenStates THEN next
  ELSE IF \/ next = "Closed"
          \/ {current, next} = {"SendClosed", "RecvClosed"}
       THEN "Closed"
       ELSE current
============================================================================
