------------------------------ MODULE BytePipe ------------------------------
(* What one direction of a yamux stream promises its users: the reader gets *)
(* the bytes the writer wrote, in order, and is told the end only after the *)
(* last of them.  A reset or the end of the connection may cut it short.    *)
EXTENDS Naturals

VARIABLES
  sent,      \* bytes accepted from the writer
  received,  \* bytes in the hands of the reading side
  status     \* "open", "eof": end reported to the reader, "over": torn down

pipe == <<sent, received, status>>

PipeInit == sent = 0 /\ received = 0 /\ status = "open"

Write ==
  /\ status # "eof" /\ sent' > sent
  /\ UNCHANGED <<received, status>>

Deliver ==
  /\ status = "open" /\ received' > received /\ received' <= sent
  /\ UNCHANGED <<sent, status>>

Finish ==
  /\ status = "open" /\ received = sent /\ status' = "eof"
  /\ UNCHANGED <<sent, received>>

TearDown == status' = "over" /\ UNCHANGED <<sent, received>>

PipeNext == Write \/ Deliver \/ Finish \/ TearDown

\* [PipeNext]_pipe, the frequent case first.
PipeStep == UNCHANGED pipe \/ PipeNext

PipeSpec == PipeInit /\ [][PipeNext]_pipe
============================================================================
