------------------------------- MODULE Frame -------------------------------
(* The yamux frame (frame.rs, frame/header.rs).  A frame is its header with *)
(* the body reduced to its place in the byte sequence its writer produced:  *)
(*                                                                          *)
(*   len   the header's length field: body length of a data frame, credit   *)
(*         of a window update, opaque value of a ping, code of a go-away;   *)
(*   pos   the number of bytes the writer put on the stream before this     *)
(*         body.  It is not on the wire: it stands for the body's content.  *)
EXTENDS Integers

Tags  == {"Data", "WindowUpdate", "Ping", "GoAway"}
Flags == {"SYN", "ACK", "FIN", "RST"}

CONNECTION_ID == 0

is_server(id) == id % 2 = 0
is_client(id) == ~is_server(id)

Header(tag, flags, id, len) ==
  [tag |-> tag, flags |-> flags, id |-> id, len |-> len, pos |-> 0]

\* The go-away codes 0, 1, 2: session ended, protocol error, internal error.
term           == Header("GoAway", {}, CONNECTION_ID, 0)
protocol_error == Header("GoAway", {}, CONNECTION_ID, 1)
internal_error == Header("GoAway", {}, CONNECTION_ID, 2)

data(id, pos, n)          == [Header("Data", {}, id, n) EXCEPT !.pos = pos]
window_update(id, credit) == Header("WindowUpdate", {}, id, credit)

close_stream(id, ack) ==
  Header("Data", {"FIN"} \cup (IF ack THEN {"ACK"} ELSE {}), id, 0)

reset_stream(id) == Header("Data", {"RST"}, id, 0)

ping(n) == Header("Ping", {"SYN"}, CONNECTION_ID, n)
pong(n) == Header("Ping", {"ACK"}, CONNECTION_ID, n)

with_flags(f, fl) == [f EXCEPT !.flags = @ \cup fl]
============================================================================
