----------------------------- MODULE MCSession -----------------------------
(* Values of the constants of Session for model checking.                   *)
EXTENDS SessionProperties

BothPeers  == Peers
OnlyServer == {"Server"}

ClientOpensOne  == [p \in Peers |-> IF p = "Client" THEN 1 ELSE 0]
ClientOpensTwo  == [p \in Peers |-> IF p = "Client" THEN 2 ELSE 0]
ClientTwoServerOne == [p \in Peers |-> IF p = "Client" THEN 2 ELSE 1]
EachOpensOne    == [p \in Peers |-> 1]
NoneOpen        == [p \in Peers |-> 0]

NoPings       == [p \in Peers |-> 0]
OnePingEach   == [p \in Peers |-> 1]
BothPing      == [p \in Peers |-> IF p = "Server" THEN 2 ELSE 1]

Bytes(c, s) == [p \in Peers |-> IF p = "Client" THEN c ELSE s]
Bytes11 == Bytes(1, 1)
Bytes20 == Bytes(2, 0)
Bytes22 == Bytes(2, 2)
Bytes31 == Bytes(3, 1)
Bytes40 == Bytes(4, 0)

\* What a foreign client may send about streams 1 and 2 and the session: every
\* flag that a handler tests, windows and bodies around their limits.
AnyFrames ==
  {Header(tag, flags, 1, len) :
     tag \in {"Data", "WindowUpdate"},
     flags \in {{}, {"SYN"}, {"ACK"}, {"FIN"}, {"RST"}}, len \in {0, 2}}
  \cup {data(1, 0, 1), with_flags(data(1, 0, 3), {"SYN"}), with_flags(data(2, 0, 1), {"SYN"}),
        window_update(1, U32_MAX), with_flags(window_update(1, U32_MAX), {"SYN"}),
        with_flags(window_update(3, 0), {"SYN", "FIN"}),
        ping(0), pong(0), Header("Ping", {"SYN"}, 2, 0), term}
============================================================================
