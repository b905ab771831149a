---------------------------- MODULE MCTransport ----------------------------
(* Values of the constants of Transport for model checking: headers whose   *)
(* numbers need all of their bytes, bodies of no, one and two bytes.        *)
EXTENDS Transport

WireFrame(f, body) ==
  [header |-> HeaderOf(f.tag, bits(f.flags), f.id, f.len), body |-> body]

SomeFrames ==
  {WireFrame(with_flags(data(16909060, 0, 2), {"SYN"}), <<250, 251>>),
   WireFrame(data(16909060, 0, 1), <<252>>),
   WireFrame(close_stream(16909060, TRUE), <<>>),
   WireFrame(window_update(16909060, 262144), <<>>)}

\* An unknown version, an unknown type, a body beyond the maximum.
MalformedHeaders ==
  {<<1, 0, 0, 0, 0, 0, 0, 1, 0, 0, 0, 0>>,
   <<0, 4, 0, 0, 0, 0, 0, 1, 0, 0, 0, 0>>,
   <<0, 0, 0, 0, 0, 0, 0, 1, 0, 0, 0, 3>>}
============================================================================
