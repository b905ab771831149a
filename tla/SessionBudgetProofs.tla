------------------------ MODULE SessionBudgetProofs ------------------------
(* The budget of the receive windows, for every number of streams: the      *)
(* counter accumulated_max_stream_windows is exact, and the windows of all  *)
(* streams stay within the connection's limit.  And a closed half of a      *)
(* stream stays closed.                                                     *)
(*                                                                          *)
(* All three rest on a fact about ids: a stream entering the table does not *)
(* take the place of one that a handle still holds.  A client and a server  *)
(* never choose the same id, and an endpoint never chooses one twice, but   *)
(* what makes the receiving side safe is that each id is announced by one   *)
(* SYN only.  Journey follows that SYN: it is a flag of the handle, part of *)
(* an operation, in the channel, pending, on the wire, or it has opened the *)
(* stream at the other side, and never at two of these places.              *)
EXTENDS SessionProofs

SynFor(f, id) == IsStreamFrame(f) /\ f.id = id /\ "SYN" \in f.flags
SynIn(s, id)  == \E i \in DOMAIN s : SynFor(s[i], id)

Once(s, id) ==
  \A i, j \in DOMAIN s : SynFor(s[i], id) /\ SynFor(s[j], id) => i = j

----------------------------------------------------------------------------
(* SYN frames in sequences                                                  *)

\* Nothing is in an empty sequence.
LEMMA SynEmpty == \A id : ~SynIn(<<>>, id) /\ Once(<<>>, id)
BY DEF SynIn, Once

\* One frame.
LEMMA SynSingle ==
  ASSUME NEW f \in Frames, NEW id
  PROVE  /\ SynIn(<<f>>, id) <=> SynFor(f, id)
         /\ Once(<<f>>, id)
BY DEF SynIn, Once

\* A frame more.
LEMMA SynAppend ==
  ASSUME NEW s \in Seq(Frames), NEW f \in Frames, NEW id
  PROVE  /\ SynIn(Append(s, f), id) => SynIn(s, id) \/ SynFor(f, id)
         /\ Once(s, id) /\ ~(SynIn(s, id) /\ SynFor(f, id)) => Once(Append(s, f), id)
<1>0. Append(s, f) \in Seq(Frames)
  OBVIOUS
<1>1. PICK t \in Seq(Frames) : t = Append(s, f)
  BY <1>0
<1>2. /\ Len(s) \in Nat /\ DOMAIN s = 1 .. Len(s) /\ DOMAIN t = 1 .. Len(s) + 1
      /\ \A i \in DOMAIN s : t[i] = s[i]
      /\ t[Len(s) + 1] = f
  BY <1>1
<1>3. \A i \in DOMAIN t : (i \in DOMAIN s /\ t[i] = s[i]) \/ (i = Len(s) + 1 /\ t[i] = f)
  BY <1>2
<1>4. SynIn(t, id) => SynIn(s, id) \/ SynFor(f, id)
  BY <1>3 DEF SynIn
<1>5. ASSUME Once(s, id), ~(SynIn(s, id) /\ SynFor(f, id)) PROVE Once(t, id)
  BY <1>3, <1>5 DEF SynIn, Once
<1> QED
  BY <1>1, <1>4, <1>5

\* The oldest frame less.
LEMMA SynTail ==
  ASSUME NEW s \in Seq(Frames), s # <<>>, NEW id
  PROVE  /\ SynFor(Head(s), id) => SynIn(s, id)
         /\ SynIn(Tail(s), id) => SynIn(s, id)
         /\ Once(s, id) => Once(Tail(s), id)
         /\ Once(s, id) /\ SynFor(Head(s), id) => ~SynIn(Tail(s), id)
<1>0. Tail(s) \in Seq(Frames)
  OBVIOUS
<1>1. PICK t \in Seq(Frames) : t = Tail(s)
  BY <1>0
<1>2. /\ Len(s) \in Nat /\ DOMAIN s = 1 .. Len(s) /\ 1 \in DOMAIN s /\ Head(s) = s[1]
      /\ \A i \in DOMAIN t : i \in Nat /\ i + 1 \in DOMAIN s /\ t[i] = s[i + 1] /\ i + 1 # 1
  BY <1>1
<1>3. SynFor(Head(s), id) => SynIn(s, id)
  BY <1>2 DEF SynIn
<1>4. SynIn(t, id) => SynIn(s, id)
  BY <1>2 DEF SynIn
<1>5. ASSUME Once(s, id) PROVE Once(t, id)
  <2> SUFFICES ASSUME NEW i \in DOMAIN t, NEW j \in DOMAIN t, SynFor(t[i], id), SynFor(t[j], id)
               PROVE  i = j
    BY DEF Once
  <2>1. i + 1 = j + 1
    BY <1>2, <1>5 DEF Once
  <2> QED
    BY <1>2, <2>1
<1>6. ASSUME Once(s, id), SynFor(Head(s), id) PROVE ~SynIn(t, id)
  BY <1>2, <1>6 DEF Once, SynIn
<1> QED
  BY <1>1, <1>3, <1>4, <1>5, <1>6

\* The newest frames less.
LEMMA SynPrefix ==
  ASSUME NEW s \in Seq(Frames), NEW n \in 0 .. Len(s), NEW id
  PROVE  /\ SynIn(SubSeq(s, 1, n), id) => SynIn(s, id)
         /\ Once(s, id) => Once(SubSeq(s, 1, n), id)
<1>1. PICK t : t = SubSeq(s, 1, n)
  OBVIOUS
<1>2. \A i \in DOMAIN t : i \in DOMAIN s /\ t[i] = s[i]
  <2>1. Len(s) \in Nat /\ DOMAIN s = 1 .. Len(s) /\ n \in Nat
    OBVIOUS
  <2> QED
    BY <1>1, <2>1
<1> QED
  BY <1>1, <1>2 DEF SynIn, Once

\* Two sequences, the first without SYN.
LEMMA SynConcat ==
  ASSUME NEW s \in Seq(Frames), NEW t \in Seq(Frames), NEW id, ~SynIn(s, id)
  PROVE  /\ SynIn(s \o t, id) => SynIn(t, id)
         /\ Once(t, id) => Once(s \o t, id)
<1>0. s \o t \in Seq(Frames)
  OBVIOUS
<1>1. PICK u \in Seq(Frames) : u = s \o t
  BY <1>0
<1>2. /\ Len(s) \in Nat /\ Len(t) \in Nat /\ DOMAIN s = 1 .. Len(s)
      /\ DOMAIN t = 1 .. Len(t) /\ DOMAIN u = 1 .. Len(s) + Len(t)
      /\ \A i \in DOMAIN u : u[i] = IF i <= Len(s) THEN s[i] ELSE t[i - Len(s)]
  BY <1>1
<1>3. ASSUME NEW i \in DOMAIN u, SynFor(u[i], id)
      PROVE  i - Len(s) \in DOMAIN t /\ u[i] = t[i - Len(s)]
  <2>1. ~(i <= Len(s))
    <3>1. i <= Len(s) => i \in DOMAIN s /\ u[i] = s[i]
      BY <1>2
    <3> QED
      BY <1>3, <3>1 DEF SynIn
  <2> QED
    BY <1>2, <2>1
<1>4. SynIn(u, id) => SynIn(t, id)
  BY <1>3 DEF SynIn
<1>5. ASSUME Once(t, id) PROVE Once(u, id)
  <2> SUFFICES ASSUME NEW i \in DOMAIN u, NEW j \in DOMAIN u, SynFor(u[i], id), SynFor(u[j], id)
               PROVE  i = j
    BY DEF Once
  <2>1. i - Len(s) = j - Len(s)
    BY <1>3, <1>5 DEF Once
  <2>2. i \in Int /\ j \in Int
    BY <1>2
  <2> QED
    BY <1>2, <2>1, <2>2
<1> QED
  BY <1>1, <1>4, <1>5

----------------------------------------------------------------------------
(* The journey of a SYN                                                     *)

PlaceNames == {"flag", "op", "chan", "pendW", "pendQ", "wire", "opened"}

\* Where the SYN of stream id of q is, or has been last.
Places(q, id) ==
  {x \in PlaceNames :
     /\ x = "flag"   => handle[q][id].flag = "Syn"
     /\ x = "op"     => /\ handle[q][id].op.kind \in {"write", "read"}
                        /\ SynFor(handle[q][id].op.frame, id)
     /\ x = "chan"   => SynIn(chan[q][id], id)
     /\ x = "pendW"  => SynIn(pendW[q], id)
     /\ x = "pendQ"  => SynIn(pendQ[q], id)
     /\ x = "wire"   => SynIn(wire[q], id)
     /\ x = "opened" => rx[Other(q)][id] # "none"}

AllOnce(q, id) ==
  /\ Once(chan[q][id], id) /\ Once(pendW[q], id) /\ Once(pendQ[q], id)
  /\ Once(wire[q], id)

\* There is one SYN of id at most, and none before the id is handed out.
OneSyn(q, id) ==
  /\ \A a, b \in Places(q, id) : a = b
  /\ AllOnce(q, id)
  /\ id >= nextId[q] => Places(q, id) = {} /\ handle[q][id].life = "none"

\* The frames of a stream carry its id.
OwnStream(q, id) ==
  /\ \A i \in DOMAIN chan[q][id] : chan[q][id][i].id = id
  /\ handle[q][id].op.kind \in {"write", "read"} => handle[q][id].op.frame.id = id

\* Answers concern no stream, and the ids handed out are the peer's own.
OwnSide(q) ==
  /\ is_outbound(q, nextId[q])
  /\ \A i \in DOMAIN pendR[q] : ~IsStreamFrame(pendR[q][i])
  /\ \A id \in Ids : OwnStream(q, id)

OwnJourney(q) ==
  OwnSide(q) /\ \A id \in Ids : is_outbound(q, id) => OneSyn(q, id)

Journey == \A q \in Endpoints : OwnJourney(q)

\* What a step does to the SYN of id: it stays, it is lost, or it goes on.
Passes(q, id) ==
  \/ Places(q, id)' \subseteq Places(q, id)
  \/ \E a \in Places(q, id), b \in PlaceNames :
       Places(q, id)' \subseteq (Places(q, id) \ {a}) \cup {b}

Travels(q, id) == Passes(q, id) /\ AllOnce(q, id)'

\* The places one by one.
LEMMA PlacesAre ==
  ASSUME NEW q, NEW id
  PROVE  /\ "flag" \in Places(q, id) <=> handle[q][id].flag = "Syn"
         /\ "op" \in Places(q, id) <=> /\ handle[q][id].op.kind \in {"write", "read"}
                                      /\ SynFor(handle[q][id].op.frame, id)
         /\ "chan" \in Places(q, id) <=> SynIn(chan[q][id], id)
         /\ "pendW" \in Places(q, id) <=> SynIn(pendW[q], id)
         /\ "pendQ" \in Places(q, id) <=> SynIn(pendQ[q], id)
         /\ "wire" \in Places(q, id) <=> SynIn(wire[q], id)
         /\ "opened" \in Places(q, id) <=> rx[Other(q)][id] # "none"
BY DEF Places, PlaceNames

\* A SYN that goes nowhere.
LEMMA Stays ==
  ASSUME NEW q, NEW id,
         handle'[q][id].flag = "Syn" => handle[q][id].flag = "Syn",
         handle'[q][id].op.kind \in {"write", "read"} /\ SynFor(handle'[q][id].op.frame, id)
           => handle[q][id].op.kind \in {"write", "read"} /\ SynFor(handle[q][id].op.frame, id),
         SynIn(chan'[q][id], id) => SynIn(chan[q][id], id),
         SynIn(pendW'[q], id) => SynIn(pendW[q], id),
         SynIn(pendQ'[q], id) => SynIn(pendQ[q], id),
         SynIn(wire'[q], id) => SynIn(wire[q], id),
         rx'[Other(q)][id] # "none" => rx[Other(q)][id] # "none"
  PROVE  Passes(q, id)
<1>1. Places(q, id)' \subseteq Places(q, id)
  BY DEF Places, SynFor, IsStreamFrame
<1> QED
  BY <1>1 DEF Passes

\* A SYN that goes from place a to place b.
LEMMA Hops ==
  ASSUME NEW q, NEW id, NEW a \in PlaceNames, NEW b \in PlaceNames,
         a \in Places(q, id), a \notin Places(q, id)',
         \A x \in PlaceNames \ {b} : x \in Places(q, id)' => x \in Places(q, id)
  PROVE  Passes(q, id)
<1>1. Places(q, id)' \subseteq PlaceNames
  BY DEF Places
<1>2. Places(q, id)' \subseteq (Places(q, id) \ {a}) \cup {b}
  BY <1>1
<1> QED
  BY <1>2 DEF Passes

\* One SYN stays one SYN.
LEMMA OneStays ==
  ASSUME NEW q, NEW id, OneSyn(q, id), Travels(q, id), nextId'[q] = nextId[q],
         handle[q][id].life = "none" => handle'[q][id].life = "none"
  PROVE  OneSyn(q, id)'
<1>1. \A a, b \in Places(q, id)' : a = b
  BY DEF OneSyn, Travels, Passes
<1>2. Places(q, id) = {} => Places(q, id)' = {}
  BY DEF Travels, Passes
<1> QED
  BY <1>1, <1>2 DEF OneSyn, Travels

----------------------------------------------------------------------------
(* The handles' operations                                                  *)

FrameOps == {"write", "read"}

\* What an operation does to the frames of its stream: it takes the flag for a
\* new frame, gives its frame to the channel, or neither.
Operates(p, j) ==
  \E h, c :
    /\ handle' = [handle EXCEPT ![p][j] = h] /\ chan' = [chan EXCEPT ![p][j] = c]
    /\ \/ /\ c = chan[p][j] /\ h.flag = "None" /\ h.op.frame.id = j
          /\ handle[p][j].op.kind \notin FrameOps
          /\ "SYN" \in h.op.frame.flags => handle[p][j].flag = "Syn"
       \/ /\ handle[p][j].op.kind \in FrameOps /\ h.op.kind \notin FrameOps
          /\ h.flag = handle[p][j].flag
          /\ c = Append(chan[p][j], handle[p][j].op.frame)
       \/ /\ h.op.kind \notin FrameOps /\ h.flag \in {handle[p][j].flag, "None"}
          /\ \/ c = chan[p][j]
             \/ \E f \in Frames : /\ f.id = j /\ "SYN" \notin f.flags
                                  /\ c = Append(chan[p][j], f)

\* The frame of an operation carries its stream's id and the handle's flag.
LEMMA FlagTaken ==
  ASSUME NEW p, NEW j, handle[p][j] \in Handles, NEW f,
         \/ \E n, m : f = with_flags(data(j, m, n), add_flag(p, j))
         \/ \E n : f = with_flags(window_update(j, n), add_flag(p, j))
  PROVE  f.id = j /\ ("SYN" \in f.flags => handle[p][j].flag = "Syn")
<1>1. handle[p][j].flag # "Syn" => "SYN" \notin add_flag(p, j)
  BY DEF Handles, add_flag
<1>2. f.id = j /\ f.flags = {} \cup add_flag(p, j)
  BY DEF with_flags, data, window_update, Header
<1> QED
  BY <1>1, <1>2

\* Each operation of a handle is of one of the three kinds.
LEMMA HandleOperates ==
  ASSUME StreamTypes, FrameTypes, NEW p \in Endpoints, NEW j \in Ids, HandleAction(p, j)
  PROVE  /\ Operates(p, j) /\ UNCHANGED <<wire, pendR, pendW, pendQ, rx, nextId>>
<1> DEFINE h == handle[p][j]
<1>1. /\ p \in Peers /\ h \in Handles /\ handle \in [Peers -> [Ids -> Handles]]
      /\ chan \in [Peers -> [Ids -> Seq(Frames)]]
  BY EndpointsArePeers DEF StreamTypes, FrameTypes
<1>2. UNCHANGED <<wire, pendR, pendW, pendQ, rx, nextId>>
  BY DEF HandleAction, poll_write, WritePark, WriteSend, ReadCheck, send_window_update,
         ReadCopy, ReadUpdateSend, poll_close, CloseDone, DropHandle, connVars, pendVars,
         sockVars
<1> SUFFICES Operates(p, j)
  BY <1>2
<1>3. /\ chan = [chan EXCEPT ![p][j] = chan[p][j]]
      /\ handle = [handle EXCEPT ![p][j] = h]
  BY <1>1
<1>4. \A k, f : [handle EXCEPT ![p][j].op = [kind |-> k, frame |-> f]]
                  = [handle EXCEPT ![p][j] = [h EXCEPT !.op = [kind |-> k, frame |-> f]]]
  BY <1>1
<1>5. ASSUME NEW g, handle' = [handle EXCEPT ![p][j] = g], UNCHANGED chan,
             g.op.kind \notin FrameOps, g.flag \in {h.flag, "None"}
      PROVE  Operates(p, j)
  BY <1>3, <1>5 DEF Operates
<1>6. ASSUME NEW k, NEW f, BeginOp(p, j, k, f), UNCHANGED chan, f.id = j,
             h.op.kind \notin FrameOps, "SYN" \in f.flags => h.flag = "Syn"
      PROVE  Operates(p, j)
  <2>1. PICK g : g = [h EXCEPT !.flag = "None", !.op = [kind |-> k, frame |-> f]]
    OBVIOUS
  <2>2. handle' = [handle EXCEPT ![p][j] = g]
    BY <1>1, <1>6, <2>1 DEF BeginOp, Handles
  <2>3. g.flag = "None" /\ g.op.frame = f
    BY <1>1, <2>1 DEF Handles
  <2> QED
    BY <1>3, <1>6, <2>2, <2>3 DEF Operates
<1>7. PICK idle : /\ idle = [h EXCEPT !.op = Idle] /\ idle.op.kind \notin FrameOps
                  /\ idle.flag = h.flag /\ idle.flag \in {h.flag, "None"}
                  /\ EndOp(p, j) => handle' = [handle EXCEPT ![p][j] = idle]
  <2>1. PICK idle : idle = [h EXCEPT !.op = Idle]
    OBVIOUS
  <2>2. idle.op.kind \notin FrameOps /\ idle.flag = h.flag
    BY <1>1, <2>1 DEF Handles, Idle, FrameOps
  <2>3. EndOp(p, j) => handle' = [handle EXCEPT ![p][j] = idle]
    BY <1>1, <2>1 DEF EndOp
  <2> QED
    BY <2>1, <2>2, <2>3
<1>8. CASE \E n \in Nat : poll_write(p, j, n)
  <2>1. PICK n \in Nat : poll_write(p, j, n)
    BY <1>8
  <2>2. PICK f : f = with_flags(data(j, written[p][j], Accepted(p, j, n)), add_flag(p, j))
    OBVIOUS
  <2>3. BeginOp(p, j, "write", f) /\ UNCHANGED chan /\ h.op = Idle
    BY <2>1, <2>2 DEF poll_write, WriteReady, Free
  <2>4. f.id = j /\ ("SYN" \in f.flags => h.flag = "Syn")
    BY <1>1, <2>2, FlagTaken
  <2>5. h.op.kind \notin FrameOps
    BY <2>3 DEF Idle, FrameOps
  <2> QED
    BY <1>6, <2>3, <2>4, <2>5
<1>9. CASE \E fast \in BOOLEAN : send_window_update(p, j, fast)
  <2>1. PICK fast \in BOOLEAN : send_window_update(p, j, fast)
    BY <1>9
  <2>2. PICK n, f : /\ n = NextCredit(shared[p][j].fc, acc[p], fast, shared[p][j].buf)
                    /\ f = with_flags(window_update(j, n), add_flag(p, j))
    OBVIOUS
  <2>3. BeginOp(p, j, "read", f) /\ UNCHANGED chan /\ h.op.kind = "check"
    BY <2>1, <2>2 DEF send_window_update
  <2>4. f.id = j /\ ("SYN" \in f.flags => h.flag = "Syn")
    BY <1>1, <2>2, FlagTaken
  <2>5. h.op.kind \notin FrameOps
    BY <2>3 DEF FrameOps
  <2> QED
    BY <1>6, <2>3, <2>4, <2>5
<1>10. CASE WriteSend(p, j) \/ \E k \in 0 .. shared[p][j].buf : ReadUpdateSend(p, j, k)
  <2>1. /\ h.op.kind \in FrameOps /\ EndOp(p, j)
        /\ \/ UNCHANGED chan
           \/ chan' = [chan EXCEPT ![p][j] = Append(chan[p][j], h.op.frame)]
    BY <1>10 DEF WriteSend, ReadUpdateSend, FrameOps
  <2>2. handle' = [handle EXCEPT ![p][j] = idle]
    BY <1>7, <2>1
  <2>3. CASE UNCHANGED chan
    BY <1>5, <1>7, <2>2, <2>3
  <2>4. CASE chan' = [chan EXCEPT ![p][j] = Append(chan[p][j], h.op.frame)]
    BY <1>7, <2>1, <2>2, <2>4 DEF Operates
  <2> QED
    BY <2>1, <2>3, <2>4
<1>11. CASE \/ WritePark(p, j) \/ \E k \in 0 .. shared[p][j].buf : ReadCopy(p, j, k)
  <2>1. UNCHANGED <<chan, handle>> /\ h.op = Idle
    BY <1>11 DEF WritePark, WriteReady, ReadCopy, ReadReady, Free, handleVars
  <2>2. handle' = [handle EXCEPT ![p][j] = h] /\ UNCHANGED chan
    BY <1>3, <2>1
  <2>3. h.op.kind \notin FrameOps /\ h.flag \in {h.flag, "None"}
    BY <2>1 DEF Idle, FrameOps
  <2> QED
    BY <1>5, <2>2, <2>3
<1>12. CASE ReadCheck(p, j)
  <2>1. PICK g : g = [h EXCEPT !.op = [kind |-> "check", frame |-> term]]
    OBVIOUS
  <2>2. handle' = [handle EXCEPT ![p][j] = g] /\ UNCHANGED chan
    BY <1>4, <1>12, <2>1 DEF ReadCheck
  <2>3. g.op.kind \notin FrameOps /\ g.flag \in {h.flag, "None"}
    BY <1>1, <2>1 DEF Handles, FrameOps
  <2> QED
    BY <1>5, <2>2, <2>3
<1>13. CASE CloseDone(p, j)
  <2>1. EndOp(p, j) /\ UNCHANGED chan
    BY <1>13 DEF CloseDone
  <2>2. handle' = [handle EXCEPT ![p][j] = idle]
    BY <1>7, <2>1
  <2> QED
    BY <1>5, <1>7, <2>1, <2>2
<1>14. CASE DropHandle(p, j)
  <2>1. PICK g : g = [NoHandle EXCEPT !.life = "dropped"]
    OBVIOUS
  <2>2. handle' = [handle EXCEPT ![p] = [handle[p] EXCEPT ![j] = g]] /\ UNCHANGED chan
    BY <1>14, <2>1 DEF DropHandle
  <2>3. handle' = [handle EXCEPT ![p][j] = g]
    BY <1>1, <2>2
  <2>4. g.op.kind \notin FrameOps /\ g.flag \in {h.flag, "None"}
    BY <2>1 DEF NoHandle, Idle, FrameOps
  <2> QED
    BY <1>5, <2>2, <2>3, <2>4
<1>15. CASE poll_close(p, j)
  <2>1. PICK ack : ack = (h.flag = "Ack")
    OBVIOUS
  <2>2. PICK f : f = close_stream(j, ack)
    OBVIOUS
  <2>3. PICK g : g = [h EXCEPT !.flag = IF ack THEN "None" ELSE @,
                               !.op = [kind |-> "close", frame |-> f],
                               !.closes = @ + 1]
    OBVIOUS
  <2>4. /\ handle' = [handle EXCEPT ![p][j] = g]
        /\ chan' = [chan EXCEPT ![p][j] = Append(chan[p][j], f)]
    BY <1>15, <2>1, <2>2, <2>3 DEF poll_close
  <2>5. g.op.kind \notin FrameOps /\ g.flag \in {h.flag, "None"}
    BY <1>1, <2>3 DEF Handles, FrameOps
  <2>6. f.id = j /\ "SYN" \notin f.flags /\ f \in Frames
    <3>1. f.id = j /\ "SYN" \notin f.flags
      BY <2>2 DEF close_stream, Header
    <3>2. 0 \in 0 .. U32_MAX /\ 0 \in Nat /\ {} \in SUBSET Flags /\ ack \in BOOLEAN
      BY <2>1, FlowAssumption
    <3> QED
      BY <2>2, <3>1, <3>2, FrameOfStream
  <2> QED
    BY <2>4, <2>5, <2>6 DEF Operates
<1> QED
  BY <1>8, <1>9, <1>10, <1>11, <1>12, <1>13, <1>14, <1>15 DEF HandleAction

\* Where nothing changes, the SYN stays.
LEMMA Unmoved ==
  ASSUME NEW q, NEW id, OneSyn(q, id), handle'[q][id] = handle[q][id],
         chan'[q][id] = chan[q][id], pendW'[q] = pendW[q], pendQ'[q] = pendQ[q],
         wire'[q] = wire[q], rx'[Other(q)][id] = rx[Other(q)][id]
  PROVE  Travels(q, id)
<1>1. Passes(q, id)
  BY Stays
<1>2. AllOnce(q, id)'
  BY DEF OneSyn, AllOnce
<1> QED
  BY <1>1, <1>2 DEF Travels

\* The operations of a handle pass the SYN on: from the flag to a frame, and
\* with the frame to the channel.
LEMMA OperatesTravels ==
  ASSUME StreamTypes, FrameTypes, NEW p \in Peers, NEW j \in Ids, NEW id \in Ids,
         Operates(p, j), UNCHANGED <<wire, pendR, pendW, pendQ, rx, nextId>>,
         OwnStream(p, id)
  PROVE  OwnStream(p, id)' /\ (OneSyn(p, id) => Travels(p, id))
<1>1. /\ handle \in [Peers -> [Ids -> Handles]] /\ chan \in [Peers -> [Ids -> Seq(Frames)]]
      /\ handle[p][id] \in Handles
  BY DEF StreamTypes, FrameTypes
<1>2. PICK h, c :
        /\ handle' = [handle EXCEPT ![p][j] = h] /\ chan' = [chan EXCEPT ![p][j] = c]
        /\ \/ /\ c = chan[p][j] /\ h.flag = "None" /\ h.op.frame.id = j
              /\ handle[p][j].op.kind \notin FrameOps
              /\ "SYN" \in h.op.frame.flags => handle[p][j].flag = "Syn"
           \/ /\ handle[p][j].op.kind \in FrameOps /\ h.op.kind \notin FrameOps
              /\ h.flag = handle[p][j].flag
              /\ c = Append(chan[p][j], handle[p][j].op.frame)
           \/ /\ h.op.kind \notin FrameOps /\ h.flag \in {handle[p][j].flag, "None"}
              /\ \/ c = chan[p][j]
                 \/ \E f \in Frames : /\ f.id = j /\ "SYN" \notin f.flags
                                      /\ c = Append(chan[p][j], f)
  BY DEF Operates
<1>3. CASE id # j
  <2>1. handle'[p][id] = handle[p][id] /\ chan'[p][id] = chan[p][id]
    BY <1>1, <1>2, <1>3
  <2> QED
    BY <2>1, Unmoved DEF OwnStream
<1>4. CASE id = j
  <2>1. handle'[p][id] = h /\ chan'[p][id] = c
    BY <1>1, <1>2, <1>4
  <2>2. handle[p][id].op.frame \in Frames /\ chan[p][id] \in Seq(Frames)
    BY <1>1 DEF Handles
  <2>3. ASSUME NEW f \in Frames, f.id = id, c = Append(chan[p][id], f)
        PROVE  \A i \in DOMAIN c : c[i].id = id
    <3>1. \A i \in DOMAIN c : c[i] = f \/ (i \in DOMAIN chan[p][id] /\ c[i] = chan[p][id][i])
      BY <2>2, <2>3
    <3> QED
      BY <2>3, <3>1 DEF OwnStream
  <2>4. CASE /\ c = chan[p][id] /\ h.flag = "None" /\ h.op.frame.id = id
             /\ handle[p][id].op.kind \notin FrameOps
             /\ "SYN" \in h.op.frame.flags => handle[p][id].flag = "Syn"
    <3>1. OwnStream(p, id)'
      BY <2>1, <2>4 DEF OwnStream
    <3>2. ASSUME OneSyn(p, id) PROVE AllOnce(p, id)'
      BY <2>1, <2>4, <3>2 DEF OneSyn, AllOnce
    <3>3. ASSUME OneSyn(p, id) PROVE Passes(p, id)
      <4>1. CASE "op" \in Places(p, id)'
        <5>1. handle[p][id].flag = "Syn"
          <6>1. SynFor(h.op.frame, id)
            BY <2>1, <4>1 DEF Places
          <6> QED
            BY <2>4, <6>1 DEF SynFor
        <5>2. "flag" \in Places(p, id) /\ "flag" \notin Places(p, id)'
          BY <2>1, <2>4, <5>1 DEF Places, PlaceNames
        <5>3. \A x \in PlaceNames \ {"op"} : x \in Places(p, id)' => x \in Places(p, id)
          BY <2>1, <2>4 DEF Places, PlaceNames
        <5> QED
          BY <5>2, <5>3, Hops DEF PlaceNames
      <4>2. CASE "op" \notin Places(p, id)'
        <5>1. Places(p, id)' \subseteq Places(p, id)
          BY <2>1, <2>4, <4>2 DEF Places, PlaceNames
        <5> QED
          BY <5>1 DEF Passes
      <4> QED
        BY <4>1, <4>2
    <3> QED
      BY <3>1, <3>2, <3>3 DEF Travels
  <2>5. CASE /\ handle[p][id].op.kind \in FrameOps /\ h.op.kind \notin FrameOps
             /\ h.flag = handle[p][id].flag
             /\ c = Append(chan[p][id], handle[p][id].op.frame)
    <3> DEFINE f == handle[p][id].op.frame
    <3>0. f.id = id
      BY <2>5 DEF OwnStream, FrameOps
    <3>1. OwnStream(p, id)'
      BY <2>1, <2>2, <2>3, <2>5, <3>0 DEF OwnStream, FrameOps
    <3>2. /\ SynIn(c, id) => SynIn(chan[p][id], id) \/ SynFor(f, id)
          /\ Once(chan[p][id], id) /\ ~(SynIn(chan[p][id], id) /\ SynFor(f, id)) => Once(c, id)
      BY <2>2, <2>5, SynAppend
    <3>3. ASSUME OneSyn(p, id), SynFor(f, id) PROVE Travels(p, id)
      <4>1. "op" \in Places(p, id) /\ "op" \notin Places(p, id)'
        BY <2>1, <2>5, <3>3 DEF Places, PlaceNames, FrameOps
      <4>2. ~SynIn(chan[p][id], id)
        <5>1. "chan" \notin Places(p, id)
          BY <3>3, <4>1 DEF OneSyn
        <5> QED
          BY <5>1, PlacesAre
      <4>3. \A x \in PlaceNames \ {"chan"} : x \in Places(p, id)' => x \in Places(p, id)
        BY <2>1, <2>5 DEF Places, PlaceNames, FrameOps
      <4>4. AllOnce(p, id)'
        BY <2>1, <3>2, <3>3, <4>2 DEF OneSyn, AllOnce
      <4> QED
        BY <4>1, <4>3, <4>4, Hops DEF PlaceNames, Travels
    <3>4. ASSUME OneSyn(p, id), ~SynFor(f, id) PROVE Travels(p, id)
      <4>1. Passes(p, id)
        BY <2>1, <2>5, <3>2, <3>4, Stays DEF FrameOps
      <4>2. AllOnce(p, id)'
        BY <2>1, <3>2, <3>4 DEF OneSyn, AllOnce
      <4> QED
        BY <4>1, <4>2 DEF Travels
    <3> QED
      BY <3>1, <3>3, <3>4
  <2>6. CASE /\ h.op.kind \notin FrameOps /\ h.flag \in {handle[p][id].flag, "None"}
             /\ \/ c = chan[p][id]
                \/ \E f \in Frames : /\ f.id = id /\ "SYN" \notin f.flags
                                     /\ c = Append(chan[p][id], f)
    <3>1. OwnStream(p, id)'
      BY <2>1, <2>3, <2>6 DEF OwnStream, FrameOps
    <3>2. /\ SynIn(c, id) => SynIn(chan[p][id], id)
          /\ Once(chan[p][id], id) => Once(c, id)
      <4>1. ASSUME NEW f \in Frames, "SYN" \notin f.flags, c = Append(chan[p][id], f)
            PROVE  /\ SynIn(c, id) => SynIn(chan[p][id], id)
                   /\ Once(chan[p][id], id) => Once(c, id)
        <5>1. ~SynFor(f, id)
          BY <4>1 DEF SynFor
        <5> QED
          BY <2>2, <4>1, <5>1, SynAppend
      <4> QED
        BY <2>6, <4>1
    <3>3. ASSUME OneSyn(p, id) PROVE Passes(p, id)
      BY <2>1, <2>6, <3>2, Stays DEF FrameOps
    <3>4. ASSUME OneSyn(p, id) PROVE AllOnce(p, id)'
      BY <2>1, <3>2, <3>4 DEF OneSyn, AllOnce
    <3> QED
      BY <3>1, <3>3, <3>4 DEF Travels
  <2> QED
    BY <1>2, <1>4, <2>4, <2>5, <2>6
<1> QED
  BY <1>3, <1>4

----------------------------------------------------------------------------
(* The connection's steps                                                   *)

\* Frames are lost: a suffix of the socket's, the pending ones, the channels'.
Loses(p) ==
  /\ \/ wire'[p] = wire[p]
     \/ \E n \in 0 .. Len(wire[p]) : wire'[p] = SubSeq(wire[p], 1, n)
  /\ pendW'[p] \in {pendW[p], <<>>} /\ pendQ'[p] \in {pendQ[p], <<>>}
  /\ \A id \in Ids : chan'[p][id] \in {chan[p][id], <<>>}

\* A frame that is no SYN of a stream is sent, pending or queued.
Adds(p) ==
  \E f \in Frames :
    /\ ~(IsStreamFrame(f) /\ "SYN" \in f.flags) /\ chan'[p] = chan[p]
    /\ wire'[p] \in {wire[p], Append(wire[p], f)}
    /\ pendW'[p] \in {pendW[p], <<f>>}
    /\ pendQ'[p] \in {pendQ[p], Append(pendQ[p], f)}

\* The pending frame is sent.
SendsPending(p) ==
  /\ pendW[p] # <<>> /\ pendW'[p] = <<>> /\ wire'[p] = Append(wire[p], Head(pendW[p]))
  /\ pendQ'[p] = pendQ[p] /\ chan'[p] = chan[p]

\* A command becomes the pending frame, or joins the queue of Closing.
TakesCommand(p, j) ==
  /\ chan[p][j] # <<>> /\ chan'[p] = [chan[p] EXCEPT ![j] = Tail(chan[p][j])]
  /\ wire'[p] = wire[p]
  /\ \/ pendW'[p] = <<Head(chan[p][j])>> /\ pendQ'[p] = pendQ[p]
     \/ pendQ'[p] = Append(pendQ[p], Head(chan[p][j])) /\ pendW'[p] = pendW[p]

\* The pending frames become the queue of Closing.
QueuesPending(p) ==
  /\ pendQ'[p] = pendR[p] \o pendW[p] /\ pendW'[p] = <<>>
  /\ wire'[p] = wire[p] /\ chan'[p] = chan[p]

\* The queue goes out.
SendsQueued(p) ==
  /\ pendQ[p] # <<>> /\ pendQ'[p] = Tail(pendQ[p])
  /\ wire'[p] = Append(wire[p], Head(pendQ[p]))
  /\ pendW'[p] = pendW[p] /\ chan'[p] = chan[p]

Carries(p) ==
  \/ Loses(p) \/ Adds(p) \/ SendsPending(p) \/ QueuesPending(p) \/ SendsQueued(p)
  \/ \E j \in Ids : TakesCommand(p, j)

\* The handle of id and the receiver at the other side are left alone.
Aside(p, id) == /\ handle'[p][id] = handle[p][id]
                /\ rx'[Other(p)][id] = rx[Other(p)][id]

\* Lost frames take their SYN with them.
LEMMA LosesTravels ==
  ASSUME FrameTypes, NEW p \in Peers, NEW id \in Ids, Aside(p, id), Loses(p), OneSyn(p, id)
  PROVE  Travels(p, id)
<1>1. wire[p] \in Seq(Frames)
  BY DEF FrameTypes
<1>2. /\ SynIn(wire'[p], id) => SynIn(wire[p], id)
      /\ Once(wire[p], id) => Once(wire'[p], id)
  BY <1>1, SynPrefix DEF Loses
<1>3. /\ SynIn(pendW'[p], id) => SynIn(pendW[p], id)
      /\ SynIn(pendQ'[p], id) => SynIn(pendQ[p], id)
      /\ SynIn(chan'[p][id], id) => SynIn(chan[p][id], id)
      /\ Once(pendW[p], id) => Once(pendW'[p], id)
      /\ Once(pendQ[p], id) => Once(pendQ'[p], id)
      /\ Once(chan[p][id], id) => Once(chan'[p][id], id)
  BY SynEmpty DEF Loses
<1>4. Passes(p, id)
  BY <1>2, <1>3, Stays DEF Aside
<1> QED
  BY <1>2, <1>3, <1>4 DEF Travels, AllOnce, OneSyn

\* A frame that is no SYN changes nothing about SYNs.
LEMMA AddsTravels ==
  ASSUME FrameTypes, NEW p \in Peers, NEW id \in Ids, Aside(p, id), Adds(p), OneSyn(p, id)
  PROVE  Travels(p, id)
<1>1. wire[p] \in Seq(Frames) /\ pendQ[p] \in Seq(Frames)
  BY DEF FrameTypes
<1>2. PICK f \in Frames :
        /\ ~(IsStreamFrame(f) /\ "SYN" \in f.flags) /\ chan'[p] = chan[p]
        /\ wire'[p] \in {wire[p], Append(wire[p], f)}
        /\ pendW'[p] \in {pendW[p], <<f>>}
        /\ pendQ'[p] \in {pendQ[p], Append(pendQ[p], f)}
  BY DEF Adds
<1>3. ~SynFor(f, id)
  BY <1>2 DEF SynFor
<1>4. /\ SynIn(wire'[p], id) => SynIn(wire[p], id)
      /\ Once(wire[p], id) => Once(wire'[p], id)
      /\ SynIn(pendQ'[p], id) => SynIn(pendQ[p], id)
      /\ Once(pendQ[p], id) => Once(pendQ'[p], id)
  <2>1. ASSUME NEW s \in Seq(Frames), NEW t, t \in {s, Append(s, f)}
        PROVE  (SynIn(t, id) => SynIn(s, id)) /\ (Once(s, id) => Once(t, id))
    BY <1>3, <2>1, SynAppend
  <2>2. /\ wire[p] \in Seq(Frames) /\ wire'[p] \in {wire[p], Append(wire[p], f)}
        /\ pendQ[p] \in Seq(Frames) /\ pendQ'[p] \in {pendQ[p], Append(pendQ[p], f)}
    BY <1>1, <1>2
  <2>3. (SynIn(wire'[p], id) => SynIn(wire[p], id)) /\ (Once(wire[p], id) => Once(wire'[p], id))
    BY ONLY <2>1, <2>2
  <2>4. (SynIn(pendQ'[p], id) => SynIn(pendQ[p], id)) /\ (Once(pendQ[p], id) => Once(pendQ'[p], id))
    BY ONLY <2>1, <2>2
  <2> QED
    BY <2>3, <2>4
<1>5. /\ SynIn(pendW'[p], id) => SynIn(pendW[p], id)
      /\ Once(pendW[p], id) => Once(pendW'[p], id)
  BY <1>2, <1>3, SynSingle
<1>6. Passes(p, id)
  BY <1>2, <1>4, <1>5, Stays DEF Aside
<1> QED
  BY <1>2, <1>4, <1>5, <1>6 DEF Travels, AllOnce, OneSyn

\* The pending SYN goes to the socket.
LEMMA SendsPendingTravels ==
  ASSUME FrameTypes, NEW p \in Peers, NEW id \in Ids, Aside(p, id), SendsPending(p),
         OneSyn(p, id)
  PROVE  Travels(p, id)
<1>1. wire[p] \in Seq(Frames) /\ pendW[p] \in Seq(Frames) /\ pendW[p] # <<>>
  BY DEF FrameTypes, SendsPending
<1>2. PICK f \in Frames : f = Head(pendW[p])
  BY <1>1
<1>3. SynFor(f, id) => SynIn(pendW[p], id)
  BY <1>1, <1>2, SynTail
<1>4. /\ SynIn(wire'[p], id) => SynIn(wire[p], id) \/ SynFor(f, id)
      /\ Once(wire[p], id) /\ ~(SynIn(wire[p], id) /\ SynFor(f, id)) => Once(wire'[p], id)
  BY <1>1, <1>2, SynAppend DEF SendsPending
<1>5. ~SynIn(pendW'[p], id) /\ Once(pendW'[p], id)
  BY SynEmpty DEF SendsPending
<1>6. CASE SynFor(f, id)
  <2>1. "pendW" \in Places(p, id) /\ "pendW" \notin Places(p, id)'
    BY <1>3, <1>5, <1>6 DEF Places, PlaceNames
  <2>2. ~SynIn(wire[p], id)
    <3>1. "wire" \notin Places(p, id)
      BY <2>1 DEF OneSyn
    <3> QED
      BY <3>1, PlacesAre
  <2>3. \A x \in PlaceNames \ {"wire"} : x \in Places(p, id)' => x \in Places(p, id)
    BY <1>5 DEF Places, PlaceNames, SendsPending, Aside
  <2>4. AllOnce(p, id)'
    BY <1>4, <1>5, <2>2 DEF AllOnce, OneSyn, SendsPending
  <2> QED
    BY <2>1, <2>3, <2>4, Hops DEF PlaceNames, Travels
<1>7. CASE ~SynFor(f, id)
  <2>1. Passes(p, id)
    BY <1>4, <1>5, <1>7, Stays DEF Aside, SendsPending
  <2>2. AllOnce(p, id)'
    BY <1>4, <1>5, <1>7 DEF AllOnce, OneSyn, SendsPending
  <2> QED
    BY <2>1, <2>2 DEF Travels
<1> QED
  BY <1>6, <1>7

\* A SYN goes from the channel to the pending frame, or to the queue.
LEMMA TakesCommandTravels ==
  ASSUME FrameTypes, NEW p \in Peers, NEW id \in Ids, NEW j \in Ids, Aside(p, id),
         TakesCommand(p, j), OwnStream(p, j), OneSyn(p, id)
  PROVE  Travels(p, id)
<1>1. /\ pendQ[p] \in Seq(Frames) /\ chan[p] \in [Ids -> Seq(Frames)]
      /\ chan[p][j] \in Seq(Frames) /\ chan[p][j] # <<>>
  BY DEF FrameTypes, TakesCommand
<1>2. PICK f \in Frames : f = Head(chan[p][j]) /\ f.id = j
  <2>1. Head(chan[p][j]) \in Frames /\ 1 \in DOMAIN chan[p][j]
        /\ Head(chan[p][j]) = chan[p][j][1]
    BY <1>1
  <2> QED
    BY <2>1 DEF OwnStream
<1>3. /\ j = id => chan'[p][id] = Tail(chan[p][id])
      /\ j # id => chan'[p][id] = chan[p][id]
  BY <1>1 DEF TakesCommand
<1>4. SynFor(f, id) => j = id
  BY <1>2 DEF SynFor
<1>5. /\ SynIn(chan'[p][id], id) => SynIn(chan[p][id], id)
      /\ Once(chan[p][id], id) => Once(chan'[p][id], id)
      /\ SynFor(f, id) => SynIn(chan[p][id], id)
      /\ Once(chan[p][id], id) /\ SynFor(f, id) => ~SynIn(chan'[p][id], id)
  <2>1. CASE j = id
    BY <1>1, <1>2, <1>3, <2>1, SynTail
  <2>2. CASE j # id
    BY <1>3, <1>4, <2>2
  <2> QED
    BY <2>1, <2>2
<1>6. wire'[p] = wire[p]
  BY DEF TakesCommand
<1>7. PICK b \in {"pendW", "pendQ"} :
        /\ b = "pendW" => pendW'[p] = <<f>> /\ pendQ'[p] = pendQ[p]
        /\ b = "pendQ" => pendQ'[p] = Append(pendQ[p], f) /\ pendW'[p] = pendW[p]
  BY <1>2 DEF TakesCommand
<1>8. /\ b = "pendW" => /\ SynIn(pendW'[p], id) <=> SynFor(f, id)
                        /\ Once(pendW'[p], id)
      /\ b = "pendQ" =>
           /\ SynIn(pendQ'[p], id) => SynIn(pendQ[p], id) \/ SynFor(f, id)
           /\ Once(pendQ[p], id) /\ ~(SynIn(pendQ[p], id) /\ SynFor(f, id))
                => Once(pendQ'[p], id)
  <2>1. CASE b = "pendW"
    <3>1. pendW'[p] = <<f>>
      BY <1>7, <2>1
    <3>2. (SynIn(<<f>>, id) <=> SynFor(f, id)) /\ Once(<<f>>, id)
      BY SynSingle
    <3> QED
      BY <2>1, <3>1, <3>2
  <2>2. CASE b = "pendQ"
    <3>1. pendQ'[p] = Append(pendQ[p], f)
      BY <1>7, <2>2
    <3>2. /\ SynIn(Append(pendQ[p], f), id) => SynIn(pendQ[p], id) \/ SynFor(f, id)
          /\ Once(pendQ[p], id) /\ ~(SynIn(pendQ[p], id) /\ SynFor(f, id))
               => Once(Append(pendQ[p], f), id)
      BY <1>1, SynAppend
    <3> QED
      BY <2>2, <3>1, <3>2
  <2> QED
    BY <2>1, <2>2
<1>9. CASE SynFor(f, id)
  <2>1. Once(chan[p][id], id)
    BY DEF OneSyn, AllOnce
  <2>2. "chan" \in Places(p, id) /\ "chan" \notin Places(p, id)'
    BY <1>5, <1>9, <2>1 DEF Places, PlaceNames
  <2>3. ~SynIn(pendQ[p], id)
    <3>1. "pendQ" \notin Places(p, id)
      BY <2>2 DEF OneSyn
    <3> QED
      BY <3>1, PlacesAre
  <2>4. \A x \in PlaceNames \ {b} : x \in Places(p, id)' => x \in Places(p, id)
    BY <1>5, <1>6, <1>7 DEF Places, PlaceNames, Aside
  <2>5. AllOnce(p, id)'
    BY <1>5, <1>6, <1>7, <1>8, <2>3 DEF AllOnce, OneSyn
  <2>6. b \in PlaceNames /\ "chan" \in PlaceNames
    BY DEF PlaceNames
  <2>7. Passes(p, id)
    BY <2>2, <2>4, <2>6, Hops
  <2> QED
    BY <2>5, <2>7 DEF Travels
<1>10. CASE ~SynFor(f, id)
  <2>1. /\ SynIn(pendW'[p], id) => SynIn(pendW[p], id)
        /\ SynIn(pendQ'[p], id) => SynIn(pendQ[p], id)
    BY <1>7, <1>8, <1>10
  <2>2. Passes(p, id)
    BY <1>5, <1>6, <2>1, Stays DEF Aside
  <2>3. AllOnce(p, id)'
    BY <1>5, <1>6, <1>7, <1>8, <1>10 DEF AllOnce, OneSyn
  <2> QED
    BY <2>2, <2>3 DEF Travels
<1> QED
  BY <1>9, <1>10

\* The pending SYN joins the queue; the answer before it is none.
LEMMA QueuesPendingTravels ==
  ASSUME FrameTypes, NEW p \in Peers, NEW id \in Ids, Aside(p, id), QueuesPending(p),
         OwnSide(p), OneSyn(p, id)
  PROVE  Travels(p, id)
<1>1. pendR[p] \in Seq(Frames) /\ pendW[p] \in Seq(Frames)
  BY DEF FrameTypes
<1>2. ~SynIn(pendR[p], id)
  BY DEF OwnSide, SynIn, SynFor
<1>3. /\ SynIn(pendQ'[p], id) => SynIn(pendW[p], id)
      /\ Once(pendW[p], id) => Once(pendQ'[p], id)
  BY <1>1, <1>2, SynConcat DEF QueuesPending
<1>4. ~SynIn(pendW'[p], id) /\ Once(pendW'[p], id)
  BY SynEmpty DEF QueuesPending
<1>5. AllOnce(p, id)'
  BY <1>3, <1>4 DEF AllOnce, OneSyn, QueuesPending
<1>6. CASE SynIn(pendW[p], id)
  <2>1. "pendW" \in Places(p, id) /\ "pendW" \notin Places(p, id)'
    BY <1>4, <1>6 DEF Places, PlaceNames
  <2>2. \A x \in PlaceNames \ {"pendQ"} : x \in Places(p, id)' => x \in Places(p, id)
    BY <1>4 DEF Places, PlaceNames, QueuesPending, Aside
  <2>3. Passes(p, id)
    BY <2>1, <2>2, Hops DEF PlaceNames
  <2> QED
    BY <1>5, <2>3 DEF Travels
<1>7. CASE ~SynIn(pendW[p], id)
  <2>1. Passes(p, id)
    BY <1>3, <1>4, <1>7, Stays DEF Aside, QueuesPending
  <2> QED
    BY <1>5, <2>1 DEF Travels
<1> QED
  BY <1>6, <1>7

\* The queued SYN goes to the socket.
LEMMA SendsQueuedTravels ==
  ASSUME FrameTypes, NEW p \in Peers, NEW id \in Ids, Aside(p, id), SendsQueued(p),
         OneSyn(p, id)
  PROVE  Travels(p, id)
<1>1. wire[p] \in Seq(Frames) /\ pendQ[p] \in Seq(Frames) /\ pendQ[p] # <<>>
  BY DEF FrameTypes, SendsQueued
<1>2. PICK f \in Frames : f = Head(pendQ[p])
  BY <1>1
<1>3. /\ SynFor(f, id) => SynIn(pendQ[p], id)
      /\ SynIn(pendQ'[p], id) => SynIn(pendQ[p], id)
      /\ Once(pendQ[p], id) => Once(pendQ'[p], id)
      /\ Once(pendQ[p], id) /\ SynFor(f, id) => ~SynIn(pendQ'[p], id)
  BY <1>1, <1>2, SynTail DEF SendsQueued
<1>4. /\ SynIn(wire'[p], id) => SynIn(wire[p], id) \/ SynFor(f, id)
      /\ Once(wire[p], id) /\ ~(SynIn(wire[p], id) /\ SynFor(f, id)) => Once(wire'[p], id)
  BY <1>1, <1>2, SynAppend DEF SendsQueued
<1>5. CASE SynFor(f, id)
  <2>1. Once(pendQ[p], id)
    BY DEF OneSyn, AllOnce
  <2>2. "pendQ" \in Places(p, id) /\ "pendQ" \notin Places(p, id)'
    BY <1>3, <1>5, <2>1 DEF Places, PlaceNames
  <2>3. ~SynIn(wire[p], id)
    <3>1. "wire" \notin Places(p, id)
      BY <2>2 DEF OneSyn
    <3> QED
      BY <3>1, PlacesAre
  <2>4. \A x \in PlaceNames \ {"wire"} : x \in Places(p, id)' => x \in Places(p, id)
    BY <1>3 DEF Places, PlaceNames, SendsQueued, Aside
  <2>5. AllOnce(p, id)'
    BY <1>3, <1>4, <2>3 DEF AllOnce, OneSyn, SendsQueued
  <2>6. Passes(p, id)
    BY <2>2, <2>4, Hops DEF PlaceNames
  <2> QED
    BY <2>5, <2>6 DEF Travels
<1>6. CASE ~SynFor(f, id)
  <2>1. Passes(p, id)
    BY <1>3, <1>4, <1>6, Stays DEF Aside, SendsQueued
  <2>2. AllOnce(p, id)'
    BY <1>3, <1>4, <1>6 DEF AllOnce, OneSyn, SendsQueued
  <2> QED
    BY <2>1, <2>2 DEF Travels
<1> QED
  BY <1>5, <1>6

\* Whatever the connection does with its own frames, the SYN travels.
LEMMA CarriesTravels ==
  ASSUME FrameTypes, NEW p \in Peers, NEW id \in Ids, Aside(p, id), Carries(p),
         OwnSide(p), OneSyn(p, id)
  PROVE  Travels(p, id)
BY LosesTravels, AddsTravels, SendsPendingTravels, TakesCommandTravels,
   QueuesPendingTravels, SendsQueuedTravels DEF Carries, OwnSide

\* The commands that stay in the channels are those of their streams.
LEMMA CarriesOwn ==
  ASSUME FrameTypes, NEW p \in Peers, NEW id \in Ids, Carries(p), OwnStream(p, id),
         handle'[p][id] = handle[p][id] \/ handle'[p][id].op.kind \notin FrameOps
  PROVE  OwnStream(p, id)'
<1>1. chan[p] \in [Ids -> Seq(Frames)] /\ chan[p][id] \in Seq(Frames)
  BY DEF FrameTypes
<1>2. \/ chan'[p][id] = chan[p][id] \/ chan'[p][id] = <<>>
      \/ chan[p][id] # <<>> /\ chan'[p][id] = Tail(chan[p][id])
  <2>1. CASE \E j \in Ids : TakesCommand(p, j)
    BY <1>1, <2>1 DEF TakesCommand
  <2> QED
    BY <2>1 DEF Carries, Loses, Adds, SendsPending, QueuesPending, SendsQueued
<1>3. \A i \in DOMAIN chan'[p][id] : chan'[p][id][i].id = id
  <2>1. CASE chan[p][id] # <<>> /\ chan'[p][id] = Tail(chan[p][id])
    <3>1. PICK s, t : s = chan[p][id] /\ t = Tail(s)
      OBVIOUS
    <3>2. \A i \in DOMAIN t : i + 1 \in DOMAIN s /\ t[i] = s[i + 1]
      BY <1>1, <2>1, <3>1
    <3> QED
      BY <2>1, <3>1, <3>2 DEF OwnStream
  <2> QED
    BY <1>2, <2>1 DEF OwnStream
<1> QED
  BY <1>3 DEF OwnStream, FrameOps

----------------------------------------------------------------------------
(* The actions                                                              *)

\* An answer is pending, is gone, or stays.
Answers(p) ==
  \/ pendR'[p] \in {pendR[p], <<>>}
  \/ \E f \in Frames : ~IsStreamFrame(f) /\ pendR'[p] = <<f>>

\* What belongs to the other peer is left alone.
KeepsOther(p) ==
  \A q \in Peers \ {p} :
    /\ handle'[q] = handle[q] /\ chan'[q] = chan[q] /\ rx'[q] = rx[q]
    /\ pendR'[q] = pendR[q] /\ pendW'[q] = pendW[q] /\ pendQ'[q] = pendQ[q]
    /\ nextId'[q] = nextId[q]

\* The connection's own frames go on.  Its handles stay, but for one that the
\* remote's SYN brings.
OwnStep(p) ==
  /\ Carries(p) /\ Answers(p) /\ nextId'[p] = nextId[p]
  /\ \A id \in Ids : \/ handle'[p][id] = handle[p][id]
                     \/ ~is_outbound(p, id) /\ handle'[p][id].op.kind \notin FrameOps

\* The stream of a SYN that arrives is in the table, or no handle has it.
Ready(p, id) == id \in entry[p] \/ rx[p][id] \in {"none", "done"}

\* A step that takes nothing off the socket.
Outward(p) ==
  /\ wire'[Other(p)] = wire[Other(p)]
  /\ \A id \in Ids : ~is_outbound(p, id) /\ rx[p][id] = "none" => rx'[p][id] = "none"
  /\ conn'[p] = "Active" =>
       conn[p] = "Active" /\ \A id \in Ids : Ready(p, id) => Ready(p, id)'

\* A step that takes a frame off the socket.
Inward(p) ==
  LET f == Head(wire[Other(p)])
  IN  /\ wire[Other(p)] # <<>> /\ wire'[Other(p)] = Tail(wire[Other(p)])
      /\ conn'[p] = conn[p]
      /\ \A id \in Ids : /\ rx'[p][id] = rx[p][id] \/ SynFor(f, id)
                         /\ Ready(p, id) => Ready(p, id)' \/ f.id = id

\* What the frames' functions are.
LEMMA FramePlaces ==
  ASSUME StreamTypes, FrameTypes, NEW p \in Peers
  PROVE  /\ wire \in [Peers -> Seq(Frames)] /\ chan \in [Peers -> [Ids -> Seq(Frames)]]
         /\ pendR \in [Peers -> Seq(Frames)] /\ pendW \in [Peers -> Seq(Frames)]
         /\ pendQ \in [Peers -> Seq(Frames)] /\ handle \in [Peers -> [Ids -> Handles]]
         /\ rx \in [Peers -> [Ids -> RxStates]] /\ entry \in [Peers -> SUBSET Ids]
         /\ conn \in [Peers -> ConnStates] /\ nextId \in [Peers -> 1 .. MAX_ID + 1]
         /\ Other(p) \in Peers /\ Other(p) # p
BY OtherPeer DEF StreamTypes, FrameTypes

\* The operations of a handle concern its own side only.
LEMMA HandleAside ==
  ASSUME StreamTypes, FrameTypes, NEW p \in Endpoints, NEW j \in Ids, HandleAction(p, j)
  PROVE  KeepsOther(p) /\ Outward(p)
<1>1. p \in Peers /\ Operates(p, j) /\ UNCHANGED <<wire, pendR, pendW, pendQ, rx, nextId>>
  BY EndpointsArePeers, HandleOperates
<1>2. KeepsOther(p)
  BY <1>1, FramePlaces DEF Operates, KeepsOther
<1>3. UNCHANGED conn /\ entry'[p] = entry[p]
  <2>1. entry \in [Peers -> SUBSET Ids]
    BY DEF StreamTypes
  <2>2. CASE DropHandle(p, j)
    BY <1>1, <2>1, <2>2 DEF DropHandle, SetStreams, connVars
  <2>3. CASE ~DropHandle(p, j)
    <3>1. UNCHANGED <<conn, entry>>
      BY <2>3 DEF HandleAction, poll_write, WritePark, WriteSend, ReadCheck,
         send_window_update, ReadCopy, ReadUpdateSend, poll_close, CloseDone, connVars,
         tableVars
    <3> QED
      BY <3>1
  <2> QED
    BY <2>2, <2>3
<1> QED
  BY <1>1, <1>2, <1>3 DEF Outward, Ready

\* Where table, receivers and state stay, a step goes outward.
LEMMA SteadyOutward ==
  ASSUME NEW p, wire'[Other(p)] = wire[Other(p)], UNCHANGED <<rx, entry, conn>>
  PROVE  Outward(p)
BY DEF Outward, Ready

\* Frames that go out.
LEMMA SendingSteps ==
  ASSUME StreamTypes, FrameTypes, NEW p \in Endpoints,
         Sending(p), OwnSide(p)
  PROVE  KeepsOther(p) /\ OwnStep(p) /\ Outward(p)
<1> USE DEF Sending
<1>1. p \in Peers
  BY EndpointsArePeers
<1>2. Steady /\ UNCHANGED nextId
  <2>1. Steady
    <3>1. 1 \in Ids
      BY EndpointAssumption DEF Ids
    <3> QED
      BY <3>1, SteadySteps
  <2>2. UNCHANGED nextId
    BY DEF PollPing, PollSend, PollCommand, PingInterval, OpenWait, DrainCommand, FlushFrame,
           connVars
  <2> QED
    BY <2>1, <2>2
<1> USE DEF connVars, pendVars, sockVars, tableVars, handleVars, ghostVars
<1>3. SUFFICES /\ wire'[Other(p)] = wire[Other(p)] /\ Carries(p) /\ Answers(p)
               /\ \A q \in Peers \ {p} :
                    /\ chan'[q] = chan[q] /\ pendR'[q] = pendR[q] /\ pendW'[q] = pendW[q]
                    /\ pendQ'[q] = pendQ[q]
  BY <1>1, <1>2, SteadyOutward DEF Steady, OwnStep, KeepsOther
<1>4. CASE PingInterval(p) \/ OpenWait(p)
  <2>1. UNCHANGED <<wire, chan, pendR, pendW, pendQ>>
    BY <1>4 DEF PingInterval, OpenWait
  <2> QED
    BY <2>1 DEF Carries, Loses, Answers
<1>5. CASE PollPing(p)
  <2>1. PICK f : f = ping(rtt[p].id)
    OBVIOUS
  <2>2. wire' = [wire EXCEPT ![p] = Append(@, f)] /\ UNCHANGED <<chan, pendR, pendW, pendQ>>
    BY <1>5, <2>1 DEF PollPing, SendFrame
  <2>3. f \in Frames /\ ~IsStreamFrame(f)
    <3>1. rtt[p].id \in 0 .. U32_MAX
      BY <1>1 DEF FrameTypes, RttStates
    <3>2. f \in Frames
      BY <2>1, <3>1, FrameOfConnection
    <3> QED
      BY <2>1, <3>2 DEF ping, Header, IsStreamFrame
  <2>4. wire'[p] = Append(wire[p], f) /\ wire'[Other(p)] = wire[Other(p)]
    BY <1>1, <2>2, FramePlaces
  <2> QED
    BY <2>2, <2>3, <2>4 DEF Carries, Adds, Answers
<1>6. CASE PollSend(p)
  <2>1. CASE /\ pendR[p] # <<>> /\ SendFrame(p, Head(pendR[p]))
             /\ pendR' = [pendR EXCEPT ![p] = <<>>] /\ UNCHANGED pendW
    <3>1. PICK f \in Frames : f = Head(pendR[p]) /\ ~IsStreamFrame(f)
      <4>1. pendR[p] \in Seq(Frames)
        BY <1>1, FramePlaces
      <4>2. 1 \in DOMAIN pendR[p] /\ Head(pendR[p]) = pendR[p][1] /\ Head(pendR[p]) \in Frames
        BY <2>1, <4>1
      <4> QED
        BY <4>2 DEF OwnSide
    <3>2. wire' = [wire EXCEPT ![p] = Append(@, f)] /\ UNCHANGED <<chan, pendW, pendQ>>
      BY <1>6, <2>1, <3>1 DEF PollSend, SendFrame
    <3>3. wire'[p] = Append(wire[p], f) /\ wire'[Other(p)] = wire[Other(p)]
          /\ pendR'[p] = <<>> /\ \A q \in Peers \ {p} : pendR'[q] = pendR[q]
      BY <1>1, <2>1, <3>2, FramePlaces
    <3> QED
      BY <3>1, <3>2, <3>3 DEF Carries, Adds, Answers
  <2>2. CASE /\ pendW[p] # <<>> /\ SendFrame(p, Head(pendW[p]))
             /\ pendW' = [pendW EXCEPT ![p] = <<>>] /\ UNCHANGED pendR
    <3>1. wire' = [wire EXCEPT ![p] = Append(@, Head(pendW[p]))] /\ UNCHANGED <<chan, pendQ>>
      BY <1>6, <2>2 DEF PollSend, SendFrame
    <3>2. /\ wire'[p] = Append(wire[p], Head(pendW[p])) /\ wire'[Other(p)] = wire[Other(p)]
          /\ pendW'[p] = <<>> /\ \A q \in Peers \ {p} : pendW'[q] = pendW[q]
      BY <1>1, <2>2, <3>1, FramePlaces
    <3> QED
      BY <2>2, <3>1, <3>2 DEF Carries, SendsPending, Answers
  <2> QED
    BY <1>6, <2>1, <2>2 DEF PollSend
<1>7. ASSUME NEW j \in Ids, PollCommand(p, j) \/ DrainCommand(p, j)
      PROVE  /\ wire'[Other(p)] = wire[Other(p)] /\ TakesCommand(p, j) /\ Answers(p)
             /\ \A q \in Peers \ {p} :
                  /\ chan'[q] = chan[q] /\ pendR'[q] = pendR[q] /\ pendW'[q] = pendW[q]
                  /\ pendQ'[q] = pendQ[q]
  <2>1. /\ chan[p][j] # <<>> /\ chan' = [chan EXCEPT ![p][j] = Tail(@)]
        /\ UNCHANGED <<wire, pendR>>
        /\ \/ /\ pendW' = [pendW EXCEPT ![p] = <<Head(chan[p][j])>>] /\ UNCHANGED pendQ
           \/ /\ pendQ' = [pendQ EXCEPT ![p] = Append(@, Head(chan[p][j]))]
              /\ UNCHANGED pendW
    BY <1>7 DEF PollCommand, DrainCommand
  <2>2. PICK t : t = Tail(chan[p][j])
    OBVIOUS
  <2>3. /\ chan'[p] = [chan[p] EXCEPT ![j] = t] /\ \A q \in Peers \ {p} : chan'[q] = chan[q]
    BY <1>1, <2>1, <2>2, FramePlaces
  <2>4. /\ \/ pendW'[p] = <<Head(chan[p][j])>> /\ pendQ'[p] = pendQ[p]
           \/ pendQ'[p] = Append(pendQ[p], Head(chan[p][j])) /\ pendW'[p] = pendW[p]
        /\ \A q \in Peers \ {p} : pendW'[q] = pendW[q] /\ pendQ'[q] = pendQ[q]
    BY <1>1, <2>1, FramePlaces
  <2> QED
    BY <2>1, <2>2, <2>3, <2>4 DEF TakesCommand, Answers
<1>8. CASE FlushFrame(p) /\ pendQ[p] # <<>>
  <2>1. /\ wire' = [wire EXCEPT ![p] = Append(@, Head(pendQ[p]))]
        /\ pendQ' = [pendQ EXCEPT ![p] = Tail(@)] /\ UNCHANGED <<chan, pendR, pendW>>
    BY <1>8 DEF FlushFrame, SendFrame
  <2>2. /\ wire'[p] = Append(wire[p], Head(pendQ[p])) /\ wire'[Other(p)] = wire[Other(p)]
        /\ pendQ'[p] = Tail(pendQ[p]) /\ \A q \in Peers \ {p} : pendQ'[q] = pendQ[q]
    BY <1>1, <2>1, FramePlaces
  <2> QED
    BY <1>8, <2>1, <2>2 DEF Carries, SendsQueued, Answers
<1> QED
  BY <1>4, <1>5, <1>6, <1>7, <1>8 DEF Carries

\* The end of a dropped stream's channel.
LEMMA DropStreamStep ==
  ASSUME StreamTypes, FrameTypes, NEW p \in Endpoints, NEW j \in Ids, on_drop_stream(p, j)
  PROVE  KeepsOther(p) /\ OwnStep(p) /\ Outward(p)
<1> USE DEF connVars, pendVars, sockVars, tableVars, handleVars, ghostVars
<1>1. p \in Peers
  BY EndpointsArePeers
<1>2. /\ UNCHANGED <<wire, chan, pendR, pendQ, nextId, handle, conn>>
      /\ rx[p][j] = "open" /\ rx' = [rx EXCEPT ![p][j] = "done"]
      /\ \/ UNCHANGED <<pendW, entry>>
         \/ /\ pendW' = [pendW EXCEPT ![p] = DropFrame(j, shared[p][j].state)]
            /\ entry' = [entry EXCEPT ![p] = entry[p] \ {j}]
  BY DEF on_drop_stream, ChanEnded, SetStreams
<1>3. \/ pendW'[p] = pendW[p] \/ pendW'[p] = <<>>
      \/ \E f \in Frames : "SYN" \notin f.flags /\ pendW'[p] = <<f>>
  <2>1. /\ reset_stream(j) \in Frames /\ "SYN" \notin reset_stream(j).flags
        /\ close_stream(j, FALSE) \in Frames /\ "SYN" \notin close_stream(j, FALSE).flags
    <3>1. 0 \in 0 .. U32_MAX /\ 0 \in Nat /\ {} \in SUBSET Flags /\ FALSE \in BOOLEAN
      BY FlowAssumption
    <3>2. reset_stream(j) \in Frames /\ close_stream(j, FALSE) \in Frames
      BY <3>1, FrameOfStream
    <3> QED
      BY <3>2 DEF reset_stream, close_stream, Header
  <2>2. PICK a, b \in Frames : /\ a = reset_stream(j) /\ b = close_stream(j, FALSE)
                               /\ "SYN" \notin a.flags /\ "SYN" \notin b.flags
    BY <2>1
  <2>3. DropFrame(j, shared[p][j].state) \in {<<a>>, <<b>>, <<>>}
    BY <2>2 DEF DropFrame
  <2>4. pendW'[p] = pendW[p] \/ pendW'[p] = DropFrame(j, shared[p][j].state)
    BY <1>1, <1>2, FramePlaces
  <2> QED
    BY <2>2, <2>3, <2>4
<1>4. Carries(p)
  <2>1. CASE pendW'[p] = pendW[p] \/ pendW'[p] = <<>>
    BY <1>2, <2>1 DEF Carries, Loses
  <2>2. CASE \E f \in Frames : "SYN" \notin f.flags /\ pendW'[p] = <<f>>
    BY <1>2, <2>2 DEF Carries, Adds
  <2> QED
    BY <1>3, <2>1, <2>2
<1>5. KeepsOther(p)
  BY <1>1, <1>2, FramePlaces DEF KeepsOther
<1>6. OwnStep(p)
  BY <1>2, <1>4 DEF OwnStep, Answers
<1>7. \A id \in Ids : /\ rx[p][id] = "none" => rx'[p][id] = "none"
                      /\ Ready(p, id) => Ready(p, id)'
  <2>1. /\ rx'[p][j] = "done" /\ \A id \in Ids \ {j} : rx'[p][id] = rx[p][id]
        /\ \A id \in Ids \ {j} : id \in entry[p] => id \in entry'[p]
    BY <1>1, <1>2, FramePlaces
  <2> QED
    BY <1>2, <2>1 DEF Ready
<1> QED
  BY <1>2, <1>5, <1>6, <1>7 DEF Outward

\* A connection that ends closes receivers and lets go of frames.
LEMMA EndingSteps ==
  ASSUME StreamTypes, FrameTypes, NEW p \in Endpoints, Ending(p)
  PROVE  KeepsOther(p) /\ OwnStep(p) /\ Outward(p)
<1> USE DEF connVars, pendVars, sockVars, tableVars, handleVars, ghostVars, Ending
<1>1. p \in Peers
  BY EndpointsArePeers
<1>2. /\ UNCHANGED <<handle, nextId>> /\ conn'[p] # "Active"
      /\ CloseReceivers(p) \/ UNCHANGED rx
  <2>1. \E c : c # "Active" /\ conn' = [conn EXCEPT ![p] = c]
    BY DEF PollFail, OpenFail, cleanup, connection_close, connection_drop, CloseAllReceivers,
           DrainDone, CloseSocket, ClosingError, CleanupDrain, FlushFrame, Goto
  <2>2. conn'[p] # "Active"
    BY <1>1, <2>1, FramePlaces
  <2>3. UNCHANGED <<handle, nextId>> /\ (CloseReceivers(p) \/ UNCHANGED rx)
    BY DEF PollFail, OpenFail, cleanup, connection_close, connection_drop, CloseAllReceivers,
           DrainDone, CloseSocket, ClosingError, CleanupDrain, FlushFrame
  <2> QED
    BY <2>2, <2>3
<1>3. /\ \A id \in Ids : rx[p][id] = "none" => rx'[p][id] = "none"
      /\ \A q \in Peers \ {p} : rx'[q] = rx[q]
  <2>1. MayCloseReceivers(p)
    BY <1>1, <1>2, ReceiversClose
  <2> QED
    BY <2>1 DEF MayCloseReceivers
<1>4. SUFFICES /\ wire'[Other(p)] = wire[Other(p)] /\ Carries(p) /\ Answers(p)
               /\ \A q \in Peers \ {p} :
                    /\ chan'[q] = chan[q] /\ pendR'[q] = pendR[q] /\ pendW'[q] = pendW[q]
                    /\ pendQ'[q] = pendQ[q]
  BY <1>2, <1>3 DEF OwnStep, KeepsOther, Outward
<1>5. DropSocket(p) => /\ \E n \in 0 .. Len(wire[p]) : wire'[p] = SubSeq(wire[p], 1, n)
                       /\ wire'[Other(p)] = wire[Other(p)]
  BY <1>1, FramePlaces DEF DropSocket
<1>6. CASE connection_close(p)
  <2>1. /\ pendQ' = [pendQ EXCEPT ![p] = pendR[p] \o pendW[p]]
        /\ pendR' = [pendR EXCEPT ![p] = <<>>] /\ pendW' = [pendW EXCEPT ![p] = <<>>]
        /\ UNCHANGED <<wire, chan>>
    BY <1>6 DEF connection_close
  <2>2. /\ pendQ'[p] = pendR[p] \o pendW[p] /\ pendR'[p] = <<>> /\ pendW'[p] = <<>>
        /\ \A q \in Peers \ {p} : /\ pendR'[q] = pendR[q] /\ pendW'[q] = pendW[q]
                                  /\ pendQ'[q] = pendQ[q]
    BY <1>1, <2>1, FramePlaces
  <2> QED
    BY <2>1, <2>2 DEF Carries, QueuesPending, Answers
<1>7. CASE DrainDone(p)
  <2>1. pendQ' = [pendQ EXCEPT ![p] = Append(@, term)] /\ UNCHANGED <<wire, chan, pendR, pendW>>
    BY <1>7 DEF DrainDone
  <2>2. /\ pendQ'[p] = Append(pendQ[p], term)
        /\ \A q \in Peers \ {p} : pendQ'[q] = pendQ[q]
    BY <1>1, <2>1, FramePlaces
  <2>3. term \in Frames /\ ~IsStreamFrame(term)
    <3>1. 0 \in 0 .. U32_MAX
      BY FlowAssumption
    <3>2. term \in Frames
      BY <3>1, FrameOfConnection
    <3> QED
      BY <3>2 DEF term, Header, IsStreamFrame
  <2> QED
    BY <2>1, <2>2, <2>3 DEF Carries, Adds, Answers
<1>8. CASE PollFail(p) \/ OpenFail(p)
  <2>1. /\ DropSocket(p) /\ UNCHANGED <<pendQ, chan>>
        /\ pendR' = [pendR EXCEPT ![p] = <<>>] /\ pendW' = [pendW EXCEPT ![p] = <<>>]
    BY <1>8 DEF PollFail, OpenFail, cleanup
  <2>2. /\ pendR'[p] = <<>> /\ pendW'[p] = <<>>
        /\ \A q \in Peers \ {p} : pendR'[q] = pendR[q] /\ pendW'[q] = pendW[q]
    BY <1>1, <2>1, FramePlaces
  <2> QED
    BY <1>5, <2>1, <2>2 DEF Carries, Loses, Answers
<1>9. CASE CloseAllReceivers(p) \/ CloseSocket(p) \/ (FlushFrame(p) /\ pendQ[p] = <<>>)
  <2>1. UNCHANGED <<wire, chan, pendR, pendW, pendQ>>
    BY <1>9 DEF CloseAllReceivers, CloseSocket, FlushFrame
  <2> QED
    BY <2>1 DEF Carries, Loses, Answers
<1>10. CASE ClosingError(p)
  <2>1. /\ DropSocket(p) /\ UNCHANGED <<pendR, pendW, chan>>
        /\ pendQ' = [pendQ EXCEPT ![p] = <<>>]
    BY <1>10 DEF ClosingError
  <2>2. pendQ'[p] = <<>> /\ \A q \in Peers \ {p} : pendQ'[q] = pendQ[q]
    BY <1>1, <2>1, FramePlaces
  <2> QED
    BY <1>5, <2>1, <2>2 DEF Carries, Loses, Answers
<1>11. DropReceivers(p) => /\ \A id \in Ids : chan'[p][id] = <<>>
                           /\ \A q \in Peers \ {p} : chan'[q] = chan[q]
  BY <1>1, FramePlaces DEF DropReceivers
<1>12. CASE CleanupDrain(p)
  <2>1. DropReceivers(p) /\ UNCHANGED <<wire, pendR, pendW, pendQ>>
    BY <1>12 DEF CleanupDrain
  <2> QED
    BY <1>11, <2>1 DEF Carries, Loses, Answers
<1>13. CASE connection_drop(p)
  <2>1. /\ pendR' = [pendR EXCEPT ![p] = <<>>] /\ pendW' = [pendW EXCEPT ![p] = <<>>]
        /\ pendQ' = [pendQ EXCEPT ![p] = <<>>]
    BY <1>13 DEF connection_drop
  <2>2. /\ pendR'[p] = <<>> /\ pendW'[p] = <<>> /\ pendQ'[p] = <<>>
        /\ \A q \in Peers \ {p} : /\ pendR'[q] = pendR[q] /\ pendW'[q] = pendW[q]
                                  /\ pendQ'[q] = pendQ[q]
    BY <1>1, <2>1, FramePlaces
  <2>3. DropReceivers(p)
    BY <1>13 DEF connection_drop
  <2>4. DropSocket(p) \/ UNCHANGED wire
    BY <1>13 DEF connection_drop
  <2>5. /\ wire'[p] = wire[p] \/ \E n \in 0 .. Len(wire[p]) : wire'[p] = SubSeq(wire[p], 1, n)
        /\ wire'[Other(p)] = wire[Other(p)]
    BY <1>5, <2>4
  <2>6. Loses(p)
    BY <1>11, <2>2, <2>3, <2>5 DEF Loses
  <2> QED
    BY <1>11, <2>2, <2>3, <2>5, <2>6 DEF Carries, Answers
<1> QED
  BY <1>6, <1>7, <1>8, <1>9, <1>10, <1>12, <1>13

\* The answers of on_frame concern no stream.
LEMMA AnswerFrames ==
  ASSUME NEW f \in Frames
  PROVE  /\ protocol_error \in Frames /\ internal_error \in Frames /\ pong(f.len) \in Frames
         /\ ~IsStreamFrame(protocol_error) /\ ~IsStreamFrame(internal_error)
         /\ ~IsStreamFrame(pong(f.len))
<1>1. 0 \in 0 .. U32_MAX /\ f.len \in 0 .. U32_MAX
  BY FlowAssumption DEF Frames
<1>2. protocol_error \in Frames /\ internal_error \in Frames /\ pong(f.len) \in Frames
  BY <1>1, FrameOfConnection
<1>3. /\ ~IsStreamFrame(protocol_error) /\ ~IsStreamFrame(internal_error)
      /\ ~IsStreamFrame(pong(f.len))
  BY DEF protocol_error, internal_error, pong, Header, IsStreamFrame
<1> QED
  BY <1>2, <1>3

\* on_frame takes one frame off the socket and answers it.  Only a SYN brings a
\* stream, with an id that is the remote's to choose.
LEMMA OnFrameInward ==
  ASSUME StreamTypes, FrameTypes, StreamsOK, NEW p \in Endpoints, on_frame(p)
  PROVE  KeepsOther(p) /\ OwnStep(p) /\ Inward(p)
<1>1. p \in Peers /\ Other(p) \in Peers /\ Other(p) # p
  BY EndpointsArePeers, OtherPeer
<1>2. PICK f : /\ wire[Other(p)] # <<>> /\ f = Head(wire[Other(p)])
               /\ \/ OnUnknown(p, f) \/ OnReset(p, f) \/ RejectSyn(p, f) \/ AcceptSyn(p, f)
                  \/ on_data(p, f) \/ on_window_update(p, f) \/ on_ping(p, f)
                  \/ handle_pong(p, f)
  BY DEF on_frame
<1> USE DEF connVars, pendVars, sockVars, tableVars, handleVars, ghostVars
<1>3. /\ Receive(p, f) /\ UNCHANGED <<conn, chan, pendW, pendQ, nextId>>
  BY <1>2 DEF OnUnknown, OnReset, RejectSyn, AcceptSyn, on_data, on_window_update,
              on_ping, handle_pong, Terminate
<1>4. f \in Frames
  BY <1>3, Received
<1>5. wire'[Other(p)] = Tail(wire[Other(p)]) /\ wire'[p] = wire[p]
  BY <1>1, <1>3, FramePlaces DEF Receive
<1>6. \E r : /\ pendR' = [pendR EXCEPT ![p] = r]
             /\ \/ r \in {pendR[p], <<>>}
                \/ \E g \in Frames : ~IsStreamFrame(g) /\ r = <<g>>
  <2>1. PICK a, b, c \in Frames :
          /\ a = protocol_error /\ b = internal_error /\ c = pong(f.len)
          /\ ~IsStreamFrame(a) /\ ~IsStreamFrame(b) /\ ~IsStreamFrame(c)
    BY <1>4, AnswerFrames
  <2>2. CASE UNCHANGED pendR
    BY <1>1, <2>2, SamePend
  <2>3. CASE RejectSyn(p, f)
    <3>1. pendR' = [pendR EXCEPT ![p] = <<Head(SynError(p, f))>>] /\ SynError(p, f) # <<>>
      BY <2>3 DEF RejectSyn, Terminate
    <3>2. SynError(p, f) \in {<<a>>, <<b>>}
      BY <2>1, <3>1 DEF SynError
    <3>3. PICK g \in {a, b} : g = Head(SynError(p, f))
      BY <3>2
    <3> QED
      BY <2>1, <3>1, <3>3
  <2>4. CASE on_data(p, f) \/ on_window_update(p, f) \/ handle_pong(p, f)
    <3>1. UNCHANGED pendR \/ pendR' = [pendR EXCEPT ![p] = <<a>>]
      BY <2>1, <2>4 DEF on_data, on_window_update, handle_pong, Terminate
    <3> QED
      BY <2>1, <2>2, <3>1
  <2>5. CASE on_ping(p, f)
    <3>1. \/ pendR' = [pendR EXCEPT ![p] = <<c>>] \/ pendR' = [pendR EXCEPT ![p] = <<>>]
      BY <2>1, <2>5 DEF on_ping
    <3> QED
      BY <2>1, <3>1
  <2>6. OnUnknown(p, f) \/ OnReset(p, f) \/ AcceptSyn(p, f) => UNCHANGED pendR
    BY DEF OnUnknown, OnReset, AcceptSyn
  <2> QED
    BY <1>2, <2>2, <2>3, <2>4, <2>5, <2>6
<1>7. Answers(p) /\ \A q \in Peers \ {p} : pendR'[q] = pendR[q]
  BY <1>1, <1>6, FramePlaces DEF Answers
<1>8. \E ent : /\ entry' = [entry EXCEPT ![p] = ent]
               /\ ent \in {entry[p], entry[p] \ {f.id}, entry[p] \cup {f.id}}
  <2>1. CASE OnUnknown(p, f) \/ on_ping(p, f) \/ handle_pong(p, f)
    <3>1. UNCHANGED entry
      BY <2>1 DEF OnUnknown, on_ping, handle_pong
    <3>2. entry = [entry EXCEPT ![p] = entry[p]]
      BY <1>1, FramePlaces
    <3> QED
      BY <3>1, <3>2
  <2>2. CASE OnReset(p, f) \/ RejectSyn(p, f) \/ AcceptSyn(p, f)
    BY <2>2 DEF OnReset, RejectSyn, AcceptSyn, Terminate, SetStreams
  <2>3. CASE on_data(p, f) \/ on_window_update(p, f)
    <3>1. PICK s : \/ entry' = [entry EXCEPT ![p] = AfterFin(p, f, s)]
                   \/ entry' = [entry EXCEPT ![p] = entry[p]]
      BY <2>3 DEF on_data, on_window_update, Terminate, SetStreams
    <3> QED
      BY <3>1 DEF AfterFin
  <2> QED
    BY <1>2, <2>1, <2>2, <2>3
<1>9. \A id \in Ids \ {f.id} : id \in entry'[p] <=> id \in entry[p]
  BY <1>1, <1>8, FramePlaces
<1>10. CASE AcceptSyn(p, f)
  <2>1. /\ IsSyn(f) /\ rx' = [rx EXCEPT ![p][f.id] = "open"]
        /\ handle' = [handle EXCEPT ![p] = [handle[p] EXCEPT ![f.id] = NewHandle("Ack")]]
    BY <1>10 DEF AcceptSyn
  <2>2. f.id \in Ids /\ ~is_outbound(p, f.id) /\ SynFor(f, f.id)
    BY <1>10, <2>1, AcceptSynKeeps DEF IsSyn, SynFor
  <2>3. PICK h : h = NewHandle("Ack") /\ h.op.kind \notin FrameOps
    BY NewHandleOK DEF FrameOps
  <2>4. /\ \A q \in Peers \ {p} : rx'[q] = rx[q] /\ handle'[q] = handle[q]
        /\ handle'[p][f.id] = h /\ \A id \in Ids \ {f.id} : /\ handle'[p][id] = handle[p][id]
                                                          /\ rx'[p][id] = rx[p][id]
    BY <1>1, <2>1, <2>2, <2>3, FramePlaces
  <2>5. KeepsOther(p)
    BY <1>3, <1>7, <2>4 DEF KeepsOther
  <2>6. OwnStep(p)
    BY <1>3, <1>5, <1>7, <2>2, <2>3, <2>4 DEF OwnStep, Carries, Loses
  <2>7. Inward(p)
    BY <1>2, <1>3, <1>5, <1>9, <2>2, <2>4 DEF Inward, Ready
  <2> QED
    BY <2>5, <2>6, <2>7
<1>11. CASE ~AcceptSyn(p, f)
  <2>1. UNCHANGED <<rx, handle>>
    BY <1>2, <1>11 DEF OnUnknown, OnReset, RejectSyn, on_data, on_window_update,
              on_ping, handle_pong, Terminate
  <2>2. KeepsOther(p)
    BY <1>3, <1>7, <2>1 DEF KeepsOther
  <2>3. OwnStep(p)
    BY <1>3, <1>5, <1>7, <2>1 DEF OwnStep, Carries, Loses
  <2>4. Inward(p)
    BY <1>2, <1>3, <1>5, <1>9, <2>1 DEF Inward, Ready
  <2> QED
    BY <2>2, <2>3, <2>4
<1> QED
  BY <1>10, <1>11

\* The next id of a peer is again its own.
LEMMA NextOwn ==
  ASSUME NEW p, NEW n \in Nat, is_outbound(p, n)
  PROVE  is_outbound(p, n + 2)
<1>1. (n + 2) % 2 = n % 2
  OBVIOUS
<1> QED
  BY <1>1 DEF is_outbound, is_client, is_server

\* poll_new_outbound begins a journey: the SYN is a flag of the new handle, and
\* no trace of it is anywhere else.
LEMMA OpenStep ==
  ASSUME StreamTypes, FrameTypes, StreamsOK, NEW p \in Endpoints, poll_new_outbound(p),
         OwnSide(p), \A id \in Ids : is_outbound(p, id) => OneSyn(p, id)
  PROVE  /\ KeepsOther(p) /\ Outward(p) /\ OwnSide(p)' /\ wire'[p] = wire[p]
         /\ \A id \in Ids : is_outbound(p, id) => OneSyn(p, id)'
<1> USE DEF connVars, pendVars, sockVars, tableVars, handleVars, ghostVars
<1>1. p \in Peers /\ Other(p) \in Peers /\ Other(p) # p /\ nextId[p] \in Nat
  <2>1. p \in Peers
    BY EndpointsArePeers
  <2>2. nextId[p] \in 1 .. MAX_ID + 1
    BY <2>1, FramePlaces
  <2> QED
    BY <2>1, <2>2, OtherPeer, EndpointAssumption
<1>2. PICK n : n = nextId[p]
  OBVIOUS
<1>3. PICK h : h = NewHandle("Syn") /\ h.op.kind \notin FrameOps /\ h.life = "live"
  BY NewHandleOK DEF FrameOps
<1>4. n \in Ids /\ is_outbound(p, n)
  BY <1>2, PollNewOutboundKeeps DEF OwnSide
<1>5. /\ nextId' = [nextId EXCEPT ![p] = n + 2] /\ rx' = [rx EXCEPT ![p][n] = "open"]
      /\ handle' = [handle EXCEPT ![p] = [handle[p] EXCEPT ![n] = h]]
      /\ entry' = [entry EXCEPT ![p] = entry[p] \cup {n}]
      /\ UNCHANGED <<conn, pendR, pendW, pendQ, wire, chan>>
  BY <1>2, <1>3 DEF poll_new_outbound, SetStreams
<1>6. /\ nextId'[p] = n + 2 /\ entry'[p] = entry[p] \cup {n} /\ handle'[p][n] = h
      /\ \A id \in Ids \ {n} : handle'[p][id] = handle[p][id] /\ rx'[p][id] = rx[p][id]
      /\ \A q \in Peers \ {p} : /\ nextId'[q] = nextId[q] /\ rx'[q] = rx[q]
                                /\ handle'[q] = handle[q]
  BY <1>1, <1>4, <1>5, FramePlaces
<1>7. KeepsOther(p)
  BY <1>5, <1>6 DEF KeepsOther
<1>8. Outward(p)
  BY <1>4, <1>5, <1>6 DEF Outward, Ready
<1>9. OwnSide(p)'
  <2>1. is_outbound(p, nextId'[p])
    BY <1>1, <1>2, <1>4, <1>6, NextOwn
  <2>2. \A id \in Ids : OwnStream(p, id)'
    BY <1>3, <1>5, <1>6 DEF OwnSide, OwnStream, FrameOps
  <2> QED
    BY <1>5, <2>1, <2>2 DEF OwnSide
<1>10. ASSUME NEW id \in Ids, id # n, OneSyn(p, id) PROVE OneSyn(p, id)'
  <2>1. Travels(p, id)
    BY <1>1, <1>5, <1>6, <1>10, Unmoved
  <2>2. /\ \A a, b \in Places(p, id)' : a = b
        /\ Places(p, id) = {} => Places(p, id)' = {}
        /\ AllOnce(p, id)'
    BY <1>10, <2>1 DEF OneSyn, Travels, Passes
  <2>3. id >= nextId'[p] => id >= nextId[p]
    <3>1. id \in Nat
      BY EndpointAssumption DEF Ids
    <3> QED
      BY <1>1, <1>2, <1>6, <3>1
  <2>4. handle'[p][id].life = handle[p][id].life
    BY <1>6, <1>10
  <2>5. id >= nextId'[p] => Places(p, id)' = {} /\ handle'[p][id].life = "none"
    BY <1>10, <2>2, <2>3, <2>4 DEF OneSyn
  <2> QED
    BY <2>2, <2>5 DEF OneSyn
<1>11. OneSyn(p, n)'
  <2>1. OneSyn(p, n)
    BY <1>4
  <2>2. Places(p, n) = {} /\ AllOnce(p, n)
    BY <1>1, <1>2, <2>1 DEF OneSyn
  <2>3. /\ ~SynIn(chan[p][n], n) /\ ~SynIn(pendW[p], n) /\ ~SynIn(pendQ[p], n)
        /\ ~SynIn(wire[p], n) /\ rx[Other(p)][n] = "none"
    BY <2>2, PlacesAre
  <2>4. Places(p, n)' \subseteq {"flag"}
    BY <1>1, <1>3, <1>5, <1>6, <2>3 DEF Places, PlaceNames, FrameOps
  <2>5. AllOnce(p, n)'
    BY <1>5, <2>2 DEF AllOnce
  <2>6. ~(n >= nextId'[p])
    BY <1>1, <1>2, <1>6
  <2>7. \A a, b \in Places(p, n)' : a = b
    BY <2>4
  <2> QED
    BY <2>5, <2>6, <2>7 DEF OneSyn
<1> QED
  BY <1>5, <1>7, <1>8, <1>9, <1>10, <1>11

----------------------------------------------------------------------------
(* Every step keeps the journeys                                            *)

\* A handle exists as long as its receiver: it is not there before.
LEMMA LifeAndReceiver ==
  ASSUME StreamsOK, NEW p \in Endpoints, NEW id \in Ids
  PROVE  rx[p][id] = "none" <=> handle[p][id].life = "none"
BY DEF StreamsOK, StreamOK, Tabled

\* An operation of a handle.
LEMMA HandleJourney ==
  ASSUME StreamTypes, FrameTypes, StreamsOK, StreamsOK', NEW p \in Endpoints, NEW j \in Ids,
         HandleAction(p, j), OwnJourney(p)
  PROVE  OwnJourney(p)'
<1>1. p \in Peers /\ Operates(p, j) /\ UNCHANGED <<wire, pendR, pendW, pendQ, rx, nextId>>
  BY EndpointsArePeers, HandleOperates
<1>2. ASSUME NEW id \in Ids
      PROVE  OwnStream(p, id)' /\ (OneSyn(p, id) => Travels(p, id))
  BY <1>1, <1>2, OperatesTravels DEF OwnJourney, OwnSide
<1>3. OwnSide(p)'
  BY <1>1, <1>2 DEF OwnJourney, OwnSide
<1>4. ASSUME NEW id \in Ids, is_outbound(p, id) PROVE OneSyn(p, id)'
  <2>1. OneSyn(p, id) /\ Travels(p, id)
    BY <1>2, <1>4 DEF OwnJourney
  <2>2. rx'[p][id] = "none" <=> handle'[p][id].life = "none"
    <3>1. StreamOK(conn'[p], id \in entry'[p], rx'[p][id], shared'[p][id], handle'[p][id])
      BY DEF StreamsOK
    <3> QED
      BY <3>1 DEF StreamOK, Tabled
  <2>3. handle[p][id].life = "none" => handle'[p][id].life = "none"
    BY <1>1, <2>2, LifeAndReceiver
  <2> QED
    BY <1>1, <2>1, <2>3, OneStays
<1> QED
  BY <1>3, <1>4 DEF OwnJourney

\* A step of the connection.
LEMMA ConnectionJourney ==
  ASSUME StreamTypes, FrameTypes, NEW p \in Endpoints, KeepsOther(p), OwnStep(p),
         OwnJourney(p)
  PROVE  OwnJourney(p)'
<1>1. p \in Peers /\ Other(p) \in Peers /\ Other(p) # p
  BY EndpointsArePeers, OtherPeer
<1>2. ASSUME NEW id \in Ids PROVE OwnStream(p, id)'
  BY <1>1, <1>2, CarriesOwn DEF OwnStep, OwnJourney, OwnSide
<1>3. OwnSide(p)'
  <2>1. \A i \in DOMAIN pendR'[p] : ~IsStreamFrame(pendR'[p][i])
    <3>1. CASE pendR'[p] \in {pendR[p], <<>>}
      BY <3>1 DEF OwnJourney, OwnSide
    <3>2. CASE \E f \in Frames : ~IsStreamFrame(f) /\ pendR'[p] = <<f>>
      BY <3>2
    <3> QED
      BY <3>1, <3>2 DEF OwnStep, Answers
  <2> QED
    BY <1>2, <2>1 DEF OwnStep, OwnJourney, OwnSide
<1>4. ASSUME NEW id \in Ids, is_outbound(p, id) PROVE OneSyn(p, id)'
  <2>1. handle'[p][id] = handle[p][id] /\ rx'[Other(p)][id] = rx[Other(p)][id]
    BY <1>1, <1>4 DEF OwnStep, KeepsOther
  <2>2. Travels(p, id)
    BY <1>1, <1>4, <2>1, CarriesTravels DEF Aside, OwnStep, OwnJourney
  <2> QED
    BY <1>4, <2>1, <2>2, OneStays DEF OwnStep, OwnJourney
<1> QED
  BY <1>3, <1>4 DEF OwnJourney

\* What a step of an endpoint is to its own side.
LEMMA EndpointJourney ==
  ASSUME StreamTypes, FrameTypes, StreamsOK, StreamsOK', NEW p \in Endpoints,
         EndpointStep(p), OwnJourney(p)
  PROVE  OwnJourney(p)' /\ KeepsOther(p) /\ (Outward(p) \/ Inward(p))
<1>1. CASE Sending(p)
  BY <1>1, SendingSteps, ConnectionJourney DEF OwnJourney
<1>2. CASE Ending(p)
  BY <1>2, EndingSteps, ConnectionJourney
<1>3. CASE on_frame(p)
  BY <1>3, OnFrameInward, ConnectionJourney
<1>4. CASE poll_new_outbound(p)
  BY <1>4, OpenStep DEF OwnJourney
<1>5. CASE \E j \in Ids : HandleAction(p, j)
  BY <1>5, HandleJourney, HandleAside
<1>6. CASE \E j \in Ids : on_drop_stream(p, j)
  BY <1>6, DropStreamStep, ConnectionJourney
<1> QED
  BY <1>1, <1>2, <1>3, <1>4, <1>5, <1>6, EndpointActions

\* The frame a step takes off the socket may be a SYN of the other side: it has
\* arrived then.
LEMMA OtherJourney ==
  ASSUME StreamTypes, FrameTypes, NEW p \in Peers, KeepsOther(p), Outward(p) \/ Inward(p),
         NEW q \in Peers, q # p, OwnJourney(q)
  PROVE  OwnJourney(q)'
<1>1. q = Other(p) /\ p = Other(q)
  BY OtherPeer
<1>2. /\ handle'[q] = handle[q] /\ chan'[q] = chan[q] /\ pendR'[q] = pendR[q]
      /\ pendW'[q] = pendW[q] /\ pendQ'[q] = pendQ[q] /\ nextId'[q] = nextId[q]
  BY DEF KeepsOther
<1>3. OwnSide(q)'
  BY <1>2 DEF OwnJourney, OwnSide, OwnStream
<1>4. SUFFICES ASSUME NEW id \in Ids, is_outbound(q, id) PROVE OneSyn(q, id)'
  BY <1>3 DEF OwnJourney
<1>5. OneSyn(q, id) /\ ~is_outbound(p, id)
  BY <1>4 DEF OwnJourney, is_outbound, Peers
<1>6. SUFFICES Travels(q, id)
  BY <1>2, <1>5, OneStays
<1>7. CASE Outward(p)
  <2>1. wire'[q] = wire[q] /\ (rx'[p][id] # "none" => rx[p][id] # "none")
    BY <1>1, <1>5, <1>7 DEF Outward
  <2>2. Passes(q, id)
    BY <1>1, <1>2, <2>1, Stays
  <2> QED
    BY <1>2, <1>5, <2>1, <2>2 DEF Travels, AllOnce, OneSyn
<1>8. CASE Inward(p)
  <2>1. PICK f : f = Head(wire[q])
    OBVIOUS
  <2>2. /\ wire[q] \in Seq(Frames) /\ wire[q] # <<>> /\ wire'[q] = Tail(wire[q])
        /\ rx'[p][id] = rx[p][id] \/ SynFor(f, id)
    BY <1>1, <1>8, <2>1 DEF Inward, FrameTypes
  <2>3. /\ SynFor(f, id) => SynIn(wire[q], id)
        /\ SynIn(wire'[q], id) => SynIn(wire[q], id)
        /\ Once(wire[q], id) => Once(wire'[q], id)
        /\ Once(wire[q], id) /\ SynFor(f, id) => ~SynIn(wire'[q], id)
    BY <2>1, <2>2, SynTail
  <2>4. AllOnce(q, id)'
    BY <1>2, <1>5, <2>3 DEF AllOnce, OneSyn
  <2>5. CASE SynFor(f, id)
    <3>1. "wire" \in Places(q, id) /\ "wire" \notin Places(q, id)'
      BY <1>5, <2>3, <2>5 DEF Places, PlaceNames, OneSyn, AllOnce
    <3>2. \A x \in PlaceNames \ {"opened"} : x \in Places(q, id)' => x \in Places(q, id)
      BY <1>2, <2>3 DEF Places, PlaceNames
    <3>3. Passes(q, id)
      BY <3>1, <3>2, Hops DEF PlaceNames
    <3> QED
      BY <2>4, <3>3 DEF Travels
  <2>6. CASE ~SynFor(f, id)
    <3>1. Passes(q, id)
      BY <1>1, <1>2, <2>2, <2>3, <2>6, Stays
    <3> QED
      BY <2>4, <3>1 DEF Travels
  <2> QED
    BY <2>5, <2>6
<1> QED
  BY <1>7, <1>8

----------------------------------------------------------------------------
(* SYNs of a foreign peer                                                   *)

\* A SYN of a foreign peer is the first frame under way about its stream, and
\* finds the stream in the table or free.
Announced(p, w) ==
  \A id \in Ids : \A i \in DOMAIN w :
    SynFor(w[i], id) =>
      /\ \A j \in 1 .. i - 1 : w[j].id # id
      /\ conn[p] = "Active" => Ready(p, id)

Foreign ==
  \A p \in Endpoints : Other(p) \notin Endpoints => Announced(p, wire[Other(p)])

\* The steps of the endpoint keep that so.
LEMMA ForeignStays ==
  ASSUME FrameTypes, NEW p \in Peers, Outward(p) \/ Inward(p),
         Announced(p, wire[Other(p)])
  PROVE  Announced(p, wire[Other(p)])'
<1>1. PICK w : w = wire[Other(p)] /\ w \in Seq(Frames)
  BY OtherPeer DEF FrameTypes
<1>2. PICK v : v = wire'[Other(p)]
  OBVIOUS
<1>3. SUFFICES ASSUME NEW id \in Ids, NEW i \in DOMAIN v, SynFor(v[i], id)
               PROVE  /\ \A j \in 1 .. i - 1 : v[j].id # id
                      /\ conn'[p] = "Active" => Ready(p, id)'
  BY <1>2 DEF Announced
<1>4. CASE Outward(p)
  <2>1. v = w
    BY <1>1, <1>2, <1>4 DEF Outward
  <2>2. (\A j \in 1 .. i - 1 : w[j].id # id) /\ (conn[p] = "Active" => Ready(p, id))
    BY <1>1, <1>3, <2>1 DEF Announced
  <2> QED
    BY <1>4, <2>1, <2>2 DEF Outward
<1>5. CASE Inward(p)
  <2>1. w # <<>> /\ v = Tail(w)
    BY <1>1, <1>2, <1>5 DEF Inward
  <2>2. /\ Len(w) \in Nat /\ DOMAIN w = 1 .. Len(w) /\ Head(w) = w[1]
        /\ DOMAIN v = 1 .. Len(w) - 1 /\ \A k \in DOMAIN v : v[k] = w[k + 1]
    BY <1>1, <2>1
  <2>3. i \in Nat /\ i + 1 \in DOMAIN w /\ v[i] = w[i + 1] /\ 1 \in 1 .. (i + 1) - 1
    BY <2>2
  <2>4. /\ \A j \in 1 .. (i + 1) - 1 : w[j].id # id
        /\ conn[p] = "Active" => Ready(p, id)
    BY <1>1, <1>3, <2>3 DEF Announced
  <2>5. \A j \in 1 .. i - 1 : v[j].id # id
    <3>1. \A j \in 1 .. i - 1 : j \in DOMAIN v /\ j + 1 \in 1 .. (i + 1) - 1
      BY <2>2, <2>3
    <3> QED
      BY <2>2, <2>4, <3>1
  <2>6. Head(w).id # id
    BY <2>2, <2>3, <2>4
  <2>7. conn'[p] = conn[p] /\ (Ready(p, id) => Ready(p, id)')
    BY <1>1, <1>5, <2>6 DEF Inward
  <2> QED
    BY <2>4, <2>5, <2>7
<1> QED
  BY <1>4, <1>5

\* A foreign peer sends a SYN where no handle has the id, and none of its
\* frames about the id is under way.
LEMMA ForeignSends ==
  ASSUME FrameTypes, NEW r \in Peers, NEW f \in Frames, ~ReusesId(r, f), SendFrame(r, f),
         UNCHANGED <<conn, entry, rx>>, NEW p \in Peers, Other(p) = r,
         Announced(p, wire[r])
  PROVE  Announced(p, wire[r])'
<1>1. PICK w : w = wire[r] /\ w \in Seq(Frames)
  BY DEF FrameTypes
<1>2. PICK v : v = wire'[r] /\ v = Append(w, f)
  BY <1>1 DEF SendFrame, FrameTypes
<1>3. /\ Len(w) \in Nat /\ DOMAIN w = 1 .. Len(w) /\ DOMAIN v = 1 .. Len(w) + 1
      /\ \A k \in DOMAIN w : v[k] = w[k]
      /\ v[Len(w) + 1] = f
  BY <1>1, <1>2
<1>4. p = Other(r)
  BY OtherPeer
<1>5. \A id : Ready(p, id) => Ready(p, id)'
  BY DEF Ready
<1>6. SUFFICES ASSUME NEW id \in Ids, NEW i \in DOMAIN v, SynFor(v[i], id)
               PROVE  /\ \A j \in 1 .. i - 1 : v[j].id # id
                      /\ conn'[p] = "Active" => Ready(p, id)'
  BY <1>2 DEF Announced
<1>7. CASE i \in DOMAIN w
  <2>1. (\A j \in 1 .. i - 1 : w[j].id # id) /\ (conn[p] = "Active" => Ready(p, id))
    BY <1>1, <1>3, <1>6, <1>7 DEF Announced
  <2>2. \A j \in 1 .. i - 1 : j \in DOMAIN w
    BY <1>3, <1>7
  <2> QED
    BY <1>3, <1>5, <2>1, <2>2
<1>8. CASE i \notin DOMAIN w
  <2>1. i = Len(w) + 1 /\ v[i] = f /\ f.id = id /\ "SYN" \in f.flags
    BY <1>3, <1>6, <1>8 DEF SynFor
  <2>2. /\ \A k \in DOMAIN w : w[k].id # id
        /\ Ready(p, id)
    BY <1>1, <1>4, <2>1 DEF ReusesId, Ready
  <2>3. \A j \in 1 .. i - 1 : j \in DOMAIN w
    BY <1>3, <2>1
  <2> QED
    BY <1>3, <1>5, <2>2, <2>3
<1> QED
  BY <1>7, <1>8

----------------------------------------------------------------------------
(* The invariant                                                            *)

RouteInv == SessionInv /\ Journey /\ Foreign

\* At the beginning nothing is under way.
LEMMA InitRoute == SessionInit => RouteInv
<1> SUFFICES ASSUME SessionInit PROVE RouteInv
  OBVIOUS
<1>1. SessionInv
  BY InitSession
<1>2. /\ rx = [p \in Peers |-> [id \in Ids |-> "none"]]
      /\ handle = [p \in Peers |-> [id \in Ids |-> NoHandle]]
      /\ nextId = [p \in Peers |-> IF p = "Client" THEN 1 ELSE 2]
      /\ wire = [p \in Peers |-> <<>>] /\ pendR = [p \in Peers |-> <<>>]
      /\ pendW = [p \in Peers |-> <<>>] /\ pendQ = [p \in Peers |-> <<>>]
      /\ chan = [p \in Peers |-> [id \in Ids |-> <<>>]]
  BY DEF SessionInit, Init, PerStream
<1>3. /\ NoHandle.life = "none" /\ NoHandle.flag = "None" /\ NoHandle.op.kind = "idle"
  BY DEF NoHandle, Idle
<1>4. ASSUME NEW q \in Endpoints PROVE OwnJourney(q)
  <2>1. q \in Peers /\ Other(q) \in Peers
    BY EndpointsArePeers, OtherPeer
  <2>2. /\ wire[q] = <<>> /\ pendR[q] = <<>> /\ pendW[q] = <<>> /\ pendQ[q] = <<>>
        /\ \A id \in Ids : /\ chan[q][id] = <<>> /\ handle[q][id] = NoHandle
                           /\ rx[Other(q)][id] = "none"
    BY <1>2, <2>1
  <2>3. is_outbound(q, nextId[q])
    <3>1. 1 % 2 # 0 /\ 2 % 2 = 0
      OBVIOUS
    <3> QED
      BY <1>2, <2>1, <3>1 DEF is_outbound, is_client, is_server, Peers
  <2>4. OwnSide(q)
    BY <1>3, <2>2, <2>3 DEF OwnSide, OwnStream
  <2>5. ASSUME NEW id \in Ids PROVE OneSyn(q, id)
    <3>1. Places(q, id) = {}
      BY <1>3, <2>2, SynEmpty DEF Places, PlaceNames
    <3>2. AllOnce(q, id)
      BY <2>2, SynEmpty DEF AllOnce
    <3> QED
      BY <1>3, <2>2, <3>1, <3>2 DEF OneSyn
  <2> QED
    BY <2>4, <2>5 DEF OwnJourney
<1>5. Foreign
  <2> SUFFICES ASSUME NEW p \in Endpoints PROVE Announced(p, wire[Other(p)])
    BY DEF Foreign
  <2>1. wire[Other(p)] = <<>>
    BY <1>2, EndpointsArePeers, OtherPeer
  <2> QED
    BY <2>1 DEF Announced
<1> QED
  BY <1>1, <1>4, <1>5 DEF RouteInv, Journey

\* A foreign peer that sends leaves the endpoints' SYNs alone; one that reads
\* takes them off the socket.
LEMMA ForeignJourney ==
  ASSUME StreamTypes, FrameTypes, ForeignSend \/ ForeignReceive, Journey, Foreign
  PROVE  Journey' /\ Foreign'
<1>0. Steady /\ UNCHANGED <<chan, pendR, pendW, pendQ, nextId>>
  BY ForeignSteady DEF ForeignSend, ForeignReceive, connVars, pendVars, handleVars
<1>1. ASSUME NEW q \in Endpoints,
             wire'[q] = wire[q] \/ (wire[q] # <<>> /\ wire'[q] = Tail(wire[q]))
      PROVE  OwnJourney(q)'
  <2>1. OwnSide(q)' /\ wire[q] \in Seq(Frames)
    BY <1>0, EndpointsArePeers DEF Steady, Journey, OwnJourney, OwnSide, OwnStream, FrameTypes
  <2>2. ASSUME NEW id \in Ids, is_outbound(q, id) PROVE OneSyn(q, id)'
    <3>1. OneSyn(q, id)
      BY <2>2 DEF Journey, OwnJourney
    <3>2. /\ SynIn(wire'[q], id) => SynIn(wire[q], id)
          /\ Once(wire[q], id) => Once(wire'[q], id)
      BY <1>1, <2>1, SynTail
    <3>3. Passes(q, id)
      BY <1>0, <3>2, Stays DEF Steady
    <3>4. AllOnce(q, id)'
      BY <1>0, <3>1, <3>2 DEF AllOnce, OneSyn
    <3> QED
      BY <1>0, <3>1, <3>3, <3>4, OneStays DEF Travels, Steady
  <2> QED
    BY <2>1, <2>2 DEF OwnJourney
<1>2. ASSUME NEW p \in Peers, wire'[Other(p)] = wire[Other(p)], Announced(p, wire[Other(p)])
      PROVE  Announced(p, wire[Other(p)])'
  BY <1>0, <1>2 DEF Announced, Steady, Ready
<1>3. CASE ForeignSend
  <2>1. PICK r \in Peers \ Endpoints, f \in ForeignFrames : ~ReusesId(r, f) /\ SendFrame(r, f)
    BY <1>3 DEF ForeignSend
  <2>2. f \in Frames
    BY SessionAssumption DEF Frames
  <2>3. \A q \in Peers \ {r} : wire'[q] = wire[q]
    BY <2>1 DEF SendFrame, FrameTypes
  <2>4. Journey'
    BY <1>1, <2>3, EndpointsArePeers DEF Journey
  <2>5. ASSUME NEW p \in Endpoints, Other(p) \notin Endpoints
        PROVE  Announced(p, wire[Other(p)])'
    <3>1. p \in Peers /\ Other(p) \in Peers /\ Announced(p, wire[Other(p)])
      BY <2>5, EndpointsArePeers, OtherPeer DEF Foreign
    <3>2. CASE Other(p) = r
      BY <1>0, <2>1, <2>2, <3>1, <3>2, ForeignSends DEF Steady
    <3>3. CASE Other(p) # r
      BY <1>2, <2>3, <3>1, <3>3
    <3> QED
      BY <3>2, <3>3
  <2> QED
    BY <2>4, <2>5 DEF Foreign
<1>4. CASE ForeignReceive
  <2>1. PICK r \in Peers \ Endpoints : /\ wire[Other(r)] # <<>>
                                       /\ wire' = [wire EXCEPT ![Other(r)] = Tail(@)]
    BY <1>4 DEF ForeignReceive
  <2>2. Other(r) \in Peers /\ wire'[Other(r)] = Tail(wire[Other(r)])
        /\ \A q \in Peers \ {Other(r)} : wire'[q] = wire[q]
    BY <2>1, OtherPeer DEF FrameTypes
  <2>3. Journey'
    BY <1>1, <2>1, <2>2, EndpointsArePeers DEF Journey
  <2>4. ASSUME NEW p \in Endpoints, Other(p) \notin Endpoints
        PROVE  Announced(p, wire[Other(p)])'
    <3>1. p \in Peers /\ Other(p) \in Peers /\ Announced(p, wire[Other(p)])
      BY <2>4, EndpointsArePeers, OtherPeer DEF Foreign
    <3>2. Other(r) = p
      BY <2>1, <2>4, <3>1, OtherPeer
    <3> QED
      BY <1>2, <2>2, <3>1, <3>2, OtherPeer
  <2> QED
    BY <2>3, <2>4 DEF Foreign
<1> QED
  BY <1>3, <1>4

\* Every step of the session keeps the invariant.
LEMMA NextRoute == RouteInv /\ [SessionNext]_allVars => RouteInv'
<1> SUFFICES ASSUME RouteInv, [SessionNext]_allVars PROVE RouteInv'
  OBVIOUS
<1>1. SessionInv'
  BY NextSession DEF RouteInv
<1>2. StreamTypes /\ FrameTypes /\ StreamsOK /\ StreamsOK' /\ Journey /\ Foreign
  BY <1>1 DEF RouteInv, SessionInv
<1>3. ASSUME NEW p \in Endpoints, EndpointStep(p)
      PROVE  Journey' /\ Foreign'
  <2>1. p \in Peers /\ OwnJourney(p)
    BY <1>2, EndpointsArePeers DEF Journey
  <2>2. OwnJourney(p)' /\ KeepsOther(p) /\ (Outward(p) \/ Inward(p))
    BY <1>2, <1>3, <2>1, EndpointJourney
  <2>3. ASSUME NEW q \in Endpoints, q # p PROVE OwnJourney(q)'
    BY <1>2, <2>1, <2>2, <2>3, OtherJourney, EndpointsArePeers DEF Journey
  <2>4. ASSUME NEW q \in Endpoints, Other(q) \notin Endpoints
        PROVE  Announced(q, wire[Other(q)])'
    <3>1. q = p
      BY <2>1, <2>4, EndpointsArePeers, OtherPeer
    <3>2. Announced(p, wire[Other(p)])
      BY <1>2, <2>4, <3>1 DEF Foreign
    <3> QED
      BY <1>2, <2>1, <2>2, <3>1, <3>2, ForeignStays
  <2> QED
    BY <2>2, <2>3, <2>4 DEF Journey, Foreign
<1>4. CASE ForeignSend \/ ForeignReceive
  BY <1>1, <1>2, <1>4, ForeignJourney DEF RouteInv
<1>5. CASE UNCHANGED allVars
  <2>1. UNCHANGED <<conn, nextId, rx, entry, pendR, pendW, pendQ, wire, chan, handle>>
    BY <1>5 DEF allVars, vars, connVars, pendVars, sockVars, tableVars, handleVars
  <2>2. Journey'
    BY <1>2, <2>1 DEF Journey, OwnJourney, OwnSide, OwnStream, OneSyn, AllOnce, Places
  <2>3. Foreign'
    BY <1>2, <2>1 DEF Foreign, Announced, Ready
  <2> QED
    BY <1>1, <2>2, <2>3 DEF RouteInv
<1> QED
  BY <1>1, <1>3, <1>4, <1>5 DEF RouteInv, SessionNext

\* The invariant holds of every behaviour of the session.
LEMMA RouteSafe == Spec => []RouteInv
BY InitRoute, NextRoute, PTL DEF Spec

----------------------------------------------------------------------------
(* The counter and the windows                                              *)

\* A stream that is opened takes nobody's place: no handle and no table holds a
\* Shared with its id.
LEMMA FreshOpens ==
  ASSUME RouteInv, NEW p \in Endpoints, NEW id \in Ids, Opens(p, id)
  PROVE  shared[p][id] = NoShared
<1>1. /\ StreamTypes /\ FrameTypes /\ StreamsOK /\ Journey /\ Foreign /\ p \in Peers
      /\ Other(p) \in Peers /\ Other(p) # p /\ Other(Other(p)) = p
  BY EndpointsArePeers, OtherPeer DEF RouteInv, SessionInv
<1>2. StreamOK(conn[p], id \in entry[p], rx[p][id], shared[p][id], handle[p][id])
  BY <1>1 DEF StreamsOK
<1>3. SUFFICES rx[p][id] \in {"none", "done"}
  BY <1>2 DEF StreamOK, Held, Tabled
<1>4. CASE poll_new_outbound(p) /\ id = nextId[p]
  <2>1. OneSyn(p, id) /\ id \in Nat
    BY <1>1, <1>4, EndpointAssumption DEF Journey, OwnJourney, OwnSide, Ids
  <2>2. handle[p][id].life = "none"
    BY <1>4, <2>1 DEF OneSyn
  <2> QED
    BY <1>1, <2>2, LifeAndReceiver
<1>5. CASE /\ \E f : AcceptSyn(p, f) /\ id = f.id
           /\ ~is_outbound(p, id) /\ id \notin entry[p]
  <2>1. PICK f : AcceptSyn(p, f) /\ id = f.id
    BY <1>5
  <2>2. PICK q : q = Other(p)
    OBVIOUS
  <2>3. /\ wire[q] \in Seq(Frames) /\ wire[q] # <<>> /\ f = Head(wire[q])
        /\ SynFor(f, id) /\ conn[p] = "Active"
    BY <1>1, <2>1, <2>2 DEF AcceptSyn, Receive, Active, IsSyn, SynFor, FrameTypes
  <2>4. CASE q \in Endpoints
    <3>1. is_outbound(q, id)
      BY <1>1, <1>5, <2>2 DEF is_outbound, Peers
    <3>2. OneSyn(q, id)
      BY <1>1, <2>4, <3>1 DEF Journey, OwnJourney
    <3>3. "wire" \in Places(q, id)
      BY <2>3, SynTail, PlacesAre
    <3>4. "opened" \notin Places(q, id)
      BY <3>2, <3>3 DEF OneSyn
    <3> QED
      BY <1>1, <2>2, <3>4, PlacesAre
  <2>5. CASE q \notin Endpoints
    <3>1. Announced(p, wire[q])
      BY <1>1, <2>2, <2>5 DEF Foreign
    <3>2. 1 \in DOMAIN wire[q] /\ f = wire[q][1]
      BY <2>3
    <3>3. Ready(p, id)
      BY <2>3, <3>1, <3>2 DEF Announced
    <3> QED
      BY <1>5, <3>3 DEF Ready
  <2> QED
    BY <2>4, <2>5
<1> QED
  BY <1>4, <1>5 DEF Opens

\* What any step does to the streams, with the newcomers in free places.
FreshMove ==
  \/ Steady
  \/ \E p \in Endpoints : WholeStep(p)
  \/ \E p \in Endpoints, id \in Ids :
       StreamStep(p, id) \/ (Enters(p, id) /\ shared[p][id] = NoShared)

\* Every step of the session is such a move.
LEMMA StepsAreFresh ==
  ASSUME RouteInv, [SessionNext]_allVars
  PROVE  FreshMove
<1>1. CASE SessionNext
  <2>1. StreamsMove
    BY <1>1, SessionStepKeeps DEF RouteInv, SessionInv
  <2>2. \A p \in Endpoints, id \in Ids :
          Opens(p, id) => Enters(p, id) /\ shared[p][id] = NoShared
    BY FreshOpens DEF Opens
  <2> QED
    BY <2>1, <2>2 DEF StreamsMove, FreshMove
<1>2. CASE UNCHANGED allVars
  <2>1. Steady
    BY <1>2 DEF allVars, vars, connVars, tableVars, handleVars, Steady
  <2> QED
    BY <2>1 DEF FreshMove
<1> QED
  BY <1>1, <1>2

\* A step of one stream changes the sum as it changes the stream's share.
LEMMA AccountOne ==
  ASSUME StreamTypes, StreamTypes', NEW p \in Peers, NEW id \in Ids, OneStream(p, id),
         Accounted(p, id), acc[p] = ExcessOf(shared[p], Ids)
  PROVE  acc'[p] = ExcessOf(shared'[p], Ids)
<1> DEFINE f == [i \in Ids |-> Excess(shared[p][i])]
           h == [i \in Ids |-> Excess(shared'[p][i])]
<1>1. shared[p] \in [Ids -> SharedSet] /\ shared'[p] \in [Ids -> SharedSet]
      /\ acc[p] \in Int /\ acc'[p] \in Int
  BY DEF StreamTypes
<1>2. \A i \in Ids : f[i] \in Int /\ h[i] \in Int
  BY <1>1, FlowAssumption DEF Excess, SharedSet
<1>3. \A i \in Ids \ {id} : h[i] = f[i]
  BY DEF OneStream
<1>4. f[id] = Excess(shared[p][id]) /\ h[id] = Excess(shared'[p][id])
  OBVIOUS
<1>5. ExcessOf(shared[p], Ids) = SumFunctionOnSet(f, Ids)
      /\ ExcessOf(shared'[p], Ids) = SumFunctionOnSet(h, Ids)
  BY DEF ExcessOf
<1> HIDE DEF f, h
<1>6. SumFunctionOnSet(h, Ids) = SumFunctionOnSet(f, Ids) + (h[id] - f[id])
  BY <1>2, <1>3, IdsFinite, SumChange
<1>7. acc'[p] + f[id] = acc[p] + h[id]
  BY <1>4 DEF Accounted
<1> QED
  BY <1>1, <1>2, <1>5, <1>6, <1>7

\* Every step keeps the counter exact.
LEMMA AccountStays ==
  ASSUME StreamTypes, StreamTypes', FreshMove, AccExact
  PROVE  AccExact'
<1>0. SUFFICES ASSUME NEW q \in Endpoints PROVE acc'[q] = ExcessOf(shared'[q], Ids)
  BY DEF AccExact
<1>1. q \in Peers /\ acc[q] = ExcessOf(shared[q], Ids)
  BY EndpointsArePeers DEF AccExact
<1>2. CASE Steady
  BY <1>1, <1>2 DEF Steady
<1>3. ASSUME NEW p \in Endpoints, q # p, Apart(p) PROVE acc'[q] = ExcessOf(shared'[q], Ids)
  BY <1>1, <1>3 DEF Apart
<1>4. ASSUME NEW p \in Endpoints, WholeStep(p) PROVE acc'[q] = ExcessOf(shared'[q], Ids)
  <2>1. CASE q = p
    <3>1. /\ acc'[q] \in Int /\ acc[q] \in Int
          /\ shared[q] \in [Ids -> SharedSet] /\ shared'[q] \in [Ids -> SharedSet]
      BY <1>1 DEF StreamTypes
    <3>2. ExcessOf(shared[q], Ids) \in Nat /\ ExcessOf(shared'[q], Ids) \in Nat
      BY <3>1, ExcessNat
    <3> QED
      BY <1>1, <1>4, <2>1, <3>1, <3>2, SMTT(30) DEF WholeStep, Balanced
  <2> QED
    BY <1>3, <1>4, <2>1 DEF WholeStep
<1>5. ASSUME NEW p \in Endpoints, NEW id \in Ids, OneStream(p, id), Accounted(p, id)
      PROVE  acc'[q] = ExcessOf(shared'[q], Ids)
  BY <1>1, <1>3, <1>5, AccountOne DEF OneStream
<1>6. ASSUME NEW p \in Endpoints, NEW id \in Ids, Enters(p, id), shared[p][id] = NoShared
      PROVE  OneStream(p, id) /\ Accounted(p, id)
  <2>1. Excess(NoShared) = 0
    BY NoSharedOK, FlowAssumption DEF Excess
  <2> QED
    BY <1>6, <2>1 DEF Enters, Accounted
<1> QED
  BY <1>2, <1>4, <1>5, <1>6 DEF FreshMove, StreamStep

\* At the beginning there is nothing to count.
LEMMA InitAccount == SessionInit => AccExact
<1> SUFFICES ASSUME SessionInit, NEW p \in Endpoints PROVE acc[p] = ExcessOf(shared[p], Ids)
  BY DEF AccExact
<1> DEFINE f == [i \in Ids |-> Excess(shared[p][i])]
<1>1. acc[p] = 0 /\ \A i \in Ids : shared[p][i] = NoShared
  BY EndpointsArePeers DEF SessionInit, Init, PerStream
<1>2. Excess(NoShared) = 0
  BY NoSharedOK, FlowAssumption DEF Excess
<1>3. \A i \in Ids : f[i] = 0
  BY <1>1, <1>2
<1>4. ExcessOf(shared[p], Ids) = SumFunctionOnSet(f, Ids)
  BY DEF ExcessOf
<1> HIDE DEF f
<1>5. SumFunctionOnSet(f, Ids) = 0
  BY <1>3, IdsFinite, SumZero
<1> QED
  BY <1>1, <1>4, <1>5

----------------------------------------------------------------------------
(* The theorems                                                             *)

BudgetInv == RouteInv /\ AccExact

\* The counter stays exact on the routes the invariant allows.
LEMMA BudgetSafe == Spec => []BudgetInv
<1>1. SessionInit => BudgetInv
  BY InitRoute, InitAccount DEF BudgetInv
<1>2. BudgetInv /\ [SessionNext]_allVars => BudgetInv'
  <2> SUFFICES ASSUME BudgetInv, [SessionNext]_allVars PROVE BudgetInv'
    OBVIOUS
  <2>1. RouteInv'
    BY NextRoute DEF BudgetInv
  <2>2. StreamTypes /\ StreamTypes'
    BY <2>1 DEF BudgetInv, RouteInv, SessionInv
  <2> QED
    BY <2>1, <2>2, StepsAreFresh, AccountStays DEF BudgetInv
<1> QED
  BY <1>1, <1>2, PTL DEF Spec

\* The connection's counter is exactly the windows' excess over the default,
\* summed over all streams that a table or a handle still holds, for any number
\* of streams opened from both sides, grown, reset and dropped in any order
\* (next_window_update, Drop for FlowController).
THEOREM CounterExact == Spec => []AccExact
<1>1. BudgetInv => AccExact
  BY DEF BudgetInv
<1> QED
  BY <1>1, BudgetSafe, PTL

\* Products grow with their factors.
LEMMA ProductGrows ==
  ASSUME NEW a \in Nat, NEW b \in Nat, NEW c \in Nat, a <= b
  PROVE  c * a <= b * c
<1>1. PICK d \in Nat : b = a + d
  <2>1. b - a \in Nat /\ b = a + (b - a)
    OBVIOUS
  <2> QED
    BY <2>1
<1>2. (a + d) * c = c * a + d * c /\ d * c \in Nat /\ c * a \in Nat
  OBVIOUS
<1> QED
  BY <1>1, <1>2

\* The receive windows of all streams in the table stay within
\* max_connection_receive_window together, for every configuration the setters
\* accept and whatever the remote sends (next_window_update,
\* poll_new_outbound, on_data).
THEOREM WindowsWithinLimit == Spec => []ConnWindowBounded
<1>1. BudgetInv => ConnWindowBounded
  <2> SUFFICES ASSUME BudgetInv, NEW p \in Endpoints
               PROVE  SumFunctionOnSet([id \in Ids |-> shared[p][id].fc.max_receive_window],
                                       entry[p]) <= MaxConnWindow
    BY DEF ConnWindowBounded
  <2> DEFINE f == [i \in Ids |-> Excess(shared[p][i])]
             h == [i \in Ids |-> shared[p][i].fc.max_receive_window]
  <2>1. /\ p \in Peers /\ shared[p] \in [Ids -> SharedSet] /\ entry[p] \in SUBSET Ids
        /\ acc[p] <= GrowthBudget /\ Cardinality(entry[p]) <= MaxNumStreams
    BY EndpointsArePeers DEF BudgetInv, RouteInv, SessionInv, StreamTypes, StreamLimits
  <2>2. acc[p] = SumFunctionOnSet(f, Ids)
    BY DEF BudgetInv, AccExact, ExcessOf
  <2>3. \A i \in Ids : f[i] \in Nat /\ h[i] = f[i] + DEFAULT_CREDIT
    BY <2>1, FlowAssumption DEF Excess, SharedSet
  <2>4. IsFiniteSet(Ids) /\ IsFiniteSet(entry[p]) /\ IsFiniteSet(Ids \ entry[p])
        /\ Cardinality(entry[p]) \in Nat
    BY <2>1, IdsFinite, FS_Subset, FS_CardinalityType
  <2> HIDE DEF f, h
  <2>5. SumFunctionOnSet(h, entry[p])
          = SumFunctionOnSet(f, entry[p]) + DEFAULT_CREDIT * Cardinality(entry[p])
    <3>1. \A i \in entry[p] : f[i] \in Int /\ h[i] = f[i] + DEFAULT_CREDIT
      BY <2>1, <2>3
    <3>2. DEFAULT_CREDIT \in Int
      BY FlowAssumption
    <3> QED
      BY <2>4, <3>1, <3>2, SumShift
  <2>6. SumFunctionOnSet(f, Ids)
          = SumFunctionOnSet(f, entry[p]) + SumFunctionOnSet(f, Ids \ entry[p])
    BY <2>1, <2>3, <2>4, SumSplit
  <2>7. SumFunctionOnSet(f, entry[p]) \in Nat /\ SumFunctionOnSet(f, Ids \ entry[p]) \in Nat
    BY <2>1, <2>3, <2>4, SumNat
  <2>8. DEFAULT_CREDIT * Cardinality(entry[p]) <= MaxNumStreams * DEFAULT_CREDIT
    BY <2>1, <2>4, FlowAssumption, ProductGrows
  <2>9. /\ DEFAULT_CREDIT * Cardinality(entry[p]) \in Int
        /\ MaxNumStreams * DEFAULT_CREDIT \in Int /\ MaxConnWindow \in Int
    BY <2>4, FlowAssumption
  <2>10. SumFunctionOnSet(h, entry[p]) <= MaxConnWindow
    BY <2>1, <2>2, <2>5, <2>6, <2>7, <2>8, <2>9 DEF GrowthBudget
  <2> QED
    BY <2>10 DEF h
<1> QED
  BY <1>1, BudgetSafe, PTL

\* Every step moves a stream's state on, or the stream is new.
LEMMA StepOnward ==
  ASSUME RouteInv, [SessionNext]_allVars, NEW p \in Endpoints, NEW id \in Ids
  PROVE  Onward(shared[p][id].state, shared'[p][id].state) \/ shared[p][id].state = "None"
<1>1. p \in Peers /\ FreshMove
  BY EndpointsArePeers, StepsAreFresh
<1>2. ASSUME shared'[p][id] = shared[p][id]
      PROVE  Onward(shared[p][id].state, shared'[p][id].state)
  BY <1>2, OnwardSteps
<1>3. CASE Steady
  BY <1>2, <1>3 DEF Steady
<1>4. ASSUME NEW q \in Endpoints, Apart(q), q # p PROVE shared'[p][id] = shared[p][id]
  BY <1>1, <1>4 DEF Apart
<1>5. ASSUME NEW q \in Endpoints, WholeStep(q)
      PROVE  Onward(shared[p][id].state, shared'[p][id].state)
  BY <1>2, <1>4, <1>5 DEF WholeStep
<1>6. ASSUME NEW q \in Endpoints, NEW j \in Ids, OneStream(q, j), p # q \/ id # j
      PROVE  shared'[p][id] = shared[p][id]
  BY <1>4, <1>6 DEF OneStream
<1>7. ASSUME NEW q \in Endpoints, NEW j \in Ids, StreamStep(q, j)
      PROVE  Onward(shared[p][id].state, shared'[p][id].state)
  BY <1>2, <1>6, <1>7 DEF StreamStep, NoneReborn
<1>8. ASSUME NEW q \in Endpoints, NEW j \in Ids, Enters(q, j), shared[q][j] = NoShared
      PROVE  \/ Onward(shared[p][id].state, shared'[p][id].state)
             \/ shared[p][id].state = "None"
  BY <1>2, <1>6, <1>8, NoSharedOK DEF Enters
<1> QED
  BY <1>1, <1>3, <1>5, <1>7, <1>8 DEF FreshMove

\* A half of a stream once closed stays closed as long as its Shared lives,
\* whatever frames arrive and however ids are used (update_state,
\* make_new_inbound_stream).
THEOREM ClosedStaysClosed == Spec => NoReopen
<1>1. ASSUME RouteInv, [SessionNext]_allVars, NEW p \in Endpoints, NEW id \in Ids
      PROVE  Onward(shared[p][id].state, shared'[p][id].state) \/ shared[p][id].state = "None"
  BY <1>1, StepOnward
<1>2. ASSUME NEW s, NEW t, Onward(s, t) \/ s = "None"
      PROVE  s # "None" /\ t # "None" =>
               /\ ~can_read(s) => ~can_read(t)
               /\ ~can_write(s) => ~can_write(t)
               /\ s = "OpenAcked" => t # "OpenPending"
  BY <1>2 DEF Onward, is_pending_ack
<1>3. RouteInv /\ [SessionNext]_allVars =>
        [\A p \in Endpoints, id \in Ids :
           LET s == shared[p][id].state
               t == shared'[p][id].state
           IN  s # "None" /\ t # "None" =>
                 /\ ~can_read(s) => ~can_read(t)
                 /\ ~can_write(s) => ~can_write(t)
                 /\ s = "OpenAcked" => t # "OpenPending"]_allVars
  BY <1>1, <1>2
<1> QED
  BY <1>3, RouteSafe, PTL DEF Spec, NoReopen
============================================================================
