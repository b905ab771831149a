------------------------- MODULE SessionPipeProofs -------------------------
(* What a stream promises between two endpoints that run this code, for any *)
(* number of streams, any windows, channel and socket.  Four invariants,    *)
(* each on top of CreditInv of SessionFlowProofs:                           *)
(*                                                                          *)
(* ClearInv: no endpoint finds fault with the other (NoFalseAccusation).    *)
(*   Credit in balance keeps data within the receive window.  It remains to *)
(*   follow the pings and their answers (Timed) and the SYNs, which come on *)
(*   a data frame, as their stream has nothing to acknowledge yet (Fresh).  *)
(*                                                                          *)
(* ByteInv: the bodies on their way from p continue what the remote has     *)
(*   got, in order, and no further than p has written (Intact); unless the  *)
(*   connection was cut they end there.  The step to watch is the end of    *)
(*   the connection: the terminating frame is the last to leave (Termed).   *)
(*                                                                          *)
(* EofInv: a FIN is the last frame of its direction, sent when all bytes    *)
(*   are ahead of it (Ceases), so that a reader who can see the end has     *)
(*   them all (EndInv, EofAfterAllBytes).                                   *)
(*                                                                          *)
(* Refinement: under EofInv every step of the session is a step of each     *)
(*   direction of each stream in BytePipe, or leaves it alone               *)
(*   (SessionImplementsPipes).                                              *)
EXTENDS SessionFlowProofs

----------------------------------------------------------------------------
(* Pings, pongs and go-aways on their way                                   *)

\* The frames of S that the connection of p has taken charge of.
Trace(p, S) == Only(Outgoing(p), S)

\* The same, from the places where they are.
Quad(w, r, b, q, S) == Cat(Only(w, S), Cat(Only(r, S), Cat(Only(b, S), Only(q, S))))

\* It is a sequence of frames.
LEMMA QuadType ==
  ASSUME NEW w \in Seq(Frames), NEW r \in Seq(Frames), NEW b \in Seq(Frames),
         NEW q \in Seq(Frames), NEW S
  PROVE  Quad(w, r, b, q, S) \in Seq(Frames)
<1>1. /\ Only(w, S) \in Seq(Frames) /\ Only(r, S) \in Seq(Frames)
      /\ Only(b, S) \in Seq(Frames) /\ Only(q, S) \in Seq(Frames)
  BY OnlyFrames
<1>2. Cat(Only(b, S), Only(q, S)) \in Seq(Frames)
  BY <1>1, CatType
<1>3. Cat(Only(r, S), Cat(Only(b, S), Only(q, S))) \in Seq(Frames)
  BY <1>1, <1>2, CatType
<1> QED
  BY <1>1, <1>3, CatType DEF Quad

\* The concatenation of four sequences, selected.
LEMMA QuadOnly ==
  ASSUME NEW w \in Seq(Frames), NEW r \in Seq(Frames), NEW b \in Seq(Frames),
         NEW q \in Seq(Frames), NEW S
  PROVE  Only(Cat(Cat(Cat(w, r), b), q), S) = Quad(w, r, b, q, S)
<1>1. Cat(w, r) \in Seq(Frames) /\ Cat(Cat(w, r), b) \in Seq(Frames)
  <2>1. Cat(w, r) \in Seq(Frames)
    BY CatType
  <2> QED
    BY <2>1, CatType
<1>2. PICK a, c, d, e \in Seq(Frames) :
        a = Only(w, S) /\ c = Only(r, S) /\ d = Only(b, S) /\ e = Only(q, S)
  BY OnlyFrames
<1>3. Only(Cat(w, r), S) = Cat(a, c)
  BY <1>2, OnlyCat
<1>4. Only(Cat(Cat(w, r), b), S) = Cat(Cat(a, c), d)
  BY <1>1, <1>2, <1>3, OnlyCat
<1>5. Only(Cat(Cat(Cat(w, r), b), q), S) = Cat(Cat(Cat(a, c), d), e)
  BY <1>1, <1>2, <1>4, OnlyCat
<1>6. Cat(a, c) \in Seq(Frames) /\ Cat(d, e) \in Seq(Frames)
  BY CatType
<1>7. Cat(Cat(Cat(a, c), d), e) = Cat(Cat(a, c), Cat(d, e))
  BY <1>6, CatAssoc
<1>8. Cat(Cat(a, c), Cat(d, e)) = Cat(a, Cat(c, Cat(d, e)))
  BY <1>6, CatAssoc
<1> QED
  BY <1>2, <1>5, <1>7, <1>8 DEF Quad

\* What p has taken charge of.
LEMMA TraceQuad ==
  ASSUME FrameTypes, NEW p \in Peers, NEW S
  PROVE  /\ Trace(p, S) = Quad(wire[p], pendR[p], pendW[p], pendQ[p], S)
         /\ Trace(p, S) \in Seq(Frames)
<1>1. /\ wire[p] \in Seq(Frames) /\ pendR[p] \in Seq(Frames) /\ pendW[p] \in Seq(Frames)
      /\ pendQ[p] \in Seq(Frames)
  BY DEF FrameTypes
<1>2. Outgoing(p) = Cat(Cat(Cat(wire[p], pendR[p]), pendW[p]), pendQ[p])
  BY DEF Outgoing, Cat
<1> QED
  BY <1>1, <1>2, QuadOnly, QuadType DEF Trace

\* The same after a step.
LEMMA NextTraceQuad ==
  ASSUME FrameTypes', NEW p \in Peers, NEW S
  PROVE  /\ Trace(p, S)' = Quad(wire'[p], pendR'[p], pendW'[p], pendQ'[p], S)
         /\ Trace(p, S)' \in Seq(Frames)
<1>1. /\ wire'[p] \in Seq(Frames) /\ pendR'[p] \in Seq(Frames) /\ pendW'[p] \in Seq(Frames)
      /\ pendQ'[p] \in Seq(Frames)
  BY DEF FrameTypes
<1>2. Outgoing(p)' = Cat(Cat(Cat(wire'[p], pendR'[p]), pendW'[p]), pendQ'[p])
  BY DEF Outgoing, Cat
<1> QED
  BY <1>1, <1>2, QuadOnly, QuadType DEF Trace

\* A frame that goes to the socket keeps its place.
LEMMA QuadSend ==
  ASSUME NEW w \in Seq(Frames), NEW r \in Seq(Frames), NEW b \in Seq(Frames),
         NEW q \in Seq(Frames), NEW f \in Frames, NEW S
  PROVE  /\ Quad(Append(w, f), Nil, b, q, S) = Quad(w, One(f), b, q, S)
         /\ Quad(Append(w, f), Nil, Nil, q, S) = Quad(w, Nil, One(f), q, S)
         /\ Quad(Append(w, f), Nil, Nil, q, S) = Quad(w, Nil, Nil, Cat(One(f), q), S)
         /\ f \notin S => Quad(Append(w, f), r, b, q, S) = Quad(w, r, b, q, S)
<1>1. PICK a, c, d, e, o \in Seq(Frames) :
        /\ a = Only(w, S) /\ c = Only(r, S) /\ d = Only(b, S) /\ e = Only(q, S)
        /\ o = Only(One(f), S)
  BY OnlyFrames, OneType
<1>2. Only(Append(w, f), S) = Cat(a, o)
  <2>1. Append(w, f) = Cat(w, One(f)) /\ One(f) \in Seq(Frames)
    BY CatAppend, OneType
  <2> QED
    BY <1>1, <2>1, OnlyCat
<1>3. Only(Nil, S) = Nil
  BY OnlyEmpty DEF Nil
<1>4. Cat(d, e) \in Seq(Frames) /\ Cat(Nil, e) = e /\ Cat(o, e) \in Seq(Frames)
  BY CatType, CatNil
<1>5. Cat(Nil, Cat(d, e)) = Cat(d, e) /\ Cat(Nil, Cat(o, e)) = Cat(o, e)
  BY <1>4, CatNil
<1>6. Cat(Cat(a, o), Cat(d, e)) = Cat(a, Cat(o, Cat(d, e))) /\ Cat(Cat(a, o), e) = Cat(a, Cat(o, e))
  BY <1>4, CatAssoc
<1>7. Quad(Append(w, f), Nil, b, q, S) = Quad(w, One(f), b, q, S)
  BY <1>1, <1>2, <1>3, <1>5, <1>6 DEF Quad
<1>8. Quad(Append(w, f), Nil, Nil, q, S) = Cat(a, Cat(o, e))
  BY <1>1, <1>2, <1>3, <1>4, <1>6 DEF Quad
<1>9. Quad(w, Nil, One(f), q, S) = Cat(a, Cat(o, e))
  BY <1>1, <1>3, <1>5 DEF Quad
<1>10. Quad(w, Nil, Nil, Cat(One(f), q), S) = Cat(a, Cat(o, e))
  <2>1. Only(Cat(One(f), q), S) = Cat(o, e)
    BY <1>1, OneType, OnlyCat
  <2> QED
    BY <1>1, <1>3, <1>5, <2>1 DEF Quad
<1>11. ASSUME f \notin S PROVE Quad(Append(w, f), r, b, q, S) = Quad(w, r, b, q, S)
  <2>1. o = Nil
    BY <1>1, <1>11, OnlyOne
  <2>2. Cat(a, o) = a
    BY <2>1, CatNil
  <2> QED
    BY <1>1, <1>2, <2>2 DEF Quad
<1> QED
  BY <1>7, <1>8, <1>9, <1>10, <1>11

\* Frames of another kind do not show.
LEMMA QuadIgnores ==
  ASSUME NEW w \in Seq(Frames), NEW r \in Seq(Frames), NEW b \in Seq(Frames),
         NEW q \in Seq(Frames), NEW f \in Frames, NEW S, f \notin S
  PROVE  /\ Quad(w, One(f), b, q, S) = Quad(w, Nil, b, q, S)
         /\ Quad(w, r, One(f), q, S) = Quad(w, r, Nil, q, S)
         /\ Quad(w, r, b, Append(q, f), S) = Quad(w, r, b, q, S)
<1>1. Only(One(f), S) = Nil
  BY OnlyOne
<1>2. Only(Nil, S) = Nil
  BY OnlyEmpty DEF Nil
<1>3. Only(Append(q, f), S) = Only(q, S)
  <2>1. Append(q, f) = Cat(q, One(f)) /\ One(f) \in Seq(Frames)
    BY CatAppend, OneType
  <2>2. Only(q, S) \in Seq(Frames)
    BY OnlyFrames
  <2> QED
    BY <1>1, <2>1, <2>2, OnlyCat, CatNil
<1> QED
  BY <1>1, <1>2, <1>3 DEF Quad

\* The pending frames that Closing takes over.
LEMMA QuadQueue ==
  ASSUME NEW w \in Seq(Frames), NEW r \in Seq(Frames), NEW b \in Seq(Frames), NEW S
  PROVE  Quad(w, Nil, Nil, Cat(r, b), S) = Quad(w, r, b, Nil, S)
<1>1. PICK a, c, d \in Seq(Frames) : a = Only(w, S) /\ c = Only(r, S) /\ d = Only(b, S)
  BY OnlyFrames
<1>2. Only(Nil, S) = Nil
  BY OnlyEmpty DEF Nil
<1>3. Only(Cat(r, b), S) = Cat(c, d) /\ Cat(c, d) \in Seq(Frames)
  BY <1>1, OnlyCat, CatType
<1>4. Cat(Nil, Cat(c, d)) = Cat(c, d) /\ Cat(d, Nil) = d
  BY <1>3, CatNil
<1> QED
  BY <1>1, <1>2, <1>3, <1>4 DEF Quad

\* A socket that is dropped cuts everything from the end.
LEMMA QuadCut ==
  ASSUME NEW v \in Seq(Frames), NEW x \in Seq(Frames), NEW r \in Seq(Frames),
         NEW b \in Seq(Frames), NEW q \in Seq(Frames), NEW S
  PROVE  GoesOnAfter(Quad(Cat(v, x), r, b, q, S), Quad(v, Nil, Nil, Nil, S))
<1>1. PICK a, y, u \in Seq(Frames) :
        a = Only(v, S) /\ y = Only(x, S) /\ u = Cat(Only(r, S), Cat(Only(b, S), Only(q, S)))
  <2>1. Only(r, S) \in Seq(Frames) /\ Cat(Only(b, S), Only(q, S)) \in Seq(Frames)
    BY OnlyFrames, CatType
  <2> QED
    BY <2>1, OnlyFrames, CatType
<1>2. Only(Cat(v, x), S) = Cat(a, y)
  BY <1>1, OnlyCat
<1>3. Quad(Cat(v, x), r, b, q, S) = Cat(a, Cat(y, u)) /\ Cat(y, u) \in Seq(Frames)
  <2>1. Quad(Cat(v, x), r, b, q, S) = Cat(Cat(a, y), u)
    BY <1>1, <1>2, Zenon DEF Quad
  <2>2. Cat(Cat(a, y), u) = Cat(a, Cat(y, u))
    BY CatAssoc
  <2>3. Cat(y, u) \in Seq(Frames)
    BY CatType
  <2> QED
    BY <2>1, <2>2, <2>3, Zenon
<1>4. Quad(v, Nil, Nil, Nil, S) = a
  <2>1. Only(Nil, S) = Nil
    BY OnlyEmpty DEF Nil
  <2>2. Cat(Nil, Nil) = Nil /\ Cat(a, Nil) = a
    BY CatNil, NilType
  <2> QED
    BY <1>1, <2>1, <2>2 DEF Quad
<1> QED
  BY <1>3, <1>4 DEF GoesOnAfter

\* Frames that the connections themselves exchange, but for the last one.
Signals(S) == \A f \in S : ~IsStreamFrame(f) /\ f # term

\* No step adds to them, but for pings and answers.
Dwindles(p, S) == GoesOnAfter(Trace(p, S), Trace(p, S)')

\* Nothing changes.
LEMMA TraceStays ==
  ASSUME NEW p, NEW S, Trace(p, S)' = Trace(p, S), Trace(p, S) \in Seq(Frames)
  PROVE  Dwindles(p, S)
BY CatNil, NilType DEF Dwindles, GoesOnAfter

\* Frames that go out.
LEMMA SendingDwindles ==
  ASSUME NEW p \in Endpoints, Orderly(p), Orderly(p)', Sending(p), ~PollPing(p),
         NEW S, Signals(S)
  PROVE  Dwindles(p, S)
<1>0. p \in Peers
  BY EndpointsArePeers
<1>1. /\ Trace(p, S) = Quad(wire[p], pendR[p], pendW[p], pendQ[p], S)
      /\ Trace(p, S) \in Seq(Frames)
  BY <1>0, TraceQuad DEF Orderly
<1>2. Trace(p, S)' = Quad(wire'[p], pendR'[p], pendW'[p], pendQ'[p], S)
  BY <1>0, NextTraceQuad DEF Orderly
<1>3. /\ wire \in [Peers -> Seq(Frames)] /\ pendW \in [Peers -> Seq(Frames)]
      /\ pendQ \in [Peers -> Seq(Frames)] /\ pendR \in [Peers -> Seq(Frames)]
      /\ chan \in [Peers -> [Ids -> Seq(Frames)]]
  BY DEF Orderly, FrameTypes
<1>4. PICK w \in Seq(Frames), r \in Seq(Frames), b \in Seq(Frames), q \in Seq(Frames) :
        w = wire[p] /\ r = pendR[p] /\ b = pendW[p] /\ q = pendQ[p]
  BY <1>0, <1>3
<1> SUFFICES Quad(wire'[p], pendR'[p], pendW'[p], pendQ'[p], S) = Quad(w, r, b, q, S)
  BY <1>1, <1>2, <1>4, TraceStays
<1> USE DEF connVars, pendVars, sockVars, tableVars, handleVars, ghostVars
<1>5. CASE PollSend(p) /\ pendR[p] # <<>>
  <2>1. PICK f \in Frames : r = One(f)
    BY <1>4, <1>5 DEF Orderly, Slots, AtMostOne, Nil
  <2>2. /\ wire'[p] = Append(w, f) /\ pendR'[p] = Nil /\ pendW'[p] = b /\ pendQ'[p] = q
    BY <1>0, <1>3, <1>4, <1>5, <2>1 DEF PollSend, SendFrame, One, Nil
  <2> QED
    BY <2>1, <2>2, QuadSend
<1>6. CASE PollSend(p) /\ pendR[p] = <<>>
  <2>1. pendW[p] # <<>>
    BY <1>6 DEF PollSend
  <2>2. PICK f \in Frames : b = One(f)
    BY <1>4, <2>1 DEF Orderly, Slots, AtMostOne, Nil
  <2>3. /\ wire'[p] = Append(w, f) /\ pendR'[p] = Nil /\ pendW'[p] = Nil /\ pendQ'[p] = q
        /\ r = Nil
    BY <1>0, <1>3, <1>4, <1>6, <2>2 DEF PollSend, SendFrame, One, Nil
  <2> QED
    BY <2>2, <2>3, QuadSend
<1>7. CASE PingInterval(p) \/ OpenWait(p)
  BY <1>4, <1>7 DEF PingInterval, OpenWait
<1>8. ASSUME NEW j \in Ids, NEW f \in Cmds(j) PROVE f \in Frames /\ f \notin S
  BY <1>8 DEF Cmds, Signals
<1>9. ASSUME NEW j \in Ids, chan[p][j] # <<>> PROVE Head(chan[p][j]) \in Cmds(j)
  BY <1>9, CmdSeqs DEF Orderly, Commands
<1>10. ASSUME NEW j \in Ids, PollCommand(p, j)
       PROVE  Quad(wire'[p], pendR'[p], pendW'[p], pendQ'[p], S) = Quad(w, r, b, q, S)
  <2>1. PICK f : f = Head(chan[p][j])
    OBVIOUS
  <2>2. chan[p][j] # <<>>
    BY <1>10 DEF PollCommand
  <2>3. f \in Cmds(j)
    BY <1>9, <2>1, <2>2
  <2>4. f \in Frames /\ f \notin S
    BY <1>8, <2>3
  <2>5. wire'[p] = w /\ pendR'[p] = r /\ pendQ'[p] = q /\ b = Nil /\ pendW'[p] = One(f)
    BY <1>0, <1>3, <1>4, <1>10, <2>1 DEF PollCommand, One, Nil
  <2> QED
    BY <2>4, <2>5, QuadIgnores
<1>11. ASSUME NEW j \in Ids, DrainCommand(p, j)
       PROVE  Quad(wire'[p], pendR'[p], pendW'[p], pendQ'[p], S) = Quad(w, r, b, q, S)
  <2>1. PICK f : f = Head(chan[p][j])
    OBVIOUS
  <2>2. chan[p][j] # <<>>
    BY <1>11 DEF DrainCommand
  <2>3. f \in Cmds(j)
    BY <1>9, <2>1, <2>2
  <2>4. f \in Frames /\ f \notin S
    BY <1>8, <2>3
  <2>5. wire'[p] = w /\ pendR'[p] = r /\ pendW'[p] = b /\ pendQ'[p] = Append(q, f)
    BY <1>0, <1>3, <1>4, <1>11, <2>1 DEF DrainCommand
  <2> QED
    BY <2>4, <2>5, QuadIgnores
<1>12. CASE FlushFrame(p) /\ pendQ[p] # <<>>
  <2>1. PICK f \in Frames, t \in Seq(Frames) : q = Cat(One(f), t) /\ f = Head(q) /\ t = Tail(q)
    BY <1>4, <1>12, CatHead
  <2>2. r = Nil /\ b = Nil
    BY <1>4, <1>12 DEF FlushFrame, Orderly, Slots
  <2>3. wire'[p] = Append(w, f) /\ pendR'[p] = r /\ pendW'[p] = b /\ pendQ'[p] = t
    BY <1>0, <1>3, <1>4, <1>12, <2>1 DEF FlushFrame, SendFrame
  <2>4. Quad(Append(w, f), Nil, Nil, t, S) = Quad(w, Nil, Nil, Cat(One(f), t), S)
    BY QuadSend, NilType
  <2> QED
    BY <2>1, <2>2, <2>3, <2>4
<1>13. CASE PollSend(p)
  BY <1>5, <1>6, <1>13
<1>14. CASE \E j \in Ids : PollCommand(p, j) \/ DrainCommand(p, j)
  <2>1. PICK j \in Ids : PollCommand(p, j) \/ DrainCommand(p, j)
    BY <1>14
  <2> QED
    BY <1>10, <1>11, <2>1
<1>15. \/ PollSend(p) \/ PingInterval(p) \/ OpenWait(p) \/ (FlushFrame(p) /\ pendQ[p] # <<>>)
       \/ \E j \in Ids : PollCommand(p, j) \/ DrainCommand(p, j)
  BY DEF Sending
<1> QED
  BY <1>7, <1>12, <1>13, <1>14, <1>15

\* The end of a connection.
LEMMA EndingDwindles ==
  ASSUME NEW p \in Endpoints, StreamTypes, Orderly(p), Orderly(p)', Ending(p), NEW S, Signals(S)
  PROVE  Dwindles(p, S)
<1>0. p \in Peers
  BY EndpointsArePeers
<1>1. /\ Trace(p, S) = Quad(wire[p], pendR[p], pendW[p], pendQ[p], S)
      /\ Trace(p, S) \in Seq(Frames)
  BY <1>0, TraceQuad DEF Orderly
<1>2. Trace(p, S)' = Quad(wire'[p], pendR'[p], pendW'[p], pendQ'[p], S)
  BY <1>0, NextTraceQuad DEF Orderly
<1>3. /\ wire \in [Peers -> Seq(Frames)] /\ pendW \in [Peers -> Seq(Frames)]
      /\ pendQ \in [Peers -> Seq(Frames)] /\ pendR \in [Peers -> Seq(Frames)]
      /\ conn \in [Peers -> ConnStates]
  BY DEF Orderly, FrameTypes, StreamTypes
<1>4. PICK w \in Seq(Frames), r \in Seq(Frames), b \in Seq(Frames), q \in Seq(Frames) :
        w = wire[p] /\ r = pendR[p] /\ b = pendW[p] /\ q = pendQ[p]
  BY <1>0, <1>3
<1>5. ASSUME Quad(wire'[p], pendR'[p], pendW'[p], pendQ'[p], S) = Quad(w, r, b, q, S)
      PROVE  Dwindles(p, S)
  BY <1>1, <1>2, <1>4, <1>5, TraceStays
<1>6. ASSUME DropSocket(p) \/ wire' = wire, pendR'[p] = Nil, pendW'[p] = Nil, pendQ'[p] = Nil
      PROVE  Dwindles(p, S)
  <2>1. PICK v \in Seq(Frames), x \in Seq(Frames) : wire'[p] = v /\ w = Cat(v, x)
    <3>1. CASE wire' = wire
      BY <1>4, <3>1, CatNil, NilType
    <3>2. CASE DropSocket(p)
      <4>1. PICK n \in 0 .. Len(w) : wire'[p] = SubSeq(w, 1, n)
        BY <1>0, <1>3, <1>4, <3>2 DEF DropSocket
      <4> QED
        BY <4>1, CatPrefix
    <3> QED
      BY <1>6, <3>1, <3>2
  <2>2. GoesOnAfter(Quad(Cat(v, x), r, b, q, S), Quad(v, Nil, Nil, Nil, S))
    BY QuadCut
  <2> QED
    BY <1>1, <1>2, <1>4, <1>6, <2>1, <2>2 DEF Dwindles
<1> USE DEF connVars, pendVars, sockVars, tableVars, handleVars, ghostVars
<1>7. CASE PollFail(p) \/ OpenFail(p)
  <2>1. cleanup(p) /\ conn[p] = "Active"
    BY <1>7 DEF PollFail, OpenFail, MayOpen, Active
  <2>2. pendR'[p] = Nil /\ pendW'[p] = Nil /\ pendQ' = pendQ /\ DropSocket(p)
    BY <1>0, <1>3, <2>1 DEF cleanup, Nil
  <2>3. pendQ[p] = Nil
    BY <2>1 DEF Orderly, Slots
  <2> QED
    BY <1>6, <2>2, <2>3
<1>8. CASE connection_close(p)
  <2>1. /\ conn[p] = "Active" /\ wire'[p] = w
        /\ pendR'[p] = Nil /\ pendW'[p] = Nil /\ pendQ'[p] = Cat(r, b)
    BY <1>0, <1>3, <1>4, <1>8 DEF connection_close, Active, Nil, Cat
  <2>2. q = Nil
    BY <1>4, <2>1 DEF Orderly, Slots
  <2> QED
    BY <1>5, <2>1, <2>2, QuadQueue
<1>9. CASE connection_drop(p)
  <2>1. /\ pendR'[p] = Nil /\ pendW'[p] = Nil /\ pendQ'[p] = Nil
        /\ DropSocket(p) \/ wire' = wire
    BY <1>0, <1>3, <1>9 DEF connection_drop, Nil
  <2> QED
    BY <1>6, <2>1
<1>10. CASE CloseAllReceivers(p) \/ CloseSocket(p) \/ CleanupDrain(p)
  <2>1. UNCHANGED <<wire, pendR, pendW, pendQ>>
    BY <1>10 DEF CloseAllReceivers, CloseSocket, CleanupDrain
  <2> QED
    BY <1>4, <1>5, <2>1
<1>11. CASE DrainDone(p)
  <2>1. wire'[p] = w /\ pendR'[p] = r /\ pendW'[p] = b /\ pendQ'[p] = Append(q, term)
    BY <1>0, <1>3, <1>4, <1>11 DEF DrainDone
  <2>2. term \in Frames /\ term \notin S
    <3>1. 0 \in 0 .. U32_MAX
      BY FlowAssumption
    <3> QED
      BY <3>1, FrameOfConnection DEF Signals
  <2> QED
    BY <1>5, <2>1, <2>2, QuadIgnores
<1>12. CASE ClosingError(p)
  <2>1. /\ pendR' = pendR /\ pendW' = pendW /\ pendQ'[p] = Nil /\ DropSocket(p)
        /\ conn[p] # "Active"
    BY <1>0, <1>3, <1>12 DEF ClosingError, Nil
  <2>2. pendR[p] = Nil /\ pendW[p] = Nil
    BY <2>1 DEF Orderly, Slots
  <2> QED
    BY <1>6, <2>1, <2>2
<1>13. CASE FlushFrame(p) /\ pendQ[p] = <<>>
  <2>1. UNCHANGED <<wire, pendR, pendW, pendQ>>
    BY <1>13 DEF FlushFrame
  <2> QED
    BY <1>4, <1>5, <2>1
<1> QED
  BY <1>7, <1>8, <1>9, <1>10, <1>11, <1>12, <1>13 DEF Ending

\* Every step but a ping and the handling of a frame.
LEMMA StepDwindles ==
  ASSUME BothOurs, Settled, Settled', NEW p \in Peers, EndpointStep(p), ~on_frame(p),
         ~PollPing(p), NEW S, Signals(S)
  PROVE  Dwindles(p, S)
<1>1. /\ p \in Endpoints /\ Orderly(p) /\ StreamTypes /\ FrameTypes /\ GhostTypes /\ StreamsOK
      /\ Trace(p, S) \in Seq(Frames)
  BY SettledParts, TraceQuad
<1>2. Orderly(p)' /\ FrameTypes'
  BY NextSettledParts
<1>3. ASSUME wire'[p] = wire[p], pendR'[p] = pendR[p], pendW'[p] = pendW[p], pendQ'[p] = pendQ[p]
      PROVE  Dwindles(p, S)
  <2>1. Trace(p, S)' = Trace(p, S)
    BY <1>1, <1>2, <1>3, TraceQuad, NextTraceQuad
  <2> QED
    BY <1>1, <2>1, TraceStays
<1>4. ASSUME NEW j \in Ids, HandleAction(p, j) PROVE Dwindles(p, S)
  BY <1>1, <1>3, <1>4, HandleMoves DEF ElseKept
<1>5. CASE poll_new_outbound(p)
  BY <1>3, <1>5, OpenMoves
<1>6. ASSUME NEW j \in Ids, on_drop_stream(p, j) PROVE Dwindles(p, S)
  <2>1. /\ wire'[p] = wire[p] /\ pendR'[p] = pendR[p] /\ pendQ'[p] = pendQ[p] /\ pendW[p] = Nil
        /\ \/ pendW'[p] = pendW[p]
           \/ \E st : pendW'[p] = DropFrame(j, st)
    BY <1>1, <1>6 DEF on_drop_stream, sockVars, Nil, FrameTypes
  <2>2. CASE pendW'[p] = pendW[p]
    BY <1>3, <2>1, <2>2
  <2>3. ASSUME NEW f \in Frames, IsStreamFrame(f), pendW'[p] = One(f) PROVE Dwindles(p, S)
    <3>1. f \notin S
      BY <2>3 DEF Signals
    <3>2. PICK w \in Seq(Frames), r \in Seq(Frames), q \in Seq(Frames) :
            w = wire[p] /\ r = pendR[p] /\ q = pendQ[p]
      BY <1>1 DEF FrameTypes
    <3>3. Quad(w, r, One(f), q, S) = Quad(w, r, Nil, q, S)
      BY <2>3, <3>1, QuadIgnores, NilType
    <3>4. Trace(p, S) = Quad(w, r, Nil, q, S)
      BY <1>1, <2>1, <3>2, TraceQuad
    <3>5. Trace(p, S)' = Quad(w, r, One(f), q, S)
      BY <1>2, <2>1, <2>3, <3>2, NextTraceQuad
    <3> QED
      BY <1>1, <3>3, <3>4, <3>5, TraceStays
  <2>4. ASSUME NEW st, pendW'[p] = DropFrame(j, st) PROVE Dwindles(p, S)
    <3>1. /\ reset_stream(j) \in Frames /\ close_stream(j, FALSE) \in Frames
          /\ IsStreamFrame(reset_stream(j)) /\ IsStreamFrame(close_stream(j, FALSE))
      <4>1. 0 \in 0 .. U32_MAX /\ 0 \in Nat /\ {} \in SUBSET Flags /\ FALSE \in BOOLEAN
        BY FlowAssumption
      <4>2. reset_stream(j) \in Frames /\ close_stream(j, FALSE) \in Frames
        BY <1>6, <4>1, FrameOfStream
      <4>3. IsStreamFrame(reset_stream(j)) /\ IsStreamFrame(close_stream(j, FALSE))
        BY DEF IsStreamFrame, reset_stream, close_stream, Header
      <4> QED
        BY <4>2, <4>3
    <3>2. \/ pendW'[p] = One(reset_stream(j)) \/ pendW'[p] = One(close_stream(j, FALSE))
          \/ pendW'[p] = Nil
      BY <2>4 DEF DropFrame, One, Nil
    <3> QED
      BY <2>1, <2>2, <2>3, <3>1, <3>2
  <2> QED
    BY <2>1, <2>2, <2>4
<1>7. CASE Sending(p)
  BY <1>1, <1>2, <1>7, SendingDwindles
<1>8. CASE Ending(p)
  BY <1>1, <1>2, <1>8, EndingDwindles
<1> QED
  BY <1>1, <1>4, <1>5, <1>6, <1>7, <1>8, EndpointActions

\* A step that takes no frame off the socket leaves the other's frames alone.
LEMMA OtherTrace ==
  ASSUME BothOurs, Settled, Settled', NEW p \in Peers, EndpointStep(p), ~on_frame(p), NEW S,
         NEW o \in Peers, o = Other(p)
  PROVE  Trace(o, S)' = Trace(o, S)
<1>1. p \in Endpoints /\ FrameTypes
  BY SettledParts
<1>2. Outward(p)
  BY <1>1, EndpointActions, OutwardSteps
<1>3. /\ pendR'[o] = pendR[o] /\ pendW'[o] = pendW[o] /\ pendQ'[o] = pendQ[o]
  BY OtherSide
<1>4. wire'[o] = wire[o]
  BY <1>2 DEF Outward
<1> QED
  BY <1>3, <1>4 DEF Trace, Outgoing

\* A frame that is taken off the socket is the oldest.
LEMMA QuadTake ==
  ASSUME NEW w \in Seq(Frames), NEW r \in Seq(Frames), NEW b \in Seq(Frames),
         NEW q \in Seq(Frames), NEW f \in Frames, NEW S
  PROVE  /\ f \in S => Quad(Cat(One(f), w), r, b, q, S) = Cat(One(f), Quad(w, r, b, q, S))
         /\ f \notin S => Quad(Cat(One(f), w), r, b, q, S) = Quad(w, r, b, q, S)
<1>1. PICK a, u \in Seq(Frames) :
        a = Only(w, S) /\ u = Cat(Only(r, S), Cat(Only(b, S), Only(q, S)))
  <2>1. Only(r, S) \in Seq(Frames) /\ Cat(Only(b, S), Only(q, S)) \in Seq(Frames)
    BY OnlyFrames, CatType
  <2> QED
    BY <2>1, OnlyFrames, CatType
<1>2. Quad(w, r, b, q, S) = Cat(a, u)
  BY <1>1 DEF Quad
<1>3. Only(Cat(One(f), w), S) = Cat(Only(One(f), S), a)
  BY <1>1, OneType, OnlyCat
<1>4. Quad(Cat(One(f), w), r, b, q, S) = Cat(Cat(Only(One(f), S), a), u)
  BY <1>1, <1>3 DEF Quad
<1>5. CASE f \in S
  <2>1. Only(One(f), S) = One(f) /\ One(f) \in Seq(Frames)
    BY <1>5, OnlyOne, OneType
  <2>2. Cat(Cat(One(f), a), u) = Cat(One(f), Cat(a, u))
    BY <2>1, CatAssoc
  <2> QED
    BY <1>2, <1>4, <1>5, <2>1, <2>2
<1>6. CASE f \notin S
  <2>1. Only(One(f), S) = Nil /\ Cat(Nil, a) = a
    BY <1>6, OnlyOne, CatNil
  <2> QED
    BY <1>2, <1>4, <1>6, <2>1
<1> QED
  BY <1>5, <1>6

\* A frame joins frames of another kind.
LEMMA QuadFirst ==
  ASSUME NEW w \in Seq(Frames), NEW r \in Seq(Frames), NEW b \in Seq(Frames),
         NEW q \in Seq(Frames), NEW f \in Frames, NEW S, f \in S
  PROVE  /\ Quad(w, r, b, q, S) = Nil => Quad(Append(w, f), r, b, q, S) = One(f)
         /\ Quad(w, Nil, b, q, S) = Nil => Quad(w, One(f), b, q, S) = One(f)
<1>1. PICK a, c, d, e \in Seq(Frames) :
        a = Only(w, S) /\ c = Only(r, S) /\ d = Only(b, S) /\ e = Only(q, S)
  BY OnlyFrames
<1>2. One(f) \in Seq(Frames) /\ Only(One(f), S) = One(f) /\ Only(Nil, S) = Nil
  BY OnlyOne, OneType, OnlyEmpty DEF Nil
<1>3. Only(Append(w, f), S) = Cat(a, One(f))
  <2>1. Append(w, f) = Cat(w, One(f))
    BY CatAppend
  <2>2. Only(Cat(w, One(f)), S) = Cat(Only(w, S), Only(One(f), S))
    BY <1>2, OnlyCat
  <2> QED
    BY <1>1, <1>2, <2>1, <2>2
<1>4. ASSUME NEW s \in Seq(Frames), NEW t \in Seq(Frames), Cat(s, t) = Nil PROVE s = Nil /\ t = Nil
  BY <1>4 DEF Cat, Nil
<1>5. Cat(d, e) \in Seq(Frames) /\ Cat(c, Cat(d, e)) \in Seq(Frames) /\ Nil \in Seq(Frames)
  <2>1. Cat(d, e) \in Seq(Frames)
    BY CatType
  <2> QED
    BY <2>1, CatType, NilType
<1>6. Cat(Nil, Nil) = Nil /\ Cat(One(f), Nil) = One(f) /\ Cat(Nil, One(f)) = One(f)
  BY <1>2, <1>5, CatNil
<1>7. ASSUME Quad(w, r, b, q, S) = Nil PROVE Quad(Append(w, f), r, b, q, S) = One(f)
  <2>1. Cat(a, Cat(c, Cat(d, e))) = Nil
    BY <1>1, <1>7 DEF Quad
  <2>2. a = Nil /\ Cat(c, Cat(d, e)) = Nil
    BY <1>4, <1>5, <2>1
  <2> QED
    BY <1>1, <1>3, <1>6, <2>2 DEF Quad
<1>8. ASSUME Quad(w, Nil, b, q, S) = Nil PROVE Quad(w, One(f), b, q, S) = One(f)
  <2>1. Cat(a, Cat(Nil, Cat(d, e))) = Nil /\ Cat(Nil, Cat(d, e)) = Cat(d, e)
    BY <1>1, <1>2, <1>5, <1>8, CatNil DEF Quad
  <2>2. a = Nil /\ Cat(d, e) = Nil
    BY <1>4, <1>5, <2>1
  <2> QED
    BY <1>1, <1>2, <1>6, <2>2 DEF Quad
<1> QED
  BY <1>7, <1>8

\* The answer of on_frame to frame f.
Answer(p, f) ==
  \/ pendR'[p] = Nil
  \/ /\ f.tag = "Ping" /\ "ACK" \notin f.flags /\ pendR'[p] = One(pong(f.len))
  \/ \E g \in {protocol_error, internal_error} : pendR'[p] = One(g)

\* What on_frame does to the frames that are under way.
LEMMA FrameTraces ==
  ASSUME BothOurs, Settled, Settled', NEW p \in Peers, on_frame(p), NEW S, NEW o \in Peers,
         o = Other(p), NEW f \in Frames, f = Head(wire[o])
  PROVE  /\ f \in S => Trace(o, S) = Cat(One(f), Trace(o, S)')
         /\ f \notin S => Trace(o, S)' = Trace(o, S)
         /\ pendR'[p] = Nil => Trace(p, S)' = Trace(p, S)
         /\ \A g \in Frames : pendR'[p] = One(g) =>
              /\ g \notin S => Trace(p, S)' = Trace(p, S)
              /\ g \in S /\ Trace(p, S) = Nil => Trace(p, S)' = One(g)
<1>0. EndpointStep(p)
  BY DEF EndpointStep, ConnectionStep
<1>1. FrameTypes /\ FrameTypes' /\ o # p
  BY SettledParts, NextSettledParts
<1>2. /\ wire[o] # <<>> /\ wire'[p] = wire[p] /\ wire'[o] = Tail(wire[o])
      /\ pendR[p] = Nil /\ pendW' = pendW /\ pendQ' = pendQ
  BY FrameTaken
<1>3. pendR'[o] = pendR[o]
  BY <1>0, OtherSide
<1>4. /\ f \in S => Trace(o, S) = Cat(One(f), Trace(o, S)')
      /\ f \notin S => Trace(o, S)' = Trace(o, S)
  <2>1. PICK w \in Seq(Frames), r \in Seq(Frames), b \in Seq(Frames), q \in Seq(Frames) :
          w = wire'[o] /\ r = pendR[o] /\ b = pendW[o] /\ q = pendQ[o]
    BY <1>1 DEF FrameTypes
  <2>2. wire[o] = Cat(One(f), w)
    BY <1>1, <1>2, <2>1, CatHead DEF FrameTypes
  <2>3. Trace(o, S) = Quad(Cat(One(f), w), r, b, q, S)
    BY <1>1, <2>1, <2>2, TraceQuad
  <2>4. Trace(o, S)' = Quad(w, r, b, q, S)
    BY <1>1, <1>2, <1>3, <2>1, NextTraceQuad
  <2> QED
    BY <2>3, <2>4, QuadTake
<1>5. PICK w \in Seq(Frames), b \in Seq(Frames), q \in Seq(Frames) :
        w = wire[p] /\ b = pendW[p] /\ q = pendQ[p]
  BY <1>1 DEF FrameTypes
<1>6. Trace(p, S) = Quad(w, Nil, b, q, S)
  BY <1>1, <1>2, <1>5, TraceQuad
<1>7. Trace(p, S)' = Quad(w, pendR'[p], b, q, S)
  BY <1>1, <1>2, <1>5, NextTraceQuad
<1>8. ASSUME NEW g \in Frames, pendR'[p] = One(g)
      PROVE  /\ g \notin S => Trace(p, S)' = Trace(p, S)
             /\ g \in S /\ Trace(p, S) = Nil => Trace(p, S)' = One(g)
  <2>1. g \notin S => Quad(w, One(g), b, q, S) = Quad(w, Nil, b, q, S)
    BY QuadIgnores, NilType
  <2>2. g \in S /\ Quad(w, Nil, b, q, S) = Nil => Quad(w, One(g), b, q, S) = One(g)
    BY QuadFirst, NilType
  <2> QED
    BY <1>6, <1>7, <1>8, <2>1, <2>2
<1> QED
  BY <1>4, <1>6, <1>7, <1>8

\* The answers of on_frame, and what it does to the round-trip timer.
LEMMA FrameAnswers ==
  ASSUME BothOurs, Settled, NEW p \in Peers, on_frame(p), NEW f \in Frames,
         f = Head(wire[Other(p)])
  PROVE  /\ Answer(p, f)
         /\ \/ rtt' = rtt /\ ~(f.tag = "Ping" /\ "ACK" \in f.flags)
            \/ handle_pong(p, f)
<1>1. StreamTypes /\ FrameTypes
  BY SettledParts
<1>2. PICK o : o = Other(p)
  OBVIOUS
<1>3. pendR[p] = Nil /\ pendR \in [Peers -> Seq(Frames)]
  BY <1>1, <1>2, FrameTaken DEF FrameTypes
<1> USE DEF connVars, pendVars, sockVars, tableVars, handleVars, ghostVars
<1>4. ASSUME pendR' = pendR PROVE Answer(p, f)
  BY <1>3, <1>4 DEF Answer
<1>5. ASSUME NEW g, Terminate(p, f, g), g \in {protocol_error, internal_error}
      PROVE  Answer(p, f) /\ rtt' = rtt
  BY <1>3, <1>5 DEF Answer, Terminate, One
<1>6. CASE OnUnknown(p, f) \/ OnReset(p, f) \/ AcceptSyn(p, f)
  <2>1. pendR' = pendR /\ rtt' = rtt /\ IsStreamFrame(f)
    BY <1>6 DEF OnUnknown, OnReset, AcceptSyn, IsSyn
  <2> QED
    BY <1>4, <2>1 DEF IsStreamFrame
<1>7. CASE RejectSyn(p, f)
  <2>1. /\ Terminate(p, f, Head(SynError(p, f))) /\ IsStreamFrame(f)
        /\ SynError(p, f) # <<>>
    BY <1>7 DEF RejectSyn, IsSyn
  <2>2. SynError(p, f) \in {<<protocol_error>>, <<internal_error>>}
    BY <2>1 DEF SynError
  <2>3. Head(SynError(p, f)) \in {protocol_error, internal_error}
    BY <2>2
  <2> QED
    BY <1>5, <2>1, <2>3 DEF IsStreamFrame
<1>8. CASE on_data(p, f)
  <2>1. f.tag = "Data" /\ ((pendR' = pendR /\ rtt' = rtt) \/ Terminate(p, f, protocol_error))
    BY <1>8 DEF on_data, IsPlain
  <2> QED
    BY <1>4, <1>5, <2>1
<1>9. CASE on_window_update(p, f)
  <2>1. /\ f.tag = "WindowUpdate"
        /\ (pendR' = pendR /\ rtt' = rtt) \/ Terminate(p, f, protocol_error)
    BY <1>9 DEF on_window_update, IsPlain
  <2> QED
    BY <1>4, <1>5, <2>1
<1>10. CASE on_ping(p, f)
  <2>1. /\ f.tag = "Ping" /\ "ACK" \notin f.flags /\ rtt' = rtt
        /\ pendR'[p] = Nil \/ pendR'[p] = One(pong(f.len))
    BY <1>3, <1>10 DEF on_ping, Nil, One
  <2> QED
    BY <2>1 DEF Answer
<1>11. CASE handle_pong(p, f)
  <2>1. pendR' = pendR \/ pendR'[p] = One(protocol_error)
    BY <1>3, <1>11 DEF handle_pong, One
  <2> QED
    BY <1>4, <1>11, <2>1 DEF Answer
<1> QED
  BY <1>6, <1>7, <1>8, <1>9, <1>10, <1>11 DEF on_frame

----------------------------------------------------------------------------
(* One ping at a time                                                       *)

Asks    == {f \in Frames : f.tag = "Ping" /\ "ACK" \notin f.flags}
Replies == {f \in Frames : f.tag = "Ping" /\ "ACK" \in f.flags}

\* The pings of p and the remote's answers, on their way.
Trail(p) == Cat(Trace(p, Asks), Trace(Other(p), Replies))

\* At most one frame, with value n.
Lone(s, n) == s = Nil \/ \E f \in Frames : s = One(f) /\ f.len = n

\* A ping or its answer is on its way only while p waits for it.
Timed(p) ==
  /\ rtt[p].st = "await" => Lone(Trail(p), rtt[p].id - 1)
  /\ rtt[p].st # "await" => Trail(p) = Nil

\* Two sequences of one element together.
LEMMA CatOne ==
  ASSUME NEW s \in Seq(Frames), NEW t \in Seq(Frames)
  PROVE  /\ Cat(s, t) = Nil <=> s = Nil /\ t = Nil
         /\ \A f \in Frames : Cat(s, t) = One(f) =>
              \/ s = Nil /\ t = One(f)
              \/ s = One(f) /\ t = Nil
<1>1. Cat(s, t) = Nil <=> s = Nil /\ t = Nil
  BY DEF Cat, Nil
<1>2. ASSUME NEW f \in Frames, Cat(s, t) = One(f)
      PROVE  \/ s = Nil /\ t = One(f)
             \/ s = One(f) /\ t = Nil
  <2>1. Len(s) + Len(t) = 1 /\ Len(s) \in Nat /\ Len(t) \in Nat
    BY <1>2 DEF Cat, One
  <2>2. CASE Len(s) = 0
    <3>1. s = Nil
      BY <2>2 DEF Nil
    <3> QED
      BY <1>2, <3>1, CatNil
  <2>3. CASE Len(t) = 0
    <3>1. t = Nil
      BY <2>3 DEF Nil
    <3> QED
      BY <1>2, <3>1, CatNil
  <2> QED
    BY <2>1, <2>2, <2>3
<1> QED
  BY <1>1, <1>2

\* A frame in front of others, and no more than one.
LEMMA LoneHead ==
  ASSUME NEW f \in Frames, NEW s \in Seq(Frames), NEW t \in Seq(Frames), NEW n
  PROVE  /\ Cat(Cat(One(f), s), t) # Nil /\ Cat(t, Cat(One(f), s)) # Nil
         /\ Lone(Cat(Cat(One(f), s), t), n) => s = Nil /\ t = Nil /\ f.len = n
         /\ Lone(Cat(t, Cat(One(f), s)), n) => s = Nil /\ t = Nil /\ f.len = n
<1>1. One(f) \in Seq(Frames) /\ One(f) # Nil /\ Cat(One(f), s) \in Seq(Frames)
  BY OneType, CatType DEF One, Nil
<1>2. Cat(One(f), s) # Nil
  BY <1>1, CatOne
<1>3. Cat(Cat(One(f), s), t) # Nil /\ Cat(t, Cat(One(f), s)) # Nil
  BY <1>1, <1>2, CatOne
<1>4. ASSUME NEW g \in Frames, \/ Cat(Cat(One(f), s), t) = One(g)
                               \/ Cat(t, Cat(One(f), s)) = One(g)
      PROVE  s = Nil /\ t = Nil /\ f = g
  <2>1. Cat(One(f), s) = One(g) /\ t = Nil
    BY <1>1, <1>2, <1>4, CatOne
  <2>2. One(f) = One(g) /\ s = Nil
    BY <1>1, <2>1, CatOne
  <2> QED
    BY <2>1, <2>2 DEF One
<1> QED
  BY <1>3, <1>4 DEF Lone

\* A part of nothing.
LEMMA NilPart ==
  ASSUME NEW s \in Seq(Frames), NEW a \in Seq(Frames), NEW t \in Seq(Frames), GoesOnAfter(s, a)
  PROVE  /\ Cat(s, t) = Nil => Cat(a, t) = Nil
         /\ Cat(t, s) = Nil => Cat(t, a) = Nil
<1>1. PICK r \in Seq(Frames) : s = Cat(a, r)
  BY DEF GoesOnAfter
<1>2. s = Nil => a = s
  BY <1>1, CatOne
<1> QED
  BY <1>2, CatOne

\* A part of such a sequence.
LEMMA LonePart ==
  ASSUME NEW s \in Seq(Frames), NEW a \in Seq(Frames), NEW t \in Seq(Frames), GoesOnAfter(s, a),
         NEW n
  PROVE  /\ Lone(Cat(s, t), n) => Lone(Cat(a, t), n)
         /\ Lone(Cat(t, s), n) => Lone(Cat(t, a), n)
<1>1. PICK r \in Seq(Frames) : s = Cat(a, r)
  BY DEF GoesOnAfter
<1>2. ASSUME s = Nil \/ a = s PROVE a = s
  BY <1>1, <1>2, CatOne
<1>3. ASSUME NEW f \in Frames, s = One(f) PROVE a = s \/ a = Nil
  BY <1>1, <1>3, CatOne
<1>4. Cat(Nil, t) = t /\ Cat(t, Nil) = t
  BY CatNil
<1>5. ASSUME Cat(s, t) = Nil \/ Cat(t, s) = Nil PROVE a = s
  BY <1>2, <1>5, CatOne
<1>6. ASSUME NEW f \in Frames, Cat(s, t) = One(f) \/ Cat(t, s) = One(f)
      PROVE  a = s \/ (a = Nil /\ t = Nil)
  BY <1>2, <1>3, <1>6, CatOne
<1>7. ASSUME t = Nil, a = Nil PROVE Lone(Cat(a, t), n) /\ Lone(Cat(t, a), n)
  BY <1>4, <1>7 DEF Lone
<1>8. ASSUME Lone(Cat(s, t), n) PROVE Lone(Cat(a, t), n)
  BY <1>5, <1>6, <1>7, <1>8 DEF Lone
<1>9. ASSUME Lone(Cat(t, s), n) PROVE Lone(Cat(t, a), n)
  BY <1>5, <1>6, <1>7, <1>9 DEF Lone
<1> QED
  BY <1>8, <1>9

\* What these frames are.
LEMMA SignalKinds ==
  ASSUME NEW n \in 0 .. U32_MAX
  PROVE  /\ Signals(Asks) /\ Signals(Replies) /\ Signals({protocol_error})
         /\ ping(n) \in Asks /\ ping(n) \notin Replies /\ ping(n).len = n
         /\ pong(n) \in Replies /\ pong(n) \notin Asks /\ pong(n).len = n
         /\ ping(n) # protocol_error /\ pong(n) # protocol_error
         /\ ping(n) \in Frames /\ pong(n) \in Frames
         /\ \A g \in {protocol_error, internal_error} :
              g \in Frames /\ g \notin Asks /\ g \notin Replies /\ g.tag = "GoAway"
         /\ internal_error # protocol_error
<1>1. /\ protocol_error \in Frames /\ internal_error \in Frames
      /\ ping(n) \in Frames /\ pong(n) \in Frames
  BY FrameOfConnection
<1>2. Signals(Asks) /\ Signals(Replies)
  BY DEF Signals, Asks, Replies, IsStreamFrame, term, Header
<1>3. protocol_error.tag = "GoAway" /\ protocol_error # term /\ internal_error # protocol_error
      /\ internal_error.tag = "GoAway"
  <2>1. protocol_error.len = 1 /\ term.len = 0 /\ internal_error.len = 2
    BY DEF protocol_error, internal_error, term, Header
  <2> QED
    BY <2>1 DEF protocol_error, internal_error, Header
<1>4. Signals({protocol_error})
  BY <1>3 DEF Signals, IsStreamFrame
<1>5. /\ ping(n).tag = "Ping" /\ ping(n).flags = {"SYN"} /\ ping(n).len = n
      /\ pong(n).tag = "Ping" /\ pong(n).flags = {"ACK"} /\ pong(n).len = n
  BY DEF ping, pong, Header
<1> QED
  BY <1>1, <1>2, <1>3, <1>4, <1>5 DEF Asks, Replies

\* Frames of both directions are sequences.
LEMMA TraceTypes ==
  ASSUME BothOurs, Settled, NEW p \in Peers, NEW S
  PROVE  Trace(p, S) \in Seq(Frames)
BY SettledParts, TraceQuad

\* And after a step.
LEMMA NextTraceTypes ==
  ASSUME BothOurs, Settled', NEW p \in Peers, NEW S
  PROVE  Trace(p, S)' \in Seq(Frames)
BY NextSettledParts, NextTraceQuad

\* A ping is sent when none is on its way.
LEMMA PingTimed ==
  ASSUME BothOurs, Settled, Settled', NEW p \in Peers, PollPing(p), NEW o \in Peers, o = Other(p)
  PROVE  /\ Timed(p) => Timed(p)'
         /\ \A S : ping(rtt[p].id) \notin S => Trace(p, S)' = Trace(p, S)
<1>1. FrameTypes /\ FrameTypes' /\ rtt[p] \in RttStates
  BY SettledParts, NextSettledParts DEF FrameTypes
<1>2. PICK n \in 0 .. U32_MAX : n = rtt[p].id
  BY <1>1 DEF RttStates
<1>3. PICK f \in Frames : f = ping(n)
  BY SignalKinds
<1>4. /\ rtt[p].st = "due" /\ rtt'[p].st = "await" /\ rtt'[p].id = n + 1
      /\ wire'[p] = Append(wire[p], f) /\ pendR'[p] = pendR[p] /\ pendW'[p] = pendW[p]
      /\ pendQ'[p] = pendQ[p] /\ UNCHANGED pendVars /\ (o # p => wire'[o] = wire[o])
  BY <1>1, <1>2, <1>3 DEF PollPing, SendFrame, pendVars, FrameTypes, RttStates
<1>5. PICK w \in Seq(Frames), r \in Seq(Frames), b \in Seq(Frames), q \in Seq(Frames) :
        w = wire[p] /\ r = pendR[p] /\ b = pendW[p] /\ q = pendQ[p]
  BY <1>1 DEF FrameTypes
<1>6. ASSUME NEW S
      PROVE  /\ Trace(p, S) = Quad(w, r, b, q, S)
             /\ Trace(p, S)' = Quad(Append(w, f), r, b, q, S)
  BY <1>1, <1>4, <1>5, TraceQuad, NextTraceQuad
<1>7. ASSUME NEW S, f \notin S PROVE Trace(p, S)' = Trace(p, S)
  BY <1>6, <1>7, QuadSend
<1>8. ASSUME Timed(p) PROVE Timed(p)'
  <2>1. Trail(p) = Nil
    BY <1>4, <1>8 DEF Timed
  <2>2. PICK s, t \in Seq(Frames) : s = Trace(p, Asks) /\ t = Trace(o, Replies)
    BY TraceTypes
  <2>3. s = Nil /\ t = Nil
    BY <2>1, <2>2, CatOne DEF Trail
  <2>4. Trace(p, Asks)' = One(f)
    <3>1. Quad(w, r, b, q, Asks) = Nil /\ f \in Asks
      BY <1>3, <1>6, <2>2, <2>3, SignalKinds
    <3> QED
      BY <1>6, <3>1, QuadFirst
  <2>5. Trace(o, Replies)' = Nil
    <3>1. o # p
      BY SettledParts
    <3> QED
      BY <1>4, <2>2, <2>3, <3>1 DEF Trace, Outgoing, pendVars
  <2>6. Trail(p)' = One(f)
    <3>1. Cat(One(f), Nil) = One(f)
      BY CatNil, OneType
    <3> QED
      BY <2>4, <2>5, <3>1 DEF Trail
  <2>7. f.len = n /\ rtt'[p].id - 1 = n
    BY <1>3, <1>4, SignalKinds
  <2> QED
    BY <1>4, <2>6, <2>7 DEF Timed, Lone
<1> QED
  BY <1>2, <1>3, <1>7, <1>8

\* The answer that p waits for arrives, or a frame that is none.
LEMMA PongTimed ==
  ASSUME BothOurs, Settled, Settled', NEW p \in Peers, on_frame(p), Timed(p)
  PROVE  /\ Timed(p)'
         /\ Head(wire[Other(p)]).tag = "Ping" => pendR'[p] # One(protocol_error)
<1>1. PICK o \in Peers : o = Other(p)
  BY SettledParts
<1>2. FrameTypes /\ rtt[p] \in RttStates
  <2>1. FrameTypes
    BY SettledParts
  <2> QED
    BY <2>1 DEF FrameTypes
<1>3. PICK f \in Frames : f = Head(wire[o])
  <2>1. Head(wire[o]) \in Frames
    BY <1>1, FrameTaken
  <2> QED
    BY <2>1
<1>4. /\ Answer(p, f)
      /\ \/ rtt' = rtt /\ ~(f.tag = "Ping" /\ "ACK" \in f.flags)
         \/ handle_pong(p, f)
  BY <1>1, <1>3, FrameAnswers
<1>5. PICK s \in Seq(Frames), t \in Seq(Frames) : s = Trace(p, Asks) /\ t = Trace(o, Replies)'
  BY TraceTypes, NextTraceTypes
<1>6. Trace(p, Asks)' = s
  <2>1. pendR'[p] = Nil => Trace(p, Asks)' = s
    BY <1>1, <1>3, <1>5, FrameTraces
  <2>2. ASSUME NEW g \in Frames, g \notin Asks, pendR'[p] = One(g) PROVE Trace(p, Asks)' = s
    BY <1>1, <1>3, <1>5, <2>2, FrameTraces
  <2>3. f.len \in 0 .. U32_MAX
    BY DEF Frames
  <2>4. pong(f.len) \in Frames /\ pong(f.len) \notin Asks
    BY <2>3, SignalKinds
  <2>5. \A g \in {protocol_error, internal_error} : g \in Frames /\ g \notin Asks
    BY <2>3, SignalKinds
  <2> QED
    BY <1>4, <2>1, <2>2, <2>4, <2>5 DEF Answer
<1>7. CASE f \notin Replies
  <2>1. rtt' = rtt /\ ~handle_pong(p, f)
    BY <1>4, <1>7 DEF Replies, handle_pong
  <2>2. Trace(o, Replies) = t
    BY <1>1, <1>3, <1>5, <1>7, FrameTraces
  <2>3. Trail(p)' = Trail(p)
    BY <1>1, <1>5, <1>6, <2>2 DEF Trail
  <2>4. f.tag = "Ping" => pendR'[p] # One(protocol_error)
    <3>1. ASSUME f.tag = "Ping" PROVE on_ping(p, f)
      BY <1>1, <1>3, <2>1, <3>1 DEF on_frame, OnUnknown, OnReset, RejectSyn, AcceptSyn, on_data,
           on_window_update, IsPlain, IsSyn, IsStreamFrame
    <3>2. ASSUME on_ping(p, f) PROVE pendR'[p] = Nil \/ pendR'[p] = One(pong(f.len))
      BY <1>2, <3>2 DEF on_ping, Nil, One, FrameTypes
    <3>3. pong(f.len) # protocol_error
      BY DEF pong, protocol_error, Header
    <3>4. One(pong(f.len)) # One(protocol_error) /\ Nil # One(protocol_error)
      BY <3>3 DEF One, Nil
    <3> QED
      BY <3>1, <3>2, <3>4
  <2> QED
    BY <1>1, <1>3, <2>1, <2>3, <2>4 DEF Timed
<1>8. CASE f \in Replies
  <2>1. handle_pong(p, f)
    BY <1>4, <1>8 DEF Replies
  <2>2. Trace(o, Replies) = Cat(One(f), t)
    BY <1>1, <1>3, <1>5, <1>8, FrameTraces
  <2>3. Trail(p) = Cat(s, Cat(One(f), t))
    BY <1>1, <1>5, <2>2 DEF Trail
  <2>4. Trail(p) # Nil /\ \A n : Lone(Trail(p), n) => s = Nil /\ t = Nil /\ f.len = n
    BY <2>3, LoneHead
  <2>5. rtt[p].st = "await" /\ s = Nil /\ t = Nil /\ f.len = rtt[p].id - 1
    BY <2>4 DEF Timed
  <2>6. rtt'[p].st = "idle" /\ pendR' = pendR
    BY <1>2, <2>1, <2>5 DEF handle_pong, FrameTypes, RttStates
  <2>7. Trail(p)' = Nil
    <3>1. Cat(Nil, Nil) = Nil
      BY CatNil, NilType
    <3> QED
      BY <1>1, <1>5, <1>6, <2>5, <3>1 DEF Trail
  <2>8. pendR'[p] # One(protocol_error)
    <3>1. pendR[p] = Nil
      BY <1>1, FrameTaken
    <3> QED
      BY <2>6, <3>1 DEF Nil, One
  <2> QED
    BY <2>6, <2>7, <2>8 DEF Timed
<1> QED
  BY <1>7, <1>8

\* The remote takes a ping and answers it, or takes another frame.
LEMMA AnswerTimed ==
  ASSUME BothOurs, Settled, Settled', NEW p \in Peers, on_frame(p), NEW o \in Peers, o = Other(p),
         Timed(o)
  PROVE  Timed(o)'
<1>0. EndpointStep(p)
  BY DEF EndpointStep, ConnectionStep
<1>1. o # p /\ Other(o) = p /\ rtt'[o] = rtt[o]
  BY <1>0, SettledParts, OtherSide DEF KeptState
<1>2. PICK f \in Frames : f = Head(wire[o])
  <2>1. Head(wire[o]) \in Frames
    BY FrameTaken
  <2> QED
    BY <2>1
<1>3. Answer(p, f)
  BY <1>2, FrameAnswers
<1>4. PICK s \in Seq(Frames), t \in Seq(Frames) : s = Trace(o, Asks)' /\ t = Trace(p, Replies)
  BY TraceTypes, NextTraceTypes
<1>5. f.len \in 0 .. U32_MAX
  BY DEF Frames
<1>6. pendR'[p] = Nil => Trace(p, Replies)' = t
  BY <1>2, <1>4, FrameTraces
<1>7. ASSUME NEW g \in Frames, pendR'[p] = One(g)
      PROVE  /\ g \notin Replies => Trace(p, Replies)' = t
             /\ g \in Replies /\ t = Nil => Trace(p, Replies)' = One(g)
  BY <1>2, <1>4, <1>7, FrameTraces
<1>8. \A g \in {protocol_error, internal_error} : g \in Frames /\ g \notin Replies
  BY <1>5, SignalKinds
<1>9. CASE f \notin Asks
  <2>1. Trace(o, Asks) = s
    BY <1>2, <1>4, <1>9, FrameTraces
  <2>2. Trace(p, Replies)' = t
    BY <1>3, <1>6, <1>7, <1>8, <1>9 DEF Answer, Asks
  <2>3. Trail(o)' = Trail(o)
    BY <1>1, <1>4, <2>1, <2>2 DEF Trail
  <2> QED
    BY <1>1, <2>3 DEF Timed
<1>10. CASE f \in Asks
  <2>1. Trail(o) = Cat(Cat(One(f), s), t)
    <3>1. Trace(o, Asks) = Cat(One(f), s)
      BY <1>2, <1>4, <1>10, FrameTraces
    <3> QED
      BY <1>1, <1>4, <3>1 DEF Trail
  <2>2. Trail(o) # Nil /\ \A n : Lone(Trail(o), n) => s = Nil /\ t = Nil /\ f.len = n
    BY <2>1, LoneHead
  <2>3. rtt[o].st = "await" /\ s = Nil /\ t = Nil /\ f.len = rtt[o].id - 1
    BY <2>2 DEF Timed
  <2>4. Trace(p, Replies)' = Nil \/ Trace(p, Replies)' = One(pong(f.len))
    <3>1. pong(f.len) \in Frames /\ pong(f.len) \in Replies
      BY <1>5, SignalKinds
    <3> QED
      BY <1>3, <1>6, <1>7, <1>8, <2>3, <3>1 DEF Answer
  <2>5. Trail(o)' = Trace(p, Replies)'
    <3>1. Cat(Nil, Trace(p, Replies)') = Trace(p, Replies)'
      BY NextTraceTypes, CatNil
    <3> QED
      BY <1>1, <1>4, <2>3, <3>1 DEF Trail
  <2>6. pong(f.len) \in Frames /\ pong(f.len).len = rtt[o].id - 1
    BY <1>5, <2>3, SignalKinds
  <2>7. Lone(Trail(o)', rtt[o].id - 1)
    BY <2>4, <2>5, <2>6 DEF Lone
  <2> QED
    BY <1>1, <2>3, <2>7 DEF Timed
<1> QED
  BY <1>9, <1>10

\* The timer changes only with pings and their answers, and when it is due.
LEMMA TimerSteps ==
  ASSUME BothOurs, Settled, NEW p \in Peers, EndpointStep(p), ~on_frame(p), ~PollPing(p)
  PROVE  /\ rtt'[p].id = rtt[p].id
         /\ rtt'[p].st = "await" <=> rtt[p].st = "await"
<1>1. /\ p \in Endpoints /\ StreamTypes /\ FrameTypes /\ GhostTypes /\ StreamsOK
  BY SettledParts
<1>2. rtt \in [Peers -> RttStates]
  BY <1>1 DEF FrameTypes
<1> USE DEF connVars, pendVars, sockVars, tableVars, handleVars, ghostVars
<1>3. CASE PingInterval(p)
  BY <1>2, <1>3 DEF PingInterval, RttStates
<1>4. ASSUME NEW j \in Ids, HandleAction(p, j) PROVE rtt'[p] = rtt[p]
  BY <1>1, <1>4, HandleMoves DEF ElseKept
<1>5. CASE poll_new_outbound(p)
  BY <1>5 DEF poll_new_outbound
<1>6. ASSUME NEW j \in Ids, on_drop_stream(p, j) \/ PollCommand(p, j) \/ DrainCommand(p, j)
      PROVE  rtt'[p] = rtt[p]
  BY <1>6 DEF on_drop_stream, PollCommand, DrainCommand
<1>7. CASE PollSend(p) \/ OpenWait(p) \/ FlushFrame(p)
  BY <1>7 DEF PollSend, OpenWait, FlushFrame
<1>8. CASE PollFail(p) \/ OpenFail(p)
  BY <1>8 DEF PollFail, OpenFail, cleanup
<1>9. CASE connection_close(p) \/ connection_drop(p)
  BY <1>9 DEF connection_close, connection_drop
<1>10. CASE \/ CloseAllReceivers(p) \/ DrainDone(p) \/ CloseSocket(p) \/ ClosingError(p)
            \/ CleanupDrain(p)
  BY <1>10 DEF CloseAllReceivers, DrainDone, CloseSocket, ClosingError, CleanupDrain
<1>11. CASE Sending(p)
  BY <1>3, <1>6, <1>7, <1>11 DEF Sending
<1>12. CASE Ending(p)
  BY <1>7, <1>8, <1>9, <1>10, <1>12 DEF Ending
<1> QED
  BY <1>1, <1>4, <1>5, <1>6, <1>11, <1>12, EndpointActions

\* Other steps add no ping and no answer.
LEMMA RestTimed ==
  ASSUME BothOurs, Settled, Settled', NEW p \in Peers, EndpointStep(p), ~on_frame(p),
         NEW o \in Peers, o = Other(p)
  PROVE  /\ Timed(p) => Timed(p)'
         /\ Timed(o) => Timed(o)'
<1>1. o # p /\ Other(o) = p /\ rtt'[o] = rtt[o]
  BY SettledParts, OtherSide DEF KeptState
<1>2. 0 \in 0 .. U32_MAX
  BY FlowAssumption
<1>3. Signals(Asks) /\ Signals(Replies)
  BY <1>2, SignalKinds
<1>4. PICK s, t, u, v \in Seq(Frames) :
        s = Trace(p, Asks) /\ t = Trace(o, Replies) /\ u = Trace(o, Asks) /\ v = Trace(p, Replies)
  BY TraceTypes
<1>5. Trace(o, Replies)' = t /\ Trace(o, Asks)' = u
  BY <1>4, OtherTrace
<1>6. PICK a, b \in Seq(Frames) : a = Trace(p, Asks)' /\ b = Trace(p, Replies)'
  BY NextTraceTypes
<1>7. /\ Trail(p) = Cat(s, t) /\ Trail(p)' = Cat(a, t)
      /\ Trail(o) = Cat(u, v) /\ Trail(o)' = Cat(u, b)
  BY <1>1, <1>4, <1>5, <1>6 DEF Trail
<1>8. CASE ~PollPing(p)
  <2>1. GoesOnAfter(s, a) /\ GoesOnAfter(v, b)
    BY <1>3, <1>4, <1>6, <1>8, StepDwindles DEF Dwindles
  <2>2. rtt'[p].id = rtt[p].id /\ (rtt'[p].st = "await" <=> rtt[p].st = "await")
    BY <1>8, TimerSteps
  <2>3. ASSUME NEW n PROVE Lone(Trail(p), n) => Lone(Trail(p)', n)
    BY <1>7, <2>1, LonePart
  <2>4. ASSUME NEW n PROVE Lone(Trail(o), n) => Lone(Trail(o)', n)
    BY <1>7, <2>1, LonePart
  <2>5. (Trail(p) = Nil => Trail(p)' = Nil) /\ (Trail(o) = Nil => Trail(o)' = Nil)
    BY <1>7, <2>1, NilPart
  <2>6. Timed(p) => Timed(p)'
    BY <2>2, <2>3, <2>5 DEF Timed
  <2>7. Timed(o) => Timed(o)'
    BY <1>1, <2>4, <2>5 DEF Timed
  <2> QED
    BY <2>6, <2>7
<1>9. CASE PollPing(p)
  <2>1. rtt[p].id \in 0 .. U32_MAX
    <3>1. FrameTypes
      BY SettledParts
    <3> QED
      BY <3>1 DEF FrameTypes, RttStates
  <2>2. b = v
    <3>1. ping(rtt[p].id) \notin Replies
      BY <2>1, SignalKinds
    <3> QED
      BY <1>4, <1>6, <1>9, <3>1, PingTimed
  <2>3. Timed(o) => Timed(o)'
    BY <1>1, <1>7, <2>2 DEF Timed
  <2> QED
    BY <1>9, <2>3, PingTimed
<1> QED
  BY <1>8, <1>9

\* Every step keeps the pings of both peers in order.
LEMMA StepTimed ==
  ASSUME BothOurs, Settled, Settled', NEW p \in Peers, EndpointStep(p), \A q \in Peers : Timed(q)
  PROVE  \A q \in Peers : Timed(q)'
<1>1. PICK o \in Peers : o = Other(p)
  BY SettledParts
<1>2. \A q \in Peers : q = p \/ q = o
  BY <1>1 DEF Peers, Other
<1>3. CASE on_frame(p)
  BY <1>1, <1>2, <1>3, PongTimed, AnswerTimed
<1>4. CASE ~on_frame(p)
  BY <1>1, <1>2, <1>4, RestTimed
<1> QED
  BY <1>3, <1>4

----------------------------------------------------------------------------
(* A SYN goes with data                                                     *)

SynData == {f \in Frames : "SYN" \in f.flags => f.tag = "Data"}

\* A stream that has sent nothing has got nothing: it grants no credit yet, so
\* the frame that takes its SYN carries data.
Fresh(p, id) ==
  /\ handle[p][id].flag = "Syn" =>
       /\ shared[p][id].fc.max_receive_window = DEFAULT_CREDIT
       /\ handle[p][id].op.kind # "check"
  /\ Within(Line(p, id), SynData)

\* The remote of a stream that has not sent its SYN does not have it.
LEMMA SynUnsent ==
  ASSUME BothOurs, Settled, NEW p \in Peers, NEW id \in Ids, Shaped(p, id),
         handle[p][id].flag = "Syn", NEW o \in Peers, o = Other(p)
  PROVE  Unborn(o, id)
<1>1. OwnJourney(p) /\ o \in Endpoints /\ StreamsOK
  BY SettledParts
<1>2. OneSyn(p, id)
  BY <1>1 DEF OwnJourney, Shaped
<1>3. "flag" \in Places(p, id)
  BY PlacesAre
<1>4. "opened" \notin Places(p, id)
  BY <1>2, <1>3 DEF OneSyn
<1>5. rx[o][id] = "none"
  BY <1>4, PlacesAre
<1> QED
  BY <1>1, <1>5, LifeAndReceiver DEF Unborn

\* Such a stream has its whole window, and no update is due.
LEMMA NoUpdateYet ==
  ASSUME DEFAULT_CREDIT > 1, NEW p, NEW id, Acts(p, id), Fresh(p, id),
         handle[p][id].flag = "Syn", handle[p][id].life = "live"
  PROVE  ~UpdateDue(shared[p][id].fc, shared[p][id].buf)
<1>1. /\ p \in Peers /\ id \in Ids /\ p \in Endpoints /\ StreamTypes /\ StreamsOK /\ Typed(p)
      /\ Shaped(p, id) /\ Other(Other(p)) = p
  BY ActsParts
<1>2. PICK o \in Peers : o = Other(p) /\ Other(o) = p
  BY ActsParts
<1>3. Unborn(o, id)
  BY <1>1, <1>2, SynUnsent DEF Acts
<1>4. SendV(o, id) = DEFAULT_CREDIT
  BY <1>3 DEF SendV
<1>5. RecvV(p, id) = shared[p][id].fc.receive_window
  BY <1>1, HeldValues
<1>6. Fair(o, id)
  BY <1>2 DEF Acts, Sound
<1>7. InFlight(o, id) \in Nat /\ Granted(p, id) \in Nat
  <2>1. Typed(o)
    BY <1>2, SettledParts DEF Acts
  <2> QED
    BY <1>1, <2>1, Amounts
<1>8. shared[p][id] \in SharedSet
  BY <1>1 DEF StreamTypes
<1>9. PICK m, r, b \in Nat :
        /\ m = shared[p][id].fc.max_receive_window /\ r = shared[p][id].fc.receive_window
        /\ b = shared[p][id].buf
  BY <1>8, FlowAssumption DEF SharedSet
<1>10. SendV(o, id) + InFlight(o, id) + Granted(p, id) <= RecvV(p, id)
  BY <1>2, <1>6 DEF Fair, Owed
<1>11. r >= DEFAULT_CREDIT
  BY <1>4, <1>5, <1>7, <1>9, <1>10, FlowAssumption
<1>12. b + r <= m /\ m = DEFAULT_CREDIT
  <2>1. Bounded(shared[p][id])
    BY <1>1 DEF StreamsOK, StreamOK
  <2> QED
    BY <1>9, <2>1 DEF Bounded, Fresh
<1>13. b = 0 /\ r = m /\ m > 1
  BY <1>11, <1>12, FlowAssumption
<1>14. Consumed(m, r, b) = 0 /\ m \div 2 >= 1
  <2>1. Consumed(m, r, b) = 0
    BY <1>13 DEF Consumed, saturating_sub
  <2>2. m \div 2 >= 1
    BY <1>13
  <2> QED
    BY <2>1, <2>2
<1> QED
  BY <1>9, <1>14 DEF UpdateDue

\* Nothing but data takes the SYN.
LEMMA FreshLine ==
  ASSUME NEW p, NEW id, Acts(p, id), Fresh(p, id)
  PROVE  Within(Line(p, id)', SynData)
<1>1. /\ p \in Peers /\ id \in Ids /\ p \in Endpoints /\ StreamTypes /\ StreamsOK /\ StreamsOK'
      /\ Typed(p) /\ Typed(p)' /\ FrameTypes /\ GhostTypes
      /\ Line(p, id) \in Seq(Frames)
  BY ActsParts
<1>2. BothOurs /\ Settled /\ Settled' /\ EndpointStep(p) /\ Within(Line(p, id), SynData)
  BY DEF Acts, Fresh
<1>3. ASSUME LineSame(p, id) PROVE Within(Line(p, id)', SynData)
  BY <1>2, <1>3 DEF LineSame
<1>4. ASSUME LineThins(p, id) PROVE Within(Line(p, id)', SynData)
  BY <1>1, <1>2, <1>4, ThinWithin
<1>5. ASSUME NEW f \in Frames, LineGrows(p, id, f), "SYN" \in f.flags => f.tag = "Data"
      PROVE  Within(Line(p, id)', SynData)
  <2>1. Line(p, id)' = Cat(Line(p, id), One(f)) /\ One(f) \in Seq(Frames) /\ f \in SynData
    BY <1>5, OneType DEF LineGrows, SynData
  <2>2. Within(One(f), SynData)
    BY <2>1, SynOne
  <2> QED
    BY <1>1, <1>2, <2>1, <2>2, WithinCat
<1>6. CASE Sending(p)
  BY <1>1, <1>3, <1>6, SendingBooks
<1>7. CASE Ending(p)
  BY <1>1, <1>4, <1>7, EndingBooks
<1>8. CASE on_frame(p)
  BY <1>1, <1>2, <1>3, <1>8, FrameLine
<1>9. CASE poll_new_outbound(p)
  BY <1>1, <1>2, <1>3, <1>9, OpenLine
<1>10. ASSUME NEW j \in Ids, on_drop_stream(p, j) PROVE Within(Line(p, id)', SynData)
  <2>1. LineSame(p, id) \/ \E f : LineEnds(p, id, f)
    <3>1. CASE id # j
      BY <1>1, <1>2, <1>10, <3>1, DropMoves
    <3>2. CASE id = j
      BY <1>1, <1>2, <1>10, <3>2, DropMoves
    <3> QED
      BY <3>1, <3>2
  <2>2. ASSUME NEW f, LineEnds(p, id, f) PROVE Within(Line(p, id)', SynData)
    <3>1. f \in Frames /\ LineGrows(p, id, f) /\ "SYN" \notin f.flags
      BY <2>2 DEF LineEnds, Farewell
    <3> QED
      BY <1>5, <3>1
  <2> QED
    BY <1>3, <2>1, <2>2
<1>11. ASSUME NEW j \in Ids, HandleAction(p, j) PROVE Within(Line(p, id)', SynData)
  <2>0. HandleMove(p, j) /\ ElseKept(p, j)
    BY <1>1, <1>11, HandleMoves
  <2>1. CASE id # j
    BY <1>1, <1>3, <2>0, <2>1, OtherLines
  <2>2. CASE id = j
    <3>1. ASSUME NEW f, OpWrite(p, j, f) \/ OpGrant(p, j, f), OpSilent(p, j)
          PROVE  Within(Line(p, id)', SynData)
      <4>1. "write" \in FrameOps /\ "read" \in FrameOps /\ chan'[p][j] = chan[p][j]
        BY <3>1 DEF FrameOps, OpSilent
      <4>2. Starts(p, j, "write", f) \/ Starts(p, j, "read", f)
        BY <3>1 DEF OpWrite, OpGrant
      <4>3. LineGrows(p, id, f) /\ f \in Frames
        BY <1>1, <2>0, <2>2, <4>1, <4>2, BeginLine
      <4>4. "SYN" \in f.flags => f.tag = "Data"
        BY <2>2, <3>1 DEF OpWrite, OpGrant, Starts, Fresh
      <4> QED
        BY <1>5, <4>3, <4>4
    <3>2. ASSUME OpSend(p, j) PROVE Within(Line(p, id)', SynData)
      <4>1. LineSame(p, id) \/ LineThins(p, id)
        BY <1>1, <2>0, <2>2, <3>2, SendLine DEF OpSend
      <4> QED
        BY <1>3, <1>4, <4>1
    <3>3. ASSUME NEW f, OpClose(p, j, f) PROVE Within(Line(p, id)', SynData)
      <4>1. f \in Frames /\ (LineSame(p, id) \/ LineGrows(p, id, f))
        BY <1>1, <2>0, <2>2, <3>3, CloseLine
      <4>2. "SYN" \notin f.flags
        BY <3>3 DEF OpClose, Cmds
      <4> QED
        BY <1>3, <1>5, <4>1, <4>2
    <3>4. ASSUME OpRest(p, j) \/ OpDrop(p, j), OpSilent(p, j) PROVE Within(Line(p, id)', SynData)
      BY <1>1, <1>3, <2>0, <2>2, <3>4, RestLine
    <3> QED
      BY <2>0, <3>1, <3>2, <3>3, <3>4 DEF HandleMove
  <2> QED
    BY <2>1, <2>2
<1> QED
  BY <1>1, <1>2, <1>6, <1>7, <1>8, <1>9, <1>10, <1>11, EndpointActions

\* The handle that has not sent its SYN, after a step of its own side.
LEMMA FreshHandle ==
  ASSUME DEFAULT_CREDIT > 1, NEW p, NEW id, Acts(p, id), Fresh(p, id), handle'[p][id].flag = "Syn"
  PROVE  /\ shared'[p][id].fc.max_receive_window = DEFAULT_CREDIT
         /\ handle'[p][id].op.kind # "check"
<1>1. /\ p \in Peers /\ id \in Ids /\ p \in Endpoints /\ StreamTypes /\ StreamsOK /\ StreamsOK'
      /\ Typed(p) /\ Typed(p)' /\ FrameTypes /\ GhostTypes /\ Shaped(p, id)
  BY ActsParts
<1>2. BothOurs /\ Settled /\ Settled' /\ EndpointStep(p)
  BY DEF Acts
<1>3. NoShared.fc.max_receive_window = DEFAULT_CREDIT
  BY DEF NoShared, NewShared, new_controller
<1> DEFINE Goal == /\ shared'[p][id].fc.max_receive_window = DEFAULT_CREDIT
                   /\ handle'[p][id].op.kind # "check"
<1>4. ASSUME handle'[p][id] = handle[p][id], shared'[p][id] = shared[p][id] PROVE Goal
  BY <1>4 DEF Fresh
<1>5. ASSUME Fades(p, id) PROVE Goal
  <2>1. handle'[p][id] = handle[p][id]
    BY <1>5 DEF Fades
  <2>2. shared'[p][id].fc = shared[p][id].fc \/ shared'[p][id] = NoShared
    BY <1>5 DEF Fades
  <2> QED
    BY <1>3, <2>1, <2>2 DEF Fresh
<1> HIDE DEF Goal
<1>6. CASE Sending(p)
  <2>1. handle'[p][id] = handle[p][id] /\ shared'[p][id] = shared[p][id]
    BY <1>1, <1>6, SendingSteady DEF Steady
  <2> QED
    BY <1>4, <2>1 DEF Goal
<1>7. CASE Ending(p)
  BY <1>1, <1>5, <1>7, EndingBooks DEF Goal
<1>8. CASE on_frame(p)
  <2>1. PICK o \in Peers : o = Other(p) /\ Other(o) = p /\ o # p
    BY ActsParts
  <2>2. PICK f \in Frames : f = Head(wire[o])
    <3>1. Head(wire[o]) \in Frames
      BY <1>1, <1>2, <1>8, <2>1, FrameTaken
    <3> QED
      BY <3>1
  <2>3. CASE f \notin StreamFrames(id)
    <3>1. SameStream(p, id)
      BY <1>1, <1>2, <1>8, <2>1, <2>2, <2>3, FrameCases
    <3> QED
      BY <1>4, <3>1 DEF SameStream, Goal
  <2>4. CASE f \in StreamFrames(id)
    <3>1. FrameStep(p, id, f)
      BY <1>1, <1>2, <1>8, <2>1, <2>2, <2>4, FrameCases
    <3>2. Taken(p, o, id, f)
      BY <1>1, <1>2, <1>8, <2>1, <2>2, <2>4 DEF Taken, Acts
    <3>3. handle'[p][id] = handle[p][id] \/ handle'[p][id].flag = "Ack"
      BY <3>1 DEF FrameStep, FrameUnknown, FrameReset, FrameReject, FrameAccept, FramePlain,
           Booked, Refused, Fades, SameStream, NewHandle, NoHandle
    <3>4. Unborn(o, id)
      BY <1>1, <1>2, <2>1, <3>3, SynUnsent
    <3> QED
      BY <3>2, <3>4, TakenParts
  <2> QED
    BY <2>3, <2>4 DEF Goal
<1>9. CASE poll_new_outbound(p)
  <2>1. CASE id # nextId[p]
    BY <1>1, <1>2, <1>4, <1>9, <2>1, OpenMoves DEF Goal
  <2>2. CASE id = nextId[p]
    <3>1. handle'[p][id] = NewHandle("Syn") /\ shared'[p][id] = NewShared(DEFAULT_CREDIT)
      BY <1>1, <1>2, <1>9, <2>2, OpenMoves
    <3> QED
      BY <3>1 DEF NewHandle, NoHandle, Idle, NewShared, new_controller
  <2> QED
    BY <2>1, <2>2 DEF Goal
<1>10. ASSUME NEW j \in Ids, on_drop_stream(p, j) PROVE Goal
  <2>1. CASE id # j
    <3>1. SameStream(p, id)
      BY <1>1, <1>2, <1>10, <2>1, DropMoves
    <3> QED
      BY <1>4, <3>1 DEF SameStream
  <2>2. CASE id = j
    BY <1>1, <1>2, <1>5, <1>10, <2>2, DropMoves
  <2> QED
    BY <2>1, <2>2
<1>11. ASSUME NEW j \in Ids, HandleAction(p, j) PROVE Goal
  <2>0. HandleMove(p, j) /\ ElseKept(p, j) /\ handle[p][id] \in Handles
    BY <1>1, <1>11, HandleMoves DEF StreamTypes
  <2>1. CASE id # j
    BY <1>1, <1>4, <2>0, <2>1 DEF ElseKept
  <2>2. CASE id = j
    <3>1. ASSUME NEW f, OpWrite(p, j, f) \/ OpGrant(p, j, f) PROVE FALSE
      BY <2>2, <3>1 DEF OpWrite, OpGrant, Starts
    <3>2. ASSUME OpSend(p, j) PROVE Goal
      BY <2>0, <2>2, <3>2 DEF OpSend, Goal, Fresh, Handles, Idle
    <3>3. ASSUME NEW f, OpClose(p, j, f) PROVE Goal
      BY <2>2, <3>3 DEF OpClose, Goal, Fresh
    <3>4. ASSUME OpRest(p, j) PROVE Goal
      <4>1. handle[p][id].flag = "Syn" /\ handle[p][id].life = "live"
            /\ shared'[p][id].fc = shared[p][id].fc
        BY <2>2, <3>4 DEF OpRest
      <4>2. ~UpdateDue(shared[p][id].fc, shared[p][id].buf)
        BY <4>1, NoUpdateYet
      <4>3. handle'[p][id].op.kind # "check"
        BY <2>2, <3>4, <4>1, <4>2 DEF OpRest, Fresh
      <4> QED
        BY <4>1, <4>3 DEF Goal, Fresh
    <3>5. ASSUME OpDrop(p, j) PROVE FALSE
      BY <2>2, <3>5 DEF OpDrop
    <3> QED
      BY <2>0, <3>1, <3>2, <3>3, <3>4, <3>5 DEF HandleMove
  <2> QED
    BY <2>1, <2>2
<1>12. Goal
  BY <1>1, <1>2, <1>6, <1>7, <1>8, <1>9, <1>10, <1>11, EndpointActions DEF Goal
<1> QED
  BY <1>12 DEF Goal

\* Every step keeps both sides fresh.
LEMMA StepFresh ==
  ASSUME DEFAULT_CREDIT > 1, NEW p, NEW id, Acts(p, id), NEW o, o = Other(p),
         Fresh(p, id), Fresh(o, id)
  PROVE  Fresh(p, id)' /\ Fresh(o, id)'
<1>1. Fresh(p, id)'
  BY FreshHandle, FreshLine DEF Fresh
<1>2. /\ p \in Peers /\ id \in Ids /\ o \in Peers /\ BothOurs /\ Settled /\ Settled'
      /\ EndpointStep(p) /\ Other(o) = p /\ o # p /\ p \in Endpoints /\ FrameTypes
  BY ActsParts DEF Acts
<1>3. handle'[o] = handle[o] /\ shared'[o] = shared[o]
  BY <1>2, OtherSide DEF KeptState
<1>4. Typed(o) /\ Typed(o)'
  BY <1>2, SettledParts, NextSettledParts
<1>5. Within(Line(o, id)', SynData)
  <2>1. CASE ~on_frame(p)
    <3>1. Outward(p)
      BY <1>2, <2>1, EndpointActions, OutwardSteps
    <3>2. LineSame(o, id)
      BY <1>2, <3>1, OtherLine
    <3> QED
      BY <3>2 DEF LineSame, Fresh
  <2>2. CASE on_frame(p)
    <3>1. PICK f \in Frames : f = Head(wire[o])
      <4>1. Head(wire[o]) \in Frames
        BY <1>2, <2>2, FrameTaken
      <4> QED
        BY <4>1
    <3>2. LineGives(o, id, f) \/ LineSame(o, id)
      BY <1>2, <2>2, <3>1, FrameLeaves
    <3>3. Line(o, id)' \in Seq(Frames) /\ One(f) \in Seq(Frames)
      BY <1>2, <1>4, NextLineType, OneType
    <3>4. CASE LineSame(o, id)
      BY <3>4 DEF LineSame, Fresh
    <3>5. CASE LineGives(o, id, f)
      <4>1. Within(Cat(One(f), Line(o, id)'), SynData)
        BY <3>5 DEF LineGives, Fresh
      <4> QED
        BY <3>3, <4>1, WithinCat
    <3> QED
      BY <3>2, <3>4, <3>5
  <2> QED
    BY <2>1, <2>2
<1>6. Fresh(o, id)'
  BY <1>3, <1>5 DEF Fresh
<1> QED
  BY <1>1, <1>6

----------------------------------------------------------------------------
(* No accusation                                                            *)

\* A SYN of a peer that runs this code is accepted, or refused for want of room.
LEMMA FairSyn ==
  ASSUME NEW p, NEW o, NEW id, NEW f, Taken(p, o, id, f), Fresh(o, id), "SYN" \in f.flags
  PROVE  SynError(p, f) = <<>> \/ SynError(p, f) = <<internal_error>>
<1>1. /\ p \in Peers /\ o \in Peers /\ o = Other(p) /\ Other(o) = p /\ o # p /\ id \in Ids
      /\ f \in Frames /\ StreamsOK /\ p \in Endpoints /\ Typed(p) /\ Typed(o) /\ Typed(o)'
      /\ LineGives(o, id, f) /\ IsStreamFrame(f) /\ f.id = id /\ f \in Seemly(o, id)
      /\ Body(f) \in Nat
  BY TakenParts
<1>2. ~is_outbound(p, id)
  BY <1>1 DEF Seemly, is_outbound, Peers, Other
<1>3. SynFor(f, id)
  BY <1>1 DEF SynFor
<1>4. Unborn(p, id)
  BY <1>1, <1>2, <1>3, SynArrives DEF Taken
<1>5. id \notin entry[p]
  BY <1>1, <1>4 DEF StreamsOK, StreamOK, Held, Unborn
<1>6. f.tag = "Data"
  <2>1. One(f) \in Seq(Frames) /\ Line(o, id)' \in Seq(Frames)
    BY <1>1, NextLineType, OneType
  <2>2. Within(Cat(One(f), Line(o, id)'), SynData)
    BY <1>1 DEF Fresh, LineGives
  <2>3. Within(One(f), SynData)
    BY <2>1, <2>2, WithinCat
  <2>4. f \in SynData
    BY <1>1, <2>3, SynOne
  <2> QED
    BY <2>4 DEF SynData
<1>7. f.len <= DEFAULT_CREDIT
  <2>1. InFlight(o, id)' + Body(f) = InFlight(o, id)
    BY <1>1, LineAmounts
  <2>2. InFlight(o, id)' \in Nat /\ InFlight(o, id) \in Nat /\ Granted(p, id) \in Nat
    BY <1>1, Amounts, NextAmounts
  <2>3. SendV(o, id) \in Nat
    <3>1. SendV(o, id) \in 0 .. U32_MAX /\ U32_MAX \in Nat
      BY <1>1, ValueTypes, FlowAssumption, TakenParts
    <3> QED
      BY <3>1
  <2>4. SendV(o, id) + InFlight(o, id) + Granted(p, id) <= RecvV(p, id)
    BY <1>1 DEF Taken, Sound, Fair, Owed
  <2>5. RecvV(p, id) = DEFAULT_CREDIT /\ DEFAULT_CREDIT \in Nat
    BY <1>4, FlowAssumption DEF RecvV
  <2>6. Body(f) = f.len
    BY <1>6 DEF Body
  <2>7. Body(f) <= DEFAULT_CREDIT
    BY <1>1, <2>1, <2>2, <2>3, <2>4, <2>5
  <2> QED
    BY <2>6, <2>7
<1>8. DEFAULT_CREDIT \in Nat /\ f.len \in Nat
  BY <1>1, FlowAssumption DEF Frames
<1>9. ~(f.len > DEFAULT_CREDIT)
  BY <1>7, <1>8
<1> QED
  BY <1>1, <1>2, <1>5, <1>6, <1>9 DEF SynError, is_valid_remote_id

\* A data frame is within the window, a window update within the range of u32.
LEMMA FairPlain ==
  ASSUME NEW p, NEW o, NEW id, NEW f, Taken(p, o, id, f), id \in entry[p], NEW a,
         a = Acked(p, f)[f.id]
  PROVE  /\ f.tag = "Data" => can_consume_receive_window(a.fc, f.len)
         /\ f.tag = "WindowUpdate" => can_increase_send_window_by(a.fc, f.len)
<1>1. /\ f \in Frames /\ p \in Endpoints /\ StreamTypes /\ StreamsOK
      /\ IsStreamFrame(f) /\ f.id = id
  BY TakenParts
<1>2. a.fc = shared[p][id].fc
  BY <1>1, AckedOne
<1>3. /\ Body(f) <= shared[p][id].fc.receive_window
      /\ shared[p][id].fc.send_window + Credit(f) <= U32_MAX
  BY NeverRefused
<1> QED
  BY <1>2, <1>3 DEF Body, Credit, can_consume_receive_window, can_increase_send_window_by

\* A frame of a stream is not answered by an accusation.
LEMMA NotAccused ==
  ASSUME NEW p, NEW o, NEW id, NEW f, Taken(p, o, id, f), Fresh(o, id)
  PROVE  pendR'[p] = Nil \/ pendR'[p] = One(internal_error)
<1>1. /\ p \in Peers /\ o \in Peers /\ o = Other(p) /\ id \in Ids /\ IsStreamFrame(f) /\ f.id = id
  BY TakenParts
<1>2. BothOurs /\ Settled /\ on_frame(p) /\ f = Head(wire[Other(p)])
  BY <1>1 DEF Taken
<1>3. pendR[p] = Nil /\ pendR \in [Peers -> Seq(Frames)]
  <2>1. FrameTypes
    BY <1>1, <1>2, SettledParts
  <2> QED
    BY <1>1, <1>2, <2>1, FrameTaken DEF FrameTypes
<1> USE DEF connVars, pendVars, sockVars, tableVars, handleVars, ghostVars
<1>4. CASE OnUnknown(p, f) \/ OnReset(p, f) \/ AcceptSyn(p, f)
  <2>1. pendR' = pendR
    BY <1>4 DEF OnUnknown, OnReset, AcceptSyn
  <2> QED
    BY <1>3, <2>1
<1>5. CASE RejectSyn(p, f)
  <2>1. /\ Terminate(p, f, Head(SynError(p, f))) /\ "SYN" \in f.flags
        /\ SynError(p, f) # <<>>
    BY <1>5 DEF RejectSyn, IsSyn
  <2>2. SynError(p, f) = <<internal_error>>
    BY <2>1, FairSyn
  <2>3. Head(SynError(p, f)) = internal_error
    BY <2>2
  <2>4. Terminate(p, f, internal_error)
    BY <2>1, <2>3
  <2> QED
    BY <1>1, <1>3, <2>4 DEF Terminate, One
<1>6. PICK a : a = Acked(p, f)[f.id]
  OBVIOUS
<1>7. CASE on_data(p, f)
  <2>1. f.tag = "Data" /\ id \in entry[p]
    BY <1>1, <1>7 DEF on_data, IsPlain
  <2>2. can_consume_receive_window(a.fc, f.len)
    BY <1>6, <2>1, FairPlain
  <2>3. pendR' = pendR
    BY <1>6, <1>7, <2>2 DEF on_data
  <2> QED
    BY <1>3, <2>3
<1>8. CASE on_window_update(p, f)
  <2>1. f.tag = "WindowUpdate" /\ id \in entry[p]
    BY <1>1, <1>8 DEF on_window_update, IsPlain
  <2>2. can_increase_send_window_by(a.fc, f.len)
    BY <1>6, <2>1, FairPlain
  <2>3. pendR' = pendR
    BY <1>6, <1>8, <2>2 DEF on_window_update
  <2> QED
    BY <1>3, <2>3
<1>9. CASE on_ping(p, f) \/ handle_pong(p, f)
  BY <1>1, <1>9 DEF on_ping, handle_pong, IsStreamFrame
<1> QED
  BY <1>2, <1>4, <1>5, <1>7, <1>8, <1>9 DEF on_frame

\* The accusations under way.
Blame == {protocol_error}

Clear(p) == Timed(p) /\ Trace(p, Blame) = Nil /\ \A id \in Ids : Fresh(p, id)

\* What this invariant adds to the credit's: pings and pongs are told apart, a
\* SYN comes on a data frame, and no accusation is under way.
ClearInv == CreditInv /\ \A p \in Peers : Clear(p)

\* on_frame does not answer with an accusation.
LEMMA FrameBlameless ==
  ASSUME BothOurs, CreditInv, Settled', NEW p \in Peers, on_frame(p), EndpointStep(p),
         \A q \in Peers : Clear(q), NEW o \in Peers, o = Other(p), NEW f \in Frames,
         f = Head(wire[o])
  PROVE  pendR'[p] # One(protocol_error)
<1>1. Settled /\ Timed(p)
  BY DEF CreditInv, Clear
<1>2. Other(o) = p /\ o # p
  BY <1>1, SettledParts
<1>3. CASE f.tag = "Ping"
  BY <1>1, <1>3, PongTimed
<1>4. CASE IsStreamFrame(f)
  <2>1. PICK id \in Ids : id = f.id
    BY <1>4 DEF Frames, IsStreamFrame
  <2>2. f \in StreamFrames(id)
    BY <1>4, <2>1, OfFrame
  <2>3. Sound(p, id) /\ Sound(o, id)
    BY DEF CreditInv
  <2>4. Taken(p, o, id, f)
    BY <1>1, <1>2, <2>2, <2>3 DEF Taken
  <2>5. Fresh(o, id)
    BY DEF Clear
  <2>6. pendR'[p] = Nil \/ pendR'[p] = One(internal_error)
    BY <2>4, <2>5, NotAccused
  <2>7. 0 \in 0 .. U32_MAX
    BY FlowAssumption
  <2>8. internal_error # protocol_error
    BY <2>7, SignalKinds
  <2>9. One(internal_error) # One(protocol_error)
    BY <2>8 DEF One
  <2>10. Nil # One(protocol_error)
    BY DEF Nil, One
  <2> QED
    BY <2>6, <2>9, <2>10
<1>5. f.tag # "GoAway"
  BY <1>1, FrameTaken
<1> QED
  BY <1>3, <1>4, <1>5 DEF Frames, Tags, IsStreamFrame

\* No step puts an accusation on its way.
LEMMA StepBlameless ==
  ASSUME BothOurs, CreditInv, Settled', NEW p \in Peers, EndpointStep(p),
         \A q \in Peers : Clear(q)
  PROVE  \A q \in Peers : Trace(q, Blame)' = Nil
<1>1. Settled /\ Trace(p, Blame) = Nil /\ Trace(Other(p), Blame) = Nil
  BY OtherPeer DEF CreditInv, Clear
<1>2. PICK o \in Peers : o = Other(p) /\ Other(o) = p /\ o # p
  BY <1>1, SettledParts
<1>3. \A q \in Peers : q = p \/ q = o
  BY <1>2 DEF Peers
<1>4. 0 \in 0 .. U32_MAX
  BY FlowAssumption
<1>5. /\ Signals(Blame) /\ protocol_error \in Frames /\ internal_error \in Frames
      /\ protocol_error.tag = "GoAway" /\ internal_error \notin Blame
  BY <1>4, SignalKinds DEF Blame
<1>6. CASE on_frame(p)
  <2>1. Head(wire[o]) \in Frames /\ Head(wire[o]).tag # "GoAway"
    BY <1>1, <1>2, <1>6, FrameTaken
  <2>2. PICK f \in Frames : f = Head(wire[o]) /\ f.tag # "GoAway"
    BY <2>1
  <2>3. f \notin Blame
    BY <1>5, <2>2 DEF Blame
  <2>4. Trace(o, Blame)' = Trace(o, Blame)
    BY <1>1, <1>2, <1>6, <2>2, <2>3, FrameTraces
  <2>5. pendR'[p] # One(protocol_error)
    BY <1>2, <1>6, <2>2, FrameBlameless
  <2>6. Answer(p, f)
    BY <1>1, <1>2, <1>6, <2>2, FrameAnswers
  <2>7. pendR'[p] = Nil \/ \E g \in Frames : g \notin Blame /\ pendR'[p] = One(g)
    <3>1. f.len \in 0 .. U32_MAX
      BY DEF Frames
    <3>2. pong(f.len) \in Frames /\ pong(f.len) \notin Blame
      BY <3>1, SignalKinds DEF Blame
    <3> QED
      BY <1>5, <2>5, <2>6, <3>2 DEF Answer
  <2>8. Trace(p, Blame)' = Trace(p, Blame)
    BY <1>1, <1>2, <1>6, <2>2, <2>7, FrameTraces
  <2> QED
    BY <1>1, <1>2, <1>3, <2>4, <2>8
<1>7. CASE PollPing(p) /\ ~on_frame(p)
  <2>1. rtt[p].id \in 0 .. U32_MAX
    <3>1. FrameTypes
      BY <1>1, SettledParts
    <3> QED
      BY <3>1 DEF FrameTypes, RttStates
  <2>2. ping(rtt[p].id) \notin Blame
    BY <2>1, SignalKinds DEF Blame
  <2>3. Trace(p, Blame)' = Trace(p, Blame)
    BY <1>1, <1>2, <1>7, <2>2, PingTimed
  <2>4. Trace(o, Blame)' = Trace(o, Blame)
    BY <1>1, <1>2, <1>7, OtherTrace
  <2> QED
    BY <1>1, <1>2, <1>3, <2>3, <2>4
<1>8. CASE ~on_frame(p) /\ ~PollPing(p)
  <2>1. Trace(o, Blame)' = Trace(o, Blame)
    BY <1>1, <1>2, <1>8, OtherTrace
  <2>2. GoesOnAfter(Trace(p, Blame), Trace(p, Blame)')
    BY <1>1, <1>5, <1>8, StepDwindles DEF Dwindles
  <2>3. Trace(p, Blame)' \in Seq(Frames)
    BY NextTraceTypes
  <2>4. PICK r \in Seq(Frames) : Nil = Cat(Trace(p, Blame)', r)
    BY <1>1, <2>2 DEF GoesOnAfter
  <2>5. Trace(p, Blame)' = Nil
    BY <2>3, <2>4, CatOne
  <2> QED
    BY <1>1, <1>2, <1>3, <2>1, <2>5
<1> QED
  BY <1>6, <1>7, <1>8

\* Every step keeps the invariant.
LEMMA ClearStays ==
  ASSUME BothOurs, DEFAULT_CREDIT > 1, ClearInv, [SessionNext]_allVars PROVE ClearInv'
<1>1. CreditInv /\ CreditInv' /\ Settled /\ Settled' /\ \A q \in Peers : Clear(q)
  <2>1. CreditInv /\ \A q \in Peers : Clear(q)
    BY DEF ClearInv
  <2>2. CreditInv'
    BY <2>1, CreditStays
  <2> QED
    BY <2>1, <2>2 DEF CreditInv
<1>2. CASE UNCHANGED allVars
  <2>1. UNCHANGED <<conn, entry, rx, rtt, pendR, pendW, pendQ, wire, shared, chan, handle>>
    BY <1>2 DEF allVars, vars, connVars, pendVars, sockVars, tableVars, handleVars
  <2>2. ASSUME NEW p \in Peers PROVE Clear(p)'
    <3>1. Clear(p)
      BY <1>1
    <3>2. \A q, S : Trace(q, S)' = Trace(q, S)
      BY <2>1 DEF Trace, Outgoing
    <3>3. Timed(p)' = Timed(p)
      BY <2>1, <3>2 DEF Timed, Trail, Lone
    <3>4. ASSUME NEW id \in Ids PROVE Fresh(p, id)' = Fresh(p, id)
      <4>1. Path(p, id)' = Path(p, id) /\ Unsent(p, id)' = Unsent(p, id)
        BY <2>1 DEF Path, Unsent, Queued, Outgoing
      <4>2. Line(p, id)' = Line(p, id)
        BY <4>1 DEF Line
      <4> QED
        BY <2>1, <4>2 DEF Fresh
    <3> QED
      BY <3>1, <3>2, <3>3, <3>4 DEF Clear
  <2> QED
    BY <1>1, <2>2 DEF ClearInv
<1>3. CASE \E p \in Peers : p \in Endpoints /\ EndpointStep(p)
  <2>1. PICK p \in Peers : EndpointStep(p)
    BY <1>3
  <2>2. PICK o \in Peers : o = Other(p)
    BY OtherPeer
  <2>3. \A q \in Peers : q = p \/ q = o
    BY <2>2 DEF Peers, Other
  <2>4. \A q \in Peers : Timed(q)'
    <3>1. \A q \in Peers : Timed(q)
      BY <1>1 DEF Clear
    <3> QED
      BY <1>1, <2>1, <3>1, StepTimed
  <2>5. \A q \in Peers : Trace(q, Blame)' = Nil
    BY <1>1, <2>1, StepBlameless
  <2>6. ASSUME NEW id \in Ids PROVE \A q \in Peers : Fresh(q, id)'
    <3>1. Acts(p, id)
      BY <1>1, <2>1, OtherPeer DEF Acts, CreditInv
    <3>2. Fresh(p, id) /\ Fresh(o, id)
      BY <1>1 DEF Clear
    <3>3. Fresh(p, id)' /\ Fresh(o, id)'
      BY <2>2, <3>1, <3>2, StepFresh
    <3> QED
      BY <2>3, <3>3
  <2> QED
    BY <1>1, <2>4, <2>5, <2>6 DEF ClearInv, Clear
<1> QED
  BY <1>2, <1>3, OneOfUs

\* It holds initially: nothing is under way.
LEMMA InitClear ==
  ASSUME BothOurs, SessionInit PROVE ClearInv
<1>1. CreditInv /\ Settled
  BY InitCredit DEF CreditInv
<1>2. /\ handle = [p \in Peers |-> [id \in Ids |-> NoHandle]]
      /\ wire = [p \in Peers |-> <<>>] /\ pendR = [p \in Peers |-> <<>>]
      /\ pendW = [p \in Peers |-> <<>>] /\ pendQ = [p \in Peers |-> <<>>]
      /\ rtt = [p \in Peers |-> InitRtt(p)]
  BY DEF SessionInit, Init, PerStream
<1>3. NoHandle.life = "none" /\ NoHandle.flag = "None"
  BY DEF NoHandle
<1>4. ASSUME NEW p \in Peers, NEW S PROVE Trace(p, S) = Nil
  <2>1. wire[p] = Nil /\ pendR[p] = Nil /\ pendW[p] = Nil /\ pendQ[p] = Nil
    BY <1>2 DEF Nil
  <2>2. FrameTypes
    BY <1>1, SettledParts
  <2>3. Trace(p, S) = Quad(Nil, Nil, Nil, Nil, S)
    BY <2>1, <2>2, TraceQuad
  <2>4. Only(Nil, S) = Nil
    BY OnlyEmpty DEF Nil
  <2>5. Cat(Nil, Nil) = Nil
    BY NilType, CatNil
  <2> QED
    BY <2>3, <2>4, <2>5 DEF Quad
<1>5. ASSUME NEW p \in Peers PROVE Clear(p)
  <2>1. rtt[p].st # "await"
    BY <1>2 DEF InitRtt
  <2>2. Other(p) \in Peers
    BY OtherPeer
  <2>3. Trail(p) = Nil
    <3>1. Trace(p, Asks) = Nil /\ Trace(Other(p), Replies) = Nil
      BY <1>4, <2>2
    <3>2. Cat(Nil, Nil) = Nil
      BY NilType, CatNil
    <3> QED
      BY <3>1, <3>2 DEF Trail
  <2>4. Timed(p)
    BY <2>1, <2>3 DEF Timed
  <2>5. ASSUME NEW id \in Ids PROVE Fresh(p, id)
    <3>1. handle[p][id].flag = "None" /\ Unborn(p, id)
      BY <1>2, <1>3 DEF Unborn
    <3>2. Line(p, id) = Nil
      BY <1>1, <3>1 DEF CreditInv, Sound, NotYet
    <3>3. Within(Nil, SynData)
      BY SynNil
    <3> QED
      BY <3>1, <3>2, <3>3 DEF Fresh
  <2> QED
    BY <1>4, <2>4, <2>5 DEF Clear
<1> QED
  BY <1>1, <1>5 DEF ClearInv

\* Nothing selected, nothing there.
LEMMA NoneThere ==
  ASSUME NEW s \in Seq(Frames), NEW S, Only(s, S) = Nil, NEW i \in DOMAIN s
  PROVE  s[i] \notin S
<1>1. PICK n \in Nat : n = Len(s)
  OBVIOUS
<1>2. i \in 1 .. n /\ i - 1 \in 0 .. n /\ i \in 0 .. n /\ s[i] \in Frames
  BY <1>1
<1>3. i \in 0 .. Len(s)
  BY <1>1, <1>2
<1>4. PICK a : a = SubSeq(s, 1, i)
  OBVIOUS
<1>5. a \in Seq(Frames) /\ \E r \in Seq(Frames) : s = Cat(a, r)
  BY <1>3, <1>4, CatPrefix
<1>6. PICK r \in Seq(Frames) : s = Cat(a, r)
  BY <1>5
<1>7. Only(s, S) = Cat(Only(a, S), Only(r, S))
  BY <1>5, <1>6, OnlyCat
<1>8. Only(a, S) \in Seq(Frames) /\ Only(r, S) \in Seq(Frames)
  BY <1>5, OnlyFrames
<1>9. Only(a, S) = Nil
  BY <1>7, <1>8, CatOne
<1>10. PICK b : b = SubSeq(s, 1, i - 1)
  OBVIOUS
<1>11. b \in Seq(Frames)
  BY <1>1, <1>2, <1>10, CatPrefix
<1>12. a = Append(b, s[i])
  BY <1>1, <1>2, <1>4, <1>10
<1>13. s[i] \in S => Only(a, S) = Append(Only(b, S), s[i])
  BY <1>2, <1>11, <1>12, OnlyAppend
<1>14. Only(b, S) \in Seq(Frames)
  BY <1>11, OnlyFrames
<1>15. Append(Only(b, S), s[i]) # <<>>
  BY <1>2, <1>14
<1> QED
  BY <1>9, <1>13, <1>15 DEF Nil

\* No accusation under way.
LEMMA ClearThen ==
  ASSUME BothOurs, ClearInv PROVE NoProtocolError
<1> SUFFICES ASSUME NEW p \in Peers PROVE protocol_error \notin ToSet(Outgoing(p))
  BY DEF NoProtocolError
<1>1. Settled /\ Trace(p, Blame) = Nil
  BY DEF ClearInv, CreditInv, Clear
<1>2. FrameTypes
  BY <1>1, SettledParts
<1>3. Outgoing(p) \in Seq(Frames)
  BY <1>2 DEF FrameTypes, Outgoing
<1>4. PICK s \in Seq(Frames) : s = Outgoing(p)
  BY <1>3
<1>5. Only(s, Blame) = Nil
  BY <1>1, <1>4 DEF Trace
<1>6. \A i \in DOMAIN s : s[i] # protocol_error
  BY <1>5, NoneThere DEF Blame
<1> QED
  BY <1>4, <1>6 DEF ToSet

\* Two endpoints that run this code never accuse each other of a protocol error,
\* whatever their applications do, however their frames, resets, closes and
\* pings cross, for any number of streams, any windows and any channel and
\* socket.  DEFAULT_CREDIT is 256 KiB in the code; with a credit of 1 a window
\* update would be due before the first byte, and could carry the SYN.
THEOREM NoFalseAccusation ==
  ASSUME BothOurs, DEFAULT_CREDIT > 1 PROVE Spec => []NoProtocolError
<1>1. SessionInit => ClearInv
  BY InitClear
<1>2. ClearInv /\ [SessionNext]_allVars => ClearInv'
  BY ClearStays
<1>3. ClearInv => NoProtocolError
  BY ClearThen
<1> QED
  BY <1>1, <1>2, <1>3, PTL DEF Spec

----------------------------------------------------------------------------
(* Bytes in a row                                                           *)

\* The body of one more frame follows on.
LEMMA ContiguousStep ==
  ASSUME NEW s \in Seq(Frames), NEW g \in Frames, NEW f \in Frames, NEW a \in Nat
  PROVE  /\ Contiguous(<<>>, a)
         /\ Contiguous(Append(<<>>, f), a) <=> f.pos = a
         /\ Contiguous(Append(Append(s, g), f), a) <=>
              Contiguous(Append(s, g), a) /\ f.pos = g.pos + g.len
<1>1. Contiguous(<<>>, a)
  BY DEF Contiguous
<1>2. Contiguous(Append(<<>>, f), a) <=> f.pos = a
  <2>0. Append(<<>>, f) \in Seq(Frames)
    <3>1. <<>> \in Seq(Frames)
      OBVIOUS
    <3> QED
      BY <3>1
  <2>1. PICK t \in Seq(Frames) : t = Append(<<>>, f)
    BY <2>0
  <2>2. DOMAIN t = {1} /\ t[1] = f
    BY <2>1
  <2> QED
    BY <2>1, <2>2 DEF Contiguous
<1>3. PICK n \in Nat : n = Len(s)
  OBVIOUS
<1>4. Append(s, g) \in Seq(Frames) /\ Append(Append(s, g), f) \in Seq(Frames)
  OBVIOUS
<1>5. PICK t \in Seq(Frames), u \in Seq(Frames) : t = Append(s, g) /\ u = Append(Append(s, g), f)
  BY <1>4
<1>6. /\ DOMAIN t = 1 .. n + 1 /\ DOMAIN u = 1 .. n + 2 /\ t[n + 1] = g /\ u[n + 2] = f
      /\ \A i \in 1 .. n + 1 : u[i] = t[i]
  BY <1>3, <1>5
<1>7. ASSUME Contiguous(u, a) PROVE Contiguous(t, a) /\ f.pos = g.pos + g.len
  <2>1. ASSUME NEW i \in 1 .. n + 1
        PROVE  t[i].pos = IF i = 1 THEN a ELSE t[i-1].pos + t[i-1].len
    <3>0. i \in DOMAIN u
      BY <1>6
    <3>1. u[i].pos = IF i = 1 THEN a ELSE u[i-1].pos + u[i-1].len
      BY <1>7, <3>0 DEF Contiguous
    <3>2. u[i] = t[i]
      BY <1>6
    <3>3. CASE i = 1
      BY <3>1, <3>2, <3>3
    <3>4. CASE i # 1
      <4>1. i - 1 \in 1 .. n + 1
        BY <3>4
      <4>2. u[i-1] = t[i-1]
        BY <1>6, <4>1
      <4> QED
        BY <3>1, <3>2, <3>4, <4>2
    <3> QED
      BY <3>3, <3>4
  <2>2. u[n + 2].pos = u[n + 1].pos + u[n + 1].len
    <3>1. n + 2 \in DOMAIN u /\ n + 2 # 1 /\ (n + 2) - 1 = n + 1
      BY <1>6
    <3> QED
      BY <1>7, <3>1 DEF Contiguous
  <2>3. u[n + 1] = g
    BY <1>6
  <2> QED
    BY <1>6, <2>1, <2>2, <2>3 DEF Contiguous
<1>8. ASSUME Contiguous(t, a), f.pos = g.pos + g.len PROVE Contiguous(u, a)
  <2>1. ASSUME NEW i \in 1 .. n + 2
        PROVE  u[i].pos = IF i = 1 THEN a ELSE u[i-1].pos + u[i-1].len
    <3>1. CASE i = n + 2
      <4>1. i # 1 /\ i - 1 = n + 1 /\ u[n + 1] = g /\ u[i] = f
        BY <1>6, <3>1
      <4> QED
        BY <1>8, <4>1
    <3>2. CASE i # n + 2
      <4>1. i \in 1 .. n + 1 /\ u[i] = t[i] /\ (i # 1 => u[i-1] = t[i-1])
        BY <1>6, <3>2
      <4>2. t[i].pos = IF i = 1 THEN a ELSE t[i-1].pos + t[i-1].len
        BY <1>6, <1>8, <4>1 DEF Contiguous
      <4> QED
        BY <4>1, <4>2
    <3> QED
      BY <3>1, <3>2
  <2> QED
    BY <1>6, <2>1 DEF Contiguous
<1> QED
  BY <1>1, <1>2, <1>5, <1>7, <1>8

\* It follows on at the sum of the bodies before it.
LEMMA ContiguousAppend ==
  ASSUME NEW s \in Seq(Frames), NEW f \in Frames, NEW a \in Nat
  PROVE  Contiguous(Append(s, f), a) <=> Contiguous(s, a) /\ f.pos = a + Total(s)
<1> DEFINE P == {u \in Seq(Frames) : \A g \in Frames :
                   Contiguous(Append(u, g), a) <=> Contiguous(u, a) /\ g.pos = a + Total(u)}
<1>1. <<>> \in P
  <2>1. <<>> \in Seq(Frames) /\ Total(<<>>) = 0
    BY TotalAppend
  <2>2. ASSUME NEW g \in Frames
        PROVE  Contiguous(Append(<<>>, g), a) <=> Contiguous(<<>>, a) /\ g.pos = a + Total(<<>>)
    <3>1. Contiguous(<<>>, a) /\ (Contiguous(Append(<<>>, g), a) <=> g.pos = a)
      BY ContiguousStep
    <3> QED
      BY <2>1, <3>1
  <2> QED
    BY <2>1, <2>2
<1>2. ASSUME NEW u \in P, NEW x \in Frames PROVE Append(u, x) \in P
  <2>1. u \in Seq(Frames) /\ Append(u, x) \in Seq(Frames) /\ x.pos \in Nat /\ x.len \in Nat
    BY DEF Frames
  <2>2. Total(Append(u, x)) = Total(u) + x.len /\ Total(u) \in Nat
    BY <2>1, TotalAppend
  <2>3. Contiguous(Append(u, x), a) <=> Contiguous(u, a) /\ x.pos = a + Total(u)
    OBVIOUS
  <2>4. ASSUME NEW g \in Frames
        PROVE  Contiguous(Append(Append(u, x), g), a) <=>
                 Contiguous(Append(u, x), a) /\ g.pos = a + Total(Append(u, x))
    <3>1. Contiguous(Append(Append(u, x), g), a) <=>
            Contiguous(Append(u, x), a) /\ g.pos = x.pos + x.len
      BY <2>1, ContiguousStep
    <3>2. Contiguous(Append(u, x), a) => x.pos + x.len = a + Total(Append(u, x))
      BY <2>1, <2>2, <2>3
    <3> QED
      BY <3>1, <3>2
  <2> QED
    BY <2>1, <2>4
<1> HIDE DEF P
<1>3. P \in SUBSET Seq(Frames)
  BY DEF P
<1>4. s \in P
  BY <1>1, <1>2, <1>3, SeqInduct
<1> QED
  BY <1>4 DEF P

\* Two sequences in a row.
LEMMA ContiguousCat ==
  ASSUME NEW s \in Seq(Frames), NEW t \in Seq(Frames), NEW a \in Nat
  PROVE  Contiguous(Cat(s, t), a) <=> Contiguous(s, a) /\ Contiguous(t, a + Total(s))
<1> DEFINE P == {u \in Seq(Frames) :
                   Contiguous(Cat(s, u), a) <=> Contiguous(s, a) /\ Contiguous(u, a + Total(s))}
<1>0. Total(s) \in Nat /\ a + Total(s) \in Nat
  <2>1. term \in Frames
    BY FrameOfConnection, FlowAssumption
  <2> QED
    BY <2>1, TotalAppend
<1>1. <<>> \in P
  <2>1. Cat(s, <<>>) = s /\ <<>> \in Seq(Frames)
    BY CatNil DEF Nil
  <2>2. Contiguous(<<>>, a + Total(s))
    BY DEF Contiguous
  <2> QED
    BY <2>1, <2>2
<1>2. ASSUME NEW u \in P, NEW x \in Frames PROVE Append(u, x) \in P
  <2>1. u \in Seq(Frames) /\ Append(u, x) \in Seq(Frames) /\ Cat(s, u) \in Seq(Frames)
    BY CatType
  <2>2. Cat(s, Append(u, x)) = Append(Cat(s, u), x)
    BY <2>1 DEF Cat
  <2>3. Contiguous(Append(Cat(s, u), x), a) <=>
          Contiguous(Cat(s, u), a) /\ x.pos = a + Total(Cat(s, u))
    BY <2>1, ContiguousAppend
  <2>4. Contiguous(Append(u, x), a + Total(s)) <=>
          Contiguous(u, a + Total(s)) /\ x.pos = (a + Total(s)) + Total(u)
    BY <1>0, <2>1, ContiguousAppend
  <2>5. Total(Cat(s, u)) = Total(s) + Total(u)
    BY <2>1, TotalConcat DEF Cat
  <2>6. Total(u) \in Nat
    BY <2>1, TotalAppend
  <2>7. a + Total(Cat(s, u)) = (a + Total(s)) + Total(u)
    BY <1>0, <2>5, <2>6
  <2>8. Contiguous(Cat(s, u), a) <=> Contiguous(s, a) /\ Contiguous(u, a + Total(s))
    OBVIOUS
  <2> QED
    BY <2>1, <2>2, <2>3, <2>4, <2>7, <2>8
<1> HIDE DEF P
<1>3. P \in SUBSET Seq(Frames)
  BY DEF P
<1>4. t \in P
  BY <1>1, <1>2, <1>3, SeqInduct
<1> QED
  BY <1>4 DEF P

\* The bodies among the frames of s follow each other from position a.
Run(s, a) == Contiguous(Only(s, BodyFrames), a)
Load(s)   == Weight(s, BodyFrames)

\* Two sequences of frames in a row, one frame, none.
LEMMA RunCat ==
  ASSUME NEW s \in Seq(Frames), NEW t \in Seq(Frames), NEW a \in Nat
  PROVE  /\ Run(Cat(s, t), a) <=> Run(s, a) /\ Run(t, a + Load(s))
         /\ Load(Cat(s, t)) = Load(s) + Load(t) /\ Load(s) \in Nat /\ Load(t) \in Nat
<1>1. Only(s, BodyFrames) \in Seq(Frames) /\ Only(t, BodyFrames) \in Seq(Frames)
  BY OnlyFrames
<1>2. Only(Cat(s, t), BodyFrames) = Cat(Only(s, BodyFrames), Only(t, BodyFrames))
  BY OnlyCat
<1>3. Run(Cat(s, t), a) <=> Run(s, a) /\ Run(t, a + Load(s))
  BY <1>1, <1>2, ContiguousCat DEF Run, Load, Weight
<1> QED
  BY <1>3, WeightCat DEF Load

\* One frame.
LEMMA RunOne ==
  ASSUME NEW f \in Frames, NEW a \in Nat
  PROVE  /\ Run(One(f), a) <=> (Body(f) > 0 => f.pos = a)
         /\ Load(One(f)) = Body(f) /\ Body(f) \in Nat
<1>1. Load(One(f)) = Body(f) /\ Body(f) \in Nat
  BY FrameAmounts DEF Load
<1>2. f \in BodyFrames <=> Body(f) > 0
  BY FramesInSet DEF BodyFrames, Body, Frames
<1>3. CASE f \in BodyFrames
  <2>1. Only(One(f), BodyFrames) = One(f)
    BY <1>3, OnlyOne
  <2>2. One(f) = Append(<<>>, f) /\ <<>> \in Seq(Frames)
    BY DEF One
  <2>3. Contiguous(Append(<<>>, f), a) <=> f.pos = a
    BY <2>2, ContiguousStep
  <2> QED
    BY <1>1, <1>2, <1>3, <2>1, <2>2, <2>3 DEF Run
<1>4. CASE f \notin BodyFrames
  <2>1. Only(One(f), BodyFrames) = <<>>
    BY <1>4, OnlyOne DEF Nil
  <2>2. Contiguous(<<>>, a)
    BY DEF Contiguous
  <2> QED
    BY <1>1, <1>2, <1>4, <2>1, <2>2 DEF Run
<1> QED
  BY <1>3, <1>4

\* No frame.
LEMMA RunNil ==
  ASSUME NEW a PROVE Run(Nil, a) /\ Load(Nil) = 0
<1>1. Only(Nil, BodyFrames) = <<>>
  BY OnlyEmpty DEF Nil
<1>2. Contiguous(<<>>, a)
  BY DEF Contiguous
<1> QED
  BY <1>1, <1>2, WeightEmpty DEF Run, Load

----------------------------------------------------------------------------
(* What one step does to one stream of the endpoint that takes it           *)

\* Nothing: the stream's frames may move, but stay in their order.
Sits(p, id) ==
  /\ SameStream(p, id) /\ written'[p][id] = written[p][id] /\ Path(p, id)' = Path(p, id)
  /\ conn'[p] = conn[p] /\ (Whole(p) \/ wire'[p] = wire[p])

\* A frame of the stream arrives.
Arrives(p, id) == on_frame(p) /\ Head(wire[Other(p)]) \in StreamFrames(id)

Touches(p, id) ==
  \/ Sits(p, id) \/ Ending(p) \/ Arrives(p, id)
  \/ poll_new_outbound(p) /\ id = nextId[p]
  \/ on_drop_stream(p, id) \/ HandleAction(p, id)

\* Only operations of a handle and arriving frames count bytes.
LEMMA CountsKept ==
  ASSUME NEW p \in Endpoints,
         \/ Sending(p) \/ Ending(p) \/ poll_new_outbound(p)
         \/ \E j \in Ids : on_drop_stream(p, j)
  PROVE  written' = written /\ rcvd' = rcvd
<1> USE DEF connVars, pendVars, sockVars, tableVars, handleVars, ghostVars
<1>1. CASE Sending(p)
  BY <1>1 DEF Sending, PollPing, PollSend, PingInterval, OpenWait, PollCommand, DrainCommand,
     FlushFrame
<1>2. CASE Ending(p)
  BY <1>2 DEF Ending, PollFail, OpenFail, cleanup, connection_close, connection_drop,
     CloseAllReceivers, DrainDone, CloseSocket, ClosingError, CleanupDrain, FlushFrame
<1>3. CASE poll_new_outbound(p)
  BY <1>3 DEF poll_new_outbound
<1>4. CASE \E j \in Ids : on_drop_stream(p, j)
  BY <1>4 DEF on_drop_stream
<1> QED
  BY <1>1, <1>2, <1>3, <1>4

\* The connection that sends is whole.
LEMMA SendingWhole ==
  ASSUME NEW p \in Endpoints, Sending(p) PROVE Whole(p)
BY DEF Sending, PollPing, PollSend, PingInterval, OpenWait, PollCommand, DrainCommand,
   FlushFrame, MayOpen, Active, Whole, ClosingStates

\* The kinds of steps, as one stream of the endpoint sees them.
LEMMA StepTouches ==
  ASSUME BothOurs, Settled, Settled', NEW p \in Peers, EndpointStep(p), NEW id \in Ids
  PROVE  Touches(p, id)
<1>1. /\ p \in Endpoints /\ StreamTypes /\ StreamsOK /\ Typed(p) /\ Typed(p)' /\ FrameTypes
      /\ GhostTypes /\ Orderly(p) /\ Orderly(p)' /\ Slots(p)
  BY SettledParts, NextSettledParts
<1>2. CASE Sending(p)
  <2>1. SameStream(p, id) /\ conn'[p] = conn[p] /\ written'[p][id] = written[p][id]
    BY <1>1, <1>2, SendingSteady, CountsKept DEF Steady, SameStream
  <2>2. Path(p, id)' = Path(p, id) /\ Whole(p)
    BY <1>1, <1>2, SendingPath, SendingWhole
  <2> QED
    BY <2>1, <2>2 DEF Touches, Sits
<1>3. CASE Ending(p)
  BY <1>3 DEF Touches
<1>4. CASE on_frame(p)
  <2>1. CASE Head(wire[Other(p)]) \in StreamFrames(id)
    BY <1>4, <2>1 DEF Touches, Arrives
  <2>2. CASE Head(wire[Other(p)]) \notin StreamFrames(id)
    <3>1. /\ Head(wire[Other(p)]) \in Frames /\ wire'[p] = wire[p] /\ conn' = conn
      BY <1>4, FrameTaken
    <3>2. SameStream(p, id)
      BY <1>4, <2>2, <3>1, FrameCases
    <3>3. Path(p, id)' = Path(p, id) /\ written' = written
      BY <1>1, <1>4, FrameLine, OnFrameSlots
    <3> QED
      BY <3>1, <3>2, <3>3 DEF Touches, Sits
  <2> QED
    BY <2>1, <2>2
<1>5. CASE poll_new_outbound(p)
  <2>1. CASE id = nextId[p]
    BY <1>5, <2>1 DEF Touches
  <2>2. CASE id # nextId[p]
    <3>1. SameStream(p, id) /\ UNCHANGED <<conn, wire, written>>
      BY <1>5, <2>2, OpenMoves DEF SameStream
    <3>2. Path(p, id)' = Path(p, id)
      BY <1>5, OpenLine
    <3> QED
      BY <3>1, <3>2 DEF Touches, Sits
  <2> QED
    BY <2>1, <2>2
<1>6. ASSUME NEW j \in Ids, on_drop_stream(p, j) PROVE Touches(p, id)
  <2>1. CASE id = j
    BY <1>6, <2>1 DEF Touches
  <2>2. CASE id # j
    <3>1. SameStream(p, id) /\ Path(p, id)' = Path(p, id) /\ conn' = conn
      BY <1>6, <2>2, DropMoves
    <3>2. wire' = wire /\ written' = written
      BY <1>6 DEF on_drop_stream, sockVars, ghostVars
    <3> QED
      BY <3>1, <3>2 DEF Touches, Sits
  <2> QED
    BY <2>1, <2>2
<1>7. ASSUME NEW j \in Ids, HandleAction(p, j) PROVE Touches(p, id)
  <2>1. CASE id = j
    BY <1>7, <2>1 DEF Touches
  <2>2. CASE id # j
    <3>1. ElseKept(p, j)
      BY <1>1, <1>7, HandleMoves
    <3>2. SameStream(p, id) /\ conn'[p] = conn[p] /\ wire'[p] = wire[p]
          /\ written'[p][id] = written[p][id]
      BY <2>2, <3>1 DEF ElseKept, SameStream
    <3>3. Path(p, id)' = Path(p, id)
      BY <2>2, <3>1, OtherLines
    <3> QED
      BY <3>2, <3>3 DEF Touches, Sits
  <2> QED
    BY <2>1, <2>2
<1> QED
  BY <1>1, <1>2, <1>3, <1>4, <1>5, <1>6, <1>7, EndpointActions

----------------------------------------------------------------------------
(* The frame of an operation under way, and the streams nobody has          *)

Dated(p, id) ==
  LET op == handle[p][id].op
  IN  /\ op.kind = "write" => op.frame.tag = "Data" /\ op.frame.pos = written[p][id]
      /\ op.kind = "read" => op.frame.tag = "WindowUpdate"
      /\ Unborn(p, id) => written[p][id] = 0 /\ rcvd[p][id] = 0

\* The frame of a write begins where the bytes before it end, and streams that
\* nobody has carry none.
LEMMA DatedStays ==
  ASSUME BothOurs, Settled, Settled', NEW p \in Peers, EndpointStep(p), NEW id \in Ids,
         Dated(p, id)
  PROVE  Dated(p, id)'
<1>1. /\ p \in Endpoints /\ StreamTypes /\ StreamsOK /\ Typed(p) /\ Typed(p)' /\ FrameTypes
      /\ GhostTypes /\ handle[p][id] \in Handles /\ Slots(p)
  BY SettledParts, NextSettledParts
<1>2. Unborn(p, id)' => Unborn(p, id)
  BY LifeStays
<1>3. Touches(p, id)
  BY StepTouches
<1>4. ASSUME handle'[p][id] = handle[p][id], written'[p][id] = written[p][id],
             rcvd'[p][id] = rcvd[p][id] \/ ~Unborn(p, id)
      PROVE  Dated(p, id)'
  BY <1>2, <1>4 DEF Dated, Unborn
<1>5. ASSUME handle'[p][id].life = "live", handle'[p][id].op.kind \notin FrameOps
      PROVE  Dated(p, id)'
  BY <1>5 DEF Dated, Unborn, FrameOps
<1>6. CASE Sits(p, id)
  BY <1>4, <1>6 DEF Sits, SameStream
<1>7. CASE Ending(p)
  <2>1. Fades(p, id) /\ written' = written /\ rcvd' = rcvd
    BY <1>1, <1>7, EndingFades, CountsKept
  <2> QED
    BY <1>4, <2>1 DEF Fades
<1>8. CASE Arrives(p, id)
  <2>1. on_frame(p) /\ Head(wire[Other(p)]) \in Frames
    BY <1>8, FrameTaken DEF Arrives
  <2>2. FrameStep(p, id, Head(wire[Other(p)])) /\ written' = written
    BY <1>1, <1>8, <2>1, FrameCases, OnFrameSlots DEF Arrives
  <2>3. CASE handle'[p][id] = NewHandle("Ack")
    <3>1. handle'[p][id].life = "live" /\ handle'[p][id].op.kind = "idle"
      BY <2>3 DEF NewHandle, NoHandle, Idle
    <3> QED
      BY <1>5, <3>1 DEF FrameOps
  <2>4. id \in entry[p] => ~Unborn(p, id)
    BY <1>1, HeldValues
  <2>5. CASE handle'[p][id] # NewHandle("Ack")
    <3>1. handle'[p][id] = handle[p][id] /\ (rcvd'[p][id] = rcvd[p][id] \/ id \in entry[p])
      BY <2>2, <2>5 DEF FrameStep, FrameUnknown, FrameReset, FrameReject, FrameAccept, FramePlain,
           Booked, Refused, Fades, SameStream
    <3> QED
      BY <1>4, <2>2, <2>4, <3>1
  <2> QED
    BY <2>3, <2>5
<1>9. CASE poll_new_outbound(p) /\ id = nextId[p]
  <2>1. handle'[p][id] = NewHandle("Syn")
    BY <1>9, OpenMoves
  <2>2. handle'[p][id].life = "live" /\ handle'[p][id].op.kind = "idle"
    BY <2>1 DEF NewHandle, NoHandle, Idle
  <2> QED
    BY <1>5, <2>2 DEF FrameOps
<1>10. CASE on_drop_stream(p, id)
  <2>1. Fades(p, id) /\ written' = written /\ rcvd' = rcvd
    BY <1>1, <1>10, DropMoves, CountsKept
  <2> QED
    BY <1>4, <2>1 DEF Fades
<1>11. CASE HandleAction(p, id)
  <2>1. HandleMove(p, id)
    BY <1>1, <1>11, HandleMoves
  <2>2. ASSUME NEW f, OpWrite(p, id, f) \/ OpGrant(p, id, f), OpSilent(p, id)
        PROVE  Dated(p, id)'
    <3>1. CASE OpWrite(p, id, f)
      BY <2>2, <3>1 DEF OpWrite, Starts, Dated, OpSilent, Unborn
    <3>2. CASE OpGrant(p, id, f)
      BY <2>2, <3>2 DEF OpGrant, Starts, Dated, OpSilent, Unborn
    <3> QED
      BY <2>2, <3>1, <3>2
  <2>3. ASSUME OpSend(p, id) PROVE Dated(p, id)'
    <3>1. handle'[p][id].life = "live" /\ handle'[p][id].op = Idle
      BY <1>1, <2>3 DEF OpSend, Handles
    <3> QED
      BY <1>5, <3>1 DEF Idle, FrameOps
  <2>4. ASSUME NEW f, OpClose(p, id, f) PROVE Dated(p, id)'
    BY <1>5, <2>4 DEF OpClose, FrameOps
  <2>5. ASSUME OpRest(p, id), OpSilent(p, id) PROVE Dated(p, id)'
    <3>1. handle'[p][id].life = "live"
      BY <2>5 DEF OpRest
    <3>2. handle'[p][id].op.kind \notin FrameOps
      BY <2>5 DEF OpRest, FrameOps
    <3> QED
      BY <1>5, <3>1, <3>2
  <2>6. ASSUME OpDrop(p, id) PROVE Dated(p, id)'
    BY <2>6 DEF OpDrop, Dated, Unborn
  <2> QED
    BY <2>1, <2>2, <2>3, <2>4, <2>5, <2>6 DEF HandleMove
<1> QED
  BY <1>3, <1>6, <1>7, <1>8, <1>9, <1>10, <1>11 DEF Touches

----------------------------------------------------------------------------
(* The frame that ends a session                                            *)

Unended == {f \in Frames : f # term}

\* Nothing comes after the terminating frame.
LastOnly(s) == \A a, r \in Seq(Frames) : s = Cat(Cat(a, One(term)), r) => r = Nil

EndsTerm(s) == \E a \in Seq(Frames) : s = Cat(a, One(term))

Leaving(p) == Cat(wire[p], pendQ[p])

\* The terminating frame is the last that Closing sends, when the receivers of
\* the commands are closed and empty.
Termed(p) ==
  /\ LastOnly(Leaving(p))
  /\ conn[p] \notin {"Flushing", "ClosingSocket", "Closed"} => Within(Leaving(p), Unended)
  /\ Within(pendR[p], Unended) /\ Within(pendW[p], Unended)
  /\ conn[p] \in {"Flushing", "ClosingSocket"} => \A id \in Ids : chan[p][id] = Nil
  /\ conn[p] \notin {"Active", "ClosingReceivers", "CleanupReceivers"} =>
       \A id \in Ids : rx[p][id] # "open"

\* A frame of the model.
LEMMA TermFrame == term \in Frames /\ One(term) \in Seq(Frames) /\ ~IsStreamFrame(term)
<1>1. 0 \in 0 .. U32_MAX
  BY FlowAssumption
<1>2. term \in Frames
  BY <1>1, FrameOfConnection
<1>3. ~IsStreamFrame(term)
  BY DEF term, Header, IsStreamFrame
<1> QED
  BY <1>2, <1>3, OneType

\* Where it is not, nothing comes after it.
LEMMA UnendedLast ==
  ASSUME NEW s \in Seq(Frames), Within(s, Unended)
  PROVE  LastOnly(s) /\ ~EndsTerm(s) /\ LastOnly(Append(s, term))
<1>0. term \in Frames /\ One(term) \in Seq(Frames) /\ term \notin Unended
  BY TermFrame DEF Unended
<1>1. ASSUME NEW a \in Seq(Frames), NEW r \in Seq(Frames), s = Cat(Cat(a, One(term)), r)
      PROVE  FALSE
  <2>1. Cat(a, One(term)) \in Seq(Frames)
    BY <1>0, CatType
  <2>2. Within(Cat(a, One(term)), Unended)
    BY <1>1, <2>1, WithinCat
  <2>3. Within(One(term), Unended)
    BY <1>0, <2>2, WithinCat
  <2> QED
    BY <1>0, <2>3, SynOne
<1>2. ASSUME NEW a \in Seq(Frames), s = Cat(a, One(term)) PROVE FALSE
  <2>1. Cat(a, One(term)) \in Seq(Frames)
    BY <1>0, CatType
  <2>2. s = Cat(Cat(a, One(term)), Nil)
    BY <1>2, <2>1, CatNil
  <2> QED
    BY <1>1, <2>2, NilType
<1>3. ASSUME NEW a \in Seq(Frames), NEW r \in Seq(Frames),
             Append(s, term) = Cat(Cat(a, One(term)), r), r # Nil
      PROVE  FALSE
  <2>1. PICK m \in Nat, n \in Nat, k \in Nat : m = Len(a) /\ n = Len(r) /\ k = Len(s)
    OBVIOUS
  <2>2. Cat(a, One(term)) \in Seq(Frames)
    BY <1>0, CatType
  <2>3. PICK b \in Seq(Frames) : b = Cat(a, One(term))
    BY <2>2
  <2>4. Len(b) = m + 1 /\ b[m + 1] = term
    BY <1>0, <2>1, <2>3 DEF Cat, One
  <2>5. n > 0
    BY <1>3, <2>1 DEF Nil
  <2>6. PICK u \in Seq(Frames) : u = Append(s, term)
    BY <1>0, CatAppend
  <2>7. u = Cat(b, r)
    BY <1>3, <2>3, <2>6
  <2>8. Len(u) = k + 1 /\ \A i \in 1 .. k : u[i] = s[i]
    BY <1>0, <2>1, <2>6
  <2>9. Len(u) = m + 1 + n /\ u[m + 1] = b[m + 1]
    <3>1. Len(Cat(b, r)) = Len(b) + Len(r)
      BY DEF Cat
    <3>2. m + 1 \in 1 .. Len(b)
      BY <2>1, <2>4
    <3>3. Cat(b, r)[m + 1] = b[m + 1]
      BY <3>2, CatElements
    <3> QED
      BY <2>1, <2>4, <2>7, <3>1, <3>3
  <2>10. m + 1 \in 1 .. k
    BY <2>1, <2>5, <2>8, <2>9
  <2>11. s[m + 1] = term /\ m + 1 \in DOMAIN s
    BY <2>1, <2>4, <2>8, <2>9, <2>10
  <2> QED
    BY <1>0, <2>11 DEF Within
<1> QED
  BY <1>1, <1>2, <1>3 DEF LastOnly, EndsTerm

\* Parts of a sequence with the frame at its end.
LEMMA LastPart ==
  ASSUME NEW s \in Seq(Frames), NEW t \in Seq(Frames), LastOnly(Cat(s, t))
  PROVE  LastOnly(s) /\ LastOnly(t) /\ (EndsTerm(s) => t = Nil)
<1>0. term \in Frames /\ One(term) \in Seq(Frames)
  BY TermFrame
<1>1. ASSUME NEW a \in Seq(Frames), NEW r \in Seq(Frames), s = Cat(Cat(a, One(term)), r)
      PROVE  r = Nil
  <2>1. Cat(a, One(term)) \in Seq(Frames) /\ Cat(r, t) \in Seq(Frames)
    BY <1>0, CatType
  <2>2. Cat(s, t) = Cat(Cat(a, One(term)), Cat(r, t))
    BY <1>1, <2>1, CatAssoc
  <2>3. Cat(r, t) = Nil
    BY <2>1, <2>2 DEF LastOnly
  <2> QED
    BY <2>3, CatOne
<1>2. ASSUME NEW a \in Seq(Frames), NEW r \in Seq(Frames), t = Cat(Cat(a, One(term)), r)
      PROVE  r = Nil
  <2>1. Cat(a, One(term)) \in Seq(Frames) /\ Cat(s, a) \in Seq(Frames)
    BY <1>0, CatType
  <2>2. Cat(s, t) = Cat(Cat(s, Cat(a, One(term))), r)
    BY <1>2, <2>1, CatAssoc
  <2>3. Cat(s, Cat(a, One(term))) = Cat(Cat(s, a), One(term))
    BY <1>0, CatAssoc
  <2> QED
    BY <2>1, <2>2, <2>3 DEF LastOnly
<1>3. ASSUME NEW a \in Seq(Frames), s = Cat(a, One(term)) PROVE t = Nil
  BY <1>3 DEF LastOnly
<1> QED
  BY <1>1, <1>2, <1>3 DEF LastOnly, EndsTerm

\* Frames that are not the terminating one.
LEMMA UnendedFrames ==
  /\ \A id \in Ids : \A f \in Cmds(id) : f \in Unended
  /\ \A n \in 0 .. U32_MAX : ping(n) \in Unended /\ pong(n) \in Unended
  /\ protocol_error \in Unended /\ internal_error \in Unended
  /\ \A id \in Ids, ack \in BOOLEAN : close_stream(id, ack) \in Unended
  /\ \A id \in Ids : reset_stream(id) \in Unended
<1>0. ~IsStreamFrame(term)
  BY TermFrame
<1>1. \A id \in Ids : \A f \in Cmds(id) : f \in Unended
  BY <1>0 DEF Cmds, Unended
<1>2. ASSUME NEW n \in 0 .. U32_MAX PROVE ping(n) \in Unended /\ pong(n) \in Unended
  <2>1. ping(n) \in Frames /\ pong(n) \in Frames
    BY SignalKinds
  <2>2. ping(n).tag = "Ping" /\ pong(n).tag = "Ping" /\ term.tag = "GoAway"
    BY DEF ping, pong, term, Header
  <2> QED
    BY <2>1, <2>2 DEF Unended
<1>3. protocol_error \in Unended /\ internal_error \in Unended
  <2>1. 0 \in 0 .. U32_MAX
    BY FlowAssumption
  <2>2. protocol_error \in Frames /\ internal_error \in Frames
    BY <2>1, SignalKinds
  <2>3. protocol_error.len = 1 /\ internal_error.len = 2 /\ term.len = 0
    BY DEF protocol_error, internal_error, term, Header
  <2> QED
    BY <2>2, <2>3 DEF Unended
<1>4. ASSUME NEW id \in Ids, NEW ack \in BOOLEAN PROVE close_stream(id, ack) \in Unended
  BY <1>1, FinCommand
<1>5. ASSUME NEW id \in Ids PROVE reset_stream(id) \in Unended
  <2>1. reset_stream(id) \in Frames
    BY FlowAssumption DEF reset_stream, Header, Frames, Tags, Flags, IsStreamFrame, Ids
  <2>2. reset_stream(id).tag = "Data" /\ term.tag = "GoAway"
    BY DEF reset_stream, term, Header
  <2> QED
    BY <2>1, <2>2 DEF Unended
<1> QED
  BY <1>1, <1>2, <1>3, <1>4, <1>5

\* A connection that has not sent the terminating frame.
LEMMA TermedOpen ==
  ASSUME NEW p \in Peers, FrameTypes', conn'[p] \notin {"Flushing", "ClosingSocket", "Closed"},
         Within(wire'[p], Unended), Within(pendQ'[p], Unended),
         Within(pendR'[p], Unended), Within(pendW'[p], Unended),
         conn'[p] \notin {"Active", "ClosingReceivers", "CleanupReceivers"} =>
           \A id \in Ids : rx'[p][id] # "open"
  PROVE  Termed(p)'
<1>1. wire'[p] \in Seq(Frames) /\ pendQ'[p] \in Seq(Frames)
  BY DEF FrameTypes
<1>2. Leaving(p)' = Cat(wire'[p], pendQ'[p]) /\ Leaving(p)' \in Seq(Frames)
  BY <1>1, CatType DEF Leaving
<1>3. Within(Leaving(p)', Unended)
  BY <1>1, <1>2, WithinCat
<1>4. LastOnly(Leaving(p)')
  BY <1>2, <1>3, UnendedLast
<1> QED
  BY <1>3, <1>4 DEF Termed

\* What Termed says of an open connection.
LEMMA TermedParts ==
  ASSUME NEW p \in Peers, FrameTypes, Termed(p)
  PROVE  /\ wire[p] \in Seq(Frames) /\ pendQ[p] \in Seq(Frames) /\ pendR[p] \in Seq(Frames)
         /\ pendW[p] \in Seq(Frames) /\ LastOnly(Cat(wire[p], pendQ[p]))
         /\ conn[p] \notin {"Flushing", "ClosingSocket", "Closed"} =>
              Within(wire[p], Unended) /\ Within(pendQ[p], Unended)
         /\ Within(pendR[p], Unended) /\ Within(pendW[p], Unended)
<1>1. /\ wire[p] \in Seq(Frames) /\ pendQ[p] \in Seq(Frames) /\ pendR[p] \in Seq(Frames)
      /\ pendW[p] \in Seq(Frames)
  BY DEF FrameTypes
<1>2. conn[p] \notin {"Flushing", "ClosingSocket", "Closed"} =>
        Within(Cat(wire[p], pendQ[p]), Unended)
  BY DEF Termed, Leaving
<1> QED
  BY <1>1, <1>2, WithinCat DEF Termed, Leaving

\* One frame more, and a single frame.
LEMMA UnendedMore ==
  ASSUME NEW s \in Seq(Frames), Within(s, Unended), NEW f \in Unended
  PROVE  Within(Append(s, f), Unended) /\ Within(One(f), Unended)
<1>1. f \in Frames
  BY DEF Unended
<1>2. Append(s, f) = Cat(s, One(f)) /\ One(f) \in Seq(Frames) /\ Within(One(f), Unended)
  BY <1>1, CatAppend, OneType, SynOne
<1> QED
  BY <1>2, WithinCat

\* The frame in a slot.
LEMMA SlotFrame ==
  ASSUME NEW s, AtMostOne(s), s # <<>>, Within(s, Unended)
  PROVE  Head(s) \in Unended
<1>1. PICK f \in Frames : s = One(f)
  BY DEF AtMostOne, Nil
<1>2. f \in Unended
  BY <1>1, SynOne
<1> QED
  BY <1>1, <1>2 DEF One

\* Sending.
LEMMA SendingTermed ==
  ASSUME NEW p \in Endpoints, StreamTypes, Orderly(p), Orderly(p)', Sending(p), Termed(p)
  PROVE  Termed(p)'
<1>0. p \in Peers /\ FrameTypes /\ FrameTypes' /\ Slots(p) /\ Commands(p)
  BY EndpointsArePeers DEF Orderly
<1>1. conn' = conn /\ rx' = rx
  BY SendingSteady DEF Steady
<1>2. /\ wire[p] \in Seq(Frames) /\ pendQ[p] \in Seq(Frames) /\ pendR[p] \in Seq(Frames)
      /\ pendW[p] \in Seq(Frames) /\ LastOnly(Cat(wire[p], pendQ[p]))
      /\ conn[p] \notin {"Flushing", "ClosingSocket", "Closed"} =>
              Within(wire[p], Unended) /\ Within(pendQ[p], Unended)
      /\ Within(pendR[p], Unended) /\ Within(pendW[p], Unended)
  BY <1>0, TermedParts
<1>3. /\ wire \in [Peers -> Seq(Frames)] /\ chan \in [Peers -> [Ids -> Seq(Frames)]]
      /\ pendR \in [Peers -> Seq(Frames)] /\ pendW \in [Peers -> Seq(Frames)]
      /\ pendQ \in [Peers -> Seq(Frames)]
  BY <1>0 DEF FrameTypes
<1>4. Within(Nil, Unended)
  BY SynNil
<1>5. conn[p] \notin {"Active", "ClosingReceivers", "CleanupReceivers"} =>
        \A id \in Ids : rx'[p][id] # "open"
  BY <1>1 DEF Termed
<1> USE DEF connVars, pendVars, sockVars, tableVars, handleVars, ghostVars
<1>6. CASE PollPing(p)
  <2>1. conn[p] = "Active" /\ wire'[p] = Append(wire[p], ping(rtt[p].id))
        /\ UNCHANGED <<pendR, pendW, pendQ>>
    BY <1>0, <1>3, <1>6 DEF PollPing, Active, SendFrame
  <2>2. rtt[p].id \in 0 .. U32_MAX
    BY <1>0, EndpointAssumption DEF FrameTypes, RttStates
  <2>3. Within(wire'[p], Unended)
    BY <1>2, <2>1, <2>2, UnendedFrames, UnendedMore
  <2> QED
    BY <1>0, <1>1, <1>2, <1>5, <2>1, <2>3, TermedOpen
<1>7. CASE PollSend(p)
  <2>1. conn[p] = "Active" /\ pendQ' = pendQ
    BY <1>7 DEF PollSend, Active
  <2>2. CASE pendR[p] # <<>>
    <3>1. wire'[p] = Append(wire[p], Head(pendR[p])) /\ pendR'[p] = Nil /\ pendW' = pendW
      BY <1>0, <1>3, <1>7, <2>2 DEF PollSend, SendFrame, Nil
    <3>2. Head(pendR[p]) \in Unended
      BY <1>0, <1>2, <2>2, SlotFrame DEF Slots
    <3>3. Within(wire'[p], Unended)
      BY <1>2, <2>1, <3>1, <3>2, UnendedMore
    <3> QED
      BY <1>0, <1>1, <1>2, <1>4, <1>5, <2>1, <3>1, <3>3, TermedOpen
  <2>3. CASE pendR[p] = <<>>
    <3>1. /\ wire'[p] = Append(wire[p], Head(pendW[p])) /\ pendW'[p] = Nil /\ pendR' = pendR
          /\ pendW[p] # <<>>
      BY <1>0, <1>3, <1>7, <2>3 DEF PollSend, SendFrame, Nil
    <3>2. Head(pendW[p]) \in Unended
      BY <1>0, <1>2, <3>1, SlotFrame DEF Slots
    <3>3. Within(wire'[p], Unended)
      BY <1>2, <2>1, <3>1, <3>2, UnendedMore
    <3> QED
      BY <1>0, <1>1, <1>2, <1>4, <1>5, <2>1, <3>1, <3>3, TermedOpen
  <2> QED
    BY <2>2, <2>3
<1>8. CASE PingInterval(p) \/ OpenWait(p)
  <2>1. conn[p] = "Active" /\ UNCHANGED <<wire, pendR, pendW, pendQ>>
    BY <1>8 DEF PingInterval, OpenWait, MayOpen, Active
  <2> QED
    BY <1>0, <1>1, <1>2, <1>5, <2>1, TermedOpen
<1>9. ASSUME NEW id \in Ids, PollCommand(p, id) \/ DrainCommand(p, id) PROVE Termed(p)'
  <2>1. chan[p][id] # <<>> /\ chan[p][id] \in Seq(Cmds(id))
    BY <1>0, <1>9 DEF PollCommand, DrainCommand, Commands
  <2>2. Head(chan[p][id]) \in Unended
    BY <2>1, CmdSeqs, UnendedFrames
  <2>3. CASE PollCommand(p, id)
    <3>1. /\ conn[p] = "Active" /\ UNCHANGED <<wire, pendR, pendQ>>
          /\ pendW'[p] = One(Head(chan[p][id]))
      BY <1>0, <1>3, <2>3 DEF PollCommand, Active, One
    <3>2. Within(pendW'[p], Unended)
      BY <1>2, <2>2, <3>1, UnendedMore
    <3> QED
      BY <1>0, <1>1, <1>2, <1>5, <3>1, <3>2, TermedOpen
  <2>4. CASE DrainCommand(p, id)
    <3>1. /\ conn[p] = "Draining" /\ UNCHANGED <<wire, pendR, pendW>>
          /\ pendQ'[p] = Append(pendQ[p], Head(chan[p][id]))
      BY <1>0, <1>3, <2>4 DEF DrainCommand
    <3>2. Within(pendQ'[p], Unended)
      BY <1>2, <2>2, <3>1, UnendedMore
    <3> QED
      BY <1>0, <1>1, <1>2, <1>5, <3>1, <3>2, TermedOpen
  <2> QED
    BY <1>9, <2>3, <2>4
<1>10. CASE FlushFrame(p) /\ pendQ[p] # <<>>
  <2>1. /\ conn[p] = "Flushing" /\ UNCHANGED <<pendR, pendW, chan>>
        /\ wire'[p] = Append(wire[p], Head(pendQ[p])) /\ pendQ'[p] = Tail(pendQ[p])
    BY <1>0, <1>3, <1>10 DEF FlushFrame, SendFrame
  <2>2. PICK f \in Frames, t \in Seq(Frames) :
          f = Head(pendQ[p]) /\ t = Tail(pendQ[p]) /\ pendQ[p] = Cat(One(f), t)
    BY <1>2, <1>10, CatHead
  <2>3. wire'[p] = Cat(wire[p], One(f)) /\ One(f) \in Seq(Frames)
    BY <1>2, <2>1, <2>2, CatAppend, OneType
  <2>4. Cat(wire'[p], pendQ'[p]) = Cat(wire[p], pendQ[p])
    <3>1. PICK w \in Seq(Frames) : w = wire[p]
      BY <1>2
    <3>2. Cat(Cat(w, One(f)), t) = Cat(w, Cat(One(f), t))
      BY <2>3, CatAssoc
    <3> QED
      BY <2>1, <2>2, <2>3, <3>1, <3>2
  <2>5. Leaving(p)' = Leaving(p)
    BY <2>4 DEF Leaving
  <2> QED
    BY <1>1, <2>1, <2>5 DEF Termed
<1> QED
  BY <1>6, <1>7, <1>8, <1>9, <1>10 DEF Sending

\* A connection that ends sends nothing: its socket keeps what it has, or loses
\* the rest of it.
LEMMA EndingWire ==
  ASSUME NEW p \in Endpoints, Orderly(p), Ending(p)
  PROVE  GoesOnAfter(wire[p], wire'[p]) /\ conn[p] # "Closed"
<1>0. p \in Peers /\ wire \in [Peers -> Seq(Frames)]
  BY EndpointsArePeers DEF Orderly, FrameTypes
<1>1. PICK w \in Seq(Frames) : w = wire[p]
  BY <1>0
<1>2. ASSUME wire' = wire PROVE GoesOnAfter(wire[p], wire'[p])
  BY <1>1, <1>2, CatNil, NilType DEF GoesOnAfter
<1>3. ASSUME DropSocket(p) PROVE GoesOnAfter(wire[p], wire'[p])
  <2>1. PICK n \in 0 .. Len(w) : wire'[p] = SubSeq(w, 1, n)
    BY <1>0, <1>1, <1>3 DEF DropSocket
  <2> QED
    BY <1>1, <2>1, CatPrefix DEF GoesOnAfter
<1> USE DEF connVars, pendVars, sockVars, tableVars, handleVars, ghostVars
<1>4. CASE PollFail(p) \/ OpenFail(p)
  BY <1>3, <1>4 DEF PollFail, OpenFail, MayOpen, Active, cleanup
<1>5. CASE connection_close(p) \/ CloseAllReceivers(p) \/ DrainDone(p)
  BY <1>2, <1>5 DEF connection_close, CloseAllReceivers, DrainDone, Active
<1>6. CASE connection_drop(p)
  <2>1. (DropSocket(p) \/ wire' = wire) /\ conn[p] # "Closed"
    BY <1>6 DEF connection_drop
  <2> QED
    BY <1>2, <1>3, <2>1
<1>7. CASE CloseSocket(p) \/ CleanupDrain(p) \/ (FlushFrame(p) /\ pendQ[p] = <<>>)
  BY <1>2, <1>7 DEF CloseSocket, CleanupDrain, FlushFrame
<1>8. CASE ClosingError(p)
  BY <1>3, <1>8 DEF ClosingError
<1> QED
  BY <1>4, <1>5, <1>6, <1>7, <1>8 DEF Ending

\* A connection that is closed sends no more.
LEMMA TermedClosed ==
  ASSUME NEW p \in Peers, FrameTypes, FrameTypes', Termed(p), GoesOnAfter(wire[p], wire'[p]),
         pendQ'[p] = Nil, conn'[p] = "Closed", Within(pendR'[p], Unended),
         Within(pendW'[p], Unended), \A id \in Ids : rx'[p][id] # "open"
  PROVE  Termed(p)'
<1>1. /\ wire[p] \in Seq(Frames) /\ pendQ[p] \in Seq(Frames) /\ LastOnly(Cat(wire[p], pendQ[p]))
  BY TermedParts
<1>2. LastOnly(wire[p]) /\ wire'[p] \in Seq(Frames)
  BY <1>1, LastPart DEF FrameTypes
<1>3. PICK r \in Seq(Frames) : wire[p] = Cat(wire'[p], r)
  BY DEF GoesOnAfter
<1>4. LastOnly(wire'[p])
  BY <1>2, <1>3, LastPart
<1>5. Leaving(p)' = wire'[p]
  BY <1>2, CatNil DEF Leaving
<1> QED
  BY <1>4, <1>5 DEF Termed

\* Ending.
LEMMA EndingTermed ==
  ASSUME NEW p \in Endpoints, StreamTypes, Orderly(p), Orderly(p)', Ending(p), Termed(p)
  PROVE  Termed(p)'
<1>0. p \in Peers /\ FrameTypes /\ FrameTypes' /\ Slots(p) /\ Slots(p)'
  BY EndpointsArePeers DEF Orderly
<1>1. GoesOnAfter(wire[p], wire'[p])
  BY EndingWire
<1>2. /\ wire[p] \in Seq(Frames) /\ pendQ[p] \in Seq(Frames) /\ pendR[p] \in Seq(Frames)
      /\ pendW[p] \in Seq(Frames) /\ LastOnly(Cat(wire[p], pendQ[p]))
      /\ conn[p] \notin {"Flushing", "ClosingSocket", "Closed"} =>
              Within(wire[p], Unended) /\ Within(pendQ[p], Unended)
      /\ Within(pendR[p], Unended) /\ Within(pendW[p], Unended)
  BY <1>0, TermedParts
<1>3. /\ pendR \in [Peers -> Seq(Frames)] /\ pendW \in [Peers -> Seq(Frames)]
      /\ pendQ \in [Peers -> Seq(Frames)] /\ conn \in [Peers -> ConnStates]
      /\ rx \in [Peers -> [Ids -> RxStates]] /\ wire'[p] \in Seq(Frames)
  BY <1>0 DEF FrameTypes, StreamTypes
<1>4. Within(Nil, Unended)
  BY SynNil
<1>5. Within(wire[p], Unended) => Within(wire'[p], Unended)
  <2>1. PICK r \in Seq(Frames) : wire[p] = Cat(wire'[p], r)
    BY <1>1 DEF GoesOnAfter
  <2> QED
    BY <1>3, <2>1, WithinCat
<1>6. conn[p] \notin {"Active", "ClosingReceivers", "CleanupReceivers"} =>
        \A id \in Ids : rx[p][id] # "open"
  BY DEF Termed
<1>7. ASSUME CloseReceivers(p) PROVE \A id \in Ids : rx'[p][id] # "open"
  BY <1>0, <1>3, <1>7 DEF CloseReceivers
<1>8. conn'[p] # "Active" => Within(pendR'[p], Unended) /\ Within(pendW'[p], Unended)
  BY <1>0, <1>4 DEF Slots
<1> USE DEF connVars, pendVars, sockVars, tableVars, handleVars, ghostVars
<1>9. CASE PollFail(p) \/ OpenFail(p)
  <2>1. cleanup(p) /\ conn[p] = "Active"
    BY <1>9 DEF PollFail, OpenFail, MayOpen, Active
  <2>2. conn'[p] = "CleanupReceivers" /\ pendQ' = pendQ
    BY <1>0, <1>3, <2>1 DEF cleanup
  <2> QED
    BY <1>0, <1>2, <1>5, <1>8, <2>1, <2>2, TermedOpen
<1>10. CASE connection_close(p)
  <2>1. /\ conn[p] = "Active" /\ conn'[p] = "ClosingReceivers"
        /\ pendQ'[p] = Cat(pendR[p], pendW[p])
    BY <1>0, <1>3, <1>10 DEF connection_close, Active, Goto, Cat
  <2>2. Within(pendQ'[p], Unended)
    BY <1>2, <2>1, WithinCat
  <2> QED
    BY <1>0, <1>2, <1>5, <1>8, <2>1, <2>2, TermedOpen
<1>11. CASE connection_drop(p)
  <2>1. conn'[p] = "Closed" /\ pendQ'[p] = Nil /\ CloseReceivers(p)
    BY <1>0, <1>3, <1>11 DEF connection_drop, Goto, Nil
  <2> QED
    BY <1>0, <1>1, <1>7, <1>8, <2>1, TermedClosed
<1>12. CASE CloseAllReceivers(p)
  <2>1. /\ pendQ' = pendQ /\ CloseReceivers(p)
        /\ \/ conn[p] = "ClosingReceivers" /\ conn'[p] = "Draining"
           \/ conn[p] = "CleanupReceivers" /\ conn'[p] = "CleanupDraining"
    BY <1>0, <1>3, <1>12 DEF CloseAllReceivers, Goto
  <2> QED
    BY <1>0, <1>2, <1>5, <1>7, <1>8, <2>1, TermedOpen
<1>13. CASE DrainDone(p)
  <2>1. /\ wire' = wire /\ pendR' = pendR /\ pendW' = pendW /\ pendQ'[p] = Append(pendQ[p], term)
        /\ chan' = chan /\ rx' = rx /\ conn[p] = "Draining" /\ conn'[p] = "Flushing"
        /\ \A id \in Ids : chan[p][id] = Nil
    BY <1>0, <1>3, <1>13 DEF DrainDone, Goto, Nil
  <2>2. Within(Cat(wire[p], pendQ[p]), Unended) /\ Cat(wire[p], pendQ[p]) \in Seq(Frames)
    BY <1>2, <2>1, WithinCat, CatType
  <2>3. LastOnly(Append(Cat(wire[p], pendQ[p]), term))
    BY <2>2, UnendedLast
  <2>4. Leaving(p)' = Append(Cat(wire[p], pendQ[p]), term)
    <3>1. PICK w \in Seq(Frames), q \in Seq(Frames) : w = wire[p] /\ q = pendQ[p]
      BY <1>2
    <3>2. Append(q, term) = Cat(q, One(term)) /\ One(term) \in Seq(Frames)
      BY CatAppend, TermFrame
    <3>3. Append(Cat(w, q), term) = Cat(Cat(w, q), One(term))
      BY <2>2, <3>1, CatAppend, TermFrame
    <3>4. Cat(Cat(w, q), One(term)) = Cat(w, Cat(q, One(term)))
      BY <3>2, CatAssoc
    <3> QED
      BY <2>1, <3>1, <3>2, <3>3, <3>4 DEF Leaving
  <2> QED
    BY <1>2, <1>6, <2>1, <2>3, <2>4 DEF Termed
<1>14. CASE CloseSocket(p)
  <2>1. conn[p] = "ClosingSocket" /\ conn'[p] = "Closed" /\ pendQ' = pendQ /\ rx' = rx
    BY <1>0, <1>3, <1>14 DEF CloseSocket, Goto
  <2>2. pendQ[p] = Nil
    BY <1>0, <2>1 DEF Slots
  <2> QED
    BY <1>0, <1>1, <1>6, <1>8, <2>1, <2>2, TermedClosed
<1>15. CASE ClosingError(p)
  <2>1. /\ conn[p] \in {"Flushing", "ClosingSocket"} /\ conn'[p] = "Closed" /\ pendQ'[p] = Nil
        /\ rx' = rx
    BY <1>0, <1>3, <1>15 DEF ClosingError, Goto, Nil
  <2> QED
    BY <1>0, <1>1, <1>6, <1>8, <2>1, TermedClosed
<1>16. CASE CleanupDrain(p)
  <2>1. conn[p] = "CleanupDraining" /\ conn'[p] = "Closed" /\ pendQ' = pendQ /\ rx' = rx
    BY <1>0, <1>3, <1>16 DEF CleanupDrain, Goto
  <2>2. pendQ[p] = Nil
    BY <1>0, <2>1 DEF Slots
  <2> QED
    BY <1>0, <1>1, <1>6, <1>8, <2>1, <2>2, TermedClosed
<1>17. CASE FlushFrame(p) /\ pendQ[p] = <<>>
  <2>1. /\ UNCHANGED <<wire, pendR, pendW, pendQ, chan, rx>>
        /\ conn[p] = "Flushing" /\ conn'[p] = "ClosingSocket"
    BY <1>0, <1>3, <1>17 DEF FlushFrame, Goto
  <2>2. Leaving(p)' = Leaving(p)
    BY <2>1 DEF Leaving
  <2> QED
    BY <2>1, <2>2 DEF Termed
<1> QED
  BY <1>9, <1>10, <1>11, <1>12, <1>13, <1>14, <1>15, <1>16, <1>17 DEF Ending

\* A live handle has a receiver, open or closed.
LEMMA LiveReceiver ==
  ASSUME StreamTypes, StreamsOK, NEW p \in Endpoints, NEW id \in Ids,
         handle[p][id].life = "live"
  PROVE  rx[p][id] \in {"open", "closed"}
<1>1. rx[p][id] \in RxStates
  BY EndpointsArePeers DEF StreamTypes
<1>2. Tabled(conn[p], id \in entry[p], rx[p][id], shared[p][id], handle[p][id])
  BY DEF StreamsOK, StreamOK
<1> QED
  BY <1>1, <1>2 DEF Tabled, RxStates

\* The commands' end: with its receivers closed a connection gets no more.
LEMMA HandleTermed ==
  ASSUME NEW p \in Endpoints, StreamTypes, StreamsOK, NEW j \in Ids, HandleMove(p, j),
         ElseKept(p, j), Termed(p)
  PROVE  Termed(p)'
<1>1. ASSUME NEW id \in Ids, conn[p] \in {"Flushing", "ClosingSocket"}
      PROVE  chan'[p][id] = Nil
  <2>1. chan[p][id] = Nil /\ rx[p][id] # "open"
    BY <1>1 DEF Termed
  <2>2. CASE id # j
    BY <2>1, <2>2 DEF ElseKept
  <2>3. CASE id = j
    <3>1. handle[p][id].life = "live"
      BY <2>3 DEF HandleMove, OpWrite, OpGrant, Starts, OpSend, OpClose, OpRest, OpDrop
    <3>2. rx[p][id] = "closed"
      BY <2>1, <3>1, LiveReceiver
    <3>3. chan'[p][id] = chan[p][id]
      BY <1>1, <2>3, <3>2 DEF HandleMove, OpSilent, OpSend, Queues, Lapses, OpClose
    <3> QED
      BY <2>1, <3>3
  <2> QED
    BY <2>2, <2>3
<1>2. Leaving(p)' = Leaving(p)
  BY DEF Leaving, ElseKept
<1> QED
  BY <1>1, <1>2 DEF Termed, ElseKept

\* A step of the endpoint itself.
LEMMA OwnTermed ==
  ASSUME BothOurs, Settled, Settled', NEW p \in Peers, EndpointStep(p), Termed(p)
  PROVE  Termed(p)'
<1>1. /\ p \in Endpoints /\ StreamTypes /\ StreamsOK /\ Typed(p) /\ Typed(p)' /\ FrameTypes
      /\ GhostTypes /\ Orderly(p) /\ Orderly(p)' /\ FrameTypes' /\ Slots(p)
  BY SettledParts, NextSettledParts
<1>2. /\ wire[p] \in Seq(Frames) /\ pendQ[p] \in Seq(Frames) /\ pendR[p] \in Seq(Frames)
      /\ pendW[p] \in Seq(Frames)
      /\ conn[p] \notin {"Flushing", "ClosingSocket", "Closed"} =>
              Within(wire[p], Unended) /\ Within(pendQ[p], Unended)
      /\ Within(pendR[p], Unended) /\ Within(pendW[p], Unended)
  BY <1>1, TermedParts
<1>3. CASE Sending(p)
  BY <1>1, <1>3, SendingTermed
<1>4. CASE Ending(p)
  BY <1>1, <1>4, EndingTermed
<1>5. CASE on_frame(p)
  <2>1. /\ Head(wire[Other(p)]) \in Frames /\ wire'[p] = wire[p] /\ conn' = conn
        /\ pendW' = pendW /\ pendQ' = pendQ /\ conn[p] = "Active"
    BY <1>5, FrameTaken
  <2>2. PICK f \in Frames : f = Head(wire[Other(p)])
    BY <2>1
  <2>3. Answer(p, f)
    BY <1>5, <2>2, FrameAnswers
  <2>4. f.len \in 0 .. U32_MAX
    BY DEF Frames
  <2>5. Within(pendR'[p], Unended)
    <3>1. CASE pendR'[p] = Nil
      BY <3>1, SynNil
    <3>2. ASSUME NEW g, g \in Unended, pendR'[p] = One(g) PROVE Within(pendR'[p], Unended)
      BY <1>2, <3>2, UnendedMore
    <3>3. pong(f.len) \in Unended /\ protocol_error \in Unended /\ internal_error \in Unended
      BY <2>4, UnendedFrames
    <3> QED
      BY <2>3, <3>1, <3>2, <3>3 DEF Answer
  <2> QED
    BY <1>1, <1>2, <2>1, <2>5, TermedOpen
<1>6. CASE poll_new_outbound(p)
  <2>1. UNCHANGED <<conn, wire, pendR, pendW, pendQ>> /\ conn[p] = "Active"
    BY <1>6, OpenMoves
  <2> QED
    BY <1>1, <1>2, <2>1, TermedOpen
<1>7. ASSUME NEW j \in Ids, on_drop_stream(p, j) PROVE Termed(p)'
  <2>1. /\ conn[p] = "Active" /\ UNCHANGED <<conn, wire, pendR, pendQ>>
        /\ \/ pendW'[p] = DropFrame(j, shared[p][j].state)
           \/ pendW'[p] = pendW[p]
    BY <1>1, <1>7 DEF on_drop_stream, Active, FrameTypes, sockVars
  <2>2. Within(pendW'[p], Unended)
    <3>1. CASE pendW'[p] = pendW[p]
      BY <1>2, <3>1
    <3>2. CASE pendW'[p] = DropFrame(j, shared[p][j].state)
      <4>1. \/ pendW'[p] = One(reset_stream(j)) \/ pendW'[p] = One(close_stream(j, FALSE))
            \/ pendW'[p] = Nil
        BY <3>2 DEF DropFrame, One, Nil
      <4>2. reset_stream(j) \in Unended /\ close_stream(j, FALSE) \in Unended
        BY UnendedFrames
      <4>3. Within(Nil, Unended)
        BY SynNil
      <4> QED
        BY <1>2, <4>1, <4>2, <4>3, UnendedMore
    <3> QED
      BY <2>1, <3>1, <3>2
  <2> QED
    BY <1>1, <1>2, <2>1, <2>2, TermedOpen
<1>8. ASSUME NEW j \in Ids, HandleAction(p, j) PROVE Termed(p)'
  BY <1>1, <1>8, HandleMoves, HandleTermed
<1> QED
  BY <1>1, <1>3, <1>4, <1>5, <1>6, <1>7, <1>8, EndpointActions

\* A step of the other endpoint takes frames off the socket at most.
LEMMA OtherTermed ==
  ASSUME BothOurs, Settled, Settled', NEW p \in Peers, EndpointStep(p), NEW o \in Peers,
         o = Other(p), Termed(o)
  PROVE  Termed(o)'
<1>1. /\ FrameTypes /\ p \in Endpoints /\ Other(p) = o /\ o # p
  BY SettledParts
<1>2. /\ conn'[o] = conn[o] /\ chan'[o] = chan[o] /\ rx'[o] = rx[o] /\ pendR'[o] = pendR[o]
      /\ pendW'[o] = pendW[o] /\ pendQ'[o] = pendQ[o]
  BY <1>1, OtherSide DEF KeptState
<1>3. CASE wire'[o] = wire[o]
  <2>1. Leaving(o)' = Leaving(o)
    BY <1>2, <1>3 DEF Leaving
  <2> QED
    BY <1>2, <2>1 DEF Termed
<1>4. CASE on_frame(p)
  <2>1. wire[o] # <<>> /\ wire'[o] = Tail(wire[o]) /\ wire[o] \in Seq(Frames)
    BY <1>1, <1>4, FrameTaken
  <2>2. PICK f \in Frames, t \in Seq(Frames), w \in Seq(Frames), q \in Seq(Frames) :
          w = wire[o] /\ t = wire'[o] /\ w = Cat(One(f), t) /\ q = pendQ[o]
    <3>1. pendQ[o] \in Seq(Frames)
      BY <1>1 DEF FrameTypes
    <3> QED
      BY <2>1, <3>1, CatHead
  <2>3. One(f) \in Seq(Frames) /\ Cat(t, q) \in Seq(Frames)
    BY OneType, CatType
  <2>4. Leaving(o) = Cat(One(f), Cat(t, q)) /\ Leaving(o)' = Cat(t, q)
    BY <1>2, <2>2, <2>3, CatAssoc DEF Leaving
  <2>5. LastOnly(Leaving(o)')
    BY <2>3, <2>4, LastPart DEF Termed
  <2>6. Within(Leaving(o), Unended) => Within(Leaving(o)', Unended)
    BY <2>3, <2>4, WithinCat
  <2> QED
    BY <1>2, <2>5, <2>6 DEF Termed
<1> QED
  <2>1. on_frame(p) \/ Outward(p)
    BY <1>1, EndpointActions, OutwardSteps
  <2> QED
    BY <1>1, <1>3, <1>4, <2>1 DEF Outward

----------------------------------------------------------------------------
(* A direction that nothing is missing from                                 *)

\* The connection still takes every command, or has sent its last frame.
Full(p) == Whole(p) \/ EndsTerm(wire[p])

\* What ends a connection leaves a direction as it is, or not full.
LEMMA EndingFull ==
  ASSUME NEW p \in Endpoints, StreamTypes, Orderly(p), Orderly(p)', NEW id \in Ids, Ending(p),
         Termed(p), Full(p)'
  PROVE  Full(p) /\ Path(p, id)' = Path(p, id)
<1>0. p \in Peers /\ FrameTypes /\ Slots(p) /\ Slots(p)' /\ FrameTypes' /\ OwnSide(p) /\ OwnSide(p)'
  BY EndpointsArePeers DEF Orderly
<1>1. CASE Whole(p)'
  BY <1>1, EndingPath, EndingOnward DEF Full
<1>2. CASE ~Whole(p)'
  <2>1. /\ wire[p] \in Seq(Frames) /\ pendQ[p] \in Seq(Frames)
        /\ LastOnly(Cat(wire[p], pendQ[p])) /\ wire'[p] \in Seq(Frames)
        /\ conn[p] \notin {"Flushing", "ClosingSocket", "Closed"} => Within(wire[p], Unended)
    BY <1>0, TermedParts DEF FrameTypes
  <2>2. EndsTerm(wire'[p])
    BY <1>2 DEF Full
  <2>3. PICK r \in Seq(Frames) : wire[p] = Cat(wire'[p], r)
    BY EndingWire DEF GoesOnAfter
  <2>4. LastOnly(wire[p])
    BY <2>1, LastPart
  <2>5. r = Nil /\ wire'[p] = wire[p]
    <3>1. r = Nil
      BY <2>1, <2>2, <2>3, <2>4, LastPart
    <3> QED
      BY <2>1, <2>3, <3>1, CatNil
  <2>6. pendQ[p] = Nil
    BY <2>1, <2>2, <2>5, LastPart
  <2>7. conn[p] \in {"Flushing", "ClosingSocket"}
    BY <2>1, <2>2, <2>5, UnendedLast, EndingWire
  <2>8. pendW[p] = Nil /\ chan[p][id] = Nil /\ Whole(p) /\ Queued(p, id) = Nil
    BY <1>0, <2>7 DEF Slots, Termed, Whole, ClosingStates, Queued
  <2>10. pendW'[p] = Nil /\ pendQ'[p] = Nil /\ Queued(p, id)' = Nil
    BY <1>0, <1>2 DEF Slots, Whole, ClosingStates, Queued, Nil
  <2>11. /\ Path(p, id) = Parts(wire[p], Nil, Nil, Nil, id)
         /\ Path(p, id)' = Parts(wire[p], Nil, Nil, Nil, id)
    BY <1>0, <2>5, <2>6, <2>8, <2>10, PathParts, NextParts
  <2> QED
    BY <2>8, <2>11 DEF Full
<1> QED
  BY <1>1, <1>2

----------------------------------------------------------------------------
(* The bytes of one direction                                               *)

\* The frames s continue the a bytes that arrived, up to at most w; up to w.
Fits(s, a, w)  == Run(s, a) /\ a + Load(s) <= w
Fills(s, a, w) == Run(s, a) /\ a + Load(s) = w

\* One frame more.
LEMMA FitsMore ==
  ASSUME NEW s \in Seq(Frames), NEW f \in Frames, NEW a \in Nat, NEW w \in Nat
  PROVE  /\ Fits(s, a, w) /\ Body(f) = 0 => Fits(Cat(s, One(f)), a, w)
         /\ Fills(s, a, w) /\ Body(f) = 0 => Fills(Cat(s, One(f)), a, w)
         /\ Fills(s, a, w) /\ f.pos = w =>
              Fills(Cat(s, One(f)), a, w + Body(f)) /\ Fits(Cat(s, One(f)), a, w + Body(f))
         /\ Fills(s, a, w) => Fits(s, a, w)
<1>1. One(f) \in Seq(Frames)
  BY OneType
<1>2. PICK l \in Nat, b \in Nat, k \in Nat :
        l = Load(s) /\ b = Body(f) /\ k = Load(Cat(s, One(f)))
        /\ k = l + b /\ (Run(Cat(s, One(f)), a) <=> Run(s, a) /\ Run(One(f), a + l))
  <2>1. /\ Run(Cat(s, One(f)), a) <=> Run(s, a) /\ Run(One(f), a + Load(s))
        /\ Load(Cat(s, One(f))) = Load(s) + Load(One(f)) /\ Load(s) \in Nat
        /\ Load(One(f)) \in Nat
    BY <1>1, RunCat
  <2>2. Load(One(f)) = Body(f) /\ Body(f) \in Nat
    BY RunOne
  <2> QED
    BY <2>1, <2>2
<1>3. a + l \in Nat
  OBVIOUS
<1>4. Run(One(f), a + l) <=> (b > 0 => f.pos = a + l)
  BY <1>2, <1>3, RunOne
<1>5. PICK u : u = Cat(s, One(f))
  OBVIOUS
<1>6. /\ Fits(s, a, w) <=> Run(s, a) /\ a + l <= w
      /\ Fills(s, a, w) <=> Run(s, a) /\ a + l = w
  BY <1>2 DEF Fits, Fills
<1>7. ASSUME NEW v \in Nat
      PROVE  /\ Fits(u, a, v) <=> Run(u, a) /\ a + k <= v
             /\ Fills(u, a, v) <=> Run(u, a) /\ a + k = v
  BY <1>2, <1>5 DEF Fits, Fills
<1>8. Run(u, a) <=> Run(s, a) /\ (b > 0 => f.pos = a + l)
  BY <1>2, <1>4, <1>5
<1>9. Fits(s, a, w) /\ b = 0 => Fits(u, a, w)
  BY <1>2, <1>6, <1>7, <1>8
<1>10. Fills(s, a, w) /\ b = 0 => Fills(u, a, w)
  BY <1>2, <1>6, <1>7, <1>8
<1>11. Fills(s, a, w) /\ f.pos = w => Fills(u, a, w + b) /\ Fits(u, a, w + b)
  <2>1. SUFFICES ASSUME Fills(s, a, w), f.pos = w
                 PROVE  Fills(u, a, w + b) /\ Fits(u, a, w + b)
    OBVIOUS
  <2>2. w + b \in Nat /\ a + k = w + b /\ Run(u, a)
    <3>1. Run(s, a) /\ a + l = w /\ k = l + b
      BY <1>2, <1>6, <2>1
    <3>2. f.pos = a + l
      BY <2>1, <3>1
    <3>3. Run(u, a)
      BY <1>8, <3>1, <3>2
    <3> QED
      BY <3>1, <3>3
  <2> QED
    BY <1>7, <2>2
<1>12. Fills(s, a, w) => Fits(s, a, w)
  BY <1>6
<1> QED
  BY <1>2, <1>5, <1>9, <1>10, <1>11, <1>12

\* The first frame, taken away.
LEMMA FitsTake ==
  ASSUME NEW s \in Seq(Frames), NEW f \in Frames, NEW a \in Nat, NEW w \in Nat
  PROVE  /\ Fits(Cat(One(f), s), a, w) => Fits(s, a + Body(f), w)
         /\ Fills(Cat(One(f), s), a, w) => Fills(s, a + Body(f), w)
<1>1. One(f) \in Seq(Frames)
  BY OneType
<1>2. /\ Run(Cat(One(f), s), a) <=> Run(One(f), a) /\ Run(s, a + Load(One(f)))
      /\ Load(Cat(One(f), s)) = Load(One(f)) + Load(s) /\ Load(s) \in Nat
      /\ Load(One(f)) \in Nat
  BY <1>1, RunCat
<1>3. Load(One(f)) = Body(f) /\ Body(f) \in Nat
  BY RunOne
<1> QED
  BY <1>2, <1>3 DEF Fits, Fills

\* The last frames, cut off.
LEMMA FitsCut ==
  ASSUME NEW s \in Seq(Frames), NEW r \in Seq(Frames), NEW a \in Nat, NEW w \in Nat,
         Fits(Cat(s, r), a, w)
  PROVE  Fits(s, a, w)
<1>1. /\ Run(Cat(s, r), a) <=> Run(s, a) /\ Run(r, a + Load(s))
      /\ Load(Cat(s, r)) = Load(s) + Load(r) /\ Load(s) \in Nat /\ Load(r) \in Nat
  BY RunCat
<1> QED
  BY <1>1 DEF Fits

\* Frames that do not arrive any more count less.
LEMMA FitsLess ==
  ASSUME NEW s \in Seq(Frames), NEW a \in Nat, NEW w \in Nat, NEW v \in Nat, w <= v,
         Fits(s, a, w)
  PROVE  Fits(s, a, v)
<1>1. Load(s) \in Nat
  BY RunCat
<1> QED
  BY <1>1 DEF Fits

\* Whoever hears a stream has got its bytes up to those under way; if nothing
\* is missing, those are all.
Intact(p, id) ==
  Hears(Other(p), id) =>
    /\ Fits(Path(p, id), rcvd[Other(p)][id], written[p][id])
    /\ Full(p) => Fills(Path(p, id), rcvd[Other(p)][id], written[p][id])

\* The direction away from the endpoint that takes a step.
LEMMA OwnIntact ==
  ASSUME BothOurs, Settled, Settled', NEW p \in Peers, EndpointStep(p), NEW id \in Ids,
         Termed(p), Dated(p, id), Intact(p, id)
  PROVE  Intact(p, id)'
<1>1. /\ p \in Endpoints /\ StreamTypes /\ StreamsOK /\ Typed(p) /\ Typed(p)' /\ FrameTypes
      /\ GhostTypes /\ Orderly(p) /\ Orderly(p)' /\ Slots(p) /\ Other(p) \in Peers
      /\ FrameTypes'
  BY SettledParts, NextSettledParts
<1>2. PICK o \in Peers : o = Other(p)
  BY <1>1
<1>3. rcvd'[o] = rcvd[o]
  BY <1>2, OtherSide DEF KeptState
<1>4. SUFFICES ASSUME Hears(o, id)'
               PROVE  /\ Fits(Path(p, id)', rcvd[o][id], written'[p][id])
                      /\ Full(p)' => Fills(Path(p, id)', rcvd[o][id], written'[p][id])
  BY <1>2, <1>3 DEF Intact
<1>5. Hears(o, id)
  BY <1>2, <1>4, HearsBack
<1>6. PICK a \in Nat, w \in Nat, v \in Nat, s \in Seq(Frames), t \in Seq(Frames) :
        /\ a = rcvd[o][id] /\ w = written[p][id] /\ v = written'[p][id]
        /\ s = Path(p, id) /\ t = Path(p, id)'
  <2>1. Path(p, id) \in Seq(Frames) /\ Path(p, id)' \in Seq(Frames)
    BY <1>1, LineType, NextLineType
  <2> QED
    BY <1>1, <2>1 DEF GhostTypes, FrameTypes
<1>7. Fits(s, a, w) /\ (Full(p) => Fills(s, a, w))
  BY <1>2, <1>5, <1>6 DEF Intact
<1> DEFINE Goal == Fits(t, a, v) /\ (Full(p)' => Fills(t, a, v))
<1> HIDE DEF Goal
<1>8. SUFFICES Goal
  BY <1>6 DEF Goal
<1>9. ASSUME t = s, v = w, Full(p)' => Full(p) PROVE Goal
  BY <1>7, <1>9 DEF Goal
<1>10. ASSUME v = w, Full(p)' => Full(p), NEW f \in Frames, Body(f) = 0, t = Cat(s, One(f))
       PROVE  Goal
  BY <1>7, <1>10, FitsMore DEF Goal
<1>11. ASSUME conn'[p] = conn[p], Whole(p) \/ wire'[p] = wire[p] PROVE Full(p)' => Full(p)
  BY <1>11 DEF Full, Whole
<1>12. Touches(p, id)
  BY StepTouches
<1>13. CASE Sits(p, id)
  BY <1>6, <1>9, <1>11, <1>13 DEF Sits
<1>14. CASE Ending(p)
  <2>1. v = w
    BY <1>1, <1>6, <1>14, CountsKept
  <2>2. PICK r \in Seq(Frames) : s = Cat(t, r)
    BY <1>1, <1>6, <1>14, EndingPath DEF Shorter
  <2>3. Fits(t, a, w)
    BY <1>7, <2>2, FitsCut
  <2>4. Full(p)' => Full(p) /\ t = s
    BY <1>1, <1>6, <1>14, EndingFull
  <2> QED
    BY <1>7, <2>1, <2>3, <2>4 DEF Goal
<1>15. CASE Arrives(p, id)
  <2>1. on_frame(p)
    BY <1>15 DEF Arrives
  <2>2. wire'[p] = wire[p] /\ conn' = conn /\ written' = written /\ Path(p, id)' = Path(p, id)
    <3>1. wire'[p] = wire[p] /\ conn' = conn
      BY <2>1, FrameTaken
    <3>2. written' = written /\ Path(p, id)' = Path(p, id)
      BY <1>1, <2>1, OnFrameSlots, FrameLine
    <3> QED
      BY <3>1, <3>2
  <2> QED
    BY <1>6, <1>9, <1>11, <2>2
<1>16. CASE poll_new_outbound(p)
  BY <1>6, <1>9, <1>11, <1>16, OpenMoves, OpenLine
<1>17. CASE on_drop_stream(p, id)
  <2>1. wire' = wire /\ written' = written
    BY <1>17 DEF on_drop_stream, sockVars, ghostVars
  <2>2. conn' = conn /\ (Path(p, id)' = Path(p, id) \/ \E f : LineEnds(p, id, f))
    BY <1>17, DropMoves
  <2>3. ASSUME NEW f, LineEnds(p, id, f) PROVE Goal
    <3>1. f \in Frames /\ f.len = 0 /\ t = Cat(s, One(f))
      BY <1>6, <2>3 DEF LineEnds, Farewell
    <3>2. Body(f) = 0
      BY <3>1, FrameAmounts
    <3> QED
      BY <1>6, <1>10, <1>11, <2>1, <2>2, <3>1, <3>2
  <2> QED
    BY <1>6, <1>9, <1>11, <2>1, <2>2, <2>3
<1>18. CASE HandleAction(p, id)
  <2>1. HandleMove(p, id) /\ ElseKept(p, id)
    BY <1>1, <1>18, HandleMoves
  <2>2. conn'[p] = conn[p] /\ wire'[p] = wire[p] /\ (Full(p)' => Full(p))
    BY <1>11, <2>1 DEF ElseKept
  <2>3. ASSUME NEW f, OpWrite(p, id, f) \/ OpGrant(p, id, f), OpSilent(p, id) PROVE Goal
    <3>1. "write" \in FrameOps /\ "read" \in FrameOps
      BY DEF FrameOps
    <3>2. Starts(p, id, "write", f) \/ Starts(p, id, "read", f)
      BY <2>3 DEF OpWrite, OpGrant
    <3>3. t = s /\ v = w
      BY <1>1, <1>6, <2>1, <2>3, <3>1, <3>2, BeginLine DEF OpSilent
    <3> QED
      BY <1>9, <2>2, <3>3
  <2>4. ASSUME OpSend(p, id) PROVE Goal
    <3>1. PICK f : f = handle[p][id].op.frame
      OBVIOUS
    <3>2. f \in Frames /\ handle[p][id].op.kind \in FrameOps /\ handle[p][id].life = "live"
      BY <1>1, <2>4, <3>1, SettledParts DEF OpSend, Handles
    <3>3. Line(p, id) = Cat(s, One(f))
      BY <1>6, <3>1, <3>2, UnsentIs DEF Line
    <3>4. CASE Lapses(p, id)
      <4>1. v = w
        BY <1>6, <3>4 DEF Lapses
      <4>2. t = s
        BY <1>1, <1>6, <2>1, <2>4, <3>4, SendLine
      <4> QED
        BY <1>9, <2>2, <4>1, <4>2
    <3>5. CASE Queues(p, id) /\ Whole(p)
      <4>1. t = Cat(s, One(f))
        BY <1>1, <1>6, <2>1, <2>4, <3>3, <3>5, SendLine
      <4>2. Fills(s, a, w)
        BY <1>7, <3>5 DEF Full
      <4>3. CASE handle[p][id].op.kind = "write"
        <5>1. v = w + f.len /\ f.tag = "Data" /\ f.pos = w
          BY <1>6, <2>4, <3>1, <3>5, <4>3 DEF OpSend, Queues, Dated
        <5>2. v = w + Body(f)
          BY <5>1 DEF Body
        <5> QED
          BY <3>2, <4>1, <4>2, <5>1, <5>2, FitsMore DEF Goal
      <4>4. CASE handle[p][id].op.kind = "read"
        <5>1. v = w /\ f.tag = "WindowUpdate"
          BY <1>6, <2>4, <3>1, <3>5, <4>4 DEF OpSend, Queues, Dated
        <5>2. Body(f) = 0
          BY <5>1 DEF Body
        <5> QED
          BY <1>10, <2>2, <3>2, <4>1, <5>1, <5>2
      <4> QED
        BY <3>2, <4>3, <4>4 DEF FrameOps
    <3>6. CASE Queues(p, id) /\ ~Whole(p)
      <4>1. t = s
        BY <1>1, <1>6, <2>1, <2>4, <3>6, SendLine
      <4>2. w <= v
        <5>1. f.len \in Nat
          BY <3>2 DEF Frames
        <5>2. v = w + f.len \/ v = w
          BY <1>6, <3>1, <3>2, <3>6 DEF Queues, FrameOps
        <5> QED
          BY <5>1, <5>2
      <4>3. Fits(t, a, v)
        BY <1>7, <4>1, <4>2, FitsLess
      <4>4. ~Full(p)
        <5>1. rx[p][id] = "open"
          BY <1>1, <3>2, <3>6, LiveReceiver DEF Queues, Whole, ClosingStates
        <5>2. conn[p] = "CleanupReceivers"
          BY <3>6, <5>1 DEF Termed, Whole, ClosingStates
        <5>3. Within(wire[p], Unended) /\ wire[p] \in Seq(Frames)
          BY <1>1, <5>2, TermedParts
        <5> QED
          BY <3>6, <5>3, UnendedLast DEF Full
      <4> QED
        BY <2>2, <4>3, <4>4 DEF Goal
    <3> QED
      BY <2>4, <3>4, <3>5, <3>6 DEF OpSend
  <2>5. ASSUME NEW f, OpClose(p, id, f), written'[p][id] = written[p][id] PROVE Goal
    <3>1. f \in Frames /\ f.len = 0 /\ (t = Cat(s, One(f)) \/ t = s)
      BY <1>1, <1>6, <2>1, <2>5, CloseLine
    <3>2. Body(f) = 0
      BY <3>1, FrameAmounts
    <3> QED
      BY <1>6, <1>9, <1>10, <2>2, <2>5, <3>1, <3>2
  <2>6. ASSUME OpRest(p, id) \/ OpDrop(p, id), OpSilent(p, id) PROVE Goal
    <3>1. t = s /\ v = w
      BY <1>1, <1>6, <2>1, <2>6, RestLine DEF OpSilent
    <3> QED
      BY <1>9, <2>2, <3>1
  <2> QED
    BY <2>1, <2>3, <2>4, <2>5, <2>6 DEF HandleMove
<1> QED
  BY <1>12, <1>13, <1>14, <1>15, <1>16, <1>17, <1>18 DEF Touches

\* Whoever still hears a stream has counted the bytes of the frame it took.
LEMMA FrameCounts ==
  ASSUME NEW p, NEW o, NEW id, NEW f, Taken(p, o, id, f), Dated(p, id), Hears(p, id)'
  PROVE  rcvd'[p][id] = rcvd[p][id] + Body(f)
<1>1. /\ p \in Peers /\ id \in Ids /\ f \in Frames /\ Typed(p) /\ Typed(p)' /\ LineSame(p, id)
      /\ Body(f) \in Nat /\ o = Other(p) /\ Other(o) = p /\ o \in Peers /\ o # p
      /\ Typed(o)' /\ p \in Endpoints /\ StreamsOK /\ IsStreamFrame(f) /\ f.id = id
      /\ f \in Seemly(o, id)
  BY TakenParts
<1>2. /\ BothOurs /\ Settled /\ Settled' /\ on_frame(p) /\ EndpointStep(p) /\ f = Head(wire[o])
      /\ f \in StreamFrames(id) /\ Sound(o, id)
  BY DEF Taken
<1>3. rcvd[p][id] \in Nat
  BY <1>1, <1>2, SettledParts DEF GhostTypes
<1>4. FrameStep(p, id, f)
  BY <1>1, <1>2, FrameCases
<1>5. CASE FrameUnknown(p, id, f)
  <2>1. /\ id \notin entry'[p] /\ "SYN" \notin f.flags /\ rcvd'[p][id] = rcvd[p][id]
    BY <1>5 DEF FrameUnknown, SameStream
  <2>2. Awaits(p, id)
    <3>1. Awaits(p, id)'
      BY <2>1 DEF Hears
    <3> QED
      BY <1>1, <1>2, <3>1, AwaitsBack
  <2>3. SynFirst(Path(o, id))
    BY <1>1, <1>2, <2>2 DEF Sound, SynAhead
  <2>4. /\ Path(o, id) = Cat(One(f), Path(o, id)') /\ One(f) \in Seq(Frames)
        /\ Path(o, id)' \in Seq(Frames)
    BY <1>1, TakenParts, OneType, NextLineType
  <2>5. SynFirst(One(f))
    BY <2>3, <2>4, FirstCat
  <2>6. f.len > 0 => "SYN" \in f.flags
    BY <1>1, <2>5, SynOne
  <2>7. f.len \in Nat /\ (f.len = 0 => Body(f) = 0)
    BY <1>1, FrameAmounts
  <2> QED
    BY <1>3, <2>1, <2>6, <2>7
<1>6. CASE FrameReset(p, id, f)
  <2>1. f.len = 0
    BY <1>1, <1>6 DEF Seemly, FrameReset
  <2>2. Body(f) = 0
    BY <1>1, <2>1, FrameAmounts
  <2> QED
    BY <1>3, <1>6, <2>2 DEF FrameReset
<1>7. CASE FrameReject(p, id, f)
  BY <1>7, RejectEnds
<1>8. CASE FrameAccept(p, id, f)
  <2>1. SynFor(f, id) /\ ~is_outbound(p, id)
    BY <1>1, <1>8 DEF FrameAccept, SynFor
  <2>2. Unborn(p, id)
    BY <1>1, <1>2, <2>1, SynArrives
  <2>3. rcvd[p][id] = 0
    BY <2>2 DEF Dated
  <2> QED
    BY <1>1, <1>8, <2>3 DEF FrameAccept
<1>9. CASE FramePlain(p, id, f)
  <2>1. id \in entry[p]
    BY <1>9 DEF FramePlain
  <2>2. /\ Body(f) <= shared[p][id].fc.receive_window
        /\ shared[p][id].fc.send_window + Credit(f) <= U32_MAX
    BY <2>1, NeverRefused
  <2>3. /\ Body(f) \in Nat /\ Credit(f) \in Nat /\ shared[p][id].fc.receive_window \in Nat
        /\ shared[p][id].fc.send_window \in Nat /\ U32_MAX \in Nat
    <3>1. shared[p][id] \in SharedSet
      BY <1>1 DEF Typed, StreamTypes
    <3>2. shared[p][id].fc.receive_window \in 0 .. U32_MAX
          /\ shared[p][id].fc.send_window \in 0 .. U32_MAX
      <4>1. /\ SendV(p, id) = shared[p][id].fc.send_window
            /\ RecvV(p, id) = shared[p][id].fc.receive_window
        BY <1>1, <2>1, HeldValues
      <4> QED
        BY <4>1, TakenParts
    <3>3. U32_MAX \in Nat
      BY FlowAssumption
    <3> QED
      BY <1>1, <3>2, <3>3, FrameAmounts
  <2>4. Booked(p, id, f)
    <3>1. ~(\/ Body(f) > shared[p][id].fc.receive_window
            \/ shared[p][id].fc.send_window + Credit(f) > U32_MAX)
      BY <2>2, <2>3
    <3> QED
      BY <1>9, <3>1 DEF FramePlain
  <2> QED
    BY <2>4 DEF Booked
<1> QED
  BY <1>4, <1>5, <1>6, <1>7, <1>8, <1>9 DEF FrameStep

\* A direction that was full when its last frames had left was so before.
LEMMA FullBefore ==
  ASSUME BothOurs, Settled, NEW p \in Peers, EndpointStep(p), NEW o \in Peers, o = Other(p),
         Full(o)'
  PROVE  Full(o)
<1>1. conn'[o] = conn[o] /\ FrameTypes /\ wire[o] \in Seq(Frames)
  BY OtherSide, SettledParts DEF KeptState, FrameTypes
<1>2. CASE on_frame(p)
  <2>1. wire'[o] = Tail(wire[o]) /\ wire[o] # <<>>
    BY <1>2, FrameTaken
  <2>2. PICK f \in Frames, t \in Seq(Frames) :
          t = Tail(wire[o]) /\ wire[o] = Cat(One(f), t)
    <3>1. Head(wire[o]) \in Frames /\ Tail(wire[o]) \in Seq(Frames)
          /\ wire[o] = Cat(One(Head(wire[o])), Tail(wire[o]))
      BY <1>1, <2>1, CatHead
    <3> QED
      BY <3>1
  <2>3. ASSUME EndsTerm(t) PROVE EndsTerm(wire[o])
    <3>1. PICK a \in Seq(Frames) : t = Cat(a, One(term))
      BY <2>3 DEF EndsTerm
    <3>2. term \in Frames
      BY TermFrame
    <3>3. One(term) \in Seq(Frames) /\ One(f) \in Seq(Frames)
      BY <3>2, OneType
    <3>4. Cat(One(f), a) \in Seq(Frames)
      BY <3>3, CatType
    <3>5. Cat(Cat(One(f), a), One(term)) = Cat(One(f), Cat(a, One(term)))
      BY <3>3, CatAssoc
    <3>6. wire[o] = Cat(Cat(One(f), a), One(term))
      BY <2>2, <3>1, <3>5
    <3> QED
      BY <3>4, <3>6 DEF EndsTerm
  <2>4. Whole(o)' => Whole(o)
    BY <1>1 DEF Whole
  <2>5. EndsTerm(wire[o])' => EndsTerm(t)
    BY <2>1, <2>2 DEF EndsTerm
  <2> QED
    BY <2>3, <2>4, <2>5 DEF Full
<1>3. CASE ~on_frame(p)
  <2>1. Outward(p)
    BY <1>3, SettledParts, EndpointActions, OutwardSteps
  <2>2. wire'[o] = wire[o]
    BY <2>1 DEF Outward
  <2>3. EndsTerm(wire[o])' => EndsTerm(wire[o])
    BY <2>2 DEF EndsTerm
  <2>4. Whole(o)' => Whole(o)
    BY <1>1 DEF Whole
  <2> QED
    BY <2>3, <2>4 DEF Full
<1> QED
  BY <1>2, <1>3

\* A step that takes no frame leaves what comes in as it is.
LEMMA StillSteps ==
  ASSUME BothOurs, Settled, Settled', NEW p \in Peers, EndpointStep(p), ~on_frame(p),
         NEW o \in Peers, o = Other(p), NEW id \in Ids
  PROVE  Path(o, id)' = Path(o, id) /\ rcvd'[p] = rcvd[p]
<1>1. p \in Endpoints /\ FrameTypes
  BY SettledParts
<1>2. \/ Sending(p) \/ Ending(p) \/ poll_new_outbound(p)
      \/ \E j \in Ids : HandleAction(p, j) \/ on_drop_stream(p, j)
  BY <1>1, EndpointActions
<1>3. Path(o, id)' = Path(o, id)
  <2>1. Outward(p)
    BY <1>2, OutwardSteps
  <2> QED
    BY <2>1, OtherLine
<1>4. rcvd'[p] = rcvd[p]
  <2>1. CASE \E j \in Ids : HandleAction(p, j)
    <3>1. PICK j \in Ids : HandleAction(p, j)
      BY <2>1
    <3>2. ElseKept(p, j)
      BY <3>1, SettledParts, HandleMoves
    <3> QED
      BY <3>2 DEF ElseKept
  <2>2. CASE ~\E j \in Ids : HandleAction(p, j)
    BY <1>1, <1>2, <2>2, CountsKept
  <2> QED
    BY <2>1, <2>2
<1> QED
  BY <1>3, <1>4

\* The direction towards the endpoint that takes a step.
LEMMA OtherIntact ==
  ASSUME NEW p, NEW id, Acts(p, id), NEW o, o = Other(p), Dated(p, id), Dated(o, id),
         Intact(o, id)
  PROVE  Intact(o, id)'
<1>1. /\ p \in Peers /\ id \in Ids /\ o \in Peers /\ BothOurs /\ Settled /\ Settled'
      /\ EndpointStep(p) /\ Other(o) = p /\ o # p /\ p \in Endpoints
  BY ActsParts DEF Acts
<1>2. Typed(o) /\ Typed(o)' /\ FrameTypes /\ GhostTypes /\ Sound(o, id) /\ Sound(p, id)
  BY <1>1, SettledParts, NextSettledParts DEF Acts
<1>3. written'[o] = written[o]
  BY <1>1, OtherSide DEF KeptState
<1>4. SUFFICES ASSUME Hears(p, id)'
               PROVE  /\ Fits(Path(o, id)', rcvd'[p][id], written[o][id])
                      /\ Full(o)' => Fills(Path(o, id)', rcvd'[p][id], written[o][id])
  BY <1>1, <1>3 DEF Intact
<1>5. PICK a \in Nat, w \in Nat, s \in Seq(Frames), t \in Seq(Frames) :
        /\ a = rcvd[p][id] /\ w = written[o][id] /\ s = Path(o, id) /\ t = Path(o, id)'
  <2>1. Path(o, id) \in Seq(Frames) /\ Path(o, id)' \in Seq(Frames)
    BY <1>1, <1>2, LineType, NextLineType
  <2> QED
    BY <1>1, <1>2, <2>1 DEF GhostTypes, FrameTypes
<1>6. Full(o)' => Full(o)
  BY <1>1, FullBefore
<1>7. ASSUME Hears(p, id) PROVE Fits(s, a, w) /\ (Full(o) => Fills(s, a, w))
  BY <1>1, <1>5, <1>7 DEF Intact
<1> DEFINE Goal(b) == Fits(t, b, w) /\ (Full(o)' => Fills(t, b, w))
<1> HIDE DEF Goal
<1>8. SUFFICES Goal(rcvd'[p][id])
  BY <1>5 DEF Goal
<1>9. CASE on_frame(p)
  <2>1. Hears(p, id)
    <3>1. ~poll_new_outbound(p)
      <4>1. wire' # wire
        <5>1. wire'[o] = Tail(wire[o]) /\ wire[o] # <<>> /\ wire[o] \in Seq(Frames)
          BY <1>1, <1>9, FrameTaken
        <5>2. ASSUME NEW u \in Seq(Frames), u # <<>> PROVE Tail(u) # u
          <6>1. Len(Tail(u)) = Len(u) - 1 /\ Len(u) \in Nat
            BY <5>2, HeadTailProperties
          <6>2. PICK k, n : k = Len(Tail(u)) /\ n = Len(u)
            OBVIOUS
          <6>3. Tail(u) = u => k = n
            BY <6>2
          <6>4. k = n - 1 /\ n \in Nat
            BY <6>1, <6>2
          <6>5. k # n
            BY <6>4
          <6> QED
            BY <6>3, <6>5
        <5> QED
          BY <5>1, <5>2
      <4> QED
        BY <1>1, <4>1, OpenMoves
    <3> QED
      BY <1>1, <1>4, <3>1, HearsBack
  <2>2. PICK f \in Frames : f = Head(wire[o])
    <3>1. Head(wire[o]) \in Frames
      BY <1>1, <1>9, FrameTaken
    <3> QED
      BY <3>1
  <2>3. CASE f \in StreamFrames(id)
    <3>1. Taken(p, o, id, f)
      BY <1>1, <1>2, <1>9, <2>2, <2>3 DEF Taken
    <3>2. rcvd'[p][id] = a + Body(f)
      BY <1>4, <1>5, <3>1, FrameCounts
    <3>3. s = Cat(One(f), t)
      BY <1>5, <3>1, TakenParts
    <3>4. Fits(t, a + Body(f), w) /\ (Full(o) => Fills(t, a + Body(f), w))
      BY <1>7, <2>1, <3>3, FitsTake
    <3> QED
      BY <1>6, <3>2, <3>4 DEF Goal
  <2>4. CASE f \notin StreamFrames(id)
    <3>1. SameStream(p, id)
      BY <1>1, <1>9, <2>2, <2>4, FrameCases
    <3>2. rcvd'[p][id] = a
      BY <1>5, <3>1 DEF SameStream
    <3>3. t = s
      BY <1>1, <1>5, <1>9, <2>2, <2>4, FrameLeaves
    <3> QED
      BY <1>6, <1>7, <2>1, <3>2, <3>3 DEF Goal
  <2> QED
    BY <2>3, <2>4
<1>10. CASE ~on_frame(p)
  <2>2. t = s /\ rcvd'[p] = rcvd[p]
    BY <1>1, <1>5, <1>10, StillSteps
  <2>4. CASE Hears(p, id)
    BY <1>5, <1>6, <1>7, <2>2, <2>4 DEF Goal
  <2>5. CASE ~Hears(p, id)
    <3>1. poll_new_outbound(p) /\ id = nextId[p]
      BY <1>1, <1>4, <2>5, HearsBack
    <3>2. Unborn(p, id) /\ Unborn(o, id)
      BY <1>1, <3>1, OpenMoves
    <3>3. a = 0 /\ w = 0
      BY <1>5, <3>2 DEF Dated
    <3>4. Line(o, id) = Nil
      BY <1>2, <3>2 DEF Sound, NotYet
    <3>5. Path(o, id) \in Seq(Frames) /\ Unsent(o, id) \in Seq(Frames)
      BY <1>1, <1>2, LineType
    <3>6. s = Nil
      <4>1. Cat(s, Unsent(o, id)) = Nil
        BY <1>5, <3>4 DEF Line
      <4>2. Within(Cat(s, Unsent(o, id)), {})
        BY <4>1, SynNil
      <4>3. Within(s, {})
        BY <3>5, <4>2, WithinCat
      <4> QED
        BY <4>3, NilIs
    <3>7. Fits(Nil, 0, 0) /\ Fills(Nil, 0, 0)
      <4>1. Run(Nil, 0) /\ Load(Nil) = 0
        BY RunNil
      <4> QED
        BY <4>1 DEF Fits, Fills
    <3> QED
      BY <1>5, <2>2, <3>3, <3>6, <3>7 DEF Goal
  <2> QED
    BY <2>4, <2>5
<1> QED
  BY <1>9, <1>10

\* The credit is right, the terminating frame is the last, and both directions
\* of every stream carry what was written.
ByteInv ==
  /\ CreditInv
  /\ \A p \in Peers : Termed(p)
  /\ \A p \in Peers, id \in Ids : Dated(p, id) /\ Intact(p, id)

\* At the beginning nothing was written and nothing is under way.
LEMMA InitBytes ==
  ASSUME BothOurs, SessionInit PROVE ByteInv
<1>1. CreditInv
  BY InitCredit
<1>2. /\ conn = [p \in Peers |-> "Active"]
      /\ handle = [p \in Peers |-> [id \in Ids |-> NoHandle]]
      /\ wire = [p \in Peers |-> <<>>] /\ pendR = [p \in Peers |-> <<>>]
      /\ pendW = [p \in Peers |-> <<>>] /\ pendQ = [p \in Peers |-> <<>>]
      /\ rcvd = [p \in Peers |-> [id \in Ids |-> 0]]
      /\ written = [p \in Peers |-> [id \in Ids |-> 0]]
  BY DEF SessionInit, Init, PerStream
<1>3. NoHandle.life = "none" /\ NoHandle.op.kind = "idle"
  BY DEF NoHandle, Idle
<1>4. ASSUME NEW p \in Peers PROVE Termed(p)
  <2>1. wire[p] = Nil /\ pendQ[p] = Nil /\ pendR[p] = Nil /\ pendW[p] = Nil
    BY <1>2 DEF Nil
  <2>2. Leaving(p) = Nil
    BY <2>1, NilType, CatNil DEF Leaving
  <2>3. \A S : Within(Nil, S)
    BY SynNil
  <2>4. LastOnly(Nil)
    <3>1. Nil \in Seq(Frames)
      BY NilType
    <3> QED
      BY <2>3, <3>1, UnendedLast
  <2> QED
    BY <1>2, <2>1, <2>2, <2>3, <2>4 DEF Termed
<1>5. ASSUME NEW p \in Peers, NEW id \in Ids PROVE Dated(p, id) /\ Intact(p, id)
  <2>1. Other(p) \in Peers
    BY OtherPeer
  <2>2. Dated(p, id)
    BY <1>2, <1>3 DEF Dated
  <2>3. Path(p, id) = Nil
    <3>1. Unborn(p, id)
      BY <1>2, <1>3 DEF Unborn
    <3>2. Line(p, id) = Nil
      BY <1>1, <3>1 DEF CreditInv, Sound, NotYet
    <3>3. Typed(p)
      BY <1>1, SettledParts DEF CreditInv
    <3>4. Path(p, id) \in Seq(Frames) /\ Unsent(p, id) \in Seq(Frames)
      BY <3>3, LineType
    <3>5. Within(Cat(Path(p, id), Unsent(p, id)), {})
      BY <3>2, SynNil DEF Line
    <3>6. Within(Path(p, id), {})
      BY <3>4, <3>5, WithinCat
    <3> QED
      BY <3>4, <3>6, NilIs
  <2>4. rcvd[Other(p)][id] = 0 /\ written[p][id] = 0
    BY <1>2, <2>1
  <2>5. Fits(Nil, 0, 0) /\ Fills(Nil, 0, 0)
    <3>1. Run(Nil, 0) /\ Load(Nil) = 0
      BY RunNil
    <3> QED
      BY <3>1 DEF Fits, Fills
  <2>6. Intact(p, id)
    BY <2>3, <2>4, <2>5 DEF Intact
  <2> QED
    BY <2>2, <2>6
<1> QED
  BY <1>1, <1>4, <1>5 DEF ByteInv

\* Every step keeps the invariant.
LEMMA BytesStay ==
  ASSUME BothOurs, ByteInv, [SessionNext]_allVars PROVE ByteInv'
<1>1. CreditInv /\ Settled /\ CreditInv' /\ Settled'
  BY CreditStays DEF ByteInv, CreditInv
<1>2. CASE UNCHANGED allVars
  <2>1. /\ UNCHANGED <<conn, entry, rx, pendR, pendW, pendQ, wire, shared, chan, handle>>
        /\ UNCHANGED <<written, rcvd>>
    BY <1>2 DEF allVars, vars, connVars, pendVars, sockVars, tableVars, handleVars, ghostVars
  <2>2. ASSUME NEW p \in Peers PROVE Termed(p)'
    <3>1. Termed(p)
      BY DEF ByteInv
    <3> QED
      BY <2>1, <3>1 DEF Termed, LastOnly, Leaving
  <2>3. ASSUME NEW p \in Peers, NEW id \in Ids PROVE Dated(p, id)' /\ Intact(p, id)'
    <3>1. Dated(p, id) /\ Intact(p, id)
      BY DEF ByteInv
    <3>2. Dated(p, id)'
      BY <2>1, <3>1 DEF Dated, Unborn
    <3>3. ASSUME NEW x
          PROVE  /\ Path(x, id)' = Path(x, id) /\ GoingAway(x)' = GoingAway(x)
                 /\ Unborn(x, id)' = Unborn(x, id) /\ Coming(x, id)' = Coming(x, id)
      BY <2>1 DEF Path, Queued, Outgoing, GoingAway, Unborn, Coming, Places
    <3>4. Hears(Other(p), id)' = Hears(Other(p), id)
      BY <2>1, <3>3 DEF Hears, Awaits
    <3>5. Full(p)' = Full(p)
      BY <2>1 DEF Full, Whole, EndsTerm
    <3>6. Intact(p, id)'
      BY <2>1, <3>1, <3>3, <3>4, <3>5 DEF Intact
    <3> QED
      BY <3>2, <3>6
  <2> QED
    BY <1>1, <2>2, <2>3 DEF ByteInv
<1>3. CASE \E p \in Peers : p \in Endpoints /\ EndpointStep(p)
  <2>1. PICK p \in Peers : EndpointStep(p)
    BY <1>3
  <2>2. PICK o \in Peers : o = Other(p) /\ Peers = {p, o}
    BY <2>1, OtherPeer
  <2>3. Termed(p)' /\ Termed(o)'
    BY <1>1, <2>1, <2>2, OwnTermed, OtherTermed DEF ByteInv
  <2>4. ASSUME NEW id \in Ids
        PROVE  Dated(p, id)' /\ Dated(o, id)' /\ Intact(p, id)' /\ Intact(o, id)'
    <3>1. /\ Dated(p, id) /\ Dated(o, id) /\ Intact(p, id) /\ Intact(o, id) /\ Termed(p)
          /\ Sound(p, id) /\ Sound(o, id)
      BY <1>1, <2>1, <2>2 DEF ByteInv, CreditInv
    <3>2. Dated(p, id)'
      BY <1>1, <2>1, <3>1, DatedStays
    <3>3. Dated(o, id)'
      <4>1. /\ handle'[o] = handle[o] /\ written'[o] = written[o] /\ rcvd'[o] = rcvd[o]
        BY <1>1, <2>1, <2>2, OtherSide DEF KeptState
      <4> QED
        BY <3>1, <4>1 DEF Dated, Unborn
    <3>4. Intact(p, id)'
      BY <1>1, <2>1, <3>1, OwnIntact
    <3>5. Acts(p, id)
      BY <1>1, <2>1, <2>2, <3>1 DEF Acts
    <3>6. Intact(o, id)'
      BY <2>2, <3>1, <3>5, OtherIntact
    <3> QED
      BY <3>2, <3>3, <3>4, <3>6
  <2> QED
    BY <1>1, <2>2, <2>3, <2>4 DEF ByteInv
<1> QED
  BY <1>2, <1>3, OneOfUs

\* The invariant says what BytesIntact says.
LEMMA BytesThen ==
  ASSUME BothOurs, ByteInv PROVE BytesIntact
<1> SUFFICES ASSUME NEW p \in Peers, NEW id \in Ids, NEW q, q = Other(p), Listening(q, id)
             PROVE  /\ Contiguous(Bodies(p, id), rcvd[q][id])
                    /\ (\/ conn[p] \in {"Active"} \cup ClosingStates
                        \/ wire[p] # <<>> /\ Last(wire[p]) = term)
                       => rcvd[q][id] + Total(Bodies(p, id)) = written[p][id]
  BY DEF BytesIntact
<1>1. Hears(q, id)
  BY DEF Listening, Hears, Awaits, Unborn
<1>2. /\ Fits(Path(p, id), rcvd[q][id], written[p][id])
      /\ Full(p) => Fills(Path(p, id), rcvd[q][id], written[p][id])
  BY <1>1 DEF ByteInv, Intact
<1>3. ASSUME wire[p] # <<>>, Last(wire[p]) = term PROVE EndsTerm(wire[p])
  <2>1. wire[p] \in Seq(Frames)
    BY SettledParts DEF ByteInv, CreditInv, FrameTypes
  <2>2. ASSUME NEW s \in Seq(Frames), s # <<>>, Last(s) = term PROVE EndsTerm(s)
    <3>1. PICK a \in Seq(Frames), f \in Frames : s = Append(a, f)
      BY <2>2, SequenceEmptyOrAppend
    <3>2. s[Len(s)] = f
      BY <3>1
    <3>3. s[Len(s)] = term
      BY <2>2 DEF Last
    <3>4. s = Cat(a, One(term))
      BY <3>1, <3>2, <3>3, CatAppend
    <3> QED
      BY <3>4 DEF EndsTerm
  <2> QED
    BY <1>3, <2>1, <2>2
<1>4. (\/ conn[p] \in {"Active"} \cup ClosingStates
       \/ wire[p] # <<>> /\ Last(wire[p]) = term) => Full(p)
  BY <1>3 DEF Full, Whole
<1> QED
  BY <1>2, <1>4 DEF Fits, Fills, Run, Load, Weight, Bodies

\* Between two endpoints that run this code, the bytes of every stream under
\* way continue those that arrived, in order, without gap or repetition, for any
\* number of streams, writes, windows and any channel and socket; and unless the
\* connection failed or was dropped they reach the last byte that poll_write
\* queued while the connection took commands, so that the graceful close of
\* closing.rs leaves none of these behind.  A body that the channel accepts
\* after closing.rs has drained it is lost (drain_race) and not part of this.
THEOREM BytesArriveIntact ==
  ASSUME BothOurs PROVE Spec => []BytesIntact
<1>1. SessionInit => ByteInv
  BY InitBytes
<1>2. ByteInv /\ [SessionNext]_allVars => ByteInv'
  BY BytesStay
<1>3. ByteInv => BytesIntact
  BY BytesThen
<1> QED
  BY <1>1, <1>2, <1>3, PTL DEF Spec

----------------------------------------------------------------------------
(* The end of a stream: FIN is behind all bytes                             *)

NoBody == {f \in Frames : Body(f) = 0}
NoFin  == {f \in Frames : "FIN" \notin f.flags}
NoRst  == {f \in Frames : "RST" \notin f.flags}

HasFin(s) == ~Within(s, NoFin)

FinLast(s) == \A i, j \in DOMAIN s : i < j /\ "FIN" \in s[i].flags => s[j] \in NoBody

\* Both for sequences put together.
LEMMA FinCat ==
  ASSUME NEW s \in Seq(Frames), NEW t \in Seq(Frames)
  PROVE  /\ HasFin(Cat(s, t)) <=> HasFin(s) \/ HasFin(t)
         /\ FinLast(Cat(s, t)) <=>
              FinLast(s) /\ FinLast(t) /\ (HasFin(s) => Within(t, NoBody))
<1>1. HasFin(Cat(s, t)) <=> HasFin(s) \/ HasFin(t)
  BY WithinCat DEF HasFin
<1>2. PICK u : u = Cat(s, t)
  OBVIOUS
<1>3. /\ DOMAIN s = 1 .. Len(s) /\ DOMAIN t = 1 .. Len(t)
      /\ DOMAIN u = 1 .. Len(s) + Len(t) /\ Len(s) \in Nat /\ Len(t) \in Nat
      /\ \A i \in 1 .. Len(s) : u[i] = s[i]
      /\ \A i \in 1 .. Len(t) : u[Len(s) + i] = t[i]
  BY <1>2, CatElements
<1>4. PICK m \in Nat, n \in Nat : m = Len(s) /\ n = Len(t)
  BY <1>3
<1>5. \A i \in 1 .. m : u[i] = s[i] /\ i \in 1 .. m + n
  BY <1>3, <1>4
<1>6. \A i \in 1 .. n : u[m + i] = t[i] /\ m + i \in 1 .. m + n
  BY <1>3, <1>4
<1>7. ASSUME FinLast(u) PROVE FinLast(s)
  <2> SUFFICES ASSUME NEW i \in 1 .. m, NEW j \in 1 .. m, i < j, "FIN" \in s[i].flags
               PROVE  s[j] \in NoBody
    BY <1>3, <1>4 DEF FinLast
  <2>1. i \in DOMAIN u /\ j \in DOMAIN u /\ u[i] = s[i] /\ u[j] = s[j]
    BY <1>3, <1>4, <1>5
  <2> QED
    BY <1>7, <2>1 DEF FinLast
<1>8. ASSUME FinLast(u) PROVE FinLast(t)
  <2> SUFFICES ASSUME NEW i \in 1 .. n, NEW j \in 1 .. n, i < j, "FIN" \in t[i].flags
               PROVE  t[j] \in NoBody
    BY <1>3, <1>4 DEF FinLast
  <2>1. /\ m + i \in DOMAIN u /\ m + j \in DOMAIN u /\ u[m + i] = t[i] /\ u[m + j] = t[j]
        /\ m + i < m + j
    BY <1>3, <1>4, <1>6
  <2> QED
    BY <1>8, <2>1 DEF FinLast
<1>9. ASSUME FinLast(u), HasFin(s) PROVE Within(t, NoBody)
  <2>1. PICK i \in 1 .. m : "FIN" \in s[i].flags
    <3>1. \A i \in 1 .. m : s[i] \in Frames
      BY <1>3, <1>4
    <3> QED
      BY <1>3, <1>4, <1>9, <3>1 DEF HasFin, Within, NoFin
  <2> SUFFICES ASSUME NEW j \in 1 .. n PROVE t[j] \in NoBody
    BY <1>3, <1>4 DEF Within
  <2>2. i \in DOMAIN u /\ m + j \in DOMAIN u /\ u[i] = s[i] /\ u[m + j] = t[j] /\ i < m + j
    BY <1>3, <1>4, <1>5, <1>6
  <2> QED
    BY <1>9, <2>1, <2>2 DEF FinLast
<1>10. ASSUME FinLast(s), FinLast(t), HasFin(s) => Within(t, NoBody) PROVE FinLast(u)
  <2> SUFFICES ASSUME NEW i \in 1 .. m + n, NEW j \in 1 .. m + n, i < j,
                      "FIN" \in u[i].flags
               PROVE  u[j] \in NoBody
    BY <1>3, <1>4 DEF FinLast
  <2>1. CASE j <= m
    <3>1. i \in 1 .. m /\ j \in 1 .. m /\ u[i] = s[i] /\ u[j] = s[j]
      BY <1>5, <2>1
    <3> QED
      BY <1>3, <1>4, <1>10, <3>1 DEF FinLast
  <2>2. CASE i > m
    <3>1. i - m \in 1 .. n /\ j - m \in 1 .. n /\ i - m < j - m
          /\ m + (i - m) = i /\ m + (j - m) = j
      BY <2>2
    <3>2. u[i] = t[i - m] /\ u[j] = t[j - m]
      BY <1>6, <3>1
    <3> QED
      BY <1>3, <1>4, <1>10, <3>1, <3>2 DEF FinLast
  <2>3. CASE i <= m /\ j > m
    <3>1. i \in 1 .. m /\ j - m \in 1 .. n /\ m + (j - m) = j
      BY <2>3
    <3>2. u[i] = s[i] /\ u[j] = t[j - m]
      BY <1>5, <1>6, <3>1
    <3>3. HasFin(s)
      BY <1>3, <1>4, <3>1, <3>2 DEF HasFin, Within, NoFin
    <3> QED
      BY <1>3, <1>4, <1>10, <3>1, <3>2, <3>3 DEF Within
  <2> QED
    BY <2>1, <2>2, <2>3
<1> QED
  BY <1>1, <1>2, <1>7, <1>8, <1>9, <1>10

\* Of one frame and of none.
LEMMA FinOne ==
  ASSUME NEW f \in Frames
  PROVE  /\ HasFin(One(f)) <=> "FIN" \in f.flags
         /\ FinLast(One(f)) /\ ~HasFin(Nil) /\ FinLast(Nil)
<1>1. HasFin(One(f)) <=> "FIN" \in f.flags
  BY SynOne DEF HasFin, NoFin
<1>2. FinLast(One(f)) /\ FinLast(Nil)
  BY DEF FinLast, One, Nil
<1>3. ~HasFin(Nil)
  BY SynNil DEF HasFin
<1> QED
  BY <1>1, <1>2, <1>3

\* Frames without a body carry nothing.
LEMMA BareLoad ==
  ASSUME NEW s \in Seq(Frames), Within(s, NoBody) PROVE Load(s) = 0
<1> DEFINE P == {u \in Seq(Frames) : Within(u, NoBody) => Load(u) = 0}
<1>1. <<>> \in P
  <2>1. Nil \in Seq(Frames) /\ Load(Nil) = 0
    BY NilType, RunNil
  <2> QED
    BY <2>1 DEF Nil
<1>2. ASSUME NEW u \in P, NEW x \in Frames PROVE Append(u, x) \in P
  <2>1. u \in Seq(Frames) /\ (Within(u, NoBody) => Load(u) = 0)
    OBVIOUS
  <2> HIDE DEF P
  <2>2. Append(u, x) = Cat(u, One(x)) /\ Append(u, x) \in Seq(Frames) /\ One(x) \in Seq(Frames)
    BY <2>1, CatAppend, OneType
  <2>3. Within(Cat(u, One(x)), NoBody) => Within(u, NoBody) /\ x \in NoBody
    BY <2>1, <2>2, WithinCat, SynOne
  <2>4. Load(Cat(u, One(x))) = Load(u) + Load(One(x)) /\ Load(One(x)) = Body(x)
    <3>1. 0 \in Nat
      OBVIOUS
    <3> QED
      BY <2>1, <2>2, <3>1, RunCat, RunOne
  <2>5. Within(Cat(u, One(x)), NoBody) => Load(Cat(u, One(x))) = 0
    BY <2>1, <2>3, <2>4 DEF NoBody
  <2> QED
    BY <2>2, <2>5 DEF P
<1>3. P \in SUBSET Seq(Frames)
  OBVIOUS
<1> HIDE DEF P
<1>4. \A u \in Seq(Frames) : u \in P
  BY <1>1, <1>2, <1>3, SeqInduct
<1> QED
  BY <1>4 DEF P

\* Frames without a body at the end make no difference to what fills, and with
\* nothing but such frames all has arrived.
LEMMA FillsBare ==
  ASSUME NEW s \in Seq(Frames), NEW r \in Seq(Frames), NEW a \in Nat, NEW w \in Nat,
         Within(r, NoBody)
  PROVE  /\ Fills(Cat(s, r), a, w) => Fills(s, a, w)
         /\ Fills(r, a, w) => a = w
<1>1. /\ Run(Cat(s, r), a) <=> Run(s, a) /\ Run(r, a + Load(s))
      /\ Load(Cat(s, r)) = Load(s) + Load(r) /\ Load(s) \in Nat /\ Load(r) \in Nat
  BY RunCat
<1>2. Load(r) = 0
  BY BareLoad
<1> QED
  BY <1>1, <1>2 DEF Fills

\* The state of p's side of a stream moves on, or the stream is new there.
Proceeds(p, id) ==
  Onward(shared[p][id].state, shared'[p][id].state) \/ shared[p][id].state = "None"

\* p writes no more to stream id: the handle is gone, its half is closed or
\* about to be, and no write is half way.
Silent(p, id) ==
  /\ ~Unborn(p, id) /\ handle[p][id].op.kind # "write"
  /\ \/ handle[p][id].life = "dropped"
     \/ ~can_write(shared[p][id].state)
     \/ handle[p][id].op.kind = "close"

\* Who writes no more never writes again.
LEMMA SilentStays ==
  ASSUME BothOurs, Settled, Settled', NEW p \in Peers, EndpointStep(p), NEW id \in Ids,
         Proceeds(p, id), Silent(p, id)
  PROVE  Silent(p, id)' /\ written'[p][id] = written[p][id]
<1>1. /\ p \in Endpoints /\ StreamTypes /\ StreamsOK /\ StreamsOK' /\ Typed(p) /\ Typed(p)'
      /\ FrameTypes /\ GhostTypes /\ handle[p][id] \in Handles /\ Slots(p)
  BY SettledParts, NextSettledParts
<1>2. handle[p][id].life \in {"live", "dropped"}
  BY <1>1 DEF Silent, Unborn, Handles
<1>3. handle[p][id].life = "live" => shared[p][id].state # "None"
  BY <1>1, HeldValues
<1>4. handle'[p][id].life = "live" => shared'[p][id].state # "None"
  BY <1>1, NextHeldValues
<1>5. ASSUME handle'[p][id] = handle[p][id] PROVE Silent(p, id)'
  <2>1. handle[p][id].life = "live" /\ ~can_write(shared[p][id].state) =>
          ~can_write(shared'[p][id].state)
    BY <1>3, <1>4, <1>5 DEF Proceeds, Onward
  <2> QED
    BY <1>2, <1>5, <2>1 DEF Silent, Unborn
<1> DEFINE Goal == Silent(p, id)' /\ written'[p][id] = written[p][id]
<1> HIDE DEF Goal
<1> SUFFICES Goal
  BY DEF Goal
<1>6. CASE Sits(p, id)
  BY <1>5, <1>6 DEF Sits, SameStream, Goal
<1>7. CASE Ending(p)
  <2>1. Fades(p, id) /\ written' = written
    BY <1>1, <1>7, EndingFades, CountsKept
  <2> QED
    BY <1>5, <2>1 DEF Fades, Goal
<1>8. CASE Arrives(p, id)
  <2>1. on_frame(p) /\ Head(wire[Other(p)]) \in Frames
    BY <1>8, FrameTaken DEF Arrives
  <2>2. PICK f \in Frames : f = Head(wire[Other(p)])
    BY <2>1
  <2>3. f \in StreamFrames(id) /\ FrameStep(p, id, f) /\ written' = written
    BY <1>1, <1>8, <2>1, <2>2, FrameCases, OnFrameSlots DEF Arrives
  <2>4. ~FrameAccept(p, id, f)
    <3>1. SUFFICES ASSUME FrameAccept(p, id, f) PROVE FALSE
      OBVIOUS
    <3>2. IsStreamFrame(f) /\ f.id = id
      BY <2>3, OfFrame
    <3>3. SynFor(f, id) /\ ~is_outbound(p, id)
      BY <3>1, <3>2 DEF FrameAccept, SynFor
    <3>4. Unborn(p, id)
      BY <2>1, <2>2, <3>3, SynArrives
    <3> QED
      BY <3>4 DEF Silent
  <2>5. handle'[p][id] = handle[p][id]
    BY <2>3, <2>4 DEF FrameStep, FrameUnknown, FrameReset, FrameReject, FramePlain,
         Booked, Refused, Fades, SameStream
  <2> QED
    BY <1>5, <2>3, <2>5 DEF Goal
<1>9. CASE poll_new_outbound(p) /\ id = nextId[p]
  BY <1>9, OpenMoves DEF Silent
<1>10. CASE on_drop_stream(p, id)
  <2>1. Fades(p, id) /\ written' = written
    BY <1>1, <1>10, DropMoves, CountsKept
  <2> QED
    BY <1>5, <2>1 DEF Fades, Goal
<1>11. CASE HandleAction(p, id)
  <2>1. HandleMove(p, id)
    BY <1>1, <1>11, HandleMoves
  <2>2. ASSUME NEW f, OpWrite(p, id, f) PROVE FALSE
    BY <2>2 DEF OpWrite, Starts, Silent
  <2>3. ASSUME NEW f, OpGrant(p, id, f), OpSilent(p, id) PROVE Goal
    BY <2>3 DEF OpGrant, Starts, OpSilent, Silent, Unborn, Goal
  <2>4. ASSUME OpSend(p, id) PROVE Goal
    <3>1. handle[p][id].op.kind = "read" /\ handle[p][id].life = "live"
      BY <2>4 DEF OpSend, Silent, FrameOps
    <3>2. handle'[p][id].life = "live" /\ handle'[p][id].op.kind = "idle"
      BY <1>1, <2>4, <3>1 DEF OpSend, Handles, Idle
    <3>3. written'[p][id] = written[p][id] /\ shared'[p][id].state = shared[p][id].state
      BY <2>4, <3>1 DEF OpSend, Queues, Lapses
    <3> QED
      BY <3>1, <3>2, <3>3 DEF Silent, Unborn, Goal
  <2>5. ASSUME NEW f, OpClose(p, id, f), written'[p][id] = written[p][id] PROVE Goal
    BY <2>5 DEF OpClose, Silent, Unborn, Goal
  <2>6. ASSUME OpRest(p, id), OpSilent(p, id) PROVE Goal
    <3>1. ~can_write(update_state(shared[p][id].state, "SendClosed"))
      <4>1. shared[p][id] \in SharedSet
        BY <1>1, EndpointsArePeers DEF StreamTypes
      <4>2. shared[p][id].state \in StreamStates \cup {"None"}
        BY <4>1 DEF SharedSet
      <4>3. shared[p][id].state \in StreamStates
        BY <1>3, <2>6, <4>2 DEF OpRest
      <4> QED
        BY <4>3 DEF StreamStates, OpenStates, update_state, can_write
    <3> QED
      BY <2>6, <3>1 DEF OpRest, OpSilent, Silent, Unborn, Goal
  <2>7. ASSUME OpDrop(p, id), OpSilent(p, id) PROVE Goal
    BY <2>7 DEF OpDrop, OpSilent, Silent, Unborn, Goal
  <2> QED
    BY <2>1, <2>2, <2>3, <2>4, <2>5, <2>6, <2>7 DEF HandleMove
<1>12. Touches(p, id)
  BY StepTouches
<1> QED
  BY <1>6, <1>7, <1>8, <1>9, <1>10, <1>11, <1>12 DEF Touches

FinBare == {f \in Frames : "FIN" \in f.flags => Body(f) = 0}

\* What p has under way ends with its FIN, which comes when p writes no more and
\* all bytes are on their way; a reset is sent only after the handle is gone.
Ceases(p, id) ==
  LET s == Path(p, id)
  IN  /\ FinLast(s) /\ Within(s, FinBare)
      /\ HasFin(s) => Silent(p, id)
      /\ HasFin(s) /\ Hears(Other(p), id) => Fills(s, rcvd[Other(p)][id], written[p][id])
      /\ handle[p][id].life # "dropped" => Within(s, NoRst)

\* The frames of a write or a window update are no FIN.
NoFinYet(p, id) ==
  handle[p][id].op.kind \in FrameOps => "FIN" \notin handle[p][id].op.frame.flags

\* A handle that is gone stays so.
LEMMA OpFinStays ==
  ASSUME BothOurs, Settled, Settled', NEW p \in Peers, EndpointStep(p), NEW id \in Ids
  PROVE  /\ NoFinYet(p, id) => NoFinYet(p, id)'
         /\ handle'[p][id].life # "dropped" => handle[p][id].life # "dropped"
<1>1. /\ p \in Endpoints /\ StreamTypes /\ StreamsOK /\ StreamsOK' /\ Typed(p) /\ Typed(p)'
      /\ FrameTypes /\ GhostTypes /\ handle[p][id] \in Handles /\ Slots(p)
  BY SettledParts, NextSettledParts
<1> DEFINE Goal == /\ NoFinYet(p, id) => NoFinYet(p, id)'
                   /\ handle'[p][id].life # "dropped" => handle[p][id].life # "dropped"
<1>2. ASSUME handle'[p][id] = handle[p][id] PROVE Goal
  BY <1>2 DEF NoFinYet
<1>3. ASSUME Unborn(p, id), handle'[p][id] \in {NewHandle("Syn"), NewHandle("Ack")} PROVE Goal
  <2>1. \A k : NewHandle(k).op.kind = "idle"
    BY DEF NewHandle, NoHandle, Idle
  <2>2. handle'[p][id].op.kind \notin FrameOps
    BY <1>3, <2>1 DEF FrameOps
  <2> QED
    BY <1>3, <2>2 DEF NoFinYet, Unborn
<1> HIDE DEF Goal
<1> SUFFICES Goal
  BY DEF Goal
<1>6. CASE Sits(p, id)
  BY <1>2, <1>6 DEF Sits, SameStream
<1>7. CASE Ending(p)
  <2>1. Fades(p, id)
    BY <1>1, <1>7, EndingFades
  <2> QED
    BY <1>2, <2>1 DEF Fades
<1>8. CASE Arrives(p, id)
  <2>1. on_frame(p) /\ Head(wire[Other(p)]) \in Frames
    BY <1>8, FrameTaken DEF Arrives
  <2>2. PICK f \in Frames : f = Head(wire[Other(p)])
    BY <2>1
  <2>3. f \in StreamFrames(id) /\ FrameStep(p, id, f)
    BY <1>1, <1>8, <2>1, <2>2, FrameCases DEF Arrives
  <2>4. CASE FrameAccept(p, id, f)
    <3>2. IsStreamFrame(f) /\ f.id = id
      BY <2>3, OfFrame
    <3>3. SynFor(f, id) /\ ~is_outbound(p, id) /\ handle'[p][id] = NewHandle("Ack")
      BY <2>4, <3>2 DEF FrameAccept, SynFor
    <3>4. Unborn(p, id)
      BY <2>1, <2>2, <3>3, SynArrives
    <3> QED
      BY <1>3, <3>3, <3>4
  <2>5. CASE ~FrameAccept(p, id, f)
    <3>1. handle'[p][id] = handle[p][id]
      BY <2>3, <2>5 DEF FrameStep, FrameUnknown, FrameReset, FrameReject, FramePlain,
           Booked, Refused, Fades, SameStream
    <3> QED
      BY <1>2, <3>1
  <2> QED
    BY <2>4, <2>5
<1>9. CASE poll_new_outbound(p) /\ id = nextId[p]
  BY <1>3, <1>9, OpenMoves
<1>10. CASE on_drop_stream(p, id)
  <2>1. Fades(p, id)
    BY <1>1, <1>10, DropMoves
  <2> QED
    BY <1>2, <2>1 DEF Fades
<1>11. CASE HandleAction(p, id)
  <2>1. HandleMove(p, id)
    BY <1>1, <1>11, HandleMoves
  <2>2. handle[p][id].life # "dropped"
    BY <2>1 DEF HandleMove, OpWrite, OpGrant, OpSend, OpClose, OpRest, OpDrop, Starts
  <2>3. ASSUME NEW f, OpWrite(p, id, f) \/ OpGrant(p, id, f) PROVE Goal
    BY <2>2, <2>3 DEF OpWrite, OpGrant, Starts, NoFinYet, Goal
  <2>4. ASSUME handle'[p][id].op.kind \notin FrameOps PROVE Goal
    BY <2>2, <2>4 DEF NoFinYet, Goal
  <2>5. ASSUME OpSend(p, id) PROVE Goal
    <3>1. handle'[p][id].op.kind = "idle"
      BY <1>1, <2>5 DEF OpSend, Handles, Idle
    <3> QED
      BY <2>4, <3>1 DEF FrameOps
  <2>6. ASSUME NEW f, OpClose(p, id, f) \/ OpRest(p, id) \/ OpDrop(p, id) PROVE Goal
    <3>1. handle'[p][id].op.kind \notin FrameOps
      BY <2>6 DEF OpClose, OpRest, OpDrop, FrameOps
    <3> QED
      BY <2>4, <3>1
  <2> QED
    BY <2>1, <2>3, <2>5, <2>6 DEF HandleMove
<1>12. Touches(p, id)
  BY StepTouches
<1> QED
  BY <1>6, <1>7, <1>8, <1>9, <1>10, <1>11, <1>12 DEF Touches

\* Who writes no more has no bytes under way, once they are gone.
Emptied(p, id) == Silent(p, id) /\ Within(Path(p, id), NoBody)

\* The end of a direction, after a step of the side that sends.
LEMMA OwnCeases ==
  ASSUME BothOurs, Settled, Settled', NEW p \in Peers, EndpointStep(p), NEW id \in Ids,
         Proceeds(p, id), Dated(p, id), Intact(p, id), NoFinYet(p, id), Ceases(p, id)
  PROVE  Ceases(p, id)' /\ (Emptied(p, id) => Emptied(p, id)')
<1>1. /\ p \in Endpoints /\ StreamTypes /\ StreamsOK /\ Typed(p) /\ Typed(p)' /\ FrameTypes
      /\ GhostTypes /\ Orderly(p) /\ Orderly(p)' /\ Slots(p) /\ Other(p) \in Peers
      /\ FrameTypes' /\ handle[p][id] \in Handles
  BY SettledParts, NextSettledParts
<1>2. PICK o \in Peers : o = Other(p)
  BY <1>1
<1>3. rcvd'[o] = rcvd[o] /\ (Hears(o, id)' => Hears(o, id))
  BY <1>2, OtherSide, HearsBack DEF KeptState
<1>4. PICK a \in Nat, w \in Nat, v \in Nat, s \in Seq(Frames), t \in Seq(Frames) :
        /\ a = rcvd[o][id] /\ w = written[p][id] /\ v = written'[p][id]
        /\ s = Path(p, id) /\ t = Path(p, id)'
  <2>1. Path(p, id) \in Seq(Frames) /\ Path(p, id)' \in Seq(Frames)
    BY <1>1, LineType, NextLineType
  <2> QED
    BY <1>1, <1>2, <2>1 DEF GhostTypes, FrameTypes
<1>5. /\ FinLast(s) /\ Within(s, FinBare) /\ (HasFin(s) => Silent(p, id))
      /\ HasFin(s) /\ Hears(o, id) => Fills(s, a, w)
      /\ handle[p][id].life # "dropped" => Within(s, NoRst)
  BY <1>2, <1>4 DEF Ceases
<1>6. Silent(p, id) => Silent(p, id)' /\ v = w
  BY <1>4, SilentStays
<1>7. handle'[p][id].life # "dropped" => handle[p][id].life # "dropped"
  BY OpFinStays
<1> DEFINE Goal == /\ FinLast(t) /\ Within(t, FinBare) /\ (HasFin(t) => Silent(p, id)')
                   /\ HasFin(t) /\ Hears(o, id)' => Fills(t, a, v)
                   /\ handle'[p][id].life # "dropped" => Within(t, NoRst)
                   /\ Silent(p, id) /\ Within(s, NoBody) => Within(t, NoBody)
<1>8. SUFFICES Goal
  <2>1. /\ FinLast(Path(p, id))' <=> FinLast(t)
        /\ Within(Path(p, id), FinBare)' <=> Within(t, FinBare)
        /\ Within(Path(p, id), NoRst)' <=> Within(t, NoRst)
        /\ Within(Path(p, id), NoBody)' <=> Within(t, NoBody)
        /\ HasFin(Path(p, id))' <=> HasFin(t)
    BY <1>4 DEF FinLast, Within, HasFin
  <2>2. Fills(Path(p, id), rcvd[Other(p)][id], written[p][id])' <=> Fills(t, a, v)
    BY <1>2, <1>3, <1>4 DEF Fills, Run, Load, Weight
  <2>3. Ceases(p, id)'
    BY <1>2, <2>1, <2>2 DEF Ceases
  <2>4. Emptied(p, id) => Emptied(p, id)'
    BY <1>4, <1>6, <2>1 DEF Emptied
  <2> QED
    BY <2>3, <2>4
<1>9. ASSUME t = s PROVE Goal
  BY <1>3, <1>5, <1>6, <1>7, <1>9
<1>10. ASSUME NEW f \in Frames, t = Cat(s, One(f)), f \in FinBare,
              f \in NoRst \/ handle'[p][id].life = "dropped", Silent(p, id) => f \in NoBody,
              "FIN" \in f.flags => Silent(p, id)' /\ v = w /\ (Hears(o, id) => Fills(s, a, w))
       PROVE  Goal
  <2>1. One(f) \in Seq(Frames)
    BY OneType
  <2>2. HasFin(t) <=> HasFin(s) \/ "FIN" \in f.flags
    BY <1>10, <2>1, FinCat, FinOne
  <2>3. Within(One(f), FinBare) /\ (f \in NoRst => Within(One(f), NoRst))
        /\ (f \in NoBody => Within(One(f), NoBody))
    BY <1>10, SynOne
  <2>4. FinLast(t)
    BY <1>5, <1>10, <2>1, <2>3, FinCat, FinOne
  <2>5. Within(t, FinBare) /\ (handle'[p][id].life # "dropped" => Within(t, NoRst))
    BY <1>5, <1>7, <1>10, <2>1, <2>3, WithinCat
  <2>6. HasFin(t) => Silent(p, id)'
    BY <1>5, <1>6, <1>10, <2>2
  <2>7. ASSUME HasFin(t), Hears(o, id)' PROVE Fills(t, a, v)
    <3>1. Fills(s, a, w) /\ v = w
      BY <1>3, <1>5, <1>6, <1>10, <2>2, <2>7
    <3>2. Body(f) = 0
      BY <1>5, <1>10, <2>2, <2>7 DEF NoBody, FinBare
    <3> QED
      BY <1>10, <3>1, <3>2, FitsMore
  <2>8. Silent(p, id) /\ Within(s, NoBody) => Within(t, NoBody)
    BY <1>10, <2>1, <2>3, WithinCat
  <2> QED
    BY <2>4, <2>5, <2>6, <2>7, <2>8
<1> HIDE DEF Goal
<1>11. ASSUME NEW f \in Frames, f.len = 0 PROVE f \in NoBody /\ f \in FinBare
  BY <1>11, FrameAmounts DEF NoBody, FinBare
<1>12. Whole(p) /\ Hears(o, id) => Fills(s, a, w)
  BY <1>2, <1>4 DEF Intact, Full
<1>13. CASE Sits(p, id)
  BY <1>4, <1>9, <1>13 DEF Sits
<1>14. CASE Ending(p)
  <2>1. v = w
    BY <1>1, <1>4, <1>14, CountsKept
  <2>2. PICK r \in Seq(Frames) : s = Cat(t, r)
    BY <1>1, <1>4, <1>14, EndingPath DEF Shorter
  <2>3. FinLast(t) /\ (HasFin(t) => HasFin(s) /\ Within(r, NoBody))
    BY <1>5, <2>2, FinCat
  <2>4. /\ Within(t, FinBare) /\ (Within(s, NoRst) => Within(t, NoRst))
        /\ Within(s, NoBody) => Within(t, NoBody)
    BY <1>5, <2>2, WithinCat
  <2>5. HasFin(t) /\ Fills(s, a, w) => Fills(t, a, w)
    BY <2>2, <2>3, FillsBare
  <2> QED
    BY <1>3, <1>5, <1>6, <1>7, <2>1, <2>3, <2>4, <2>5 DEF Goal
<1>15. CASE Arrives(p, id)
  BY <1>4, <1>9, <1>15, FrameLine DEF Arrives
<1>16. CASE poll_new_outbound(p)
  BY <1>4, <1>9, <1>16, OpenLine
<1>17. CASE on_drop_stream(p, id)
  <2>1. /\ handle[p][id].life # "live" /\ rx[p][id] = "open" /\ conn[p] = "Active"
        /\ handle' = handle /\ written' = written
    <3>1. handle' = handle /\ written' = written /\ conn[p] = "Active"
      BY <1>17 DEF on_drop_stream, handleVars, ghostVars, Active
    <3> QED
      BY <1>17, <3>1, DropMoves
  <2>2. handle'[p][id].life = "dropped" /\ handle'[p][id].op.kind = "idle"
    <3>1. Held(id \in entry[p], shared[p][id], handle[p][id])
          /\ Tabled(conn[p], id \in entry[p], rx[p][id], shared[p][id], handle[p][id])
      BY <1>1 DEF StreamsOK, StreamOK
    <3> QED
      BY <1>1, <2>1, <3>1 DEF Held, Tabled, Handles
  <2>3. Silent(p, id)' /\ v = w
    BY <1>4, <2>1, <2>2 DEF Silent, Unborn
  <2>4. Path(p, id)' = Path(p, id) \/ \E f : LineEnds(p, id, f)
    BY <1>17, DropMoves
  <2>5. ASSUME NEW f, LineEnds(p, id, f) PROVE Goal
    <3>1. f \in Frames /\ f.len = 0 /\ t = Cat(s, One(f))
      BY <1>4, <2>5 DEF LineEnds, Farewell
    <3>2. f \in NoBody /\ f \in FinBare
      BY <1>11, <3>1
    <3>3. Hears(o, id) => Fills(s, a, w)
      BY <1>12, <2>1 DEF Whole
    <3> QED
      BY <1>10, <2>2, <2>3, <3>1, <3>2, <3>3
  <2> QED
    BY <1>4, <1>9, <2>4, <2>5
<1>18. CASE HandleAction(p, id)
  <2>1. HandleMove(p, id) /\ ElseKept(p, id)
    BY <1>1, <1>18, HandleMoves
  <2>2. \A f \in Cmds(id) : f \in Frames /\ f \in NoRst /\ f \in FinBare
    BY <1>11 DEF Cmds, NoRst, FinBare
  <2>3. ASSUME NEW f, OpWrite(p, id, f) \/ OpGrant(p, id, f), OpSilent(p, id) PROVE Goal
    <3>1. "write" \in FrameOps /\ "read" \in FrameOps
      BY DEF FrameOps
    <3>2. Starts(p, id, "write", f) \/ Starts(p, id, "read", f)
      BY <2>3 DEF OpWrite, OpGrant
    <3>3. t = s
      BY <1>1, <1>4, <2>1, <2>3, <3>1, <3>2, BeginLine DEF OpSilent
    <3> QED
      BY <1>9, <3>3
  <2>4. ASSUME OpSend(p, id) PROVE Goal
    <3>1. PICK f : f = handle[p][id].op.frame
      OBVIOUS
    <3>2. handle[p][id].op.kind \in FrameOps /\ handle[p][id].life = "live"
      BY <2>4 DEF OpSend
    <3>3. f \in Cmds(id) /\ "FIN" \notin f.flags
      <4>1. Commands(p)
        BY DEF Settled
      <4> QED
        BY <3>1, <3>2, <4>1 DEF Commands, NoFinYet
    <3>4. f \in Frames /\ f \in NoRst /\ f \in FinBare
      BY <2>2, <3>3
    <3>5. Line(p, id) = Cat(s, One(f))
      BY <1>4, <3>1, <3>2, <3>4, UnsentIs DEF Line
    <3>6. CASE Lapses(p, id) \/ ~Whole(p)
      <4>1. t = s
        BY <1>1, <1>4, <2>1, <2>4, <3>6, SendLine
      <4> QED
        BY <1>9, <4>1
    <3>7. CASE Queues(p, id) /\ Whole(p)
      <4>1. t = Cat(s, One(f))
        BY <1>1, <1>4, <2>1, <2>4, <3>5, <3>7, SendLine
      <4>2. Silent(p, id) => f \in NoBody
        <5>1. SUFFICES ASSUME Silent(p, id) PROVE f \in NoBody
          OBVIOUS
        <5>2. handle[p][id].op.kind = "read"
          BY <3>2, <5>1 DEF Silent, FrameOps
        <5>3. f.tag = "WindowUpdate"
          BY <3>1, <5>2 DEF Dated
        <5> QED
          BY <3>4, <5>3 DEF NoBody, Body
      <4> QED
        BY <1>10, <3>3, <3>4, <4>1, <4>2
    <3> QED
      BY <2>4, <3>6, <3>7 DEF OpSend
  <2>5. ASSUME NEW f, OpClose(p, id, f), written'[p][id] = written[p][id] PROVE Goal
    <3>1. /\ f \in Frames /\ f.len = 0
          /\ Whole(p) => t = Cat(s, One(f))
          /\ ~Whole(p) => t = s
      BY <1>1, <1>4, <2>1, <2>5, CloseLine
    <3>2. f \in NoBody /\ f \in FinBare /\ f \in NoRst
      BY <1>11, <2>2, <2>5, <3>1 DEF OpClose
    <3>3. Silent(p, id)' /\ v = w
      BY <1>4, <2>5 DEF OpClose, Silent, Unborn
    <3> QED
      BY <1>9, <1>10, <1>12, <3>1, <3>2, <3>3
  <2>6. ASSUME OpRest(p, id) \/ OpDrop(p, id), OpSilent(p, id) PROVE Goal
    <3>1. t = s
      BY <1>1, <1>4, <2>1, <2>6, RestLine DEF OpSilent
    <3> QED
      BY <1>9, <3>1
  <2> QED
    BY <2>1, <2>3, <2>4, <2>5, <2>6 DEF HandleMove
<1>19. Touches(p, id)
  BY StepTouches
<1> QED
  BY <1>13, <1>14, <1>15, <1>16, <1>17, <1>18, <1>19 DEF Touches

\* The end of a direction, after a step of the side that receives.
LEMMA OtherCeases ==
  ASSUME NEW p, NEW id, Acts(p, id), NEW o, o = Other(p), Dated(p, id), Ceases(o, id)
  PROVE  Ceases(o, id)' /\ (Emptied(o, id) => Emptied(o, id)')
<1>1. /\ p \in Peers /\ id \in Ids /\ o \in Peers /\ BothOurs /\ Settled /\ Settled'
      /\ EndpointStep(p) /\ Other(o) = p /\ o # p /\ p \in Endpoints
  BY ActsParts DEF Acts
<1>2. Typed(o) /\ Typed(o)' /\ FrameTypes /\ GhostTypes /\ Sound(o, id) /\ Sound(p, id)
  BY <1>1, SettledParts, NextSettledParts DEF Acts
<1>3. written'[o] = written[o] /\ handle'[o] = handle[o] /\ shared'[o] = shared[o]
  BY <1>1, OtherSide DEF KeptState
<1>4. Silent(o, id)' <=> Silent(o, id)
  BY <1>3 DEF Silent, Unborn
<1>5. PICK a \in Nat, w \in Nat, s \in Seq(Frames), t \in Seq(Frames) :
        /\ a = rcvd[p][id] /\ w = written[o][id] /\ s = Path(o, id) /\ t = Path(o, id)'
  <2>1. Path(o, id) \in Seq(Frames) /\ Path(o, id)' \in Seq(Frames)
    BY <1>1, <1>2, LineType, NextLineType
  <2> QED
    BY <1>1, <1>2, <2>1 DEF GhostTypes, FrameTypes
<1>6. /\ FinLast(s) /\ Within(s, FinBare) /\ (HasFin(s) => Silent(o, id))
      /\ HasFin(s) /\ Hears(p, id) => Fills(s, a, w)
      /\ handle[o][id].life # "dropped" => Within(s, NoRst)
  BY <1>1, <1>5 DEF Ceases
<1> DEFINE Goal(b) == /\ FinLast(t) /\ Within(t, FinBare) /\ (HasFin(t) => Silent(o, id))
                      /\ HasFin(t) /\ Hears(p, id)' => Fills(t, b, w)
                      /\ handle[o][id].life # "dropped" => Within(t, NoRst)
                      /\ Within(s, NoBody) => Within(t, NoBody)
<1> HIDE DEF Goal
<1>8. SUFFICES Goal(rcvd'[p][id])
  <2>1. /\ FinLast(Path(o, id))' <=> FinLast(t)
        /\ Within(Path(o, id), FinBare)' <=> Within(t, FinBare)
        /\ Within(Path(o, id), NoRst)' <=> Within(t, NoRst)
        /\ Within(Path(o, id), NoBody)' <=> Within(t, NoBody)
        /\ HasFin(Path(o, id))' <=> HasFin(t)
    BY <1>5 DEF FinLast, Within, HasFin
  <2>2. Fills(Path(o, id), rcvd[Other(o)][id], written[o][id])' <=> Fills(t, rcvd'[p][id], w)
    BY <1>1, <1>3, <1>5 DEF Fills, Run, Load, Weight
  <2>3. Ceases(o, id)'
    BY <1>1, <1>3, <1>4, <2>1, <2>2 DEF Ceases, Goal
  <2>4. Emptied(o, id) => Emptied(o, id)'
    BY <1>4, <1>5, <2>1 DEF Emptied, Goal
  <2> QED
    BY <2>3, <2>4
<1>7. Hears(p, id)' => Hears(p, id) \/ (poll_new_outbound(p) /\ id = nextId[p])
  BY <1>1, HearsBack
<1>9. ASSUME t = s, rcvd'[p][id] = a PROVE Goal(rcvd'[p][id])
  <2>1. ASSUME HasFin(s), Hears(p, id)' PROVE Hears(p, id)
    <3>1. SUFFICES ASSUME poll_new_outbound(p) /\ id = nextId[p] PROVE FALSE
      BY <1>7, <2>1
    <3>2. Unborn(o, id)
      BY <1>1, <3>1, OpenMoves
    <3> QED
      BY <1>6, <2>1, <3>2 DEF Silent
  <2> QED
    BY <1>6, <1>9, <2>1 DEF Goal
<1>10. CASE on_frame(p)
  <2>1. PICK f \in Frames : f = Head(wire[o])
    <3>1. Head(wire[o]) \in Frames
      BY <1>1, <1>10, FrameTaken
    <3> QED
      BY <3>1
  <2>2. CASE f \in StreamFrames(id)
    <3>1. Taken(p, o, id, f)
      BY <1>1, <1>2, <1>10, <2>1, <2>2 DEF Taken
    <3>2. s = Cat(One(f), t) /\ One(f) \in Seq(Frames)
      BY <1>5, <3>1, TakenParts, OneType
    <3>3. FinLast(t) /\ (HasFin(t) => HasFin(s))
      BY <1>6, <3>2, FinCat
    <3>4. /\ Within(t, FinBare) /\ (Within(s, NoRst) => Within(t, NoRst))
          /\ Within(s, NoBody) => Within(t, NoBody)
      BY <1>6, <3>2, WithinCat
    <3>5. ASSUME HasFin(t), Hears(p, id)' PROVE Fills(t, rcvd'[p][id], w)
      <4>1. Hears(p, id)
        <5>1. SUFFICES ASSUME poll_new_outbound(p) /\ id = nextId[p] PROVE FALSE
          BY <1>7, <3>5
        <5>2. Unborn(o, id)
          BY <1>1, <5>1, OpenMoves
        <5> QED
          BY <3>1, <5>2, TakenParts
      <4>2. rcvd'[p][id] = a + Body(f)
        BY <1>5, <3>1, <3>5, FrameCounts
      <4>3. Fills(s, a, w)
        BY <1>6, <3>3, <3>5, <4>1
      <4> QED
        BY <3>2, <4>2, <4>3, FitsTake
    <3> QED
      BY <1>6, <3>3, <3>4, <3>5 DEF Goal
  <2>3. CASE f \notin StreamFrames(id)
    <3>1. SameStream(p, id)
      BY <1>1, <1>10, <2>1, <2>3, FrameCases
    <3>2. rcvd'[p][id] = a
      BY <1>5, <3>1 DEF SameStream
    <3>3. t = s
      BY <1>1, <1>5, <1>10, <2>1, <2>3, FrameLeaves
    <3> QED
      BY <1>9, <3>2, <3>3
  <2> QED
    BY <2>2, <2>3
<1>11. CASE ~on_frame(p)
  <2>1. t = s /\ rcvd'[p][id] = a
    BY <1>1, <1>5, <1>11, StillSteps
  <2> QED
    BY <1>9, <2>1
<1> QED
  BY <1>10, <1>11

----------------------------------------------------------------------------
(* How the reading side of a stream ends                                    *)

Reading == OpenStates \cup {"SendClosed"}

\* The reading side of stream id at q goes on as it is, or begins.
Endures(q, id) ==
  LET s == shared[q][id].state
      t == shared'[q][id].state
  IN  \/ /\ t = s /\ (id \in entry'[q] => id \in entry[q])
         /\ Unborn(q, id)' <=> Unborn(q, id)
      \/ t \in Reading /\ (s \in Reading \/ Unborn(q, id))

\* It is torn down.
Over(q, id) ==
  \/ shared[q][id].state = "Closed"
  \/ shared[q][id].state = "None" /\ ~Unborn(q, id)

\* It is torn down by its own side: after the end, or together with the handle
\* or the connection.
EndsOver(q, id) ==
  /\ Over(q, id)'
  /\ \/ shared[q][id].state = "RecvClosed" /\ shared'[q][id].state = "Closed"
     \/ id \notin entry'[q] /\ (handle'[q][id].life # "live" \/ conn'[q] # "Active")

\* The states of the streams of a connection that ends.
LEMMA EndingStates ==
  ASSUME StreamTypes, NEW p \in Endpoints, Ending(p), NEW id \in Ids
  PROVE  shared'[p][id].state \in {shared[p][id].state, "Closed", "None"}
<1> USE DEF connVars, pendVars, sockVars, tableVars, handleVars, ghostVars
<1>0. p \in Peers /\ shared[p][id] \in SharedSet
  BY EndpointsArePeers DEF StreamTypes
<1>1. NoShared.state = "None"
  BY DEF NoShared, NewShared
<1>2. ASSUME DropAllStreams(p) PROVE shared'[p][id].state \in {shared[p][id].state, "Closed", "None"}
  <2>1. PICK S : /\ SetStreams(p, {}, S, handle[p])
                 /\ S = [i \in Ids |-> IF i \in entry[p] THEN Woken(To(shared[p][i], "Closed"))
                                                        ELSE shared[p][i]]
    BY <1>2 DEF DropAllStreams
  <2>2. S[id].state \in {shared[p][id].state, "Closed"}
    <3>1. Woken(To(shared[p][id], "Closed")).state = update_state(shared[p][id].state, "Closed")
      BY <1>0 DEF Woken, To, SharedSet
    <3>2. update_state(shared[p][id].state, "Closed") = "Closed"
      BY DEF update_state
    <3> QED
      BY <2>1, <3>1, <3>2
  <2> QED
    BY <1>0, <1>1, <2>1, <2>2, SetFades
<1>3. CASE PollFail(p) \/ OpenFail(p)
  <2>1. cleanup(p)
    BY <1>3 DEF PollFail, OpenFail
  <2> QED
    BY <1>2, <2>1 DEF cleanup
<1>4. CASE connection_close(p)
  <2>1. SetStreams(p, {}, shared[p], handle[p])
    BY <1>4 DEF connection_close
  <2> QED
    BY <1>0, <1>1, <2>1, SetFades
<1>5. CASE connection_drop(p)
  <2>1. DropAllStreams(p) \/ UNCHANGED <<entry, shared>>
    BY <1>5 DEF connection_drop
  <2> QED
    BY <1>2, <2>1
<1>6. CASE CloseAllReceivers(p) \/ DrainDone(p) \/ CloseSocket(p) \/ ClosingError(p)
           \/ CleanupDrain(p) \/ FlushFrame(p)
  <2>1. shared' = shared
    BY <1>6 DEF CloseAllReceivers, DrainDone, CloseSocket, ClosingError, CleanupDrain, FlushFrame
  <2> QED
    BY <2>1
<1> QED
  BY <1>3, <1>4, <1>5, <1>6 DEF Ending

\* The state of a stream whose handle is gone, when the end of its channel is met.
LEMMA DropState ==
  ASSUME BothOurs, Settled, Settled', NEW p \in Peers, NEW id \in Ids, on_drop_stream(p, id)
  PROVE  /\ shared'[p][id].state \in {shared[p][id].state, "Closed", "None"}
         /\ id \notin entry'[p] /\ handle' = handle /\ rcvd' = rcvd
<1> USE DEF connVars, pendVars, sockVars, tableVars, handleVars, ghostVars
<1>0. StreamTypes /\ shared[p][id] \in SharedSet
  BY SettledParts DEF StreamTypes
<1>1. NoShared.state = "None"
  BY DEF NoShared, NewShared
<1>2. handle' = handle /\ rcvd' = rcvd
  BY DEF on_drop_stream
<1>3. CASE id \notin entry[p]
  <2>1. shared' = shared /\ entry' = entry
    BY <1>3 DEF on_drop_stream
  <2> QED
    BY <1>2, <1>3, <2>1
<1>4. CASE id \in entry[p]
  <2>1. PICK S, ent : /\ SetStreams(p, ent, S, handle[p]) /\ ent = entry[p] \ {id}
                      /\ S = [shared[p] EXCEPT ![id] = Woken(To(@, "Closed"))]
    BY <1>4 DEF on_drop_stream
  <2>2. S[id].state = "Closed"
    <3>1. Woken(To(shared[p][id], "Closed")).state = update_state(shared[p][id].state, "Closed")
      BY <1>0 DEF Woken, To, SharedSet
    <3>2. update_state(shared[p][id].state, "Closed") = "Closed"
      BY DEF update_state
    <3>3. shared[p] \in [Ids -> SharedSet]
      BY <1>0 DEF StreamTypes
    <3> QED
      BY <2>1, <3>1, <3>2, <3>3
  <2>3. (shared'[p][id] = S[id] \/ shared'[p][id] = NoShared) /\ id \notin entry'[p]
    <3>1. SetStreams(p, ent, S, handle[p]) /\ id \notin ent
      BY <2>1
    <3> QED
      BY <1>0, <3>1, SetFades
  <2>4. shared'[p][id].state = "Closed" \/ shared'[p][id].state = "None"
    BY <1>1, <2>2, <2>3
  <2> QED
    BY <1>2, <2>3, <2>4
<1> QED
  BY <1>3, <1>4

\* Without a frame from the remote, only its own side tears the reading side of
\* a stream down.
LEMMA StateMoves ==
  ASSUME BothOurs, Settled, Settled', NEW p \in Peers, EndpointStep(p), NEW id \in Ids,
         ~Arrives(p, id)
  PROVE  rcvd'[p][id] = rcvd[p][id] /\ (Endures(p, id) \/ EndsOver(p, id))
<1>1. /\ p \in Endpoints /\ StreamTypes /\ StreamsOK /\ StreamsOK' /\ FrameTypes /\ GhostTypes
      /\ handle[p][id] \in Handles
  BY SettledParts, NextSettledParts
<1>2. /\ Unborn(p, id) => shared[p][id].state = "None"
      /\ shared[p][id].state \in StreamStates \cup {"None"}
      /\ shared'[p][id].state = "None" => id \notin entry'[p] /\ handle'[p][id].life # "live"
  <2>1. Held(id \in entry[p], shared[p][id], handle[p][id])
    BY <1>1 DEF StreamsOK, StreamOK
  <2>2. Held(id \in entry'[p], shared'[p][id], handle'[p][id])
    BY <1>1 DEF StreamsOK, StreamOK
  <2>3. shared[p][id] \in SharedSet
    BY <1>1 DEF StreamTypes
  <2> QED
    BY <2>1, <2>2, <2>3 DEF Held, Unborn, SharedSet
<1> DEFINE Goal == rcvd'[p][id] = rcvd[p][id] /\ (Endures(p, id) \/ EndsOver(p, id))
<1>3. ASSUME handle'[p][id] = handle[p][id], rcvd'[p][id] = rcvd[p][id],
             id \in entry'[p] => id \in entry[p],
             shared'[p][id].state \in {shared[p][id].state, "Closed", "None"},
             handle'[p][id].life # "live" \/ conn'[p] # "Active", id \notin entry'[p]
      PROVE  Goal
  BY <1>2, <1>3 DEF Endures, EndsOver, Over, Unborn
<1>4. ASSUME handle'[p][id].life = handle[p][id].life, rcvd'[p][id] = rcvd[p][id],
             id \in entry'[p] => id \in entry[p], shared'[p][id].state = shared[p][id].state
      PROVE  Goal
  BY <1>4 DEF Endures, Unborn
<1> HIDE DEF Goal
<1> SUFFICES Goal
  BY DEF Goal
<1>6. CASE Sits(p, id)
  BY <1>4, <1>6 DEF Sits, SameStream
<1>7. CASE Ending(p)
  <2>1. Fades(p, id) /\ conn'[p] # "Active" /\ rcvd' = rcvd
    BY <1>1, <1>7, EndingFades, CountsKept
  <2>2. shared'[p][id].state \in {shared[p][id].state, "Closed", "None"}
    BY <1>1, <1>7, EndingStates
  <2>3. id \notin entry'[p]
    <3>1. Tabled(conn'[p], id \in entry'[p], rx'[p][id], shared'[p][id], handle'[p][id])
      BY <1>1 DEF StreamsOK, StreamOK
    <3> QED
      BY <2>1, <3>1 DEF Tabled
  <2> QED
    BY <1>3, <2>1, <2>2, <2>3 DEF Fades
<1>9. CASE poll_new_outbound(p) /\ id = nextId[p]
  <2>1. Unborn(p, id) /\ shared'[p][id] = NewShared(DEFAULT_CREDIT) /\ rcvd' = rcvd
    BY <1>9, OpenMoves
  <2>2. NewShared(DEFAULT_CREDIT).state \in Reading
    BY DEF NewShared, Reading, OpenStates
  <2> QED
    BY <2>1, <2>2 DEF Goal, Endures
<1>10. CASE on_drop_stream(p, id)
  BY <1>3, <1>10, DropMoves, DropState
<1>11. CASE HandleAction(p, id)
  <2>1. HandleMove(p, id) /\ ElseKept(p, id)
    BY <1>1, <1>11, HandleMoves
  <2>2. rcvd'[p][id] = rcvd[p][id] /\ (id \in entry'[p] <=> id \in entry[p])
    BY <2>1 DEF ElseKept
  <2>3. ASSUME NEW f, OpWrite(p, id, f) PROVE Goal
    <3>1. handle'[p][id].life = handle[p][id].life
      BY <2>3 DEF OpWrite, Starts
    <3>2. shared[p][id].state \in StreamStates
      BY <1>2, <2>3 DEF OpWrite
    <3>3. \/ shared'[p][id].state = shared[p][id].state
          \/ shared'[p][id].state \in Reading /\ shared[p][id].state \in Reading
      BY <2>3, <3>2 DEF OpWrite, update_state, Reading, StreamStates, OpenStates
    <3> QED
      BY <1>4, <2>2, <3>1, <3>3 DEF Goal, Endures
  <2>4. ASSUME NEW f, OpGrant(p, id, f) PROVE Goal
    BY <1>4, <2>2, <2>4 DEF OpGrant, Starts
  <2>5. ASSUME OpSend(p, id) PROVE Goal
    <3>1. handle'[p][id].life = handle[p][id].life
      BY <1>1, <2>5 DEF OpSend, Handles
    <3> QED
      BY <1>4, <2>2, <2>5, <3>1 DEF OpSend
  <2>6. ASSUME NEW f, OpClose(p, id, f) PROVE Goal
    BY <1>4, <2>2, <2>6 DEF OpClose
  <2>7. ASSUME OpRest(p, id) PROVE Goal
    <3>1. handle'[p][id].life = handle[p][id].life /\ handle[p][id].life = "live"
      BY <2>7 DEF OpRest
    <3>2. CASE shared'[p][id].state = shared[p][id].state
      BY <1>4, <2>2, <3>1, <3>2
    <3>3. CASE shared'[p][id].state = update_state(shared[p][id].state, "SendClosed")
      <4>1. shared[p][id].state \in StreamStates
        <5>1. shared[p][id].state # "None"
          BY <1>1, <3>1, HeldValues
        <5> QED
          BY <1>2, <5>1
      <4>2. \/ shared'[p][id].state = shared[p][id].state
            \/ shared'[p][id].state \in Reading /\ shared[p][id].state \in Reading
            \/ shared[p][id].state = "RecvClosed" /\ shared'[p][id].state = "Closed"
        BY <3>3, <4>1 DEF update_state, Reading, StreamStates, OpenStates
      <4> QED
        BY <1>4, <2>2, <3>1, <4>2 DEF Goal, Endures, EndsOver, Over
    <3> QED
      BY <2>7, <3>2, <3>3 DEF OpRest
  <2>8. ASSUME OpDrop(p, id) PROVE Goal
    <3>1. CASE id \in entry[p]
      <4>1. shared'[p][id].state = shared[p][id].state /\ (Unborn(p, id)' <=> Unborn(p, id))
        BY <2>8, <3>1 DEF OpDrop, Unborn
      <4> QED
        BY <2>2, <3>1, <4>1 DEF Goal, Endures
    <3>2. CASE id \notin entry[p]
      <4>1. shared'[p][id].state = "None" /\ handle'[p][id].life = "dropped"
        BY <2>8, <3>2 DEF OpDrop, NoShared, NewShared
      <4> QED
        BY <2>2, <3>2, <4>1 DEF Goal, EndsOver, Over, Unborn
    <3> QED
      BY <3>1, <3>2
  <2> QED
    BY <2>1, <2>3, <2>4, <2>5, <2>6, <2>7, <2>8 DEF HandleMove
<1>12. Touches(p, id)
  BY StepTouches
<1> QED
  BY <1>6, <1>7, <1>9, <1>10, <1>11, <1>12 DEF Touches

\* A frame ends the stream for its reader before its end.
CutBy(q, id, f) ==
  "RST" \in f.flags /\ id \notin entry'[q] /\ Over(q, id)' /\ rcvd'[q][id] = rcvd[q][id]

\* A frame is the last of its stream.
EndBy(q, id, f) ==
  /\ "FIN" \in f.flags
  /\ \/ Over(q, id)'
     \/ /\ shared'[q][id].state = "RecvClosed"
        /\ shared[q][id].state \in Reading \cup {"RecvClosed"} \/ Unborn(q, id)

\* What the acknowledgement that comes with a frame does to a stream.
LEMMA AckState ==
  ASSUME StreamTypes, NEW p \in Peers, NEW id \in Ids, NEW f
  PROVE  \/ Acked(p, f)[id].state = shared[p][id].state
         \/ Acked(p, f)[id].state \in Reading /\ shared[p][id].state \in Reading
<1>1. shared[p] \in [Ids -> SharedSet] /\ shared[p][id] \in SharedSet
  BY DEF StreamTypes
<1>2. \/ Acked(p, f)[id] = shared[p][id]
      \/ Acked(p, f)[id] = To(shared[p][id], "OpenAcked")
  BY <1>1 DEF Acked
<1>3. PICK s \in SharedSet : s = shared[p][id]
  BY <1>1
<1>4. To(s, "OpenAcked").state = update_state(s.state, "OpenAcked")
      /\ s.state \in StreamStates \cup {"None"}
  BY DEF To, SharedSet
<1>5. \/ update_state(s.state, "OpenAcked") = s.state
      \/ update_state(s.state, "OpenAcked") \in Reading /\ s.state \in Reading
  BY <1>4 DEF update_state, Reading, OpenStates, StreamStates
<1> QED
  BY <1>2, <1>3, <1>4, <1>5

\* A step that only acknowledges.
LEMMA AckEndures ==
  ASSUME StreamTypes, StreamsOK, StreamsOK', NEW p \in Endpoints, NEW id \in Ids,
         NEW S, S[id].state = shared[p][id].state \/
                (S[id].state \in Reading /\ shared[p][id].state \in Reading),
         NEW ent, id \in ent => id \in entry[p], ent = entry[p] \/ id \notin entry[p],
         SetStreams(p, ent, S, handle[p]), handle' = handle
  PROVE  Endures(p, id)
<1>0. p \in Peers
  BY EndpointsArePeers
<1>1. (shared'[p][id] = S[id] \/ shared'[p][id] = NoShared) /\ (id \in entry'[p] <=> id \in ent)
  BY <1>0, SetFades
<1>2. /\ Held(id \in entry[p], shared[p][id], handle[p][id])
      /\ Held(id \in entry'[p], shared'[p][id], handle'[p][id])
  BY DEF StreamsOK, StreamOK
<1>3. NoShared.state = "None"
  BY DEF NoShared, NewShared
<1>4. shared'[p][id].state = S[id].state \/ shared'[p][id].state = "None"
  BY <1>1, <1>3
<1>5. id \in entry'[p] <=> id \in entry[p]
  BY <1>1
<1>6. shared'[p][id].state = "None" => shared[p][id].state = "None"
  BY <1>2, <1>5 DEF Held
<1> QED
  BY <1>4, <1>5, <1>6 DEF Endures, Unborn

\* A reset, and a stream that is refused.
LEMMA StopArrives ==
  ASSUME NEW p, NEW o, NEW id, NEW f, Taken(p, o, id, f),
         \/ OnUnknown(p, f) \/ OnReset(p, f) \/ RejectSyn(p, f)
         \/ Terminate(p, f, protocol_error)
  PROVE  \/ Endures(p, id) /\ rcvd'[p][id] = rcvd[p][id]
         \/ CutBy(p, id, f)
<1> USE DEF connVars, pendVars, sockVars, tableVars, handleVars, ghostVars
<1>1. /\ p \in Peers /\ p \in Endpoints /\ id \in Ids /\ f.id = id /\ StreamTypes
      /\ StreamsOK /\ StreamsOK' /\ f \in Frames /\ IsStreamFrame(f)
  BY TakenParts
<1>2. shared[p] \in [Ids -> SharedSet] /\ shared[p][id] \in SharedSet
  BY <1>1 DEF StreamTypes
<1>3. CASE OnUnknown(p, f)
  <2>1. UNCHANGED <<handle, shared, entry, rcvd>>
    BY <1>3 DEF OnUnknown
  <2> QED
    BY <2>1 DEF Endures, Unborn
<1>4. ASSUME NEW g, Terminate(p, f, g) PROVE Endures(p, id) /\ rcvd'[p][id] = rcvd[p][id]
  <2>1. PICK S : S = Acked(p, f)
    OBVIOUS
  <2>2. SetStreams(p, entry[p], S, handle[p]) /\ handle' = handle /\ rcvd' = rcvd
    BY <1>4, <2>1 DEF Terminate
  <2>3. S[id].state = shared[p][id].state \/
                (S[id].state \in Reading /\ shared[p][id].state \in Reading)
    BY <1>1, <2>1, AckState
  <2>4. Endures(p, id)
    BY <1>1, <2>2, <2>3, AckEndures
  <2> QED
    BY <2>2, <2>4
<1>5. CASE RejectSyn(p, f)
  BY <1>4, <1>5 DEF RejectSyn
<1>6. CASE OnReset(p, f)
  <2>1. PICK S : S = IF id \in entry[p] THEN [Acked(p, f) EXCEPT ![id] = Woken(To(@, "Closed"))]
                                         ELSE shared[p]
    OBVIOUS
  <2>2. PICK ent : ent = entry[p] \ {id}
    OBVIOUS
  <2>3. SetStreams(p, ent, S, handle[p]) /\ handle' = handle /\ rcvd' = rcvd /\ "RST" \in f.flags
    BY <1>1, <1>6, <2>1, <2>2 DEF OnReset
  <2>4. CASE id \notin entry[p]
    <3>1. S[id].state = shared[p][id].state /\ (id \in ent => id \in entry[p])
      BY <2>1, <2>2, <2>4
    <3>2. Endures(p, id)
      BY <1>1, <2>3, <2>4, <3>1, AckEndures
    <3> QED
      BY <2>3, <3>2
  <2>5. CASE id \in entry[p]
    <3>1. PICK a : a = Acked(p, f)[id]
      OBVIOUS
    <3>2. shared[p][id].state # "None" /\ ~Unborn(p, id)
      BY <1>1, <2>5, HeldValues
    <3>3. /\ Acked(p, f) = [shared[p] EXCEPT ![id] = a] /\ a \in SharedSet /\ a.state # "None"
      BY <1>1, <2>5, <3>1, <3>2, AckedOne
    <3>4. PICK w : w = Woken(To(a, "Closed"))
      OBVIOUS
    <3>5. w.state = "Closed"
      BY <3>3, <3>4, WokenClosed
    <3>6. S[id] = w
      <4>1. PICK A : A = Acked(p, f)
        OBVIOUS
      <4>2. A \in [Ids -> SharedSet] /\ A[id] = a
        BY <1>1, <1>2, <3>1, <3>3, <4>1
      <4>3. S = [A EXCEPT ![id] = Woken(To(A[id], "Closed"))]
        BY <2>1, <2>5, <4>1
      <4> QED
        BY <1>1, <3>4, <4>2, <4>3
    <3>7. (shared'[p][id] = S[id] \/ shared'[p][id] = NoShared) /\ (id \in entry'[p] <=> id \in ent)
      BY <1>1, <2>3, SetFades
    <3>8. NoShared.state = "None"
      BY DEF NoShared, NewShared
    <3>9. Over(p, id)'
      BY <2>3, <3>2, <3>5, <3>6, <3>7, <3>8 DEF Over, Unborn
    <3> QED
      BY <2>2, <2>3, <3>7, <3>9 DEF CutBy
  <2> QED
    BY <2>4, <2>5
<1> QED
  BY <1>3, <1>4, <1>5, <1>6

\* The state that the FIN flag of a frame leaves.
LEMMA FinStates ==
  ASSUME NEW a \in SharedSet, NEW f
  PROVE  LET t == IF "FIN" \in f.flags THEN update_state(a.state, "RecvClosed") ELSE a.state
         IN  Delivered(a, f).state = t /\ Refilled(a, f).state = t
<1>1. PICK d : d = [a EXCEPT !.fc = consume_receive_window(@, f.len),
                             !.buf = @ + f.len, !.reader = FALSE]
  OBVIOUS
<1>2. PICK e : e = [a EXCEPT !.fc = increase_send_window_by(@, f.len), !.writer = FALSE,
                             !.reader = @ /\ "FIN" \notin f.flags]
  OBVIOUS
<1>3. /\ d.state = a.state /\ [d EXCEPT !.state = update_state(@, "RecvClosed")].state
                                = update_state(a.state, "RecvClosed")
  BY <1>1 DEF SharedSet
<1>4. /\ e.state = a.state /\ [e EXCEPT !.state = update_state(@, "RecvClosed")].state
                                = update_state(a.state, "RecvClosed")
  BY <1>2 DEF SharedSet
<1>5. Delivered(a, f) = Finished(d, f) /\ Refilled(a, f) = Finished(e, f)
  BY <1>1, <1>2 DEF Delivered, Refilled
<1> QED
  BY <1>3, <1>4, <1>5 DEF Finished, To

\* A SYN that opens a stream.
LEMMA OpenArrives ==
  ASSUME NEW p, NEW o, NEW id, NEW f, Taken(p, o, id, f), Dated(p, id), AcceptSyn(p, f)
  PROVE  /\ Hears(p, id) /\ rcvd'[p][id] = rcvd[p][id] + Body(f)
         /\ (Endures(p, id) /\ "FIN" \notin f.flags) \/ EndBy(p, id, f)
<1>1. /\ p \in Peers /\ o \in Peers /\ o = Other(p) /\ id \in Ids /\ f.id = id /\ f \in Frames
      /\ IsStreamFrame(f) /\ BothOurs /\ Settled /\ on_frame(p) /\ EndpointStep(p)
      /\ f = Head(wire[Other(p)]) /\ Body(f) \in Nat
  BY TakenParts DEF Taken
<1>2. FrameAccept(p, id, f)
  BY <1>1, AcceptFrame
<1>3. SynFor(f, id) /\ ~is_outbound(p, id)
  BY <1>1, <1>2 DEF FrameAccept, SynFor
<1>4. Unborn(p, id) /\ Coming(Other(p), id) /\ conn[p] = "Active"
  BY <1>1, <1>3, SynArrives, FrameTaken
<1>5. Hears(p, id)
  BY <1>3, <1>4 DEF Hears, Awaits
<1>6. rcvd'[p][id] = rcvd[p][id] + Body(f)
  BY <1>1, <1>2, <1>4 DEF FrameAccept, Dated
<1>7. shared'[p][id].state = IF "FIN" \in f.flags THEN "RecvClosed" ELSE "OpenPending"
  <2>1. shared'[p][id] = InboundShared(f)
    BY <1>2 DEF FrameAccept
  <2>2. PICK s : s = [NewShared(DEFAULT_CREDIT + (IF f.tag = "Data" THEN 0 ELSE f.len)) EXCEPT
                        !.fc = consume_receive_window(@, IF f.tag = "Data" THEN f.len ELSE 0),
                        !.buf = IF f.tag = "Data" THEN f.len ELSE 0]
    OBVIOUS
  <2>3. InboundShared(f) = IF "FIN" \in f.flags THEN To(s, "RecvClosed") ELSE s
    BY <2>2 DEF InboundShared
  <2>4. s.state = "OpenPending" /\ [s EXCEPT !.state = update_state(@, "RecvClosed")].state
                                     = update_state("OpenPending", "RecvClosed")
    BY <2>2 DEF NewShared
  <2>5. update_state("OpenPending", "RecvClosed") = "RecvClosed"
    BY DEF update_state, OpenStates
  <2> QED
    BY <2>1, <2>3, <2>4, <2>5 DEF To
<1>8. (Endures(p, id) /\ "FIN" \notin f.flags) \/ EndBy(p, id, f)
  BY <1>4, <1>7 DEF Endures, EndBy, Reading, OpenStates
<1> QED
  BY <1>5, <1>6, <1>8

\* A frame of a stream that is in the table, and is not refused.
LEMMA PlainArrives ==
  ASSUME NEW p, NEW o, NEW id, NEW f, Taken(p, o, id, f), id \in entry[p],
         NEW a, a = Acked(p, f)[id], NEW s, s = Delivered(a, f) \/ s = Refilled(a, f),
         SetStreams(p, AfterFin(p, f, s), [shared[p] EXCEPT ![id] = s], handle[p]),
         handle' = handle
  PROVE  (Endures(p, id) /\ "FIN" \notin f.flags) \/ EndBy(p, id, f)
<1>1. /\ p \in Peers /\ p \in Endpoints /\ id \in Ids /\ f.id = id /\ f \in Frames
      /\ IsStreamFrame(f) /\ StreamTypes /\ StreamsOK /\ StreamsOK'
  BY TakenParts
<1>2. ~Unborn(p, id) /\ shared[p][id].state # "None"
  BY <1>1, HeldValues
<1>3. a \in SharedSet /\ a.state # "None"
  BY <1>1, <1>2, AckedOne
<1>4. a.state = shared[p][id].state \/ (a.state \in Reading /\ shared[p][id].state \in Reading)
  BY <1>1, AckState
<1>5. s.state = IF "FIN" \in f.flags THEN update_state(a.state, "RecvClosed") ELSE a.state
  <2>1. PICK t : t = IF "FIN" \in f.flags THEN update_state(a.state, "RecvClosed") ELSE a.state
    OBVIOUS
  <2>2. Delivered(a, f).state = t /\ Refilled(a, f).state = t
    BY <1>3, <2>1, FinStates
  <2> QED
    BY <2>1, <2>2
<1>6. PICK S, ent : S = [shared[p] EXCEPT ![id] = s] /\ ent = AfterFin(p, f, s)
  OBVIOUS
<1>7. SetStreams(p, ent, S, handle[p]) /\ S[id] = s
  <2>1. shared[p] \in [Ids -> SharedSet]
    BY <1>1 DEF StreamTypes
  <2> QED
    BY <1>1, <1>6, <2>1
<1>8. (shared'[p][id] = s \/ shared'[p][id] = NoShared) /\ (id \in entry'[p] <=> id \in ent)
  BY <1>1, <1>7, SetFades
<1>9. NoShared.state = "None"
  BY DEF NoShared, NewShared
<1>10. ~Unborn(p, id)'
  BY <1>2 DEF Unborn
<1>11. CASE "FIN" \notin f.flags
  <2>1. ent = entry[p]
    BY <1>6, <1>11 DEF AfterFin
  <2>2. S[id].state = shared[p][id].state \/
          (S[id].state \in Reading /\ shared[p][id].state \in Reading)
    BY <1>4, <1>5, <1>7, <1>11
  <2>3. Endures(p, id)
    BY <1>1, <1>7, <2>1, <2>2, AckEndures
  <2> QED
    BY <1>11, <2>3
<1>12. CASE "FIN" \in f.flags
  <2>1. a.state \in StreamStates
    BY <1>3 DEF SharedSet
  <2>2. \/ s.state = "Closed"
        \/ s.state = "RecvClosed" /\ a.state \in Reading \cup {"RecvClosed"}
    BY <1>5, <1>12, <2>1 DEF update_state, Reading, OpenStates, StreamStates
  <2>3. shared'[p][id].state = s.state \/ shared'[p][id].state = "None"
    BY <1>8, <1>9
  <2>4. a.state \in Reading \cup {"RecvClosed"} => shared[p][id].state \in Reading \cup {"RecvClosed"}
    BY <1>4
  <2> QED
    BY <1>10, <1>12, <2>2, <2>3, <2>4 DEF EndBy, Over
<1> QED
  BY <1>11, <1>12

\* What a frame does to the reading side of its stream.
LEMMA StateArrives ==
  ASSUME NEW p, NEW o, NEW id, NEW f, Taken(p, o, id, f), Dated(p, id)
  PROVE  \/ Endures(p, id) /\ rcvd'[p][id] = rcvd[p][id]
         \/ CutBy(p, id, f)
         \/ /\ Hears(p, id) /\ rcvd'[p][id] = rcvd[p][id] + Body(f)
            /\ (Endures(p, id) /\ "FIN" \notin f.flags) \/ EndBy(p, id, f)
<1> USE DEF connVars, pendVars, sockVars, tableVars, handleVars, ghostVars
<1>1. /\ p \in Peers /\ p \in Endpoints /\ id \in Ids /\ f.id = id /\ f \in Frames
      /\ IsStreamFrame(f) /\ BothOurs /\ Settled /\ on_frame(p) /\ f = Head(wire[Other(p)])
      /\ Body(f) \in Nat /\ GhostTypes
  BY TakenParts, SettledParts DEF Taken
<1>2. conn[p] = "Active" /\ rcvd[p][id] \in Nat
  <2>1. conn[p] = "Active"
    BY <1>1, FrameTaken
  <2> QED
    BY <1>1, <2>1 DEF GhostTypes
<1> DEFINE Goal == \/ Endures(p, id) /\ rcvd'[p][id] = rcvd[p][id]
                   \/ CutBy(p, id, f)
                   \/ /\ Hears(p, id) /\ rcvd'[p][id] = rcvd[p][id] + Body(f)
                      /\ (Endures(p, id) /\ "FIN" \notin f.flags) \/ EndBy(p, id, f)
<1>3. CASE OnUnknown(p, f) \/ OnReset(p, f) \/ RejectSyn(p, f)
           \/ Terminate(p, f, protocol_error)
  BY <1>3, StopArrives
<1>4. CASE AcceptSyn(p, f)
  BY <1>4, OpenArrives
<1>5. PICK a : a = Acked(p, f)[id]
  OBVIOUS
<1>6. CASE on_data(p, f) \/ on_window_update(p, f)
  <2>1. id \in entry[p]
    BY <1>1, <1>6 DEF on_data, on_window_update, IsPlain
  <2>2. Hears(p, id)
    BY <1>2, <2>1 DEF Hears
  <2>3. \/ Terminate(p, f, protocol_error)
        \/ \E s : /\ s = Delivered(a, f) \/ s = Refilled(a, f)
                  /\ SetStreams(p, AfterFin(p, f, s), [shared[p] EXCEPT ![id] = s], handle[p])
                  /\ handle' = handle
    BY <1>1, <1>5, <1>6 DEF on_data, on_window_update
  <2>4. Terminate(p, f, protocol_error) \/ rcvd'[p][id] = rcvd[p][id] + Body(f)
    BY <1>1, <1>2, <1>6 DEF on_data, on_window_update, IsPlain, Body, GhostTypes
  <2>5. CASE Terminate(p, f, protocol_error)
    BY <1>3, <2>5
  <2>6. CASE ~Terminate(p, f, protocol_error)
    <3>1. PICK s : /\ s = Delivered(a, f) \/ s = Refilled(a, f)
                   /\ SetStreams(p, AfterFin(p, f, s), [shared[p] EXCEPT ![id] = s], handle[p])
                   /\ handle' = handle
      BY <2>3, <2>6
    <3>2. (Endures(p, id) /\ "FIN" \notin f.flags) \/ EndBy(p, id, f)
      BY <1>5, <2>1, <3>1, PlainArrives
    <3> QED
      BY <2>2, <2>4, <2>6, <3>2
  <2> QED
    BY <2>5, <2>6
<1>7. ~(on_ping(p, f) \/ handle_pong(p, f))
  BY <1>1 DEF on_ping, handle_pong, IsStreamFrame
<1> QED
  BY <1>1, <1>3, <1>4, <1>6, <1>7 DEF on_frame

\* The reader of stream id at q can see the end, and no reset or failure is
\* behind it.
Ended(q, id) ==
  \/ shared[q][id].state = "RecvClosed"
  \/ /\ shared[q][id].state = "Closed"
     /\ \/ id \in entry[q]
        \/ /\ handle[Other(q)][id].life # "dropped" /\ handle[q][id].life = "live"
           /\ conn[q] = "Active"

\* Then p writes no more, and what it wrote has arrived.
AllIn(p, id)  == Emptied(p, id) /\ rcvd[Other(p)][id] = written[p][id]
EndInv(p, id) == Ended(Other(p), id) => AllIn(p, id)

\* A reading side that endures has not ended by that.
LEMMA EndedBack ==
  ASSUME BothOurs, Settled, Settled', NEW q \in Peers, EndpointStep(q), NEW id \in Ids,
         Endures(q, id), Ended(q, id)'
  PROVE  Ended(q, id)
<1>1. PICK p \in Peers : p = Other(q) /\ handle'[p] = handle[p]
  BY OtherPeer, OtherSide, SettledParts DEF KeptState
<1>2. (handle'[q][id].life # "dropped" => handle[q][id].life # "dropped")
      /\ handle[q][id].life \in {"none", "live", "dropped"}
  <2>1. handle[q][id] \in Handles
    BY SettledParts
  <2> QED
    BY <2>1, OpFinStays DEF Handles
<1>3. conn'[q] = "Active" => conn[q] = "Active"
  <2>1. Outward(q) \/ Inward(q)
    BY OtherSide
  <2> QED
    BY <2>1 DEF Outward, Inward
<1>4. shared'[q][id].state \notin Reading
  BY DEF Ended, Reading, OpenStates
<1>5. /\ shared'[q][id].state = shared[q][id].state /\ (id \in entry'[q] => id \in entry[q])
      /\ (handle'[q][id].life = "none" <=> handle[q][id].life = "none")
  BY <1>4 DEF Endures, Unborn
<1>6. handle'[q][id].life = "live" => handle[q][id].life = "live"
  BY <1>2, <1>5
<1> QED
  BY <1>1, <1>3, <1>5, <1>6 DEF Ended

\* A step of the side that sends changes nothing about the end.
LEMMA OwnEnd ==
  ASSUME BothOurs, Settled, Settled', NEW p \in Peers, EndpointStep(p), NEW id \in Ids,
         Proceeds(p, id), Dated(p, id), Intact(p, id), NoFinYet(p, id), Ceases(p, id),
         EndInv(p, id)
  PROVE  EndInv(p, id)'
<1>1. PICK q \in Peers : q = Other(p) /\ Other(q) = p /\ q # p
  BY OtherPeer, SettledParts
<1>2. /\ shared'[q] = shared[q] /\ entry'[q] = entry[q] /\ handle'[q] = handle[q]
      /\ conn'[q] = conn[q] /\ rcvd'[q] = rcvd[q]
  BY <1>1, OtherSide DEF KeptState
<1>3. handle'[p][id].life # "dropped" => handle[p][id].life # "dropped"
  BY OpFinStays
<1>4. Ended(q, id)' => Ended(q, id)
  BY <1>1, <1>2, <1>3 DEF Ended
<1>5. ASSUME AllIn(p, id) PROVE AllIn(p, id)'
  <2>1. Silent(p, id) /\ Emptied(p, id)
    BY <1>5 DEF AllIn, Emptied
  <2>2. Emptied(p, id)' /\ written'[p][id] = written[p][id]
    BY <2>1, OwnCeases, SilentStays
  <2> QED
    BY <1>1, <1>2, <1>5, <2>2 DEF AllIn
<1> QED
  BY <1>1, <1>4, <1>5 DEF EndInv

\* The end is seen only after everything arrived.
LEMMA OtherEnd ==
  ASSUME NEW q, NEW id, Acts(q, id), NEW p, p = Other(q), Dated(q, id), Ceases(p, id),
         EndInv(p, id)
  PROVE  EndInv(p, id)'
<1>1. /\ q \in Peers /\ id \in Ids /\ p \in Peers /\ BothOurs /\ Settled /\ Settled'
      /\ EndpointStep(q) /\ Other(p) = q /\ p # q /\ q \in Endpoints
      /\ Sound(p, id) /\ Sound(q, id)
  BY ActsParts DEF Acts
<1>2. Typed(p) /\ Typed(p)' /\ FrameTypes /\ GhostTypes
  BY <1>1, SettledParts, NextSettledParts
<1>3. written'[p] = written[p] /\ handle'[p] = handle[p] /\ shared'[p] = shared[p]
  BY <1>1, OtherSide DEF KeptState
<1>4. PICK a \in Nat, w \in Nat, s \in Seq(Frames), t \in Seq(Frames) :
        /\ a = rcvd[q][id] /\ w = written[p][id] /\ s = Path(p, id) /\ t = Path(p, id)'
  <2>1. Path(p, id) \in Seq(Frames) /\ Path(p, id)' \in Seq(Frames)
    BY <1>1, <1>2, LineType, NextLineType
  <2> QED
    BY <1>1, <1>2, <2>1 DEF GhostTypes, FrameTypes
<1>5. Emptied(p, id) => Emptied(p, id)'
  BY <1>1, OtherCeases
<1>6. AllIn(p, id)' <=> Emptied(p, id)' /\ rcvd'[q][id] = w
  BY <1>1, <1>3, <1>4 DEF AllIn
<1>7. AllIn(p, id) <=> Emptied(p, id) /\ a = w
  BY <1>1, <1>4 DEF AllIn
<1>8. Endures(q, id) /\ Ended(q, id)' => AllIn(p, id)
  BY <1>1, EndedBack DEF EndInv
<1>9. SUFFICES ASSUME Ended(q, id)' PROVE AllIn(p, id)'
  BY <1>1 DEF EndInv
<1>10. CASE ~Arrives(q, id)
  <2>1. rcvd'[q][id] = a /\ (Endures(q, id) \/ EndsOver(q, id))
    BY <1>1, <1>4, <1>10, StateMoves
  <2>2. EndsOver(q, id) => AllIn(p, id)
    <3>1. SUFFICES ASSUME EndsOver(q, id) PROVE shared[q][id].state = "RecvClosed"
      BY <1>1 DEF EndInv, Ended
    <3>2. shared'[q][id].state # "RecvClosed"
      BY <3>1 DEF EndsOver, Over
    <3> QED
      BY <1>9, <3>1, <3>2 DEF EndsOver, Ended
  <2> QED
    BY <1>5, <1>6, <1>7, <1>8, <1>9, <2>1, <2>2
<1>11. CASE Arrives(q, id)
  <2>1. PICK f \in Frames : f = Head(wire[p]) /\ f \in StreamFrames(id) /\ on_frame(q)
    <3>1. on_frame(q) /\ Head(wire[p]) \in StreamFrames(id)
      BY <1>1, <1>11 DEF Arrives
    <3>2. Head(wire[p]) \in Frames
      BY <1>1, <3>1, FrameTaken
    <3> QED
      BY <3>1, <3>2
  <2>2. Taken(q, p, id, f)
    BY <1>1, <2>1 DEF Taken
  <2>3. s = Cat(One(f), t) /\ One(f) \in Seq(Frames) /\ Body(f) \in Nat
    BY <1>4, <2>2, TakenParts, OneType
  <2>4. \/ Endures(q, id) /\ rcvd'[q][id] = a
        \/ CutBy(q, id, f)
        \/ /\ Hears(q, id) /\ rcvd'[q][id] = a + Body(f)
           /\ (Endures(q, id) /\ "FIN" \notin f.flags) \/ EndBy(q, id, f)
    BY <1>4, <2>2, StateArrives
  <2>5. CASE AllIn(p, id)
    <3>1. Within(s, NoBody)
      BY <1>4, <2>5 DEF AllIn, Emptied
    <3>2. Body(f) = 0
      BY <2>3, <3>1, WithinCat, SynOne DEF NoBody
    <3>3. rcvd'[q][id] = a
      BY <1>4, <2>3, <2>4, <3>2 DEF CutBy
    <3> QED
      BY <1>5, <1>6, <1>7, <2>5, <3>3
  <2>6. CASE ~AllIn(p, id)
    <3>1. ~Endures(q, id)
      BY <1>8, <1>9, <2>6
    <3>2. ~CutBy(q, id, f)
      <4>1. SUFFICES ASSUME CutBy(q, id, f) PROVE FALSE
        OBVIOUS
      <4>2. shared'[q][id].state = "Closed" /\ id \notin entry'[q]
        BY <1>9, <4>1 DEF CutBy, Over, Ended
      <4>3. handle[p][id].life # "dropped"
        BY <1>1, <1>3, <1>9, <4>2 DEF Ended
      <4>4. Within(s, NoRst)
        BY <1>4, <4>3 DEF Ceases
      <4>5. f \in NoRst
        BY <2>3, <4>4, WithinCat, SynOne
      <4> QED
        BY <4>1, <4>5 DEF CutBy, NoRst
    <3>3. Hears(q, id) /\ rcvd'[q][id] = a + Body(f) /\ "FIN" \in f.flags
      BY <2>4, <3>1, <3>2 DEF EndBy
    <3>4. HasFin(One(f)) /\ HasFin(s)
      BY <2>3, <3>3, FinOne, FinCat
    <3>5. Silent(p, id) /\ Fills(s, a, w) /\ FinLast(s)
      BY <1>1, <1>4, <3>3, <3>4 DEF Ceases
    <3>6. Within(t, NoBody)
      BY <2>3, <3>4, <3>5, FinCat
    <3>7. Fills(t, a + Body(f), w)
      BY <2>3, <3>5, FitsTake
    <3>8. a + Body(f) = w
      <4>1. a + Body(f) \in Nat
        BY <2>3
      <4> QED
        BY <3>6, <3>7, <4>1, FillsBare
    <3>9. Emptied(p, id)'
      <4>1. Silent(p, id)'
        BY <1>3, <3>5 DEF Silent, Unborn
      <4>2. Within(Path(p, id), NoBody)'
        BY <1>4, <3>6 DEF Within
      <4> QED
        BY <4>1, <4>2 DEF Emptied
    <3> QED
      BY <1>6, <3>3, <3>8, <3>9
  <2> QED
    BY <2>5, <2>6
<1> QED
  BY <1>10, <1>11

\* The bytes are right, and so is the end of every direction.
EofInv ==
  /\ ByteInv
  /\ \A p \in Peers, id \in Ids : Ceases(p, id) /\ NoFinYet(p, id) /\ EndInv(p, id)

\* At the beginning no stream has an end.
LEMMA InitEof ==
  ASSUME BothOurs, SessionInit PROVE EofInv
<1>1. ByteInv
  BY InitBytes
<1> SUFFICES ASSUME NEW p \in Peers, NEW id \in Ids
             PROVE  Ceases(p, id) /\ NoFinYet(p, id) /\ EndInv(p, id)
  BY <1>1 DEF EofInv
<1>2. /\ handle = [q \in Peers |-> [i \in Ids |-> NoHandle]]
      /\ shared = [q \in Peers |-> [i \in Ids |-> NoShared]]
  BY DEF SessionInit, Init, PerStream
<1>3. NoHandle.life = "none" /\ NoHandle.op.kind = "idle" /\ NoShared.state = "None"
  BY DEF NoHandle, Idle, NoShared, NewShared
<1>4. Unborn(p, id)
  BY <1>2, <1>3 DEF Unborn
<1>5. Path(p, id) = Nil
  <2>1. Line(p, id) = Nil
    BY <1>1, <1>4 DEF ByteInv, CreditInv, Sound, NotYet
  <2>2. Typed(p)
    BY <1>1, SettledParts DEF ByteInv, CreditInv
  <2>3. Path(p, id) \in Seq(Frames) /\ Unsent(p, id) \in Seq(Frames)
    BY <2>2, LineType
  <2>4. Within(Cat(Path(p, id), Unsent(p, id)), {})
    BY <2>1, SynNil DEF Line
  <2>5. Within(Path(p, id), {})
    BY <2>3, <2>4, WithinCat
  <2> QED
    BY <2>3, <2>5, NilIs
<1>6. Ceases(p, id)
  <2>1. FinLast(Nil) /\ ~HasFin(Nil)
    <3>1. \A S : Within(Nil, S)
      BY SynNil
    <3> QED
      BY <3>1 DEF FinLast, HasFin, Nil
  <2>2. \A S : Within(Nil, S)
    BY SynNil
  <2> QED
    BY <1>5, <2>1, <2>2 DEF Ceases
<1>7. NoFinYet(p, id)
  BY <1>2, <1>3 DEF NoFinYet, FrameOps
<1>8. EndInv(p, id)
  <2>1. Other(p) \in Peers
    BY OtherPeer
  <2> QED
    BY <1>2, <1>3, <2>1 DEF EndInv, Ended
<1> QED
  BY <1>6, <1>7, <1>8

\* Every step keeps the invariant.
LEMMA EofStays ==
  ASSUME BothOurs, EofInv, [SessionNext]_allVars PROVE EofInv'
<1>1. ByteInv /\ ByteInv' /\ Settled /\ Settled'
  BY BytesStay DEF EofInv, ByteInv, CreditInv
<1>2. CASE UNCHANGED allVars
  <2>1. /\ UNCHANGED <<conn, entry, rx, pendR, pendW, pendQ, wire, shared, chan, handle>>
        /\ UNCHANGED <<written, rcvd>>
    BY <1>2 DEF allVars, vars, connVars, pendVars, sockVars, tableVars, handleVars, ghostVars
  <2>2. ASSUME NEW p \in Peers, NEW id \in Ids
        PROVE  Ceases(p, id)' /\ NoFinYet(p, id)' /\ EndInv(p, id)'
    <3>1. Ceases(p, id) /\ NoFinYet(p, id) /\ EndInv(p, id)
      BY DEF EofInv
    <3>2. NoFinYet(p, id)'
      BY <2>1, <3>1 DEF NoFinYet
    <3>3. ASSUME NEW x
          PROVE  /\ Path(x, id)' = Path(x, id) /\ GoingAway(x)' = GoingAway(x)
                 /\ Unborn(x, id)' = Unborn(x, id) /\ Coming(x, id)' = Coming(x, id)
      BY <2>1 DEF Path, Queued, Outgoing, GoingAway, Unborn, Coming, Places
    <3>4. Hears(Other(p), id)' = Hears(Other(p), id)
      BY <2>1, <3>3 DEF Hears, Awaits
    <3>5. Silent(p, id)' = Silent(p, id)
      BY <2>1 DEF Silent, Unborn
    <3>6. Ceases(p, id)'
      BY <2>1, <3>1, <3>3, <3>4, <3>5 DEF Ceases
    <3>7. AllIn(p, id)' <=> AllIn(p, id)
      BY <2>1, <3>3, <3>5 DEF AllIn, Emptied
    <3>8. Ended(Other(p), id)' <=> Ended(Other(p), id)
      BY <2>1 DEF Ended
    <3> QED
      BY <3>1, <3>2, <3>6, <3>7, <3>8 DEF EndInv
  <2> QED
    BY <1>1, <2>2 DEF EofInv
<1>3. CASE \E p \in Peers : p \in Endpoints /\ EndpointStep(p)
  <2>1. PICK p \in Peers : EndpointStep(p)
    BY <1>3
  <2>2. PICK o \in Peers : o = Other(p) /\ Peers = {p, o}
    BY <2>1, OtherPeer
  <2>3. RouteInv /\ p \in Endpoints
    BY <1>1, <2>1, SettledParts DEF Settled
  <2>4. ASSUME NEW id \in Ids
        PROVE  /\ Ceases(p, id)' /\ NoFinYet(p, id)' /\ EndInv(p, id)'
               /\ Ceases(o, id)' /\ NoFinYet(o, id)' /\ EndInv(o, id)'
    <3>1. /\ Dated(p, id) /\ Intact(p, id) /\ Sound(p, id) /\ Sound(o, id)
          /\ Ceases(p, id) /\ NoFinYet(p, id) /\ EndInv(p, id)
          /\ Ceases(o, id) /\ NoFinYet(o, id) /\ EndInv(o, id)
      BY <2>1, <2>2 DEF EofInv, ByteInv, CreditInv
    <3>2. Proceeds(p, id)
      BY <2>3, StepOnward DEF Proceeds
    <3>3. Acts(p, id)
      BY <1>1, <2>1, <2>2, <3>1 DEF Acts
    <3>4. Ceases(p, id)' /\ NoFinYet(p, id)' /\ EndInv(p, id)'
      BY <1>1, <2>1, <3>1, <3>2, OwnCeases, OpFinStays, OwnEnd
    <3>5. Ceases(o, id)' /\ EndInv(o, id)'
      BY <2>2, <3>1, <3>3, OtherCeases, OtherEnd
    <3>6. NoFinYet(o, id)'
      <4>1. handle'[o] = handle[o]
        BY <1>1, <2>1, <2>2, OtherSide
      <4> QED
        BY <3>1, <4>1 DEF NoFinYet
    <3> QED
      BY <3>4, <3>5, <3>6
  <2> QED
    BY <1>1, <2>2, <2>4 DEF EofInv
<1> QED
  BY <1>2, <1>3, OneOfUs

\* The invariant says what EofMeansAll says.
LEMMA EofThen ==
  ASSUME EofInv PROVE EofMeansAll
<1> SUFFICES ASSUME NEW p \in Endpoints, NEW id \in Ids, NEW q, q = Other(p),
                    \/ shared[q][id].state = "RecvClosed"
                    \/ shared[q][id].state = "Closed" /\ live(p, id) /\ live(q, id)
                         /\ conn[p] = "Active" /\ conn[q] = "Active"
             PROVE  rcvd[q][id] = written[p][id]
  BY DEF EofMeansAll
<1>1. p \in Peers /\ Other(q) = p
  BY EndpointsArePeers, OtherPeer
<1>2. Ended(q, id)
  BY <1>1 DEF Ended, live
<1> QED
  BY <1>1, <1>2 DEF EofInv, EndInv, AllIn

\* Between two endpoints that run this code, a reader is told the end of its
\* stream only after every byte that the remote wrote has arrived: for any number
\* of streams, any windows, channel and socket, FIN overtakes nothing.
THEOREM EofAfterAllBytes ==
  ASSUME BothOurs PROVE Spec => []EofMeansAll
<1>1. SessionInit => EofInv
  BY InitEof
<1>2. EofInv /\ [SessionNext]_allVars => EofInv'
  BY EofStays
<1>3. EofInv => EofMeansAll
  BY EofThen
<1> QED
  BY <1>1, <1>2, <1>3, PTL DEF Spec

----------------------------------------------------------------------------
(* Every direction of every stream is a BytePipe                            *)

\* The status of a pipe.
LEMMA StatusIs ==
  ASSUME NEW q, NEW id
  PROVE  /\ PipeStatus(q, id) = IF shared[q][id].state = "RecvClosed" THEN "eof"
                                ELSE IF Over(q, id) THEN "over" ELSE "open"
         /\ PipeStatus(q, id)' = IF shared'[q][id].state = "RecvClosed" THEN "eof"
                                 ELSE IF Over(q, id)' THEN "over" ELSE "open"
BY DEF PipeStatus, Over, Unborn

\* The pipe of a reading side that endures keeps its status.
LEMMA StatusKept ==
  ASSUME BothOurs, Settled, NEW q \in Peers, NEW id \in Ids, Endures(q, id)
  PROVE  PipeStatus(q, id)' = PipeStatus(q, id)
<1>1. Unborn(q, id) => shared[q][id].state = "None"
  <2>1. Held(id \in entry[q], shared[q][id], handle[q][id])
    BY SettledParts DEF StreamsOK, StreamOK
  <2> QED
    BY <2>1 DEF Held, Unborn
<1>2. CASE shared'[q][id].state = shared[q][id].state /\ (Unborn(q, id)' <=> Unborn(q, id))
  BY <1>2, StatusIs DEF Over
<1>3. CASE shared'[q][id].state \in Reading /\ (shared[q][id].state \in Reading \/ Unborn(q, id))
  <2>1. shared'[q][id].state \notin {"RecvClosed", "Closed", "None"}
    BY <1>3 DEF Reading, OpenStates
  <2>2. PipeStatus(q, id)' = "open"
    BY <2>1, StatusIs DEF Over
  <2>3. PipeStatus(q, id) = "open"
    BY <1>1, <1>3, StatusIs DEF Over, Reading, OpenStates
  <2> QED
    BY <2>2, <2>3
<1> QED
  BY <1>2, <1>3 DEF Endures

\* The steps of a pipe, by what they do to it.
LEMMA PipeSteps ==
  ASSUME NEW p, NEW id, NEW q, q = Other(p), NEW a \in Nat, NEW b \in Nat, NEW w \in Nat,
         NEW v \in Nat, a = rcvd[q][id], b = rcvd'[q][id], w = written[p][id],
         v = written'[p][id], NEW s, NEW t, s = PipeStatus(q, id), t = PipeStatus(q, id)',
         \/ b = a /\ t = s /\ w <= v /\ (s = "eof" => v = w)
         \/ b = a /\ v = w /\ t = "over"
         \/ b = a /\ v = w /\ s = "open" /\ t = "eof" /\ a = w
         \/ v = w /\ s = "open" /\ t = "open" /\ a <= b /\ b <= w
  PROVE  Pipe(p, id)!PipeStep
BY DEF Pipe!PipeStep, Pipe!pipe, Pipe!PipeNext, Pipe!Write, Pipe!Deliver, Pipe!Finish,
       Pipe!TearDown

\* What was written stays written.
LEMMA WrittenGrows ==
  ASSUME BothOurs, Settled, Settled', NEW p \in Peers, EndpointStep(p), NEW id \in Ids
  PROVE  written[p][id] <= written'[p][id] /\ written'[p][id] \in Nat /\ written[p][id] \in Nat
<1>1. /\ p \in Endpoints /\ StreamTypes /\ StreamsOK /\ FrameTypes /\ GhostTypes /\ Slots(p)
      /\ FrameTypes'
  BY SettledParts, NextSettledParts
<1>2. written[p][id] \in Nat /\ written'[p][id] \in Nat
  BY <1>1 DEF FrameTypes
<1>3. ASSUME written'[p][id] = written[p][id] PROVE written[p][id] <= written'[p][id]
  BY <1>2, <1>3
<1> DEFINE Goal == written[p][id] <= written'[p][id]
<1> HIDE DEF Goal
<1> SUFFICES Goal
  BY <1>2 DEF Goal
<1>4. CASE Sits(p, id)
  BY <1>3, <1>4 DEF Sits, Goal
<1>5. CASE Ending(p)
  BY <1>1, <1>3, <1>5, CountsKept DEF Goal
<1>6. CASE Arrives(p, id)
  BY <1>1, <1>3, <1>6, OnFrameSlots DEF Goal, Arrives
<1>7. CASE poll_new_outbound(p)
  BY <1>3, <1>7, OpenMoves DEF Goal
<1>8. CASE on_drop_stream(p, id)
  <2>1. written' = written
    BY <1>8 DEF on_drop_stream, ghostVars
  <2> QED
    BY <1>3, <2>1 DEF Goal
<1>9. CASE HandleAction(p, id)
  <2>1. HandleMove(p, id)
    BY <1>1, <1>9, HandleMoves
  <2>2. ASSUME OpSend(p, id) PROVE Goal
    <3>1. handle[p][id].op.frame.len \in Nat
      <4>1. handle[p][id].op.kind \in FrameOps
        BY <2>2 DEF OpSend
      <4>2. handle[p][id].op.frame \in Cmds(id)
        BY <4>1 DEF Settled, Commands
      <4> QED
        BY <4>2, FrameAmounts DEF Cmds
    <3> QED
      BY <1>2, <2>2, <3>1 DEF OpSend, Queues, Lapses, Goal, FrameOps
  <2> QED
    BY <1>3, <2>1, <2>2 DEF HandleMove, OpSilent, Goal
<1>10. Touches(p, id)
  BY StepTouches
<1> QED
  BY <1>4, <1>5, <1>6, <1>7, <1>8, <1>9, <1>10 DEF Touches

\* A step of the side that writes.
LEMMA PipeOwn ==
  ASSUME BothOurs, Settled, Settled', NEW p \in Peers, EndpointStep(p), NEW id \in Ids,
         Proceeds(p, id), EndInv(p, id)
  PROVE  Pipe(p, id)!PipeStep
<1>1. PICK q \in Peers : q = Other(p) /\ Other(q) = p /\ q # p
  BY OtherPeer, SettledParts
<1>2. /\ shared'[q] = shared[q] /\ handle'[q] = handle[q] /\ rcvd'[q] = rcvd[q]
  BY <1>1, OtherSide DEF KeptState
<1>3. PICK a \in Nat, w \in Nat, v \in Nat :
        /\ a = rcvd[q][id] /\ w = written[p][id] /\ v = written'[p][id] /\ w <= v
  <2>1. GhostTypes
    BY DEF Settled
  <2> QED
    BY <2>1, WrittenGrows DEF GhostTypes
<1>4. PICK s, t : s = PipeStatus(q, id) /\ t = PipeStatus(q, id)'
  OBVIOUS
<1>5. t = s
  BY <1>2, <1>4, StatusIs DEF Over, Unborn
<1>6. ASSUME s = "eof" PROVE v = w
  <2>1. shared[q][id].state = "RecvClosed"
    BY <1>4, <1>6, StatusIs
  <2>2. Silent(p, id)
    BY <1>1, <2>1 DEF EndInv, Ended, AllIn, Emptied
  <2> QED
    BY <1>3, <2>2, SilentStays
<1>7. rcvd'[q][id] = a
  BY <1>2, <1>3
<1> QED
  BY <1>1, <1>3, <1>4, <1>5, <1>6, <1>7, PipeSteps

\* A step of the side that reads.
LEMMA PipeOther ==
  ASSUME NEW q, NEW id, Acts(q, id), NEW p, p = Other(q), Dated(q, id), Ceases(p, id),
         Intact(p, id), EndInv(p, id), EndInv(p, id)'
  PROVE  Pipe(p, id)!PipeStep
<1>1. /\ q \in Peers /\ id \in Ids /\ p \in Peers /\ BothOurs /\ Settled /\ Settled'
      /\ EndpointStep(q) /\ Other(p) = q /\ p # q /\ q \in Endpoints
      /\ Sound(p, id) /\ Sound(q, id)
  BY ActsParts DEF Acts
<1>2. Typed(p) /\ Typed(p)' /\ FrameTypes /\ GhostTypes /\ GhostTypes' /\ StreamsOK
  BY <1>1, SettledParts, NextSettledParts DEF Settled
<1>3. written'[p] = written[p]
  BY <1>1, OtherSide DEF KeptState
<1>4. PICK a \in Nat, b \in Nat, w \in Nat, s \in Seq(Frames), t \in Seq(Frames) :
        /\ a = rcvd[q][id] /\ b = rcvd'[q][id] /\ w = written[p][id] /\ w = written'[p][id]
        /\ s = Path(p, id) /\ t = Path(p, id)'
  <2>1. Path(p, id) \in Seq(Frames) /\ Path(p, id)' \in Seq(Frames)
    BY <1>1, <1>2, LineType, NextLineType
  <2>2. rcvd[q][id] \in Nat /\ rcvd'[q][id] \in Nat
    BY <1>1, <1>2 DEF GhostTypes
  <2>3. written[p][id] \in Nat /\ written'[p][id] = written[p][id]
    BY <1>1, <1>2, <1>3 DEF FrameTypes
  <2> QED
    BY <2>1, <2>2, <2>3
<1>5. PICK m, n : m = PipeStatus(q, id) /\ n = PipeStatus(q, id)'
  OBVIOUS
<1>6. SUFFICES \/ b = a /\ n = m
               \/ b = a /\ n = "over"
               \/ b = a /\ m = "open" /\ n = "eof" /\ a = w
               \/ m = "open" /\ n = "open" /\ a <= b /\ b <= w
  <2>1. PICK v \in Nat : v = w /\ w <= v
    OBVIOUS
  <2>2. a = rcvd[q][id] /\ b = rcvd'[q][id] /\ w = written[p][id] /\ v = written'[p][id]
    BY <1>4, <2>1
  <2>3. \/ b = a /\ n = m /\ w <= v /\ (m = "eof" => v = w)
        \/ b = a /\ v = w /\ n = "over"
        \/ b = a /\ v = w /\ m = "open" /\ n = "eof" /\ a = w
        \/ v = w /\ m = "open" /\ n = "open" /\ a <= b /\ b <= w
    BY <1>6, <2>1
  <2> QED
    BY <1>1, <1>5, <2>2, <2>3, PipeSteps
<1>7. Endures(q, id) => n = m
  BY <1>1, <1>5, StatusKept
<1>8. Over(q, id)' => n = "over"
  BY <1>5, StatusIs DEF Over
<1>9. CASE ~Arrives(q, id)
  <2>1. b = a /\ (Endures(q, id) \/ EndsOver(q, id))
    BY <1>1, <1>4, <1>9, StateMoves
  <2> QED
    BY <1>7, <1>8, <2>1 DEF EndsOver
<1>10. CASE Arrives(q, id)
  <2>1. PICK f \in Frames : f = Head(wire[p]) /\ f \in StreamFrames(id) /\ on_frame(q)
    <3>1. on_frame(q) /\ Head(wire[p]) \in StreamFrames(id)
      BY <1>1, <1>10 DEF Arrives
    <3>2. Head(wire[p]) \in Frames
      BY <1>1, <3>1, FrameTaken
    <3> QED
      BY <3>1, <3>2
  <2>2. Taken(q, p, id, f)
    BY <1>1, <2>1 DEF Taken
  <2>3. s = Cat(One(f), t) /\ One(f) \in Seq(Frames) /\ Body(f) \in Nat
    BY <1>4, <2>2, TakenParts, OneType
  <2>4. \/ Endures(q, id) /\ b = a
        \/ CutBy(q, id, f)
        \/ /\ Hears(q, id) /\ b = a + Body(f)
           /\ (Endures(q, id) /\ "FIN" \notin f.flags) \/ EndBy(q, id, f)
    BY <1>4, <2>2, StateArrives
  <2>5. CASE Endures(q, id) /\ b = a
    BY <1>7, <2>5
  <2>6. CASE CutBy(q, id, f)
    BY <1>4, <1>8, <2>6 DEF CutBy
  <2>7. ASSUME Hears(q, id), b = a + Body(f), Endures(q, id)
        PROVE  (b = a /\ n = m) \/ (m = "open" /\ n = "open" /\ a <= b /\ b <= w)
    <3>1. CASE m = "open"
      <4>1. Fits(s, a, w)
        BY <1>1, <1>4, <2>7 DEF Intact
      <4>2. Fits(t, a + Body(f), w)
        BY <2>3, <4>1, FitsTake
      <4>3. Load(t) \in Nat
        BY RunCat
      <4> QED
        BY <1>7, <2>3, <2>7, <3>1, <4>2, <4>3 DEF Fits
    <3>2. CASE m # "open"
      <4>1. shared[q][id].state = "RecvClosed" \/ Over(q, id)
        BY <1>5, <3>2, StatusIs
      <4>2. Ended(q, id)
        <5>1. CASE id \in entry[q]
          <6>1. shared[q][id].state # "None"
            BY <1>1, <1>2, <5>1, HeldValues
          <6> QED
            BY <4>1, <5>1, <6>1 DEF Over, Ended
        <5>2. CASE Unborn(q, id)
          <6>1. Held(id \in entry[q], shared[q][id], handle[q][id])
            BY <1>1, <1>2 DEF StreamsOK, StreamOK
          <6>2. shared[q][id].state = "None"
            BY <5>2, <6>1 DEF Held, Unborn
          <6> QED
            BY <4>1, <5>2, <6>2 DEF Over
        <5> QED
          BY <2>7, <5>1, <5>2 DEF Hears, Awaits
      <4>3. Within(s, NoBody)
        BY <1>1, <1>4, <4>2 DEF EndInv, AllIn, Emptied
      <4>4. Body(f) = 0
        BY <2>3, <4>3, WithinCat, SynOne DEF NoBody
      <4> QED
        BY <1>7, <2>7, <4>4
    <3> QED
      BY <3>1, <3>2
  <2>8. ASSUME b = a + Body(f), EndBy(q, id, f)
        PROVE  b = a /\ (n = m \/ n = "over" \/ (m = "open" /\ n = "eof" /\ a = w))
    <3>1. "FIN" \in f.flags
      BY <2>8 DEF EndBy
    <3>2. Within(s, FinBare)
      BY <1>4 DEF Ceases
    <3>3. Body(f) = 0
      BY <2>3, <3>1, <3>2, WithinCat, SynOne DEF FinBare
    <3>4. b = a
      BY <2>8, <3>3
    <3>5. CASE shared'[q][id].state = "RecvClosed"
      <4>1. n = "eof"
        BY <1>5, <3>5, StatusIs
      <4>2. Ended(q, id)'
        BY <3>5 DEF Ended
      <4>3. b = w
        BY <1>1, <1>4, <4>2 DEF EndInv, AllIn
      <4>4. m = "open" \/ m = "eof"
        <5>1. Held(id \in entry[q], shared[q][id], handle[q][id])
          BY <1>1, <1>2 DEF StreamsOK, StreamOK
        <5>2. shared[q][id].state \in Reading \cup {"RecvClosed"} \/ Unborn(q, id)
          BY <2>8, <3>5 DEF EndBy, Over
        <5>3. ~Over(q, id)
          BY <5>1, <5>2 DEF Over, Reading, OpenStates, Held, Unborn
        <5> QED
          BY <1>5, <5>3, StatusIs
      <4> QED
        BY <3>4, <4>1, <4>3, <4>4
    <3>6. CASE shared'[q][id].state # "RecvClosed"
      BY <1>8, <2>8, <3>4, <3>6 DEF EndBy
    <3> QED
      BY <3>5, <3>6
  <2> QED
    BY <2>4, <2>5, <2>6, <2>7, <2>8
<1> QED
  BY <1>9, <1>10

\* The pipes at the beginning.
LEMMA InitPipes ==
  ASSUME SessionInit, NEW p \in Peers, NEW id \in Ids PROVE Pipe(p, id)!PipeInit
<1>1. /\ handle = [q \in Peers |-> [i \in Ids |-> NoHandle]]
      /\ shared = [q \in Peers |-> [i \in Ids |-> NoShared]]
      /\ rcvd = [q \in Peers |-> [i \in Ids |-> 0]]
      /\ written = [q \in Peers |-> [i \in Ids |-> 0]]
  BY DEF SessionInit, Init, PerStream
<1>2. NoHandle.life = "none" /\ NoShared.state = "None"
  BY DEF NoHandle, NoShared, NewShared
<1>3. PICK q \in Peers : q = Other(p)
  BY OtherPeer
<1>4. written[p][id] = 0 /\ rcvd[q][id] = 0 /\ PipeStatus(q, id) = "open"
  <2>1. handle[q][id].life = "none" /\ shared[q][id].state = "None"
    BY <1>1, <1>2
  <2> QED
    BY <1>1, <2>1 DEF PipeStatus
<1> QED
  BY <1>3, <1>4 DEF Pipe!PipeInit

\* Every step of the session is one of every pipe, or leaves it alone.
LEMMA StepsArePipeSteps ==
  ASSUME BothOurs, EofInv, EofInv', [SessionNext]_allVars
  PROVE  [\A p \in Peers, id \in Ids : Pipe(p, id)!PipeStep]_allVars
<1>1. CASE UNCHANGED allVars
  BY <1>1
<1>2. CASE \E p \in Peers : p \in Endpoints /\ EndpointStep(p)
  <2>1. PICK p \in Peers : EndpointStep(p)
    BY <1>2
  <2>2. PICK o \in Peers : o = Other(p) /\ Peers = {p, o}
    BY <2>1, OtherPeer
  <2>3. Settled /\ Settled'
    BY DEF EofInv, ByteInv, CreditInv
  <2>4. RouteInv /\ p \in Endpoints
    BY <2>1, <2>3, SettledParts DEF Settled
  <2>5. ASSUME NEW id \in Ids PROVE Pipe(p, id)!PipeStep /\ Pipe(o, id)!PipeStep
    <3>1. /\ Dated(p, id) /\ Intact(o, id) /\ Sound(p, id) /\ Sound(o, id)
          /\ EndInv(p, id) /\ Ceases(o, id) /\ EndInv(o, id)
      BY <2>1, <2>2 DEF EofInv, ByteInv, CreditInv
    <3>2. EndInv(o, id)'
      BY <2>2 DEF EofInv
    <3>3. Proceeds(p, id)
      BY <2>4, StepOnward DEF Proceeds
    <3>4. Acts(p, id)
      BY <2>1, <2>2, <2>3, <3>1 DEF Acts
    <3>5. Pipe(p, id)!PipeStep
      BY <2>1, <2>3, <3>1, <3>3, PipeOwn
    <3>6. Pipe(o, id)!PipeStep
      BY <2>2, <3>1, <3>2, <3>4, PipeOther
    <3> QED
      BY <3>5, <3>6
  <2> QED
    BY <2>2, <2>5
<1> QED
  BY <1>1, <1>2, OneOfUs

\* Refinement: between two endpoints that run this code, each direction of each
\* stream keeps the promise of BytePipe, for any number of streams, any windows,
\* channel and socket.  The reader gets what was written, in order and no more,
\* and is told the end when that was all; a reset, a drop or the end of the
\* connection may only cut it short.
THEOREM SessionImplementsPipes ==
  ASSUME BothOurs PROVE Spec => StreamsArePipes
<1>1. SessionInit => EofInv
  BY InitEof
<1>2. EofInv /\ [SessionNext]_allVars => EofInv'
  BY EofStays
<1>3. SessionInit => \A p \in Peers, id \in Ids : Pipe(p, id)!PipeInit
  BY InitPipes
<1>4. EofInv /\ EofInv' /\ [SessionNext]_allVars =>
        [\A p \in Peers, id \in Ids : Pipe(p, id)!PipeStep]_allVars
  BY StepsArePipeSteps
<1> QED
  BY <1>1, <1>2, <1>3, <1>4, PTL DEF Spec, StreamsArePipes

============================================================================
