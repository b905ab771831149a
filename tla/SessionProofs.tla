--------------------------- MODULE SessionProofs ---------------------------
(* Invariants of Session for every number of streams and every value of the *)
(* bounds, the configuration and the frames of a foreign peer.              *)
(*                                                                          *)
(* Most of what can go wrong with a stream concerns one end of it: its      *)
(* place in the table, its command receiver, its Shared and its handle.     *)
(* StreamOK says how these fit together; the lemmas of the first part show  *)
(* that each operation keeps StreamOK of the stream it works on, and the    *)
(* lemmas of the second part that each action of the session is such an     *)
(* operation on one stream, or leaves all of them in order.                 *)
EXTENDS SessionProperties, SumProofs, SequenceTheorems

\* Frames as they travel: a frame about a stream names a stream.
Frames ==
  {f \in [tag : Tags, flags : SUBSET Flags, id : 0 .. NumIds,
          len : 0 .. U32_MAX, pos : Nat] : IsStreamFrame(f) => f.id \in Ids}

OpKinds == {"idle", "write", "check", "read", "close"}

Handles ==
  [life : {"none", "live", "dropped"}, flag : {"None", "Syn", "Ack"},
   op : [kind : OpKinds, frame : Frames], closes : Nat]

RxStates == {"none", "open", "closed", "done"}

\* A Shared exists exactly as long as the table or a handle holds it, and an
\* operation under way has its handle.
Held(t, s, h) ==
  /\ s.state # "None" <=> t \/ h.life = "live"
  /\ s.state = "None" => s = NoShared
  /\ h.op.kind # "idle" => h.life = "live"
  /\ t => h.life # "none"

\* The table and its receivers: the entry of an active connection has a
\* receiver, a handle without entry sees its end, and an inactive connection
\* has no table.
Tabled(c, t, r, s, h) ==
  /\ c = "Active" /\ t => r = "open"
  /\ c = "Active" /\ h.life = "live" /\ ~t => s.state = "Closed"
  /\ c # "Active" => ~t
  /\ r = "none" <=> h.life = "none"
  /\ r = "done" => ~t /\ h.life # "live"

\* Whoever is parked has a reason, and only a close of its own makes a stream
\* unwritable under a parked writer.
Parked(s, h) ==
  h.life = "live" =>
    /\ s.reader => s.buf = 0 /\ can_read(s.state)
    /\ s.writer => s.fc.send_window = 0
    /\ h.closes = 0 => s.state # "SendClosed" /\ h.op.kind # "close"
    /\ s.writer /\ h.closes = 0 => can_write(s.state)

\* The end of a connection that fails has been told.
Told(c, s, h) ==
  c \in CleanupStates /\ s.state # "None" =>
    /\ s.state = "Closed" /\ ~s.reader
    /\ h.closes = 0 => ~s.writer

Bounded(s) == s.buf + s.fc.receive_window <= s.fc.max_receive_window

\* One end of a stream: the state of its connection, whether it is in the
\* table, its receiver, its Shared and its handle.
StreamOK(c, t, r, s, h) ==
  /\ Held(t, s, h) /\ Tabled(c, t, r, s, h)
  /\ Parked(s, h) /\ Told(c, s, h) /\ Bounded(s)

StreamsOK ==
  \A p \in Endpoints, id \in Ids :
    StreamOK(conn[p], id \in entry[p], rx[p][id], shared[p][id], handle[p][id])

----------------------------------------------------------------------------
(* What an operation does to the stream it works on                         *)

\* A stream's state moves on: it is not acknowledged and then not, and no half
\* that was closed opens, as long as there is a stream.
Onward(s, t) ==
  /\ is_pending_ack(t) => is_pending_ack(s)
  /\ s # "None" /\ t # "None" =>
       /\ ~can_read(s) => ~can_read(t)
       /\ ~can_write(s) => ~can_write(t)

Ends == {"OpenAcked", "SendClosed", "RecvClosed", "Closed"}

\* Shared::update_state changes the state alone, never to unacknowledged, and
\* opens no half that was closed.
LEMMA ToState ==
  ASSUME NEW s \in SharedSet, s.state # "None", NEW st \in Ends
  PROVE  /\ To(s, st) \in SharedSet
         /\ To(s, st).state \in Ends
         /\ To(s, st).fc = s.fc /\ To(s, st).buf = s.buf
         /\ To(s, st).reader = s.reader /\ To(s, st).writer = s.writer
         /\ ~can_read(s.state) => ~can_read(To(s, st).state)
         /\ ~can_write(s.state) => ~can_write(To(s, st).state)
         /\ Onward(s.state, To(s, st).state)
         /\ s.state = "Closed" \/ st = "Closed" => To(s, st).state = "Closed"
         /\ st = "OpenAcked" => /\ can_read(s.state) => can_read(To(s, st).state)
                                /\ can_write(s.state) => can_write(To(s, st).state)
                                /\ To(s, st).state = "SendClosed" => s.state = "SendClosed"
         /\ st = "SendClosed" /\ can_read(s.state) => can_read(To(s, st).state)
         /\ st = "RecvClosed" => /\ can_write(s.state) => can_write(To(s, st).state)
                                 /\ To(s, st).state # "SendClosed" \/ s.state = "SendClosed"
<1>1. s.state \in StreamStates
  BY DEF SharedSet
<1>2. update_state(s.state, st) \in Ends
  BY <1>1 DEF update_state, Ends, StreamStates, OpenStates
<1>3. To(s, st) = [s EXCEPT !.state = update_state(s.state, st)]
  BY DEF To
<1>4. /\ To(s, st) \in SharedSet /\ To(s, st).state = update_state(s.state, st)
      /\ To(s, st).fc = s.fc /\ To(s, st).buf = s.buf
      /\ To(s, st).reader = s.reader /\ To(s, st).writer = s.writer
  BY <1>2, <1>3 DEF SharedSet, Ends, StreamStates, OpenStates
<1> QED
  BY <1>1, <1>2, <1>4
     DEF update_state, Ends, StreamStates, OpenStates, can_read, can_write, Onward,
         is_pending_ack

\* Staying, ending and being closed are moves on, and so are two of them.
LEMMA OnwardSteps ==
  /\ \A s : Onward(s, s) /\ Onward(s, "None") /\ Onward(s, "Closed")
  /\ \A s, t, u : Onward(s, t) /\ Onward(t, u) /\ t # "None" => Onward(s, u)
<1>1. ASSUME NEW s PROVE Onward(s, s) /\ Onward(s, "None")
  BY DEF Onward, is_pending_ack
<1>2. ASSUME NEW s PROVE Onward(s, "Closed")
  BY DEF Onward, is_pending_ack, can_read, can_write
<1>3. ASSUME NEW s, NEW t, NEW u, Onward(s, t), Onward(t, u), t # "None"
      PROVE  Onward(s, u)
  <2>1. CASE u = "None"
    BY <1>1, <2>1
  <2>2. CASE u # "None" /\ s = "None"
    BY <1>3, <2>2 DEF Onward
  <2>3. CASE u # "None" /\ s # "None"
    BY <1>3, <2>3 DEF Onward
  <2> QED
    BY <2>1, <2>2, <2>3
<1> QED
  BY <1>1, <1>2, <1>3

\* An operation of the handle that leaves the Shared alone.
LEMMA HandleStep ==
  ASSUME NEW c, NEW t, NEW r, NEW s \in SharedSet, NEW h \in Handles,
         StreamOK(c, t, r, s, h), NEW h2 \in Handles,
         h.life = "live", h2.life = "live", h2.closes >= h.closes,
         h2.op.kind = "close" => h2.closes > 0
  PROVE  StreamOK(c, t, r, s, h2)
BY DEF StreamOK, Held, Tabled, Parked, Told, Handles

\* An acknowledgement.
LEMMA AckStep ==
  ASSUME NEW c, NEW t, NEW r, NEW s \in SharedSet, NEW h \in Handles,
         StreamOK(c, t, r, s, h), s.state # "None"
  PROVE  StreamOK(c, t, r, To(s, "OpenAcked"), h)
<1>1. "OpenAcked" \in Ends
  BY DEF Ends
<1> DEFINE s2 == To(s, "OpenAcked")
<1>2. /\ s2.state # "None" /\ s2.fc = s.fc /\ s2.buf = s.buf
      /\ s2.reader = s.reader /\ s2.writer = s.writer
      /\ s.state = "Closed" => s2.state = "Closed"
      /\ can_read(s.state) => can_read(s2.state)
      /\ can_write(s.state) => can_write(s2.state)
      /\ s2.state = "SendClosed" => s.state = "SendClosed"
  BY <1>1, ToState DEF Ends
<1> HIDE DEF s2
<1>3. Held(t, s2, h) /\ Told(c, s2, h) /\ Bounded(s2)
  BY <1>2 DEF StreamOK, Held, Told, Bounded
<1>4. Tabled(c, t, r, s2, h)
  BY <1>2 DEF StreamOK, Tabled
<1>5. Parked(s2, h)
  BY <1>2 DEF StreamOK, Parked
<1> QED
  BY <1>3, <1>4, <1>5 DEF StreamOK, s2

\* The send window shrinks while nobody waits for it.
LEMMA SpendStep ==
  ASSUME NEW c, NEW t, NEW r, NEW s \in SharedSet, NEW h \in Handles,
         StreamOK(c, t, r, s, h), ~s.writer, s.state # "None",
         NEW k \in 0 .. s.fc.send_window,
         NEW s2, s2 = [s EXCEPT !.fc = consume_send_window(@, k)]
  PROVE  StreamOK(c, t, r, s2, h) /\ s2 \in SharedSet /\ s2.state = s.state
<1>0. s.fc.send_window - k \in 0 .. U32_MAX
  BY FlowAssumption DEF SharedSet
<1>1. /\ s2 \in SharedSet
      /\ s2.state = s.state /\ s2.buf = s.buf
      /\ s2.reader = s.reader /\ s2.writer = s.writer
      /\ s2.fc.receive_window = s.fc.receive_window
      /\ s2.fc.max_receive_window = s.fc.max_receive_window
  BY <1>0 DEF SharedSet, consume_send_window
<1>2. StreamOK(c, t, r, s2, h)
  BY <1>1 DEF StreamOK, Held, Tabled, Parked, Told, Bounded
<1> QED
  BY <1>1, <1>2

\* A writer without credit parks.
LEMMA ParkWriterStep ==
  ASSUME NEW c, NEW t, NEW r, NEW s \in SharedSet, NEW h \in Handles,
         StreamOK(c, t, r, s, h), s.state # "None",
         can_write(s.state), s.fc.send_window = 0,
         NEW s2, s2 = [s EXCEPT !.writer = TRUE]
  PROVE  StreamOK(c, t, r, s2, h) /\ s2 \in SharedSet /\ s2.state = s.state
<1>1. /\ s2 \in SharedSet
      /\ s2.state = s.state /\ s2.buf = s.buf /\ s2.reader = s.reader
      /\ s2.fc = s.fc
  BY DEF SharedSet
<1>2. StreamOK(c, t, r, s2, h)
  BY <1>1 DEF StreamOK, Held, Tabled, Parked, Told, Bounded, can_write
<1> QED
  BY <1>1, <1>2

\* What CopyOrPark makes of a Shared.
CopyOf(s, k) == IF s.buf > 0 THEN [s EXCEPT !.buf = @ - k]
                ELSE [s EXCEPT !.reader = can_read(s.state)]

\* A reader takes bytes, or parks when there are none and more may come.
LEMMA CopyStep ==
  ASSUME NEW c, NEW t, NEW r, NEW s \in SharedSet, NEW h \in Handles,
         StreamOK(c, t, r, s, h), s.state # "None",
         NEW k \in 0 .. s.buf, NEW s2, s2 = CopyOf(s, k)
  PROVE  /\ StreamOK(c, t, r, s2, h) /\ s2 \in SharedSet
         /\ s2.state = s.state /\ s2.fc = s.fc
<1>0. s.buf - k \in 0 .. U32_MAX /\ s.buf \in 0 .. U32_MAX /\ can_read(s.state) \in BOOLEAN
  BY FlowAssumption DEF SharedSet, can_read
<1>1. /\ s2 \in SharedSet
      /\ s2.state = s.state /\ s2.writer = s.writer /\ s2.fc = s.fc
      /\ s2.buf <= s.buf
      /\ s.buf > 0 => s2.reader = s.reader
      /\ s.buf = 0 => (s2.reader => can_read(s.state)) /\ s2.buf = 0
  <2>1. CASE s.buf > 0
    BY <1>0, <2>1 DEF SharedSet, CopyOf
  <2>2. CASE s.buf = 0
    BY <1>0, <2>2 DEF SharedSet, CopyOf
  <2> QED
    BY <1>0, <2>1, <2>2
<1>2. s.buf \in Nat /\ s2.buf \in Nat /\ s.fc.receive_window \in Nat
      /\ s.fc.max_receive_window \in Nat
  BY <1>1, FlowAssumption DEF SharedSet
<1>3. Held(t, s2, h) /\ Told(c, s2, h) /\ Tabled(c, t, r, s2, h)
  BY <1>1, <1>2 DEF StreamOK, Held, Told, Tabled, can_read
<1>4. Bounded(s2)
  BY <1>1, <1>2 DEF StreamOK, Bounded
<1>5. Parked(s2, h)
  BY <1>1, <1>2 DEF StreamOK, Parked, can_read
<1> QED
  BY <1>1, <1>3, <1>4, <1>5 DEF StreamOK

\* What next_window_update makes of a Shared.
UpdateOf(s, a, fast) == [s EXCEPT !.fc = AfterUpdate(@, a, fast, s.buf)]

\* A window update: the maximum grows within u32 and within the budget, and
\* the credit never exceeds what the application has taken out of the buffer.
LEMMA UpdateStep ==
  ASSUME NEW c, NEW t, NEW r, NEW s \in SharedSet, NEW h \in Handles,
         StreamOK(c, t, r, s, h), s.state # "None",
         NEW a \in Int, a <= GrowthBudget, NEW fast \in BOOLEAN
  PROVE  /\ StreamOK(c, t, r, UpdateOf(s, a, fast), h)
         /\ UpdateOf(s, a, fast) \in SharedSet /\ UpdateOf(s, a, fast).state = s.state
         /\ NextCredit(s.fc, a, fast, s.buf) \in 0 .. U32_MAX
         /\ AccAfterUpdate(s.fc, a, fast) \in Int
         /\ AccAfterUpdate(s.fc, a, fast) <= GrowthBudget
         /\ AccAfterUpdate(s.fc, a, fast) + Excess(s) = a + Excess(UpdateOf(s, a, fast))
<1> DEFINE m == NextMax(s.fc, a, fast)
           n == NextCredit(s.fc, a, fast, s.buf)
           s2 == UpdateOf(s, a, fast)
           a2 == AccAfterUpdate(s.fc, a, fast)
<1>0. GrowthBudget \in Nat
  BY FlowAssumption DEF GrowthBudget, ConfigAccepted
<1>1. /\ s.fc.max_receive_window \in DEFAULT_CREDIT .. U32_MAX
      /\ s.fc.receive_window \in Nat /\ s.buf \in Nat
      /\ s.buf + s.fc.receive_window <= s.fc.max_receive_window
  BY DEF SharedSet, StreamOK, Bounded
<1>2. /\ m \in s.fc.max_receive_window .. U32_MAX
      /\ a + (m - s.fc.max_receive_window) <= GrowthBudget
  BY <1>0, <1>1, FlowAssumption DEF NextMax, GrownMax, Min2
<1>3. /\ n \in 0 .. U32_MAX
      /\ s.buf + s.fc.receive_window + n <= m
  BY <1>1, <1>2, FlowAssumption DEF NextCredit, Consumed, saturating_sub
<1>4. AfterUpdate(s.fc, a, fast, s.buf)
        = [s.fc EXCEPT !.max_receive_window = m,
                       !.receive_window = s.fc.receive_window + n]
  BY DEF AfterUpdate
<1> HIDE DEF m, n
<1>5. /\ s2 \in SharedSet
      /\ s2.state = s.state /\ s2.buf = s.buf
      /\ s2.reader = s.reader /\ s2.writer = s.writer
      /\ s2.fc.send_window = s.fc.send_window
      /\ s2.fc.max_receive_window = m
      /\ s2.fc.receive_window = s.fc.receive_window + n
  <2>1. /\ s.fc.receive_window + n \in 0 .. U32_MAX
        /\ m \in DEFAULT_CREDIT .. U32_MAX
    BY <1>1, <1>2, <1>3, FlowAssumption
  <2> QED
    BY <1>4, <2>1 DEF SharedSet, UpdateOf
<1> HIDE DEF s2
<1>6. StreamOK(c, t, r, s2, h)
  BY <1>1, <1>2, <1>3, <1>5 DEF StreamOK, Held, Tabled, Parked, Told, Bounded
<1>7. a2 = a + (m - s.fc.max_receive_window)
  BY DEF AccAfterUpdate, m
<1> HIDE DEF a2
<1>8. a2 + Excess(s) = a + Excess(s2)
  BY <1>1, <1>2, <1>5, <1>7, FlowAssumption DEF Excess
<1> QED
  BY <1>1, <1>2, <1>3, <1>5, <1>6, <1>7, <1>8, FlowAssumption DEF n, s2, a2

\* The end of poll_close: the sending half is closed by its own side.
LEMMA CloseStep ==
  ASSUME NEW c, NEW t, NEW r, NEW s \in SharedSet, NEW h \in Handles,
         StreamOK(c, t, r, s, h), s.state # "None", h.closes # 0
  PROVE  StreamOK(c, t, r, To(s, "SendClosed"), h)
<1>1. "SendClosed" \in Ends
  BY DEF Ends
<1> DEFINE s2 == To(s, "SendClosed")
<1>2. /\ s2.state # "None" /\ s2.fc = s.fc /\ s2.buf = s.buf
      /\ s2.reader = s.reader /\ s2.writer = s.writer
      /\ s.state = "Closed" => s2.state = "Closed"
      /\ can_read(s.state) => can_read(s2.state)
  BY <1>1, ToState DEF Ends
<1> HIDE DEF s2
<1>3. Held(t, s2, h) /\ Told(c, s2, h) /\ Bounded(s2)
  BY <1>2 DEF StreamOK, Held, Told, Bounded
<1>4. Tabled(c, t, r, s2, h) /\ Parked(s2, h)
  BY <1>2 DEF StreamOK, Tabled, Parked
<1> QED
  BY <1>3, <1>4 DEF StreamOK, s2

\* A new Shared, and the one of nobody.
LEMMA NewSharedOK ==
  ASSUME NEW n \in 0 .. U32_MAX
  PROVE  /\ NewShared(n) \in SharedSet /\ NewShared(n).state = "OpenPending"
         /\ Bounded(NewShared(n)) /\ Excess(NewShared(n)) = 0
         /\ ~NewShared(n).reader /\ ~NewShared(n).writer
         /\ NewShared(n).buf = 0 /\ NewShared(n).fc = new_controller(n)
<1>1. /\ DEFAULT_CREDIT \in 0 .. U32_MAX /\ DEFAULT_CREDIT \in DEFAULT_CREDIT .. U32_MAX
      /\ 0 \in 0 .. U32_MAX /\ 0 + DEFAULT_CREDIT <= DEFAULT_CREDIT
      /\ DEFAULT_CREDIT - DEFAULT_CREDIT = 0
  BY FlowAssumption
<1>2. NewShared(n) \in SharedSet
  BY <1>1 DEF SharedSet, NewShared, new_controller, StreamStates, OpenStates
<1>3. NewShared(n).buf + NewShared(n).fc.receive_window
        <= NewShared(n).fc.max_receive_window
  BY <1>1 DEF NewShared, new_controller
<1> QED
  BY <1>1, <1>2, <1>3 DEF Bounded, Excess, NewShared, new_controller

\* No stream: the place of a Shared that does not exist.
LEMMA NoSharedOK ==
  /\ NoShared \in SharedSet /\ NoShared.state = "None" /\ Bounded(NoShared)
  /\ Excess(NoShared) = 0
<1>1. 0 \in 0 .. U32_MAX
  BY FlowAssumption
<1>2. /\ NewShared(0) \in SharedSet
      /\ NoShared = [NewShared(0) EXCEPT !.state = "None"]
  BY <1>1, NewSharedOK DEF NoShared
<1>3. /\ NoShared \in SharedSet /\ NoShared.state = "None"
      /\ NoShared.fc = NewShared(0).fc /\ NoShared.buf = NewShared(0).buf
  BY <1>2 DEF SharedSet
<1>4. Bounded(NewShared(0)) /\ Excess(NewShared(0)) = 0
  BY <1>1, NewSharedOK
<1> QED
  BY <1>3, <1>4 DEF Bounded, Excess

\* Dropping the handle; the table may hold the Shared still.
LEMMA DropStep ==
  ASSUME NEW c, NEW t, NEW r, NEW s \in SharedSet, NEW h \in Handles,
         StreamOK(c, t, r, s, h), h.life = "live",
         NEW h2 \in Handles, h2.life = "dropped", h2.op.kind = "idle",
         h2.closes = 0, c \in ConnStates
  PROVE  StreamOK(c, t, r, IF t THEN s ELSE NoShared, h2)
<1>1. CASE t
  <2>1. c = "Active"
    BY <1>1 DEF StreamOK, Tabled
  <2>2. ~(c \in CleanupStates)
    BY <2>1 DEF CleanupStates
  <2> QED
    BY <1>1, <2>2 DEF StreamOK, Held, Tabled, Parked, Told
<1>2. CASE ~t
  BY <1>2, NoSharedOK DEF StreamOK, Held, Tabled, Parked, Told
<1> QED
  BY <1>1, <1>2

\* Off the table, the handle alone keeps a Shared alive.
KeptBy(h, s) == IF h.life = "live" THEN s ELSE NoShared

\* A stream that is closed and woken leaves the table.
LEMMA LeaveStep ==
  ASSUME NEW c, NEW t, NEW r, NEW s \in SharedSet, NEW h \in Handles,
         StreamOK(c, t, r, s, h), t, NEW t2, ~t2, NEW c2 \in ConnStates,
         NEW s2 \in SharedSet, s2.state = "Closed", s2.buf = s.buf, s2.fc = s.fc,
         ~s2.reader, ~s2.writer \/ (~can_write(s.state) /\ s2.writer = s.writer)
  PROVE  StreamOK(c2, t2, r, KeptBy(h, s2), h)
<1>1. CASE h.life = "live"
  <2>1. h.closes = 0 => ~s2.writer
    BY <1>1 DEF StreamOK, Parked
  <2>2. s2.writer => s2.fc.send_window = 0
    BY <1>1 DEF StreamOK, Parked
  <2>3. Held(t2, s2, h) /\ Tabled(c2, t2, r, s2, h)
    BY <1>1 DEF StreamOK, Held, Tabled
  <2>4. Parked(s2, h) /\ Told(c2, s2, h)
    BY <1>1, <2>1, <2>2 DEF StreamOK, Parked, Told
  <2>5. Bounded(s2)
    BY DEF StreamOK, Bounded
  <2> QED
    BY <1>1, <2>3, <2>4, <2>5 DEF StreamOK, KeptBy
<1>2. CASE h.life # "live"
  BY <1>2, NoSharedOK DEF StreamOK, Held, Tabled, Parked, Told, KeptBy
<1> QED
  BY <1>1, <1>2

\* The two new streams: poll_new_outbound and make_new_inbound_stream.
LEMMA FreshStep ==
  ASSUME NEW s \in SharedSet, s.state \in {"OpenPending", "RecvClosed"},
         ~s.reader, ~s.writer, Bounded(s),
         NEW h \in Handles, h.life = "live", h.op.kind = "idle", h.closes = 0,
         NEW c, c = "Active", NEW t, t
  PROVE  StreamOK(c, t, "open", s, h)
BY DEF StreamOK, Held, Tabled, Parked, Told, CleanupStates

\* A body arrives that fits in the window, or credit; perhaps with FIN.  The
\* frame finds whoever waits for it awake.
LEMMA ArriveStep ==
  ASSUME NEW c, NEW t, NEW r, NEW s \in SharedSet, NEW h \in Handles,
         StreamOK(c, t, r, s, h), c = "Active", t,
         NEW s2 \in SharedSet, s2.state = s.state,
         Bounded(s2),
         ~s2.reader \/ (s2.reader = s.reader /\ s2.buf = s.buf),
         ~s2.writer \/ (s2.writer = s.writer /\ s2.fc.send_window = s.fc.send_window)
  PROVE  StreamOK(c, t, r, s2, h)
<1>1. Held(t, s2, h) /\ Tabled(c, t, r, s2, h) /\ Told(c, s2, h)
  BY DEF StreamOK, Held, Tabled, Told, CleanupStates
<1>2. Parked(s2, h)
  BY DEF StreamOK, Parked
<1> QED
  BY <1>1, <1>2 DEF StreamOK

\* The FIN of the remote, on a stream whose reader is awake.
LEMMA FinStep ==
  ASSUME NEW c, NEW t, NEW r, NEW s \in SharedSet, NEW h \in Handles,
         StreamOK(c, t, r, s, h), s.state # "None", ~s.reader
  PROVE  StreamOK(c, t, r, To(s, "RecvClosed"), h)
<1>1. "RecvClosed" \in Ends
  BY DEF Ends
<1> DEFINE s2 == To(s, "RecvClosed")
<1>2. /\ s2.state # "None" /\ s2.fc = s.fc /\ s2.buf = s.buf
      /\ ~s2.reader /\ s2.writer = s.writer
      /\ s.state = "Closed" => s2.state = "Closed"
      /\ can_write(s.state) => can_write(s2.state)
      /\ s2.state = "SendClosed" => s.state = "SendClosed"
  BY <1>1, ToState DEF Ends
<1> HIDE DEF s2
<1>3. Held(t, s2, h) /\ Told(c, s2, h) /\ Bounded(s2)
  BY <1>2 DEF StreamOK, Held, Told, Bounded
<1>4. Tabled(c, t, r, s2, h) /\ Parked(s2, h)
  BY <1>2 DEF StreamOK, Tabled, Parked
<1> QED
  BY <1>3, <1>4 DEF StreamOK, s2

\* connection_close: the table goes, the streams are not told.
LEMMA UntoldStep ==
  ASSUME NEW t, NEW t2, ~t2, NEW r, NEW s \in SharedSet, NEW h \in Handles,
         NEW c, c = "Active", StreamOK(c, t, r, s, h), NEW c2, c2 \notin CleanupStates, c2 # "Active"
  PROVE  StreamOK(c2, t2, r, KeptBy(h, s), h)
<1>1. CASE h.life = "live"
  BY <1>1 DEF StreamOK, Held, Tabled, Parked, Told, KeptBy
<1>2. CASE h.life # "live"
  BY <1>2, NoSharedOK DEF StreamOK, Held, Tabled, Parked, Told, KeptBy
<1> QED
  BY <1>1, <1>2

\* Closing and Cleanup go on; receivers are closed on the way.
LEMMA GoOnStep ==
  ASSUME NEW c, NEW t, NEW r, NEW s \in SharedSet, NEW h \in Handles,
         StreamOK(c, t, r, s, h), c # "Active", NEW c2, c2 # "Active",
         c2 \in CleanupStates => c \in CleanupStates, NEW r2,
         r2 = r \/ (r = "open" /\ r2 = "closed")
  PROVE  StreamOK(c2, t, r2, s, h)
BY DEF StreamOK, Held, Tabled, Parked, Told

----------------------------------------------------------------------------
(* The session's state                                                      *)

RttStates == [st : {"due", "idle", "await"}, id : 0 .. U32_MAX, known : BOOLEAN]

StreamTypes ==
  /\ conn \in [Peers -> ConnStates]
  /\ entry \in [Peers -> SUBSET Ids]
  /\ rx \in [Peers -> [Ids -> RxStates]]
  /\ shared \in [Peers -> [Ids -> SharedSet]]
  /\ handle \in [Peers -> [Ids -> Handles]]
  /\ acc \in [Peers -> Int] /\ \A p \in Peers : acc[p] <= GrowthBudget

FrameTypes ==
  /\ wire \in [Peers -> Seq(Frames)] /\ chan \in [Peers -> [Ids -> Seq(Frames)]]
  /\ pendR \in [Peers -> Seq(Frames)] /\ pendW \in [Peers -> Seq(Frames)]
  /\ pendQ \in [Peers -> Seq(Frames)]
  /\ written \in [Peers -> [Ids -> Nat]]
  /\ rtt \in [Peers -> RttStates]
  /\ \A p \in Peers : rtt[p].id <= MaxPings[p] /\ (rtt[p].st = "due" => rtt[p].id < MaxPings[p])
  /\ nextId \in [Peers -> 1 .. MAX_ID + 1]

\* The peers' own state is their own.
Apart(p) ==
  \A q \in Peers \ {p} :
    /\ conn'[q] = conn[q] /\ entry'[q] = entry[q] /\ rx'[q] = rx[q]
    /\ shared'[q] = shared[q] /\ handle'[q] = handle[q] /\ acc'[q] = acc[q]

\* A step concerns one stream of p.
OneStream(p, id) ==
  /\ Apart(p) /\ conn'[p] = conn[p]
  /\ \A j \in Ids \ {id} :
       /\ j \in entry'[p] <=> j \in entry[p]
       /\ rx'[p][j] = rx[p][j] /\ shared'[p][j] = shared[p][j]
       /\ handle'[p][j] = handle[p][j]

\* The budget follows the stream's window.
Accounted(p, id) == acc'[p] + Excess(shared[p][id]) = acc[p] + Excess(shared'[p][id])

\* The stream moves on, and does not enter the table.
NoneReborn(p, id) ==
  /\ id \in entry'[p] => id \in entry[p]
  /\ Onward(shared[p][id].state, shared'[p][id].state)

InOrder(p, id) ==
  StreamOK(conn[p], id \in entry'[p], rx'[p][id], shared'[p][id], handle'[p][id])

\* A step of an existing stream that leaves it in order.
StreamStep(p, id) ==
  OneStream(p, id) /\ InOrder(p, id) /\ Accounted(p, id) /\ NoneReborn(p, id)

\* Endpoints are peers.
LEMMA EndpointsArePeers == \A p \in Endpoints : p \in Peers
BY EndpointAssumption

\* There are two peers.
LEMMA OtherPeer ==
  ASSUME NEW p \in Peers
  PROVE  Other(p) \in Peers /\ Other(p) # p /\ Peers = {p, Other(p)}
<1>1. \E q \in Peers : q # p
  BY DEF Peers
<1>2. Other(p) \in Peers /\ Other(p) # p
  BY <1>1 DEF Other
<1> QED
  BY <1>2 DEF Peers

\* What remains of the Shared of a stream.
Kept(id, ent, h, s) == IF id \in ent \/ h.life = "live" THEN s ELSE NoShared

\* The streams' side of SetStreams when one stream changes: nothing else is
\* dropped, and the budget gets back what the stream gave up.
LEMMA SetOneStream ==
  ASSUME StreamTypes, StreamsOK, NEW p \in Endpoints, NEW id \in Ids,
         NEW ent \in SUBSET Ids, \A j \in Ids \ {id} : j \in ent <=> j \in entry[p],
         NEW s \in SharedSet, s.state = "None" => s = NoShared,
         NEW h \in Handles, NEW S, NEW H,
         S = [shared[p] EXCEPT ![id] = s], H = [handle[p] EXCEPT ![id] = h],
         SetStreams(p, ent, S, H)
  PROVE  /\ entry' \in [Peers -> SUBSET Ids] /\ entry'[p] = ent
         /\ shared' \in [Peers -> [Ids -> SharedSet]]
         /\ shared'[p][id] = Kept(id, ent, h, s)
         /\ \A j \in Ids \ {id} : shared'[p][j] = shared[p][j]
         /\ acc' \in [Peers -> Int] /\ acc'[p] <= acc[p]
         /\ acc'[p] + Excess(s) = acc[p] + Excess(shared'[p][id])
         /\ \A q \in Peers \ {p} : /\ entry'[q] = entry[q] /\ shared'[q] = shared[q]
                                   /\ acc'[q] = acc[q]
<1> DEFINE freed == {j \in Ids : /\ S[j].state # "None"
                                 /\ j \notin ent /\ H[j].life # "live"}
           T == [j \in Ids |-> IF j \in freed THEN NoShared ELSE S[j]]
<1>1. p \in Peers /\ shared[p] \in [Ids -> SharedSet] /\ handle[p] \in [Ids -> Handles]
  BY EndpointsArePeers DEF StreamTypes
<1>2. /\ S \in [Ids -> SharedSet] /\ S[id] = s
      /\ \A j \in Ids \ {id} : S[j] = shared[p][j] /\ H[j] = handle[p][j]
      /\ H[id] = h
  BY <1>1
<1>3. \A j \in Ids \ {id} : j \notin freed
  <2> SUFFICES ASSUME NEW j \in Ids \ {id}, shared[p][j].state # "None"
               PROVE  j \in ent \/ handle[p][j].life = "live"
    BY <1>2
  <2>1. Held(j \in entry[p], shared[p][j], handle[p][j])
    BY DEF StreamsOK, StreamOK
  <2> QED
    BY <2>1 DEF Held
<1>4. entry' = [entry EXCEPT ![p] = ent] /\ shared' = [shared EXCEPT ![p] = T]
  BY DEF SetStreams
<1>5. acc' = [acc EXCEPT ![p] = @ - ExcessOf(S, freed)]
  BY DEF SetStreams
<1>6. /\ id \in freed => s.state # "None" /\ id \notin ent /\ h.life # "live"
      /\ id \notin freed => s.state = "None" \/ id \in ent \/ h.life = "live"
  BY <1>2
<1>7. freed \subseteq {id}
  BY <1>3
<1> HIDE DEF freed
<1>8. T \in [Ids -> SharedSet] /\ T[id] = Kept(id, ent, h, s)
      /\ \A j \in Ids \ {id} : T[j] = shared[p][j]
  <2>1. T \in [Ids -> SharedSet]
    BY <1>2, NoSharedOK
  <2>2. \A j \in Ids \ {id} : T[j] = shared[p][j]
    BY <1>2, <1>3
  <2>3. T[id] = IF id \in freed THEN NoShared ELSE s
    BY <1>2
  <2>4. T[id] = Kept(id, ent, h, s)
    BY <1>6, <2>3 DEF Kept
  <2> QED
    BY <2>1, <2>2, <2>4
<1> HIDE DEF T
<1>9. Excess(s) \in Nat
  BY FlowAssumption DEF Excess, SharedSet
<1>10. ExcessOf(S, freed) = Excess(s) - Excess(T[id]) /\ ExcessOf(S, freed) \in Nat
  <2> DEFINE f == [j \in Ids |-> Excess(S[j])]
  <2>1. f[id] = Excess(s)
    BY <1>2
  <2>2. ExcessOf(S, freed) = SumFunctionOnSet(f, freed)
    BY DEF ExcessOf
  <2> HIDE DEF f
  <2>3. CASE id \in freed
    <3>1. freed = {id}
      BY <1>7, <2>3
    <3>2. SumFunctionOnSet(f, {id}) = f[id]
      BY <1>9, <2>1, SumOne
    <3>3. Excess(T[id]) = 0
      BY <1>6, <1>8, <2>3, NoSharedOK DEF Kept
    <3> QED
      BY <1>9, <2>1, <2>2, <3>1, <3>2, <3>3
  <2>4. CASE id \notin freed
    <3>1. freed = {}
      BY <1>7, <2>4
    <3>2. T[id] = s
      BY <1>6, <1>8, <2>4 DEF Kept
    <3> QED
      BY <1>9, <2>2, <3>1, <3>2, SumEmpty
  <2> QED
    BY <2>3, <2>4
<1>11. Excess(T[id]) \in Int
  BY <1>8, FlowAssumption DEF Excess, SharedSet
<1>12. /\ entry' \in [Peers -> SUBSET Ids] /\ entry'[p] = ent
       /\ shared' \in [Peers -> [Ids -> SharedSet]] /\ shared'[p] = T
       /\ \A q \in Peers \ {p} : entry'[q] = entry[q] /\ shared'[q] = shared[q]
  BY <1>1, <1>4, <1>8 DEF StreamTypes
<1>13. /\ acc'[p] = acc[p] - ExcessOf(S, freed) /\ acc[p] \in Int
       /\ acc' \in [Peers -> Int] /\ \A q \in Peers \ {p} : acc'[q] = acc[q]
  BY <1>1, <1>5, <1>10 DEF StreamTypes
<1>14. acc'[p] <= acc[p] /\ acc'[p] + Excess(s) = acc[p] + Excess(T[id])
  BY <1>9, <1>10, <1>11, <1>13
<1> QED
  BY <1>8, <1>12, <1>13, <1>14

\* Writing what is there changes nothing.
LEMMA SamePlace ==
  ASSUME NEW X, NEW Y, NEW v \in [Peers -> [Ids -> X]], NEW w \in [Peers -> Y],
         NEW p \in Peers, NEW id \in Ids
  PROVE  /\ v = [v EXCEPT ![p][id] = v[p][id]] /\ w = [w EXCEPT ![p] = w[p]]
         /\ v[p] = [v[p] EXCEPT ![id] = v[p][id]]
OBVIOUS

\* The steps of a handle's operation: the table and the receivers stay.
LEMMA HandleOperation ==
  ASSUME StreamTypes, NEW p \in Endpoints, NEW id \in Ids,
         NEW s \in SharedSet, NEW h \in Handles, NEW a \in Int, a <= GrowthBudget,
         UNCHANGED <<conn, entry, rx>>,
         shared' = [shared EXCEPT ![p][id] = s], handle' = [handle EXCEPT ![p][id] = h],
         acc' = [acc EXCEPT ![p] = a],
         StreamOK(conn[p], id \in entry[p], rx[p][id], s, h),
         a + Excess(shared[p][id]) = acc[p] + Excess(s),
         Onward(shared[p][id].state, s.state)
  PROVE  StreamTypes' /\ StreamStep(p, id)
<1>1. p \in Peers
  BY EndpointsArePeers
<1>2. /\ shared' \in [Peers -> [Ids -> SharedSet]] /\ handle' \in [Peers -> [Ids -> Handles]]
      /\ acc' \in [Peers -> Int]
  BY <1>1 DEF StreamTypes
<1>3. /\ shared'[p][id] = s /\ handle'[p][id] = h /\ acc'[p] = a
      /\ \A j \in Ids \ {id} : shared'[p][j] = shared[p][j] /\ handle'[p][j] = handle[p][j]
      /\ \A q \in Peers \ {p} : shared'[q] = shared[q] /\ handle'[q] = handle[q]
                                /\ acc'[q] = acc[q]
  BY <1>1 DEF StreamTypes
<1>4. StreamTypes'
  BY <1>2, <1>3 DEF StreamTypes
<1>5. OneStream(p, id)
  BY <1>3 DEF OneStream, Apart
<1>6. Accounted(p, id) /\ NoneReborn(p, id)
  BY <1>3 DEF Accounted, NoneReborn
<1> QED
  BY <1>3, <1>4, <1>5, <1>6 DEF StreamStep, InOrder

\* What a step of a live handle may rely on.
LEMMA LiveStream ==
  ASSUME StreamTypes, StreamsOK, NEW p \in Endpoints, NEW id \in Ids,
         handle[p][id].life = "live" \/ id \in entry[p] \/ handle[p][id].op.kind # "idle"
  PROVE  /\ p \in Peers
         /\ shared[p][id] \in SharedSet /\ handle[p][id] \in Handles
         /\ rx[p][id] \in RxStates /\ conn[p] \in ConnStates
         /\ acc[p] \in Int /\ acc[p] <= GrowthBudget
         /\ Excess(shared[p][id]) \in Int
         /\ StreamOK(conn[p], id \in entry[p], rx[p][id], shared[p][id], handle[p][id])
         /\ shared[p][id].state # "None"
         /\ handle[p][id].op.kind # "idle" => handle[p][id].life = "live"
<1>1. /\ p \in Peers /\ shared[p][id] \in SharedSet /\ handle[p][id] \in Handles
      /\ rx[p][id] \in RxStates /\ conn[p] \in ConnStates
      /\ acc[p] \in Int /\ acc[p] <= GrowthBudget
  BY EndpointsArePeers DEF StreamTypes
<1>2. StreamOK(conn[p], id \in entry[p], rx[p][id], shared[p][id], handle[p][id])
  BY DEF StreamsOK
<1>3. Held(id \in entry[p], shared[p][id], handle[p][id])
  BY <1>2 DEF StreamOK
<1>4. Excess(shared[p][id]) \in Int
  BY <1>1, FlowAssumption DEF SharedSet, Excess
<1> QED
  BY <1>1, <1>2, <1>3, <1>4 DEF Held

\* Frames that the handles and the connection make.
LEMMA FrameOfStream ==
  ASSUME NEW id \in Ids, NEW n \in 0 .. U32_MAX, NEW pos \in Nat, NEW fl \in SUBSET Flags,
         NEW ack \in BOOLEAN
  PROVE  /\ with_flags(data(id, pos, n), fl) \in Frames
         /\ with_flags(window_update(id, n), fl) \in Frames
         /\ close_stream(id, ack) \in Frames /\ reset_stream(id) \in Frames
<1>1. id \in 0 .. NumIds /\ 0 \in 0 .. U32_MAX
  BY EndpointAssumption, FlowAssumption DEF Ids
<1> USE <1>1
<1>2. with_flags(data(id, pos, n), fl) \in Frames
  BY DEF Frames, with_flags, data, Header, Tags, Flags, IsStreamFrame
<1>3. with_flags(window_update(id, n), fl) \in Frames
  BY DEF Frames, with_flags, window_update, Header, Tags, Flags, IsStreamFrame
<1>4. close_stream(id, ack) \in Frames /\ reset_stream(id) \in Frames
  BY DEF Frames, close_stream, reset_stream, Header, Tags, Flags, IsStreamFrame
<1> QED
  BY <1>2, <1>3, <1>4

\* The frames that concern no stream.
LEMMA FrameOfConnection ==
  ASSUME NEW n \in 0 .. U32_MAX
  PROVE  /\ term \in Frames /\ protocol_error \in Frames /\ internal_error \in Frames
         /\ ping(n) \in Frames /\ pong(n) \in Frames
<1>1. 0 \in 0 .. NumIds /\ 0 \in 0 .. U32_MAX /\ 1 \in 0 .. U32_MAX /\ 2 \in 0 .. U32_MAX
  BY EndpointAssumption, FlowAssumption
<1>2. term \in Frames /\ protocol_error \in Frames /\ internal_error \in Frames
  BY <1>1 DEF Frames, term, protocol_error, internal_error, Header, Tags, Flags,
              IsStreamFrame, CONNECTION_ID
<1>3. ping(n) \in Frames /\ pong(n) \in Frames
  BY <1>1 DEF Frames, ping, pong, Header, Tags, Flags, IsStreamFrame, CONNECTION_ID
<1> QED
  BY <1>2, <1>3

----------------------------------------------------------------------------
(* The operations of a handle                                               *)

\* The handle after an operation has gone on to `kind`, or has ended.
NextOp(p, id, kind) ==
  \E h \in Handles :
    /\ handle' = [handle EXCEPT ![p][id] = h]
    /\ h.life = handle[p][id].life /\ h.closes = handle[p][id].closes
    /\ h.op.kind = kind

\* The handle of an operation that begins: its flag goes with the frame.
LEMMA Begins ==
  ASSUME StreamTypes, NEW p \in Peers, NEW id \in Ids, NEW kind \in OpKinds, NEW f \in Frames,
         \/ BeginOp(p, id, kind, f)
         \/ handle' = [handle EXCEPT ![p][id].op = [kind |-> kind, frame |-> f]]
  PROVE  NextOp(p, id, kind)
<1> DEFINE h  == handle[p][id]
           h1 == [h EXCEPT !.flag = "None", !.op = [kind |-> kind, frame |-> f]]
           h2 == [h EXCEPT !.op = [kind |-> kind, frame |-> f]]
<1>1. h \in Handles /\ handle \in [Peers -> [Ids -> Handles]]
  BY DEF StreamTypes
<1>2. /\ h1 \in Handles /\ h1.life = h.life /\ h1.closes = h.closes /\ h1.op.kind = kind
      /\ h2 \in Handles /\ h2.life = h.life /\ h2.closes = h.closes /\ h2.op.kind = kind
  BY <1>1 DEF Handles
<1>3. BeginOp(p, id, kind, f) => handle' = [handle EXCEPT ![p][id] = h1]
  BY <1>1 DEF BeginOp, Handles
<1>4. [handle EXCEPT ![p][id].op = [kind |-> kind, frame |-> f]]
        = [handle EXCEPT ![p][id] = h2]
  BY <1>1
<1> HIDE DEF h1, h2
<1>5. handle' = [handle EXCEPT ![p][id] = h1] \/ handle' = [handle EXCEPT ![p][id] = h2]
  BY <1>3, <1>4
<1> QED
  BY <1>2, <1>5 DEF NextOp

\* No operation is under way.
LEMMA IdleOp == Idle \in [kind : OpKinds, frame : Frames] /\ Idle.kind = "idle"
<1>1. 0 \in 0 .. U32_MAX
  BY FlowAssumption
<1>2. term \in Frames
  BY <1>1, FrameOfConnection
<1> QED
  BY <1>2 DEF Idle, OpKinds

\* The handle of an operation that is over.
LEMMA EndsOp ==
  ASSUME StreamTypes, NEW p \in Peers, NEW id \in Ids, EndOp(p, id)
  PROVE  NextOp(p, id, "idle")
<1> DEFINE h  == handle[p][id]
           h2 == [h EXCEPT !.op = Idle]
<1>1. h \in Handles /\ handle \in [Peers -> [Ids -> Handles]]
  BY DEF StreamTypes
<1>2. h2 \in Handles /\ h2.life = h.life /\ h2.closes = h.closes /\ h2.op.kind = "idle"
  BY <1>1, IdleOp DEF Handles
<1>3. handle' = [handle EXCEPT ![p][id] = h2]
  BY <1>1 DEF EndOp
<1> HIDE DEF h2
<1> QED
  BY <1>2, <1>3 DEF NextOp

\* The flag that goes with a frame is a flag.
LEMMA AddFlag ==
  ASSUME StreamTypes, NEW p \in Peers, NEW id \in Ids
  PROVE  add_flag(p, id) \in SUBSET Flags
BY DEF StreamTypes, Handles, add_flag, Flags

\* poll_write spends credit and builds a frame.
LEMMA PollWriteKeeps ==
  ASSUME StreamTypes, FrameTypes, StreamsOK, NEW p \in Endpoints, NEW id \in Ids,
         NEW n \in Nat, poll_write(p, id, n)
  PROVE  StreamTypes' /\ StreamStep(p, id)
<1> DEFINE s  == shared[p][id]
           k  == Accepted(p, id, n)
           s1 == [s EXCEPT !.fc = consume_send_window(@, k)]
           f  == with_flags(data(id, written[p][id], k), add_flag(p, id))
           s2 == IF "ACK" \in f.flags THEN To(s1, "OpenAcked") ELSE s1
<1>1. /\ handle[p][id].life = "live" /\ ~s.writer /\ s.fc.send_window > 0
      /\ UNCHANGED <<conn, entry, rx, acc>>
      /\ shared' = [shared EXCEPT ![p][id] = s2] /\ BeginOp(p, id, "write", f)
  BY DEF poll_write, WriteReady, Free, live, connVars
<1>2. /\ p \in Peers /\ s \in SharedSet /\ handle[p][id] \in Handles
      /\ acc[p] \in Int /\ acc[p] <= GrowthBudget /\ Excess(s) \in Int
      /\ StreamOK(conn[p], id \in entry[p], rx[p][id], s, handle[p][id])
      /\ s.state # "None"
  BY <1>1, LiveStream
<1>3. k \in 0 .. s.fc.send_window /\ k \in 0 .. U32_MAX
  <2>1. s.fc.send_window \in 0 .. U32_MAX /\ SplitSendSize \in Nat
    BY <1>2, EndpointAssumption DEF SharedSet
  <2> QED
    BY <2>1, FlowAssumption DEF Accepted, Min2
<1> HIDE DEF k
<1>4. /\ StreamOK(conn[p], id \in entry[p], rx[p][id], s1, handle[p][id])
      /\ s1 \in SharedSet /\ s1.state = s.state
  BY <1>1, <1>2, <1>3, SpendStep, SMTT(30)
<1>5. f \in Frames
  BY <1>2, <1>3, AddFlag, FrameOfStream DEF FrameTypes
<1>6. Excess(s1) = Excess(s)
  BY <1>2 DEF Excess, consume_send_window, SharedSet
<1> HIDE DEF f, s1
<1>7. /\ StreamOK(conn[p], id \in entry[p], rx[p][id], s2, handle[p][id])
      /\ s2 \in SharedSet /\ s2.fc = s1.fc
      /\ Onward(s.state, s2.state)
  <2>1. CASE "ACK" \in f.flags
    <3>1. "OpenAcked" \in Ends
      BY DEF Ends
    <3> QED
      BY <1>2, <1>4, <2>1, <3>1, AckStep, ToState
  <2>2. CASE "ACK" \notin f.flags
    BY <1>4, <2>2, OnwardSteps
  <2> QED
    BY <2>1, <2>2
<1> HIDE DEF s2
<1>8. PICK h2 \in Handles :
        /\ handle' = [handle EXCEPT ![p][id] = h2]
        /\ h2.life = "live" /\ h2.closes = handle[p][id].closes /\ h2.op.kind = "write"
  <2>1. "write" \in OpKinds
    BY DEF OpKinds
  <2>2. NextOp(p, id, "write")
    BY <1>1, <1>2, <1>5, <2>1, Begins
  <2> QED
    BY <1>1, <2>2 DEF NextOp
<1>9. StreamOK(conn[p], id \in entry[p], rx[p][id], s2, h2)
  <2>1. handle[p][id].closes \in Nat
    BY <1>2 DEF Handles
  <2> QED
    BY <1>1, <1>2, <1>7, <1>8, <2>1, HandleStep
<1>10. acc' = [acc EXCEPT ![p] = acc[p]]
  BY <1>1, <1>2 DEF StreamTypes
<1>11. acc[p] + Excess(s) = acc[p] + Excess(s2)
  BY <1>6, <1>7 DEF Excess
<1> QED
  BY <1>1, <1>2, <1>7, <1>8, <1>9, <1>10, <1>11, HandleOperation

\* A writer without credit is parked.
LEMMA WriteParkKeeps ==
  ASSUME StreamTypes, StreamsOK, NEW p \in Endpoints, NEW id \in Ids, WritePark(p, id)
  PROVE  StreamTypes' /\ StreamStep(p, id)
<1> DEFINE s  == shared[p][id]
           s2 == [s EXCEPT !.writer = TRUE]
<1>1. /\ handle[p][id].life = "live" /\ can_write(s.state) /\ s.fc.send_window = 0
      /\ UNCHANGED <<conn, entry, rx, acc, handle>>
      /\ shared' = [shared EXCEPT ![p][id] = s2]
  BY DEF WritePark, WriteReady, Free, live, connVars, handleVars
<1>2. /\ p \in Peers /\ s \in SharedSet /\ handle[p][id] \in Handles
      /\ acc[p] \in Int /\ acc[p] <= GrowthBudget /\ Excess(s) \in Int
      /\ StreamOK(conn[p], id \in entry[p], rx[p][id], s, handle[p][id])
      /\ s.state # "None"
  BY <1>1, LiveStream
<1>3. /\ StreamOK(conn[p], id \in entry[p], rx[p][id], s2, handle[p][id])
      /\ s2 \in SharedSet /\ s2.state = s.state
  BY <1>1, <1>2, ParkWriterStep
<1>4. acc[p] + Excess(s) = acc[p] + Excess(s2)
  BY <1>2 DEF Excess, SharedSet
<1> HIDE DEF s2
<1>5. /\ acc' = [acc EXCEPT ![p] = acc[p]]
      /\ handle' = [handle EXCEPT ![p][id] = handle[p][id]]
  BY <1>1, <1>2, SamePlace DEF StreamTypes
<1>6. Onward(shared[p][id].state, s2.state)
  BY <1>3, OnwardSteps
<1> QED
  BY <1>1, <1>2, <1>3, <1>4, <1>5, <1>6, HandleOperation

\* An operation ends or begins and leaves the Shared alone.
LEMMA QuietOperation ==
  ASSUME StreamTypes, StreamsOK, NEW p \in Endpoints, NEW id \in Ids, NEW h2 \in Handles,
         handle[p][id].life = "live", h2.life = "live",
         h2.closes >= handle[p][id].closes, h2.op.kind = "close" => h2.closes > 0,
         handle' = [handle EXCEPT ![p][id] = h2],
         UNCHANGED <<conn, entry, rx, acc, shared>>
  PROVE  StreamTypes' /\ StreamStep(p, id)
<1> DEFINE s  == shared[p][id]
<1>2. /\ p \in Peers /\ s \in SharedSet /\ handle[p][id] \in Handles
      /\ acc[p] \in Int /\ acc[p] <= GrowthBudget /\ Excess(s) \in Int
      /\ StreamOK(conn[p], id \in entry[p], rx[p][id], s, handle[p][id])
  BY LiveStream
<1>3. StreamOK(conn[p], id \in entry[p], rx[p][id], s, h2)
  BY <1>2, HandleStep
<1>5. /\ acc' = [acc EXCEPT ![p] = acc[p]]
      /\ shared' = [shared EXCEPT ![p][id] = s]
  BY <1>2, SamePlace DEF StreamTypes
<1>6. acc[p] + Excess(s) = acc[p] + Excess(s)
  BY <1>2
<1>7. Onward(shared[p][id].state, s.state)
  BY OnwardSteps
<1> HIDE DEF s
<1> QED
  BY <1>2, <1>3, <1>5, <1>6, <1>7, HandleOperation DEF s

\* The frame goes to the channel; the Shared stays as it is.
LEMMA WriteSendKeeps ==
  ASSUME StreamTypes, StreamsOK, NEW p \in Endpoints, NEW id \in Ids,
         WriteSend(p, id) \/ ReadCheck(p, id)
  PROVE  StreamTypes' /\ StreamStep(p, id)
<1>0. term \in Frames /\ "check" \in OpKinds
  <2>1. 0 \in 0 .. U32_MAX
    BY FlowAssumption
  <2> QED
    BY <2>1, FrameOfConnection DEF OpKinds
<1>1. UNCHANGED <<conn, entry, rx, acc, shared>>
  BY DEF WriteSend, ReadCheck, connVars, tableVars
<1>2. \/ handle[p][id].op.kind = "write" /\ EndOp(p, id)
      \/ /\ handle[p][id].life = "live"
         /\ handle' = [handle EXCEPT ![p][id].op = [kind |-> "check", frame |-> term]]
  BY DEF WriteSend, ReadCheck, ReadReady, Free, live
<1>3. p \in Peers /\ handle[p][id].life = "live" /\ handle[p][id].closes \in Nat
  BY <1>2, LiveStream DEF Handles
<1>4. NextOp(p, id, "idle") \/ NextOp(p, id, "check")
  BY <1>0, <1>2, <1>3, Begins, EndsOp
<1>5. PICK h2 \in Handles :
        /\ handle' = [handle EXCEPT ![p][id] = h2] /\ h2.life = "live"
        /\ h2.closes = handle[p][id].closes /\ h2.op.kind # "close"
  BY <1>3, <1>4 DEF NextOp
<1>6. h2.closes >= handle[p][id].closes
  BY <1>3, <1>5
<1> QED
  BY <1>1, <1>3, <1>5, <1>6, QuietOperation

\* send_window_update grants credit, may grow the window within the budget, and
\* begins the frame that says so.
LEMMA WindowUpdateKeeps ==
  ASSUME StreamTypes, FrameTypes, StreamsOK, NEW p \in Endpoints, NEW id \in Ids,
         NEW fast \in BOOLEAN, send_window_update(p, id, fast)
  PROVE  StreamTypes' /\ StreamStep(p, id)
<1> DEFINE s  == shared[p][id]
           n  == NextCredit(s.fc, acc[p], fast, s.buf)
           f  == with_flags(window_update(id, n), add_flag(p, id))
<1>0. PICK s2, a2 : /\ s2 = UpdateOf(s, acc[p], fast)
                    /\ a2 = AccAfterUpdate(s.fc, acc[p], fast)
  OBVIOUS
<1>1. /\ handle[p][id].op.kind = "check" /\ UNCHANGED <<conn, entry, rx>>
      /\ shared' = [shared EXCEPT ![p][id].fc = AfterUpdate(@, acc[p], fast, s.buf)]
      /\ acc' = [acc EXCEPT ![p] = AccAfterUpdate(s.fc, @, fast)]
      /\ BeginOp(p, id, "read", f)
  BY DEF send_window_update, connVars
<1>2. /\ p \in Peers /\ s \in SharedSet /\ handle[p][id] \in Handles
      /\ handle[p][id].life = "live"
      /\ acc[p] \in Int /\ acc[p] <= GrowthBudget /\ Excess(s) \in Int
      /\ StreamOK(conn[p], id \in entry[p], rx[p][id], s, handle[p][id])
      /\ s.state # "None"
  BY <1>1, LiveStream
<1>3. /\ StreamOK(conn[p], id \in entry[p], rx[p][id], s2, handle[p][id])
      /\ s2 \in SharedSet /\ s2.state = s.state
      /\ n \in 0 .. U32_MAX
      /\ a2 \in Int /\ a2 <= GrowthBudget
      /\ a2 + Excess(s) = acc[p] + Excess(s2)
  BY <1>0, <1>2, UpdateStep
<1>4. shared' = [shared EXCEPT ![p][id] = s2] /\ acc' = [acc EXCEPT ![p] = a2]
  BY <1>0, <1>1, <1>2 DEF StreamTypes, UpdateOf
<1> HIDE DEF n
<1>5. f \in Frames
  <2>1. written[p][id] \in Nat /\ FALSE \in BOOLEAN
    BY <1>2 DEF FrameTypes
  <2> QED
    BY <1>2, <1>3, <2>1, AddFlag, FrameOfStream
<1> HIDE DEF f
<1>6. PICK h2 \in Handles :
        /\ handle' = [handle EXCEPT ![p][id] = h2]
        /\ h2.life = "live" /\ h2.closes = handle[p][id].closes /\ h2.op.kind = "read"
  <2>1. "read" \in OpKinds
    BY DEF OpKinds
  <2>2. NextOp(p, id, "read")
    BY <1>1, <1>2, <1>5, <2>1, Begins
  <2> QED
    BY <1>2, <2>2 DEF NextOp
<1>7. StreamOK(conn[p], id \in entry[p], rx[p][id], s2, h2)
  <2>1. handle[p][id].closes \in Nat
    BY <1>2 DEF Handles
  <2> QED
    BY <1>2, <1>3, <1>6, <2>1, HandleStep
<1>8. Onward(shared[p][id].state, s2.state)
  BY <1>3, OnwardSteps
<1> QED
  BY <1>1, <1>2, <1>3, <1>4, <1>6, <1>7, <1>8, HandleOperation

\* A read copies or parks, at the end of an operation or without one.
LEMMA ReadCopyKeeps ==
  ASSUME StreamTypes, StreamsOK, NEW p \in Endpoints, NEW id \in Ids, NEW k,
         ReadCopy(p, id, k) \/ ReadUpdateSend(p, id, k)
  PROVE  StreamTypes' /\ StreamStep(p, id)
<1> DEFINE s == shared[p][id]
<1>0. PICK s2 : s2 = CopyOf(s, k)
  OBVIOUS
<1>1. /\ handle[p][id].life = "live" \/ handle[p][id].op.kind # "idle"
      /\ UNCHANGED <<conn, entry, rx, acc>> /\ k \in ReadSizes(p, id)
      /\ CopyOrPark(p, id, k) \/ UNCHANGED shared
      /\ UNCHANGED handle \/ EndOp(p, id)
  BY DEF ReadCopy, ReadUpdateSend, ReadReady, Free, live, connVars, handleVars
<1>2. /\ p \in Peers /\ s \in SharedSet /\ handle[p][id] \in Handles
      /\ handle[p][id].life = "live"
      /\ acc[p] \in Int /\ acc[p] <= GrowthBudget /\ Excess(s) \in Int
      /\ StreamOK(conn[p], id \in entry[p], rx[p][id], s, handle[p][id])
      /\ s.state # "None"
  BY <1>1, LiveStream
<1>3. k \in 0 .. s.buf
  BY <1>1, <1>2 DEF ReadSizes, SharedSet
<1>4. /\ StreamOK(conn[p], id \in entry[p], rx[p][id], s2, handle[p][id])
      /\ s2 \in SharedSet /\ s2.state = s.state /\ s2.fc = s.fc
  BY <1>0, <1>2, <1>3, CopyStep
<1>5. CopyOrPark(p, id, k) => shared' = [shared EXCEPT ![p][id] = s2]
  BY <1>0 DEF CopyOrPark, CopyOf
<1>6. PICK s3 \in SharedSet :
        /\ shared' = [shared EXCEPT ![p][id] = s3]
        /\ StreamOK(conn[p], id \in entry[p], rx[p][id], s3, handle[p][id])
        /\ s3.state = s.state /\ s3.fc = s.fc
  <2>1. CASE CopyOrPark(p, id, k)
    BY <1>4, <1>5, <2>1
  <2>2. CASE UNCHANGED shared
    <3>1. shared' = [shared EXCEPT ![p][id] = s]
      BY <1>2, <2>2, SamePlace DEF StreamTypes
    <3> QED
      BY <1>2, <3>1
  <2> QED
    BY <1>1, <2>1, <2>2
<1>7. PICK h2 \in Handles :
        /\ handle' = [handle EXCEPT ![p][id] = h2]
        /\ h2.life = "live" /\ h2.closes = handle[p][id].closes
        /\ h2 = handle[p][id] \/ h2.op.kind = "idle"
  <2>1. CASE EndOp(p, id)
    <3>1. NextOp(p, id, "idle")
      BY <1>2, <2>1, EndsOp
    <3> QED
      BY <1>2, <3>1 DEF NextOp
  <2>2. CASE UNCHANGED handle
    <3>1. handle' = [handle EXCEPT ![p][id] = handle[p][id]]
      BY <1>2, <2>2, SamePlace DEF StreamTypes
    <3> QED
      BY <1>2, <3>1
  <2> QED
    BY <1>1, <2>1, <2>2
<1>8. StreamOK(conn[p], id \in entry[p], rx[p][id], s3, h2)
  <2>1. CASE h2 = handle[p][id]
    BY <1>6, <2>1
  <2>2. CASE h2.op.kind = "idle"
    <3>1. handle[p][id].closes \in Nat
      BY <1>2 DEF Handles
    <3> QED
      BY <1>2, <1>6, <1>7, <2>2, <3>1, HandleStep
  <2> QED
    BY <1>7, <2>1, <2>2
<1>9. acc' = [acc EXCEPT ![p] = acc[p]] /\ acc[p] + Excess(s) = acc[p] + Excess(s3)
  BY <1>1, <1>2, <1>6 DEF StreamTypes, Excess
<1>10. Onward(shared[p][id].state, s3.state)
  BY <1>6, OnwardSteps
<1> HIDE DEF s
<1> QED
  BY <1>1, <1>2, <1>6, <1>7, <1>8, <1>9, <1>10, HandleOperation DEF s

\* poll_close sends FIN; the state follows in a step of its own.
LEMMA PollCloseKeeps ==
  ASSUME StreamTypes, StreamsOK, NEW p \in Endpoints, NEW id \in Ids, poll_close(p, id)
  PROVE  StreamTypes' /\ StreamStep(p, id)
<1> DEFINE h   == handle[p][id]
           ack == h.flag = "Ack"
           f   == close_stream(id, ack)
           h2  == [h EXCEPT !.flag = IF ack THEN "None" ELSE @,
                            !.op = [kind |-> "close", frame |-> f],
                            !.closes = @ + 1]
<1>1. /\ h.life = "live" /\ UNCHANGED <<conn, entry, rx, acc, shared>>
      /\ handle' = [handle EXCEPT ![p][id] = h2]
  BY DEF poll_close, Free, live, connVars, tableVars
<1>2. p \in Peers /\ h \in Handles
  BY <1>1, LiveStream
<1>3. f \in Frames
  <2>1. 0 \in 0 .. U32_MAX /\ 0 \in Nat /\ {} \in SUBSET Flags /\ ack \in BOOLEAN
    BY FlowAssumption
  <2> HIDE DEF ack
  <2> QED
    BY <2>1, FrameOfStream
<1> HIDE DEF f
<1>4. h2 \in Handles /\ h2.life = h.life /\ h2.closes = h.closes + 1
  <2>1. (IF ack THEN "None" ELSE h.flag) \in {"None", "Syn", "Ack"} /\ h.closes + 1 \in Nat
    BY <1>2 DEF Handles
  <2> HIDE DEF h, ack
  <2> QED
    BY <1>2, <1>3, <2>1 DEF Handles, OpKinds
<1>5. h2.closes >= h.closes /\ h2.closes > 0
  BY <1>2, <1>4 DEF Handles
<1> HIDE DEF h2
<1> QED
  BY <1>1, <1>4, <1>5, QuietOperation

\* The sending half closes.
LEMMA CloseDoneKeeps ==
  ASSUME StreamTypes, StreamsOK, NEW p \in Endpoints, NEW id \in Ids, CloseDone(p, id)
  PROVE  StreamTypes' /\ StreamStep(p, id)
<1> DEFINE s  == shared[p][id]
           s2 == To(s, "SendClosed")
<1>1. /\ handle[p][id].op.kind = "close" /\ EndOp(p, id)
      /\ UNCHANGED <<conn, entry, rx, acc>>
      /\ shared' = [shared EXCEPT ![p][id] = To(@, "SendClosed")]
  BY DEF CloseDone, connVars
<1>2. /\ p \in Peers /\ s \in SharedSet /\ handle[p][id] \in Handles
      /\ handle[p][id].life = "live"
      /\ acc[p] \in Int /\ acc[p] <= GrowthBudget /\ Excess(s) \in Int
      /\ StreamOK(conn[p], id \in entry[p], rx[p][id], s, handle[p][id])
      /\ s.state # "None"
  BY <1>1, LiveStream
<1>3. handle[p][id].closes # 0
  BY <1>1, <1>2 DEF StreamOK, Parked
<1>4. /\ StreamOK(conn[p], id \in entry[p], rx[p][id], s2, handle[p][id])
      /\ s2 \in SharedSet /\ s2.fc = s.fc /\ Onward(s.state, s2.state)
  <2>1. "SendClosed" \in Ends
    BY DEF Ends
  <2> QED
    BY <1>2, <1>3, <2>1, CloseStep, ToState
<1>5. shared' = [shared EXCEPT ![p][id] = s2]
  BY <1>1, <1>2 DEF StreamTypes
<1> HIDE DEF s2
<1>6. PICK h2 \in Handles :
        /\ handle' = [handle EXCEPT ![p][id] = h2]
        /\ h2.life = "live" /\ h2.closes = handle[p][id].closes /\ h2.op.kind = "idle"
  <2>1. NextOp(p, id, "idle")
    BY <1>1, <1>2, EndsOp
  <2> QED
    BY <1>2, <2>1 DEF NextOp
<1>7. StreamOK(conn[p], id \in entry[p], rx[p][id], s2, h2)
  <2>1. handle[p][id].closes \in Nat
    BY <1>2 DEF Handles
  <2> QED
    BY <1>2, <1>4, <1>6, <2>1, HandleStep
<1>8. acc' = [acc EXCEPT ![p] = acc[p]] /\ acc[p] + Excess(s) = acc[p] + Excess(s2)
  BY <1>1, <1>2, <1>4 DEF StreamTypes, Excess
<1> QED
  BY <1>1, <1>2, <1>4, <1>5, <1>6, <1>7, <1>8, HandleOperation

----------------------------------------------------------------------------
(* The operations of the connection on one stream                           *)

\* The table of p becomes `ent`, which differs in id at most; the stream id
\* gets Shared s, handle h and receiver r, and is in order with them.
TableChange(p, id, ent, s, h, r) ==
  /\ ent \in SUBSET Ids /\ \A j \in Ids \ {id} : j \in ent <=> j \in entry[p]
  /\ s \in SharedSet /\ (s.state = "None" => s = NoShared)
  /\ h \in Handles /\ r \in RxStates
  /\ SetStreams(p, ent, [shared[p] EXCEPT ![id] = s], [handle[p] EXCEPT ![id] = h])
  /\ UNCHANGED conn
  /\ handle' = [handle EXCEPT ![p] = [handle[p] EXCEPT ![id] = h]]
  /\ rx' = [rx EXCEPT ![p][id] = r]
  /\ StreamOK(conn[p], id \in ent, r, Kept(id, ent, h, s), h)

\* A change of the table keeps the types and the streams in order.
LEMMA TableOperation ==
  ASSUME StreamTypes, StreamsOK, NEW p \in Endpoints, NEW id \in Ids,
         NEW ent, NEW s, NEW h, NEW r, TableChange(p, id, ent, s, h, r)
  PROVE  /\ StreamTypes' /\ OneStream(p, id) /\ InOrder(p, id)
         /\ entry'[p] = ent /\ shared'[p][id] = Kept(id, ent, h, s)
         /\ handle'[p][id] = h /\ rx'[p][id] = r
         /\ acc'[p] + Excess(s) = acc[p] + Excess(shared'[p][id])
<1>1. p \in Peers /\ acc[p] \in Int /\ acc[p] <= GrowthBudget
  BY EndpointsArePeers DEF StreamTypes
<1>2. /\ entry' \in [Peers -> SUBSET Ids] /\ entry'[p] = ent
      /\ shared' \in [Peers -> [Ids -> SharedSet]]
      /\ shared'[p][id] = Kept(id, ent, h, s)
      /\ \A j \in Ids \ {id} : shared'[p][j] = shared[p][j]
      /\ acc' \in [Peers -> Int] /\ acc'[p] <= acc[p]
      /\ acc'[p] + Excess(s) = acc[p] + Excess(shared'[p][id])
      /\ \A q \in Peers \ {p} : /\ entry'[q] = entry[q] /\ shared'[q] = shared[q]
                                /\ acc'[q] = acc[q]
  <2>1. /\ ent \in SUBSET Ids /\ \A j \in Ids \ {id} : j \in ent <=> j \in entry[p]
        /\ s \in SharedSet /\ (s.state = "None" => s = NoShared)
        /\ h \in Handles
    BY DEF TableChange
  <2>2. PICK S, H : /\ S = [shared[p] EXCEPT ![id] = s] /\ H = [handle[p] EXCEPT ![id] = h]
                    /\ SetStreams(p, ent, S, H)
    BY DEF TableChange
  <2> QED
    BY <2>1, <2>2, SetOneStream
<1>3. /\ handle' \in [Peers -> [Ids -> Handles]] /\ handle'[p][id] = h
      /\ rx' \in [Peers -> [Ids -> RxStates]] /\ rx'[p][id] = r
      /\ \A j \in Ids \ {id} : handle'[p][j] = handle[p][j] /\ rx'[p][j] = rx[p][j]
      /\ \A q \in Peers \ {p} : handle'[q] = handle[q] /\ rx'[q] = rx[q]
  BY <1>1 DEF StreamTypes, TableChange
<1>4. \A q \in Peers : acc'[q] <= GrowthBudget
  <2>1. GrowthBudget \in Int
    BY FlowAssumption DEF GrowthBudget
  <2>2. acc'[p] \in Int
    BY <1>1, <1>2
  <2>3. acc'[p] <= GrowthBudget
    BY <1>1, <1>2, <2>1, <2>2
  <2> QED
    BY <1>2, <2>3 DEF StreamTypes
<1>5. StreamTypes'
  BY <1>2, <1>3, <1>4 DEF StreamTypes, TableChange
<1>6. OneStream(p, id)
  BY <1>2, <1>3 DEF OneStream, Apart, TableChange
<1>7. InOrder(p, id)
  BY <1>2, <1>3 DEF InOrder, TableChange
<1> QED
  BY <1>2, <1>3, <1>5, <1>6, <1>7

\* A step of an existing stream on the table.
LEMMA TableStep ==
  ASSUME StreamTypes, StreamsOK, NEW p \in Endpoints, NEW id \in Ids,
         NEW ent, NEW s, NEW h, NEW r, TableChange(p, id, ent, s, h, r),
         s.fc.max_receive_window = shared[p][id].fc.max_receive_window,
         id \in ent => id \in entry[p],
         Onward(shared[p][id].state, s.state)
  PROVE  StreamTypes' /\ StreamStep(p, id)
<1>1. /\ StreamTypes' /\ OneStream(p, id) /\ InOrder(p, id)
      /\ entry'[p] = ent /\ shared'[p][id] = Kept(id, ent, h, s)
      /\ acc'[p] + Excess(s) = acc[p] + Excess(shared'[p][id])
  BY TableOperation
<1>2. Excess(s) = Excess(shared[p][id])
  BY DEF Excess
<1>3. Accounted(p, id)
  BY <1>1, <1>2 DEF Accounted
<1>4. NoneReborn(p, id)
  BY <1>1, NoSharedOK, OnwardSteps DEF NoneReborn, Kept
<1> QED
  BY <1>1, <1>3, <1>4 DEF StreamStep

\* A handle is dropped; the table may still hold its Shared.
LEMMA DropHandleKeeps ==
  ASSUME StreamTypes, StreamsOK, NEW p \in Endpoints, NEW id \in Ids, DropHandle(p, id)
  PROVE  StreamTypes' /\ StreamStep(p, id)
<1> DEFINE s == shared[p][id]
           h == [NoHandle EXCEPT !.life = "dropped"]
           H == [handle[p] EXCEPT ![id] = h]
<1>1. /\ handle[p][id].life = "live" /\ UNCHANGED <<conn, rx>>
      /\ handle' = [handle EXCEPT ![p] = H] /\ SetStreams(p, entry[p], shared[p], H)
  BY DEF DropHandle, Free, live, connVars
<1>2. /\ p \in Peers /\ s \in SharedSet /\ handle[p][id] \in Handles
      /\ rx[p][id] \in RxStates /\ conn[p] \in ConnStates
      /\ StreamOK(conn[p], id \in entry[p], rx[p][id], s, handle[p][id])
      /\ s.state # "None"
  BY <1>1, LiveStream
<1>3. h \in Handles /\ h.life = "dropped" /\ h.op.kind = "idle" /\ h.closes = 0
  BY IdleOp DEF Handles, NoHandle
<1> HIDE DEF h
<1>4. StreamOK(conn[p], id \in entry[p], rx[p][id], Kept(id, entry[p], h, s), h)
  <2>1. CASE id \in entry[p]
    <3>1. StreamOK(conn[p], id \in entry[p], rx[p][id],
                   IF id \in entry[p] THEN s ELSE NoShared, h)
      BY <1>1, <1>2, <1>3, DropStep
    <3> QED
      BY <2>1, <3>1 DEF Kept
  <2>2. CASE id \notin entry[p]
    <3>1. StreamOK(conn[p], id \in entry[p], rx[p][id],
                   IF id \in entry[p] THEN s ELSE NoShared, h)
      BY <1>1, <1>2, <1>3, DropStep
    <3> QED
      BY <1>3, <2>2, <3>1 DEF Kept
  <2> QED
    BY <2>1, <2>2
<1>5. /\ shared[p] = [shared[p] EXCEPT ![id] = s]
      /\ rx' = [rx EXCEPT ![p][id] = rx[p][id]]
      /\ entry[p] \in SUBSET Ids
  BY <1>1, <1>2, SamePlace DEF StreamTypes
<1>6. TableChange(p, id, entry[p], s, h, rx[p][id])
  BY <1>1, <1>2, <1>3, <1>4, <1>5 DEF TableChange
<1>7. Onward(shared[p][id].state, s.state)
  BY OnwardSteps
<1> QED
  BY <1>6, <1>7, TableStep

\* A handle that stays is the one there was.
LEMMA SameHandle ==
  ASSUME StreamTypes, NEW p \in Peers, NEW id \in Ids
  PROVE  /\ handle = [handle EXCEPT ![p] = [handle[p] EXCEPT ![id] = handle[p][id]]]
         /\ handle[p] = [handle[p] EXCEPT ![id] = handle[p][id]]
         /\ shared[p] = [shared[p] EXCEPT ![id] = shared[p][id]]
         /\ rx = [rx EXCEPT ![p][id] = rx[p][id]]
BY DEF StreamTypes

\* The frame at the head of the socket.
LEMMA Received ==
  ASSUME FrameTypes, NEW p \in Endpoints, NEW f, Receive(p, f)
  PROVE  /\ f \in Frames /\ conn[p] = "Active"
         /\ IsStreamFrame(f) => f.id \in Ids
<1>1. Other(p) \in Peers
  BY EndpointsArePeers, OtherPeer
<1>2. wire[Other(p)] \in Seq(Frames) /\ wire[Other(p)] # <<>> /\ f = Head(wire[Other(p)])
  BY <1>1 DEF Receive, FrameTypes
<1>3. f \in Frames
  BY <1>2
<1> QED
  BY <1>3 DEF Frames, Receive, Active

\* What the ACK flag does.
LEMMA AckedOne ==
  ASSUME StreamTypes, StreamsOK, NEW p \in Endpoints, NEW f \in Frames, IsStreamFrame(f),
         NEW s, s = Acked(p, f)[f.id]
  PROVE  /\ Acked(p, f) = [shared[p] EXCEPT ![f.id] = s]
         /\ s \in SharedSet /\ s.fc = shared[p][f.id].fc /\ s.buf = shared[p][f.id].buf
         /\ s.reader = shared[p][f.id].reader /\ s.writer = shared[p][f.id].writer
         /\ s.state = "None" => s = NoShared
         /\ s.state = "None" <=> shared[p][f.id].state = "None"
         /\ Onward(shared[p][f.id].state, s.state)
         /\ StreamOK(conn[p], f.id \in entry[p], rx[p][f.id], s, handle[p][f.id])
<1> DEFINE id == f.id
           o == shared[p][id]
<1>1. id \in Ids /\ p \in Peers
  BY EndpointsArePeers DEF Frames
<1>2. o \in SharedSet /\ handle[p][id] \in Handles /\ shared[p] \in [Ids -> SharedSet]
  BY <1>1 DEF StreamTypes
<1>3. StreamOK(conn[p], id \in entry[p], rx[p][id], o, handle[p][id])
  BY <1>1 DEF StreamsOK
<1>4. o.state = "None" => o = NoShared /\ id \notin entry[p]
  BY <1>3 DEF StreamOK, Held
<1>5. CASE CarriesAck(f) /\ id \in entry[p]
  <2>1. "OpenAcked" \in Ends /\ o.state # "None"
    BY <1>4, <1>5 DEF Ends
  <2>2. Acked(p, f) = [shared[p] EXCEPT ![id] = To(o, "OpenAcked")]
    BY <1>1, <1>2, <1>5 DEF Acked
  <2>3. s = To(o, "OpenAcked")
    BY <1>1, <1>2, <2>2
  <2>4. /\ To(o, "OpenAcked") \in SharedSet /\ To(o, "OpenAcked").state \in Ends
        /\ To(o, "OpenAcked").fc = o.fc /\ To(o, "OpenAcked").buf = o.buf
        /\ To(o, "OpenAcked").reader = o.reader /\ To(o, "OpenAcked").writer = o.writer
        /\ Onward(o.state, To(o, "OpenAcked").state)
    BY <1>2, <2>1, ToState
  <2>5. StreamOK(conn[p], id \in entry[p], rx[p][id], To(o, "OpenAcked"), handle[p][id])
    BY <1>2, <1>3, <2>1, AckStep
  <2> QED
    BY <2>1, <2>2, <2>3, <2>4, <2>5 DEF Ends
<1>6. CASE ~(CarriesAck(f) /\ id \in entry[p])
  <2>1. Acked(p, f) = shared[p] /\ s = o
    BY <1>6 DEF Acked
  <2>2. shared[p] = [shared[p] EXCEPT ![id] = o]
    BY <1>1, <1>2
  <2> QED
    BY <1>2, <1>3, <1>4, <2>1, <2>2, OnwardSteps
<1> QED
  BY <1>5, <1>6

\* Action::Terminate.
LEMMA TerminateKeeps ==
  ASSUME StreamTypes, FrameTypes, StreamsOK, NEW p \in Endpoints, NEW f, NEW g,
         Receive(p, f), IsStreamFrame(f), Terminate(p, f, g)
  PROVE  StreamTypes' /\ StreamStep(p, f.id)
<1> DEFINE id == f.id
<1>1. p \in Peers /\ f \in Frames /\ id \in Ids
  BY Received, EndpointsArePeers
<1>2. /\ SetStreams(p, entry[p], Acked(p, f), handle[p])
      /\ UNCHANGED <<conn, rx, handle>>
  BY DEF Terminate, handleVars
<1>3. PICK s : s = Acked(p, f)[id]
  OBVIOUS
<1>4. /\ Acked(p, f) = [shared[p] EXCEPT ![id] = s]
      /\ s \in SharedSet /\ s.fc = shared[p][id].fc
      /\ s.state = "None" => s = NoShared
      /\ Onward(shared[p][id].state, s.state)
      /\ StreamOK(conn[p], id \in entry[p], rx[p][id], s, handle[p][id])
  BY <1>1, <1>3, AckedOne
<1>5. Kept(id, entry[p], handle[p][id], s) = s
  BY <1>4 DEF Kept, StreamOK, Held
<1>6. /\ entry[p] \in SUBSET Ids /\ handle[p][id] \in Handles /\ rx[p][id] \in RxStates
  BY <1>1 DEF StreamTypes
<1>7. TableChange(p, id, entry[p], s, handle[p][id], rx[p][id])
  BY <1>1, <1>2, <1>4, <1>5, <1>6, SameHandle, ZenonT(30) DEF TableChange
<1> QED
  BY <1>1, <1>4, <1>7, TableStep

\* A stream is closed, woken and taken off the table.
LEMMA WokenClosed ==
  ASSUME NEW s \in SharedSet, s.state # "None"
  PROVE  /\ Woken(To(s, "Closed")) \in SharedSet /\ Woken(To(s, "Closed")).state = "Closed"
         /\ Woken(To(s, "Closed")).fc = s.fc /\ Woken(To(s, "Closed")).buf = s.buf
         /\ ~Woken(To(s, "Closed")).reader /\ ~Woken(To(s, "Closed")).writer
<1>1. "Closed" \in Ends
  BY DEF Ends
<1>2. /\ To(s, "Closed") \in SharedSet /\ To(s, "Closed").state = "Closed"
      /\ To(s, "Closed").fc = s.fc /\ To(s, "Closed").buf = s.buf
  BY <1>1, ToState
<1> QED
  BY <1>2 DEF Woken, SharedSet

\* The entry of a dropped stream leaves the table.
LEMMA OnDropStreamKeeps ==
  ASSUME StreamTypes, StreamsOK, NEW p \in Endpoints, NEW id \in Ids, on_drop_stream(p, id)
  PROVE  StreamTypes' /\ StreamStep(p, id)
<1> DEFINE o == shared[p][id]
           h == handle[p][id]
<1>1. /\ conn[p] = "Active" /\ h.life # "live" /\ UNCHANGED <<conn, handle>>
      /\ rx' = [rx EXCEPT ![p][id] = "done"] /\ rx[p][id] = "open"
      /\ \/ /\ id \in entry[p]
            /\ SetStreams(p, entry[p] \ {id},
                          [shared[p] EXCEPT ![id] = Woken(To(@, "Closed"))], handle[p])
         \/ id \notin entry[p] /\ UNCHANGED <<entry, shared, acc>>
  BY DEF on_drop_stream, Active, ChanEnded, live, tableVars, handleVars
<1>2. /\ p \in Peers /\ o \in SharedSet /\ h \in Handles /\ entry[p] \in SUBSET Ids
      /\ shared[p] \in [Ids -> SharedSet] /\ "done" \in RxStates /\ conn[p] \in ConnStates
  BY EndpointsArePeers DEF StreamTypes, RxStates
<1>3. StreamOK(conn[p], id \in entry[p], rx[p][id], o, h)
  BY DEF StreamsOK
<1>4. CASE id \in entry[p]
  <2> DEFINE s == Woken(To(o, "Closed"))
  <2>1. o.state # "None"
    BY <1>3, <1>4 DEF StreamOK, Held
  <2>2. /\ s \in SharedSet /\ s.state = "Closed" /\ s.fc = o.fc /\ s.buf = o.buf
        /\ ~s.reader /\ ~s.writer
    BY <1>2, <2>1, WokenClosed
  <2>0. PICK ent \in SUBSET Ids : ent = entry[p] \ {id}
    BY <1>2
  <2>3. SetStreams(p, ent, [shared[p] EXCEPT ![id] = s], handle[p])
    BY <1>1, <1>2, <1>4, <2>0
  <2> HIDE DEF s
  <2>6. id \notin ent /\ \A j \in Ids \ {id} : j \in ent <=> j \in entry[p]
    BY <2>0
  <2>4. Kept(id, ent, h, s) = NoShared
    BY <1>1, <2>6 DEF Kept
  <2>5. StreamOK(conn[p], id \in ent, "done", NoShared, h)
    BY <1>1, <1>3, <1>4, <2>6, NoSharedOK DEF StreamOK, Held, Tabled, Parked, Told
  <2>7. TableChange(p, id, ent, s, h, "done")
    BY <1>1, <1>2, <2>2, <2>3, <2>4, <2>5, <2>6, SameHandle DEF TableChange
  <2>8. Onward(shared[p][id].state, s.state)
    BY <2>2, OnwardSteps
  <2> QED
    BY <2>2, <2>6, <2>7, <2>8, TableStep
<1>5. CASE id \notin entry[p]
  <2>1. StreamOK(conn[p], id \in entry[p], "done", o, h)
    BY <1>1, <1>3, <1>5 DEF StreamOK, Held, Tabled, Parked, Told
  <2>2. /\ UNCHANGED <<conn, entry, shared, handle, acc>>
        /\ rx' \in [Peers -> [Ids -> RxStates]] /\ rx'[p][id] = "done"
        /\ \A j \in Ids \ {id} : rx'[p][j] = rx[p][j]
        /\ \A q \in Peers \ {p} : rx'[q] = rx[q]
    BY <1>1, <1>2, <1>5 DEF StreamTypes
  <2>3. StreamTypes' /\ OneStream(p, id)
    BY <2>2 DEF StreamTypes, OneStream, Apart
  <2>4. InOrder(p, id) /\ Accounted(p, id) /\ NoneReborn(p, id)
    BY <2>1, <2>2, OnwardSteps DEF InOrder, Accounted, NoneReborn
  <2> QED
    BY <2>3, <2>4 DEF StreamStep
<1> QED
  BY <1>4, <1>5

\* RST, for a stream the table may not have.
LEMMA OnResetKeeps ==
  ASSUME StreamTypes, FrameTypes, StreamsOK, NEW p \in Endpoints, NEW f, OnReset(p, f)
  PROVE  StreamTypes' /\ StreamStep(p, f.id)
<1> DEFINE id == f.id
           h  == handle[p][id]
<1>1. /\ Receive(p, f) /\ IsStreamFrame(f) /\ UNCHANGED <<conn, rx, handle>>
      /\ SetStreams(p, entry[p] \ {id},
                    IF id \in entry[p]
                    THEN [Acked(p, f) EXCEPT ![id] = Woken(To(@, "Closed"))]
                    ELSE shared[p], handle[p])
  BY DEF OnReset, handleVars
<1>2. p \in Peers /\ f \in Frames /\ id \in Ids /\ conn[p] = "Active"
  BY <1>1, Received, EndpointsArePeers
<1>3. /\ h \in Handles /\ entry[p] \in SUBSET Ids /\ rx[p][id] \in RxStates
      /\ shared[p] \in [Ids -> SharedSet] /\ shared[p][id] \in SharedSet
      /\ conn[p] \in ConnStates
  BY <1>2 DEF StreamTypes
<1>4. PICK ent \in SUBSET Ids : ent = entry[p] \ {id}
  BY <1>3
<1>5. id \notin ent /\ \A j \in Ids \ {id} : j \in ent <=> j \in entry[p]
  BY <1>4
<1>6. CASE id \in entry[p]
  <2>1. PICK o : o = Acked(p, f)[id]
    OBVIOUS
  <2>2. /\ Acked(p, f) = [shared[p] EXCEPT ![id] = o]
        /\ o \in SharedSet /\ o.fc = shared[p][id].fc
        /\ StreamOK(conn[p], id \in entry[p], rx[p][id], o, h)
    BY <1>1, <1>2, <2>1, AckedOne
  <2>3. o.state # "None"
    BY <1>6, <2>2 DEF StreamOK, Held
  <2>4. PICK s : s = Woken(To(o, "Closed"))
    OBVIOUS
  <2>5. /\ s \in SharedSet /\ s.state = "Closed" /\ s.fc = o.fc /\ s.buf = o.buf
        /\ ~s.reader /\ ~s.writer
    BY <2>2, <2>3, <2>4, WokenClosed
  <2>6. [Acked(p, f) EXCEPT ![id] = Woken(To(@, "Closed"))] = [shared[p] EXCEPT ![id] = s]
    BY <1>2, <1>3, <2>2, <2>4
  <2>7. SetStreams(p, ent, [shared[p] EXCEPT ![id] = s], handle[p])
    BY <1>1, <1>4, <1>6, <2>6
  <2>8. StreamOK(conn[p], id \in ent, rx[p][id], KeptBy(h, s), h)
    <3>0. ~s.writer
      BY <2>2, <2>3, <2>4, WokenClosed
    <3>1. ~s.reader /\ (~s.writer \/ (~can_write(o.state) /\ s.writer = o.writer))
      BY <2>2, <2>3, <2>4, <3>0, WokenClosed
    <3>2. s.state = "Closed" /\ s.buf = o.buf /\ s.fc = o.fc
      BY <2>5
    <3> QED
      BY <1>3, <1>5, <1>6, <2>2, <2>5, <3>1, <3>2, LeaveStep
  <2>9. KeptBy(h, s) = Kept(id, ent, h, s)
    BY <1>5 DEF Kept, KeptBy
  <2>10. TableChange(p, id, ent, s, h, rx[p][id])
    BY <1>1, <1>2, <1>3, <1>5, <2>5, <2>7, <2>8, <2>9, SameHandle DEF TableChange
  <2>11. Onward(shared[p][id].state, s.state)
    BY <2>5, OnwardSteps
  <2> QED
    BY <1>2, <1>5, <2>2, <2>5, <2>10, <2>11, TableStep
<1>7. CASE id \notin entry[p]
  <2>1. PICK s : s = shared[p][id]
    OBVIOUS
  <2>2. StreamOK(conn[p], id \in entry[p], rx[p][id], s, h) /\ s \in SharedSet
    BY <1>2, <1>3, <2>1 DEF StreamsOK
  <2>3. ent = entry[p]
    BY <1>4, <1>7
  <2>4. (s.state = "None" => s = NoShared) /\ Kept(id, ent, h, s) = s
    BY <2>2, <2>3 DEF StreamOK, Held, Kept
  <2>5. SetStreams(p, ent, [shared[p] EXCEPT ![id] = s], handle[p])
    BY <1>1, <1>2, <1>3, <1>4, <1>7, <2>1
  <2>6. TableChange(p, id, ent, s, h, rx[p][id])
    BY <1>1, <1>2, <1>3, <1>5, <2>2, <2>3, <2>4, <2>5, SameHandle DEF TableChange
  <2> QED
    BY <1>2, <1>5, <2>1, <2>6, OnwardSteps, TableStep
<1> QED
  BY <1>6, <1>7

\* A frame that arrives leaves the stream as s, perhaps off the table.
LEMMA AfterFinKeeps ==
  ASSUME StreamTypes, StreamsOK, NEW p \in Endpoints, NEW f \in Frames, f.id \in entry[p],
         f.id \in Ids, conn[p] = "Active", UNCHANGED <<conn, rx, handle>>,
         NEW o \in SharedSet, o.fc = shared[p][f.id].fc,
         Onward(shared[p][f.id].state, o.state),
         StreamOK(conn[p], f.id \in entry[p], rx[p][f.id], o, handle[p][f.id]),
         NEW d \in SharedSet, StreamOK(conn[p], f.id \in entry[p], rx[p][f.id], d, handle[p][f.id]),
         d.state = o.state, d.fc.max_receive_window = o.fc.max_receive_window,
         ~d.reader \/ "FIN" \notin f.flags,
         SetStreams(p, AfterFin(p, f, Finished(d, f)),
                    [shared[p] EXCEPT ![f.id] = Finished(d, f)], handle[p])
  PROVE  StreamTypes' /\ StreamStep(p, f.id)
<1> DEFINE id == f.id
           h  == handle[p][id]
<1>1. PICK s, ent : s = Finished(d, f) /\ ent = AfterFin(p, f, s)
  OBVIOUS
<1>2. /\ p \in Peers /\ h \in Handles /\ entry[p] \in SUBSET Ids /\ rx[p][id] \in RxStates
      /\ shared[p][id] \in SharedSet /\ conn[p] \in ConnStates
  BY EndpointsArePeers DEF StreamTypes
<1>3. d.state # "None"
  BY DEF StreamOK, Held
<1>4. /\ s \in SharedSet /\ s.state # "None" /\ s.fc = d.fc /\ s.buf = d.buf
      /\ s.reader = d.reader /\ s.writer = d.writer
      /\ Onward(d.state, s.state)
      /\ StreamOK(conn[p], id \in entry[p], rx[p][id], s, h)
      /\ "FIN" \in f.flags /\ s.state = "Closed" => ~can_write(d.state)
  <2>1. CASE "FIN" \in f.flags
    <3>1. "RecvClosed" \in Ends /\ s = To(d, "RecvClosed")
      BY <1>1, <2>1 DEF Ends, Finished
    <3>2. /\ s \in SharedSet /\ s.state \in Ends /\ s.fc = d.fc /\ s.buf = d.buf
          /\ s.reader = d.reader /\ s.writer = d.writer
          /\ can_write(d.state) => can_write(s.state)
      BY <1>3, <3>1, ToState
    <3>3. StreamOK(conn[p], id \in entry[p], rx[p][id], s, h)
      BY <1>2, <1>3, <2>1, <3>1, FinStep
    <3>4. Onward(d.state, s.state)
      BY <1>3, <3>1, ToState
    <3>5. s.state # "None"
      BY <3>2 DEF Ends
    <3> QED
      BY <3>2, <3>3, <3>4, <3>5 DEF can_write
  <2>2. CASE "FIN" \notin f.flags
    <3>1. s = d
      BY <1>1, <2>2 DEF Finished
    <3> QED
      BY <1>3, <2>2, <3>1, OnwardSteps
  <2> QED
    BY <2>1, <2>2
<1>5. SetStreams(p, ent, [shared[p] EXCEPT ![id] = s], handle[p])
  BY <1>1
<1>8. Onward(shared[p][id].state, s.state)
  BY <1>3, <1>4, OnwardSteps
<1>6. CASE "FIN" \in f.flags /\ s.state = "Closed"
  <2>1. ent = entry[p] \ {id}
    BY <1>1, <1>6 DEF AfterFin
  <2>2. ent \in SUBSET Ids /\ id \notin ent /\ \A j \in Ids \ {id} : j \in ent <=> j \in entry[p]
    BY <1>2, <2>1
  <2>3. StreamOK(conn[p], id \in ent, rx[p][id], KeptBy(h, s), h)
    <3>1. ~s.reader /\ (~s.writer \/ (~can_write(d.state) /\ s.writer = d.writer))
      BY <1>4, <1>6
    <3> QED
      BY <1>2, <1>4, <1>6, <2>2, <3>1, LeaveStep
  <2>4. KeptBy(h, s) = Kept(id, ent, h, s)
    BY <2>2 DEF Kept, KeptBy
  <2>5. TableChange(p, id, ent, s, h, rx[p][id])
    <3>1. StreamOK(conn[p], id \in ent, rx[p][id], Kept(id, ent, h, s), h)
      BY <2>3, <2>4
    <3>2. (s.state = "None" => s = NoShared) /\ s \in SharedSet
      BY <1>4
    <3>0. rx' = rx /\ handle' = handle
      OBVIOUS
    <3>3. /\ handle = [handle EXCEPT ![p] = [handle[p] EXCEPT ![id] = h]]
          /\ handle[p] = [handle[p] EXCEPT ![id] = h]
          /\ rx = [rx EXCEPT ![p][id] = rx[p][id]]
      <4>1. StreamTypes /\ p \in Peers /\ id \in Ids
        BY <1>2
      <4> HIDE DEF id
      <4> QED
        BY ONLY <4>1, SameHandle
    <3> QED
      BY <1>2, <1>5, <2>2, <3>0, <3>1, <3>2, <3>3 DEF TableChange
  <2> QED
    BY <1>4, <1>8, <2>2, <2>5, TableStep
<1>7. CASE ~("FIN" \in f.flags /\ s.state = "Closed")
  <2>1. ent = entry[p]
    BY <1>1, <1>7 DEF AfterFin
  <2>2. Kept(id, ent, h, s) = s
    BY <2>1 DEF Kept
  <2>3. TableChange(p, id, ent, s, h, rx[p][id])
    BY <1>2, <1>4, <1>5, <2>1, <2>2, SameHandle DEF TableChange
  <2> QED
    BY <1>4, <1>8, <2>1, <2>3, TableStep
<1> QED
  BY <1>6, <1>7

\* A body arrives: it fits and wakes the reader, or the connection answers with
\* a protocol error.
LEMMA OnDataKeeps ==
  ASSUME StreamTypes, FrameTypes, StreamsOK, NEW p \in Endpoints, NEW f, on_data(p, f)
  PROVE  StreamTypes' /\ StreamStep(p, f.id)
<1> DEFINE id == f.id
<1>1. PICK o : o = Acked(p, f)[id]
  OBVIOUS
<1>2. /\ Receive(p, f) /\ f.tag = "Data" /\ id \in entry[p]
      /\ \/ /\ f.len <= o.fc.receive_window
            /\ SetStreams(p, AfterFin(p, f, Delivered(o, f)),
                          [shared[p] EXCEPT ![id] = Delivered(o, f)], handle[p])
            /\ UNCHANGED <<conn, rx, handle>>
         \/ Terminate(p, f, protocol_error)
  BY <1>1 DEF on_data, IsPlain, can_consume_receive_window, handleVars
<1>3. IsStreamFrame(f)
  BY <1>2 DEF IsStreamFrame
<1>4. p \in Peers /\ f \in Frames /\ id \in Ids /\ conn[p] = "Active"
  BY <1>2, <1>3, Received, EndpointsArePeers
<1>5. CASE Terminate(p, f, protocol_error)
  BY <1>2, <1>3, <1>5, TerminateKeeps
<1>6. CASE /\ f.len <= o.fc.receive_window
           /\ SetStreams(p, AfterFin(p, f, Delivered(o, f)),
                         [shared[p] EXCEPT ![id] = Delivered(o, f)], handle[p])
           /\ UNCHANGED <<conn, rx, handle>>
  <2>1. /\ o \in SharedSet /\ o.fc = shared[p][id].fc
        /\ Onward(shared[p][id].state, o.state)
        /\ StreamOK(conn[p], id \in entry[p], rx[p][id], o, handle[p][id])
    BY <1>1, <1>3, <1>4, AckedOne
  <2>2. PICK d : d = [o EXCEPT !.fc = consume_receive_window(@, f.len),
                               !.buf = @ + f.len, !.reader = FALSE]
    OBVIOUS
  <2>3. Delivered(o, f) = Finished(d, f)
    BY <2>2 DEF Delivered
  <2>4. /\ d.state = o.state /\ d.writer = o.writer /\ ~d.reader
        /\ d.buf = o.buf + f.len /\ d.fc.receive_window = o.fc.receive_window - f.len
        /\ d.fc.max_receive_window = o.fc.max_receive_window
        /\ d.fc.send_window = o.fc.send_window
    BY <2>1, <2>2 DEF SharedSet, consume_receive_window
  <2>5. /\ f.len \in Nat /\ o.fc.receive_window \in 0 .. U32_MAX /\ o.buf \in 0 .. U32_MAX
        /\ o.fc.max_receive_window \in DEFAULT_CREDIT .. U32_MAX
        /\ o.buf + o.fc.receive_window <= o.fc.max_receive_window
    BY <1>4, <2>1 DEF SharedSet, Frames, StreamOK, Bounded
  <2>6. /\ o.buf + f.len \in 0 .. U32_MAX /\ o.fc.receive_window - f.len \in 0 .. U32_MAX
        /\ Bounded(d)
    BY <1>6, <2>4, <2>5, FlowAssumption DEF Bounded
  <2>7. d \in SharedSet
    BY <2>1, <2>2, <2>6 DEF SharedSet, consume_receive_window
  <2>8. StreamOK(conn[p], id \in entry[p], rx[p][id], d, handle[p][id])
    <3>1. handle[p][id] \in Handles
      BY <1>4 DEF StreamTypes
    <3> QED
      BY <1>2, <1>4, <2>1, <2>4, <2>6, <2>7, <3>1, ArriveStep
  <2> QED
    BY <1>2, <1>4, <1>6, <2>1, <2>3, <2>4, <2>7, <2>8, AfterFinKeeps
<1> QED
  BY <1>2, <1>5, <1>6

\* Credit arrives: it fits in a u32 and wakes the writer, or the connection
\* answers with a protocol error.
LEMMA OnWindowUpdateKeeps ==
  ASSUME StreamTypes, FrameTypes, StreamsOK, NEW p \in Endpoints, NEW f,
         on_window_update(p, f)
  PROVE  StreamTypes' /\ StreamStep(p, f.id)
<1> DEFINE id == f.id
<1>1. PICK o : o = Acked(p, f)[id]
  OBVIOUS
<1>2. /\ Receive(p, f) /\ f.tag = "WindowUpdate" /\ id \in entry[p]
      /\ \/ /\ o.fc.send_window + f.len <= U32_MAX
            /\ SetStreams(p, AfterFin(p, f, Refilled(o, f)),
                          [shared[p] EXCEPT ![id] = Refilled(o, f)], handle[p])
            /\ UNCHANGED <<conn, rx, handle>>
         \/ Terminate(p, f, protocol_error)
  BY <1>1 DEF on_window_update, IsPlain, can_increase_send_window_by, handleVars
<1>3. IsStreamFrame(f)
  BY <1>2 DEF IsStreamFrame
<1>4. p \in Peers /\ f \in Frames /\ id \in Ids /\ conn[p] = "Active"
  BY <1>2, <1>3, Received, EndpointsArePeers
<1>5. CASE Terminate(p, f, protocol_error)
  BY <1>2, <1>3, <1>5, TerminateKeeps
<1>6. CASE /\ o.fc.send_window + f.len <= U32_MAX
           /\ SetStreams(p, AfterFin(p, f, Refilled(o, f)),
                         [shared[p] EXCEPT ![id] = Refilled(o, f)], handle[p])
           /\ UNCHANGED <<conn, rx, handle>>
  <2>1. /\ o \in SharedSet /\ o.fc = shared[p][id].fc
        /\ Onward(shared[p][id].state, o.state)
        /\ StreamOK(conn[p], id \in entry[p], rx[p][id], o, handle[p][id])
    BY <1>1, <1>3, <1>4, AckedOne
  <2>2. PICK b \in BOOLEAN : b <=> o.reader /\ "FIN" \notin f.flags
    OBVIOUS
  <2>3. PICK d : d = [o EXCEPT !.fc = increase_send_window_by(@, f.len),
                               !.writer = FALSE, !.reader = b]
    OBVIOUS
  <2>4. Refilled(o, f) = Finished(d, f)
    <3>1. b = (o.reader /\ "FIN" \notin f.flags)
      BY <2>2
    <3> QED
      BY <2>3, <3>1 DEF Refilled
  <2>5. /\ d.state = o.state /\ ~d.writer /\ (d.reader => o.reader /\ "FIN" \notin f.flags)
        /\ d.buf = o.buf /\ d.fc.receive_window = o.fc.receive_window
        /\ d.fc.max_receive_window = o.fc.max_receive_window
    BY <2>1, <2>2, <2>3 DEF SharedSet, increase_send_window_by
  <2>6. o.fc.send_window + f.len \in 0 .. U32_MAX
    BY <1>4, <1>6, <2>1, FlowAssumption DEF SharedSet, Frames
  <2>7. d \in SharedSet
    BY <2>1, <2>3, <2>6 DEF SharedSet, increase_send_window_by
  <2>8. StreamOK(conn[p], id \in entry[p], rx[p][id], d, handle[p][id])
    <3>1. handle[p][id] \in Handles
      BY <1>4 DEF StreamTypes
    <3>2. Bounded(d)
      BY <2>1, <2>5 DEF StreamOK, Bounded
    <3>3. ~d.reader \/ (d.reader = o.reader /\ d.buf = o.buf)
      BY <2>1, <2>5, <2>7 DEF SharedSet
    <3> QED
      BY <1>2, <1>4, <2>1, <2>5, <2>7, <3>1, <3>2, <3>3, ArriveStep
  <2> QED
    BY <1>2, <1>4, <1>6, <2>1, <2>4, <2>5, <2>7, <2>8, AfterFinKeeps
<1> QED
  BY <1>2, <1>5, <1>6

\* A SYN that is refused.
LEMMA RejectSynKeeps ==
  ASSUME StreamTypes, FrameTypes, StreamsOK, NEW p \in Endpoints, NEW f, RejectSyn(p, f)
  PROVE  StreamTypes' /\ StreamStep(p, f.id)
<1>1. PICK g : Receive(p, f) /\ IsStreamFrame(f) /\ Terminate(p, f, g)
  BY DEF RejectSyn, IsSyn
<1> QED
  BY <1>1, TerminateKeeps

\* A new stream enters the table with the default window.
Enters(p, id) ==
  /\ OneStream(p, id) /\ InOrder(p, id)
  /\ entry'[p] = entry[p] \cup {id} /\ handle'[p][id].life = "live"
  /\ acc'[p] = acc[p] /\ Excess(shared'[p][id]) = 0

\* The handles of new streams.
LEMMA NewHandleOK ==
  ASSUME NEW flag \in {"None", "Syn", "Ack"}
  PROVE  /\ NewHandle(flag) \in Handles /\ NewHandle(flag).life = "live"
         /\ NewHandle(flag).op.kind = "idle" /\ NewHandle(flag).closes = 0
BY IdleOp DEF NewHandle, NoHandle, Handles

\* A stream that is new to the table.
LEMMA EntersTable ==
  ASSUME StreamTypes, StreamsOK, NEW p \in Endpoints, NEW id \in Ids, conn[p] = "Active",
         NEW s \in SharedSet, s.state \in {"OpenPending", "RecvClosed"},
         ~s.reader, ~s.writer, Bounded(s), s.fc.max_receive_window = DEFAULT_CREDIT,
         NEW flag \in {"None", "Syn", "Ack"}, UNCHANGED conn,
         handle' = [handle EXCEPT ![p] = [handle[p] EXCEPT ![id] = NewHandle(flag)]],
         rx' = [rx EXCEPT ![p][id] = "open"],
         SetStreams(p, entry[p] \cup {id}, [shared[p] EXCEPT ![id] = s],
                    [handle[p] EXCEPT ![id] = NewHandle(flag)])
  PROVE  StreamTypes' /\ Enters(p, id) /\ shared'[p][id] = s
<1>1. PICK h : h = NewHandle(flag)
  OBVIOUS
<1>2. h \in Handles /\ h.life = "live" /\ h.op.kind = "idle" /\ h.closes = 0
  BY <1>1, NewHandleOK
<1>3. p \in Peers /\ entry[p] \in SUBSET Ids /\ acc[p] \in Int
  BY EndpointsArePeers DEF StreamTypes
<1>4. PICK ent \in SUBSET Ids : ent = entry[p] \cup {id}
  BY <1>3
<1>5. id \in ent /\ \A j \in Ids \ {id} : j \in ent <=> j \in entry[p]
  BY <1>4
<1>6. Kept(id, ent, h, s) = s
  BY <1>5 DEF Kept
<1>7. StreamOK(conn[p], id \in ent, "open", s, h)
  BY <1>2, <1>5, FreshStep
<1>8. TableChange(p, id, ent, s, h, "open")
  <2>1. s.state # "None" /\ "open" \in RxStates
    BY DEF RxStates
  <2> QED
    BY <1>1, <1>2, <1>4, <1>5, <1>6, <1>7, <2>1 DEF TableChange
<1>9. /\ StreamTypes' /\ OneStream(p, id) /\ InOrder(p, id)
      /\ entry'[p] = ent /\ shared'[p][id] = s /\ handle'[p][id] = h
      /\ acc'[p] + Excess(s) = acc[p] + Excess(shared'[p][id])
  BY <1>6, <1>8, TableOperation
<1>10. Excess(s) = 0
  BY FlowAssumption DEF Excess
<1>11. acc'[p] = acc[p]
  <2>1. acc'[p] \in Int
    BY <1>3, <1>9 DEF StreamTypes
  <2> QED
    BY <1>3, <1>9, <1>10, <2>1
<1> QED
  BY <1>2, <1>4, <1>9, <1>10, <1>11 DEF Enters

\* poll_new_outbound hands out an id within the bounds.
LEMMA PollNewOutboundKeeps ==
  ASSUME StreamTypes, FrameTypes, StreamsOK, NEW p \in Endpoints, poll_new_outbound(p)
  PROVE  /\ nextId[p] \in Ids /\ StreamTypes' /\ Enters(p, nextId[p])
         /\ ~AtStreamLimit(p) /\ ~AtAckBacklog(p)
<1>1. PICK id : id = nextId[p]
  OBVIOUS
<1>2. /\ conn[p] = "Active" /\ ~AtStreamLimit(p) /\ ~AtAckBacklog(p) /\ ~NoIdLeft(p)
      /\ handle' = [handle EXCEPT ![p] = [handle[p] EXCEPT ![id] = NewHandle("Syn")]]
      /\ rx' = [rx EXCEPT ![p][id] = "open"]
      /\ SetStreams(p, entry[p] \cup {id},
                    [shared[p] EXCEPT ![id] = NewShared(DEFAULT_CREDIT)],
                    [handle[p] EXCEPT ![id] = NewHandle("Syn")])
      /\ UNCHANGED conn
  BY <1>1 DEF poll_new_outbound, MayOpen, Active
<1>3. id \in Ids
  <2>1. p \in Peers /\ nextId[p] \in 1 .. MAX_ID + 1
    BY EndpointsArePeers DEF FrameTypes
  <2> QED
    BY <1>1, <1>2, <2>1, EndpointAssumption DEF NoIdLeft, Ids
<1>4. PICK s : s = NewShared(DEFAULT_CREDIT)
  OBVIOUS
<1>5. /\ s \in SharedSet /\ s.state \in {"OpenPending", "RecvClosed"}
      /\ ~s.reader /\ ~s.writer /\ Bounded(s)
      /\ s.fc.max_receive_window = DEFAULT_CREDIT
  <2>1. DEFAULT_CREDIT \in 0 .. U32_MAX /\ DEFAULT_CREDIT \in DEFAULT_CREDIT .. U32_MAX
        /\ 0 \in 0 .. U32_MAX /\ 0 + DEFAULT_CREDIT <= DEFAULT_CREDIT
    BY FlowAssumption
  <2> QED
    BY <1>4, <2>1 DEF NewShared, new_controller, SharedSet, StreamStates, OpenStates,
                      Bounded
<1>6. StreamTypes' /\ Enters(p, id)
  BY <1>2, <1>3, <1>4, <1>5, EntersTable
<1> QED
  BY <1>1, <1>2, <1>3, <1>6

\* The stream a SYN opens: its body fits in the window, its credit in a u32.
LEMMA InboundOK ==
  ASSUME NEW p, NEW f \in Frames, IsSyn(f), SynError(p, f) = <<>>
  PROVE  /\ InboundShared(f) \in SharedSet
         /\ InboundShared(f).state \in {"OpenPending", "RecvClosed"}
         /\ ~InboundShared(f).reader /\ ~InboundShared(f).writer
         /\ Bounded(InboundShared(f))
         /\ InboundShared(f).fc.max_receive_window = DEFAULT_CREDIT
<1>1. /\ f.tag = "Data" => f.len <= DEFAULT_CREDIT
      /\ f.tag = "WindowUpdate" => f.len + DEFAULT_CREDIT <= U32_MAX
      /\ f.tag = "Data" \/ f.tag = "WindowUpdate"
  <2>1. ~(f.tag = "Data" /\ f.len > DEFAULT_CREDIT)
    BY DEF SynError
  <2>2. ~(f.tag = "WindowUpdate" /\ f.len + DEFAULT_CREDIT > U32_MAX)
    BY DEF SynError
  <2>3. f.len \in Nat /\ DEFAULT_CREDIT \in Nat /\ U32_MAX \in Nat
    BY FlowAssumption DEF Frames
  <2> QED
    BY <2>1, <2>2, <2>3 DEF IsSyn, IsStreamFrame
<1>2. PICK n, c : /\ n = (IF f.tag = "Data" THEN f.len ELSE 0)
                  /\ c = (IF f.tag = "Data" THEN 0 ELSE f.len)
  OBVIOUS
<1>3. /\ n \in 0 .. DEFAULT_CREDIT /\ n \in 0 .. U32_MAX
      /\ DEFAULT_CREDIT + c \in 0 .. U32_MAX /\ DEFAULT_CREDIT - n \in 0 .. U32_MAX
      /\ DEFAULT_CREDIT \in DEFAULT_CREDIT .. U32_MAX
      /\ n + (DEFAULT_CREDIT - n) <= DEFAULT_CREDIT
  BY <1>1, <1>2, FlowAssumption DEF Frames
<1>4. PICK s : s = [NewShared(DEFAULT_CREDIT + c) EXCEPT
                      !.fc = consume_receive_window(@, n), !.buf = n]
  OBVIOUS
<1>5. InboundShared(f) = IF "FIN" \in f.flags THEN To(s, "RecvClosed") ELSE s
  BY <1>2, <1>4 DEF InboundShared
<1>6. /\ s \in SharedSet /\ s.state = "OpenPending" /\ ~s.reader /\ ~s.writer
      /\ s.buf = n /\ s.fc.receive_window = DEFAULT_CREDIT - n
      /\ s.fc.max_receive_window = DEFAULT_CREDIT
  BY <1>3, <1>4 DEF NewShared, new_controller, consume_receive_window, SharedSet,
                    StreamStates, OpenStates
<1>7. Bounded(s)
  BY <1>3, <1>6 DEF Bounded
<1>8. /\ To(s, "RecvClosed") \in SharedSet /\ To(s, "RecvClosed").state = "RecvClosed"
      /\ To(s, "RecvClosed").fc = s.fc /\ To(s, "RecvClosed").buf = s.buf
      /\ ~To(s, "RecvClosed").reader /\ ~To(s, "RecvClosed").writer
  <2>1. "RecvClosed" \in Ends
    BY DEF Ends
  <2>2. To(s, "RecvClosed").state = "RecvClosed"
    BY <1>6 DEF To, update_state, OpenStates, SharedSet
  <2> QED
    BY <1>6, <2>1, <2>2, ToState
<1> QED
  BY <1>5, <1>6, <1>7, <1>8 DEF Bounded

\* A SYN is accepted only from the remote's half of the ids, for a stream that
\* has no entry, and with room in the table.
LEMMA AcceptSynKeeps ==
  ASSUME StreamTypes, FrameTypes, StreamsOK, NEW p \in Endpoints, NEW f, AcceptSyn(p, f)
  PROVE  /\ f \in Frames /\ f.id \in Ids /\ StreamTypes' /\ Enters(p, f.id)
         /\ ~is_outbound(p, f.id) /\ f.id \notin entry[p]
         /\ Cardinality(entry[p]) # MaxNumStreams
<1> DEFINE id == f.id
<1>1. PICK s : s = InboundShared(f)
  OBVIOUS
<1>2. /\ Receive(p, f) /\ IsSyn(f) /\ SynError(p, f) = <<>>
      /\ handle' = [handle EXCEPT ![p] = [handle[p] EXCEPT ![id] = NewHandle("Ack")]]
      /\ rx' = [rx EXCEPT ![p][id] = "open"]
      /\ SetStreams(p, entry[p] \cup {id}, [shared[p] EXCEPT ![id] = s],
                    [handle[p] EXCEPT ![id] = NewHandle("Ack")])
      /\ UNCHANGED conn
  BY <1>1 DEF AcceptSyn
<1>3. f \in Frames /\ id \in Ids /\ conn[p] = "Active"
  BY <1>2, Received DEF IsSyn
<1>4. /\ s \in SharedSet /\ s.state \in {"OpenPending", "RecvClosed"}
      /\ ~s.reader /\ ~s.writer /\ Bounded(s)
      /\ s.fc.max_receive_window = DEFAULT_CREDIT
  BY <1>1, <1>2, <1>3, InboundOK
<1>5. StreamTypes' /\ Enters(p, id)
  BY <1>2, <1>3, <1>4, EntersTable
<1>6. ~is_outbound(p, id) /\ id \notin entry[p] /\ Cardinality(entry[p]) # MaxNumStreams
  BY <1>2 DEF SynError, is_valid_remote_id
<1> QED
  BY <1>3, <1>5, <1>6

----------------------------------------------------------------------------
(* The end of a connection: all of its streams at once                      *)

\* The budget follows the windows of all streams of p.
Balanced(p) ==
  acc'[p] + ExcessOf(shared[p], Ids) = acc[p] + ExcessOf(shared'[p], Ids)

\* There are finitely many ids.
LEMMA IdsFinite == IsFiniteSet(Ids)
BY EndpointAssumption, FS_Interval DEF Ids

\* What the streams of one side hold in excess of the default is a natural number.
LEMMA ExcessNat ==
  ASSUME NEW S \in [Ids -> SharedSet], NEW ids \in SUBSET Ids
  PROVE  ExcessOf(S, ids) \in Nat
<1> DEFINE f == [id \in Ids |-> Excess(S[id])]
<1>1. \A id \in ids : f[id] \in Nat
  BY FlowAssumption DEF Excess, SharedSet
<1>2. IsFiniteSet(ids)
  BY IdsFinite, FS_Subset
<1>3. ExcessOf(S, ids) = SumFunctionOnSet(f, ids)
  BY DEF ExcessOf
<1> HIDE DEF f
<1> QED
  BY <1>1, <1>2, <1>3, SumNat

\* Letting go of some streams gives back exactly what they held.
LEMMA ExcessFreed ==
  ASSUME NEW S \in [Ids -> SharedSet], NEW T \in [Ids -> SharedSet],
         NEW freed \in SUBSET Ids, NEW R \in [Ids -> SharedSet],
         \A id \in Ids : R[id].fc = S[id].fc,
         \A id \in freed : T[id] = NoShared, \A id \in Ids \ freed : T[id] = S[id]
  PROVE  ExcessOf(R, Ids) = ExcessOf(S, freed) + ExcessOf(T, Ids)
<1> DEFINE f == [id \in Ids |-> Excess(S[id])]
           g == [id \in Ids |-> Excess(T[id])]
           r == [id \in Ids |-> Excess(R[id])]
           rest == Ids \ freed
<1>1. \A id \in Ids : f[id] \in Int /\ g[id] \in Int /\ r[id] = f[id]
  BY FlowAssumption DEF Excess, SharedSet
<1>2. (\A id \in freed : g[id] = 0) /\ (\A id \in rest : g[id] = f[id])
  BY NoSharedOK
<1>3. /\ ExcessOf(R, Ids) = SumFunctionOnSet(r, Ids) /\ ExcessOf(T, Ids) = SumFunctionOnSet(g, Ids)
      /\ ExcessOf(S, freed) = SumFunctionOnSet(f, freed)
  BY DEF ExcessOf
<1>4. IsFiniteSet(Ids) /\ IsFiniteSet(freed) /\ IsFiniteSet(rest)
  BY IdsFinite, FS_Subset
<1> HIDE DEF f, g, r
<1>5. SumFunctionOnSet(r, Ids) = SumFunctionOnSet(f, Ids)
  BY <1>1, <1>4, SumSame
<1>6. /\ SumFunctionOnSet(f, Ids) = SumFunctionOnSet(f, freed) + SumFunctionOnSet(f, rest)
      /\ SumFunctionOnSet(g, Ids) = SumFunctionOnSet(g, freed) + SumFunctionOnSet(g, rest)
  BY <1>1, <1>4, SumSplit
<1>7. SumFunctionOnSet(g, freed) = 0
  BY <1>2, <1>4, SumZero
<1>8. SumFunctionOnSet(g, rest) = SumFunctionOnSet(f, rest)
  BY <1>1, <1>2, <1>4, SumSame
<1>9. SumFunctionOnSet(f, freed) \in Int /\ SumFunctionOnSet(f, rest) \in Int
  BY <1>1, <1>4, SumInt
<1> QED
  BY <1>3, <1>5, <1>6, <1>7, <1>8, <1>9

\* The streams' side of SetStreams when the table goes.
LEMMA ClearTable ==
  ASSUME StreamTypes, StreamsOK, NEW p \in Endpoints, NEW S \in [Ids -> SharedSet],
         \A id \in Ids : /\ S[id].fc = shared[p][id].fc
                         /\ S[id].state = "None" => S[id] = NoShared,
         SetStreams(p, {}, S, handle[p])
  PROVE  /\ entry' \in [Peers -> SUBSET Ids] /\ entry'[p] = {}
         /\ shared' \in [Peers -> [Ids -> SharedSet]]
         /\ \A id \in Ids : shared'[p][id] = KeptBy(handle[p][id], S[id])
         /\ acc' \in [Peers -> Int] /\ \A q \in Peers : acc'[q] <= GrowthBudget
         /\ Balanced(p)
         /\ \A q \in Peers \ {p} : /\ entry'[q] = entry[q] /\ shared'[q] = shared[q]
                                   /\ acc'[q] = acc[q]
<1> DEFINE freed == {id \in Ids : /\ S[id].state # "None"
                                  /\ id \notin {} /\ handle[p][id].life # "live"}
           T == [id \in Ids |-> IF id \in freed THEN NoShared ELSE S[id]]
<1>1. /\ p \in Peers /\ shared[p] \in [Ids -> SharedSet] /\ handle[p] \in [Ids -> Handles]
      /\ acc[p] \in Int /\ acc[p] <= GrowthBudget /\ GrowthBudget \in Int
  BY EndpointsArePeers, FlowAssumption DEF StreamTypes, GrowthBudget
<1>2. /\ entry' = [entry EXCEPT ![p] = {}] /\ shared' = [shared EXCEPT ![p] = T]
      /\ acc' = [acc EXCEPT ![p] = @ - ExcessOf(S, freed)]
  BY DEF SetStreams
<1>3. \A id \in Ids : T[id] = KeptBy(handle[p][id], S[id])
  BY DEF KeptBy
<1>4. T \in [Ids -> SharedSet] /\ freed \in SUBSET Ids
  BY NoSharedOK
<1>5. (\A id \in freed : T[id] = NoShared) /\ (\A id \in Ids \ freed : T[id] = S[id])
  OBVIOUS
<1> HIDE DEF freed, T
<1>6. ExcessOf(shared[p], Ids) = ExcessOf(S, freed) + ExcessOf(T, Ids)
  BY <1>1, <1>4, <1>5, ExcessFreed
<1>7. ExcessOf(S, freed) \in Nat /\ ExcessOf(T, Ids) \in Nat
  BY <1>4, ExcessNat
<1>8. /\ entry' \in [Peers -> SUBSET Ids] /\ entry'[p] = {}
      /\ shared' \in [Peers -> [Ids -> SharedSet]] /\ shared'[p] = T
      /\ \A q \in Peers \ {p} : entry'[q] = entry[q] /\ shared'[q] = shared[q]
  BY <1>1, <1>2, <1>4 DEF StreamTypes
<1>9. /\ acc' \in [Peers -> Int] /\ acc'[p] = acc[p] - ExcessOf(S, freed)
      /\ \A q \in Peers \ {p} : acc'[q] = acc[q]
  BY <1>1, <1>2, <1>7 DEF StreamTypes
<1>10. Balanced(p) /\ acc'[p] <= GrowthBudget
  BY <1>1, <1>6, <1>7, <1>8, <1>9 DEF Balanced
<1>11. \A q \in Peers : acc'[q] <= GrowthBudget
  BY <1>9, <1>10 DEF StreamTypes
<1> QED
  BY <1>3, <1>8, <1>9, <1>10, <1>11

\* A step of p as a whole that leaves all of its streams in order.
WholeStep(p) ==
  /\ Apart(p) /\ Balanced(p)
  /\ \A id \in Ids : StreamOK(conn'[p], id \in entry'[p], rx'[p][id],
                              shared'[p][id], handle'[p][id])
  /\ \A id \in Ids : Onward(shared[p][id].state, shared'[p][id].state)
  /\ \/ entry'[p] = {}
     \/ entry'[p] = entry[p] /\ shared'[p] = shared[p]

\* Being let go of by the table is a move on.
LEMMA KeptMoves ==
  ASSUME NEW h, NEW s, NEW st, Onward(st, s.state)
  PROVE  Onward(st, KeptBy(h, s).state)
<1>1. CASE KeptBy(h, s) = s
  BY <1>1
<1>2. CASE KeptBy(h, s) = NoShared
  BY <1>2, NoSharedOK, OnwardSteps
<1> QED
  BY <1>1, <1>2 DEF KeptBy

\* Receivers of p may be closed.
MayCloseReceivers(p) ==
  /\ rx' \in [Peers -> [Ids -> RxStates]] /\ \A q \in Peers \ {p} : rx'[q] = rx[q]
  /\ \A id \in Ids : \/ rx'[p][id] = rx[p][id]
                     \/ rx[p][id] = "open" /\ rx'[p][id] = "closed"

\* Whatever follows an active connection, but Closing: the streams are told.
LEMMA DropAllKeeps ==
  ASSUME StreamTypes, StreamsOK, NEW p \in Endpoints, conn[p] = "Active",
         DropAllStreams(p), NEW c \in ConnStates, conn' = [conn EXCEPT ![p] = c], c # "Active",
         UNCHANGED handle, MayCloseReceivers(p)
  PROVE  StreamTypes' /\ WholeStep(p)
<1> DEFINE S == [id \in Ids |-> IF id \in entry[p] THEN Woken(To(shared[p][id], "Closed"))
                                ELSE shared[p][id]]
<1>1. /\ p \in Peers /\ shared[p] \in [Ids -> SharedSet] /\ handle[p] \in [Ids -> Handles]
      /\ entry[p] \in SUBSET Ids
  BY EndpointsArePeers DEF StreamTypes
<1>2. \A id \in Ids : StreamOK(conn[p], id \in entry[p], rx[p][id], shared[p][id], handle[p][id])
  BY DEF StreamsOK
<1>0. PICK none : none = {}
  OBVIOUS
<1>3. ASSUME NEW id \in Ids
      PROVE  /\ S[id] \in SharedSet /\ S[id].fc = shared[p][id].fc
             /\ S[id].state = "None" => S[id] = NoShared
             /\ Onward(shared[p][id].state, S[id].state)
             /\ StreamOK(c, id \in none, rx[p][id], KeptBy(handle[p][id], S[id]), handle[p][id])
  <2>1. PICK s : s = S[id]
    OBVIOUS
  <2>2. shared[p][id] \in SharedSet /\ handle[p][id] \in Handles
    BY <1>1
  <2>3. Held(id \in entry[p], shared[p][id], handle[p][id])
    BY <1>2 DEF StreamOK
  <2>4. CASE id \in entry[p]
    <3>1. s = Woken(To(shared[p][id], "Closed"))
      BY <2>1, <2>4
    <3>2. shared[p][id].state # "None"
      BY <2>3, <2>4 DEF Held
    <3>3. /\ s \in SharedSet /\ s.state = "Closed" /\ s.fc = shared[p][id].fc
          /\ s.buf = shared[p][id].buf /\ ~s.reader /\ ~s.writer
      BY <2>2, <3>1, <3>2, WokenClosed
    <3>4. id \notin none
      BY <1>0
    <3>5. StreamOK(c, id \in none, rx[p][id], KeptBy(handle[p][id], s), handle[p][id])
      BY <1>2, <2>2, <2>4, <3>3, <3>4, LeaveStep
    <3> QED
      BY <2>1, <3>3, <3>5, OnwardSteps
  <2>5. CASE id \notin entry[p]
    <3>1. s = shared[p][id]
      BY <2>1, <2>5
    <3>2. id \notin none
      BY <1>0
    <3>3. StreamOK(conn[p], id \in entry[p], rx[p][id], shared[p][id], handle[p][id])
      BY <1>2
    <3>4. StreamOK(c, id \in none, rx[p][id], s, handle[p][id])
      <4>1. PICK h, r : h = handle[p][id] /\ r = rx[p][id]
        OBVIOUS
      <4>2. StreamOK(conn[p], id \in entry[p], r, s, h) /\ s \in SharedSet /\ h \in Handles
        BY <2>2, <3>1, <3>3, <4>1
      <4>3. StreamOK(c, id \in none, r, s, h)
        BY <2>5, <3>2, <4>2 DEF StreamOK, Held, Tabled, Parked, Told, can_read, can_write
      <4> QED
        BY <4>1, <4>3
    <3>5. KeptBy(handle[p][id], s) = s /\ (s.state = "None" => s = NoShared)
      BY <2>3, <2>5, <3>1 DEF Held, KeptBy
    <3> QED
      BY <2>1, <2>2, <3>1, <3>4, <3>5, OnwardSteps
  <2> QED
    BY <2>4, <2>5
<1>4. S \in [Ids -> SharedSet]
  BY <1>3
<1>5. SetStreams(p, {}, S, handle[p])
  BY DEF DropAllStreams
<1> HIDE DEF S
<1>6. /\ entry' \in [Peers -> SUBSET Ids] /\ entry'[p] = {}
      /\ shared' \in [Peers -> [Ids -> SharedSet]]
      /\ \A id \in Ids : shared'[p][id] = KeptBy(handle[p][id], S[id])
      /\ acc' \in [Peers -> Int] /\ \A q \in Peers : acc'[q] <= GrowthBudget
      /\ Balanced(p)
      /\ \A q \in Peers \ {p} : /\ entry'[q] = entry[q] /\ shared'[q] = shared[q]
                                /\ acc'[q] = acc[q]
  BY <1>3, <1>4, <1>5, ClearTable
<1>7. conn' \in [Peers -> ConnStates] /\ conn'[p] = c /\ \A q \in Peers \ {p} : conn'[q] = conn[q]
  BY <1>1 DEF StreamTypes
<1>8. StreamTypes'
  BY <1>6, <1>7 DEF StreamTypes, MayCloseReceivers
<1>9. Apart(p)
  BY <1>6, <1>7 DEF Apart, MayCloseReceivers
<1>10. \A id \in Ids : StreamOK(conn'[p], id \in entry'[p], rx'[p][id],
                                shared'[p][id], handle'[p][id])
  <2> SUFFICES ASSUME NEW id \in Ids
               PROVE  StreamOK(conn'[p], id \in entry'[p], rx'[p][id],
                               shared'[p][id], handle'[p][id])
    OBVIOUS
  <2>1. StreamOK(c, id \in none, rx[p][id], shared'[p][id], handle[p][id])
    BY <1>3, <1>6
  <2>2. shared'[p][id] \in SharedSet /\ handle[p][id] \in Handles
    BY <1>1, <1>6
  <2>3. rx'[p][id] = rx[p][id] \/ (rx[p][id] = "open" /\ rx'[p][id] = "closed")
    BY DEF MayCloseReceivers
  <2>4. StreamOK(c, id \in none, rx'[p][id], shared'[p][id], handle[p][id])
    BY <2>1, <2>2, <2>3, GoOnStep
  <2> QED
    BY <1>0, <1>6, <1>7, <2>4
<1>11. ASSUME NEW id \in Ids PROVE Onward(shared[p][id].state, shared'[p][id].state)
  <2>1. Onward(shared[p][id].state, S[id].state)
    BY <1>3
  <2>2. Onward(shared[p][id].state, KeptBy(handle[p][id], S[id]).state)
    BY <2>1, KeptMoves
  <2> QED
    BY <1>6, <2>2
<1> QED
  BY <1>6, <1>8, <1>9, <1>10, <1>11 DEF WholeStep

\* Closing the receivers, or leaving them.
LEMMA ReceiversClose ==
  ASSUME StreamTypes, NEW p \in Peers, CloseReceivers(p) \/ UNCHANGED rx
  PROVE  MayCloseReceivers(p)
<1>1. CASE UNCHANGED rx
  BY <1>1 DEF StreamTypes, MayCloseReceivers
<1>2. CASE CloseReceivers(p)
  <2> DEFINE R == [id \in Ids |-> IF rx[p][id] = "open" THEN "closed" ELSE rx[p][id]]
  <2>1. rx' = [rx EXCEPT ![p] = R] /\ rx \in [Peers -> [Ids -> RxStates]]
    BY <1>2 DEF CloseReceivers, StreamTypes
  <2>2. R \in [Ids -> RxStates]
    BY <2>1 DEF RxStates
  <2>3. \A id \in Ids : R[id] = rx[p][id] \/ (rx[p][id] = "open" /\ R[id] = "closed")
    OBVIOUS
  <2> HIDE DEF R
  <2>4. /\ rx' \in [Peers -> [Ids -> RxStates]] /\ rx'[p] = R
        /\ \A q \in Peers \ {p} : rx'[q] = rx[q]
    BY <2>1, <2>2
  <2> QED
    BY <2>3, <2>4 DEF MayCloseReceivers
<1> QED
  BY <1>1, <1>2

\* Connection::poll_close lets go of the table.
LEMMA ConnectionCloseKeeps ==
  ASSUME StreamTypes, StreamsOK, NEW p \in Endpoints, connection_close(p)
  PROVE  StreamTypes' /\ WholeStep(p)
<1>0. PICK none, c : none = {} /\ c = "ClosingReceivers"
  OBVIOUS
<1>1. /\ conn[p] = "Active" /\ conn' = [conn EXCEPT ![p] = c]
      /\ SetStreams(p, {}, shared[p], handle[p]) /\ UNCHANGED <<rx, handle>>
  BY <1>0 DEF connection_close, Active, Goto, handleVars
<1>2. c \in ConnStates /\ c \notin CleanupStates /\ c # "Active"
  BY <1>0 DEF ConnStates, CleanupStates, ClosingStates
<1>3. /\ p \in Peers /\ shared[p] \in [Ids -> SharedSet] /\ handle[p] \in [Ids -> Handles]
  BY EndpointsArePeers DEF StreamTypes
<1>4. \A id \in Ids : StreamOK(conn[p], id \in entry[p], rx[p][id], shared[p][id], handle[p][id])
  BY DEF StreamsOK
<1>5. \A id \in Ids : shared[p][id].state = "None" => shared[p][id] = NoShared
  BY <1>4 DEF StreamOK, Held
<1>6. /\ entry' \in [Peers -> SUBSET Ids] /\ entry'[p] = {}
      /\ shared' \in [Peers -> [Ids -> SharedSet]]
      /\ \A id \in Ids : shared'[p][id] = KeptBy(handle[p][id], shared[p][id])
      /\ acc' \in [Peers -> Int] /\ \A q \in Peers : acc'[q] <= GrowthBudget
      /\ Balanced(p)
      /\ \A q \in Peers \ {p} : /\ entry'[q] = entry[q] /\ shared'[q] = shared[q]
                                /\ acc'[q] = acc[q]
  BY <1>1, <1>3, <1>5, ClearTable
<1>7. conn' \in [Peers -> ConnStates] /\ conn'[p] = c /\ \A q \in Peers \ {p} : conn'[q] = conn[q]
  BY <1>1, <1>2, <1>3 DEF StreamTypes
<1>8. StreamTypes' /\ Apart(p)
  BY <1>1, <1>6, <1>7 DEF StreamTypes, Apart
<1>9. ASSUME NEW id \in Ids
      PROVE  StreamOK(conn'[p], id \in entry'[p], rx'[p][id], shared'[p][id], handle'[p][id])
  <2>1. shared[p][id] \in SharedSet /\ handle[p][id] \in Handles /\ id \notin none
    BY <1>0, <1>3
  <2>2. StreamOK(c, id \in none, rx[p][id], KeptBy(handle[p][id], shared[p][id]), handle[p][id])
    BY <1>1, <1>2, <1>4, <2>1, UntoldStep
  <2> QED
    BY <1>0, <1>1, <1>6, <1>7, <2>2
<1>10. ASSUME NEW id \in Ids PROVE Onward(shared[p][id].state, shared'[p][id].state)
  <2>1. Onward(shared[p][id].state, shared[p][id].state)
    BY OnwardSteps
  <2>2. Onward(shared[p][id].state, KeptBy(handle[p][id], shared[p][id]).state)
    BY <2>1, KeptMoves
  <2> QED
    BY <1>6, <2>2
<1> QED
  BY <1>6, <1>8, <1>9, <1>10 DEF WholeStep

\* Closing and Cleanup, once begun.
LEMMA GoesOn ==
  ASSUME StreamTypes, StreamsOK, NEW p \in Endpoints, conn[p] # "Active",
         NEW c \in ConnStates, c # "Active", c \in CleanupStates => conn[p] \in CleanupStates,
         conn' = [conn EXCEPT ![p] = c], MayCloseReceivers(p),
         UNCHANGED <<entry, shared, acc, handle>>
  PROVE  StreamTypes' /\ WholeStep(p)
<1>1. /\ p \in Peers /\ shared[p] \in [Ids -> SharedSet] /\ handle[p] \in [Ids -> Handles]
      /\ acc[p] \in Int
  BY EndpointsArePeers DEF StreamTypes
<1>2. conn' \in [Peers -> ConnStates] /\ conn'[p] = c /\ \A q \in Peers \ {p} : conn'[q] = conn[q]
  BY <1>1 DEF StreamTypes
<1>3. StreamTypes' /\ Apart(p)
  BY <1>2 DEF StreamTypes, Apart, MayCloseReceivers
<1>4. ASSUME NEW id \in Ids
      PROVE  StreamOK(conn'[p], id \in entry'[p], rx'[p][id], shared'[p][id], handle'[p][id])
  <2>1. StreamOK(conn[p], id \in entry[p], rx[p][id], shared[p][id], handle[p][id])
    BY DEF StreamsOK
  <2>2. shared[p][id] \in SharedSet /\ handle[p][id] \in Handles
    BY <1>1
  <2>3. rx'[p][id] = rx[p][id] \/ (rx[p][id] = "open" /\ rx'[p][id] = "closed")
    BY DEF MayCloseReceivers
  <2>4. StreamOK(c, id \in entry[p], rx'[p][id], shared[p][id], handle[p][id])
    BY <2>1, <2>2, <2>3, GoOnStep
  <2> QED
    BY <1>2, <2>4
<1>5. Balanced(p)
  <2>1. ExcessOf(shared[p], Ids) \in Nat
    BY <1>1, ExcessNat
  <2> QED
    BY <1>1, <2>1 DEF Balanced
<1>6. \A id \in Ids : Onward(shared[p][id].state, shared'[p][id].state)
  BY OnwardSteps
<1> QED
  BY <1>3, <1>4, <1>5, <1>6 DEF WholeStep

\* The steps of Closing and Cleanup that change the state of the connection.
ShutdownMove(p) ==
  \/ CloseAllReceivers(p) \/ DrainDone(p) \/ CloseSocket(p) \/ ClosingError(p)
  \/ CleanupDrain(p)
  \/ FlushFrame(p) /\ pendQ[p] = <<>>
  \/ connection_drop(p) /\ conn[p] # "Active"

\* The steps of a shutdown leave the streams in order.
LEMMA ShutdownMoveKeeps ==
  ASSUME StreamTypes, StreamsOK, NEW p \in Endpoints, ShutdownMove(p)
  PROVE  StreamTypes' /\ WholeStep(p)
<1>1. p \in Peers
  BY EndpointsArePeers
<1>2. /\ \E c \in ConnStates : /\ c # "Active" /\ conn' = [conn EXCEPT ![p] = c]
                               /\ c \in CleanupStates => conn[p] \in CleanupStates
      /\ conn[p] # "Active" /\ UNCHANGED <<entry, shared, acc, handle>>
      /\ CloseReceivers(p) \/ UNCHANGED rx
  <2> USE DEF Goto, ConnStates, CleanupStates, ClosingStates, tableVars, handleVars
  <2>1. CASE CloseAllReceivers(p)
    BY <2>1 DEF CloseAllReceivers
  <2>2. CASE DrainDone(p)
    BY <2>2 DEF DrainDone
  <2>3. CASE CloseSocket(p)
    BY <2>3 DEF CloseSocket
  <2>4. CASE ClosingError(p)
    BY <2>4 DEF ClosingError
  <2>5. CASE CleanupDrain(p)
    BY <2>5 DEF CleanupDrain
  <2>6. CASE FlushFrame(p) /\ pendQ[p] = <<>>
    BY <2>6 DEF FlushFrame
  <2>7. CASE connection_drop(p) /\ conn[p] # "Active"
    BY <2>7 DEF connection_drop
  <2> QED
    BY <2>1, <2>2, <2>3, <2>4, <2>5, <2>6, <2>7 DEF ShutdownMove
<1>3. MayCloseReceivers(p)
  BY <1>1, <1>2, ReceiversClose
<1> QED
  BY <1>2, <1>3, GoesOn

\* An active connection ends by an error or is dropped.
LEMMA ActiveEnds ==
  ASSUME StreamTypes, StreamsOK, NEW p \in Endpoints,
         PollFail(p) \/ OpenFail(p) \/ (connection_drop(p) /\ conn[p] = "Active")
  PROVE  StreamTypes' /\ WholeStep(p)
<1>1. p \in Peers
  BY EndpointsArePeers
<1>2. CASE PollFail(p) \/ OpenFail(p)
  <2>1. cleanup(p) /\ conn[p] = "Active"
    BY <1>2 DEF PollFail, OpenFail, MayOpen, Active
  <2>2. PICK c : c = "CleanupReceivers"
    OBVIOUS
  <2>3. /\ conn' = [conn EXCEPT ![p] = c] /\ DropAllStreams(p) /\ UNCHANGED <<handle, rx>>
    BY <2>1, <2>2 DEF cleanup, handleVars
  <2>4. MayCloseReceivers(p)
    BY <1>1, <2>3, ReceiversClose
  <2>5. c \in ConnStates /\ c # "Active"
    BY <2>2 DEF ConnStates, CleanupStates
  <2> QED
    BY <2>1, <2>3, <2>4, <2>5, DropAllKeeps
<1>3. CASE connection_drop(p) /\ conn[p] = "Active"
  <2>1. PICK c : c = "Closed"
    OBVIOUS
  <2>2. /\ conn' = [conn EXCEPT ![p] = c] /\ DropAllStreams(p) /\ UNCHANGED handle
        /\ CloseReceivers(p)
    BY <1>3, <2>1 DEF connection_drop, Goto
  <2>3. MayCloseReceivers(p)
    BY <1>1, <2>2, ReceiversClose
  <2>4. c \in ConnStates /\ c # "Active"
    BY <2>1 DEF ConnStates
  <2> QED
    BY <1>3, <2>2, <2>3, <2>4, DropAllKeeps
<1> QED
  BY <1>2, <1>3

----------------------------------------------------------------------------
(* The frames under way                                                     *)

\* What the frames under way consist of.
frameVars == <<wire, chan, pendR, pendW, pendQ, written, rtt, nextId>>

\* Leaving the frames alone keeps their types.
LEMMA SameFrames == ASSUME FrameTypes, UNCHANGED frameVars PROVE FrameTypes'
BY DEF FrameTypes, frameVars

\* What may happen to the frames of one peer or to the socket between them.
WireStep(p) ==
  \/ UNCHANGED wire
  \/ \E f \in Frames : SendFrame(p, f)
  \/ wire[Other(p)] # <<>> /\ wire' = [wire EXCEPT ![Other(p)] = Tail(@)]
  \/ \E n \in 0 .. Len(wire[p]) : wire' = [wire EXCEPT ![p] = SubSeq(@, 1, n)]

\* Whatever happens to the socket, it holds frames.
LEMMA WireTyped ==
  ASSUME wire \in [Peers -> Seq(Frames)], NEW p \in Peers, WireStep(p)
  PROVE  wire' \in [Peers -> Seq(Frames)]
<1>1. Other(p) \in Peers /\ wire[p] \in Seq(Frames) /\ wire[Other(p)] \in Seq(Frames)
  BY OtherPeer
<1>2. CASE \E f \in Frames : SendFrame(p, f)
  <2>1. PICK f \in Frames : wire' = [wire EXCEPT ![p] = Append(@, f)]
    BY <1>2 DEF SendFrame
  <2>2. Append(wire[p], f) \in Seq(Frames)
    BY <1>1
  <2> QED
    BY <2>1, <2>2
<1>3. CASE wire[Other(p)] # <<>> /\ wire' = [wire EXCEPT ![Other(p)] = Tail(@)]
  <2>1. Tail(wire[Other(p)]) \in Seq(Frames)
    BY <1>1, <1>3
  <2> QED
    BY <1>3, <2>1
<1>4. CASE \E n \in 0 .. Len(wire[p]) : wire' = [wire EXCEPT ![p] = SubSeq(@, 1, n)]
  <2>1. PICK n \in 0 .. Len(wire[p]) : wire' = [wire EXCEPT ![p] = SubSeq(@, 1, n)]
    BY <1>4
  <2>2. Len(wire[p]) \in Nat /\ \A i \in 1 .. Len(wire[p]) : wire[p][i] \in Frames
    BY <1>1
  <2>3. SubSeq(wire[p], 1, n) \in Seq(Frames)
    BY <1>1, <2>2
  <2> QED
    BY <2>1, <2>3
<1> QED
  BY <1>2, <1>3, <1>4 DEF WireStep

\* The pending frames of p change.
PendStep(p) ==
  \E r, w, q \in Seq(Frames) :
    /\ pendR' = [pendR EXCEPT ![p] = r] /\ pendW' = [pendW EXCEPT ![p] = w]
    /\ pendQ' = [pendQ EXCEPT ![p] = q]

\* A channel of p gets a command, gives one, or all are emptied.
ChanStep(p) ==
  \/ UNCHANGED chan
  \/ chan' = [chan EXCEPT ![p] = [id \in Ids |-> <<>>]]
  \/ \E id \in Ids, f \in Frames : chan' = [chan EXCEPT ![p][id] = Append(@, f)]
  \/ \E id \in Ids : chan[p][id] # <<>> /\ chan' = [chan EXCEPT ![p][id] = Tail(@)]

\* Whatever happens to the frames, they are frames.
LEMMA FramesTyped ==
  ASSUME FrameTypes, NEW p \in Peers, WireStep(p), PendStep(p), ChanStep(p),
         UNCHANGED <<written, rtt, nextId>>
  PROVE  FrameTypes'
<1>1. wire' \in [Peers -> Seq(Frames)]
  BY WireTyped DEF FrameTypes
<1>2. /\ pendR' \in [Peers -> Seq(Frames)] /\ pendW' \in [Peers -> Seq(Frames)]
      /\ pendQ' \in [Peers -> Seq(Frames)]
  BY DEF PendStep, FrameTypes
<1>3. chan' \in [Peers -> [Ids -> Seq(Frames)]]
  <2>1. chan \in [Peers -> [Ids -> Seq(Frames)]]
    BY DEF FrameTypes
  <2>2. CASE chan' = [chan EXCEPT ![p] = [id \in Ids |-> <<>>]]
    <3>1. [id \in Ids |-> <<>>] \in [Ids -> Seq(Frames)]
      OBVIOUS
    <3> QED
      BY <2>1, <2>2, <3>1
  <2>3. ASSUME NEW id \in Ids, NEW f \in Frames, chan' = [chan EXCEPT ![p][id] = Append(@, f)]
        PROVE  chan' \in [Peers -> [Ids -> Seq(Frames)]]
    <3>1. Append(chan[p][id], f) \in Seq(Frames)
      BY <2>1
    <3> QED
      BY <2>1, <2>3, <3>1
  <2>4. ASSUME NEW id \in Ids, chan[p][id] # <<>>, chan' = [chan EXCEPT ![p][id] = Tail(@)]
        PROVE  chan' \in [Peers -> [Ids -> Seq(Frames)]]
    <3>1. Tail(chan[p][id]) \in Seq(Frames)
      BY <2>1, <2>4
    <3> QED
      BY <2>1, <2>4, <3>1
  <2> QED
    BY <2>1, <2>2, <2>3, <2>4 DEF ChanStep
<1> QED
  BY <1>1, <1>2, <1>3 DEF FrameTypes

\* The frames an operation of a handle passes on.
LEMMA HandleFrames ==
  ASSUME StreamTypes, FrameTypes, NEW p \in Endpoints, NEW id \in Ids,
         \/ \E n : poll_write(p, id, n)
         \/ WritePark(p, id) \/ WriteSend(p, id) \/ ReadCheck(p, id)
         \/ \E fast : send_window_update(p, id, fast)
         \/ \E k : ReadCopy(p, id, k) \/ ReadUpdateSend(p, id, k)
         \/ poll_close(p, id) \/ CloseDone(p, id) \/ DropHandle(p, id)
  PROVE  FrameTypes'
<1>1. p \in Peers
  BY EndpointsArePeers
<1>2. /\ handle[p][id].op.frame \in Frames /\ handle[p][id].op.frame.len \in Nat
      /\ \A ack \in BOOLEAN : close_stream(id, ack) \in Frames
  <2>1. handle[p][id] \in Handles
    BY <1>1 DEF StreamTypes
  <2>2. handle[p][id].op.frame \in Frames
    BY <2>1 DEF Handles
  <2>3. 0 \in 0 .. U32_MAX /\ 0 \in Nat /\ {} \in SUBSET Flags
    BY FlowAssumption
  <2>4. \A ack \in BOOLEAN : close_stream(id, ack) \in Frames
    BY <2>3, FrameOfStream
  <2> QED
    BY <2>2, <2>4 DEF Frames
<1>3. PendStep(p) \/ ~UNCHANGED <<pendR, pendW, pendQ>>
  <2>1. /\ pendR[p] \in Seq(Frames) /\ pendW[p] \in Seq(Frames) /\ pendQ[p] \in Seq(Frames)
        /\ pendR = [pendR EXCEPT ![p] = pendR[p]] /\ pendW = [pendW EXCEPT ![p] = pendW[p]]
        /\ pendQ = [pendQ EXCEPT ![p] = pendQ[p]]
    BY <1>1 DEF FrameTypes
  <2> QED
    BY <2>1 DEF PendStep
<1>4. CASE UNCHANGED frameVars
  BY <1>4, SameFrames
<1>5. ASSUME NEW f \in Frames, chan' = [chan EXCEPT ![p][id] = Append(@, f)],
             UNCHANGED <<wire, pendR, pendW, pendQ, rtt, nextId, written>>
      PROVE  FrameTypes'
  BY <1>1, <1>3, <1>5, FramesTyped DEF WireStep, ChanStep
<1> USE DEF connVars, pendVars, sockVars, tableVars, handleVars, ghostVars
<1>6. CASE \/ \E n : poll_write(p, id, n)
           \/ WritePark(p, id) \/ ReadCheck(p, id) \/ CloseDone(p, id) \/ DropHandle(p, id)
           \/ \E fast : send_window_update(p, id, fast)
           \/ \E k : ReadCopy(p, id, k)
  <2>1. UNCHANGED frameVars
    BY <1>6 DEF poll_write, WritePark, ReadCheck, CloseDone, DropHandle,
                send_window_update, ReadCopy, frameVars
  <2> QED
    BY <1>4, <2>1
<1>7. CASE poll_close(p, id)
  <2>1. PICK ack \in BOOLEAN : ack = (handle[p][id].flag = "Ack")
    OBVIOUS
  <2>2. chan' = [chan EXCEPT ![p][id] = Append(@, close_stream(id, ack))]
    BY <1>7, <2>1 DEF poll_close
  <2>3. UNCHANGED <<wire, pendR, pendW, pendQ, rtt, nextId, written>>
    BY <1>7 DEF poll_close
  <2> QED
    BY <1>2, <1>5, <2>2, <2>3
<1>8. CASE \E k : ReadUpdateSend(p, id, k)
  <2>1. /\ \/ UNCHANGED chan
           \/ chan' = [chan EXCEPT ![p][id] = Append(@, handle[p][id].op.frame)]
        /\ UNCHANGED <<wire, pendR, pendW, pendQ, rtt, nextId, written>>
    BY <1>8 DEF ReadUpdateSend
  <2> QED
    BY <1>2, <1>4, <1>5, <2>1 DEF frameVars
<1>9. CASE WriteSend(p, id)
  <2>1. /\ \/ UNCHANGED <<chan, written>>
           \/ /\ chan' = [chan EXCEPT ![p][id] = Append(@, handle[p][id].op.frame)]
              /\ written' = [written EXCEPT ![p][id] = @ + handle[p][id].op.frame.len]
        /\ UNCHANGED <<wire, pendR, pendW, pendQ, rtt, nextId>>
    BY <1>9 DEF WriteSend
  <2>2. CASE UNCHANGED <<chan, written>>
    BY <1>4, <2>1, <2>2 DEF frameVars
  <2>3. CASE /\ chan' = [chan EXCEPT ![p][id] = Append(@, handle[p][id].op.frame)]
             /\ written' = [written EXCEPT ![p][id] = @ + handle[p][id].op.frame.len]
    <3>1. PICK f, n : f = handle[p][id].op.frame /\ n = written[p][id] + f.len
      OBVIOUS
    <3>2. written' = [written EXCEPT ![p][id] = n] /\ n \in Nat
      BY <1>1, <1>2, <2>3, <3>1, SMTT(30) DEF FrameTypes
    <3>3. written' \in [Peers -> [Ids -> Nat]]
      BY <1>1, <3>2 DEF FrameTypes
    <3>4. PICK c \in Seq(Frames) : chan' = [chan EXCEPT ![p][id] = c]
      <4>1. Append(chan[p][id], f) \in Seq(Frames)
        BY <1>1, <1>2, <3>1 DEF FrameTypes
      <4> QED
        BY <1>1, <2>3, <3>1, <4>1 DEF FrameTypes
    <3>5. chan' \in [Peers -> [Ids -> Seq(Frames)]]
      BY <1>1, <3>4 DEF FrameTypes
    <3> QED
      BY <2>1, <3>3, <3>5 DEF FrameTypes
  <2> QED
    BY <2>1, <2>2, <2>3
<1> QED
  BY <1>6, <1>7, <1>8, <1>9

\* Writing what is there.
LEMMA SamePend ==
  ASSUME FrameTypes, NEW p \in Peers
  PROVE  /\ pendR[p] \in Seq(Frames) /\ pendW[p] \in Seq(Frames) /\ pendQ[p] \in Seq(Frames)
         /\ pendR = [pendR EXCEPT ![p] = pendR[p]] /\ pendW = [pendW EXCEPT ![p] = pendW[p]]
         /\ pendQ = [pendQ EXCEPT ![p] = pendQ[p]]
BY DEF FrameTypes

\* on_frame: the frame leaves the socket, an answer may be pending.
LEMMA OnFrameFrames ==
  ASSUME FrameTypes, NEW p \in Endpoints, on_frame(p)
  PROVE  FrameTypes'
<1>1. p \in Peers /\ Other(p) \in Peers
  BY EndpointsArePeers, OtherPeer
<1>2. PICK f : /\ wire[Other(p)] # <<>> /\ f = Head(wire[Other(p)])
               /\ \/ OnUnknown(p, f) \/ OnReset(p, f) \/ RejectSyn(p, f) \/ AcceptSyn(p, f)
                  \/ on_data(p, f) \/ on_window_update(p, f) \/ on_ping(p, f)
                  \/ handle_pong(p, f)
  BY DEF on_frame
<1> USE DEF connVars, pendVars, sockVars, tableVars, handleVars, ghostVars
<1>3. /\ Receive(p, f) /\ UNCHANGED <<chan, pendW, pendQ, written, nextId>>
  BY <1>2 DEF OnUnknown, OnReset, RejectSyn, AcceptSyn, on_data, on_window_update,
              on_ping, handle_pong, Terminate
<1>4. f \in Frames
  BY <1>3, Received
<1>5. 0 \in 0 .. U32_MAX /\ f.len \in 0 .. U32_MAX
  BY <1>4, FlowAssumption DEF Frames
<1>6. protocol_error \in Frames /\ internal_error \in Frames /\ pong(f.len) \in Frames
  BY <1>5, FrameOfConnection
<1>7. \E r \in Seq(Frames) : pendR' = [pendR EXCEPT ![p] = r]
  <2>1. <<protocol_error>> \in Seq(Frames) /\ <<internal_error>> \in Seq(Frames)
        /\ <<pong(f.len)>> \in Seq(Frames) /\ <<>> \in Seq(Frames)
    BY <1>6
  <2>2. CASE \/ OnUnknown(p, f) \/ OnReset(p, f) \/ AcceptSyn(p, f)
    <3>1. UNCHANGED pendR
      BY <2>2 DEF OnUnknown, OnReset, AcceptSyn
    <3> QED
      BY <1>1, <3>1, SamePend
  <2>3. CASE RejectSyn(p, f)
    <3>1. pendR' = [pendR EXCEPT ![p] = <<Head(SynError(p, f))>>] /\ SynError(p, f) # <<>>
      BY <2>3 DEF RejectSyn, Terminate
    <3>2. SynError(p, f) \in {<<protocol_error>>, <<internal_error>>}
      BY <3>1 DEF SynError
    <3>3. PICK g \in Frames : g = Head(SynError(p, f))
      BY <1>6, <3>2
    <3>4. <<g>> \in Seq(Frames)
      OBVIOUS
    <3> QED
      BY <3>1, <3>3, <3>4
  <2>4. CASE on_data(p, f) \/ on_window_update(p, f)
    <3>1. UNCHANGED pendR \/ pendR' = [pendR EXCEPT ![p] = <<protocol_error>>]
      BY <2>4 DEF on_data, on_window_update, Terminate
    <3> QED
      BY <1>1, <2>1, <3>1, SamePend
  <2>5. CASE on_ping(p, f)
    BY <2>1, <2>5 DEF on_ping
  <2>6. CASE handle_pong(p, f)
    <3>1. UNCHANGED pendR \/ pendR' = [pendR EXCEPT ![p] = <<protocol_error>>]
      BY <2>6 DEF handle_pong
    <3> QED
      BY <1>1, <2>1, <3>1, SamePend
  <2> QED
    BY <1>2, <2>2, <2>3, <2>4, <2>5, <2>6
<1>8. wire' \in [Peers -> Seq(Frames)]
  BY <1>1, <1>3, WireTyped DEF Receive, WireStep, FrameTypes
<1>9. pendR' \in [Peers -> Seq(Frames)]
  BY <1>7 DEF FrameTypes
<1>10. /\ rtt' \in [Peers -> RttStates]
       /\ \A q \in Peers : /\ rtt'[q].id <= MaxPings[q]
                           /\ rtt'[q].st = "due" => rtt'[q].id < MaxPings[q]
  <2>1. \/ UNCHANGED rtt
        \/ rtt' = [rtt EXCEPT ![p].st = "idle", ![p].known = TRUE]
    BY <1>2 DEF OnUnknown, OnReset, RejectSyn, AcceptSyn, on_data, on_window_update,
                on_ping, handle_pong, Terminate
  <2>2. CASE UNCHANGED rtt
    BY <2>2 DEF FrameTypes
  <2>3. CASE rtt' = [rtt EXCEPT ![p].st = "idle", ![p].known = TRUE]
    <3>1. rtt'[p] = [rtt[p] EXCEPT !.st = "idle", !.known = TRUE]
      BY <1>1, <2>3 DEF FrameTypes
    <3>2. rtt'[p] \in RttStates /\ rtt'[p].st = "idle" /\ rtt'[p].id = rtt[p].id
      BY <1>1, <3>1 DEF FrameTypes, RttStates
    <3>3. rtt' = [rtt EXCEPT ![p] = rtt'[p]] /\ \A q \in Peers \ {p} : rtt'[q] = rtt[q]
      BY <1>1, <2>3 DEF FrameTypes
    <3> QED
      BY <1>1, <3>2, <3>3 DEF FrameTypes
  <2> QED
    BY <2>1, <2>2, <2>3
<1> QED
  BY <1>3, <1>8, <1>9, <1>10 DEF FrameTypes

\* The connection sends pings and opens streams.
LEMMA CountFrames ==
  ASSUME FrameTypes, NEW p \in Endpoints,
         PollPing(p) \/ PingInterval(p) \/ OpenWait(p) \/ poll_new_outbound(p)
  PROVE  FrameTypes'
<1>1. p \in Peers /\ rtt[p] \in RttStates /\ nextId[p] \in 1 .. MAX_ID + 1
  BY EndpointsArePeers DEF FrameTypes
<1>2. rtt[p].id \in 0 .. U32_MAX /\ MaxPings[p] \in 0 .. U32_MAX
  BY <1>1, EndpointAssumption DEF RttStates
<1> USE DEF connVars, pendVars, sockVars, tableVars, handleVars, ghostVars
<1>3. CASE OpenWait(p)
  <2>1. UNCHANGED frameVars
    BY <1>3 DEF OpenWait, frameVars
  <2> QED
    BY <2>1, SameFrames
<1>4. CASE poll_new_outbound(p)
  <2>1. /\ nextId' = [nextId EXCEPT ![p] = nextId[p] + 2] /\ nextId[p] + 2 <= MAX_ID
        /\ UNCHANGED <<wire, chan, pendR, pendW, pendQ, written, rtt>>
    BY <1>1, <1>4, EndpointAssumption DEF poll_new_outbound, NoIdLeft
  <2>2. nextId[p] + 2 \in 1 .. MAX_ID + 1
    BY <1>1, <2>1, EndpointAssumption
  <2>3. nextId' \in [Peers -> 1 .. MAX_ID + 1]
    BY <2>1, <2>2 DEF FrameTypes
  <2> QED
    BY <2>1, <2>3 DEF FrameTypes
<1>5. ASSUME NEW r \in RttStates, rtt' = [rtt EXCEPT ![p] = r], r.id <= MaxPings[p],
             r.st = "due" => r.id < MaxPings[p]
      PROVE  /\ rtt' \in [Peers -> RttStates]
             /\ \A q \in Peers : /\ rtt'[q].id <= MaxPings[q]
                                 /\ rtt'[q].st = "due" => rtt'[q].id < MaxPings[q]
  BY <1>1, <1>5 DEF FrameTypes
<1>6. CASE PingInterval(p)
  <2>1. PICK r : r = [rtt[p] EXCEPT !.st = "due"]
    OBVIOUS
  <2>2. rtt' = [rtt EXCEPT ![p] = r] /\ rtt[p].id < MaxPings[p]
    BY <1>6, <2>1 DEF PingInterval, FrameTypes
  <2>3. r \in RttStates /\ r.id = rtt[p].id
    BY <1>1, <2>1 DEF RttStates
  <2>4. r.id <= MaxPings[p] /\ r.id < MaxPings[p]
    BY <1>2, <2>2, <2>3
  <2>5. UNCHANGED <<wire, chan, pendR, pendW, pendQ, written, nextId>>
    BY <1>6 DEF PingInterval
  <2> QED
    BY <1>5, <2>2, <2>3, <2>4, <2>5 DEF FrameTypes
<1>7. CASE PollPing(p)
  <2>1. PICK r : r = [rtt[p] EXCEPT !.st = "await", !.id = rtt[p].id + 1]
    OBVIOUS
  <2>2. rtt' = [rtt EXCEPT ![p] = r]
    BY <1>1, <1>7, <2>1 DEF PollPing, FrameTypes
  <2>3. rtt[p].id < MaxPings[p]
    BY <1>1, <1>7 DEF PollPing, FrameTypes
  <2>4. rtt[p].id + 1 \in 0 .. U32_MAX /\ rtt[p].id + 1 <= MaxPings[p]
    BY <1>2, <2>3, FlowAssumption
  <2>5. r \in RttStates /\ r.st = "await" /\ r.id <= MaxPings[p]
    BY <1>1, <2>1, <2>4 DEF RttStates
  <2>6. ping(rtt[p].id) \in Frames
    BY <1>2, FrameOfConnection
  <2>7. wire' \in [Peers -> Seq(Frames)]
    <3>1. SendFrame(p, ping(rtt[p].id))
      BY <1>7 DEF PollPing
    <3>2. WireStep(p)
      BY <2>6, <3>1 DEF WireStep
    <3> QED
      BY <1>1, <3>2, WireTyped DEF FrameTypes
  <2>8. UNCHANGED <<chan, pendR, pendW, pendQ, written, nextId>>
    BY <1>7 DEF PollPing
  <2> QED
    BY <1>5, <2>2, <2>5, <2>7, <2>8 DEF FrameTypes
<1> QED
  BY <1>3, <1>4, <1>6, <1>7

\* Dropping the socket.
LEMMA DropWire == ASSUME NEW p \in Peers, DropSocket(p) PROVE WireStep(p)
BY DEF DropSocket, WireStep

\* Frames move from the channels to the pending slots and on to the socket.
LEMMA MovingFrames ==
  ASSUME FrameTypes, NEW p \in Endpoints, NEW id \in Ids,
         \/ PollSend(p) \/ PollCommand(p, id) \/ on_drop_stream(p, id)
         \/ DrainCommand(p, id) \/ DrainDone(p) \/ FlushFrame(p)
  PROVE  FrameTypes'
<1>1. p \in Peers
  BY EndpointsArePeers
<1>2. /\ pendR[p] \in Seq(Frames) /\ pendW[p] \in Seq(Frames) /\ pendQ[p] \in Seq(Frames)
      /\ pendR = [pendR EXCEPT ![p] = pendR[p]] /\ pendW = [pendW EXCEPT ![p] = pendW[p]]
      /\ pendQ = [pendQ EXCEPT ![p] = pendQ[p]] /\ chan[p][id] \in Seq(Frames)
      /\ <<>> \in Seq(Frames)
  BY <1>1, SamePend DEF FrameTypes
<1> USE DEF connVars, pendVars, sockVars, tableVars, handleVars, ghostVars
<1>3. CASE PollSend(p)
  <2>1. UNCHANGED <<chan, pendQ, written, rtt, nextId>>
    BY <1>3 DEF PollSend
  <2>2. CASE /\ pendR[p] # <<>> /\ SendFrame(p, Head(pendR[p]))
             /\ pendR' = [pendR EXCEPT ![p] = <<>>] /\ UNCHANGED pendW
    <3>1. WireStep(p)
      <4>1. Head(pendR[p]) \in Frames
        BY <1>2, <2>2
      <4> QED
        BY <2>2, <4>1 DEF WireStep
    <3>2. PendStep(p)
      BY <1>2, <2>1, <2>2 DEF PendStep
    <3> QED
      BY <1>1, <2>1, <3>1, <3>2, FramesTyped DEF ChanStep
  <2>3. CASE /\ pendW[p] # <<>> /\ SendFrame(p, Head(pendW[p]))
             /\ pendW' = [pendW EXCEPT ![p] = <<>>] /\ UNCHANGED pendR
    <3>1. WireStep(p)
      <4>1. Head(pendW[p]) \in Frames
        BY <1>2, <2>3
      <4> QED
        BY <2>3, <4>1 DEF WireStep
    <3>2. PendStep(p)
      BY <1>2, <2>1, <2>3 DEF PendStep
    <3> QED
      BY <1>1, <2>1, <3>1, <3>2, FramesTyped DEF ChanStep
  <2> QED
    BY <1>3, <2>2, <2>3 DEF PollSend
<1>4. CASE PollCommand(p, id)
  <2>1. /\ chan[p][id] # <<>> /\ chan' = [chan EXCEPT ![p][id] = Tail(@)]
        /\ pendW' = [pendW EXCEPT ![p] = <<Head(chan[p][id])>>]
        /\ UNCHANGED <<wire, pendR, pendQ, written, rtt, nextId>>
    BY <1>4 DEF PollCommand
  <2>2. <<Head(chan[p][id])>> \in Seq(Frames)
    BY <1>2, <2>1
  <2>3. PendStep(p)
    BY <1>2, <2>1, <2>2 DEF PendStep
  <2>4. ChanStep(p) /\ WireStep(p)
    BY <2>1 DEF ChanStep, WireStep
  <2> QED
    BY <1>1, <2>1, <2>3, <2>4, FramesTyped
<1>5. CASE on_drop_stream(p, id)
  <2>1. /\ UNCHANGED <<wire, chan, pendR, pendQ, written, rtt, nextId>>
        /\ \/ UNCHANGED pendW
           \/ pendW' = [pendW EXCEPT ![p] = DropFrame(id, shared[p][id].state)]
    BY <1>5 DEF on_drop_stream
  <2>2. reset_stream(id) \in Frames /\ close_stream(id, FALSE) \in Frames
    <3>1. 0 \in 0 .. U32_MAX /\ 0 \in Nat /\ {} \in SUBSET Flags /\ FALSE \in BOOLEAN
      BY FlowAssumption
    <3> QED
      BY <3>1, FrameOfStream
  <2>3. DropFrame(id, shared[p][id].state) \in Seq(Frames)
    <3>1. PICK a, b \in Frames : a = reset_stream(id) /\ b = close_stream(id, FALSE)
      BY <2>2
    <3>2. <<a>> \in Seq(Frames) /\ <<b>> \in Seq(Frames)
      OBVIOUS
    <3> QED
      BY <1>2, <3>1, <3>2 DEF DropFrame
  <2>4. PendStep(p)
    BY <1>2, <2>1, <2>3 DEF PendStep
  <2> QED
    BY <1>1, <2>1, <2>4, FramesTyped DEF WireStep, ChanStep
<1>6. CASE DrainCommand(p, id)
  <2>1. /\ chan[p][id] # <<>> /\ chan' = [chan EXCEPT ![p][id] = Tail(@)]
        /\ pendQ' = [pendQ EXCEPT ![p] = Append(pendQ[p], Head(chan[p][id]))]
        /\ UNCHANGED <<wire, pendR, pendW, written, rtt, nextId>>
    BY <1>1, <1>6 DEF DrainCommand, FrameTypes
  <2>2. Append(pendQ[p], Head(chan[p][id])) \in Seq(Frames)
    BY <1>2, <2>1
  <2>3. PendStep(p)
    BY <1>2, <2>1, <2>2 DEF PendStep
  <2>4. ChanStep(p) /\ WireStep(p)
    BY <2>1 DEF ChanStep, WireStep
  <2> QED
    BY <1>1, <2>1, <2>3, <2>4, FramesTyped
<1>7. CASE DrainDone(p)
  <2>1. /\ pendQ' = [pendQ EXCEPT ![p] = Append(pendQ[p], term)]
        /\ UNCHANGED <<wire, chan, pendR, pendW, written, rtt, nextId>>
    BY <1>1, <1>7 DEF DrainDone, FrameTypes
  <2>2. term \in Frames
    <3>1. 0 \in 0 .. U32_MAX
      BY FlowAssumption
    <3> QED
      BY <3>1, FrameOfConnection
  <2>3. Append(pendQ[p], term) \in Seq(Frames)
    BY <1>2, <2>2
  <2>4. PendStep(p)
    BY <1>2, <2>1, <2>3 DEF PendStep
  <2> QED
    BY <1>1, <2>1, <2>4, FramesTyped DEF WireStep, ChanStep
<1>8. CASE FlushFrame(p)
  <2>1. /\ UNCHANGED <<chan, pendR, pendW, written, rtt, nextId>>
        /\ \/ UNCHANGED <<wire, pendQ>>
           \/ /\ pendQ[p] # <<>> /\ SendFrame(p, Head(pendQ[p]))
              /\ pendQ' = [pendQ EXCEPT ![p] = Tail(pendQ[p])]
    BY <1>1, <1>8 DEF FlushFrame, FrameTypes
  <2>2. CASE UNCHANGED <<wire, pendQ>>
    BY <2>1, <2>2, SameFrames DEF frameVars
  <2>3. CASE /\ pendQ[p] # <<>> /\ SendFrame(p, Head(pendQ[p]))
             /\ pendQ' = [pendQ EXCEPT ![p] = Tail(pendQ[p])]
    <3>1. Head(pendQ[p]) \in Frames /\ Tail(pendQ[p]) \in Seq(Frames)
      BY <1>2, <2>3
    <3>2. PendStep(p)
      BY <1>2, <2>1, <2>3, <3>1 DEF PendStep
    <3>3. WireStep(p)
      BY <2>3, <3>1 DEF WireStep
    <3> QED
      BY <1>1, <2>1, <3>2, <3>3, FramesTyped DEF ChanStep
  <2> QED
    BY <2>1, <2>2, <2>3
<1> QED
  BY <1>3, <1>4, <1>5, <1>6, <1>7, <1>8

\* Frames are given up.
LEMMA EndFrames ==
  ASSUME FrameTypes, NEW p \in Endpoints,
         \/ PollFail(p) \/ OpenFail(p) \/ connection_close(p) \/ connection_drop(p)
         \/ CloseAllReceivers(p) \/ CloseSocket(p) \/ ClosingError(p) \/ CleanupDrain(p)
  PROVE  FrameTypes'
<1>1. p \in Peers
  BY EndpointsArePeers
<1>2. /\ pendR[p] \in Seq(Frames) /\ pendW[p] \in Seq(Frames) /\ pendQ[p] \in Seq(Frames)
      /\ pendR = [pendR EXCEPT ![p] = pendR[p]] /\ pendW = [pendW EXCEPT ![p] = pendW[p]]
      /\ pendQ = [pendQ EXCEPT ![p] = pendQ[p]] /\ <<>> \in Seq(Frames)
  BY <1>1, SamePend
<1> USE DEF connVars, pendVars, sockVars, tableVars, handleVars, ghostVars
<1>3. CASE PollFail(p) \/ OpenFail(p)
  <2>1. cleanup(p)
    BY <1>3 DEF PollFail, OpenFail
  <2>2. /\ DropSocket(p) /\ pendR' = [pendR EXCEPT ![p] = <<>>]
        /\ pendW' = [pendW EXCEPT ![p] = <<>>] /\ UNCHANGED <<chan, pendQ, written, rtt, nextId>>
    BY <2>1 DEF cleanup
  <2>3. PendStep(p)
    BY <1>2, <2>2 DEF PendStep
  <2> QED
    BY <1>1, <2>2, <2>3, DropWire, FramesTyped DEF ChanStep
<1>4. CASE connection_close(p)
  <2>1. /\ pendQ' = [pendQ EXCEPT ![p] = pendR[p] \o pendW[p]]
        /\ pendR' = [pendR EXCEPT ![p] = <<>>] /\ pendW' = [pendW EXCEPT ![p] = <<>>]
        /\ UNCHANGED <<wire, chan, written, rtt, nextId>>
    BY <1>4 DEF connection_close
  <2>2. pendR[p] \o pendW[p] \in Seq(Frames)
    BY <1>2
  <2>3. PendStep(p)
    BY <1>2, <2>1, <2>2 DEF PendStep
  <2> QED
    BY <1>1, <2>1, <2>3, FramesTyped DEF ChanStep, WireStep
<1>5. CASE connection_drop(p)
  <2>1. /\ DropSocket(p) \/ UNCHANGED wire
        /\ pendQ' = [pendQ EXCEPT ![p] = <<>>]
        /\ pendR' = [pendR EXCEPT ![p] = <<>>] /\ pendW' = [pendW EXCEPT ![p] = <<>>]
        /\ chan' = [chan EXCEPT ![p] = [id \in Ids |-> <<>>]]
        /\ UNCHANGED <<written, rtt, nextId>>
    BY <1>5 DEF connection_drop, DropReceivers
  <2>2. PendStep(p)
    BY <1>2, <2>1 DEF PendStep
  <2>3. WireStep(p)
    BY <1>1, <2>1, DropWire DEF WireStep
  <2>4. ChanStep(p)
    BY <2>1 DEF ChanStep
  <2> QED
    BY <1>1, <2>1, <2>2, <2>3, <2>4, FramesTyped
<1>6. CASE CloseAllReceivers(p) \/ CloseSocket(p)
  <2>1. UNCHANGED frameVars
    BY <1>6 DEF CloseAllReceivers, CloseSocket, frameVars
  <2> QED
    BY <2>1, SameFrames
<1>7. CASE ClosingError(p)
  <2>1. /\ DropSocket(p) /\ pendQ' = [pendQ EXCEPT ![p] = <<>>]
        /\ UNCHANGED <<chan, pendR, pendW, written, rtt, nextId>>
    BY <1>7 DEF ClosingError
  <2>2. PendStep(p)
    BY <1>2, <2>1 DEF PendStep
  <2> QED
    BY <1>1, <2>1, <2>2, DropWire, FramesTyped DEF ChanStep
<1>8. CASE CleanupDrain(p)
  <2>1. /\ chan' = [chan EXCEPT ![p] = [id \in Ids |-> <<>>]]
        /\ UNCHANGED <<wire, pendR, pendW, pendQ, written, rtt, nextId>>
    BY <1>8 DEF CleanupDrain, DropReceivers
  <2>2. PendStep(p)
    BY <1>2, <2>1 DEF PendStep
  <2>3. ChanStep(p) /\ WireStep(p)
    BY <2>1 DEF ChanStep, WireStep
  <2> QED
    BY <1>1, <2>1, <2>2, <2>3, FramesTyped
<1> QED
  BY <1>3, <1>4, <1>5, <1>6, <1>7, <1>8

\* The frames of a foreign peer are frames.
LEMMA ForeignFramesOK ==
  ASSUME FrameTypes, ForeignSend \/ ForeignReceive
  PROVE  FrameTypes'
<1> USE DEF connVars, pendVars, sockVars, tableVars, handleVars, ghostVars
<1>1. ASSUME NEW p \in Peers, WireStep(p),
             UNCHANGED <<chan, pendR, pendW, pendQ, written, rtt, nextId>>
      PROVE  FrameTypes'
  BY <1>1, WireTyped DEF FrameTypes
<1>2. CASE ForeignSend
  <2>1. PICK p \in Peers, f \in ForeignFrames : SendFrame(p, f)
    BY <1>2 DEF ForeignSend
  <2>2. f \in Frames
    BY SessionAssumption DEF Frames
  <2>3. UNCHANGED <<chan, pendR, pendW, pendQ, written, rtt, nextId>>
    BY <1>2 DEF ForeignSend
  <2> QED
    BY <1>1, <2>1, <2>2, <2>3 DEF WireStep
<1>3. CASE ForeignReceive
  <2>1. PICK p \in Peers : /\ wire[Other(p)] # <<>>
                           /\ wire' = [wire EXCEPT ![Other(p)] = Tail(@)]
    BY <1>3 DEF ForeignReceive
  <2>2. UNCHANGED <<chan, pendR, pendW, pendQ, written, rtt, nextId>>
    BY <1>3 DEF ForeignReceive
  <2> QED
    BY <1>1, <2>1, <2>2 DEF WireStep
<1> QED
  BY <1>2, <1>3

----------------------------------------------------------------------------
(* Every step of the session                                                *)

\* The streams are left alone.
Steady == UNCHANGED <<conn, entry, rx, shared, handle, acc>>

\* A stream enters the table, opened here or by the remote.
Opens(p, id) ==
  /\ Enters(p, id)
  /\ \/ /\ poll_new_outbound(p) /\ id = nextId[p]
        /\ ~AtStreamLimit(p) /\ ~AtAckBacklog(p)
     \/ /\ \E f : AcceptSyn(p, f) /\ id = f.id
        /\ ~is_outbound(p, id) /\ id \notin entry[p]
        /\ Cardinality(entry[p]) # MaxNumStreams

\* What any step does to the streams: nothing, or p works on one stream, opens
\* one, or moves on as a whole.
StreamsMove ==
  \/ Steady
  \/ \E p \in Endpoints : WholeStep(p)
  \/ \E p \in Endpoints, id \in Ids : StreamStep(p, id) \/ Opens(p, id)

\* The operations of a handle.
HandleAction(p, id) ==
  \/ \E n \in Nat : poll_write(p, id, n)
  \/ WritePark(p, id) \/ WriteSend(p, id) \/ ReadCheck(p, id)
  \/ \E fast \in BOOLEAN : send_window_update(p, id, fast)
  \/ \E k \in 0 .. shared[p][id].buf : ReadCopy(p, id, k) \/ ReadUpdateSend(p, id, k)
  \/ poll_close(p, id) \/ CloseDone(p, id) \/ DropHandle(p, id)

\* Every operation of a handle is a step of its stream.
LEMMA HandleActionKeeps ==
  ASSUME StreamTypes, FrameTypes, StreamsOK, NEW p \in Endpoints, NEW id \in Ids,
         HandleAction(p, id)
  PROVE  StreamTypes' /\ FrameTypes' /\ StreamStep(p, id)
<1>1. FrameTypes'
  BY HandleFrames DEF HandleAction
<1>2. CASE \E n \in Nat : poll_write(p, id, n)
  BY <1>1, <1>2, PollWriteKeeps
<1>3. CASE WritePark(p, id)
  BY <1>1, <1>3, WriteParkKeeps
<1>4. CASE WriteSend(p, id) \/ ReadCheck(p, id)
  BY <1>1, <1>4, WriteSendKeeps
<1>5. CASE \E fast \in BOOLEAN : send_window_update(p, id, fast)
  BY <1>1, <1>5, WindowUpdateKeeps
<1>6. CASE \E k \in 0 .. shared[p][id].buf : ReadCopy(p, id, k) \/ ReadUpdateSend(p, id, k)
  BY <1>1, <1>6, ReadCopyKeeps
<1>7. CASE poll_close(p, id)
  BY <1>1, <1>7, PollCloseKeeps
<1>8. CASE CloseDone(p, id)
  BY <1>1, <1>8, CloseDoneKeeps
<1>9. CASE DropHandle(p, id)
  BY <1>1, <1>9, DropHandleKeeps
<1> QED
  BY <1>2, <1>3, <1>4, <1>5, <1>6, <1>7, <1>8, <1>9 DEF HandleAction

\* Every frame concerns one stream, opens one, or concerns none.
LEMMA OnFrameKeeps ==
  ASSUME StreamTypes, FrameTypes, StreamsOK, NEW p \in Endpoints, on_frame(p)
  PROVE  /\ StreamTypes' /\ FrameTypes'
         /\ Steady \/ \E id \in Ids : StreamStep(p, id) \/ Opens(p, id)
<1>1. FrameTypes'
  BY OnFrameFrames
<1>2. PICK f : \/ OnUnknown(p, f) \/ OnReset(p, f) \/ RejectSyn(p, f) \/ AcceptSyn(p, f)
               \/ on_data(p, f) \/ on_window_update(p, f) \/ on_ping(p, f)
               \/ handle_pong(p, f)
  BY DEF on_frame
<1>3. CASE OnUnknown(p, f) \/ on_ping(p, f) \/ handle_pong(p, f)
  <2>1. Steady
    BY <1>3 DEF OnUnknown, on_ping, handle_pong, tableVars, handleVars, Steady
  <2> QED
    BY <1>1, <2>1 DEF Steady, StreamTypes
<1>4. CASE OnReset(p, f) \/ RejectSyn(p, f) \/ on_data(p, f) \/ on_window_update(p, f)
  <2>1. Receive(p, f) /\ IsStreamFrame(f)
    BY <1>4 DEF OnReset, RejectSyn, on_data, on_window_update, IsPlain, IsSyn, IsStreamFrame
  <2>2. f.id \in Ids
    BY <2>1, Received
  <2>3. StreamTypes' /\ StreamStep(p, f.id)
    BY <1>4, OnResetKeeps, RejectSynKeeps, OnDataKeeps, OnWindowUpdateKeeps
  <2> QED
    BY <1>1, <2>2, <2>3
<1>5. CASE AcceptSyn(p, f)
  <2>1. f.id \in Ids /\ StreamTypes' /\ Opens(p, f.id)
    BY <1>5, AcceptSynKeeps DEF Opens
  <2> QED
    BY <1>1, <2>1
<1> QED
  BY <1>2, <1>3, <1>4, <1>5

\* Frames move, pings come due and openers wait without touching a stream.
LEMMA SteadySteps ==
  ASSUME NEW p \in Endpoints, NEW id \in Ids,
         \/ PollPing(p) \/ PollSend(p) \/ PollCommand(p, id) \/ PingInterval(p)
         \/ OpenWait(p) \/ DrainCommand(p, id)
         \/ FlushFrame(p) /\ pendQ[p] # <<>>
  PROVE  Steady
BY DEF PollPing, PollSend, PollCommand, PingInterval, OpenWait, DrainCommand, FlushFrame,
       Steady, connVars, tableVars, handleVars

\* Frames go out, or the connection waits.
Sending(p) ==
  \/ PollPing(p) \/ PollSend(p) \/ PingInterval(p) \/ OpenWait(p)
  \/ \E id \in Ids : PollCommand(p, id) \/ DrainCommand(p, id)
  \/ FlushFrame(p) /\ pendQ[p] # <<>>

\* A connection ends, or goes on ending.
Ending(p) ==
  \/ PollFail(p) \/ OpenFail(p) \/ connection_close(p) \/ connection_drop(p)
  \/ CloseAllReceivers(p) \/ DrainDone(p) \/ CloseSocket(p) \/ ClosingError(p)
  \/ CleanupDrain(p)
  \/ FlushFrame(p) /\ pendQ[p] = <<>>

\* The kinds of steps an endpoint takes.
LEMMA EndpointActions ==
  ASSUME FrameTypes, NEW p \in Endpoints, EndpointStep(p)
  PROVE  \/ Sending(p) \/ Ending(p) \/ on_frame(p) \/ poll_new_outbound(p)
         \/ \E id \in Ids : HandleAction(p, id) \/ on_drop_stream(p, id)
<1>0. p \in Peers
  BY EndpointsArePeers
<1>1. ConnectionStep(p) =>
        \/ PollPing(p) \/ PollSend(p) \/ on_frame(p) \/ PollFail(p)
        \/ \E id \in Ids : PollCommand(p, id) \/ on_drop_stream(p, id)
  BY DEF ConnectionStep, TakeCommand
<1>2. ApplicationStep(p) =>
        \/ OpenFail(p) \/ OpenWait(p) \/ poll_new_outbound(p)
        \/ \E id \in Ids : HandleAction(p, id)
  <2> SUFFICES ASSUME NEW id \in Ids,
                      \/ WriteStart(p, id) \/ ReadStart(p, id)
                      \/ poll_close(p, id) \/ FinishOp(p, id) \/ DropHandle(p, id)
               PROVE  HandleAction(p, id)
    BY DEF ApplicationStep
  <2>1. CASE WriteStart(p, id)
    <3>1. \A n \in 1 .. MaxBytes[p] - written[p][id] : n \in Nat
      <4>1. written[p][id] \in Nat /\ MaxBytes[p] \in Nat
        BY <1>0, StreamAssumption DEF FrameTypes
      <4> QED
        BY <4>1
    <3> QED
      BY <2>1, <3>1 DEF WriteStart, HandleAction
  <2>2. CASE ReadStart(p, id)
    BY <2>2 DEF ReadStart, HandleAction
  <2>3. CASE FinishOp(p, id)
    BY <2>3 DEF FinishOp, HandleAction
  <2> QED
    BY <2>1, <2>2, <2>3 DEF HandleAction
<1>3. ShutdownStep(p) =>
        \/ CloseAllReceivers(p) \/ DrainDone(p) \/ FlushFrame(p) \/ CloseSocket(p)
        \/ ClosingError(p) \/ CleanupDrain(p) \/ \E id \in Ids : DrainCommand(p, id)
  BY DEF ShutdownStep
<1> QED
  BY <1>1, <1>2, <1>3 DEF EndpointStep, Sending, Ending

\* Every step of an endpoint keeps the types and does one of these things.
LEMMA EndpointStepKeeps ==
  ASSUME StreamTypes, FrameTypes, StreamsOK, NEW p \in Endpoints, EndpointStep(p)
  PROVE  StreamTypes' /\ FrameTypes' /\ StreamsMove
<1>0. p \in Peers /\ 1 \in Ids
  BY EndpointsArePeers, EndpointAssumption DEF Ids
<1>1. CASE \E id \in Ids : HandleAction(p, id)
  BY <1>1, HandleActionKeeps DEF StreamsMove
<1>2. CASE on_frame(p)
  BY <1>2, OnFrameKeeps DEF StreamsMove
<1>3. CASE \E id \in Ids : on_drop_stream(p, id)
  BY <1>3, OnDropStreamKeeps, MovingFrames DEF StreamsMove
<1>4. CASE poll_new_outbound(p)
  BY <1>4, PollNewOutboundKeeps, CountFrames DEF StreamsMove, Opens
<1>5. CASE \/ PollPing(p) \/ PollSend(p) \/ PingInterval(p) \/ OpenWait(p)
           \/ \E id \in Ids : PollCommand(p, id) \/ DrainCommand(p, id)
           \/ FlushFrame(p) /\ pendQ[p] # <<>>
  <2>1. Steady
    BY <1>0, <1>5, SteadySteps
  <2>2. FrameTypes'
    BY <1>0, <1>5, CountFrames, MovingFrames
  <2> QED
    BY <2>1, <2>2 DEF Steady, StreamTypes, StreamsMove
<1>6. CASE PollFail(p) \/ OpenFail(p) \/ connection_close(p) \/ connection_drop(p)
  BY <1>6, EndFrames, ActiveEnds, ConnectionCloseKeeps, ShutdownMoveKeeps
     DEF StreamsMove, ShutdownMove
<1>7. CASE \/ CloseAllReceivers(p) \/ DrainDone(p) \/ CloseSocket(p) \/ ClosingError(p)
           \/ CleanupDrain(p)
           \/ FlushFrame(p) /\ pendQ[p] = <<>>
  <2>1. StreamTypes' /\ WholeStep(p)
    BY <1>7, ShutdownMoveKeeps DEF ShutdownMove
  <2>2. FrameTypes'
    BY <1>0, <1>7, EndFrames, MovingFrames
  <2> QED
    BY <2>1, <2>2 DEF StreamsMove
<1> QED
  BY <1>1, <1>2, <1>3, <1>4, <1>5, <1>6, <1>7, EndpointActions DEF Sending, Ending

\* A foreign peer touches the socket alone.
LEMMA ForeignSteady == ASSUME ForeignSend \/ ForeignReceive PROVE Steady
BY DEF ForeignSend, ForeignReceive, Steady, connVars, tableVars, handleVars

\* Every step of the session does one of these things.
LEMMA SessionStepKeeps ==
  ASSUME StreamTypes, FrameTypes, StreamsOK, SessionNext
  PROVE  StreamTypes' /\ FrameTypes' /\ StreamsMove
<1>1. CASE \E p \in Endpoints : EndpointStep(p)
  BY <1>1, EndpointStepKeeps
<1>2. CASE ForeignSend \/ ForeignReceive
  <2>1. Steady /\ FrameTypes'
    BY <1>2, ForeignSteady, ForeignFramesOK
  <2> QED
    BY <2>1 DEF Steady, StreamTypes, StreamsMove
<1> QED
  BY <1>1, <1>2 DEF SessionNext

\* Whatever a step does, the streams stay in order.
LEMMA StreamsStayOK ==
  ASSUME StreamTypes, StreamsOK, StreamsMove
  PROVE  StreamsOK'
<1>0. SUFFICES ASSUME NEW q \in Endpoints, NEW j \in Ids
               PROVE  StreamOK(conn'[q], j \in entry'[q], rx'[q][j], shared'[q][j],
                               handle'[q][j])
  BY DEF StreamsOK
<1>1. StreamOK(conn[q], j \in entry[q], rx[q][j], shared[q][j], handle[q][j])
  BY DEF StreamsOK
<1>2. q \in Peers
  BY EndpointsArePeers
<1>3. CASE Steady
  BY <1>1, <1>3 DEF Steady
<1>4. ASSUME NEW p \in Endpoints, q # p, Apart(p)
      PROVE  StreamOK(conn'[q], j \in entry'[q], rx'[q][j], shared'[q][j], handle'[q][j])
  BY <1>1, <1>2, <1>4 DEF Apart
<1>5. ASSUME NEW p \in Endpoints, WholeStep(p)
      PROVE  StreamOK(conn'[q], j \in entry'[q], rx'[q][j], shared'[q][j], handle'[q][j])
  BY <1>4, <1>5 DEF WholeStep
<1>6. ASSUME NEW p \in Endpoints, NEW id \in Ids, OneStream(p, id), InOrder(p, id)
      PROVE  StreamOK(conn'[q], j \in entry'[q], rx'[q][j], shared'[q][j], handle'[q][j])
  <2>1. CASE q # p
    BY <1>4, <1>6, <2>1 DEF OneStream
  <2>2. CASE q = p /\ j = id
    BY <1>6, <2>2 DEF OneStream, InOrder
  <2>3. CASE q = p /\ j # id
    <3>1. /\ j \in entry'[q] <=> j \in entry[q]
          /\ rx'[q][j] = rx[q][j] /\ shared'[q][j] = shared[q][j]
          /\ handle'[q][j] = handle[q][j] /\ conn'[q] = conn[q]
      BY <1>6, <2>3 DEF OneStream
    <3>2. Held(j \in entry'[q], shared[q][j], handle[q][j])
      BY <1>1, <3>1 DEF StreamOK, Held
    <3>3. Tabled(conn[q], j \in entry'[q], rx[q][j], shared[q][j], handle[q][j])
      BY <1>1, <3>1 DEF StreamOK, Tabled
    <3> QED
      BY <1>1, <3>1, <3>2, <3>3 DEF StreamOK
  <2> QED
    BY <2>1, <2>2, <2>3
<1> QED
  BY <1>3, <1>5, <1>6 DEF StreamsMove, StreamStep, Opens, Enters

\* The outbound streams of p that are not acknowledged.
Unacked(p) == {id \in entry[p] : is_outbound(p, id) /\ is_pending_ack(shared[p][id].state)}

\* Sets of streams are finite, and one more stream is at most one more.
LEMMA CountIds ==
  ASSUME NEW S \in SUBSET Ids
  PROVE  /\ IsFiniteSet(S) /\ Cardinality(S) \in Nat
         /\ \A T \in SUBSET S : Cardinality(T) <= Cardinality(S)
         /\ \A id \in Ids : Cardinality(S \cup {id}) <= Cardinality(S) + 1
<1>1. IsFiniteSet(S) /\ Cardinality(S) \in Nat
  BY IdsFinite, FS_Subset, FS_CardinalityType
<1>2. \A T \in SUBSET S : Cardinality(T) <= Cardinality(S)
  BY <1>1, FS_Subset
<1>3. ASSUME NEW id \in Ids PROVE Cardinality(S \cup {id}) <= Cardinality(S) + 1
  BY <1>1, FS_AddElement
<1> QED
  BY <1>1, <1>2, <1>3

\* The limits hold whoever opens streams.
LEMMA LimitsStay ==
  ASSUME StreamTypes, StreamTypes', StreamLimits, StreamsMove
  PROVE  StreamLimits'
<1>0. SUFFICES ASSUME NEW q \in Endpoints
               PROVE  /\ Cardinality(entry'[q]) <= MaxNumStreams
                      /\ Cardinality(Unacked(q)') <= MAX_ACK_BACKLOG
  BY DEF StreamLimits, ack_backlog, Unacked
<1>1. /\ Cardinality(entry[q]) <= MaxNumStreams /\ Cardinality(Unacked(q)) <= MAX_ACK_BACKLOG
      /\ MaxNumStreams \in Nat /\ MAX_ACK_BACKLOG \in Nat
  BY FlowAssumption, EndpointAssumption DEF StreamLimits, ack_backlog, Unacked
<1>2. /\ q \in Peers /\ entry[q] \in SUBSET Ids /\ entry'[q] \in SUBSET Ids
      /\ Unacked(q) \in SUBSET Ids /\ Unacked(q)' \in SUBSET Ids
  BY EndpointsArePeers DEF StreamTypes, Unacked
<1>3. /\ Cardinality(entry[q]) \in Nat /\ Cardinality(entry'[q]) \in Nat
      /\ Cardinality(Unacked(q)) \in Nat /\ Cardinality(Unacked(q)') \in Nat
  BY <1>2, CountIds
<1>4. ASSUME entry'[q] \subseteq entry[q], Unacked(q)' \subseteq Unacked(q)
      PROVE  /\ Cardinality(entry'[q]) <= MaxNumStreams
             /\ Cardinality(Unacked(q)') <= MAX_ACK_BACKLOG
  <2>1. /\ Cardinality(entry'[q]) <= Cardinality(entry[q])
        /\ Cardinality(Unacked(q)') <= Cardinality(Unacked(q))
    BY <1>2, <1>4, CountIds
  <2> QED
    BY <1>1, <1>3, <2>1
<1>5. CASE Steady
  BY <1>4, <1>5 DEF Steady, Unacked
<1>6. ASSUME NEW p \in Endpoints, q # p, Apart(p)
      PROVE  entry'[q] \subseteq entry[q] /\ Unacked(q)' \subseteq Unacked(q)
  BY <1>2, <1>6 DEF Apart, Unacked
<1>7. ASSUME NEW p \in Endpoints, WholeStep(p)
      PROVE  entry'[q] \subseteq entry[q] /\ Unacked(q)' \subseteq Unacked(q)
  BY <1>6, <1>7 DEF WholeStep, Unacked
<1>8. ASSUME NEW p \in Endpoints, NEW id \in Ids, StreamStep(p, id)
      PROVE  entry'[q] \subseteq entry[q] /\ Unacked(q)' \subseteq Unacked(q)
  <2>1. CASE q # p
    BY <1>6, <1>8, <2>1 DEF StreamStep, OneStream
  <2>2. CASE q = p
    <3>1. \A j \in Ids : j \in entry'[q] =>
            /\ j \in entry[q]
            /\ is_pending_ack(shared'[q][j].state) => is_pending_ack(shared[q][j].state)
      BY <1>8, <2>2 DEF StreamStep, OneStream, NoneReborn, Onward
    <3> QED
      BY <1>2, <3>1 DEF Unacked
  <2> QED
    BY <2>1, <2>2
<1>9. ASSUME NEW p \in Endpoints, NEW id \in Ids, Opens(p, id)
      PROVE  /\ Cardinality(entry'[q]) <= MaxNumStreams
             /\ Cardinality(Unacked(q)') <= MAX_ACK_BACKLOG
  <2>1. CASE q # p
    BY <1>4, <1>6, <1>9, <2>1 DEF Opens, Enters, OneStream
  <2>2. CASE q = p
    <3>1. entry'[q] = entry[q] \cup {id} /\ Unacked(q)' \subseteq Unacked(q) \cup {id}
      BY <1>2, <1>9, <2>2 DEF Opens, Enters, OneStream, Unacked
    <3>2. /\ Cardinality(entry'[q]) <= Cardinality(entry[q]) + 1
          /\ Cardinality(Unacked(q) \cup {id}) <= Cardinality(Unacked(q)) + 1
          /\ Cardinality(Unacked(q)') <= Cardinality(Unacked(q) \cup {id})
          /\ Cardinality(Unacked(q) \cup {id}) \in Nat
      <4>1. Unacked(q) \cup {id} \in SUBSET Ids
        BY <1>2
      <4> QED
        BY <1>2, <3>1, <4>1, CountIds
    <3>3. CASE ~AtStreamLimit(q) /\ ~AtAckBacklog(q)
      <4>1. ~(Cardinality(entry[q]) >= MaxNumStreams) /\ ~(Cardinality(Unacked(q)) >= MAX_ACK_BACKLOG)
        BY <3>3 DEF AtStreamLimit, AtAckBacklog, ack_backlog, Unacked
      <4> QED
        BY <1>1, <1>3, <3>2, <4>1
    <3>4. CASE /\ ~is_outbound(q, id) /\ id \notin entry[q]
               /\ Cardinality(entry[q]) # MaxNumStreams
      <4>1. Unacked(q)' \subseteq Unacked(q)
        BY <3>1, <3>4 DEF Unacked
      <4>2. Cardinality(Unacked(q)') <= Cardinality(Unacked(q))
        BY <1>2, <4>1, CountIds
      <4> QED
        BY <1>1, <1>3, <3>2, <3>4, <4>2
    <3> QED
      BY <1>9, <2>2, <3>3, <3>4 DEF Opens
  <2> QED
    BY <2>1, <2>2
<1> QED
  BY <1>4, <1>5, <1>7, <1>8, <1>9 DEF StreamsMove

----------------------------------------------------------------------------
(* The invariant                                                            *)

SessionInv == StreamTypes /\ FrameTypes /\ StreamsOK /\ StreamLimits

\* A session begins in order.
LEMMA InitSession == SessionInit => SessionInv
<1> SUFFICES ASSUME SessionInit PROVE SessionInv
  OBVIOUS
<1>1. NoHandle \in Handles /\ NoHandle.life = "none" /\ NoHandle.op.kind = "idle"
      /\ NoHandle.closes = 0
  BY IdleOp DEF NoHandle, Handles
<1>2. /\ NoShared \in SharedSet /\ NoShared.state = "None" /\ Bounded(NoShared)
  BY NoSharedOK
<1>3. /\ conn = [p \in Peers |-> "Active"] /\ entry = [p \in Peers |-> {}]
      /\ rx = [p \in Peers |-> [id \in Ids |-> "none"]]
      /\ shared = [p \in Peers |-> [id \in Ids |-> NoShared]]
      /\ handle = [p \in Peers |-> [id \in Ids |-> NoHandle]]
      /\ acc = [p \in Peers |-> 0]
      /\ nextId = [p \in Peers |-> IF p = "Client" THEN 1 ELSE 2]
      /\ wire = [p \in Peers |-> <<>>] /\ pendR = [p \in Peers |-> <<>>]
      /\ pendW = [p \in Peers |-> <<>>] /\ pendQ = [p \in Peers |-> <<>>]
      /\ chan = [p \in Peers |-> [id \in Ids |-> <<>>]]
      /\ written = [p \in Peers |-> [id \in Ids |-> 0]]
      /\ rtt = [p \in Peers |-> InitRtt(p)]
  BY DEF SessionInit, Init, PerStream
<1>4. StreamTypes
  <2>1. GrowthBudget >= 0
    <3>1. MaxNumStreams * DEFAULT_CREDIT \in Int /\ MaxConnWindow \in Int
      BY FlowAssumption
    <3> QED
      BY <3>1, FlowAssumption DEF GrowthBudget, ConfigAccepted
  <2>2. "Active" \in ConnStates /\ "none" \in RxStates
    BY DEF ConnStates, RxStates
  <2>3. acc \in [Peers -> Int] /\ \A p \in Peers : acc[p] <= GrowthBudget
    <3>1. GrowthBudget \in Int
      BY FlowAssumption DEF GrowthBudget
    <3> QED
      BY <1>3, <2>1, <3>1
  <2> QED
    BY <1>1, <1>2, <1>3, <2>2, <2>3 DEF StreamTypes
<1>5. FrameTypes
  <2>1. nextId \in [Peers -> 1 .. MAX_ID + 1]
    <3>1. 1 \in 1 .. MAX_ID + 1 /\ 2 \in 1 .. MAX_ID + 1
      BY EndpointAssumption
    <3> QED
      BY <1>3, <3>1
  <2>2. \A p \in Peers : /\ InitRtt(p) \in RttStates /\ InitRtt(p).id = 0
                         /\ InitRtt(p).st = "due" => MaxPings[p] # 0
    <3>1. 0 \in 0 .. U32_MAX
      BY FlowAssumption
    <3> QED
      BY <3>1 DEF InitRtt, RttStates
  <2>3. \A p \in Peers : MaxPings[p] \in Nat
    BY EndpointAssumption, FlowAssumption
  <2>4. \A p \in Peers : /\ InitRtt(p).id <= MaxPings[p]
                         /\ InitRtt(p).st = "due" => InitRtt(p).id < MaxPings[p]
    BY <2>2, <2>3
  <2> QED
    BY <1>3, <2>1, <2>2, <2>4 DEF FrameTypes
<1>6. StreamsOK
  <2> SUFFICES ASSUME NEW p \in Endpoints, NEW id \in Ids
               PROVE  StreamOK(conn[p], id \in entry[p], rx[p][id], shared[p][id], handle[p][id])
    BY DEF StreamsOK
  <2>1. /\ conn[p] = "Active" /\ id \notin entry[p] /\ rx[p][id] = "none"
        /\ shared[p][id] = NoShared /\ handle[p][id] = NoHandle
    BY <1>3, EndpointsArePeers
  <2> QED
    BY <1>1, <1>2, <2>1 DEF StreamOK, Held, Tabled, Parked, Told, CleanupStates
<1>7. StreamLimits
  <2> SUFFICES ASSUME NEW p \in Endpoints
               PROVE  Cardinality(entry[p]) <= MaxNumStreams /\ ack_backlog(p) <= MAX_ACK_BACKLOG
    BY DEF StreamLimits
  <2>1. entry[p] = {}
    BY <1>3, EndpointsArePeers
  <2>2. Cardinality(entry[p]) = 0 /\ ack_backlog(p) = 0
    BY <2>1, FS_EmptySet DEF ack_backlog
  <2> QED
    BY <2>2, FlowAssumption, EndpointAssumption
<1> QED
  BY <1>4, <1>5, <1>6, <1>7 DEF SessionInv

\* Every step of the session keeps the invariant.
LEMMA NextSession == SessionInv /\ [SessionNext]_allVars => SessionInv'
<1> SUFFICES ASSUME SessionInv, [SessionNext]_allVars PROVE SessionInv'
  OBVIOUS
<1>1. CASE SessionNext
  <2>1. StreamTypes' /\ FrameTypes' /\ StreamsMove
    BY <1>1, SessionStepKeeps DEF SessionInv
  <2>2. StreamsOK' /\ StreamLimits'
    BY <2>1, StreamsStayOK, LimitsStay DEF SessionInv
  <2> QED
    BY <2>1, <2>2 DEF SessionInv
<1>2. CASE UNCHANGED allVars
  <2>1. Steady /\ UNCHANGED frameVars
    BY <1>2 DEF allVars, vars, connVars, pendVars, sockVars, tableVars, handleVars,
                ghostVars, Steady, frameVars
  <2>2. StreamTypes' /\ StreamsMove
    BY <2>1 DEF SessionInv, StreamTypes, Steady, StreamsMove
  <2>3. FrameTypes'
    BY <2>1, SameFrames DEF SessionInv
  <2>4. StreamsOK' /\ StreamLimits'
    BY <2>2, StreamsStayOK, LimitsStay DEF SessionInv
  <2> QED
    BY <2>2, <2>3, <2>4 DEF SessionInv
<1> QED
  BY <1>1, <1>2

\* The invariant holds of every behaviour of the session.
LEMMA SessionSafe == Spec => []SessionInv
BY InitSession, NextSession, PTL DEF Spec

----------------------------------------------------------------------------
(* The theorems                                                             *)

\* What the invariant says of one stream.
LEMMA OneEnd ==
  ASSUME SessionInv, NEW p \in Endpoints, NEW id \in Ids
  PROVE  /\ shared[p][id] \in SharedSet
         /\ StreamOK(conn[p], id \in entry[p], rx[p][id], shared[p][id], handle[p][id])
BY EndpointsArePeers DEF SessionInv, StreamTypes, StreamsOK

\* Every entry of an active connection has the receiver whose end removes it,
\* for any number of streams and whatever a foreign peer sends
\* (on_drop_stream).
THEOREM EntriesHaveReceivers == Spec => []EntryHasReceiver
<1>1. SessionInv => EntryHasReceiver
  BY OneEnd DEF EntryHasReceiver, StreamOK, Held, Tabled
<1> QED
  BY <1>1, SessionSafe, PTL

\* A handle whose stream was reset, or ended on both sides, sees it closed,
\* wherever its operations were interrupted (on_data, on_window_update).
THEOREM HandlesSeeEnd == Spec => []HandleSeesEnd
<1>1. SessionInv => HandleSeesEnd
  BY OneEnd DEF HandleSeesEnd, StreamOK, Tabled, live
<1> QED
  BY <1>1, SessionSafe, PTL

\* No reader and no writer of a stream misses its wake-up, in any interleaving
\* of the handle's operations with the connection's (poll_read, poll_write,
\* on_data, on_window_update).
THEOREM NobodyParkedInVain == Spec => []ParkedForReason
<1>1. SessionInv => ParkedForReason
  BY OneEnd DEF ParkedForReason, StreamOK, Parked, live
<1> QED
  BY <1>1, SessionSafe, PTL

\* Only a connection that is dropped goes from active to its end in one step.
LEMMA ActiveToClosed ==
  ASSUME SessionInv, NEW p \in Endpoints, EndpointStep(p), conn[p] = "Active",
         conn'[p] = "Closed"
  PROVE  connection_drop(p)
<1>1. StreamTypes /\ FrameTypes /\ StreamsOK /\ p \in Peers /\ 1 \in Ids
  BY EndpointsArePeers, EndpointAssumption DEF SessionInv, Ids
<1>2. ~Sending(p)
  BY <1>1, SteadySteps DEF Sending, Steady
<1>3. ~on_frame(p) /\ ~poll_new_outbound(p)
  BY <1>1, OnFrameKeeps, PollNewOutboundKeeps DEF Steady, StreamStep, Opens, Enters, OneStream
<1>4. \A id \in Ids : ~HandleAction(p, id) /\ ~on_drop_stream(p, id)
  BY <1>1, HandleActionKeeps, OnDropStreamKeeps DEF StreamStep, OneStream
<1>5. ~PollFail(p) /\ ~OpenFail(p) /\ ~connection_close(p)
  BY <1>1 DEF PollFail, OpenFail, cleanup, connection_close, Goto, StreamTypes
<1>6. /\ ~CloseAllReceivers(p) /\ ~DrainDone(p) /\ ~CloseSocket(p) /\ ~ClosingError(p)
      /\ ~CleanupDrain(p) /\ ~FlushFrame(p)
  BY DEF CloseAllReceivers, DrainDone, CloseSocket, ClosingError, CleanupDrain, FlushFrame
<1> QED
  BY <1>1, <1>2, <1>3, <1>4, <1>5, <1>6, EndpointActions DEF Ending

\* Dropping an active connection closes every stream (drop_all_streams).
LEMMA DropCloses ==
  ASSUME SessionInv, NEW p \in Endpoints, connection_drop(p), conn[p] = "Active",
         NEW id \in Ids
  PROVE  shared'[p][id].state \in {"None", "Closed"}
<1> DEFINE S == [j \in Ids |-> IF j \in entry[p] THEN Woken(To(shared[p][j], "Closed"))
                               ELSE shared[p][j]]
<1>1. /\ p \in Peers /\ shared \in [Peers -> [Ids -> SharedSet]]
      /\ StreamOK(conn[p], id \in entry[p], rx[p][id], shared[p][id], handle[p][id])
  BY EndpointsArePeers DEF SessionInv, StreamTypes, StreamsOK
<1>2. SetStreams(p, {}, S, handle[p])
  BY DEF connection_drop, DropAllStreams
<1>3. id \in entry[p] => S[id].state = "Closed"
  <2>1. ASSUME id \in entry[p] PROVE shared[p][id] \in SharedSet /\ shared[p][id].state # "None"
    BY <1>1, <2>1 DEF StreamOK, Held
  <2> QED
    BY <2>1, WokenClosed
<1>4. id \notin entry[p] => S[id].state \in {"None", "Closed"}
  BY <1>1 DEF StreamOK, Held, Tabled
<1> HIDE DEF S
<1>5. shared'[p][id] \in {NoShared, S[id]}
  BY <1>1, <1>2 DEF SetStreams
<1> QED
  BY <1>3, <1>4, <1>5, NoSharedOK

\* Once the connection is no longer active, a stream that is closed or gone
\* stays so, whatever its handle was in the middle of.
LEMMA ClosedIsLast ==
  ASSUME SessionInv, NEW p \in Endpoints, EndpointStep(p), conn[p] # "Active", NEW id \in Ids,
         shared[p][id].state \in {"None", "Closed"}, shared'[p][id] \in SharedSet
  PROVE  shared'[p][id].state \in {"None", "Closed"}
<1>1. StreamTypes /\ FrameTypes /\ StreamsOK /\ p \in Peers /\ 1 \in Ids
  BY EndpointsArePeers, EndpointAssumption DEF SessionInv, Ids
<1>2. CASE Sending(p)
  BY <1>1, <1>2, SteadySteps DEF Sending, Steady
<1>3. ~on_frame(p) /\ ~poll_new_outbound(p) /\ \A j \in Ids : ~on_drop_stream(p, j)
  BY DEF on_frame, OnUnknown, OnReset, RejectSyn, AcceptSyn, on_data, on_window_update, on_ping,
         handle_pong, Receive, poll_new_outbound, MayOpen, on_drop_stream, Active
<1>4. CASE Ending(p)
  BY <1>4 DEF Ending, PollFail, OpenFail, MayOpen, Active, connection_close, connection_drop,
              CloseAllReceivers, DrainDone, CloseSocket, ClosingError, CleanupDrain, FlushFrame,
              tableVars
<1>5. ASSUME NEW j \in Ids, HandleAction(p, j)
      PROVE  shared'[p][id].state \in {"None", "Closed"}
  <2>1. StreamStep(p, j)
    BY <1>1, <1>5, HandleActionKeeps
  <2>2. CASE id # j
    BY <2>1, <2>2 DEF StreamStep, OneStream
  <2>3. CASE id = j
    <3>1. handle[p][id].life = "live" \/ handle[p][id].op.kind # "idle"
      BY <1>5, <2>3 DEF HandleAction, poll_write, WritePark, WriteReady, WriteSend, ReadCheck,
                        send_window_update, ReadCopy, ReadReady, ReadUpdateSend, poll_close,
                        CloseDone, DropHandle, Free, live
    <3>2. shared[p][id].state = "Closed"
      BY <1>1, <3>1, LiveStream
    <3>3. Onward("Closed", shared'[p][id].state)
      BY <2>1, <2>3, <3>2 DEF StreamStep, NoneReborn
    <3> QED
      BY <3>3 DEF Onward, can_read, can_write, SharedSet, StreamStates, OpenStates
  <2> QED
    BY <2>2, <2>3
<1> QED
  BY <1>1, <1>2, <1>3, <1>4, <1>5, EndpointActions

\* On a stream that is closed nobody sleeps: a connection that is not active
\* has no table, so a handle holds the stream, and whoever parks on it has a
\* reason.
LEMMA ClosedIsTold ==
  ASSUME NEW c, c # "Active", NEW t, NEW r, NEW s, NEW h, StreamOK(c, t, r, s, h),
         s.state = "Closed"
  PROVE  ~s.reader /\ (h.closes = 0 => ~s.writer)
<1>1. h.life = "live"
  BY DEF StreamOK, Held, Tabled
<1> QED
  BY <1>1 DEF StreamOK, Parked, can_read, can_write

\* An endpoint's step touches its own streams alone.
LEMMA EndpointApart ==
  ASSUME SessionInv, NEW p \in Endpoints, EndpointStep(p)
  PROVE  Apart(p)
<1>1. StreamTypes /\ FrameTypes /\ StreamsOK /\ 1 \in Ids
  BY EndpointAssumption DEF SessionInv, Ids
<1>2. CASE Sending(p)
  BY <1>1, <1>2, SteadySteps DEF Sending, Steady, Apart
<1>3. CASE on_frame(p)
  BY <1>1, <1>3, OnFrameKeeps DEF Steady, Apart, StreamStep, Opens, Enters, OneStream
<1>4. CASE poll_new_outbound(p)
  BY <1>1, <1>4, PollNewOutboundKeeps DEF Enters, OneStream
<1>5. CASE \E id \in Ids : HandleAction(p, id) \/ on_drop_stream(p, id)
  BY <1>1, <1>5, HandleActionKeeps, OnDropStreamKeeps DEF StreamStep, OneStream
<1>6. CASE Ending(p)
  BY <1>1, <1>6, ActiveEnds, ConnectionCloseKeeps, ShutdownMoveKeeps
     DEF Ending, ShutdownMove, WholeStep
<1> QED
  BY <1>1, <1>2, <1>3, <1>4, <1>5, <1>6, EndpointActions

\* A connection that ends by an error, by the remote or by being dropped while
\* active closes every stream in that step and leaves nobody asleep on one,
\* then or later, for any number of streams (drop_all_streams).
THEOREM CleanupTellsAll == Spec => CleanupWakesAll
<1>1. ASSUME SessionInv, SessionInv', [SessionNext]_allVars, NEW p \in Endpoints,
             conn[p] = "Active" \/ AllTold(p), conn'[p] \notin {"Active"} \cup ClosingStates
      PROVE  AllTold(p)'
  <2>0. p \in Peers /\ StreamTypes /\ StreamTypes'
    BY <1>1, EndpointsArePeers DEF SessionInv
  <2>1. SUFFICES ASSUME NEW id \in Ids PROVE shared'[p][id].state \in {"None", "Closed"}
    <3>1. ASSUME NEW id \in Ids, shared'[p][id].state = "Closed"
          PROVE  ~shared'[p][id].reader /\ (handle'[p][id].closes = 0 => ~shared'[p][id].writer)
      <4>1. PICK c, t, r, s, h : /\ c = conn'[p] /\ t = (id \in entry'[p]) /\ r = rx'[p][id]
                                 /\ s = shared'[p][id] /\ h = handle'[p][id]
        OBVIOUS
      <4>2. StreamOK(c, t, r, s, h) /\ c # "Active" /\ s.state = "Closed"
        BY <1>1, <3>1, <4>1 DEF SessionInv, StreamsOK
      <4> QED
        BY <4>1, <4>2, ClosedIsTold
    <3> QED
      BY <2>1, <3>1 DEF AllTold
  <2>2. shared'[p][id] \in SharedSet
    BY <2>0 DEF StreamTypes
  <2>3. conn'[p] \in {"Closed"} \cup CleanupStates
    BY <1>1, <2>0 DEF StreamTypes, ConnStates
  <2>4. CASE conn'[p] \in CleanupStates
    <3>1. StreamOK(conn'[p], id \in entry'[p], rx'[p][id], shared'[p][id], handle'[p][id])
      BY <1>1 DEF SessionInv, StreamsOK
    <3> QED
      BY <2>4, <3>1 DEF StreamOK, Told
  <2>5. CASE conn'[p] = "Closed" /\ EndpointStep(p)
    <3>1. CASE conn[p] = "Active"
      BY <1>1, <2>5, <3>1, ActiveToClosed, DropCloses
    <3>2. CASE conn[p] # "Active"
      <4>1. shared[p][id].state \in {"None", "Closed"}
        BY <1>1, <3>2 DEF AllTold
      <4> QED
        BY <1>1, <2>2, <2>5, <3>2, <4>1, ClosedIsLast
    <3> QED
      BY <3>1, <3>2
  <2>6. CASE conn'[p] = conn[p] /\ shared'[p] = shared[p] /\ conn'[p] = "Closed"
    BY <1>1, <2>6 DEF AllTold
  <2>7. EndpointStep(p) \/ (conn'[p] = conn[p] /\ shared'[p] = shared[p])
    <3>1. ASSUME NEW q \in Endpoints, EndpointStep(q), q # p
          PROVE  conn'[p] = conn[p] /\ shared'[p] = shared[p]
      BY <1>1, <2>0, <3>1, EndpointApart DEF Apart
    <3> QED
      BY <1>1, <3>1, ForeignSteady
         DEF SessionNext, Steady, allVars, vars, connVars, tableVars
  <2> QED
    BY <2>3, <2>4, <2>5, <2>6, <2>7
<1>2. SessionInv /\ SessionInv' /\ [SessionNext]_allVars =>
        [\A p \in Endpoints :
           /\ conn[p] = "Active" \/ AllTold(p)
           /\ conn'[p] \notin {"Active"} \cup ClosingStates
           => AllTold(p)']_allVars
  BY <1>1
<1> QED
  BY <1>2, SessionSafe, PTL DEF Spec, CleanupWakesAll

\* Whatever the remote sends, a stream buffers no more than the window it was
\* granted, for every window size (on_data, consume_receive_window).
THEOREM BuffersBounded == Spec => []BufferBounded
<1>1. SessionInv => BufferBounded
  <2> SUFFICES ASSUME SessionInv, NEW p \in Endpoints, NEW id \in Ids
               PROVE  /\ shared[p][id].buf <= shared[p][id].fc.max_receive_window
                      /\ shared[p][id].buf + shared[p][id].fc.receive_window
                           <= shared[p][id].fc.max_receive_window
    BY DEF BufferBounded
  <2>1. PICK s \in SharedSet : s = shared[p][id] /\ Bounded(s)
    BY OneEnd DEF StreamOK
  <2>2. /\ s.buf \in Nat /\ s.fc.receive_window \in Nat
        /\ s.fc.max_receive_window \in DEFAULT_CREDIT .. U32_MAX
        /\ s.buf + s.fc.receive_window <= s.fc.max_receive_window
    BY <2>1, FlowAssumption DEF SharedSet, Bounded
  <2> QED
    BY <2>1, <2>2, FlowAssumption
<1> QED
  BY <1>1, SessionSafe, PTL

\* Neither max_num_streams nor the acknowledgement backlog is ever exceeded,
\* for any limits and any number of streams (poll_new_outbound, on_data).
THEOREM LimitsHold == Spec => []StreamLimits
<1>1. SessionInv => StreamLimits
  BY DEF SessionInv
<1> QED
  BY <1>1, SessionSafe, PTL
============================================================================
