------------------------ MODULE CommandChannelProofs ------------------------
(* The command channel is safe for every buffer size and any number of      *)
(* commands.                                                                *)
(*                                                                          *)
(* None of the three invariants is inductive.  QueueBounded rests on        *)
(* CountBounded, which gives each message beyond the buffer a parked sender *)
(* of its own, and on ParkedOnce, which leaves at most two of them.         *)
(* SleeperHasWaker needs that the two halves never share a sender.          *)
(* ClosingTakesAccepted needs that messages leave in the order they came,   *)
(* NothingLost, up to the moment the go-away frame is queued and beyond.    *)
EXTENDS CommandChannel, SequenceTheorems, TLAPS

Messages == Halves \X Nat

ConnStages ==
  {"Active", "Draining", "CleanupDraining", "Flushing", "Dropping", "Gone"}

TypeOK ==
  /\ open \in BOOLEAN /\ count \in Nat
  /\ queue \in Seq(Messages) /\ parked \in Seq(Senders)
  /\ waker \in [Senders -> Halves \cup {"none"}]
  /\ task \in [Halves -> {"idle", "count", "queue", "asleep", "done"}]
  /\ left \in [Halves -> Nat]
  /\ conn \in ConnStages
  /\ taken \in Seq(Messages) /\ accepted \in Seq(Messages) /\ cut \in Nat

\* The two halves exclude each other inside a poll (&mut self), and one that
\* sends has something to send.
OnePolled ==
  \A h \in Halves : task[h] \in {"count", "queue"} =>
    /\ left[h] > 0
    /\ \A g \in Halves \ {h} : task[g] \notin {"count", "queue"}

Queueing == \E h \in Halves : task[h] = "queue"

\* A message is counted exactly while it is queued or about to be.
CountExact == count = Len(queue) + (IF Queueing THEN 1 ELSE 0)

\* A sender is parked once at most, and none is once the receiver is closed.
ParkedOnce ==
  /\ \A i, j \in 1 .. Len(parked) : parked[i] = parked[j] => i = j
  /\ ~open => parked = <<>>
  /\ open => \A h \in Halves : task[h] = "count" => ~Parked(h)

\* Every message beyond the buffer has a parked sender.
CountBounded ==
  /\ open => count <= Buffer + Len(parked)
  /\ count <= Buffer + 2

\* What was accepted was taken or waits, in the order it was accepted, up to
\* the point where the receiver is given up.
NothingLost ==
  /\ conn \in {"Active", "Draining", "Flushing"} => accepted = taken \o queue
  /\ conn \in {"Draining", "Flushing"} => cut <= Len(accepted)
  /\ conn = "Flushing" => cut <= Len(taken)

ChannelInv ==
  /\ TypeOK /\ OnePolled /\ CountExact /\ ParkedOnce /\ SleeperHasWaker
  /\ CountBounded /\ NothingLost

----------------------------------------------------------------------------
(* The parked senders                                                       *)

\* Parking adds a sender, releasing takes the first away (external channel).
LEMMA ParkOne ==
  ASSUME NEW s \in Seq(Senders), NEW x \in Senders
  PROVE  ToSet(Append(s, x)) = ToSet(s) \cup {x}
<1>1. /\ Append(s, x) \in Seq(Senders) /\ Len(Append(s, x)) = Len(s) + 1
      /\ \A i \in 1 .. Len(s) : Append(s, x)[i] = s[i]
      /\ Append(s, x)[Len(s) + 1] = x
  BY AppendProperties
<1>2. DOMAIN s = 1 .. Len(s) /\ DOMAIN Append(s, x) = 1 .. Len(s) + 1
      /\ Len(s) \in Nat
  BY <1>1, LenProperties
<1> QED
  BY <1>1, <1>2 DEF ToSet

\* The first of a queue of senders, and the rest.
LEMMA ReleaseFirst ==
  ASSUME NEW s \in Seq(Senders), s # <<>>
  PROVE  /\ Head(s) \in Senders /\ Tail(s) \in Seq(Senders)
         /\ Len(Tail(s)) = Len(s) - 1 /\ Len(s) \in Nat \ {0}
         /\ Head(s) = s[1] /\ \A i \in 1 .. Len(s) - 1 : Tail(s)[i] = s[i + 1]
         /\ ToSet(s) = {Head(s)} \cup ToSet(Tail(s))
<1>1. /\ Head(s) \in Senders /\ Tail(s) \in Seq(Senders)
      /\ Len(Tail(s)) = Len(s) - 1
      /\ \A i \in 1 .. Len(Tail(s)) : Tail(s)[i] = s[i + 1]
  BY HeadTailProperties
<1>2. Len(s) \in Nat \ {0} /\ DOMAIN s = 1 .. Len(s)
      /\ DOMAIN Tail(s) = 1 .. Len(s) - 1
  BY <1>1, EmptySeq, LenProperties
<1>3. Head(s) = s[1]
  OBVIOUS
<1>4. ToSet(s) \subseteq {Head(s)} \cup ToSet(Tail(s))
  <2> SUFFICES ASSUME NEW i \in 1 .. Len(s), i # 1 PROVE s[i] \in ToSet(Tail(s))
    BY <1>2, <1>3 DEF ToSet
  <2>1. i - 1 \in 1 .. Len(s) - 1 /\ Tail(s)[i - 1] = s[i]
    BY <1>1, <1>2
  <2> QED
    BY <2>1, <1>2 DEF ToSet
<1>5. {Head(s)} \cup ToSet(Tail(s)) \subseteq ToSet(s)
  BY <1>1, <1>2, <1>3 DEF ToSet
<1> QED
  BY <1>1, <1>2, <1>3, <1>4, <1>5

\* There are two senders, so no more than two are parked.
LEMMA TwoParked == TypeOK /\ ParkedOnce => Len(parked) \in Nat /\ Len(parked) <= 2
<1> SUFFICES ASSUME TypeOK, ParkedOnce, Len(parked) \in Nat, Len(parked) > 2
             PROVE  FALSE
  BY LenProperties DEF TypeOK
<1>1. parked[1] \in Senders /\ parked[2] \in Senders /\ parked[3] \in Senders
  BY ElementOfSeq DEF TypeOK
<1>2. parked[1] # parked[2] /\ parked[2] # parked[3] /\ parked[1] # parked[3]
  BY DEF ParkedOnce
<1> QED
  BY <1>1, <1>2 DEF Senders

\* Each half has a sender of its own.
LEMMA OwnSender ==
  /\ \A h \in Halves : SenderOf(h) \in Senders
  /\ \A g, h \in Halves : SenderOf(g) = SenderOf(h) => g = h
BY DEF SenderOf, Senders, Halves

----------------------------------------------------------------------------
(* The invariant is inductive                                               *)

\* An empty channel is in order.
LEMMA InitChannel == Init => ChannelInv
<1> SUFFICES ASSUME Init PROVE ChannelInv
  OBVIOUS
<1> USE ChannelAssumption DEF Init
<1>1. TypeOK
  <2>1. queue \in Seq(Messages) /\ parked \in Seq(Senders)
        /\ taken \in Seq(Messages) /\ accepted \in Seq(Messages)
    BY EmptySeq
  <2>2. MaxCommands * 2 \in Nat
    OBVIOUS
  <2> QED
    BY <2>1, <2>2 DEF TypeOK, ConnStages
<1>2. OnePolled /\ SleeperHasWaker
  BY DEF OnePolled, SleeperHasWaker
<1>3. CountExact /\ CountBounded
  BY EmptySeq DEF CountExact, Queueing, CountBounded
<1>4. ParkedOnce
  BY EmptySeq DEF ParkedOnce
<1>5. NothingLost
  BY <1>1, ConcatEmptySeq DEF TypeOK, NothingLost
<1> QED
  BY <1>1, <1>2, <1>3, <1>4, <1>5 DEF ChannelInv

\* A poll that sends nothing: the half gives up, goes on to send or sleeps.
LEMMA PollSteps ==
  ASSUME ChannelInv, NEW h \in Halves, PollClosed(h) \/ PollReady(h) \/ PollPending(h)
  PROVE  ChannelInv'
<1> USE DEF ChannelInv
<1>0. /\ MayPoll(h) /\ UNCHANGED <<open, count, queue, parked, left, accepted, connVars>>
      /\ UNCHANGED <<conn, pending, taken, cut>>
  BY DEF PollClosed, PollReady, PollPending, chanVars, connVars
<1>1. TypeOK'
  BY <1>0, OwnSender DEF TypeOK, PollClosed, PollReady, PollPending, chanVars
<1>2. OnePolled'
  BY <1>0 DEF TypeOK, OnePolled, PollClosed, PollReady, PollPending, MayPoll
<1>3. CountExact' /\ CountBounded'
  <2>1. Queueing' <=> Queueing
    BY <1>0 DEF TypeOK, Queueing, PollClosed, PollReady, PollPending, MayPoll
  <2> QED
    BY <2>1, <1>0 DEF CountExact, CountBounded
<1>4. ParkedOnce'
  <2>1. \A g \in Halves : Parked(g)' <=> Parked(g)
    BY <1>0 DEF Parked
  <2>2. ASSUME open, NEW g \in Halves, task'[g] = "count" PROVE ~Parked(g)
    BY <2>2, <1>0 DEF ParkedOnce, TypeOK, PollClosed, PollReady, PollPending
  <2> QED
    BY <1>0, <2>1, <2>2 DEF ParkedOnce
<1>5. SleeperHasWaker'
  <2> SUFFICES ASSUME NEW g \in Halves, task'[g] = "asleep"
               PROVE  Parked(g) /\ waker'[SenderOf(g)] = g /\ open
    BY <1>0 DEF SleeperHasWaker, Parked
  <2>1. CASE g = h
    BY <2>1, <1>0, OwnSender DEF TypeOK, PollClosed, PollReady, PollPending, MayPoll
  <2>2. CASE g # h
    <3>1. task[g] = "asleep"
      BY <2>2 DEF TypeOK, PollClosed, PollReady, PollPending
    <3>2. Parked(g) /\ waker[SenderOf(g)] = g /\ open
      BY <3>1 DEF SleeperHasWaker
    <3>3. waker'[SenderOf(g)] = waker[SenderOf(g)]
      BY <2>2, OwnSender DEF TypeOK, PollClosed, PollReady, PollPending, chanVars
    <3> QED
      BY <3>2, <3>3
  <2> QED
    BY <2>1, <2>2
<1>6. NothingLost'
  BY <1>0 DEF NothingLost
<1> QED
  BY <1>1, <1>2, <1>3, <1>4, <1>5, <1>6

\* Counting a message: a sender that exceeds the buffer was not parked before,
\* and its half is not asleep, so no waker is lost.
LEMMA CountStep ==
  ASSUME ChannelInv, NEW h \in Halves, SendCounts(h)
  PROVE  ChannelInv'
<1> USE DEF ChannelInv
<1>0. task[h] = "count" /\ UNCHANGED <<open, queue, left, accepted, conn, taken, cut>>
  BY DEF SendCounts, connVars
<1>1. CASE ~open
  <2>1. /\ task' = [task EXCEPT ![h] = "done"]
        /\ UNCHANGED <<count, parked, waker>>
    BY <1>1 DEF SendCounts
  <2>2. TypeOK' /\ OnePolled'
    BY <2>1, <1>0 DEF TypeOK, OnePolled
  <2>3. CountExact' /\ CountBounded'
    BY <2>1, <1>0 DEF TypeOK, CountExact, CountBounded, Queueing
  <2>4. ParkedOnce' /\ SleeperHasWaker'
    BY <2>1, <1>0, <1>1 DEF TypeOK, ParkedOnce, SleeperHasWaker, Parked
  <2>5. NothingLost'
    BY <1>0 DEF NothingLost
  <2> QED
    BY <2>2, <2>3, <2>4, <2>5
<1>2. CASE open
  <2> DEFINE over == count + 1 > Buffer
  <2>1. /\ count' = count + 1
        /\ parked' = IF over THEN Append(parked, SenderOf(h)) ELSE parked
        /\ waker' = [waker EXCEPT ![SenderOf(h)] = IF over THEN "none" ELSE @]
        /\ task' = [task EXCEPT ![h] = "queue"]
    BY <1>2 DEF SendCounts
  <2> HIDE DEF over
  <2>2. ~Parked(h) /\ SenderOf(h) \in Senders
    BY <1>0, <1>2, OwnSender DEF ParkedOnce
  <2>3. /\ Append(parked, SenderOf(h)) \in Seq(Senders)
        /\ Len(Append(parked, SenderOf(h))) = Len(parked) + 1
        /\ \A i \in 1 .. Len(parked) : Append(parked, SenderOf(h))[i] = parked[i]
        /\ Append(parked, SenderOf(h))[Len(parked) + 1] = SenderOf(h)
        /\ ToSet(Append(parked, SenderOf(h))) = ToSet(parked) \cup {SenderOf(h)}
        /\ Len(parked) \in Nat /\ DOMAIN parked = 1 .. Len(parked)
    BY <2>2, AppendProperties, LenProperties, ParkOne DEF TypeOK
  <2>4. TypeOK'
    BY <2>1, <2>2, <2>3, <1>0 DEF TypeOK
  <2>5. OnePolled'
    BY <2>1, <1>0 DEF TypeOK, OnePolled
  <2>6. CountExact'
    <3>1. Queueing' /\ ~Queueing
      BY <2>1, <1>0 DEF TypeOK, Queueing, OnePolled
    <3>2. Len(queue) \in Nat
      BY LenProperties DEF TypeOK
    <3> QED
      BY <2>1, <3>1, <3>2, <1>0 DEF CountExact
  <2>7. ParkedOnce'
    <3>1. ASSUME NEW i \in 1 .. Len(parked'), NEW j \in 1 .. Len(parked'),
                 parked'[i] = parked'[j]
          PROVE  i = j
      <4>1. \A k \in 1 .. Len(parked) : parked[k] # SenderOf(h)
        BY <2>2, <2>3 DEF Parked, ToSet
      <4> QED
        BY <2>1, <2>3, <3>1, <4>1 DEF ParkedOnce
    <3>2. \A g \in Halves : task'[g] # "count"
      BY <2>1, <1>0 DEF TypeOK, OnePolled
    <3> QED
      BY <1>0, <1>2, <3>1, <3>2 DEF ParkedOnce
  <2>8. SleeperHasWaker'
    <3> SUFFICES ASSUME NEW g \in Halves, task'[g] = "asleep"
                 PROVE  SenderOf(g) \in ToSet(parked') /\ waker'[SenderOf(g)] = g /\ open'
      BY DEF SleeperHasWaker, Parked
    <3>1. g # h /\ task[g] = "asleep"
      BY <2>1, <1>0 DEF TypeOK
    <3>2. Parked(g) /\ waker[SenderOf(g)] = g
      BY <3>1 DEF SleeperHasWaker
    <3>3. SenderOf(g) # SenderOf(h) /\ SenderOf(g) \in Senders
      BY <3>1, OwnSender
    <3> QED
      BY <2>1, <2>3, <3>2, <3>3, <1>0, <1>2 DEF Parked, TypeOK
  <2>9. CountBounded'
    <3>1. open' => count' <= Buffer + Len(parked')
      BY <1>2, <2>1, <2>3, ChannelAssumption DEF over, CountBounded, TypeOK
    <3>2. Len(parked') \in Nat /\ Len(parked') <= 2
      <4>1. (TypeOK /\ ParkedOnce => Len(parked) \in Nat /\ Len(parked) <= 2)'
        BY TwoParked, PTL
      <4> QED
        BY <4>1, <2>4, <2>7
    <3> QED
      BY <3>1, <3>2, <1>0, <1>2, <2>1, ChannelAssumption DEF CountBounded, TypeOK
  <2>10. NothingLost'
    BY <1>0 DEF NothingLost
  <2> QED
    BY <2>4, <2>5, <2>6, <2>7, <2>8, <2>9, <2>10
<1> QED
  BY <1>1, <1>2

\* Queueing it: the message was counted already, and goes to the end of what
\* was accepted and of what waits.
LEMMA QueueStep ==
  ASSUME ChannelInv, NEW h \in Halves, SendQueues(h)
  PROVE  ChannelInv'
<1> USE DEF ChannelInv
<1> DEFINE msg == <<h, left[h]>>
<1>0. /\ task[h] = "queue" /\ left[h] \in Nat /\ left[h] > 0 /\ msg \in Messages
      /\ queue' = Append(queue, msg) /\ accepted' = Append(accepted, msg)
      /\ left' = [left EXCEPT ![h] = @ - 1]
      /\ task' = [task EXCEPT ![h] = IF left[h] = 1 THEN "done" ELSE "idle"]
      /\ UNCHANGED <<open, count, parked, waker, conn, taken, cut>>
  BY DEF SendQueues, OnePolled, TypeOK, Messages, connVars
<1> HIDE DEF msg
<1>1. /\ queue' \in Seq(Messages) /\ accepted' \in Seq(Messages)
      /\ Len(queue') = Len(queue) + 1 /\ Len(accepted') = Len(accepted) + 1
      /\ Len(queue) \in Nat /\ Len(accepted) \in Nat /\ Len(taken) \in Nat
  BY <1>0, AppendProperties, LenProperties DEF TypeOK
<1>2. TypeOK'
  BY <1>0, <1>1 DEF TypeOK
<1>3. OnePolled'
  BY <1>0 DEF TypeOK, OnePolled
<1>4. CountExact' /\ CountBounded'
  <2>1. Queueing /\ ~Queueing'
    BY <1>0 DEF TypeOK, OnePolled, Queueing
  <2> QED
    BY <1>0, <1>1, <2>1 DEF CountExact, CountBounded, TypeOK
<1>5. ParkedOnce' /\ SleeperHasWaker'
  BY <1>0 DEF TypeOK, ParkedOnce, SleeperHasWaker, Parked
<1>6. NothingLost'
  <2>1. accepted = taken \o queue => accepted' = taken \o queue'
    <3> SUFFICES ASSUME accepted = taken \o queue
                 PROVE  Append(taken \o queue, msg) = taken \o Append(queue, msg)
      BY <1>0
    <3>1. taken \o queue \in Seq(Messages) /\ <<msg>> \in Seq(Messages)
      BY <1>0 DEF TypeOK
    <3>2. Append(taken \o queue, msg) = (taken \o queue) \o <<msg>>
      BY <3>1, <1>0, AppendIsConcat
    <3>3. taken \o Append(queue, msg) = taken \o (queue \o <<msg>>)
      BY <1>0, AppendIsConcat DEF TypeOK
    <3> QED
      BY <3>1, <3>2, <3>3, ConcatAssociative DEF TypeOK
  <2>2. cut \in Nat /\ (cut <= Len(accepted) => cut <= Len(accepted'))
    BY <1>1 DEF TypeOK
  <2>3. conn' = conn /\ taken' = taken /\ cut' = cut
    BY <1>0
  <2> QED
    BY <2>1, <2>2, <2>3 DEF NothingLost
<1> QED
  BY <1>2, <1>3, <1>4, <1>5, <1>6

\* Taking a message, by whoever takes it: the sender that parked first is
\* released and its half woken, so a sender is still parked for each message
\* beyond the buffer and for each half that sleeps.
LEMMA PopStep ==
  ASSUME ChannelInv, Pop, UNCHANGED cut, conn' \in ConnStages, taken' \in Seq(Messages)
  PROVE  /\ TypeOK' /\ OnePolled' /\ CountExact' /\ ParkedOnce' /\ SleeperHasWaker'
         /\ CountBounded'
<1> USE DEF ChannelInv
<1> DEFINE first == IF parked = <<>> THEN {} ELSE {Head(parked)}
<1>0. /\ queue # <<>> /\ queue' = Tail(queue) /\ count' = count - 1
      /\ parked' = IF parked = <<>> THEN parked ELSE Tail(parked)
      /\ waker' = [s \in Senders |-> IF s \in first THEN "none" ELSE waker[s]]
      /\ Wakes(first) /\ UNCHANGED <<open, left, accepted>>
  BY DEF Pop
<1>1. /\ task' = [h \in Halves |->
                    IF task[h] = "asleep" /\ \E s \in first : waker[s] = h
                    THEN "idle" ELSE task[h]]
      /\ first \subseteq ToSet(parked)
  BY <1>0, ReleaseFirst DEF Wakes, TypeOK
<1>2. /\ queue' \in Seq(Messages) /\ Len(queue') = Len(queue) - 1
      /\ Len(queue) \in Nat \ {0}
  BY <1>0, HeadTailProperties, EmptySeq DEF TypeOK
<1>3. /\ parked' \in Seq(Senders) /\ Len(parked) \in Nat
      /\ ToSet(parked) \subseteq first \cup ToSet(parked')
      /\ ToSet(parked') \subseteq ToSet(parked)
      /\ parked # <<>> => /\ Len(parked') = Len(parked) - 1 /\ Len(parked) > 0
                          /\ \A i \in 1 .. Len(parked) - 1 : parked'[i] = parked[i + 1]
      /\ parked = <<>> => parked' = <<>> /\ Len(parked) = 0
  <2>1. Len(parked) \in Nat /\ (parked = <<>> => Len(parked) = 0)
    BY LenProperties, EmptySeq DEF TypeOK
  <2>2. CASE parked = <<>>
    BY <1>0, <2>1, <2>2 DEF TypeOK, ToSet
  <2>3. CASE parked # <<>>
    BY <1>0, <2>1, <2>3, ReleaseFirst DEF TypeOK
  <2> QED
    BY <2>2, <2>3
<1>4. Queueing' <=> Queueing
  BY <1>1 DEF Queueing
<1>5. count \in Nat /\ count > 0 /\ count' \in Nat /\ count' = count - 1
  <2>1. count' = count - 1
    BY <1>0
  <2>2. count \in Nat /\ count = Len(queue) + (IF Queueing THEN 1 ELSE 0)
    BY DEF CountExact, TypeOK
  <2> QED
    BY <2>1, <2>2, <1>2
<1>6. TypeOK'
  <2>1. waker' \in [Senders -> Halves \cup {"none"}]
    BY <1>0 DEF TypeOK
  <2>2. task' \in [Halves -> {"idle", "count", "queue", "asleep", "done"}]
    BY <1>1 DEF TypeOK
  <2> QED
    BY <1>0, <1>2, <1>3, <1>5, <2>1, <2>2 DEF TypeOK
<1>7. OnePolled'
  BY <1>0, <1>1 DEF TypeOK, OnePolled
<1>8. CountExact'
  <2>1. count = Len(queue) + (IF Queueing THEN 1 ELSE 0)
    BY DEF CountExact
  <2>2. count' = Len(queue') + (IF Queueing' THEN 1 ELSE 0)
    BY <2>1, <1>2, <1>4, <1>5
  <2> QED
    BY <2>2 DEF CountExact
<1>9. ParkedOnce'
  <2>1. ASSUME NEW i \in 1 .. Len(parked'), NEW j \in 1 .. Len(parked'),
               parked'[i] = parked'[j]
        PROVE  i = j
    BY <1>3, <2>1 DEF ParkedOnce
  <2>2. ~open' => parked' = <<>>
    BY <1>0, <1>3 DEF ParkedOnce
  <2>3. ASSUME open', NEW h \in Halves, task'[h] = "count" PROVE ~Parked(h)'
    <3>1. ~Parked(h)
      BY <1>0, <1>1, <2>3 DEF ParkedOnce
    <3> QED
      BY <3>1, <1>3 DEF Parked
  <2> QED
    BY <2>1, <2>2, <2>3 DEF ParkedOnce
<1>10. SleeperHasWaker'
  <2> SUFFICES ASSUME NEW h \in Halves, task'[h] = "asleep"
               PROVE  SenderOf(h) \in ToSet(parked') /\ waker'[SenderOf(h)] = h /\ open'
    BY DEF SleeperHasWaker, Parked
  <2>1. task[h] = "asleep" /\ \A s \in first : waker[s] # h
    BY <1>1
  <2>2. SenderOf(h) \in ToSet(parked) /\ waker[SenderOf(h)] = h /\ open
    BY <2>1 DEF SleeperHasWaker, Parked
  <2>3. SenderOf(h) \notin first /\ SenderOf(h) \in Senders
    BY <2>1, <2>2, OwnSender
  <2> HIDE DEF first
  <2> QED
    BY <1>0, <1>3, <2>2, <2>3
<1>11. CountBounded'
  BY <1>0, <1>3, <1>5, ChannelAssumption DEF CountBounded, TypeOK
<1> QED
  BY <1>6, <1>7, <1>8, <1>9, <1>10, <1>11

\* The oldest message moves from the queue to what was taken.
LEMMA TakeFirst ==
  ASSUME TypeOK, queue # <<>>, accepted = taken \o queue
  PROVE  /\ Append(taken, Head(queue)) \in Seq(Messages)
         /\ Len(Append(taken, Head(queue))) = Len(taken) + 1
         /\ accepted = Append(taken, Head(queue)) \o Tail(queue)
<1>1. /\ Head(queue) \in Messages /\ Tail(queue) \in Seq(Messages)
      /\ <<Head(queue)>> \in Seq(Messages)
  BY HeadTailProperties DEF TypeOK
<1>2. queue = <<Head(queue)>> \o Tail(queue)
  <2>1. queue \in Seq(Messages) /\ Len(queue) \in Nat \ {0} /\ Head(queue) = queue[1]
    BY EmptySeq DEF TypeOK
  <2>2. SubSeq(queue, 1, Len(queue)) = <<queue[1]>> \o SubSeq(queue, 1 + 1, Len(queue))
    BY <2>1, SubSeqRecursiveFirst
  <2>3. SubSeq(queue, 1, Len(queue)) = queue /\ Tail(queue) = SubSeq(queue, 2, Len(queue))
    BY <2>1, SubSeqFull, TailIsSubSeq
  <2> QED
    BY <2>1, <2>2, <2>3
<1>3. Append(taken, Head(queue)) = taken \o <<Head(queue)>>
  BY <1>1, AppendIsConcat DEF TypeOK
<1>4. (taken \o <<Head(queue)>>) \o Tail(queue) = taken \o (<<Head(queue)>> \o Tail(queue))
  BY <1>1, ConcatAssociative DEF TypeOK
<1> QED
  BY <1>1, <1>2, <1>3, <1>4, AppendProperties DEF TypeOK

\* The connection sends the pending frame, or goes on to its next stage.
LEMMA StageStep ==
  ASSUME ChannelInv, SendPending \/ DrainDone \/ StartDropping \/ Dropped
  PROVE  ChannelInv'
<1> USE DEF ChannelInv
<1>0. /\ UNCHANGED <<chanVars, taskVars, taken, cut>>
      /\ UNCHANGED <<open, count, queue, parked, waker, task, left, accepted>>
      /\ conn' \in ConnStages
  BY DEF SendPending, DrainDone, StartDropping, Dropped, chanVars, taskVars,
         TypeOK, ConnStages
<1>1. TypeOK' /\ OnePolled'
  BY <1>0 DEF TypeOK, OnePolled
<1>2. CountExact' /\ CountBounded'
  BY <1>0 DEF CountExact, Queueing, CountBounded
<1>3. ParkedOnce' /\ SleeperHasWaker'
  BY <1>0 DEF ParkedOnce, SleeperHasWaker, Parked
<1>4. NothingLost'
  <2>1. CASE conn' = conn
    BY <2>1, <1>0 DEF NothingLost
  <2>2. CASE DrainDone
    <3>1. accepted = taken \o queue /\ cut <= Len(accepted) /\ queue = <<>>
      BY <2>2 DEF NothingLost, DrainDone
    <3>2. accepted = taken
      BY <3>1, ConcatEmptySeq DEF TypeOK
    <3> QED
      BY <3>1, <3>2, <1>0, <2>2 DEF NothingLost, DrainDone
  <2>3. CASE StartDropping \/ Dropped
    BY <2>3, <1>0 DEF NothingLost, StartDropping, Dropped
  <2> QED
    BY <2>1, <2>2, <2>3 DEF SendPending
<1> QED
  BY <1>1, <1>2, <1>3, <1>4

\* A command is taken to be sent, drained behind the pending frames, or
\* discarded; only the last breaks with what was accepted.
LEMMA TakeStep ==
  ASSUME ChannelInv, TakeCommand \/ DrainCommand \/ Discard
  PROVE  ChannelInv'
<1> USE DEF ChannelInv
<1>0. Pop /\ cut' = cut /\ conn' = conn
  BY DEF TakeCommand, DrainCommand, Discard, connVars
<1>1. queue # <<>> /\ queue' = Tail(queue) /\ accepted' = accepted
  BY <1>0 DEF Pop
<1>2. CASE TakeCommand \/ DrainCommand
  <2>1. /\ taken' = Append(taken, Head(queue)) /\ accepted = taken \o queue
        /\ conn \in {"Active", "Draining"}
    BY <1>2 DEF TakeCommand, DrainCommand, NothingLost
  <2>2. taken' \in Seq(Messages) /\ accepted = taken' \o queue'
    BY <1>1, <2>1, TakeFirst
  <2>3. NothingLost'
    BY <1>0, <1>1, <2>1, <2>2 DEF NothingLost
  <2>4. conn' \in ConnStages
    BY <1>0 DEF TypeOK
  <2> QED
    BY <1>0, <2>2, <2>3, <2>4, PopStep
<1>3. CASE Discard
  <2>1. taken' = taken /\ conn \in {"CleanupDraining", "Dropping"}
    BY <1>3 DEF Discard, connVars
  <2>2. NothingLost'
    BY <1>0, <2>1 DEF NothingLost
  <2>3. conn' \in ConnStages /\ taken' \in Seq(Messages)
    BY <1>0, <2>1 DEF TypeOK
  <2> QED
    BY <1>0, <2>2, <2>3, PopStep
<1> QED
  BY <1>2, <1>3

\* The receiver is closed: every sender is released, so every half that sleeps
\* is woken.
LEMMA CloseStep ==
  ASSUME ChannelInv, StartClosing
  PROVE  ChannelInv'
<1> USE DEF ChannelInv
<1>0. /\ conn = "Active" /\ conn' \in {"Draining", "CleanupDraining"}
      /\ open' = FALSE /\ parked' = <<>>
      /\ waker' = [s \in Senders |-> IF s \in ToSet(parked) THEN "none" ELSE waker[s]]
      /\ task' = [h \in Halves |->
                    IF task[h] = "asleep" /\ \E s \in ToSet(parked) : waker[s] = h
                    THEN "idle" ELSE task[h]]
      /\ cut' = Len(accepted) /\ UNCHANGED <<count, queue, left, accepted, taken>>
  BY DEF StartClosing, CloseReceiver, Wakes
<1>1. TypeOK'
  <2>1. waker' \in [Senders -> Halves \cup {"none"}]
    BY <1>0 DEF TypeOK
  <2>2. task' \in [Halves -> {"idle", "count", "queue", "asleep", "done"}]
    BY <1>0 DEF TypeOK
  <2>3. Len(accepted) \in Nat /\ <<>> \in Seq(Senders)
    BY LenProperties, EmptySeq DEF TypeOK
  <2> QED
    BY <1>0, <2>1, <2>2, <2>3 DEF TypeOK, ConnStages
<1>2. OnePolled'
  BY <1>0 DEF TypeOK, OnePolled
<1>3. CountExact' /\ CountBounded'
  <2>1. Queueing' <=> Queueing
    BY <1>0 DEF Queueing
  <2> QED
    BY <1>0, <2>1 DEF CountExact, CountBounded
<1>4. ParkedOnce'
  BY <1>0, EmptySeq DEF ParkedOnce
<1>5. SleeperHasWaker'
  <2> SUFFICES ASSUME NEW h \in Halves, task'[h] = "asleep" PROVE FALSE
    BY DEF SleeperHasWaker
  <2>1. task[h] = "asleep" /\ \A s \in ToSet(parked) : waker[s] # h
    BY <1>0
  <2>2. SenderOf(h) \in ToSet(parked) /\ waker[SenderOf(h)] = h
    BY <2>1 DEF SleeperHasWaker, Parked
  <2> QED
    BY <2>1, <2>2
<1>6. NothingLost'
  <2>1. accepted = taken \o queue /\ Len(accepted) \in Nat
    BY <1>0, LenProperties DEF NothingLost, TypeOK
  <2> QED
    BY <1>0, <2>1 DEF NothingLost
<1> QED
  BY <1>1, <1>2, <1>3, <1>4, <1>5, <1>6

\* Every step of the halves and of the connection keeps the invariant.
LEMMA NextChannel == ChannelInv /\ [Next]_vars => ChannelInv'
<1> SUFFICES ASSUME ChannelInv, [Next]_vars PROVE ChannelInv'
  OBVIOUS
<1>1. ASSUME NEW h \in Halves, HalfStep(h) PROVE ChannelInv'
  BY <1>1, PollSteps, CountStep, QueueStep DEF HalfStep
<1>2. CASE ConnectionStep
  BY <1>2, TakeStep, StageStep DEF ConnectionStep
<1>3. CASE StartClosing
  BY <1>3, CloseStep
<1>4. CASE UNCHANGED vars
  <2>1. UNCHANGED <<open, count, queue, parked, waker, task, left, accepted, conn,
                    taken, cut>>
    BY <1>4 DEF vars, chanVars, taskVars, connVars
  <2>2. TypeOK' /\ OnePolled'
    BY <2>1 DEF ChannelInv, TypeOK, OnePolled
  <2>3. CountExact' /\ CountBounded'
    BY <2>1 DEF ChannelInv, CountExact, Queueing, CountBounded
  <2>4. ParkedOnce' /\ SleeperHasWaker'
    BY <2>1 DEF ChannelInv, ParkedOnce, SleeperHasWaker, Parked
  <2>5. NothingLost'
    BY <2>1 DEF ChannelInv, NothingLost
  <2> QED
    BY <2>2, <2>3, <2>4, <2>5 DEF ChannelInv
<1> QED
  BY <1>1, <1>2, <1>3, <1>4 DEF Next

----------------------------------------------------------------------------
(* The theorems                                                             *)

\* The invariant holds of every behaviour of the channel.
LEMMA ChannelSafe == Spec => []ChannelInv
BY InitChannel, NextChannel, PTL DEF Spec

\* A channel never holds more than its buffer and one message for each sender,
\* whatever the buffer and however many commands are sent: the memory a stream
\* can make its connection hold in commands is bounded (mpsc::channel(10)).
THEOREM QueueSafe == Spec => []QueueBounded
<1>1. ChannelInv => QueueBounded
  BY DEF ChannelInv, CountBounded, QueueBounded
<1> QED
  BY <1>1, ChannelSafe, PTL

\* No half of a stream sleeps on the channel without a waker that will be used,
\* also while the connection closes: the two senders of a Stream are enough.
THEOREM SleepersWake == Spec => []SleeperHasWaker
<1>1. ChannelInv => SleeperHasWaker
  BY DEF ChannelInv
<1> QED
  BY <1>1, ChannelSafe, PTL

\* What a stream had accepted before a graceful close is ahead of the go-away
\* frame, complete and in order (Closing::poll).
THEOREM ClosingComplete == Spec => []ClosingTakesAccepted
<1>1. ChannelInv => ClosingTakesAccepted
  <2> SUFFICES ASSUME ChannelInv, conn = "Flushing"
               PROVE  IsPrefix(SubSeq(accepted, 1, cut), taken)
    BY DEF ClosingTakesAccepted
  <2>1. /\ accepted = taken \o queue /\ cut <= Len(taken) /\ cut \in Nat
        /\ taken \in Seq(Messages) /\ queue \in Seq(Messages) /\ Len(taken) \in Nat
    BY LenProperties DEF ChannelInv, NothingLost, TypeOK
  <2> DEFINE before == SubSeq(accepted, 1, cut)
  <2>2. before = SubSeq(taken, 1, cut)
    <3>1. CASE cut = 0
      BY <3>1, SubSeqEmpty
    <3>2. CASE cut > 0
      BY <2>1, <3>2, SubSeqOfConcat1
    <3> QED
      BY <2>1, <3>1, <3>2
  <2>3. before \in Seq(Messages) /\ Len(before) = cut
    <3>1. \A i \in 1 .. cut : taken[i] \in Messages
      BY <2>1, ElementOfSeq
    <3> QED
      BY <2>1, <2>2, <3>1, SubSeqProperties
  <2> HIDE DEF before
  <2>4. SubSeq(before, 1, Len(before)) = before
    BY <2>3, SubSeqFull
  <2>5. IsPrefix(before, taken)
    BY <2>1, <2>2, <2>3, <2>4 DEF IsPrefix
  <2> QED
    BY <2>5 DEF before
<1> QED
  BY <1>1, ChannelSafe, PTL
============================================================================
