------------------------- MODULE SessionFlowProofs -------------------------
(* The credit of a stream between two endpoints that run this code: what p  *)
(* may still send, what it has sent and the other has not taken, and what   *)
(* the other has granted and p has not got, add up to the other's receive   *)
(* window (CreditIsConserved), for any number of streams, any windows,      *)
(* channel and socket.                                                      *)
(*                                                                          *)
(* The frames of one stream that are on their way from p form its Path:     *)
(* wire, pending frame, queue of Closing and channel, in the order in which *)
(* they will arrive.  The first part of the module is about selecting and   *)
(* summing up frames of a sequence; then, for each step, how the Path of    *)
(* either side and the windows move.                                        *)
(*                                                                          *)
(* CreditInv: the balance is exact where both sides hear each other (Even), *)
(* and never exceeded where one has closed, reset or lost the connection    *)
(* (Fair, in Sound).  A stream that only one side has yet counts as well:   *)
(* the other will open it with the default window when the SYN arrives.     *)
(* That needs the SYN to be ahead of all its frames (SynAhead), on streams  *)
(* of one's own only (Shaped), and no frames of streams nobody has opened   *)
(* (NotYet).                                                                *)
(*                                                                          *)
(* The end of the module proves the types of any session, foreign peers     *)
(* included (SessionTyped): TypeInv adds to BudgetInv the room that a       *)
(* handle found in its channel and still has when it sends (Queue), the     *)
(* room on the socket (Roomy) and the slots.                                *)
EXTENDS SessionBudgetProofs

----------------------------------------------------------------------------
(* Sequences                                                                *)

\* What the definition of Only chooses, for the first n elements of s.
IsOnly(s, S, n, F) ==
  F = [i \in 0 .. n |-> IF i = 0 THEN <<>>
                        ELSE IF s[i] \in S THEN Append(F[i-1], s[i]) ELSE F[i-1]]

\* Its value at the start, and what each further element adds.
OnlySteps(s, S, n, F) ==
  /\ F[0] = <<>>
  /\ \A i \in 1 .. n : /\ s[i] \in S => F[i] = Append(F[i-1], s[i])
                       /\ s[i] \notin S => F[i] = F[i-1]

\* The values of such a function.
LEMMA OnlyAt ==
  ASSUME NEW s, NEW S, NEW n \in Nat, NEW F, IsOnly(s, S, n, F)
  PROVE  OnlySteps(s, S, n, F)
<1> DEFINE G == [l \in 0 .. n |-> IF l = 0 THEN <<>>
                                  ELSE IF s[l] \in S THEN Append(F[l-1], s[l]) ELSE F[l-1]]
<1>1. \A l \in 0 .. n : G[l] = IF l = 0 THEN <<>>
                               ELSE IF s[l] \in S THEN Append(F[l-1], s[l]) ELSE F[l-1]
  OBVIOUS
<1>2. F = G
  BY DEF IsOnly
<1> HIDE DEF G
<1>3. G[0] = <<>>
  BY <1>1
<1>4. ASSUME NEW i \in 1 .. n
      PROVE  /\ s[i] \in S => G[i] = Append(F[i-1], s[i])
             /\ s[i] \notin S => G[i] = F[i-1]
  <2>1. i \in 0 .. n /\ i # 0
    OBVIOUS
  <2> QED
    BY <1>1, <2>1
<1> QED
  BY <1>2, <1>3, <1>4 DEF OnlySteps

\* It exists.
LEMMA OnlyExists ==
  ASSUME NEW s, NEW S PROVE \A n \in Nat : \E F : IsOnly(s, S, n, F)
<1> DEFINE T == {n \in Nat : \E F : IsOnly(s, S, n, F)}
<1>1. 0 \in T
  <2> DEFINE F == [i \in 0 .. 0 |-> <<>>]
  <2>1. F = [i \in 0 .. 0 |-> IF i = 0 THEN <<>>
                              ELSE IF s[i] \in S THEN Append(F[i-1], s[i]) ELSE F[i-1]]
    OBVIOUS
  <2>2. IsOnly(s, S, 0, F)
    BY <2>1 DEF IsOnly
  <2> QED
    BY <2>2
<1>2. ASSUME NEW n \in T PROVE n + 1 \in T
  <2>0. n \in Nat
    OBVIOUS
  <2>1. PICK F : IsOnly(s, S, n, F)
    BY <1>2
  <2> DEFINE x == IF s[n+1] \in S THEN Append(F[n], s[n+1]) ELSE F[n]
             G == [i \in 0 .. n + 1 |-> IF i <= n THEN F[i] ELSE x]
  <2>2. OnlySteps(s, S, n, F)
    BY <2>0, <2>1, OnlyAt
  <2>3. \A i \in 0 .. n + 1 : G[i] = IF i <= n THEN F[i] ELSE x
    OBVIOUS
  <2>4. DOMAIN G = 0 .. n + 1 /\ G = [i \in 0 .. n + 1 |-> G[i]]
    OBVIOUS
  <2> HIDE DEF G, T
  <2>5. \A i \in 0 .. n + 1 : G[i] = IF i = 0 THEN <<>>
                                     ELSE IF s[i] \in S THEN Append(G[i-1], s[i]) ELSE G[i-1]
    <3> TAKE i \in 0 .. n + 1
    <3>1. CASE i = 0
      BY <2>0, <2>2, <2>3, <3>1 DEF OnlySteps
    <3>2. CASE i # 0
      <4>1. i - 1 \in Nat /\ i - 1 \in 0 .. n + 1 /\ i - 1 <= n /\ G[i-1] = F[i-1] /\ (i-1)+1 = i
        BY <2>0, <2>3, <3>2
      <4>2. CASE i <= n
        <5>1. i - 1 < n
          BY <4>2, <4>1, <2>0
        <5>2. F[i] = IF s[i] \in S THEN Append(F[i-1], s[i]) ELSE F[i-1]
          <6>1. i \in 1 .. n
            BY <4>1, <4>2, <2>0
          <6> QED
            BY <2>2, <6>1 DEF OnlySteps
        <5>3. G[i] = F[i]
          BY <2>3, <4>2
        <5> QED
          BY <5>2, <5>3, <4>1, <3>2
      <4>3. CASE ~(i <= n)
        <5>1. i = n + 1 /\ i - 1 = n
          BY <4>3, <2>0
        <5> QED
          BY <5>1, <4>1, <4>3, <3>2, <2>3
      <4> QED
        BY <4>2, <4>3
    <3> QED
      BY <3>1, <3>2
  <2>6. IsOnly(s, S, n + 1, G)
    BY <2>4, <2>5 DEF IsOnly
  <2> QED
    BY <2>0, <2>6 DEF T
<1>3. T \in SUBSET Nat
  OBVIOUS
<1> QED
  BY <1>1, <1>2, <1>3, NatInduct

\* It is the same for two sequences that begin alike.
LEMMA OnlyUnique ==
  ASSUME NEW s, NEW t, NEW S, NEW n \in Nat, NEW m \in Nat, NEW F, NEW G,
         IsOnly(s, S, n, F), IsOnly(t, S, m, G), n <= m, \A i \in 1 .. n : s[i] = t[i]
  PROVE  F[n] = G[n]
<1>0. OnlySteps(s, S, n, F) /\ OnlySteps(t, S, m, G)
  BY OnlyAt
<1> DEFINE T == {i \in Nat : i <= n => F[i] = G[i]}
<1>1. 0 \in T
  BY <1>0 DEF OnlySteps
<1>2. ASSUME NEW i \in T PROVE i + 1 \in T
  <2>1. i \in Nat /\ (i <= n => F[i] = G[i])
    OBVIOUS
  <2> HIDE DEF T
  <2>2. ASSUME i + 1 <= n PROVE F[i+1] = G[i+1]
    <3>0. PICK k \in Nat : k = i + 1
      BY <2>1
    <3>1. k \in 1 .. n /\ k \in 1 .. m /\ s[k] = t[k] /\ F[k-1] = G[k-1]
      BY <2>1, <2>2, <3>0
    <3>2. /\ s[k] \in S => F[k] = Append(F[k-1], s[k])
          /\ s[k] \notin S => F[k] = F[k-1]
      BY <1>0, <3>1 DEF OnlySteps
    <3>3. /\ t[k] \in S => G[k] = Append(G[k-1], t[k])
          /\ t[k] \notin S => G[k] = G[k-1]
      BY <1>0, <3>1 DEF OnlySteps
    <3> QED
      BY <3>0, <3>1, <3>2, <3>3
  <2> QED
    BY <2>1, <2>2 DEF T
<1>3. T \in SUBSET Nat
  OBVIOUS
<1>4. \A i \in Nat : i \in T
  BY <1>1, <1>2, <1>3, NatInduct
<1> QED
  BY <1>4

\* None of an empty sequence.
LEMMA OnlyEmpty == ASSUME NEW S PROVE Only(<<>>, S) = <<>>
<1>1. PICK e : e = <<>>
  OBVIOUS
<1>2. Len(e) = 0 /\ 0 \in Nat
  BY <1>1
<1>3. Only(e, S) = (CHOOSE F : IsOnly(e, S, Len(e), F))[Len(e)]
  BY DEF Only, IsOnly
<1>4. \E F : IsOnly(e, S, 0, F)
  BY <1>2, OnlyExists
<1>5. PICK F : IsOnly(e, S, 0, F) /\ Only(e, S) = F[0]
  BY <1>2, <1>3, <1>4
<1>6. OnlySteps(e, S, 0, F)
  BY ONLY <1>2, <1>5, OnlyAt
<1> QED
  BY <1>1, <1>5, <1>6 DEF OnlySteps

\* A further element is selected if it is in S.
LEMMA OnlyAppend ==
  ASSUME NEW X, NEW s \in Seq(X), NEW x \in X, NEW S
  PROVE  /\ x \in S => Only(Append(s, x), S) = Append(Only(s, S), x)
         /\ x \notin S => Only(Append(s, x), S) = Only(s, S)
<1> DEFINE t == Append(s, x)
<1>1. /\ Len(s) \in Nat /\ Len(t) = Len(s) + 1 /\ t[Len(s) + 1] = x
      /\ \A i \in 1 .. Len(s) : s[i] = t[i]
  OBVIOUS
<1> HIDE DEF t
<1>2. \A u : Only(u, S) = (CHOOSE F : IsOnly(u, S, Len(u), F))[Len(u)]
  BY DEF Only, IsOnly
<1>3. PICK F : IsOnly(s, S, Len(s), F) /\ Only(s, S) = F[Len(s)]
  <2>1. \E F : IsOnly(s, S, Len(s), F)
    BY <1>1, OnlyExists
  <2> QED
    BY <1>2, <2>1
<1>4. PICK G : IsOnly(t, S, Len(s) + 1, G) /\ Only(t, S) = G[Len(s) + 1]
  <2>1. Len(s) + 1 \in Nat
    BY <1>1
  <2>2. \E G : IsOnly(t, S, Len(t), G)
    BY <1>1, <2>1, OnlyExists
  <2> QED
    BY <1>1, <1>2, <2>2
<1>5. PICK n \in Nat, m \in Nat : n = Len(s) /\ m = n + 1
  BY <1>1
<1>9. n <= m
  BY <1>5
<1>10. IsOnly(s, S, n, F) /\ IsOnly(t, S, m, G) /\ \A i \in 1 .. n : s[i] = t[i]
  BY <1>1, <1>3, <1>4, <1>5
<1>6. G[n] = F[n]
  BY ONLY n \in Nat, m \in Nat, <1>9, <1>10, OnlyUnique
<1>7. /\ t[m] \in S => G[m] = Append(G[n], t[m])
      /\ t[m] \notin S => G[m] = G[n]
  <2>1. OnlySteps(t, S, m, G)
    BY ONLY m \in Nat, <1>10, OnlyAt
  <2>2. m \in 1 .. m /\ m - 1 = n
    BY <1>5
  <2> QED
    BY <2>1, <2>2 DEF OnlySteps
<1> QED
  BY <1>1, <1>3, <1>4, <1>5, <1>6, <1>7 DEF t

\* A property of sequences that holds of the empty one and that a further
\* element keeps holds of all.
LEMMA SeqInduct ==
  ASSUME NEW X, NEW P \in SUBSET Seq(X), <<>> \in P,
         \A s \in P, x \in X : Append(s, x) \in P
  PROVE  \A s \in Seq(X) : s \in P
<1> DEFINE T == {n \in Nat : \A s \in Seq(X) : Len(s) = n => s \in P}
<1>1. 0 \in T
  <2>1. \A s \in Seq(X) : Len(s) = 0 => s = <<>>
    OBVIOUS
  <2> QED
    BY <2>1
<1>2. ASSUME NEW n \in Nat, \A u \in Seq(X) : Len(u) = n => u \in P,
             NEW s \in Seq(X), Len(s) = n + 1
      PROVE  s \in P
  <2>1. PICK u : u = [i \in 1 .. n |-> s[i]]
    OBVIOUS
  <2>2. s[n+1] \in X /\ \A i \in 1 .. n : s[i] \in X
    BY <1>2
  <2>7. u \in [1 .. n -> X] /\ \A i \in 1 .. n : u[i] = s[i]
    BY <2>1, <2>2
  <2>3. u \in Seq(X) /\ Len(u) = n /\ \A i \in 1 .. n : u[i] = s[i]
    BY <2>7
  <2>8. PICK x \in X : x = s[n+1]
    BY <2>2
  <2>9. Append(u, x) \in Seq(X)
    BY ONLY <2>3, x \in X
  <2>4. PICK v \in Seq(X) : v = Append(u, x)
    BY ONLY <2>9
  <2>5. Len(v) = n + 1 /\ \A i \in 1 .. n + 1 : v[i] = s[i]
    BY ONLY <2>3, <2>4, <2>8, x \in X, n \in Nat
  <2>6. s = v
    BY <1>2, <2>5, SeqEqual
  <2> QED
    BY <1>2, <2>3, <2>4, <2>6
<1>6. ASSUME NEW n \in T PROVE n + 1 \in T
  <2>1. n \in Nat /\ \A u \in Seq(X) : Len(u) = n => u \in P
    OBVIOUS
  <2>2. \A s \in Seq(X) : Len(s) = n + 1 => s \in P
    BY <1>2, <2>1
  <2> QED
    BY <2>1, <2>2
<1>3. T \in SUBSET Nat
  OBVIOUS
<1>4. \A n \in Nat : n \in T
  BY <1>1, <1>6, <1>3, NatInduct
<1>5. \A s \in Seq(X) : Len(s) \in Nat
  OBVIOUS
<1> QED
  BY <1>4, <1>5

\* What is selected is of S.
LEMMA OnlyType ==
  ASSUME NEW X, NEW s \in Seq(X), NEW S
  PROVE  Only(s, S) \in Seq(X \cap S)
<1> DEFINE P == {u \in Seq(X) : Only(u, S) \in Seq(X \cap S)}
<1>1. <<>> \in P
  <2>1. PICK e : e = <<>>
    OBVIOUS
  <2>2. Only(e, S) = e /\ e \in Seq(X) /\ e \in Seq(X \cap S)
    BY <2>1, OnlyEmpty
  <2> QED
    BY <2>1, <2>2
<1>2. ASSUME NEW u \in P, NEW x \in X PROVE Append(u, x) \in P
  <2>1. /\ x \in S => Only(Append(u, x), S) = Append(Only(u, S), x)
        /\ x \notin S => Only(Append(u, x), S) = Only(u, S)
    BY OnlyAppend
  <2>2. Append(u, x) \in Seq(X) /\ Only(u, S) \in Seq(X \cap S)
    OBVIOUS
  <2> HIDE DEF P
  <2>3. x \in S => Append(Only(u, S), x) \in Seq(X \cap S)
    BY <2>2
  <2> QED
    BY <2>1, <2>2, <2>3 DEF P
<1>3. P \in SUBSET Seq(X)
  OBVIOUS
<1> HIDE DEF P
<1>4. \A u \in Seq(X) : u \in P
  BY <1>1, <1>2, <1>3, SeqInduct
<1> QED
  BY <1>4 DEF P

----------------------------------------------------------------------------
(* Totals                                                                   *)

\* A frame as it travels is a frame.
LEMMA FramesInSet == Frames \subseteq FrameSet
<1>1. 0 .. NumIds \subseteq 0 .. MAX_ID
  BY EndpointAssumption
<1> QED
  BY <1>1 DEF Frames, FrameSet

\* The total of no frames is nothing, and a further frame adds its length.
LEMMA TotalAppend ==
  ASSUME NEW s \in Seq(Frames), NEW f \in Frames
  PROVE  Total(<<>>) = 0 /\ Total(s) \in Nat /\ Total(Append(s, f)) = Total(s) + f.len
<1> DEFINE t  == Append(s, f)
           gs == [i \in DOMAIN s |-> s[i].len]
           gt == [i \in DOMAIN t |-> t[i].len]
<1>1. PICK n \in Nat : n = Len(s)
  OBVIOUS
<1>2. DOMAIN s = 1 .. n /\ \A i \in 1 .. n : s[i] \in Frames
  BY <1>1
<1>3. /\ DOMAIN t = 1 .. n + 1 /\ t[n+1] = f
      /\ \A i \in 1 .. n : t[i] = s[i]
  BY <1>1
<1>4. f.len \in Nat /\ \A g \in Frames : g.len \in Nat
  BY FlowAssumption DEF Frames
<1>5. \A i \in 1 .. n : gs[i] \in Nat /\ gs[i] = s[i].len
  BY <1>2, <1>4
<1> HIDE DEF t
<1>6. gt[n+1] = f.len /\ \A i \in 1 .. n + 1 : gt[i] \in Nat /\ gt[i] \in Int
  <2>1. \A i \in 1 .. n + 1 : i = n + 1 \/ i \in 1 .. n
    BY <1>1
  <2>2. n + 1 \in 1 .. n + 1
    BY <1>1
  <2>3. \A i \in 1 .. n + 1 : gt[i] = t[i].len
    BY <1>3
  <2>4. \A i \in 1 .. n + 1 : t[i].len \in Nat
    BY <1>2, <1>3, <1>4, <2>1
  <2> QED
    BY <1>3, <2>2, <2>3, <2>4
<1>7. \A i \in 1 .. n : gt[i] = gs[i]
  <2>1. \A i \in 1 .. n : i \in 1 .. n + 1
    OBVIOUS
  <2> QED
    BY <1>2, <1>3, <2>1
<1>8. Total(s) = SumFunctionOnSet(gs, 1 .. n) /\ Total(t) = SumFunctionOnSet(gt, 1 .. n + 1)
  BY <1>2, <1>3 DEF Total
<1> HIDE DEF gs, gt
<1>9. IsFiniteSet(1 .. n) /\ IsFiniteSet(1 .. n + 1) /\ (1 .. n + 1) \ {n + 1} = 1 .. n
  BY FS_Interval
<1>10. SumFunctionOnSet(gs, 1 .. n) \in Nat
  BY <1>5, <1>9, SumNat
<1>11. SumFunctionOnSet(gt, 1 .. n + 1) = SumFunctionOnSet(gt, (1 .. n + 1) \ {n + 1}) + gt[n+1]
  <2>1. n + 1 \in 1 .. n + 1
    OBVIOUS
  <2> QED
    BY <1>6, <1>9, <2>1, SumAdds
<1>12. SumFunctionOnSet(gt, 1 .. n) = SumFunctionOnSet(gs, 1 .. n)
  <2>1. \A i \in 1 .. n : gs[i] \in Int /\ gt[i] = gs[i]
    BY <1>5, <1>7
  <2> QED
    BY <1>9, <2>1, SumSame
<1>13. Total(<<>>) = 0
  <2>1. DOMAIN <<>> = {}
    OBVIOUS
  <2>2. Total(<<>>) = SumFunctionOnSet([i \in DOMAIN <<>> |-> <<>>[i].len], DOMAIN <<>>)
    BY DEF Total
  <2>3. PICK g : g = [i \in DOMAIN <<>> |-> <<>>[i].len]
    OBVIOUS
  <2> QED
    BY <2>1, <2>2, <2>3, SumEmpty
<1> QED
  BY <1>6, <1>8, <1>9, <1>10, <1>11, <1>12, <1>13 DEF t

\* Two sequences in a row.
LEMMA TotalConcat ==
  ASSUME NEW s \in Seq(Frames), NEW t \in Seq(Frames)
  PROVE  Total(s \o t) = Total(s) + Total(t)
<1> DEFINE P == {u \in Seq(Frames) : Total(s \o u) = Total(s) + Total(u)}
<1>0. PICK z \in Frames : z = term
  <2>1. 0 \in 0 .. U32_MAX
    BY FlowAssumption
  <2> QED
    BY <2>1, FrameOfConnection
<1>1. <<>> \in P
  <2>1. PICK e : e = <<>>
    OBVIOUS
  <2>2. Total(e) = 0 /\ Total(s) \in Nat
    BY <1>0, <2>1, TotalAppend
  <2>3. s \o e = s /\ e \in Seq(Frames)
    BY <2>1, ConcatEmptySeq
  <2> QED
    BY <2>1, <2>2, <2>3
<1>2. ASSUME NEW u \in P, NEW f \in Frames PROVE Append(u, f) \in P
  <2>1. /\ u \in Seq(Frames) /\ Append(u, f) \in Seq(Frames)
        /\ Total(s \o u) = Total(s) + Total(u)
    OBVIOUS
  <2> HIDE DEF P
  <2>2. s \o u \in Seq(Frames) /\ s \o Append(u, f) = Append(s \o u, f)
    BY <2>1
  <2>3. PICK w \in Seq(Frames) : w = s \o u
    BY <2>2
  <2>4. Total(Append(w, f)) = Total(w) + f.len
    BY TotalAppend
  <2>5. Total(Append(u, f)) = Total(u) + f.len /\ Total(u) \in Nat /\ Total(s) \in Nat
    BY <2>1, TotalAppend
  <2>6. f.len \in Nat
    BY FlowAssumption DEF Frames
  <2>7. Total(s \o Append(u, f)) = Total(s) + Total(Append(u, f))
    BY <2>1, <2>2, <2>3, <2>4, <2>5, <2>6
  <2> QED
    BY <2>1, <2>7 DEF P
<1>3. P \in SUBSET Seq(Frames)
  OBVIOUS
<1> HIDE DEF P
<1>4. \A u \in Seq(Frames) : u \in P
  BY <1>1, <1>2, <1>3, SeqInduct
<1> QED
  BY <1>4 DEF P

----------------------------------------------------------------------------
(* Sequences of frames, one after the other                                 *)

\* Names for <<>>, <<f>> and s \o t that the provers take as they are.
Nil       == <<>>
One(f)    == <<f>>
Cat(s, t) == s \o t

\* They are sequences of frames.
LEMMA CatType ==
  ASSUME NEW s \in Seq(Frames), NEW t \in Seq(Frames)
  PROVE  Cat(s, t) \in Seq(Frames)
BY DEF Cat

\* And so are no frame and one.
LEMMA OneType ==
  ASSUME NEW f \in Frames PROVE One(f) \in Seq(Frames)
BY DEF One

\* No frames.
LEMMA NilType == Nil \in Seq(Frames)
BY DEF Nil

\* Nothing before or after a sequence.
LEMMA CatNil ==
  ASSUME NEW s \in Seq(Frames) PROVE Cat(s, Nil) = s /\ Cat(Nil, s) = s
BY ConcatEmptySeq DEF Nil, Cat

\* Order matters, grouping does not.
LEMMA CatAssoc ==
  ASSUME NEW s \in Seq(Frames), NEW t \in Seq(Frames), NEW u \in Seq(Frames)
  PROVE  Cat(Cat(s, t), u) = Cat(s, Cat(t, u))
BY ConcatAssociative DEF Cat

\* A frame at the end.
LEMMA CatAppend ==
  ASSUME NEW s \in Seq(Frames), NEW f \in Frames
  PROVE  Append(s, f) = Cat(s, One(f)) /\ Append(s, f) \in Seq(Frames)
BY DEF Cat, One

\* The frame at the head.
LEMMA CatHead ==
  ASSUME NEW s \in Seq(Frames), s # <<>>
  PROVE  s = Cat(One(Head(s)), Tail(s)) /\ Head(s) \in Frames /\ Tail(s) \in Seq(Frames)
<1>1. Head(s) \in Frames /\ Tail(s) \in Seq(Frames)
  OBVIOUS
<1>2. s = <<Head(s)>> \o Tail(s)
  OBVIOUS
<1> QED
  BY <1>1, <1>2 DEF Cat, One

\* A prefix and the rest.
LEMMA CatPrefix ==
  ASSUME NEW s \in Seq(Frames), NEW n \in 0 .. Len(s)
  PROVE  /\ SubSeq(s, 1, n) \in Seq(Frames)
         /\ \E r \in Seq(Frames) : s = Cat(SubSeq(s, 1, n), r)
<1>1. PICK m \in Nat : m = Len(s)
  OBVIOUS
<1>2. n \in Nat /\ n <= m /\ \A i \in 1 .. m : s[i] \in Frames
  BY <1>1
<1>3. PICK a : a = SubSeq(s, 1, n)
  OBVIOUS
<1>4. PICK r : r = SubSeq(s, n + 1, m)
  OBVIOUS
<1>5. \A i \in 1 .. n : s[i] \in Frames
  BY <1>2
<1>6. a \in Seq(Frames)
  BY <1>2, <1>3, <1>5
<1>7. r \in Seq(Frames)
  <2>1. \A i \in n + 1 .. m : s[i] \in Frames
    BY <1>2
  <2>2. n + 1 \in Int /\ m \in Int
    BY <1>2
  <2> QED
    BY <1>4, <2>1, <2>2, SubSeqProperties
<1>8. s = a \o r
  <2>1. /\ 1 \in 1 .. Len(s) + 1 /\ n \in 1 - 1 .. Len(s) /\ Len(s) \in n .. Len(s)
    BY <1>1, <1>2
  <2>2. SubSeq(s, 1, n) \o SubSeq(s, n + 1, Len(s)) = SubSeq(s, 1, Len(s))
    BY <2>1, ConcatAdjacentSubSeq
  <2>3. SubSeq(s, 1, Len(s)) = s
    BY SubSeqFull
  <2> QED
    BY <1>1, <1>3, <1>4, <2>2, <2>3
<1> QED
  BY <1>3, <1>6, <1>7, <1>8 DEF Cat

\* The lengths of the frames of s that are in S.
Weight(s, S) == Total(Only(s, S))

\* Selected frames are frames.
LEMMA OnlyFrames ==
  ASSUME NEW s \in Seq(Frames), NEW S PROVE Only(s, S) \in Seq(Frames)
<1>1. Only(s, S) \in Seq(Frames \cap S) /\ Frames \cap S \subseteq Frames
  BY OnlyType
<1> QED
  BY <1>1, SeqMonotonic

\* Selecting from two sequences in a row.
LEMMA OnlyCat ==
  ASSUME NEW s \in Seq(Frames), NEW t \in Seq(Frames), NEW S
  PROVE  Only(Cat(s, t), S) = Cat(Only(s, S), Only(t, S))
<1> DEFINE P == {u \in Seq(Frames) : Only(Cat(s, u), S) = Cat(Only(s, S), Only(u, S))}
<1>0. Only(s, S) \in Seq(Frames)
  BY OnlyFrames
<1>1. <<>> \in P
  <2>1. Only(Nil, S) = Nil /\ Nil \in Seq(Frames)
    BY OnlyEmpty DEF Nil
  <2>2. Cat(s, Nil) = s /\ Cat(Only(s, S), Nil) = Only(s, S)
    BY <1>0, CatNil
  <2>3. Nil \in P
    BY <2>1, <2>2
  <2> QED
    BY <2>3 DEF Nil
<1>2. ASSUME NEW u \in P, NEW x \in Frames PROVE Append(u, x) \in P
  <2>1. u \in Seq(Frames) /\ Only(Cat(s, u), S) = Cat(Only(s, S), Only(u, S))
    OBVIOUS
  <2> HIDE DEF P
  <2>2. PICK w \in Seq(Frames), v \in Seq(Frames) : w = Cat(s, u) /\ v = Append(u, x)
    <3>1. Cat(s, u) \in Seq(Frames) /\ Append(u, x) \in Seq(Frames)
      BY <2>1, CatType, CatAppend, OneType, NilType
    <3> QED
      BY <3>1
  <2>3. Cat(s, v) = Append(w, x)
    <3>1. v = Cat(u, One(x)) /\ Append(w, x) = Cat(w, One(x)) /\ One(x) \in Seq(Frames)
      BY <2>1, <2>2, CatAppend, CatType, OneType, NilType
    <3> QED
      BY <2>1, <2>2, <3>1, CatAssoc
  <2>4. PICK a \in Seq(Frames), b \in Seq(Frames) : a = Only(s, S) /\ b = Only(u, S)
    <3>1. Only(u, S) \in Seq(Frames)
      BY <2>1, OnlyFrames
    <3> QED
      BY <1>0, <3>1
  <2>5. /\ x \in S => Only(Append(w, x), S) = Append(Only(w, S), x)
        /\ x \notin S => Only(Append(w, x), S) = Only(w, S)
    BY OnlyAppend
  <2>6. /\ x \in S => Only(Append(u, x), S) = Append(Only(u, S), x)
        /\ x \notin S => Only(Append(u, x), S) = Only(u, S)
    BY <2>1, OnlyAppend
  <2>7. Append(Cat(a, b), x) = Cat(a, Append(b, x))
    <3>1. /\ Append(b, x) = Cat(b, One(x)) /\ One(x) \in Seq(Frames) /\ Cat(a, b) \in Seq(Frames)
      BY CatAppend, CatType, OneType, NilType
    <3>2. Append(Cat(a, b), x) = Cat(Cat(a, b), One(x))
      BY <3>1, CatAppend
    <3> QED
      BY <3>1, <3>2, CatAssoc
  <2>8. Only(Cat(s, v), S) = Cat(Only(s, S), Only(v, S))
    <3>1. CASE x \in S
      <4>1. Only(Cat(s, v), S) = Append(Cat(a, b), x)
        BY ONLY <3>1, <2>1, <2>2, <2>3, <2>4, <2>5
      <4>2. Only(v, S) = Append(b, x)
        BY ONLY <3>1, <2>2, <2>4, <2>6
      <4> QED
        BY <4>1, <4>2, <2>4, <2>7
    <3>2. CASE x \notin S
      BY <3>2, <2>1, <2>2, <2>3, <2>4, <2>5, <2>6
    <3> QED
      BY <3>1, <3>2
  <2> QED
    BY <2>2, <2>8 DEF P
<1>3. P \in SUBSET Seq(Frames)
  OBVIOUS
<1> HIDE DEF P
<1>4. \A u \in Seq(Frames) : u \in P
  BY <1>1, <1>2, <1>3, SeqInduct
<1> QED
  BY <1>4 DEF P

\* Selecting from one frame.
LEMMA OnlyOne ==
  ASSUME NEW f \in Frames, NEW S
  PROVE  /\ f \in S => Only(One(f), S) = One(f)
         /\ f \notin S => Only(One(f), S) = Nil
<1>0. <<>> \in Seq(Frames)
  OBVIOUS
<1>1. PICK e \in Seq(Frames) : e = <<>>
  BY <1>0
<1>2. Append(e, f) = <<f>>
  BY <1>1
<1>3. /\ f \in S => Only(Append(e, f), S) = Append(Only(e, S), f)
      /\ f \notin S => Only(Append(e, f), S) = Only(e, S)
  BY OnlyAppend
<1>4. Only(e, S) = e
  BY <1>1, OnlyEmpty
<1> QED
  BY <1>1, <1>2, <1>3, <1>4 DEF One, Nil

\* The weight of no frames.
LEMMA WeightEmpty == ASSUME NEW S PROVE Weight(Nil, S) = 0
<1>1. PICK z \in Frames : z = term
  <2>1. 0 \in 0 .. U32_MAX
    BY FlowAssumption
  <2> QED
    BY <2>1, FrameOfConnection
<1>2. <<>> \in Seq(Frames)
  OBVIOUS
<1>3. Total(<<>>) = 0
  BY <1>1, <1>2, TotalAppend
<1> QED
  BY <1>3, OnlyEmpty DEF Weight, Nil

\* The weight of one frame.
LEMMA WeightOne ==
  ASSUME NEW f \in Frames, NEW S
  PROVE  /\ f \in S => Weight(One(f), S) = f.len
         /\ f \notin S => Weight(One(f), S) = 0
<1>0. <<>> \in Seq(Frames)
  OBVIOUS
<1>1. PICK e \in Seq(Frames) : e = <<>>
  BY <1>0
<1>2. Append(e, f) = <<f>>
  BY <1>1
<1>3. Total(e) = 0 /\ Total(Append(e, f)) = Total(e) + f.len
  BY <1>1, TotalAppend
<1>4. f.len \in Nat
  BY FlowAssumption DEF Frames
<1>5. Total(One(f)) = f.len /\ Total(Nil) = 0
  BY <1>1, <1>2, <1>3, <1>4 DEF One, Nil
<1> QED
  BY <1>5, OnlyOne DEF Weight

\* The weight of two sequences in a row.
LEMMA WeightCat ==
  ASSUME NEW s \in Seq(Frames), NEW t \in Seq(Frames), NEW S
  PROVE  /\ Weight(Cat(s, t), S) = Weight(s, S) + Weight(t, S)
         /\ Weight(s, S) \in Nat /\ Weight(t, S) \in Nat
<1>0. Only(s, S) \in Seq(Frames) /\ Only(t, S) \in Seq(Frames)
  BY OnlyFrames
<1>1. PICK a \in Seq(Frames), b \in Seq(Frames) : a = Only(s, S) /\ b = Only(t, S)
  BY <1>0
<1>2. Only(Cat(s, t), S) = Cat(a, b)
  BY <1>1, OnlyCat
<1>3. PICK z \in Frames : z = term
  <2>1. 0 \in 0 .. U32_MAX
    BY FlowAssumption
  <2> QED
    BY <2>1, FrameOfConnection
<1>4. Total(a) \in Nat /\ Total(b) \in Nat /\ Total(Cat(a, b)) = Total(a) + Total(b)
  BY <1>3, TotalAppend, TotalConcat DEF Cat
<1> QED
  BY <1>1, <1>2, <1>4 DEF Weight

----------------------------------------------------------------------------
(* Where the frames of a stream are                                         *)

\* A connection that has not failed takes its streams' commands.
Whole(p) == conn[p] \in {"Active"} \cup ClosingStates

\* The frames of stream id in s.
Of(s, id) == Only(s, StreamFrames(id))

\* A frame of a stream is selected for that stream and no other.
LEMMA OfFrame ==
  ASSUME NEW f \in Frames, NEW id
  PROVE  f \in StreamFrames(id) <=> IsStreamFrame(f) /\ f.id = id
BY FramesInSet DEF StreamFrames

\* The frames of stream id in two sequences in a row, in one frame, in none.
LEMMA OfCat ==
  ASSUME NEW id
  PROVE  /\ \A s \in Seq(Frames) : Of(s, id) \in Seq(Frames)
         /\ \A s, t \in Seq(Frames) : Of(Cat(s, t), id) = Cat(Of(s, id), Of(t, id))
         /\ Of(Nil, id) = Nil
<1>1. \A s \in Seq(Frames) : Of(s, id) \in Seq(Frames)
  BY OnlyFrames DEF Of
<1>2. \A s, t \in Seq(Frames) : Of(Cat(s, t), id) = Cat(Of(s, id), Of(t, id))
  BY OnlyCat DEF Of
<1>3. Of(Nil, id) = Nil
  BY OnlyEmpty DEF Of, Nil
<1> QED
  BY <1>1, <1>2, <1>3

\* The frames of stream id in one frame.
LEMMA OfOne ==
  ASSUME NEW f \in Frames, NEW id
  PROVE  /\ f \in StreamFrames(id) => Of(One(f), id) = One(f)
         /\ f \notin StreamFrames(id) => Of(One(f), id) = Nil
BY OnlyOne DEF Of

\* Frames that concern no stream.
LEMMA OfAnswers ==
  ASSUME NEW r \in Seq(Frames), \A i \in DOMAIN r : ~IsStreamFrame(r[i]), NEW id
  PROVE  Of(r, id) = Nil
<1> DEFINE N == {f \in Frames : ~IsStreamFrame(f)}
           P == {u \in Seq(N) : Of(u, id) = Nil}
<1>1. r \in Seq(N)
  OBVIOUS
<1>2. <<>> \in P
  BY OnlyEmpty DEF Of, Nil
<1>3. ASSUME NEW u \in P, NEW f \in N PROVE Append(u, f) \in P
  <2>1. u \in Seq(N) /\ Of(u, id) = Nil /\ Append(u, f) \in Seq(N)
    OBVIOUS
  <2>2. f \in Frames /\ f \notin StreamFrames(id)
    BY OfFrame
  <2> HIDE DEF P, N
  <2>3. Of(Append(u, f), id) = Of(u, id)
    BY <2>1, <2>2, OnlyAppend DEF Of
  <2> QED
    BY <2>1, <2>3 DEF P, N
<1>4. P \in SUBSET Seq(N)
  OBVIOUS
<1> HIDE DEF P, N
<1>5. \A u \in Seq(N) : u \in P
  BY <1>2, <1>3, <1>4, SeqInduct
<1> QED
  BY <1>1, <1>5 DEF P

\* A path, from the socket back to the channel.
Parts(w, b, q, c, id) == Cat(Of(w, id), Cat(Of(b, id), Cat(Of(q, id), c)))

\* A path is a sequence of frames.
LEMMA PartsType ==
  ASSUME NEW w \in Seq(Frames), NEW b \in Seq(Frames), NEW q \in Seq(Frames),
         NEW c \in Seq(Frames), NEW id
  PROVE  /\ Parts(w, b, q, c, id) \in Seq(Frames)
         /\ Cat(Of(q, id), c) \in Seq(Frames)
         /\ Cat(Of(b, id), Cat(Of(q, id), c)) \in Seq(Frames)
         /\ Of(w, id) \in Seq(Frames) /\ Of(b, id) \in Seq(Frames) /\ Of(q, id) \in Seq(Frames)
<1>1. Of(w, id) \in Seq(Frames) /\ Of(b, id) \in Seq(Frames) /\ Of(q, id) \in Seq(Frames)
  BY OfCat
<1>2. Cat(Of(q, id), c) \in Seq(Frames)
  BY <1>1, CatType
<1>3. Cat(Of(b, id), Cat(Of(q, id), c)) \in Seq(Frames)
  BY <1>1, <1>2, CatType
<1>4. Parts(w, b, q, c, id) \in Seq(Frames)
  BY <1>1, <1>3, CatType DEF Parts
<1> QED
  BY <1>1, <1>2, <1>3, <1>4

\* The frames a connection has charge of, and its channel.
LEMMA PartsAre ==
  ASSUME NEW w \in Seq(Frames), NEW r \in Seq(Frames), NEW b \in Seq(Frames),
         NEW q \in Seq(Frames), NEW c \in Seq(Frames), NEW id,
         \A i \in DOMAIN r : ~IsStreamFrame(r[i])
  PROVE  Cat(Of(Cat(Cat(Cat(w, r), b), q), id), c) = Parts(w, b, q, c, id)
<1> DEFINE W == Of(w, id)
           B == Of(b, id)
           Q == Of(q, id)
<1>1. W \in Seq(Frames) /\ B \in Seq(Frames) /\ Q \in Seq(Frames)
  BY PartsType
<1>2. Of(Cat(Cat(Cat(w, r), b), q), id) = Cat(Cat(Cat(W, Of(r, id)), B), Q)
  <2>1. Cat(w, r) \in Seq(Frames)
    BY CatType
  <2>2. Cat(Cat(w, r), b) \in Seq(Frames)
    BY <2>1, CatType
  <2>3. Of(Cat(w, r), id) = Cat(W, Of(r, id))
    BY OfCat
  <2>4. Of(Cat(Cat(w, r), b), id) = Cat(Of(Cat(w, r), id), B)
    BY <2>1, OfCat
  <2>5. Of(Cat(Cat(Cat(w, r), b), q), id) = Cat(Of(Cat(Cat(w, r), b), id), Q)
    BY <2>2, OfCat
  <2> HIDE DEF W, B, Q
  <2> QED
    BY <2>3, <2>4, <2>5
<1> HIDE DEF W, B, Q
<1>4. Cat(W, Of(r, id)) = W
  BY <1>1, OfAnswers, CatNil
<1>5. Cat(W, B) \in Seq(Frames) /\ Cat(Q, c) \in Seq(Frames)
  BY <1>1, CatType
<1>6. Cat(Cat(Cat(W, B), Q), c) = Cat(Cat(W, B), Cat(Q, c))
  BY <1>1, <1>5, CatAssoc
<1>7. Cat(Cat(W, B), Cat(Q, c)) = Cat(W, Cat(B, Cat(Q, c)))
  BY <1>1, <1>5, CatAssoc
<1> QED
  BY <1>2, <1>4, <1>6, <1>7 DEF Parts, W, B, Q

\* The parts of a path.
LEMMA PathParts ==
  ASSUME FrameTypes, NEW p \in Peers, OwnSide(p), NEW id \in Ids
  PROVE  /\ Path(p, id) = Parts(wire[p], pendW[p], pendQ[p], Queued(p, id), id)
         /\ Path(p, id) \in Seq(Frames) /\ Queued(p, id) \in Seq(Frames)
<1>1. PICK w \in Seq(Frames), r \in Seq(Frames), b \in Seq(Frames), q \in Seq(Frames) :
        w = wire[p] /\ r = pendR[p] /\ b = pendW[p] /\ q = pendQ[p]
  BY DEF FrameTypes
<1>2. Queued(p, id) \in Seq(Frames)
  BY DEF Queued, FrameTypes
<1>3. \A i \in DOMAIN r : ~IsStreamFrame(r[i])
  BY <1>1 DEF OwnSide
<1>4. Cat(Of(Cat(Cat(Cat(w, r), b), q), id), Queued(p, id))
        = Parts(w, b, q, Queued(p, id), id)
  BY <1>2, <1>3, PartsAre
<1>5. Parts(w, b, q, Queued(p, id), id) \in Seq(Frames)
  BY <1>2, PartsType
<1>6. Path(p, id) = Cat(Of(Cat(Cat(Cat(w, r), b), q), id), Queued(p, id))
  BY <1>1 DEF Path, Outgoing, Of, Cat
<1> QED
  BY <1>1, <1>2, <1>4, <1>5, <1>6

\* And after a step.
LEMMA NextParts ==
  ASSUME FrameTypes', NEW p \in Peers, OwnSide(p)', NEW id \in Ids
  PROVE  /\ Path(p, id)' = Parts(wire'[p], pendW'[p], pendQ'[p], Queued(p, id)', id)
         /\ Path(p, id)' \in Seq(Frames) /\ Queued(p, id)' \in Seq(Frames)
<1>1. PICK w \in Seq(Frames), r \in Seq(Frames), b \in Seq(Frames), q \in Seq(Frames) :
        w = wire'[p] /\ r = pendR'[p] /\ b = pendW'[p] /\ q = pendQ'[p]
  BY DEF FrameTypes
<1>2. Queued(p, id)' \in Seq(Frames)
  BY DEF Queued, FrameTypes
<1>3. \A i \in DOMAIN r : ~IsStreamFrame(r[i])
  BY <1>1 DEF OwnSide
<1>4. Cat(Of(Cat(Cat(Cat(w, r), b), q), id), Queued(p, id)')
        = Parts(w, b, q, Queued(p, id)', id)
  BY <1>2, <1>3, PartsAre
<1>5. Parts(w, b, q, Queued(p, id)', id) \in Seq(Frames)
  BY <1>2, PartsType
<1>6. Path(p, id)' = Cat(Of(Cat(Cat(Cat(w, r), b), q), id), Queued(p, id)')
  BY <1>1 DEF Path, Outgoing, Of, Cat
<1> QED
  BY <1>1, <1>2, <1>4, <1>5, <1>6

\* A frame leaves the path at its front, or was none of it.
LEMMA PartsTake ==
  ASSUME NEW f \in Frames, NEW w \in Seq(Frames), NEW b \in Seq(Frames),
         NEW q \in Seq(Frames), NEW c \in Seq(Frames), NEW id
  PROVE  /\ f \in StreamFrames(id) =>
              Parts(Cat(One(f), w), b, q, c, id) = Cat(One(f), Parts(w, b, q, c, id))
         /\ f \notin StreamFrames(id) =>
              Parts(Cat(One(f), w), b, q, c, id) = Parts(w, b, q, c, id)
<1> DEFINE X == Cat(Of(b, id), Cat(Of(q, id), c))
<1>1. X \in Seq(Frames) /\ Of(w, id) \in Seq(Frames) /\ One(f) \in Seq(Frames)
  BY PartsType, OneType
<1>2. Of(Cat(One(f), w), id) = Cat(Of(One(f), id), Of(w, id))
  BY <1>1, OfCat
<1>3. Parts(w, b, q, c, id) = Cat(Of(w, id), X)
      /\ Parts(Cat(One(f), w), b, q, c, id) = Cat(Of(Cat(One(f), w), id), X)
  BY DEF Parts
<1> HIDE DEF X
<1>4. CASE f \in StreamFrames(id)
  <2>1. Of(One(f), id) = One(f)
    BY <1>4, OfOne
  <2>2. Cat(Cat(One(f), Of(w, id)), X) = Cat(One(f), Cat(Of(w, id), X))
    BY <1>1, CatAssoc
  <2> QED
    BY <1>2, <1>3, <1>4, <2>1, <2>2
<1>5. CASE f \notin StreamFrames(id)
  <2>1. Cat(Of(One(f), id), Of(w, id)) = Of(w, id)
    BY <1>1, <1>5, OfOne, CatNil
  <2> QED
    BY <1>2, <1>3, <1>5, <2>1
<1> QED
  BY <1>4, <1>5

\* A frame of no concern to the stream is sent, or the pending one is.
LEMMA PartsSend ==
  ASSUME NEW f \in Frames, NEW w \in Seq(Frames), NEW b \in Seq(Frames),
         NEW q \in Seq(Frames), NEW c \in Seq(Frames), NEW id
  PROVE  /\ f \notin StreamFrames(id) =>
              Parts(Append(w, f), b, q, c, id) = Parts(w, b, q, c, id)
         /\ Parts(Append(w, f), Nil, q, c, id) = Parts(w, One(f), q, c, id)
<1>1. /\ Of(w, id) \in Seq(Frames) /\ One(f) \in Seq(Frames) /\ Of(One(f), id) \in Seq(Frames)
      /\ Cat(Of(q, id), c) \in Seq(Frames)
  BY PartsType, OneType
<1>2. Of(Append(w, f), id) = Cat(Of(w, id), Of(One(f), id))
  <2>1. Append(w, f) = Cat(w, One(f))
    BY CatAppend
  <2>2. Of(Cat(w, One(f)), id) = Cat(Of(w, id), Of(One(f), id))
    BY <1>1, OfCat
  <2> QED
    BY <2>1, <2>2
<1>3. f \notin StreamFrames(id) => Of(Append(w, f), id) = Of(w, id)
  BY <1>1, <1>2, OfOne, CatNil
<1>4. Cat(Of(Nil, id), Cat(Of(q, id), c)) = Cat(Of(q, id), c)
  BY <1>1, OfCat, CatNil
<1>5. Cat(Cat(Of(w, id), Of(One(f), id)), Cat(Of(q, id), c))
        = Cat(Of(w, id), Cat(Of(One(f), id), Cat(Of(q, id), c)))
  BY <1>1, CatAssoc
<1> QED
  BY <1>2, <1>3, <1>4, <1>5 DEF Parts

\* A command becomes the pending frame.
LEMMA PartsCommand ==
  ASSUME NEW f \in Frames, NEW w \in Seq(Frames), NEW q \in Seq(Frames),
         NEW c \in Seq(Frames), NEW id
  PROVE  /\ f \notin StreamFrames(id) => Parts(w, One(f), q, c, id) = Parts(w, Nil, q, c, id)
         /\ f \in StreamFrames(id) =>
              Parts(w, One(f), Nil, c, id) = Parts(w, Nil, Nil, Cat(One(f), c), id)
<1>1. /\ One(f) \in Seq(Frames) /\ Cat(One(f), c) \in Seq(Frames)
  BY OneType, CatType
<1>2. Of(Nil, id) = Nil
  BY OfCat
<1>3. CASE f \notin StreamFrames(id)
  <2>1. Of(One(f), id) = Nil
    BY <1>3, OfOne
  <2> QED
    BY <1>2, <1>3, <2>1 DEF Parts
<1>4. CASE f \in StreamFrames(id)
  <2>1. Of(One(f), id) = One(f)
    BY <1>4, OfOne
  <2>2. Cat(Nil, c) = c /\ Cat(Nil, Cat(One(f), c)) = Cat(One(f), c)
    BY <1>1, CatNil
  <2> QED
    BY <1>2, <1>4, <2>1, <2>2 DEF Parts
<1> QED
  BY <1>3, <1>4

\* A command joins the queue of Closing, or a frame of no concern does.
LEMMA PartsDrain ==
  ASSUME NEW f \in Frames, NEW w \in Seq(Frames), NEW b \in Seq(Frames),
         NEW q \in Seq(Frames), NEW c \in Seq(Frames), NEW id
  PROVE  /\ f \notin StreamFrames(id) =>
              Parts(w, b, Append(q, f), c, id) = Parts(w, b, q, c, id)
         /\ f \in StreamFrames(id) =>
              Parts(w, b, Append(q, f), c, id) = Parts(w, b, q, Cat(One(f), c), id)
<1>1. /\ Of(q, id) \in Seq(Frames) /\ One(f) \in Seq(Frames) /\ Of(One(f), id) \in Seq(Frames)
  BY PartsType, OneType
<1>2. Of(Append(q, f), id) = Cat(Of(q, id), Of(One(f), id))
  <2>1. Append(q, f) = Cat(q, One(f))
    BY CatAppend
  <2>2. Of(Cat(q, One(f)), id) = Cat(Of(q, id), Of(One(f), id))
    BY <1>1, OfCat
  <2> QED
    BY <2>1, <2>2
<1>3. f \notin StreamFrames(id) => Of(Append(q, f), id) = Of(q, id)
  BY <1>1, <1>2, OfOne, CatNil
<1>4. f \in StreamFrames(id) => Of(One(f), id) = One(f)
  BY OfOne
<1>5. Cat(Cat(Of(q, id), One(f)), c) = Cat(Of(q, id), Cat(One(f), c))
  BY <1>1, CatAssoc
<1> QED
  BY <1>2, <1>3, <1>4, <1>5 DEF Parts

\* The queue of Closing goes out.
LEMMA PartsFlush ==
  ASSUME NEW f \in Frames, NEW w \in Seq(Frames), NEW q \in Seq(Frames),
         NEW c \in Seq(Frames), NEW id
  PROVE  Parts(Append(w, f), Nil, q, c, id) = Parts(w, Nil, Cat(One(f), q), c, id)
<1>1. /\ Of(w, id) \in Seq(Frames) /\ One(f) \in Seq(Frames) /\ Of(One(f), id) \in Seq(Frames)
      /\ Of(q, id) \in Seq(Frames) /\ Cat(Of(q, id), c) \in Seq(Frames)
  BY PartsType, OneType
<1>2. Of(Cat(One(f), q), id) = Cat(Of(One(f), id), Of(q, id))
  BY <1>1, OfCat
<1>3. Cat(Cat(Of(One(f), id), Of(q, id)), c) = Cat(Of(One(f), id), Cat(Of(q, id), c))
  BY <1>1, CatAssoc
<1>4. Parts(w, One(f), q, c, id) = Cat(Of(w, id), Cat(Of(One(f), id), Cat(Of(q, id), c)))
  BY DEF Parts
<1>5. Cat(Of(One(f), id), Cat(Of(q, id), c)) \in Seq(Frames)
  BY <1>1, CatType
<1>6. Cat(Of(Nil, id), Cat(Of(One(f), id), Cat(Of(q, id), c)))
        = Cat(Of(One(f), id), Cat(Of(q, id), c))
  BY <1>5, OfCat, CatNil
<1>7. Parts(w, Nil, Cat(One(f), q), c, id)
        = Cat(Of(w, id), Cat(Of(One(f), id), Cat(Of(q, id), c)))
  BY <1>2, <1>3, <1>6 DEF Parts
<1> QED
  BY <1>4, <1>7, PartsSend

\* The pending frames become the queue of Closing.
LEMMA PartsQueue ==
  ASSUME NEW w \in Seq(Frames), NEW r \in Seq(Frames), NEW b \in Seq(Frames),
         NEW c \in Seq(Frames), NEW id, \A i \in DOMAIN r : ~IsStreamFrame(r[i])
  PROVE  Parts(w, Nil, Cat(r, b), c, id) = Parts(w, b, Nil, c, id)
<1>1. Of(Nil, id) = Nil /\ Of(b, id) \in Seq(Frames)
  BY OfCat
<1>2. Of(Cat(r, b), id) = Of(b, id)
  <2>1. Of(Cat(r, b), id) = Cat(Of(r, id), Of(b, id))
    BY OfCat
  <2> QED
    BY <1>1, <2>1, OfAnswers, CatNil
<1>3. Cat(Nil, Cat(Of(b, id), c)) = Cat(Of(b, id), c) /\ Cat(Nil, c) = c
  <2>1. Cat(Of(b, id), c) \in Seq(Frames)
    BY <1>1, CatType
  <2> QED
    BY <2>1, CatNil
<1> QED
  BY <1>1, <1>2, <1>3 DEF Parts

\* Frames at the end of the channel are frames at the end of the path.
LEMMA PartsEnd ==
  ASSUME NEW w \in Seq(Frames), NEW b \in Seq(Frames), NEW q \in Seq(Frames),
         NEW c \in Seq(Frames), NEW d \in Seq(Frames), NEW id
  PROVE  Parts(w, b, q, Cat(c, d), id) = Cat(Parts(w, b, q, c, id), d)
<1> DEFINE W == Of(w, id)
           B == Of(b, id)
           Q == Of(q, id)
<1>1. /\ W \in Seq(Frames) /\ B \in Seq(Frames) /\ Q \in Seq(Frames)
      /\ Cat(Q, c) \in Seq(Frames) /\ Cat(B, Cat(Q, c)) \in Seq(Frames)
  BY PartsType
<1>2. /\ Parts(w, b, q, Cat(c, d), id) = Cat(W, Cat(B, Cat(Q, Cat(c, d))))
      /\ Parts(w, b, q, c, id) = Cat(W, Cat(B, Cat(Q, c)))
  BY DEF Parts
<1> HIDE DEF W, B, Q
<1>3. Cat(Q, Cat(c, d)) = Cat(Cat(Q, c), d)
  BY <1>1, CatAssoc
<1>4. Cat(B, Cat(Cat(Q, c), d)) = Cat(Cat(B, Cat(Q, c)), d)
  BY <1>1, CatAssoc
<1>5. Cat(W, Cat(Cat(B, Cat(Q, c)), d)) = Cat(Cat(W, Cat(B, Cat(Q, c))), d)
  BY <1>1, CatAssoc
<1> QED
  BY <1>2, <1>3, <1>4, <1>5

----------------------------------------------------------------------------
(* A peer's own state                                                       *)

\* What has been put in the receive buffers.
GhostTypes == rcvd \in [Peers -> [Ids -> Nat]]

\* The state of peer q, but for its socket.
KeptState(q) ==
  /\ conn'[q] = conn[q] /\ entry'[q] = entry[q] /\ shared'[q] = shared[q]
  /\ written'[q] = written[q] /\ rcvd'[q] = rcvd[q] /\ rtt'[q] = rtt[q]

\* SetStreams concerns one peer.
LEMMA SetKeeps ==
  ASSUME StreamTypes, NEW p \in Peers, NEW ent, NEW S, NEW H, SetStreams(p, ent, S, H),
         NEW q \in Peers, q # p
  PROVE  entry'[q] = entry[q] /\ shared'[q] = shared[q]
BY DEF SetStreams, StreamTypes

\* The operations of a handle concern its own peer.
LEMMA HandleKeeps ==
  ASSUME StreamTypes, FrameTypes, GhostTypes, NEW p \in Endpoints, NEW j \in Ids,
         HandleAction(p, j), NEW q \in Peers, q # p
  PROVE  KeptState(q)
<1> USE EndpointsArePeers DEF connVars, pendVars, sockVars, tableVars, handleVars, ghostVars,
        StreamTypes, FrameTypes, GhostTypes, KeptState
<1>1. CASE \E n \in Nat : poll_write(p, j, n)
  BY <1>1 DEF poll_write
<1>2. CASE WritePark(p, j)
  BY <1>2 DEF WritePark
<1>3. CASE WriteSend(p, j)
  BY <1>3 DEF WriteSend
<1>4. CASE ReadCheck(p, j)
  BY <1>4 DEF ReadCheck
<1>5. CASE \E fast \in BOOLEAN : send_window_update(p, j, fast)
  BY <1>5 DEF send_window_update
<1>6. CASE \E k \in 0 .. shared[p][j].buf : ReadCopy(p, j, k)
  BY <1>6 DEF ReadCopy, CopyOrPark
<1>7. CASE \E k \in 0 .. shared[p][j].buf : ReadUpdateSend(p, j, k)
  BY <1>7 DEF ReadUpdateSend, CopyOrPark
<1>8. CASE poll_close(p, j)
  BY <1>8 DEF poll_close
<1>9. CASE CloseDone(p, j)
  BY <1>9 DEF CloseDone
<1>10. CASE DropHandle(p, j)
  BY <1>10, SetKeeps DEF DropHandle
<1> QED
  BY <1>1, <1>2, <1>3, <1>4, <1>5, <1>6, <1>7, <1>8, <1>9, <1>10 DEF HandleAction

\* So do the handlers of frames.
LEMMA OnFrameKeepsRest ==
  ASSUME StreamTypes, FrameTypes, GhostTypes, NEW p \in Endpoints,
         on_frame(p), NEW q \in Peers, q # p
  PROVE  KeptState(q)
<1> USE EndpointsArePeers DEF connVars, pendVars, sockVars, tableVars, handleVars, ghostVars,
        StreamTypes, FrameTypes, GhostTypes, KeptState
<1> DEFINE f == Head(wire[Other(p)])
<1>1. CASE OnUnknown(p, f)
  BY <1>1 DEF OnUnknown
<1>2. CASE OnReset(p, f)
  BY <1>2, SetKeeps DEF OnReset
<1>3. CASE RejectSyn(p, f)
  BY <1>3, SetKeeps DEF RejectSyn, Terminate
<1>4. CASE AcceptSyn(p, f)
  BY <1>4, SetKeeps DEF AcceptSyn
<1>5. CASE on_data(p, f)
  <2> HIDE DEF f
  <2>1. \E ent, S : SetStreams(p, ent, S, handle[p])
    BY <1>5 DEF on_data, Terminate
  <2>2. entry'[q] = entry[q] /\ shared'[q] = shared[q]
    BY <2>1, SetKeeps
  <2>3. conn' = conn /\ written' = written /\ rtt' = rtt
    BY <1>5 DEF on_data, Terminate
  <2>4. rcvd'[q] = rcvd[q]
    BY <1>5 DEF on_data, Terminate
  <2> QED
    BY <2>2, <2>3, <2>4
<1>6. CASE on_window_update(p, f)
  BY <1>6, SetKeeps DEF on_window_update, Terminate
<1>7. CASE on_ping(p, f)
  BY <1>7 DEF on_ping
<1>8. CASE handle_pong(p, f)
  BY <1>8 DEF handle_pong
<1> QED
  BY <1>1, <1>2, <1>3, <1>4, <1>5, <1>6, <1>7, <1>8 DEF on_frame

\* So do frames that go out.
LEMMA SendingKeeps ==
  ASSUME StreamTypes, FrameTypes, GhostTypes, NEW p \in Endpoints,
         Sending(p) \/ \E j \in Ids : on_drop_stream(p, j), NEW q \in Peers, q # p
  PROVE  KeptState(q)
<1> USE EndpointsArePeers DEF connVars, pendVars, sockVars, tableVars, handleVars, ghostVars,
        StreamTypes, FrameTypes, GhostTypes, KeptState
<1>1. CASE PollPing(p)
  BY <1>1 DEF PollPing
<1>2. CASE PollSend(p)
  BY <1>2 DEF PollSend
<1>3. CASE PingInterval(p)
  BY <1>3 DEF PingInterval
<1>4. CASE OpenWait(p)
  BY <1>4 DEF OpenWait
<1>5. CASE \E j \in Ids : PollCommand(p, j)
  BY <1>5 DEF PollCommand
<1>6. CASE \E j \in Ids : DrainCommand(p, j)
  BY <1>6 DEF DrainCommand
<1>7. CASE FlushFrame(p) /\ pendQ[p] # <<>>
  BY <1>7 DEF FlushFrame
<1>8. CASE \E j \in Ids : on_drop_stream(p, j)
  BY <1>8, SetKeeps DEF on_drop_stream
<1> QED
  BY <1>1, <1>2, <1>3, <1>4, <1>5, <1>6, <1>7, <1>8 DEF Sending

\* So do the end of a connection, and an outbound stream.
LEMMA EndingKeeps ==
  ASSUME StreamTypes, FrameTypes, GhostTypes, NEW p \in Endpoints,
         Ending(p) \/ poll_new_outbound(p), NEW q \in Peers, q # p
  PROVE  KeptState(q)
<1> USE EndpointsArePeers DEF connVars, pendVars, sockVars, tableVars, handleVars, ghostVars,
        StreamTypes, FrameTypes, GhostTypes, KeptState
<1>1. CASE PollFail(p)
  BY <1>1, SetKeeps DEF PollFail, cleanup, DropAllStreams
<1>2. CASE OpenFail(p)
  BY <1>2, SetKeeps DEF OpenFail, cleanup, DropAllStreams
<1>3. CASE connection_close(p)
  BY <1>3, SetKeeps DEF connection_close, Goto
<1>4. CASE connection_drop(p)
  BY <1>4, SetKeeps DEF connection_drop, DropAllStreams, Goto
<1>5. CASE CloseAllReceivers(p)
  BY <1>5 DEF CloseAllReceivers, Goto
<1>6. CASE DrainDone(p)
  BY <1>6 DEF DrainDone, Goto
<1>7. CASE CloseSocket(p)
  BY <1>7 DEF CloseSocket, Goto
<1>8. CASE ClosingError(p)
  BY <1>8 DEF ClosingError, Goto
<1>9. CASE CleanupDrain(p)
  BY <1>9 DEF CleanupDrain, Goto
<1>10. CASE FlushFrame(p)
  BY <1>10 DEF FlushFrame, Goto
<1>11. CASE poll_new_outbound(p)
  BY <1>11, SetKeeps DEF poll_new_outbound
<1> QED
  BY <1>1, <1>2, <1>3, <1>4, <1>5, <1>6, <1>7, <1>8, <1>9, <1>10, <1>11 DEF Ending

\* Whatever an endpoint does concerns its own state and the socket.
LEMMA EndpointKeeps ==
  ASSUME StreamTypes, FrameTypes, GhostTypes, NEW p \in Endpoints,
         EndpointStep(p), NEW q \in Peers, q # p
  PROVE  KeptState(q)
BY EndpointActions, HandleKeeps, OnFrameKeepsRest, SendingKeeps, EndingKeeps

----------------------------------------------------------------------------
(* The operations of a handle and their frames                              *)

\* The commands of stream id: no reset, and a FIN goes alone.
Cmds(id) ==
  {f \in Frames :
     /\ IsStreamFrame(f) /\ f.id = id /\ "RST" \notin f.flags
     /\ "FIN" \in f.flags => f.tag = "Data" /\ f.len = 0 /\ "SYN" \notin f.flags}

\* The handle of j begins an operation that sends f, the first frame with its
\* flag.
Starts(p, j, kind, f) ==
  LET h == handle[p][j]
      g == handle'[p][j]
  IN  /\ h.life = "live" /\ h.op.kind \notin FrameOps
      /\ g.life = h.life /\ g.flag = "None" /\ g.closes = h.closes
      /\ g.op.kind = kind /\ g.op.frame = f
      /\ f \in Cmds(j) /\ "FIN" \notin f.flags
      /\ "SYN" \in f.flags <=> h.flag = "Syn"

\* poll_write: credit is spent.
OpWrite(p, j, f) ==
  LET s == shared[p][j]
      t == shared'[p][j]
  IN  /\ Starts(p, j, "write", f) /\ handle[p][j].op.kind = "idle"
      /\ f.tag = "Data" /\ f.pos = written[p][j] /\ f.len <= s.fc.send_window
      /\ t.fc.send_window = s.fc.send_window - f.len
      /\ t.fc.receive_window = s.fc.receive_window
      /\ t.fc.max_receive_window = s.fc.max_receive_window
      /\ t.state \in {s.state, update_state(s.state, "OpenAcked")}
      /\ can_write(s.state) /\ s.state # "None" /\ rx[p][j] # "closed"

\* send_window_update: credit is granted.
OpGrant(p, j, f) ==
  LET s == shared[p][j]
      t == shared'[p][j]
  IN  /\ Starts(p, j, "read", f) /\ handle[p][j].op.kind = "check"
      /\ f.tag = "WindowUpdate"
      /\ t.fc.send_window = s.fc.send_window
      /\ t.fc.receive_window = s.fc.receive_window + f.len
      /\ t.state = s.state

\* start_send queues the frame, or the frame is gone: the receiver is closed.
\* While Closing drains the channels a body may still be queued.
Queues(p, j) ==
  LET op == handle[p][j].op
  IN  /\ rx[p][j] = "closed" => conn[p] = "Draining" /\ op.kind = "write"
      /\ chan'[p][j] = Append(chan[p][j], op.frame)
      /\ op.kind = "write" => written'[p][j] = written[p][j] + op.frame.len
      /\ op.kind = "read" => written'[p][j] = written[p][j]

Lapses(p, j) ==
  rx[p][j] = "closed" /\ chan'[p][j] = chan[p][j] /\ written'[p][j] = written[p][j]

\* start_send of a body or of a window update.
OpSend(p, j) ==
  LET h == handle[p][j]
      g == handle'[p][j]
  IN  /\ h.life = "live" /\ h.op.kind \in FrameOps
      /\ g = [h EXCEPT !.op = Idle]
      /\ shared'[p][j].fc = shared[p][j].fc /\ shared'[p][j].state = shared[p][j].state
      /\ Queues(p, j) \/ Lapses(p, j)

\* poll_close: the FIN is sent.
OpClose(p, j, f) ==
  LET h == handle[p][j]
      g == handle'[p][j]
  IN  /\ h.life = "live" /\ h.op.kind = "idle" /\ shared'[p][j] = shared[p][j]
      /\ f \in Cmds(j) /\ "FIN" \in f.flags /\ rx[p][j] # "closed"
      /\ chan'[p][j] = Append(chan[p][j], f)
      /\ g.life = h.life /\ g.op.kind = "close"
      /\ g.flag = h.flag \/ (h.flag = "Ack" /\ g.flag = "None")

\* What sends nothing: a writer parks, a reader looks at its state or takes
\* bytes out of the buffer, a close is completed.
OpRest(p, j) ==
  LET h == handle[p][j]
      g == handle'[p][j]
      s == shared[p][j]
      t == shared'[p][j]
  IN  /\ h.life = "live" /\ h.op.kind \notin FrameOps /\ t.fc = s.fc
      /\ \/ g = h /\ t.state = s.state
         \/ /\ g.life = h.life /\ g.flag = h.flag /\ h.op.kind = "idle"
            /\ g.op.kind = "check" /\ t = s /\ UpdateDue(s.fc, s.buf)
         \/ /\ g.life = h.life /\ g.flag = h.flag /\ h.op.kind = "close"
            /\ g.op.kind = "idle" /\ t.state = update_state(s.state, "SendClosed")

\* The handle goes; the table may hold the Shared still.
OpDrop(p, j) ==
  LET h == handle[p][j]
      g == handle'[p][j]
  IN  /\ h.life = "live" /\ h.op.kind = "idle"
      /\ g.life = "dropped" /\ g.flag = "None" /\ g.op.kind = "idle"
      /\ shared'[p][j] = IF j \in entry[p] THEN shared[p][j] ELSE NoShared

OpSilent(p, j) == chan'[p][j] = chan[p][j] /\ written'[p][j] = written[p][j]

HandleMove(p, j) ==
  \/ \E f : (OpWrite(p, j, f) \/ OpGrant(p, j, f)) /\ OpSilent(p, j)
  \/ OpSend(p, j)
  \/ \E f : OpClose(p, j, f) /\ written'[p][j] = written[p][j]
  \/ (OpRest(p, j) \/ OpDrop(p, j)) /\ OpSilent(p, j)

\* Nothing else of p changes.
ElseKept(p, j) ==
  /\ wire'[p] = wire[p] /\ pendR'[p] = pendR[p] /\ pendW'[p] = pendW[p]
  /\ pendQ'[p] = pendQ[p] /\ conn'[p] = conn[p] /\ entry'[p] = entry[p]
  /\ rx'[p] = rx[p] /\ rcvd'[p] = rcvd[p] /\ rtt'[p] = rtt[p]
  /\ \A id \in Ids \ {j} :
       /\ handle'[p][id] = handle[p][id] /\ shared'[p][id] = shared[p][id]
       /\ chan'[p][id] = chan[p][id] /\ written'[p][id] = written[p][id]

\* A frame that is no FIN and carries the flag of the handle of j.
Flagged(p, j, f, k) ==
  /\ f \in Cmds(j) /\ "FIN" \notin f.flags /\ f.len = k
  /\ "SYN" \in f.flags <=> handle[p][j].flag = "Syn"

\* The flags of such a frame.
LEMMA FlagSet ==
  ASSUME NEW p \in Peers, NEW j \in Ids, handle[p][j] \in Handles
  PROVE  /\ add_flag(p, j) \in SUBSET Flags
         /\ "FIN" \notin add_flag(p, j) /\ "RST" \notin add_flag(p, j)
         /\ "SYN" \in add_flag(p, j) <=> handle[p][j].flag = "Syn"
<1>1. /\ handle[p][j].flag = "Syn" => add_flag(p, j) = {"SYN"}
      /\ handle[p][j].flag # "Syn" => add_flag(p, j) \in {{"ACK"}, {}}
  BY DEF Handles, add_flag
<1> QED
  BY <1>1 DEF Flags

\* A data frame is a command.
LEMMA DataCommand ==
  ASSUME NEW p \in Peers, NEW j \in Ids, handle[p][j] \in Handles, NEW k \in 0 .. U32_MAX,
         NEW m \in Nat
  PROVE  Flagged(p, j, with_flags(data(j, m, k), add_flag(p, j)), k)
<1>1. PICK fl \in SUBSET Flags : /\ fl = add_flag(p, j) /\ "FIN" \notin fl /\ "RST" \notin fl
                                 /\ "SYN" \in fl <=> handle[p][j].flag = "Syn"
  BY FlagSet
<1>2. j \in 0 .. NumIds
  BY EndpointAssumption DEF Ids
<1>3. PICK f : f = with_flags(data(j, m, k), add_flag(p, j))
  OBVIOUS
<1>4. f = [tag |-> "Data", flags |-> fl, id |-> j, len |-> k, pos |-> m]
  BY <1>1, <1>3 DEF with_flags, data, Header
<1>5. Flagged(p, j, f, k)
  BY <1>1, <1>2, <1>4 DEF Flagged, Cmds, Frames, IsStreamFrame, Tags
<1> QED
  BY <1>3, <1>5

\* So is a window update.
LEMMA CreditCommand ==
  ASSUME NEW p \in Peers, NEW j \in Ids, handle[p][j] \in Handles, NEW k \in 0 .. U32_MAX
  PROVE  Flagged(p, j, with_flags(window_update(j, k), add_flag(p, j)), k)
<1>1. PICK fl \in SUBSET Flags : /\ fl = add_flag(p, j) /\ "FIN" \notin fl /\ "RST" \notin fl
                                 /\ "SYN" \in fl <=> handle[p][j].flag = "Syn"
  BY FlagSet
<1>2. j \in 0 .. NumIds
  BY EndpointAssumption DEF Ids
<1>3. PICK f : f = with_flags(window_update(j, k), add_flag(p, j))
  OBVIOUS
<1>4. f = [tag |-> "WindowUpdate", flags |-> fl, id |-> j, len |-> k, pos |-> 0]
  BY <1>1, <1>3 DEF with_flags, window_update, Header
<1>5. Flagged(p, j, f, k)
  BY <1>1, <1>2, <1>4 DEF Flagged, Cmds, Frames, IsStreamFrame, Tags
<1> QED
  BY <1>3, <1>5

\* So is a FIN.
LEMMA FinCommand ==
  ASSUME NEW j \in Ids, NEW ack \in BOOLEAN
  PROVE  close_stream(j, ack) \in Cmds(j) /\ "FIN" \in close_stream(j, ack).flags
<1>1. PICK c : c = {"FIN"} \cup (IF ack THEN {"ACK"} ELSE {})
  OBVIOUS
<1>2. c \in SUBSET Flags /\ "RST" \notin c /\ "SYN" \notin c /\ "FIN" \in c
  BY <1>1 DEF Flags
<1>3. close_stream(j, ack) = [tag |-> "Data", flags |-> c, id |-> j, len |-> 0, pos |-> 0]
  BY <1>1 DEF close_stream, Header
<1>4. 0 \in 0 .. U32_MAX /\ j \in 0 .. NumIds
  BY FlowAssumption, EndpointAssumption DEF Ids
<1> QED
  BY <1>2, <1>3, <1>4 DEF Cmds, Frames, IsStreamFrame, Tags

\* Each operation of a handle is one of these.
LEMMA HandleMoves ==
  ASSUME StreamTypes, FrameTypes, GhostTypes, StreamsOK, NEW p \in Endpoints, NEW j \in Ids,
         HandleAction(p, j)
  PROVE  HandleMove(p, j) /\ ElseKept(p, j)
<1>1. /\ p \in Peers /\ handle[p][j] \in Handles /\ handle \in [Peers -> [Ids -> Handles]]
      /\ chan \in [Peers -> [Ids -> Seq(Frames)]] /\ shared \in [Peers -> [Ids -> SharedSet]]
      /\ shared[p][j] \in SharedSet /\ written \in [Peers -> [Ids -> Nat]]
      /\ entry \in [Peers -> SUBSET Ids]
  BY EndpointsArePeers DEF StreamTypes, FrameTypes
<1>2. ElseKept(p, j)
  <2>1. UNCHANGED <<wire, pendR, pendW, pendQ, rx>>
    BY HandleOperates
  <2>2. OneStream(p, j)
    BY HandleActionKeeps DEF StreamStep
  <2>3. \A id \in Ids \ {j} : chan'[p][id] = chan[p][id]
    BY <1>1, HandleOperates DEF Operates
  <2>4. UNCHANGED <<rcvd, rtt, conn>> /\ (UNCHANGED written \/ WriteSend(p, j))
    BY DEF HandleAction, poll_write, WritePark, WriteSend, ReadCheck, send_window_update,
         ReadCopy, ReadUpdateSend, poll_close, CloseDone, DropHandle, connVars, ghostVars
  <2>6. \A id \in Ids \ {j} : written'[p][id] = written[p][id]
    <3>1. CASE WriteSend(p, j)
      BY <1>1, <3>1 DEF WriteSend
    <3> QED
      BY <2>4, <3>1
  <2>5. entry'[p] = entry[p]
    BY <1>1 DEF HandleAction, poll_write, WritePark, WriteSend, ReadCheck, send_window_update,
         ReadCopy, ReadUpdateSend, poll_close, CloseDone, DropHandle, tableVars, SetStreams
  <2> QED
    BY <1>1, <2>1, <2>2, <2>3, <2>4, <2>5, <2>6 DEF ElseKept, OneStream
<1>3. StreamOK(conn[p], j \in entry[p], rx[p][j], shared[p][j], handle[p][j])
  BY DEF StreamsOK
<1>4. handle[p][j].life = "live" => shared[p][j].state # "None"
  BY <1>3 DEF StreamOK, Held
<1>5. handle[p][j].op.kind # "idle" => handle[p][j].life = "live"
  BY <1>3 DEF StreamOK, Held
<1>6. CASE \E n \in Nat : poll_write(p, j, n)
  <2>1. PICK n \in Nat : poll_write(p, j, n)
    BY <1>6
  <2>2. PICK k \in 0 .. U32_MAX : k = Accepted(p, j, n) /\ k <= shared[p][j].fc.send_window
    <3>1. shared[p][j].fc.send_window \in 0 .. U32_MAX /\ SplitSendSize \in Nat /\ U32_MAX \in Nat
      BY <1>1, FlowAssumption, EndpointAssumption DEF SharedSet
    <3> QED
      BY <3>1 DEF Accepted, Min2
  <2>3. PICK f : f = with_flags(data(j, written[p][j], k), add_flag(p, j))
    OBVIOUS
  <2>4. f \in Cmds(j) /\ "FIN" \notin f.flags /\ f.len = k
        /\ ("SYN" \in f.flags <=> handle[p][j].flag = "Syn")
    <3>1. PICK m \in Nat : m = written[p][j]
      BY <1>1
    <3>2. f = with_flags(data(j, m, k), add_flag(p, j))
      BY <2>3, <3>1
    <3>3. Flagged(p, j, f, k)
      BY <1>1, <3>2, DataCommand
    <3> QED
      BY <3>3 DEF Flagged
  <2>5. f.tag = "Data" /\ f.pos = written[p][j]
    BY <2>3 DEF with_flags, data, Header
  <2>6. PICK s : s = [shared[p][j] EXCEPT !.fc = consume_send_window(@, k)]
    OBVIOUS
  <2>7. shared'[p][j] \in {s, To(s, "OpenAcked")}
    BY <1>1, <2>1, <2>2, <2>3, <2>6 DEF poll_write
  <2>8. /\ s.fc.send_window = shared[p][j].fc.send_window - k
        /\ s.fc.receive_window = shared[p][j].fc.receive_window
        /\ s.fc.max_receive_window = shared[p][j].fc.max_receive_window
        /\ s.state = shared[p][j].state
    BY <1>1, <2>6 DEF SharedSet, consume_send_window
  <2>9. To(s, "OpenAcked").fc = s.fc
        /\ To(s, "OpenAcked").state = update_state(s.state, "OpenAcked")
    BY <1>1, <2>6 DEF SharedSet, To
  <2>10. Starts(p, j, "write", f) /\ handle[p][j].op.kind = "idle"
    <3>1. handle[p][j].life = "live" /\ handle[p][j].op = Idle
      BY <2>1 DEF poll_write, WriteReady, Free, live
    <3>2. handle'[p][j] = [handle[p][j] EXCEPT !.flag = "None",
                                               !.op = [kind |-> "write", frame |-> f]]
      BY <1>1, <2>1, <2>2, <2>3 DEF poll_write, BeginOp, Handles
    <3> QED
      BY <1>1, <2>4, <3>1, <3>2 DEF Starts, Handles, Idle, FrameOps
  <2>11. can_write(shared[p][j].state) /\ shared[p][j].state # "None" /\ rx[p][j] # "closed"
    BY <1>4, <2>1, <2>10 DEF poll_write, WriteReady, Starts, ChanClosed
  <2>12. OpSilent(p, j)
    BY <2>1 DEF poll_write, OpSilent, ghostVars
  <2>13. OpWrite(p, j, f)
    BY <2>2, <2>4, <2>5, <2>7, <2>8, <2>9, <2>10, <2>11 DEF OpWrite
  <2> QED
    BY <1>2, <2>12, <2>13 DEF HandleMove
<1>7. CASE \E fast \in BOOLEAN : send_window_update(p, j, fast)
  <2>1. PICK fast \in BOOLEAN : send_window_update(p, j, fast)
    BY <1>7
  <2>2. handle[p][j].op.kind = "check" /\ handle[p][j].life = "live"
        /\ shared[p][j].state # "None"
    BY <1>4, <1>5, <2>1 DEF send_window_update
  <2>3. acc[p] \in Int /\ acc[p] <= GrowthBudget
    BY <1>1 DEF StreamTypes
  <2>4. PICK k \in 0 .. U32_MAX : k = NextCredit(shared[p][j].fc, acc[p], fast, shared[p][j].buf)
    BY <1>1, <1>3, <2>2, <2>3, UpdateStep
  <2>5. PICK f : f = with_flags(window_update(j, k), add_flag(p, j))
    OBVIOUS
  <2>6. f \in Cmds(j) /\ "FIN" \notin f.flags /\ f.len = k
        /\ ("SYN" \in f.flags <=> handle[p][j].flag = "Syn")
    <3>1. Flagged(p, j, f, k)
      BY <1>1, <2>5, CreditCommand
    <3> QED
      BY <3>1 DEF Flagged
  <2>7. f.tag = "WindowUpdate"
    BY <2>5 DEF with_flags, window_update, Header
  <2>8. shared'[p][j] = [shared[p][j] EXCEPT !.fc = AfterUpdate(@, acc[p], fast, shared[p][j].buf)]
    BY <1>1, <2>1 DEF send_window_update
  <2>9. /\ shared'[p][j].fc.send_window = shared[p][j].fc.send_window
        /\ shared'[p][j].fc.receive_window = shared[p][j].fc.receive_window + k
        /\ shared'[p][j].state = shared[p][j].state
    BY <1>1, <2>4, <2>8 DEF SharedSet, AfterUpdate
  <2>10. Starts(p, j, "read", f)
    <3>1. handle'[p][j] = [handle[p][j] EXCEPT !.flag = "None",
                                               !.op = [kind |-> "read", frame |-> f]]
      BY <1>1, <2>1, <2>4, <2>5 DEF send_window_update, BeginOp, Handles
    <3> QED
      BY <1>1, <2>2, <2>6, <3>1 DEF Starts, Handles, FrameOps
  <2>11. OpSilent(p, j)
    BY <2>1 DEF send_window_update, OpSilent, ghostVars
  <2> QED
    BY <1>2, <2>2, <2>6, <2>7, <2>9, <2>10, <2>11 DEF HandleMove, OpGrant
<1>8. CASE WriteSend(p, j)
  <2>1. handle[p][j].op.kind = "write" /\ handle[p][j].life = "live"
    BY <1>5, <1>8 DEF WriteSend
  <2>2. handle'[p][j] = [handle[p][j] EXCEPT !.op = Idle]
    BY <1>1, <1>8 DEF WriteSend, EndOp
  <2>3. shared'[p][j] = shared[p][j]
    BY <1>8 DEF WriteSend, tableVars
  <2>4. Queues(p, j) \/ Lapses(p, j)
    BY <1>1, <1>8, <2>1 DEF WriteSend, ChanClosed, Queues, Lapses
  <2> QED
    BY <1>2, <2>1, <2>2, <2>3, <2>4 DEF HandleMove, OpSend, FrameOps
<1>9. CASE \E k \in 0 .. shared[p][j].buf : ReadUpdateSend(p, j, k)
  <2>0. PICK k \in 0 .. shared[p][j].buf : ReadUpdateSend(p, j, k)
    BY <1>9
  <2>1. handle[p][j].op.kind = "read" /\ handle[p][j].life = "live"
    BY <1>5, <2>0 DEF ReadUpdateSend
  <2>2. handle'[p][j] = [handle[p][j] EXCEPT !.op = Idle]
    BY <1>1, <2>0 DEF ReadUpdateSend, EndOp
  <2>3. shared'[p][j].fc = shared[p][j].fc /\ shared'[p][j].state = shared[p][j].state
    <3>1. CASE UNCHANGED shared
      BY <3>1
    <3>2. CASE CopyOrPark(p, j, k)
      BY <1>1, <3>2 DEF CopyOrPark, SharedSet
    <3> QED
      BY <2>0, <3>1, <3>2 DEF ReadUpdateSend
  <2>4. rx[p][j] = "closed" => chan'[p][j] = chan[p][j]
    BY <2>0 DEF ReadUpdateSend, ChanClosed
  <2>5. rx[p][j] # "closed" => chan'[p][j] = Append(chan[p][j], handle[p][j].op.frame)
    BY <1>1, <2>0 DEF ReadUpdateSend, ChanClosed
  <2>6. written'[p][j] = written[p][j]
    BY <2>0 DEF ReadUpdateSend, ghostVars
  <2>7. Queues(p, j) \/ Lapses(p, j)
    BY <2>1, <2>4, <2>5, <2>6 DEF Queues, Lapses
  <2> QED
    BY <1>2, <2>1, <2>2, <2>3, <2>7 DEF HandleMove, OpSend, FrameOps
<1>10. CASE poll_close(p, j)
  <2>1. PICK ack \in BOOLEAN : ack = (handle[p][j].flag = "Ack")
    OBVIOUS
  <2>2. PICK f : f = close_stream(j, ack)
    OBVIOUS
  <2>3. f \in Cmds(j) /\ "FIN" \in f.flags
    BY <2>2, FinCommand
  <2>4. /\ handle[p][j].life = "live" /\ handle[p][j].op.kind = "idle"
        /\ rx[p][j] # "closed" /\ shared'[p][j] = shared[p][j]
        /\ written'[p][j] = written[p][j]
    BY <1>10 DEF poll_close, Free, live, Idle, ChanClosed, tableVars, ghostVars
  <2>5. chan'[p][j] = Append(chan[p][j], f)
    BY <1>1, <1>10, <2>1, <2>2 DEF poll_close
  <2>6. handle'[p][j] = [handle[p][j] EXCEPT !.flag = IF ack THEN "None" ELSE @,
                          !.op = [kind |-> "close", frame |-> f], !.closes = @ + 1]
    BY <1>1, <1>10, <2>1, <2>2 DEF poll_close
  <2>8. ack => handle[p][j].flag = "Ack"
    BY <2>1
  <2>7. /\ handle'[p][j].life = handle[p][j].life /\ handle'[p][j].op.kind = "close"
        /\ \/ handle'[p][j].flag = handle[p][j].flag
           \/ handle[p][j].flag = "Ack" /\ handle'[p][j].flag = "None"
    <3>1. CASE ack
      BY <1>1, <2>6, <2>8, <3>1 DEF Handles
    <3>2. CASE ~ack
      BY <1>1, <2>6, <3>2 DEF Handles
    <3> QED
      BY <3>1, <3>2
  <2> QED
    BY <1>2, <2>3, <2>4, <2>5, <2>7 DEF HandleMove, OpClose
<1>11. CASE WritePark(p, j)
  <2>1. /\ handle[p][j].life = "live" /\ handle[p][j].op = Idle /\ UNCHANGED <<handle, chan, written>>
        /\ shared'[p][j] = [shared[p][j] EXCEPT !.writer = TRUE]
    BY <1>1, <1>11 DEF WritePark, WriteReady, Free, live, handleVars, ghostVars
  <2>2. shared'[p][j].fc = shared[p][j].fc /\ shared'[p][j].state = shared[p][j].state
    BY <1>1, <2>1 DEF SharedSet
  <2> QED
    BY <1>2, <2>1, <2>2 DEF HandleMove, OpRest, OpSilent, Idle, FrameOps
<1>12. CASE ReadCheck(p, j)
  <2>1. /\ handle[p][j].life = "live" /\ handle[p][j].op = Idle /\ UNCHANGED <<shared, chan, written>>
        /\ handle'[p][j] = [handle[p][j] EXCEPT !.op = [kind |-> "check", frame |-> term]]
    BY <1>1, <1>12 DEF ReadCheck, ReadReady, Free, live, tableVars, ghostVars
  <2>2. UpdateDue(shared[p][j].fc, shared[p][j].buf)
    BY <1>12 DEF ReadCheck, ReadStep
  <2>3. handle'[p][j].life = "live" /\ handle'[p][j].flag = handle[p][j].flag
        /\ handle'[p][j].op.kind = "check"
    BY <1>1, <2>1 DEF Handles
  <2> QED
    BY <1>2, <2>1, <2>2, <2>3 DEF HandleMove, OpRest, OpSilent, Idle, FrameOps
<1>13. CASE \E k \in 0 .. shared[p][j].buf : ReadCopy(p, j, k)
  <2>0. PICK k \in 0 .. shared[p][j].buf : ReadCopy(p, j, k)
    BY <1>13
  <2>1. /\ handle[p][j].life = "live" /\ handle[p][j].op = Idle /\ UNCHANGED <<handle, chan, written>>
    BY <2>0 DEF ReadCopy, ReadReady, Free, live, handleVars, ghostVars
  <2>2. shared'[p][j].fc = shared[p][j].fc /\ shared'[p][j].state = shared[p][j].state
    BY <1>1, <2>0 DEF ReadCopy, CopyOrPark, SharedSet
  <2> QED
    BY <1>2, <2>1, <2>2 DEF HandleMove, OpRest, OpSilent, Idle, FrameOps
<1>14. CASE CloseDone(p, j)
  <2>1. /\ handle[p][j].op.kind = "close" /\ UNCHANGED <<chan, written>>
        /\ handle'[p][j] = [handle[p][j] EXCEPT !.op = Idle]
        /\ shared'[p][j] = To(shared[p][j], "SendClosed")
    BY <1>1, <1>14 DEF CloseDone, EndOp, ghostVars
  <2>2. /\ shared'[p][j].fc = shared[p][j].fc
        /\ shared'[p][j].state = update_state(shared[p][j].state, "SendClosed")
    BY <1>1, <2>1 DEF SharedSet, To
  <2>3. handle'[p][j].life = handle[p][j].life /\ handle'[p][j].flag = handle[p][j].flag
        /\ handle'[p][j].op.kind = "idle"
    BY <1>1, <2>1 DEF Handles, Idle
  <2> QED
    BY <1>2, <1>5, <2>1, <2>2, <2>3 DEF HandleMove, OpRest, OpSilent, FrameOps
<1>15. CASE DropHandle(p, j)
  <2>1. PICK h : h = [NoHandle EXCEPT !.life = "dropped"]
    OBVIOUS
  <2>2. h \in Handles /\ h.life = "dropped" /\ h.flag = "None" /\ h.op.kind = "idle"
    BY <2>1, IdleOp DEF Handles, NoHandle
  <2>3. PICK H : H = [handle[p] EXCEPT ![j] = h]
    OBVIOUS
  <2>4. handle' = [handle EXCEPT ![p] = H] /\ SetStreams(p, entry[p], shared[p], H)
        /\ handle[p][j].life = "live" /\ handle[p][j].op = Idle /\ UNCHANGED <<chan, written>>
    BY <1>15, <2>1, <2>3 DEF DropHandle, Free, live, ghostVars
  <2>5. handle'[p][j] = h
    BY <1>1, <2>3, <2>4
  <2>7. shared'[p][j] = Kept(j, entry[p], h, shared[p][j])
    <3>1. H[j] = h /\ shared[p][j].state # "None"
      BY <1>1, <1>4, <2>3, <2>4
    <3>2. shared'[p][j] = IF j \notin entry[p] /\ H[j].life # "live" THEN NoShared
                          ELSE shared[p][j]
      BY <1>1, <2>4, <3>1 DEF SetStreams
    <3> QED
      BY <2>2, <3>1, <3>2 DEF Kept
  <2> QED
    BY <1>2, <2>2, <2>4, <2>5, <2>7 DEF HandleMove, OpDrop, OpSilent, Idle, Kept
<1> QED
  BY <1>6, <1>7, <1>8, <1>9, <1>10, <1>11, <1>12, <1>13, <1>14, <1>15 DEF HandleAction

----------------------------------------------------------------------------
(* The slots and the channels                                               *)

AtMostOne(s) == s = Nil \/ \E f \in Frames : s = One(f)

\* The slots for pending frames hold one frame each and are given up with the
\* active state; the queue belongs to Closing.
Slots(p) ==
  /\ AtMostOne(pendR[p]) /\ AtMostOne(pendW[p])
  /\ conn[p] # "Active" => pendR[p] = Nil /\ pendW[p] = Nil
  /\ conn[p] \notin {"ClosingReceivers", "Draining", "Flushing"} => pendQ[p] = Nil

\* The channels and the operations hold commands of their streams.
Commands(p) ==
  \A id \in Ids :
    /\ chan[p][id] \in Seq(Cmds(id))
    /\ handle[p][id].op.kind \in FrameOps => handle[p][id].op.frame \in Cmds(id)

\* The slots while frames go out.
LEMMA SendingSlots ==
  ASSUME StreamTypes, FrameTypes, NEW p \in Endpoints, Slots(p),
         Sending(p) \/ \E j \in Ids : on_drop_stream(p, j)
  PROVE  Slots(p)'
<1> USE EndpointsArePeers DEF connVars, pendVars, sockVars, tableVars, handleVars, ghostVars,
        StreamTypes, FrameTypes
<1>0. p \in Peers
  OBVIOUS
<1>1. CASE PollPing(p)
  BY <1>0, <1>1 DEF PollPing, Slots
<1>2. CASE PollSend(p)
  BY <1>0, <1>2 DEF PollSend, Slots, AtMostOne, Nil
<1>3. CASE PingInterval(p)
  BY <1>0, <1>3 DEF PingInterval, Slots
<1>4. CASE OpenWait(p)
  BY <1>0, <1>4 DEF OpenWait, Slots
<1>5. CASE \E j \in Ids : PollCommand(p, j)
  <2>1. PICK j \in Ids : PollCommand(p, j)
    BY <1>5
  <2>2. Head(chan[p][j]) \in Frames
    BY <1>0, <2>1 DEF PollCommand
  <2>3. pendW'[p] = One(Head(chan[p][j])) /\ conn'[p] = "Active" /\ conn[p] = "Active"
        /\ pendR' = pendR /\ pendQ' = pendQ
    BY <1>0, <2>1 DEF PollCommand, Active, One
  <2> QED
    BY <2>2, <2>3 DEF Slots, AtMostOne
<1>6. CASE \E j \in Ids : DrainCommand(p, j)
  <2>1. conn[p] = "Draining" /\ conn' = conn /\ pendR' = pendR /\ pendW' = pendW
    BY <1>6 DEF DrainCommand
  <2> QED
    BY <2>1 DEF Slots
<1>7. CASE FlushFrame(p) /\ pendQ[p] # <<>>
  <2>1. conn[p] = "Flushing" /\ conn' = conn /\ pendR' = pendR /\ pendW' = pendW
    BY <1>7 DEF FlushFrame
  <2> QED
    BY <2>1 DEF Slots
<1>8. CASE \E j \in Ids : on_drop_stream(p, j)
  <2>1. PICK j \in Ids : on_drop_stream(p, j)
    BY <1>8
  <2>2. /\ conn[p] = "Active" /\ conn' = conn /\ pendR' = pendR /\ pendQ' = pendQ
        /\ pendW'[p] \in {pendW[p], DropFrame(j, shared[p][j].state)}
    BY <1>0, <2>1 DEF on_drop_stream, Active
  <2>3. AtMostOne(DropFrame(j, shared[p][j].state))
    <3>1. reset_stream(j) \in Frames /\ close_stream(j, FALSE) \in Frames
      <4>1. 0 \in 0 .. U32_MAX /\ 0 \in Nat /\ {} \in SUBSET Flags /\ FALSE \in BOOLEAN
        BY FlowAssumption
      <4> QED
        BY <4>1, FrameOfStream
    <3>2. DropFrame(j, shared[p][j].state)
            \in {One(reset_stream(j)), One(close_stream(j, FALSE)), Nil}
      BY DEF DropFrame, One, Nil
    <3> QED
      BY <3>1, <3>2 DEF AtMostOne
  <2> QED
    BY <2>2, <2>3 DEF Slots
<1> QED
  BY <1>1, <1>2, <1>3, <1>4, <1>5, <1>6, <1>7, <1>8 DEF Sending

\* The slots when a connection ends.
LEMMA EndingSlots ==
  ASSUME StreamTypes, FrameTypes, NEW p \in Endpoints, Slots(p), Ending(p)
  PROVE  Slots(p)'
<1> USE EndpointsArePeers DEF connVars, pendVars, sockVars, tableVars, handleVars, ghostVars,
        StreamTypes, FrameTypes
<1>0. p \in Peers /\ AtMostOne(Nil)
  BY DEF AtMostOne
<1>a. ASSUME conn[p] = "Active", cleanup(p) PROVE Slots(p)'
  BY <1>0, <1>a DEF cleanup, Slots, Nil
<1>1. CASE PollFail(p)
  BY <1>a, <1>1 DEF PollFail, Active
<1>2. CASE OpenFail(p)
  BY <1>a, <1>2 DEF OpenFail, MayOpen, Active
<1>3. CASE connection_close(p)
  <2>1. conn'[p] = "ClosingReceivers" /\ pendR'[p] = Nil /\ pendW'[p] = Nil
    BY <1>0, <1>3 DEF connection_close, Goto, Nil
  <2> QED
    BY <1>0, <2>1 DEF Slots
<1>4. CASE connection_drop(p)
  <2>1. pendR'[p] = Nil /\ pendW'[p] = Nil /\ pendQ'[p] = Nil
    BY <1>0, <1>4 DEF connection_drop, Nil
  <2> QED
    BY <1>0, <2>1 DEF Slots
<1>5. CASE CloseAllReceivers(p)
  <2>1. /\ pendR' = pendR /\ pendW' = pendW /\ pendQ' = pendQ /\ conn[p] # "Active"
        /\ \/ conn'[p] = "Draining"
           \/ conn[p] = "CleanupReceivers"
    BY <1>0, <1>5 DEF CloseAllReceivers, Goto
  <2> QED
    BY <2>1 DEF Slots
<1>6. CASE DrainDone(p)
  <2>1. pendR' = pendR /\ pendW' = pendW /\ conn[p] = "Draining" /\ conn'[p] = "Flushing"
    BY <1>0, <1>6 DEF DrainDone, Goto
  <2> QED
    BY <2>1 DEF Slots
<1>7. CASE CloseSocket(p)
  <2>1. /\ pendR' = pendR /\ pendW' = pendW /\ pendQ' = pendQ /\ conn[p] = "ClosingSocket"
    BY <1>0, <1>7 DEF CloseSocket, Goto
  <2> QED
    BY <2>1 DEF Slots
<1>8. CASE ClosingError(p)
  <2>1. /\ pendR' = pendR /\ pendW' = pendW /\ pendQ'[p] = Nil /\ conn[p] # "Active"
    BY <1>0, <1>8 DEF ClosingError, Nil
  <2> QED
    BY <2>1 DEF Slots
<1>9. CASE CleanupDrain(p)
  <2>1. /\ pendR' = pendR /\ pendW' = pendW /\ pendQ' = pendQ /\ conn[p] = "CleanupDraining"
    BY <1>0, <1>9 DEF CleanupDrain, Goto
  <2> QED
    BY <2>1 DEF Slots
<1>10. CASE FlushFrame(p) /\ pendQ[p] = <<>>
  <2>1. /\ pendR' = pendR /\ pendW' = pendW /\ pendQ'[p] = Nil /\ conn[p] = "Flushing"
    BY <1>0, <1>10 DEF FlushFrame, Nil
  <2> QED
    BY <2>1 DEF Slots
<1> QED
  BY <1>1, <1>2, <1>3, <1>4, <1>5, <1>6, <1>7, <1>8, <1>9, <1>10 DEF Ending

\* The slots when a frame arrives.
LEMMA OnFrameSlots ==
  ASSUME StreamTypes, FrameTypes, NEW p \in Endpoints, Slots(p), on_frame(p)
  PROVE  /\ Slots(p)' /\ conn[p] = "Active" /\ conn' = conn
         /\ pendW' = pendW /\ pendQ' = pendQ /\ chan' = chan /\ written' = written
<1> USE EndpointsArePeers DEF connVars, pendVars, sockVars, tableVars, handleVars, ghostVars
<1>0. /\ p \in Peers /\ pendR \in [Peers -> Seq(Frames)] /\ wire[Other(p)] # <<>>
      /\ wire[Other(p)] \in Seq(Frames)
  BY OtherPeer DEF FrameTypes, on_frame
<1>1. PICK f \in Frames : f = Head(wire[Other(p)])
  BY <1>0
<1>2. /\ AtMostOne(Nil) /\ AtMostOne(One(protocol_error)) /\ AtMostOne(One(internal_error))
      /\ AtMostOne(One(pong(f.len)))
  BY AnswerFrames DEF AtMostOne
<1>3. ASSUME NEW g, Terminate(p, f, g), g \in {protocol_error, internal_error}
      PROVE  /\ AtMostOne(pendR'[p]) /\ conn' = conn /\ pendW' = pendW /\ pendQ' = pendQ
             /\ chan' = chan /\ written' = written
  BY <1>0, <1>2, <1>3 DEF Terminate, One
<1>4. SynError(p, f) # <<>> => Head(SynError(p, f)) \in {protocol_error, internal_error}
  BY DEF SynError
<1> DEFINE Goal == /\ AtMostOne(pendR'[p]) \/ pendR' = pendR
                   /\ conn' = conn /\ pendW' = pendW /\ pendQ' = pendQ
                   /\ chan' = chan /\ written' = written
<1>14. conn[p] = "Active"
  BY DEF on_frame, OnUnknown, OnReset, RejectSyn, AcceptSyn, on_data, on_window_update,
         on_ping, handle_pong, Receive, Active
<1> SUFFICES Goal
  BY <1>14 DEF Slots
<1>5. CASE OnUnknown(p, f)
  BY <1>5 DEF OnUnknown
<1>6. CASE OnReset(p, f)
  BY <1>6 DEF OnReset
<1>7. CASE RejectSyn(p, f)
  BY <1>3, <1>4, <1>7 DEF RejectSyn
<1>8. CASE AcceptSyn(p, f)
  BY <1>8 DEF AcceptSyn
<1>9. CASE on_data(p, f)
  BY <1>3, <1>9 DEF on_data
<1>10. CASE on_window_update(p, f)
  BY <1>3, <1>10 DEF on_window_update
<1>11. CASE on_ping(p, f)
  <2>1. pendR'[p] \in {One(pong(f.len)), Nil}
    BY <1>0, <1>11 DEF on_ping, One, Nil
  <2> QED
    BY <1>2, <1>11, <2>1 DEF on_ping
<1>12. CASE handle_pong(p, f)
  <2>1. pendR'[p] = One(protocol_error) \/ pendR' = pendR
    BY <1>0, <1>12 DEF handle_pong, One
  <2> QED
    BY <1>2, <1>12, <2>1 DEF handle_pong
<1> QED
  BY <1>1, <1>5, <1>6, <1>7, <1>8, <1>9, <1>10, <1>11, <1>12 DEF on_frame

\* Whatever an endpoint does, its slots stay in order.
LEMMA SlotsStay ==
  ASSUME StreamTypes, FrameTypes, GhostTypes, StreamsOK, NEW p \in Endpoints, Slots(p),
         EndpointStep(p)
  PROVE  Slots(p)'
<1>1. ASSUME NEW j \in Ids, HandleAction(p, j) PROVE Slots(p)'
  BY <1>1, HandleMoves DEF ElseKept, Slots
<1>2. CASE poll_new_outbound(p)
  BY <1>2 DEF poll_new_outbound, pendVars, Slots
<1> QED
  BY <1>1, <1>2, EndpointActions, SendingSlots, EndingSlots, OnFrameSlots

\* A sequence of commands less its oldest, and with one more.
LEMMA CmdSeqs ==
  ASSUME NEW id, NEW s \in Seq(Cmds(id))
  PROVE  /\ s # <<>> => Tail(s) \in Seq(Cmds(id)) /\ Head(s) \in Cmds(id)
         /\ \A f \in Cmds(id) : Append(s, f) \in Seq(Cmds(id))
         /\ <<>> \in Seq(Cmds(id)) /\ s \in Seq(Frames)
<1>1. Cmds(id) \subseteq Frames
  BY DEF Cmds
<1> QED
  BY <1>1

\* Whatever an endpoint does, its channels hold commands.
LEMMA CommandsStay ==
  ASSUME StreamTypes, FrameTypes, GhostTypes, StreamsOK, NEW p \in Endpoints, OwnSide(p),
         Commands(p), EndpointStep(p)
  PROVE  Commands(p)'
<1>0. p \in Peers
  BY EndpointsArePeers
<1>1. ASSUME NEW j \in Ids, HandleAction(p, j) PROVE Commands(p)'
  <2>1. HandleMove(p, j) /\ ElseKept(p, j)
    BY <1>1, HandleMoves
  <2>2. \A id \in Ids \ {j} : chan'[p][id] = chan[p][id] /\ handle'[p][id] = handle[p][id]
    BY <2>1 DEF ElseKept
  <2>3. chan[p][j] \in Seq(Cmds(j))
        /\ (handle[p][j].op.kind \in FrameOps => handle[p][j].op.frame \in Cmds(j))
    BY DEF Commands
  <2>4. /\ chan'[p][j] \in Seq(Cmds(j))
        /\ handle'[p][j].op.kind \in FrameOps => handle'[p][j].op.frame \in Cmds(j)
    <3>1. CASE \E f : (OpWrite(p, j, f) \/ OpGrant(p, j, f)) /\ OpSilent(p, j)
      BY <2>3, <3>1 DEF OpWrite, OpGrant, OpSilent, Starts
    <3>2. CASE OpSend(p, j)
      <4>1. handle'[p][j].op.kind \notin FrameOps
        <5>1. handle[p][j] \in Handles /\ handle'[p][j] = [handle[p][j] EXCEPT !.op = Idle]
          BY <1>0, <3>2 DEF OpSend, StreamTypes
        <5> QED
          BY <5>1 DEF Idle, FrameOps, Handles
      <4>2. chan'[p][j] \in Seq(Cmds(j))
        <5>1. PICK f : f = handle[p][j].op.frame
          OBVIOUS
        <5>2. f \in Cmds(j) /\ (chan'[p][j] = chan[p][j] \/ chan'[p][j] = Append(chan[p][j], f))
          BY <2>3, <3>2, <5>1 DEF OpSend, Queues, Lapses
        <5> QED
          BY <2>3, <5>2, CmdSeqs
      <4> QED
        BY <4>1, <4>2
    <3>3. CASE \E f : OpClose(p, j, f)
      <4>1. handle'[p][j].op.kind \notin FrameOps
        BY <3>3 DEF OpClose, FrameOps
      <4>2. chan'[p][j] \in Seq(Cmds(j))
        BY <2>3, <3>3, CmdSeqs DEF OpClose
      <4> QED
        BY <4>1, <4>2
    <3>4. CASE (OpRest(p, j) \/ OpDrop(p, j)) /\ OpSilent(p, j)
      BY <2>3, <3>4 DEF OpRest, OpDrop, OpSilent, FrameOps
    <3> QED
      BY <2>1, <3>1, <3>2, <3>3, <3>4 DEF HandleMove
  <2> QED
    BY <2>2, <2>3, <2>4 DEF Commands
<1>2. CASE poll_new_outbound(p)
  <2>1. chan' = chan /\ \A id \in Ids : handle'[p][id] = handle[p][id]
                                        \/ handle'[p][id] = NewHandle("Syn")
    BY <1>0, <1>2 DEF poll_new_outbound, StreamTypes
  <2>2. NewHandle("Syn").op.kind \notin FrameOps
    BY DEF NewHandle, NoHandle, Idle, FrameOps
  <2> QED
    BY <2>1, <2>2 DEF Commands
<1>3. ASSUME OwnStep(p) PROVE Commands(p)'
  <2> SUFFICES ASSUME NEW id \in Ids
               PROVE  /\ chan'[p][id] \in Seq(Cmds(id))
                      /\ handle'[p][id].op.kind \in FrameOps
                           => handle'[p][id].op.frame \in Cmds(id)
    BY DEF Commands
  <2>1. chan[p][id] \in Seq(Cmds(id))
        /\ (handle[p][id].op.kind \in FrameOps => handle[p][id].op.frame \in Cmds(id))
    BY DEF Commands
  <2>2. handle'[p][id] = handle[p][id] \/ handle'[p][id].op.kind \notin FrameOps
    BY <1>3 DEF OwnStep
  <2>3. chan \in [Peers -> [Ids -> Seq(Frames)]]
    BY DEF FrameTypes
  <2>4. \/ chan'[p][id] \in {chan[p][id], <<>>}
        \/ chan[p][id] # <<>> /\ chan'[p][id] = Tail(chan[p][id])
    BY <1>0, <1>3, <2>3 DEF OwnStep, Carries, Loses, Adds, SendsPending, QueuesPending,
                            SendsQueued, TakesCommand
  <2>5. chan'[p][id] \in Seq(Cmds(id))
    BY <2>1, <2>4, CmdSeqs
  <2> QED
    BY <2>1, <2>2, <2>5
<1> QED
  BY <1>1, <1>2, <1>3, EndpointActions, SendingSteps, DropStreamStep, EndingSteps, OnFrameInward

----------------------------------------------------------------------------
(* What the steps do to the paths                                           *)

\* The frame of an operation.
LEMMA UnsentIs ==
  ASSUME NEW p, NEW id
  PROVE  /\ handle[p][id].op.kind \in FrameOps => Unsent(p, id) = One(handle[p][id].op.frame)
         /\ handle[p][id].op.kind \notin FrameOps => Unsent(p, id) = Nil
BY DEF Unsent, FrameOps, One, Nil

\* And after a step.
LEMMA NextUnsent ==
  ASSUME NEW p, NEW id
  PROVE  /\ handle'[p][id].op.kind \in FrameOps => Unsent(p, id)' = One(handle'[p][id].op.frame)
         /\ handle'[p][id].op.kind \notin FrameOps => Unsent(p, id)' = Nil
BY DEF Unsent, FrameOps, One, Nil

\* A path of which nothing changes.
LEMMA SamePath ==
  ASSUME NEW p, NEW id, wire'[p] = wire[p], pendR'[p] = pendR[p], pendW'[p] = pendW[p],
         pendQ'[p] = pendQ[p], conn'[p] = conn[p], chan'[p][id] = chan[p][id]
  PROVE  Path(p, id)' = Path(p, id)
BY DEF Path, Outgoing, Queued

\* The own frames of p are in order, before and after.
Orderly(p) == FrameTypes /\ OwnSide(p) /\ Slots(p) /\ Commands(p)

\* A path of which the answers alone change.
LEMMA AnswerPath ==
  ASSUME NEW p \in Peers, Orderly(p), Orderly(p)', NEW id \in Ids, wire'[p] = wire[p],
         pendW'[p] = pendW[p], pendQ'[p] = pendQ[p], conn'[p] = conn[p],
         chan'[p][id] = chan[p][id]
  PROVE  Path(p, id)' = Path(p, id)
<1>1. Queued(p, id)' = Queued(p, id)
  BY DEF Queued
<1>2. Path(p, id) = Parts(wire[p], pendW[p], pendQ[p], Queued(p, id), id)
  BY PathParts DEF Orderly
<1>3. Path(p, id)' = Parts(wire'[p], pendW'[p], pendQ'[p], Queued(p, id)', id)
  BY NextParts DEF Orderly
<1> QED
  BY <1>1, <1>2, <1>3

\* A command is given to the channel.
LEMMA ChanPath ==
  ASSUME NEW p \in Peers, Orderly(p), Orderly(p)', NEW id \in Ids, NEW f \in Frames,
         wire'[p] = wire[p], pendR'[p] = pendR[p], pendW'[p] = pendW[p],
         pendQ'[p] = pendQ[p], conn'[p] = conn[p], chan'[p][id] = Append(chan[p][id], f)
  PROVE  /\ Whole(p) => Path(p, id)' = Cat(Path(p, id), One(f))
         /\ ~Whole(p) => Path(p, id)' = Path(p, id)
<1>1. Path(p, id) = Parts(wire[p], pendW[p], pendQ[p], Queued(p, id), id)
  BY PathParts DEF Orderly
<1>2. Path(p, id)' = Parts(wire[p], pendW[p], pendQ[p], Queued(p, id)', id)
  BY NextParts DEF Orderly
<1>3. CASE Whole(p)
  <2>1. PICK c \in Seq(Frames) : c = chan[p][id]
    BY DEF Orderly, FrameTypes
  <2>2. Queued(p, id) = c /\ Queued(p, id)' = Append(c, f)
    BY <1>3, <2>1 DEF Queued, Whole
  <2>3. Append(c, f) = Cat(c, One(f)) /\ One(f) \in Seq(Frames)
    BY CatAppend, OneType
  <2>4. wire[p] \in Seq(Frames) /\ pendW[p] \in Seq(Frames) /\ pendQ[p] \in Seq(Frames)
    BY DEF Orderly, FrameTypes
  <2>5. Parts(wire[p], pendW[p], pendQ[p], Cat(c, One(f)), id)
          = Cat(Parts(wire[p], pendW[p], pendQ[p], c, id), One(f))
    BY <2>3, <2>4, PartsEnd
  <2> QED
    BY <1>1, <1>2, <1>3, <2>2, <2>3, <2>5
<1>4. CASE ~Whole(p)
  <2>1. Queued(p, id)' = Queued(p, id)
    BY <1>4 DEF Queued, Whole
  <2> QED
    BY <1>1, <1>2, <1>4, <2>1
<1> QED
  BY <1>3, <1>4

\* Commands are frames of their streams.
LEMMA CmdsAre ==
  ASSUME NEW j \in Ids, NEW f \in Cmds(j), NEW id \in Ids
  PROVE  f \in Frames /\ (f \in StreamFrames(id) <=> id = j)
<1>1. f \in Frames /\ IsStreamFrame(f) /\ f.id = j
  BY DEF Cmds
<1> QED
  BY <1>1, OfFrame

\* Frames that go out keep their place in the paths of their streams.
LEMMA SendingPath ==
  ASSUME NEW p \in Endpoints, Orderly(p), Orderly(p)', NEW id \in Ids, Sending(p)
  PROVE  Path(p, id)' = Path(p, id)
<1>0. p \in Peers
  BY EndpointsArePeers
<1>1. /\ Path(p, id) = Parts(wire[p], pendW[p], pendQ[p], Queued(p, id), id)
      /\ Queued(p, id) \in Seq(Frames)
  BY <1>0, PathParts DEF Orderly
<1>2. /\ Path(p, id)' = Parts(wire'[p], pendW'[p], pendQ'[p], Queued(p, id)', id)
      /\ Queued(p, id)' \in Seq(Frames)
  BY <1>0, NextParts DEF Orderly
<1>3. /\ wire \in [Peers -> Seq(Frames)] /\ pendW \in [Peers -> Seq(Frames)]
      /\ pendQ \in [Peers -> Seq(Frames)] /\ pendR \in [Peers -> Seq(Frames)]
      /\ chan \in [Peers -> [Ids -> Seq(Frames)]]
  BY DEF Orderly, FrameTypes
<1>4. PICK w \in Seq(Frames), b \in Seq(Frames), q \in Seq(Frames), c \in Seq(Frames) :
        w = wire[p] /\ b = pendW[p] /\ q = pendQ[p] /\ c = Queued(p, id)
  BY <1>0, <1>1, <1>3
<1> USE DEF connVars, pendVars, sockVars, tableVars, handleVars, ghostVars
<1>5. CASE PollPing(p)
  <2>1. PICK f : f = ping(rtt[p].id)
    OBVIOUS
  <2>2. f \in Frames /\ f \notin StreamFrames(id)
    <3>1. rtt[p].id \in 0 .. U32_MAX
      BY <1>0 DEF Orderly, FrameTypes, RttStates
    <3>2. f \in Frames
      BY <2>1, <3>1, FrameOfConnection
    <3>3. ~IsStreamFrame(f)
      BY <2>1 DEF ping, Header, IsStreamFrame
    <3> QED
      BY <3>2, <3>3, OfFrame
  <2>3. /\ wire'[p] = Append(w, f) /\ pendW' = pendW /\ pendQ' = pendQ
        /\ Queued(p, id)' = Queued(p, id)
    BY <1>0, <1>3, <1>4, <1>5, <2>1 DEF PollPing, SendFrame, Queued
  <2>4. Parts(Append(w, f), b, q, c, id) = Parts(w, b, q, c, id)
    BY <2>2, PartsSend
  <2> QED
    BY <1>1, <1>2, <1>4, <2>3, <2>4
<1>6. CASE PollSend(p) /\ pendR[p] # <<>>
  <2>1. PICK f \in Frames : f = Head(pendR[p])
    BY <1>0, <1>3, <1>6
  <2>2. f \notin StreamFrames(id)
    <3>1. ~IsStreamFrame(pendR[p][1]) /\ f = pendR[p][1]
      BY <1>0, <1>3, <1>6, <2>1 DEF Orderly, OwnSide
    <3> QED
      BY <3>1, OfFrame
  <2>3. /\ wire'[p] = Append(w, f) /\ pendW' = pendW /\ pendQ' = pendQ
        /\ Queued(p, id)' = Queued(p, id)
    BY <1>0, <1>3, <1>4, <1>6, <2>1 DEF PollSend, SendFrame, Queued
  <2>4. Parts(Append(w, f), b, q, c, id) = Parts(w, b, q, c, id)
    BY <2>2, PartsSend
  <2> QED
    BY <1>1, <1>2, <1>4, <2>3, <2>4
<1>7. CASE PollSend(p) /\ pendR[p] = <<>>
  <2>1. pendW[p] # <<>>
    BY <1>7 DEF PollSend
  <2>2. PICK f \in Frames : pendW[p] = One(f)
    BY <2>1 DEF Orderly, Slots, AtMostOne, Nil
  <2>3. /\ wire'[p] = Append(w, f) /\ pendW'[p] = Nil /\ pendQ' = pendQ
        /\ Queued(p, id)' = Queued(p, id)
    BY <1>0, <1>3, <1>4, <1>7, <2>2 DEF PollSend, SendFrame, Queued, Nil, One
  <2>4. Parts(Append(w, f), Nil, q, c, id) = Parts(w, One(f), q, c, id)
    BY PartsSend, NilType
  <2> QED
    BY <1>1, <1>2, <1>4, <2>2, <2>3, <2>4
<1>8. CASE PingInterval(p) \/ OpenWait(p)
  BY <1>8, SamePath DEF PingInterval, OpenWait
<1>9. ASSUME NEW j \in Ids, PollCommand(p, j) PROVE Path(p, id)' = Path(p, id)
  <2>1. /\ conn[p] = "Active" /\ conn' = conn /\ pendW[p] = Nil /\ chan[p][j] # <<>>
        /\ wire' = wire /\ pendQ' = pendQ
        /\ pendW'[p] = One(Head(chan[p][j])) /\ chan' = [chan EXCEPT ![p][j] = Tail(@)]
    BY <1>0, <1>3, <1>9 DEF PollCommand, Active, Nil, One
  <2>2. pendQ[p] = Nil
    BY <2>1 DEF Orderly, Slots
  <2>3. PICK f \in Cmds(j), t \in Seq(Frames) :
          f = Head(chan[p][j]) /\ t = Tail(chan[p][j]) /\ chan[p][j] = Cat(One(f), t)
    <3>1. chan[p][j] \in Seq(Cmds(j)) /\ chan[p][j] \in Seq(Frames)
      BY <1>0, <1>3 DEF Orderly, Commands
    <3>2. Head(chan[p][j]) \in Cmds(j)
      BY <2>1, <3>1, CmdSeqs
    <3>3. chan[p][j] = Cat(One(Head(chan[p][j])), Tail(chan[p][j]))
          /\ Tail(chan[p][j]) \in Seq(Frames)
      BY <2>1, <3>1, CatHead
    <3> QED
      BY <3>2, <3>3
  <2>4. f \in Frames /\ (f \in StreamFrames(id) <=> id = j)
    BY CmdsAre
  <2>5. CASE id = j
    <3>1. Queued(p, id) = Cat(One(f), t) /\ Queued(p, id)' = t
      BY <1>0, <1>3, <2>1, <2>3, <2>5 DEF Queued
    <3>2. Parts(w, One(f), Nil, t, id) = Parts(w, Nil, Nil, Cat(One(f), t), id)
      BY <2>4, <2>5, PartsCommand, NilType
    <3> QED
      BY <1>1, <1>2, <1>4, <2>1, <2>2, <2>3, <3>1, <3>2
  <2>6. CASE id # j
    <3>1. Queued(p, id)' = Queued(p, id)
      BY <1>0, <1>3, <2>1, <2>6 DEF Queued
    <3>2. Parts(w, One(f), q, c, id) = Parts(w, Nil, q, c, id)
      BY <2>4, <2>6, PartsCommand
    <3> QED
      BY <1>1, <1>2, <1>4, <2>1, <2>3, <3>1, <3>2
  <2> QED
    BY <2>5, <2>6
<1>10. ASSUME NEW j \in Ids, DrainCommand(p, j) PROVE Path(p, id)' = Path(p, id)
  <2>1. /\ conn[p] = "Draining" /\ conn' = conn /\ chan[p][j] # <<>>
        /\ wire' = wire /\ pendW' = pendW
        /\ pendQ'[p] = Append(q, Head(chan[p][j])) /\ chan' = [chan EXCEPT ![p][j] = Tail(@)]
    BY <1>0, <1>3, <1>4, <1>10 DEF DrainCommand
  <2>3. PICK f \in Cmds(j), t \in Seq(Frames) :
          f = Head(chan[p][j]) /\ t = Tail(chan[p][j]) /\ chan[p][j] = Cat(One(f), t)
    <3>1. chan[p][j] \in Seq(Cmds(j)) /\ chan[p][j] \in Seq(Frames)
      BY <1>0, <1>3 DEF Orderly, Commands
    <3>2. Head(chan[p][j]) \in Cmds(j)
      BY <2>1, <3>1, CmdSeqs
    <3>3. chan[p][j] = Cat(One(Head(chan[p][j])), Tail(chan[p][j]))
          /\ Tail(chan[p][j]) \in Seq(Frames)
      BY <2>1, <3>1, CatHead
    <3> QED
      BY <3>2, <3>3
  <2>4. f \in Frames /\ (f \in StreamFrames(id) <=> id = j)
    BY CmdsAre
  <2>5. CASE id = j
    <3>1. Queued(p, id) = Cat(One(f), t) /\ Queued(p, id)' = t
      BY <1>0, <1>3, <2>1, <2>3, <2>5 DEF Queued, ClosingStates
    <3>2. Parts(w, b, Append(q, f), t, id) = Parts(w, b, q, Cat(One(f), t), id)
      BY <2>4, <2>5, PartsDrain
    <3> QED
      BY <1>1, <1>2, <1>4, <2>1, <2>3, <3>1, <3>2
  <2>6. CASE id # j
    <3>1. Queued(p, id)' = Queued(p, id)
      BY <1>0, <1>3, <2>1, <2>6 DEF Queued
    <3>2. Parts(w, b, Append(q, f), c, id) = Parts(w, b, q, c, id)
      BY <2>4, <2>6, PartsDrain
    <3> QED
      BY <1>1, <1>2, <1>4, <2>1, <2>3, <3>1, <3>2
  <2> QED
    BY <2>5, <2>6
<1>11. CASE FlushFrame(p) /\ pendQ[p] # <<>>
  <2>1. PICK f \in Frames, t \in Seq(Frames) : f = Head(q) /\ t = Tail(q) /\ q = Cat(One(f), t)
    <3>1. q = Cat(One(Head(q)), Tail(q)) /\ Tail(q) \in Seq(Frames) /\ Head(q) \in Frames
      BY <1>4, <1>11, CatHead
    <3> QED
      BY <3>1
  <2>2. /\ conn[p] = "Flushing" /\ wire'[p] = Append(w, f) /\ pendW' = pendW /\ pendQ'[p] = t
        /\ Queued(p, id)' = Queued(p, id)
    BY <1>0, <1>3, <1>4, <1>11, <2>1 DEF FlushFrame, SendFrame, Queued
  <2>3. pendW[p] = Nil
    BY <2>2 DEF Orderly, Slots
  <2>4. Parts(Append(w, f), Nil, t, c, id) = Parts(w, Nil, Cat(One(f), t), c, id)
    BY PartsFlush
  <2> QED
    BY <1>1, <1>2, <1>4, <2>1, <2>2, <2>3, <2>4
<1> QED
  BY <1>5, <1>6, <1>7, <1>8, <1>9, <1>10, <1>11 DEF Sending

\* What remains of a path when its end is lost.
Shorter(p, id) == \E r \in Seq(Frames) : Path(p, id) = Cat(Path(p, id)', r)

\* s goes on after t.
GoesOnAfter(s, t) == \E r \in Seq(Frames) : s = Cat(t, r)

\* The sequences of a path, all but a first part of the oldest lost.
LEMMA PartsCut ==
  ASSUME NEW v \in Seq(Frames), NEW x \in Seq(Frames), NEW b \in Seq(Frames),
         NEW q \in Seq(Frames), NEW c \in Seq(Frames), NEW id
  PROVE  GoesOnAfter(Parts(Cat(v, x), b, q, c, id), Parts(v, Nil, Nil, Nil, id))
<1> DEFINE V == Of(v, id)
           X == Of(x, id)
           Y == Cat(Of(b, id), Cat(Of(q, id), c))
<1>1. V \in Seq(Frames) /\ X \in Seq(Frames) /\ Y \in Seq(Frames) /\ Of(Nil, id) = Nil
      /\ Of(Cat(v, x), id) = Cat(V, X)
  BY PartsType, OfCat
<1>2. Parts(Cat(v, x), b, q, c, id) = Cat(Of(Cat(v, x), id), Y)
      /\ Parts(v, Nil, Nil, Nil, id) = Cat(V, Cat(Of(Nil, id), Cat(Of(Nil, id), Nil)))
  BY DEF Parts
<1> HIDE DEF V, X, Y
<1>3. Cat(Nil, Nil) = Nil /\ Cat(V, Nil) = V
  BY <1>1, CatNil, NilType
<1>4. Cat(Cat(V, X), Y) = Cat(V, Cat(X, Y)) /\ Cat(X, Y) \in Seq(Frames)
  BY <1>1, CatAssoc, CatType
<1> QED
  BY <1>1, <1>2, <1>3, <1>4 DEF GoesOnAfter

\* A path that stays is not shorter by anything.
LEMMA StayShorter ==
  ASSUME NEW p, NEW id, Path(p, id)' = Path(p, id), Path(p, id) \in Seq(Frames)
  PROVE  Shorter(p, id)
<1>1. Path(p, id) = Cat(Path(p, id)', Nil)
  BY CatNil
<1> QED
  BY <1>1, NilType DEF Shorter

\* A connection that ends keeps its paths or cuts them short.
LEMMA EndingPath ==
  ASSUME NEW p \in Endpoints, StreamTypes, Orderly(p), Orderly(p)', NEW id \in Ids, Ending(p)
  PROVE  /\ Shorter(p, id) /\ (Whole(p)' => Path(p, id)' = Path(p, id))
         /\ CloseSocket(p) /\ chan[p][id] = Nil => Path(p, id)' = Path(p, id)
<1>0. p \in Peers
  BY EndpointsArePeers
<1>1. /\ Path(p, id) = Parts(wire[p], pendW[p], pendQ[p], Queued(p, id), id)
      /\ Queued(p, id) \in Seq(Frames) /\ Path(p, id) \in Seq(Frames)
  BY <1>0, PathParts DEF Orderly
<1>2. /\ Path(p, id)' = Parts(wire'[p], pendW'[p], pendQ'[p], Queued(p, id)', id)
      /\ Queued(p, id)' \in Seq(Frames)
  BY <1>0, NextParts DEF Orderly
<1>3. /\ wire \in [Peers -> Seq(Frames)] /\ pendW \in [Peers -> Seq(Frames)]
      /\ pendQ \in [Peers -> Seq(Frames)] /\ pendR \in [Peers -> Seq(Frames)]
      /\ chan \in [Peers -> [Ids -> Seq(Frames)]]
  BY DEF Orderly, FrameTypes
<1>4. PICK w \in Seq(Frames), b \in Seq(Frames), q \in Seq(Frames), c \in Seq(Frames) :
        w = wire[p] /\ b = pendW[p] /\ q = pendQ[p] /\ c = Queued(p, id)
  BY <1>0, <1>1, <1>3
<1>5. conn \in [Peers -> ConnStates]
  BY DEF StreamTypes
<1> DEFINE Goal == /\ Shorter(p, id) /\ (Whole(p)' => Path(p, id)' = Path(p, id))
                   /\ CloseSocket(p) /\ chan[p][id] = Nil => Path(p, id)' = Path(p, id)
<1>6. ASSUME Path(p, id)' = Path(p, id) PROVE Goal
  BY <1>1, <1>6, StayShorter
<1>7. ASSUME NEW n \in 0 .. Len(w), wire'[p] = SubSeq(w, 1, n) \/ wire'[p] = w,
             pendW'[p] = Nil, pendQ'[p] = Nil, Queued(p, id)' = Nil, ~Whole(p)',
             ~CloseSocket(p)
      PROVE  Goal
  <2>1. PICK v \in Seq(Frames), x \in Seq(Frames) : wire'[p] = v /\ w = Cat(v, x)
    <3>1. CASE wire'[p] = w
      BY <3>1, CatNil, NilType
    <3>2. CASE wire'[p] = SubSeq(w, 1, n)
      BY <3>2, CatPrefix
    <3> QED
      BY <1>7, <3>1, <3>2
  <2>2. GoesOnAfter(Parts(Cat(v, x), b, q, c, id), Parts(v, Nil, Nil, Nil, id))
    BY <1>4, <2>1, PartsCut
  <2>3. GoesOnAfter(Parts(w, b, q, c, id), Parts(v, Nil, Nil, Nil, id))
    BY <2>1, <2>2
  <2> QED
    BY <1>1, <1>2, <1>4, <1>7, <2>1, <2>3 DEF Shorter, GoesOnAfter
<1> HIDE DEF Goal
<1> SUFFICES Goal
  BY DEF Goal
<1> USE DEF connVars, pendVars, sockVars, tableVars, handleVars, ghostVars
<1>8. ASSUME DropSocket(p) PROVE \E n \in 0 .. Len(w) : wire'[p] = SubSeq(w, 1, n)
  BY <1>0, <1>3, <1>4, <1>8 DEF DropSocket
<1>9. 0 \in 0 .. Len(w)
  OBVIOUS
<1>10. CASE PollFail(p) \/ OpenFail(p)
  <2>1. cleanup(p) /\ conn[p] = "Active"
    BY <1>10 DEF PollFail, OpenFail, MayOpen, Active
  <2>2. conn'[p] = "CleanupReceivers" /\ pendW'[p] = Nil /\ pendQ' = pendQ /\ DropSocket(p)
    BY <1>0, <1>3, <1>5, <2>1 DEF cleanup, Nil
  <2>3. pendQ[p] = Nil
    BY <2>1 DEF Orderly, Slots
  <2>4. Queued(p, id)' = Nil /\ ~Whole(p)'
    BY <2>2 DEF Queued, Whole, ClosingStates, Nil
  <2>5. ~CloseSocket(p)
    BY <2>1 DEF CloseSocket
  <2> QED
    BY <1>7, <1>8, <2>2, <2>3, <2>4, <2>5
<1>11. CASE connection_close(p)
  <2>1. /\ conn[p] = "Active" /\ conn'[p] = "ClosingReceivers" /\ wire' = wire /\ chan' = chan
        /\ pendW'[p] = Nil /\ pendQ'[p] = Cat(pendR[p], pendW[p])
    BY <1>0, <1>3, <1>5, <1>11 DEF connection_close, Active, Goto, Nil, Cat
  <2>2. pendQ[p] = Nil
    BY <2>1 DEF Orderly, Slots
  <2>3. Queued(p, id)' = Queued(p, id)
    BY <2>1 DEF Queued, ClosingStates
  <2>4. pendR[p] \in Seq(Frames) /\ \A i \in DOMAIN pendR[p] : ~IsStreamFrame(pendR[p][i])
    BY <1>0, <1>3 DEF Orderly, OwnSide
  <2>5. Parts(w, Nil, Cat(pendR[p], b), c, id) = Parts(w, b, Nil, c, id)
    BY <2>4, PartsQueue
  <2> QED
    BY <1>1, <1>2, <1>4, <1>6, <2>1, <2>2, <2>3, <2>5
<1>12. CASE connection_drop(p)
  <2>1. /\ conn'[p] = "Closed" /\ pendW'[p] = Nil /\ pendQ'[p] = Nil
        /\ DropSocket(p) \/ wire' = wire
    BY <1>0, <1>3, <1>5, <1>12 DEF connection_drop, Goto, Nil
  <2>2. Queued(p, id)' = Nil /\ ~Whole(p)'
    BY <2>1 DEF Queued, Whole, ClosingStates, Nil
  <2>4. CASE CloseSocket(p)
    <3>1. conn[p] = "ClosingSocket" /\ wire' = wire
      BY <2>4 DEF CloseSocket
    <3>2. pendW[p] = Nil /\ pendQ[p] = Nil
      BY <3>1 DEF Orderly, Slots
    <3>3. chan[p][id] = Nil => Path(p, id)' = Path(p, id)
      BY <1>1, <1>2, <2>1, <2>2, <3>1, <3>2 DEF Queued, ClosingStates, Nil
    <3>4. Parts(w, b, q, Cat(Nil, c), id) = Cat(Parts(w, b, q, Nil, id), c) /\ Cat(Nil, c) = c
      BY PartsEnd, CatNil, NilType
    <3> QED
      BY <1>1, <1>2, <1>4, <2>1, <2>2, <3>1, <3>2, <3>3, <3>4 DEF Goal, Shorter
  <2> QED
    BY <1>4, <1>7, <1>8, <1>9, <2>1, <2>2, <2>4
<1>13. CASE CloseAllReceivers(p)
  <2>1. /\ wire' = wire /\ pendW' = pendW /\ pendQ' = pendQ /\ chan' = chan
        /\ \/ conn[p] = "ClosingReceivers" /\ conn'[p] = "Draining"
           \/ conn[p] = "CleanupReceivers" /\ conn'[p] = "CleanupDraining"
    BY <1>0, <1>5, <1>13 DEF CloseAllReceivers, Goto
  <2>2. Queued(p, id)' = Queued(p, id)
    BY <2>1 DEF Queued, ClosingStates
  <2> QED
    BY <1>1, <1>2, <1>6, <2>1, <2>2
<1>14. CASE DrainDone(p)
  <2>1. /\ wire' = wire /\ pendW' = pendW /\ pendQ'[p] = Append(q, term) /\ chan' = chan
        /\ conn[p] = "Draining" /\ conn'[p] = "Flushing"
    BY <1>0, <1>3, <1>4, <1>5, <1>14 DEF DrainDone, Goto
  <2>2. Queued(p, id)' = Queued(p, id)
    BY <2>1 DEF Queued, ClosingStates
  <2>3. term \in Frames /\ term \notin StreamFrames(id)
    <3>1. term \in Frames
      <4>1. 0 \in 0 .. U32_MAX
        BY FlowAssumption
      <4> QED
        BY <4>1, FrameOfConnection
    <3>2. ~IsStreamFrame(term)
      BY DEF term, Header, IsStreamFrame
    <3> QED
      BY <3>1, <3>2, OfFrame
  <2>4. Parts(w, b, Append(q, term), c, id) = Parts(w, b, q, c, id)
    BY <2>3, PartsDrain
  <2> QED
    BY <1>1, <1>2, <1>4, <1>6, <2>1, <2>2, <2>4
<1>15. CASE CloseSocket(p)
  <2>1. /\ wire' = wire /\ pendW' = pendW /\ pendQ' = pendQ
        /\ conn[p] = "ClosingSocket" /\ conn'[p] = "Closed"
    BY <1>0, <1>5, <1>15 DEF CloseSocket, Goto
  <2>2. Queued(p, id)' = Nil /\ ~Whole(p)'
    BY <2>1 DEF Queued, Whole, ClosingStates, Nil
  <2>3. chan[p][id] = Nil => Path(p, id)' = Path(p, id)
    BY <1>1, <1>2, <2>1, <2>2 DEF Queued, ClosingStates, Nil
  <2>4. Parts(w, b, q, Cat(Nil, c), id) = Cat(Parts(w, b, q, Nil, id), c) /\ Cat(Nil, c) = c
    BY PartsEnd, CatNil, NilType
  <2> QED
    BY <1>1, <1>2, <1>4, <2>1, <2>2, <2>3, <2>4 DEF Goal, Shorter
<1>16. CASE ClosingError(p) /\ ~CloseSocket(p)
  <2>1. /\ pendW' = pendW /\ pendQ'[p] = Nil /\ DropSocket(p) /\ conn'[p] = "Closed"
        /\ conn[p] # "Active"
    BY <1>0, <1>3, <1>5, <1>16 DEF ClosingError, Goto, Nil
  <2>2. Queued(p, id)' = Nil /\ ~Whole(p)' /\ pendW[p] = Nil
    BY <2>1 DEF Queued, Whole, ClosingStates, Nil, Orderly, Slots
  <2> QED
    BY <1>7, <1>8, <1>16, <2>1, <2>2
<1>17. CASE CleanupDrain(p)
  <2>1. /\ wire' = wire /\ pendW' = pendW /\ pendQ' = pendQ
        /\ conn[p] = "CleanupDraining" /\ conn'[p] = "Closed"
    BY <1>0, <1>5, <1>17 DEF CleanupDrain, Goto
  <2>2. Queued(p, id)' = Queued(p, id)
    BY <2>1 DEF Queued, ClosingStates
  <2> QED
    BY <1>1, <1>2, <1>6, <2>1, <2>2
<1>18. CASE FlushFrame(p) /\ pendQ[p] = <<>>
  <2>1. /\ wire' = wire /\ pendW' = pendW /\ pendQ' = pendQ /\ chan' = chan
        /\ conn[p] = "Flushing" /\ conn'[p] = "ClosingSocket"
    BY <1>0, <1>5, <1>18 DEF FlushFrame, Goto
  <2>2. Queued(p, id)' = Queued(p, id)
    BY <2>1 DEF Queued, ClosingStates
  <2> QED
    BY <1>1, <1>2, <1>6, <2>1, <2>2
<1> QED
  BY <1>10, <1>11, <1>12, <1>13, <1>14, <1>15, <1>16, <1>17, <1>18 DEF Ending

\* A dropped stream puts its last frame at the end of its path.
LEMMA DropPath ==
  ASSUME NEW p \in Endpoints, Orderly(p), Orderly(p)', NEW j \in Ids, on_drop_stream(p, j),
         NEW id \in Ids
  PROVE  /\ id # j \/ pendW'[p] = Nil => Path(p, id)' = Path(p, id)
         /\ id = j => \A f \in StreamFrames(j) \cap Frames :
                        pendW'[p] = One(f) => Path(p, id)' = Cat(Path(p, id), One(f))
<1>0. p \in Peers
  BY EndpointsArePeers
<1>1. /\ Path(p, id) = Parts(wire[p], pendW[p], pendQ[p], Queued(p, id), id)
      /\ Queued(p, id) \in Seq(Frames) /\ Path(p, id) \in Seq(Frames)
  BY <1>0, PathParts DEF Orderly
<1>2. /\ Path(p, id)' = Parts(wire'[p], pendW'[p], pendQ'[p], Queued(p, id)', id)
      /\ Queued(p, id)' \in Seq(Frames)
  BY <1>0, NextParts DEF Orderly
<1>3. /\ conn[p] = "Active" /\ pendW[p] = Nil /\ wire' = wire /\ pendQ' = pendQ
      /\ chan' = chan /\ conn' = conn /\ chan[p][j] = Nil
      /\ pendW'[p] \in {Nil, DropFrame(j, shared[p][j].state)}
  BY <1>0 DEF on_drop_stream, Active, ChanEnded, sockVars, handleVars, Nil, Orderly, FrameTypes
<1>4. pendQ[p] = Nil /\ Queued(p, id)' = Queued(p, id)
  BY <1>3 DEF Orderly, Slots, Queued
<1>5. PICK w \in Seq(Frames), c \in Seq(Frames) : w = wire[p] /\ c = Queued(p, id)
  BY <1>0, <1>1 DEF Orderly, FrameTypes
<1>6. ASSUME NEW f \in Frames, f \in StreamFrames(j), pendW'[p] = One(f)
      PROVE  /\ id = j => Path(p, id)' = Cat(Path(p, id), One(f))
             /\ id # j => Path(p, id)' = Path(p, id)
  <2>1. CASE id = j
    <3>1. c = Nil
      BY <1>3, <1>5, <2>1 DEF Queued
    <3>2. Parts(w, One(f), Nil, Nil, id) = Parts(w, Nil, Nil, Cat(One(f), Nil), id)
      BY <1>6, <2>1, PartsCommand, NilType
    <3>3. Cat(One(f), Nil) = One(f) /\ Cat(Nil, One(f)) = One(f) /\ One(f) \in Seq(Frames)
      BY OneType, CatNil
    <3>4. Parts(w, Nil, Nil, Cat(Nil, One(f)), id) = Cat(Parts(w, Nil, Nil, Nil, id), One(f))
      BY <3>3, PartsEnd, NilType
    <3> QED
      BY <1>1, <1>2, <1>3, <1>4, <1>5, <1>6, <2>1, <3>1, <3>2, <3>3, <3>4
  <2>2. CASE id # j
    <3>1. f \notin StreamFrames(id)
      BY <1>6, <2>2 DEF StreamFrames
    <3>2. Parts(w, One(f), Nil, c, id) = Parts(w, Nil, Nil, c, id)
      BY <3>1, PartsCommand, NilType
    <3> QED
      BY <1>1, <1>2, <1>3, <1>4, <1>5, <1>6, <2>2, <3>2
  <2> QED
    BY <2>1, <2>2
<1>7. pendW'[p] = Nil => Path(p, id)' = Path(p, id)
  BY <1>1, <1>2, <1>3, <1>4
<1>8. pendW'[p] # Nil => \E f \in Frames : f \in StreamFrames(j) /\ pendW'[p] = One(f)
  <2>1. /\ reset_stream(j) \in Frames /\ close_stream(j, FALSE) \in Frames
    <3>1. 0 \in 0 .. U32_MAX /\ 0 \in Nat /\ {} \in SUBSET Flags /\ FALSE \in BOOLEAN
      BY FlowAssumption
    <3> QED
      BY <3>1, FrameOfStream
  <2>2. /\ IsStreamFrame(reset_stream(j)) /\ reset_stream(j).id = j
        /\ IsStreamFrame(close_stream(j, FALSE)) /\ close_stream(j, FALSE).id = j
    BY DEF reset_stream, close_stream, Header, IsStreamFrame
  <2>3. reset_stream(j) \in StreamFrames(j) /\ close_stream(j, FALSE) \in StreamFrames(j)
    BY <2>1, <2>2, OfFrame
  <2>4. DropFrame(j, shared[p][j].state)
          \in {One(reset_stream(j)), One(close_stream(j, FALSE)), Nil}
    BY DEF DropFrame, One, Nil
  <2> QED
    BY <1>3, <2>1, <2>3, <2>4
<1> QED
  BY <1>6, <1>7, <1>8

\* A frame that arrives was the first of its stream's path.
LEMMA FramePath ==
  ASSUME NEW p \in Peers, NEW q \in Peers, q = Other(p), Orderly(q), Orderly(q)', NEW id \in Ids,
         wire[q] # <<>>, wire' = [wire EXCEPT ![q] = Tail(@)], conn'[q] = conn[q],
         pendW'[q] = pendW[q], pendQ'[q] = pendQ[q], chan'[q] = chan[q]
  PROVE  \E f \in Frames :
           /\ f = Head(wire[q])
           /\ f \in StreamFrames(id) => Path(q, id) = Cat(One(f), Path(q, id)')
           /\ f \notin StreamFrames(id) => Path(q, id)' = Path(q, id)
<1>1. /\ Path(q, id) = Parts(wire[q], pendW[q], pendQ[q], Queued(q, id), id)
      /\ Queued(q, id) \in Seq(Frames)
  BY PathParts DEF Orderly
<1>2. /\ Path(q, id)' = Parts(wire'[q], pendW'[q], pendQ'[q], Queued(q, id)', id)
  BY NextParts DEF Orderly
<1>3. Queued(q, id)' = Queued(q, id)
  BY DEF Queued
<1>4. PICK f \in Frames, t \in Seq(Frames) :
        f = Head(wire[q]) /\ t = Tail(wire[q]) /\ wire[q] = Cat(One(f), t)
  <2>1. wire[q] \in Seq(Frames)
    BY DEF Orderly, FrameTypes
  <2> QED
    BY <2>1, CatHead
<1>5. wire'[q] = t /\ pendW[q] \in Seq(Frames) /\ pendQ[q] \in Seq(Frames)
  BY <1>4 DEF Orderly, FrameTypes
<1>6. /\ f \in StreamFrames(id) =>
           Parts(Cat(One(f), t), pendW[q], pendQ[q], Queued(q, id), id)
             = Cat(One(f), Parts(t, pendW[q], pendQ[q], Queued(q, id), id))
      /\ f \notin StreamFrames(id) =>
           Parts(Cat(One(f), t), pendW[q], pendQ[q], Queued(q, id), id)
             = Parts(t, pendW[q], pendQ[q], Queued(q, id), id)
  BY <1>1, <1>5, PartsTake
<1> QED
  BY <1>1, <1>2, <1>3, <1>4, <1>5, <1>6

----------------------------------------------------------------------------
(* SYN frames and the shapes of frames along a path                         *)

Within(s, S) == \A i \in DOMAIN s : s[i] \in S
HasSyn(s)    == \E i \in DOMAIN s : "SYN" \in s[i].flags

\* Bytes and credit come with the SYN or after it.
SynFirst(s) ==
  \A i \in DOMAIN s : s[i].len > 0 => \E j \in 1 .. i : "SYN" \in s[j].flags

\* The elements of two sequences in a row.
LEMMA CatElements ==
  ASSUME NEW s \in Seq(Frames), NEW t \in Seq(Frames)
  PROVE  LET u == Cat(s, t)
         IN  /\ DOMAIN s = 1 .. Len(s) /\ DOMAIN t = 1 .. Len(t)
             /\ DOMAIN u = 1 .. Len(s) + Len(t) /\ Len(s) \in Nat /\ Len(t) \in Nat
             /\ \A i \in 1 .. Len(s) : u[i] = s[i]
             /\ \A i \in 1 .. Len(t) : u[Len(s) + i] = t[i]
BY DEF Cat

\* Every element of both.
LEMMA WithinCat ==
  ASSUME NEW s \in Seq(Frames), NEW t \in Seq(Frames), NEW S
  PROVE  Within(Cat(s, t), S) <=> Within(s, S) /\ Within(t, S)
<1>1. PICK u : u = Cat(s, t)
  OBVIOUS
<1>2. /\ DOMAIN s = 1 .. Len(s) /\ DOMAIN t = 1 .. Len(t)
      /\ DOMAIN u = 1 .. Len(s) + Len(t) /\ Len(s) \in Nat /\ Len(t) \in Nat
      /\ \A i \in 1 .. Len(s) : u[i] = s[i]
      /\ \A i \in 1 .. Len(t) : u[Len(s) + i] = t[i]
  BY <1>1, CatElements
<1>3. PICK m \in Nat, n \in Nat : m = Len(s) /\ n = Len(t)
  BY <1>2
<1>4. ASSUME Within(u, S) PROVE Within(s, S) /\ Within(t, S)
  <2>1. \A i \in 1 .. m : i \in 1 .. m + n
    OBVIOUS
  <2>2. \A i \in 1 .. n : m + i \in 1 .. m + n
    OBVIOUS
  <2>3. Within(s, S)
    BY <1>2, <1>3, <1>4, <2>1 DEF Within
  <2>4. ASSUME NEW i \in 1 .. n PROVE t[i] \in S
    <3>1. u[m + i] = t[i] /\ m + i \in 1 .. m + n
      BY <1>2, <1>3, <2>2
    <3> QED
      BY <1>2, <1>3, <1>4, <3>1 DEF Within
  <2>5. Within(t, S)
    BY <1>2, <1>3, <2>4 DEF Within
  <2> QED
    BY <2>3, <2>5
<1>5. ASSUME Within(s, S), Within(t, S) PROVE Within(u, S)
  <2> SUFFICES ASSUME NEW i \in 1 .. m + n PROVE u[i] \in S
    BY <1>2, <1>3 DEF Within
  <2>1. CASE i <= m
    BY <1>2, <1>3, <1>5, <2>1 DEF Within
  <2>2. CASE i > m
    <3>1. i - m \in 1 .. n /\ m + (i - m) = i
      BY <2>2
    <3> QED
      BY <1>2, <1>3, <1>5, <3>1 DEF Within
  <2> QED
    BY <2>1, <2>2
<1> QED
  BY <1>1, <1>4, <1>5

\* A SYN in one of both.
LEMMA SynCat ==
  ASSUME NEW s \in Seq(Frames), NEW t \in Seq(Frames)
  PROVE  HasSyn(Cat(s, t)) <=> HasSyn(s) \/ HasSyn(t)
<1> DEFINE S == {f \in Frames : "SYN" \notin f.flags}
<1>1. ASSUME NEW v \in Seq(Frames) PROVE HasSyn(v) <=> ~Within(v, S)
  BY DEF HasSyn, Within
<1>2. Cat(s, t) \in Seq(Frames)
  BY CatType
<1> HIDE DEF S
<1> QED
  BY <1>1, <1>2, WithinCat

\* Bytes after the SYN in both.
LEMMA FirstCat ==
  ASSUME NEW s \in Seq(Frames), NEW t \in Seq(Frames)
  PROVE  SynFirst(Cat(s, t)) <=> SynFirst(s) /\ (HasSyn(s) \/ SynFirst(t))
<1>1. PICK u : u = Cat(s, t)
  OBVIOUS
<1>2. /\ DOMAIN s = 1 .. Len(s) /\ DOMAIN t = 1 .. Len(t)
      /\ DOMAIN u = 1 .. Len(s) + Len(t) /\ Len(s) \in Nat /\ Len(t) \in Nat
      /\ \A i \in 1 .. Len(s) : u[i] = s[i]
      /\ \A i \in 1 .. Len(t) : u[Len(s) + i] = t[i]
  BY <1>1, CatElements
<1>3. PICK m \in Nat, n \in Nat : m = Len(s) /\ n = Len(t)
  BY <1>2
<1>4. ASSUME SynFirst(u) PROVE SynFirst(s)
  <2> SUFFICES ASSUME NEW i \in 1 .. m, s[i].len > 0 PROVE \E j \in 1 .. i : "SYN" \in s[j].flags
    BY <1>2, <1>3 DEF SynFirst
  <2>1. i \in 1 .. m + n /\ u[i] = s[i] /\ \A j \in 1 .. i : j \in 1 .. m
    BY <1>2, <1>3
  <2>2. PICK j \in 1 .. i : "SYN" \in u[j].flags
    BY <1>2, <1>3, <1>4, <2>1 DEF SynFirst
  <2> QED
    BY <1>2, <1>3, <2>1, <2>2
<1>5. ASSUME SynFirst(u), ~HasSyn(s) PROVE SynFirst(t)
  <2> SUFFICES ASSUME NEW i \in 1 .. n, t[i].len > 0 PROVE \E j \in 1 .. i : "SYN" \in t[j].flags
    BY <1>2, <1>3 DEF SynFirst
  <2>1. m + i \in 1 .. m + n /\ u[m + i] = t[i]
    BY <1>2, <1>3
  <2>2. PICK k \in 1 .. m + i : "SYN" \in u[k].flags
    BY <1>2, <1>3, <1>5, <2>1 DEF SynFirst
  <2>3. ~(k <= m)
    BY <1>2, <1>3, <1>5, <2>2 DEF HasSyn
  <2>4. k - m \in 1 .. i /\ k - m \in 1 .. n /\ m + (k - m) = k
    BY <2>3
  <2> QED
    BY <1>2, <1>3, <2>2, <2>4
<1>6. ASSUME SynFirst(s), HasSyn(s) \/ SynFirst(t) PROVE SynFirst(u)
  <2> SUFFICES ASSUME NEW i \in 1 .. m + n, u[i].len > 0
               PROVE  \E j \in 1 .. i : "SYN" \in u[j].flags
    BY <1>2, <1>3 DEF SynFirst
  <2>1. CASE i <= m
    <3>1. PICK j \in 1 .. i : "SYN" \in s[j].flags
      BY <1>2, <1>3, <1>6, <2>1 DEF SynFirst
    <3> QED
      BY <1>2, <1>3, <2>1, <3>1
  <2>2. CASE i > m /\ HasSyn(s)
    <3>1. PICK j \in 1 .. m : "SYN" \in s[j].flags
      BY <1>2, <1>3, <2>2 DEF HasSyn
    <3> QED
      BY <1>2, <1>3, <2>2, <3>1
  <2>3. CASE i > m /\ SynFirst(t)
    <3>1. i - m \in 1 .. n /\ m + (i - m) = i
      BY <2>3
    <3>2. PICK j \in 1 .. i - m : "SYN" \in t[j].flags
      BY <1>2, <1>3, <2>3, <3>1 DEF SynFirst
    <3>3. m + j \in 1 .. i /\ j \in 1 .. n
      BY <3>1, <3>2
    <3> QED
      BY <1>2, <1>3, <3>2, <3>3
  <2> QED
    BY <1>6, <2>1, <2>2, <2>3
<1> QED
  BY <1>1, <1>4, <1>5, <1>6

\* One frame, and none.
LEMMA SynOne ==
  ASSUME NEW f \in Frames, NEW S
  PROVE  /\ HasSyn(One(f)) <=> "SYN" \in f.flags
         /\ SynFirst(One(f)) <=> (f.len > 0 => "SYN" \in f.flags)
         /\ Within(One(f), S) <=> f \in S
<1>0. <<f>> \in Seq(Frames)
  OBVIOUS
<1>1. PICK u \in Seq(Frames) : u = <<f>>
  BY <1>0
<1>2. DOMAIN u = 1 .. 1 /\ u[1] = f
  BY <1>1
<1>3. \A i \in 1 .. 1 : i = 1
  OBVIOUS
<1>4. 1 \in 1 .. 1 /\ u = One(f)
  BY <1>1 DEF One
<1> QED
  BY <1>2, <1>3, <1>4 DEF HasSyn, SynFirst, Within

\* An empty sequence holds no SYN, and nothing unseemly.
LEMMA SynNil ==
  ASSUME NEW S PROVE ~HasSyn(Nil) /\ SynFirst(Nil) /\ Within(Nil, S)
BY DEF HasSyn, SynFirst, Within, Nil

----------------------------------------------------------------------------
(* The amounts under way                                                    *)

\* Everything of stream id that p has taken charge of, oldest first.
Line(p, id) == Cat(Path(p, id), Unsent(p, id))

Typed(p) == StreamTypes /\ Orderly(p)

\* The line of a stream consists of frames.
LEMMA LineType ==
  ASSUME NEW p \in Peers, Typed(p), NEW id \in Ids
  PROVE  /\ Path(p, id) \in Seq(Frames) /\ Unsent(p, id) \in Seq(Frames)
         /\ Line(p, id) \in Seq(Frames)
<1>1. Path(p, id) \in Seq(Frames)
  BY PathParts DEF Typed, Orderly
<1>2. handle[p][id].op.frame \in Frames
  BY DEF Typed, StreamTypes, Handles
<1>3. Unsent(p, id) \in Seq(Frames)
  BY <1>2, UnsentIs, OneType, NilType
<1> QED
  BY <1>1, <1>3, CatType DEF Line

\* And after a step.
LEMMA NextLineType ==
  ASSUME NEW p \in Peers, Typed(p)', NEW id \in Ids
  PROVE  /\ Path(p, id)' \in Seq(Frames) /\ Unsent(p, id)' \in Seq(Frames)
         /\ Line(p, id)' \in Seq(Frames)
<1>1. Path(p, id)' \in Seq(Frames)
  BY NextParts DEF Typed, Orderly
<1>2. handle'[p][id].op.frame \in Frames
  BY DEF Typed, StreamTypes, Handles
<1>3. Unsent(p, id)' \in Seq(Frames)
  BY <1>2, NextUnsent, OneType, NilType
<1>4. Line(p, id)' = Cat(Path(p, id)', Unsent(p, id)')
  BY DEF Line
<1> QED
  BY <1>1, <1>3, <1>4, CatType

\* Bytes and credit of a line, part by part.
LEMMA Amounts ==
  ASSUME NEW p \in Peers, Typed(p), NEW id \in Ids
  PROVE  /\ InFlight(p, id) = Weight(Line(p, id), BodyFrames)
         /\ Granted(p, id) = Weight(Line(p, id), CreditFrames)
         /\ InFlight(p, id) \in Nat /\ Granted(p, id) \in Nat
<1>1. /\ InFlight(p, id) = Weight(Line(p, id), BodyFrames)
      /\ Granted(p, id) = Weight(Line(p, id), CreditFrames)
  BY DEF InFlight, Granted, Line, Weight, Cat
<1>2. Line(p, id) \in Seq(Frames)
  BY LineType
<1> QED
  BY <1>1, <1>2, WeightCat, NilType

\* And after a step.
LEMMA NextAmounts ==
  ASSUME NEW p \in Peers, Typed(p)', NEW id \in Ids
  PROVE  /\ InFlight(p, id)' = Weight(Line(p, id)', BodyFrames)
         /\ Granted(p, id)' = Weight(Line(p, id)', CreditFrames)
         /\ InFlight(p, id)' \in Nat /\ Granted(p, id)' \in Nat
<1>1. /\ InFlight(p, id)' = Weight(Line(p, id)', BodyFrames)
      /\ Granted(p, id)' = Weight(Line(p, id)', CreditFrames)
  BY DEF InFlight, Granted, Line, Weight, Cat
<1>2. Line(p, id)' \in Seq(Frames)
  BY NextLineType
<1> QED
  BY <1>1, <1>2, WeightCat, NilType

\* What a frame adds.
Body(f)   == IF f.tag = "Data" THEN f.len ELSE 0
Credit(f) == IF f.tag = "WindowUpdate" THEN f.len ELSE 0

\* The bytes and the credit of one frame.
LEMMA FrameAmounts ==
  ASSUME NEW f \in Frames
  PROVE  /\ Weight(One(f), BodyFrames) = Body(f) /\ Weight(One(f), CreditFrames) = Credit(f)
         /\ Body(f) \in Nat /\ Credit(f) \in Nat /\ f.len \in Nat
         /\ f.len = 0 => Body(f) = 0 /\ Credit(f) = 0
<1>1. f \in FrameSet /\ f.len \in Nat
  BY FramesInSet, FlowAssumption DEF Frames
<1>2. f \in BodyFrames <=> f.tag = "Data" /\ f.len > 0
  BY <1>1 DEF BodyFrames
<1>3. f \in CreditFrames <=> f.tag = "WindowUpdate"
  BY <1>1 DEF CreditFrames
<1> QED
  BY <1>1, <1>2, <1>3, WeightOne DEF Body, Credit

\* How the line of a stream changes: a frame joins it, some of it is lost, or
\* its oldest frame arrives.
LineSame(p, id)     == Line(p, id)' = Line(p, id)
LineGrows(p, id, f) == Line(p, id)' = Cat(Line(p, id), One(f))
LineThins(p, id)    ==
  \E a, r, u \in Seq(Frames) : Line(p, id) = Cat(Cat(a, r), u) /\ Line(p, id)' = Cat(a, u)
LineGives(p, id, f) == Line(p, id) = Cat(One(f), Line(p, id)')

\* What that does to the amounts.
LEMMA LineAmounts ==
  ASSUME NEW p \in Peers, Typed(p), Typed(p)', NEW id \in Ids
  PROVE  /\ LineSame(p, id) => /\ InFlight(p, id)' = InFlight(p, id)
                               /\ Granted(p, id)' = Granted(p, id)
         /\ \A f \in Frames : LineGrows(p, id, f) =>
              /\ InFlight(p, id)' = InFlight(p, id) + Body(f)
              /\ Granted(p, id)' = Granted(p, id) + Credit(f)
         /\ LineThins(p, id) => /\ InFlight(p, id)' <= InFlight(p, id)
                                /\ Granted(p, id)' <= Granted(p, id)
         /\ \A f \in Frames : LineGives(p, id, f) =>
              /\ InFlight(p, id)' + Body(f) = InFlight(p, id)
              /\ Granted(p, id)' + Credit(f) = Granted(p, id)
<1>1. /\ InFlight(p, id) = Weight(Line(p, id), BodyFrames)
      /\ Granted(p, id) = Weight(Line(p, id), CreditFrames)
      /\ InFlight(p, id) \in Nat /\ Granted(p, id) \in Nat
  BY Amounts
<1>2. /\ InFlight(p, id)' = Weight(Line(p, id)', BodyFrames)
      /\ Granted(p, id)' = Weight(Line(p, id)', CreditFrames)
      /\ InFlight(p, id)' \in Nat /\ Granted(p, id)' \in Nat
  BY NextAmounts
<1>3. PICK s \in Seq(Frames), t \in Seq(Frames) : s = Line(p, id) /\ t = Line(p, id)'
  BY LineType, NextLineType
<1>4. ASSUME LineSame(p, id)
      PROVE  InFlight(p, id)' = InFlight(p, id) /\ Granted(p, id)' = Granted(p, id)
  BY <1>1, <1>2, <1>4 DEF LineSame
<1>5. ASSUME NEW f \in Frames, LineGrows(p, id, f)
      PROVE  /\ InFlight(p, id)' = InFlight(p, id) + Body(f)
             /\ Granted(p, id)' = Granted(p, id) + Credit(f)
  <2>1. t = Cat(s, One(f)) /\ One(f) \in Seq(Frames)
    BY <1>3, <1>5, OneType DEF LineGrows
  <2>2. /\ Weight(t, BodyFrames) = Weight(s, BodyFrames) + Weight(One(f), BodyFrames)
        /\ Weight(t, CreditFrames) = Weight(s, CreditFrames) + Weight(One(f), CreditFrames)
    BY <2>1, WeightCat
  <2> QED
    BY <1>1, <1>2, <1>3, <2>2, FrameAmounts
<1>6. ASSUME LineThins(p, id)
      PROVE  InFlight(p, id)' <= InFlight(p, id) /\ Granted(p, id)' <= Granted(p, id)
  <2>1. PICK a \in Seq(Frames), r \in Seq(Frames), u \in Seq(Frames) :
          s = Cat(Cat(a, r), u) /\ t = Cat(a, u)
    BY <1>3, <1>6 DEF LineThins
  <2>2. Cat(a, r) \in Seq(Frames)
    BY CatType
  <2>3. ASSUME NEW S PROVE Weight(t, S) <= Weight(s, S)
    <3>1. /\ Weight(s, S) = Weight(Cat(a, r), S) + Weight(u, S)
          /\ Weight(Cat(a, r), S) = Weight(a, S) + Weight(r, S)
          /\ Weight(t, S) = Weight(a, S) + Weight(u, S)
          /\ Weight(a, S) \in Nat /\ Weight(r, S) \in Nat /\ Weight(u, S) \in Nat
      BY <2>1, <2>2, WeightCat
    <3> QED
      BY <3>1
  <2> QED
    BY <1>1, <1>2, <1>3, <2>3
<1>7. ASSUME NEW f \in Frames, LineGives(p, id, f)
      PROVE  /\ InFlight(p, id)' + Body(f) = InFlight(p, id)
             /\ Granted(p, id)' + Credit(f) = Granted(p, id)
  <2>1. s = Cat(One(f), t) /\ One(f) \in Seq(Frames)
    BY <1>3, <1>7, OneType DEF LineGives
  <2>2. /\ Weight(s, BodyFrames) = Weight(One(f), BodyFrames) + Weight(t, BodyFrames)
        /\ Weight(s, CreditFrames) = Weight(One(f), CreditFrames) + Weight(t, CreditFrames)
    BY <2>1, WeightCat
  <2> QED
    BY <1>1, <1>2, <1>3, <2>2, FrameAmounts
<1> QED
  BY <1>4, <1>5, <1>6, <1>7

\* A line of which neither part changes.
LEMMA PartsSame ==
  ASSUME NEW p, NEW id, Path(p, id)' = Path(p, id), Unsent(p, id)' = Unsent(p, id)
  PROVE  LineSame(p, id)
BY DEF LineSame, Line

\* A path is cut short, or stays.
LEMMA CutLine ==
  ASSUME NEW p \in Peers, Typed(p), Typed(p)', NEW id \in Ids, Shorter(p, id),
         Unsent(p, id)' = Unsent(p, id)
  PROVE  LineThins(p, id)
<1>1. PICK r \in Seq(Frames) : Path(p, id) = Cat(Path(p, id)', r)
  BY DEF Shorter
<1>2. Path(p, id)' \in Seq(Frames) /\ Unsent(p, id) \in Seq(Frames)
  BY LineType, NextLineType
<1>3. /\ Line(p, id) = Cat(Cat(Path(p, id)', r), Unsent(p, id))
      /\ Line(p, id)' = Cat(Path(p, id)', Unsent(p, id))
  BY <1>1 DEF Line
<1> QED
  BY <1>2, <1>3 DEF LineThins

----------------------------------------------------------------------------
(* What the operations do to the lines                                      *)

\* An operation leaves the lines of the other streams alone.
LEMMA OtherLines ==
  ASSUME NEW p \in Peers, NEW j \in Ids, ElseKept(p, j), NEW id \in Ids, id # j
  PROVE  Path(p, id)' = Path(p, id) /\ LineSame(p, id)
<1>1. Path(p, id)' = Path(p, id)
  BY SamePath DEF ElseKept
<1>2. handle'[p][id] = handle[p][id]
  BY DEF ElseKept
<1>3. Unsent(p, id)' = Unsent(p, id)
  BY <1>2 DEF Unsent
<1> QED
  BY <1>1, <1>3, PartsSame

\* poll_write and send_window_update: the frame they begin with.
LEMMA BeginLine ==
  ASSUME NEW p \in Peers, Typed(p), Typed(p)', NEW j \in Ids, ElseKept(p, j), NEW f,
         NEW k \in FrameOps, Starts(p, j, k, f), chan'[p][j] = chan[p][j]
  PROVE  /\ Path(p, j)' = Path(p, j) /\ LineGrows(p, j, f) /\ f \in Frames
         /\ Line(p, j) = Path(p, j)
<1>1. Path(p, j)' = Path(p, j)
  BY SamePath DEF ElseKept
<1>2. Unsent(p, j) = Nil /\ Unsent(p, j)' = One(f)
  BY UnsentIs, NextUnsent DEF Starts
<1>3. Path(p, j) \in Seq(Frames)
  BY LineType
<1>4. Line(p, j) = Path(p, j)
  BY <1>2, <1>3, CatNil DEF Line
<1>5. Line(p, j)' = Cat(Path(p, j)', Unsent(p, j)')
  BY DEF Line
<1>6. f \in Frames
  BY CmdsAre DEF Starts
<1> QED
  BY <1>1, <1>2, <1>4, <1>5, <1>6 DEF LineGrows

\* start_send: the frame moves into the channel, or is lost.
LEMMA SendLine ==
  ASSUME NEW p \in Peers, Typed(p), Typed(p)', NEW j \in Ids, ElseKept(p, j), OpSend(p, j)
  PROVE  /\ Queues(p, j) /\ Whole(p) =>
              LineSame(p, j) /\ Path(p, j)' = Line(p, j)
         /\ Lapses(p, j) \/ ~Whole(p) =>
              LineThins(p, j) /\ Path(p, j)' = Path(p, j)
         /\ Line(p, j)' = Path(p, j)'
<1>1. PICK f \in Frames : f = handle[p][j].op.frame
  BY DEF Typed, StreamTypes, Handles
<1>2. Unsent(p, j) = One(f) /\ Unsent(p, j)' = Nil
  <2>1. handle'[p][j].op.kind = "idle"
    BY DEF OpSend, Idle, Typed, StreamTypes, Handles
  <2>2. handle[p][j].op.kind \in FrameOps /\ handle'[p][j].op.kind \notin FrameOps
    BY <2>1 DEF OpSend, FrameOps
  <2> QED
    BY <1>1, <2>2, UnsentIs, NextUnsent
<1>3. Path(p, j) \in Seq(Frames) /\ Path(p, j)' \in Seq(Frames)
  BY LineType, NextLineType
<1>4. Line(p, j) = Cat(Path(p, j), One(f)) /\ Line(p, j)' = Path(p, j)'
  BY <1>2, <1>3, CatNil DEF Line
<1>5. ASSUME Path(p, j)' = Path(p, j) PROVE LineThins(p, j)
  <2>1. Cat(Cat(Path(p, j), One(f)), Nil) = Line(p, j) /\ Cat(Path(p, j), Nil) = Line(p, j)'
    BY <1>1, <1>3, <1>4, <1>5, CatNil, CatType, OneType
  <2> QED
    BY <1>1, <1>3, <2>1, OneType, NilType DEF LineThins
<1>6. Lapses(p, j) => Path(p, j)' = Path(p, j)
  BY SamePath DEF ElseKept, Lapses
<1>7. Queues(p, j) => /\ Whole(p) => Path(p, j)' = Cat(Path(p, j), One(f))
                      /\ ~Whole(p) => Path(p, j)' = Path(p, j)
  <2>1. Queues(p, j) => chan'[p][j] = Append(chan[p][j], f)
    BY <1>1 DEF Queues
  <2>2. Orderly(p) /\ Orderly(p)'
    BY DEF Typed
  <2> QED
    BY <1>1, <2>1, <2>2, ChanPath DEF ElseKept
<1>8. Queues(p, j) \/ Lapses(p, j)
  BY DEF OpSend
<1>9. Queues(p, j) /\ Whole(p) => LineSame(p, j) /\ Path(p, j)' = Line(p, j)
  BY <1>4, <1>7 DEF LineSame
<1>10. Lapses(p, j) \/ ~Whole(p) => LineThins(p, j) /\ Path(p, j)' = Path(p, j)
  BY <1>5, <1>6, <1>7, <1>8
<1> QED
  BY <1>4, <1>9, <1>10

\* poll_close: the FIN goes into the channel.
LEMMA CloseLine ==
  ASSUME NEW p \in Peers, Typed(p), Typed(p)', NEW j \in Ids, ElseKept(p, j), NEW f,
         OpClose(p, j, f)
  PROVE  /\ Whole(p) => LineGrows(p, j, f) /\ Path(p, j)' = Cat(Path(p, j), One(f))
         /\ ~Whole(p) => LineSame(p, j) /\ Path(p, j)' = Path(p, j)
         /\ f \in Frames /\ f.len = 0 /\ Line(p, j) = Path(p, j) /\ Line(p, j)' = Path(p, j)'
<1>1. f \in Frames /\ f.len = 0
  BY CmdsAre DEF OpClose, Cmds
<1>2. Unsent(p, j) = Nil /\ Unsent(p, j)' = Nil
  BY UnsentIs, NextUnsent DEF OpClose, FrameOps
<1>3. Path(p, j) \in Seq(Frames) /\ Path(p, j)' \in Seq(Frames)
  BY LineType, NextLineType
<1>4. Line(p, j) = Path(p, j) /\ Line(p, j)' = Path(p, j)'
  BY <1>2, <1>3, CatNil DEF Line
<1>5. /\ Whole(p) => Path(p, j)' = Cat(Path(p, j), One(f))
      /\ ~Whole(p) => Path(p, j)' = Path(p, j)
  <2>1. chan'[p][j] = Append(chan[p][j], f)
    BY DEF OpClose
  <2>2. Orderly(p) /\ Orderly(p)'
    BY DEF Typed
  <2> QED
    BY <1>1, <2>1, <2>2, ChanPath DEF ElseKept
<1> QED
  BY <1>1, <1>4, <1>5 DEF LineGrows, LineSame

\* The other operations send nothing.
LEMMA RestLine ==
  ASSUME NEW p \in Peers, Typed(p), Typed(p)', NEW j \in Ids, ElseKept(p, j),
         OpRest(p, j) \/ OpDrop(p, j), OpSilent(p, j)
  PROVE  Path(p, j)' = Path(p, j) /\ LineSame(p, j)
<1>1. Path(p, j)' = Path(p, j)
  BY SamePath DEF ElseKept, OpSilent
<1>2. handle[p][j].op.kind \notin FrameOps /\ handle'[p][j].op.kind \notin FrameOps
  BY DEF OpRest, OpDrop, FrameOps
<1>3. Unsent(p, j)' = Unsent(p, j)
  BY <1>2, UnsentIs, NextUnsent
<1> QED
  BY <1>1, <1>3, PartsSame

----------------------------------------------------------------------------
(* The books of a stream                                                    *)

Unborn(p, id) == handle[p][id].life = "none"

\* What p may still send, also before it has the stream, and how much it may
\* still get; a stream that is over gets anything, and drops it.
SendV(p, id) == IF Unborn(p, id) THEN DEFAULT_CREDIT ELSE shared[p][id].fc.send_window
RecvV(p, id) ==
  IF Unborn(p, id) THEN DEFAULT_CREDIT
  ELSE IF shared[p][id].state = "None" THEN U32_MAX ELSE shared[p][id].fc.receive_window

\* The SYN of stream id of p has not arrived, and still may.
Coming(p, id) == Unborn(p, id) \/ \E x \in Places(p, id) : x # "opened"

\* q has not got stream id of the remote, and will take it.
Awaits(q, id) ==
  /\ conn[q] = "Active" /\ Unborn(q, id) /\ ~is_outbound(q, id)
  /\ ~GoingAway(q) \/ Coming(Other(q), id)

Hears(q, id) == (conn[q] = "Active" /\ id \in entry[q]) \/ Awaits(q, id)

\* What a step of p that takes c credit and b bytes off the socket does to its
\* windows and its line.  Nothing is invented, and nothing is lost as long as
\* p hears of the stream.
Spends(p, id, c) ==
  /\ SendV(p, id)' + InFlight(p, id)' <= SendV(p, id) + InFlight(p, id) + c
  /\ Hears(p, id)' => SendV(p, id)' + InFlight(p, id)' = SendV(p, id) + InFlight(p, id) + c

Grants(p, id, b) ==
  /\ RecvV(p, id) + Granted(p, id)' <= RecvV(p, id)' + Granted(p, id) + b
  /\ Hears(p, id)' => RecvV(p, id) + Granted(p, id)' = RecvV(p, id)' + Granted(p, id) + b

Takes(q, id, b, c) ==
  InFlight(q, id)' + b = InFlight(q, id) /\ Granted(q, id)' + c = Granted(q, id)

Books(p, id) ==
  \E b, c \in Nat : Takes(Other(p), id, b, c) /\ Spends(p, id, c) /\ Grants(p, id, b)

\* The windows are windows.
LEMMA ValueTypes ==
  ASSUME StreamTypes, NEW p \in Peers, NEW id \in Ids
  PROVE  SendV(p, id) \in 0 .. U32_MAX /\ RecvV(p, id) \in 0 .. U32_MAX
<1>1. shared[p][id] \in SharedSet /\ DEFAULT_CREDIT \in 0 .. U32_MAX /\ U32_MAX \in 0 .. U32_MAX
  BY FlowAssumption DEF StreamTypes
<1>2. shared[p][id].fc.send_window \in 0 .. U32_MAX /\ shared[p][id].fc.receive_window \in 0 .. U32_MAX
  BY <1>1 DEF SharedSet
<1> QED
  BY <1>1, <1>2 DEF SendV, RecvV

\* So they are after a step.
LEMMA NextValueTypes ==
  ASSUME StreamTypes', NEW p \in Peers, NEW id \in Ids
  PROVE  SendV(p, id)' \in 0 .. U32_MAX /\ RecvV(p, id)' \in 0 .. U32_MAX
<1>1. shared'[p][id] \in SharedSet /\ DEFAULT_CREDIT \in 0 .. U32_MAX /\ U32_MAX \in 0 .. U32_MAX
  BY FlowAssumption DEF StreamTypes
<1>2. shared'[p][id].fc.send_window \in 0 .. U32_MAX /\ shared'[p][id].fc.receive_window \in 0 .. U32_MAX
  BY <1>1 DEF SharedSet
<1> QED
  BY <1>1, <1>2 DEF SendV, RecvV

\* The windows of a stream that has its handle or its entry.
LEMMA HeldValues ==
  ASSUME StreamsOK, NEW p \in Endpoints, NEW id \in Ids,
         handle[p][id].life = "live" \/ id \in entry[p]
  PROVE  /\ SendV(p, id) = shared[p][id].fc.send_window /\ ~Unborn(p, id)
         /\ RecvV(p, id) = shared[p][id].fc.receive_window /\ shared[p][id].state # "None"
<1>1. Held(id \in entry[p], shared[p][id], handle[p][id])
  BY DEF StreamsOK, StreamOK
<1>2. handle[p][id].life # "none" /\ shared[p][id].state # "None"
  BY <1>1 DEF Held
<1> QED
  BY <1>2 DEF SendV, RecvV, Unborn

\* The same after a step.
LEMMA NextHeldValues ==
  ASSUME StreamsOK', NEW p \in Endpoints, NEW id \in Ids,
         handle'[p][id].life = "live" \/ id \in entry'[p]
  PROVE  /\ SendV(p, id)' = shared'[p][id].fc.send_window /\ ~Unborn(p, id)'
         /\ RecvV(p, id)' = shared'[p][id].fc.receive_window /\ shared'[p][id].state # "None"
<1>1. Held(id \in entry'[p], shared'[p][id], handle'[p][id])
  BY DEF StreamsOK, StreamOK
<1>2. handle'[p][id].life # "none" /\ shared'[p][id].state # "None"
  BY <1>1 DEF Held
<1> QED
  BY <1>2 DEF SendV, RecvV, Unborn

\* Nothing changes.
LEMMA QuietBooks ==
  ASSUME NEW p \in Peers, Typed(p), Typed(p)', NEW id \in Ids, LineSame(p, id),
         SendV(p, id)' = SendV(p, id), RecvV(p, id)' = RecvV(p, id)
  PROVE  Spends(p, id, 0) /\ Grants(p, id, 0)
<1>1. /\ InFlight(p, id)' = InFlight(p, id) /\ Granted(p, id)' = Granted(p, id)
      /\ InFlight(p, id) \in Nat /\ Granted(p, id) \in Nat
  BY LineAmounts, Amounts
<1>2. SendV(p, id) \in Nat /\ RecvV(p, id) \in Nat
  BY ValueTypes, FlowAssumption DEF Typed
<1> QED
  BY <1>1, <1>2 DEF Spends, Grants

\* A stream that p gives up may lose what it likes.
LEMMA OverBooks ==
  ASSUME NEW p \in Peers, Typed(p), Typed(p)', NEW id \in Ids, ~Hears(p, id)',
         LineThins(p, id) \/ LineSame(p, id), NEW b \in Nat, NEW c \in Nat,
         SendV(p, id)' <= SendV(p, id) + c, RecvV(p, id) <= RecvV(p, id)' + b
  PROVE  Spends(p, id, c) /\ Grants(p, id, b)
<1>1. /\ InFlight(p, id) \in Nat /\ Granted(p, id) \in Nat
      /\ InFlight(p, id)' \in Nat /\ Granted(p, id)' \in Nat
      /\ InFlight(p, id)' <= InFlight(p, id) /\ Granted(p, id)' <= Granted(p, id)
  BY LineAmounts, Amounts, NextAmounts
<1>2. SendV(p, id) \in Nat /\ RecvV(p, id) \in Nat /\ SendV(p, id)' \in Nat /\ RecvV(p, id)' \in Nat
  BY ValueTypes, NextValueTypes, FlowAssumption DEF Typed
<1> QED
  BY <1>1, <1>2 DEF Spends, Grants

\* The operations of the handles keep the books.
LEMMA HandleBooks ==
  ASSUME NEW p \in Endpoints, Typed(p), Typed(p)', StreamsOK, StreamsOK', GhostTypes,
         NEW j \in Ids, HandleAction(p, j), NEW id \in Ids
  PROVE  Spends(p, id, 0) /\ Grants(p, id, 0)
<1>0. p \in Peers /\ StreamTypes /\ FrameTypes
  BY EndpointsArePeers DEF Typed, Orderly
<1>1. HandleMove(p, j) /\ ElseKept(p, j)
  BY <1>0, HandleMoves
<1>2. CASE id # j
  <2>1. LineSame(p, id)
    BY <1>0, <1>1, <1>2, OtherLines
  <2>2. SendV(p, id)' = SendV(p, id) /\ RecvV(p, id)' = RecvV(p, id)
    <3>1. handle'[p][id] = handle[p][id] /\ shared'[p][id] = shared[p][id]
      BY <1>1, <1>2 DEF ElseKept
    <3> QED
      BY <3>1 DEF SendV, RecvV, Unborn
  <2> QED
    BY <1>0, <2>1, <2>2, QuietBooks
<1> SUFFICES ASSUME id = j PROVE Spends(p, j, 0) /\ Grants(p, j, 0)
  BY <1>2
<1> DEFINE s == shared[p][j]
           t == shared'[p][j]
<1>3. ASSUME handle[p][j].life = "live"
      PROVE  SendV(p, j) = s.fc.send_window /\ RecvV(p, j) = s.fc.receive_window
  BY <1>3, HeldValues
<1>4. ASSUME handle'[p][j].life = "live"
      PROVE  SendV(p, j)' = t.fc.send_window /\ RecvV(p, j)' = t.fc.receive_window
  BY <1>4, NextHeldValues
<1>5. /\ InFlight(p, j) \in Nat /\ Granted(p, j) \in Nat
      /\ s.fc.send_window \in Nat /\ s.fc.receive_window \in Nat
  <2>1. s \in SharedSet
    BY <1>0 DEF StreamTypes
  <2> QED
    BY <1>0, <2>1, Amounts, FlowAssumption DEF SharedSet
<1> HIDE DEF s, t
<1>6. ASSUME NEW f, OpWrite(p, j, f), OpSilent(p, j)
      PROVE  Spends(p, j, 0) /\ Grants(p, j, 0)
  <2>1. /\ Starts(p, j, "write", f) /\ f.tag = "Data" /\ f.len <= s.fc.send_window
        /\ t.fc.send_window = s.fc.send_window - f.len
        /\ t.fc.receive_window = s.fc.receive_window
    BY <1>6 DEF OpWrite, s, t
  <2>2. LineGrows(p, j, f) /\ f \in Frames
    <3>1. "write" \in FrameOps /\ chan'[p][j] = chan[p][j]
      BY <1>6 DEF FrameOps, OpSilent
    <3> QED
      BY <1>0, <1>1, <2>1, <3>1, BeginLine
  <2>3. /\ InFlight(p, j)' = InFlight(p, j) + Body(f) /\ Granted(p, j)' = Granted(p, j) + Credit(f)
        /\ f.len \in Nat /\ Body(f) = f.len /\ Credit(f) = 0
    BY <1>0, <2>1, <2>2, LineAmounts, FrameAmounts DEF Body, Credit
  <2>4. handle[p][j].life = "live" /\ handle'[p][j].life = "live"
    BY <2>1 DEF Starts
  <2> QED
    BY <1>3, <1>4, <1>5, <2>1, <2>3, <2>4 DEF Spends, Grants
<1>7. ASSUME NEW f, OpGrant(p, j, f), OpSilent(p, j)
      PROVE  Spends(p, j, 0) /\ Grants(p, j, 0)
  <2>1. /\ Starts(p, j, "read", f) /\ f.tag = "WindowUpdate"
        /\ t.fc.send_window = s.fc.send_window
        /\ t.fc.receive_window = s.fc.receive_window + f.len
    BY <1>7 DEF OpGrant, s, t
  <2>2. LineGrows(p, j, f) /\ f \in Frames
    <3>1. "read" \in FrameOps /\ chan'[p][j] = chan[p][j]
      BY <1>7 DEF FrameOps, OpSilent
    <3> QED
      BY <1>0, <1>1, <2>1, <3>1, BeginLine
  <2>3. /\ InFlight(p, j)' = InFlight(p, j) + Body(f) /\ Granted(p, j)' = Granted(p, j) + Credit(f)
        /\ f.len \in Nat /\ Body(f) = 0 /\ Credit(f) = f.len
    BY <1>0, <2>1, <2>2, LineAmounts, FrameAmounts DEF Body, Credit
  <2>4. handle[p][j].life = "live" /\ handle'[p][j].life = "live"
    BY <2>1 DEF Starts
  <2> QED
    BY <1>3, <1>4, <1>5, <2>1, <2>3, <2>4 DEF Spends, Grants
<1>8. CASE OpSend(p, j)
  <2>1. handle[p][j].life = "live" /\ handle'[p][j].life = "live"
    <3>1. handle[p][j] \in Handles
      BY <1>0 DEF StreamTypes
    <3> QED
      BY <1>8, <3>1 DEF OpSend, Handles
  <2>2. t.fc = s.fc
    BY <1>8 DEF OpSend, s, t
  <2>3. SendV(p, j)' = SendV(p, j) /\ RecvV(p, j)' = RecvV(p, j)
    BY <1>3, <1>4, <2>1, <2>2
  <2>4. CASE Queues(p, j) /\ Whole(p)
    BY <1>0, <1>1, <1>8, <2>3, <2>4, SendLine, QuietBooks
  <2>5. CASE Lapses(p, j) \/ ~Whole(p)
    <3>1. LineThins(p, j)
      BY <1>0, <1>1, <1>8, <2>5, SendLine
    <3>2. ~Hears(p, j)'
      <4>1. Tabled(conn[p], j \in entry[p], rx[p][j], shared[p][j], handle[p][j])
        BY DEF StreamsOK, StreamOK
      <4>2. ~(conn[p] = "Active" /\ j \in entry[p])
        BY <2>5, <4>1 DEF Tabled, Whole, Lapses
      <4>3. conn'[p] = conn[p] /\ entry'[p] = entry[p]
        BY <1>1 DEF ElseKept
      <4> QED
        BY <2>1, <4>2, <4>3 DEF Hears, Awaits, Unborn
    <3>3. SendV(p, j)' <= SendV(p, j) + 0 /\ RecvV(p, j) <= RecvV(p, j)' + 0 /\ 0 \in Nat
      BY <1>3, <1>5, <2>1, <2>3
    <3> QED
      BY <1>0, <3>1, <3>2, <3>3, OverBooks
  <2> QED
    BY <1>8, <2>4, <2>5 DEF OpSend
<1>9. ASSUME NEW f, OpClose(p, j, f)
      PROVE  Spends(p, j, 0) /\ Grants(p, j, 0)
  <2>1. handle[p][j].life = "live" /\ handle'[p][j].life = "live" /\ s = t
    BY <1>9 DEF OpClose, s, t
  <2>2. SendV(p, j)' = SendV(p, j) /\ RecvV(p, j)' = RecvV(p, j)
    BY <1>3, <1>4, <2>1
  <2>3. CASE Whole(p)
    <3>1. LineGrows(p, j, f) /\ f \in Frames /\ f.len = 0
      BY <1>0, <1>1, <1>9, <2>3, CloseLine
    <3>2. Body(f) = 0 /\ Credit(f) = 0
      BY <3>1, FrameAmounts
    <3>3. InFlight(p, j)' = InFlight(p, j) + 0 /\ Granted(p, j)' = Granted(p, j) + 0
      BY <1>0, <3>1, <3>2, LineAmounts
    <3> QED
      BY <1>3, <1>5, <2>1, <2>2, <3>3 DEF Spends, Grants
  <2>4. CASE ~Whole(p)
    BY <1>0, <1>1, <1>9, <2>2, <2>4, CloseLine, QuietBooks
  <2> QED
    BY <2>3, <2>4
<1>10. CASE OpRest(p, j) /\ OpSilent(p, j)
  <2>1. handle[p][j].life = "live" /\ handle'[p][j].life = "live" /\ s.fc = t.fc
    BY <1>10 DEF OpRest, s, t
  <2>2. SendV(p, j)' = SendV(p, j) /\ RecvV(p, j)' = RecvV(p, j)
    BY <1>3, <1>4, <2>1
  <2> QED
    BY <1>0, <1>1, <1>10, <2>2, RestLine, QuietBooks
<1>11. CASE OpDrop(p, j) /\ OpSilent(p, j)
  <2>1. LineSame(p, j) /\ entry'[p] = entry[p]
    BY <1>0, <1>1, <1>11, RestLine DEF ElseKept
  <2>2. CASE j \in entry[p]
    <3>1. t = s
      BY <1>11, <2>2 DEF OpDrop, s, t
    <3>2. SendV(p, j)' = SendV(p, j) /\ RecvV(p, j)' = RecvV(p, j)
      BY <2>1, <2>2, <3>1, HeldValues, NextHeldValues DEF s, t
    <3> QED
      BY <1>0, <2>1, <3>2, QuietBooks
  <2>3. CASE j \notin entry[p]
    <3>1. handle[p][j].life = "live" /\ handle'[p][j].life = "dropped" /\ shared'[p][j] = NoShared
      BY <1>11, <2>3 DEF OpDrop
    <3>2. ~Hears(p, j)'
      BY <2>1, <2>3, <3>1 DEF Hears, Awaits, Unborn
    <3>3. NoShared.state = "None" /\ NoShared.fc.send_window = 0
      BY DEF NoShared, NewShared, new_controller
    <3>4. SendV(p, j)' = 0 /\ RecvV(p, j)' = U32_MAX
      BY <3>1, <3>3 DEF SendV, RecvV, Unborn
    <3>5. SendV(p, j) \in 0 .. U32_MAX /\ RecvV(p, j) \in 0 .. U32_MAX
      BY <1>0, ValueTypes
    <3>6. SendV(p, j)' <= SendV(p, j) + 0 /\ RecvV(p, j) <= RecvV(p, j)' + 0 /\ 0 \in Nat
      BY <3>4, <3>5, FlowAssumption
    <3> QED
      BY <1>0, <2>1, <3>2, <3>6, OverBooks
  <2> QED
    BY <2>2, <2>3
<1> QED
  BY <1>1, <1>6, <1>7, <1>8, <1>9, <1>10, <1>11 DEF HandleMove

\* Frames that go out keep the books.
LEMMA SendingBooks ==
  ASSUME NEW p \in Endpoints, Typed(p), Typed(p)', Sending(p), NEW id \in Ids
  PROVE  /\ Spends(p, id, 0) /\ Grants(p, id, 0)
         /\ Path(p, id)' = Path(p, id) /\ LineSame(p, id)
<1>0. p \in Peers /\ Orderly(p) /\ Orderly(p)' /\ 1 \in Ids
  BY EndpointsArePeers, EndpointAssumption DEF Typed, Ids
<1>1. Steady
  BY <1>0, SteadySteps DEF Sending
<1>2. Path(p, id)' = Path(p, id)
  BY <1>0, SendingPath
<1>3. Unsent(p, id)' = Unsent(p, id) /\ SendV(p, id)' = SendV(p, id) /\ RecvV(p, id)' = RecvV(p, id)
  BY <1>1 DEF Steady, Unsent, SendV, RecvV, Unborn
<1>4. LineSame(p, id)
  BY <1>2, <1>3, PartsSame
<1> QED
  BY <1>0, <1>2, <1>3, <1>4, QuietBooks

\* A Shared that is kept, closed or dropped.
Fades(p, id) ==
  /\ handle'[p][id] = handle[p][id] /\ (id \in entry'[p] => id \in entry[p])
  /\ shared'[p][id].fc = shared[p][id].fc \/ shared'[p][id] = NoShared

\* Its windows.
LEMMA FadingValues ==
  ASSUME StreamTypes, StreamsOK, StreamsOK', NEW p \in Endpoints, NEW id \in Ids, Fades(p, id)
  PROVE  SendV(p, id)' <= SendV(p, id) /\ RecvV(p, id) <= RecvV(p, id)'
<1>0. p \in Peers
  BY EndpointsArePeers
<1>1. Held(id \in entry[p], shared[p][id], handle[p][id])
  BY DEF StreamsOK, StreamOK
<1>2. Held(id \in entry'[p], shared'[p][id], handle'[p][id])
  BY DEF StreamsOK, StreamOK
<1>3. SendV(p, id) \in 0 .. U32_MAX /\ RecvV(p, id) \in 0 .. U32_MAX
  BY <1>0, ValueTypes
<1>4. NoShared.state = "None" /\ NoShared.fc.send_window = 0
  BY DEF NoShared, NewShared, new_controller
<1>5. CASE Unborn(p, id)
  <2>1. SendV(p, id)' = SendV(p, id) /\ RecvV(p, id)' = RecvV(p, id)
    BY <1>5 DEF SendV, RecvV, Unborn, Fades
  <2> QED
    BY <1>3, <2>1, FlowAssumption
<1>6. CASE ~Unborn(p, id) /\ shared'[p][id].state = "None"
  <2>1. SendV(p, id)' = 0 /\ RecvV(p, id)' = U32_MAX
    BY <1>2, <1>4, <1>6 DEF Held, SendV, RecvV, Unborn, Fades
  <2> QED
    BY <1>3, <2>1, FlowAssumption
<1>7. CASE ~Unborn(p, id) /\ shared'[p][id].state # "None"
  <2>1. shared[p][id].state # "None" /\ shared'[p][id].fc = shared[p][id].fc
    BY <1>1, <1>2, <1>4, <1>7 DEF Held, Fades
  <2>2. SendV(p, id)' = SendV(p, id) /\ RecvV(p, id)' = RecvV(p, id)
    BY <1>7, <2>1 DEF SendV, RecvV, Unborn, Fades
  <2> QED
    BY <1>3, <2>2, FlowAssumption
<1> QED
  BY <1>5, <1>6, <1>7

\* What SetStreams makes of a Shared.
LEMMA SetFades ==
  ASSUME StreamTypes, NEW p \in Peers, NEW ent, NEW S, NEW H, SetStreams(p, ent, S, H),
         NEW id \in Ids
  PROVE  /\ shared'[p][id] = S[id] \/ shared'[p][id] = NoShared
         /\ id \in entry'[p] <=> id \in ent
BY DEF SetStreams, StreamTypes

\* The streams of a connection that ends.
LEMMA EndingFades ==
  ASSUME StreamTypes, NEW p \in Endpoints, Ending(p), NEW id \in Ids
  PROVE  Fades(p, id) /\ conn'[p] # "Active"
<1> USE DEF connVars, pendVars, sockVars, tableVars, handleVars, ghostVars
<1>0. p \in Peers /\ conn \in [Peers -> ConnStates] /\ shared[p][id] \in SharedSet
  BY EndpointsArePeers DEF StreamTypes
<1>1. ASSUME DropAllStreams(p)
      PROVE  /\ shared'[p][id].fc = shared[p][id].fc \/ shared'[p][id] = NoShared
             /\ id \notin entry'[p]
  <2>1. PICK S : /\ SetStreams(p, {}, S, handle[p])
                 /\ S = [i \in Ids |-> IF i \in entry[p] THEN Woken(To(shared[p][i], "Closed"))
                                                        ELSE shared[p][i]]
    BY <1>1 DEF DropAllStreams
  <2>2. S[id].fc = shared[p][id].fc
    <3>1. Woken(To(shared[p][id], "Closed")).fc = shared[p][id].fc
      BY <1>0 DEF Woken, To, SharedSet
    <3> QED
      BY <2>1, <3>1
  <2> QED
    BY <1>0, <2>1, <2>2, SetFades
<1>2. ASSUME UNCHANGED <<entry, shared, handle>> PROVE Fades(p, id)
  BY <1>2 DEF Fades
<1>3. ASSUME handle' = handle, DropAllStreams(p) PROVE Fades(p, id)
  BY <1>1, <1>3 DEF Fades
<1>4. CASE PollFail(p) \/ OpenFail(p)
  <2>1. cleanup(p)
    BY <1>4 DEF PollFail, OpenFail
  <2> QED
    BY <1>0, <1>3, <2>1 DEF cleanup
<1>5. CASE connection_close(p)
  <2>1. /\ SetStreams(p, {}, shared[p], handle[p]) /\ handle' = handle
        /\ conn'[p] = "ClosingReceivers"
    BY <1>0, <1>5 DEF connection_close, Goto
  <2>2. Fades(p, id)
    BY <1>0, <2>1, SetFades DEF Fades
  <2> QED
    BY <2>1, <2>2
<1>6. CASE connection_drop(p)
  <2>1. conn'[p] = "Closed" /\ handle' = handle
        /\ (DropAllStreams(p) \/ UNCHANGED <<entry, shared>>)
    BY <1>0, <1>6 DEF connection_drop, Goto
  <2> QED
    BY <1>2, <1>3, <2>1
<1>7. CASE CloseAllReceivers(p)
  BY <1>0, <1>2, <1>7 DEF CloseAllReceivers, Goto
<1>8. CASE DrainDone(p)
  BY <1>0, <1>2, <1>8 DEF DrainDone, Goto
<1>9. CASE CloseSocket(p)
  BY <1>0, <1>2, <1>9 DEF CloseSocket, Goto
<1>10. CASE ClosingError(p)
  BY <1>0, <1>2, <1>10 DEF ClosingError, Goto
<1>11. CASE CleanupDrain(p)
  BY <1>0, <1>2, <1>11 DEF CleanupDrain, Goto
<1>12. CASE FlushFrame(p) /\ pendQ[p] = <<>>
  BY <1>0, <1>2, <1>12 DEF FlushFrame, Goto
<1> QED
  BY <1>4, <1>5, <1>6, <1>7, <1>8, <1>9, <1>10, <1>11, <1>12 DEF Ending

\* A connection that ends keeps the books, as far as they matter.
LEMMA EndingBooks ==
  ASSUME NEW p \in Endpoints, Typed(p), Typed(p)', StreamsOK, StreamsOK', Ending(p), NEW id \in Ids
  PROVE  /\ Spends(p, id, 0) /\ Grants(p, id, 0) /\ LineThins(p, id) /\ ~Hears(p, id)'
         /\ Fades(p, id) /\ conn'[p] # "Active"
         /\ Shorter(p, id) /\ (Whole(p)' => Path(p, id)' = Path(p, id))
<1>0. p \in Peers /\ StreamTypes /\ StreamTypes' /\ Orderly(p) /\ Orderly(p)'
  BY EndpointsArePeers DEF Typed
<1>1. Fades(p, id) /\ conn'[p] # "Active"
  BY <1>0, EndingFades
<1>2. Shorter(p, id) /\ (Whole(p)' => Path(p, id)' = Path(p, id))
  BY <1>0, EndingPath
<1>3. LineThins(p, id)
  <2>1. Unsent(p, id)' = Unsent(p, id)
    BY <1>1 DEF Unsent, Fades
  <2> QED
    BY <1>0, <1>2, <2>1, CutLine
<1>4. ~Hears(p, id)'
  BY <1>1 DEF Hears, Awaits
<1>5. SendV(p, id)' <= SendV(p, id) + 0 /\ RecvV(p, id) <= RecvV(p, id)' + 0 /\ 0 \in Nat
  <2>1. SendV(p, id)' <= SendV(p, id) /\ RecvV(p, id) <= RecvV(p, id)'
    BY <1>0, <1>1, FadingValues
  <2>2. SendV(p, id) \in 0 .. U32_MAX /\ RecvV(p, id)' \in 0 .. U32_MAX
    BY <1>0, ValueTypes, NextValueTypes
  <2> QED
    BY <2>1, <2>2, FlowAssumption
<1>6. Spends(p, id, 0) /\ Grants(p, id, 0)
  BY <1>0, <1>3, <1>4, <1>5, OverBooks
<1> QED
  BY <1>1, <1>2, <1>3, <1>4, <1>6

----------------------------------------------------------------------------
(* Two endpoints                                                            *)

\* Both sides run this code.
BothOurs == Endpoints = Peers

\* What the session does in any case.
Settled == RouteInv /\ GhostTypes /\ \A p \in Peers : Slots(p) /\ Commands(p)

\* Its parts.
LEMMA SettledParts ==
  ASSUME BothOurs, Settled, NEW p \in Peers
  PROVE  /\ p \in Endpoints /\ Typed(p) /\ StreamTypes /\ FrameTypes /\ GhostTypes /\ StreamsOK
         /\ Orderly(p) /\ Slots(p) /\ OwnJourney(p) /\ OwnSide(p)
         /\ Other(p) \in Peers /\ Other(p) # p /\ Other(Other(p)) = p
         /\ conn[p] \in ConnStates /\ \A id \in Ids : handle[p][id] \in Handles
<1>1. p \in Endpoints /\ StreamTypes /\ FrameTypes /\ GhostTypes /\ StreamsOK /\ OwnJourney(p)
  BY DEF BothOurs, Settled, RouteInv, SessionInv, Journey
<1>2. Slots(p) /\ Commands(p) /\ OwnSide(p)
  BY <1>1 DEF Settled, OwnJourney
<1>3. Orderly(p)
  BY <1>1, <1>2 DEF Orderly
<1>4. Other(p) \in Peers /\ Other(p) # p /\ Other(Other(p)) = p
  BY OtherPeer
<1>5. conn[p] \in ConnStates /\ \A id \in Ids : handle[p][id] \in Handles
  BY <1>1 DEF StreamTypes
<1> QED
  BY <1>1, <1>2, <1>3, <1>4, <1>5 DEF Typed

\* And after a step.
LEMMA NextSettledParts ==
  ASSUME BothOurs, Settled', NEW p \in Peers
  PROVE  /\ p \in Endpoints /\ Typed(p)' /\ StreamTypes' /\ FrameTypes' /\ GhostTypes' /\ StreamsOK'
         /\ Orderly(p)' /\ Slots(p)' /\ OwnJourney(p)' /\ OwnSide(p)'
         /\ Other(p) \in Peers /\ Other(p) # p /\ Other(Other(p)) = p
         /\ conn'[p] \in ConnStates /\ \A id \in Ids : handle'[p][id] \in Handles
<1>1. p \in Endpoints /\ StreamTypes' /\ FrameTypes' /\ GhostTypes' /\ StreamsOK' /\ OwnJourney(p)'
  BY DEF BothOurs, Settled, RouteInv, SessionInv, Journey
<1>2. Slots(p)' /\ Commands(p)' /\ OwnSide(p)'
  BY <1>1 DEF Settled, OwnJourney
<1>3. Orderly(p)'
  BY <1>1, <1>2 DEF Orderly
<1>4. Other(p) \in Peers /\ Other(p) # p /\ Other(Other(p)) = p
  BY OtherPeer
<1>5. conn'[p] \in ConnStates /\ \A id \in Ids : handle'[p][id] \in Handles
  BY <1>1 DEF StreamTypes
<1> QED
  BY <1>1, <1>2, <1>3, <1>4, <1>5 DEF Typed

\* The other side of a step.
LEMMA OtherSide ==
  ASSUME BothOurs, Settled, NEW p \in Peers, EndpointStep(p)
  PROVE  /\ KeptState(Other(p)) /\ KeepsOther(p) /\ (Outward(p) \/ Inward(p))
         /\ handle'[Other(p)] = handle[Other(p)] /\ chan'[Other(p)] = chan[Other(p)]
         /\ rx'[Other(p)] = rx[Other(p)] /\ pendR'[Other(p)] = pendR[Other(p)]
         /\ pendW'[Other(p)] = pendW[Other(p)] /\ pendQ'[Other(p)] = pendQ[Other(p)]
<1>1. /\ p \in Endpoints /\ StreamTypes /\ FrameTypes /\ GhostTypes /\ StreamsOK /\ OwnJourney(p)
      /\ Other(p) \in Peers /\ Other(p) # p
  BY SettledParts
<1>2. StreamsOK'
  BY <1>1, EndpointStepKeeps, StreamsStayOK
<1>3. KeepsOther(p) /\ (Outward(p) \/ Inward(p))
  BY <1>1, <1>2, EndpointJourney
<1>4. KeptState(Other(p))
  BY <1>1, EndpointKeeps
<1> QED
  BY <1>1, <1>3, <1>4 DEF KeepsOther

\* The SYN of an outbound stream goes on its way; opening a stream is another matter.
LEMMA SynTravels ==
  ASSUME BothOurs, Settled, NEW p \in Peers, NEW id \in Ids, is_outbound(p, id),
         \/ Sending(p) \/ Ending(p) \/ on_frame(p)
         \/ \E j \in Ids : HandleAction(p, j) \/ on_drop_stream(p, j)
  PROVE  Travels(p, id)
<1>1. /\ p \in Endpoints /\ StreamTypes /\ FrameTypes /\ StreamsOK /\ OwnJourney(p) /\ OwnSide(p)
      /\ Other(p) \in Peers /\ Other(p) # p
  BY SettledParts
<1>2. OneSyn(p, id) /\ OwnStream(p, id)
  BY <1>1 DEF OwnJourney, OwnSide
<1>3. CASE \E j \in Ids : HandleAction(p, j)
  <2>1. PICK j \in Ids : HandleAction(p, j)
    BY <1>3
  <2>2. Operates(p, j) /\ UNCHANGED <<wire, pendR, pendW, pendQ, rx, nextId>>
    BY <1>1, <2>1, HandleOperates
  <2> QED
    BY <1>1, <1>2, <2>2, OperatesTravels
<1>4. CASE Sending(p) \/ Ending(p) \/ on_frame(p) \/ \E j \in Ids : on_drop_stream(p, j)
  <2>1. KeepsOther(p) /\ OwnStep(p)
    BY <1>1, <1>4, SendingSteps, EndingSteps, OnFrameInward, DropStreamStep
  <2>2. handle'[p][id] = handle[p][id] /\ rx'[Other(p)][id] = rx[Other(p)][id]
    BY <1>1, <2>1 DEF OwnStep, KeepsOther
  <2> QED
    BY <1>1, <1>2, <2>1, <2>2, CarriesTravels DEF Aside, OwnStep
<1> QED
  BY <1>3, <1>4

\* What poll_new_outbound does to its streams.
LEMMA OpenMoves ==
  ASSUME BothOurs, Settled, NEW p \in Peers, poll_new_outbound(p)
  PROVE  /\ nextId[p] \in Ids /\ is_outbound(p, nextId[p]) /\ Unborn(p, nextId[p])
         /\ Unborn(Other(p), nextId[p])
         /\ handle'[p][nextId[p]] = NewHandle("Syn") /\ nextId[p] \in entry'[p]
         /\ shared'[p][nextId[p]] = NewShared(DEFAULT_CREDIT) /\ rx'[p][nextId[p]] = "open"
         /\ \A id \in Ids \ {nextId[p]} :
              /\ handle'[p][id] = handle[p][id] /\ shared'[p][id] = shared[p][id]
              /\ (id \in entry'[p] <=> id \in entry[p]) /\ rx'[p][id] = rx[p][id]
         /\ UNCHANGED <<conn, wire, pendR, pendW, pendQ, chan, written, rcvd>>
         /\ conn[p] = "Active"
<1> USE DEF connVars, pendVars, sockVars, tableVars, handleVars, ghostVars
<1>1. /\ p \in Endpoints /\ StreamTypes /\ FrameTypes /\ StreamsOK /\ OwnJourney(p) /\ OwnSide(p)
      /\ Other(p) \in Peers /\ Other(p) # p /\ Other(Other(p)) = p
  BY SettledParts
<1>2. PICK id : id = nextId[p]
  OBVIOUS
<1>3. id \in Ids /\ Enters(p, id)
  BY <1>1, <1>2, PollNewOutboundKeeps
<1>4. is_outbound(p, id) /\ OneSyn(p, id) /\ id >= nextId[p]
  <2>1. is_outbound(p, id)
    BY <1>1, <1>2 DEF OwnSide
  <2> QED
    BY <1>1, <1>2, <1>3, <2>1 DEF OwnJourney, Ids
<1>5. Unborn(p, id) /\ Places(p, id) = {}
  BY <1>4 DEF OneSyn, Unborn
<1>6. Unborn(Other(p), id)
  <2>1. rx[Other(p)][id] = "none"
    BY <1>5, PlacesAre
  <2>2. Other(p) \in Endpoints
    BY <1>1 DEF BothOurs
  <2> QED
    BY <1>1, <1>3, <2>1, <2>2, LifeAndReceiver DEF Unborn
<1>7. /\ conn[p] = "Active" /\ UNCHANGED <<conn, wire, pendR, pendW, pendQ, chan, written, rcvd>>
      /\ handle' = [handle EXCEPT ![p] = [handle[p] EXCEPT ![id] = NewHandle("Syn")]]
      /\ rx' = [rx EXCEPT ![p][id] = "open"]
      /\ SetStreams(p, entry[p] \cup {id}, [shared[p] EXCEPT ![id] = NewShared(DEFAULT_CREDIT)],
                    [handle[p] EXCEPT ![id] = NewHandle("Syn")])
  BY <1>2 DEF poll_new_outbound, MayOpen, Active
<1>8. DEFAULT_CREDIT \in 0 .. U32_MAX
  BY FlowAssumption
<1>9. shared'[p][id] = NewShared(DEFAULT_CREDIT)
  <2>1. PICK s : s = NewShared(DEFAULT_CREDIT)
    OBVIOUS
  <2>2. /\ s \in SharedSet /\ s.state \in {"OpenPending", "RecvClosed"} /\ ~s.reader /\ ~s.writer
        /\ Bounded(s) /\ s.fc.max_receive_window = DEFAULT_CREDIT
    <3>1. /\ s \in SharedSet /\ s.state = "OpenPending" /\ ~s.reader /\ ~s.writer /\ Bounded(s)
          /\ s.fc = new_controller(DEFAULT_CREDIT)
      BY <1>8, <2>1, NewSharedOK
    <3>2. new_controller(DEFAULT_CREDIT).max_receive_window = DEFAULT_CREDIT
      BY DEF new_controller
    <3> QED
      BY <3>1, <3>2
  <2>3. "Syn" \in {"None", "Syn", "Ack"} /\ UNCHANGED conn
    BY <1>7
  <2> QED
    BY <1>1, <1>3, <1>7, <2>1, <2>2, <2>3, EntersTable
<1>10. handle'[p][id] = NewHandle("Syn") /\ id \in entry'[p] /\ rx'[p][id] = "open"
  BY <1>1, <1>3, <1>7 DEF StreamTypes, Enters
<1> QED
  BY <1>2, <1>3, <1>4, <1>5, <1>6, <1>7, <1>9, <1>10 DEF Enters, OneStream

----------------------------------------------------------------------------
(* Who still hears of a stream                                              *)

\* The SYN of an outbound stream is coming only if it was.
LEMMA ComingBefore ==
  ASSUME BothOurs, Settled, NEW p \in Peers, EndpointStep(p), NEW id \in Ids, is_outbound(p, id),
         Unborn(p, id)' => Unborn(p, id), Coming(p, id)'
  PROVE  Coming(p, id)
<1>1. /\ p \in Endpoints /\ FrameTypes /\ OwnJourney(p) /\ Other(p) \in Peers
      /\ rx'[Other(p)][id] = rx[Other(p)][id]
  BY SettledParts, OtherSide
<1>2. OneSyn(p, id)
  BY <1>1 DEF OwnJourney
<1>3. SUFFICES ASSUME NEW x \in Places(p, id)', x # "opened" PROVE Coming(p, id)
  BY DEF Coming
<1>4. ASSUME Travels(p, id) PROVE Coming(p, id)
  <2>1. CASE Places(p, id)' \subseteq Places(p, id)
    BY <1>3, <2>1 DEF Coming
  <2>2. ASSUME NEW a \in Places(p, id), NEW b \in PlaceNames,
               Places(p, id)' \subseteq (Places(p, id) \ {a}) \cup {b}
        PROVE  Coming(p, id)
    <3>1. CASE a # "opened"
      BY <3>1 DEF Coming
    <3>2. CASE a = "opened"
      <4>1. "opened" \in Places(p, id)' /\ Places(p, id) = {"opened"}
        BY <1>1, <1>2, <2>2, <3>2 DEF Places, OneSyn, PlaceNames
      <4>2. b = "opened" /\ x = b
        BY <1>3, <2>2, <3>2, <4>1
      <4> QED
        BY <1>3, <4>2
    <3> QED
      BY <3>1, <3>2
  <2> QED
    BY <1>4, <2>1, <2>2 DEF Travels, Passes
<1>5. CASE poll_new_outbound(p)
  <2>1. CASE id = nextId[p]
    BY <1>5, <2>1, OpenMoves DEF Coming
  <2>2. CASE id # nextId[p]
    <3>1. handle'[p][id] = handle[p][id] /\ UNCHANGED <<wire, pendW, pendQ, chan>>
      BY <1>5, <2>2, OpenMoves
    <3>2. Places(p, id)' = Places(p, id)
      BY <1>1, <3>1 DEF Places
    <3> QED
      BY <1>3, <3>2 DEF Coming
  <2> QED
    BY <2>1, <2>2
<1>6. CASE \/ Sending(p) \/ Ending(p) \/ on_frame(p)
           \/ \E j \in Ids : HandleAction(p, j) \/ on_drop_stream(p, j)
  BY <1>4, <1>6, SynTravels
<1> QED
  BY <1>1, <1>5, <1>6, EndpointActions

\* The SYN of the other side is coming only if it was.
LEMMA OtherComing ==
  ASSUME BothOurs, Settled, NEW p \in Peers, EndpointStep(p), NEW id \in Ids,
         Coming(Other(p), id)'
  PROVE  Coming(Other(p), id)
<1>1. PICK q \in Peers : q = Other(p)
  BY SettledParts
<1>2. /\ handle'[q] = handle[q] /\ chan'[q] = chan[q] /\ pendW'[q] = pendW[q]
      /\ pendQ'[q] = pendQ[q] /\ (Outward(p) \/ Inward(p)) /\ wire[q] \in Seq(Frames)
  BY <1>1, OtherSide, SettledParts DEF FrameTypes
<1>3. SynIn(wire'[q], id) => SynIn(wire[q], id)
  <2>1. wire'[q] = wire[q] \/ (wire[q] # <<>> /\ wire'[q] = Tail(wire[q]))
    BY <1>1, <1>2 DEF Outward, Inward
  <2> QED
    BY <1>2, <2>1, SynTail
<1>4. \A x \in Places(q, id)' : x # "opened" => x \in Places(q, id)
  BY <1>2, <1>3 DEF Places, PlaceNames
<1> QED
  BY <1>1, <1>2, <1>4 DEF Coming, Unborn

\* Frames other than go-aways.
Talk == {f \in Frames : f.tag # "GoAway"}

\* Where a go-away may be.
LEMMA AwayIn ==
  ASSUME FrameTypes, NEW p \in Peers
  PROVE  GoingAway(p) <=> ~(/\ Within(wire[p], Talk) /\ Within(pendR[p], Talk)
                            /\ Within(pendW[p], Talk) /\ Within(pendQ[p], Talk))
<1>1. /\ wire[p] \in Seq(Frames) /\ pendR[p] \in Seq(Frames) /\ pendW[p] \in Seq(Frames)
      /\ pendQ[p] \in Seq(Frames)
  BY DEF FrameTypes
<1>2. Outgoing(p) = Cat(Cat(Cat(wire[p], pendR[p]), pendW[p]), pendQ[p])
  BY DEF Outgoing, Cat
<1>3. /\ Cat(wire[p], pendR[p]) \in Seq(Frames)
      /\ Cat(Cat(wire[p], pendR[p]), pendW[p]) \in Seq(Frames) /\ Outgoing(p) \in Seq(Frames)
  <2>1. PICK w \in Seq(Frames), r \in Seq(Frames), b \in Seq(Frames), q \in Seq(Frames) :
          w = wire[p] /\ r = pendR[p] /\ b = pendW[p] /\ q = pendQ[p]
    BY <1>1
  <2>2. Cat(w, r) \in Seq(Frames)
    BY CatType
  <2>3. Cat(Cat(w, r), b) \in Seq(Frames)
    BY <2>2, CatType
  <2>4. Cat(Cat(Cat(w, r), b), q) \in Seq(Frames)
    BY <2>3, CatType
  <2> QED
    BY <1>2, <2>1, <2>2, <2>3, <2>4
<1>4. Within(Outgoing(p), Talk) <=>
        /\ Within(wire[p], Talk) /\ Within(pendR[p], Talk)
        /\ Within(pendW[p], Talk) /\ Within(pendQ[p], Talk)
  BY <1>1, <1>2, <1>3, WithinCat
<1>5. GoingAway(p) <=> ~Within(Outgoing(p), Talk)
  <2>1. PICK s \in Seq(Frames) : s = Outgoing(p)
    BY <1>3
  <2>2. \A i \in DOMAIN s : s[i] \in Frames
    OBVIOUS
  <2> QED
    BY <2>1, <2>2 DEF GoingAway, Within, Talk
<1> QED
  BY <1>4, <1>5

\* The same after a step.
LEMMA NextAwayIn ==
  ASSUME FrameTypes', NEW p \in Peers
  PROVE  GoingAway(p)' <=> ~(/\ Within(wire'[p], Talk) /\ Within(pendR'[p], Talk)
                             /\ Within(pendW'[p], Talk) /\ Within(pendQ'[p], Talk))
<1>1. /\ wire'[p] \in Seq(Frames) /\ pendR'[p] \in Seq(Frames) /\ pendW'[p] \in Seq(Frames)
      /\ pendQ'[p] \in Seq(Frames)
  BY DEF FrameTypes
<1>2. Outgoing(p)' = Cat(Cat(Cat(wire'[p], pendR'[p]), pendW'[p]), pendQ'[p])
  BY DEF Outgoing, Cat
<1>3. /\ Cat(wire'[p], pendR'[p]) \in Seq(Frames)
      /\ Cat(Cat(wire'[p], pendR'[p]), pendW'[p]) \in Seq(Frames) /\ Outgoing(p)' \in Seq(Frames)
  BY <1>1, <1>2, CatType
<1>4. Within(Outgoing(p)', Talk) <=>
        /\ Within(wire'[p], Talk) /\ Within(pendR'[p], Talk)
        /\ Within(pendW'[p], Talk) /\ Within(pendQ'[p], Talk)
  BY <1>1, <1>2, <1>3, WithinCat
<1>5. GoingAway(p)' <=> ~Within(Outgoing(p)', Talk)
  <2>1. PICK s \in Seq(Frames) : s = Outgoing(p)'
    BY <1>3
  <2>2. \A i \in DOMAIN s : s[i] \in Frames
    OBVIOUS
  <2> QED
    BY <2>1, <2>2 DEF GoingAway, Within, Talk
<1> QED
  BY <1>4, <1>5

\* Only on_frame takes frames off the socket.
LEMMA OutwardSteps ==
  ASSUME BothOurs, Settled, NEW p \in Peers,
         \/ Sending(p) \/ Ending(p) \/ poll_new_outbound(p)
         \/ \E j \in Ids : HandleAction(p, j) \/ on_drop_stream(p, j)
  PROVE  Outward(p)
<1>1. /\ p \in Endpoints /\ StreamTypes /\ FrameTypes /\ StreamsOK /\ OwnJourney(p) /\ OwnSide(p)
  BY SettledParts
<1>2. CASE poll_new_outbound(p)
  BY <1>1, <1>2, OpenStep DEF OwnJourney
<1> QED
  BY <1>1, <1>2, SendingSteps, EndingSteps, HandleAside, DropStreamStep

\* The frame on_frame takes.
LEMMA FrameTaken ==
  ASSUME BothOurs, Settled, NEW p \in Peers, on_frame(p), NEW q, q = Other(p)
  PROVE  /\ wire[q] # <<>> /\ Head(wire[q]) \in Frames /\ Head(wire[q]).tag # "GoAway"
         /\ wire' = [wire EXCEPT ![q] = Tail(@)] /\ wire'[p] = wire[p]
         /\ wire'[q] = Tail(wire[q]) /\ wire[q] \in Seq(Frames)
         /\ pendR[p] = Nil /\ pendW' = pendW /\ pendQ' = pendQ /\ chan' = chan /\ conn' = conn
         /\ conn[p] = "Active"
<1>1. p \in Endpoints /\ StreamTypes /\ FrameTypes /\ Slots(p) /\ q \in Peers /\ q # p
  BY SettledParts
<1>2. PICK f : f = Head(wire[q])
  OBVIOUS
<1>3. wire[q] # <<>> /\ (\/ OnUnknown(p, f) \/ OnReset(p, f) \/ RejectSyn(p, f) \/ AcceptSyn(p, f)
                         \/ on_data(p, f) \/ on_window_update(p, f) \/ on_ping(p, f)
                         \/ handle_pong(p, f))
  BY <1>2 DEF on_frame
<1>4. Receive(p, f)
  BY <1>3 DEF OnUnknown, OnReset, RejectSyn, AcceptSyn, on_data, on_window_update, on_ping,
              handle_pong
<1>5. f.tag \in {"Data", "WindowUpdate", "Ping"}
  BY <1>3 DEF OnUnknown, OnReset, RejectSyn, AcceptSyn, on_data, on_window_update, on_ping,
              handle_pong, IsSyn, IsPlain, IsStreamFrame
<1>6. pendW' = pendW /\ pendQ' = pendQ /\ chan' = chan /\ conn' = conn /\ conn[p] = "Active"
  BY <1>1, OnFrameSlots
<1>7. /\ wire' = [wire EXCEPT ![q] = Tail(@)] /\ pendR[p] = Nil
      /\ wire \in [Peers -> Seq(Frames)]
  BY <1>1, <1>4 DEF Receive, FrameTypes, Nil
<1> QED
  BY <1>1, <1>2, <1>3, <1>5, <1>6, <1>7

\* A go-away that is on its way stays on its way until the connection ends.
LEMMA AwayStays ==
  ASSUME BothOurs, Settled, Settled', NEW p \in Peers, EndpointStep(p), conn'[p] = "Active",
         GoingAway(p)
  PROVE  GoingAway(p)'
<1> USE DEF connVars, pendVars, sockVars, tableVars, handleVars, ghostVars
<1>1. /\ p \in Endpoints /\ StreamTypes /\ FrameTypes /\ GhostTypes /\ StreamsOK /\ FrameTypes'
      /\ wire[p] \in Seq(Frames) /\ pendR[p] \in Seq(Frames) /\ pendW[p] \in Seq(Frames)
      /\ wire \in [Peers -> Seq(Frames)] /\ pendR \in [Peers -> Seq(Frames)]
      /\ pendW \in [Peers -> Seq(Frames)] /\ conn \in [Peers -> ConnStates]
  BY SettledParts, NextSettledParts DEF FrameTypes, StreamTypes
<1> SUFFICES ASSUME /\ Within(wire'[p], Talk) /\ Within(pendR'[p], Talk)
                    /\ Within(pendW'[p], Talk) /\ Within(pendQ'[p], Talk)
             PROVE  /\ Within(wire[p], Talk) /\ Within(pendR[p], Talk)
                    /\ Within(pendW[p], Talk) /\ Within(pendQ[p], Talk)
  BY <1>1, AwayIn, NextAwayIn
<1>2. Within(Nil, Talk)
  BY SynNil
<1>3. CASE \E j \in Ids : HandleAction(p, j)
  BY <1>1, <1>3, HandleMoves DEF ElseKept
<1>4. CASE poll_new_outbound(p)
  BY <1>4, OpenMoves
<1>5. CASE on_frame(p)
  BY <1>2, <1>5, FrameTaken
<1>6. CASE \E j \in Ids : on_drop_stream(p, j)
  <2>1. wire' = wire /\ pendR' = pendR /\ pendQ' = pendQ /\ pendW[p] = Nil
    BY <1>6 DEF on_drop_stream, Nil
  <2> QED
    BY <1>2, <2>1
<1>7. CASE Ending(p)
  <2>1. 1 \in Ids
    BY EndpointAssumption DEF Ids
  <2> QED
    BY <1>1, <1>7, <2>1, EndingFades
<1>8. CASE PollPing(p) \/ PingInterval(p) \/ OpenWait(p)
  <2>1. pendR' = pendR /\ pendW' = pendW /\ pendQ' = pendQ
    BY <1>8 DEF PollPing, PingInterval, OpenWait
  <2>2. Within(wire[p], Talk)
    <3>1. CASE PollPing(p)
      <4>1. PICK f : wire'[p] = Append(wire[p], f) /\ f = ping(rtt[p].id)
        BY <1>1, <3>1 DEF PollPing, SendFrame
      <4>2. f \in Frames
        <5>1. rtt[p].id \in 0 .. U32_MAX
          BY <1>1 DEF FrameTypes, RttStates
        <5> QED
          BY <4>1, <5>1, FrameOfConnection
      <4>3. wire'[p] = Cat(wire[p], One(f)) /\ One(f) \in Seq(Frames)
        BY <1>1, <4>1, <4>2, CatAppend, OneType
      <4> QED
        BY <1>1, <4>3, WithinCat
    <3>2. CASE PingInterval(p) \/ OpenWait(p)
      BY <3>2 DEF PingInterval, OpenWait
    <3> QED
      BY <1>8, <3>1, <3>2
  <2> QED
    BY <2>1, <2>2
<1>9. CASE PollSend(p)
  <2>0. pendQ' = pendQ
    BY <1>9 DEF PollSend
  <2>1. CASE pendR[p] # <<>> /\ SendFrame(p, Head(pendR[p])) /\ UNCHANGED pendW
    <3>1. PICK f \in Frames : pendR[p] = One(f)
      BY <2>1, SettledParts DEF Slots, AtMostOne, Nil
    <3>2. wire'[p] = Append(wire[p], f)
      BY <1>1, <2>1, <3>1 DEF SendFrame, One
    <3>3. wire'[p] = Cat(wire[p], One(f)) /\ One(f) \in Seq(Frames)
      BY <1>1, <3>2, CatAppend, OneType
    <3> QED
      BY <1>1, <2>0, <2>1, <3>1, <3>3, WithinCat
  <2>2. CASE pendR[p] = <<>> /\ pendW[p] # <<>> /\ SendFrame(p, Head(pendW[p])) /\ UNCHANGED pendR
    <3>1. PICK f \in Frames : pendW[p] = One(f)
      BY <2>2, SettledParts DEF Slots, AtMostOne, Nil
    <3>2. wire'[p] = Append(wire[p], f)
      BY <1>1, <2>2, <3>1 DEF SendFrame, One
    <3>3. wire'[p] = Cat(wire[p], One(f)) /\ One(f) \in Seq(Frames)
      BY <1>1, <3>2, CatAppend, OneType
    <3> QED
      BY <1>1, <2>0, <2>2, <3>1, <3>3, WithinCat
  <2> QED
    BY <1>9, <2>1, <2>2 DEF PollSend
<1>10. CASE \E j \in Ids : PollCommand(p, j)
  <2>1. wire' = wire /\ pendR' = pendR /\ pendQ' = pendQ /\ pendW[p] = Nil
    BY <1>10 DEF PollCommand, Nil
  <2> QED
    BY <1>2, <2>1
<1>11. CASE (\E j \in Ids : DrainCommand(p, j)) \/ (FlushFrame(p) /\ pendQ[p] # <<>>)
  <2>1. conn' = conn /\ conn[p] # "Active"
    BY <1>11 DEF DrainCommand, FlushFrame
  <2> QED
    BY <2>1
<1> QED
  BY <1>1, <1>3, <1>4, <1>5, <1>6, <1>7, <1>8, <1>9, <1>10, <1>11, EndpointActions DEF Sending

\* Nor does the other side take it.
LEMMA OtherAway ==
  ASSUME BothOurs, Settled, Settled', NEW p \in Peers, EndpointStep(p), GoingAway(Other(p))
  PROVE  GoingAway(Other(p))'
<1>1. PICK q \in Peers : q = Other(p)
  BY SettledParts
<1>2. /\ pendR'[q] = pendR[q] /\ pendW'[q] = pendW[q] /\ pendQ'[q] = pendQ[q]
      /\ FrameTypes /\ FrameTypes' /\ p \in Endpoints
  BY <1>1, OtherSide, SettledParts, NextSettledParts
<1>3. SUFFICES ASSUME Within(wire'[q], Talk) PROVE Within(wire[q], Talk)
  BY <1>1, <1>2, AwayIn, NextAwayIn
<1>4. CASE on_frame(p)
  <2>1. PICK f \in Frames : f = Head(wire[q]) /\ f.tag # "GoAway"
    BY <1>1, <1>4, FrameTaken
  <2>2. wire[q] = Cat(One(f), wire'[q]) /\ wire'[q] \in Seq(Frames)
    <3>1. wire[q] \in Seq(Frames) /\ wire[q] # <<>> /\ wire'[q] = Tail(wire[q])
      BY <1>1, <1>4, FrameTaken
    <3> QED
      BY <2>1, <3>1, CatHead
  <2>3. f \in Talk
    BY <2>1 DEF Talk
  <2>4. Within(One(f), Talk)
    BY <2>3, SynOne
  <2> QED
    BY <1>3, <2>2, <2>4, OneType, WithinCat
<1>5. CASE Outward(p)
  BY <1>1, <1>3, <1>5 DEF Outward
<1> QED
  BY <1>2, <1>4, <1>5, OutwardSteps, EndpointActions

----------------------------------------------------------------------------
(* What on_frame does to a stream                                           *)

SameStream(p, id) ==
  /\ handle'[p][id] = handle[p][id] /\ shared'[p][id] = shared[p][id]
  /\ (id \in entry'[p] <=> id \in entry[p]) /\ rx'[p][id] = rx[p][id]
  /\ rcvd'[p][id] = rcvd[p][id]

\* A frame of a stream is for nobody, ends the stream, is refused, opens the
\* stream, or brings bytes or credit.
FrameUnknown(p, id, f) == SameStream(p, id) /\ "SYN" \notin f.flags /\ id \notin entry[p]

FrameReset(p, id, f) ==
  /\ "RST" \in f.flags /\ ("SYN" \in f.flags \/ id \in entry[p]) /\ id \notin entry'[p]
  /\ Fades(p, id) /\ rx'[p][id] = rx[p][id] /\ rcvd'[p][id] = rcvd[p][id]

Refused(p, id) ==
  /\ Fades(p, id) /\ (id \in entry'[p] <=> id \in entry[p])
  /\ rx'[p][id] = rx[p][id] /\ rcvd'[p][id] = rcvd[p][id]
  /\ \E g \in Frames : g.tag = "GoAway" /\ pendR'[p] = One(g)

FrameReject(p, id, f) == Refused(p, id) /\ "SYN" \in f.flags

FrameAccept(p, id, f) ==
  /\ "SYN" \in f.flags /\ ~is_outbound(p, id) /\ id \notin entry[p] /\ id \in entry'[p]
  /\ handle'[p][id] = NewHandle("Ack") /\ rx'[p][id] = "open"
  /\ shared'[p][id] = InboundShared(f) /\ rcvd'[p][id] = Body(f)
  /\ SynError(p, f) = <<>>

\* The windows after a frame that is accepted.
Booked(p, id, f) ==
  LET s == shared[p][id].fc
      t == shared'[p][id].fc
  IN  /\ handle'[p][id] = handle[p][id] /\ rx'[p][id] = rx[p][id]
      /\ rcvd'[p][id] = rcvd[p][id] + Body(f)
      /\ \/ /\ t.send_window = s.send_window + Credit(f)
            /\ t.receive_window = s.receive_window - Body(f)
         \/ id \notin entry'[p] /\ shared'[p][id] = NoShared

FramePlain(p, id, f) ==
  /\ "SYN" \notin f.flags /\ id \in entry[p]
  /\ \/ /\ Body(f) <= shared[p][id].fc.receive_window
        /\ Booked(p, id, f)
     \/ /\ Refused(p, id)
        /\ \/ Body(f) > shared[p][id].fc.receive_window
           \/ shared[p][id].fc.send_window + Credit(f) > U32_MAX

FrameStep(p, id, f) ==
  \/ FrameUnknown(p, id, f) \/ FrameReset(p, id, f) \/ FrameReject(p, id, f)
  \/ FrameAccept(p, id, f) \/ FramePlain(p, id, f)

\* The windows of a stream that a SYN opens.
LEMMA InboundWindows ==
  ASSUME NEW f \in Frames, IsStreamFrame(f)
  PROVE  /\ InboundShared(f).fc.send_window = DEFAULT_CREDIT + Credit(f)
         /\ InboundShared(f).fc.receive_window = DEFAULT_CREDIT - Body(f)
         /\ InboundShared(f).buf = Body(f)
<1>1. PICK n, c : n = Body(f) /\ c = Credit(f)
  OBVIOUS
<1>2. PICK s : s = [NewShared(DEFAULT_CREDIT + c) EXCEPT !.fc = consume_receive_window(@, n), !.buf = n]
  OBVIOUS
<1>3. /\ s.fc.send_window = DEFAULT_CREDIT + c /\ s.fc.receive_window = DEFAULT_CREDIT - n
      /\ s.buf = n
  BY <1>2 DEF NewShared, consume_receive_window, new_controller
<1>4. InboundShared(f) = IF "FIN" \in f.flags THEN To(s, "RecvClosed") ELSE s
  BY <1>1, <1>2 DEF InboundShared, Body, Credit, IsStreamFrame
<1>5. To(s, "RecvClosed").fc = s.fc /\ To(s, "RecvClosed").buf = s.buf
  BY <1>2 DEF To, NewShared
<1> QED
  BY <1>1, <1>3, <1>4, <1>5

\* One stream of the table changes, the handles stay.
LEMMA SetsOne ==
  ASSUME StreamTypes, StreamsOK, NEW p \in Endpoints, NEW id \in Ids, NEW ent \in SUBSET Ids,
         \A j \in Ids \ {id} : j \in ent <=> j \in entry[p],
         NEW s \in SharedSet, s.state = "None" => s = NoShared,
         NEW S, S = [shared[p] EXCEPT ![id] = s], SetStreams(p, ent, S, handle[p])
  PROVE  /\ entry'[p] = ent /\ shared'[p][id] = Kept(id, ent, handle[p][id], s)
         /\ \A j \in Ids \ {id} : shared'[p][j] = shared[p][j]
<1>1. PICK h, H : h = handle[p][id] /\ H = handle[p]
  OBVIOUS
<1>2. h \in Handles /\ H = [handle[p] EXCEPT ![id] = h]
  BY <1>1, EndpointsArePeers DEF StreamTypes
<1>3. SetStreams(p, ent, S, H)
  BY <1>1
<1>4. /\ entry' \in [Peers -> SUBSET Ids] /\ entry'[p] = ent
      /\ shared' \in [Peers -> [Ids -> SharedSet]]
      /\ shared'[p][id] = Kept(id, ent, h, s)
      /\ \A j \in Ids \ {id} : shared'[p][j] = shared[p][j]
      /\ acc' \in [Peers -> Int] /\ acc'[p] <= acc[p]
      /\ acc'[p] + Excess(s) = acc[p] + Excess(shared'[p][id])
      /\ \A q \in Peers \ {p} : /\ entry'[q] = entry[q] /\ shared'[q] = shared[q]
                                /\ acc'[q] = acc[q]
  BY <1>2, <1>3, SetOneStream
<1> QED
  BY <1>1, <1>4

\* A refusal.
LEMMA TerminateRefuses ==
  ASSUME BothOurs, Settled, NEW p \in Peers, NEW f \in Frames, IsStreamFrame(f),
         NEW g \in Frames, g.tag = "GoAway", Terminate(p, f, g)
  PROVE  Refused(p, f.id) /\ \A id \in Ids \ {f.id} : SameStream(p, id)
<1> USE DEF connVars, pendVars, sockVars, tableVars, handleVars, ghostVars
<1>1. p \in Endpoints /\ StreamTypes /\ FrameTypes /\ StreamsOK /\ f.id \in Ids
  BY SettledParts DEF Frames
<1>2. /\ SetStreams(p, entry[p], Acked(p, f), handle[p]) /\ UNCHANGED <<rx, handle, rcvd>>
      /\ pendR' = [pendR EXCEPT ![p] = <<g>>]
  BY DEF Terminate
<1>3. pendR'[p] = One(g)
  BY <1>1, <1>2 DEF FrameTypes, One
<1>4. PICK s : s = Acked(p, f)[f.id]
  OBVIOUS
<1>5. Acked(p, f) = [shared[p] EXCEPT ![f.id] = s] /\ s \in SharedSet
      /\ s.fc = shared[p][f.id].fc /\ (s.state = "None" => s = NoShared)
  BY <1>1, <1>4, AckedOne
<1>6. /\ handle[p] = [handle[p] EXCEPT ![f.id] = handle[p][f.id]] /\ handle[p][f.id] \in Handles
      /\ entry[p] \in SUBSET Ids
  BY <1>1 DEF StreamTypes
<1>7. /\ entry'[p] = entry[p] /\ shared'[p][f.id] = Kept(f.id, entry[p], handle[p][f.id], s)
      /\ \A j \in Ids \ {f.id} : shared'[p][j] = shared[p][j]
  <2>1. PICK S : S = Acked(p, f)
    OBVIOUS
  <2>2. PICK id \in Ids : id = f.id
    BY <1>1
  <2>3. PICK ent \in SUBSET Ids : ent = entry[p]
    BY <1>6
  <2>4. /\ SetStreams(p, ent, S, handle[p]) /\ S = [shared[p] EXCEPT ![id] = s]
        /\ \A j \in Ids \ {id} : j \in ent <=> j \in entry[p]
    BY <1>2, <1>5, <2>1, <2>2, <2>3
  <2>5. /\ entry'[p] = ent /\ shared'[p][id] = Kept(id, ent, handle[p][id], s)
        /\ \A j \in Ids \ {id} : shared'[p][j] = shared[p][j]
    BY <1>1, <1>5, <2>4, SetsOne
  <2> QED
    BY <2>2, <2>3, <2>5
<1>8. Fades(p, f.id)
  BY <1>2, <1>5, <1>7 DEF Fades, Kept
<1> QED
  BY <1>2, <1>3, <1>7, <1>8 DEF Refused, SameStream

\* RST: the entry goes.
LEMMA ResetFrame ==
  ASSUME BothOurs, Settled, NEW p \in Peers, NEW f \in Frames, OnReset(p, f)
  PROVE  FrameReset(p, f.id, f) /\ \A id \in Ids \ {f.id} : SameStream(p, id)
<1> USE DEF connVars, pendVars, sockVars, tableVars, handleVars, ghostVars
<1>1. p \in Endpoints /\ StreamTypes /\ FrameTypes /\ StreamsOK /\ IsStreamFrame(f) /\ f.id \in Ids
  BY SettledParts DEF OnReset, Frames
<1>2. PICK id \in Ids : id = f.id
  BY <1>1
<1>3. PICK S : S = IF id \in entry[p] THEN [Acked(p, f) EXCEPT ![id] = Woken(To(@, "Closed"))]
                                       ELSE shared[p]
  OBVIOUS
<1>4. PICK ent : ent = entry[p] \ {id}
  OBVIOUS
<1>5. /\ SetStreams(p, ent, S, handle[p]) /\ UNCHANGED <<rx, handle, rcvd>>
      /\ "RST" \in f.flags /\ ("SYN" \in f.flags \/ id \in entry[p])
  BY <1>2, <1>3, <1>4 DEF OnReset, KnownOrSyn
<1>6. /\ ent \in SUBSET Ids /\ \A j \in Ids \ {id} : j \in ent <=> j \in entry[p]
  BY <1>1, <1>4 DEF StreamTypes
<1>7. shared[p][id] \in SharedSet /\ (shared[p][id].state = "None" => shared[p][id] = NoShared)
      /\ (id \in entry[p] => shared[p][id].state # "None")
  BY <1>1 DEF StreamTypes, StreamsOK, StreamOK, Held
<1>8. PICK s \in SharedSet : /\ S = [shared[p] EXCEPT ![id] = s] /\ s.fc = shared[p][id].fc
                             /\ s.state = "None" => s = NoShared
  <2>1. CASE id \in entry[p]
    <3>1. PICK a : a = Acked(p, f)[id]
      OBVIOUS
    <3>2. /\ Acked(p, f) = [shared[p] EXCEPT ![id] = a] /\ a \in SharedSet
          /\ a.fc = shared[p][id].fc /\ a.state # "None"
      BY <1>1, <1>2, <1>7, <2>1, <3>1, AckedOne
    <3>3. PICK w : w = Woken(To(a, "Closed"))
      OBVIOUS
    <3>4. w \in SharedSet /\ w.state = "Closed" /\ w.fc = a.fc
      BY <3>2, <3>3, WokenClosed
    <3>5. S = [shared[p] EXCEPT ![id] = w]
      <4>1. shared[p] \in [Ids -> SharedSet]
        BY <1>1 DEF StreamTypes
      <4> QED
        BY <1>3, <2>1, <3>1, <3>2, <3>3, <4>1
    <3> QED
      BY <3>2, <3>4, <3>5
  <2>2. CASE id \notin entry[p]
    <3>1. S = [shared[p] EXCEPT ![id] = shared[p][id]]
      BY <1>1, <1>3, <2>2 DEF StreamTypes
    <3> QED
      BY <1>7, <3>1
  <2> QED
    BY <2>1, <2>2
<1>9. /\ entry'[p] = ent /\ shared'[p][id] = Kept(id, ent, handle[p][id], s)
      /\ \A j \in Ids \ {id} : shared'[p][j] = shared[p][j]
  BY <1>1, <1>5, <1>6, <1>8, SetsOne
<1>10. Fades(p, id) /\ id \notin entry'[p]
  BY <1>4, <1>5, <1>8, <1>9 DEF Fades, Kept
<1> QED
  BY <1>2, <1>4, <1>5, <1>9, <1>10 DEF FrameReset, SameStream

\* A SYN that is refused.
LEMMA RejectFrame ==
  ASSUME BothOurs, Settled, NEW p \in Peers, NEW f \in Frames, RejectSyn(p, f)
  PROVE  FrameReject(p, f.id, f) /\ \A id \in Ids \ {f.id} : SameStream(p, id)
<1>1. IsStreamFrame(f) /\ "SYN" \in f.flags
  BY DEF RejectSyn, IsSyn
<1>2. PICK g : g = Head(SynError(p, f)) /\ Terminate(p, f, g)
  BY DEF RejectSyn
<1>3. g \in Frames /\ g.tag = "GoAway"
  <2>1. g = protocol_error \/ g = internal_error
    <3>1. PICK e : e = SynError(p, f)
      OBVIOUS
    <3>2. e = <<protocol_error>> \/ e = <<internal_error>> \/ e = <<>>
      BY <3>1 DEF SynError
    <3>3. e # <<>> /\ g = Head(e)
      BY <1>2, <3>1 DEF RejectSyn
    <3> QED
      BY <3>2, <3>3
  <2> QED
    <3>1. protocol_error \in Frames /\ internal_error \in Frames
      BY AnswerFrames
    <3>2. protocol_error.tag = "GoAway" /\ internal_error.tag = "GoAway"
      BY DEF protocol_error, internal_error, Header
    <3> QED
      BY <2>1, <3>1, <3>2
<1> QED
  BY <1>1, <1>2, <1>3, TerminateRefuses DEF FrameReject

\* A SYN that opens a stream.
LEMMA AcceptFrame ==
  ASSUME BothOurs, Settled, NEW p \in Peers, NEW f \in Frames, AcceptSyn(p, f)
  PROVE  FrameAccept(p, f.id, f) /\ \A id \in Ids \ {f.id} : SameStream(p, id)
<1> USE DEF connVars, pendVars, sockVars, tableVars, handleVars, ghostVars
<1>1. p \in Endpoints /\ StreamTypes /\ FrameTypes /\ StreamsOK /\ GhostTypes
  BY SettledParts
<1>2. PICK id \in Ids : id = f.id
  BY <1>1, AcceptSynKeeps
<1>3. /\ IsSyn(f) /\ SynError(p, f) = <<>> /\ conn[p] = "Active" /\ IsStreamFrame(f)
      /\ "SYN" \in f.flags
  BY DEF AcceptSyn, Receive, Active, IsSyn
<1>4. Enters(p, id) /\ ~is_outbound(p, id) /\ id \notin entry[p]
  BY <1>1, <1>2, AcceptSynKeeps
<1>5. PICK s : s = InboundShared(f)
  OBVIOUS
<1>6. /\ s \in SharedSet /\ s.state \in {"OpenPending", "RecvClosed"} /\ ~s.reader /\ ~s.writer
      /\ Bounded(s) /\ s.fc.max_receive_window = DEFAULT_CREDIT /\ s.buf = Body(f)
  BY <1>3, <1>5, InboundOK, InboundWindows
<1>7. /\ handle' = [handle EXCEPT ![p] = [handle[p] EXCEPT ![id] = NewHandle("Ack")]]
      /\ rx' = [rx EXCEPT ![p][id] = "open"]
      /\ SetStreams(p, entry[p] \cup {id}, [shared[p] EXCEPT ![id] = s],
                    [handle[p] EXCEPT ![id] = NewHandle("Ack")])
      /\ rcvd' = [rcvd EXCEPT ![p][id] = s.buf] /\ UNCHANGED conn
      /\ "Ack" \in {"None", "Syn", "Ack"}
  BY <1>2, <1>5 DEF AcceptSyn
<1>8. shared'[p][id] = s
  BY <1>1, <1>3, <1>6, <1>7, EntersTable
<1>9. handle'[p][id] = NewHandle("Ack") /\ id \in entry'[p] /\ rx'[p][id] = "open"
      /\ rcvd'[p][id] = Body(f)
  BY <1>1, <1>4, <1>6, <1>7 DEF StreamTypes, Enters, GhostTypes
<1>10. ASSUME NEW j \in Ids \ {id} PROVE SameStream(p, j)
  <2>1. rcvd'[p][j] = rcvd[p][j]
    BY <1>1, <1>7 DEF GhostTypes
  <2> QED
    BY <1>4, <2>1 DEF SameStream, Enters, OneStream
<1> QED
  BY <1>2, <1>3, <1>4, <1>5, <1>8, <1>9, <1>10 DEF FrameAccept

\* The frame of a stream that is in the table.
LEMMA PlainFrame ==
  ASSUME BothOurs, Settled, NEW p \in Peers, NEW f \in Frames,
         on_data(p, f) \/ on_window_update(p, f)
  PROVE  FramePlain(p, f.id, f) /\ \A id \in Ids \ {f.id} : SameStream(p, id)
<1> USE DEF connVars, pendVars, sockVars, tableVars, handleVars, ghostVars
<1>1. p \in Endpoints /\ StreamTypes /\ FrameTypes /\ StreamsOK /\ GhostTypes
  BY SettledParts
<1>2. IsStreamFrame(f) /\ f.id \in Ids /\ f.id \in entry[p] /\ "SYN" \notin f.flags
  BY DEF on_data, on_window_update, IsPlain, IsStreamFrame, Frames
<1>3. PICK id \in Ids : id = f.id
  BY <1>2
<1>4. PICK a : a = Acked(p, f)[id]
  OBVIOUS
<1>5. a \in SharedSet /\ a.fc = shared[p][id].fc /\ a.state # "None"
  <2>1. shared[p][id].state # "None"
    BY <1>1, <1>2, <1>3 DEF StreamsOK, StreamOK, Held
  <2> QED
    BY <1>1, <1>2, <1>3, <1>4, <2>1, AckedOne
<1>6. a.fc.receive_window \in Nat /\ a.fc.send_window \in Nat /\ f.len \in Nat /\ U32_MAX \in Nat
  BY <1>5, FlowAssumption DEF SharedSet, Frames
<1>7. protocol_error \in Frames /\ protocol_error.tag = "GoAway"
  BY AnswerFrames DEF protocol_error, Header
<1>8. ASSUME NEW s, s.fc.send_window = a.fc.send_window + Credit(f),
             s.fc.receive_window = a.fc.receive_window - Body(f), s \in SharedSet, s.state # "None",
             NEW ent \in SUBSET Ids, ent \in {entry[p], entry[p] \ {id}},
             SetStreams(p, ent, [shared[p] EXCEPT ![id] = s], handle[p]),
             Body(f) <= a.fc.receive_window, UNCHANGED <<rx, handle>>,
             rcvd'[p][id] = rcvd[p][id] + Body(f), \A j \in Ids \ {id} : rcvd'[p][j] = rcvd[p][j]
      PROVE  FramePlain(p, id, f) /\ \A j \in Ids \ {id} : SameStream(p, j)
  <2>1. PICK S : S = [shared[p] EXCEPT ![id] = s]
    OBVIOUS
  <2>2. /\ \A j \in Ids \ {id} : j \in ent <=> j \in entry[p]
        /\ s.state = "None" => s = NoShared
        /\ SetStreams(p, ent, S, handle[p])
    BY <1>8, <2>1
  <2>3. /\ entry'[p] = ent /\ shared'[p][id] = Kept(id, ent, handle[p][id], s)
        /\ \A j \in Ids \ {id} : shared'[p][j] = shared[p][j]
    BY <1>1, <1>8, <2>1, <2>2, SetsOne
  <2>4. Booked(p, id, f)
    BY <1>5, <1>8, <2>3 DEF Booked, Kept
  <2>5. FramePlain(p, id, f)
    BY <1>2, <1>3, <1>5, <1>8, <2>4 DEF FramePlain
  <2> QED
    BY <1>8, <2>2, <2>3, <2>5 DEF SameStream
<1>9. ASSUME Terminate(p, f, protocol_error),
             \/ Body(f) > shared[p][id].fc.receive_window
             \/ shared[p][id].fc.send_window + Credit(f) > U32_MAX
      PROVE  FramePlain(p, id, f) /\ \A j \in Ids \ {id} : SameStream(p, j)
  BY <1>2, <1>3, <1>7, <1>9, TerminateRefuses DEF FramePlain
<1>10. entry[p] \in SUBSET Ids
  BY <1>1 DEF StreamTypes
<1>11. ASSUME NEW d \in SharedSet, d.state # "None"
       PROVE  /\ Finished(d, f).fc = d.fc /\ Finished(d, f) \in SharedSet
              /\ Finished(d, f).state # "None"
  <2>1. "RecvClosed" \in Ends
    BY DEF Ends
  <2>2. /\ To(d, "RecvClosed") \in SharedSet /\ To(d, "RecvClosed").fc = d.fc
        /\ To(d, "RecvClosed").state \in Ends
    BY <1>11, <2>1, ToState
  <2> QED
    BY <1>11, <2>2 DEF Finished, Ends
<1>12. \A s : AfterFin(p, f, s) \in {entry[p], entry[p] \ {id}} /\ AfterFin(p, f, s) \in SUBSET Ids
  BY <1>3, <1>10 DEF AfterFin
<1>13. CASE on_data(p, f)
  <2>1. f.tag = "Data" /\ Body(f) = f.len /\ Credit(f) = 0
    BY <1>13 DEF on_data, IsPlain, Body, Credit
  <2>2. CASE /\ can_consume_receive_window(a.fc, f.len)
             /\ SetStreams(p, AfterFin(p, f, Delivered(a, f)),
                           [shared[p] EXCEPT ![id] = Delivered(a, f)], handle[p])
             /\ rcvd' = [rcvd EXCEPT ![p][id] = @ + f.len] /\ UNCHANGED <<rx, handle>>
    <3>1. PICK d : d = [a EXCEPT !.fc = consume_receive_window(@, f.len),
                                 !.buf = @ + f.len, !.reader = FALSE]
      OBVIOUS
    <3>2. f.len <= a.fc.receive_window
      BY <2>2 DEF can_consume_receive_window
    <3>3. /\ d.fc.receive_window = a.fc.receive_window - f.len /\ d.fc.send_window = a.fc.send_window
          /\ d.state # "None"
      BY <1>5, <3>1 DEF consume_receive_window, SharedSet
    <3>4. d \in SharedSet
      <4>1. a.buf + f.len \in 0 .. U32_MAX
        <5>1. Bounded(a)
          BY <1>1, <1>2, <1>3, <1>4, AckedOne DEF StreamOK
        <5> QED
          BY <1>5, <1>6, <3>2, <5>1 DEF Bounded, SharedSet
      <4>2. a.fc.receive_window - f.len \in 0 .. U32_MAX
        BY <1>5, <1>6, <3>2 DEF SharedSet
      <4> QED
        BY <1>5, <3>1, <4>1, <4>2 DEF consume_receive_window, SharedSet
    <3>5. PICK s : s = Finished(d, f)
      OBVIOUS
    <3>6. s = Delivered(a, f) /\ s.fc = d.fc /\ s \in SharedSet /\ s.state # "None"
      BY <1>11, <3>1, <3>3, <3>4, <3>5 DEF Delivered
    <3>7. PICK ent \in SUBSET Ids : ent = AfterFin(p, f, s) /\ ent \in {entry[p], entry[p] \ {id}}
      BY <1>12
    <3>8. /\ rcvd'[p][id] = rcvd[p][id] + Body(f) /\ \A j \in Ids \ {id} : rcvd'[p][j] = rcvd[p][j]
      BY <1>1, <2>1, <2>2 DEF GhostTypes
    <3>9. /\ s.fc.send_window = a.fc.send_window + Credit(f)
          /\ s.fc.receive_window = a.fc.receive_window - Body(f)
      BY <1>6, <2>1, <3>3, <3>6
    <3> QED
      BY <1>3, <1>8, <2>1, <2>2, <3>2, <3>6, <3>7, <3>8, <3>9
  <2>3. CASE ~can_consume_receive_window(a.fc, f.len) /\ Terminate(p, f, protocol_error)
    <3>1. Body(f) > shared[p][id].fc.receive_window
      BY <1>5, <1>6, <2>1, <2>3 DEF can_consume_receive_window
    <3> QED
      BY <1>3, <1>9, <2>3, <3>1
  <2> QED
    BY <1>3, <1>4, <1>13, <2>2, <2>3 DEF on_data
<1>14. CASE on_window_update(p, f)
  <2>1. f.tag = "WindowUpdate" /\ Body(f) = 0 /\ Credit(f) = f.len
    BY <1>14 DEF on_window_update, IsPlain, Body, Credit
  <2>2. CASE /\ can_increase_send_window_by(a.fc, f.len)
             /\ SetStreams(p, AfterFin(p, f, Refilled(a, f)),
                           [shared[p] EXCEPT ![id] = Refilled(a, f)], handle[p])
             /\ UNCHANGED <<rx, handle, rcvd>>
    <3>1. PICK d : d = [a EXCEPT !.fc = increase_send_window_by(@, f.len), !.writer = FALSE,
                                 !.reader = @ /\ "FIN" \notin f.flags]
      OBVIOUS
    <3>2. a.fc.send_window + f.len <= U32_MAX
      BY <2>2 DEF can_increase_send_window_by
    <3>3. /\ d.fc.receive_window = a.fc.receive_window /\ d.fc.send_window = a.fc.send_window + f.len
          /\ d.state # "None"
      BY <1>5, <3>1 DEF increase_send_window_by, SharedSet
    <3>4. d \in SharedSet
      <4>1. a.fc.send_window + f.len \in 0 .. U32_MAX
        BY <1>6, <3>2
      <4>2. (a.reader /\ "FIN" \notin f.flags) \in BOOLEAN
        OBVIOUS
      <4> QED
        BY <1>5, <3>1, <4>1, <4>2 DEF increase_send_window_by, SharedSet
    <3>5. PICK s : s = Finished(d, f)
      OBVIOUS
    <3>6. s = Refilled(a, f) /\ s.fc = d.fc /\ s \in SharedSet /\ s.state # "None"
      BY <1>11, <3>1, <3>3, <3>4, <3>5 DEF Refilled
    <3>7. PICK ent \in SUBSET Ids : ent = AfterFin(p, f, s) /\ ent \in {entry[p], entry[p] \ {id}}
      BY <1>12
    <3>8. /\ rcvd'[p][id] = rcvd[p][id] + Body(f) /\ \A j \in Ids \ {id} : rcvd'[p][j] = rcvd[p][j]
      BY <1>1, <2>1, <2>2 DEF GhostTypes
    <3>9. /\ s.fc.send_window = a.fc.send_window + Credit(f)
          /\ s.fc.receive_window = a.fc.receive_window - Body(f) /\ Body(f) <= a.fc.receive_window
      BY <1>6, <2>1, <3>3, <3>6
    <3> QED
      BY <1>3, <1>8, <2>1, <2>2, <3>6, <3>7, <3>8, <3>9
  <2>3. CASE ~can_increase_send_window_by(a.fc, f.len) /\ Terminate(p, f, protocol_error)
    <3>1. shared[p][id].fc.send_window + Credit(f) > U32_MAX
      BY <1>5, <1>6, <2>1, <2>3 DEF can_increase_send_window_by
    <3> QED
      BY <1>3, <1>9, <2>3, <3>1
  <2> QED
    BY <1>3, <1>4, <1>14, <2>2, <2>3 DEF on_window_update
<1> QED
  BY <1>13, <1>14

\* What on_frame does with each stream: the frame's stream takes the frame,
\* the others notice nothing.
LEMMA FrameCases ==
  ASSUME BothOurs, Settled, NEW p \in Peers, on_frame(p), NEW f \in Frames,
         f = Head(wire[Other(p)]), NEW id \in Ids
  PROVE  /\ f \in StreamFrames(id) => FrameStep(p, id, f)
         /\ f \notin StreamFrames(id) => SameStream(p, id)
<1> USE DEF connVars, pendVars, sockVars, tableVars, handleVars, ghostVars
<1>1. f \in StreamFrames(id) <=> IsStreamFrame(f) /\ f.id = id
  BY OfFrame
<1>2. ASSUME IsStreamFrame(f), FrameStep(p, f.id, f), \A j \in Ids \ {f.id} : SameStream(p, j)
      PROVE  /\ f \in StreamFrames(id) => FrameStep(p, id, f)
             /\ f \notin StreamFrames(id) => SameStream(p, id)
  BY <1>1, <1>2
<1>3. CASE OnUnknown(p, f)
  <2>1. UNCHANGED <<handle, shared, entry, rx, rcvd>>
    BY <1>3 DEF OnUnknown
  <2>2. SameStream(p, id)
    BY <2>1 DEF SameStream
  <2>3. "SYN" \notin f.flags /\ f.id \notin entry[p]
    BY <1>3 DEF OnUnknown
  <2> QED
    BY <1>1, <2>2, <2>3 DEF FrameStep, FrameUnknown
<1>4. CASE OnReset(p, f)
  <2>1. IsStreamFrame(f)
    BY <1>4 DEF OnReset
  <2>2. FrameReset(p, f.id, f) /\ \A j \in Ids \ {f.id} : SameStream(p, j)
    BY <1>4, ResetFrame
  <2>3. FrameStep(p, f.id, f)
    BY <2>2 DEF FrameStep
  <2> QED
    BY <1>2, <2>1, <2>2, <2>3
<1>5. CASE RejectSyn(p, f)
  <2>1. IsStreamFrame(f)
    BY <1>5 DEF RejectSyn, IsSyn
  <2>2. FrameReject(p, f.id, f) /\ \A j \in Ids \ {f.id} : SameStream(p, j)
    BY <1>5, RejectFrame
  <2>3. FrameStep(p, f.id, f)
    BY <2>2 DEF FrameStep
  <2> QED
    BY <1>2, <2>1, <2>2, <2>3
<1>6. CASE AcceptSyn(p, f)
  <2>1. IsStreamFrame(f)
    BY <1>6 DEF AcceptSyn, IsSyn
  <2>2. FrameAccept(p, f.id, f) /\ \A j \in Ids \ {f.id} : SameStream(p, j)
    BY <1>6, AcceptFrame
  <2>3. FrameStep(p, f.id, f)
    BY <2>2 DEF FrameStep
  <2> QED
    BY <1>2, <2>1, <2>2, <2>3
<1>7. CASE on_data(p, f) \/ on_window_update(p, f)
  <2>1. IsStreamFrame(f)
    BY <1>7 DEF on_data, on_window_update, IsPlain, IsStreamFrame
  <2>2. FramePlain(p, f.id, f) /\ \A j \in Ids \ {f.id} : SameStream(p, j)
    BY <1>7, PlainFrame
  <2>3. FrameStep(p, f.id, f)
    BY <2>2 DEF FrameStep
  <2> QED
    BY <1>2, <2>1, <2>2, <2>3
<1>8. CASE on_ping(p, f) \/ handle_pong(p, f)
  <2>1. UNCHANGED <<handle, shared, entry, rx, rcvd>> /\ f.tag = "Ping"
    BY <1>8 DEF on_ping, handle_pong
  <2>2. SameStream(p, id)
    BY <2>1 DEF SameStream
  <2>3. ~IsStreamFrame(f)
    BY <2>1 DEF IsStreamFrame
  <2> QED
    BY <1>1, <2>2, <2>3
<1>9. \/ OnUnknown(p, f) \/ OnReset(p, f) \/ RejectSyn(p, f) \/ AcceptSyn(p, f)
      \/ on_data(p, f) \/ on_window_update(p, f) \/ on_ping(p, f) \/ handle_pong(p, f)
  BY DEF on_frame
<1> QED
  BY <1>3, <1>4, <1>5, <1>6, <1>7, <1>8, <1>9

\* Sending changes no stream.
LEMMA SendingSteady ==
  ASSUME NEW p \in Endpoints, Sending(p) PROVE Steady
<1>1. 1 \in Ids
  BY EndpointAssumption DEF Ids
<1> QED
  BY <1>1, SteadySteps DEF Sending

\* No stream is born twice.
LEMMA LifeStays ==
  ASSUME BothOurs, Settled, NEW p \in Peers, EndpointStep(p), NEW id \in Ids, Unborn(p, id)'
  PROVE  Unborn(p, id)
<1>1. p \in Endpoints /\ StreamTypes /\ FrameTypes /\ GhostTypes /\ StreamsOK
  BY SettledParts
<1>2. CASE Sending(p)
  BY <1>1, <1>2, SendingSteady DEF Steady, Unborn
<1>3. CASE Ending(p)
  <2>1. Fades(p, id)
    BY <1>1, <1>3, EndingFades
  <2> QED
    BY <2>1 DEF Fades, Unborn
<1>4. CASE on_frame(p)
  <2>1. PICK f \in Frames : f = Head(wire[Other(p)])
    BY <1>4, FrameTaken
  <2>2. /\ f \in StreamFrames(id) => FrameStep(p, id, f)
        /\ f \notin StreamFrames(id) => SameStream(p, id)
    BY <1>4, <2>1, FrameCases
  <2>3. handle'[p][id] = handle[p][id] \/ handle'[p][id] = NewHandle("Ack")
    BY <2>2 DEF FrameStep, FrameUnknown, FrameReset, FrameReject, FrameAccept, FramePlain,
                Refused, Booked, SameStream, Fades
  <2>4. NewHandle("Ack").life = "live"
    BY DEF NewHandle, NoHandle
  <2> QED
    BY <2>3, <2>4 DEF Unborn
<1>5. CASE poll_new_outbound(p)
  <2>1. \/ handle'[p][id] = handle[p][id]
        \/ handle'[p][id] = NewHandle("Syn")
    BY <1>5, OpenMoves
  <2>2. NewHandle("Syn").life = "live"
    BY DEF NewHandle, NoHandle
  <2> QED
    BY <2>1, <2>2 DEF Unborn
<1>6. ASSUME NEW j \in Ids, HandleAction(p, j) PROVE Unborn(p, id)
  <2>1. HandleMove(p, j) /\ ElseKept(p, j)
    BY <1>1, <1>6, HandleMoves
  <2>2. CASE id # j
    BY <2>1, <2>2 DEF ElseKept, Unborn
  <2>3. CASE id = j
    <3>1. handle'[p][j].life \in {"live", "dropped"}
      <4>1. ASSUME NEW f, OpWrite(p, j, f) \/ OpGrant(p, j, f) PROVE handle'[p][j].life = "live"
        BY <4>1 DEF OpWrite, OpGrant, Starts
      <4>2. ASSUME OpSend(p, j) PROVE handle'[p][j].life = "live"
        <5>1. handle[p][j] \in Handles
          BY <1>1 DEF StreamTypes
        <5> QED
          BY <4>2, <5>1 DEF OpSend, Handles
      <4>3. ASSUME NEW f, OpClose(p, j, f) PROVE handle'[p][j].life = "live"
        BY <4>3 DEF OpClose
      <4>4. ASSUME OpRest(p, j) PROVE handle'[p][j].life = "live"
        BY <4>4 DEF OpRest
      <4>5. ASSUME OpDrop(p, j) PROVE handle'[p][j].life = "dropped"
        BY <4>5 DEF OpDrop
      <4> QED
        BY <2>1, <4>1, <4>2, <4>3, <4>4, <4>5 DEF HandleMove
    <3> QED
      BY <2>3, <3>1 DEF Unborn
  <2> QED
    BY <2>2, <2>3
<1>7. ASSUME NEW j \in Ids, on_drop_stream(p, j) PROVE Unborn(p, id)
  <2>1. UNCHANGED handle
    BY <1>7 DEF on_drop_stream, handleVars
  <2> QED
    BY <2>1 DEF Unborn
<1> QED
  BY <1>1, <1>2, <1>3, <1>4, <1>5, <1>6, <1>7, EndpointActions

\* The SYN of a stream arrives before the stream exists, and only once.
LEMMA SynArrives ==
  ASSUME BothOurs, Settled, NEW p \in Peers, on_frame(p), EndpointStep(p), NEW f \in Frames,
         f = Head(wire[Other(p)]), NEW id \in Ids, SynFor(f, id), ~is_outbound(p, id)
  PROVE  /\ Unborn(p, id) /\ Coming(Other(p), id)
         /\ ~Unborn(Other(p), id) => ~Coming(Other(p), id)'
<1>1. PICK o \in Peers : o = Other(p) /\ Other(o) = p /\ o # p
  BY OtherPeer, SettledParts
<1>2. is_outbound(o, id)
  BY <1>1 DEF is_outbound, Peers
<1>3. OwnJourney(o) /\ p \in Endpoints /\ StreamsOK
  BY SettledParts
<1>4. OneSyn(o, id)
  BY <1>2, <1>3 DEF OwnJourney
<1>5. wire[o] # <<>> /\ wire[o] \in Seq(Frames) /\ wire'[o] = Tail(wire[o])
  BY <1>1, FrameTaken
<1>6. SynIn(wire[o], id) /\ (Once(wire[o], id) => ~SynIn(wire'[o], id))
  BY <1>1, <1>5, SynTail
<1>7. "wire" \in Places(o, id) /\ "opened" \in PlaceNames /\ "wire" \in PlaceNames
  BY <1>6, PlacesAre DEF PlaceNames
<1>8. \A x \in Places(o, id) : x = "wire"
  BY <1>4, <1>7 DEF OneSyn
<1>9. rx[p][id] = "none"
  BY <1>1, <1>8, PlacesAre
<1>10. Unborn(p, id)
  BY <1>3, <1>9, LifeAndReceiver DEF Unborn
<1>11. Coming(Other(p), id)
  BY <1>1, <1>7 DEF Coming
<1>12. ASSUME ~Unborn(o, id), Coming(o, id)' PROVE FALSE
  <2>1. handle'[o] = handle[o] /\ chan'[o] = chan[o] /\ pendW'[o] = pendW[o] /\ pendQ'[o] = pendQ[o]
    BY <1>1, OtherSide
  <2>2. PICK x \in Places(o, id)' : x # "opened"
    BY <1>12, <2>1 DEF Coming, Unborn
  <2>3. ~SynIn(wire'[o], id)
    BY <1>4, <1>6 DEF OneSyn, AllOnce
  <2>4. x \in Places(o, id)
    BY <2>1, <2>2, <2>3 DEF Places, PlaceNames
  <2>5. x = "wire"
    BY <1>8, <2>4
  <2> QED
    BY <2>2, <2>3, <2>5 DEF Places
<1> QED
  BY <1>1, <1>10, <1>11, <1>12

\* A side that awaits a SYN after a step has awaited it before.
LEMMA AwaitsBack ==
  ASSUME BothOurs, Settled, Settled', NEW p \in Peers, EndpointStep(p), NEW id \in Ids
  PROVE  /\ Awaits(p, id)' => Awaits(p, id)
         /\ Awaits(Other(p), id)' => Awaits(Other(p), id)
<1>1. PICK o \in Peers : o = Other(p) /\ Other(o) = p /\ o # p
  BY OtherPeer, SettledParts
<1>2. KeptState(o) /\ (Outward(p) \/ Inward(p)) /\ handle'[o] = handle[o]
  BY <1>1, OtherSide
<1>3. Unborn(p, id)' => Unborn(p, id)
  BY LifeStays
<1>4. ASSUME Awaits(p, id)' PROVE Awaits(p, id)
  <2>1. conn'[p] = "Active" /\ Unborn(p, id)' /\ ~is_outbound(p, id)
        /\ (~GoingAway(p)' \/ Coming(Other(p), id)')
    BY <1>4 DEF Awaits
  <2>2. conn[p] = "Active"
    BY <1>2, <2>1 DEF Outward, Inward
  <2>3. ~GoingAway(p) \/ Coming(Other(p), id)
    BY <2>1, AwayStays, OtherComing
  <2> QED
    BY <1>3, <2>1, <2>2, <2>3 DEF Awaits
<1>5. ASSUME Awaits(o, id)' PROVE Awaits(o, id)
  <2>1. conn'[o] = "Active" /\ Unborn(o, id)' /\ ~is_outbound(o, id)
        /\ (~GoingAway(o)' \/ Coming(p, id)')
    BY <1>1, <1>5 DEF Awaits
  <2>2. conn[o] = "Active" /\ Unborn(o, id)
    BY <1>2, <2>1 DEF KeptState, Unborn
  <2>3. is_outbound(p, id)
    BY <1>1, <2>1 DEF is_outbound, Peers
  <2>4. Coming(p, id)' => Coming(p, id)
    BY <1>3, <2>3, ComingBefore
  <2>5. GoingAway(o) => GoingAway(o)'
    BY <1>1, OtherAway
  <2> QED
    BY <1>1, <2>1, <2>2, <2>4, <2>5 DEF Awaits
<1> QED
  BY <1>1, <1>4, <1>5

\* A side that hears a stream after a step heard it before, unless it has just
\* opened it.
LEMMA HearsBack ==
  ASSUME BothOurs, Settled, Settled', NEW p \in Peers, EndpointStep(p), NEW id \in Ids
  PROVE  /\ Hears(p, id)' => Hears(p, id) \/ (poll_new_outbound(p) /\ id = nextId[p])
         /\ Hears(Other(p), id)' => Hears(Other(p), id)
<1>1. PICK o \in Peers : o = Other(p) /\ Other(o) = p /\ o # p
  BY OtherPeer, SettledParts
<1>2. KeptState(o) /\ (Outward(p) \/ Inward(p))
  BY <1>1, OtherSide
<1>3. Hears(o, id)' => Hears(o, id)
  BY <1>1, <1>2, AwaitsBack DEF Hears, KeptState
<1>4. ASSUME conn'[p] = "Active", id \in entry'[p], ~(poll_new_outbound(p) /\ id = nextId[p])
      PROVE  Hears(p, id)
  <2>0. p \in Endpoints /\ StreamTypes /\ FrameTypes /\ GhostTypes /\ StreamsOK
    BY SettledParts
  <2>1. conn[p] = "Active"
    BY <1>2, <1>4 DEF Outward, Inward
  <2>2. SUFFICES ASSUME id \notin entry[p] PROVE Awaits(p, id)
    BY <2>1 DEF Hears
  <2>3. CASE Sending(p)
    BY <1>4, <2>0, <2>2, <2>3, SendingSteady DEF Steady
  <2>4. CASE Ending(p)
    BY <1>4, <2>0, <2>4, EndingFades
  <2>5. CASE on_frame(p)
    <3>1. PICK f \in Frames : f = Head(wire[Other(p)])
      BY <2>5, FrameTaken
    <3>2. /\ f \in StreamFrames(id) => FrameStep(p, id, f)
          /\ f \notin StreamFrames(id) => SameStream(p, id)
      BY <2>5, <3>1, FrameCases
    <3>3. f \in StreamFrames(id) /\ FrameAccept(p, id, f)
      BY <1>4, <2>2, <3>2 DEF FrameStep, FrameUnknown, FrameReset, FrameReject, FramePlain,
                              Refused, SameStream
    <3>4. SynFor(f, id) /\ ~is_outbound(p, id)
      BY <3>3, OfFrame DEF FrameAccept, SynFor
    <3>5. Unborn(p, id) /\ Coming(Other(p), id)
      BY <2>5, <3>1, <3>4, SynArrives
    <3> QED
      BY <2>1, <3>4, <3>5 DEF Awaits
  <2>6. CASE poll_new_outbound(p)
    BY <1>4, <2>2, <2>6, OpenMoves
  <2>7. ASSUME NEW j \in Ids, HandleAction(p, j) PROVE FALSE
    <3>1. ElseKept(p, j)
      BY <2>0, <2>7, HandleMoves
    <3> QED
      BY <1>4, <2>2, <3>1 DEF ElseKept
  <2>8. ASSUME NEW j \in Ids, on_drop_stream(p, j) PROVE FALSE
    <3>1. StreamStep(p, j)
      BY <2>0, <2>8, OnDropStreamKeeps
    <3> QED
      BY <1>4, <2>2, <3>1 DEF StreamStep, OneStream, NoneReborn
  <2> QED
    BY <2>0, <2>3, <2>4, <2>5, <2>6, <2>7, <2>8, EndpointActions
<1>5. Hears(p, id)' => Hears(p, id) \/ (poll_new_outbound(p) /\ id = nextId[p])
  BY <1>4, AwaitsBack DEF Hears
<1> QED
  BY <1>1, <1>3, <1>5

\* The frame that tells the remote of a dropped stream: it carries nothing.
Farewell(f) == f \in Frames /\ f.len = 0 /\ "SYN" \notin f.flags

LineEnds(p, id, f) ==
  /\ Path(p, id)' = Cat(Path(p, id), One(f)) /\ LineGrows(p, id, f)
  /\ Farewell(f)

\* on_drop_stream: the stream of the channel that ended leaves the table.
LEMMA DropMoves ==
  ASSUME BothOurs, Settled, Settled', NEW p \in Peers, NEW j \in Ids, on_drop_stream(p, j)
  PROVE  /\ \A id \in Ids \ {j} : SameStream(p, id) /\ Path(p, id)' = Path(p, id)
                                  /\ LineSame(p, id)
         /\ Fades(p, j) /\ ~Hears(p, j)' /\ Line(p, j) = Path(p, j) /\ Line(p, j)' = Path(p, j)'
         /\ handle[p][j].life # "live"
         /\ conn' = conn /\ rx[p][j] = "open"
         /\ \/ Path(p, j)' = Path(p, j) /\ LineSame(p, j)
            \/ \E f : LineEnds(p, j, f)
<1> USE DEF connVars, pendVars, sockVars, tableVars, handleVars, ghostVars
<1>1. p \in Endpoints /\ StreamTypes /\ StreamsOK /\ Typed(p) /\ Orderly(p)
  BY SettledParts
<1>2. StreamTypes' /\ Orderly(p)' /\ Typed(p)' /\ StreamsOK'
  BY NextSettledParts
<1>3. /\ UNCHANGED <<conn, handle, chan, rcvd, pendR, pendQ, wire>> /\ pendW[p] = <<>>
      /\ rx[p][j] = "open" /\ handle[p][j].life # "live"
      /\ rx' = [rx EXCEPT ![p][j] = "done"]
  BY DEF on_drop_stream, ChanEnded, live
<1>4. StreamStep(p, j)
  BY <1>1, OnDropStreamKeeps
<1>5. ASSUME NEW id \in Ids \ {j}
      PROVE SameStream(p, id) /\ Path(p, id)' = Path(p, id) /\ LineSame(p, id)
  <2>1. SameStream(p, id)
    BY <1>3, <1>4 DEF StreamStep, OneStream, SameStream
  <2>2. Path(p, id)' = Path(p, id)
    BY <1>1, <1>2, DropPath
  <2>3. Unsent(p, id)' = Unsent(p, id)
    BY <1>3 DEF Unsent
  <2> QED
    BY <2>1, <2>2, <2>3, PartsSame
<1>6. handle[p][j] \in Handles /\ handle[p][j].life = "dropped" /\ handle[p][j].op.kind = "idle"
  <2>1. rx[p][j] # "none"
    BY <1>3
  <2>2. handle[p][j].life # "none"
    BY <1>1, <2>1, LifeAndReceiver
  <2>3. handle[p][j] \in Handles
    BY <1>1 DEF StreamTypes
  <2>4. handle[p][j].op.kind # "idle" => handle[p][j].life = "live"
    BY <1>1 DEF StreamsOK, StreamOK, Held
  <2> QED
    BY <1>3, <2>2, <2>3, <2>4 DEF Handles
<1>7. Unsent(p, j) = Nil /\ Unsent(p, j)' = Nil
  BY <1>3, <1>6 DEF Unsent, Nil
<1>8. /\ Path(p, j) \in Seq(Frames) /\ Path(p, j)' \in Seq(Frames)
  BY <1>1, <1>2, LineType, NextLineType
<1>9. Line(p, j) = Path(p, j) /\ Line(p, j)' = Path(p, j)'
  <2>1. Line(p, j) = Cat(Path(p, j), Nil) /\ Line(p, j)' = Cat(Path(p, j)', Nil)
    BY <1>7 DEF Line
  <2> QED
    BY <1>8, <2>1, CatNil
<1>10. Fades(p, j) /\ j \notin entry'[p] /\ (pendW'[p] = Nil \/ \E f : Farewell(f) /\ f \in StreamFrames(j) /\ pendW'[p] = One(f))
  <2>1. CASE j \in entry[p]
    <3>1. PICK S : S = [shared[p] EXCEPT ![j] = Woken(To(@, "Closed"))]
      OBVIOUS
    <3>2. SetStreams(p, entry[p] \ {j}, S, handle[p])
          /\ pendW' = [pendW EXCEPT ![p] = DropFrame(j, shared[p][j].state)]
      BY <2>1, <3>1 DEF on_drop_stream
    <3>3. shared[p][j] \in SharedSet /\ shared[p][j].state # "None" /\ shared[p] \in [Ids -> SharedSet]
      BY <1>1, <2>1 DEF StreamTypes, StreamsOK, StreamOK, Held
    <3>4. PICK w : w = Woken(To(shared[p][j], "Closed"))
      OBVIOUS
    <3>5. w.fc = shared[p][j].fc
      BY <3>3, <3>4, WokenClosed
    <3>6. S[j] = w
      BY <3>1, <3>3, <3>4
    <3>7. /\ shared'[p][j] = S[j] \/ shared'[p][j] = NoShared
          /\ j \in entry'[p] <=> j \in entry[p] \ {j}
      BY <1>1, <3>2, SetFades
    <3>8. Fades(p, j) /\ j \notin entry'[p]
      BY <1>3, <3>5, <3>6, <3>7 DEF Fades
    <3>9. PICK d : d = DropFrame(j, shared[p][j].state)
      OBVIOUS
    <3>10. pendW'[p] = d
      <4>1. pendW \in [Peers -> Seq(Frames)]
        BY <1>1 DEF Orderly, FrameTypes
      <4> QED
        BY <3>2, <3>9, <4>1
    <3>11. d = Nil \/ d = One(reset_stream(j)) \/ d = One(close_stream(j, FALSE))
      <4>1. PICK st : st = shared[p][j].state
        OBVIOUS
      <4>2. PICK a : a = <<reset_stream(j)>>
        OBVIOUS
      <4>3. PICK b : b = <<close_stream(j, FALSE)>>
        OBVIOUS
      <4>4. d = CASE st \in OpenStates -> a [] st = "RecvClosed" -> b [] OTHER -> <<>>
        BY <3>9, <4>1, <4>2, <4>3 DEF DropFrame
      <4>5. d = a \/ d = b \/ d = <<>>
        <5>1. st = "RecvClosed" => st \notin OpenStates
          BY DEF OpenStates
        <5>2. CASE st \in OpenStates
          BY <4>4, <5>1, <5>2
        <5>3. CASE st = "RecvClosed"
          BY <4>4, <5>1, <5>3
        <5>4. CASE st \notin OpenStates /\ st # "RecvClosed"
          BY <4>4, <5>4
        <5> QED
          BY <5>2, <5>3, <5>4
      <4> QED
        BY <4>2, <4>3, <4>5 DEF Nil, One
    <3>12. reset_stream(j) \in Frames /\ close_stream(j, FALSE) \in Frames
      <4>1. 0 \in 0 .. U32_MAX /\ {} \in SUBSET Flags /\ FALSE \in BOOLEAN /\ 0 \in Nat
        BY FlowAssumption
      <4> QED
        BY <4>1, FrameOfStream
    <3>13. Farewell(reset_stream(j)) /\ Farewell(close_stream(j, FALSE))
      BY <3>12 DEF Farewell, reset_stream, close_stream, Header
    <3>14. reset_stream(j) \in StreamFrames(j) /\ close_stream(j, FALSE) \in StreamFrames(j)
      <4>1. IsStreamFrame(reset_stream(j)) /\ reset_stream(j).id = j
            /\ IsStreamFrame(close_stream(j, FALSE)) /\ close_stream(j, FALSE).id = j
        BY DEF reset_stream, close_stream, Header, IsStreamFrame
      <4> QED
        BY <3>12, <4>1, OfFrame
    <3> QED
      BY <3>8, <3>10, <3>11, <3>13, <3>14
  <2>2. CASE j \notin entry[p]
    <3>1. UNCHANGED <<pendW, entry, shared>>
      BY <2>2 DEF on_drop_stream
    <3> QED
      BY <1>3, <2>2, <3>1 DEF Fades, Nil
  <2> QED
    BY <2>1, <2>2
<1>11. ~Hears(p, j)'
  BY <1>3, <1>6, <1>10 DEF Hears, Awaits, Unborn
<1>12. \/ Path(p, j)' = Path(p, j) /\ LineSame(p, j)
       \/ \E f : LineEnds(p, j, f)
  <2>1. CASE pendW'[p] = Nil
    <3>1. Path(p, j)' = Path(p, j)
      BY <1>1, <1>2, <2>1, DropPath
    <3> QED
      BY <1>9, <3>1 DEF LineSame
  <2>2. ASSUME NEW f, Farewell(f), f \in StreamFrames(j), pendW'[p] = One(f)
        PROVE  LineEnds(p, j, f)
    <3>1. f \in StreamFrames(j) \cap Frames
      BY <2>2 DEF Farewell
    <3>2. Path(p, j)' = Cat(Path(p, j), One(f))
      BY <1>1, <1>2, <2>2, <3>1, DropPath
    <3> QED
      BY <1>9, <2>2, <3>2 DEF LineEnds, LineGrows
  <2> QED
    BY <1>10, <2>1, <2>2
<1> QED
  BY <1>3, <1>5, <1>9, <1>10, <1>11, <1>12

\* A side that no longer hears its stream may count too little, never too much.
LEMMA FadedBooks ==
  ASSUME NEW p \in Peers, Typed(p), Typed(p)', NEW id \in Ids, ~Hears(p, id)',
         NEW b \in Nat, NEW c \in Nat,
         InFlight(p, id)' = InFlight(p, id), Granted(p, id)' = Granted(p, id),
         SendV(p, id)' <= SendV(p, id) + c, RecvV(p, id) <= RecvV(p, id)' + b
  PROVE  Spends(p, id, c) /\ Grants(p, id, b)
<1>1. InFlight(p, id) \in Nat /\ Granted(p, id) \in Nat
  BY Amounts
<1>2. /\ SendV(p, id) \in Int /\ RecvV(p, id) \in Int
      /\ SendV(p, id)' \in Int /\ RecvV(p, id)' \in Int
  <2>1. StreamTypes /\ StreamTypes'
    BY DEF Typed
  <2> QED
    BY <2>1, ValueTypes, NextValueTypes, FlowAssumption
<1>3. Spends(p, id, c)
  BY <1>1, <1>2 DEF Spends
<1>4. Grants(p, id, b)
  BY <1>1, <1>2 DEF Grants
<1> QED
  BY <1>3, <1>4

\* The books of a dropped stream and of its neighbours.
LEMMA DropBooks ==
  ASSUME BothOurs, Settled, Settled', NEW p \in Peers, NEW j \in Ids, on_drop_stream(p, j),
         NEW id \in Ids
  PROVE  Spends(p, id, 0) /\ Grants(p, id, 0)
<1>1. p \in Endpoints /\ StreamTypes /\ StreamsOK /\ Typed(p)
  BY SettledParts
<1>2. StreamTypes' /\ Typed(p)' /\ StreamsOK'
  BY NextSettledParts
<1>3. CASE id # j
  <2>1. SameStream(p, id) /\ LineSame(p, id)
    BY <1>3, DropMoves
  <2>2. SendV(p, id)' = SendV(p, id) /\ RecvV(p, id)' = RecvV(p, id)
    BY <2>1 DEF SameStream, SendV, RecvV, Unborn
  <2> QED
    BY <1>1, <1>2, <2>1, <2>2, QuietBooks
<1>4. CASE id = j
  <2>1. Fades(p, id) /\ ~Hears(p, id)' /\ (LineSame(p, id) \/ \E f : LineEnds(p, id, f))
    BY <1>4, DropMoves
  <2>2. SendV(p, id)' <= SendV(p, id) /\ RecvV(p, id) <= RecvV(p, id)'
    BY <1>1, <1>2, <2>1, FadingValues
  <2>3. InFlight(p, id)' = InFlight(p, id) /\ Granted(p, id)' = Granted(p, id)
    <3>1. CASE LineSame(p, id)
      BY <1>1, <1>2, <3>1, LineAmounts
    <3>2. ASSUME NEW f, LineEnds(p, id, f)
          PROVE  InFlight(p, id)' = InFlight(p, id) /\ Granted(p, id)' = Granted(p, id)
      <4>1. f \in Frames /\ f.len = 0 /\ LineGrows(p, id, f)
        BY <3>2 DEF LineEnds, Farewell
      <4>2. Body(f) = 0 /\ Credit(f) = 0
        BY <4>1, FrameAmounts
      <4>3. /\ InFlight(p, id)' = InFlight(p, id) + Body(f)
            /\ Granted(p, id)' = Granted(p, id) + Credit(f)
        BY <1>1, <1>2, <4>1, LineAmounts
      <4>4. InFlight(p, id) \in Nat /\ Granted(p, id) \in Nat
        BY <1>1, Amounts
      <4> QED
        BY <4>2, <4>3, <4>4
    <3> QED
      BY <2>1, <3>1, <3>2
  <2>4. 0 \in Nat /\ SendV(p, id) + 0 = SendV(p, id) /\ RecvV(p, id)' + 0 = RecvV(p, id)'
    BY <1>1, <1>2, ValueTypes, NextValueTypes, FlowAssumption
  <2>5. SendV(p, id)' <= SendV(p, id) + 0 /\ RecvV(p, id) <= RecvV(p, id)' + 0
    BY <2>2, <2>4
  <2> QED
    BY <1>1, <1>2, <2>1, <2>3, <2>4, <2>5, FadedBooks
<1> QED
  BY <1>3, <1>4

----------------------------------------------------------------------------
(* The inductive invariant                                                  *)

\* Frames p sends for id: a reset carries nothing, and only an opener says SYN.
Seemly(p, id) ==
  {f \in Frames : /\ "RST" \in f.flags => f.len = 0 /\ "SYN" \notin f.flags
                  /\ "SYN" \in f.flags => is_outbound(p, id)}

Shaped(p, id) ==
  /\ Within(Line(p, id), Seemly(p, id))
  /\ handle[p][id].flag = "Syn" => is_outbound(p, id)

\* A stream that does not exist has no frames.
NotYet(p, id) == Unborn(p, id) => Line(p, id) = Nil

\* The frame of an operation may still be queued: the receiver is open, or was
\* when the write began and is being drained.
Speaks(p, id) == Whole(p) /\ (rx[p][id] # "closed" \/ handle[p][id].op.kind = "write")

\* What the remote still waits for begins with the SYN.
SynAhead(p, id) ==
  Awaits(Other(p), id) =>
    /\ SynFirst(Path(p, id))
    /\ Speaks(p, id) => SynFirst(Line(p, id))
    /\ /\ Whole(p) /\ rx[p][id] # "closed"
       /\ handle[p][id].life = "live" /\ handle[p][id].flag # "Syn"
       => HasSyn(Line(p, id))

\* What p may still send, or has sent, or will be allowed to send.
Owed(p, id) == SendV(p, id) + InFlight(p, id) + Granted(Other(p), id)

Fair(p, id)  == Owed(p, id) <= RecvV(Other(p), id)
Level(p, id) == Owed(p, id) = RecvV(Other(p), id)
Even(p, id)  == Hears(p, id) /\ Hears(Other(p), id) => Level(p, id)

\* Nothing a frame of p touches is on p's own way to the remote.
LEMMA FrameLine ==
  ASSUME BothOurs, Settled, Settled', NEW p \in Peers, on_frame(p), NEW id \in Ids
  PROVE  Path(p, id)' = Path(p, id) /\ LineSame(p, id) /\ Unsent(p, id)' = Unsent(p, id)
<1>1. p \in Endpoints /\ Orderly(p) /\ StreamsOK /\ StreamTypes
  BY SettledParts
<1>2. Orderly(p)'
  BY NextSettledParts
<1>3. PICK q : q = Other(p)
  OBVIOUS
<1>4. /\ wire'[p] = wire[p] /\ pendW' = pendW /\ pendQ' = pendQ /\ chan' = chan /\ conn' = conn
  BY <1>3, FrameTaken
<1>5. Path(p, id)' = Path(p, id)
  BY <1>1, <1>2, <1>4, AnswerPath
<1>6. Unsent(p, id)' = Unsent(p, id)
  <2>1. PICK f \in Frames : f = Head(wire[Other(p)])
    BY FrameTaken
  <2>2. /\ f \in StreamFrames(id) => FrameStep(p, id, f)
        /\ f \notin StreamFrames(id) => SameStream(p, id)
    BY <2>1, FrameCases
  <2>3. handle'[p][id] = handle[p][id] \/ (f \in StreamFrames(id) /\ FrameAccept(p, id, f))
    BY <2>2 DEF FrameStep, FrameUnknown, FrameReset, FrameReject, FramePlain,
                Refused, Booked, SameStream, Fades
  <2>4. CASE handle'[p][id] = handle[p][id]
    BY <2>4 DEF Unsent
  <2>5. CASE f \in StreamFrames(id) /\ FrameAccept(p, id, f)
    <3>1. SynFor(f, id) /\ ~is_outbound(p, id)
      BY <2>5, OfFrame DEF FrameAccept, SynFor
    <3>2. EndpointStep(p)
      BY DEF EndpointStep, ConnectionStep
    <3>3. Unborn(p, id)
      BY <2>1, <3>1, <3>2, SynArrives
    <3>4. handle[p][id].op.kind # "idle" => handle[p][id].life = "live"
      BY <1>1 DEF StreamsOK, StreamOK, Held
    <3>5. handle[p][id].op.kind = "idle"
      BY <3>3, <3>4 DEF Unborn
    <3>6. "Ack" \in {"None", "Syn", "Ack"}
      OBVIOUS
    <3>7. NewHandle("Ack").op.kind = "idle"
      BY <3>6, NewHandleOK
    <3>8. handle'[p][id].op.kind = "idle"
      BY <2>5, <3>7 DEF FrameAccept
    <3> QED
      BY <3>5, <3>8 DEF Unsent
  <2> QED
    BY <2>3, <2>4, <2>5
<1> QED
  BY <1>5, <1>6, PartsSame

\* The frame leaves the way of its sender.
LEMMA FrameLeaves ==
  ASSUME BothOurs, Settled, Settled', NEW p \in Peers, on_frame(p), NEW o \in Peers,
         o = Other(p), NEW f \in Frames, f = Head(wire[o]), NEW id \in Ids
  PROVE  /\ f \in StreamFrames(id) => /\ Path(o, id) = Cat(One(f), Path(o, id)')
                                      /\ LineGives(o, id, f)
         /\ f \notin StreamFrames(id) => Path(o, id)' = Path(o, id) /\ LineSame(o, id)
         /\ Unsent(o, id)' = Unsent(o, id)
<1>0. EndpointStep(p)
  BY DEF EndpointStep, ConnectionStep
<1>1. Orderly(o) /\ Orderly(o)' /\ Typed(o) /\ Typed(o)'
  BY SettledParts, NextSettledParts
<1>2. /\ wire[o] # <<>> /\ wire' = [wire EXCEPT ![o] = Tail(@)]
      /\ pendW' = pendW /\ pendQ' = pendQ /\ chan' = chan /\ conn' = conn
  BY FrameTaken
<1>3. /\ conn'[o] = conn[o] /\ pendW'[o] = pendW[o] /\ pendQ'[o] = pendQ[o]
      /\ chan'[o] = chan[o]
  BY <1>2
<1>4. \E g \in Frames :
        /\ g = Head(wire[o])
        /\ g \in StreamFrames(id) => Path(o, id) = Cat(One(g), Path(o, id)')
        /\ g \notin StreamFrames(id) => Path(o, id)' = Path(o, id)
  BY <1>1, <1>2, <1>3, FramePath
<1>5. handle'[o] = handle[o]
  BY <1>0, OtherSide
<1>6. Unsent(o, id)' = Unsent(o, id)
  BY <1>5 DEF Unsent
<1>7. f \notin StreamFrames(id) => Path(o, id)' = Path(o, id) /\ LineSame(o, id)
  BY <1>4, <1>6, PartsSame
<1>8. ASSUME f \in StreamFrames(id)
      PROVE  Path(o, id) = Cat(One(f), Path(o, id)') /\ LineGives(o, id, f)
  <2>1. Path(o, id) = Cat(One(f), Path(o, id)')
    BY <1>4, <1>8
  <2>2. /\ Path(o, id)' \in Seq(Frames) /\ Unsent(o, id) \in Seq(Frames)
        /\ One(f) \in Seq(Frames)
    BY <1>1, LineType, NextLineType, OneType
  <2>3. Cat(Cat(One(f), Path(o, id)'), Unsent(o, id)) = Cat(One(f), Cat(Path(o, id)', Unsent(o, id)))
    BY <2>2, CatAssoc
  <2>4. Line(o, id) = Cat(Path(o, id), Unsent(o, id)) /\ Line(o, id)' = Cat(Path(o, id)', Unsent(o, id))
    BY <1>6 DEF Line
  <2>5. Line(o, id) = Cat(One(f), Line(o, id)')
    BY <2>1, <2>3, <2>4
  <2> QED
    BY <2>1, <2>5 DEF LineGives
<1> QED
  BY <1>6, <1>7, <1>8

\* The facts of one side of a stream that the other side relies on.
Sound(p, id) == Shaped(p, id) /\ NotYet(p, id) /\ SynAhead(p, id) /\ Fair(p, id)

\* Exact books, from exact changes of the windows.
LEMMA ExactBooks ==
  ASSUME NEW p \in Peers, Typed(p), Typed(p)', NEW id \in Ids, LineSame(p, id),
         NEW b \in Nat, NEW c \in Nat,
         SendV(p, id)' = SendV(p, id) + c, RecvV(p, id) = RecvV(p, id)' + b
  PROVE  Spends(p, id, c) /\ Grants(p, id, b)
<1>1. InFlight(p, id) \in Nat /\ Granted(p, id) \in Nat
  BY Amounts
<1>2. InFlight(p, id)' = InFlight(p, id) /\ Granted(p, id)' = Granted(p, id)
  BY LineAmounts
<1>3. /\ SendV(p, id) \in Int /\ RecvV(p, id) \in Int
      /\ SendV(p, id)' \in Int /\ RecvV(p, id)' \in Int
  <2>1. StreamTypes /\ StreamTypes'
    BY DEF Typed
  <2> QED
    BY <2>1, ValueTypes, NextValueTypes, FlowAssumption
<1>4. Spends(p, id, c)
  BY <1>1, <1>2, <1>3 DEF Spends
<1>5. Grants(p, id, b)
  BY <1>1, <1>2, <1>3 DEF Grants
<1> QED
  BY <1>4, <1>5

\* A frame that was taken and its parts.
Taken(p, o, id, f) ==
  /\ BothOurs /\ Settled /\ Settled' /\ on_frame(p) /\ EndpointStep(p)
  /\ p \in Peers /\ o \in Peers /\ o = Other(p) /\ Other(o) = p /\ o # p /\ id \in Ids
  /\ f \in Frames /\ f = Head(wire[o]) /\ f \in StreamFrames(id)
  /\ Sound(p, id) /\ Sound(o, id)

\* What is known when p takes frame f off the socket.
LEMMA TakenParts ==
  ASSUME NEW p, NEW o, NEW id, NEW f, Taken(p, o, id, f)
  PROVE  /\ p \in Peers /\ o \in Peers /\ o = Other(p) /\ Other(o) = p /\ o # p
         /\ id \in Ids /\ f \in Frames /\ p \in Endpoints
         /\ Typed(p) /\ Typed(p)' /\ Typed(o) /\ Typed(o)' /\ StreamTypes /\ StreamTypes'
         /\ StreamsOK /\ StreamsOK'
         /\ Path(o, id) = Cat(One(f), Path(o, id)') /\ LineGives(o, id, f) /\ LineSame(p, id)
         /\ IsStreamFrame(f) /\ f.id = id /\ f \in Seemly(o, id) /\ ~Unborn(o, id)
         /\ Body(f) \in Nat /\ Credit(f) \in Nat
         /\ SendV(p, id) \in 0 .. U32_MAX /\ RecvV(p, id) \in 0 .. U32_MAX
         /\ SendV(p, id)' \in 0 .. U32_MAX /\ RecvV(p, id)' \in 0 .. U32_MAX
<1>1. /\ p \in Peers /\ o \in Peers /\ o = Other(p) /\ Other(o) = p /\ o # p
      /\ id \in Ids /\ f \in Frames /\ f = Head(wire[o]) /\ f \in StreamFrames(id)
      /\ BothOurs /\ Settled /\ Settled' /\ on_frame(p) /\ EndpointStep(p)
      /\ Sound(p, id) /\ Sound(o, id)
  BY DEF Taken
<1>2. /\ p \in Endpoints /\ Typed(p) /\ Typed(p)' /\ Typed(o) /\ Typed(o)'
      /\ StreamTypes /\ StreamTypes' /\ StreamsOK /\ StreamsOK'
  BY <1>1, SettledParts, NextSettledParts
<1>3. Path(o, id) = Cat(One(f), Path(o, id)') /\ LineGives(o, id, f) /\ LineSame(p, id)
  BY <1>1, FrameLeaves, FrameLine
<1>4. IsStreamFrame(f) /\ f.id = id
  BY <1>1, OfFrame
<1>5. Line(o, id) = Cat(One(f), Line(o, id)') /\ Line(o, id)' \in Seq(Frames)
      /\ One(f) \in Seq(Frames)
  BY <1>1, <1>2, <1>3, NextLineType, OneType DEF LineGives
<1>6. f \in Seemly(o, id)
  <2>1. Within(Line(o, id), Seemly(o, id))
    BY <1>1 DEF Sound, Shaped
  <2>2. Within(One(f), Seemly(o, id))
    BY <1>5, <2>1, WithinCat
  <2> QED
    BY <1>1, <2>2, SynOne
<1>7. ~Unborn(o, id)
  <2>1. SUFFICES ASSUME Unborn(o, id) PROVE FALSE
    OBVIOUS
  <2>2. Line(o, id) = Nil
    BY <1>1, <2>1 DEF Sound, NotYet
  <2>3. Within(Cat(One(f), Line(o, id)'), {})
    BY <1>5, <2>2, SynNil
  <2>4. Within(One(f), {})
    BY <1>5, <2>3, WithinCat
  <2>5. f \in {}
    BY <1>1, <2>4, SynOne
  <2> QED
    BY <2>5
<1>8. /\ SendV(p, id) \in 0 .. U32_MAX /\ RecvV(p, id) \in 0 .. U32_MAX
      /\ SendV(p, id)' \in 0 .. U32_MAX /\ RecvV(p, id)' \in 0 .. U32_MAX
  BY <1>1, <1>2, ValueTypes, NextValueTypes
<1>9. Body(f) \in Nat /\ Credit(f) \in Nat
  BY <1>1, FrameAmounts
<1> QED
  BY <1>1, <1>2, <1>3, <1>4, <1>6, <1>7, <1>8, <1>9

\* A frame for a stream that is not there.
LEMMA UnknownBooks ==
  ASSUME NEW p, NEW o, NEW id, NEW f, Taken(p, o, id, f), FrameUnknown(p, id, f)
  PROVE  Spends(p, id, Credit(f)) /\ Grants(p, id, Body(f))
<1>1. /\ p \in Peers /\ id \in Ids /\ f \in Frames /\ Typed(p) /\ Typed(p)' /\ LineSame(p, id)
      /\ Body(f) \in Nat /\ Credit(f) \in Nat /\ o = Other(p) /\ Other(o) = p /\ o \in Peers
      /\ SendV(p, id) \in 0 .. U32_MAX /\ RecvV(p, id) \in 0 .. U32_MAX /\ Typed(o)'
  BY TakenParts
<1>2. SendV(p, id)' = SendV(p, id) /\ RecvV(p, id)' = RecvV(p, id) /\ id \notin entry'[p]
      /\ "SYN" \notin f.flags
  BY DEF FrameUnknown, SameStream, SendV, RecvV, Unborn
<1>3. CASE Hears(p, id)'
  <2>1. Awaits(p, id)'
    BY <1>2, <1>3 DEF Hears
  <2>2. Awaits(p, id)
    BY <1>1, <2>1, AwaitsBack DEF Taken
  <2>3. SynFirst(Path(o, id))
    BY <1>1, <2>2 DEF Taken, Sound, SynAhead
  <2>4. /\ Path(o, id) = Cat(One(f), Path(o, id)') /\ One(f) \in Seq(Frames)
        /\ Path(o, id)' \in Seq(Frames)
    BY <1>1, TakenParts, OneType, NextLineType
  <2>5. SynFirst(One(f))
    BY <2>3, <2>4, FirstCat
  <2>6. f.len = 0
    <3>1. f.len > 0 => "SYN" \in f.flags
      BY <1>1, <2>5, SynOne
    <3>2. f.len \in Nat
      BY <1>1, FrameAmounts
    <3> QED
      BY <1>2, <3>1, <3>2
  <2>7. Body(f) = 0 /\ Credit(f) = 0
    BY <1>1, <2>6, FrameAmounts
  <2>8. SendV(p, id)' = SendV(p, id) + Credit(f) /\ RecvV(p, id) = RecvV(p, id)' + Body(f)
    BY <1>1, <1>2, <2>7
  <2> QED
    BY <1>1, <2>8, ExactBooks
<1>4. CASE ~Hears(p, id)'
  <2>1. InFlight(p, id)' = InFlight(p, id) /\ Granted(p, id)' = Granted(p, id)
    BY <1>1, LineAmounts
  <2>2. SendV(p, id)' <= SendV(p, id) + Credit(f) /\ RecvV(p, id) <= RecvV(p, id)' + Body(f)
    BY <1>1, <1>2
  <2> QED
    BY <1>1, <1>4, <2>1, <2>2, FadedBooks
<1> QED
  BY <1>3, <1>4

\* A side that fades and no longer hears the stream takes the frame.
LEMMA FadeBooks ==
  ASSUME NEW p, NEW o, NEW id, NEW f, Taken(p, o, id, f), Fades(p, id), ~Hears(p, id)'
  PROVE  Spends(p, id, Credit(f)) /\ Grants(p, id, Body(f))
<1>1. /\ p \in Peers /\ id \in Ids /\ f \in Frames /\ Typed(p) /\ Typed(p)' /\ LineSame(p, id)
      /\ Body(f) \in Nat /\ Credit(f) \in Nat /\ p \in Endpoints
      /\ StreamTypes /\ StreamsOK /\ StreamsOK'
      /\ SendV(p, id) \in 0 .. U32_MAX /\ RecvV(p, id) \in 0 .. U32_MAX
      /\ SendV(p, id)' \in 0 .. U32_MAX /\ RecvV(p, id)' \in 0 .. U32_MAX
  BY TakenParts
<1>2. SendV(p, id)' <= SendV(p, id) /\ RecvV(p, id) <= RecvV(p, id)'
  BY <1>1, FadingValues
<1>3. SendV(p, id)' <= SendV(p, id) + Credit(f) /\ RecvV(p, id) <= RecvV(p, id)' + Body(f)
  BY <1>1, <1>2
<1>4. InFlight(p, id)' = InFlight(p, id) /\ Granted(p, id)' = Granted(p, id)
  BY <1>1, LineAmounts
<1> QED
  BY <1>1, <1>3, <1>4, FadedBooks

\* A reset ends what p hears of the stream.
LEMMA ResetBooks ==
  ASSUME NEW p, NEW o, NEW id, NEW f, Taken(p, o, id, f), FrameReset(p, id, f)
  PROVE  Spends(p, id, Credit(f)) /\ Grants(p, id, Body(f))
<1>1. "SYN" \notin f.flags
  <2>1. f \in Seemly(o, id)
    BY TakenParts
  <2> QED
    BY <2>1 DEF Seemly, FrameReset
<1>2. id \in entry[p] /\ id \notin entry'[p] /\ Fades(p, id)
  BY <1>1 DEF FrameReset
<1>3. ~Unborn(p, id)
  <2>1. StreamsOK /\ p \in Endpoints /\ id \in Ids
    BY TakenParts
  <2> QED
    BY <1>2, <2>1, HeldValues
<1>4. ~Hears(p, id)'
  BY <1>2, <1>3 DEF Hears, Awaits, Unborn, Fades
<1> QED
  BY <1>2, <1>4, FadeBooks

\* A refused SYN: the answer says so, and no other SYN will come.
LEMMA RejectEnds ==
  ASSUME NEW p, NEW o, NEW id, NEW f, Taken(p, o, id, f), FrameReject(p, id, f)
  PROVE  Fades(p, id) /\ ~Hears(p, id)'
<1>1. /\ p \in Peers /\ o \in Peers /\ o = Other(p) /\ o # p /\ id \in Ids /\ f \in Frames
      /\ IsStreamFrame(f) /\ f.id = id /\ f \in Seemly(o, id) /\ ~Unborn(o, id)
      /\ StreamsOK /\ p \in Endpoints
  BY TakenParts
<1>2. "SYN" \in f.flags /\ Fades(p, id) /\ (id \in entry'[p] <=> id \in entry[p])
      /\ \E g \in Frames : g.tag = "GoAway" /\ pendR'[p] = One(g)
  BY DEF FrameReject, Refused
<1>3. SynFor(f, id) /\ ~is_outbound(p, id)
  <2>1. is_outbound(o, id)
    BY <1>1, <1>2 DEF Seemly
  <2> QED
    BY <1>1, <1>2, <2>1 DEF SynFor, is_outbound, Peers
<1>4. Unborn(p, id) /\ ~Coming(Other(p), id)'
  <2>1. BothOurs /\ Settled /\ on_frame(p) /\ EndpointStep(p) /\ f = Head(wire[Other(p)])
    BY <1>1 DEF Taken
  <2> QED
    BY <1>1, <1>3, <2>1, SynArrives
<1>5. GoingAway(p)'
  <2>1. PICK g \in Frames : g.tag = "GoAway" /\ pendR'[p] = One(g)
    BY <1>2
  <2>2. ~Within(pendR'[p], Talk)
    <3>1. g \notin Talk
      BY <2>1 DEF Talk
    <3> QED
      BY <2>1, <3>1, SynOne
  <2>3. FrameTypes'
    BY <1>1, NextSettledParts DEF Taken
  <2> QED
    BY <1>1, <2>2, <2>3, NextAwayIn
<1>6. id \notin entry'[p]
  BY <1>1, <1>2, <1>4, HeldValues
<1>7. ~Hears(p, id)'
  BY <1>4, <1>5, <1>6 DEF Hears, Awaits
<1> QED
  BY <1>2, <1>7

\* The books after a refused SYN.
LEMMA RejectBooks ==
  ASSUME NEW p, NEW o, NEW id, NEW f, Taken(p, o, id, f), FrameReject(p, id, f)
  PROVE  Spends(p, id, Credit(f)) /\ Grants(p, id, Body(f))
BY RejectEnds, FadeBooks

\* The SYN is accepted: the windows begin with what the frame brought.
LEMMA AcceptBooks ==
  ASSUME NEW p, NEW o, NEW id, NEW f, Taken(p, o, id, f), FrameAccept(p, id, f)
  PROVE  Spends(p, id, Credit(f)) /\ Grants(p, id, Body(f))
<1>1. /\ p \in Peers /\ o \in Peers /\ o = Other(p) /\ o # p /\ id \in Ids /\ f \in Frames
      /\ IsStreamFrame(f) /\ f.id = id /\ StreamsOK' /\ p \in Endpoints
      /\ Typed(p) /\ Typed(p)' /\ LineSame(p, id) /\ Body(f) \in Nat /\ Credit(f) \in Nat
      /\ SendV(p, id)' \in 0 .. U32_MAX /\ RecvV(p, id)' \in 0 .. U32_MAX
  BY TakenParts
<1>2. /\ "SYN" \in f.flags /\ ~is_outbound(p, id) /\ id \in entry'[p]
      /\ shared'[p][id] = InboundShared(f)
  BY DEF FrameAccept
<1>3. Unborn(p, id)
  <2>1. BothOurs /\ Settled /\ on_frame(p) /\ EndpointStep(p) /\ f = Head(wire[Other(p)])
    BY <1>1 DEF Taken
  <2>2. SynFor(f, id)
    BY <1>1, <1>2 DEF SynFor
  <2> QED
    BY <1>1, <1>2, <2>1, <2>2, SynArrives
<1>4. SendV(p, id) = DEFAULT_CREDIT /\ RecvV(p, id) = DEFAULT_CREDIT
  BY <1>3 DEF SendV, RecvV
<1>5. /\ SendV(p, id)' = shared'[p][id].fc.send_window
      /\ RecvV(p, id)' = shared'[p][id].fc.receive_window
  BY <1>1, <1>2, NextHeldValues
<1>6. /\ InboundShared(f).fc.send_window = DEFAULT_CREDIT + Credit(f)
      /\ InboundShared(f).fc.receive_window = DEFAULT_CREDIT - Body(f)
  BY <1>1, InboundWindows
<1>7. SendV(p, id)' = SendV(p, id) + Credit(f) /\ RecvV(p, id) = RecvV(p, id)' + Body(f)
  <2>1. DEFAULT_CREDIT \in Nat
    BY FlowAssumption
  <2> QED
    BY <1>1, <1>2, <1>4, <1>5, <1>6, <2>1
<1> QED
  BY <1>1, <1>7, ExactBooks

\* A stream in the table never refuses a frame of the other side: the body is
\* within the window it granted, the credit within the range of the window.
LEMMA NeverRefused ==
  ASSUME NEW p, NEW o, NEW id, NEW f, Taken(p, o, id, f), id \in entry[p]
  PROVE  /\ Body(f) <= shared[p][id].fc.receive_window
         /\ shared[p][id].fc.send_window + Credit(f) <= U32_MAX
<1>1. /\ p \in Peers /\ o \in Peers /\ o = Other(p) /\ Other(o) = p /\ o # p /\ id \in Ids
      /\ f \in Frames /\ StreamsOK /\ p \in Endpoints /\ Typed(p) /\ Typed(o) /\ Typed(o)'
      /\ StreamTypes /\ LineGives(o, id, f) /\ Body(f) \in Nat /\ Credit(f) \in Nat
  BY TakenParts
<1>2. /\ SendV(p, id) = shared[p][id].fc.send_window
      /\ RecvV(p, id) = shared[p][id].fc.receive_window
  BY <1>1, HeldValues
<1>3. /\ InFlight(o, id)' + Body(f) = InFlight(o, id)
      /\ Granted(o, id)' + Credit(f) = Granted(o, id)
  BY <1>1, LineAmounts
<1>4. /\ InFlight(p, id) \in Nat /\ Granted(p, id) \in Nat
      /\ InFlight(o, id) \in Nat /\ Granted(o, id) \in Nat
      /\ InFlight(o, id)' \in Nat /\ Granted(o, id)' \in Nat
  BY <1>1, Amounts, NextAmounts
<1>5. /\ SendV(p, id) \in 0 .. U32_MAX /\ RecvV(p, id) \in 0 .. U32_MAX
      /\ SendV(o, id) \in 0 .. U32_MAX /\ RecvV(o, id) \in 0 .. U32_MAX
  BY <1>1, ValueTypes
<1>6. /\ SendV(p, id) + InFlight(p, id) + Granted(o, id) <= RecvV(o, id)
      /\ SendV(o, id) + InFlight(o, id) + Granted(p, id) <= RecvV(p, id)
  BY <1>1 DEF Taken, Sound, Fair, Owed
<1>7. U32_MAX \in Nat
  BY FlowAssumption
<1>8. Body(f) <= RecvV(p, id)
  BY <1>1, <1>3, <1>4, <1>5, <1>6, <1>7
<1>9. SendV(p, id) + Credit(f) <= U32_MAX
  BY <1>1, <1>3, <1>4, <1>5, <1>6, <1>7
<1> QED
  BY <1>2, <1>8, <1>9

\* An ordinary frame of a stream in the table.
LEMMA PlainBooks ==
  ASSUME NEW p, NEW o, NEW id, NEW f, Taken(p, o, id, f), FramePlain(p, id, f)
  PROVE  Spends(p, id, Credit(f)) /\ Grants(p, id, Body(f))
<1>1. /\ p \in Peers /\ id \in Ids /\ f \in Frames /\ StreamsOK /\ StreamsOK' /\ p \in Endpoints
      /\ Typed(p) /\ Typed(p)' /\ LineSame(p, id) /\ Body(f) \in Nat /\ Credit(f) \in Nat
      /\ StreamTypes
      /\ SendV(p, id) \in 0 .. U32_MAX /\ RecvV(p, id) \in 0 .. U32_MAX
      /\ SendV(p, id)' \in 0 .. U32_MAX /\ RecvV(p, id)' \in 0 .. U32_MAX
  BY TakenParts
<1>2. id \in entry[p]
  BY DEF FramePlain
<1>3. /\ Body(f) <= shared[p][id].fc.receive_window
      /\ shared[p][id].fc.send_window + Credit(f) <= U32_MAX
  BY <1>2, NeverRefused
<1>4. /\ SendV(p, id) = shared[p][id].fc.send_window /\ ~Unborn(p, id)
      /\ RecvV(p, id) = shared[p][id].fc.receive_window
  BY <1>1, <1>2, HeldValues
<1>5. U32_MAX \in Nat
  BY FlowAssumption
<1>6. Booked(p, id, f)
  <2>1. ~(Body(f) > shared[p][id].fc.receive_window)
    BY <1>1, <1>3, <1>4, <1>5
  <2>2. ~(shared[p][id].fc.send_window + Credit(f) > U32_MAX)
    BY <1>1, <1>3, <1>4, <1>5
  <2> QED
    BY <2>1, <2>2 DEF FramePlain
<1>7. ~Unborn(p, id)'
  BY <1>4, <1>6 DEF Booked, Unborn
<1>8. CASE /\ shared'[p][id].fc.send_window = shared[p][id].fc.send_window + Credit(f)
           /\ shared'[p][id].fc.receive_window = shared[p][id].fc.receive_window - Body(f)
           /\ shared'[p][id].state # "None"
  <2>1. /\ SendV(p, id)' = shared'[p][id].fc.send_window
        /\ RecvV(p, id)' = shared'[p][id].fc.receive_window
    BY <1>7, <1>8 DEF SendV, RecvV
  <2>2. SendV(p, id)' = SendV(p, id) + Credit(f) /\ RecvV(p, id) = RecvV(p, id)' + Body(f)
    BY <1>1, <1>4, <1>5, <1>8, <2>1
  <2> QED
    BY <1>1, <2>2, ExactBooks
<1>9. CASE shared'[p][id].state = "None"
  <2>1. ~Hears(p, id)'
    <3>1. id \notin entry'[p]
      BY <1>1, <1>9, NextHeldValues
    <3> QED
      BY <1>7, <3>1 DEF Hears, Awaits
  <2>2. RecvV(p, id)' = U32_MAX
    BY <1>7, <1>9 DEF RecvV
  <2>3. shared'[p][id] = NoShared
    BY <1>1, <1>9 DEF StreamsOK, StreamOK, Held
  <2>4. SendV(p, id)' = 0
    BY <1>7, <2>3 DEF SendV, NoShared, NewShared, new_controller
  <2>5. SendV(p, id)' <= SendV(p, id) + Credit(f) /\ RecvV(p, id) <= RecvV(p, id)' + Body(f)
    BY <1>1, <1>5, <2>2, <2>4
  <2>6. InFlight(p, id)' = InFlight(p, id) /\ Granted(p, id)' = Granted(p, id)
    BY <1>1, LineAmounts
  <2> QED
    BY <1>1, <2>1, <2>5, <2>6, FadedBooks
<1>10. shared'[p][id].state # "None" =>
         /\ shared'[p][id].fc.send_window = shared[p][id].fc.send_window + Credit(f)
         /\ shared'[p][id].fc.receive_window = shared[p][id].fc.receive_window - Body(f)
  BY <1>6, NoSharedOK DEF Booked
<1> QED
  BY <1>8, <1>9, <1>10

\* on_frame keeps the books of every stream.
LEMMA FrameBooks ==
  ASSUME BothOurs, Settled, Settled', NEW p \in Peers, on_frame(p), NEW id \in Ids,
         Sound(p, id), Sound(Other(p), id)
  PROVE  Books(p, id)
<1>1. PICK o \in Peers : o = Other(p) /\ Other(o) = p /\ o # p
  BY OtherPeer, SettledParts
<1>2. PICK f \in Frames : f = Head(wire[o])
  BY <1>1, FrameTaken
<1>3. EndpointStep(p)
  BY DEF EndpointStep, ConnectionStep
<1>4. Typed(p) /\ Typed(p)' /\ Typed(o) /\ Typed(o)'
  BY SettledParts, NextSettledParts
<1>5. CASE f \in StreamFrames(id)
  <2>1. Taken(p, o, id, f)
    BY <1>1, <1>2, <1>3, <1>5 DEF Taken
  <2>2. FrameStep(p, id, f)
    BY <1>1, <1>2, <1>5, FrameCases
  <2>3. Spends(p, id, Credit(f)) /\ Grants(p, id, Body(f))
    BY <2>1, <2>2, UnknownBooks, ResetBooks, RejectBooks, AcceptBooks, PlainBooks
       DEF FrameStep
  <2>4. LineGives(o, id, f)
    BY <2>1, TakenParts
  <2>5. Takes(o, id, Body(f), Credit(f))
    BY <1>4, <2>4, LineAmounts DEF Takes
  <2>6. Body(f) \in Nat /\ Credit(f) \in Nat
    BY FrameAmounts
  <2> QED
    BY <1>1, <2>3, <2>5, <2>6 DEF Books
<1>6. CASE f \notin StreamFrames(id)
  <2>1. SameStream(p, id)
    BY <1>1, <1>2, <1>6, FrameCases
  <2>2. SendV(p, id)' = SendV(p, id) /\ RecvV(p, id)' = RecvV(p, id)
    BY <2>1 DEF SameStream, SendV, RecvV, Unborn
  <2>3. LineSame(p, id) /\ LineSame(o, id)
    BY <1>1, <1>2, <1>6, FrameLine, FrameLeaves
  <2>4. Spends(p, id, 0) /\ Grants(p, id, 0)
    BY <1>4, <2>2, <2>3, QuietBooks
  <2>5. Takes(o, id, 0, 0)
    <3>1. InFlight(o, id)' = InFlight(o, id) /\ Granted(o, id)' = Granted(o, id)
      BY <1>4, <2>3, LineAmounts
    <3>2. InFlight(o, id) \in Nat /\ Granted(o, id) \in Nat
      BY <1>4, Amounts
    <3> QED
      BY <3>1, <3>2 DEF Takes
  <2> QED
    BY <1>1, <2>4, <2>5 DEF Books
<1> QED
  BY <1>5, <1>6

\* Steps other than on_frame leave the other side's frames alone.
LEMMA OtherLine ==
  ASSUME BothOurs, Settled, Settled', NEW p \in Peers, EndpointStep(p), NEW id \in Ids,
         Outward(p), NEW o \in Peers, o = Other(p)
  PROVE  /\ Path(o, id)' = Path(o, id) /\ Unsent(o, id)' = Unsent(o, id) /\ LineSame(o, id)
         /\ Takes(o, id, 0, 0)
<1>1. /\ KeptState(o) /\ handle'[o] = handle[o] /\ chan'[o] = chan[o]
      /\ pendR'[o] = pendR[o] /\ pendW'[o] = pendW[o] /\ pendQ'[o] = pendQ[o]
  BY OtherSide
<1>2. wire'[o] = wire[o] /\ conn'[o] = conn[o] /\ chan'[o][id] = chan[o][id]
  BY <1>1 DEF Outward, KeptState
<1>3. Path(o, id)' = Path(o, id)
  BY <1>1, <1>2, SamePath
<1>4. Unsent(o, id)' = Unsent(o, id)
  BY <1>1 DEF Unsent
<1>5. LineSame(o, id)
  BY <1>3, <1>4, PartsSame
<1>6. Typed(o) /\ Typed(o)'
  BY SettledParts, NextSettledParts
<1>7. InFlight(o, id)' = InFlight(o, id) /\ Granted(o, id)' = Granted(o, id)
  BY <1>5, <1>6, LineAmounts
<1>8. InFlight(o, id) \in Nat /\ Granted(o, id) \in Nat
  BY <1>6, Amounts
<1>9. Takes(o, id, 0, 0)
  BY <1>7, <1>8 DEF Takes
<1> QED
  BY <1>3, <1>4, <1>5, <1>9

\* Opening a stream puts nothing on its way.
LEMMA OpenLine ==
  ASSUME BothOurs, Settled, NEW p \in Peers, poll_new_outbound(p), NEW id \in Ids
  PROVE  /\ Path(p, id)' = Path(p, id) /\ Unsent(p, id)' = Unsent(p, id) /\ LineSame(p, id)
         /\ SendV(p, id)' = SendV(p, id) /\ RecvV(p, id)' = RecvV(p, id)
<1>1. p \in Endpoints /\ StreamsOK
  BY SettledParts
<1>2. UNCHANGED <<conn, wire, pendR, pendW, pendQ, chan>>
  BY OpenMoves
<1>3. Path(p, id)' = Path(p, id)
  BY <1>2, SamePath
<1>4. CASE id = nextId[p]
  <2>1. /\ Unborn(p, id) /\ handle'[p][id] = NewHandle("Syn")
        /\ shared'[p][id] = NewShared(DEFAULT_CREDIT)
    BY <1>4, OpenMoves
  <2>2. "Syn" \in {"None", "Syn", "Ack"} /\ DEFAULT_CREDIT \in 0 .. U32_MAX
    BY FlowAssumption
  <2>3. NewHandle("Syn").op.kind = "idle" /\ NewHandle("Syn").life = "live"
    BY <2>2, NewHandleOK
  <2>4. handle[p][id].op.kind # "idle" => handle[p][id].life = "live"
    BY <1>1 DEF StreamsOK, StreamOK, Held
  <2>5. handle[p][id].op.kind = "idle"
    BY <2>1, <2>4 DEF Unborn
  <2>6. Unsent(p, id)' = Unsent(p, id)
    BY <2>1, <2>3, <2>5 DEF Unsent
  <2>7. SendV(p, id) = DEFAULT_CREDIT /\ RecvV(p, id) = DEFAULT_CREDIT
    BY <2>1 DEF SendV, RecvV
  <2>8. /\ NewShared(DEFAULT_CREDIT).state = "OpenPending"
        /\ NewShared(DEFAULT_CREDIT).fc = new_controller(DEFAULT_CREDIT)
    BY <2>2, NewSharedOK
  <2>9. SendV(p, id)' = DEFAULT_CREDIT /\ RecvV(p, id)' = DEFAULT_CREDIT
    BY <2>1, <2>3, <2>8 DEF SendV, RecvV, Unborn, new_controller
  <2> QED
    BY <1>3, <2>6, <2>7, <2>9, PartsSame
<1>5. CASE id # nextId[p]
  <2>1. handle'[p][id] = handle[p][id] /\ shared'[p][id] = shared[p][id]
    BY <1>5, OpenMoves
  <2>2. Unsent(p, id)' = Unsent(p, id)
    BY <2>1 DEF Unsent
  <2>3. SendV(p, id)' = SendV(p, id) /\ RecvV(p, id)' = RecvV(p, id)
    BY <2>1 DEF SendV, RecvV, Unborn
  <2> QED
    BY <1>3, <2>2, <2>3, PartsSame
<1> QED
  BY <1>4, <1>5

\* Every step of an endpoint keeps the books of every stream.
LEMMA EndpointBooks ==
  ASSUME BothOurs, Settled, Settled', NEW p \in Peers, EndpointStep(p), NEW id \in Ids,
         Sound(p, id), Sound(Other(p), id)
  PROVE  Books(p, id)
<1>1. /\ p \in Endpoints /\ Typed(p) /\ Typed(p)' /\ StreamsOK /\ StreamsOK' /\ GhostTypes
      /\ StreamTypes /\ FrameTypes /\ Other(p) \in Peers
  BY SettledParts, NextSettledParts
<1>2. CASE on_frame(p)
  BY <1>2, FrameBooks
<1>3. ASSUME Outward(p), Spends(p, id, 0), Grants(p, id, 0) PROVE Books(p, id)
  BY <1>1, <1>3, OtherLine DEF Books
<1>4. CASE Sending(p)
  BY <1>1, <1>3, <1>4, SendingBooks, OutwardSteps
<1>5. CASE Ending(p)
  BY <1>1, <1>3, <1>5, EndingBooks, OutwardSteps
<1>6. CASE poll_new_outbound(p)
  <2>1. LineSame(p, id) /\ SendV(p, id)' = SendV(p, id) /\ RecvV(p, id)' = RecvV(p, id)
    BY <1>6, OpenLine
  <2>2. Spends(p, id, 0) /\ Grants(p, id, 0)
    BY <1>1, <2>1, QuietBooks
  <2> QED
    BY <1>3, <1>6, <2>2, OutwardSteps
<1>7. ASSUME NEW j \in Ids, HandleAction(p, j) PROVE Books(p, id)
  BY <1>1, <1>3, <1>7, HandleBooks, OutwardSteps
<1>8. ASSUME NEW j \in Ids, on_drop_stream(p, j) PROVE Books(p, id)
  BY <1>1, <1>3, <1>8, DropBooks, OutwardSteps
<1> QED
  BY <1>1, <1>2, <1>4, <1>5, <1>6, <1>7, <1>8, EndpointActions

\* Books that are kept leave both directions fair, and even where they were.
LEMMA Balance ==
  ASSUME BothOurs, Settled, Settled', NEW p \in Peers, EndpointStep(p), NEW id \in Ids,
         NEW o \in Peers, o = Other(p), Other(o) = p, o # p, Books(p, id), Fair(p, id), Fair(o, id)
  PROVE  /\ Fair(p, id)' /\ Fair(o, id)'
         /\ Level(p, id) /\ Hears(p, id)' => Level(p, id)'
         /\ Level(o, id) /\ Hears(p, id)' => Level(o, id)'
<1>1. PICK b \in Nat, c \in Nat : Takes(o, id, b, c) /\ Spends(p, id, c) /\ Grants(p, id, b)
  BY DEF Books
<1>2. Typed(p) /\ Typed(p)' /\ Typed(o) /\ Typed(o)' /\ StreamTypes /\ StreamTypes'
  BY SettledParts, NextSettledParts
<1>3. /\ SendV(p, id) \in Int /\ RecvV(p, id) \in Int /\ SendV(o, id) \in Int /\ RecvV(o, id) \in Int
      /\ SendV(p, id)' \in Int /\ RecvV(p, id)' \in Int
  BY <1>2, ValueTypes, NextValueTypes, FlowAssumption
<1>4. /\ InFlight(p, id) \in Nat /\ Granted(p, id) \in Nat
      /\ InFlight(o, id) \in Nat /\ Granted(o, id) \in Nat
      /\ InFlight(p, id)' \in Nat /\ Granted(p, id)' \in Nat
      /\ InFlight(o, id)' \in Nat /\ Granted(o, id)' \in Nat
  BY <1>2, Amounts, NextAmounts
<1>5. SendV(o, id)' = SendV(o, id) /\ RecvV(o, id)' = RecvV(o, id)
  <2>1. KeptState(o) /\ handle'[o] = handle[o]
    BY OtherSide
  <2> QED
    BY <2>1 DEF KeptState, SendV, RecvV, Unborn
<1>6. /\ Owed(p, id) = SendV(p, id) + InFlight(p, id) + Granted(o, id)
      /\ Owed(o, id) = SendV(o, id) + InFlight(o, id) + Granted(p, id)
      /\ Owed(p, id)' = SendV(p, id)' + InFlight(p, id)' + Granted(o, id)'
      /\ Owed(o, id)' = SendV(o, id)' + InFlight(o, id)' + Granted(p, id)'
  BY DEF Owed
<1>7. InFlight(o, id)' + b = InFlight(o, id) /\ Granted(o, id)' + c = Granted(o, id)
  BY <1>1 DEF Takes
<1>8. SendV(p, id)' + InFlight(p, id)' <= SendV(p, id) + InFlight(p, id) + c
      /\ RecvV(p, id) + Granted(p, id)' <= RecvV(p, id)' + Granted(p, id) + b
  BY <1>1 DEF Spends, Grants
<1>9. Fair(p, id)' /\ Fair(o, id)'
  <2>1. Owed(p, id) <= RecvV(o, id) /\ Owed(o, id) <= RecvV(p, id)
    BY DEF Fair
  <2>2. Owed(p, id)' <= RecvV(o, id)'
    BY <1>3, <1>4, <1>5, <1>6, <1>7, <1>8, <2>1
  <2>3. Owed(o, id)' <= RecvV(p, id)'
    BY <1>3, <1>4, <1>5, <1>6, <1>7, <1>8, <2>1
  <2> QED
    BY <2>2, <2>3 DEF Fair
<1>10. ASSUME Hears(p, id)'
       PROVE  (Level(p, id) => Level(p, id)') /\ (Level(o, id) => Level(o, id)')
  <2>1. SendV(p, id)' + InFlight(p, id)' = SendV(p, id) + InFlight(p, id) + c
        /\ RecvV(p, id) + Granted(p, id)' = RecvV(p, id)' + Granted(p, id) + b
    BY <1>1, <1>10 DEF Spends, Grants
  <2>2. Owed(p, id) = RecvV(o, id) => Owed(p, id)' = RecvV(o, id)'
    BY <1>3, <1>4, <1>5, <1>6, <1>7, <2>1
  <2>3. Owed(o, id) = RecvV(p, id) => Owed(o, id)' = RecvV(p, id)'
    <3>1. PICK i, j, g, h, r, u \in Int :
            /\ i = InFlight(o, id)' /\ j = InFlight(o, id) /\ g = Granted(p, id)
            /\ h = Granted(p, id)' /\ r = RecvV(p, id) /\ u = RecvV(p, id)'
      <4>1. /\ InFlight(o, id)' \in Int /\ InFlight(o, id) \in Int /\ Granted(p, id) \in Int
            /\ Granted(p, id)' \in Int /\ RecvV(p, id) \in Int /\ RecvV(p, id)' \in Int
        BY <1>3, <1>4
      <4> QED
        BY <4>1
    <3>2. PICK s \in Int : s = SendV(o, id)
      BY <1>3
    <3>3. i + b = j
      BY <1>7, <3>1
    <3>4. r + h = u + g + b
      BY <2>1, <3>1
    <3>5. s + j + g = r => s + i + h = u
      BY <3>3, <3>4
    <3> QED
      BY <1>5, <1>6, <3>1, <3>2, <3>5
  <2> QED
    BY <2>2, <2>3 DEF Level
<1> QED
  BY <1>9, <1>10

\* Only the empty sequence has all its elements in the empty set.
LEMMA NilIs ==
  ASSUME NEW s \in Seq(Frames) PROVE Within(s, {}) <=> s = Nil
<1>1. DOMAIN s = 1 .. Len(s) /\ Len(s) \in Nat
  OBVIOUS
<1>2. Len(s) = 0 <=> s = <<>>
  OBVIOUS
<1>3. ASSUME Within(s, {}) PROVE Len(s) = 0
  <2>1. SUFFICES ASSUME Len(s) # 0 PROVE FALSE
    OBVIOUS
  <2>2. 1 \in DOMAIN s
    BY <1>1, <2>1
  <2> QED
    BY <1>3, <2>2 DEF Within
<1> QED
  BY <1>2, <1>3, SynNil DEF Nil

\* A line that loses frames keeps what holds of each of them.
LEMMA ThinWithin ==
  ASSUME NEW p \in Peers, Typed(p), Typed(p)', NEW id \in Ids, LineThins(p, id), NEW S,
         Within(Line(p, id), S)
  PROVE  Within(Line(p, id)', S)
<1>1. PICK a, r, u \in Seq(Frames) : Line(p, id) = Cat(Cat(a, r), u) /\ Line(p, id)' = Cat(a, u)
  BY DEF LineThins
<1>2. Cat(a, r) \in Seq(Frames)
  BY CatType
<1>3. Within(Cat(a, r), S) /\ Within(u, S)
  BY <1>1, <1>2, WithinCat
<1>4. Within(a, S)
  BY <1>3, WithinCat
<1> QED
  BY <1>1, <1>3, <1>4, WithinCat

\* What a side keeps true of its own line.
Keeps(p, id) == Shaped(p, id)' /\ NotYet(p, id)' /\ SynAhead(p, id)'

\* What every step may assume of p, the side that takes it.
Acts(p, id) ==
  /\ BothOurs /\ Settled /\ Settled' /\ p \in Peers /\ id \in Ids /\ EndpointStep(p)
  /\ Sound(p, id) /\ Sound(Other(p), id)

\* What is known when p takes a step.
LEMMA ActsParts ==
  ASSUME NEW p, NEW id, Acts(p, id)
  PROVE  /\ p \in Peers /\ id \in Ids /\ p \in Endpoints /\ Other(p) \in Peers
         /\ Other(p) # p /\ Other(Other(p)) = p
         /\ Typed(p) /\ Typed(p)' /\ Orderly(p) /\ Orderly(p)'
         /\ StreamTypes /\ StreamTypes' /\ StreamsOK /\ StreamsOK' /\ FrameTypes /\ GhostTypes
         /\ (Awaits(Other(p), id)' => Awaits(Other(p), id))
         /\ (Unborn(p, id)' => Unborn(p, id))
         /\ Path(p, id) \in Seq(Frames) /\ Line(p, id) \in Seq(Frames)
         /\ Path(p, id)' \in Seq(Frames) /\ Line(p, id)' \in Seq(Frames)
         /\ Shaped(p, id) /\ NotYet(p, id) /\ SynAhead(p, id)
<1>1. p \in Peers /\ id \in Ids /\ BothOurs /\ Settled /\ Settled' /\ EndpointStep(p)
      /\ Shaped(p, id) /\ NotYet(p, id) /\ SynAhead(p, id)
  BY DEF Acts, Sound
<1>2. /\ p \in Endpoints /\ Other(p) \in Peers /\ Other(p) # p /\ Other(Other(p)) = p
      /\ Typed(p) /\ Typed(p)' /\ Orderly(p) /\ Orderly(p)'
      /\ StreamTypes /\ StreamTypes' /\ StreamsOK /\ StreamsOK' /\ FrameTypes /\ GhostTypes
  BY <1>1, SettledParts, NextSettledParts
<1>3. /\ (Awaits(Other(p), id)' => Awaits(Other(p), id))
      /\ (Unborn(p, id)' => Unborn(p, id))
  BY <1>1, AwaitsBack, LifeStays
<1>4. /\ Path(p, id) \in Seq(Frames) /\ Line(p, id) \in Seq(Frames)
      /\ Path(p, id)' \in Seq(Frames) /\ Line(p, id)' \in Seq(Frames)
  BY <1>1, <1>2, LineType, NextLineType
<1> QED
  BY <1>1, <1>2, <1>3, <1>4

\* A step that leaves the line and the handle's flag as they are.
LEMMA SameLineKeeps ==
  ASSUME NEW p, NEW id, Acts(p, id), Path(p, id)' = Path(p, id), LineSame(p, id),
         handle'[p][id].flag = "Syn" => handle[p][id].flag = "Syn" \/ is_outbound(p, id),
         Awaits(Other(p), id)' =>
           /\ Whole(p)' /\ rx'[p][id] # "closed" => Whole(p) /\ rx[p][id] # "closed"
           /\ Speaks(p, id)' => Speaks(p, id)
           /\ handle'[p][id].life = "live" /\ handle'[p][id].flag # "Syn" =>
                handle[p][id].life = "live" /\ handle[p][id].flag # "Syn"
  PROVE  Keeps(p, id)
<1>1. /\ Shaped(p, id) /\ NotYet(p, id) /\ SynAhead(p, id)
      /\ (Awaits(Other(p), id)' => Awaits(Other(p), id)) /\ (Unborn(p, id)' => Unborn(p, id))
  BY ActsParts
<1>2. Line(p, id)' = Line(p, id)
  BY DEF LineSame
<1>3. Shaped(p, id)'
  BY <1>1, <1>2 DEF Shaped, Seemly
<1>4. NotYet(p, id)'
  BY <1>1, <1>2 DEF NotYet
<1>5. SynAhead(p, id)'
  BY <1>1, <1>2 DEF SynAhead
<1> QED
  BY <1>3, <1>4, <1>5 DEF Keeps

\* The steps that send what waits.
LEMMA SendingKeepsLine ==
  ASSUME NEW p, NEW id, Acts(p, id), Sending(p)
  PROVE  Keeps(p, id)
<1>1. /\ p \in Endpoints /\ id \in Ids /\ Typed(p) /\ Typed(p)' /\ p \in Peers
  BY ActsParts
<1>2. Path(p, id)' = Path(p, id) /\ LineSame(p, id)
  BY <1>1, SendingBooks
<1>3. UNCHANGED <<handle, rx>>
  BY <1>1, SendingSteady DEF Steady
<1>4. Whole(p)' => Whole(p)
  <2>1. UNCHANGED conn
    BY <1>1, SendingSteady DEF Steady
  <2> QED
    BY <2>1 DEF Whole
<1>5. Speaks(p, id)' => Speaks(p, id)
  BY <1>3, <1>4 DEF Speaks
<1> QED
  BY <1>2, <1>3, <1>4, <1>5, SameLineKeeps

\* The end of a connection opens no receiver and takes no step back.
LEMMA EndingOnward ==
  ASSUME StreamTypes, NEW p \in Endpoints, Ending(p), NEW id \in Ids
  PROVE  /\ Whole(p)' => Whole(p)
         /\ rx[p][id] = "closed" => rx'[p][id] = "closed"
<1> USE DEF connVars, pendVars, sockVars, tableVars, handleVars, ghostVars
<1>0. p \in Peers /\ conn \in [Peers -> ConnStates] /\ rx \in [Peers -> [Ids -> RxStates]]
  BY EndpointsArePeers DEF StreamTypes
<1>1. ASSUME PollFail(p) \/ OpenFail(p) PROVE ~Whole(p)' /\ rx' = rx
  <2>1. cleanup(p)
    BY <1>1 DEF PollFail, OpenFail
  <2> QED
    BY <1>0, <2>1 DEF cleanup, Whole, ClosingStates
<1>2. ASSUME connection_close(p) PROVE Whole(p) /\ rx' = rx
  BY <1>0, <1>2 DEF connection_close, Active, Whole
<1>3. ASSUME connection_drop(p)
      PROVE  ~Whole(p)' /\ (rx[p][id] = "closed" => rx'[p][id] = "closed")
  BY <1>0, <1>3 DEF connection_drop, Goto, CloseReceivers, Whole, ClosingStates
<1>4. ASSUME CloseAllReceivers(p)
      PROVE  (Whole(p)' => Whole(p)) /\ (rx[p][id] = "closed" => rx'[p][id] = "closed")
  BY <1>0, <1>4 DEF CloseAllReceivers, Goto, CloseReceivers, Whole, ClosingStates
<1>5. ASSUME DrainDone(p) \/ (FlushFrame(p) /\ pendQ[p] = <<>>) PROVE Whole(p) /\ rx' = rx
  BY <1>0, <1>5 DEF DrainDone, FlushFrame, Whole, ClosingStates
<1>6. ASSUME CloseSocket(p) \/ ClosingError(p) \/ CleanupDrain(p) PROVE ~Whole(p)' /\ rx' = rx
  BY <1>0, <1>6 DEF CloseSocket, ClosingError, CleanupDrain, Goto, Whole, ClosingStates
<1> QED
  BY <1>1, <1>2, <1>3, <1>4, <1>5, <1>6 DEF Ending

\* The end of a connection cuts the line from its end.
LEMMA EndingKeepsLine ==
  ASSUME NEW p, NEW id, Acts(p, id), Ending(p)
  PROVE  Keeps(p, id)
<1>1. /\ p \in Endpoints /\ id \in Ids /\ Typed(p) /\ Typed(p)' /\ p \in Peers
      /\ StreamTypes /\ StreamsOK /\ StreamsOK'
      /\ (Awaits(Other(p), id)' => Awaits(Other(p), id)) /\ (Unborn(p, id)' => Unborn(p, id))
      /\ Shaped(p, id) /\ NotYet(p, id) /\ SynAhead(p, id)
      /\ Path(p, id)' \in Seq(Frames) /\ Line(p, id)' \in Seq(Frames) /\ Line(p, id) \in Seq(Frames)
  BY ActsParts
<1>2. /\ LineThins(p, id) /\ Fades(p, id) /\ Shorter(p, id)
      /\ (Whole(p)' => Path(p, id)' = Path(p, id))
  BY <1>1, EndingBooks
<1>3. handle'[p][id] = handle[p][id]
  BY <1>2 DEF Fades
<1>4. Shaped(p, id)'
  <2>1. Within(Line(p, id)', Seemly(p, id))
    BY <1>1, <1>2, ThinWithin DEF Shaped
  <2> QED
    BY <1>1, <1>3, <2>1 DEF Shaped, Seemly
<1>5. NotYet(p, id)'
  <2>1. SUFFICES ASSUME Unborn(p, id)' PROVE Line(p, id)' = Nil
    BY DEF NotYet
  <2>2. Within(Line(p, id), {})
    BY <1>1, <2>1, NilIs DEF NotYet
  <2> QED
    BY <1>1, <1>2, <2>2, ThinWithin, NilIs
<1>6. SynAhead(p, id)'
  <2>1. SUFFICES ASSUME Awaits(Other(p), id)'
                 PROVE  /\ SynFirst(Path(p, id)')
                        /\ Speaks(p, id)' => SynFirst(Line(p, id)')
                        /\ /\ Whole(p)' /\ rx'[p][id] # "closed"
                           /\ handle'[p][id].life = "live" /\ handle'[p][id].flag # "Syn"
                           => HasSyn(Line(p, id)')
    BY DEF SynAhead
  <2>2. SynFirst(Path(p, id)) /\ Awaits(Other(p), id)
    BY <1>1, <2>1 DEF SynAhead
  <2>3. SynFirst(Path(p, id)')
    <3>1. PICK r \in Seq(Frames) : Path(p, id) = Cat(Path(p, id)', r)
      BY <1>2 DEF Shorter
    <3> QED
      BY <1>1, <2>2, <3>1, FirstCat
  <2>4. ASSUME Whole(p)'
        PROVE  /\ Line(p, id)' = Line(p, id) /\ Whole(p)
               /\ rx'[p][id] # "closed" => rx[p][id] # "closed"
    <3>1. Unsent(p, id)' = Unsent(p, id)
      BY <1>3 DEF Unsent
    <3>2. Line(p, id)' = Line(p, id)
      BY <1>2, <2>4, <3>1 DEF Line
    <3> QED
      BY <1>1, <2>4, <3>2, EndingOnward
  <2>5. Speaks(p, id)' => Speaks(p, id)
    BY <1>3, <2>4 DEF Speaks
  <2>6. Speaks(p, id)' => Line(p, id)' = Line(p, id)
    BY <2>4 DEF Speaks
  <2> QED
    BY <1>1, <1>3, <2>2, <2>3, <2>4, <2>5, <2>6 DEF SynAhead
<1> QED
  BY <1>4, <1>5, <1>6 DEF Keeps

\* A frame that arrives changes nothing on p's own way.
LEMMA FrameKeepsLine ==
  ASSUME NEW p, NEW id, Acts(p, id), on_frame(p)
  PROVE  Keeps(p, id)
<1>1. /\ p \in Endpoints /\ id \in Ids /\ p \in Peers /\ Other(p) \in Peers /\ Other(p) # p
      /\ BothOurs /\ Settled /\ Settled' /\ EndpointStep(p)
  BY ActsParts DEF Acts
<1>2. Path(p, id)' = Path(p, id) /\ LineSame(p, id)
  BY <1>1, FrameLine
<1>3. Whole(p)' => Whole(p)
  <2>1. conn' = conn
    BY <1>1, FrameTaken
  <2> QED
    BY <2>1 DEF Whole
<1>4. PICK f \in Frames : f = Head(wire[Other(p)])
  BY <1>1, FrameTaken
<1>5. /\ f \in StreamFrames(id) => FrameStep(p, id, f)
      /\ f \notin StreamFrames(id) => SameStream(p, id)
  BY <1>1, <1>4, FrameCases
<1>6. \/ handle'[p][id] = handle[p][id] /\ rx'[p][id] = rx[p][id]
      \/ FrameAccept(p, id, f)
  BY <1>5 DEF FrameStep, FrameUnknown, FrameReset, FrameReject, FramePlain,
              Refused, Booked, SameStream, Fades
<1>7. CASE handle'[p][id] = handle[p][id] /\ rx'[p][id] = rx[p][id]
  <2>1. Speaks(p, id)' => Speaks(p, id)
    BY <1>3, <1>7 DEF Speaks
  <2> QED
    BY <1>2, <1>3, <1>7, <2>1, SameLineKeeps
<1>8. CASE FrameAccept(p, id, f)
  <2>1. handle'[p][id].flag # "Syn"
    BY <1>8 DEF FrameAccept, NewHandle, NoHandle
  <2>2. is_outbound(Other(p), id)
    BY <1>1, <1>8 DEF FrameAccept, is_outbound, Peers
  <2>3. ~Awaits(Other(p), id)'
    BY <2>2 DEF Awaits
  <2> QED
    BY <1>2, <2>1, <2>3, SameLineKeeps
<1> QED
  BY <1>6, <1>7, <1>8

\* A new stream owes its SYN, and has sent nothing.
LEMMA OpenKeepsLine ==
  ASSUME NEW p, NEW id, Acts(p, id), poll_new_outbound(p)
  PROVE  Keeps(p, id)
<1>1. /\ id \in Ids /\ p \in Peers /\ BothOurs /\ Settled /\ Settled' /\ EndpointStep(p)
      /\ Shaped(p, id) /\ NotYet(p, id) /\ (Unborn(p, id)' => Unborn(p, id))
  BY ActsParts DEF Acts
<1>2. Path(p, id)' = Path(p, id) /\ LineSame(p, id)
  BY <1>1, OpenLine
<1>3. Whole(p)' => Whole(p)
  <2>1. UNCHANGED conn
    BY <1>1, OpenMoves
  <2> QED
    BY <2>1 DEF Whole
<1>4. CASE id # nextId[p]
  <2>1. handle'[p][id] = handle[p][id] /\ rx'[p][id] = rx[p][id]
    BY <1>1, <1>4, OpenMoves
  <2>2. Speaks(p, id)' => Speaks(p, id)
    BY <1>3, <2>1 DEF Speaks
  <2> QED
    BY <1>2, <1>3, <2>1, <2>2, SameLineKeeps
<1>5. CASE id = nextId[p]
  <2>1. is_outbound(p, id) /\ Unborn(p, id) /\ handle'[p][id] = NewHandle("Syn")
    BY <1>1, <1>5, OpenMoves
  <2>2. handle'[p][id].flag = "Syn" /\ handle'[p][id].life = "live"
    BY <2>1 DEF NewHandle, NoHandle
  <2>3. Line(p, id) = Nil /\ Line(p, id)' = Nil
    BY <1>1, <1>2, <2>1 DEF NotYet, LineSame
  <2>4. Path(p, id)' \in Seq(Frames) /\ Unsent(p, id)' \in Seq(Frames)
    BY <1>1, NextLineType, NextSettledParts
  <2>5. Path(p, id)' = Nil
    <3>1. Within(Cat(Path(p, id)', Unsent(p, id)'), {})
      BY <2>3, SynNil DEF Line
    <3>2. Within(Path(p, id)', {})
      BY <2>4, <3>1, WithinCat
    <3> QED
      BY <2>4, <3>2, NilIs
  <2>6. SynAhead(p, id)'
    BY <2>2, <2>3, <2>5, SynNil DEF SynAhead
  <2>7. Shaped(p, id)'
    BY <2>1, <2>3, SynNil DEF Shaped
  <2>8. NotYet(p, id)'
    BY <2>3 DEF NotYet
  <2> QED
    BY <2>6, <2>7, <2>8 DEF Keeps
<1> QED
  BY <1>4, <1>5

\* A dropped stream takes its leave behind everything it sent.
LEMMA DropKeepsLine ==
  ASSUME NEW p, NEW id, Acts(p, id), NEW j \in Ids, on_drop_stream(p, j)
  PROVE  Keeps(p, id)
<1>1. /\ id \in Ids /\ p \in Peers /\ BothOurs /\ Settled /\ Settled' /\ EndpointStep(p)
      /\ Shaped(p, id) /\ NotYet(p, id) /\ SynAhead(p, id)
      /\ (Unborn(p, id)' => Unborn(p, id))
      /\ (Awaits(Other(p), id)' => Awaits(Other(p), id))
      /\ Path(p, id) \in Seq(Frames) /\ Line(p, id) \in Seq(Frames)
  BY ActsParts DEF Acts
<1>2. conn' = conn /\ UNCHANGED handle
  BY DEF on_drop_stream, handleVars
<1>3. Whole(p)' => Whole(p)
  BY <1>2 DEF Whole
<1>4. CASE id # j
  <2>1. SameStream(p, id) /\ Path(p, id)' = Path(p, id) /\ LineSame(p, id)
    BY <1>1, <1>4, DropMoves
  <2>2. handle'[p][id] = handle[p][id] /\ rx'[p][id] = rx[p][id]
    BY <2>1 DEF SameStream
  <2>3. Speaks(p, id)' => Speaks(p, id)
    BY <1>3, <2>2 DEF Speaks
  <2> QED
    BY <1>3, <2>1, <2>2, <2>3, SameLineKeeps
<1>5. CASE id = j
  <2>1. /\ handle[p][id].life # "live" /\ rx[p][id] = "open"
        /\ Line(p, id) = Path(p, id) /\ Line(p, id)' = Path(p, id)'
        /\ \/ Path(p, id)' = Path(p, id) /\ LineSame(p, id)
           \/ \E f : LineEnds(p, id, f)
    BY <1>1, <1>5, DropMoves
  <2>0. Speaks(p, id)' => Speaks(p, id)
    BY <1>3, <2>1 DEF Speaks
  <2>2. CASE Path(p, id)' = Path(p, id) /\ LineSame(p, id)
    BY <1>2, <1>3, <2>0, <2>1, <2>2, SameLineKeeps
  <2>3. ASSUME NEW f, LineEnds(p, id, f) PROVE Keeps(p, id)
    <3>1. /\ Path(p, id)' = Cat(Path(p, id), One(f)) /\ f \in Frames /\ f.len = 0
          /\ "SYN" \notin f.flags /\ Line(p, id)' = Cat(Line(p, id), One(f))
      BY <2>3 DEF LineEnds, Farewell, LineGrows
    <3>2. One(f) \in Seq(Frames) /\ f \in Seemly(p, id) /\ SynFirst(One(f))
      <4>1. SynFirst(One(f))
        BY <3>1, SynOne
      <4> QED
        BY <3>1, <4>1, OneType DEF Seemly
    <3>3. Shaped(p, id)'
      <4>1. Within(One(f), Seemly(p, id))
        BY <3>1, <3>2, SynOne
      <4>2. Within(Line(p, id)', Seemly(p, id))
        BY <1>1, <3>1, <3>2, <4>1, WithinCat DEF Shaped
      <4> QED
        BY <1>1, <1>2, <4>2 DEF Shaped, Seemly
    <3>4. NotYet(p, id)'
      <4>1. ~Unborn(p, id)
        <5>1. p \in Endpoints /\ StreamsOK
          BY ActsParts
        <5>2. handle[p][id].life # "none"
          BY <1>1, <2>1, <5>1, LifeAndReceiver
        <5> QED
          BY <5>2 DEF Unborn
      <4> QED
        BY <1>1, <4>1 DEF NotYet
    <3>5. SynAhead(p, id)'
      <4>1. ASSUME SynFirst(Path(p, id)) PROVE SynFirst(Path(p, id)')
        BY <1>1, <3>1, <3>2, <4>1, FirstCat
      <4> QED
        BY <1>1, <1>2, <2>0, <2>1, <4>1 DEF SynAhead
    <3> QED
      BY <3>3, <3>4, <3>5 DEF Keeps
  <2> QED
    BY <2>1, <2>2, <2>3
<1> QED
  BY <1>4, <1>5

\* A handle begins with the frame its flag asks for.
LEMMA BeginKeepsLine ==
  ASSUME NEW p, NEW j, Acts(p, j), ElseKept(p, j), NEW f, NEW k \in FrameOps,
         Starts(p, j, k, f), chan'[p][j] = chan[p][j], k = "write" => rx[p][j] # "closed"
  PROVE  Keeps(p, j)
<1>1. /\ j \in Ids /\ p \in Peers /\ Typed(p) /\ Typed(p)'
      /\ Shaped(p, j) /\ SynAhead(p, j) /\ (Awaits(Other(p), j)' => Awaits(Other(p), j))
      /\ Line(p, j) \in Seq(Frames)
  BY ActsParts
<1>2. Path(p, j)' = Path(p, j) /\ LineGrows(p, j, f) /\ f \in Frames /\ Line(p, j) = Path(p, j)
  BY <1>1, BeginLine
<1>3. /\ handle[p][j].life = "live" /\ handle'[p][j].life = "live" /\ handle'[p][j].flag = "None"
      /\ f \in Cmds(j) /\ ("SYN" \in f.flags <=> handle[p][j].flag = "Syn")
  BY DEF Starts
<1>4. Line(p, j)' = Cat(Line(p, j), One(f)) /\ One(f) \in Seq(Frames)
  BY <1>2, OneType DEF LineGrows
<1>5. Shaped(p, j)'
  <2>1. f \in Seemly(p, j)
    BY <1>1, <1>2, <1>3 DEF Seemly, Cmds, Shaped
  <2>2. Within(One(f), Seemly(p, j))
    BY <1>2, <2>1, SynOne
  <2>3. Within(Line(p, j)', Seemly(p, j))
    BY <1>1, <1>4, <2>2, WithinCat DEF Shaped
  <2> QED
    BY <1>3, <2>3 DEF Shaped, Seemly
<1>6. NotYet(p, j)'
  BY <1>3 DEF NotYet, Unborn
<1>7. SynAhead(p, j)'
  <2>1. SUFFICES ASSUME Awaits(Other(p), j)'
                 PROVE  /\ SynFirst(Path(p, j)')
                        /\ Whole(p)' /\ rx'[p][j] # "closed" =>
                             SynFirst(Line(p, j)') /\ HasSyn(Line(p, j)')
    <3>1. Speaks(p, j)' => Whole(p)' /\ rx'[p][j] # "closed"
      BY DEF Speaks, Starts, ElseKept
    <3> QED
      BY <2>1, <3>1 DEF SynAhead
  <2>2. SynFirst(Path(p, j)')
    BY <1>1, <1>2, <2>1 DEF SynAhead
  <2>3. ASSUME Whole(p)', rx'[p][j] # "closed"
        PROVE  SynFirst(Line(p, j)') /\ HasSyn(Line(p, j)')
    <3>1. Whole(p) /\ rx[p][j] # "closed"
      BY <2>3 DEF ElseKept, Whole
    <3>2. SynFirst(Line(p, j)) /\ (handle[p][j].flag # "Syn" => HasSyn(Line(p, j)))
      BY <1>1, <1>3, <2>1, <3>1 DEF SynAhead, Speaks
    <3>3. handle[p][j].flag = "Syn" => HasSyn(One(f)) /\ SynFirst(One(f))
      BY <1>2, <1>3, SynOne
    <3>4. HasSyn(Line(p, j)) \/ SynFirst(One(f))
      BY <3>2, <3>3
    <3>5. SynFirst(Line(p, j)')
      BY <1>1, <1>4, <3>2, <3>4, FirstCat
    <3>6. HasSyn(Line(p, j)')
      BY <1>1, <1>4, <3>2, <3>3, SynCat
    <3> QED
      BY <3>5, <3>6
  <2> QED
    BY <2>2, <2>3
<1> QED
  BY <1>5, <1>6, <1>7 DEF Keeps

\* The frame of an operation reaches the channel, or is lost at its end.
LEMMA SendKeepsLine ==
  ASSUME NEW p, NEW j, Acts(p, j), ElseKept(p, j), OpSend(p, j)
  PROVE  Keeps(p, j)
<1>1. /\ j \in Ids /\ p \in Peers /\ Typed(p) /\ Typed(p)' /\ StreamTypes
      /\ Shaped(p, j) /\ SynAhead(p, j) /\ (Awaits(Other(p), j)' => Awaits(Other(p), j))
  BY ActsParts
<1>2. /\ Queues(p, j) /\ Whole(p) => LineSame(p, j) /\ Path(p, j)' = Line(p, j)
      /\ Lapses(p, j) \/ ~Whole(p) => LineThins(p, j) /\ Path(p, j)' = Path(p, j)
      /\ Queues(p, j) \/ Lapses(p, j)
      /\ Line(p, j)' = Path(p, j)'
  BY <1>1, SendLine DEF OpSend
<1>3. handle'[p][j].flag = handle[p][j].flag /\ handle'[p][j].life = "live"
      /\ handle[p][j].life = "live"
  <2>1. handle[p][j] \in Handles
    BY <1>1 DEF StreamTypes
  <2> QED
    BY <2>1 DEF OpSend, Handles
<1>4. Whole(p)' = Whole(p) /\ rx'[p][j] = rx[p][j]
  BY DEF ElseKept, Whole
<1>5. Shaped(p, j)'
  <2>1. Within(Line(p, j)', Seemly(p, j))
    BY <1>1, <1>2, ThinWithin DEF Shaped, LineSame
  <2> QED
    BY <1>1, <1>3, <2>1 DEF Shaped, Seemly
<1>6. NotYet(p, j)'
  BY <1>3 DEF NotYet, Unborn
<1>7. SynAhead(p, j)'
  <2>1. CASE Queues(p, j) /\ Whole(p)
    <3>1. Line(p, j)' = Line(p, j) /\ Path(p, j)' = Line(p, j)
      BY <1>2, <2>1 DEF LineSame
    <3>2. Speaks(p, j)
      BY <2>1 DEF Speaks, Queues
    <3> QED
      BY <1>1, <1>3, <1>4, <2>1, <3>1, <3>2 DEF SynAhead
  <2>2. CASE Lapses(p, j) \/ ~Whole(p)
    <3>1. ~(Whole(p)' /\ rx'[p][j] # "closed")
      BY <1>4, <2>2 DEF Lapses
    <3> QED
      BY <1>1, <1>2, <2>2, <3>1 DEF SynAhead
  <2> QED
    BY <1>2, <2>1, <2>2
<1> QED
  BY <1>5, <1>6, <1>7 DEF Keeps

\* The FIN goes behind everything its stream sent.
LEMMA CloseKeepsLine ==
  ASSUME NEW p, NEW j, Acts(p, j), ElseKept(p, j), NEW f, OpClose(p, j, f)
  PROVE  Keeps(p, j)
<1>1. /\ j \in Ids /\ p \in Peers /\ Typed(p) /\ Typed(p)'
      /\ Shaped(p, j) /\ SynAhead(p, j) /\ (Awaits(Other(p), j)' => Awaits(Other(p), j))
      /\ Line(p, j) \in Seq(Frames)
  BY ActsParts
<1>2. /\ Whole(p) => LineGrows(p, j, f) /\ Path(p, j)' = Cat(Path(p, j), One(f))
      /\ ~Whole(p) => LineSame(p, j) /\ Path(p, j)' = Path(p, j)
      /\ f \in Frames /\ f.len = 0 /\ Line(p, j) = Path(p, j) /\ Line(p, j)' = Path(p, j)'
  BY <1>1, CloseLine
<1>3. /\ f \in Cmds(j) /\ "FIN" \in f.flags /\ handle[p][j].life = "live"
      /\ handle'[p][j].life = "live"
      /\ (handle'[p][j].flag = "Syn" <=> handle[p][j].flag = "Syn")
  BY DEF OpClose
<1>4. "RST" \notin f.flags /\ "SYN" \notin f.flags /\ One(f) \in Seq(Frames) /\ SynFirst(One(f))
  <2>1. SynFirst(One(f)) /\ One(f) \in Seq(Frames)
    BY <1>2, SynOne, OneType
  <2> QED
    BY <1>3, <2>1 DEF Cmds
<1>5. Whole(p)' = Whole(p) /\ rx'[p][j] = rx[p][j]
  BY DEF ElseKept, Whole
<1>6. CASE ~Whole(p)
  <2>1. ~Speaks(p, j)'
    BY <1>5, <1>6 DEF Speaks
  <2> QED
    BY <1>2, <1>3, <1>5, <1>6, <2>1, SameLineKeeps
<1>7. CASE Whole(p)
  <2>1. Line(p, j)' = Cat(Line(p, j), One(f))
    BY <1>2, <1>7 DEF LineGrows
  <2>2. Shaped(p, j)'
    <3>1. f \in Seemly(p, j)
      BY <1>2, <1>4 DEF Seemly
    <3>2. Within(One(f), Seemly(p, j))
      BY <1>2, <3>1, SynOne
    <3>3. Within(Line(p, j)', Seemly(p, j))
      BY <1>1, <1>4, <2>1, <3>2, WithinCat DEF Shaped
    <3> QED
      BY <1>1, <1>3, <3>3 DEF Shaped, Seemly
  <2>3. NotYet(p, j)'
    BY <1>3 DEF NotYet, Unborn
  <2>4. SynAhead(p, j)'
    <3>1. SynFirst(Line(p, j)) => SynFirst(Line(p, j)')
      BY <1>1, <1>4, <2>1, FirstCat
    <3>2. HasSyn(Line(p, j)) => HasSyn(Line(p, j)')
      BY <1>1, <1>4, <2>1, SynCat
    <3>3. Speaks(p, j)
      BY <1>7 DEF Speaks, OpClose
    <3> QED
      BY <1>1, <1>2, <1>3, <1>5, <3>1, <3>2, <3>3 DEF SynAhead
  <2> QED
    BY <2>2, <2>3, <2>4 DEF Keeps
<1> QED
  BY <1>6, <1>7

\* The steps of the handles.
LEMMA HandleKeepsLine ==
  ASSUME NEW p, NEW id, Acts(p, id), NEW j \in Ids, HandleAction(p, j)
  PROVE  Keeps(p, id)
<1>1. /\ p \in Endpoints /\ id \in Ids /\ p \in Peers /\ Typed(p) /\ Typed(p)'
      /\ StreamTypes /\ FrameTypes /\ GhostTypes /\ StreamsOK
  BY ActsParts
<1>2. HandleMove(p, j) /\ ElseKept(p, j)
  BY <1>1, HandleMoves
<1>3. Whole(p)' = Whole(p) /\ rx'[p] = rx[p]
  BY <1>2 DEF ElseKept, Whole
<1>4. CASE id # j
  <2>1. Path(p, id)' = Path(p, id) /\ LineSame(p, id)
    BY <1>1, <1>2, <1>4, OtherLines
  <2>2. handle'[p][id] = handle[p][id]
    BY <1>1, <1>2, <1>4 DEF ElseKept
  <2>3. Speaks(p, id)' => Speaks(p, id)
    BY <1>3, <2>2 DEF Speaks
  <2> QED
    BY <1>3, <2>1, <2>2, <2>3, SameLineKeeps
<1>5. CASE id = j
  <2>1. ASSUME NEW f, OpWrite(p, j, f) \/ OpGrant(p, j, f), OpSilent(p, j) PROVE Keeps(p, j)
    <3>1. "write" \in FrameOps /\ "read" \in FrameOps
      BY DEF FrameOps
    <3>2. (Starts(p, j, "write", f) /\ rx[p][j] # "closed") \/ Starts(p, j, "read", f)
      BY <2>1 DEF OpWrite, OpGrant
    <3>3. chan'[p][j] = chan[p][j]
      BY <2>1 DEF OpSilent
    <3> QED
      BY <1>2, <1>5, <3>1, <3>2, <3>3, BeginKeepsLine
  <2>2. ASSUME OpSend(p, j) PROVE Keeps(p, j)
    BY <1>2, <1>5, <2>2, SendKeepsLine
  <2>3. ASSUME NEW f, OpClose(p, j, f) PROVE Keeps(p, j)
    BY <1>2, <1>5, <2>3, CloseKeepsLine
  <2>4. ASSUME OpRest(p, j) \/ OpDrop(p, j), OpSilent(p, j) PROVE Keeps(p, j)
    <3>1. Path(p, j)' = Path(p, j) /\ LineSame(p, j)
      BY <1>1, <1>2, <2>4, RestLine
    <3>2. /\ handle'[p][j].flag = "Syn" => handle[p][j].flag = "Syn"
          /\ handle'[p][j].life = "live" /\ handle'[p][j].flag # "Syn" =>
                handle[p][j].life = "live" /\ handle[p][j].flag # "Syn"
      BY <2>4 DEF OpRest, OpDrop
    <3>3. Speaks(p, j)' => Speaks(p, j)
      BY <1>3, <2>4 DEF Speaks, OpRest, OpDrop, FrameOps
    <3> QED
      BY <1>3, <1>5, <3>1, <3>2, <3>3, SameLineKeeps
  <2> QED
    BY <1>2, <1>5, <2>1, <2>2, <2>3, <2>4 DEF HandleMove
<1> QED
  BY <1>4, <1>5

\* Every step keeps the line of the side that takes it.
LEMMA OwnLineKept ==
  ASSUME NEW p, NEW id, Acts(p, id)
  PROVE  Keeps(p, id)
<1>1. /\ p \in Endpoints /\ FrameTypes /\ EndpointStep(p)
  BY ActsParts DEF Acts
<1>2. \/ Sending(p) \/ Ending(p) \/ on_frame(p) \/ poll_new_outbound(p)
      \/ \E j \in Ids : HandleAction(p, j) \/ on_drop_stream(p, j)
  BY <1>1, EndpointActions
<1> QED
  BY <1>2, SendingKeepsLine, EndingKeepsLine, FrameKeepsLine, OpenKeepsLine,
     HandleKeepsLine, DropKeepsLine

\* After its SYN no side waits for the stream any more.
LEMMA SynEnds ==
  ASSUME NEW p, NEW o, NEW id, NEW f, Taken(p, o, id, f), "SYN" \in f.flags
  PROVE  ~Awaits(p, id)'
<1>1. /\ p \in Peers /\ o \in Peers /\ id \in Ids /\ f \in Frames /\ f \in Seemly(o, id)
      /\ o = Other(p) /\ BothOurs /\ Settled /\ on_frame(p) /\ f = Head(wire[o])
      /\ f \in StreamFrames(id)
  BY TakenParts DEF Taken
<1>2. FrameStep(p, id, f)
  BY <1>1, FrameCases
<1>3. "RST" \notin f.flags
  BY <1>1 DEF Seemly
<1>4. FrameReject(p, id, f) \/ FrameAccept(p, id, f)
  BY <1>2, <1>3 DEF FrameStep, FrameUnknown, FrameReset, FramePlain
<1>5. CASE FrameReject(p, id, f)
  <2>1. ~Hears(p, id)'
    BY <1>5, RejectEnds
  <2> QED
    BY <2>1 DEF Hears
<1>6. CASE FrameAccept(p, id, f)
  BY <1>6 DEF FrameAccept, NewHandle, NoHandle, Awaits, Unborn
<1> QED
  BY <1>4, <1>5, <1>6

\* Every step keeps the line of the other side.
LEMMA OtherLineKept ==
  ASSUME NEW p, NEW id, Acts(p, id), NEW o, o = Other(p)
  PROVE  Keeps(o, id)
<1>1. /\ p \in Peers /\ id \in Ids /\ o \in Peers /\ Other(o) = p /\ o # p
      /\ BothOurs /\ Settled /\ Settled' /\ EndpointStep(p) /\ Sound(p, id) /\ Sound(o, id)
      /\ p \in Endpoints /\ FrameTypes
  BY ActsParts DEF Acts
<1>2. Shaped(o, id) /\ NotYet(o, id) /\ SynAhead(o, id)
  BY <1>1 DEF Sound
<1>3. handle'[o] = handle[o] /\ rx'[o] = rx[o] /\ KeptState(o)
  BY <1>1, OtherSide
<1>4. Whole(o)' = Whole(o) /\ Unborn(o, id)' = Unborn(o, id)
  BY <1>3 DEF KeptState, Whole, Unborn
<1>5. Awaits(p, id)' => Awaits(p, id)
  BY <1>1, AwaitsBack
<1>6. ASSUME Path(o, id)' = Path(o, id), LineSame(o, id) PROVE Keeps(o, id)
  <2>1. Line(o, id)' = Line(o, id)
    BY <1>6 DEF LineSame
  <2>2. Shaped(o, id)'
    BY <1>2, <1>3, <2>1 DEF Shaped, Seemly
  <2>3. NotYet(o, id)'
    BY <1>2, <1>4, <2>1 DEF NotYet
  <2>4. SynAhead(o, id)'
    BY <1>1, <1>2, <1>3, <1>4, <1>5, <1>6, <2>1 DEF SynAhead, Speaks
  <2> QED
    BY <2>2, <2>3, <2>4 DEF Keeps
<1>7. CASE Outward(p)
  BY <1>1, <1>6, <1>7, OtherLine
<1>8. CASE on_frame(p)
  <2>1. PICK f \in Frames : f = Head(wire[o])
    BY <1>1, <1>8, FrameTaken
  <2>2. CASE f \notin StreamFrames(id)
    BY <1>1, <1>6, <1>8, <2>1, <2>2, FrameLeaves
  <2>3. CASE f \in StreamFrames(id)
    <3>1. Taken(p, o, id, f)
      BY <1>1, <1>8, <2>1, <2>3 DEF Taken
    <3>2. /\ Path(o, id) = Cat(One(f), Path(o, id)') /\ LineGives(o, id, f)
          /\ ~Unborn(o, id) /\ Typed(o)'
      BY <3>1, TakenParts
    <3>3. /\ Path(o, id)' \in Seq(Frames) /\ Line(o, id)' \in Seq(Frames)
          /\ One(f) \in Seq(Frames) /\ Line(o, id) = Cat(One(f), Line(o, id)')
      BY <1>1, <3>2, NextLineType, OneType DEF LineGives
    <3>4. Shaped(o, id)'
      <4>1. Within(Line(o, id)', Seemly(o, id))
        BY <1>2, <3>3, WithinCat DEF Shaped
      <4> QED
        BY <1>2, <1>3, <4>1 DEF Shaped, Seemly
    <3>5. NotYet(o, id)'
      BY <1>4, <3>2 DEF NotYet
    <3>6. SynAhead(o, id)'
      <4>1. SUFFICES ASSUME Awaits(p, id)'
                     PROVE  /\ SynFirst(Path(o, id)')
                            /\ Speaks(o, id) => SynFirst(Line(o, id)')
                            /\ /\ Whole(o) /\ rx[o][id] # "closed"
                               /\ handle[o][id].life = "live" /\ handle[o][id].flag # "Syn"
                               => HasSyn(Line(o, id)')
        BY <1>1, <1>3, <1>4 DEF SynAhead, Speaks
      <4>2. /\ SynFirst(Path(o, id))
            /\ Speaks(o, id) => SynFirst(Line(o, id))
            /\ /\ Whole(o) /\ rx[o][id] # "closed"
               /\ handle[o][id].life = "live" /\ handle[o][id].flag # "Syn"
               => HasSyn(Line(o, id))
        BY <1>1, <1>2, <1>5, <4>1 DEF SynAhead
      <4>3. ~HasSyn(One(f))
        BY <3>1, <4>1, SynEnds, SynOne
      <4>4. SynFirst(Path(o, id)')
        BY <3>2, <3>3, <4>2, <4>3, FirstCat
      <4>5. SynFirst(Line(o, id)) => SynFirst(Line(o, id)')
        BY <3>3, <4>3, FirstCat
      <4>6. HasSyn(Line(o, id)) => HasSyn(Line(o, id)')
        BY <3>3, <4>3, SynCat
      <4> QED
        BY <4>2, <4>4, <4>5, <4>6
    <3> QED
      BY <3>4, <3>5, <3>6 DEF Keeps
  <2> QED
    BY <2>2, <2>3
<1>9. Outward(p) \/ on_frame(p)
  BY <1>1, EndpointActions, OutwardSteps
<1> QED
  BY <1>7, <1>8, <1>9

----------------------------------------------------------------------------
(* The theorem                                                              *)

CreditInv == Settled /\ \A p \in Peers, id \in Ids : Sound(p, id) /\ Even(p, id)

\* One step of an endpoint.
LEMMA StepKeepsCredit ==
  ASSUME BothOurs, CreditInv, Settled', NEW p \in Peers, EndpointStep(p), NEW id \in Ids
  PROVE  \A q \in Peers : Sound(q, id)' /\ Even(q, id)'
<1>1. PICK o \in Peers : o = Other(p) /\ Other(o) = p /\ o # p
  BY OtherPeer, SettledParts DEF CreditInv
<1>2. Sound(p, id) /\ Sound(o, id) /\ Even(p, id) /\ Even(o, id) /\ Settled
  BY DEF CreditInv
<1>3. Acts(p, id)
  BY <1>1, <1>2 DEF Acts
<1>4. Keeps(p, id) /\ Keeps(o, id)
  BY <1>1, <1>3, OwnLineKept, OtherLineKept
<1>5. Books(p, id)
  BY <1>1, <1>2, EndpointBooks
<1>6. Fair(p, id) /\ Fair(o, id)
  BY <1>2 DEF Sound
<1>7. /\ Fair(p, id)' /\ Fair(o, id)'
      /\ Level(p, id) /\ Hears(p, id)' => Level(p, id)'
      /\ Level(o, id) /\ Hears(p, id)' => Level(o, id)'
  BY <1>1, <1>2, <1>5, <1>6, Balance
<1>8. Sound(p, id)' /\ Sound(o, id)'
  BY <1>4, <1>7 DEF Keeps, Sound
<1>9. ASSUME Hears(p, id)', Hears(o, id)' PROVE Level(p, id)' /\ Level(o, id)'
  <2>1. Hears(o, id) /\ (Hears(p, id) \/ (poll_new_outbound(p) /\ id = nextId[p]))
    BY <1>1, <1>2, <1>9, HearsBack
  <2>2. CASE Hears(p, id)
    <3>1. Level(p, id) /\ Level(o, id)
      BY <1>1, <1>2, <2>1, <2>2 DEF Even
    <3> QED
      BY <1>7, <1>9, <3>1
  <2>3. CASE poll_new_outbound(p) /\ id = nextId[p]
    <3>1. Unborn(p, id) /\ Unborn(o, id)
      BY <1>1, <1>2, <2>3, OpenMoves
    <3>2. Line(p, id) = Nil /\ Line(o, id) = Nil
      BY <1>2, <3>1 DEF Sound, NotYet
    <3>3. Typed(p) /\ Typed(o)
      BY <1>2, SettledParts
    <3>4. InFlight(p, id) = 0 /\ Granted(p, id) = 0 /\ InFlight(o, id) = 0 /\ Granted(o, id) = 0
      <4>1. /\ InFlight(p, id) = Weight(Line(p, id), BodyFrames)
            /\ Granted(p, id) = Weight(Line(p, id), CreditFrames)
            /\ InFlight(o, id) = Weight(Line(o, id), BodyFrames)
            /\ Granted(o, id) = Weight(Line(o, id), CreditFrames)
        BY <3>3, Amounts
      <4> QED
        BY <3>2, <4>1, WeightEmpty
    <3>5. /\ SendV(p, id) = DEFAULT_CREDIT /\ RecvV(p, id) = DEFAULT_CREDIT
          /\ SendV(o, id) = DEFAULT_CREDIT /\ RecvV(o, id) = DEFAULT_CREDIT
      BY <3>1 DEF SendV, RecvV
    <3>6. DEFAULT_CREDIT \in Nat
      BY FlowAssumption
    <3>7. Level(p, id) /\ Level(o, id)
      BY <1>1, <3>4, <3>5, <3>6 DEF Level, Owed
    <3> QED
      BY <1>7, <1>9, <3>7
  <2> QED
    BY <2>1, <2>2, <2>3
<1>10. Even(p, id)' /\ Even(o, id)'
  BY <1>1, <1>9 DEF Even
<1> QED
  BY <1>1, <1>8, <1>10, OtherPeer

\* Only the handlers of frames put bytes in a receive buffer.
LEMMA GhostStay ==
  ASSUME StreamTypes, FrameTypes, GhostTypes, NEW p \in Endpoints, EndpointStep(p)
  PROVE  GhostTypes'
<1> USE DEF connVars, pendVars, sockVars, tableVars, handleVars, ghostVars
<1>1. ASSUME NEW j \in Ids, HandleAction(p, j) PROVE rcvd' = rcvd
  BY <1>1 DEF HandleAction, poll_write, WritePark, WriteSend, ReadCheck, send_window_update,
       ReadCopy, ReadUpdateSend, CopyOrPark, poll_close, CloseDone, DropHandle
<1>2. ASSUME Sending(p) PROVE rcvd' = rcvd
  BY <1>2 DEF Sending, PollPing, PollSend, PingInterval, OpenWait, PollCommand, DrainCommand,
       FlushFrame
<1>3. ASSUME Ending(p) PROVE rcvd' = rcvd
  BY <1>3 DEF Ending, PollFail, OpenFail, cleanup, connection_close, connection_drop,
       CloseAllReceivers, DrainDone, CloseSocket, ClosingError, CleanupDrain, FlushFrame, Goto
<1>4. ASSUME \/ poll_new_outbound(p) \/ \E j \in Ids : on_drop_stream(p, j) PROVE rcvd' = rcvd
  BY <1>4 DEF poll_new_outbound, on_drop_stream
<1>5. CASE on_frame(p)
  <2>0. p \in Peers /\ Other(p) \in Peers
    BY EndpointsArePeers, OtherPeer
  <2>1. PICK f \in Frames : f = Head(wire[Other(p)])
    BY <1>5, <2>0, CatHead DEF FrameTypes, on_frame
  <2>2. f.len \in Nat
    BY <2>1, FlowAssumption DEF Frames
  <2>3. \/ rcvd' = rcvd
        \/ rcvd' = [rcvd EXCEPT ![p][f.id] = InboundShared(f).buf] /\ IsSyn(f)
        \/ rcvd' = [rcvd EXCEPT ![p][f.id] = @ + f.len] /\ f.id \in entry[p]
    BY <1>5, <2>1 DEF on_frame, OnUnknown, OnReset, RejectSyn, AcceptSyn, on_data,
         on_window_update, on_ping, handle_pong, Terminate, IsPlain
  <2>4. IsSyn(f) => InboundShared(f).buf \in Nat
    BY <2>1, <2>2, InboundWindows DEF IsSyn, Body
  <2>5. entry[p] \subseteq Ids
    BY <2>0 DEF StreamTypes
  <2> QED
    BY <2>0, <2>2, <2>3, <2>4, <2>5 DEF GhostTypes
<1> QED
  BY <1>1, <1>2, <1>3, <1>4, <1>5, EndpointActions DEF GhostTypes

\* One step of a session between two endpoints.
LEMMA OneOfUs ==
  ASSUME BothOurs, [SessionNext]_allVars
  PROVE  (\E p \in Peers : p \in Endpoints /\ EndpointStep(p)) \/ UNCHANGED allVars
BY DEF BothOurs, SessionNext, ForeignSend, ForeignReceive

\* What the session does in any case, it goes on doing.
LEMMA NextSettled ==
  ASSUME BothOurs, Settled, [SessionNext]_allVars
  PROVE  Settled'
<1>1. RouteInv'
  BY NextRoute DEF Settled
<1>2. CASE UNCHANGED allVars
  <2>1. UNCHANGED <<rcvd, conn, pendR, pendW, pendQ, chan, handle>>
    BY <1>2 DEF allVars, vars, connVars, pendVars, handleVars, ghostVars
  <2>2. GhostTypes'
    BY <2>1 DEF Settled, GhostTypes
  <2>3. \A p \in Peers : Slots(p)' /\ Commands(p)'
    BY <2>1 DEF Settled, Slots, Commands
  <2> QED
    BY <1>1, <2>2, <2>3 DEF Settled
<1>3. CASE \E p \in Peers : p \in Endpoints /\ EndpointStep(p)
  <2>1. PICK p \in Peers : p \in Endpoints /\ EndpointStep(p)
    BY <1>3
  <2>2. /\ StreamTypes /\ FrameTypes /\ GhostTypes /\ StreamsOK /\ OwnSide(p) /\ Slots(p)
        /\ Commands(p) /\ Other(p) \in Peers
    BY <2>1, SettledParts DEF Orderly
  <2>3. Slots(p)' /\ Commands(p)' /\ GhostTypes'
    BY <2>1, <2>2, SlotsStay, CommandsStay, GhostStay
  <2>4. PICK o \in Peers : o = Other(p) /\ Peers = {p, o}
    BY <2>1, <2>2, OtherPeer
  <2>5. /\ conn'[o] = conn[o] /\ pendR'[o] = pendR[o] /\ pendW'[o] = pendW[o]
        /\ pendQ'[o] = pendQ[o] /\ chan'[o] = chan[o] /\ handle'[o] = handle[o]
    BY <2>1, <2>4, OtherSide DEF KeptState
  <2>6. Slots(o) /\ Commands(o)
    BY <2>4 DEF Settled
  <2>7. Slots(o)'
    BY <2>5, <2>6 DEF Slots
  <2>8. Commands(o)'
    BY <2>5, <2>6 DEF Commands
  <2> QED
    BY <1>1, <2>3, <2>4, <2>7, <2>8 DEF Settled
<1> QED
  BY <1>2, <1>3, OneOfUs

\* At the beginning all windows are the default and nothing is under way.
LEMMA InitCredit ==
  ASSUME BothOurs, SessionInit PROVE CreditInv
<1>1. RouteInv
  BY InitRoute
<1>2. /\ conn = [p \in Peers |-> "Active"]
      /\ handle = [p \in Peers |-> [id \in Ids |-> NoHandle]]
      /\ wire = [p \in Peers |-> <<>>] /\ pendR = [p \in Peers |-> <<>>]
      /\ pendW = [p \in Peers |-> <<>>] /\ pendQ = [p \in Peers |-> <<>>]
      /\ chan = [p \in Peers |-> [id \in Ids |-> <<>>]]
      /\ rcvd = [p \in Peers |-> [id \in Ids |-> 0]]
  BY DEF SessionInit, Init, PerStream
<1>3. NoHandle.life = "none" /\ NoHandle.flag = "None" /\ NoHandle.op.kind = "idle"
  BY DEF NoHandle, Idle
<1>4. GhostTypes
  BY <1>2 DEF GhostTypes
<1>5. ASSUME NEW p \in Peers PROVE Slots(p) /\ Commands(p)
  <2>1. Slots(p)
    BY <1>2 DEF Slots, AtMostOne, Nil
  <2>2. Commands(p)
    BY <1>2, <1>3 DEF Commands, FrameOps
  <2> QED
    BY <2>1, <2>2
<1>6. Settled
  BY <1>1, <1>4, <1>5 DEF Settled
<1>7. ASSUME NEW p \in Peers, NEW id \in Ids
      PROVE  /\ Unborn(p, id) /\ handle[p][id].flag = "None" /\ Typed(p)
             /\ Path(p, id) = Nil /\ Line(p, id) = Nil
  <2>1. /\ wire[p] = Nil /\ pendW[p] = Nil /\ pendQ[p] = Nil /\ chan[p][id] = Nil
        /\ handle[p][id] = NoHandle
    BY <1>2 DEF Nil
  <2>2. Typed(p) /\ FrameTypes /\ OwnSide(p)
    BY <1>6, SettledParts
  <2>3. Of(Nil, id) = Nil
    BY OnlyEmpty DEF Of, Nil
  <2>4. Queued(p, id) = Nil
    BY <2>1 DEF Queued, Nil
  <2>5. Cat(Nil, Nil) = Nil
    BY NilType, CatNil
  <2>6. Path(p, id) = Nil
    BY <2>1, <2>2, <2>3, <2>4, <2>5, PathParts DEF Parts
  <2>7. Unsent(p, id) = Nil
    BY <1>3, <2>1 DEF Unsent, Nil
  <2> QED
    BY <1>3, <2>1, <2>2, <2>5, <2>6, <2>7 DEF Unborn, Line
<1>8. ASSUME NEW p \in Peers, NEW id \in Ids PROVE Sound(p, id) /\ Level(p, id)
  <2>1. PICK o \in Peers : o = Other(p)
    BY OtherPeer
  <2>2. Shaped(p, id)
    BY <1>7, SynNil DEF Shaped
  <2>3. NotYet(p, id)
    BY <1>7 DEF NotYet
  <2>4. SynAhead(p, id)
    BY <1>7, SynNil DEF SynAhead, Unborn
  <2>5. SendV(p, id) = DEFAULT_CREDIT /\ RecvV(o, id) = DEFAULT_CREDIT
    BY <1>7 DEF SendV, RecvV
  <2>6. /\ InFlight(p, id) = Weight(Line(p, id), BodyFrames)
        /\ Granted(o, id) = Weight(Line(o, id), CreditFrames)
    BY <1>7, Amounts
  <2>7. InFlight(p, id) = 0 /\ Granted(o, id) = 0
    BY <1>7, <2>6, WeightEmpty
  <2>8. DEFAULT_CREDIT \in Nat
    BY FlowAssumption
  <2>9. Owed(p, id) = DEFAULT_CREDIT
    BY <2>1, <2>5, <2>7, <2>8 DEF Owed
  <2> QED
    BY <2>1, <2>2, <2>3, <2>4, <2>5, <2>8, <2>9 DEF Sound, Fair, Level
<1> QED
  BY <1>6, <1>8 DEF CreditInv, Even

\* Every step keeps the invariant.
LEMMA CreditStays ==
  ASSUME BothOurs, CreditInv, [SessionNext]_allVars PROVE CreditInv'
<1>1. Settled'
  BY NextSettled DEF CreditInv
<1>2. CASE UNCHANGED allVars
  <2>1. UNCHANGED <<conn, entry, rx, pendR, pendW, pendQ, wire, shared, chan, handle>>
    BY <1>2 DEF allVars, vars, connVars, pendVars, sockVars, tableVars, handleVars
  <2>2. ASSUME NEW p \in Peers, NEW id \in Ids PROVE Sound(p, id)' /\ Even(p, id)'
    <3>1. Sound(p, id) /\ Even(p, id)
      BY DEF CreditInv
    <3>3. ASSUME NEW x
          PROVE  /\ Path(x, id)' = Path(x, id) /\ Unsent(x, id)' = Unsent(x, id)
                 /\ GoingAway(x)' = GoingAway(x)
      BY <2>1 DEF Path, Unsent, Queued, Outgoing, GoingAway
    <3>4. ASSUME NEW x
          PROVE  /\ Line(x, id)' = Line(x, id) /\ InFlight(x, id)' = InFlight(x, id)
                 /\ Granted(x, id)' = Granted(x, id)
      BY <3>3 DEF Line, InFlight, Granted
    <3>5. ASSUME NEW x
          PROVE  /\ Unborn(x, id)' = Unborn(x, id) /\ Coming(x, id)' = Coming(x, id)
                 /\ SendV(x, id)' = SendV(x, id) /\ RecvV(x, id)' = RecvV(x, id)
      BY <2>1 DEF Unborn, SendV, RecvV, Coming, Places
    <3>6. ASSUME NEW x PROVE Hears(x, id)' = Hears(x, id) /\ Awaits(x, id)' = Awaits(x, id)
      BY <2>1, <3>3, <3>5 DEF Hears, Awaits
    <3>7. Shaped(p, id)' = Shaped(p, id) /\ NotYet(p, id)' = NotYet(p, id)
      BY <2>1, <3>4, <3>5 DEF Shaped, NotYet, Seemly
    <3>8. SynAhead(p, id)' = SynAhead(p, id)
      BY <2>1, <3>3, <3>4, <3>6 DEF SynAhead, Speaks, Whole
    <3>9. Fair(p, id)' = Fair(p, id) /\ Level(p, id)' = Level(p, id)
      BY <3>4, <3>5 DEF Fair, Level, Owed
    <3> QED
      BY <3>1, <3>6, <3>7, <3>8, <3>9 DEF Sound, Even
  <2> QED
    BY <1>1, <2>2 DEF CreditInv
<1>3. CASE \E p \in Peers : p \in Endpoints /\ EndpointStep(p)
  <2>1. PICK p \in Peers : EndpointStep(p)
    BY <1>3
  <2>2. \A id \in Ids : \A q \in Peers : Sound(q, id)' /\ Even(q, id)'
    BY <1>1, <2>1, StepKeepsCredit
  <2> QED
    BY <1>1, <2>2 DEF CreditInv
<1> QED
  BY <1>2, <1>3, OneOfUs

\* The invariant says what CreditConserved says.
LEMMA CreditThen ==
  ASSUME BothOurs, CreditInv PROVE CreditConserved
<1> SUFFICES ASSUME NEW p \in Peers, NEW id \in Ids, NEW q, q = Other(p),
                    conn[p] = "Active", id \in entry[p], Listening(q, id)
             PROVE  shared[p][id].fc.send_window + InFlight(p, id) + Granted(q, id)
                      = IF id \in entry[q] THEN shared[q][id].fc.receive_window
                                           ELSE DEFAULT_CREDIT
  BY DEF CreditConserved
<1>1. /\ p \in Endpoints /\ q \in Peers /\ q \in Endpoints /\ StreamsOK /\ Other(q) = p
  BY SettledParts DEF CreditInv, BothOurs
<1>2. Hears(p, id)
  BY DEF Hears
<1>3. Hears(q, id)
  BY DEF Listening, Hears, Awaits, Unborn
<1>4. Owed(p, id) = RecvV(q, id)
  BY <1>2, <1>3 DEF CreditInv, Even, Level
<1>5. SendV(p, id) = shared[p][id].fc.send_window
  BY <1>1, HeldValues
<1>6. id \in entry[q] => RecvV(q, id) = shared[q][id].fc.receive_window
  BY <1>1, HeldValues
<1>7. id \notin entry[q] => RecvV(q, id) = DEFAULT_CREDIT
  BY DEF Listening, RecvV, Unborn
<1> QED
  BY <1>4, <1>5, <1>6, <1>7 DEF Owed

\* No credit is lost or invented between two endpoints that run this code, for
\* any number of streams, any window sizes and any channel and socket: whatever
\* a stream's sender may still send, has under way and is being granted is
\* exactly what the receiver is prepared to take.
THEOREM CreditIsConserved ==
  ASSUME BothOurs PROVE Spec => []CreditConserved
<1>1. SessionInit => CreditInv
  BY InitCredit
<1>2. CreditInv /\ [SessionNext]_allVars => CreditInv'
  BY CreditStays
<1>3. CreditInv => CreditConserved
  BY CreditThen
<1> QED
  BY <1>1, <1>2, <1>3, PTL DEF Spec

----------------------------------------------------------------------------
(* The room on the socket                                                   *)

\* What the first n frames of s take.
Bulk(s, n) == SumFunctionOnSet([i \in 1 .. n |-> Size(s[i])], 1 .. n)

\* A frame takes at least its header.
LEMMA SizeNat ==
  ASSUME NEW f \in Frames PROVE Size(f) \in Nat
BY FlowAssumption DEF Size, Frames

\* The first n frames only count.
LEMMA BulkSame ==
  ASSUME NEW s, NEW t, NEW n \in Int, \A i \in 1 .. n : s[i] = t[i]
  PROVE  Bulk(s, n) = Bulk(t, n)
<1>1. [i \in 1 .. n |-> Size(s[i])] = [i \in 1 .. n |-> Size(t[i])]
  OBVIOUS
<1> QED
  BY <1>1 DEF Bulk

\* More frames take more.
LEMMA BulkGrows ==
  ASSUME NEW s, NEW m \in Int, NEW n \in Int, m <= n, \A i \in 1 .. n : s[i] \in Frames
  PROVE  Bulk(s, m) <= Bulk(s, n) /\ Bulk(s, m) \in Nat /\ Bulk(s, n) \in Nat
<1> DEFINE f == [i \in 1 .. n |-> Size(s[i])]
           g == [i \in 1 .. m |-> Size(s[i])]
<1>1. \A i \in 1 .. n : f[i] \in Nat
  BY SizeNat
<1>2. /\ IsFiniteSet(1 .. n) /\ IsFiniteSet(1 .. m) /\ IsFiniteSet((1 .. n) \ (1 .. m))
      /\ 1 .. m \in SUBSET (1 .. n)
  <2>1. IsFiniteSet(1 .. n) /\ IsFiniteSet(1 .. m)
    BY FS_Interval
  <2> QED
    BY <2>1, FS_Subset
<1>3. \A i \in 1 .. m : f[i] \in Int /\ g[i] = f[i]
  BY <1>1
<1> HIDE DEF f, g
<1>4. SumFunctionOnSet(g, 1 .. m) = SumFunctionOnSet(f, 1 .. m)
  BY <1>2, <1>3, SumSame
<1>5. SumFunctionOnSet(f, 1 .. n) = SumFunctionOnSet(f, 1 .. m)
                                     + SumFunctionOnSet(f, (1 .. n) \ (1 .. m))
  BY <1>1, <1>2, SumSplit
<1>6. SumFunctionOnSet(f, 1 .. m) \in Nat /\ SumFunctionOnSet(f, (1 .. n) \ (1 .. m)) \in Nat
  <2>1. \A i \in 1 .. m : f[i] \in Nat
    BY <1>1, <1>2
  <2>2. \A i \in (1 .. n) \ (1 .. m) : f[i] \in Nat
    BY <1>1
  <2> QED
    BY <1>2, <2>1, <2>2, SumNat
<1>7. Bulk(s, n) = SumFunctionOnSet(f, 1 .. n) /\ Bulk(s, m) = SumFunctionOnSet(g, 1 .. m)
  BY DEF Bulk, f, g
<1> QED
  BY <1>4, <1>5, <1>6, <1>7

\* One frame more.
LEMMA BulkNext ==
  ASSUME NEW s, NEW n \in Nat, \A i \in 1 .. n + 1 : s[i] \in Frames
  PROVE  Bulk(s, n + 1) = Bulk(s, n) + Size(s[n + 1])
<1> DEFINE f == [i \in 1 .. n + 1 |-> Size(s[i])]
           g == [i \in 1 .. n |-> Size(s[i])]
<1>1. \A i \in 1 .. n + 1 : f[i] \in Int
  BY SizeNat
<1>2. IsFiniteSet(1 .. n + 1) /\ IsFiniteSet(1 .. n) /\ n + 1 \in 1 .. n + 1
      /\ (1 .. n + 1) \ {n + 1} = 1 .. n
  <2>1. IsFiniteSet(1 .. n + 1) /\ IsFiniteSet(1 .. n)
    BY FS_Interval
  <2> QED
    BY <2>1
<1>3. /\ \A i \in 1 .. n : f[i] \in Int /\ g[i] = f[i]
      /\ f[n + 1] = Size(s[n + 1])
  BY <1>1, <1>2
<1>4. Bulk(s, n + 1) = SumFunctionOnSet(f, 1 .. n + 1) /\ Bulk(s, n) = SumFunctionOnSet(g, 1 .. n)
  BY DEF Bulk
<1> HIDE DEF f, g
<1>5. SumFunctionOnSet(g, 1 .. n) = SumFunctionOnSet(f, 1 .. n)
  BY <1>2, <1>3, SumSame
<1>6. SumFunctionOnSet(f, 1 .. n + 1)
        = SumFunctionOnSet(f, (1 .. n + 1) \ {n + 1}) + f[n + 1]
  BY <1>1, <1>2, SumAdds
<1> QED
  BY <1>2, <1>3, <1>4, <1>5, <1>6

\* Without the first frame.
LEMMA BulkTail ==
  ASSUME NEW s, NEW t, NEW n \in Nat, \A i \in 1 .. n + 1 : s[i] \in Frames,
         \A i \in 1 .. n : t[i] = s[i + 1]
  PROVE  Bulk(t, n) <= Bulk(s, n + 1)
<1> DEFINE T == {m \in Nat : m <= n => Bulk(s, m + 1) = Bulk(t, m) + Size(s[1])}
<1>0. \A i \in 1 .. n : t[i] \in Frames
  OBVIOUS
<1>1. 0 \in T
  <2>1. Bulk(s, 0 + 1) = Bulk(s, 0) + Size(s[0 + 1])
    <3>1. \A i \in 1 .. 0 + 1 : s[i] \in Frames
      OBVIOUS
    <3> QED
      BY <3>1, BulkNext
  <2>2. Bulk(s, 0) = 0 /\ Bulk(t, 0) = 0
    <3>1. 1 .. 0 = {}
      OBVIOUS
    <3> QED
      BY <3>1, SumEmpty DEF Bulk
  <2> QED
    BY <2>1, <2>2
<1>2. ASSUME NEW m \in T PROVE m + 1 \in T
  <2> SUFFICES ASSUME m + 1 <= n PROVE Bulk(s, (m + 1) + 1) = Bulk(t, m + 1) + Size(s[1])
    OBVIOUS
  <2>1. Bulk(s, m + 1) = Bulk(t, m) + Size(s[1])
    OBVIOUS
  <2>2. Bulk(s, (m + 1) + 1) = Bulk(s, m + 1) + Size(s[(m + 1) + 1])
    <3>1. m + 1 \in Nat /\ \A i \in 1 .. (m + 1) + 1 : s[i] \in Frames
      OBVIOUS
    <3> QED
      BY <3>1, BulkNext
  <2>3. Bulk(t, m + 1) = Bulk(t, m) + Size(t[m + 1])
    <3>1. m \in Nat /\ \A i \in 1 .. m + 1 : t[i] \in Frames
      BY <1>0
    <3> QED
      BY <3>1, BulkNext
  <2>4. t[m + 1] = s[(m + 1) + 1] /\ s[1] \in Frames /\ t[m + 1] \in Frames
    BY <1>0
  <2>5. Bulk(t, m) \in Nat /\ Size(t[m + 1]) \in Nat /\ Size(s[1]) \in Nat
    <3>1. m \in Int /\ n \in Int /\ m <= n
      OBVIOUS
    <3> QED
      BY <1>0, <2>4, <3>1, BulkGrows, SizeNat
  <2> QED
    BY <2>1, <2>2, <2>3, <2>4, <2>5
<1>3. n \in T
  <2>1. T \in SUBSET Nat
    OBVIOUS
  <2> HIDE DEF T
  <2> QED
    BY <1>1, <1>2, <2>1, NatInduct
<1>4. Bulk(s, n + 1) = Bulk(t, n) + Size(s[1])
  BY <1>3
<1>5. Bulk(t, n) \in Nat /\ Size(s[1]) \in Nat
  BY <1>0, BulkGrows, SizeNat
<1> QED
  BY <1>4, <1>5

\* SizeOf is the bulk of the whole.
LEMMA SizeIsBulk ==
  ASSUME NEW s \in Seq(Frames)
  PROVE  /\ SizeOf(s) = Bulk(s, Len(s))
         /\ s # <<>> => SizeOf(Front(s)) = Bulk(s, Len(s) - 1)
<1>1. \A t \in Seq(Frames) : SizeOf(t) = Bulk(t, Len(t))
  <2>1. \A t \in Seq(Frames) : DOMAIN t = 1 .. Len(t)
    OBVIOUS
  <2> QED
    BY <2>1 DEF SizeOf, Bulk
<1>2. ASSUME s # <<>> PROVE SizeOf(Front(s)) = Bulk(s, Len(s) - 1)
  <2>1. PICK n \in Nat : n = Len(s) - 1 /\ n + 1 = Len(s)
    <3>1. Len(s) - 1 \in Nat
      BY <1>2
    <3> QED
      BY <3>1
  <2>2. PICK v : v = Front(s)
    OBVIOUS
  <2>3. /\ v \in Seq(Frames) /\ Len(v) = n /\ \A i \in 1 .. n : v[i] = s[i]
    <3>1. \A i \in 1 .. n : s[i] \in Frames
      BY <2>1
    <3>2. /\ SubSeq(s, 1, n) \in Seq(Frames)
          /\ Len(SubSeq(s, 1, n)) = IF 1 <= n THEN n - 1 + 1 ELSE 0
          /\ \A i \in 1 .. n - 1 + 1 : SubSeq(s, 1, n)[i] = s[1 + i - 1]
      BY <3>1, SubSeqProperties
    <3>3. v = SubSeq(s, 1, n)
      BY <2>1, <2>2 DEF Front
    <3> QED
      BY <3>2, <3>3
  <2>4. SizeOf(v) = Bulk(v, n)
    BY <1>1, <2>3
  <2>5. Bulk(v, n) = Bulk(s, n)
    BY <2>3, BulkSame
  <2> QED
    BY <2>1, <2>2, <2>4, <2>5
<1> QED
  BY <1>1, <1>2

\* The socket holds what it has room for and one frame more, the one that the
\* write state of frame::Io still holds.
Roomy(q) == wire[q] # <<>> => SizeOf(Front(wire[q])) <= SockCap

\* What happens to the frames on the socket of q: nothing, one is sent when
\* there is room, one is read, or the socket is dropped.
Carried(q) ==
  \/ wire'[q] = wire[q]
  \/ \E f \in Frames : SizeOf(wire[q]) <= SockCap /\ wire'[q] = Append(wire[q], f)
  \/ wire[q] # <<>> /\ wire'[q] = Tail(wire[q])
  \/ \E n \in 0 .. Len(wire[q]) : wire'[q] = SubSeq(wire[q], 1, n)

\* The room is kept.
LEMMA RoomStays ==
  ASSUME FrameTypes, NEW q \in Peers, Roomy(q), Carried(q)
  PROVE  Roomy(q)'
<1>1. PICK s \in Seq(Frames) : s = wire[q]
  BY DEF FrameTypes
<1>2. PICK v : v = wire'[q]
  OBVIOUS
<1>3. \A i \in 1 .. Len(s) : s[i] \in Frames
  OBVIOUS
<1>4. s # <<>> => Bulk(s, Len(s) - 1) <= SockCap
  BY <1>1, SizeIsBulk DEF Roomy
<1>5. SUFFICES ASSUME v # <<>> PROVE v \in Seq(Frames) /\ Bulk(v, Len(v) - 1) <= SockCap
  BY <1>2, SizeIsBulk DEF Roomy
<1>6. CASE v = s
  BY <1>4, <1>5, <1>6
<1>7. ASSUME NEW f \in Frames, SizeOf(s) <= SockCap, v = Append(s, f)
      PROVE  v \in Seq(Frames) /\ Bulk(v, Len(v) - 1) <= SockCap
  <2>1. v \in Seq(Frames) /\ Len(v) - 1 = Len(s) /\ \A i \in 1 .. Len(s) : v[i] = s[i]
    BY <1>7
  <2>2. Len(s) \in Int
    OBVIOUS
  <2>3. Bulk(v, Len(s)) = Bulk(s, Len(s))
    BY <2>1, <2>2, BulkSame
  <2> QED
    BY <1>7, <2>1, <2>3, SizeIsBulk
<1>8. ASSUME s # <<>>, v = Tail(s)
      PROVE  v \in Seq(Frames) /\ Bulk(v, Len(v) - 1) <= SockCap
  <2>1. v \in Seq(Frames) /\ Len(v) = Len(s) - 1 /\ \A i \in 1 .. Len(v) : v[i] = s[i + 1]
    BY <1>8, HeadTailProperties
  <2>2. PICK n \in Nat : n = Len(v) - 1 /\ n + 1 = Len(s) - 1
    <3>1. Len(v) - 1 \in Nat
      BY <1>5, <2>1
    <3> QED
      BY <2>1, <3>1
  <2>3. (\A i \in 1 .. n + 1 : s[i] \in Frames) /\ \A i \in 1 .. n : v[i] = s[i + 1]
    BY <1>3, <2>1, <2>2
  <2>4. Bulk(v, n) <= Bulk(s, n + 1)
    BY <2>3, BulkTail
  <2>5. Bulk(v, n) \in Nat /\ Bulk(s, n + 1) \in Nat
    <3>1. \A i \in 1 .. n : v[i] \in Frames
      BY <2>3
    <3>2. n \in Int /\ n + 1 \in Int
      OBVIOUS
    <3> QED
      BY <2>3, <3>1, <3>2, BulkGrows
  <2> QED
    BY <1>4, <1>8, <2>1, <2>2, <2>4, <2>5, EndpointAssumption
<1>9. ASSUME NEW n \in 0 .. Len(s), v = SubSeq(s, 1, n)
      PROVE  v \in Seq(Frames) /\ Bulk(v, Len(v) - 1) <= SockCap
  <2>1. \A i \in 1 .. n : s[i] \in Frames
    BY <1>3
  <2>2. /\ SubSeq(s, 1, n) \in Seq(Frames)
        /\ Len(SubSeq(s, 1, n)) = IF 1 <= n THEN n - 1 + 1 ELSE 0
        /\ \A i \in 1 .. n - 1 + 1 : SubSeq(s, 1, n)[i] = s[1 + i - 1]
    BY <2>1, SubSeqProperties
  <2>3. v \in Seq(Frames) /\ Len(v) = n /\ n > 0 /\ \A i \in 1 .. n : v[i] = s[i]
    BY <1>5, <1>9, <2>2
  <2>4. n - 1 \in Int /\ Len(s) - 1 \in Int /\ n - 1 <= Len(s) - 1 /\ s # <<>>
    BY <2>3
  <2>5. Bulk(v, n - 1) = Bulk(s, n - 1)
    BY <2>3, <2>4, BulkSame
  <2>6. /\ Bulk(s, n - 1) <= Bulk(s, Len(s) - 1) /\ Bulk(s, n - 1) \in Nat
        /\ Bulk(s, Len(s) - 1) \in Nat
    <3>1. \A i \in 1 .. Len(s) - 1 : s[i] \in Frames
      BY <1>3
    <3> QED
      BY <2>4, <3>1, BulkGrows
  <2> QED
    BY <1>4, <2>3, <2>4, <2>5, <2>6, EndpointAssumption
<1> QED
  BY <1>1, <1>2, <1>6, <1>7, <1>8, <1>9 DEF Carried

----------------------------------------------------------------------------
(* The room in the channels                                                 *)

Plain == newOut \in [Peers -> BOOLEAN] /\ sock \in [Peers -> {"open", "closed"}]

\* Operations that will send a frame.
Begun == FrameOps \cup {"check"}

\* An operation that will send a frame found room for it, which it still has;
\* it writes no more than the bound allows.
Queue(p, id) ==
  LET op == handle[p][id].op
  IN  /\ Len(chan[p][id]) <= ChanCap /\ written[p][id] <= MaxBytes[p]
      /\ op.kind \in Begun => Len(chan[p][id]) < ChanCap
      /\ op.kind = "write" => written[p][id] + op.frame.len <= MaxBytes[p]

\* A step that begins no operation and sends no command.
Calm(p, id) ==
  /\ handle'[p][id].op = handle[p][id].op \/ handle'[p][id].op = Idle
  /\ written'[p][id] = written[p][id]
  /\ \/ chan'[p][id] = chan[p][id] \/ chan'[p][id] = <<>>
     \/ chan[p][id] # <<>> /\ chan'[p][id] = Tail(chan[p][id])

\* It keeps the room.
LEMMA CalmQueue ==
  ASSUME FrameTypes, NEW p \in Peers, NEW id \in Ids, Queue(p, id), Calm(p, id)
  PROVE  Queue(p, id)'
<1>1. PICK c \in Seq(Frames) : c = chan[p][id]
  BY DEF FrameTypes
<1>2. PICK d : d = chan'[p][id]
  OBVIOUS
<1>3. Len(d) <= Len(c) /\ Len(d) \in Nat /\ Len(c) \in Nat
  <2>1. c # <<>> => Len(Tail(c)) = Len(c) - 1
    OBVIOUS
  <2>2. d = c \/ d = <<>> \/ (c # <<>> /\ d = Tail(c))
    BY <1>1, <1>2 DEF Calm
  <2> QED
    BY <2>1, <2>2
<1>4. Idle.kind \notin Begun /\ Idle.kind # "write"
  BY DEF Idle, Begun, FrameOps
<1>5. Len(d) <= ChanCap /\ (Len(c) < ChanCap => Len(d) < ChanCap)
  BY <1>1, <1>3, EndpointAssumption DEF Queue
<1>6. CASE handle'[p][id].op = Idle
  BY <1>2, <1>4, <1>5, <1>6 DEF Queue, Calm
<1>7. CASE handle'[p][id].op = handle[p][id].op /\ handle'[p][id].op # Idle
  BY <1>1, <1>2, <1>5, <1>7 DEF Queue, Calm
<1> QED
  BY <1>6, <1>7 DEF Calm

\* What a step of p may do to the socket, to the channels, to parked openers.
Tidy(p) == Plain' /\ (\A q \in Peers : Carried(q)) /\ \A id \in Ids : Calm(p, id)

\* Frames that go out, and the end of a channel.
LEMMA SendingTidy ==
  ASSUME StreamTypes, FrameTypes, Plain, NEW p \in Endpoints,
         Sending(p) \/ \E j \in Ids : on_drop_stream(p, j)
  PROVE  Tidy(p)
<1> USE EndpointsArePeers DEF connVars, pendVars, sockVars, tableVars, handleVars, ghostVars,
        StreamTypes, FrameTypes, Plain
<1>0. p \in Peers
  OBVIOUS
<1>1. ASSUME NEW f \in Frames, SockReady(p), SendFrame(p, f)
      PROVE  \A q \in Peers : Carried(q)
  BY <1>0, <1>1 DEF SockReady, SendFrame, Carried
<1>2. ASSUME UNCHANGED wire PROVE \A q \in Peers : Carried(q)
  BY <1>2 DEF Carried
<1>3. ASSUME UNCHANGED <<handle, chan, written>> PROVE \A id \in Ids : Calm(p, id)
  BY <1>3 DEF Calm
<1>4. CASE PollPing(p)
  <2>1. ping(rtt[p].id) \in Frames
    <3>1. rtt[p].id \in 0 .. U32_MAX
      BY <1>0 DEF RttStates
    <3> QED
      BY <3>1, FrameOfConnection
  <2>2. \A q \in Peers : Carried(q)
    BY <1>1, <1>4, <2>1 DEF PollPing
  <2> QED
    BY <1>3, <1>4, <2>2 DEF PollPing, Tidy
<1>5. CASE PollSend(p)
  <2>1. /\ pendR[p] # <<>> => Head(pendR[p]) \in Frames
        /\ pendW[p] # <<>> => Head(pendW[p]) \in Frames
    BY <1>0
  <2>2. \A q \in Peers : Carried(q)
    BY <1>1, <1>5, <2>1 DEF PollSend
  <2> QED
    BY <1>3, <1>5, <2>2 DEF PollSend, Tidy
<1>6. CASE PingInterval(p)
  BY <1>2, <1>3, <1>6 DEF PingInterval, Tidy
<1>7. CASE OpenWait(p)
  BY <1>2, <1>3, <1>7 DEF OpenWait, Tidy
<1>8. CASE \E j \in Ids : PollCommand(p, j) \/ DrainCommand(p, j)
  <2>1. PICK j \in Ids : PollCommand(p, j) \/ DrainCommand(p, j)
    BY <1>8
  <2>2. /\ chan[p][j] # <<>> /\ chan' = [chan EXCEPT ![p][j] = Tail(@)]
        /\ UNCHANGED <<wire, sock, newOut, rx, handle, written>>
    BY <2>1 DEF PollCommand, DrainCommand
  <2>3. \A id \in Ids : chan'[p][id] = IF id = j THEN Tail(chan[p][j]) ELSE chan[p][id]
    BY <1>0, <2>2
  <2>4. \A id \in Ids : Calm(p, id)
    BY <2>2, <2>3 DEF Calm
  <2> QED
    BY <1>2, <2>2, <2>4 DEF Tidy
<1>9. CASE FlushFrame(p) /\ pendQ[p] # <<>>
  <2>1. Head(pendQ[p]) \in Frames
    BY <1>0, <1>9
  <2>2. \A q \in Peers : Carried(q)
    BY <1>1, <1>9, <2>1 DEF FlushFrame
  <2> QED
    BY <1>3, <1>9, <2>2 DEF FlushFrame, Tidy
<1>10. CASE \E j \in Ids : on_drop_stream(p, j)
  <2>1. PICK j \in Ids : on_drop_stream(p, j)
    BY <1>10
  <2>2. /\ rx[p][j] = "open" /\ rx' = [rx EXCEPT ![p][j] = "done"]
        /\ UNCHANGED <<wire, sock, newOut, handle, chan, written>>
    BY <2>1 DEF on_drop_stream, ChanEnded
  <2>3. \A id \in Ids : Calm(p, id)
    BY <2>2 DEF Calm
  <2> QED
    BY <1>2, <2>2, <2>3 DEF Tidy
<1> QED
  BY <1>4, <1>5, <1>6, <1>7, <1>8, <1>9, <1>10 DEF Sending

\* Connections that end, and streams that are opened.
LEMMA EndingTidy ==
  ASSUME StreamTypes, FrameTypes, Plain, NEW p \in Endpoints, Ending(p) \/ poll_new_outbound(p)
  PROVE  Tidy(p)
<1> USE EndpointsArePeers DEF connVars, pendVars, sockVars, tableVars, handleVars, ghostVars,
        StreamTypes, FrameTypes
<1>0. p \in Peers
  OBVIOUS
<1>1. ASSUME UNCHANGED wire PROVE \A q \in Peers : Carried(q)
  BY <1>1 DEF Carried
<1>2. ASSUME DropSocket(p)
      PROVE  (\A q \in Peers : Carried(q)) /\ sock' = [sock EXCEPT ![p] = "closed"]
  BY <1>0, <1>2 DEF DropSocket, Carried
<1>3. ASSUME UNCHANGED <<handle, written>>, UNCHANGED chan \/ DropReceivers(p)
      PROVE  \A id \in Ids : Calm(p, id)
  <2>1. \A id \in Ids : chan'[p][id] = chan[p][id] \/ chan'[p][id] = <<>>
    BY <1>0, <1>3 DEF DropReceivers
  <2> QED
    BY <1>3, <2>1 DEF Calm
<1>4. CASE PollFail(p) \/ OpenFail(p)
  <2>1. cleanup(p)
    BY <1>4 DEF PollFail, OpenFail
  <2> QED
    BY <1>0, <1>2, <1>3, <2>1 DEF cleanup, Tidy, Plain
<1>5. CASE connection_close(p)
  BY <1>0, <1>1, <1>3, <1>5 DEF connection_close, Tidy, Plain
<1>6. CASE connection_drop(p)
  <2>1. \A id \in Ids : Calm(p, id)
    BY <1>3, <1>6 DEF connection_drop
  <2>2. (\A q \in Peers : Carried(q)) /\ (sock' = sock \/ sock' = [sock EXCEPT ![p] = "closed"])
    BY <1>1, <1>2, <1>6 DEF connection_drop
  <2>3. newOut' = [newOut EXCEPT ![p] = FALSE]
    BY <1>6 DEF connection_drop
  <2> QED
    BY <1>0, <2>1, <2>2, <2>3 DEF Tidy, Plain
<1>7. CASE CloseAllReceivers(p)
  BY <1>1, <1>3, <1>7 DEF CloseAllReceivers, Tidy, Plain
<1>8. CASE DrainDone(p)
  BY <1>1, <1>3, <1>8 DEF DrainDone, Tidy, Plain
<1>9. CASE CloseSocket(p)
  BY <1>0, <1>1, <1>3, <1>9 DEF CloseSocket, Tidy, Plain
<1>10. CASE ClosingError(p)
  BY <1>0, <1>2, <1>3, <1>10 DEF ClosingError, Tidy, Plain
<1>11. CASE CleanupDrain(p)
  BY <1>1, <1>3, <1>11 DEF CleanupDrain, Tidy, Plain
<1>12. CASE FlushFrame(p) /\ pendQ[p] = <<>>
  BY <1>1, <1>3, <1>12 DEF FlushFrame, Tidy, Plain
<1>13. CASE poll_new_outbound(p)
  <2>1. \A id \in Ids : /\ handle'[p][id] = handle[p][id] /\ rx'[p][id] = rx[p][id]
                        \/ handle'[p][id] = NewHandle("Syn")
    BY <1>0, <1>13 DEF poll_new_outbound
  <2>2. NewHandle("Syn").op = Idle
    BY DEF NewHandle, NoHandle
  <2>3. UNCHANGED <<wire, sock, newOut, chan, written>>
    BY <1>13 DEF poll_new_outbound
  <2>4. \A id \in Ids : Calm(p, id)
    BY <2>1, <2>2, <2>3 DEF Calm
  <2> QED
    BY <1>1, <2>3, <2>4 DEF Tidy, Plain
<1> QED
  BY <1>4, <1>5, <1>6, <1>7, <1>8, <1>9, <1>10, <1>11, <1>12, <1>13 DEF Ending

\* Frames that come in.
LEMMA FrameTidy ==
  ASSUME StreamTypes, FrameTypes, Plain, NEW p \in Endpoints, on_frame(p)
  PROVE  Tidy(p)
<1> USE EndpointsArePeers DEF connVars, pendVars, sockVars, tableVars, handleVars, ghostVars
<1>0. PICK q \in Peers : q = Other(p) /\ p \in Peers
  BY OtherPeer
<1>1. PICK f : f = Head(wire[q])
  OBVIOUS
<1>2. Receive(p, f) /\ UNCHANGED <<sock, chan, written>>
  BY <1>0, <1>1 DEF on_frame, OnUnknown, OnReset, RejectSyn, AcceptSyn, on_data,
                    on_window_update, on_ping, handle_pong, Terminate
<1>3. UNCHANGED <<handle, rx>> \/ AcceptSyn(p, f)
  BY <1>0, <1>1 DEF on_frame, OnUnknown, OnReset, RejectSyn, on_data, on_window_update,
                    on_ping, handle_pong, Terminate
<1>4. \A id \in Ids : /\ handle'[p][id] = handle[p][id] /\ rx'[p][id] = rx[p][id]
                      \/ handle'[p][id] = NewHandle("Ack")
  BY <1>0, <1>3 DEF AcceptSyn, StreamTypes
<1>5. NewHandle("Ack").op = Idle
  BY DEF NewHandle, NoHandle
<1>6. \A id \in Ids : Calm(p, id)
  BY <1>2, <1>4, <1>5 DEF Calm
<1>7. Plain'
  BY <1>0, <1>2 DEF Plain, Receive
<1>8. \A r \in Peers : Carried(r)
  BY <1>0, <1>2 DEF Receive, Carried, FrameTypes
<1> QED
  BY <1>6, <1>7, <1>8 DEF Tidy

----------------------------------------------------------------------------
(* The room an operation finds                                              *)

\* The operations of a handle, with no more written than the bound allows.
UserAction(p, id) ==
  \/ \E n \in 1 .. MaxBytes[p] - written[p][id] : poll_write(p, id, n)
  \/ WritePark(p, id) \/ WriteSend(p, id) \/ ReadCheck(p, id)
  \/ \E fast \in BOOLEAN : send_window_update(p, id, fast)
  \/ \E k \in 0 .. shared[p][id].buf : ReadCopy(p, id, k) \/ ReadUpdateSend(p, id, k)
  \/ poll_close(p, id) \/ CloseDone(p, id) \/ DropHandle(p, id)

\* The kinds of steps an endpoint takes, with that bound.
LEMMA UserActions ==
  ASSUME FrameTypes, NEW p \in Endpoints, EndpointStep(p)
  PROVE  \/ Sending(p) \/ Ending(p) \/ on_frame(p) \/ poll_new_outbound(p)
         \/ \E id \in Ids : UserAction(p, id) \/ on_drop_stream(p, id)
<1>1. ConnectionStep(p) =>
        \/ PollPing(p) \/ PollSend(p) \/ on_frame(p) \/ PollFail(p)
        \/ \E id \in Ids : PollCommand(p, id) \/ on_drop_stream(p, id)
  BY DEF ConnectionStep, TakeCommand
<1>2. ApplicationStep(p) =>
        \/ OpenFail(p) \/ OpenWait(p) \/ poll_new_outbound(p)
        \/ \E id \in Ids : UserAction(p, id)
  <2> SUFFICES ASSUME NEW id \in Ids,
                      \/ WriteStart(p, id) \/ ReadStart(p, id)
                      \/ poll_close(p, id) \/ FinishOp(p, id) \/ DropHandle(p, id)
               PROVE  UserAction(p, id)
    BY DEF ApplicationStep
  <2>1. CASE WriteStart(p, id)
    BY <2>1 DEF WriteStart, UserAction
  <2>2. CASE ReadStart(p, id)
    BY <2>2 DEF ReadStart, UserAction
  <2>3. CASE FinishOp(p, id)
    BY <2>3 DEF FinishOp, UserAction
  <2> QED
    BY <2>1, <2>2, <2>3 DEF UserAction
<1>3. ShutdownStep(p) =>
        \/ CloseAllReceivers(p) \/ DrainDone(p) \/ FlushFrame(p) \/ CloseSocket(p)
        \/ ClosingError(p) \/ CleanupDrain(p) \/ \E id \in Ids : DrainCommand(p, id)
  BY DEF ShutdownStep
<1> QED
  BY <1>1, <1>2, <1>3 DEF EndpointStep, Sending, Ending

\* They are operations of a handle.
LEMMA UserActs ==
  ASSUME FrameTypes, NEW p \in Peers, NEW id \in Ids, UserAction(p, id)
  PROVE  HandleAction(p, id)
<1>1. \A n \in 1 .. MaxBytes[p] - written[p][id] : n \in Nat
  <2>1. written[p][id] \in Nat /\ MaxBytes[p] \in Nat
    BY StreamAssumption DEF FrameTypes
  <2> QED
    BY <2>1
<1> QED
  BY <1>1 DEF UserAction, HandleAction

\* An operation of the handle of j begins only when there is room for its
\* frame, and within the bound.
Admitted(p, j) ==
  LET o == handle[p][j].op
      n == handle'[p][j].op
  IN  /\ n.kind \in Begun /\ o.kind \notin Begun => Len(chan[p][j]) < ChanCap
      /\ n.kind = "close" /\ o.kind = "idle" => Len(chan[p][j]) < ChanCap
      /\ n.kind = "write" /\ o.kind # "write" => written[p][j] + n.frame.len <= MaxBytes[p]

\* So the code has it.
LEMMA UserAdmitted ==
  ASSUME StreamTypes, FrameTypes, NEW p \in Endpoints, NEW j \in Ids, UserAction(p, j)
  PROVE  Admitted(p, j)
<1>1. /\ p \in Peers /\ handle[p][j] \in Handles /\ handle \in [Peers -> [Ids -> Handles]]
      /\ shared[p][j] \in SharedSet /\ Len(chan[p][j]) \in Nat /\ written[p][j] \in Nat
      /\ MaxBytes[p] \in Nat /\ ChanCap \in Nat
  BY EndpointsArePeers, StreamAssumption, EndpointAssumption DEF StreamTypes, FrameTypes
<1>2. ASSUME ~ChanFull(p, j) PROVE Len(chan[p][j]) < ChanCap
  BY <1>1, <1>2 DEF ChanFull
<1>3. ASSUME handle'[p][j].op = Idle PROVE Admitted(p, j)
  BY <1>3 DEF Admitted, Idle, Begun, FrameOps
<1>4. ASSUME handle' = handle PROVE Admitted(p, j)
  BY <1>4 DEF Admitted, Begun, FrameOps
<1>5. CASE \E n \in 1 .. MaxBytes[p] - written[p][j] : poll_write(p, j, n)
  <2>1. PICK n \in 1 .. MaxBytes[p] - written[p][j] : poll_write(p, j, n)
    BY <1>5
  <2>2. PICK k : k = Accepted(p, j, n)
    OBVIOUS
  <2>3. k <= n /\ k \in Int
    <3>1. shared[p][j].fc.send_window \in Int /\ SplitSendSize \in Int /\ n \in Int
      BY <1>1, FlowAssumption, EndpointAssumption DEF SharedSet
    <3> QED
      BY <2>2, <3>1 DEF Accepted, Min2
  <2>4. PICK f : f = with_flags(data(j, written[p][j], k), add_flag(p, j))
    OBVIOUS
  <2>5. f.len = k
    BY <2>4 DEF with_flags, data, Header
  <2>6. handle'[p][j].op = [kind |-> "write", frame |-> f]
    BY <1>1, <2>1, <2>2, <2>4 DEF poll_write, BeginOp, Handles
  <2>7. Len(chan[p][j]) < ChanCap
    BY <1>2, <2>1 DEF poll_write, WriteReady
  <2>8. written[p][j] + k <= MaxBytes[p]
    BY <1>1, <2>3
  <2> QED
    BY <2>5, <2>6, <2>7, <2>8 DEF Admitted
<1>6. CASE WritePark(p, j) \/ \E k \in 0 .. shared[p][j].buf : ReadCopy(p, j, k)
  BY <1>4, <1>6 DEF WritePark, ReadCopy, handleVars
<1>7. CASE \/ WriteSend(p, j) \/ CloseDone(p, j)
           \/ \E k \in 0 .. shared[p][j].buf : ReadUpdateSend(p, j, k)
  <2>1. EndOp(p, j)
    BY <1>7 DEF WriteSend, CloseDone, ReadUpdateSend
  <2>2. handle'[p][j].op = Idle
    BY <1>1, <2>1 DEF EndOp, Handles
  <2> QED
    BY <1>3, <2>2
<1>8. CASE ReadCheck(p, j)
  <2>1. ReadStep(p, j) = "update"
    BY <1>8 DEF ReadCheck
  <2>2. ~ChanFull(p, j)
    BY <2>1 DEF ReadStep
  <2>3. handle'[p][j].op = [kind |-> "check", frame |-> term]
    BY <1>1, <1>8 DEF ReadCheck, Handles
  <2> QED
    BY <1>2, <2>2, <2>3 DEF Admitted
<1>9. CASE \E fast \in BOOLEAN : send_window_update(p, j, fast)
  <2>1. handle[p][j].op.kind = "check"
    BY <1>9 DEF send_window_update
  <2>2. handle'[p][j].op.kind = "read"
    BY <1>1, <1>9 DEF send_window_update, BeginOp, Handles
  <2> QED
    BY <2>1, <2>2 DEF Admitted, Begun
<1>10. CASE poll_close(p, j)
  <2>1. Len(chan[p][j]) < ChanCap
    BY <1>2, <1>10 DEF poll_close
  <2>2. handle'[p][j].op.kind = "close"
    BY <1>1, <1>10 DEF poll_close, Handles
  <2> QED
    BY <2>1, <2>2 DEF Admitted, Begun, FrameOps
<1>11. CASE DropHandle(p, j)
  <2>1. handle'[p][j] = [NoHandle EXCEPT !.life = "dropped"]
    BY <1>1, <1>11 DEF DropHandle
  <2>2. handle'[p][j].op = Idle
    BY <2>1 DEF NoHandle
  <2> QED
    BY <1>3, <2>2
<1> QED
  BY <1>5, <1>6, <1>7, <1>8, <1>9, <1>10, <1>11 DEF UserAction

\* It keeps the room of its channel.
LEMMA UserQueue ==
  ASSUME StreamTypes, FrameTypes, GhostTypes, StreamsOK, NEW p \in Endpoints, NEW j \in Ids,
         UserAction(p, j), NEW id \in Ids, Queue(p, id)
  PROVE  Queue(p, id)'
<1>0. p \in Peers
  BY EndpointsArePeers
<1>1. HandleAction(p, j) /\ Admitted(p, j)
  BY <1>0, UserActs, UserAdmitted
<1>2. HandleMove(p, j) /\ ElseKept(p, j)
  BY <1>1, HandleMoves
<1>3. CASE id # j
  BY <1>2, <1>3 DEF ElseKept, Queue
<1>4. CASE id = j
  <2>1. PICK c \in Seq(Frames) : c = chan[p][j]
    BY <1>0 DEF FrameTypes
  <2>2. PICK o : o = handle[p][j].op
    OBVIOUS
  <2>3. PICK n : n = handle'[p][j].op
    OBVIOUS
  <2>4. PICK d : d = chan'[p][j]
    OBVIOUS
  <2>5. PICK w \in Nat : w = written[p][j]
    BY <1>0 DEF FrameTypes
  <2>6. PICK v : v = written'[p][j]
    OBVIOUS
  <2>7. /\ Len(c) <= ChanCap /\ w <= MaxBytes[p] /\ Len(c) \in Nat /\ ChanCap \in Nat
        /\ o.kind \in Begun => Len(c) < ChanCap
        /\ o.kind = "write" => w + o.frame.len <= MaxBytes[p]
    BY <1>4, <2>1, <2>2, <2>5, EndpointAssumption DEF Queue
  <2>8. /\ n.kind \in Begun /\ o.kind \notin Begun => Len(c) < ChanCap
        /\ n.kind = "close" /\ o.kind = "idle" => Len(c) < ChanCap
        /\ n.kind = "write" /\ o.kind # "write" => w + n.frame.len <= MaxBytes[p]
    BY <1>1, <2>1, <2>2, <2>3, <2>5 DEF Admitted
  <2>9. rx'[p][j] = rx[p][j]
    BY <1>2 DEF ElseKept
  <2>10. SUFFICES /\ Len(d) <= ChanCap /\ v <= MaxBytes[p]
                  /\ n.kind \in Begun => Len(d) < ChanCap
                  /\ n.kind = "write" => v + n.frame.len <= MaxBytes[p]
    BY <1>4, <2>3, <2>4, <2>6, <2>9 DEF Queue
  <2>11. \A f : Len(Append(c, f)) = Len(c) + 1
    OBVIOUS
  <2>12. CASE OpSilent(p, j) /\ ~OpSend(p, j)
    <3>1. d = c /\ v = w
      BY <2>1, <2>4, <2>5, <2>6, <2>12 DEF OpSilent
    <3>2. n.kind = "write" /\ o.kind = "write" => n = o
      BY <1>2, <2>2, <2>3, <2>12 DEF HandleMove, OpWrite, OpGrant, OpClose, OpRest, OpDrop,
           Starts, FrameOps
    <3> QED
      BY <2>7, <2>8, <3>1, <3>2
  <2>13. CASE OpSend(p, j)
    <3>1. n = Idle /\ o.kind \in FrameOps
      BY <1>0, <2>2, <2>3, <2>13 DEF OpSend, StreamTypes, Handles
    <3>2. n.kind \notin Begun /\ n.kind # "write" /\ o.kind \in Begun
      BY <3>1 DEF Idle, Begun, FrameOps
    <3>3. \/ d = c /\ v = w
          \/ /\ d = Append(c, o.frame)
             /\ (v = w + o.frame.len /\ o.kind = "write") \/ v = w
      BY <2>1, <2>2, <2>4, <2>5, <2>6, <2>13 DEF OpSend, Queues, Lapses, FrameOps
    <3> QED
      BY <2>7, <2>11, <3>2, <3>3
  <2>14. CASE \E f : OpClose(p, j, f) /\ written'[p][j] = written[p][j]
    <3>1. PICK f : d = Append(c, f) /\ v = w /\ n.kind = "close" /\ o.kind = "idle"
      BY <2>1, <2>2, <2>3, <2>4, <2>5, <2>6, <2>14 DEF OpClose
    <3> QED
      BY <2>7, <2>8, <2>11, <3>1 DEF Begun, FrameOps
  <2> QED
    BY <1>2, <2>12, <2>13, <2>14 DEF HandleMove
<1> QED
  BY <1>3, <1>4

\* What is the peer's own at the socket and at new_outbound stays as it is.
LEMMA UserPlain ==
  ASSUME NEW p \in Peers, NEW j \in Ids, HandleAction(p, j)
  PROVE  UNCHANGED <<wire, sock, newOut>>
BY DEF HandleAction, poll_write, WritePark, WriteSend, ReadCheck, send_window_update, ReadCopy,
       ReadUpdateSend, poll_close, CloseDone, DropHandle, connVars, sockVars

\* Every step of an endpoint keeps the room in its channels and on the socket.
LEMMA EndpointRoom ==
  ASSUME StreamTypes, FrameTypes, GhostTypes, StreamsOK, Plain, NEW p \in Endpoints,
         EndpointStep(p), \A id \in Ids : Queue(p, id)
  PROVE  Plain' /\ (\A q \in Peers : Carried(q)) /\ \A id \in Ids : Queue(p, id)'
<1>0. p \in Peers
  BY EndpointsArePeers
<1>1. ASSUME Tidy(p)
      PROVE  Plain' /\ (\A q \in Peers : Carried(q)) /\ \A id \in Ids : Queue(p, id)'
  <2>1. \A id \in Ids : Calm(p, id)
    BY <1>1 DEF Tidy
  <2>2. \A id \in Ids : Queue(p, id)'
    BY <1>0, <2>1, CalmQueue
  <2> QED
    BY <1>1, <2>2 DEF Tidy
<1>2. ASSUME NEW j \in Ids, UserAction(p, j)
      PROVE  Plain' /\ (\A q \in Peers : Carried(q)) /\ \A id \in Ids : Queue(p, id)'
  <2>1. HandleAction(p, j)
    BY <1>0, <1>2, UserActs
  <2>2. UNCHANGED <<wire, sock, newOut>>
    BY <1>0, <2>1, UserPlain
  <2>3. \A id \in Ids : Queue(p, id)'
    BY <1>2, UserQueue
  <2> QED
    BY <2>2, <2>3 DEF Plain, Carried
<1>3. CASE Sending(p) \/ \E j \in Ids : on_drop_stream(p, j)
  BY <1>1, <1>3, SendingTidy
<1>4. CASE Ending(p) \/ poll_new_outbound(p)
  BY <1>1, <1>4, EndingTidy
<1>5. CASE on_frame(p)
  BY <1>1, <1>5, FrameTidy
<1> QED
  BY <1>2, <1>3, <1>4, <1>5, UserActions

----------------------------------------------------------------------------
(* The types of the whole session                                           *)

\* One side: its slots, its socket, its channels.
Trim(p) == Slots(p) /\ Roomy(p) /\ \A id \in Ids : Queue(p, id)

\* A peer outside Endpoints has no counter.
ForeignAcc == \A p \in Peers \ Endpoints : acc[p] = 0

TypeInv == BudgetInv /\ GhostTypes /\ Plain /\ ForeignAcc /\ \A p \in Peers : Trim(p)

\* At the beginning there is room everywhere.
LEMMA InitTyped == SessionInit => TypeInv
<1> SUFFICES ASSUME SessionInit PROVE TypeInv
  OBVIOUS
<1>1. BudgetInv
  BY InitRoute, InitAccount DEF BudgetInv
<1>2. /\ conn = [p \in Peers |-> "Active"] /\ acc = [p \in Peers |-> 0]
      /\ handle = [p \in Peers |-> [id \in Ids |-> NoHandle]]
      /\ wire = [p \in Peers |-> <<>>] /\ pendR = [p \in Peers |-> <<>>]
      /\ pendW = [p \in Peers |-> <<>>] /\ pendQ = [p \in Peers |-> <<>>]
      /\ chan = [p \in Peers |-> [id \in Ids |-> <<>>]]
      /\ rcvd = [p \in Peers |-> [id \in Ids |-> 0]]
      /\ written = [p \in Peers |-> [id \in Ids |-> 0]]
      /\ newOut = [p \in Peers |-> FALSE] /\ sock = [p \in Peers |-> "open"]
  BY DEF SessionInit, Init, PerStream
<1>3. NoHandle.op.kind \notin Begun /\ NoHandle.op.kind # "write"
  BY DEF NoHandle, Idle, Begun, FrameOps
<1>4. GhostTypes /\ Plain /\ ForeignAcc
  BY <1>2 DEF GhostTypes, Plain, ForeignAcc
<1>5. ASSUME NEW p \in Peers PROVE Trim(p)
  <2>1. Slots(p)
    BY <1>2 DEF Slots, AtMostOne, Nil
  <2>2. Roomy(p)
    BY <1>2 DEF Roomy
  <2>3. ASSUME NEW id \in Ids PROVE Queue(p, id)
    <3>1. /\ handle[p][id] = NoHandle /\ Len(chan[p][id]) = 0 /\ written[p][id] = 0
          /\ ChanCap \in Nat /\ MaxBytes[p] \in Nat
      BY <1>2, StreamAssumption, EndpointAssumption
    <3> QED
      BY <1>3, <3>1 DEF Queue
  <2> QED
    BY <2>1, <2>2, <2>3 DEF Trim
<1> QED
  BY <1>1, <1>4, <1>5 DEF TypeInv

\* The budget's invariant, step by step.
LEMMA NextBudget ==
  ASSUME BudgetInv, [SessionNext]_allVars
  PROVE  BudgetInv' /\ FreshMove
<1>1. RouteInv'
  BY NextRoute DEF BudgetInv
<1>2. StreamTypes /\ StreamTypes'
  BY <1>1 DEF BudgetInv, RouteInv, SessionInv
<1>3. FreshMove
  BY StepsAreFresh DEF BudgetInv
<1> QED
  BY <1>1, <1>2, <1>3, AccountStays DEF BudgetInv

\* No step of an endpoint counts for somebody else.
LEMMA ForeignAccStays ==
  ASSUME FreshMove, ForeignAcc PROVE ForeignAcc'
<1> SUFFICES ASSUME NEW q \in Peers \ Endpoints PROVE acc'[q] = 0
  BY DEF ForeignAcc
<1>1. acc[q] = 0
  BY DEF ForeignAcc
<1>2. ASSUME NEW p \in Endpoints, Apart(p) PROVE acc'[q] = 0
  BY <1>1, <1>2 DEF Apart
<1>3. CASE Steady
  BY <1>1, <1>3 DEF Steady
<1>4. ASSUME NEW p \in Endpoints, WholeStep(p) PROVE acc'[q] = 0
  BY <1>2, <1>4 DEF WholeStep
<1>5. ASSUME NEW p \in Endpoints, NEW id \in Ids, StreamStep(p, id) \/ Enters(p, id)
      PROVE  acc'[q] = 0
  BY <1>2, <1>5 DEF StreamStep, Enters, OneStream
<1> QED
  BY <1>3, <1>4, <1>5 DEF FreshMove

\* A step of an endpoint keeps both sides trim.
LEMMA EndpointTrim ==
  ASSUME TypeInv, NEW p \in Endpoints, EndpointStep(p)
  PROVE  GhostTypes' /\ Plain' /\ \A q \in Peers : Trim(q)'
<1>1. /\ p \in Peers /\ StreamTypes /\ FrameTypes /\ GhostTypes /\ StreamsOK /\ Plain
      /\ OwnJourney(p) /\ \A q \in Peers : Trim(q)
  BY EndpointsArePeers DEF TypeInv, BudgetInv, RouteInv, SessionInv, Journey
<1>2. GhostTypes'
  BY <1>1, GhostStay
<1>3. \A q \in Peers : /\ Slots(q) /\ Roomy(q)
                       /\ \A id \in Ids : Queue(q, id)
  BY <1>1 DEF Trim
<1>4. Plain' /\ (\A q \in Peers : Carried(q)) /\ \A id \in Ids : Queue(p, id)'
  BY <1>1, <1>3, EndpointRoom
<1>5. \A q \in Peers : Roomy(q)'
  BY <1>1, <1>3, <1>4, RoomStays
<1>6. Slots(p)'
  BY <1>1, <1>3, SlotsStay
<1>7. ASSUME NEW q \in Peers, q # p PROVE Slots(q)' /\ \A id \in Ids : Queue(q, id)'
  <2>1. StreamsOK'
    BY <1>1, EndpointStepKeeps, StreamsStayOK
  <2>2. KeepsOther(p)
    BY <1>1, <2>1, EndpointJourney
  <2>3. KeptState(q)
    BY <1>1, <1>7, EndpointKeeps
  <2>4. /\ conn'[q] = conn[q] /\ pendR'[q] = pendR[q] /\ pendW'[q] = pendW[q]
        /\ pendQ'[q] = pendQ[q] /\ chan'[q] = chan[q] /\ handle'[q] = handle[q]
        /\ rx'[q] = rx[q] /\ written'[q] = written[q]
    BY <1>7, <2>2, <2>3 DEF KeepsOther, KeptState
  <2>5. Slots(q)'
    BY <1>3, <2>4 DEF Slots
  <2>6. \A id \in Ids : Queue(q, id)'
    BY <1>3, <2>4 DEF Queue
  <2> QED
    BY <2>5, <2>6
<1> QED
  BY <1>2, <1>4, <1>5, <1>6, <1>7 DEF Trim

\* A foreign peer sends when there is room.
LEMMA ForeignTrim ==
  ASSUME TypeInv, ForeignSend \/ ForeignReceive \/ UNCHANGED allVars
  PROVE  GhostTypes' /\ Plain' /\ \A q \in Peers : Trim(q)'
<1>1. FrameTypes /\ GhostTypes /\ Plain /\ \A q \in Peers : Slots(q) /\ Roomy(q)
                                                           /\ \A id \in Ids : Queue(q, id)
  BY DEF TypeInv, BudgetInv, RouteInv, SessionInv, Trim
<1>2. UNCHANGED <<conn, newOut, rx, pendR, pendW, pendQ, sock, handle, chan, written, rcvd>>
  BY DEF ForeignSend, ForeignReceive, allVars, vars, connVars, pendVars, sockVars, handleVars,
         ghostVars
<1>3. \A q \in Peers : Carried(q)
  <2>1. CASE ForeignSend
    <3>1. ForeignFrames \subseteq Frames
      BY SessionAssumption DEF Frames
    <3>2. PICK p \in Peers, f \in Frames : SockReady(p) /\ SendFrame(p, f)
      BY <2>1, <3>1 DEF ForeignSend
    <3> QED
      BY <1>1, <3>2 DEF SockReady, SendFrame, Carried, FrameTypes
  <2>2. CASE ForeignReceive
    <3>1. PICK p \in Peers : wire[Other(p)] # <<>> /\ wire' = [wire EXCEPT ![Other(p)] = Tail(@)]
      BY <2>2 DEF ForeignReceive
    <3>2. Other(p) \in Peers
      BY OtherPeer
    <3> QED
      BY <1>1, <3>1, <3>2 DEF Carried, FrameTypes
  <2>3. CASE UNCHANGED allVars
    BY <2>3 DEF allVars, vars, sockVars, Carried
  <2> QED
    BY <2>1, <2>2, <2>3
<1>4. \A q \in Peers : Roomy(q)'
  BY <1>1, <1>3, RoomStays
<1>5. ASSUME NEW q \in Peers PROVE Slots(q)' /\ \A id \in Ids : Queue(q, id)'
  <2>1. Slots(q)'
    BY <1>1, <1>2 DEF Slots
  <2>2. \A id \in Ids : Queue(q, id)'
    BY <1>1, <1>2 DEF Queue
  <2> QED
    BY <2>1, <2>2
<1>6. GhostTypes' /\ Plain'
  BY <1>1, <1>2 DEF GhostTypes, Plain
<1> QED
  BY <1>4, <1>5, <1>6 DEF Trim

\* Every step keeps the types.
LEMMA NextTyped == TypeInv /\ [SessionNext]_allVars => TypeInv'
<1> SUFFICES ASSUME TypeInv, [SessionNext]_allVars PROVE TypeInv'
  OBVIOUS
<1>1. BudgetInv' /\ FreshMove
  BY NextBudget DEF TypeInv
<1>2. ForeignAcc'
  BY <1>1, ForeignAccStays DEF TypeInv
<1>3. GhostTypes' /\ Plain' /\ \A q \in Peers : Trim(q)'
  BY EndpointTrim, ForeignTrim DEF SessionNext
<1> QED
  BY <1>1, <1>2, <1>3 DEF TypeInv

\* What the invariant says of one peer.
LEMMA TypedPeer ==
  ASSUME TypeInv, NEW p \in Peers
  PROVE  /\ wire[p] # <<>> => SizeOf(Front(wire[p])) <= SockCap
         /\ Len(pendR[p]) <= 1 /\ Len(pendW[p]) <= 1
         /\ \A i \in DOMAIN Outgoing(p) : Outgoing(p)[i] \in FrameSet
         /\ acc[p] \in 0 .. GrowthBudget
<1>1. /\ StreamTypes /\ FrameTypes /\ Slots(p) /\ Roomy(p) /\ AccExact /\ ForeignAcc
  BY DEF TypeInv, BudgetInv, RouteInv, SessionInv, Trim
<1>2. ASSUME NEW s, AtMostOne(s) PROVE Len(s) <= 1
  <2>1. s = <<>> \/ \E f \in Frames : s = <<f>>
    BY <1>2 DEF AtMostOne, Nil, One
  <2>2. ASSUME NEW f \in Frames, s = <<f>> PROVE Len(s) <= 1
    BY <2>2
  <2>3. CASE s = <<>>
    BY <2>3
  <2> QED
    BY <2>1, <2>2, <2>3
<1>3. Len(pendR[p]) <= 1 /\ Len(pendW[p]) <= 1
  BY <1>1, <1>2 DEF Slots
<1>4. Frames \subseteq FrameSet
  <2>1. 0 .. NumIds \subseteq 0 .. MAX_ID
    BY EndpointAssumption
  <2> QED
    BY <2>1 DEF Frames, FrameSet
<1>5. \A i \in DOMAIN Outgoing(p) : Outgoing(p)[i] \in Frames
  <2>1. Outgoing(p) \in Seq(Frames)
    BY <1>1 DEF Outgoing, FrameTypes
  <2> QED
    BY <2>1
<1>6. acc[p] \in 0 .. GrowthBudget
  <2>1. acc[p] \in Int /\ acc[p] <= GrowthBudget /\ GrowthBudget \in Int
    BY <1>1, FlowAssumption DEF StreamTypes, GrowthBudget
  <2>2. acc[p] >= 0
    <3>1. CASE p \in Endpoints
      <4>1. shared[p] \in [Ids -> SharedSet]
        BY <1>1 DEF StreamTypes
      <4>2. ExcessOf(shared[p], Ids) \in Nat
        BY <4>1, ExcessNat
      <4> QED
        BY <1>1, <3>1, <4>2 DEF AccExact
    <3>2. CASE p \notin Endpoints
      BY <1>1, <3>2 DEF ForeignAcc
    <3> QED
      BY <3>1, <3>2
  <2> QED
    BY <2>1, <2>2
<1>7. wire[p] # <<>> => SizeOf(Front(wire[p])) <= SockCap
  BY <1>1 DEF Roomy
<1> QED
  BY <1>3, <1>4, <1>5, <1>6, <1>7

\* And of one stream.
LEMMA TypedStream ==
  ASSUME TypeInv, NEW p \in Peers, NEW id \in Ids
  PROVE  /\ shared[p][id] \in SharedSet
         /\ rx[p][id] \in {"none", "open", "closed", "done"}
         /\ handle[p][id].life \in {"none", "live", "dropped"}
         /\ Len(chan[p][id]) <= ChanCap
         /\ handle[p][id].op.frame \in FrameSet
         /\ written[p][id] \in 0 .. MaxBytes[p] /\ rcvd[p][id] \in Nat
<1>1. StreamTypes /\ FrameTypes /\ GhostTypes /\ Queue(p, id)
  BY DEF TypeInv, BudgetInv, RouteInv, SessionInv, Trim
<1>2. shared[p][id] \in SharedSet /\ rx[p][id] \in RxStates /\ handle[p][id] \in Handles
      /\ written[p][id] \in Nat /\ rcvd[p][id] \in Nat
  BY <1>1 DEF StreamTypes, FrameTypes, GhostTypes
<1>3. Frames \subseteq FrameSet
  <2>1. 0 .. NumIds \subseteq 0 .. MAX_ID
    BY EndpointAssumption
  <2> QED
    BY <2>1 DEF Frames, FrameSet
<1>4. handle[p][id].life \in {"none", "live", "dropped"} /\ handle[p][id].op.frame \in Frames
  BY <1>2 DEF Handles
<1>5. written[p][id] \in 0 .. MaxBytes[p] /\ Len(chan[p][id]) <= ChanCap
  <2>1. MaxBytes[p] \in Nat
    BY StreamAssumption
  <2> QED
    BY <1>1, <1>2, <2>1 DEF Queue
<1> QED
  BY <1>2, <1>3, <1>4, <1>5 DEF RxStates

\* The session is type-correct for any number of streams, any window, any
\* socket and whatever a foreign peer sends: no window leaves the range of a
\* u32, a pending slot holds one frame, no command is sent to a full channel,
\* and no frame to a full socket (flow_control.rs, poll_write, poll_close,
\* send_window_update, Active::poll).
THEOREM SessionTyped == Spec => []TypeOK
<1>1. TypeInv => TypeOK
  <2> SUFFICES ASSUME TypeInv PROVE TypeOK
    OBVIOUS
  <2>1. StreamTypes /\ FrameTypes /\ Plain
    BY DEF TypeInv, BudgetInv, RouteInv, SessionInv
  <2>2. \A p \in Peers :
          /\ wire[p] # <<>> => SizeOf(Front(wire[p])) <= SockCap
          /\ Len(pendR[p]) <= 1 /\ Len(pendW[p]) <= 1
          /\ \A i \in DOMAIN Outgoing(p) : Outgoing(p)[i] \in FrameSet
          /\ acc[p] \in 0 .. GrowthBudget
    BY TypedPeer
  <2>3. \A p \in Peers, id \in Ids :
          /\ shared[p][id] \in SharedSet
          /\ rx[p][id] \in {"none", "open", "closed", "done"}
          /\ handle[p][id].life \in {"none", "live", "dropped"}
          /\ Len(chan[p][id]) <= ChanCap
          /\ handle[p][id].op.frame \in FrameSet
          /\ written[p][id] \in 0 .. MaxBytes[p] /\ rcvd[p][id] \in Nat
    BY TypedStream
  <2>4. \A p \in Peers : rtt[p].st \in {"due", "idle", "await"} /\ rtt[p].id \in 0 .. MaxPings[p]
    <3> SUFFICES ASSUME NEW p \in Peers
                 PROVE  rtt[p].st \in {"due", "idle", "await"} /\ rtt[p].id \in 0 .. MaxPings[p]
      OBVIOUS
    <3>1. rtt[p] \in RttStates /\ rtt[p].id <= MaxPings[p]
      BY <2>1 DEF FrameTypes
    <3>2. MaxPings[p] \in Int /\ U32_MAX \in Int
      BY EndpointAssumption, FlowAssumption
    <3> QED
      BY <3>1, <3>2 DEF RttStates
  <2>5. acc \in [Peers -> 0 .. GrowthBudget]
    BY <2>1, <2>2 DEF StreamTypes
  <2>6. /\ conn \in [Peers -> ConnStates] /\ sock \in [Peers -> {"open", "closed"}]
        /\ nextId \in [Peers -> 1 .. MAX_ID + 1] /\ newOut \in [Peers -> BOOLEAN]
        /\ entry \in [Peers -> SUBSET Ids]
    BY <2>1 DEF StreamTypes, FrameTypes, Plain
  <2> QED
    BY <2>2, <2>3, <2>4, <2>5, <2>6 DEF TypeOK
<1> QED
  BY <1>1, InitTyped, NextTyped, PTL DEF Spec

============================================================================
