------------------------- MODULE FlowControlProofs -------------------------
(* The flow control, for windows of every size and any number of streams:   *)
(* the credit loop of one stream, the budget the streams share, and both    *)
(* together.                                                                *)
(*                                                                          *)
(* NeverBroken is not inductive.  It rests on Conservation (what is under   *)
(* way is part of the receiver's window, so it fits) and on WindowBound     *)
(* (the window is at most the maximum, which is a u32).                     *)
(*                                                                          *)
(* NoUnderflow speaks of one stream and the counter; what relates them is   *)
(* that the counter is the sum over all streams, TotalIsSum.  A step at     *)
(* stream j shifts every partial sum from j on by the same amount, which    *)
(* gives the new partial sums explicitly, without induction over them.      *)
(*                                                                          *)
(* Each step of FlowControl is a step of CreditLoop and a step of           *)
(* WindowBudget, or leaves the one or the other alone, so both of their     *)
(* invariants carry over.  MemoryAccounted relates them: it needs that the  *)
(* maximum the receiver reckons with is the window the budget has on its    *)
(* books, MaxIsBooked, which no half can say alone.                         *)
EXTENDS FlowControl, TLAPS

----------------------------------------------------------------------------
(* The credit loop                                                          *)

\* What the receiver hands back is exactly what window and buffer leave free,
\* so a grant fills the maximum up (next_window_update's saturating_sub never
\* saturates).
LEMMA ConsumedFillsUp ==
  ASSUME NEW m \in Nat, NEW r \in Nat, NEW b \in Nat, r + b <= m
  PROVE  /\ Consumed(m, r, b) \in Nat
         /\ r + Consumed(m, r, b) + b = m
BY DEF Consumed, saturating_sub

IndInv == LoopInv /\ NeverBroken

\* A stream that does not exist satisfies the invariant.
LEMMA InitIndInv == LoopInit => IndInv
BY FlowAssumption
   DEF LoopInit, IndInv, LoopInv, LoopTypeOK, Conservation, WindowBound,
       NeverBroken, Off

\* Every step of sender or receiver keeps the invariant.
LEMMA NextIndInv == IndInv /\ [LoopNext]_loop => IndInv'
<1> SUFFICES ASSUME IndInv, [LoopNext]_loop PROVE IndInv'
  OBVIOUS
<1> USE FlowAssumption DEF IndInv, LoopInv, LoopTypeOK, Conservation, WindowBound,
        NeverBroken, Off
<1>1. CASE Start
  BY <1>1 DEF Start, ResetTo
<1>2. CASE Stop
  BY <1>2 DEF Stop, ResetTo
<1>3. CASE Spend
  BY <1>3 DEF Spend
<1>4. CASE Arrive
  <2>1. PICK k \in 1 .. flight : Arrive!(k)
    BY <1>4 DEF Arrive
  <2>2. k <= recv
    \* Data under way is part of the receiver's window.
    OBVIOUS
  <2> QED
    BY <2>1, <2>2
<1>5. CASE Consume
  BY <1>5 DEF Consume
<1>6. CASE Grant
  <2>1. PICK m \in max .. U32_MAX : Grant!(m)
    BY <1>6 DEF Grant
  <2> DEFINE c == Consumed(m, recv, buf)
  <2>2. c \in Nat /\ recv + c + buf = m
    <3>1. m \in Nat /\ recv + buf <= m
      OBVIOUS
    <3> QED
      BY <3>1, ConsumedFillsUp
  <2>3. /\ max' = m /\ recv' = recv + c /\ credit' = credit + c /\ stage = "on"
        /\ UNCHANGED <<stage, send, flight, buf, verdict>>
    BY <2>1
  <2> HIDE DEF c
  <2> QED
    BY <2>2, <2>3
<1>7. CASE Refill
  <2>1. PICK c \in 1 .. credit : Refill!(c)
    BY <1>7 DEF Refill
  <2>2. send + c <= U32_MAX
    \* Credit under way is part of the receiver's window too.
    OBVIOUS
  <2> QED
    BY <2>1, <2>2
<1>8. CASE UNCHANGED loop
  BY <1>8 DEF loop
<1> QED
  BY <1>1, <1>2, <1>3, <1>4, <1>5, <1>6, <1>7, <1>8 DEF LoopNext

\* Window arithmetic never leaves u32, no credit is lost or invented, and the
\* receive buffer stays within the window that was granted.
THEOREM LoopSafe == LoopSpec => []LoopInv
<1>1. IndInv => LoopInv
  BY DEF IndInv
<1> QED
  BY <1>1, InitIndInv, NextIndInv, PTL DEF LoopSpec

\* Two peers that both run this flow control never break the protocol by it:
\* neither "frame body larger than window" nor "could not increase the send
\* window" is ever reached.
THEOREM LoopNeverBroken == LoopSpec => []NeverBroken
<1>1. IndInv => NeverBroken
  BY DEF IndInv
<1> QED
  BY <1>1, InitIndInv, NextIndInv, PTL DEF LoopSpec

----------------------------------------------------------------------------
(* The shared budget                                                        *)

BudgetInv == BudgetTypeOK /\ TotalIsSum /\ total <= GrowthBudget

\* The budget is a natural number.
LEMMA BudgetNat == GrowthBudget \in Nat
BY FlowAssumption DEF GrowthBudget, ConfigAccepted

\* Growing never shrinks a window, stays within u32 and within the budget.
LEMMA GrownBounds ==
  ASSUME NEW w \in DEFAULT_CREDIT .. U32_MAX, NEW t \in 0 .. GrowthBudget
  PROVE  /\ GrownMax(w, t) \in w .. U32_MAX
         /\ t + (GrownMax(w, t) - w) <= GrowthBudget
BY FlowAssumption, BudgetNat DEF GrownMax, Min2

\* Partial sums survive a change of one stream's share by d.
LEMMA ShiftedSum ==
  ASSUME BudgetTypeOK, TotalIsSum, NEW j \in Slots, NEW d \in Int,
         window' \in [Slots -> {0} \cup (DEFAULT_CREDIT .. U32_MAX)],
         Beyond(j)' = Beyond(j) + d, Beyond(j)' \in Nat,
         \A i \in Slots \ {j} : Beyond(i)' = Beyond(i),
         total' = total + d
  PROVE  TotalIsSum' /\ total' \in Nat
<1> USE SlotAssumption DEF Slots
<1>1. \A i \in Slots : Beyond(i) \in Int
  <2> TAKE i \in Slots
  <2>1. DEFAULT_CREDIT \in Nat /\ U32_MAX \in Nat
    BY FlowAssumption, Zenon
  <2>2. window[i] \in {0} \cup (DEFAULT_CREDIT .. U32_MAX)
    BY DEF BudgetTypeOK
  <2>3. window[i] \in Int
    BY <2>1, <2>2
  <2> QED
    BY <2>1, <2>3 DEF Beyond
<1>2. PICK s \in [0 .. NumSlots -> 0 .. total] :
        IsPartialSum(s) /\ s[NumSlots] = total
  BY DEF TotalIsSum
<1>3. s \in [0 .. NumSlots -> Nat] /\ IsPartialSum(s) /\ s[NumSlots] = total
  BY <1>2 DEF BudgetTypeOK
<1> DEFINE r == [i \in 0 .. NumSlots |-> IF i < j THEN s[i] ELSE s[i] + d]
<1>4. \A i \in j .. NumSlots : s[j - 1] + Beyond(j) <= s[i]
  BY <1>3, <1>1 DEF IsPartialSum
<1>5. r \in [0 .. NumSlots -> Nat]
  <2> SUFFICES ASSUME NEW i \in 0 .. NumSlots PROVE r[i] \in Nat
    OBVIOUS
  <2>1. CASE i < j
    BY <2>1
  <2>2. CASE i >= j
    <3>1. s[j - 1] \in Nat /\ s[i] \in Nat
      BY <1>3
    <3>2. s[j - 1] + Beyond(j) <= s[i]
      BY <1>4, <2>2
    <3>3. Beyond(j) \in Int
      BY <1>1
    <3>4. s[i] + d \in Nat
      BY <3>1, <3>2, <3>3
    <3>5. r[i] = s[i] + d
      BY <2>2
    <3> QED
      BY <3>4, <3>5
  <2> QED
    BY <2>1, <2>2
<1>6. r[0] = 0
  BY <1>3 DEF IsPartialSum
<1>7. ASSUME NEW i \in Slots PROVE r[i] = r[i - 1] + Beyond(i)'
  <2>1. s[i] = s[i - 1] + Beyond(i)
    BY <1>3 DEF IsPartialSum
  <2>2. s[i] \in Nat /\ s[i - 1] \in Nat
    OBVIOUS
  <2>3. CASE i = j
    BY <2>1, <2>2, <2>3, <1>1
  <2>4. CASE i < j
    BY <2>1, <2>2, <2>4, <1>1
  <2>5. CASE i > j
    <3>1. r[i] = s[i] + d /\ r[i - 1] = s[i - 1] + d
      BY <2>5
    <3>2. Beyond(i)' = Beyond(i) /\ Beyond(i) \in Int
      BY <2>5, <1>1
    <3> HIDE DEF r
    <3> QED
      BY <2>1, <2>2, <3>1, <3>2
  <2> QED
    BY <2>3, <2>4, <2>5
<1>8. ASSUME NEW i \in 0 .. NumSlots, NEW k \in 0 .. NumSlots, i <= k
      PROVE  r[i] <= r[k]
  <2>1. s[i] <= s[k] /\ s[i] \in Nat /\ s[k] \in Nat
    BY <1>3, <1>8 DEF IsPartialSum
  <2>2. CASE i < j /\ k >= j
    <3>1. s[i] <= s[j - 1] /\ s[j - 1] \in Nat
      BY <2>2, <1>3 DEF IsPartialSum
    <3>2. s[j - 1] + Beyond(j) <= s[k]
      BY <2>2, <1>4
    <3>3. r[i] = s[i] /\ r[k] = s[k] + d
      BY <2>2
    <3>4. Beyond(j) + d >= 0 /\ Beyond(j) \in Int
      BY <1>1
    <3> HIDE DEF r
    <3>5. PICK x \in Nat, y \in Nat, z \in Nat, b \in Int :
            x = s[i] /\ y = s[j - 1] /\ z = s[k] /\ b = Beyond(j)
      BY <2>1, <3>1, <3>4
    <3>6. x <= y /\ y + b <= z /\ b + d >= 0
      BY <3>1, <3>2, <3>4, <3>5
    <3>7. x <= z + d
      BY ONLY <3>5, <3>6, d \in Int
    <3> QED
      BY <3>3, <3>5, <3>7
  <2>3. CASE ~(i < j /\ k >= j)
    BY <2>1, <2>3, <1>8
  <2> QED
    BY <2>2, <2>3
<1>9. r[NumSlots] = total'
  BY <1>3
<1>10. PICK q \in [0 .. NumSlots -> Nat] : q = r
  BY <1>5
<1>11. /\ q[0] = 0 /\ q[NumSlots] = total'
       /\ \A i \in Slots : q[i] = q[i - 1] + Beyond(i)'
       /\ \A i, k \in 0 .. NumSlots : i <= k => q[i] <= q[k]
  <2> HIDE DEF r
  <2> QED
    BY <1>6, <1>7, <1>8, <1>9, <1>10
<1>12. IsPartialSum(q)'
  BY <1>11 DEF IsPartialSum
<1>13. total' \in Nat
  BY <1>11
<1>14. q \in [0 .. NumSlots -> 0 .. total']
  <2>1. ASSUME NEW i \in 0 .. NumSlots PROVE q[i] \in 0 .. total'
    <3>1. NumSlots \in 0 .. NumSlots /\ i <= NumSlots /\ q[i] \in Nat
      OBVIOUS
    <3>2. q[i] <= total'
      BY <3>1, <1>11
    <3> QED
      BY <3>1, <3>2, <1>13
  <2> QED
    BY <2>1
<1> QED
  BY <1>11, <1>12, <1>13, <1>14 DEF TotalIsSum

\* No stream, no partial sums.
LEMMA InitBudget == BudgetInit => BudgetInv
<1> SUFFICES ASSUME BudgetInit PROVE BudgetInv
  OBVIOUS
<1>1. BudgetTypeOK
  BY DEF BudgetInit, BudgetTypeOK
<1> DEFINE s == [i \in 0 .. NumSlots |-> 0]
<1>2. s \in [0 .. NumSlots -> 0 .. total] /\ IsPartialSum(s) /\ s[NumSlots] = total
  BY SlotAssumption DEF BudgetInit, IsPartialSum, Beyond, Slots
<1>3. TotalIsSum
  BY <1>2 DEF TotalIsSum
<1> QED
  BY <1>1, <1>3, BudgetNat DEF BudgetInv, BudgetInit

\* Every step of a FlowController keeps the invariant.
LEMMA NextBudget == BudgetInv /\ [BudgetNext]_budget => BudgetInv'
<1> SUFFICES ASSUME BudgetInv, [BudgetNext]_budget PROVE BudgetInv'
  OBVIOUS
<1> USE FlowAssumption, BudgetNat
<1>0. BudgetTypeOK /\ TotalIsSum /\ total <= GrowthBudget /\ total \in Nat
  BY DEF BudgetInv, BudgetTypeOK
<1>1. ASSUME NEW j \in Slots, Create(j) PROVE BudgetInv'
  <2>1. /\ window' \in [Slots -> {0} \cup (DEFAULT_CREDIT .. U32_MAX)]
        /\ Beyond(j) = 0 /\ Beyond(j)' = 0 /\ total' = total + 0
        /\ \A i \in Slots \ {j} : Beyond(i)' = Beyond(i)
    BY <1>0, <1>1 DEF BudgetTypeOK, Create, Beyond
  <2>2. TotalIsSum' /\ total' \in Nat
    BY <1>0, <2>1, ShiftedSum
  <2> QED
    BY <1>0, <2>1, <2>2 DEF BudgetInv, BudgetTypeOK
<1>2. ASSUME NEW j \in Slots, Grow(j) PROVE BudgetInv'
  <2> DEFINE m == GrownMax(window[j], total)
  <2>1. window[j] \in DEFAULT_CREDIT .. U32_MAX /\ window[j] > 0
    BY <1>0, <1>2 DEF BudgetTypeOK, Grow
  <2>2. m \in window[j] .. U32_MAX /\ total + (m - window[j]) <= GrowthBudget
    BY <1>0, <2>1, GrownBounds
  <2>3. window' = [window EXCEPT ![j] = m] /\ total' = total + (m - window[j])
    BY <1>2 DEF Grow
  <2> HIDE DEF m
  <2>4. /\ window' \in [Slots -> {0} \cup (DEFAULT_CREDIT .. U32_MAX)]
        /\ m - window[j] \in Int
        /\ Beyond(j)' = Beyond(j) + (m - window[j]) /\ Beyond(j)' \in Nat
        /\ \A i \in Slots \ {j} : Beyond(i)' = Beyond(i)
    BY <1>0, <2>1, <2>2, <2>3 DEF BudgetTypeOK, Beyond
  <2>5. TotalIsSum' /\ total' \in Nat
    BY <1>0, <2>3, <2>4, ShiftedSum
  <2> QED
    BY <2>2, <2>3, <2>4, <2>5 DEF BudgetInv, BudgetTypeOK
<1>3. ASSUME NEW j \in Slots, Release(j) PROVE BudgetInv'
  <2> DEFINE d == DEFAULT_CREDIT - window[j]
  <2>1. window[j] \in DEFAULT_CREDIT .. U32_MAX /\ window[j] > 0
    BY <1>0, <1>3 DEF BudgetTypeOK, Release
  <2>2. window' = [window EXCEPT ![j] = 0] /\ total' = total + d /\ d \in Int /\ d <= 0
    BY <1>0, <1>3, <2>1 DEF Release
  <2>3. /\ window' \in [Slots -> {0} \cup (DEFAULT_CREDIT .. U32_MAX)]
        /\ Beyond(j)' = Beyond(j) + d /\ Beyond(j)' \in Nat
        /\ \A i \in Slots \ {j} : Beyond(i)' = Beyond(i)
    BY <1>0, <2>1, <2>2 DEF BudgetTypeOK, Beyond
  <2> HIDE DEF d
  <2>4. TotalIsSum' /\ total' \in Nat
    BY <1>0, <2>2, <2>3, ShiftedSum
  <2> QED
    BY <1>0, <2>2, <2>3, <2>4 DEF BudgetInv, BudgetTypeOK
<1>4. CASE UNCHANGED budget
  BY <1>4 DEF budget, BudgetInv, BudgetTypeOK, TotalIsSum, IsPartialSum, Beyond
<1> QED
  BY <1>1, <1>2, <1>3, <1>4 DEF BudgetNext

\* A sum bounds its parts.
LEMMA SharesBounded == BudgetInv => NoUnderflow
<1> SUFFICES ASSUME BudgetInv, NEW j \in Slots PROVE Beyond(j) <= total
  BY DEF BudgetInv, NoUnderflow
<1>1. PICK s \in [0 .. NumSlots -> 0 .. total] :
        IsPartialSum(s) /\ s[NumSlots] = total
  BY DEF BudgetInv, TotalIsSum
<1>2. s \in [0 .. NumSlots -> Nat] /\ IsPartialSum(s) /\ s[NumSlots] = total
  BY <1>1 DEF BudgetInv, BudgetTypeOK
<1>3. Beyond(j) \in Int
  BY FlowAssumption DEF BudgetInv, BudgetTypeOK, Beyond
<1>4. s[j] = s[j - 1] + Beyond(j) /\ s[j - 1] \in Nat /\ s[j] \in Nat
  BY <1>2, SlotAssumption DEF IsPartialSum, Slots
<1>5. s[j] <= total
  BY <1>2, SlotAssumption DEF IsPartialSum, Slots
<1> QED
  BY <1>3, <1>4, <1>5, <1>2, SlotAssumption

\* The connection's counter is the sum of the streams' growth, for any number
\* of streams created, grown and dropped in any order.
THEOREM TotalSafe == BudgetSpec => []TotalIsSum
<1>1. BudgetInv => TotalIsSum
  BY DEF BudgetInv
<1> QED
  BY <1>1, InitBudget, NextBudget, PTL DEF BudgetSpec

\* No subtraction of next_window_update or Drop underflows, and no assertion on
\* the maximum fails.
THEOREM BudgetSafe == BudgetSpec => []NoUnderflow
<1> QED
  BY SharesBounded, InitBudget, NextBudget, PTL DEF BudgetSpec

----------------------------------------------------------------------------
(* Both together                                                            *)

\* What the receiver of stream 1 may hold is what its connection booked.
MaxIsBooked == stage = "on" => max = window[1]

FlowInv == IndInv /\ BudgetInv /\ MaxIsBooked

\* The initial states of the composition are those of its halves.
LEMMA InitFlowInv == FlowInit => FlowInv
BY InitIndInv, InitBudget
   DEF FlowInit, FlowInv, LoopInit, Off, MaxIsBooked

\* Stream 1 exists, so its steps are steps of the shared budget.
LEMMA FirstSlot == 1 \in Slots
BY StreamAssumption, SlotAssumption DEF Slots

\* What FlowControl does to the windows of stream 1 is what CreditLoop does.
LEMMA FlowStepsLoop == [FlowNext]_flow => [LoopNext]_loop
<1> SUFFICES ASSUME [FlowNext]_flow PROVE LoopNext \/ UNCHANGED loop
  OBVIOUS
<1>1. CASE StreamStarts
  BY <1>1 DEF StreamStarts, LoopNext
<1>2. CASE StreamStops
  BY <1>2 DEF StreamStops, LoopNext
<1>3. CASE Update
  BY <1>3 DEF Update, LoopNext
<1>4. CASE Lingers
  BY <1>4 DEF Lingers
<1>5. CASE OtherStreams
  BY <1>5 DEF OtherStreams
<1>6. CASE (Spend \/ Arrive \/ Consume \/ Refill) /\ UNCHANGED budget
  BY <1>6 DEF LoopNext
<1>7. CASE UNCHANGED flow
  BY <1>7 DEF flow
<1> QED
  BY <1>1, <1>2, <1>3, <1>4, <1>5, <1>6, <1>7 DEF FlowNext

\* What FlowControl does to the connection's account is what WindowBudget does.
LEMMA FlowStepsBudget == [FlowNext]_flow => [BudgetNext]_budget
<1> SUFFICES ASSUME [FlowNext]_flow PROVE BudgetNext \/ UNCHANGED budget
  OBVIOUS
<1>1. CASE StreamStarts
  BY <1>1, FirstSlot DEF StreamStarts, BudgetNext
<1>2. CASE StreamStops
  BY <1>2 DEF StreamStops
<1>3. CASE Update
  BY <1>3, FirstSlot DEF Update, BudgetNext
<1>4. CASE Lingers
  BY <1>4, FirstSlot DEF Lingers, BudgetNext
<1>5. CASE OtherStreams
  BY <1>5 DEF OtherStreams, BudgetNext
<1>6. CASE (Spend \/ Arrive \/ Consume \/ Refill) /\ UNCHANGED budget
  BY <1>6
<1>7. CASE UNCHANGED flow
  BY <1>7 DEF flow
<1> QED
  BY <1>1, <1>2, <1>3, <1>4, <1>5, <1>6, <1>7 DEF FlowNext

\* The receiver's maximum and the booked window change in the same step.
LEMMA NextMaxIsBooked ==
  BudgetTypeOK /\ MaxIsBooked /\ [FlowNext]_flow => MaxIsBooked'
<1> SUFFICES ASSUME BudgetTypeOK, MaxIsBooked, [FlowNext]_flow, (stage = "on")'
             PROVE  max' = window'[1]
  BY DEF MaxIsBooked
<1>1. CASE StreamStarts
  BY <1>1, FirstSlot DEF StreamStarts, Start, ResetTo, Create, BudgetTypeOK
<1>2. CASE StreamStops
  BY <1>2 DEF StreamStops, Stop
<1>3. CASE Update
  <2>1. stage = "on"
    BY <1>3 DEF Update, Grant
  <2> QED
    BY <1>3, <2>1 DEF Update, MaxIsBooked, budget
<1>4. CASE Lingers
  BY <1>4 DEF Lingers, loop
<1>5. CASE OtherStreams
  <2>1. PICK i \in Slots \ {1} : Create(i) \/ Grow(i) \/ Release(i)
    BY <1>5 DEF OtherStreams
  <2>2. window'[1] = window[1]
    BY <2>1, FirstSlot DEF Create, Grow, Release, BudgetTypeOK
  <2> QED
    BY <1>5, <2>2 DEF OtherStreams, loop, MaxIsBooked
<1>6. CASE (Spend \/ Arrive \/ Consume \/ Refill) /\ UNCHANGED budget
  BY <1>6 DEF Spend, Arrive, Consume, Refill, budget, MaxIsBooked
<1>7. CASE UNCHANGED flow
  BY <1>7 DEF flow, loop, budget, MaxIsBooked
<1> QED
  BY <1>1, <1>2, <1>3, <1>4, <1>5, <1>6, <1>7 DEF FlowNext

\* Every step keeps the invariant of the composition.
LEMMA NextFlowInv == FlowInv /\ [FlowNext]_flow => FlowInv'
BY NextIndInv, NextBudget, FlowStepsLoop, FlowStepsBudget, NextMaxIsBooked
   DEF FlowInv, BudgetInv

\* The invariant is what the memory bound needs.
LEMMA FlowInvAccounts == FlowInv => MemoryAccounted
<1> SUFFICES ASSUME FlowInv, stage = "on"
             PROVE  /\ send + flight + credit + buf <= window[1]
                    /\ window[1] - DEFAULT_CREDIT <= total
  BY DEF MemoryAccounted
<1>1. send + flight + credit + buf <= max
  BY FlowAssumption DEF FlowInv, IndInv, LoopInv, LoopTypeOK, Conservation, WindowBound
<1>2. max = window[1]
  BY DEF FlowInv, MaxIsBooked
<1>3. Beyond(1) <= total
  BY FirstSlot, SharesBounded DEF FlowInv, NoUnderflow
<1>4. window[1] \in Nat /\ total \in Nat /\ DEFAULT_CREDIT \in Nat
  BY FirstSlot, FlowAssumption DEF FlowInv, BudgetInv, BudgetTypeOK
<1>5. window[1] - DEFAULT_CREDIT <= total
  BY <1>3, <1>4 DEF Beyond
<1> QED
  BY <1>1, <1>2, <1>5

\* The memory a remote can make a stream hold is on the connection's account at
\* every moment, for every configuration that Config accepts: what is in its
\* buffer, under way or may still be sent fits the booked window, and what that
\* window has beyond the default is part of accumulated_max_stream_windows.
THEOREM MemorySafe == FlowSpec => []MemoryAccounted
BY InitFlowInv, NextFlowInv, FlowInvAccounts, PTL DEF FlowSpec
============================================================================
