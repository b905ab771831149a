---------------------------- MODULE WindowBudget ----------------------------
(* The growth budget the streams of one connection share, for any number of  *)
(* streams and windows of any size (connection/stream/flow_control.rs): each *)
(* stream has its max_receive_window, the connection one counter `total`     *)
(* (accumulated_max_stream_windows) of what the streams have beyond the      *)
(* default.  The counter is behind a mutex that next_window_update and Drop  *)
(* for FlowController take.                                                  *)
EXTENDS FlowController

CONSTANT NumSlots   \* streams that ever exist

ASSUME SlotAssumption == NumSlots \in Nat

Slots == 1 .. NumSlots

VARIABLES
  window,   \* max_receive_window of each stream, 0 when there is none
  total     \* accumulated_max_stream_windows

budget == <<window, total>>

BudgetInit == window = [i \in Slots |-> 0] /\ total = 0

\* FlowController::new.
Create(i) ==
  /\ window[i] = 0
  /\ window' = [window EXCEPT ![i] = DEFAULT_CREDIT]
  /\ UNCHANGED total

\* Mutant: the increase is counted from the default, not from the old maximum.
Grow_counts_twice(i) ==
  LET m == GrownMax(window[i], total)
  IN  /\ window[i] > 0
      /\ window' = [window EXCEPT ![i] = m]
      /\ total' = total + (m - DEFAULT_CREDIT)

\* Mutant: the connection's limit is not looked at.
Grow_unbudgeted(i) ==
  LET m == GrownMax_unbudgeted(window[i], total)
  IN  /\ window[i] > 0
      /\ window' = [window EXCEPT ![i] = m]
      /\ total' = total + (m - window[i])

\* The auto-tuning of next_window_update.
Grow(i) ==
  LET m == GrownMax(window[i], total)
  IN  /\ window[i] > 0
      /\ window' = [window EXCEPT ![i] = m]
      /\ total' = total + (m - window[i])

\* Drop for FlowController.
Release(i) ==
  /\ window[i] > 0
  /\ window' = [window EXCEPT ![i] = 0]
  /\ total' = total - (window[i] - DEFAULT_CREDIT)

BudgetNext == \E i \in Slots : Create(i) \/ Grow(i) \/ Release(i)

BudgetSpec == BudgetInit /\ [][BudgetNext]_budget

----------------------------------------------------------------------------

\* What stream i has beyond the default.
Beyond(i) == IF window[i] > 0 THEN window[i] - DEFAULT_CREDIT ELSE 0

BudgetTypeOK ==
  /\ window \in [Slots -> {0} \cup (DEFAULT_CREDIT .. U32_MAX)]
  /\ total \in Nat

\* s lists the partial sums of Beyond.  That it ascends follows from the first
\* three conjuncts by induction; stating it makes the invariant inductive.
IsPartialSum(s) ==
  /\ s[0] = 0
  /\ \A i \in Slots : s[i] = s[i - 1] + Beyond(i)
  /\ \A i, k \in 0 .. NumSlots : i <= k => s[i] <= s[k]

\* The counter is the sum of what the streams have beyond the default.
TotalIsSum ==
  \E s \in [0 .. NumSlots -> 0 .. total] : IsPartialSum(s) /\ s[NumSlots] = total

\* The subtractions of usize values in next_window_update and in Drop never
\* underflow, and the assertions of assert_invariants on the maximum hold:
\* the growth is within the budget and each stream's share within the counter.
NoUnderflow ==
  /\ total <= GrowthBudget
  /\ \A i \in Slots : Beyond(i) <= total
============================================================================
