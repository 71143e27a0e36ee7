-------------------------- MODULE RecoveryProofs --------------------------
(***************************************************************************)
(* What bounds recovery: the retry ledger (RetryLedger) and, at the end,   *)
(* the repair loop (RepairCycle).                                          *)
(*                                                                         *)
(* The retry budgets hold for every number of writers, items, kinds and    *)
(* limits.  All four bounds are one argument about a set S of records: a   *)
(* writer may only put a record of S in flight while fewer than M of them  *)
(* are in the ledger, and each writer has at most one record in flight.    *)
(***************************************************************************)
EXTENDS RetryLedger, RepairCycle, FiniteSetTheorems, TLAPS

\* Where the ledger holds a record of S, and who has one in flight.
Positions(l, S) == {n \in 1..Len(l) : l[n] \in S}

Holders(S) == {p \in Procs : pending[p] # <<>> /\ pending[p][1] \in S}

Committed(S) == Cardinality(Positions(ledger, S)) + Cardinality(Holders(S))

\* The record sets that the four properties count.
ChargedRecords == {r \in Record : r.action \in budget_actions}

ItemRecords(i) == {r \in ChargedRecords : r.root = i}

KindRecords(i, k) == {r \in ItemRecords(i) : r.kind = k}

PrintRecords(i, f) ==
    {r \in Record : /\ r.action = "retry_item"
                    /\ r.kind = "architecture_schema_validation"
                    /\ r.root = i /\ r.print = f}

\* The inductive invariant: the bounds with the decisions in flight included.
Inv ==
    /\ LedgerTypeOK
    /\ Committed(ChargedRecords) <= max_total_retries + Overrun
    /\ \A i \in Items :
          Committed(ItemRecords(i)) <= max_retries_per_work_item + Overrun
    /\ \A i \in Items, k \in Kinds :
          Committed(KindRecords(i, k)) <= max_retries_by_kind[k] + Overrun
    /\ \A i \in Items, f \in Prints :
          Committed(PrintRecords(i, f)) <= 1 + Overrun

----------------------------------------------------------------------------
\* At least one process writes, so the overrun is a natural number.
LEMMA OverrunType == Overrun \in Nat /\ Cardinality(Procs) = Overrun + 1
<1>1. Cardinality(Procs) \in Nat
  BY PartyAssumption, FS_CardinalityType
<1>2. Cardinality(Procs) # 0
  BY PartyAssumption, FS_EmptySet
<1> QED
  BY <1>1, <1>2 DEF Overrun

\* The positions of a ledger are finite; the holders are at most the writers.
LEMMA Finiteness ==
  ASSUME LedgerTypeOK, NEW S
  PROVE  /\ IsFiniteSet(Positions(ledger, S)) /\ IsFiniteSet(Holders(S))
         /\ Cardinality(Positions(ledger, S)) \in Nat
         /\ Cardinality(Holders(S)) \in Nat
         /\ Cardinality(Holders(S)) <= Overrun + 1
<1>1. Len(ledger) \in Nat
  BY DEF LedgerTypeOK
<1>2. IsFiniteSet(1..Len(ledger))
  BY <1>1, FS_Interval
<1>3. Positions(ledger, S) \in SUBSET (1..Len(ledger))
  BY DEF Positions
<1>4. IsFiniteSet(Positions(ledger, S))
  BY <1>2, <1>3, FS_Subset
<1>5. Holders(S) \in SUBSET Procs
  BY DEF Holders
<1>6. IsFiniteSet(Holders(S)) /\ Cardinality(Holders(S)) <= Cardinality(Procs)
  BY <1>5, PartyAssumption, FS_Subset
<1> QED
  BY <1>4, <1>6, FS_CardinalityType, OverrunType

\* Appending a decision moves it from in flight to the ledger.
LEMMA AppendKeeps ==
  ASSUME LedgerTypeOK, NEW S, NEW p \in Procs, append(p)
  PROVE  Committed(S)' = Committed(S)
<1> DEFINE r == pending[p][1]
<1> USE DEF append
<1>1. /\ Len(ledger) \in Nat /\ Len(ledger') = Len(ledger) + 1
      /\ \A n \in 1..Len(ledger) : ledger'[n] = ledger[n]
      /\ ledger'[Len(ledger) + 1] = r
  BY DEF LedgerTypeOK
<1>2. \A q \in Procs : pending'[q] = IF q = p THEN <<>> ELSE pending[q]
  BY DEF LedgerTypeOK
<1>3. CASE r \in S
  <2>1. Positions(ledger', S) = Positions(ledger, S) \cup {Len(ledger) + 1}
    BY <1>1, <1>3 DEF Positions
  <2>2. Len(ledger) + 1 \notin Positions(ledger, S)
    BY <1>1 DEF Positions
  <2>3. Cardinality(Positions(ledger', S)) = Cardinality(Positions(ledger, S)) + 1
    BY <2>1, <2>2, Finiteness, FS_AddElement
  <2>4. Holders(S)' = Holders(S) \ {p} /\ p \in Holders(S)
    BY <1>2, <1>3 DEF Holders
  <2>5. Cardinality(Holders(S)') = Cardinality(Holders(S)) - 1
    BY <2>4, Finiteness, FS_RemoveElement
  <2> QED
    BY <2>3, <2>5, Finiteness DEF Committed
<1>4. CASE r \notin S
  <2>1. Positions(ledger', S) = Positions(ledger, S)
    BY <1>1, <1>4 DEF Positions
  <2>2. Holders(S)' = Holders(S)
    BY <1>2, <1>4 DEF Holders
  <2> QED
    BY <2>1, <2>2 DEF Committed
<1> QED
  BY <1>3, <1>4

\* A lost decision only shrinks what is committed.
LEMMA CrashShrinks ==
  ASSUME LedgerTypeOK, NEW S, NEW p \in Procs, Crash(p)
  PROVE  Committed(S)' \in Nat /\ Committed(S)' <= Committed(S)
<1>1. ledger' = ledger
  BY DEF Crash
<1>2. Holders(S)' \in SUBSET Holders(S)
  BY DEF Holders, Crash, LedgerTypeOK
<1>3. /\ IsFiniteSet(Holders(S)')
      /\ Cardinality(Holders(S)') <= Cardinality(Holders(S))
  BY <1>2, Finiteness, FS_Subset
<1>4. Cardinality(Holders(S)') \in Nat
  BY <1>3, FS_CardinalityType
<1> QED
  BY <1>1, <1>3, <1>4, Finiteness DEF Committed

\* A decision outside S commits nothing; one inside S was taken below M.
LEMMA DecideBounded ==
  ASSUME LedgerTypeOK, NEW S, NEW M \in Nat, NEW p \in Procs, NEW rec \in Record,
         Decide(p, rec), Committed(S) <= M + Overrun,
         rec \in S => Cardinality(Positions(ledger, S)) < M
  PROVE  Committed(S)' <= M + Overrun
<1>1. ledger' = ledger /\ pending[p] = <<>>
  BY DEF Decide
<1>2. \A q \in Procs : pending'[q] = IF q = p THEN <<rec>> ELSE pending[q]
  BY DEF Decide, LedgerTypeOK
<1>3. Holders(S)' \in SUBSET Procs
  BY DEF Holders
<1>4. IsFiniteSet(Holders(S)') /\ Cardinality(Holders(S)') <= Overrun + 1
  BY <1>3, PartyAssumption, FS_Subset, OverrunType
<1>5. Cardinality(Holders(S)') \in Nat
  BY <1>4, FS_CardinalityType
<1>6. CASE rec \in S
  <2>1. Cardinality(Positions(ledger, S)) < M
    BY <1>6
  <2> QED
    BY <2>1, <1>1, <1>4, <1>5, OverrunType, Finiteness DEF Committed
<1>7. CASE rec \notin S
  <2>1. Holders(S)' = Holders(S)
    BY <1>1, <1>2, <1>7 DEF Holders
  <2> QED
    BY <1>1, <2>1 DEF Committed
<1> QED
  BY <1>6, <1>7

----------------------------------------------------------------------------
\* The counters of the code are the positions of the record sets.
LEMMA CountersArePositions ==
  ASSUME LedgerTypeOK
  PROVE  /\ Charged(ledger) = Positions(ledger, ChargedRecords)
         /\ \A i : ChargedFor(ledger, i) = Positions(ledger, ItemRecords(i))
         /\ \A i, k : ChargedForKind(ledger, i, k)
                         = Positions(ledger, KindRecords(i, k))
         /\ \A i, f : SameFailure(ledger, i, f)
                         = Positions(ledger, PrintRecords(i, f))
<1>1. \A n \in 1..Len(ledger) : ledger[n] \in Record
  BY DEF LedgerTypeOK
<1>2. Charged(ledger) = Positions(ledger, ChargedRecords)
  BY <1>1 DEF Charged, Positions, ChargedRecords
<1>3. \A i : ChargedFor(ledger, i) = Positions(ledger, ItemRecords(i))
  BY <1>1 DEF Charged, ChargedFor, Positions, ChargedRecords, ItemRecords
<1>4. \A i, k : ChargedForKind(ledger, i, k) = Positions(ledger, KindRecords(i, k))
  BY <1>1 DEF Charged, ChargedFor, ChargedForKind, Positions, ChargedRecords,
              ItemRecords, KindRecords
<1>5. \A i, f : SameFailure(ledger, i, f) = Positions(ledger, PrintRecords(i, f))
  BY <1>1 DEF SameFailure, Positions, PrintRecords
<1> QED
  BY <1>2, <1>3, <1>4, <1>5

\* What a decision must respect for the four bounds to survive it.
Authorised(rec) ==
    /\ rec \in ChargedRecords =>
          Cardinality(Positions(ledger, ChargedRecords)) < max_total_retries
    /\ \A i \in Items : rec \in ItemRecords(i) =>
          Cardinality(Positions(ledger, ItemRecords(i))) < max_retries_per_work_item
    /\ \A i \in Items, k \in Kinds : rec \in KindRecords(i, k) =>
          Cardinality(Positions(ledger, KindRecords(i, k))) < max_retries_by_kind[k]
    /\ \A i \in Items, f \in Prints : rec \in PrintRecords(i, f) =>
          Cardinality(Positions(ledger, PrintRecords(i, f))) < 1

\* RetryPolicy.action_for charges only below every limit.
LEMMA PolicyCharges ==
  ASSUME NEW k \in FailureKind, NEW ok \in BOOLEAN,
         NEW t \in Nat, NEW n \in Nat, NEW m \in Nat
  PROVE  /\ action_for(k, ok, t, n, m) \in RecoveryAction
         /\ action_for(k, ok, t, n, m) # "retry_batch"
         /\ action_for(k, ok, t, n, m) \in budget_actions =>
               /\ t < max_total_retries /\ n < max_retries_per_work_item
               /\ m < max_retries_by_kind[k]
BY LimitAssumption DEF action_for, budget_actions, RecoveryAction

\* The counts handed to the policy are natural numbers.
LEMMA CountersType ==
  ASSUME LedgerTypeOK
  PROVE  /\ budget_count(ledger) \in Nat
         /\ \A i : budget_count_for_work_item(ledger, i) \in Nat
         /\ \A i, k : budget_count_for_kind(ledger, i, k) \in Nat
BY CountersArePositions, Finiteness
   DEF budget_count, budget_count_for_work_item, budget_count_for_kind

\* A GraphRunner decision is authorised.
LEMMA ItemDecisionAuthorised ==
  ASSUME LedgerTypeOK, NEW i \in Items, NEW k \in Kinds \ ResumeKinds,
         NEW f \in Prints, NEW ok \in BOOLEAN
  PROVE  /\ ItemDecision(ledger, i, k, f, ok) \in Record
         /\ Authorised(ItemDecision(ledger, i, k, f, ok))
<1> DEFINE t == budget_count(ledger)
           n == budget_count_for_work_item(ledger, i)
           m == budget_count_for_kind(ledger, i, k)
           a == action_for(k, ok, t, n, m)
           rec == ItemDecision(ledger, i, k, f, ok)
           same == has_same_failure_without_new_evidence(ledger, i, k, f)
           open == k = "architecture_schema_validation" /\ same
<1>1. t \in Nat /\ n \in Nat /\ m \in Nat
  BY CountersType
<1>2. k \in FailureKind
  BY KindAssumption
<1>3. /\ a \in RecoveryAction
      /\ a \in budget_actions =>
            /\ t < max_total_retries /\ n < max_retries_per_work_item
            /\ m < max_retries_by_kind[k]
  BY <1>1, <1>2, PolicyCharges
<1>4. rec = [scope |-> "work_item", action |-> IF open THEN "fail" ELSE a,
             kind |-> k, print |-> f, root |-> i, interrupted |-> {}]
  BY DEF ItemDecision
<1>5. rec \in Record
  BY <1>2, <1>3, <1>4 DEF Record, RecoveryAction
<1>6. /\ rec.root = i /\ rec.kind = k /\ rec.print = f
      /\ rec.action = IF open THEN "fail" ELSE a
  BY <1>4
<1>7. rec \in ChargedRecords => a \in budget_actions
  BY <1>6 DEF ChargedRecords, budget_actions
<1>8. /\ t = Cardinality(Positions(ledger, ChargedRecords))
      /\ n = Cardinality(Positions(ledger, ItemRecords(i)))
      /\ m = Cardinality(Positions(ledger, KindRecords(i, k)))
  BY CountersArePositions
     DEF budget_count, budget_count_for_work_item, budget_count_for_kind
<1>9. \A j \in Items : rec \in ItemRecords(j) => j = i /\ rec \in ChargedRecords
  BY <1>6 DEF ItemRecords
<1>10. \A j \in Items, q \in Kinds :
          rec \in KindRecords(j, q) => j = i /\ q = k /\ rec \in ChargedRecords
  BY <1>6, <1>9 DEF KindRecords
<1>11. ASSUME NEW j \in Items, NEW g \in Prints, rec \in PrintRecords(j, g)
       PROVE  Cardinality(Positions(ledger, PrintRecords(j, g))) < 1
  <2>1. j = i /\ g = f /\ k = "architecture_schema_validation" /\ ~same
    BY <1>6, <1>11 DEF PrintRecords
  <2>2. SameFailure(ledger, i, f) = {}
    BY <2>1 DEF SameFailure, has_same_failure_without_new_evidence
  <2>3. Positions(ledger, PrintRecords(j, g)) = {}
    BY <2>1, <2>2, CountersArePositions
  <2> QED
    BY <2>3, FS_EmptySet
<1> QED
  BY <1>3, <1>5, <1>7, <1>8, <1>9, <1>10, <1>11 DEF Authorised

\* A watchdog decision is authorised, with or without a known root.
LEMMA MonitorDecisionAuthorised ==
  ASSUME LedgerTypeOK, NEW r \in Items \cup {NoItem}, NEW k \in Kinds \cap ResumeKinds,
         NEW f \in Prints, NEW active \in SUBSET Items, NEW batchOpen \in BOOLEAN
  PROVE  /\ MonitorDecision(ledger, r, k, f, active, batchOpen) \in Record
         /\ Authorised(MonitorDecision(ledger, r, k, f, active, batchOpen))
<1> DEFINE known == r # NoItem
           t == budget_count(ledger)
           n == IF known THEN budget_count_for_work_item(ledger, r) ELSE 0
           m == IF known THEN budget_count_for_kind(ledger, r, k) ELSE 0
           a == action_for(k, TRUE, t, n, m)
           rec == MonitorDecision(ledger, r, k, f, active, batchOpen)
<1>1. t \in Nat /\ n \in Nat /\ m \in Nat
  BY CountersType
<1>2. k \in FailureKind /\ k \in ResumeKinds
  BY KindAssumption
<1>3. /\ a \in RecoveryAction
      /\ a \in budget_actions =>
            /\ t < max_total_retries /\ n < max_retries_per_work_item
            /\ m < max_retries_by_kind[k]
  BY <1>1, <1>2, PolicyCharges
<1>4. rec = [scope |-> IF batchOpen THEN "batch" ELSE "run",
             action |-> IF batchOpen /\ a = "resume" THEN "retry_batch" ELSE a,
             kind |-> k, print |-> f, root |-> r, interrupted |-> active \ {r}]
  BY DEF MonitorDecision
<1>5. rec \in Record
  <2> HIDE DEF a, rec
  <2>1. (IF batchOpen THEN "batch" ELSE "run") \in {"work_item", "batch", "run"}
    OBVIOUS
  <2>2. (IF batchOpen /\ a = "resume" THEN "retry_batch" ELSE a) \in RecoveryAction
    BY <1>3 DEF RecoveryAction
  <2>3. active \ {r} \in SUBSET Items
    OBVIOUS
  <2> QED
    BY <1>2, <1>4, <2>1, <2>2, <2>3 DEF Record
<1>6. /\ rec.root = r /\ rec.kind = k
      /\ rec.action = IF batchOpen /\ a = "resume" THEN "retry_batch" ELSE a
  BY <1>4
<1>7. rec \in ChargedRecords => a \in budget_actions
  BY <1>6 DEF ChargedRecords, budget_actions
<1>8. t = Cardinality(Positions(ledger, ChargedRecords))
  BY CountersArePositions DEF budget_count
<1>9. ASSUME NEW j \in Items, rec \in ItemRecords(j)
      PROVE  /\ rec \in ChargedRecords /\ j = r
             /\ n = Cardinality(Positions(ledger, ItemRecords(j)))
             /\ m = Cardinality(Positions(ledger, KindRecords(j, k)))
  <2>1. rec \in ChargedRecords /\ j = r
    BY <1>6, <1>9 DEF ItemRecords
  <2>2. known
    BY <2>1, KindAssumption
  <2> QED
    BY <2>1, <2>2, CountersArePositions
       DEF budget_count_for_work_item, budget_count_for_kind
<1>10. ASSUME NEW j \in Items, NEW q \in Kinds, rec \in KindRecords(j, q)
       PROVE  q = k /\ rec \in ItemRecords(j)
  BY <1>6, <1>10 DEF KindRecords
<1>11. \A j \in Items, g \in Prints : rec \notin PrintRecords(j, g)
  BY <1>2, <1>6 DEF PrintRecords, ResumeKinds
<1> QED
  BY <1>3, <1>5, <1>7, <1>8, <1>9, <1>10, <1>11 DEF Authorised

\* A batch barrier record charges nothing, so it is authorised.
LEMMA BatchDecisionAuthorised ==
  ASSUME NEW r \in Items, NEW k \in Kinds, NEW f \in Prints, NEW replan \in BOOLEAN
  PROVE  /\ BatchDecision(r, k, f, replan) \in Record
         /\ Authorised(BatchDecision(r, k, f, replan))
<1> DEFINE rec == BatchDecision(r, k, f, replan)
<1>1. rec \in Record /\ rec.action \in {"request_replan", "fail"}
  BY KindAssumption DEF BatchDecision, Record, RecoveryAction
<1>2. rec \notin ChargedRecords /\ \A i, g : rec \notin PrintRecords(i, g)
  BY <1>1 DEF ChargedRecords, PrintRecords, budget_actions
<1> QED
  BY <1>1, <1>2 DEF Authorised, ItemRecords, KindRecords

----------------------------------------------------------------------------
\* An authorised decision preserves the invariant.
LEMMA AuthorisedPreserves ==
  ASSUME Inv, NEW p \in Procs, NEW rec \in Record, Authorised(rec), Decide(p, rec)
  PROVE  Inv'
<1>1. LedgerTypeOK
  BY DEF Inv
<1>2. LedgerTypeOK'
  BY <1>1 DEF LedgerTypeOK, Decide
<1>3. Committed(ChargedRecords)' <= max_total_retries + Overrun
  BY <1>1, DecideBounded, LimitAssumption DEF Inv, Authorised
<1>4. \A i \in Items :
         Committed(ItemRecords(i))' <= max_retries_per_work_item + Overrun
  BY <1>1, DecideBounded, LimitAssumption DEF Inv, Authorised
<1>5. ASSUME NEW i \in Items, NEW k \in Kinds
      PROVE  Committed(KindRecords(i, k))' <= max_retries_by_kind[k] + Overrun
  <2>1. max_retries_by_kind[k] \in Nat
    BY LimitAssumption, KindAssumption
  <2> QED
    BY <1>1, <2>1, DecideBounded DEF Inv, Authorised
<1>6. \A i \in Items, f \in Prints : Committed(PrintRecords(i, f))' <= 1 + Overrun
  BY <1>1, DecideBounded DEF Inv, Authorised
<1> QED
  BY <1>2, <1>3, <1>4, <1>5, <1>6 DEF Inv

\* A step that commits no more of any record set preserves the invariant.
LEMMA ShrinkPreserves ==
  ASSUME Inv, LedgerTypeOK', \A S : Committed(S)' <= Committed(S),
         \A S : Committed(S) \in Nat /\ Committed(S)' \in Nat
  PROVE  Inv'
<1>1. Overrun \in Nat
  BY OverrunType
<1>2. \A i \in Items, k \in Kinds : max_retries_by_kind[k] \in Nat
  BY LimitAssumption, KindAssumption
<1>3. \A S, M : M \in Nat /\ Committed(S) <= M => Committed(S)' <= M
  OBVIOUS
<1> QED
  BY <1>1, <1>2, <1>3, LimitAssumption DEF Inv

\* What is committed is a natural number.
LEMMA CommittedType == ASSUME LedgerTypeOK, NEW S PROVE Committed(S) \in Nat
BY Finiteness DEF Committed

\* The invariant is inductive.
LEMMA InvInductive == Inv /\ [LedgerNext]_ledgerVars => Inv'
<1> SUFFICES ASSUME Inv, [LedgerNext]_ledgerVars PROVE Inv'
  OBVIOUS
<1>1. LedgerTypeOK
  BY DEF Inv
<1>2. ASSUME NEW p \in Procs, WorkItemDecides(p) PROVE Inv'
  BY <1>1, <1>2, ItemDecisionAuthorised, AuthorisedPreserves DEF WorkItemDecides
<1>3. ASSUME NEW p \in Procs, MonitorDecides(p) PROVE Inv'
  BY <1>1, <1>3, MonitorDecisionAuthorised, AuthorisedPreserves DEF MonitorDecides
<1>4. ASSUME NEW p \in Procs, BatchBarrierDecides(p) PROVE Inv'
  BY <1>4, BatchDecisionAuthorised, AuthorisedPreserves DEF BatchBarrierDecides
<1>5. ASSUME NEW p \in Procs, append(p) PROVE Inv'
  <2>1. pending[p][1] \in Record /\ LedgerTypeOK'
    BY <1>1, <1>5 DEF LedgerTypeOK, append
  <2>2. \A S : Committed(S)' = Committed(S)
    BY <1>1, <1>5, AppendKeeps
  <2>3. \A S : Committed(S) \in Nat
    BY <1>1, CommittedType
  <2> QED
    BY <2>1, <2>2, <2>3, ShrinkPreserves
<1>6. ASSUME NEW p \in Procs, Crash(p) PROVE Inv'
  <2>1. LedgerTypeOK'
    BY <1>1, <1>6 DEF LedgerTypeOK, Crash
  <2>2. \A S : Committed(S)' \in Nat /\ Committed(S)' <= Committed(S)
    BY <1>1, <1>6, CrashShrinks
  <2>3. \A S : Committed(S) \in Nat
    BY <1>1, CommittedType
  <2> QED
    BY <2>1, <2>2, <2>3, ShrinkPreserves
<1>7. CASE UNCHANGED ledgerVars
  BY <1>7 DEF ledgerVars, Inv, LedgerTypeOK, Committed, Positions, Holders
<1> QED
  BY <1>2, <1>3, <1>4, <1>5, <1>6, <1>7 DEF LedgerNext

\* Initially nothing is committed.
LEMMA InitInv == LedgerInit => Inv
<1> SUFFICES ASSUME LedgerInit PROVE Inv
  OBVIOUS
<1>1. LedgerTypeOK
  BY DEF LedgerInit, LedgerTypeOK
<1>2. \A S : Positions(ledger, S) = {} /\ Holders(S) = {}
  BY DEF LedgerInit, Positions, Holders
<1>3. \A S : Committed(S) = 0
  BY <1>2, FS_EmptySet DEF Committed
<1>4. \A k \in Kinds : max_retries_by_kind[k] \in Nat
  BY LimitAssumption, KindAssumption
<1> QED
  BY <1>1, <1>3, <1>4, LimitAssumption, OverrunType DEF Inv

\* The bounds without the decisions in flight are the checked properties.
LEMMA InvImplies == Inv => TotalBudget /\ ItemBudget /\ KindBudget /\ CircuitBreaker
<1> SUFFICES ASSUME Inv PROVE TotalBudget /\ ItemBudget /\ KindBudget /\ CircuitBreaker
  OBVIOUS
<1>1. LedgerTypeOK
  BY DEF Inv
<1>2. \A S : /\ Cardinality(Positions(ledger, S)) \in Nat
             /\ Cardinality(Positions(ledger, S)) <= Committed(S)
             /\ Committed(S) \in Nat
  BY <1>1, Finiteness DEF Committed
<1>3. \A k \in Kinds : max_retries_by_kind[k] \in Nat
  BY LimitAssumption, KindAssumption
<1>4. TotalBudget
  BY <1>1, <1>2, OverrunType, LimitAssumption, CountersArePositions
     DEF Inv, TotalBudget, budget_count
<1>5. ItemBudget
  BY <1>1, <1>2, OverrunType, LimitAssumption, CountersArePositions
     DEF Inv, ItemBudget
<1>6. KindBudget
  BY <1>1, <1>2, <1>3, OverrunType, CountersArePositions
     DEF Inv, KindBudget, budget_count_for_kind
<1>7. CircuitBreaker
  BY <1>1, <1>2, OverrunType, CountersArePositions DEF Inv, CircuitBreaker
<1> QED
  BY <1>4, <1>5, <1>6, <1>7

\* Every reachable ledger and every decision in flight is well formed, in
\* particular a process never holds two decisions (GraphRunner._retry_lock).
THEOREM LedgerTypeCorrect == LedgerSpec => []LedgerTypeOK
<1>1. Inv => LedgerTypeOK
  BY DEF Inv
<1> QED
  BY <1>1, InitInv, InvInductive, PTL DEF LedgerSpec

\* RetryLimits for every configuration: whatever Worker threads, restarts and
\* watchdogs decide, the durable total, per-item and per-kind budgets are
\* exceeded by less than the number of processes writing the ledger, and are
\* exact when one process writes at a time.
THEOREM BudgetsHold == LedgerSpec => []BudgetsKept
<1>1. Inv => BudgetsKept
  BY InvImplies DEF BudgetsKept
<1> QED
  BY <1>1, InitInv, InvInductive, PTL DEF LedgerSpec

\* The schema circuit breaker of _run_item_with_retries: one process grants an
\* identical architecture schema failure at most one retry, across restarts.
THEOREM CircuitBreakerHolds == LedgerSpec => []CircuitBreaker
<1>1. Inv => CircuitBreaker
  BY InvImplies
<1> QED
  BY <1>1, InitInv, InvInductive, PTL DEF LedgerSpec

----------------------------------------------------------------------------
(***************************************************************************)
(* The repair loop, for every size of the two DAGs and any number of       *)
(* failures, crashes and nested repairs.                                   *)
(***************************************************************************)
\* A checkpoint of the delivery DAG never holds more than the event log.
ViewsBounded ==
    \A c \in {ckpt, dckpt} : c.plan = Base => c.n <= logged

\* The runner's own count of the delivery DAG is the event log's.
RunTracksLog ==
    pc \in {"running", "milestones", "ended"} /\ run = Base => progress = logged

\* A repair plan runs only while plan.json names a repair plan.
RunInPlan == pc \in {"running", "milestones", "ended"} /\ run # Base => plan # Base

\* Only a finished plan goes through the milestones.
MilestonesDone == pc = "milestones" => progress = Size(run)

\* A Trace completed ahead of its delivery was completed by a repair plan.
ClosedByRepair == trace = "completed" /\ logged < DeliverySize => plan # Base

\* The inductive invariant.
RepairInv ==
    /\ TypeOK /\ ViewsBounded /\ RunTracksLog /\ RunInPlan /\ MilestonesDone
    /\ ClosedByRepair

\* The delivery states a run starts in, and the ones it passes when it completes.
Working == {"implementing", "built", "runnable", "behavior_verified", "delivery_ready"}

Reached == Working \ {"implementing"}

\* The part of the invariant about the delivery state.
DeliveryInv ==
    /\ pc = "running" => delivery \in Working
    /\ pc = "milestones" => delivery \in Reached
    /\ DeliveryFollows

LEMMA PlanTypes ==
  /\ Base \in Seq(Nat)
  /\ \A p, n : At(p, n).plan = p /\ At(p, n).n = n
  /\ \A p \in Seq(Nat), n \in Nat : At(p, n) \in Checkpoints
  /\ NoFile \in Checkpoints /\ NoFile.plan # Base
  /\ \A p : Size(p) \in Nat
BY SizeAssumption DEF Base, At, Checkpoints, NoFile, Size

\* What a resume reads: an unfinished repair plan, or the delivery DAG exactly
\* where the event log left it.
LEMMA LoadedView ==
  ASSUME TypeOK, ViewsBounded
  PROVE  /\ Loaded.plan \in Seq(Nat) /\ Loaded.n \in Nat /\ Loaded \in Checkpoints
         /\ Loaded.plan = Base => Loaded.n = logged
         /\ Loaded.plan # Base => Loaded.plan = plan
<1>1. \A c \in {ckpt, dckpt} : c.plan \in Seq(Nat) /\ c.n \in Nat
  BY DEF TypeOK, Checkpoints
<1>2. logged \in Nat
  BY SizeAssumption DEF TypeOK
<1>3. /\ logged \in Views
      /\ \A m \in Views : m \in Nat /\ m <= logged
  BY <1>1, <1>2 DEF Views, ViewsBounded
<1>4. (CHOOSE n \in Views : \A m \in Views : m <= n) = logged
  <2>1. \E n \in Views : \A m \in Views : m <= n
    BY <1>3
  <2> DEFINE top == CHOOSE n \in Views : \A m \in Views : m <= n
  <2>2. top \in Views /\ \A m \in Views : m <= top
    BY <2>1
  <2> HIDE DEF top
  <2>3. top = logged
    BY <1>2, <1>3, <2>2
  <2> QED
    BY <2>3 DEF top
<1>5. CASE plan # Base /\ RepairPending
  <2>1. Loaded = At(plan, IF ckpt.plan = plan THEN ckpt.n ELSE 0)
    BY <1>5 DEF Loaded
  <2>2. plan \in Seq(Nat) /\ (IF ckpt.plan = plan THEN ckpt.n ELSE 0) \in Nat
    BY <1>1 DEF TypeOK
  <2> QED
    BY <1>5, <2>1, <2>2, PlanTypes
<1>6. CASE ~(plan # Base /\ RepairPending)
  <2>1. Loaded = At(Base, logged)
    BY <1>4, <1>6 DEF Loaded
  <2> QED
    BY <1>2, <2>1, PlanTypes
<1> QED
  BY <1>5, <1>6

\* The edges of the delivery state machine that the runner relies on: every
\* state lets a started run get to work, and a run at work to its verdict.
LEMMA DeliveryEdges ==
  /\ "planned" \in DeliveryStates
  /\ \A d \in DeliveryStates : set_delivery_state(d, "implementing") \in Working
  /\ Working \subseteq DeliveryStates
  /\ \A d \in Working, v \in {"failed", "blocked", "needs_replan"} :
        set_delivery_state(d, Target[v])
          \in {Target[v], "runnable", "behavior_verified", "delivery_ready"}
  /\ \A d \in DeliveryStates, v \in {"failed", "blocked", "needs_replan"} :
        set_delivery_state(d, Target[v]) \in DeliveryStates
  /\ \A d \in Working : d # "delivery_ready" /\ ~can_transition(d, "built")
                          => d \in {"runnable", "behavior_verified"}
<1>1. DeliveryStates = {"planned", "implementing", "built", "runnable",
        "behavior_verified", "needs_rework", "delivery_ready", "blocked", "failed"}
  BY DEF DeliveryStates, Transitions
<1>2. \A d \in DeliveryStates : set_delivery_state(d, "implementing") \in Working
  BY <1>1 DEF set_delivery_state, can_transition, Transitions, Working
<1>3. \A d \in Working, v \in {"failed", "blocked", "needs_replan"} :
        set_delivery_state(d, Target[v])
          \in {Target[v], "runnable", "behavior_verified", "delivery_ready"}
  BY DEF set_delivery_state, can_transition, Transitions, Working, Target
<1>4. \A d \in DeliveryStates, v \in {"failed", "blocked", "needs_replan"} :
        set_delivery_state(d, Target[v]) \in DeliveryStates
  BY <1>1 DEF set_delivery_state, Target
<1>5. \A d \in Working : d # "delivery_ready" /\ ~can_transition(d, "built")
                          => d \in {"runnable", "behavior_verified"}
  BY DEF can_transition, Transitions, Working
<1> QED
  BY <1>1, <1>2, <1>3, <1>4, <1>5 DEF Working

\* The milestones stay inside the machine and end at delivery_ready.
LEMMA MilestoneEdges ==
  /\ DOMAIN Milestone = {"built", "runnable", "behavior_verified"}
  /\ \A d \in DOMAIN Milestone : Milestone[d] \in Reached
  /\ \A d \in Reached : d \notin DOMAIN Milestone => d = "delivery_ready"
  /\ Reached \subseteq DeliveryStates
BY DeliveryEdges DEF Milestone, Reached, Working

LEMMA InitRepair ==
  ASSUME Init
  PROVE  RepairInv
<1>1. TypeOK
  BY PlanTypes, SizeAssumption DEF Init, TypeOK, Statuses, MaxRepairs
<1>2. ViewsBounded /\ RunTracksLog /\ RunInPlan /\ MilestonesDone /\ ClosedByRepair
  BY PlanTypes DEF Init, ViewsBounded, RunTracksLog, RunInPlan, MilestonesDone,
     ClosedByRepair
<1> QED
  BY <1>1, <1>2 DEF RepairInv

LEMMA NextRepair ==
  ASSUME RepairInv, [Next]_vars
  PROVE  RepairInv'
<1> USE DEF RepairInv
<1>1. CASE UNCHANGED vars
  BY <1>1 DEF vars, diskVars, workerVars, boundVars, TypeOK, ViewsBounded,
     RunTracksLog,
     RunInPlan, MilestonesDone, ClosedByRepair
<1>2. /\ Loaded.plan \in Seq(Nat) /\ Loaded.n \in Nat /\ Loaded \in Checkpoints
      /\ Loaded.plan = Base => Loaded.n = logged
      /\ Loaded.plan # Base => Loaded.plan = plan
  BY LoadedView
<1>3. logged \in Nat /\ progress \in Nat /\ DeliverySize \in Nat
  BY SizeAssumption DEF TypeOK
<1>4. CASE ResumeRun
  <2>1. TypeOK'
    BY <1>2, <1>4 DEF ResumeRun, TypeOK, Statuses, workerVars, boundVars
  <2>2. ViewsBounded'
    BY <1>2, <1>3, <1>4 DEF ResumeRun, ViewsBounded
  <2>3. RunTracksLog' /\ RunInPlan' /\ MilestonesDone' /\ ClosedByRepair'
    BY <1>4 DEF ResumeRun, RunTracksLog, RunInPlan, MilestonesDone, ClosedByRepair
  <2> QED
    BY <2>1, <2>2, <2>3
<1>5. CASE WorkerEntry \/ ResumeDelivery
  <2>1. TypeOK'
    BY <1>2, <1>5, DeliveryEdges DEF WorkerEntry, ResumeDelivery, TypeOK,
       Statuses, boundVars,
       MaxRepairs
  <2>2. ViewsBounded' /\ RunTracksLog' /\ RunInPlan' /\ MilestonesDone' /\ ClosedByRepair'
    BY <1>2, <1>5 DEF WorkerEntry, ResumeDelivery, ViewsBounded, RunTracksLog,
       RunInPlan, MilestonesDone,
       ClosedByRepair
  <2> QED
    BY <2>1, <2>2
<1>6. CASE ItemCompletes
  <2>1. progress + 1 \in Nat /\ run \in Seq(Nat)
    BY <1>3 DEF TypeOK
  <2>2. ckpt' \in Checkpoints /\ ckpt'.plan = run /\ ckpt'.n = progress + 1
    BY <1>6, <2>1, PlanTypes DEF ItemCompletes
  <2>3. /\ logged' = IF run = Base THEN progress + 1 ELSE logged
        /\ run = Base => progress = logged /\ progress < DeliverySize
    BY <1>6 DEF ItemCompletes, RunTracksLog, Size
  <2>4. logged' \in 0..DeliverySize /\ logged <= logged'
    BY <1>3, <2>3 DEF TypeOK
  <2>5. TypeOK'
    BY <1>6, <2>1, <2>2, <2>4 DEF ItemCompletes, TypeOK, boundVars
  <2>6. ViewsBounded'
    <3>1. ckpt'.plan = Base => ckpt'.n <= logged'
      BY <1>3, <2>2, <2>3
    <3>2. dckpt' = dckpt /\ dckpt.n \in Nat
      BY <1>6 DEF ItemCompletes, TypeOK, Checkpoints
    <3>3. dckpt'.plan = Base => dckpt'.n <= logged'
      BY <1>3, <2>4, <3>2 DEF ViewsBounded
    <3> QED
      BY <3>1, <3>3 DEF ViewsBounded
  <2>7. RunTracksLog' /\ RunInPlan' /\ MilestonesDone' /\ ClosedByRepair'
    BY <1>3, <1>6, <2>3, <2>4 DEF ItemCompletes, RunTracksLog, RunInPlan,
       MilestonesDone, ClosedByRepair
  <2> QED
    BY <2>5, <2>6, <2>7
<1>7. CASE RunCompletes
  <2>1. TypeOK'
    BY <1>7, DeliveryEdges DEF RunCompletes, TypeOK, Statuses, Working,
       workerVars, boundVars
  <2>2. ClosedByRepair'
    BY <1>3, <1>7 DEF RunCompletes, ClosedByRepair, RunTracksLog, RunInPlan,
       MilestonesDone, Size
  <2>3. ViewsBounded' /\ RunTracksLog' /\ RunInPlan' /\ MilestonesDone'
    BY <1>7 DEF RunCompletes, ViewsBounded, RunTracksLog, RunInPlan, MilestonesDone,
       workerVars
  <2> QED
    BY <2>1, <2>2, <2>3
<1>8. CASE RunStops \/ PlannerFails
  <2>1. TypeOK'
    BY <1>8, DeliveryEdges DEF RunStops, PlannerFails, TypeOK, Statuses,
       workerVars
  <2>2. ViewsBounded' /\ RunTracksLog' /\ RunInPlan' /\ MilestonesDone' /\ ClosedByRepair'
    BY <1>8 DEF RunStops, PlannerFails, ViewsBounded, RunTracksLog, RunInPlan,
       MilestonesDone, ClosedByRepair,
       workerVars
  <2> QED
    BY <2>1, <2>2
<1>9. CASE BeginRepair
  <2>1. /\ dckpt' \in Checkpoints /\ dckpt'.plan = cur /\ dckpt'.n = progress
        /\ cur = Base => progress = logged
    BY <1>3, <1>9, PlanTypes DEF BeginRepair, TypeOK, RunTracksLog
  <2>2. attempt' \in 0..MaxRepairs
    BY <1>9 DEF BeginRepair, TypeOK, MaxRepairs
  <2>3. TypeOK'
    BY <1>9, <2>1, <2>2 DEF BeginRepair, TypeOK, boundVars
  <2>4. ViewsBounded'
    BY <1>3, <1>9, <2>1 DEF BeginRepair, ViewsBounded
  <2>5. RunTracksLog' /\ RunInPlan' /\ MilestonesDone' /\ ClosedByRepair'
    BY <1>9 DEF BeginRepair, RunTracksLog, RunInPlan, MilestonesDone, ClosedByRepair
  <2> QED
    BY <2>3, <2>4, <2>5
<1>10. CASE PlanRepair
  <2>1. Append(cur, attempt) \in Seq(Nat) /\ Append(cur, attempt) # Base
    <3>1. attempt \in Nat /\ cur \in Seq(Nat)
      BY DEF TypeOK, MaxRepairs
    <3>2. Append(cur, attempt) \in Seq(Nat) /\ Len(Append(cur, attempt)) = Len(cur) + 1
      BY <3>1
    <3>3. Len(cur) \in Nat /\ Len(Base) = 0
      BY <3>1 DEF Base
    <3> QED
      BY <3>2, <3>3
  <2>2. TypeOK'
    BY <1>10, <2>1, DeliveryEdges DEF PlanRepair, TypeOK, boundVars
  <2>3. ViewsBounded' /\ RunTracksLog' /\ RunInPlan' /\ MilestonesDone' /\ ClosedByRepair'
    BY <1>10, <2>1 DEF PlanRepair, ViewsBounded, RunTracksLog, RunInPlan,
       MilestonesDone, ClosedByRepair
  <2> QED
    BY <2>2, <2>3
<1>11. CASE Exit \/ RecordCycle
  <2>1. TypeOK'
    BY <1>11 DEF Exit, RecordCycle, TypeOK, diskVars, workerVars, boundVars
  <2>2. ViewsBounded' /\ RunTracksLog' /\ RunInPlan' /\ MilestonesDone' /\ ClosedByRepair'
    BY <1>11 DEF Exit, RecordCycle, ViewsBounded, RunTracksLog, RunInPlan,
       MilestonesDone, ClosedByRepair,
       diskVars, workerVars
  <2> QED
    BY <2>1, <2>2
<1>12. CASE Kill
  <2>1. TypeOK'
    BY <1>12 DEF Kill, TypeOK, Statuses, workerVars
  <2>2. ViewsBounded' /\ RunTracksLog' /\ RunInPlan' /\ MilestonesDone' /\ ClosedByRepair'
    BY <1>12 DEF Kill, ViewsBounded, RunTracksLog, RunInPlan, MilestonesDone,
       ClosedByRepair, workerVars
  <2> QED
    BY <2>1, <2>2
<1>13. CASE ReachMilestone \/ FinishTrace
  <2>1. TypeOK'
    BY <1>13, MilestoneEdges DEF ReachMilestone, FinishTrace, TypeOK, Statuses,
       workerVars,
       boundVars
  <2>2. ClosedByRepair'
    BY <1>3, <1>13 DEF ReachMilestone, FinishTrace, ClosedByRepair, RunTracksLog,
       RunInPlan,
       MilestonesDone, Size
  <2>3. ViewsBounded' /\ RunTracksLog' /\ RunInPlan' /\ MilestonesDone'
    BY <1>13 DEF ReachMilestone, FinishTrace, ViewsBounded, RunTracksLog, RunInPlan,
       MilestonesDone, workerVars
  <2> QED
    BY <2>1, <2>2, <2>3
<1> QED
  BY <1>1, <1>4, <1>5, <1>6, <1>7, <1>8, <1>9, <1>10, <1>11, <1>12, <1>13 DEF Next,
     Worker

LEMMA AlwaysRepair == Spec => []RepairInv
<1>1. Init => RepairInv
  BY InitRepair
<1>2. RepairInv /\ [Next]_vars => RepairInv'
  BY NextRepair
<1> QED
  BY <1>1, <1>2, PTL DEF Spec

LEMMA InitDelivery == Init => DeliveryInv
BY DEF Init, DeliveryInv, DeliveryFollows

LEMMA NextDelivery == RepairInv /\ DeliveryInv /\ [Next]_vars => DeliveryInv'
<1> SUFFICES ASSUME RepairInv, DeliveryInv, [Next]_vars PROVE DeliveryInv'
  OBVIOUS
<1> USE DEF DeliveryInv, DeliveryFollows
<1>1. CASE UNCHANGED vars
  BY <1>1 DEF vars, diskVars
<1>2. delivery \in DeliveryStates
  BY DEF RepairInv, TypeOK
<1>3. CASE WorkerEntry \/ ResumeDelivery \/ PlanRepair
  BY <1>2, <1>3, DeliveryEdges DEF WorkerEntry, ResumeDelivery, PlanRepair
<1>4. CASE ItemCompletes
  BY <1>4 DEF ItemCompletes
<1>5. CASE RunCompletes
  BY <1>5, DeliveryEdges DEF RunCompletes, Reached, Working
<1>6. CASE ReachMilestone \/ FinishTrace
  BY <1>6, MilestoneEdges DEF ReachMilestone, FinishTrace
<1>7. CASE RunStops
  <2>1. /\ trace' \in {"failed", "blocked", "needs_replan"} /\ pc' = "ended"
        /\ delivery \in Working /\ delivery' = set_delivery_state(delivery, Target[trace'])
    BY <1>7 DEF RunStops
  <2>2. delivery' \in {Target[trace'], "runnable", "behavior_verified", "delivery_ready"}
    BY <2>1, DeliveryEdges
  <2> QED
    BY <2>1, <2>2
<1>8. CASE ResumeRun \/ BeginRepair \/ Exit \/ PlannerFails \/ RecordCycle \/ Kill
  BY <1>8 DEF ResumeRun, BeginRepair, Exit, PlannerFails, RecordCycle, Kill
<1> QED
  BY <1>1, <1>3, <1>4, <1>5, <1>6, <1>7, <1>8 DEF Next, Worker

\* The state of the two plans, the checkpoints and the Worker is well typed.
THEOREM RepairTypeCorrect == Spec => []TypeOK
<1>1. RepairInv => TypeOK
  BY DEF RepairInv
<1> QED
  BY AlwaysRepair, <1>1, PTL

\* Whatever repairs, nested repairs, crashes and resumes a Trace went through,
\* it is not stranded as completed while delivery work is left.
THEOREM NeverStranded == Spec => []UndeliveredResumable
<1>1. RepairInv => UndeliveredResumable
  <2> SUFFICES ASSUME RepairInv, pc = "off", logged < DeliverySize PROVE Resumable
    BY DEF UndeliveredResumable
  <2>1. CASE trace # "completed"
    BY <2>1 DEF RepairInv, TypeOK, Statuses, Resumable
  <2>2. CASE trace = "completed"
    <3>1. plan # Base
      BY <2>2 DEF RepairInv, ClosedByRepair
    <3>2. dckpt.plan = Base => dckpt.n # DeliverySize
      <4>1. logged \in Nat /\ DeliverySize \in Nat /\ dckpt.n \in Nat
        BY SizeAssumption DEF RepairInv, TypeOK, Checkpoints
      <4> QED
        BY <4>1 DEF RepairInv, ViewsBounded
    <3> QED
      BY <2>2, <3>1, <3>2 DEF Resumable, DeliveryPending
  <2> QED
    BY <2>1, <2>2
<1> QED
  BY AlwaysRepair, <1>1, PTL

\* A run of the delivery DAG starts exactly where the event log left it.
THEOREM DeliveryProgressKept == Spec => []ProgressKept
<1>1. RepairInv => ProgressKept
  BY DEF RepairInv, ProgressKept, RunTracksLog
<1> QED
  BY AlwaysRepair, <1>1, PTL

\* Whatever state earlier Traces and dead Workers left the project in, a run
\* ends in the delivery state its verdict maps to, or in one of the three the
\* machine cannot leave that way.
THEOREM VerdictSetsDelivery == Spec => []DeliveryFollows
<1>1. DeliveryInv => DeliveryFollows
  BY DEF DeliveryInv
<1> QED
  BY AlwaysRepair, InitDelivery, NextDelivery, <1>1, PTL DEF Spec
=============================================================================
