---------------------- MODULE CommitCoordinatorProofs ----------------------
(* Theorems about CommitCoordinator.                                       *)
EXTENDS CommitCoordinator, WellFoundedInduction, FiniteSetTheorems, TLAPS

-----------------------------------------------------------------------------
(* The fence.                                                              *)

LEMMA FenceStep == FenceLifted /\ [Next]_vars => FenceLifted'
<1> SUFFICES ASSUME FenceLifted, [Next]_vars
             PROVE  FenceLifted'
  OBVIOUS
<1> USE DEF FenceLifted
<1>1. ASSUME NEW c \in Caller, CallerStep(c)
      PROVE  FenceLifted'
  BY <1>1 DEF CallerStep, Admit, NoCredits, Notify, WorkerAsleep, Awake
<1>2. CASE Idle \/ Collect \/ CollectTimesOut \/ TakeFirst \/ TakeSecond
  BY <1>2 DEF Idle, Collect, CollectTimesOut, TakeFirst, TakeSecond, WorkerElse
<1>3. CASE Refused \/ CommitSerially \/ CommitBreaks
  BY <1>3 DEF Refused, CommitSerially, CommitBreaks, Committed
<1>4. CASE Reserve
  BY <1>4 DEF Reserve
<1>5. CASE CookFails \/ CookTimesOut \/ Install \/ InstallUndone \/ InstallBreaks
  BY <1>5 DEF CookFails, CookTimesOut, Install, InstallUndone, InstallBreaks, Committed
<1>6. CASE Release \/ Reply
  BY <1>6 DEF Release, Reply
<1>7. ASSUME NEW t \in cooking, Cook(t)
      PROVE  FenceLifted'
  BY <1>7 DEF Cook
<1>8. CASE Spurious \/ Drop
  BY <1>8 DEF Spurious, Drop, WorkerAsleep, Awake
<1>9. CASE Direct \/ DirectBreaks \/ Atomic
  BY <1>9 DEF Direct, DirectBreaks, Atomic
<1>10. CASE UNCHANGED vars
  BY <1>10 DEF vars
<1> QED
  BY <1>1, <1>2, <1>3, <1>4, <1>5, <1>6, <1>7, <1>8, <1>9, <1>10
     DEF Next, WorkerStep, CommitStep

(* A reservation is outstanding exactly while its cohort is being cooked:  *)
(* every path of commit_batch installs or aborts it.                       *)
THEOREM FenceAlwaysLifted == Spec => []FenceLifted
<1>1. Init => FenceLifted
  BY DEF Init, FenceLifted
<1> QED
  BY <1>1, FenceStep, PTL DEF Spec

LEMMA InstallStep ==
    ASSUME [Next]_vars, worker = "cook", worker' # "cook", frames' # frames
    PROVE  Len(frames) = chain[1].checkpoint
<1>1. ASSUME NEW c \in Caller, CallerStep(c)
      PROVE  FALSE
  BY <1>1 DEF CallerStep, Admit, NoCredits, Notify, store
<1>2. CASE Install \/ InstallBreaks
  BY <1>2 DEF Install, InstallBreaks, ActiveMatches
<1>3. CASE Idle \/ Collect \/ CollectTimesOut \/ TakeFirst \/ TakeSecond
  BY <1>3 DEF Idle, Collect, CollectTimesOut, TakeFirst, TakeSecond
<1>4. CASE Refused \/ CommitSerially \/ CommitBreaks \/ Reserve
  BY <1>4 DEF Refused, CommitSerially, CommitBreaks, Reserve
<1>5. CASE CookFails \/ CookTimesOut \/ InstallUndone
  BY <1>5 DEF CookFails, CookTimesOut, InstallUndone, store
<1>6. CASE Release \/ Reply
  BY <1>6 DEF Release, Reply
<1>7. ASSUME NEW t \in cooking, Cook(t)
      PROVE  FALSE
  BY <1>7 DEF Cook
<1>8. CASE Spurious \/ Drop
  BY <1>8 DEF Spurious, Drop, store
<1>9. CASE Direct \/ DirectBreaks \/ Atomic
  BY <1>9 DEF Direct, DirectBreaks, Atomic
<1>10. CASE UNCHANGED vars
  BY <1>10 DEF vars
<1> QED
  BY <1>1, <1>2, <1>3, <1>4, <1>5, <1>6, <1>7, <1>8, <1>9, <1>10
     DEF Next, WorkerStep, CommitStep

(* Whatever other users of the store do between the reservation and the    *)
(* install, install_operation_put_reservation writes the cohort at the     *)
(* reserved checkpoint or not at all.                                      *)
THEOREM AlwaysInstalledAsReserved == Spec => InstalledAsReserved
<1>1. [Next]_vars => [(worker = "cook" /\ worker' # "cook" /\ frames' # frames)
                        => Len(frames) = chain[1].checkpoint]_vars
  BY InstallStep
<1> QED
  BY <1>1, PTL DEF Spec, InstalledAsReserved

-----------------------------------------------------------------------------
(* The shared condition variable.                                          *)

CallTypes ==
    /\ request \in [Caller -> Request]
    /\ call \in [Caller -> {"idle", "sleep", "woken", "notify", "done"}]

NobodyWaits == \A r \in Request : ~r.waits

(* With nobody asleep but the worker, notify_one finds the worker.         *)
WakeInv == CallTypes /\ Asleep = {} /\ WorkSeen

LEMMA WakeStep == NobodyWaits /\ WakeInv /\ [Next]_vars => WakeInv'
<1> SUFFICES ASSUME NobodyWaits, WakeInv, [Next]_vars
             PROVE  WakeInv'
  OBVIOUS
<1> USE DEF WakeInv, CallTypes, Asleep, WorkSeen
<1>1. ASSUME NEW c \in Caller, Admit(c)
      PROVE  WakeInv'
  BY <1>1 DEF Admit
<1>2. ASSUME NEW c \in Caller, NoCredits(c)
      PROVE  WakeInv'
  <2>1. ~request[c].waits
    BY DEF NobodyWaits
  <2>2. call' = [call EXCEPT ![c] = "done"]
    BY <1>2, <2>1, Zenon DEF NoCredits
  <2>3. UNCHANGED <<request, worker, queue>>
    BY <1>2 DEF NoCredits, ledger
  <2>4. call[c] # "notify"
    BY <1>2 DEF NoCredits, Enters
  <2> QED
    BY <2>2, <2>3, <2>4
<1>3. ASSUME NEW c \in Caller, Notify(c)
      PROVE  WakeInv'
  BY <1>3 DEF Notify, WorkerAsleep, Awake, ledger
<1>4. CASE Idle \/ Collect \/ CollectTimesOut \/ TakeFirst \/ TakeSecond
  BY <1>4, Zenon DEF Idle, Collect, CollectTimesOut, TakeFirst, TakeSecond, WorkerElse, callers
<1>5. CASE CommitStep
  BY <1>5, ZenonT(30) DEF CommitStep, Refused, CommitSerially, CommitBreaks, Reserve, CookFails,
              CookTimesOut, Install, InstallUndone, InstallBreaks, Committed,
              CommitElse, callers, ledger
<1>6. CASE Release \/ Reply
  BY <1>6 DEF Release, Reply, ledger
<1>7. ASSUME NEW t \in cooking, Cook(t)
      PROVE  WakeInv'
  BY <1>7 DEF Cook, callers, ledger
<1>8. CASE Spurious \/ Drop
  BY <1>8 DEF Spurious, Drop, WorkerAsleep, Awake, ledger, callers
<1>9. CASE Direct \/ DirectBreaks \/ Atomic
  BY <1>9 DEF Direct, DirectBreaks, Atomic, callers, ledger
<1>10. CASE UNCHANGED vars
  BY <1>10 DEF vars, callers, ledger
<1> QED
  BY <1>1, <1>2, <1>3, <1>4, <1>5, <1>6, <1>7, <1>8, <1>9, <1>10
     DEF Next, WorkerStep, CallerStep

(* When no call waits for credits (all come through try_submit_put and     *)
(* try_submit_delete), the worker never sleeps over a queue that is not    *)
(* empty unless an admit is about to notify it.                            *)
THEOREM WorkAlwaysSeen ==
    ASSUME NobodyWaits
    PROVE  Spec => []WorkSeen
<1>1. Init => WakeInv
  BY DEF Init, WakeInv, CallTypes, Asleep, WorkSeen
<1>2. WakeInv /\ [Next]_vars => WakeInv'
  BY WakeStep
<1>3. WakeInv => WorkSeen
  BY DEF WakeInv
<1> QED
  BY <1>1, <1>2, <1>3, PTL DEF Spec

-----------------------------------------------------------------------------
(* Pairs of cohorts.                                                       *)

(* What take_batch may return: one entry, or several within the bounds.    *)
Bounded(batch) ==
    /\ batch \in Seq(Caller)
    /\ Len(batch) <= CohortEntries
    /\ Len(batch) > 1 => Bytes(batch) \in 0..CohortBytes

(* A nonempty set of numbers up to k has a largest one.                    *)
LEMMA MaxExists ==
    ASSUME NEW k \in Nat, NEW S, S \subseteq 0..k, S # {}
    PROVE  Max(S) \in S /\ \A y \in S : Max(S) >= y
<1> DEFINE D == {n \in Nat : k - n \in S}
<1>1. PICK x \in S : TRUE
  BY ZenonT(30)
<1>2. k - x \in D
  BY <1>1
<1>3. PICK m \in D : \A y \in D : ~(<<y, m>> \in OpToRel(<, Nat))
  <2>1. D \subseteq Nat /\ D # {}
    BY <1>2
  <2> HIDE DEF D
  <2> QED
    BY <2>1, WFMin, NatLessThanWellFounded, Zenon
<1>4. \A y \in D : ~(y < m)
  BY <1>3, Zenon DEF OpToRel
<1>5. k - m \in S /\ \A y \in S : k - m >= y
  <2>1. ASSUME NEW y \in S
        PROVE  k - m >= y
    <3>1. k - y \in D
      OBVIOUS
    <3>2. ~(k - y < m)
      BY <3>1, <1>4
    <3> QED
      BY <3>2
  <2> QED
    BY <2>1
<1> QED
  BY <1>5, ZenonT(30) DEF Max

LEMMA TakeBatchBounded ==
    ASSUME NEW q \in Seq(Caller)
    PROVE  /\ Bounded(TakeBatch(q))
           /\ q # <<>> => TakeBatch(q) # <<>>
           /\ Len(TakeBatch(q)) \in 0..Len(q)
           /\ \A i \in 1..Len(TakeBatch(q)) : TakeBatch(q)[i] = q[i]
<1> DEFINE fits == {n \in 0..Min2(Len(q), CohortEntries) :
                       n > 1 => Bytes(SubSeq(q, 1, n)) \in 0..CohortBytes}
           n == Max(fits)
<1>1. Min2(Len(q), CohortEntries) \in Nat
  BY CohortAssumption DEF Min2
<1>2. 0 \in fits
  BY <1>1
<1>3. n \in fits /\ \A y \in fits : n >= y
  <2>1. fits \subseteq 0..Min2(Len(q), CohortEntries) /\ fits # {}
    BY <1>2
  <2> HIDE DEF fits
  <2> QED
    BY <1>1, <2>1, MaxExists, ZenonT(30)
<1>4. /\ n \in 0..Len(q) /\ n <= CohortEntries
      /\ n > 1 => Bytes(SubSeq(q, 1, n)) \in 0..CohortBytes
  BY <1>3, CohortAssumption DEF Min2
<1>5. TakeBatch(q) = SubSeq(q, 1, n)
  BY DEF TakeBatch
<1>7. q # <<>> => n >= 1
  <2>1. q # <<>> => 1 \in fits
    BY CohortAssumption DEF Min2
  <2> QED
    BY <1>3, <2>1
<1> HIDE DEF n
<1>6. /\ SubSeq(q, 1, n) \in Seq(Caller) /\ Len(SubSeq(q, 1, n)) = n
      /\ \A i \in 1..n : SubSeq(q, 1, n)[i] = q[i]
  BY <1>4
<1>8. q # <<>> => SubSeq(q, 1, n) # <<>>
  BY <1>6, <1>7
<1> QED
  BY <1>4, <1>5, <1>6, <1>8 DEF Bounded

LEMMA SuffixType ==
    ASSUME NEW q \in Seq(Caller), NEW k \in Nat
    PROVE  SubSeq(q, k + 1, Len(q)) \in Seq(Caller)
  OBVIOUS

(* Two batches of two or more fit together.                                *)
LEMMA GatherSingleton ==
    ASSUME NEW first, Bounded(first), first # <<>>,
           NEW second, Bounded(second)
    PROVE  /\ Len(Gather(first, second)) \in {1, 2}
           /\ Len(Gather(first, second)) = 2 =>
                 \/ Len(Gather(first, second)[1]) = 1
                 \/ Len(Gather(first, second)[2]) = 1
<1>1. CASE second = <<>>
  BY <1>1 DEF Gather
<1>2. CASE second # <<>> /\ Len(first) > 1 /\ Len(second) > 1
  <2>1. Bytes(first) + Bytes(second) <= GatheredBytes
    BY <1>2, CohortAssumption DEF Bounded, GatheredBytes
  <2>2. Len(first) + Len(second) <= GatheredEntries
    BY CohortAssumption DEF Bounded, GatheredEntries
  <2> QED
    BY <1>2, <2>1, <2>2 DEF Gather
<1>3. CASE second # <<>> /\ ~(Len(first) > 1 /\ Len(second) > 1)
  <2>3. first \in Seq(Caller) /\ second \in Seq(Caller)
    BY DEF Bounded
  <2>4. Len(first) \in Nat \ {0}
    BY <2>3
  <2>5. Len(second) \in Nat \ {0}
    BY <1>3, <2>3
  <2>6. ASSUME NEW m \in Nat \ {0}, NEW n \in Nat \ {0}, ~(m > 1 /\ n > 1)
        PROVE  m = 1 \/ n = 1
    BY <2>6
  <2>1. Len(first) = 1 \/ Len(second) = 1
    BY <1>3, <2>4, <2>5, <2>6, Zenon
  <2>2. Gather(first, second) \in {<<first \o second>>, <<first, second>>}
    BY <1>3 DEF Gather
  <2> QED
    BY <2>1, <2>2
<1> QED
  BY <1>1, <1>2, <1>3

PairInv ==
    /\ queue \in Seq(Caller)
    /\ PairHasSingleton
    /\ worker \in {"follow", "refill", "retake"} =>
          Len(cohorts) = 1 /\ cohorts[1] # <<>> /\ Bounded(cohorts[1])

LEMMA TakeFirstPair == PairInv /\ TakeFirst => PairInv'
<1> SUFFICES ASSUME PairInv, TakeFirst
             PROVE  PairInv'
  OBVIOUS
<1> DEFINE first == TakeBatch(queue)
           rest == SubSeq(queue, Len(first) + 1, Len(queue))
           second == TakeBatch(rest)
<1>1. queue \in Seq(Caller) /\ queue # <<>>
  BY DEF PairInv, TakeFirst
<1>2. Bounded(first) /\ first # <<>>
  BY <1>1, TakeBatchBounded
<1>3. first \in Seq(Caller)
  BY <1>2 DEF Bounded
<1>4. rest \in Seq(Caller)
  BY <1>1, <1>3
<1>5. Bounded(second) /\ second \in Seq(Caller)
  BY <1>4, TakeBatchBounded, ZenonT(30) DEF Bounded
<1>6. request' = request
  BY DEF TakeFirst, WorkerElse, callers
<1>7. \/ worker' = "follow" /\ cohorts' = <<first>> /\ Taken(first)
      \/ worker' = "commit" /\ cohorts' = Gather(first, second) /\ Taken(first \o second)
  BY DEF TakeFirst
<1>8. queue' \in Seq(Caller)
  <2>1. first \o second \in Seq(Caller)
    BY <1>3, <1>5
  <2>2. Len(first) \in Nat /\ Len(first \o second) \in Nat
    BY <1>3, <2>1
  <2> HIDE DEF first, second
  <2> QED
    BY <1>1, <1>7, <2>2, SuffixType, ZenonT(30) DEF Taken
<1> HIDE DEF first, second
<1>9. CASE worker' = "follow" /\ cohorts' = <<first>>
  BY <1>2, <1>6, <1>8, <1>9 DEF PairInv, PairHasSingleton, Bounded, Bytes
<1>10. CASE worker' = "commit" /\ cohorts' = Gather(first, second)
  BY <1>2, <1>5, <1>8, <1>10, GatherSingleton DEF PairInv, PairHasSingleton
<1> QED
  BY <1>7, <1>9, <1>10

LEMMA TakeSecondPair == PairInv /\ TakeSecond => PairInv'
<1> SUFFICES ASSUME PairInv, TakeSecond
             PROVE  PairInv'
  OBVIOUS
<1> DEFINE second == TakeBatch(queue)
<1>1. queue \in Seq(Caller) /\ cohorts[1] # <<>> /\ Bounded(cohorts[1])
  BY DEF PairInv, TakeSecond
<1>2. Bounded(second) /\ second \in Seq(Caller)
  BY <1>1, TakeBatchBounded DEF Bounded
<1>3. worker' = "commit" /\ cohorts' = Gather(cohorts[1], second) /\ Taken(second)
  BY DEF TakeSecond
<1> HIDE DEF second
<1>4. queue' \in Seq(Caller)
  BY <1>1, <1>2, <1>3 DEF Taken
<1> QED
  BY <1>1, <1>2, <1>3, <1>4, GatherSingleton DEF PairInv, PairHasSingleton

LEMMA PairStep == PairInv /\ [Next]_vars => PairInv'
<1> SUFFICES ASSUME PairInv, [Next]_vars
             PROVE  PairInv'
  OBVIOUS
<1> USE DEF PairInv, PairHasSingleton, Bounded, Bytes
<1>1. ASSUME NEW c \in Caller, CallerStep(c)
      PROVE  PairInv'
  <2>1. UNCHANGED <<request, cohorts>> /\ queue' \in {queue, Append(queue, c)}
    BY <1>1, Zenon DEF CallerStep, Admit, NoCredits, Notify, ledger
  <2>2. worker' \in {worker, Awake(worker)}
    BY <1>1, Zenon DEF CallerStep, Admit, NoCredits, Notify
  <2>3. queue' \in Seq(Caller)
    BY <2>1
  <2> QED
    BY <2>1, <2>2, <2>3 DEF Awake
<1>2. CASE Idle \/ Collect \/ CollectTimesOut
  BY <1>2 DEF Idle, Collect, CollectTimesOut, WorkerElse, callers
<1>3. CASE TakeFirst
  BY <1>3, TakeFirstPair
<1>4. CASE TakeSecond
  BY <1>4, TakeSecondPair
<1>5. CASE CommitStep
  BY <1>5, ZenonT(30) DEF CommitStep, Refused, CommitSerially, CommitBreaks, Reserve, CookFails,
              CookTimesOut, Install, InstallUndone, InstallBreaks, Committed,
              CommitElse, ledger
<1>6. CASE Release \/ Reply
  BY <1>6 DEF Release, Reply, ledger
<1>7. ASSUME NEW t \in cooking, Cook(t)
      PROVE  PairInv'
  BY <1>7 DEF Cook, callers, ledger
<1>8. CASE Spurious \/ Drop
  BY <1>8 DEF Spurious, Drop, WorkerAsleep, Awake, ledger, callers
<1>9. CASE Direct \/ DirectBreaks \/ Atomic
  BY <1>9 DEF Direct, DirectBreaks, Atomic, callers, ledger
<1>10. CASE UNCHANGED vars
  BY <1>10, Zenon DEF vars, callers, ledger
<1> QED
  BY <1>1, <1>2, <1>3, <1>4, <1>5, <1>6, <1>7, <1>8, <1>9, <1>10, Zenon
     DEF Next, WorkerStep

(* Of two cohorts that install_batch_pair does not merge, one has a single *)
(* entry, whatever the bounds: the branch of commit_batch_pair in which a  *)
(* follower is reserved over a predecessor never runs.                     *)
THEOREM PairAlwaysHasSingleton == Spec => []PairHasSingleton
<1>1. Init => PairInv
  BY DEF Init, PairInv, PairHasSingleton
<1>2. PairInv => PairHasSingleton
  BY DEF PairInv
<1> QED
  BY <1>1, <1>2, PairStep, PTL DEF Spec

-----------------------------------------------------------------------------
(* The members of a cohort that are written.                               *)

LEMMA MinExists ==
    ASSUME NEW S, S \subseteq Nat, S # {}
    PROVE  \E x \in S : \A y \in S : x <= y
<1>1. PICK x \in S : \A y \in S : ~(<<y, x>> \in OpToRel(<, Nat))
  BY WFMin, NatLessThanWellFounded, Zenon
<1>2. \A y \in S : ~(y < x)
  BY <1>1, Zenon DEF OpToRel
<1> QED BY <1>2

LEMMA InInterval ==
    ASSUME NEW n \in Nat, NEW S, S \subseteq 1..n, NEW i \in S
    PROVE  i \in 1..n /\ i \in Nat /\ 1 <= i /\ i <= n
<1>1. i \in 1..n
  BY Zenon
<1> QED BY <1>1

(* How many members of S are not after i.                                  *)
Rank(S, i) == Cardinality({j \in S : j <= i})

LEMMA RankFinite ==
    ASSUME NEW n \in Nat, NEW S, S \subseteq 1..n
    PROVE  /\ IsFiniteSet(S) /\ Cardinality(S) \in Nat
           /\ \A i : /\ IsFiniteSet({j \in S : j <= i})
                     /\ Rank(S, i) \in Nat /\ Rank(S, i) <= Cardinality(S)
<1>1. IsFiniteSet(S)
  <2>1. 1 \in Int /\ n \in Int
    OBVIOUS
  <2>2. IsFiniteSet(1..n)
    BY <2>1, FS_Interval, Zenon
  <2>3. S \in SUBSET (1..n)
    BY Zenon
  <2> QED BY <2>2, <2>3, FS_Subset, Zenon
<1>2. \A i : {j \in S : j <= i} \in SUBSET S
  OBVIOUS
<1> QED BY <1>1, <1>2, FS_Subset, FS_CardinalityType, Zenon DEF Rank

LEMMA RankGrows ==
    ASSUME NEW n \in Nat, NEW S, S \subseteq 1..n, NEW i \in S, NEW j \in S, i < j
    PROVE  Rank(S, i) < Rank(S, j)
<1>1. PICK A : A = {k \in S : k <= i}
  BY Zenon
<1>2. PICK B : B = {k \in S : k <= j}
  BY Zenon
<1>3. /\ IsFiniteSet(A) /\ IsFiniteSet(B)
      /\ Rank(S, i) = Cardinality(A) /\ Rank(S, j) = Cardinality(B)
      /\ Cardinality(A) \in Nat /\ Cardinality(B) \in Nat
  BY <1>1, <1>2, RankFinite, Zenon DEF Rank
<1>4. A \in SUBSET (B \ {j}) /\ j \in B
  <2>1. \A k \in S : k \in Nat
    BY InInterval, Zenon
  <2>2. ASSUME NEW k \in Nat, NEW u \in Nat, NEW v \in Nat, u < v
        PROVE  v <= v /\ (k <= u => k <= v /\ k # v)
    BY <2>2
  <2> QED BY <1>1, <1>2, <2>1, <2>2, Zenon
<1>5. IsFiniteSet(B \ {j}) /\ Cardinality(B \ {j}) = Cardinality(B) - 1
  BY <1>3, <1>4, FS_RemoveElement
<1>6. Cardinality(A) <= Cardinality(B \ {j})
  BY <1>4, <1>5, FS_Subset, Zenon
<1> QED BY <1>3, <1>5, <1>6

LEMMA RankPositive ==
    ASSUME NEW n \in Nat, NEW S, S \subseteq 1..n, NEW i \in S
    PROVE  Rank(S, i) \in 1..Cardinality(S)
<1>1. PICK A : A = {k \in S : k <= i}
  BY Zenon
<1>2. IsFiniteSet(A) /\ Rank(S, i) = Cardinality(A)
  BY <1>1, RankFinite, Zenon DEF Rank
<1>3. i \in A
  BY <1>1
<1>4. Cardinality(A) # 0
  BY <1>2, <1>3, FS_EmptySet
<1>5. Rank(S, i) \in Nat /\ Rank(S, i) <= Cardinality(S) /\ Cardinality(S) \in Nat
  BY RankFinite, Zenon
<1> QED BY <1>2, <1>4, <1>5

(* Every rank up to the number of members is the rank of one.              *)
LEMMA RankReached ==
    ASSUME NEW n \in Nat, NEW S, S \subseteq 1..n, NEW k \in 1..Cardinality(S)
    PROVE  \E i \in S : Rank(S, i) = k
<1>1. IsFiniteSet(S) /\ Cardinality(S) \in Nat /\ S # {}
  <2>1. IsFiniteSet(S) /\ Cardinality(S) \in Nat
    BY RankFinite, Zenon
  <2>2. Cardinality(S) # 0
    BY <2>1
  <2> QED BY <2>1, <2>2, FS_EmptySet, Zenon
<1>2. S \subseteq 0..n
  OBVIOUS
<1>3. Max(S) \in S /\ \A y \in S : Max(S) >= y
  BY <1>1, <1>2, MaxExists, ZenonT(30)
<1>4. PICK T : T = {i \in S : Rank(S, i) >= k}
  BY Zenon
<1>5. Max(S) \in T
  <2>1. {j \in S : j <= Max(S)} = S
    BY <1>2, <1>3, ZenonT(30)
  <2>2. Rank(S, Max(S)) = Cardinality(S)
    BY <2>1, Zenon DEF Rank
  <2> QED BY <1>1, <1>3, <1>4, <2>2
<1>6. PICK i \in T : \A y \in T : i <= y
  <2>1. T \subseteq Nat /\ T # {}
    BY <1>4, <1>5, InInterval, Zenon
  <2> QED BY <2>1, MinExists, Zenon
<1>7. i \in S /\ i \in 1..n /\ Rank(S, i) >= k /\ Rank(S, i) \in Nat
  BY <1>4, <1>6, RankFinite, InInterval, Zenon
<1>8. CASE Rank(S, i) > k
  <2>1. PICK A : A = {j \in S : j <= i}
    BY Zenon
  <2>2. PICK B : B = A \ {i}
    BY Zenon
  <2>3. IsFiniteSet(A) /\ Rank(S, i) = Cardinality(A) /\ i \in A
    <3>1. i <= i
      BY <1>7
    <3> QED BY <1>7, <2>1, <3>1, RankFinite, Zenon DEF Rank
  <2>4. IsFiniteSet(B) /\ Cardinality(B) = Rank(S, i) - 1
    BY <2>2, <2>3, FS_RemoveElement
  <2>5. B # {} /\ B \subseteq 0..n
    <3>1. Cardinality(B) # 0
      BY <1>7, <1>8, <2>4
    <3>2. B # {}
      BY <2>4, <3>1, FS_EmptySet, Zenon
    <3>3. B \subseteq S
      BY <2>1, <2>2, Zenon
    <3>4. S \subseteq 0..n
      BY <1>2
    <3> QED BY <3>2, <3>3, <3>4, Zenon
  <2>6. Max(B) \in B /\ \A y \in B : Max(B) >= y
    BY <2>5, MaxExists, ZenonT(30)
  <2>7. PICK m : m = Max(B)
    BY Zenon
  <2>8. m \in S /\ m <= i /\ m # i /\ m \in 1..n
    <3>1. m \in S /\ m <= i /\ m # i
      BY <2>1, <2>2, <2>6, <2>7, Zenon
    <3> QED BY <3>1, InInterval, Zenon
  <2>9. {j \in S : j <= m} = B
    <3>1. \A j \in S : j \in Nat
      BY InInterval, Zenon
    <3>2. ASSUME NEW j \in S, j <= m PROVE j \in B
      <4>1. j <= i /\ j # i
        BY <1>7, <2>8, <3>1, <3>2
      <4> QED BY <2>1, <2>2, <4>1, Zenon
    <3>3. ASSUME NEW j \in B PROVE j \in S /\ j <= m
      <4>1. j \in S /\ m >= j
        BY <2>1, <2>2, <2>6, <2>7, Zenon
      <4> QED BY <2>8, <3>1, <4>1
    <3> QED BY <3>2, <3>3, Zenon
  <2>10. Rank(S, m) = Rank(S, i) - 1
    BY <2>4, <2>9, Zenon DEF Rank
  <2>11. m \in T
    <3>1. Rank(S, m) >= k
      BY <1>7, <1>8, <2>10
    <3> QED BY <1>4, <2>8, <3>1, Zenon
  <2> QED BY <1>6, <1>7, <2>8, <2>11
<1> QED BY <1>7, <1>8

(* W is a part of C, in C's order: the entries of C at the indexes pos.    *)
Picks(W, C, pos) ==
    /\ W \in Seq(Caller) /\ pos \in [1..Len(W) -> 1..Len(C)]
    /\ \A k \in 1..Len(W) : W[k] = C[pos[k]]
    /\ \A k, l \in 1..Len(W) : k < l => pos[k] < pos[l]

(* SelectSeq by rank: Written has the members whose outcome is ok, all of  *)
(* them, in the order of the cohort.                                       *)
LEMMA WrittenFacts ==
    ASSUME Cohort \in Seq(Caller), NEW outcomes
    PROVE  /\ \E pos : Picks(Written(outcomes), Cohort, pos)
           /\ \A k \in 1..Len(Written(outcomes)) : outcomes[Written(outcomes)[k]] = "ok"
           /\ \A i \in 1..Len(Cohort) : outcomes[Cohort[i]] = "ok" =>
                 \E k \in 1..Len(Written(outcomes)) : Written(outcomes)[k] = Cohort[i]
<1>1. PICK C : C = Cohort
  BY Zenon
<1>2. PICK ok : ok = {i \in DOMAIN Cohort : outcomes[Cohort[i]] = "ok"}
  BY Zenon
<1>3. PICK N : N = Cardinality(ok)
  BY Zenon
<1>4. PICK pos : pos = [k \in 1..N |-> CHOOSE i \in ok : Rank(ok, i) = k]
  BY Zenon
<1>5. PICK W : W = Written(outcomes)
  BY Zenon
<1>6. C \in Seq(Caller) /\ Len(C) \in Nat /\ DOMAIN C = 1..Len(C)
  BY <1>1
<1>7. ok \subseteq 1..Len(C)
  BY <1>1, <1>2, <1>6, Zenon
<1>8. N \in Nat
  BY <1>3, <1>6, <1>7, RankFinite, Zenon
<1>9. ASSUME NEW k \in 1..N
      PROVE  pos[k] \in ok /\ Rank(ok, pos[k]) = k
  <2>1. \E i \in ok : Rank(ok, i) = k
    BY <1>3, <1>6, <1>7, RankReached, Zenon
  <2> QED BY <1>4, <2>1, Zenon
<1>10. W = [k \in 1..N |-> C[CHOOSE i \in ok : Cardinality({j \in ok : j <= i}) = k]]
  <2>1. W = Members(C, ok)
    BY <1>1, <1>2, <1>5, Zenon DEF Written
  <2> QED BY <1>3, <2>1, Zenon DEF Members
<1>11. ASSUME NEW k \in 1..N
       PROVE  W[k] = C[pos[k]] /\ C[pos[k]] \in Caller
  <2>1. pos[k] = CHOOSE i \in ok : Cardinality({j \in ok : j <= i}) = k
    BY <1>4, Zenon DEF Rank
  <2>2. W[k] = C[pos[k]]
    BY <1>10, <2>1, Zenon
  <2>3. pos[k] \in 1..Len(C)
    BY <1>7, <1>9, Zenon
  <2> QED BY <1>6, <2>2, <2>3
<1>12. W \in Seq(Caller) /\ Len(W) = N
  <2>1. W \in [1..N -> Caller]
    BY <1>10, <1>11, Zenon
  <2> QED BY <1>8, <2>1
<1>13. pos \in [1..N -> 1..Len(C)]
  BY <1>4, <1>7, <1>9, Zenon
<1>14. ASSUME NEW k \in 1..N, NEW l \in 1..N, k < l
       PROVE  pos[k] < pos[l]
  <2>1. pos[k] \in ok /\ pos[l] \in ok /\ pos[k] \in Nat /\ pos[l] \in Nat
    BY <1>6, <1>7, <1>9, InInterval, Zenon
  <2>2. Rank(ok, pos[k]) = k /\ Rank(ok, pos[l]) = l
    BY <1>9, Zenon
  <2>3. pos[k] # pos[l]
    BY <1>14, <2>2
  <2>4. ~(pos[l] < pos[k])
    <3> SUFFICES ASSUME pos[l] < pos[k] PROVE FALSE
      OBVIOUS
    <3>1. Rank(ok, pos[l]) < Rank(ok, pos[k])
      BY <1>6, <1>7, <2>1, RankGrows, Zenon
    <3> QED BY <1>14, <2>2, <3>1
  <2> QED BY <2>1, <2>3, <2>4
<1>15. Picks(W, C, pos)
  BY <1>11, <1>12, <1>13, <1>14, Zenon DEF Picks
<1>16. \A k \in 1..N : outcomes[W[k]] = "ok"
  BY <1>1, <1>2, <1>9, <1>11, Zenon
<1>17. ASSUME NEW i \in 1..Len(C), outcomes[C[i]] = "ok"
       PROVE  \E k \in 1..N : W[k] = C[i]
  <2>1. i \in ok
    BY <1>1, <1>2, <1>6, <1>17, Zenon
  <2>2. PICK k \in 1..N : k = Rank(ok, i)
    BY <1>3, <1>6, <1>7, <2>1, RankPositive, Zenon
  <2>3. Rank(ok, pos[k]) = Rank(ok, i) /\ pos[k] \in ok
    BY <1>9, <2>2, Zenon
  <2>4. pos[k] \in Nat /\ i \in Nat
    BY <1>6, <1>7, <2>1, <2>3, InInterval, Zenon
  <2>5. ~(pos[k] < i) /\ ~(i < pos[k])
    <3>1. pos[k] < i => Rank(ok, pos[k]) < Rank(ok, i)
      BY <1>6, <1>7, <2>1, <2>3, RankGrows, Zenon
    <3>2. i < pos[k] => Rank(ok, i) < Rank(ok, pos[k])
      BY <1>6, <1>7, <2>1, <2>3, RankGrows, Zenon
    <3>3. Rank(ok, i) \in Nat
      BY <1>6, <1>7, RankFinite, Zenon
    <3> QED BY <2>3, <3>1, <3>2, <3>3
  <2>6. pos[k] = i
    BY <2>4, <2>5
  <2> QED BY <1>11, <2>6
<1> QED BY <1>1, <1>5, <1>12, <1>15, <1>16, <1>17, Zenon

(* A cohort is a part of itself, and so is the beginning of a part.        *)
LEMMA PicksAll ==
    ASSUME NEW C \in Seq(Caller)
    PROVE  \E pos : Picks(C, C, pos)
<1>1. PICK pos : pos = [i \in 1..Len(C) |-> i]
  BY Zenon
<1>2. Picks(C, C, pos)
  BY <1>1 DEF Picks
<1> QED BY <1>2

LEMMA PicksPrefix ==
    ASSUME NEW W, NEW C \in Seq(Caller), NEW pos, Picks(W, C, pos), NEW n \in 0..Len(W)
    PROVE  \E p : Picks(SubSeq(W, 1, n), C, p)
<1>1. PICK p : p = [k \in 1..n |-> pos[k]]
  BY Zenon
<1>2. W \in Seq(Caller) /\ Len(W) \in Nat
  BY DEF Picks
<1>3. PICK V : V = SubSeq(W, 1, n)
  BY Zenon
<1>4. V \in Seq(Caller) /\ Len(V) = n /\ \A k \in 1..n : V[k] = W[k]
  BY <1>2, <1>3
<1>5. Picks(V, C, p)
  <2>1. \A k \in 1..n : k \in 1..Len(W)
    BY <1>2
  <2>2. \A k \in 1..n : p[k] = pos[k] /\ pos[k] \in 1..Len(C)
    BY <1>1, <2>1, Zenon DEF Picks
  <2>3. p \in [1..n -> 1..Len(C)]
    BY <1>1, <2>2, Zenon
  <2> QED BY <1>4, <2>1, <2>2, <2>3, Zenon DEF Picks
<1> QED BY <1>3, <1>5

-----------------------------------------------------------------------------
(* The way of a call from the queue to the active segment.                 *)

Early == {"lock", "sleep", "collect", "fill", "take", "stopped"}
Waiting == {"follow", "refill", "retake"}
Busy == {"commit", "cook"}
Late == {"finish", "reply"}

(* How many admitted calls have left the queue.                            *)
Passed == Len(order) - Len(queue)

(* How many were admitted before the first of cohort k of g, if those of   *)
(* the last cohort are the last of the first passed.                       *)
StartOf(g, passed, k) ==
    IF k = Len(g) THEN passed - Len(g[k]) ELSE passed - Len(g[1]) - Len(g[2])

(* How many admitted calls the worker has committed or failed.             *)
Reached == IF worker \in Waiting \cup Busy THEN StartOf(cohorts, Passed, turn) ELSE Passed

(* Cohorts hold calls in the order of their admission.                     *)
Laid(g, passed, ord) ==
    \A k \in 1..Len(g) :
        /\ StartOf(g, passed, k) >= 0
        /\ \A i \in 1..Len(g[k]) : g[k][i] = ord[StartOf(g, passed, k) + i]

CallPlaces == {"idle", "sleep", "woken", "notify", "done"}
Admitted == {"notify", "done"}

FlowTypes ==
    /\ request \in [Caller -> Request] /\ call \in [Caller -> CallPlaces]
    /\ queue \in Seq(Caller) /\ order \in Seq(Caller) /\ cohorts \in Seq(Seq(Caller))

Stages ==
    \/ worker \in Early /\ cohorts = <<>>
    \/ worker \in Waiting /\ Len(cohorts) = 1 /\ turn = 1
    \/ worker \in Busy \cup Late /\ Len(cohorts) \in {1, 2} /\ turn \in 1..Len(cohorts)

Queued == Len(queue) <= Len(order) /\ \A i \in 1..Len(queue) : queue[i] = order[Passed + i]

Distinct == \A i, j \in 1..Len(order) : order[i] = order[j] => i = j

OrderAdmitted == \A i \in 1..Len(order) : call[order[i]] \in Admitted

FlowInv ==
    FlowTypes /\ Stages /\ Queued /\ Distinct /\ OrderAdmitted /\ Laid(cohorts, Passed, order)

LEMMA OneOrTwo ==
    ASSUME NEW L \in {1, 2}
    PROVE  /\ 1 \in 1..L
           /\ \A t \in 1..L : t # L => (t = 1 /\ L = 2)
           /\ \A t \in 1..L : t < L => (t = 1 /\ L = 2 /\ t + 1 = 2)
           /\ \A t \in 1..L : ~(t < L) => (t = L)
  OBVIOUS

LEMMA FlowNumbers ==
    ASSUME FlowInv
    PROVE  /\ Len(queue) \in Nat /\ Len(order) \in Nat /\ Passed \in Nat /\ Passed <= Len(order)
           /\ Len(cohorts) \in 0..2
           /\ \A k \in 1..Len(cohorts) : cohorts[k] \in Seq(Caller) /\ Len(cohorts[k]) \in Nat
<1>1. queue \in Seq(Caller) /\ order \in Seq(Caller) /\ cohorts \in Seq(Seq(Caller))
  BY Zenon DEF FlowInv, FlowTypes
<1>2. Len(queue) \in Nat /\ Len(order) \in Nat
  BY <1>1
<1>3. Len(queue) <= Len(order)
  BY Zenon DEF FlowInv, Queued
<1>4. Len(cohorts) \in 0..2
  <2>1. Len(cohorts) \in {0, 1, 2}
    <3>1. cohorts = <<>> => Len(cohorts) = 0
      OBVIOUS
    <3> QED BY <3>1 DEF FlowInv, Stages
  <2> QED BY <2>1
<1>5. \A k \in 1..Len(cohorts) : cohorts[k] \in Seq(Caller) /\ Len(cohorts[k]) \in Nat
  BY <1>1
<1> QED BY <1>2, <1>3, <1>4, <1>5 DEF Passed

(* The places of the members of a cohort are before passed.                *)
LEMMA LaidBelow ==
    ASSUME NEW g \in Seq(Seq(Caller)), Len(g) \in 0..2, NEW passed \in Nat, NEW ord,
           Laid(g, passed, ord), NEW k \in 1..Len(g), NEW i \in 1..Len(g[k])
    PROVE  /\ StartOf(g, passed, k) \in Nat /\ StartOf(g, passed, k) + i \in 1..passed
           /\ g[k][i] = ord[StartOf(g, passed, k) + i]
<1>1. \A j \in 1..Len(g) : g[j] \in Seq(Caller) /\ Len(g[j]) \in Nat
  OBVIOUS
<1>2. StartOf(g, passed, k) \in Int /\ StartOf(g, passed, k) + Len(g[k]) <= passed
  <2>1. CASE k = Len(g)
    BY <1>1, <2>1 DEF StartOf
  <2>2. CASE k # Len(g)
    <3>1. Len(g) = 2 /\ k = 1
      <4>1. ASSUME NEW L \in 0..2, NEW j \in 1..L, j # L PROVE L = 2 /\ j = 1
        BY <4>1
      <4> QED BY <2>2, <4>1, Zenon
    <3>2. Len(g[1]) \in Nat /\ Len(g[2]) \in Nat
      BY <1>1, <3>1
    <3> QED BY <2>2, <3>1, <3>2 DEF StartOf
  <2> QED BY <2>1, <2>2
<1>3. StartOf(g, passed, k) >= 0 /\ g[k][i] = ord[StartOf(g, passed, k) + i]
  BY DEF Laid
<1>4. Len(g[k]) \in Nat
  BY <1>1
<1> QED BY <1>2, <1>3, <1>4, SMTT(30)

(* a is what ord has after its first s.                                    *)
Follows(a, ord, s) == \A i \in 1..Len(a) : a[i] = ord[s + i]

(* install_batch_pair keeps the order, merged or not.                      *)
LEMMA GatherLaid ==
    ASSUME NEW a \in Seq(Caller), NEW b \in Seq(Caller), NEW ord, NEW s \in Nat,
           Follows(a, ord, s), Follows(b, ord, s + Len(a))
    PROVE  /\ Gather(a, b) \in Seq(Seq(Caller)) /\ Len(Gather(a, b)) \in {1, 2}
           /\ Laid(Gather(a, b), s + Len(a) + Len(b), ord)
           /\ StartOf(Gather(a, b), s + Len(a) + Len(b), 1) = s
<1>1. PICK P : P = s + Len(a) + Len(b)
  BY Zenon
<1>2. /\ Len(a) \in Nat /\ Len(b) \in Nat
      /\ \A i \in 1..Len(a) : a[i] = ord[s + i]
      /\ \A i \in 1..Len(b) : b[i] = ord[s + Len(a) + i]
  BY DEF Follows
<1>3. ASSUME NEW c \in Seq(Caller), Len(c) = Len(a) + Len(b),
             \A i \in 1..Len(c) : c[i] = ord[s + i]
      PROVE  /\ <<c>> \in Seq(Seq(Caller)) /\ Len(<<c>>) = 1
             /\ Laid(<<c>>, P, ord) /\ StartOf(<<c>>, P, 1) = s
  <2>0. PICK g : g = <<c>>
    BY Zenon
  <2>1. g \in Seq(Seq(Caller)) /\ Len(g) = 1 /\ g[1] = c
    BY <2>0
  <2>2. StartOf(g, P, 1) = s
    <3>1. StartOf(g, P, 1) = P - Len(c)
      BY <2>1, Zenon DEF StartOf
    <3>2. ASSUME NEW x \in Nat, NEW y \in Nat PROVE (s + x + y) - (x + y) = s
      OBVIOUS
    <3> QED BY <1>1, <1>2, <1>3, <3>1, <3>2, Zenon
  <2>3. Laid(g, P, ord)
    <3>1. \A k \in 1..Len(g) : k = 1
      BY <2>1
    <3>2. s >= 0
      OBVIOUS
    <3> QED BY <1>3, <2>1, <2>2, <3>1, <3>2, Zenon DEF Laid
  <2> QED BY <2>0, <2>1, <2>2, <2>3, Zenon
<1>4. CASE b = <<>>
  <2>1. Len(b) = 0
    BY <1>4
  <2>2. Gather(a, b) = <<a>>
    BY <1>4 DEF Gather
  <2> QED BY <1>1, <1>2, <1>3, <2>1, <2>2
<1>5. CASE Gather(a, b) = <<a \o b>>
  <2>1. PICK c : c = a \o b
    BY Zenon
  <2>2. c \in Seq(Caller) /\ Len(c) = Len(a) + Len(b)
    BY <2>1
  <2>3. ASSUME NEW i \in 1..Len(c) PROVE c[i] = ord[s + i]
    <3>1. CASE i <= Len(a)
      BY <1>2, <2>1, <2>2, <3>1
    <3>2. CASE ~(i <= Len(a))
      <4>1. i - Len(a) \in 1..Len(b)
        BY <1>2, <2>2, <3>2
      <4>2. c[i] = b[i - Len(a)]
        BY <1>2, <2>1, <2>2, <3>2, <4>1
      <4>3. s + Len(a) + (i - Len(a)) = s + i
        BY <1>2, <2>2
      <4> QED BY <1>2, <4>1, <4>2, <4>3, Zenon
    <3> QED BY <3>1, <3>2
  <2> QED BY <1>1, <1>3, <1>5, <2>1, <2>2, <2>3, ZenonT(30)
<1>6. CASE Gather(a, b) = <<a, b>>
  <2>1. PICK g : g = <<a, b>>
    BY Zenon
  <2>2. g \in Seq(Seq(Caller)) /\ Len(g) = 2 /\ g[1] = a /\ g[2] = b
    BY <2>1
  <2>3. StartOf(g, P, 1) = s /\ StartOf(g, P, 2) = s + Len(a)
    BY <1>1, <1>2, <2>2 DEF StartOf
  <2>4. Laid(g, P, ord)
    <3> SUFFICES ASSUME NEW k \in 1..Len(g)
                 PROVE  /\ StartOf(g, P, k) >= 0
                        /\ \A i \in 1..Len(g[k]) : g[k][i] = ord[StartOf(g, P, k) + i]
      BY Zenon DEF Laid
    <3>1. CASE k = 1
      BY <1>2, <2>2, <2>3, <3>1
    <3>2. CASE k = 2
      BY <1>2, <2>2, <2>3, <3>2
    <3> QED BY <2>2, <3>1, <3>2
  <2> QED BY <1>1, <1>6, <2>1, <2>2, <2>3, <2>4
<1> QED BY <1>4, <1>5, <1>6, Zenon DEF Gather

(* A call that is admitted stays so.                                       *)
LEMMA CallsGoOn ==
    ASSUME FlowTypes, [Next]_vars
    PROVE  /\ request' = request /\ call' \in [Caller -> CallPlaces]
           /\ \A c \in Caller : call[c] \in Admitted => call'[c] \in Admitted
<1> USE DEF FlowTypes, CallPlaces, Admitted
<1> DEFINE Goal == /\ request' = request /\ call' \in [Caller -> CallPlaces]
                   /\ \A c \in Caller : call[c] \in Admitted => call'[c] \in Admitted
<1> SUFFICES Goal
  OBVIOUS
<1>1. ASSUME NEW c \in Caller, Admit(c) PROVE Goal
  BY <1>1 DEF Admit, Enters
<1>2. ASSUME NEW c \in Caller, NoCredits(c) PROVE Goal
  <2>1. /\ request' = request /\ call[c] \notin Admitted
        /\ call' = [call EXCEPT ![c] = "sleep"] \/ call' = [call EXCEPT ![c] = "done"]
    BY <1>2 DEF NoCredits, Enters
  <2> QED BY <2>1, SMTT(30)
<1>3. ASSUME NEW c \in Caller, Notify(c) PROVE Goal
  BY <1>3, ZenonT(30) DEF Notify, Asleep
<1>4. CASE Spurious
  BY <1>4, ZenonT(30) DEF Spurious, Asleep
<1>5. CASE Release
  BY <1>5 DEF Release, Asleep
<1>6. CASE UNCHANGED <<request, call>>
  BY <1>6
<1>7. CASE Idle \/ Collect \/ CollectTimesOut \/ TakeFirst \/ TakeSecond
  BY <1>6, <1>7, Zenon
     DEF Idle, Collect, CollectTimesOut, TakeFirst, TakeSecond, WorkerElse, callers
<1>8. CASE CommitStep
  BY <1>6, <1>8, Zenon
     DEF CommitStep, Refused, CommitSerially, CommitBreaks, Reserve, CookFails,
         CookTimesOut, Install, InstallUndone, InstallBreaks, CommitElse, callers
<1>9. CASE Reply \/ Drop \/ Direct \/ DirectBreaks \/ Atomic \/ (\E t \in cooking : Cook(t))
  BY <1>6, <1>9, Zenon DEF Reply, Drop, Direct, DirectBreaks, Atomic, Cook, callers
<1>10. CASE UNCHANGED vars
  BY <1>6, <1>10, Zenon DEF vars, callers
<1> HIDE DEF Goal
<1> QED
  BY <1>1, <1>2, <1>3, <1>4, <1>5, <1>7, <1>8, <1>9, <1>10, Zenon
     DEF Next, WorkerStep, CallerStep

(* A step that moves no call keeps FlowInv if the worker's stage fits.     *)
LEMMA FlowStays ==
    ASSUME FlowInv, [Next]_vars, UNCHANGED <<queue, order, cohorts>>, Stages'
    PROVE  FlowInv'
<1>1. /\ request' = request /\ call' \in [Caller -> CallPlaces]
      /\ \A c \in Caller : call[c] \in Admitted => call'[c] \in Admitted
  BY CallsGoOn, Zenon DEF FlowInv
<1>2. FlowTypes'
  BY <1>1, Zenon DEF FlowInv, FlowTypes
<1>3. Passed' = Passed
  BY Zenon DEF Passed
<1>4. Queued' /\ Distinct'
  BY <1>3, Zenon DEF FlowInv, Queued, Distinct
<1>5. Laid(cohorts, Passed, order)'
  BY <1>3, Zenon DEF FlowInv
<1>6. OrderAdmitted'
  <2> SUFFICES ASSUME NEW i \in 1..Len(order) PROVE call'[order[i]] \in Admitted
    BY Zenon DEF OrderAdmitted
  <2>1. order[i] \in Caller
    BY DEF FlowInv, FlowTypes
  <2> QED BY <1>1, <2>1, Zenon DEF FlowInv, OrderAdmitted
<1> QED BY <1>2, <1>4, <1>5, <1>6, Zenon DEF FlowInv

LEMMA AdmitFlow ==
    ASSUME FlowInv, [Next]_vars, NEW c \in Caller, Admit(c)
    PROVE  FlowInv' /\ Reached' = Reached /\ \A i \in 1..Len(order) : order'[i] = order[i]
<1>1. /\ queue' = Append(queue, c) /\ order' = Append(order, c)
      /\ call' = [call EXCEPT ![c] = "notify"] /\ call[c] \notin Admitted
      /\ UNCHANGED <<request, worker, cohorts, turn>>
  BY Zenon DEF Admit, Enters, Admitted
<1>2. queue \in Seq(Caller) /\ order \in Seq(Caller)
  BY Zenon DEF FlowInv, FlowTypes
<1>3. /\ Len(queue') = Len(queue) + 1 /\ queue' \in Seq(Caller)
      /\ \A i \in 1..Len(queue) : queue'[i] = queue[i]
      /\ queue'[Len(queue) + 1] = c
  BY <1>1, <1>2
<1>4. /\ Len(order') = Len(order) + 1 /\ order' \in Seq(Caller)
      /\ \A i \in 1..Len(order) : order'[i] = order[i]
      /\ order'[Len(order) + 1] = c
  BY <1>1, <1>2
<1>5. Len(queue) \in Nat /\ Len(order) \in Nat /\ Passed \in Nat /\ Passed <= Len(order)
      /\ Len(cohorts) \in 0..2 /\ cohorts \in Seq(Seq(Caller))
  BY FlowNumbers, Zenon DEF FlowInv, FlowTypes
<1>6. Passed' = Passed
  BY <1>3, <1>4, <1>5 DEF Passed
<1>7. /\ call' \in [Caller -> CallPlaces]
      /\ \A d \in Caller : call[d] \in Admitted => call'[d] \in Admitted
  BY CallsGoOn, Zenon DEF FlowInv
<1>8. FlowTypes' /\ Stages'
  BY <1>1, <1>3, <1>4, <1>7, Zenon DEF FlowInv, FlowTypes, Stages
<1>9. \A i \in 1..Len(order) : order[i] # c
  BY <1>1, Zenon DEF FlowInv, OrderAdmitted
<1>10. Queued'
  <2>1. Len(queue') <= Len(order')
    BY <1>3, <1>4, <1>5 DEF FlowInv, Queued
  <2>2. ASSUME NEW i \in 1..Len(queue') PROVE queue'[i] = order'[Passed + i]
    <3>1. CASE i \in 1..Len(queue)
      <4>1. Passed + i \in 1..Len(order)
        BY <1>5, <3>1 DEF Passed
      <4> QED BY <1>3, <1>4, <3>1, <4>1, Zenon DEF FlowInv, Queued
    <3>2. CASE i = Len(queue) + 1
      <4>1. Passed + i = Len(order) + 1
        BY <1>5, <3>2 DEF Passed
      <4> QED BY <1>3, <1>4, <3>2, <4>1, Zenon
    <3> QED BY <1>3, <1>5, <3>1, <3>2
  <2> QED BY <1>6, <2>1, <2>2, Zenon DEF Queued
<1>11. Distinct'
  <2> SUFFICES ASSUME NEW i \in 1..Len(order'), NEW j \in 1..Len(order'), order'[i] = order'[j]
               PROVE  i = j
    BY Zenon DEF Distinct
  <2>1. \A k \in 1..Len(order') : k \in 1..Len(order) \/ k = Len(order) + 1
    BY <1>4, <1>5
  <2> QED BY <1>4, <1>9, <2>1, Zenon DEF FlowInv, Distinct
<1>12. OrderAdmitted'
  <2> SUFFICES ASSUME NEW i \in 1..Len(order') PROVE call'[order'[i]] \in Admitted
    BY Zenon DEF OrderAdmitted
  <2>1. CASE i \in 1..Len(order)
    <3>1. order[i] \in Caller
      BY <1>2, <2>1
    <3> QED BY <1>4, <1>7, <2>1, <3>1, Zenon DEF FlowInv, OrderAdmitted
  <2>2. CASE i = Len(order) + 1
    BY <1>1, <1>4, <2>2, Zenon DEF FlowInv, FlowTypes, Admitted
  <2> QED BY <1>4, <1>5, <2>1, <2>2
<1>13. Laid(cohorts, Passed, order)'
  <2> SUFFICES ASSUME NEW k \in 1..Len(cohorts)
               PROVE  /\ StartOf(cohorts, Passed, k) >= 0
                      /\ \A i \in 1..Len(cohorts[k]) :
                            cohorts[k][i] = order'[StartOf(cohorts, Passed, k) + i]
    BY <1>1, <1>6, Zenon DEF Laid
  <2>1. StartOf(cohorts, Passed, k) >= 0
    BY Zenon DEF FlowInv, Laid
  <2>2. ASSUME NEW i \in 1..Len(cohorts[k])
        PROVE  cohorts[k][i] = order'[StartOf(cohorts, Passed, k) + i]
    <3>1. /\ StartOf(cohorts, Passed, k) + i \in 1..Passed
          /\ cohorts[k][i] = order[StartOf(cohorts, Passed, k) + i]
      <4>1. Laid(cohorts, Passed, order)
        BY Zenon DEF FlowInv
      <4> QED BY <1>5, <4>1, LaidBelow
    <3>2. StartOf(cohorts, Passed, k) + i \in 1..Len(order)
      BY <1>5, <3>1
    <3> QED BY <1>4, <3>1, <3>2, Zenon
  <2> QED BY <2>1, <2>2, Zenon
<1>14. Reached' = Reached
  BY <1>1, <1>6, Zenon DEF Reached
<1> QED BY <1>4, <1>8, <1>10, <1>11, <1>12, <1>13, <1>14, Zenon DEF FlowInv

LEMMA QueueTaken ==
    ASSUME FlowInv, NEW m \in 0..Len(queue), queue' = SubSeq(queue, m + 1, Len(queue)),
           order' = order
    PROVE  queue' \in Seq(Caller) /\ Passed' = Passed + m /\ Queued'
<1>1. queue \in Seq(Caller) /\ Len(queue) \in Nat /\ Len(order) \in Nat /\ Passed \in Nat
  BY FlowNumbers, Zenon DEF FlowInv, FlowTypes
<1>2. /\ queue' \in Seq(Caller) /\ Len(queue') = Len(queue) - m
      /\ \A i \in 1..Len(queue') : queue'[i] = queue[m + i]
  BY <1>1
<1>3. Passed' = Passed + m
  <2>1. Passed' = Len(order) - (Len(queue) - m)
    BY <1>2, Zenon DEF Passed
  <2>2. ASSUME NEW x \in Nat, NEW y \in Nat PROVE x - (y - m) = x - y + m
    OBVIOUS
  <2> QED BY <1>1, <2>1, <2>2, Zenon DEF Passed
<1>4. Len(queue') <= Len(order)
  BY <1>1, <1>2 DEF FlowInv, Queued
<1>5. ASSUME NEW i \in 1..Len(queue') PROVE queue'[i] = order[Passed + m + i]
  <2>1. m + i \in 1..Len(queue) /\ Passed + m + i = Passed + (m + i)
    BY <1>1, <1>2
  <2> QED BY <1>2, <2>1, Zenon DEF FlowInv, Queued
<1> QED BY <1>2, <1>3, <1>4, <1>5, Zenon DEF Queued

(* The front of the queue, taken as a cohort or as two.                    *)
LEMMA TakenFlow ==
    ASSUME FlowInv, [Next]_vars, NEW a \in Seq(Caller), NEW b \in Seq(Caller), NEW s \in Nat,
           NEW m \in 0..Len(queue),
           Follows(a, order, s), Follows(b, order, s + Len(a)),
           s + Len(a) + Len(b) = Passed + m,
           queue' = SubSeq(queue, m + 1, Len(queue)), order' = order,
           cohorts' = Gather(a, b), turn' = 1,
           worker' = "commit" \/ (worker' = "follow" /\ b = <<>>)
    PROVE  FlowInv' /\ Reached' = s
<1>1. /\ cohorts' \in Seq(Seq(Caller)) /\ Len(cohorts') \in {1, 2}
      /\ Laid(cohorts', Passed + m, order) /\ StartOf(cohorts', Passed + m, 1) = s
  <2>1. /\ cohorts' \in Seq(Seq(Caller)) /\ Len(cohorts') \in {1, 2}
        /\ Laid(cohorts', s + Len(a) + Len(b), order)
        /\ StartOf(cohorts', s + Len(a) + Len(b), 1) = s
    BY GatherLaid, Zenon
  <2> QED BY <2>1, Zenon
<1>2. queue' \in Seq(Caller) /\ Passed' = Passed + m /\ Queued'
  BY QueueTaken, Zenon
<1>3. /\ request' = request /\ call' \in [Caller -> CallPlaces]
      /\ \A c \in Caller : call[c] \in Admitted => call'[c] \in Admitted
  BY CallsGoOn, Zenon DEF FlowInv
<1>4. FlowTypes'
  BY <1>1, <1>2, <1>3, Zenon DEF FlowInv, FlowTypes
<1>5. Stages'
  <2>1. b = <<>> => Len(cohorts') = 1
    BY DEF Gather
  <2>2. 1 \in 1..Len(cohorts')
    BY <1>1, OneOrTwo, Zenon
  <2> QED BY <1>1, <2>1, <2>2, Zenon DEF Stages, Busy, Waiting
<1>6. Distinct'
  BY Zenon DEF FlowInv, Distinct
<1>7. OrderAdmitted'
  <2> SUFFICES ASSUME NEW i \in 1..Len(order) PROVE call'[order[i]] \in Admitted
    BY Zenon DEF OrderAdmitted
  <2>1. order[i] \in Caller
    BY DEF FlowInv, FlowTypes
  <2> QED BY <1>3, <2>1, Zenon DEF FlowInv, OrderAdmitted
<1>8. Laid(cohorts, Passed, order)'
  BY <1>1, <1>2, Zenon
<1>9. Reached' = s
  BY <1>1, <1>2 DEF Reached, Waiting, Busy
<1> QED BY <1>2, <1>4, <1>5, <1>6, <1>7, <1>8, <1>9, Zenon DEF FlowInv

LEMMA TakeFirstFlow ==
    ASSUME FlowInv, [Next]_vars, TakeFirst
    PROVE  FlowInv' /\ Reached' = Reached
<1>1. PICK first : first = TakeBatch(queue)
  BY Zenon
<1>2. PICK rest : rest = SubSeq(queue, Len(first) + 1, Len(queue))
  BY Zenon
<1>3. PICK second : second = TakeBatch(rest)
  BY Zenon
<1>4. /\ worker \in Early /\ turn' = 1 /\ order' = order
      /\ \/ worker' = "follow" /\ cohorts' = <<first>> /\ Taken(first)
         \/ worker' = "commit" /\ cohorts' = Gather(first, second) /\ Taken(first \o second)
  BY <1>1, <1>2, <1>3 DEF TakeFirst, WorkerElse, Early
<1>5. queue \in Seq(Caller) /\ Len(queue) \in Nat /\ Passed \in Nat
  BY FlowNumbers, Zenon DEF FlowInv, FlowTypes
<1>6. /\ first \in Seq(Caller) /\ Len(first) \in 0..Len(queue)
      /\ \A i \in 1..Len(first) : first[i] = queue[i]
  BY <1>1, <1>5, TakeBatchBounded, Zenon DEF Bounded
<1>7. /\ rest \in Seq(Caller) /\ Len(rest) = Len(queue) - Len(first)
      /\ \A i \in 1..Len(rest) : rest[i] = queue[Len(first) + i]
  BY <1>2, <1>5, <1>6
<1>8. /\ second \in Seq(Caller) /\ Len(second) \in 0..Len(rest)
      /\ \A i \in 1..Len(second) : second[i] = rest[i]
  BY <1>3, <1>7, TakeBatchBounded, Zenon DEF Bounded
<1>9. \A i \in 1..Len(queue) : queue[i] = order[Passed + i]
  BY Zenon DEF FlowInv, Queued
<1>10. Follows(first, order, Passed)
  <2> SUFFICES ASSUME NEW i \in 1..Len(first) PROVE first[i] = order[Passed + i]
    BY Zenon DEF Follows
  <2>1. i \in 1..Len(queue)
    BY <1>5, <1>6
  <2> QED BY <1>6, <1>9, <2>1, Zenon
<1>11. Follows(second, order, Passed + Len(first))
  <2> SUFFICES ASSUME NEW i \in 1..Len(second)
               PROVE  second[i] = order[Passed + Len(first) + i]
    BY Zenon DEF Follows
  <2>1. i \in 1..Len(rest) /\ Len(first) + i \in 1..Len(queue)
        /\ Passed + Len(first) + i = Passed + (Len(first) + i)
    BY <1>5, <1>6, <1>7, <1>8
  <2> QED BY <1>7, <1>8, <1>9, <2>1, Zenon
<1>12. Reached = Passed
  BY <1>4 DEF Reached, Early, Waiting, Busy
<1>13. CASE worker' = "follow" /\ cohorts' = <<first>> /\ Taken(first)
  <2>1. PICK b : b = <<>>
    BY Zenon
  <2>2. b \in Seq(Caller) /\ Len(b) = 0 /\ Follows(b, order, Passed + Len(first))
    BY <2>1 DEF Follows
  <2>3. cohorts' = Gather(first, b)
    BY <1>13, <2>1 DEF Gather
  <2>4. Passed + Len(first) + Len(b) = Passed + Len(first)
    BY <1>5, <1>6, <2>2
  <2>5. queue' = SubSeq(queue, Len(first) + 1, Len(queue))
    BY <1>13, Zenon DEF Taken
  <2> QED
    BY <1>4, <1>5, <1>6, <1>10, <1>12, <1>13, <2>1, <2>2, <2>3, <2>4, <2>5, TakenFlow, Zenon
<1>14. CASE worker' = "commit" /\ cohorts' = Gather(first, second) /\ Taken(first \o second)
  <2>1. PICK m : m = Len(first) + Len(second)
    BY Zenon
  <2>2. Len(first \o second) = m /\ m \in 0..Len(queue)
    BY <1>5, <1>6, <1>7, <1>8, <2>1
  <2>3. Passed + Len(first) + Len(second) = Passed + m
    BY <1>5, <1>6, <1>8, <2>1
  <2>4. queue' = SubSeq(queue, m + 1, Len(queue))
    BY <1>14, <2>2, Zenon DEF Taken
  <2> QED
    BY <1>4, <1>5, <1>6, <1>8, <1>10, <1>11, <1>12, <1>14, <2>2, <2>3, <2>4, TakenFlow, Zenon
<1> QED BY <1>4, <1>13, <1>14, Zenon

LEMMA TakeSecondFlow ==
    ASSUME FlowInv, [Next]_vars, TakeSecond
    PROVE  FlowInv' /\ Reached' = Reached
<1>1. PICK second : second = TakeBatch(queue)
  BY Zenon
<1>2. PICK first : first = cohorts[1]
  BY Zenon
<1>3. PICK s : s = StartOf(cohorts, Passed, 1)
  BY Zenon
<1>4. /\ worker \in Waiting /\ turn' = turn /\ order' = order
      /\ worker' = "commit" /\ cohorts' = Gather(first, second) /\ Taken(second)
  BY <1>1, <1>2 DEF TakeSecond, WorkerElse, Waiting
<1>5. queue \in Seq(Caller) /\ Len(queue) \in Nat /\ Passed \in Nat
  BY FlowNumbers, Zenon DEF FlowInv, FlowTypes
<1>6. Len(cohorts) = 1 /\ turn = 1
  BY <1>4 DEF FlowInv, Stages, Early, Waiting, Busy, Late
<1>7. first \in Seq(Caller) /\ Len(first) \in Nat
  BY <1>2, <1>6, FlowNumbers
<1>8. /\ second \in Seq(Caller) /\ Len(second) \in 0..Len(queue)
      /\ \A i \in 1..Len(second) : second[i] = queue[i]
  BY <1>1, <1>5, TakeBatchBounded, Zenon DEF Bounded
<1>9. s = Passed - Len(first)
  BY <1>2, <1>3, <1>6 DEF StartOf
<1>10. s \in Nat /\ Follows(first, order, s)
  <2>1. 1 \in 1..Len(cohorts)
    BY <1>6
  <2>2. s >= 0 /\ Follows(first, order, s)
    BY <1>2, <1>3, <2>1, Zenon DEF FlowInv, Laid, Follows
  <2> QED BY <1>5, <1>7, <1>9, <2>2
<1>11. Follows(second, order, s + Len(first))
  <2> SUFFICES ASSUME NEW i \in 1..Len(second) PROVE second[i] = order[s + Len(first) + i]
    BY Zenon DEF Follows
  <2>1. i \in 1..Len(queue) /\ s + Len(first) + i = Passed + i
    BY <1>5, <1>7, <1>8, <1>9
  <2> QED BY <1>8, <2>1, Zenon DEF FlowInv, Queued
<1>12. s + Len(first) + Len(second) = Passed + Len(second)
  BY <1>5, <1>7, <1>8, <1>9
<1>13. queue' = SubSeq(queue, Len(second) + 1, Len(queue)) /\ turn' = 1
  BY <1>4, <1>6, Zenon DEF Taken
<1>14. Reached = s
  BY <1>3, <1>4, <1>6, Zenon DEF Reached
<1> QED
  BY <1>4, <1>7, <1>8, <1>10, <1>11, <1>12, <1>13, <1>14, TakenFlow, Zenon

(* A step that moves no call keeps FlowInv if the worker stays in a stage. *)
LEMMA SameStage ==
    ASSUME FlowInv, [Next]_vars, UNCHANGED <<queue, order, cohorts, turn>>,
           \/ worker' = worker
           \/ \E p \in {Early, Waiting, Busy, Late} : worker \in p /\ worker' \in p
    PROVE  FlowInv' /\ Reached' = Reached
<1>1. Passed' = Passed
  BY Zenon DEF Passed
<1>2. (worker' \in Waiting \cup Busy) <=> (worker \in Waiting \cup Busy)
  BY DEF Early, Waiting, Busy, Late
<1>3. Stages'
  <2>1. /\ worker' \in Early <=> worker \in Early
        /\ worker' \in Waiting <=> worker \in Waiting
        /\ worker' \in Busy \cup Late <=> worker \in Busy \cup Late
    BY DEF Early, Waiting, Busy, Late
  <2> QED BY <2>1, Zenon DEF FlowInv, Stages
<1>4. FlowInv'
  BY <1>3, FlowStays, Zenon
<1>5. Reached' = Reached
  BY <1>1, <1>2, Zenon DEF Reached
<1> QED BY <1>4, <1>5

LEMMA ReplyFlow ==
    ASSUME FlowInv, [Next]_vars, Reply
    PROVE  FlowInv' /\ Reached' = Reached
<1>1. /\ worker = "reply" /\ UNCHANGED <<request, call, queue, order>>
      /\ \/ worker' = "finish" /\ turn < Len(cohorts) /\ turn' = turn + 1 /\ cohorts' = cohorts
         \/ worker' = "lock" /\ turn' = 1 /\ cohorts' = <<>>
  BY DEF Reply, ledger
<1>2. Len(cohorts) \in {1, 2} /\ turn \in 1..Len(cohorts)
  BY <1>1 DEF FlowInv, Stages, Early, Waiting, Busy, Late
<1>3. Passed' = Passed /\ Reached' = Passed' /\ Reached = Passed
  BY <1>1 DEF Passed, Reached, Waiting, Busy
<1>4. CASE worker' = "finish" /\ turn < Len(cohorts) /\ turn' = turn + 1 /\ cohorts' = cohorts
  <2>1. turn' \in 1..Len(cohorts')
    BY <1>2, <1>4
  <2>2. Stages'
    BY <1>2, <1>4, <2>1 DEF Stages, Late
  <2> QED BY <1>1, <1>3, <1>4, <2>2, FlowStays, Zenon
<1>5. CASE worker' = "lock" /\ turn' = 1 /\ cohorts' = <<>>
  <2>1. Stages'
    BY <1>5 DEF Stages, Early
  <2>2. cohorts' \in Seq(Seq(Caller)) /\ Len(cohorts') = 0
    BY <1>5
  <2>3. FlowTypes'
    BY <1>1, <2>2, Zenon DEF FlowInv, FlowTypes
  <2>4. Laid(cohorts', Passed', order')
    BY <2>2 DEF Laid
  <2>5. Queued' /\ Distinct' /\ OrderAdmitted'
    BY <1>1, <1>3, Zenon DEF FlowInv, Queued, Distinct, OrderAdmitted
  <2> QED BY <1>3, <2>1, <2>3, <2>4, <2>5, Zenon DEF FlowInv
<1> QED BY <1>1, <1>4, <1>5, Zenon

(* The order of admissions only grows.                                     *)
OrderGrows == Len(order') >= Len(order) /\ \A i \in 1..Len(order) : order'[i] = order[i]

OtherStep ==
    \/ \E c \in Caller : CallerStep(c)
    \/ Idle \/ Collect \/ CollectTimesOut \/ TakeFirst \/ TakeSecond \/ Release \/ Reply
    \/ \E t \in cooking : Cook(t)
    \/ Spurious \/ Drop \/ Direct \/ DirectBreaks \/ Atomic
    \/ UNCHANGED vars

LEMMA OtherFlow ==
    ASSUME FlowInv, [Next]_vars, OtherStep
    PROVE  FlowInv' /\ Reached' = Reached /\ OrderGrows
<1> DEFINE Goal == FlowInv' /\ Reached' = Reached
<1>0. Len(order) \in Nat
  BY FlowNumbers, Zenon
<1>1. OrderGrows
  <2>1. CASE order' = order
    BY <1>0, <2>1 DEF OrderGrows
  <2>2. ASSUME NEW c \in Caller, Admit(c) PROVE OrderGrows
    <3>1. order \in Seq(Caller) /\ order' = Append(order, c)
      BY <2>2, Zenon DEF Admit, FlowInv, FlowTypes
    <3> QED BY <1>0, <3>1 DEF OrderGrows
  <2> QED
    BY <2>1, <2>2, Zenon
       DEF OtherStep, CallerStep, NoCredits, Notify, Idle, Collect, CollectTimesOut, TakeFirst,
           TakeSecond, WorkerElse, Release, Reply, Cook, Spurious, Drop, Direct, DirectBreaks,
           Atomic, vars
<1> SUFFICES Goal
  BY <1>1, Zenon
<1>2. ASSUME NEW c \in Caller, Admit(c) PROVE Goal
  BY <1>2, AdmitFlow, Zenon
<1>3. CASE TakeFirst
  BY <1>3, TakeFirstFlow, Zenon
<1>4. CASE TakeSecond
  BY <1>4, TakeSecondFlow, Zenon
<1>5. CASE Reply
  BY <1>5, ReplyFlow, Zenon
<1>6. CASE UNCHANGED <<queue, order, cohorts, turn, worker>>
  BY <1>6, SameStage, Zenon
<1>7. ASSUME NEW c \in Caller, NoCredits(c) PROVE Goal
  BY <1>6, <1>7, Zenon DEF NoCredits, ledger
<1>8. CASE UNCHANGED vars \/ (\E t \in cooking : Cook(t)) \/ Direct \/ DirectBreaks \/ Atomic
  BY <1>6, <1>8, Zenon DEF vars, Cook, Direct, DirectBreaks, Atomic, ledger
<1>9. CASE UNCHANGED <<queue, order, cohorts, turn>> /\ worker' = Awake(worker)
  <2>1. \/ worker' = worker
        \/ \E p \in {Early, Waiting, Busy, Late} : worker \in p /\ worker' \in p
    BY <1>9 DEF Awake, Early, Waiting, Busy, Late
  <2> QED BY <1>9, <2>1, SameStage, Zenon
<1>10. ASSUME NEW c \in Caller, Notify(c) PROVE Goal
  BY <1>6, <1>9, <1>10, Zenon DEF Notify, ledger
<1>11. CASE Spurious \/ Drop
  BY <1>6, <1>9, <1>11, Zenon DEF Spurious, Drop, ledger
<1>12. CASE Idle \/ Collect \/ CollectTimesOut \/ Release
  <2>1. UNCHANGED <<queue, order, cohorts, turn>>
    BY <1>12, Zenon DEF Idle, Collect, CollectTimesOut, Release, WorkerElse
  <2>2. \E p \in {Early, Waiting, Busy, Late} : worker \in p /\ worker' \in p
    BY <1>12 DEF Idle, Collect, CollectTimesOut, Release, Early, Waiting, Busy, Late
  <2> QED BY <2>1, <2>2, SameStage, Zenon
<1> HIDE DEF Goal
<1> QED
  BY <1>2, <1>3, <1>4, <1>5, <1>7, <1>8, <1>10, <1>11, <1>12, Zenon DEF OtherStep, CallerStep

(* The cohort being committed is the next of the admitted calls.           *)
LEMMA CohortInPlace ==
    ASSUME FlowInv, worker \in Busy
    PROVE  /\ Cohort \in Seq(Caller) /\ Len(Cohort) \in Nat
           /\ Reached \in Nat /\ Reached + Len(Cohort) <= Passed /\ Passed <= Len(order)
           /\ \A i \in 1..Len(Cohort) : Cohort[i] = order[Reached + i]
           /\ Len(cohorts) \in {1, 2} /\ turn \in 1..Len(cohorts)
           /\ Reached = StartOf(cohorts, Passed, turn)
<1>1. Len(cohorts) \in {1, 2} /\ turn \in 1..Len(cohorts)
  BY DEF FlowInv, Stages, Early, Waiting, Busy, Late
<1>2. Reached = StartOf(cohorts, Passed, turn)
  BY Zenon DEF Reached
<1>3. /\ Passed \in Nat /\ Passed <= Len(order)
      /\ \A k \in 1..Len(cohorts) : cohorts[k] \in Seq(Caller) /\ Len(cohorts[k]) \in Nat
  BY FlowNumbers, Zenon
<1>4. Reached >= 0 /\ \A i \in 1..Len(Cohort) : Cohort[i] = order[Reached + i]
  BY <1>1, <1>2, Zenon DEF FlowInv, Laid, Cohort
<1>5. Reached \in Int /\ Reached + Len(Cohort) <= Passed
  <2>1. CASE turn = Len(cohorts)
    BY <1>1, <1>2, <1>3, <2>1 DEF StartOf, Cohort
  <2>2. CASE turn # Len(cohorts)
    <3>1. turn = 1 /\ Len(cohorts) = 2
      BY <1>1, <2>2, OneOrTwo, Zenon
    <3>2. Len(cohorts[1]) \in Nat /\ Len(cohorts[2]) \in Nat
      BY <1>3, <3>1
    <3> QED BY <1>2, <1>3, <3>1, <3>2 DEF StartOf, Cohort
  <2> QED BY <2>1, <2>2
<1>6. Cohort \in Seq(Caller) /\ Len(Cohort) \in Nat
  BY <1>1, <1>3, Zenon DEF Cohort
<1>7. Reached \in Nat
  BY <1>4, <1>5
<1> QED BY <1>1, <1>2, <1>3, <1>4, <1>5, <1>6, <1>7, Zenon

LEMMA CommitFlow ==
    ASSUME FlowInv, [Next]_vars, worker \in Busy, NEW outcomes, Committed(outcomes),
           UNCHANGED <<queue, order, cohorts>>
    PROVE  FlowInv' /\ Reached' = Reached + Len(Cohort)
<1>1. /\ Len(cohorts) \in {1, 2} /\ turn \in 1..Len(cohorts)
      /\ Reached = StartOf(cohorts, Passed, turn)
  BY CohortInPlace, Zenon
<1>2. Passed' = Passed /\ Passed \in Nat
  BY FlowNumbers, Zenon DEF Passed
<1>3. \A k \in 1..Len(cohorts) : Len(cohorts[k]) \in Nat
  BY FlowNumbers, Zenon
<1>4. CASE turn < Len(cohorts)
  <2>1. turn = 1 /\ Len(cohorts) = 2 /\ worker' = "commit" /\ turn' = 2
    BY <1>1, <1>4, OneOrTwo, Zenon DEF Committed
  <2>2. Stages'
    BY <2>1 DEF Stages, Busy
  <2>3. FlowInv'
    BY <2>2, FlowStays, Zenon
  <2>4. Len(cohorts[1]) \in Nat /\ Len(cohorts[2]) \in Nat
    BY <1>3, <2>1
  <2>5. Reached' = StartOf(cohorts, Passed, 2)
    BY <1>2, <2>1 DEF Reached, Busy
  <2>6. Reached' = Reached + Len(Cohort)
    BY <1>1, <1>2, <2>1, <2>4, <2>5 DEF StartOf, Cohort
  <2> QED BY <2>3, <2>6
<1>5. CASE ~(turn < Len(cohorts))
  <2>1. turn = Len(cohorts) /\ worker' = "finish" /\ turn' = 1
    BY <1>1, <1>5, OneOrTwo, Zenon DEF Committed
  <2>2. Stages'
    BY <1>1, <2>1 DEF Stages, Late
  <2>3. FlowInv'
    BY <2>2, FlowStays, Zenon
  <2>4. Len(cohorts[turn]) \in Nat
    BY <1>1, <1>3, Zenon
  <2>5. Reached' = Passed
    BY <1>2, <2>1 DEF Reached, Busy, Waiting
  <2>6. Reached' = Reached + Len(Cohort)
    BY <1>1, <1>2, <2>1, <2>4, <2>5 DEF StartOf, Cohort
  <2> QED BY <2>3, <2>6
<1> QED BY <1>4, <1>5

-----------------------------------------------------------------------------
(* The order of the frames.                                                *)

(* The calls in fs are among the first r of ord, in its order.             *)
Placed(fs, ord, r) == \A i \in 1..Len(fs) : fs[i] # None => \E p \in 1..r : ord[p] = fs[i]

Rising(fs, ord, r) ==
    \A i, j \in 1..Len(fs) : \A p, q \in 1..r :
        i < j /\ ord[p] = fs[i] /\ ord[q] = fs[j] => p < q

InOrder(fs, ord, r) ==
    fs \in Seq(Caller \cup {None}) /\ Placed(fs, ord, r) /\ Rising(fs, ord, r)

OneToOne(ord) == \A i, j \in 1..Len(ord) : ord[i] = ord[j] => i = j

OrderInv == FlowInv /\ InOrder(frames, order, Reached)

LEMMA ReachedBound ==
    ASSUME FlowInv
    PROVE  Reached \in 0..Len(order)
<1>1. Passed \in Nat /\ Passed <= Len(order) /\ Len(order) \in Nat
  BY FlowNumbers, Zenon
<1>2. CASE worker \in Busy
  BY <1>1, <1>2, CohortInPlace
<1>3. CASE worker \in Waiting
  <2>1. Len(cohorts) = 1 /\ turn = 1
    BY <1>3 DEF FlowInv, Stages, Early, Waiting, Busy, Late
  <2>2. 1 \in 1..Len(cohorts)
    BY <2>1
  <2>3. Len(cohorts[1]) \in Nat
    BY <2>2, FlowNumbers, Zenon
  <2>4. Reached = Passed - Len(cohorts[1])
    BY <1>3, <2>1, Zenon DEF Reached, StartOf
  <2>5. Reached >= 0
    BY <1>3, <2>1, <2>2, Zenon DEF FlowInv, Laid, Reached
  <2> QED BY <1>1, <2>3, <2>4, <2>5
<1>4. CASE worker \notin Waiting \cup Busy
  <2>1. Reached = Passed
    BY <1>4, Zenon DEF Reached
  <2> QED BY <1>1, <2>1
<1> QED BY <1>2, <1>3, <1>4, Zenon

LEMMA InOrderGrown ==
    ASSUME NEW fs, NEW ord, NEW ord2, NEW r, r \in 0..Len(ord), Len(ord) \in Nat,
           InOrder(fs, ord, r), \A i \in 1..Len(ord) : ord2[i] = ord[i]
    PROVE  InOrder(fs, ord2, r)
<1>1. \A p \in 1..r : ord2[p] = ord[p]
  OBVIOUS
<1> QED BY <1>1, Zenon DEF InOrder, Placed, Rising

(* A frame of another user of the store has no place in the order.         *)
LEMMA NoneAdded ==
    ASSUME NEW fs, NEW ord \in Seq(Caller), NEW r, r \in 0..Len(ord), InOrder(fs, ord, r)
    PROVE  InOrder(Append(fs, None), ord, r)
<1>1. fs \in Seq(Caller \cup {None}) /\ Len(fs) \in Nat
  BY DEF InOrder
<1>2. PICK g : g = Append(fs, None)
  BY Zenon
<1>3. /\ g \in Seq(Caller \cup {None}) /\ Len(g) = Len(fs) + 1
      /\ g[Len(fs) + 1] = None /\ \A i \in 1..Len(fs) : g[i] = fs[i]
  BY <1>1, <1>2
<1>4. \A i \in 1..Len(g) : g[i] # None => i \in 1..Len(fs)
  BY <1>1, <1>3
<1>5. \A p \in 1..r : ord[p] # None
  <2>1. \A p \in 1..r : ord[p] \in Caller
    OBVIOUS
  <2> QED BY <2>1, CallerAssumption, Zenon
<1>6. Placed(g, ord, r)
  BY <1>3, <1>4, Zenon DEF InOrder, Placed
<1>7. Rising(g, ord, r)
  BY <1>3, <1>4, <1>5, ZenonT(30) DEF InOrder, Rising
<1> QED BY <1>2, <1>3, <1>6, <1>7, Zenon DEF InOrder

(* What is written of the next calls of the order comes after the rest.    *)
LEMMA FramesAdded ==
    ASSUME NEW fs, NEW ord \in Seq(Caller), OneToOne(ord), NEW r \in Nat, InOrder(fs, ord, r),
           NEW C \in Seq(Caller), Follows(C, ord, r), r + Len(C) <= Len(ord),
           NEW W, NEW pos, Picks(W, C, pos)
    PROVE  InOrder(fs \o W, ord, r + Len(C))
<1>1. PICK g : g = fs \o W
  BY Zenon
<1>2. PICK n : n = Len(fs)
  BY Zenon
<1>3. PICK s : s = r + Len(C)
  BY Zenon
<1>4. /\ fs \in Seq(Caller \cup {None}) /\ n \in Nat /\ W \in Seq(Caller) /\ Len(W) \in Nat
      /\ Len(C) \in Nat /\ Len(ord) \in Nat /\ s \in Nat
  BY <1>2, <1>3 DEF InOrder, Picks
<1>5. /\ g \in Seq(Caller \cup {None}) /\ Len(g) = n + Len(W)
      /\ \A i \in 1..n : g[i] = fs[i]
      /\ \A i \in 1..Len(g) : i > n => (i - n \in 1..Len(W) /\ g[i] = W[i - n])
  <2>1. W \in Seq(Caller \cup {None})
    BY <1>4
  <2> QED BY <1>1, <1>2, <1>4, <2>1, SMTT(30)
<1>6. ASSUME NEW i \in 1..Len(g), i > n
      PROVE  /\ pos[i - n] \in 1..Len(C) /\ r + pos[i - n] \in 1..s
             /\ r + pos[i - n] > r /\ ord[r + pos[i - n]] = g[i]
  <2>1. i - n \in 1..Len(W) /\ g[i] = W[i - n]
    BY <1>5, <1>6, Zenon
  <2>2. pos[i - n] \in 1..Len(C) /\ W[i - n] = C[pos[i - n]]
    BY <2>1, Zenon DEF Picks
  <2>3. C[pos[i - n]] = ord[r + pos[i - n]]
    BY <2>2, Zenon DEF Follows
  <2>4. r + pos[i - n] \in 1..s /\ r + pos[i - n] > r
    <3>1. PICK q \in 1..Len(C) : q = pos[i - n]
      BY <2>2, Zenon
    <3>2. r + q \in 1..s /\ r + q > r
      BY <1>3, <1>4
    <3> QED BY <3>1, <3>2, Zenon
  <2> QED BY <2>1, <2>2, <2>3, <2>4, Zenon
<1>7. ASSUME NEW i \in 1..Len(g), i <= n
      PROVE  i \in 1..n /\ g[i] = fs[i]
  BY <1>4, <1>5, <1>7
<1>8. \A p \in 1..r : p \in 1..s
  BY <1>3, <1>4
<1>9. \A p \in 1..s : p \in 1..Len(ord) /\ p \in Nat
  BY <1>3, <1>4
<1>10. \A i \in 1..Len(g) : i <= n \/ i > n
  BY <1>4, <1>5
<1>11. Placed(g, ord, s)
  <2> SUFFICES ASSUME NEW i \in 1..Len(g), g[i] # None PROVE \E p \in 1..s : ord[p] = g[i]
    BY Zenon DEF Placed
  <2>1. CASE i <= n
    BY <1>2, <1>7, <1>8, <2>1, Zenon DEF InOrder, Placed
  <2>2. CASE i > n
    BY <1>6, <2>2, Zenon
  <2> QED BY <1>10, <2>1, <2>2, Zenon
<1>12. ASSUME NEW i \in 1..Len(g), i <= n, NEW p \in 1..s, ord[p] = g[i]
       PROVE  p \in 1..r
  <2>1. p \in 1..Len(ord)
    BY <1>9, Zenon
  <2>2. ord[p] \in Caller
    BY <2>1
  <2>3. fs[i] # None /\ i \in 1..Len(fs)
    BY <1>2, <1>7, <1>12, <2>2, CallerAssumption, Zenon
  <2>4. PICK q \in 1..r : ord[q] = fs[i]
    BY <2>3, Zenon DEF InOrder, Placed
  <2>5. q \in 1..Len(ord)
    BY <1>8, <1>9, Zenon
  <2> QED BY <1>7, <1>12, <2>1, <2>4, <2>5, Zenon DEF OneToOne
<1>13. Rising(g, ord, s)
  <2> SUFFICES ASSUME NEW i \in 1..Len(g), NEW j \in 1..Len(g), NEW p \in 1..s, NEW q \in 1..s,
                      i < j, ord[p] = g[i], ord[q] = g[j]
               PROVE  p < q
    BY Zenon DEF Rising
  <2>1. CASE j <= n
    <3>1. i <= n
      BY <1>4, <1>5, <2>1
    <3>2. p \in 1..r /\ q \in 1..r
      BY <1>12, <2>1, <3>1, Zenon
    <3>3. ord[p] = fs[i] /\ ord[q] = fs[j] /\ i \in 1..Len(fs) /\ j \in 1..Len(fs)
      BY <1>2, <1>7, <2>1, <3>1, Zenon
    <3> QED BY <3>2, <3>3, Zenon DEF InOrder, Rising
  <2>2. CASE i <= n /\ j > n
    <3>1. p \in 1..r
      BY <1>12, <2>2, Zenon
    <3>2. q = r + pos[j - n]
      BY <1>6, <1>9, <2>2, Zenon DEF OneToOne
    <3>3. q > r
      BY <1>6, <2>2, <3>2, Zenon
    <3> QED BY <1>9, <3>1, <3>3
  <2>3. CASE i > n
    <3>1. j > n
      BY <1>4, <1>5, <2>3
    <3>2. p = r + pos[i - n] /\ q = r + pos[j - n]
      BY <1>6, <1>9, <2>3, <3>1, Zenon DEF OneToOne
    <3>3. pos[i - n] \in 1..Len(C) /\ pos[j - n] \in 1..Len(C)
      BY <1>6, <2>3, <3>1, Zenon
    <3>4. i - n \in 1..Len(W) /\ j - n \in 1..Len(W) /\ i - n < j - n
      BY <1>4, <1>5, <2>3, <3>1
    <3>5. pos[i - n] < pos[j - n]
      BY <3>4, Zenon DEF Picks
    <3>6. ASSUME NEW a \in 1..Len(C), NEW b \in 1..Len(C), a < b PROVE r + a < r + b
      BY <1>4, <3>6
    <3> QED BY <3>2, <3>3, <3>5, <3>6, Zenon
  <2> QED BY <1>10, <2>1, <2>2, <2>3, Zenon
<1> QED BY <1>1, <1>3, <1>5, <1>11, <1>13, Zenon DEF InOrder

(* The steps that end the commit of a cohort.                              *)
EndStep == \/ Refused \/ CommitSerially \/ CommitBreaks \/ CookFails \/ CookTimesOut
           \/ Install \/ InstallUndone \/ InstallBreaks

LEMMA EndLeaves ==
    ASSUME EndStep
    PROVE  /\ worker \in Busy /\ UNCHANGED <<request, call, answer, queue, order, cohorts, directs>>
           /\ \E outcomes : Committed(outcomes)
<1>1. worker \in Busy
  BY Zenon DEF EndStep, Refused, CommitSerially, CommitBreaks, CookFails, CookTimesOut, Install,
         InstallUndone, InstallBreaks, Cooked, Pop, Busy
<1>2. UNCHANGED <<request, call, answer, queue, order, cohorts, directs>>
  BY Zenon DEF EndStep, Refused, CommitSerially, CommitBreaks, CookFails, CookTimesOut, Install,
         InstallUndone, InstallBreaks, CommitElse, callers, ledger
<1>3. \E outcomes : Committed(outcomes)
  BY Zenon DEF EndStep, Refused, CommitSerially, CommitBreaks, CookFails, CookTimesOut, Install,
         InstallUndone, InstallBreaks
<1> QED BY <1>1, <1>2, <1>3, Zenon

(* It appends a part of the cohort, perhaps none of it.                    *)
LEMMA EndFrames ==
    ASSUME FlowInv, frames \in Seq(Caller \cup {None}), EndStep
    PROVE  \E W, pos : Picks(W, Cohort, pos) /\ frames' = frames \o W
<1>1. Cohort \in Seq(Caller)
  BY EndLeaves, CohortInPlace, Zenon
<1>2. CASE frames' = frames
  <2>1. PICK W : W = <<>>
    BY Zenon
  <2>2. frames' = frames \o W /\ W \in Seq(Caller) /\ Len(W) = 0
    BY <1>2, <2>1
  <2>3. PICK pos : pos = [k \in 1..Len(W) |-> 1]
    BY Zenon
  <2>4. Picks(W, Cohort, pos)
    <3>1. \A k \in 1..Len(W) : FALSE
      BY <2>2
    <3> QED BY <2>2, <2>3, <3>1, Zenon DEF Picks
  <2> QED BY <2>2, <2>4, Zenon
<1>3. CASE CommitSerially
  <2>1. PICK outcomes : frames' = frames \o Written(outcomes)
    BY <1>3, Zenon DEF CommitSerially
  <2> QED BY <1>1, <2>1, WrittenFacts, Zenon
<1>4. CASE CommitBreaks
  <2>1. PICK outcomes, n : /\ n \in 0..Len(Written(outcomes))
                           /\ frames' = frames \o SubSeq(Written(outcomes), 1, n)
    BY <1>4, Zenon DEF CommitBreaks
  <2>2. PICK pos : Picks(Written(outcomes), Cohort, pos)
    BY <1>1, WrittenFacts, Zenon
  <2>3. PICK p : Picks(SubSeq(Written(outcomes), 1, n), Cohort, p)
    BY <1>1, <2>1, <2>2, PicksPrefix, Zenon
  <2> QED BY <2>1, <2>3, Zenon
<1>5. CASE Install \/ InstallBreaks
  <2>1. frames' = frames \o Cohort
    BY <1>5, Zenon DEF Install, InstallBreaks
  <2> QED BY <1>1, <2>1, PicksAll, Zenon
<1>6. CASE Refused \/ CookFails \/ CookTimesOut \/ InstallUndone
  BY <1>2, <1>6, Zenon DEF Refused, CookFails, CookTimesOut, InstallUndone, store
<1> QED BY <1>3, <1>4, <1>5, <1>6, Zenon DEF EndStep

(* Every step is of one of three kinds.                                    *)
LEMMA StepKinds ==
    ASSUME [Next]_vars
    PROVE  OtherStep \/ EndStep \/ Reserve
  BY Zenon DEF Next, WorkerStep, CommitStep, OtherStep, EndStep

LEMMA OtherFrames ==
    ASSUME OtherStep
    PROVE  frames' = frames \/ frames' = Append(frames, None)
  BY Zenon DEF OtherStep, CallerStep, Admit, NoCredits, Notify, Idle, Collect, CollectTimesOut,
       TakeFirst, TakeSecond, WorkerElse, Release, Reply, Cook, Spurious, Drop, Direct,
       DirectBreaks, Atomic, vars, store

LEMMA FlowStep ==
    ASSUME FlowInv, [Next]_vars
    PROVE  FlowInv'
<1>1. CASE OtherStep
  BY <1>1, OtherFlow, Zenon
<1>2. CASE EndStep
  BY <1>2, EndLeaves, CommitFlow, Zenon
<1>3. CASE Reserve
  <2>1. /\ worker \in Busy /\ worker' \in Busy
        /\ UNCHANGED <<queue, order, cohorts, turn>>
    BY <1>3 DEF Reserve, Busy, CommitElse, ledger
  <2> QED BY <2>1, SameStage, Zenon
<1> QED BY <1>1, <1>2, <1>3, StepKinds, Zenon

LEMMA OrderStep ==
    ASSUME OrderInv, [Next]_vars
    PROVE  OrderInv'
<1>1. FlowInv' /\ FlowInv /\ InOrder(frames, order, Reached)
  BY FlowStep, Zenon DEF OrderInv
<1>2. /\ Reached \in 0..Len(order) /\ order \in Seq(Caller) /\ Len(order) \in Nat
      /\ frames \in Seq(Caller \cup {None})
  BY <1>1, ReachedBound, FlowNumbers, Zenon DEF FlowInv, FlowTypes, InOrder
<1>3. CASE OtherStep
  <2>1. Reached' = Reached /\ \A i \in 1..Len(order) : order'[i] = order[i]
    BY <1>1, <1>3, OtherFlow, Zenon DEF OrderGrows
  <2>2. PICK fs : fs = frames' /\ InOrder(fs, order, Reached)
    BY <1>1, <1>2, <1>3, OtherFrames, NoneAdded, Zenon
  <2>3. InOrder(fs, order', Reached)
    BY <1>2, <2>1, <2>2, InOrderGrown, Zenon
  <2> QED BY <1>1, <2>1, <2>2, <2>3, Zenon DEF OrderInv
<1>4. CASE EndStep
  <2>1. /\ worker \in Busy /\ UNCHANGED <<queue, order, cohorts>>
        /\ \E outcomes : Committed(outcomes)
    BY <1>4, EndLeaves, Zenon
  <2>2. Reached' = Reached + Len(Cohort)
    BY <1>1, <2>1, CommitFlow, Zenon
  <2>3. PICK W, pos : Picks(W, Cohort, pos) /\ frames' = frames \o W
    BY <1>1, <1>2, <1>4, EndFrames, Zenon
  <2>4. /\ Cohort \in Seq(Caller) /\ Reached \in Nat /\ Follows(Cohort, order, Reached)
        /\ Len(Cohort) \in Nat /\ Reached + Len(Cohort) <= Passed /\ Passed <= Len(order)
    BY <1>1, <2>1, CohortInPlace, Zenon DEF Follows
  <2>5. Reached + Len(Cohort) <= Len(order)
    <3>1. Passed \in Nat
      BY <1>1, FlowNumbers, Zenon
    <3> QED BY <1>2, <2>4, <3>1
  <2>6. OneToOne(order)
    BY <1>1, Zenon DEF FlowInv, Distinct, OneToOne
  <2>7. InOrder(frames \o W, order, Reached + Len(Cohort))
    BY <1>1, <1>2, <2>3, <2>4, <2>5, <2>6, FramesAdded, Zenon
  <2> QED BY <1>1, <2>1, <2>2, <2>3, <2>7, Zenon DEF OrderInv
<1>5. CASE Reserve
  <2>1. /\ worker \in Busy /\ worker' \in Busy
        /\ UNCHANGED <<queue, order, cohorts, turn, frames>>
    BY <1>5 DEF Reserve, Busy, CommitElse, ledger, store
  <2>2. Reached' = Reached
    BY <1>1, <2>1, SameStage, Zenon
  <2> QED BY <1>1, <2>1, <2>2, Zenon DEF OrderInv
<1> QED BY <1>3, <1>4, <1>5, StepKinds, Zenon

LEMMA OrderInit == Init => OrderInv
<1> SUFFICES ASSUME Init PROVE OrderInv
  OBVIOUS
<1>1. /\ queue = <<>> /\ order = <<>> /\ cohorts = <<>> /\ frames = <<>> /\ worker = "lock"
      /\ request \in [Caller -> Request] /\ call = [c \in Caller |-> "idle"]
  BY Zenon DEF Init
<1>2. /\ queue \in Seq(Caller) /\ order \in Seq(Caller) /\ cohorts \in Seq(Seq(Caller))
      /\ frames \in Seq(Caller \cup {None})
      /\ Len(queue) = 0 /\ Len(order) = 0 /\ Len(cohorts) = 0 /\ Len(frames) = 0
  BY <1>1
<1>3. \A i \in 1..0 : FALSE
  OBVIOUS
<1>4. FlowTypes
  BY <1>1, <1>2, Zenon DEF FlowTypes, CallPlaces
<1>5. Stages
  BY <1>1 DEF Stages, Early
<1>6. Queued /\ Distinct /\ OrderAdmitted /\ Laid(cohorts, Passed, order)
  <2>1. 0 <= 0
    OBVIOUS
  <2> QED BY <1>2, <1>3, <2>1, Zenon DEF Queued, Distinct, OrderAdmitted, Laid
<1>7. InOrder(frames, order, Reached)
  BY <1>2, <1>3, Zenon DEF InOrder, Placed, Rising
<1> QED BY <1>4, <1>5, <1>6, <1>7, Zenon DEF OrderInv, FlowInv

LEMMA OrderImplies == OrderInv => WrittenInOrder
<1> SUFFICES ASSUME OrderInv PROVE WrittenInOrder
  OBVIOUS
<1> DEFINE place(c) == CHOOSE i \in DOMAIN order : order[i] = c
<1>1. /\ Reached \in 0..Len(order) /\ order \in Seq(Caller) /\ Len(order) \in Nat
      /\ frames \in Seq(Caller \cup {None})
  BY ReachedBound, FlowNumbers, Zenon DEF OrderInv, FlowInv, FlowTypes, InOrder
<1>2. DOMAIN order = 1..Len(order) /\ DOMAIN frames = 1..Len(frames)
  BY <1>1
<1>3. ASSUME NEW p \in 1..Reached PROVE place(order[p]) = p
  <2>1. p \in DOMAIN order
    BY <1>1, <1>2
  <2>2. \A i \in DOMAIN order : order[i] = order[p] => i = p
    BY <1>2, <2>1, Zenon DEF OrderInv, FlowInv, Distinct
  <2> QED BY <2>1, <2>2, Zenon
<1> SUFFICES ASSUME NEW i \in 1..Len(frames), NEW j \in 1..Len(frames), i < j,
                    frames[i] # None, frames[j] # None
             PROVE  place(frames[i]) < place(frames[j])
  BY <1>2, Zenon DEF WrittenInOrder
<1>4. PICK p \in 1..Reached : order[p] = frames[i]
  BY Zenon DEF OrderInv, InOrder, Placed
<1>5. PICK q \in 1..Reached : order[q] = frames[j]
  BY Zenon DEF OrderInv, InOrder, Placed
<1>6. p < q
  BY <1>4, <1>5, Zenon DEF OrderInv, InOrder, Rising
<1>7. place(frames[i]) = p /\ place(frames[j]) = q
  BY <1>3, <1>4, <1>5, Zenon
<1> QED BY <1>6, <1>7, Zenon

(* Across cohorts, pairs of them, the serial path and the cooker pool, and *)
(* whatever fails, frames come in the order in which admit queued their    *)
(* calls.                                                                  *)
THEOREM AlwaysWrittenInOrder == Spec => []WrittenInOrder
<1>1. OrderInv /\ [Next]_vars => OrderInv'
  BY OrderStep
<1> QED BY <1>1, OrderInit, OrderImplies, PTL DEF Spec

-----------------------------------------------------------------------------
(* What is written, what is recorded, and what callers are told.           *)

(* A frame of the operation id, or of the call, is among the first st.     *)
Stored(asked, fs, st, id) == \E i \in 1..st : fs[i] # None /\ asked[fs[i]].id = id
Standing(fs, st, c) == \E i \in 1..st : fs[i] = c

Recorded(asked, fs, ids) == \A i \in 1..Len(fs) : fs[i] # None => asked[fs[i]].id \in ids

Once(asked, fs) ==
    \A i, j \in 1..Len(fs) :
        fs[i] # None /\ fs[j] # None /\ asked[fs[i]].id = asked[fs[j]].id => i = j

(* Recorded outcomes have stable frames, and frames have recorded outcomes *)
(* until the writer is poisoned.                                           *)
StoreInv(asked, fs, st, ids, bad) ==
    /\ fs \in Seq(Caller \cup {None}) /\ st \in 0..Len(fs)
    /\ \A id \in ids : Stored(asked, fs, st, id)
    /\ (~bad) => Recorded(asked, fs, ids)
    /\ Once(asked, fs)

(* The ids of W are not recorded, and differ.                              *)
Fresh(asked, W, ids) ==
    /\ \A k \in 1..Len(W) : asked[W[k]].id \notin ids
    /\ \A k, l \in 1..Len(W) : asked[W[k]].id = asked[W[l]].id => k = l

Told(asked, fs, st, c, what) ==
    /\ what = "ok" => Standing(fs, st, c)
    /\ what = "dedup" => Stored(asked, fs, st, asked[c].id)

AllTold(asked, fs, st, told) == \A c \in Caller : Told(asked, fs, st, c, told[c])

DedupInv ==
    /\ StoreInv(request, frames, stable, write_dedup, poisoned)
    /\ worker = "cook" => ~poisoned /\ Fresh(request, Cohort, write_dedup)
    /\ AllTold(request, frames, stable, outcome)
    /\ AllTold(request, frames, stable, answer)
    /\ answer = [c \in Caller |-> answer[c]]

(* What was stable still is.                                               *)
Extends(fs, st, gs, st2) == \A i \in 1..st : i \in 1..st2 /\ gs[i] = fs[i]

LEMMA ToldStill ==
    ASSUME NEW asked, NEW fs, NEW st, NEW gs, NEW st2, Extends(fs, st, gs, st2)
    PROVE  /\ \A id : Stored(asked, fs, st, id) => Stored(asked, gs, st2, id)
           /\ \A c, what : Told(asked, fs, st, c, what) => Told(asked, gs, st2, c, what)
           /\ \A told : AllTold(asked, fs, st, told) => AllTold(asked, gs, st2, told)
<1>1. \A id : Stored(asked, fs, st, id) => Stored(asked, gs, st2, id)
  BY Zenon DEF Extends, Stored
<1>2. \A c, what : Told(asked, fs, st, c, what) => Told(asked, gs, st2, c, what)
  BY <1>1, Zenon DEF Extends, Standing, Told
<1> QED BY <1>1, <1>2, Zenon DEF AllTold

(* Another user of the store writes a frame, or moves the stable boundary. *)
LEMMA StoreGrows ==
    ASSUME NEW asked, NEW fs, NEW st, NEW ids, NEW bad, StoreInv(asked, fs, st, ids, bad),
           NEW gs, gs = fs \/ gs = Append(fs, None), NEW st2, st2 \in {st, Len(gs)}
    PROVE  StoreInv(asked, gs, st2, ids, bad) /\ Extends(fs, st, gs, st2)
<1>1. fs \in Seq(Caller \cup {None}) /\ Len(fs) \in Nat /\ st \in 0..Len(fs)
  BY DEF StoreInv
<1>2. /\ gs \in Seq(Caller \cup {None}) /\ Len(gs) >= Len(fs) /\ Len(gs) \in Nat
      /\ \A i \in 1..Len(fs) : gs[i] = fs[i]
      /\ \A i \in 1..Len(gs) : i \in 1..Len(fs) \/ gs[i] = None
  <2>1. CASE gs = fs
    BY <1>1, <2>1
  <2>2. CASE gs = Append(fs, None)
    BY <1>1, <2>2
  <2> QED BY <2>1, <2>2
<1>3. st2 \in 0..Len(gs) /\ \A i \in 1..st : i \in 1..st2 /\ i \in 1..Len(fs)
  BY <1>1, <1>2
<1>4. Extends(fs, st, gs, st2)
  BY <1>2, <1>3, Zenon DEF Extends
<1>5. \A id \in ids : Stored(asked, gs, st2, id)
  BY <1>4, ToldStill, Zenon DEF StoreInv
<1>6. (~bad) => Recorded(asked, gs, ids)
  BY <1>2, Zenon DEF StoreInv, Recorded
<1>7. Once(asked, gs)
  BY <1>2, Zenon DEF StoreInv, Once
<1> QED BY <1>2, <1>3, <1>4, <1>5, <1>6, <1>7, Zenon DEF StoreInv

(* A cohort is appended to a healthy store.                                *)
LEMMA StoreWrites ==
    ASSUME NEW asked, NEW fs, NEW st, NEW ids, StoreInv(asked, fs, st, ids, FALSE),
           NEW W \in Seq(Caller), Fresh(asked, W, ids), NEW gs, gs = fs \o W
    PROVE  /\ \A st2 \in {st, Len(gs)} :
                 StoreInv(asked, gs, st2, ids, TRUE) /\ Extends(fs, st, gs, st2)
           /\ StoreInv(asked, gs, Len(gs), ids \cup {asked[c].id : c \in Range(W)}, FALSE)
           /\ \A k \in 1..Len(W) : Standing(gs, Len(gs), W[k])
           /\ \A k \in 1..Len(W) : Stored(asked, gs, Len(gs), asked[W[k]].id)
<1> DEFINE n == Len(fs)
<1>1. /\ fs \in Seq(Caller \cup {None}) /\ n \in Nat /\ st \in 0..n
      /\ Recorded(asked, fs, ids) /\ Once(asked, fs)
  BY DEF StoreInv
<1>2. /\ gs \in Seq(Caller \cup {None}) /\ Len(gs) = n + Len(W) /\ Len(W) \in Nat
      /\ Len(gs) \in Nat
      /\ \A i \in 1..n : gs[i] = fs[i]
      /\ \A k \in 1..Len(W) : n + k \in 1..Len(gs) /\ gs[n + k] = W[k]
  <2>1. W \in Seq(Caller \cup {None})
    OBVIOUS
  <2> QED BY <1>1, <2>1
<1>3. \A i \in 1..Len(gs) : i \in 1..n \/ \E k \in 1..Len(W) : i = n + k
  <2>1. ASSUME NEW m \in Nat, NEW l \in Nat, NEW i \in 1..(m + l), i \notin 1..m
        PROVE  i - m \in 1..l /\ i = m + (i - m)
    BY <2>1
  <2>2. ASSUME NEW i \in 1..Len(gs), i \notin 1..n PROVE \E k \in 1..Len(W) : i = n + k
    <3> HIDE DEF n
    <3>1. i \in 1..(n + Len(W))
      BY <1>2, Zenon
    <3>2. i - n \in 1..Len(W) /\ i = n + (i - n)
      BY <1>1, <1>2, <2>1, <2>2, <3>1, Zenon
    <3> QED BY <3>2, Zenon
  <2> QED BY <2>2, Zenon
<1>4. \A k \in 1..Len(W) : W[k] # None
  <2>1. \A k \in 1..Len(W) : W[k] \in Caller
    OBVIOUS
  <2> QED BY <2>1, CallerAssumption, Zenon
<1>5. \A i \in 1..st : i \in 1..n /\ i \in 1..Len(gs)
  BY <1>1, <1>2
<1>6. \A st2 \in {st, Len(gs)} : st2 \in 0..Len(gs)
  BY <1>1, <1>2
<1>7. \A st2 \in {st, Len(gs)} : Extends(fs, st, gs, st2)
  <2> HIDE DEF n
  <2> QED BY <1>2, <1>5, Zenon DEF Extends
<1>8. Once(asked, gs)
  <2> SUFFICES ASSUME NEW i \in 1..Len(gs), NEW j \in 1..Len(gs), gs[i] # None, gs[j] # None,
                      asked[gs[i]].id = asked[gs[j]].id
               PROVE  i = j
    BY Zenon DEF Once
  <2> HIDE DEF n
  <2>1. ASSUME NEW x \in 1..n, NEW k \in 1..Len(W), gs[x] # None,
               asked[gs[x]].id = asked[gs[n + k]].id
        PROVE  FALSE
    <3>1. asked[gs[x]].id \in ids
      <4>1. x \in 1..Len(fs) /\ gs[x] = fs[x]
        BY <1>2, Zenon DEF n
      <4> QED BY <1>1, <2>1, <4>1, Zenon DEF Recorded
    <3>2. asked[gs[n + k]].id \notin ids
      BY <1>2, Zenon DEF Fresh
    <3> QED BY <2>1, <3>1, <3>2, Zenon
  <2>2. CASE i \in 1..n /\ j \in 1..n
    <3>1. i \in 1..Len(fs) /\ j \in 1..Len(fs) /\ gs[i] = fs[i] /\ gs[j] = fs[j]
      BY <1>2, <2>2, Zenon DEF n
    <3> QED BY <1>1, <3>1, Zenon DEF Once
  <2>3. ASSUME NEW k \in 1..Len(W), NEW l \in 1..Len(W), i = n + k, j = n + l PROVE i = j
    <3>1. gs[i] = W[k] /\ gs[j] = W[l]
      BY <1>2, <2>3, Zenon
    <3>2. asked[W[k]].id = asked[W[l]].id
      BY <3>1, Zenon
    <3>3. k = l
      BY <3>2, Zenon DEF Fresh
    <3> QED BY <2>3, <3>3, Zenon
  <2> QED BY <1>3, <2>1, <2>2, <2>3, Zenon
<1>9. \A k \in 1..Len(W) : Standing(gs, Len(gs), W[k])
  <2> HIDE DEF n
  <2> QED BY <1>2, Zenon DEF Standing
<1>10. \A k \in 1..Len(W) : Stored(asked, gs, Len(gs), asked[W[k]].id)
  <2> HIDE DEF n
  <2> QED BY <1>2, <1>4, ZenonT(30) DEF Stored
<1>11. ASSUME NEW st2 \in {st, Len(gs)} PROVE StoreInv(asked, gs, st2, ids, TRUE)
  <2>1. \A id \in ids : Stored(asked, gs, st2, id)
    BY <1>7, ToldStill, Zenon DEF StoreInv
  <2> QED BY <1>2, <1>6, <1>8, <2>1, Zenon DEF StoreInv
<1>12. \A c : c \in Range(W) <=> \E k \in 1..Len(W) : c = W[k]
  BY DEF Range
<1>13. PICK more : more = ids \cup {asked[c].id : c \in Range(W)}
  BY Zenon
<1>14. \A id \in more : Stored(asked, gs, Len(gs), id)
  <2>1. \A id \in ids : Stored(asked, gs, Len(gs), id)
    BY <1>7, ToldStill, Zenon DEF StoreInv
  <2>2. ASSUME NEW c \in Range(W) PROVE Stored(asked, gs, Len(gs), asked[c].id)
    BY <1>10, <1>12, Zenon
  <2> QED BY <1>13, <2>1, <2>2, Zenon
<1>15. Recorded(asked, gs, more)
  <2> SUFFICES ASSUME NEW i \in 1..Len(gs), gs[i] # None PROVE asked[gs[i]].id \in more
    BY Zenon DEF Recorded
  <2>1. CASE i \in 1..n
    <3>1. i \in 1..Len(fs) /\ gs[i] = fs[i]
      BY <1>2, <2>1, Zenon
    <3> QED BY <1>1, <1>13, <3>1, Zenon DEF Recorded
  <2> HIDE DEF n
  <2>2. ASSUME NEW k \in 1..Len(W), i = n + k PROVE asked[gs[i]].id \in more
    <3>1. gs[i] = W[k] /\ W[k] \in Range(W)
      BY <1>2, <1>12, <2>2, Zenon
    <3> QED BY <1>13, <3>1, Zenon
  <2> QED BY <1>3, <2>1, <2>2, Zenon
<1>16. StoreInv(asked, gs, Len(gs), more, FALSE)
  BY <1>2, <1>6, <1>8, <1>14, <1>15, Zenon DEF StoreInv
<1> QED BY <1>7, <1>9, <1>10, <1>11, <1>13, <1>16, Zenon

(* As CommitSerially does: nothing is synced when nothing is written.      *)
SyncedTo(W, st, gs) == IF W = <<>> THEN st ELSE Len(gs)

LEMMA SerialWrites ==
    ASSUME NEW asked, NEW fs, NEW st, NEW ids, StoreInv(asked, fs, st, ids, FALSE),
           NEW W \in Seq(Caller), Fresh(asked, W, ids), NEW gs, gs = fs \o W,
           NEW st2, st2 = SyncedTo(W, st, gs),
           NEW ids2, ids2 = ids \cup {asked[c].id : c \in Range(W)}
    PROVE  /\ StoreInv(asked, gs, st2, ids2, FALSE)
           /\ Extends(fs, st, gs, st2)
           /\ \A k \in 1..Len(W) : Standing(gs, st2, W[k])
           /\ \A k \in 1..Len(W) : Stored(asked, gs, st2, asked[W[k]].id)
<1>1. CASE W # <<>>
  <2>1. st2 = Len(gs) /\ st2 \in {st, Len(gs)}
    BY <1>1, Zenon DEF SyncedTo
  <2>2. Extends(fs, st, gs, st2)
    BY <2>1, StoreWrites, Zenon
  <2>3. StoreInv(asked, gs, Len(gs), ids \cup {asked[c].id : c \in Range(W)}, FALSE)
    BY StoreWrites, Zenon
  <2>4. \A k \in 1..Len(W) : Standing(gs, Len(gs), W[k])
    BY StoreWrites, Zenon
  <2>5. \A k \in 1..Len(W) : Stored(asked, gs, Len(gs), asked[W[k]].id)
    BY StoreWrites, Zenon
  <2> QED BY <2>1, <2>2, <2>3, <2>4, <2>5, Zenon
<1>2. CASE W = <<>>
  <2>1. fs \in Seq(Caller \cup {None}) /\ st2 = st
    BY <1>2, Zenon DEF StoreInv, SyncedTo
  <2>2. gs = fs /\ Len(W) = 0 /\ \A k \in 1..Len(W) : FALSE
    BY <1>2, <2>1
  <2>3. ids2 = ids
    <3>1. Range(W) = {}
      BY <2>2 DEF Range
    <3> QED BY <3>1, Zenon
  <2>4. Extends(fs, st, gs, st2)
    BY <2>1, <2>2, Zenon DEF Extends
  <2> QED BY <2>1, <2>2, <2>3, <2>4, Zenon
<1> QED BY <1>1, <1>2, Zenon

LEMMA InRange ==
    ASSUME NEW C \in Seq(Caller)
    PROVE  \A c : c \in Range(C) <=> \E k \in 1..Len(C) : c = C[k]
  BY DEF Range

LEMMA CohortDistinct ==
    ASSUME FlowInv, worker \in Busy
    PROVE  \A i, j \in 1..Len(Cohort) : Cohort[i] = Cohort[j] => i = j
<1>1. /\ Len(Cohort) \in Nat /\ Reached \in Nat /\ Passed \in Nat /\ Len(order) \in Nat
      /\ Reached + Len(Cohort) <= Passed /\ Passed <= Len(order)
      /\ \A i \in 1..Len(Cohort) : Cohort[i] = order[Reached + i]
  BY CohortInPlace, FlowNumbers, Zenon
<1>2. \A i \in 1..Len(Cohort) : Reached + i \in 1..Len(order)
  BY <1>1
<1>3. ASSUME NEW i \in 1..Len(Cohort), NEW j \in 1..Len(Cohort), Reached + i = Reached + j
      PROVE  i = j
  BY <1>1, <1>3
<1> QED BY <1>1, <1>2, <1>3, Zenon DEF FlowInv, Distinct

(* Of the members of a cohort that have the same operation id, one leads.  *)
LEMMA LeadsFacts ==
    ASSUME FlowInv, worker \in Busy
    PROVE  /\ \A c, d \in Range(Cohort) :
                 Leads(c) /\ Leads(d) /\ request[c].id = request[d].id => c = d
           /\ \A c \in Range(Cohort) :
                 \E d \in Range(Cohort) : request[d].id = request[c].id /\ Leads(d)
<1> DEFINE place(d) == CHOOSE i \in DOMAIN Cohort : Cohort[i] = d
<1>1. Cohort \in Seq(Caller) /\ Len(Cohort) \in Nat
  BY CohortInPlace, Zenon
<1>2. DOMAIN Cohort = 1..Len(Cohort)
  BY <1>1
<1>3. \A c : c \in Range(Cohort) <=> \E k \in 1..Len(Cohort) : c = Cohort[k]
  BY <1>1, InRange, Zenon
<1>4. ASSUME NEW c \in Range(Cohort)
      PROVE  place(c) \in 1..Len(Cohort) /\ Cohort[place(c)] = c
  <2>1. \E k \in DOMAIN Cohort : Cohort[k] = c
    BY <1>2, <1>3, Zenon
  <2>2. place(c) \in DOMAIN Cohort /\ Cohort[place(c)] = c
    BY <2>1, Zenon
  <2> QED BY <1>2, <2>2, Zenon
<1>5. \A c : Leads(c) <=> \A d \in Range(Cohort) :
                             request[d].id = request[c].id => place(c) <= place(d)
  BY Zenon DEF Leads
<1> HIDE DEF place
<1>6. ASSUME NEW c \in Range(Cohort), NEW d \in Range(Cohort), Leads(c), Leads(d),
             request[c].id = request[d].id
      PROVE  c = d
  <2>1. place(c) <= place(d) /\ place(d) <= place(c)
    BY <1>5, <1>6, Zenon
  <2>2. place(c) = place(d)
    BY <1>1, <1>4, <2>1
  <2> QED BY <1>4, <2>2, Zenon
<1>7. ASSUME NEW c \in Range(Cohort)
      PROVE  \E d \in Range(Cohort) : request[d].id = request[c].id /\ Leads(d)
  <2>1. PICK S : S = {i \in 1..Len(Cohort) : request[Cohort[i]].id = request[c].id}
    BY Zenon
  <2>2. S \subseteq 1..Len(Cohort) /\ S # {}
    BY <1>3, <2>1, Zenon
  <2>3. S \subseteq Nat
    BY <2>2
  <2>4. PICK x \in S : \A y \in S : x <= y
    BY <2>2, <2>3, MinExists, Zenon
  <2>5. PICK d : d = Cohort[x]
    BY Zenon
  <2>6. d \in Range(Cohort) /\ request[d].id = request[c].id /\ x \in 1..Len(Cohort)
    BY <1>3, <2>1, <2>4, <2>5, Zenon
  <2>7. place(d) = x
    BY <1>4, <2>5, <2>6, CohortDistinct, Zenon
  <2>8. ASSUME NEW e \in Range(Cohort), request[e].id = request[d].id PROVE x <= place(e)
    <3>1. place(e) \in S
      BY <1>4, <2>1, <2>6, <2>8, Zenon
    <3> QED BY <2>4, <3>1, Zenon
  <2>9. Leads(d)
    BY <1>5, <2>7, <2>8, Zenon
  <2> QED BY <2>6, <2>9, Zenon
<1> QED BY <1>6, <1>7, Zenon

(* Outcomes of the cohort that stand for frames of W or recorded outcomes. *)
Covered(outcomes, W) ==
    /\ \A c \in Range(Cohort) : outcomes[c] = "ok" => \E k \in 1..Len(W) : W[k] = c
    /\ \A c \in Range(Cohort) : outcomes[c] = "dedup" =>
          \/ request[c].id \in write_dedup
          \/ \E k \in 1..Len(W) : request[W[k]].id = request[c].id

(* What operation_cohort_awo_owned writes has new and different ids, and   *)
(* every answer stands for a frame that is or will be written.             *)
LEMMA SerialFacts ==
    ASSUME FlowInv, worker \in Busy, NEW refused, NEW outcomes, outcomes = CohortOutcome(refused),
           NEW W, W = Written(outcomes)
    PROVE  W \in Seq(Caller) /\ Fresh(request, W, write_dedup) /\ Covered(outcomes, W)
<1>1. Cohort \in Seq(Caller) /\ Len(Cohort) \in Nat
  BY CohortInPlace, Zenon
<1>3. PICK pos : Picks(W, Cohort, pos)
  BY <1>1, WrittenFacts, Zenon
<1>4. /\ \A k \in 1..Len(W) : outcomes[W[k]] = "ok"
      /\ \A i \in 1..Len(Cohort) : outcomes[Cohort[i]] = "ok" => \E k \in 1..Len(W) : W[k] = Cohort[i]
  BY <1>1, WrittenFacts, Zenon
<1>5. \A c : c \in Range(Cohort) <=> \E k \in 1..Len(Cohort) : c = Cohort[k]
  BY <1>1, InRange, Zenon
<1>6. \A c \in Range(Cohort) :
          outcomes[c] = IF request[c].id \in write_dedup THEN "dedup"
                        ELSE IF request[c].id \in refused THEN "error"
                        ELSE IF Leads(c) THEN "ok" ELSE "dedup"
  BY Zenon DEF CohortOutcome
<1>7. \A c \in Range(Cohort) : /\ outcomes[c] = "ok" => (request[c].id \notin write_dedup /\ Leads(c))
                               /\ outcomes[c] = "dedup" =>
                                     (request[c].id \in write_dedup \/ request[c].id \notin refused)
  BY <1>6, Zenon
<1>8. \A c \in Range(Cohort) :
          request[c].id \notin write_dedup /\ request[c].id \notin refused /\ Leads(c)
              => outcomes[c] = "ok"
  BY <1>6, Zenon
<1>9. W \in Seq(Caller) /\ Len(W) \in Nat
  BY <1>3 DEF Picks
<1>10. \A k \in 1..Len(W) : /\ pos[k] \in 1..Len(Cohort) /\ W[k] = Cohort[pos[k]]
                            /\ W[k] \in Range(Cohort)
  BY <1>3, <1>5, Zenon DEF Picks
<1>11. ASSUME NEW k \in 1..Len(W), NEW l \in 1..Len(W), request[W[k]].id = request[W[l]].id
       PROVE  k = l
  <2>1. W[k] = W[l]
    BY <1>4, <1>7, <1>10, <1>11, LeadsFacts, Zenon
  <2>2. pos[k] = pos[l]
    <3>1. Cohort[pos[k]] = Cohort[pos[l]] /\ pos[k] \in 1..Len(Cohort) /\ pos[l] \in 1..Len(Cohort)
      BY <1>10, <2>1, Zenon
    <3> QED BY <3>1, CohortDistinct, Zenon
  <2>3. ~(k < l) /\ ~(l < k)
    <3>1. \A i \in 1..Len(Cohort) : ~(i < i)
      BY <1>1
    <3> QED BY <1>3, <1>10, <2>2, <3>1, Zenon DEF Picks
  <2> QED BY <1>9, <2>3
<1>12. Fresh(request, W, write_dedup)
  BY <1>4, <1>7, <1>10, <1>11, Zenon DEF Fresh
<1>13. \A c \in Range(Cohort) : outcomes[c] = "ok" => \E k \in 1..Len(W) : W[k] = c
  <2> SUFFICES ASSUME NEW c \in Range(Cohort), outcomes[c] = "ok"
               PROVE  \E k \in 1..Len(W) : W[k] = c
    BY Zenon
  <2>1. PICK i \in 1..Len(Cohort) : c = Cohort[i]
    BY <1>5, Zenon
  <2>2. outcomes[Cohort[i]] = "ok"
    BY <2>1, Zenon
  <2>3. PICK k \in 1..Len(W) : W[k] = Cohort[i]
    BY <1>4, <2>2, Zenon
  <2> QED BY <2>1, <2>3, Zenon
<1>14. ASSUME NEW c \in Range(Cohort), outcomes[c] = "dedup", request[c].id \notin write_dedup
       PROVE  \E k \in 1..Len(W) : request[W[k]].id = request[c].id
  <2>1. PICK d \in Range(Cohort) : request[d].id = request[c].id /\ Leads(d)
    BY LeadsFacts, Zenon
  <2>2. outcomes[d] = "ok"
    BY <1>7, <1>8, <1>14, <2>1, Zenon
  <2>3. PICK k \in 1..Len(W) : W[k] = d
    BY <1>13, <2>2, Zenon
  <2> QED BY <2>1, <2>3, Zenon
<1>15. Covered(outcomes, W)
  BY <1>13, <1>14, Zenon DEF Covered
<1> QED BY <1>9, <1>12, <1>15, Zenon

(* reserve_operation_put_cohort takes only new and different ids.          *)
LEMMA ReserveFresh ==
    ASSUME FlowInv, Reserve
    PROVE  Fresh(request, Cohort, write_dedup)
<1>1. worker \in Busy
  BY DEF Reserve, Busy
<1>2. Cohort \in Seq(Caller) /\ Len(Cohort) \in Nat
  BY <1>1, CohortInPlace, Zenon
<1>3. \A c : c \in Range(Cohort) <=> \E k \in 1..Len(Cohort) : c = Cohort[k]
  BY <1>2, InRange, Zenon
<1>4. PICK n : n = Len(Cohort)
  BY Zenon
<1>5. PICK T : T = Ids(Cohort)
  BY Zenon
<1>6. PICK f : f = [k \in 1..n |-> request[Cohort[k]].id]
  BY Zenon
<1>7. \A k \in 1..n : f[k] \in T
  BY <1>3, <1>4, <1>5, <1>6, Zenon DEF Ids
<1>8. ASSUME NEW id \in T PROVE \E k \in 1..n : f[k] = id
  <2>1. PICK c \in Range(Cohort) : id = request[c].id
    BY <1>5, Zenon DEF Ids
  <2>2. PICK k \in 1..n : c = Cohort[k]
    BY <1>3, <1>4, Zenon
  <2> QED BY <1>6, <2>1, <2>2, Zenon
<1>9. f \in Surjection(1..n, T)
  <2>1. f \in [1..n -> T]
    BY <1>6, <1>7, Zenon
  <2> QED BY <1>8, <2>1, Zenon DEF Surjection
<1>10. IsFiniteSet(1..n) /\ Cardinality(1..n) = n
  <2>1. n \in Int /\ 1 \in Int
    BY <1>2, <1>4
  <2>2. IsFiniteSet(1..n) /\ Cardinality(1..n) = IF 1 > n THEN 0 ELSE n - 1 + 1
    BY <2>1, FS_Interval, Zenon
  <2> QED BY <1>2, <1>4, <2>2
<1>11. Cardinality(T) = n
  BY <1>4, <1>5, Zenon DEF Reserve
<1>12. f \in Injection(1..n, T)
  BY <1>9, <1>10, <1>11, FS_SurjSameCardinalityImpliesInj, Zenon
<1>13. \A k, l \in 1..n : f[k] = f[l] => k = l
  BY <1>12, Zenon DEF Injection, IsInjective
<1>14. T \cap write_dedup = {}
  BY <1>5, Zenon DEF Reserve
<1> QED BY <1>4, <1>6, <1>7, <1>13, <1>14, Zenon DEF Fresh

(* What a step that is not of the commit does to the store, to the answers *)
(* and to a cohort that is being cooked.                                   *)
LEMMA OtherStore ==
    ASSUME FenceLifted, OtherStep
    PROVE  /\ UNCHANGED <<request, outcome, write_dedup>>
           /\ stable' \in {stable, Len(frames')} /\ (poisoned' = poisoned \/ poisoned' = TRUE)
           /\ worker' = "cook" =>
                 (worker = "cook" /\ UNCHANGED <<poisoned, cohorts, turn>>)
           /\ \/ answer' = answer
              \/ \E c \in Caller : answer' = [answer EXCEPT ![c] = "full"]
              \/ answer' = [c \in Caller |-> IF c \in Range(Cohort) THEN outcome[c] ELSE answer[c]]
<1>1. UNCHANGED <<request, outcome, write_dedup>>
  BY Zenon DEF OtherStep, CallerStep, Admit, NoCredits, Notify, Idle, Collect, CollectTimesOut,
       TakeFirst, TakeSecond, WorkerElse, Release, Reply, Cook, Spurious, Drop, Direct,
       DirectBreaks, Atomic, vars, store, callers
<1>2. stable' \in {stable, Len(frames')}
  BY Zenon DEF OtherStep, CallerStep, Admit, NoCredits, Notify, Idle, Collect, CollectTimesOut,
       TakeFirst, TakeSecond, WorkerElse, Release, Reply, Cook, Spurious, Drop, Direct,
       DirectBreaks, Atomic, vars, store
<1>5. poisoned' = poisoned \/ poisoned' = TRUE
  BY Zenon DEF OtherStep, CallerStep, Admit, NoCredits, Notify, Idle, Collect, CollectTimesOut,
       TakeFirst, TakeSecond, WorkerElse, Release, Reply, Cook, Spurious, Drop, Direct,
       DirectBreaks, Atomic, vars, store
<1>3. \/ answer' = answer
      \/ \E c \in Caller : answer' = [answer EXCEPT ![c] = "full"]
      \/ answer' = [c \in Caller |-> IF c \in Range(Cohort) THEN outcome[c] ELSE answer[c]]
  BY Zenon DEF OtherStep, CallerStep, Admit, NoCredits, Notify, Idle, Collect, CollectTimesOut,
       TakeFirst, TakeSecond, WorkerElse, Release, Reply, Cook, Spurious, Drop, Direct,
       DirectBreaks, Atomic, vars, callers
<1> DEFINE Kept == worker' = "cook" => (worker = "cook" /\ UNCHANGED <<poisoned, cohorts, turn>>)
<1>4. Kept
  <2>1. ASSUME NEW c \in Caller, Admit(c) \/ NoCredits(c) PROVE Kept
    BY <2>1, Zenon DEF Admit, NoCredits, store
  <2>2. \A w \in {"sleep", "collect", "follow"} : Awake(w) # "cook"
    BY DEF Awake
  <2>3. Awake(worker) = "cook" => worker = "cook"
    BY DEF Awake
  <2>4. ASSUME NEW c \in Caller, Notify(c) PROVE Kept
    BY <2>3, <2>4, Zenon DEF Notify, store
  <2>5. CASE Spurious \/ Drop
    BY <2>3, <2>5, Zenon DEF Spurious, Drop, store
  <2>6. CASE Idle \/ Collect \/ CollectTimesOut \/ TakeFirst \/ TakeSecond \/ Release \/ Reply
    BY <2>6, ZenonT(30) DEF Idle, Collect, CollectTimesOut, TakeFirst, TakeSecond, Release, Reply
  <2>7. CASE DirectBreaks
    BY <2>7, Zenon DEF DirectBreaks, DirectAllowed, FenceLifted
  <2>8. CASE UNCHANGED vars \/ (\E t \in cooking : Cook(t)) \/ Direct \/ Atomic
    BY <2>8, Zenon DEF vars, Cook, Direct, Atomic, store
  <2> HIDE DEF Kept
  <2> QED BY <2>1, <2>4, <2>5, <2>6, <2>7, <2>8, Zenon DEF OtherStep, CallerStep
<1> QED BY <1>1, <1>2, <1>3, <1>4, <1>5, Zenon

LEMMA NothingTold ==
    ASSUME NEW asked, NEW fs, NEW st, NEW c
    PROVE  /\ Told(asked, fs, st, c, "error") /\ Told(asked, fs, st, c, "full")
           /\ Told(asked, fs, st, c, None)
<1>1. None # "ok" /\ None # "dedup"
  BY AnswerAssumption
<1> QED BY <1>1 DEF Told

LEMMA OtherDedup ==
    ASSUME DedupInv, FenceLifted, OtherStep
    PROVE  DedupInv'
<1>1. PICK gs : gs = frames'
  BY Zenon
<1>2. PICK st2 : st2 = stable'
  BY Zenon
<1>3. PICK bad2 : bad2 = poisoned'
  BY Zenon
<1>4. /\ gs = frames \/ gs = Append(frames, None)
      /\ st2 \in {stable, Len(gs)} /\ (bad2 = poisoned \/ bad2 = TRUE)
  BY <1>1, <1>2, <1>3, OtherFrames, OtherStore, Zenon
<1>5. StoreInv(request, gs, st2, write_dedup, bad2) /\ Extends(frames, stable, gs, st2)
  <2>1. StoreInv(request, gs, st2, write_dedup, poisoned) /\ Extends(frames, stable, gs, st2)
    <3>1. StoreInv(request, frames, stable, write_dedup, poisoned)
      BY Zenon DEF DedupInv
    <3> QED BY <1>4, <3>1, StoreGrows, Zenon
  <2> QED BY <1>4, <2>1, Zenon DEF StoreInv
<1>6. AllTold(request, gs, st2, outcome) /\ AllTold(request, gs, st2, answer)
  BY <1>5, ToldStill, Zenon DEF DedupInv
<1>7. /\ request' = request /\ outcome' = outcome /\ write_dedup' = write_dedup
      /\ worker' = "cook" => (worker = "cook" /\ poisoned' = poisoned /\ cohorts' = cohorts /\ turn' = turn)
  BY OtherStore, Zenon
<1>8. PICK ans : ans = answer'
  BY Zenon
<1>9. AllTold(request, gs, st2, ans) /\ ans = [c \in Caller |-> ans[c]]
  <2>1. CASE ans = answer
    BY <1>6, <2>1, Zenon DEF DedupInv
  <2>2. ASSUME NEW c \in Caller, ans = [answer EXCEPT ![c] = "full"]
        PROVE  AllTold(request, gs, st2, ans) /\ ans = [d \in Caller |-> ans[d]]
    <3>1. ans = [d \in Caller |-> IF d = c THEN "full" ELSE answer[d]]
      BY <2>2 DEF DedupInv
    <3>2. \A d \in Caller : ans[d] = "full" \/ ans[d] = answer[d]
      BY <3>1, Zenon
    <3>3. AllTold(request, gs, st2, ans)
      BY <1>6, <3>2, NothingTold, Zenon DEF AllTold
    <3> QED BY <3>1, <3>3
  <2>3. CASE ans = [c \in Caller |-> IF c \in Range(Cohort) THEN outcome[c] ELSE answer[c]]
    <3>1. \A d \in Caller : ans[d] = outcome[d] \/ ans[d] = answer[d]
      BY <2>3, Zenon
    <3>2. AllTold(request, gs, st2, ans)
      BY <1>6, <3>1, Zenon DEF AllTold
    <3> QED BY <2>3, <3>2, Zenon
  <2> QED BY <1>8, <2>1, <2>2, <2>3, OtherStore, Zenon
<1>10. worker' = "cook" => (~poisoned' /\ Fresh(request', Cohort', write_dedup'))
  <2> SUFFICES ASSUME worker' = "cook" PROVE ~poisoned' /\ Fresh(request', Cohort', write_dedup')
    BY Zenon
  <2>1. Cohort' = Cohort
    BY <1>7, Zenon DEF Cohort
  <2>2. ~poisoned /\ Fresh(request, Cohort, write_dedup)
    BY <1>7, Zenon DEF DedupInv
  <2>3. Fresh(request', Cohort', write_dedup')
    BY <1>7, <2>1, <2>2, Zenon
  <2>4. ~poisoned'
    BY <1>7, <2>2
  <2> QED BY <2>3, <2>4
<1>11. answer' = [c \in Caller |-> answer'[c]]
  BY <1>8, <1>9, Zenon
<1> QED BY <1>1, <1>2, <1>3, <1>5, <1>6, <1>7, <1>8, <1>9, <1>10, <1>11, Zenon DEF DedupInv

(* A commit's outcomes are told when its frames are.                       *)
LEMMA CommitTold ==
    ASSUME NEW outcomes, Committed(outcomes), NEW asked, NEW gs, NEW st2,
           AllTold(asked, gs, st2, outcome),
           \A c \in Range(Cohort) : Told(asked, gs, st2, c, outcomes[c])
    PROVE  AllTold(asked, gs, st2, outcome') /\ worker' # "cook"
<1>1. PICK o : o = outcome'
  BY Zenon
<1>2. \A c \in Caller : (c \in Range(Cohort) /\ o[c] = outcomes[c]) \/ o[c] = outcome[c]
  BY <1>1, Zenon DEF Committed
<1>3. AllTold(asked, gs, st2, o)
  BY <1>2, Zenon DEF AllTold
<1>4. worker' # "cook"
  BY Zenon DEF Committed
<1> QED BY <1>1, <1>3, <1>4, Zenon

(* What is left to show of a step that ends a commit.                      *)
LEMMA EndDedup ==
    ASSUME DedupInv, EndStep, NEW outcomes, Committed(outcomes),
           NEW gs, gs = frames', NEW st2, st2 = stable', Extends(frames, stable, gs, st2),
           NEW ids2, ids2 = write_dedup', NEW bad2, bad2 = poisoned',
           StoreInv(request, gs, st2, ids2, bad2),
           \A c \in Range(Cohort) : Told(request, gs, st2, c, outcomes[c])
    PROVE  DedupInv'
<1>1. AllTold(request, gs, st2, outcome) /\ AllTold(request, gs, st2, answer)
  BY ToldStill, Zenon DEF DedupInv
<1>2. AllTold(request, gs, st2, outcome') /\ worker' # "cook"
  BY <1>1, CommitTold, Zenon
<1>3. request' = request /\ answer' = answer
  BY EndLeaves, Zenon
<1>4. answer' = [c \in Caller |-> answer'[c]]
  BY <1>3, Zenon DEF DedupInv
<1> QED BY <1>1, <1>2, <1>3, <1>4, Zenon DEF DedupInv

LEMMA FailedTold ==
    ASSUME NEW asked, NEW fs, NEW st
    PROVE  \A c \in Range(Cohort) : Told(asked, fs, st, c, AllFailed[c])
<1>1. \A c \in Range(Cohort) : AllFailed[c] = "error"
  BY Zenon DEF AllFailed
<1> QED BY <1>1, NothingTold, Zenon

LEMMA HealthyStore ==
    ASSUME NEW asked, NEW fs, NEW st, NEW ids, NEW bad, ~bad
    PROVE  StoreInv(asked, fs, st, ids, bad) <=> StoreInv(asked, fs, st, ids, FALSE)
  BY Zenon DEF StoreInv

LEMMA FailedDedup ==
    ASSUME DedupInv, Refused \/ CookFails \/ CookTimesOut \/ InstallUndone
    PROVE  DedupInv'
<1>1. EndStep /\ Committed(AllFailed) /\ UNCHANGED <<frames, stable, write_dedup, poisoned>>
  BY Zenon DEF EndStep, Refused, CookFails, CookTimesOut, InstallUndone, store
<1>2. PICK outcomes : outcomes = AllFailed
  BY Zenon
<1>3. Extends(frames, stable, frames, stable)
  BY Zenon DEF Extends
<1>4. StoreInv(request, frames, stable, write_dedup, poisoned)
  BY Zenon DEF DedupInv
<1>5. \A c \in Range(Cohort) : Told(request, frames, stable, c, outcomes[c])
  BY <1>2, FailedTold, Zenon
<1>6. /\ frames = frames' /\ stable = stable' /\ write_dedup = write_dedup' /\ poisoned = poisoned'
      /\ Committed(outcomes)
  BY <1>1, <1>2, Zenon
<1> QED BY <1>1, <1>3, <1>4, <1>5, <1>6, EndDedup, Zenon

LEMMA SerialDedup ==
    ASSUME DedupInv, FlowInv, CommitSerially
    PROVE  DedupInv'
<1>1. /\ EndStep /\ worker \in Busy /\ ~poisoned /\ poisoned' = poisoned
  BY Zenon DEF EndStep, CommitSerially, Busy
<1>2. PICK refused : LET outcomes == CohortOutcome(refused)
                     IN /\ frames' = frames \o Written(outcomes)
                        /\ stable' = IF Written(outcomes) = <<>> THEN stable ELSE Len(frames')
                        /\ write_dedup' = write_dedup \cup Ids(Written(outcomes))
                        /\ Committed(outcomes)
  BY Zenon DEF CommitSerially
<1>3. PICK outcomes : outcomes = CohortOutcome(refused)
  BY Zenon
<1>4. PICK W : W = Written(outcomes)
  BY Zenon
<1>5. PICK gs : gs = frames'
  BY Zenon
<1>6. PICK st2 : st2 = stable'
  BY Zenon
<1>7. PICK ids2 : ids2 = write_dedup'
  BY Zenon
<1>8. /\ gs = frames \o W /\ st2 = SyncedTo(W, stable, gs)
      /\ ids2 = write_dedup \cup {request[c].id : c \in Range(W)} /\ Committed(outcomes)
  BY <1>2, <1>3, <1>4, <1>5, <1>6, <1>7, Zenon DEF Ids, SyncedTo
<1>9. /\ W \in Seq(Caller) /\ Fresh(request, W, write_dedup)
      /\ Covered(outcomes, W)
  BY <1>1, <1>3, <1>4, SerialFacts, Zenon
<1>10. StoreInv(request, frames, stable, write_dedup, FALSE)
  BY <1>1, HealthyStore, Zenon DEF DedupInv
<1>11. /\ StoreInv(request, gs, st2, ids2, FALSE) /\ Extends(frames, stable, gs, st2)
       /\ \A k \in 1..Len(W) : Standing(gs, st2, W[k])
       /\ \A k \in 1..Len(W) : Stored(request, gs, st2, request[W[k]].id)
  BY <1>8, <1>9, <1>10, SerialWrites, Zenon
<1>12. \A id \in write_dedup : Stored(request, gs, st2, id)
  BY <1>10, <1>11, ToldStill, Zenon DEF StoreInv
<1>13. ASSUME NEW c \in Range(Cohort) PROVE Told(request, gs, st2, c, outcomes[c])
  <2>1. ASSUME outcomes[c] = "ok" PROVE Standing(gs, st2, c)
    <3>1. PICK k \in 1..Len(W) : W[k] = c
      BY <1>9, <2>1, Zenon DEF Covered
    <3> QED BY <1>11, <3>1, Zenon
  <2>2. ASSUME outcomes[c] = "dedup" PROVE Stored(request, gs, st2, request[c].id)
    <3>1. ASSUME NEW k \in 1..Len(W), request[W[k]].id = request[c].id
          PROVE  Stored(request, gs, st2, request[c].id)
      BY <1>11, <3>1, Zenon
    <3> QED BY <1>9, <1>12, <2>2, <3>1, Zenon DEF Covered
  <2> QED BY <2>1, <2>2, Zenon DEF Told
<1>14. StoreInv(request, gs, st2, ids2, poisoned)
  BY <1>1, <1>11, HealthyStore, Zenon
<1>15. poisoned = poisoned'
  BY <1>1, Zenon
<1> QED BY <1>1, <1>5, <1>6, <1>7, <1>8, <1>11, <1>13, <1>14, <1>15, EndDedup, Zenon

(* The writer is poisoned with frames of W in the segment, none recorded.  *)
LEMMA BrokenDedup ==
    ASSUME DedupInv, EndStep, Committed(AllFailed), ~poisoned, poisoned' = TRUE,
           write_dedup' = write_dedup, NEW W \in Seq(Caller), Fresh(request, W, write_dedup),
           frames' = frames \o W, stable' \in {stable, Len(frames')}
    PROVE  DedupInv'
<1>1. PICK gs : gs = frames'
  BY Zenon
<1>2. PICK st2 : st2 = stable'
  BY Zenon
<1>3. PICK outcomes : outcomes = AllFailed
  BY Zenon
<1>4. StoreInv(request, frames, stable, write_dedup, FALSE)
  BY HealthyStore, Zenon DEF DedupInv
<1>5. gs = frames \o W /\ st2 \in {stable, Len(gs)}
  BY <1>1, <1>2, Zenon
<1>6. StoreInv(request, gs, st2, write_dedup, TRUE) /\ Extends(frames, stable, gs, st2)
  BY <1>4, <1>5, StoreWrites, Zenon
<1>7. \A c \in Range(Cohort) : Told(request, gs, st2, c, outcomes[c])
  BY <1>3, FailedTold, Zenon
<1>8. write_dedup = write_dedup' /\ TRUE = poisoned' /\ Committed(outcomes)
  BY <1>3, Zenon
<1> QED BY <1>1, <1>2, <1>6, <1>7, <1>8, EndDedup, Zenon

LEMMA BreaksDedup ==
    ASSUME DedupInv, FlowInv, CommitBreaks
    PROVE  DedupInv'
<1>1. /\ EndStep /\ worker \in Busy /\ ~poisoned /\ poisoned' = TRUE
      /\ Committed(AllFailed) /\ write_dedup' = write_dedup
  BY Zenon DEF EndStep, CommitBreaks, Busy
<1>2. PICK refused, n : LET written == Written(CohortOutcome(refused))
                        IN /\ n \in 0..Len(written)
                           /\ frames' = frames \o SubSeq(written, 1, n)
                           /\ stable' \in IF n = Len(written) THEN {stable, Len(frames')}
                                          ELSE {stable}
  BY Zenon DEF CommitBreaks
<1>3. PICK V : V = Written(CohortOutcome(refused))
  BY Zenon
<1>4. V \in Seq(Caller) /\ Fresh(request, V, write_dedup)
  <2>1. PICK outcomes : outcomes = CohortOutcome(refused)
    BY Zenon
  <2> QED BY <1>1, <1>3, <2>1, SerialFacts, Zenon
<1>5. PICK W : W = SubSeq(V, 1, n)
  BY Zenon
<1>6. n \in 0..Len(V) /\ Len(V) \in Nat
  BY <1>2, <1>3, <1>4
<1>7. /\ W \in Seq(Caller) /\ Len(W) = n
      /\ \A k \in 1..Len(W) : k \in 1..Len(V) /\ W[k] = V[k]
  BY <1>4, <1>5, <1>6
<1>8. Fresh(request, W, write_dedup)
  BY <1>4, <1>7, ZenonT(30) DEF Fresh
<1>9. frames' = frames \o W /\ stable' \in {stable, Len(frames')}
  BY <1>2, <1>3, <1>5, Zenon
<1> QED BY <1>1, <1>7, <1>8, <1>9, BrokenDedup, Zenon

LEMMA InstallDedup ==
    ASSUME DedupInv, FlowInv, Install \/ InstallBreaks
    PROVE  DedupInv'
<1>1. EndStep /\ worker = "cook" /\ worker \in Busy
  BY Zenon DEF EndStep, Install, InstallBreaks, Cooked, Pop, Busy
<1>2. /\ Cohort \in Seq(Caller) /\ ~poisoned /\ Fresh(request, Cohort, write_dedup)
  BY <1>1, CohortInPlace, Zenon DEF DedupInv
<1>3. CASE InstallBreaks
  BY <1>1, <1>2, <1>3, BrokenDedup, Zenon DEF InstallBreaks
<1>4. CASE Install
  <2>1. PICK outcomes : outcomes = [c \in Range(Cohort) |-> "ok"]
    BY Zenon
  <2>2. PICK gs : gs = frames'
    BY Zenon
  <2>3. PICK st2 : st2 = stable'
    BY Zenon
  <2>4. PICK ids2 : ids2 = write_dedup'
    BY Zenon
  <2>5. /\ gs = frames \o Cohort /\ st2 = Len(gs) /\ poisoned = poisoned'
        /\ ids2 = write_dedup \cup {request[c].id : c \in Range(Cohort)} /\ Committed(outcomes)
    BY <1>4, <2>1, <2>2, <2>3, <2>4, Zenon DEF Install, Ids
  <2>6. StoreInv(request, frames, stable, write_dedup, FALSE)
    BY <1>2, HealthyStore, Zenon DEF DedupInv
  <2>7. /\ StoreInv(request, gs, st2, ids2, FALSE) /\ Extends(frames, stable, gs, st2)
        /\ \A k \in 1..Len(Cohort) : Standing(gs, st2, Cohort[k])
    BY <1>2, <2>5, <2>6, StoreWrites, Zenon
  <2>8. ASSUME NEW c \in Range(Cohort) PROVE Told(request, gs, st2, c, outcomes[c])
    <3>1. PICK k \in 1..Len(Cohort) : c = Cohort[k]
      BY <1>2, InRange, Zenon
    <3>2. Standing(gs, st2, c)
      BY <2>7, <3>1, Zenon
    <3>3. outcomes[c] # "dedup"
      BY <2>1
    <3> QED BY <3>2, <3>3, Zenon DEF Told
  <2>9. StoreInv(request, gs, st2, ids2, poisoned)
    BY <1>2, <2>7, HealthyStore, Zenon
  <2> QED BY <1>1, <2>2, <2>3, <2>4, <2>5, <2>7, <2>8, <2>9, EndDedup, Zenon
<1> QED BY <1>3, <1>4, Zenon

LEMMA DedupStep ==
    ASSUME DedupInv, FlowInv, FenceLifted, [Next]_vars
    PROVE  DedupInv'
<1>1. CASE OtherStep
  BY <1>1, OtherDedup, Zenon
<1>2. CASE EndStep
  BY <1>2, FailedDedup, SerialDedup, BreaksDedup, InstallDedup, Zenon DEF EndStep
<1>3. CASE Reserve
  <2>1. /\ UNCHANGED <<request, answer, outcome, frames, stable, write_dedup, poisoned>>
        /\ cohorts' = cohorts /\ turn' = turn
    BY <1>3, Zenon DEF Reserve, CommitElse, callers, store
  <2>2. Cohort' = Cohort
    BY <2>1, Zenon DEF Cohort
  <2>3. Fresh(request', Cohort', write_dedup')
    BY <1>3, <2>1, <2>2, ReserveFresh, Zenon
  <2>4. ~poisoned'
    BY <1>3, <2>1 DEF Reserve
  <2>5. answer' = [c \in Caller |-> answer'[c]]
    BY <2>1, Zenon DEF DedupInv
  <2> QED BY <2>1, <2>3, <2>4, <2>5, Zenon DEF DedupInv
<1> QED BY <1>1, <1>2, <1>3, StepKinds, Zenon

LEMMA DedupInit == Init => DedupInv
<1> SUFFICES ASSUME Init PROVE DedupInv
  OBVIOUS
<1>1. /\ frames = <<>> /\ stable = 0 /\ write_dedup = {} /\ worker = "lock"
      /\ outcome = [c \in Caller |-> None] /\ answer = [c \in Caller |-> None]
  BY Zenon DEF Init
<1>2. /\ frames \in Seq(Caller \cup {None}) /\ Len(frames) = 0 /\ stable \in 0..Len(frames)
      /\ \A i \in 1..0 : FALSE
  BY <1>1
<1>3. StoreInv(request, frames, stable, write_dedup, poisoned)
  BY <1>1, <1>2, Zenon DEF StoreInv, Recorded, Once
<1>4. \A c \in Caller : outcome[c] = None /\ answer[c] = None
  BY <1>1, Zenon
<1>5. AllTold(request, frames, stable, outcome) /\ AllTold(request, frames, stable, answer)
  BY <1>4, NothingTold, Zenon DEF AllTold
<1>6. worker # "cook"
  BY <1>1
<1>7. answer = [c \in Caller |-> answer[c]]
  BY <1>1
<1> QED BY <1>3, <1>5, <1>6, <1>7, Zenon DEF DedupInv

LEMMA DedupImplies == DedupInv => WrittenOnce /\ AnsweredStable
<1> SUFFICES ASSUME DedupInv PROVE WrittenOnce /\ AnsweredStable
  OBVIOUS
<1>1. /\ frames \in Seq(Caller \cup {None}) /\ stable \in 0..Len(frames) /\ Len(frames) \in Nat
      /\ Once(request, frames) /\ AllTold(request, frames, stable, answer)
  BY DEF DedupInv, StoreInv
<1>2. DOMAIN frames = 1..Len(frames)
  BY <1>1
<1>3. WrittenOnce
  BY <1>1, <1>2, Zenon DEF WrittenOnce, Once
<1>4. PICK S : S = Stable
  BY Zenon
<1>5. DOMAIN S = 1..stable /\ \A i \in 1..stable : S[i] = frames[i]
  BY <1>1, <1>4 DEF Stable
<1>6. \A i \in 1..stable : frames[i] \in Range(S)
  BY <1>5, Zenon DEF Range
<1>7. ASSUME NEW c \in Caller, answer[c] = "ok" PROVE c \in Range(Stable)
  <2>1. Standing(frames, stable, c)
    BY <1>1, <1>7, Zenon DEF AllTold, Told
  <2> QED BY <1>4, <1>6, <2>1, Zenon DEF Standing
<1>8. ASSUME NEW c \in Caller, answer[c] = "dedup"
      PROVE  \E d \in Range(Stable) \ {None} : request[d].id = request[c].id
  <2>1. Stored(request, frames, stable, request[c].id)
    BY <1>1, <1>8, Zenon DEF AllTold, Told
  <2>2. PICK i \in 1..stable : frames[i] # None /\ request[frames[i]].id = request[c].id
    BY <2>1, Zenon DEF Stored
  <2>3. frames[i] \in Range(Stable) \ {None}
    BY <1>4, <1>6, <2>2, Zenon
  <2> QED BY <2>2, <2>3, Zenon
<1>9. AnsweredStable
  BY <1>7, <1>8, Zenon DEF AnsweredStable
<1> QED BY <1>3, <1>9

LEMMA DedupHolds == Spec => [](WrittenOnce /\ AnsweredStable)
<1>1. OrderInv /\ DedupInv /\ FenceLifted /\ [Next]_vars => DedupInv'
  BY DedupStep, Zenon DEF OrderInv
<1>2. OrderInv /\ [Next]_vars => OrderInv'
  BY OrderStep
<1>3. Init => OrderInv /\ DedupInv
  BY OrderInit, DedupInit
<1> QED BY <1>1, <1>2, <1>3, FenceAlwaysLifted, DedupImplies, PTL DEF Spec

(* An operation id is written at most once: over the serial path, the      *)
(* cooker pool, a cohort's own duplicates and every failure.               *)
THEOREM AlwaysWrittenOnce == Spec => []WrittenOnce
  BY DedupHolds, PTL

(* A call that is told ok has a frame behind the stable boundary, and one  *)
(* that is told of a duplicate has the frame of another call there.        *)
THEOREM AlwaysAnsweredStable == Spec => []AnsweredStable
  BY DedupHolds, PTL

-----------------------------------------------------------------------------
(* The tickets of the cooker pool.                                         *)

(* A ticket is in the pool, or in the ring, and there once.                *)
Apart(pool, ring) ==
    /\ \A r, s \in ring : r.ticket = s.ticket => r = s
    /\ \A r \in ring : r.ticket \notin pool

(* The tickets of pool and ring are those from a to b.                     *)
Fills(pool, ring, a, b) == \A t : (t \in pool \/ \E r \in ring : r.ticket = t) <=> t \in a..b

TicketsLeft == worker # "cook" /\ ~cooker_failed =>
                   cooking = {} /\ ready = {} /\ next_expected = next_cook_ticket

TicketsTaken ==
    worker = "cook" =>
        /\ ~cooker_failed /\ next_expected = chain[1].ticket
        /\ next_cook_ticket = next_expected + Len(Cohort)
        /\ Fills(cooking, ready, next_expected, next_expected + Len(Cohort) - 1)

TicketInv == /\ next_cook_ticket \in Nat /\ next_expected \in Nat /\ Apart(cooking, ready)
             /\ TicketsLeft /\ TicketsTaken

(* Pool and ring together have the same tickets before and after.          *)
SameTickets(pool, ring, pool2, ring2) ==
    \A a, b : Fills(pool, ring, a, b) => Fills(pool2, ring2, a, b)

LEMMA CookOne ==
    ASSUME NEW pool, NEW ring, Apart(pool, ring), NEW t \in pool, NEW new, new.ticket = t,
           NEW pool2, pool2 = pool \ {t}, NEW ring2, ring2 = ring \cup {new}
    PROVE  Apart(pool2, ring2) /\ SameTickets(pool, ring, pool2, ring2)
<1>1. Apart(pool2, ring2)
  BY Zenon DEF Apart
<1>2. \A u : (u \in pool2 \/ \E r \in ring2 : r.ticket = u) <=>
             (u \in pool \/ \E r \in ring : r.ticket = u)
  BY Zenon
<1> QED BY <1>1, <1>2, Zenon DEF Fills, SameTickets

TicketsFrom(ring, a, n) == {r \in ring : r.ticket \in a..(a + n - 1)}

Emptied(pool, ring, cooked) == pool = {} /\ ring \ cooked = {}

(* When the ring has as many of the next tickets as were given out, the    *)
(* pool has none left, and the ring no others.                             *)
LEMMA PopAll ==
    ASSUME NEW pool, NEW ring, Apart(pool, ring), NEW a \in Nat, NEW n \in Nat,
           Fills(pool, ring, a, a + n - 1),
           NEW cooked, cooked = TicketsFrom(ring, a, n), Cardinality(cooked) = n
    PROVE  Emptied(pool, ring, cooked)
<1>1. PICK I : I = a..(a + n - 1)
  BY Zenon
<1>2. IsFiniteSet(I) /\ Cardinality(I) = n
  <2>1. a \in Int /\ a + n - 1 \in Int
    OBVIOUS
  <2>2. /\ IsFiniteSet(I)
        /\ Cardinality(I) = IF a > a + n - 1 THEN 0 ELSE (a + n - 1) - a + 1
    BY <1>1, <2>1, FS_Interval, Zenon
  <2> QED BY <2>2
<1>3. \A r \in ring : r.ticket \in I /\ r \in cooked
  BY <1>1, Zenon DEF Fills, TicketsFrom
<1>4. PICK f : f = [r \in cooked |-> r.ticket]
  BY Zenon
<1>5. f \in [cooked -> I] /\ \A r, s \in cooked : f[r] = f[s] => r = s
  <2>1. \A r \in cooked : f[r] = r.ticket /\ r \in ring
    BY <1>4, Zenon DEF TicketsFrom
  <2>2. f \in [cooked -> I]
    BY <1>3, <1>4, <2>1, Zenon
  <2>3. ASSUME NEW r \in cooked, NEW s \in cooked, f[r] = f[s] PROVE r = s
    <3>1. r.ticket = s.ticket /\ r \in ring /\ s \in ring
      BY <2>1, <2>3, Zenon
    <3> QED BY <3>1, Zenon DEF Apart
  <2> QED BY <2>2, <2>3, Zenon
<1>6. f \in Injection(cooked, I)
  BY <1>5, Zenon DEF Injection, IsInjective
<1>7. f \in Surjection(cooked, I)
  BY <1>2, <1>6, FS_Injection, Zenon
<1>8. \A t \in I : \E r \in cooked : f[r] = t
  BY <1>7, Zenon DEF Surjection
<1>9. ASSUME NEW t \in pool PROVE FALSE
  <2>1. t \in I
    BY <1>1, Zenon DEF Fills
  <2>2. PICK r \in cooked : f[r] = t
    BY <1>8, <2>1, Zenon
  <2>3. r \in ring /\ r.ticket = t
    BY <1>4, <2>2, Zenon DEF TicketsFrom
  <2> QED BY <2>3, Zenon DEF Apart
<1> QED BY <1>3, <1>9, Zenon DEF Emptied

LEMMA OtherTickets ==
    ASSUME OtherStep
    PROVE  /\ UNCHANGED <<chain, next_cook_ticket, cooker_failed, next_expected>>
           /\ \/ UNCHANGED <<cooking, ready>>
              \/ \E t \in cooking : \E ok :
                    /\ cooking' = cooking \ {t}
                    /\ ready' = ready \cup {[ticket |-> t, ok |-> ok]}
<1>1. UNCHANGED <<chain, next_cook_ticket, cooker_failed, next_expected>>
  BY Zenon DEF OtherStep, CallerStep, Admit, NoCredits, Notify, Idle, Collect, CollectTimesOut,
       TakeFirst, TakeSecond, WorkerElse, Release, Reply, Cook, Spurious, Drop, Direct,
       DirectBreaks, Atomic, vars, cooker
<1>2. CASE \E t \in cooking : Cook(t)
  BY <1>1, <1>2, Zenon DEF Cook
<1>3. CASE ~\E t \in cooking : Cook(t)
  <2>1. UNCHANGED <<cooking, ready>>
    BY <1>3, Zenon DEF OtherStep, CallerStep, Admit, NoCredits, Notify, Idle, Collect,
       CollectTimesOut, TakeFirst, TakeSecond, WorkerElse, Release, Reply, Spurious, Drop,
       Direct, DirectBreaks, Atomic, vars, cooker
  <2> QED BY <1>1, <2>1, Zenon
<1> QED BY <1>2, <1>3, Zenon

LEMMA OtherTicketInv ==
    ASSUME TicketInv, FenceLifted, FenceLifted', OtherStep
    PROVE  TicketInv'
<1>1. UNCHANGED <<chain, next_cook_ticket, cooker_failed, next_expected>>
  BY OtherTickets, Zenon
<1>2. worker' = "cook" <=> worker = "cook"
  BY <1>1, Zenon DEF FenceLifted
<1>3. worker' = "cook" => Cohort' = Cohort
  BY OtherStore, Zenon DEF Cohort
<1>4. PICK pool2 : pool2 = cooking'
  BY Zenon
<1>5. PICK ring2 : ring2 = ready'
  BY Zenon
<1>6. /\ Apart(pool2, ring2)
      /\ SameTickets(cooking, ready, pool2, ring2)
      /\ cooking = {} /\ ready = {} => pool2 = {} /\ ring2 = {}
  <2>1. CASE pool2 = cooking /\ ring2 = ready
    BY <2>1, Zenon DEF TicketInv, SameTickets
  <2>2. ASSUME NEW t \in cooking, NEW ok, pool2 = cooking \ {t},
               ring2 = ready \cup {[ticket |-> t, ok |-> ok]}
        PROVE  Apart(pool2, ring2) /\ SameTickets(cooking, ready, pool2, ring2)
    <3>1. PICK new : new = [ticket |-> t, ok |-> ok]
      BY Zenon
    <3>2. new.ticket = t /\ ring2 = ready \cup {new}
      BY <2>2, <3>1, Zenon
    <3>3. Apart(cooking, ready)
      BY Zenon DEF TicketInv
    <3> QED BY <2>2, <3>2, <3>3, CookOne, Zenon
  <2>3. cooking = {} => pool2 = cooking /\ ring2 = ready
    BY <1>4, <1>5, OtherTickets, Zenon
  <2> QED BY <1>4, <1>5, <2>1, <2>2, <2>3, OtherTickets, Zenon
<1>7. TicketsLeft'
  BY <1>1, <1>2, <1>4, <1>5, <1>6, Zenon DEF TicketInv, TicketsLeft
<1>8. TicketsTaken'
  <2> SUFFICES ASSUME worker' = "cook" PROVE TicketsTaken'
    BY Zenon DEF TicketsTaken
  <2>1. Cohort' = Cohort /\ worker = "cook"
    BY <1>2, <1>3, Zenon
  <2>2. /\ ~cooker_failed /\ next_expected = chain[1].ticket
        /\ next_cook_ticket = next_expected + Len(Cohort)
        /\ Fills(cooking, ready, next_expected, next_expected + Len(Cohort) - 1)
    BY <2>1, Zenon DEF TicketInv, TicketsTaken
  <2>3. Fills(pool2, ring2, next_expected, next_expected + Len(Cohort) - 1)
    BY <1>6, <2>2, Zenon DEF SameTickets
  <2>4. ~cooker_failed'
    BY <1>1, <2>2, Zenon
  <2> QED BY <1>1, <1>4, <1>5, <2>1, <2>2, <2>3, <2>4, Zenon DEF TicketsTaken
<1> QED BY <1>1, <1>4, <1>5, <1>6, <1>7, <1>8, Zenon DEF TicketInv

LEMMA EndTicketInv ==
    ASSUME TicketInv, FlowInv, EndStep
    PROVE  TicketInv'
<1>1. worker' # "cook" /\ worker \in Busy
  <2>1. PICK outcomes : Committed(outcomes)
    BY EndLeaves, Zenon
  <2> QED BY <2>1, EndLeaves, Zenon DEF Committed
<1>2. TicketsTaken'
  BY <1>1, Zenon DEF TicketsTaken
<1>3. CASE Refused \/ CommitSerially \/ CommitBreaks
  <2>1. worker = "commit"
    BY <1>3, Zenon DEF Refused, CommitSerially, CommitBreaks
  <2>2. UNCHANGED <<next_cook_ticket, cooker_failed, cooking, ready, next_expected>>
    BY <1>3, Zenon DEF Refused, CommitSerially, CommitBreaks, cooker
  <2>3. worker # "cook"
    BY <2>1
  <2>4. TicketsLeft'
    BY <2>2, <2>3, Zenon DEF TicketInv, TicketsLeft
  <2> QED BY <1>2, <2>2, <2>4, Zenon DEF TicketInv
<1>4. CASE CookTimesOut
  <2>1. cooker_failed' = TRUE /\ UNCHANGED <<next_cook_ticket, cooking, ready, next_expected>>
    BY <1>4, Zenon DEF CookTimesOut
  <2>2. TicketsLeft'
    BY <2>1, Zenon DEF TicketsLeft
  <2> QED BY <1>2, <2>1, <2>2, Zenon DEF TicketInv
<1>5. CASE CookFails \/ Install \/ InstallUndone \/ InstallBreaks
  <2>1. /\ worker = "cook" /\ Cardinality(NextCooked) = Len(Cohort)
        /\ ready' = ready \ NextCooked /\ next_expected' = next_expected + Len(Cohort)
        /\ UNCHANGED <<next_cook_ticket, cooker_failed, cooking>>
    BY <1>5, Zenon DEF CookFails, Install, InstallUndone, InstallBreaks, Cooked, Pop, PoolElse
  <2>2. /\ next_cook_ticket = next_expected + Len(Cohort)
        /\ Fills(cooking, ready, next_expected, next_expected + Len(Cohort) - 1)
        /\ Apart(cooking, ready) /\ next_expected \in Nat /\ next_cook_ticket \in Nat
    BY <2>1, Zenon DEF TicketInv, TicketsTaken
  <2>3. PICK n : n = Len(Cohort)
    BY Zenon
  <2>4. n \in Nat
    BY <1>1, <2>3, CohortInPlace, Zenon
  <2>5. PICK cooked : cooked = NextCooked
    BY Zenon
  <2>6. cooked = TicketsFrom(ready, next_expected, n)
    <3>1. NextCooked = TicketsFrom(ready, next_expected, Len(Cohort))
      BY Zenon DEF NextCooked, TicketsFrom
    <3> QED BY <2>3, <2>5, <3>1, Zenon
  <2>7. cooking = {} /\ ready \ cooked = {}
    <3>1. Cardinality(cooked) = n /\ Fills(cooking, ready, next_expected, next_expected + n - 1)
      BY <2>1, <2>2, <2>3, <2>5, Zenon
    <3>2. Apart(cooking, ready) /\ next_expected \in Nat
      BY <2>2
    <3>3. Emptied(cooking, ready, cooked)
      BY <2>4, <2>6, <3>1, <3>2, PopAll, Zenon
    <3> QED BY <3>3, Zenon DEF Emptied
  <2>8. cooking' = {} /\ ready' = {} /\ next_expected' = next_cook_ticket'
    BY <2>1, <2>2, <2>5, <2>7, Zenon
  <2>9. Apart({}, {})
    BY Zenon DEF Apart
  <2>10. TicketsLeft' /\ Apart(cooking', ready')
    BY <2>8, <2>9, Zenon DEF TicketsLeft
  <2> QED BY <1>2, <2>1, <2>2, <2>8, <2>10, Zenon DEF TicketInv
<1> QED BY <1>3, <1>4, <1>5, Zenon DEF EndStep

LEMMA ReserveTicketInv ==
    ASSUME TicketInv, FlowInv, Reserve
    PROVE  TicketInv'
<1>1. /\ worker = "commit" /\ ~cooker_failed /\ worker' = "cook"
      /\ chain' = <<[checkpoint |-> Len(frames), ticket |-> next_cook_ticket]>>
      /\ next_cook_ticket' = next_cook_ticket + Len(Cohort)
      /\ cooking' = cooking \cup next_cook_ticket..(next_cook_ticket + Len(Cohort) - 1)
      /\ UNCHANGED <<cohorts, turn, cooker_failed, ready, next_expected>>
  BY Zenon DEF Reserve, CommitElse
<1>2. worker # "cook" /\ worker \in Busy
  BY <1>1, Zenon DEF Busy
<1>3. /\ cooking = {} /\ ready = {} /\ next_expected = next_cook_ticket
      /\ next_cook_ticket \in Nat
  BY <1>1, <1>2, Zenon DEF TicketInv, TicketsLeft
<1>4. Len(Cohort) \in Nat /\ Cohort' = Cohort
  BY <1>1, <1>2, CohortInPlace, Zenon DEF Cohort
<1>5. chain'[1].ticket = next_cook_ticket
  BY <1>1, Zenon
<1>6. PICK b : b = next_expected + Len(Cohort) - 1
  BY Zenon
<1>7. PICK pool2 : pool2 = cooking'
  BY Zenon
<1>8. pool2 = next_expected..b
  BY <1>1, <1>3, <1>6, <1>7, Zenon
<1>9. Fills(pool2, {}, next_expected, b) /\ Apart(pool2, {})
  BY <1>8, Zenon DEF Fills, Apart
<1>10. ready' = {} /\ next_expected' = next_expected
  BY <1>1, <1>3, Zenon
<1>11. Fills(cooking', ready', next_expected', next_expected' + Len(Cohort') - 1)
  BY <1>4, <1>6, <1>7, <1>9, <1>10, Zenon
<1>12. Apart(cooking', ready')
  BY <1>7, <1>9, <1>10, Zenon
<1>13. ~cooker_failed'
  BY <1>1, Zenon
<1>14. TicketsTaken'
  BY <1>1, <1>3, <1>4, <1>5, <1>10, <1>11, <1>13, Zenon DEF TicketsTaken
<1>15. TicketsLeft'
  BY <1>1, Zenon DEF TicketsLeft
<1>16. next_cook_ticket' \in Nat /\ next_expected' \in Nat
  BY <1>1, <1>3, <1>4
<1> QED BY <1>12, <1>14, <1>15, <1>16, Zenon DEF TicketInv

LEMMA TicketStep ==
    ASSUME TicketInv, FlowInv, FenceLifted, FenceLifted', [Next]_vars
    PROVE  TicketInv'
  BY StepKinds, OtherTicketInv, EndTicketInv, ReserveTicketInv, Zenon

LEMMA TicketInit == Init => TicketInv
<1> SUFFICES ASSUME Init PROVE TicketInv
  OBVIOUS
<1>1. /\ next_cook_ticket = 0 /\ next_expected = 0 /\ cooking = {} /\ ready = {} /\ worker = "lock"
  BY Zenon DEF Init
<1>2. worker # "cook" /\ next_cook_ticket \in Nat /\ next_expected \in Nat
  BY <1>1
<1> QED BY <1>1, <1>2, Zenon DEF TicketInv, Apart, TicketsLeft, TicketsTaken

LEMMA TicketImplies == TicketInv => CookedForCohort
<1> SUFFICES ASSUME TicketInv, worker = "cook"
             PROVE  /\ next_expected = chain[1].ticket
                    /\ cooking \cup {r.ticket : r \in ready}
                          = chain[1].ticket..(chain[1].ticket + Len(Cohort) - 1)
  BY Zenon DEF CookedForCohort
<1>1. /\ next_expected = chain[1].ticket
      /\ Fills(cooking, ready, next_expected, next_expected + Len(Cohort) - 1)
  BY Zenon DEF TicketInv, TicketsTaken
<1>2. PICK I : I = next_expected..(next_expected + Len(Cohort) - 1)
  BY Zenon
<1>3. \A t : (t \in cooking \/ \E r \in ready : r.ticket = t) <=> t \in I
  BY <1>1, <1>2, Zenon DEF Fills
<1>4. cooking \cup {r.ticket : r \in ready} = I
  BY <1>3, Zenon
<1> QED BY <1>1, <1>2, <1>4, Zenon

(* The frames that commit_batch pops from the ordered ring are those of    *)
(* its own cohort: nothing of an earlier one is left in ring or pool, and  *)
(* nothing is lost, until the pool is given up for good.                   *)
THEOREM AlwaysCookedForCohort == Spec => []CookedForCohort
<1>1. OrderInv /\ TicketInv /\ FenceLifted /\ FenceLifted' /\ [Next]_vars => TicketInv'
  BY TicketStep, Zenon DEF OrderInv
<1>2. OrderInv /\ [Next]_vars => OrderInv'
  BY OrderStep
<1> QED BY <1>1, <1>2, OrderInit, TicketInit, FenceAlwaysLifted, TicketImplies, PTL DEF Spec

=============================================================================
