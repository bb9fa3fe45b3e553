------------------------- MODULE SegmentStoreProofs -------------------------
(* Proofs about SegmentStore, for any keys, lease, radix and any number of   *)
(* writes, jobs, ends of the process and faults: segment ids are never       *)
(* reused, and the entries of an open index point into files that exist.     *)
EXTENDS SegmentStore, FiniteSetTheorems, TLAPS

(* The writer has an allocator. *)
Open == pc \notin {"down", "loaded", "healed"}

JobRecord == [phase : Phase, out : Nat, sources : SUBSET Nat, loss : BOOLEAN,
              reclaim : BOOLEAN, count : Nat]

(* The part of the types that ids depend on. *)
IdTypes ==
    /\ durable \in Nat /\ issued \in Nat /\ reserved \in Nat /\ lost \in Nat
    /\ minted \in Seq(Nat)
    /\ sealed \subseteq Nat /\ pending \subseteq Nat /\ active \in Nat
    /\ jobs \in Seq(JobRecord)

(* An open store hands out ids of its lease only, the lease is the one on    *)
(* disk, and no file is ahead of it.                                         *)
LeaseInv ==
    Open => /\ issued <= reserved /\ reserved = durable
            /\ \A s \in Files : s <= issued

(* The output of a job that is about to be written has the latest id. *)
OutputInv ==
    pc = "create" => /\ job \in DOMAIN jobs
                     /\ jobs[job].out = issued

(* While segment_seq.v1 is there, it is ahead of every id ever handed out,   *)
(* and so is an allocator made from it.                                      *)
MintedInv ==
    lost = 0 => \A i \in DOMAIN minted : /\ minted[i] <= durable
                                         /\ Open => minted[i] <= issued

IdInv == IdTypes /\ LeaseInv /\ OutputInv /\ MintedInv /\ NeverReused

-----------------------------------------------------------------------------
(* Recording a phase keeps the job records well formed. *)
LEMMA PhaseType ==
    ASSUME jobs \in Seq(JobRecord), NEW j, NEW phase \in Phase
    PROVE  [jobs EXCEPT ![j].phase = phase] \in Seq(JobRecord)
<1> DEFINE new == [jobs EXCEPT ![j].phase = phase]
<1>1. Len(jobs) \in Nat /\ DOMAIN jobs = 1 .. Len(jobs) /\ jobs \in [1 .. Len(jobs) -> JobRecord]
  OBVIOUS
<1>2. ASSUME NEW i \in 1 .. Len(jobs) PROVE [jobs[i] EXCEPT !.phase = phase] \in JobRecord
  BY <1>1, <1>2, ZenonT(30) DEF JobRecord
<1>3. new \in [1 .. Len(jobs) -> JobRecord]
  BY <1>1, <1>2, Zenon
<1> QED
  BY <1>1, <1>3

(* A step that leaves the allocator alone, brings in no new file and at most *)
(* records a phase.                                                          *)
Quiet ==
    /\ UNCHANGED <<durable, issued, reserved, lost, minted>>
    /\ sealed' \subseteq Files \cup {0} /\ pending' \subseteq Files \cup {0}
    /\ active' \in Files \cup {0}
    /\ Open' => Open
    /\ pc' = "create" => UNCHANGED <<pc, job, jobs>>
    /\ \/ UNCHANGED jobs
       \/ \E j : \E phase \in Phase : jobs' = [jobs EXCEPT ![j].phase = phase]

(* Such a step keeps the invariant. *)
LEMMA QuietStep ==
    ASSUME IdInv, Quiet
    PROVE  IdInv'
<1>1. Files \cup {0} \subseteq Nat
  BY DEF IdInv, IdTypes, Files
<1>2. Files' \subseteq Files \cup {0}
  BY DEF Files, Quiet
<1>3. jobs' \in Seq(JobRecord)
  BY PhaseType, SMTT(30) DEF Quiet, IdInv, IdTypes
<1>4. IdTypes'
  BY <1>1, <1>3 DEF Quiet, IdInv, IdTypes
<1>5. LeaseInv'
  BY <1>2 DEF Quiet, IdInv, IdTypes, LeaseInv
<1>6. OutputInv'
  BY DEF Quiet, IdInv, OutputInv
<1>7. MintedInv' /\ NeverReused'
  BY DEF Quiet, IdInv, MintedInv, NeverReused
<1> QED
  BY <1>4, <1>5, <1>6, <1>7 DEF IdInv

(* A fresh id is above all earlier ones. *)
LEMMA MintStep ==
    ASSUME IdInv, Open, Mint, UNCHANGED <<durable, reserved, lost>>, Open'
    PROVE  /\ issued' = issued + 1 /\ issued' \in Nat /\ minted' \in Seq(Nat)
           /\ issued' <= reserved' /\ reserved' = durable'
           /\ MintedInv' /\ NeverReused'
<1>1. /\ issued' = issued + 1 /\ issued' \in Nat /\ minted' \in Seq(Nat)
      /\ issued' <= reserved' /\ reserved' = durable'
  BY DEF IdInv, IdTypes, LeaseInv, Mint, Exhausted
<1>2. Len(minted) \in Nat /\ DOMAIN minted = 1 .. Len(minted)
  BY DEF IdInv, IdTypes
<1>3. /\ DOMAIN minted' = 1 .. Len(minted) + 1
      /\ \A i \in 1 .. Len(minted) : minted'[i] = minted[i]
      /\ minted'[Len(minted) + 1] = issued + 1
  BY DEF Mint, IdInv, IdTypes
<1>4. ASSUME lost = 0 PROVE \A i \in 1 .. Len(minted) :
        /\ minted[i] \in Nat /\ minted[i] <= durable /\ minted[i] <= issued
  <2> SUFFICES ASSUME NEW i \in 1 .. Len(minted)
               PROVE  minted[i] \in Nat /\ minted[i] <= durable /\ minted[i] <= issued
    BY Zenon
  <2>1. minted[i] \in Nat
    BY <1>2 DEF IdInv, IdTypes
  <2>2. minted[i] <= durable /\ minted[i] <= issued
    BY <1>2, <1>4, Zenon DEF IdInv, MintedInv
  <2> QED BY <2>1, <2>2, Zenon
<1>5. MintedInv'
  <2> SUFFICES ASSUME lost = 0, NEW i \in 1 .. Len(minted) + 1
               PROVE  minted'[i] <= durable' /\ minted'[i] <= issued'
    BY <1>3 DEF MintedInv
  <2>1. CASE i = Len(minted) + 1
    BY <2>1, <1>1, <1>3
  <2>2. CASE i \in 1 .. Len(minted)
    <3>1. /\ minted'[i] = minted[i] /\ minted[i] \in Nat
          /\ minted[i] <= durable /\ minted[i] <= issued
      BY <2>2, <1>3, <1>4
    <3>2. issued \in Nat /\ durable' = durable
      BY DEF IdInv, IdTypes
    <3> QED
      BY <3>1, <3>2, <1>1
  <2> QED
    BY <2>1, <2>2, <1>2
<1>6. NeverReused'
  <2> SUFFICES ASSUME lost = 0, NEW i \in 1 .. Len(minted) + 1,
                      NEW j \in 1 .. Len(minted) + 1, i < j
               PROVE  minted'[i] < minted'[j]
    BY <1>3 DEF NeverReused
  <2>1. CASE j = Len(minted) + 1
    <3>1. i \in 1 .. Len(minted)
      BY <1>2, <2>1
    <3>2. /\ minted'[i] = minted[i] /\ minted[i] \in Nat /\ minted[i] <= issued
          /\ minted'[j] = issued + 1
      BY <1>3, <1>4, <2>1, <3>1, Zenon
    <3>3. issued \in Nat
      BY Zenon DEF IdInv, IdTypes
    <3> QED BY <3>2, <3>3
  <2>2. CASE j # Len(minted) + 1
    BY <2>2, <1>2, <1>3 DEF IdInv, NeverReused
  <2> QED
    BY <2>1, <2>2
<1> QED
  BY <1>1, <1>5, <1>6

-----------------------------------------------------------------------------
LEMMA InitIds == Init => IdInv
<1> SUFFICES ASSUME Init PROVE IdInv
  OBVIOUS
<1>1. Lease \in Nat /\ Lease >= 1
  BY LeaseAssumption
<1>2. minted = <<1>> /\ Len(minted) = 1 /\ DOMAIN minted = {1} /\ minted[1] = 1
  BY DEF Init
<1>3. IdTypes
  BY <1>1 DEF Init, IdTypes
<1>4. Files = {1}
  BY DEF Init, Files
<1>5. LeaseInv /\ OutputInv
  BY <1>1, <1>4 DEF Init, LeaseInv, OutputInv
<1>6. MintedInv
  BY <1>1, <1>2 DEF MintedInv, Init
<1>7. NeverReused
  BY <1>2 DEF NeverReused
<1> QED
  BY <1>3, <1>5, <1>6, <1>7 DEF IdInv

(* The end of the process keeps what is on disk. *)
LEMMA DownStep ==
    ASSUME IdInv, Forget, UNCHANGED <<durable, lost, minted, sealed, pending,
                                      active, jobs>>
    PROVE  IdInv'
<1>1. IdTypes'
  BY DEF IdInv, IdTypes, Forget
<1>2. ~Open' /\ pc' # "create"
  BY DEF Forget, Open
<1>3. LeaseInv' /\ OutputInv'
  BY <1>2 DEF LeaseInv, OutputInv
<1>4. MintedInv' /\ NeverReused'
  BY <1>2 DEF IdInv, MintedInv, NeverReused
<1> QED
  BY <1>1, <1>3, <1>4 DEF IdInv

LEMMA ExtendLeaseIds ==
    ASSUME IdInv, ExtendLease PROVE IdInv'
<1>1. Lease \in Nat /\ Lease >= 1
  BY LeaseAssumption
<1>2. Open /\ Open' /\ pc' = pc /\ pc # "create"
  BY DEF ExtendLease, Open
<1>3. issued \in Nat /\ issued <= reserved /\ reserved = durable
  BY <1>2 DEF IdInv, IdTypes, LeaseInv
<1>4. /\ durable' = issued + Lease /\ reserved' = issued + Lease
      /\ issued' = issued /\ UNCHANGED <<lost, minted, Files>>
  BY DEF ExtendLease, Files, counts
<1>5. IdTypes'
  BY <1>1, <1>3, <1>4 DEF ExtendLease, IdInv, IdTypes
<1>6. LeaseInv'
  BY <1>1, <1>2, <1>3, <1>4 DEF IdInv, LeaseInv
<1>7. OutputInv'
  BY <1>2 DEF OutputInv
<1>8. MintedInv'
  <2> SUFFICES ASSUME lost = 0, NEW i \in DOMAIN minted
               PROVE  minted[i] <= issued + Lease /\ minted[i] <= issued
    BY <1>2, <1>4 DEF MintedInv
  <2>1. minted[i] \in Nat /\ minted[i] <= issued
    BY <1>2 DEF IdInv, IdTypes, MintedInv
  <2> QED
    BY <2>1, <1>1, <1>3
<1>9. NeverReused'
  BY <1>4 DEF IdInv, NeverReused
<1> QED
  BY <1>5, <1>6, <1>7, <1>8, <1>9 DEF IdInv

LEMMA NewActiveIds ==
    ASSUME IdInv, NewActive PROVE IdInv'
<1>1. Open /\ Open' /\ pc' # "create"
  BY DEF NewActive, After, Open
<1>2. Mint /\ UNCHANGED <<durable, reserved, lost, sealed, pending, jobs>>
  BY DEF NewActive, counts
<1>3. /\ issued' = issued + 1 /\ issued' \in Nat /\ minted' \in Seq(Nat)
      /\ issued' <= reserved' /\ reserved' = durable'
      /\ MintedInv' /\ NeverReused'
  BY <1>1, <1>2, MintStep
<1>4. active' = issued'
  BY <1>3 DEF NewActive
<1>5. IdTypes'
  BY <1>2, <1>3, <1>4 DEF IdInv, IdTypes
<1>6. \A s \in Files' : s <= issued'
  <2> SUFFICES ASSUME NEW s \in sealed \cup pending PROVE s <= issued'
    BY <1>2, <1>3, <1>4 DEF Files
  <2>1. s \in Nat /\ issued \in Nat /\ s <= issued
    BY <1>1 DEF IdInv, IdTypes, LeaseInv, Files
  <2> QED
    BY <2>1, <1>3
<1>7. LeaseInv' /\ OutputInv'
  BY <1>1, <1>3, <1>6 DEF LeaseInv, OutputInv
<1> QED
  BY <1>3, <1>5, <1>7 DEF IdInv

LEMMA PlanIds ==
    ASSUME IdInv, NEW loss \in BOOLEAN, NEW reclaim \in BOOLEAN,
           Plan(loss, reclaim)
    PROVE  IdInv'
<1>1. Open /\ Open' /\ pc' = "create"
  BY DEF Plan, Open
<1>2. Mint /\ UNCHANGED <<durable, reserved, lost, sealed, pending, active>>
  BY DEF Plan, counts
<1>3. /\ issued' = issued + 1 /\ issued' \in Nat /\ minted' \in Seq(Nat)
      /\ issued' <= reserved' /\ reserved' = durable'
      /\ MintedInv' /\ NeverReused'
  BY <1>1, <1>2, MintStep
<1> DEFINE n == Cardinality(Live(index))
           new == [phase |-> "planned", out |-> issued + 1, sources |-> sealed,
                   loss |-> loss, reclaim |-> reclaim, count |-> n]
<1>4. n \in Nat
  BY KeyAssumption, FS_Subset, FS_CardinalityType DEF Live
<1>5. new \in JobRecord
  BY <1>3, <1>4 DEF JobRecord, Phase, IdInv, IdTypes
<1>6. jobs' = Append(jobs, new) /\ job' = Len(jobs) + 1
  BY DEF Plan
<1>7. jobs \in Seq(JobRecord)
  BY DEF IdInv, IdTypes
<1>8. /\ jobs' \in Seq(JobRecord) /\ job' \in DOMAIN jobs'
      /\ jobs'[job'] = new
  <2> HIDE DEF new
  <2> QED
    BY <1>5, <1>6, <1>7
<1>9. IdTypes'
  BY <1>2, <1>3, <1>8 DEF IdInv, IdTypes
<1>10. \A s \in Files' : s <= issued'
  <2> SUFFICES ASSUME NEW s \in Files PROVE s <= issued'
    BY <1>2 DEF Files
  <2>1. s \in Nat /\ issued \in Nat /\ s <= issued
    BY <1>1, Zenon DEF IdInv, IdTypes, LeaseInv, Files
  <2> QED
    BY <2>1, <1>3
<1>11. LeaseInv' /\ OutputInv'
  BY <1>1, <1>3, <1>8, <1>10 DEF LeaseInv, OutputInv
<1> QED
  BY <1>3, <1>9, <1>11 DEF IdInv

LEMMA CreateIds ==
    ASSUME IdInv, Create PROVE IdInv'
<1>1. Open /\ job \in DOMAIN jobs /\ jobs[job].out = issued
  BY DEF Create, IdInv, OutputInv, Open
<1>2. UNCHANGED <<durable, issued, reserved, lost, minted, pending, active>>
  BY DEF Create, counts
<1>3. CASE UNCHANGED jobs /\ sealed' = sealed \cup {Now.out} /\ pc' = "created"
  <2>1. sealed' = sealed \cup {issued} /\ Files' = Files \cup {issued}
    BY <1>1, <1>2, <1>3 DEF Now, Files
  <2>2. IdTypes'
    BY <1>2, <1>3, <2>1, Zenon DEF IdInv, IdTypes
  <2>3. LeaseInv' /\ OutputInv'
    BY <1>1, <1>2, <1>3, <2>1 DEF IdInv, IdTypes, LeaseInv, OutputInv
  <2>4. MintedInv' /\ NeverReused'
    BY <1>1, <1>2 DEF IdInv, MintedInv, NeverReused
  <2> QED
    BY <2>2, <2>3, <2>4 DEF IdInv
<1>4. CASE Goes("failed") /\ UNCHANGED sealed /\ pc' = "idle"
  <2>1. Quiet
    BY <1>1, <1>2, <1>4, Zenon DEF Quiet, Goes, Phase, Files
  <2> QED
    BY <2>1, QuietStep
<1> QED
  BY <1>3, <1>4 DEF Create

LEMMA ReconstructIds ==
    ASSUME IdInv, Reconstruct PROVE IdInv'
<1>1. PICK top \in {0} \cup Range(minted) :
         /\ \A s \in Files : s <= top
         /\ durable' = IF durable < top THEN top ELSE durable
  BY DEF Reconstruct
<1>2. /\ issued' = durable' /\ reserved' = durable'
      /\ UNCHANGED <<lost, minted, sealed, pending, active, jobs, Files>>
      /\ pc' # "create"
  BY DEF Reconstruct, counts, Files
<1>3. top \in Nat
  BY DEF IdInv, IdTypes, Range
<1>4. durable \in Nat /\ durable' \in Nat /\ durable <= durable' /\ top <= durable'
  BY <1>1, <1>3 DEF IdInv, IdTypes
<1>5. IdTypes'
  BY <1>2, <1>4 DEF IdInv, IdTypes
<1>6. \A s \in Files' : s <= issued'
  <2> SUFFICES ASSUME NEW s \in Files PROVE s <= durable'
    BY <1>2
  <2>1. s \in Nat /\ s <= top
    BY <1>1 DEF IdInv, IdTypes, Files
  <2> QED
    BY <2>1, <1>3, <1>4
<1>7. LeaseInv' /\ OutputInv'
  BY <1>2, <1>4, <1>6 DEF LeaseInv, OutputInv
<1>8. MintedInv'
  <2> SUFFICES ASSUME lost = 0, NEW i \in DOMAIN minted
               PROVE  minted[i] <= durable'
    BY <1>2 DEF MintedInv
  <2>1. minted[i] \in Nat /\ minted[i] <= durable
    BY DEF IdInv, IdTypes, MintedInv
  <2> QED
    BY <2>1, <1>4
<1>9. NeverReused'
  BY <1>2 DEF IdInv, NeverReused
<1> QED
  BY <1>5, <1>7, <1>8, <1>9 DEF IdInv

LEMMA LoseSeqFileIds ==
    ASSUME IdInv, LoseSeqFile PROVE IdInv'
<1>1. /\ durable' = 0 /\ lost' = lost + 1 /\ pc' = "down"
      /\ UNCHANGED <<issued, reserved, minted, sealed, pending, active, jobs>>
  BY DEF LoseSeqFile, memory
<1>2. lost \in Nat
  BY DEF IdInv, IdTypes
<1>3. IdTypes'
  BY <1>1, <1>2 DEF IdInv, IdTypes
<1>4. LeaseInv' /\ OutputInv' /\ MintedInv' /\ NeverReused'
  BY <1>1, <1>2 DEF LeaseInv, OutputInv, MintedInv, NeverReused, Open
<1> QED
  BY <1>3, <1>4 DEF IdInv

(* The steps of the writer and of the worker that hand out no id. *)
QuietAction ==
    \/ \E k \in Key, v \in Content : Write(k, v)
    \/ Rotate
    \/ \E s \in pending : Publish(s)
    \/ BeginClose
    \/ RebuildIndex
    \/ Return
    \/ Compact
    \/ Register
    \/ DeleteSource
    \/ Rebind
    \/ Fail
    \/ LoadIndex
    \/ Opened
    \/ RecordCreated
    \/ RecordVerified
    \/ Activate
    \/ Hold
    \/ \E j \in DOMAIN jobs : Reclaim(j)
    \/ EndReclaim
    \/ \E j \in DOMAIN jobs : Cancel(j)
    \/ \E j \in DOMAIN jobs : Recover(j)

LEMMA QuietActions ==
    ASSUME QuietAction PROVE Quiet
<1> USE DEF disk, memory, doubts, counts, Open, Files, Quiet
<1>1. ASSUME NEW k \in Key, NEW v \in Content, Write(k, v) PROVE Quiet
  BY <1>1 DEF Write
<1>2. CASE Rotate
  BY <1>2 DEF Rotate, Detach
<1>3. ASSUME NEW s \in pending, Publish(s) PROVE Quiet
  BY <1>3 DEF Publish
<1>4. CASE BeginClose
  BY <1>4 DEF BeginClose, Detach
<1>5. CASE RebuildIndex
  BY <1>5 DEF RebuildIndex
<1>6. CASE Return
  BY <1>6 DEF Return
<1>7. CASE Compact
  BY <1>7 DEF Compact, SealActive
<1>8. CASE Register
  BY <1>8 DEF Register
<1>9. CASE DeleteSource
  BY <1>9 DEF DeleteSource
<1>10. CASE Rebind
  BY <1>10 DEF Rebind
<1>11. CASE Fail
  BY <1>11 DEF Fail
<1>12. CASE LoadIndex
  BY <1>12 DEF LoadIndex
<1>13. CASE Opened
  BY <1>13 DEF Opened
<1>14. CASE RecordCreated
  BY <1>14, Zenon DEF RecordCreated, Goes, Phase
<1>15. CASE RecordVerified
  BY <1>15 DEF RecordVerified, Goes, Phase
<1>16. CASE Activate
  BY <1>16, Zenon DEF Activate, Goes, Phase
<1>17. CASE Hold
  BY <1>17, Zenon DEF Hold, Goes, Phase
<1>18. ASSUME NEW j \in DOMAIN jobs, Reclaim(j) PROVE Quiet
  BY <1>18, Zenon DEF Reclaim, Phase
<1>19. CASE EndReclaim
  BY <1>19, Zenon DEF EndReclaim, Goes, Phase
<1>20. ASSUME NEW j \in DOMAIN jobs, Cancel(j) PROVE Quiet
  BY <1>20, Zenon DEF Cancel, Phase
<1>21. ASSUME NEW j \in DOMAIN jobs, Recover(j) PROVE Quiet
  BY <1>21 DEF Recover, Phase
<1> HIDE DEF Quiet
<1> QED
  BY <1>1, <1>2, <1>3, <1>4, <1>5, <1>6, <1>7, <1>8, <1>9, <1>10, <1>11, <1>12, <1>13, <1>14, <1>15, <1>16, <1>17, <1>18, <1>19, <1>20, <1>21 DEF QuietAction

LEMMA NextIds == IdInv /\ [Next]_vars => IdInv'
<1> SUFFICES ASSUME IdInv, [Next]_vars PROVE IdInv'
  OBVIOUS
<1>1. CASE UNCHANGED vars
  BY <1>1, QuietStep DEF vars, disk, memory, counts, Quiet, Files, Open
<1>2. CASE QuietAction
  BY <1>2, QuietActions, QuietStep
<1>3. CASE Close
  BY <1>3, DownStep DEF Close
<1>4. CASE Crash
  BY <1>4, DownStep DEF Crash
<1>5. CASE ExtendLease
  BY <1>5, ExtendLeaseIds
<1>6. CASE NewActive
  BY <1>6, NewActiveIds
<1>7. CASE \E loss, reclaim \in BOOLEAN : Plan(loss, reclaim)
  BY <1>7, PlanIds
<1>8. CASE Create
  BY <1>8, CreateIds
<1>9. CASE Reconstruct
  BY <1>9, ReconstructIds
<1>10. CASE LoseSeqFile
  BY <1>10, LoseSeqFileIds
<1> QED
  BY <1>1, <1>2, <1>3, <1>4, <1>5, <1>6, <1>7, <1>8, <1>9, <1>10
  DEF Next, QuietAction

-----------------------------------------------------------------------------
(* next_segment_id_from_lease never hands out an id twice, over any number   *)
(* of crashes at any point, while segment_seq.v1 is not lost.                *)
THEOREM IdsNeverReused == Spec => []NeverReused
<1>1. IdInv => NeverReused
  BY DEF IdInv
<1> QED
  BY InitIds, NextIds, <1>1, PTL DEF Spec

(* Even when it is lost, the allocator of an open store is ahead of every    *)
(* segment on media, so that no new segment takes the name of an old one.    *)
THEOREM NewIdsFresh == Spec => []FreshIds
<1>1. IdInv => FreshIds
  BY DEF IdInv, LeaseInv, FreshIds, Open
<1> QED
  BY InitIds, NextIds, <1>1, PTL DEF Spec

-----------------------------------------------------------------------------
(* Where the entries of an index point.                                      *)

(* The job in hand has this phase. *)
Holding(phase) == job \in DOMAIN jobs /\ jobs[job].phase = phase

(* The writer is between two active segments, or has none yet. *)
Between == {"rotate", "compact", "closing", "resume"}
Opening == {"down", "loaded", "healed"}

(* Every file was created; an idle writer has an active segment; a job in    *)
(* hand has the phase that the thread last recorded.                         *)
FileInv ==
    /\ Files \subseteq DOMAIN events /\ DOMAIN events \subseteq Nat
    /\ \E b \in Nat : \A s \in DOMAIN events : s <= b
PcInv ==
    /\ pc \in Between => active = 0
    /\ pc \notin Between \cup Opening => active # 0
    /\ pc \in {"create", "created"} => Holding("planned")
    /\ pc \in {"verify", "reverify"} => Holding("created")
    /\ pc \in {"activate", "reactivate", "activating", "reactivating"} =>
          Holding("verified")
    /\ pc = "hold" => Holding("activated")
    /\ pc \in {"reclaim", "reclaimed"} => Holding("hold")

(* What EntriesResolve excuses: the outputs of cancelled jobs and the        *)
(* sources of jobs that may be reclaiming them.                              *)
InPhase(js, phase) == {j \in DOMAIN js : js[j].phase = phase}
Excused(js) ==
    {js[j].out : j \in InPhase(js, "cancelled")}
       \cup UNION {js[j].sources : j \in InPhase(js, "hold")}

(* The live entries of an index point into S. *)
PointsInto(ix, S) == \A k \in Key : ix[k].val # Gone => ix[k].at \in S

(* The index in memory and the one in the checkpoint point to files or to    *)
(* what is excused; once the locators are rebound, to files.                 *)
PointInv ==
    /\ DOMAIN index = Key /\ "index" \in DOMAIN cache
    /\ PointsInto(index, Files \cup Excused(jobs))
    /\ PointsInto(cache.index, Files \cup Excused(jobs))
    /\ pc = "reclaimed" => /\ PointsInto(index, Files)
                           /\ PointsInto(cache.index, Files)

(* A nonempty set of numbers up to k has a largest one. *)
LEMMA MaxExists ==
    ASSUME NEW k \in Nat, NEW S \in SUBSET (0 .. k), S # {}
    PROVE  \E m \in S : \A x \in S : x <= m
<1> DEFINE D == {k - x : x \in S}
<1>1. D \subseteq Nat /\ D # {}
  <2>1. ASSUME NEW x \in S PROVE k - x \in Nat
    OBVIOUS
  <2> QED BY <2>1, Zenon
<1>2. PICK d \in D : \A y \in D : ~(<<y, d>> \in OpToRel(<, Nat))
  BY <1>1, WFMin, NatLessThanWellFounded, Zenon
<1>3. PICK m \in S : d = k - m
  BY <1>2, Zenon
<1>4. ASSUME NEW x \in S PROVE x <= m
  <2>1. ~(<<k - x, k - m>> \in OpToRel(<, Nat))
    BY <1>2, <1>3, Zenon
  <2>2. k - x \in Nat /\ k - m \in Nat
    OBVIOUS
  <2>3. ~(k - x < k - m)
    BY <2>1, <2>2, Zenon DEF OpToRel
  <2> QED BY <2>3
<1> QED BY <1>3, <1>4, Zenon

(* The segment that Replay takes for a key is one of those it replays. *)
LEMMA LastHolder ==
    ASSUME NEW b \in Nat, NEW held, held # {}, NEW rank, \A t \in held : rank[t] \in 0 .. b
    PROVE  LET s == CHOOSE s \in held : \A t \in held : rank[t] <= rank[s]
           IN s \in held /\ \A t \in held : rank[t] <= rank[s]
<1> DEFINE R == {rank[t] : t \in held}
<1>1. R \in SUBSET (0 .. b) /\ R # {}
  BY Zenon
<1>2. PICK m \in R : \A x \in R : x <= m
  BY <1>1, MaxExists, Zenon
<1>3. \E s \in held : \A t \in held : rank[t] <= rank[s]
  BY <1>2, Zenon
<1> QED BY <1>3, Zenon

(* What Replay sets points to a segment it replays. *)
LEMMA ReplayPoints ==
    ASSUME NEW ix, NEW S, NEW rank, NEW start, NEW b \in Nat,
           \A s \in S : rank[s] \in 0 .. b,
           NEW F, S \subseteq F, PointsInto(ix, F)
    PROVE  PointsInto(Replay(ix, S, rank, start), F)
<1> SUFFICES ASSUME NEW k \in Key, Replay(ix, S, rank, start)[k].val # Gone
             PROVE  Replay(ix, S, rank, start)[k].at \in F
  BY Zenon DEF PointsInto
<1> DEFINE held == {s \in S : Places(s, start[s], k) # {}}
           last == CHOOSE s \in held : \A t \in held : rank[t] <= rank[s]
<1>1. Replay(ix, S, rank, start)[k] =
         IF held = {} THEN ix[k]
         ELSE [val |-> events[last][Max(Places(last, start[last], k))].val, at |-> last]
  BY Zenon DEF Replay
<1>2. CASE held = {}
  BY <1>1, <1>2, Zenon DEF PointsInto
<1>3. CASE held # {}
  <2>1. last \in held
    BY <1>3, LastHolder, Zenon
  <2>2. last \in F
    BY <2>1, Zenon
  <2> HIDE DEF last
  <2> QED BY <1>1, <1>3, <2>2
<1> QED BY <1>2, <1>3, Zenon

(* A rebuilt index points to the files it was rebuilt from. *)
LEMMA RebuiltPoints ==
    ASSUME FileInv
    PROVE  PointsInto(Rebuilt(Files), Files)
<1>1. PICK b \in Nat : \A s \in DOMAIN events : s <= b
  BY Zenon DEF FileInv
<1>2. \A s \in Files : MintOrder[s] \in 0 .. b
  BY <1>1 DEF MintOrder, FileInv
<1>3. PointsInto(Nothing, Files)
  BY Zenon DEF PointsInto, Nothing
<1> QED BY <1>1, <1>2, <1>3, ReplayPoints, Zenon DEF Rebuilt

(* The job records after the phase of j is recorded. *)
Recorded(js, j, phase) == [js EXCEPT ![j].phase = phase]

(* Recording a phase changes nothing else. *)
LEMMA PhaseSet ==
    ASSUME NEW js \in Seq(JobRecord), NEW j \in DOMAIN js, NEW phase
    PROVE  LET new == Recorded(js, j, phase) IN
           /\ DOMAIN new = DOMAIN js /\ new[j].phase = phase
           /\ \A i \in DOMAIN js : /\ i # j => new[i] = js[i]
                                   /\ new[i].out = js[i].out
                                   /\ new[i].sources = js[i].sources
<1> DEFINE new == Recorded(js, j, phase)
<1>1. js[j] \in JobRecord
  OBVIOUS
<1>2. new = [i \in DOMAIN js |-> IF i = j THEN [js[j] EXCEPT !.phase = phase] ELSE js[i]]
  BY DEF Recorded
<1>3. /\ [js[j] EXCEPT !.phase = phase].phase = phase
      /\ [js[j] EXCEPT !.phase = phase].out = js[j].out
      /\ [js[j] EXCEPT !.phase = phase].sources = js[j].sources
  BY <1>1 DEF JobRecord
<1> QED BY <1>2, <1>3, Zenon

(* Only the end of a reclaim takes an excuse away. *)
LEMMA PhaseExcuses ==
    ASSUME NEW js \in Seq(JobRecord), NEW j \in DOMAIN js, NEW phase,
           js[j].phase \notin {"cancelled", "hold"} \/ js[j].phase = phase
    PROVE  Excused(js) \subseteq Excused(Recorded(js, j, phase))
<1> DEFINE new == Recorded(js, j, phase)
<1>1. /\ DOMAIN new = DOMAIN js /\ new[j].phase = phase
      /\ \A i \in DOMAIN js : /\ i # j => new[i] = js[i]
                              /\ new[i].out = js[i].out
                              /\ new[i].sources = js[i].sources
  BY PhaseSet
<1>2. /\ InPhase(js, "cancelled") \subseteq InPhase(new, "cancelled")
      /\ InPhase(js, "hold") \subseteq InPhase(new, "hold")
  BY <1>1 DEF InPhase
<1>3. InPhase(js, "cancelled") \subseteq DOMAIN js /\ InPhase(js, "hold") \subseteq DOMAIN js
  BY DEF InPhase
<1>4. ASSUME NEW x \in Excused(js) PROVE x \in Excused(new)
  <2>1. ASSUME NEW i \in InPhase(js, "cancelled"), x = js[i].out PROVE x \in Excused(new)
    <3>1. i \in InPhase(new, "cancelled") /\ x = new[i].out
      BY <2>1, <1>1, <1>2, <1>3, Zenon
    <3> QED BY <3>1, Zenon DEF Excused
  <2>2. ASSUME NEW i \in InPhase(js, "hold"), x \in js[i].sources PROVE x \in Excused(new)
    <3>1. i \in InPhase(new, "hold") /\ x \in new[i].sources
      BY <2>2, <1>1, <1>2, <1>3, Zenon
    <3> QED BY <3>1, Zenon DEF Excused
  <2> QED BY <1>4, <2>1, <2>2, Zenon DEF Excused
<1> QED BY <1>4

(* A step that creates at most the file n. *)
LEMMA FileStep ==
    ASSUME FileInv, NEW n \in Nat, Files' \subseteq DOMAIN events',
           \/ DOMAIN events' = DOMAIN events
           \/ DOMAIN events' = DOMAIN events \cup {n}
    PROVE  FileInv'
<1>1. PICK b \in Nat : \A s \in DOMAIN events : s <= b
  BY DEF FileInv
<1>2. \E c \in Nat : b <= c /\ n <= c
  <2>1. CASE b <= n
    BY <2>1
  <2>2. CASE n <= b
    BY <2>2
  <2> QED BY <2>1, <2>2
<1>3. PICK c \in Nat : b <= c /\ n <= c
  BY <1>2
<1>4. DOMAIN events \subseteq Nat
  BY DEF FileInv
<1>5. DOMAIN events' \subseteq Nat /\ \A s \in DOMAIN events' : s <= c
  BY <1>1, <1>3, <1>4
<1> QED BY <1>5 DEF FileInv

(* The actions that leave the files and their events as they are. *)
StillFiles == Files' \subseteq Files /\ DOMAIN events' = DOMAIN events

LEMMA StillFileStep ==
    ASSUME FileInv, StillFiles PROVE FileInv'
<1>1. Files' \subseteq DOMAIN events'
  BY DEF FileInv, StillFiles
<1> QED BY <1>1, FileStep, Zenon DEF StillFiles

LEMMA QuietFiles ==
    ASSUME PcInv, IdInv, QuietAction PROVE StillFiles
<1> USE DEF disk, memory, Files, StillFiles
<1> DEFINE Live0 == pc = "idle" => active # 0
<1>0. Live0
  BY DEF PcInv, Between, Opening
<1>1. ASSUME NEW k \in Key, NEW v \in Content, Write(k, v) PROVE StillFiles
  BY <1>1 DEF Write
<1>2. CASE Rotate
  BY <1>2, <1>0 DEF Rotate, Detach
<1>3. ASSUME NEW s \in pending, Publish(s) PROVE StillFiles
  BY <1>3 DEF Publish
<1>4. CASE BeginClose
  BY <1>4, <1>0 DEF BeginClose, Detach
<1>5. CASE RebuildIndex \/ Return \/ Register \/ Fail \/ Opened
  BY <1>5, Zenon DEF RebuildIndex, Return, Register, Fail, Opened
<1>6. CASE Compact
  BY <1>6, <1>0 DEF Compact, SealActive
<1>7. CASE DeleteSource \/ Rebind
  BY <1>7 DEF DeleteSource, Rebind
<1>8. CASE LoadIndex
  BY <1>8, Zenon DEF LoadIndex
<1>9. CASE RecordCreated \/ RecordVerified \/ Activate \/ Hold \/ EndReclaim
  BY <1>9, Zenon DEF RecordCreated, RecordVerified, Activate, Hold, EndReclaim
<1>10. ASSUME NEW j \in DOMAIN jobs, Reclaim(j) \/ Cancel(j) \/ Recover(j) PROVE StillFiles
  BY <1>10 DEF Reclaim, Cancel, Recover
<1> HIDE DEF StillFiles
<1> QED
  BY <1>1, <1>2, <1>3, <1>4, <1>5, <1>6, <1>7, <1>8, <1>9, <1>10, Zenon DEF QuietAction

(* Every step keeps the files created. *)
LEMMA NextFiles ==
    ASSUME IdInv, FileInv, PcInv, [Next]_vars PROVE FileInv'
<1>1. CASE UNCHANGED vars
  BY <1>1, StillFileStep DEF vars, disk, StillFiles, Files
<1>2. CASE QuietAction
  BY <1>2, QuietFiles, StillFileStep, Zenon
<1>3. CASE Close \/ Crash \/ ExtendLease \/ Reconstruct \/ LoseSeqFile
            \/ \E loss, reclaim \in BOOLEAN : Plan(loss, reclaim)
  <2>1. UNCHANGED <<sealed, pending, active, events>>
    BY <1>3, Zenon DEF Close, Crash, ExtendLease, Reconstruct, LoseSeqFile, Plan
  <2> QED BY <2>1, StillFileStep DEF StillFiles, Files
<1>4. CASE NewActive
  <2>1. issued + 1 \in Nat
    BY DEF IdInv, IdTypes
  <2>2. /\ active' = issued + 1 /\ UNCHANGED <<sealed, pending>>
        /\ DOMAIN events' = DOMAIN events \cup {issued + 1}
    BY <1>4, Zenon DEF NewActive
  <2>3. Files' \subseteq DOMAIN events'
    BY <2>2 DEF Files, FileInv
  <2> QED BY <2>1, <2>2, <2>3, FileStep, Zenon
<1>5. CASE Create
  <2>1. Now.out \in Nat /\ Now.out = issued
    BY <1>5, Zenon DEF Create, Now, IdInv, IdTypes, OutputInv
  <2>2. CASE sealed' = sealed \cup {Now.out} /\ DOMAIN events' = DOMAIN events \cup {Now.out}
    <3>1. Files' \subseteq DOMAIN events'
      BY <1>5, <2>2 DEF Create, Files, FileInv
    <3> QED BY <2>1, <2>2, <3>1, FileStep, Zenon
  <2>3. CASE UNCHANGED <<events, sealed>>
    BY <1>5, <2>3, StillFileStep DEF Create, StillFiles, Files
  <2> QED BY <1>5, <2>2, <2>3 DEF Create
<1> QED
  BY <1>1, <1>2, <1>3, <1>4, <1>5, Zenon DEF Next, QuietAction

(* The job in hand after its phase is recorded. *)
LEMMA HoldingNext ==
    ASSUME IdInv, NEW j \in DOMAIN jobs, NEW phase, jobs' = Recorded(jobs, j, phase),
           job' = j
    PROVE  Holding(phase)'
<1>1. jobs \in Seq(JobRecord)
  BY DEF IdInv, IdTypes
<1>2. DOMAIN Recorded(jobs, j, phase) = DOMAIN jobs /\ Recorded(jobs, j, phase)[j].phase = phase
  BY <1>1, PhaseSet
<1> QED BY <1>2 DEF Holding

(* The program counters at which a job is in hand. *)
InHand == {"create", "created", "verify", "reverify", "activate", "reactivate",
           "activating", "reactivating", "hold", "reclaim", "reclaimed"}

(* A step to a place without a job in hand. *)
LEMMA HandsFree ==
    ASSUME pc' \notin InHand,
           pc' \in Between => active' = 0,
           pc' \notin Between \cup Opening => active' # 0
    PROVE  PcInv'
BY DEF PcInv, InHand

(* A step with a job in hand keeps the active segment. *)
LEMMA HandsFull ==
    ASSUME PcInv, pc \in InHand \cup {"idle", "recover", "plan"}, active' = active,
           pc' \in InHand,
           pc' \in {"create", "created"} => Holding("planned")',
           pc' \in {"verify", "reverify"} => Holding("created")',
           pc' \in {"activate", "reactivate", "activating", "reactivating"} =>
              Holding("verified")',
           pc' = "hold" => Holding("activated")',
           pc' \in {"reclaim", "reclaimed"} => Holding("hold")'
    PROVE  PcInv'
<1>1. active # 0
  BY DEF PcInv, InHand, Between, Opening
<1>2. pc' \notin Between
  BY DEF InHand, Between
<1> QED BY <1>1, <1>2, Zenon DEF PcInv

(* The thread between jobs. *)
LEMMA FreeSteps ==
    ASSUME IdInv, PcInv, pc \notin InHand,
           \/ \E k \in Key, v \in Content : Write(k, v)
           \/ Rotate
           \/ \E s \in pending : Publish(s)
           \/ BeginClose \/ Close \/ RebuildIndex \/ Return \/ ExtendLease
           \/ NewActive \/ Compact \/ LoadIndex \/ Reconstruct \/ Opened
           \/ Crash \/ LoseSeqFile
           \/ \E j \in DOMAIN jobs : Cancel(j)
    PROVE  PcInv'
<1> USE HandsFree DEF disk, memory, InHand, Between, Opening
<1>0. /\ pc \in Between => active = 0
      /\ pc \notin Between \cup Opening => active # 0
  BY DEF PcInv
<1>1. ASSUME NEW k \in Key, NEW v \in Content, Write(k, v) PROVE PcInv'
  BY <1>0, <1>1, Zenon DEF Write
<1>2. CASE Rotate
  BY <1>2, Zenon DEF Rotate, Detach
<1>3. ASSUME NEW s \in pending, Publish(s) PROVE PcInv'
  BY <1>0, <1>3, Zenon DEF Publish
<1>4. CASE BeginClose
  BY <1>0, <1>4, Zenon DEF BeginClose, Detach
<1>5. CASE Close \/ Crash
  BY <1>5, Zenon DEF Close, Crash, Forget
<1>6. CASE RebuildIndex \/ Return \/ ExtendLease \/ Opened \/ LoseSeqFile
  BY <1>0, <1>6, ZenonT(30) DEF RebuildIndex, Return, ExtendLease, Opened, LoseSeqFile
<1>7. CASE NewActive
  <2>1. issued \in Nat
    BY DEF IdInv, IdTypes
  <2>2. active' = issued + 1 /\ pc' = After(pc)
    BY <1>7, Zenon DEF NewActive
  <2>3. active' # 0
    BY <2>1, <2>2
  <2>4. pc' \in {"idle", "plan", "close", "recover"}
    BY <2>2, Zenon DEF After
  <2> QED BY <2>3, <2>4, Zenon
<1>8. CASE Compact
  BY <1>8 DEF Compact, SealActive
<1>9. CASE LoadIndex \/ Reconstruct
  BY <1>9, Zenon DEF LoadIndex, Reconstruct
<1>10. ASSUME NEW j \in DOMAIN jobs, Cancel(j) PROVE PcInv'
  BY <1>0, <1>10 DEF Cancel
<1> QED
  BY <1>1, <1>2, <1>3, <1>4, <1>5, <1>6, <1>7, <1>8, <1>9, <1>10

(* The thread with a job in hand, up to the activation... *)
LEMMA JobSteps ==
    ASSUME IdInv, PcInv,
           \/ \E loss, reclaim \in BOOLEAN : Plan(loss, reclaim)
           \/ Create \/ RecordCreated \/ RecordVerified \/ Register \/ Activate
    PROVE  PcInv'
<1> USE DEF InHand
<1>0. pc \in InHand \cup {"idle", "recover", "plan"} => active # 0
  BY DEF PcInv, Between, Opening
<1>1. CASE \E loss, reclaim \in BOOLEAN : Plan(loss, reclaim)
  <2>1. PICK new : jobs' = Append(jobs, new) /\ new.phase = "planned"
    BY <1>1 DEF Plan
  <2>2. jobs \in Seq(JobRecord) /\ job' = Len(jobs) + 1
    BY <1>1, Zenon DEF Plan, IdInv, IdTypes
  <2>3. job' \in DOMAIN jobs' /\ jobs'[job'] = new
    BY <2>1, <2>2
  <2>4. Holding("planned")'
    BY <2>1, <2>3, Zenon DEF Holding
  <2>5. pc = "plan" /\ pc' = "create" /\ active' = active
    BY <1>1, Zenon DEF Plan
  <2> QED BY <2>4, <2>5, HandsFull
<1>2. CASE Create
  <2>1. pc = "create" /\ active' = active
    BY <1>2, Zenon DEF Create
  <2>2. CASE pc' = "created" /\ UNCHANGED <<jobs, job>>
    BY <2>1, <2>2, HandsFull, Zenon DEF PcInv, Holding
  <2>3. CASE pc' = "idle"
    BY <1>0, <2>1, <2>3, HandsFree DEF Between
  <2> QED BY <1>2, <2>2, <2>3, Zenon DEF Create
<1>3. CASE RecordCreated
  <2>1. /\ pc = "created" /\ pc' = "verify" /\ active' = active /\ job' = job
        /\ jobs' = Recorded(jobs, job, "created")
    BY <1>3 DEF RecordCreated, Goes, Recorded
  <2>2. job \in DOMAIN jobs
    BY <2>1, Zenon DEF PcInv, Holding
  <2>3. Holding("created")'
    BY <2>1, <2>2, HoldingNext, Zenon
  <2> QED BY <2>1, <2>3, HandsFull
<1>4. CASE RecordVerified
  <2>1. pc \in {"verify", "reverify"} /\ active' = active
    BY <1>4, Zenon DEF RecordVerified
  <2>2. job \in DOMAIN jobs
    BY <2>1, Zenon DEF PcInv, Holding
  <2>3. CASE /\ pc' \in {"activate", "reactivate"} /\ job' = job
             /\ jobs' = Recorded(jobs, job, "verified")
    <3>1. Holding("verified")'
      BY <2>2, <2>3, HoldingNext, Zenon
    <3> QED BY <2>1, <2>3, <3>1, HandsFull, Zenon
  <2>4. CASE pc' \in {"idle", "recover"}
    BY <1>0, <2>1, <2>4, HandsFree DEF Between
  <2> QED BY <1>4, <2>1, <2>3, <2>4 DEF RecordVerified, Goes, Recorded
<1>5. CASE Register
  <2>1. /\ pc \in {"activate", "reactivate"} /\ pc' \in {"activating", "reactivating"}
        /\ UNCHANGED <<active, job, jobs>>
    BY <1>5 DEF Register
  <2> QED BY <2>1, HandsFull, Zenon DEF PcInv, Holding
<1>6. CASE Activate
  <2>1. /\ pc \in {"activating", "reactivating"} /\ active' = active
        /\ jobs' = Recorded(jobs, job, "activated")
    BY <1>6 DEF Activate, Goes, Recorded
  <2>2. job \in DOMAIN jobs
    BY <2>1, Zenon DEF PcInv, Holding
  <2>3. CASE pc' = "hold"
    <3>1. job' = job
      BY <1>6, <2>3 DEF Activate
    <3>2. Holding("activated")'
      BY <2>1, <2>2, <3>1, HoldingNext, Zenon
    <3> QED BY <2>1, <2>3, <3>2, HandsFull
  <2>4. CASE pc' \in {"idle", "recover"}
    BY <1>0, <2>1, <2>4, HandsFree DEF Between
  <2> QED BY <1>6, <2>1, <2>3, <2>4 DEF Activate
<1> QED BY <1>1, <1>2, <1>3, <1>4, <1>5, <1>6, Zenon

(* ...the reclaim, recovery, and what interrupts a job or runs beside it. *)
LEMMA ReclaimSteps ==
    ASSUME IdInv, PcInv,
           \/ Hold \/ DeleteSource \/ Rebind \/ EndReclaim \/ Fail
           \/ \E j \in DOMAIN jobs : Reclaim(j)
           \/ \E j \in DOMAIN jobs : Recover(j)
           \/ pc \in InHand /\ (Crash \/ \E s \in pending : Publish(s))
    PROVE  PcInv'
<1> USE DEF InHand
<1>0. pc \in InHand \cup {"idle", "recover", "plan"} => active # 0
  BY DEF PcInv, Between, Opening
<1>1. CASE Hold
  <2>1. /\ pc = "hold" /\ pc' = "reclaim" /\ active' = active /\ job' = job
        /\ jobs' = Recorded(jobs, job, "hold")
    BY <1>1 DEF Hold, Goes, Recorded
  <2>2. job \in DOMAIN jobs
    BY <2>1, Zenon DEF PcInv, Holding
  <2>3. Holding("hold")'
    BY <2>1, <2>2, HoldingNext, Zenon
  <2> QED BY <2>1, <2>3, HandsFull
<1>2. CASE DeleteSource \/ Rebind
  <2>1. pc = "reclaim" /\ pc' \in {"reclaim", "reclaimed"} /\ UNCHANGED <<active, job, jobs>>
    BY <1>2, Zenon DEF DeleteSource, Rebind, memory
  <2> QED BY <2>1, HandsFull, Zenon DEF PcInv, Holding
<1>3. CASE EndReclaim \/ Fail
  <2>1. pc \in InHand /\ pc' = "idle" /\ active' = active
    BY <1>3, Zenon DEF EndReclaim, Fail, disk
  <2> QED BY <1>0, <2>1, HandsFree DEF Between
<1>4. ASSUME NEW j \in DOMAIN jobs, Reclaim(j) PROVE PcInv'
  <2>1. /\ pc = "idle" /\ pc' = "reclaim" /\ active' = active /\ job' = j
        /\ jobs' = Recorded(jobs, j, "hold")
    BY <1>4 DEF Reclaim, Recorded
  <2>2. Holding("hold")'
    BY <2>1, HoldingNext, Zenon
  <2> QED BY <2>1, <2>2, HandsFull
<1>5. ASSUME NEW j \in DOMAIN jobs, Recover(j) PROVE PcInv'
  <2>1. pc = "recover" /\ active' = active
    BY <1>5 DEF Recover
  <2>2. CASE pc' = pc
    BY <1>0, <2>1, <2>2, HandsFree DEF Between
  <2>3. CASE jobs[j].phase # "planned" /\ job' = j /\ UNCHANGED jobs
    <3>1. pc' = IF jobs[j].phase = "created" THEN "reverify" ELSE "reactivate"
      BY <1>5, <2>3 DEF Recover
    <3>2. jobs[j].phase \in {"created", "verified"}
      BY <1>5, <2>3 DEF Recover, Unsettled
    <3> QED BY <2>1, <2>3, <3>1, <3>2, HandsFull, Zenon DEF Holding
  <2> QED BY <1>5, <2>2, <2>3 DEF Recover
<1>6. CASE Crash
  BY <1>6, HandsFree, Zenon DEF Crash, Forget, Between, Opening
<1>7. ASSUME pc \in InHand, NEW s \in pending, Publish(s) PROVE PcInv'
  <2>1. UNCHANGED <<active, pc, job, jobs>>
    BY <1>7, Zenon DEF Publish, memory
  <2> QED BY <1>7, <2>1, HandsFull, Zenon DEF PcInv, Holding
<1> QED BY <1>1, <1>2, <1>3, <1>4, <1>5, <1>6, <1>7, Zenon

LEMMA NextPc ==
    ASSUME IdInv, PcInv, [Next]_vars PROVE PcInv'
<1>1. CASE UNCHANGED vars
  BY <1>1, Zenon DEF vars, disk, memory, PcInv, Holding
<1>2. CASE pc \notin InHand /\ Next
  BY <1>2, FreeSteps, JobSteps, ReclaimSteps, Zenon DEF Next
<1>3. CASE pc \in InHand /\ Next
  <2>1. ~ \/ \E k \in Key, v \in Content : Write(k, v)
          \/ Rotate \/ BeginClose \/ Close \/ RebuildIndex \/ Return \/ ExtendLease
          \/ NewActive \/ Compact \/ LoadIndex \/ Reconstruct \/ Opened
          \/ LoseSeqFile
          \/ \E j \in DOMAIN jobs : Cancel(j)
    BY <1>3, Zenon DEF InHand, Write, Rotate, BeginClose, Close, RebuildIndex, Return,
       ExtendLease, NewActive, Compact, LoadIndex, Reconstruct, Opened,
       LoseSeqFile, Cancel
  <2> QED BY <1>3, <2>1, JobSteps, ReclaimSteps, Zenon DEF Next
<1> QED BY <1>1, <1>2, <1>3, Zenon

-----------------------------------------------------------------------------
(* Where the entries of an open store may point. *)
Reach == Files \cup Excused(jobs)

(* A step that takes neither files nor excuses away. *)
LEMMA PointStep ==
    ASSUME PointInv, Reach \subseteq Reach',
           DOMAIN index' = Key, "index" \in DOMAIN cache',
           PointsInto(index', Reach), PointsInto(cache'.index, Reach),
           pc' = "reclaimed" => /\ PointsInto(index', Files')
                                /\ PointsInto(cache'.index, Files')
    PROVE  PointInv'
<1>1. PointsInto(index', Reach') /\ PointsInto(cache'.index, Reach')
  BY Zenon DEF PointsInto
<1> QED BY <1>1, Zenon DEF PointInv, Reach

(* A step that leaves the index and the checkpoint alone. *)
LEMMA SamePoints ==
    ASSUME PointInv, Reach \subseteq Reach', UNCHANGED <<index, cache>>,
           pc' = "reclaimed" => pc = "reclaimed" /\ Files \subseteq Files'
    PROVE  PointInv'
<1>1. PointsInto(index', Reach) /\ PointsInto(cache'.index, Reach)
  BY DEF PointInv, Reach
<1>2. DOMAIN index' = Key /\ "index" \in DOMAIN cache'
  BY DEF PointInv
<1>3. pc' = "reclaimed" => PointsInto(index', Files') /\ PointsInto(cache'.index, Files')
  <2> HAVE pc' = "reclaimed"
  <2>1. PointsInto(index, Files) /\ PointsInto(cache.index, Files) /\ Files \subseteq Files'
    BY Zenon DEF PointInv
  <2>2. PointsInto(index, Files') /\ PointsInto(cache.index, Files')
    BY <2>1, Zenon DEF PointsInto
  <2> QED BY <2>2
<1> QED BY <1>1, <1>2, <1>3, PointStep, Zenon

(* An empty index points anywhere. *)
LEMMA NothingPoints == \A S : PointsInto(Nothing, S) /\ DOMAIN Nothing = Key
BY Zenon DEF PointsInto, Nothing

LEMMA CheckpointIndex ==
    ASSUME NEW ix, NEW S, NEW id
    PROVE  Checkpoint(ix, S, id).index = ix /\ "index" \in DOMAIN Checkpoint(ix, S, id)
BY Zenon DEF Checkpoint

LEMMA UnboundIndex ==
    ASSUME NEW c, "index" \in DOMAIN c
    PROVE  Unbound(c).index = c.index /\ "index" \in DOMAIN Unbound(c)
BY DEF Unbound

(* The steps that record a phase and leave index and files alone. *)
LEMMA PhasePoints ==
    ASSUME IdInv, PointInv, NEW j \in DOMAIN jobs, NEW phase,
           jobs' = Recorded(jobs, j, phase),
           jobs[j].phase \notin {"cancelled", "hold"} \/ jobs[j].phase = phase,
           Files \subseteq Files', UNCHANGED <<index, cache>>, pc' # "reclaimed"
    PROVE  PointInv'
<1>1. jobs \in Seq(JobRecord)
  BY Zenon DEF IdInv, IdTypes
<1>2. Excused(jobs) \subseteq Excused(Recorded(jobs, j, phase))
  BY <1>1, PhaseExcuses, Zenon
<1>3. Reach \subseteq Reach'
  BY <1>2, Zenon DEF Reach
<1> QED BY <1>3, SamePoints

(* The steps that remove the output of a job they cancel. *)
LEMMA CancelPoints ==
    ASSUME IdInv, PointInv, NEW j \in DOMAIN jobs,
           jobs' = Recorded(jobs, j, "cancelled"),
           jobs[j].phase \notin {"cancelled", "hold"},
           sealed' = sealed \ {jobs[j].out},
           UNCHANGED <<pending, active, index, cache>>, pc' # "reclaimed"
    PROVE  PointInv'
<1>1. jobs \in Seq(JobRecord)
  BY Zenon DEF IdInv, IdTypes
<1> DEFINE new == Recorded(jobs, j, "cancelled")
<1>2. Excused(jobs) \subseteq Excused(new)
  BY <1>1, PhaseExcuses, Zenon
<1>3. DOMAIN new = DOMAIN jobs /\ new[j].phase = "cancelled" /\ new[j].out = jobs[j].out
  BY <1>1, PhaseSet
<1> HIDE DEF new
<1>4. jobs[j].out \in Excused(new)
  BY <1>3, Zenon DEF Excused, InPhase
<1>5. Reach \subseteq Reach'
  BY <1>2, <1>4, Zenon DEF Reach, Files, new
<1> QED BY <1>5, SamePoints, Zenon

(* The deletion of a source: the job holds its sources until it ends. *)
LEMMA DeletePoints ==
    ASSUME PcInv, PointInv, DeleteSource PROVE PointInv'
<1>1. pc = "reclaim" /\ UNCHANGED <<pending, active, jobs, index, cache, pc>>
  BY Zenon DEF DeleteSource, memory
<1>2. PICK s \in jobs[job].sources : sealed' = sealed \ {s}
  BY Zenon DEF DeleteSource, Sources, Now
<1>3. job \in InPhase(jobs, "hold")
  BY <1>1, Zenon DEF PcInv, Holding, InPhase
<1>4. s \in Excused(jobs)
  BY <1>3, Zenon DEF Excused
<1>5. Reach \subseteq Reach'
  BY <1>1, <1>2, <1>4 DEF Reach, Files
<1> QED BY <1>1, <1>5, SamePoints, Zenon

(* The sealed segments of a suffix replay get ranks in any order. *)
LEMMA OrderRanks ==
    ASSUME FileInv, NEW U \in SUBSET DOMAIN events, NEW order \in AnyOrder(U)
    PROVE  \E b \in Nat : \A s \in U \cup {active} : AntiFunction(order)[s] \in 0 .. b
<1>1. PICK c \in Nat : \A s \in DOMAIN events : s <= c
  BY DEF FileInv
<1>2. U \in SUBSET (0 .. c)
  BY <1>1 DEF FileInv
<1>3. IsFiniteSet(0 .. c)
  BY FS_Interval
<1>4. IsFiniteSet(U)
  BY <1>2, <1>3, FS_Subset, Zenon
<1>5. Cardinality(U) \in Nat
  BY <1>4, FS_CardinalityType, Zenon
<1> DEFINE n == Cardinality(U)
<1> HIDE DEF n
<1>6. PICK o \in Bijection(1 .. n, U) : order = Append(o, active)
  BY Zenon DEF AnyOrder, Orders, n
<1>7. o \in [1 .. n -> U] /\ \A t \in U : \E i \in 1 .. n : o[i] = t
  BY <1>6, Zenon DEF Bijection, Injection, Surjection
<1>8. n \in Nat
  BY <1>5 DEF n
<1>9. o \in Seq(U) /\ Len(o) = n
  BY <1>7, <1>8
<1>10. /\ DOMAIN order = 1 .. n + 1 /\ order[n + 1] = active
       /\ \A i \in 1 .. n : order[i] = o[i]
  BY <1>6, <1>8, <1>9
<1>11. ASSUME NEW s \in U \cup {active} PROVE AntiFunction(order)[s] \in 0 .. n + 1
  <2>1. \E i \in 1 .. n + 1 : order[i] = s
    <3>1. CASE s = active
      BY <3>1, <1>8, <1>10
    <3>2. CASE s \in U
      BY <3>2, <1>7, <1>8, <1>10
    <3> QED BY <3>1, <3>2
  <2>2. s \in Range(order)
    BY <2>1, <1>10, Zenon DEF Range
  <2>3. AntiFunction(order)[s] = CHOOSE i \in DOMAIN order : s \in Range(order) => order[i] = s
    BY <2>2, Zenon DEF AntiFunction, Inverse
  <2>4. AntiFunction(order)[s] \in DOMAIN order
    BY <2>1, <2>3, <1>10, Zenon
  <2> QED BY <2>4, <1>8, <1>10
<1> QED BY <1>8, <1>11

(* load_or_rebuild_index: whichever way the index comes back. *)
LEMMA LoadPoints ==
    ASSUME FileInv, PointInv, LoadIndex PROVE PointInv'
<1>1. /\ pending' = {} /\ sealed' = sealed \cup pending /\ UNCHANGED <<active, jobs>>
      /\ pc' \in {"loaded", "healed"}
  BY Zenon DEF LoadIndex
<1>2. Reach' = Reach /\ Files' = Files
  BY <1>1, Zenon DEF Reach, Files
<1>3. PointsInto(cache.index, Reach) /\ "index" \in DOMAIN cache
  BY DEF PointInv, Reach
<1>4. Files \subseteq Reach /\ Files \subseteq DOMAIN events
  BY DEF Reach, FileInv
<1> DEFINE now == sealed \cup pending
<1>5. CASE /\ CacheHit(now) /\ UNCHANGED cache
           /\ index' = Replay(cache.index, {active}, MintOrder,
                              [s \in DOMAIN events |-> cache.len])
  <2>1. active \in Files
    BY <1>5 DEF CacheHit, Files
  <2>2. PICK b \in Nat : \A s \in DOMAIN events : s <= b
    BY DEF FileInv
  <2>3. \A s \in {active} : MintOrder[s] \in 0 .. b
    BY <2>1, <2>2, <1>4 DEF MintOrder, FileInv
  <2>4. PointsInto(index', Reach)
    BY <1>3, <1>4, <1>5, <2>1, <2>3, ReplayPoints, Zenon
  <2>5. DOMAIN index' = Key
    BY <1>5, Zenon DEF Replay
  <2> QED BY <1>1, <1>2, <1>3, <1>5, <2>4, <2>5, PointStep, Zenon
<1>6. CASE /\ cache' = Checkpoint(index', now, 0)
           /\ \E order \in AnyOrder(Uncovered(now)) :
                 index' = Replay(cache.index, Files \ cache.sealed,
                                 AntiFunction(order), Covered)
  <2>1. PICK order \in AnyOrder(Uncovered(now)) :
           index' = Replay(cache.index, Files \ cache.sealed,
                           AntiFunction(order), Covered)
    BY <1>6, Zenon
  <2>2. Uncovered(now) \in SUBSET DOMAIN events
    BY <1>4 DEF Uncovered, Files
  <2>3. PICK b \in Nat : \A s \in Uncovered(now) \cup {active} :
                            AntiFunction(order)[s] \in 0 .. b
    BY <2>1, <2>2, OrderRanks, Zenon
  <2>4. Files \ cache.sealed \subseteq Uncovered(now) \cup {active}
    BY DEF Files, Uncovered
  <2>5. PointsInto(index', Reach)
    BY <1>3, <1>4, <2>1, <2>3, <2>4, ReplayPoints, Zenon
  <2>6. DOMAIN index' = Key
    BY <2>1, Zenon DEF Replay
  <2>7. cache'.index = index' /\ "index" \in DOMAIN cache'
    BY <1>6, CheckpointIndex, Zenon
  <2> QED BY <1>1, <1>2, <2>5, <2>6, <2>7, PointStep, Zenon
<1>7. CASE cache' = Checkpoint(index', now, 0) /\ index' = Rebuilt(Files)
  <2>1. PointsInto(index', Reach)
    BY <1>4, <1>7, RebuiltPoints, Zenon DEF PointsInto
  <2>2. DOMAIN index' = Key
    BY <1>7, Zenon DEF Rebuilt, Replay
  <2>3. cache'.index = index' /\ "index" \in DOMAIN cache'
    BY <1>7, CheckpointIndex
  <2> QED BY <1>1, <1>2, <2>1, <2>2, <2>3, PointStep, Zenon
<1> QED BY <1>5, <1>6, <1>7, Zenon DEF LoadIndex

(* An index that was rebuilt and checkpointed. *)
LEMMA RebuiltStep ==
    ASSUME FileInv, PointInv, index' = Rebuilt(Files),
           cache' = Checkpoint(Rebuilt(Files), sealed, active),
           UNCHANGED <<sealed, pending, active, jobs>>
    PROVE  PointInv'
<1>1. Files' = Files /\ Reach' = Reach /\ Files \subseteq Reach
  BY DEF Files, Reach
<1>2. cache'.index = index' /\ "index" \in DOMAIN cache' /\ DOMAIN index' = Key
  BY CheckpointIndex, Zenon DEF Rebuilt, Replay
<1>3. PointsInto(index', Files)
  BY RebuiltPoints
<1>4. PointsInto(index', Reach)
  BY <1>1, <1>3, Zenon DEF PointsInto
<1> QED BY <1>1, <1>2, <1>3, <1>4, PointStep, Zenon

(* The end of the process, with a checkpoint before it or not. *)
LEMMA StopPoints ==
    ASSUME PointInv, Close \/ Crash PROVE PointInv'
<1>1. index' = Nothing /\ pc' = "down" /\ UNCHANGED <<sealed, pending, active, jobs>>
  BY Zenon DEF Close, Crash, Forget
<1>2. Reach' = Reach
  BY <1>1 DEF Reach, Files
<1>3. /\ PointsInto(index, Reach) /\ PointsInto(cache.index, Reach)
      /\ "index" \in DOMAIN cache
  BY DEF PointInv, Reach
<1>4. cache'.index \in {cache.index, index} /\ "index" \in DOMAIN cache'
  <2>1. /\ Checkpoint(index, sealed, active).index = index
        /\ "index" \in DOMAIN Checkpoint(index, sealed, active)
    BY CheckpointIndex
  <2>2. /\ Unbound(Checkpoint(index, sealed, active)).index = index
        /\ "index" \in DOMAIN Unbound(Checkpoint(index, sealed, active))
    BY <2>1, UnboundIndex, Zenon
  <2>3. Unbound(cache).index = cache.index /\ "index" \in DOMAIN Unbound(cache)
    BY <1>3, UnboundIndex, Zenon
  <2>4. cache' \in {cache, Unbound(cache), Checkpoint(index, sealed, active),
                    Unbound(Checkpoint(index, sealed, active))}
    BY Zenon DEF Close, Crash
  <2> QED BY <1>3, <2>1, <2>2, <2>3, <2>4, Zenon
<1>5. PointsInto(cache'.index, Reach)
  BY <1>3, <1>4, Zenon
<1> QED BY <1>1, <1>2, <1>4, <1>5, NothingPoints, PointStep, Zenon

(* Steps of the writer that set the index or the checkpoint. *)
LEMMA IndexPoints ==
    ASSUME FileInv, PcInv, PointInv,
           \/ \E k \in Key, v \in Content : Write(k, v)
           \/ RebuildIndex \/ Rebind \/ Register
    PROVE  PointInv'
<1>1. ASSUME NEW k \in Key, NEW v \in Content, Write(k, v) PROVE PointInv'
  <2>1. /\ index' = [index EXCEPT ![k] = [val |-> v, at |-> active]] /\ pc = "idle"
        /\ UNCHANGED <<sealed, pending, active, jobs, cache, pc>>
    BY <1>1, Zenon DEF Write
  <2>2. active \in Reach
    BY <2>1, Zenon DEF PcInv, Between, Opening, Reach, Files
  <2>3. /\ PointsInto(index, Reach) /\ PointsInto(cache.index, Reach)
        /\ DOMAIN index = Key /\ "index" \in DOMAIN cache
    BY Zenon DEF PointInv, Reach
  <2>4. DOMAIN index' = Key /\ PointsInto(index', Reach)
    BY <2>1, <2>2, <2>3, Zenon DEF PointsInto
  <2>5. Reach' = Reach
    BY <2>1, Zenon DEF Reach, Files
  <2> QED BY <2>1, <2>3, <2>4, <2>5, PointStep, Zenon
<1>2. CASE RebuildIndex \/ Rebind
  <2>1. /\ index' = Rebuilt(Files) /\ cache' = Checkpoint(Rebuilt(Files), sealed, active)
        /\ UNCHANGED <<sealed, pending, active, jobs>>
    BY <1>2, Zenon DEF RebuildIndex, Rebind
  <2> QED BY <2>1, RebuiltStep
<1>3. CASE Register
  <2>1. /\ cache' = Checkpoint(index, sealed, active) /\ pc' # "reclaimed"
        /\ UNCHANGED <<sealed, pending, active, jobs, index>>
    BY <1>3, Zenon DEF Register
  <2>2. cache'.index = index /\ "index" \in DOMAIN cache'
    BY <2>1, CheckpointIndex
  <2>3. PointsInto(index, Reach) /\ DOMAIN index = Key
    BY DEF PointInv, Reach
  <2>4. Reach' = Reach
    BY <2>1 DEF Reach, Files
  <2> QED BY <2>1, <2>2, <2>3, <2>4, PointStep, Zenon
<1> QED BY <1>1, <1>2, <1>3, Zenon

(* Steps that leave index, checkpoint and job records alone. *)
LEMMA FilePoints ==
    ASSUME PcInv, PointInv,
           \/ Rotate \/ BeginClose \/ Return \/ ExtendLease \/ NewActive \/ Compact
           \/ Fail \/ Reconstruct \/ Opened \/ LoseSeqFile
           \/ \E s \in pending : Publish(s)
    PROVE  PointInv'
<1>1. UNCHANGED <<index, cache, jobs>> /\ (pc' = "reclaimed" => pc = "reclaimed")
  BY Zenon DEF Rotate, BeginClose, Return, ExtendLease, NewActive, After, Compact, Fail,
     Reconstruct, Opened, LoseSeqFile, Publish, disk, memory
<1>2. Files \subseteq Files'
  <2>1. pc \in Between => active = 0
    BY DEF PcInv
  <2>2. CASE Rotate \/ BeginClose \/ Compact
    BY <2>2, Zenon DEF Rotate, BeginClose, Compact, Detach, SealActive, Files
  <2>3. CASE NewActive
    BY <2>1, <2>3, Zenon DEF NewActive, Between, Files
  <2>4. CASE Return \/ ExtendLease \/ Fail \/ Reconstruct \/ Opened \/ LoseSeqFile
    BY <2>4, Zenon DEF Return, ExtendLease, Fail, Reconstruct, Opened, LoseSeqFile, disk, Files
  <2>5. ASSUME NEW s \in pending, Publish(s) PROVE Files \subseteq Files'
    BY <2>5, Zenon DEF Publish, Files
  <2> QED BY <2>2, <2>3, <2>4, <2>5
<1>3. Reach \subseteq Reach'
  BY <1>1, <1>2 DEF Reach
<1> QED BY <1>1, <1>2, <1>3, SamePoints

(* Steps of a job. *)
LEMMA JobPoints ==
    ASSUME IdInv, PcInv, PointInv,
           \/ \E loss, reclaim \in BOOLEAN : Plan(loss, reclaim)
           \/ Create \/ RecordCreated \/ RecordVerified \/ Activate \/ Hold
           \/ EndReclaim
    PROVE  PointInv'
<1>1. CASE \E loss, reclaim \in BOOLEAN : Plan(loss, reclaim)
  <2>1. PICK new : jobs' = Append(jobs, new)
    BY <1>1, Zenon DEF Plan
  <2>2. jobs \in Seq(JobRecord)
    BY DEF IdInv, IdTypes
  <2>3. \A i \in DOMAIN jobs : i \in DOMAIN jobs' /\ jobs'[i] = jobs[i]
    BY <2>1, <2>2
  <2>4. Excused(jobs) \subseteq Excused(jobs')
    BY <2>3, Zenon DEF Excused, InPhase
  <2>5. UNCHANGED <<sealed, pending, active, index, cache>> /\ pc' = "create"
    BY <1>1, Zenon DEF Plan
  <2>6. Reach \subseteq Reach'
    BY <2>4, <2>5 DEF Reach, Files
  <2> QED BY <2>5, <2>6, SamePoints
<1>2. CASE Create
  <2>1. UNCHANGED <<pending, active, index, cache>>
    BY <1>2, Zenon DEF Create
  <2>2. CASE UNCHANGED jobs /\ sealed' = sealed \cup {Now.out} /\ pc' = "created"
    <3>1. Reach \subseteq Reach'
      BY <2>1, <2>2 DEF Reach, Files
    <3> QED BY <2>1, <2>2, <3>1, SamePoints
  <2>3. CASE jobs' = Recorded(jobs, job, "failed") /\ UNCHANGED sealed /\ pc' = "idle"
    <3>1. job \in DOMAIN jobs /\ jobs[job].phase = "planned"
      BY <1>2, Zenon DEF Create, PcInv, Holding
    <3>2. Files \subseteq Files'
      BY <2>1, <2>3 DEF Files
    <3> QED BY <2>1, <2>3, <3>1, <3>2, PhasePoints, Zenon
  <2> QED BY <1>2, <2>2, <2>3, Zenon DEF Create, Goes, Recorded
<1>3. CASE RecordCreated \/ RecordVerified \/ Activate \/ Hold
  <2>1. job \in DOMAIN jobs /\ jobs[job].phase \in {"planned", "created", "verified", "activated"}
    BY <1>3, Zenon DEF RecordCreated, RecordVerified, Activate, Hold, PcInv, Holding
  <2>2. UNCHANGED <<sealed, pending, active, index, cache>> /\ pc' # "reclaimed"
    BY <1>3, Zenon DEF RecordCreated, RecordVerified, Activate, Hold
  <2>3. \E phase : jobs' = Recorded(jobs, job, phase)
    BY <1>3, Zenon DEF RecordCreated, RecordVerified, Activate, Hold, Goes, Recorded
  <2>4. Files \subseteq Files'
    BY <2>2 DEF Files
  <2> QED BY <2>1, <2>2, <2>3, <2>4, PhasePoints, Zenon
<1>4. CASE EndReclaim
  <2>1. /\ pc = "reclaimed" /\ pc' = "idle"
        /\ UNCHANGED <<sealed, pending, active, index, cache>>
    BY <1>4, Zenon DEF EndReclaim
  <2>2. Files' = Files
    BY <2>1 DEF Files
  <2>3. /\ PointsInto(index, Files) /\ PointsInto(cache.index, Files)
        /\ DOMAIN index = Key /\ "index" \in DOMAIN cache
    BY <2>1, Zenon DEF PointInv
  <2>4. /\ PointsInto(index, Files \cup Excused(jobs'))
        /\ PointsInto(cache.index, Files \cup Excused(jobs'))
    BY <2>3, Zenon DEF PointsInto
  <2> QED BY <2>1, <2>2, <2>3, <2>4, Zenon DEF PointInv
<1> QED BY <1>1, <1>2, <1>3, <1>4, Zenon

(* Steps of the operator and of recovery on a job record. *)
LEMMA RecordPoints ==
    ASSUME IdInv, PointInv, NEW j \in DOMAIN jobs,
           Reclaim(j) \/ Cancel(j) \/ Recover(j)
    PROVE  PointInv'
<1>1. CASE Reclaim(j)
  <2>1. /\ jobs' = Recorded(jobs, j, "hold") /\ jobs[j].phase \in {"activated", "hold"}
        /\ UNCHANGED <<sealed, pending, active, index, cache>> /\ pc' = "reclaim"
    BY <1>1 DEF Reclaim, Recorded
  <2>2. Files \subseteq Files'
    BY <2>1, Zenon DEF Files
  <2> QED BY <2>1, <2>2, PhasePoints, Zenon
<1>2. CASE /\ jobs' = Recorded(jobs, j, "cancelled") /\ Unsettled(j) /\ pc' \in {"idle", "recover"}
           /\ sealed' = sealed \ {jobs[j].out} /\ UNCHANGED <<pending, active, index, cache>>
  BY <1>2, CancelPoints, Zenon DEF Unsettled
<1>3. CASE /\ UNCHANGED <<sealed, pending, active, index, cache, jobs>>
           /\ pc' \in {"reverify", "reactivate"}
  BY <1>3, SamePoints, Zenon DEF Reach, Files
<1>4. Cancel(j) => /\ jobs' = Recorded(jobs, j, "cancelled") /\ Unsettled(j) /\ pc' = "idle"
                   /\ sealed' = sealed \ {jobs[j].out}
                   /\ UNCHANGED <<pending, active, index, cache>>
  BY DEF Cancel, Recorded, memory
<1> QED BY <1>1, <1>2, <1>3, <1>4 DEF Recover, Recorded

LEMMA NextPoints ==
    ASSUME IdInv, FileInv, PcInv, PointInv, [Next]_vars PROVE PointInv'
<1>1. CASE UNCHANGED vars
  BY <1>1, SamePoints, Zenon DEF vars, disk, memory, Reach, Files
<1>2. CASE Next
  BY <1>2, FilePoints, IndexPoints, JobPoints, RecordPoints, StopPoints,
     DeletePoints, LoadPoints, Zenon DEF Next
<1> QED BY <1>1, <1>2

(* A live entry of the index of an idle store points to a segment that is    *)
(* there, so that resolve_live_value_body can read it, however the index was *)
(* loaded, replayed or rebuilt and whatever was compacted, reclaimed,        *)
(* cancelled or interrupted in between; excepted are the outputs of          *)
(* cancelled jobs and the sources of reclaims that stopped half-way.         *)
THEOREM EntriesAlwaysResolve == Spec => []EntriesResolve
<1> DEFINE Inv == IdInv /\ FileInv /\ PcInv /\ PointInv
<1>1. Init => Inv
  <2> SUFFICES ASSUME Init PROVE Inv
    OBVIOUS
  <2>1. FileInv
    BY DEF Init, FileInv, Files
  <2>2. PcInv
    BY DEF Init, PcInv, Between, Opening
  <2>3. index = Nothing /\ cache.index = Nothing /\ "index" \in DOMAIN cache /\ pc = "idle"
    BY Zenon DEF Init
  <2>4. PointInv
    BY <2>3, NothingPoints DEF PointInv
  <2> QED BY <2>1, <2>2, <2>4, InitIds
<1>2. Inv /\ [Next]_vars => Inv'
  BY NextIds, NextFiles, NextPc, NextPoints, Zenon
<1>3. Inv => EntriesResolve
  <2> SUFFICES ASSUME PointInv, NEW k \in Key, ~Resolves(k)
               PROVE  \E j \in DOMAIN jobs :
                         \/ jobs[j].phase = "cancelled" /\ index[k].at = jobs[j].out
                         \/ jobs[j].phase = "hold" /\ index[k].at \in jobs[j].sources
    BY Zenon DEF EntriesResolve
  <2>1. index[k].at \in Excused(jobs)
    BY Zenon DEF PointInv, PointsInto, Resolves
  <2> QED BY <2>1, Zenon DEF Excused, InPhase
<1> QED BY <1>1, <1>2, <1>3, PTL DEF Spec

=============================================================================
