----------------------- MODULE ClusterPartitionProofs -----------------------
(***************************************************************************)
(* What a restart of the cluster restores, for any number of nodes, any    *)
(* placement and any history of outages, writes, repairs and rebalances.   *)
(*                                                                         *)
(* The voters in memory are always the ones the two control files stand    *)
(* for.  To be preserved by BeginRebalance, which plans from the directory *)
(* in memory, this needs that the directory and placement.json name the    *)
(* same replicas, although their leaders differ; to be preserved by the    *)
(* last phase, which drops the job, that a finished job leaves its new     *)
(* replicas in placement.json.                                             *)
(***************************************************************************)
EXTENDS ClusterPartition, TLAPS

Jobs ==
    [phase : {"none", "planned", "learners", "copied", "caught up", "joint",
              "activated", "window"},
     old : SUBSET Node, new : SUBSET Node]

Assignment(a) == a = [replicas |-> a.replicas, leader |-> a.leader]

(* The voters are the ones that cluster.rs would restore from              *)
(* rebalance_jobs.json and placement.json.                                 *)
VotersRecorded ==
    /\ job \in Jobs
    /\ Assignment(directory)
    /\ Assignment(placement)
    /\ directory.replicas = placement.replicas
    /\ placement.replicas \subseteq Node
    /\ voters = Recorded(job, placement)
    /\ job.phase = "none" => job = NoJob
    /\ job.phase \in {"planned", "learners", "copied", "caught up"} =>
          job.old = placement.replicas
    /\ job.phase \in {"activated", "window"} => job.new = placement.replicas

LEMMA RecordedOfPhase ==
    ASSUME NEW j, NEW a
    PROVE  /\ j = NoJob => Recorded(j, a) = a.replicas
           /\ j.phase = "joint" => Recorded(j, a) = j.old \cup j.new
           /\ j.phase \in {"activated", "window"} => Recorded(j, a) = j.new
           /\ j.phase \in {"planned", "learners", "copied", "caught up"} =>
                 Recorded(j, a) = j.old
<1>1. j = NoJob => j.phase = "none"
  BY DEF NoJob
<1> HIDE DEF NoJob
<1> QED BY <1>1 DEF Recorded

(* set_leader changes the leader of an assignment, not its replicas.       *)
LEMMA DirectedKeepsReplicas ==
    ASSUME NEW d, NEW leader, Assignment(d)
    PROVE  LET e == Directed(d, leader)
           IN e.replicas = d.replicas /\ Assignment(e)
  BY DEF Directed, Assignment

(* Activation writes an assignment to the new replicas.                    *)
LEMMA ActivatedAssignment ==
    /\ Activated.directory.replicas = job.new
    /\ Assignment(Activated.directory)
<1> DEFINE d == [replicas |-> job.new,
                 leader |-> IF directory.leader \in job.new THEN directory.leader
                            ELSE Min(job.new)]
           s == EnsureLeader(Reduced(peer, job.new), job.new, d.leader)
<1>1. Activated.directory = Directed(d, s.leader)
  BY DEF Activated
<1>2. d.replicas = job.new /\ Assignment(d)
  BY DEF Assignment
<1> HIDE DEF d, s
<1> QED BY <1>1, <1>2, DirectedKeepsReplicas

(* A step that leaves the job, the voters and the replicas alone.          *)
LEMMA QuietStep ==
    ASSUME VotersRecorded, UNCHANGED <<voters, placement, job>>,
           Assignment(directory'),
           directory'.replicas = directory.replicas
    PROVE  VotersRecorded'
  BY DEF VotersRecorded, Recorded

(* A phase that only moves the job on.                                     *)
LEMMA AdvanceMovesJob ==
    ASSUME job \in Jobs, NEW from,
           NEW to \in {"learners", "copied", "caught up", "joint", "activated", "window"},
           Advance(from, to)
    PROVE  /\ job.phase = from /\ job'.phase = to
           /\ job'.old = job.old /\ job'.new = job.new
           /\ job' \in Jobs
  BY DEF Jobs, Advance

LEMMA WritesQuiet ==
    ASSUME VotersRecorded,
           \/ \E c \in Value : BeginWrite(c)
           \/ Replicate \/ AdvanceCommit \/ BeginApply \/ TakeApplyBatch \/ ApplyEntry
           \/ Acknowledge \/ Get
    PROVE  VotersRecorded'
<1>1. CASE (\E c \in Value : BeginWrite(c)) \/ Get
  <2>1. PICK s : directory' = Directed(directory, s.leader)
    BY <1>1, Zenon DEF BeginWrite, Get
  <2>2. UNCHANGED <<voters, placement, job>>
    BY <1>1, Zenon DEF BeginWrite, Get
  <2>3. Assignment(directory)
    BY DEF VotersRecorded
  <2> QED BY <2>1, <2>2, <2>3, DirectedKeepsReplicas, QuietStep, Zenon
<1>2. CASE Replicate \/ AdvanceCommit \/ BeginApply \/ TakeApplyBatch \/ ApplyEntry
              \/ Acknowledge
  <2>1. UNCHANGED <<voters, directory, placement, job>>
    BY <1>2, Zenon DEF Replicate, AdvanceCommit, BeginApply, TakeApplyBatch, ApplyEntry,
                       Acknowledge, raft, control
  <2> QED BY <2>1, QuietStep DEF VotersRecorded
<1> QED BY <1>1, <1>2, Zenon

LEMMA OutagesQuiet ==
    ASSUME VotersRecorded,
           (\E n \in Node : MarkOffline(n) \/ MarkOnline(n)) \/ Repair
    PROVE  VotersRecorded'
<1>1. UNCHANGED <<voters, directory, placement, job>>
  BY Zenon DEF MarkOffline, MarkOnline, Repair, raft, control
<1> QED BY <1>1, QuietStep DEF VotersRecorded

(* The phases before the joint one leave the old replicas in charge.       *)
LEMMA EarlyPhases ==
    ASSUME VotersRecorded, AddLearners \/ CopySegments \/ CatchUp
    PROVE  VotersRecorded'
<1>1. PICK from, to : /\ Advance(from, to)
                      /\ from \in {"planned", "learners", "copied"}
                      /\ to \in {"learners", "copied", "caught up"}
  BY Zenon DEF AddLearners, CopySegments, CatchUp
<1>2. UNCHANGED <<voters, directory, placement>>
  BY Zenon DEF AddLearners, CopySegments, CatchUp, raft
<1>3. /\ job.phase = from /\ job'.phase = to /\ job'.old = job.old
      /\ job' \in Jobs
  BY <1>1, AdvanceMovesJob DEF VotersRecorded
<1>4. job.old = placement.replicas /\ voters = job.old
  BY <1>1, <1>3, RecordedOfPhase DEF VotersRecorded
<1>5. voters' = Recorded(job', placement')
  BY <1>1, <1>2, <1>3, <1>4, RecordedOfPhase
<1> HIDE DEF Recorded
<1> QED BY <1>1, <1>2, <1>3, <1>4, <1>5 DEF VotersRecorded

LEMMA LatePhases ==
    ASSUME VotersRecorded, EnterJoint \/ ActivateEpoch \/ SafetyWindow \/ Reclaimed
    PROVE  VotersRecorded'
<1>1. CASE EnterJoint
  <2>1. /\ job.phase = "caught up" /\ job'.phase = "joint"
        /\ job'.old = job.old /\ job'.new = job.new
        /\ job' \in Jobs
    <3>1. Advance("caught up", "joint")
      BY <1>1 DEF EnterJoint
    <3> QED BY <3>1, AdvanceMovesJob DEF VotersRecorded
  <2>2. voters' = job.old \cup job.new /\ UNCHANGED <<directory, placement>>
    BY <1>1 DEF EnterJoint
  <2> QED BY <2>1, <2>2, RecordedOfPhase DEF VotersRecorded
<1>2. CASE ActivateEpoch
  <2>1. /\ job.phase = "joint" /\ job'.phase = "activated"
        /\ job'.old = job.old /\ job'.new = job.new
        /\ job' \in Jobs
    <3>1. Advance("joint", "activated")
      BY <1>2 DEF ActivateEpoch
    <3> QED BY <3>1, AdvanceMovesJob DEF VotersRecorded
  <2>2. directory' = Activated.directory /\ placement' = Activated.directory
    BY <1>2, Zenon DEF ActivateEpoch
  <2>3. voters' = job.new
    BY <1>2 DEF ActivateEpoch
  <2>4. Activated.directory.replicas = job.new /\ Assignment(Activated.directory)
    BY ActivatedAssignment
  <2> HIDE DEF Activated
  <2>5. job.new \subseteq Node
    BY DEF VotersRecorded, Jobs
  <2> QED BY <2>1, <2>2, <2>3, <2>4, <2>5, RecordedOfPhase DEF VotersRecorded
<1>3. CASE SafetyWindow
  <2>1. /\ job.phase = "activated" /\ job'.phase = "window" /\ job'.new = job.new
        /\ job' \in Jobs
    <3>1. Advance("activated", "window")
      BY <1>3 DEF SafetyWindow
    <3> QED BY <3>1, AdvanceMovesJob DEF VotersRecorded
  <2>2. UNCHANGED <<voters, directory, placement>>
    BY <1>3 DEF SafetyWindow, raft
  <2>3. voters = job.new /\ job.new = placement.replicas
    BY <2>1, RecordedOfPhase DEF VotersRecorded
  <2>4. voters' = Recorded(job', placement')
    BY <2>1, <2>2, <2>3, RecordedOfPhase
  <2> HIDE DEF Recorded
  <2> QED BY <2>1, <2>2, <2>3, <2>4 DEF VotersRecorded
<1>4. CASE Reclaimed
  <2>1. job.phase = "window" /\ job' = NoJob /\ UNCHANGED <<voters, directory, placement>>
    BY <1>4 DEF Reclaimed, raft
  <2>2. voters' = placement'.replicas
    BY <2>1, RecordedOfPhase DEF VotersRecorded
  <2>3. NoJob \in Jobs /\ NoJob.phase = "none"
    BY DEF NoJob, Jobs
  <2> QED BY <2>1, <2>2, <2>3, RecordedOfPhase DEF VotersRecorded
<1> QED BY <1>1, <1>2, <1>3, <1>4

LEMMA PlansFromPlacement ==
    ASSUME VotersRecorded, NEW new \in Targets[directory.replicas], BeginRebalance(new)
    PROVE  VotersRecorded'
<1>1. /\ job = NoJob /\ job' = [phase |-> "planned", old |-> directory.replicas, new |-> new]
      /\ UNCHANGED <<voters, directory, placement>>
  BY DEF BeginRebalance, raft
<1>2. job' \in Jobs /\ job'.phase = "planned" /\ job'.old = placement.replicas
  <2>1. directory.replicas = placement.replicas /\ placement.replicas \in SUBSET Node
    BY Zenon DEF VotersRecorded
  <2>2. new \in SUBSET Node
    BY <2>1, TargetAssumption
  <2> QED BY <1>1, <2>1, <2>2 DEF Jobs
<1>3. voters' = Recorded(job', placement')
  BY <1>1, <1>2, RecordedOfPhase DEF VotersRecorded
<1> HIDE DEF Recorded
<1> QED BY <1>1, <1>2, <1>3 DEF VotersRecorded

(* Whatever the files hold, a cluster that is opened again has the voters  *)
(* it had: of an activation it keeps the joint ones until the job is saved. *)
LEMMA StopRestores ==
    ASSUME VotersRecorded, Reopen \/ StopInActivation
    PROVE  VotersRecorded' /\ voters' = voters
<1>1. PICK a, files : /\ Open(a, files)
                      /\ \/ a = placement
                         \/ job.phase = "joint" /\ a = Activated.directory
  BY Zenon DEF Reopen, StopInActivation
<1>2. /\ placement' = a /\ directory' = a /\ job' = job
      /\ voters' = Recorded(job, a)
  BY <1>1 DEF Open
<1> HIDE DEF Activated
<1>3. Assignment(a) /\ a.replicas \subseteq Node
  BY <1>1, ActivatedAssignment DEF VotersRecorded, Jobs
<1>4. CASE a = placement
  BY <1>2, <1>3, <1>4 DEF VotersRecorded
<1>5. CASE job.phase = "joint"
  <2>1. Recorded(job, a) = job.old \cup job.new /\ voters = job.old \cup job.new
    BY <1>5, RecordedOfPhase DEF VotersRecorded
  <2> HIDE DEF Recorded
  <2> QED BY <1>2, <1>3, <1>5, <2>1 DEF VotersRecorded
<1> QED BY <1>1, <1>4, <1>5

LEMMA InitRecorded == Init => VotersRecorded
<1> SUFFICES ASSUME Init PROVE VotersRecorded
  OBVIOUS
<1>1. /\ directory = [replicas |-> Node, leader |-> Partition % Cardinality(Node)]
      /\ placement = directory /\ job = NoJob /\ voters = Node
  BY DEF Init
<1>2. NoJob \in Jobs
  BY DEF NoJob, Jobs
<1>3. voters = Recorded(job, placement)
  <2>1. Recorded(NoJob, placement) = placement.replicas
    BY RecordedOfPhase, Zenon
  <2>2. placement.replicas = Node
    BY <1>1
  <2> QED BY <1>1, <2>1, <2>2, Zenon
<1>4. job.phase = "none"
  BY <1>1 DEF NoJob
<1> QED BY <1>1, <1>2, <1>3, <1>4 DEF VotersRecorded, Assignment

LEMMA NextRecorded ==
    ASSUME VotersRecorded, [Next]_vars
    PROVE  VotersRecorded'
<1>1. CASE UNCHANGED vars
  <2>1. UNCHANGED <<voters, directory, placement, job>>
    BY <1>1 DEF vars, raft, control
  <2> QED BY <2>1, QuietStep DEF VotersRecorded
<1>2. CASE Next
  BY <1>2, WritesQuiet, OutagesQuiet, PlansFromPlacement, EarlyPhases, LatePhases,
     StopRestores, Zenon DEF Next
<1> QED BY <1>1, <1>2

(* For any number of nodes, placements and jobs: when the process ends,    *)
(* anywhere in a write, between calls or inside the activation of a        *)
(* placement, the cluster is opened again with the voters it had           *)
(* (restore_rebalance_raft_state in cluster.rs).                           *)
THEOREM StopsKeepVoters == Spec => StopKeepsVoters
<1>1. Spec => []VotersRecorded
  BY InitRecorded, NextRecorded, PTL DEF Spec
<1>2. VotersRecorded /\ [Next]_vars => [Reopen \/ StopInActivation => voters' = voters]_vars
  BY StopRestores, Zenon
<1> QED BY <1>1, <1>2, PTL DEF Spec, StopKeepsVoters

=============================================================================
