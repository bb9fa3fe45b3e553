-------------------------- MODULE ClusterPartition --------------------------
(***************************************************************************)
(* One partition of the in-process Cluster in its linearizable mode        *)
(* (residiuum-cluster/src/cluster.rs, rebalance.rs, repair.rs) over the    *)
(* PartitionRaft that orders its writes (raft.rs).                         *)
(*                                                                         *)
(* The cluster is one object that serves one call at a time; what can go   *)
(* wrong comes from outages of nodes between the calls, and from the end   *)
(* of the process anywhere in a write or in the activation of a placement. *)
(* A write is therefore several steps (the election it may need, then one  *)
(* per peer or store it changes); the other calls are one step each.       *)
(* There is one subject: the writes of a partition go through one log, and *)
(* everything else visits subject by subject.                              *)
(* A command c > 0 puts the body c, a command c < 0 is a delete; every     *)
(* write has its own.  Voters and replicas are called in the order of      *)
(* their indexes.  Files are written without errors (RaftNode has those).  *)
(***************************************************************************)
EXTENDS ConsensusPeer

CONSTANTS
    Partition,      \* its number, which decides its first leader
    Targets,        \* the replica sets an operator may ask for, by the present ones
    MaxTerm,        \* bound: no election beyond this term
    MaxWrite,       \* bound: puts and deletes
    MaxFault,       \* bound: nodes marked offline and ends of the process
    MaxAdmin        \* bound: rebalance jobs and anti-entropy passes

ASSUME TargetAssumption ==
    /\ Partition \in Nat
    /\ Node = 0 .. Cardinality(Node) - 1
    /\ Targets \in [SUBSET Node -> SUBSET ((SUBSET Node) \ {{}})]

VARIABLES
    online,         \* Cluster.nodes: the nodes with an open store
    store,          \* the body each node's store holds for the subject, or None
    peer,           \* PartitionRaft.peers, in memory
    disk,           \* the hard state and log of each peer, on disk
    members,        \* the nodes that have a peer in the group
    voters,         \* PartitionRaft.voters
    directory,      \* the assignment in memory: replicas and leader
    placement,      \* the assignment in placement.json
    job,            \* the rebalance job, in memory and in rebalance_jobs.json
    call,           \* the write in progress
    used,           \* the calls made so far, against their bounds
    acked,          \* history: the last acknowledged entry and its index
    possible,       \* history: the bodies a reader may be given
    elected,        \* history: the <<term, node>> that won an election
    outside,        \* history: nodes whose store holds what no log entry put there
    exposed         \* history: voters were replaced in a way consensus does not cover

raft == <<peer, disk, members, voters>>
control == <<directory, placement, job>>
history == <<acked, possible, elected, outside, exposed>>
vars == <<online, store, raft, control, call, used, history>>

NoJob == [phase |-> "none", old |-> {}, new |-> {}]

NoCall == [step |-> "none", leader |-> None, index |-> 0, todo |-> {}, batch |-> <<>>]

Idle == call.step = "none"

(* Takes one of the calls that are left.                                   *)
Use(kind, max) == used[kind] < max /\ used' = [used EXCEPT ![kind] = @ + 1]

Effect(command) == IF command > 0 THEN command ELSE None

(* Fault: half of the voters are enough.                                   *)
HalfQuorum(V) == (Cardinality(V) + 1) \div 2

Quorum(V) == Cardinality(V) \div 2 + 1

-----------------------------------------------------------------------------
(* Elections.  s holds the peers, their files and the candidates that are  *)
(* left while a leader is looked for.                                      *)

(* The winner steps every other voter down that is not ahead of its term.  *)
Deposed(peers, c, V, term) ==
    [v \in Node |-> IF /\ v \in V \ {c}
                       /\ peers[v].role \in {Leader, Candidate}
                       /\ peers[v].current_term <= term
                    THEN [peers[v] EXCEPT !.role = Follower] ELSE peers[v]]

(* RequestVote to the other voters that are online, up to the first that   *)
(* is ahead of the candidate's term.                                       *)
Elect(s, c, V) ==
    LET p == [s.peer[c] EXCEPT !.current_term = @ + 1, !.role = Candidate,
                               !.voted_for = c]
        request == [from |-> c, term |-> p.current_term,
                    last_log_index |-> LastLogIndex(p.log),
                    last_log_term |-> LastLogTerm(p.log)]
        others == (V \cap online) \ {c}
        ahead == {v \in others : s.peer[v].current_term > p.current_term}
        asked == {v \in others : \A a \in ahead : v <= a}
        answer == [v \in asked |-> HandleRequestVote(s.peer[v], s.disk[v], request, "ok")]
        granted == {v \in asked : answer[v].granted}
        peers == [n \in Node |-> IF n \in asked THEN answer[n].peer ELSE s.peer[n]]
        files == [n \in Node |-> IF n \in asked THEN answer[n].disk
                                 ELSE IF n = c THEN Saved(p) ELSE s.disk[n]]
        left == s.left \ {c}
    IN IF ahead # {}
       THEN [peer |-> [peers EXCEPT ![c] = BecomeFollower(p, peers[Min(ahead)].current_term)],
             disk |-> files, leader |-> None, left |-> left]
       ELSE IF 1 + Cardinality(granted) >= Quorum(V)
       THEN [peer |-> [Deposed(peers, c, V, p.current_term) EXCEPT ![c] = BecomeLeader(p, c)],
             disk |-> files, leader |-> c, left |-> left]
       ELSE [peer |-> [peers EXCEPT ![c] = [p EXCEPT !.role = Follower]],
             disk |-> files, leader |-> None, left |-> left]

(* The voter that leads in the highest term.                               *)
CurrentLeader(peers, V) ==
    LET leaders == {v \in V : peers[v].role = Leader}
    IN IF leaders = {} THEN None
       ELSE CHOOSE v \in leaders : \A w \in leaders :
                \/ peers[v].current_term > peers[w].current_term
                \/ peers[v].current_term = peers[w].current_term /\ v <= w

(* Candidates by their logs, then the preferred node, then by index.       *)
Before(peers, preferred, a, b) ==
    LET x == peers[a].log
        y == peers[b].log
    IN IF LastLogTerm(x) # LastLogTerm(y) THEN LastLogTerm(x) > LastLogTerm(y)
       ELSE IF LastLogIndex(x) # LastLogIndex(y) THEN LastLogIndex(x) > LastLogIndex(y)
       ELSE a = preferred \/ (b # preferred /\ a < b)

(* The next candidate is tried, unless there is a leader.                  *)
Try(s, peers, V, preferred) ==
    LET first == CHOOSE a \in s.left : \A b \in s.left \ {a} : Before(peers, preferred, a, b)
    IN IF s.leader # None \/ s.left = {} THEN s ELSE Elect(s, first, V)

Tries(start, peers, V, preferred) ==
    LET s[k \in 0 .. Cardinality(Node)] ==
            IF k = 0 THEN start ELSE Try(s[k - 1], peers, V, preferred)
    IN s[Cardinality(Node)]

(* The leader, after the elections that were needed to get one; None if no *)
(* candidate could be elected.                                             *)
EnsureLeader(peers, V, preferred) ==
    LET leader == CurrentLeader(peers, V)
        stepped == IF leader = None THEN peers
                   ELSE [peers EXCEPT ![leader].role = Follower]
    IN IF leader \in online
       THEN [peer |-> peers, disk |-> disk, leader |-> leader, left |-> {}]
       ELSE Tries([peer |-> stepped, disk |-> disk, leader |-> None, left |-> V \cap online],
                  peers, V, preferred)

(* The terms of a leader and of its rivals stay within their bound; the    *)
(* elections that were won are recorded.                                   *)
Elected(s) ==
    /\ \A n \in Node : s.peer[n].current_term <= MaxTerm
    /\ elected' = elected \cup
           {<<s.peer[n].current_term, n>> : n \in {m \in Node : s.peer[m].role = Leader}}

(* ensure_partition_leader also writes the leader into the directory.      *)
Directed(d, leader) == IF leader = None THEN d ELSE [d EXCEPT !.leader = leader]

-----------------------------------------------------------------------------
(* put and delete                                                          *)

(* propose: the leader's own append.                                       *)
Appended(p, leader, command) ==
    LET last == LastLogIndex(p.log) + 1
    IN [p EXCEPT !.log = Append(@, [term |-> p.current_term, command |-> command]),
                 !.match_index[leader] = last, !.next_index[leader] = last + 1]

(* ensure_partition_leader, and propose up to the leader's flush.          *)
BeginWrite(command) ==
    /\ Idle
    /\ Use("write", MaxWrite)
    /\ command \in {used'["write"], -used'["write"]}
    /\ \E s \in {EnsureLeader(peer, voters, directory.leader)} :
        LET p == Appended(s.peer[s.leader], s.leader, command)
        IN /\ Elected(s)
           /\ directory' = Directed(directory, s.leader)
           /\ \/ /\ s.leader = None
                 /\ peer' = s.peer /\ disk' = s.disk
                 /\ UNCHANGED <<call, possible>>
              \/ /\ s.leader # None
                 /\ peer' = [s.peer EXCEPT ![s.leader] = p]
                 /\ disk' = [s.disk EXCEPT ![s.leader] = Saved(p)]
                 /\ call' = [NoCall EXCEPT !.step = "replicate", !.leader = s.leader,
                                 !.index = LastLogIndex(p.log),
                                 !.todo = (voters \cap online) \ {s.leader}]
                 /\ possible' = possible \cup {Effect(command)}
    /\ UNCHANGED <<online, store, members, voters, placement, job, acked, outside, exposed>>

(* replicate_to.  Its walk back to the point where the logs agree ends in  *)
(* a merge that skips what agrees, so it is the merge of the whole log.    *)
(* Only the first round can be refused: in the push after the commit every *)
(* follower has the leader's term already.                                 *)
Replicate ==
    /\ call.step \in {"replicate", "push"}
    /\ call.todo # {}
    /\ LET l == call.leader
           f == Min(call.todo)
           p == peer[l]
           last == LastLogIndex(p.log)
           request == [from |-> l, term |-> p.current_term, prev_log_index |-> 0,
                       prev_log_term |-> 0, entries |-> p.log,
                       leader_commit |-> p.commit_index]
       IN \E res \in {HandleAppendEntries(peer[f], disk[f], request, "ok")} :
          /\ disk' = [disk EXCEPT ![f] = res.disk]
          /\ \/ /\ ~res.success
                /\ peer' = [peer EXCEPT ![l] = BecomeFollower(p, res.peer.current_term)]
                /\ call' = NoCall
             \/ /\ res.success
                /\ peer' = [peer EXCEPT ![f] = res.peer, ![l].match_index[f] = last,
                                        ![l].next_index[f] = last + 1]
                /\ call' = [call EXCEPT !.todo = @ \ {f}]
    /\ UNCHANGED <<online, store, members, voters, control, used, history>>

(* Fault: one replica less than a quorum is enough.                        *)
CommittableByLess(p, V) ==
    {i \in p.commit_index + 1 .. LastLogIndex(p.log) :
        /\ TermAt(p.log, i) = p.current_term
        /\ Cardinality({v \in V : p.match_index[v] >= i}) >= Quorum(V) - 1}

(* The current-term entries that a quorum of the voters has.               *)
Committable(p, V) ==
    {i \in p.commit_index + 1 .. LastLogIndex(p.log) :
        /\ TermAt(p.log, i) = p.current_term
        /\ Cardinality({v \in V : p.match_index[v] >= i}) >= Quorum(V)}

(* advance_commit.  Without a quorum the write is refused, and stays in    *)
(* the logs that have it; otherwise the followers are told.                *)
AdvanceCommit ==
    /\ call.step = "replicate"
    /\ call.todo = {}
    /\ LET l == call.leader
           commit == Max(Committable(peer[l], voters) \cup {peer[l].commit_index})
           p == [peer[l] EXCEPT !.commit_index = commit]
       IN /\ peer' = [peer EXCEPT ![l] = p]
          /\ disk' = IF commit > peer[l].commit_index
                     THEN [disk EXCEPT ![l] = Saved(p)] ELSE disk
          /\ call' = IF commit >= call.index
                     THEN [call EXCEPT !.step = "push", !.todo = (voters \cap online) \ {l}]
                     ELSE NoCall
    /\ UNCHANGED <<online, store, members, voters, control, used, history>>

BeginApply ==
    /\ call.step = "push"
    /\ call.todo = {}
    /\ call' = [call EXCEPT !.step = "apply", !.todo = online]
    /\ UNCHANGED <<online, store, raft, control, used, history>>

(* Fault: the commit index of the leader, whatever the follower has.       *)
SyncPastLog(p, leader_commit) ==
    [p EXCEPT !.commit_index = Max({@, leader_commit})]

SyncFollowerCommit(p, leader_commit) ==
    [p EXCEPT !.commit_index = Max({@, Min({leader_commit, LastLogIndex(p.log)})})]

(* Fault: the last committed entry is left out.                            *)
ApplyBatchShort(p) ==
    SubSeq(p.log, p.last_applied + 1, Min({p.commit_index, LastLogIndex(p.log)}) - 1)

(* The committed entries the node has not applied.                         *)
ApplyBatch(p) ==
    SubSeq(p.log, p.last_applied + 1, Min({p.commit_index, LastLogIndex(p.log)}))

(* The commit index of the peer covers entries its leader does not have.   *)
Strays(p) ==
    LET log == peer[call.leader].log
    IN \E i \in DOMAIN p.log : i <= p.commit_index /\ (i > Len(log) \/ p.log[i] # log[i])

(* sync_follower_commit, then take_apply_batch.                            *)
Synced(p, leader_commit) ==
    LET q == SyncFollowerCommit(p, leader_commit)
    IN [peer |-> [q EXCEPT !.last_applied =
                     Max({@, Min({q.commit_index, LastLogIndex(q.log)})})],
        batch |-> ApplyBatch(q)]

(* The next online node takes what it has to apply: its applied index is   *)
(* on disk before its store has the entries.                               *)
TakeApplyBatch ==
    /\ call.step = "apply"
    /\ call.todo # {}
    /\ call.batch = <<>>
    /\ LET n == Min(call.todo)
       IN \/ /\ n \in members
             /\ \E s \in {Synced(peer[n], peer[call.leader].commit_index)} :
                  /\ peer' = [peer EXCEPT ![n] = s.peer]
                  /\ disk' = [disk EXCEPT ![n] = Saved(s.peer)]
                  /\ call' = [call EXCEPT !.batch = s.batch,
                                  !.todo = IF s.batch = <<>> THEN @ \ {n} ELSE @]
                  /\ exposed' = (exposed \/ (n \notin voters /\ Strays(s.peer)))
          \/ /\ n \notin members
             /\ call' = [call EXCEPT !.todo = @ \ {n}]
             /\ UNCHANGED <<peer, disk, exposed>>
    /\ UNCHANGED <<online, store, members, voters, control, used, acked, possible, elected,
                   outside>>

(* Store::put or Store::delete of the next entry of the batch.             *)
ApplyEntry ==
    /\ call.batch # <<>>
    /\ LET n == Min(call.todo)
           rest == Tail(call.batch)
       IN /\ store' = [store EXCEPT ![n] = Effect(Head(call.batch).command)]
          /\ outside' = outside \ {n}
          /\ call' = [call EXCEPT !.batch = rest,
                          !.todo = IF rest = <<>> THEN @ \ {n} ELSE @]
    /\ UNCHANGED <<online, raft, control, used, acked, possible, elected, exposed>>

(* The write is acknowledged as committed.                                 *)
Acknowledge ==
    /\ call.step = "apply"
    /\ call.todo = {}
    /\ LET entry == peer[call.leader].log[call.index]
       IN /\ acked' = [index |-> call.index, entry |-> entry]
          /\ possible' = {Effect(entry.command)}
    /\ call' = NoCall
    /\ UNCHANGED <<online, store, raft, control, used, elected, outside, exposed>>

-----------------------------------------------------------------------------
(* The other calls.                                                        *)

(* A linearizable get: elects a leader if there is none and reads its      *)
(* store.  The answer, a store's body, is what ReadsCurrent is about.      *)
Get ==
    /\ Idle
    /\ \E s \in {EnsureLeader(peer, voters, directory.leader)} :
          /\ s.leader # CurrentLeader(peer, voters) \/ s.leader = None
          /\ Elected(s)
          /\ peer' = s.peer /\ disk' = s.disk
          /\ directory' = Directed(directory, s.leader)
    /\ UNCHANGED <<online, store, members, voters, placement, job, call, used, acked,
                   possible, outside, exposed>>

MarkOffline(n) ==
    /\ Idle
    /\ n \in online
    /\ Use("fault", MaxFault)
    /\ online' = online \ {n}
    /\ peer' = IF CurrentLeader(peer, voters) = n
               THEN [peer EXCEPT ![n].role = Follower] ELSE peer
    /\ UNCHANGED <<store, disk, members, voters, control, call, history>>

MarkOnline(n) ==
    /\ Idle
    /\ n \notin online
    /\ online' = online \cup {n}
    /\ UNCHANGED <<store, raft, control, call, used, history>>

(* Fault: a body is chosen although another has as many holders.           *)
SelectAnyLargest(votes) ==
    {b \in DOMAIN votes : \A c \in DOMAIN votes : votes[b] >= votes[c]}

(* The body with more holders than any other; with a tie there is none.    *)
SelectRepairSource(votes) ==
    {b \in DOMAIN votes : \A c \in DOMAIN votes \ {b} : votes[b] > votes[c]}

(* repair_partition, without a budget: the selected body is put on all     *)
(* online replicas.  A replica without a body has no vote.                 *)
Repair ==
    /\ Idle
    /\ Use("admin", MaxAdmin)
    /\ LET replicas == directory.replicas \cap online
           holders(b) == {n \in replicas : store[n] = b}
           votes == [b \in {store[n] : n \in replicas} \ {None} |-> Cardinality(holders(b))]
       IN \E b \in SelectRepairSource(votes) :
             /\ store' = [n \in Node |-> IF n \in replicas THEN b ELSE store[n]]
             /\ outside' = outside \cup (replicas \ holders(b))
    /\ UNCHANGED <<online, raft, control, call, acked, possible, elected, exposed>>

-----------------------------------------------------------------------------
(* Rebalance: begin_rebalance and the phases of advance_rebalance.  The    *)
(* job is saved at the end of every call.                                  *)

Destinations == job.new \ job.old

Advance(from, to) ==
    /\ Idle
    /\ job.phase = from
    /\ job' = [job EXCEPT !.phase = to]

BeginRebalance(new) ==
    /\ Idle
    /\ job = NoJob
    /\ Use("admin", MaxAdmin)
    /\ job' = [phase |-> "planned", old |-> directory.replicas, new |-> new]
    /\ UNCHANGED <<online, store, raft, directory, placement, call, history>>

(* The peer of a destination that is new to the group is a fresh one,      *)
(* whatever is in its files.                                               *)
AddLearners ==
    /\ Advance("planned", "learners")
    /\ members' = members \cup Destinations
    /\ peer' = [n \in Node |-> IF n \in Destinations \ members THEN NewPeer ELSE peer[n]]
    /\ online' = online \cup Destinations
    /\ outside' = outside \cup Destinations
    /\ UNCHANGED <<store, disk, voters, directory, placement, call, used, acked, possible,
                   elected, exposed>>

(* The body of the first old replica that is online goes to the            *)
(* destinations, up to the first that is offline; then the phase stays.    *)
CopySegments ==
    /\ job.old \cap online # {}
    /\ LET source == Min(job.old \cap online)
           reached == {d \in Destinations :
                         \A e \in Destinations : e <= d => e \in online}
           written == IF store[source] = None THEN {} ELSE reached
       IN /\ \/ Destinations \subseteq online /\ Advance("learners", "copied")
             \/ ~(Destinations \subseteq online) /\ Advance("learners", "learners")
          /\ store' = [n \in Node |-> IF n \in written THEN store[source] ELSE store[n]]
          /\ outside' = outside \cup written
    /\ UNCHANGED <<online, raft, directory, placement, call, used, acked, possible,
                   elected, exposed>>

(* The node has voted in this term or a later one.                         *)
Forgets(n, term) == disk[n].voted_for # None /\ disk[n].current_term >= term

(* stream_log_to: the peers after the log, term and commit index of one    *)
(* went to the destinations; a leader counts them as replicas.             *)
Streamed(peers, from) ==
    LET p == peers[from]
        last == LastLogIndex(p.log)
        told(f, x) == [n \in Node |-> IF n \in Destinations THEN x ELSE f[n]]
    IN [n \in Node |->
          IF n \in Destinations
          THEN [peers[n] EXCEPT !.log = p.log, !.current_term = p.current_term,
                    !.commit_index = p.commit_index, !.role = Follower,
                    !.voted_for = None, !.last_applied = 0]
          ELSE IF n = from /\ p.role = Leader
          THEN [p EXCEPT !.match_index = told(@, last), !.next_index = told(@, last + 1)]
          ELSE peers[n]]

(* From the leader, or from the first old replica when there is none.      *)
(* Nothing is flushed.                                                     *)
CatchUp ==
    /\ Advance("copied", "caught up")
    /\ LET leader == CurrentLeader(peer, voters)
           from == IF leader # None THEN leader ELSE Min(job.old)
       IN /\ peer' = Streamed(peer, from)
          /\ exposed' = (exposed \/ \E d \in Destinations :
                                       Forgets(d, peer[from].current_term))
    /\ outside' = outside \cup Destinations
    /\ UNCHANGED <<online, store, disk, members, voters, directory, placement, call, used,
                   acked, possible, elected>>

(* A change of the voters that consensus does not cover: a majority of the *)
(* old and one of the new voters may have no node in common, the last      *)
(* acknowledged entry is not yet on a majority of the voters that go, or   *)
(* too few of them know an election that was won.                          *)
Holds(log, a) == a.index = 0 \/ (a.index \in DOMAIN log /\ log[a.index] = a.entry)

Lacking(V) == {v \in V : ~Holds(disk[v].log, acked)}

(* A hard state in which node c can no longer be denied its election.      *)
Knows(h, term, c) ==
    h.current_term > term \/ (h.current_term = term /\ h.voted_for = c)

Aware(V, x) == {v \in V : Knows(peer[v], x[1], x[2]) /\ Knows(disk[v], x[1], x[2])}

Majority(V) == {M \in SUBSET V : 2 * Cardinality(M) > Cardinality(V)}

Uncovered(old, new) ==
    \/ \E M \in Majority(old), N \in Majority(new) : M \cap N = {}
    \/ old \ Lacking(old) \notin Majority(old)
    \/ \E x \in elected : Aware(old, x) \notin Majority(old)

(* A leader that is not among the new voters steps down.                   *)
Reduced(peers, V) ==
    [n \in Node |-> IF n \notin V /\ peers[n].role = Leader
                    THEN [peers[n] EXCEPT !.role = Follower] ELSE peers[n]]

(* set_joint_voters.                                                       *)
EnterJoint ==
    /\ Advance("caught up", "joint")
    /\ voters' = job.old \cup job.new
    /\ peer' = Reduced(peer, voters')
    /\ exposed' = (exposed \/ Uncovered(voters, voters'))
    /\ UNCHANGED <<online, store, disk, members, directory, placement, call, used,
                   acked, possible, elected, outside>>

(* set_voters, set_replicas, ensure_partition_leader, save: the peers,     *)
(* their files and the assignment after them.                              *)
Activated ==
    LET d == [replicas |-> job.new,
              leader |-> IF directory.leader \in job.new THEN directory.leader
                         ELSE Min(job.new)]
        s == EnsureLeader(Reduced(peer, job.new), job.new, d.leader)
    IN [peer |-> s.peer, disk |-> s.disk, directory |-> Directed(d, s.leader)]

ActivateEpoch ==
    /\ Advance("joint", "activated")
    /\ \E s \in {Activated} :
          /\ Elected(s)
          /\ peer' = s.peer /\ disk' = s.disk
          /\ directory' = s.directory /\ placement' = s.directory
    /\ voters' = job.new
    /\ exposed' = (exposed \/ Uncovered(voters, voters'))
    /\ UNCHANGED <<online, store, members, call, used, acked, possible, outside>>

SafetyWindow ==
    /\ Advance("activated", "window")
    /\ UNCHANGED <<online, store, raft, directory, placement, call, used, history>>

Reclaimed ==
    /\ Idle
    /\ job.phase = "window"
    /\ job' = NoJob
    /\ UNCHANGED <<online, store, raft, directory, placement, call, used, history>>

-----------------------------------------------------------------------------
(* The process ends and the cluster is opened again.                       *)

(* Fault: a job that is saved is forgotten.                                *)
RecordedInPlacement(j, assignment) == assignment.replicas

(* attach_and_restore_raft_stores, restore_rebalance_raft_state: the       *)
(* voters a job and an assignment stand for.  The membership files agree:  *)
(* a job outlives every joint one.                                         *)
Recorded(j, assignment) ==
    IF j = NoJob THEN assignment.replicas
    ELSE IF j.phase = "joint" THEN j.old \cup j.new
    ELSE IF j.phase \in {"activated", "window"} THEN j.new
    ELSE j.old

Open(assignment, files) ==
    /\ online' = Node
    /\ placement' = assignment
    /\ directory' = assignment
    /\ disk' = files
    /\ members' = assignment.replicas \cup job.old \cup job.new
    /\ peer' = [n \in Node |-> IF n \in members' THEN LoadPeer(files[n]) ELSE NewPeer]
    /\ voters' = Recorded(job, assignment)
    /\ call' = NoCall
    /\ UNCHANGED <<job, acked, possible>>

(* Between two calls or anywhere in a write; a batch that was taken and    *)
(* not put into the store is lost to that node.                            *)
Reopen ==
    /\ Use("fault", MaxFault)
    /\ Open(placement, disk)
    /\ outside' = IF call.batch = <<>> THEN outside ELSE outside \cup {Min(call.todo)}
    /\ UNCHANGED <<store, elected, exposed>>

(* After the new voters elected a leader, before or after placement.json   *)
(* was replaced, before the job was saved.                                 *)
StopInActivation ==
    /\ Idle
    /\ job.phase = "joint"
    /\ Use("fault", MaxFault)
    /\ \E s \in {Activated} :
          /\ Elected(s)
          /\ \E assignment \in {placement, s.directory} : Open(assignment, s.disk)
    /\ exposed' = (exposed \/ Uncovered(voters, job.new))
    /\ UNCHANGED <<store, outside>>

-----------------------------------------------------------------------------
Init ==
    /\ online = Node
    /\ store = [n \in Node |-> None]
    /\ peer = [n \in Node |-> NewPeer]
    /\ disk = [n \in Node |-> Saved(NewPeer)]
    /\ members = Node
    /\ voters = Node
    /\ directory = [replicas |-> Node, leader |-> Partition % Cardinality(Node)]
    /\ placement = directory
    /\ job = NoJob
    /\ call = NoCall
    /\ used = [k \in {"write", "fault", "admin"} |-> 0]
    /\ acked = [index |-> 0, entry |-> None]
    /\ possible = {None}
    /\ elected = {}
    /\ outside = {}
    /\ exposed = FALSE

Next ==
    \/ \E c \in Value : BeginWrite(c)
    \/ Replicate \/ AdvanceCommit \/ BeginApply \/ TakeApplyBatch \/ ApplyEntry
    \/ Acknowledge
    \/ Get
    \/ \E n \in Node : MarkOffline(n) \/ MarkOnline(n)
    \/ Repair
    \/ \E new \in Targets[directory.replicas] : BeginRebalance(new)
    \/ AddLearners \/ CopySegments \/ CatchUp \/ EnterJoint \/ ActivateEpoch
    \/ SafetyWindow \/ Reclaimed
    \/ Reopen \/ StopInActivation

Spec == Init /\ [][Next]_vars

-----------------------------------------------------------------------------
(* Properties.                                                             *)

(* The types, and what every index of a peer stands for: applied entries   *)
(* are committed, committed entries are in the log, a write in progress    *)
(* has an online leader (write_linearizable holds the cluster throughout). *)
TypeOK ==
    /\ online \subseteq Node /\ members \subseteq Node /\ outside \subseteq Node
    /\ voters \subseteq members /\ voters # {}
    /\ store \in [Node -> Value \cup {None}]
    /\ \A n \in Node :
          /\ peer[n].role \in {Follower, Candidate, Leader}
          /\ peer[n].voted_for \in Node \cup {None}
          /\ \A i \in DOMAIN peer[n].log : peer[n].log[i] \in LogEntry
          /\ peer[n].last_applied <= peer[n].commit_index
          /\ peer[n].commit_index <= LastLogIndex(peer[n].log)
          /\ disk[n].commit_index <= LastLogIndex(disk[n].log)
    /\ directory.leader \in Node /\ directory.replicas \subseteq Node
    /\ placement.leader \in placement.replicas /\ placement.replicas \subseteq Node
    /\ ~Idle => call.leader \in voters \cap online
    /\ possible # {} /\ possible \subseteq Value \cup {None}

(* No term has two leaders: votes are flushed before they are counted      *)
(* (request_vote, elect) and read back on opening, and a change of voters  *)
(* goes through a configuration that shares a node with every majority.    *)
OneLeader == ~exposed => \A x, y \in elected : x[1] = y[1] => x[2] = y[2]

(* An acknowledged write is in the log file of some node of every majority *)
(* of the voters, whatever outages, restarts and changes of the replicas   *)
(* came between (propose, advance_commit, set_joint_voters, set_voters).   *)
AckedCovered == ~exposed => Lacking(voters) \notin Majority(voters)

(* Whoever leads holds the last acknowledged write in its log (elect,      *)
(* ensure_leader_preferring), also across an activation of a placement.    *)
LeaderHoldsAcked ==
    ~exposed => \A v \in voters : peer[v].role = Leader => Holds(peer[v].log, acked)

(* The voters agree on every entry that two of them regard as committed,   *)
(* sync_follower_commit included, which compares indexes and no terms.     *)
Agreed ==
    ~exposed => \A m, n \in voters : \A i \in 1 .. peer[m].commit_index :
        i <= peer[n].commit_index => peer[m].log[i] = peer[n].log[i]

(* The effect of the entries a peer counts as applied.                     *)
Replayed(n) ==
    LET k == peer[n].last_applied
    IN IF k = 0 THEN None ELSE Effect(peer[n].log[k].command)

Applying(n) == call.batch # <<>> /\ n = Min(call.todo)

(* A store holds exactly what the log up to last_applied makes of it       *)
(* (take_apply_batch and the loop of write_linearizable), unless a batch   *)
(* was lost in a crash, or a repair or a copy wrote past the log.          *)
StoreFollowsLog ==
    ~exposed => \A n \in members \ outside : ~Applying(n) => store[n] = Replayed(n)

(* What a linearizable get reads at the leader is the last acknowledged    *)
(* write or one that was begun after it, once the leader's store has       *)
(* applied that far (get reads the store, whatever it has applied).        *)
ReadsCurrent ==
    LET leader == CurrentLeader(peer, voters)
    IN (/\ Idle /\ ~exposed
        /\ leader \in online \ outside
        /\ peer[leader].last_applied >= acked.index) => store[leader] \in possible

(* The end of the process, in a write, between calls or in the activation  *)
(* of a placement, leaves the voters as the last finished call set them    *)
(* (restore_rebalance_raft_state).                                         *)
StopKeepsVoters == [][Reopen \/ StopInActivation => voters' = voters]_vars

(* A repair puts no older body over an acknowledged one as long as every   *)
(* replica's store is the work of its log (select_repair_source).  It says *)
(* nothing of an acknowledged delete: a replica without a body has no vote. *)
RepairKeepsAcked ==
    [][(/\ Repair /\ ~exposed
        /\ directory.replicas \cap outside = {}
        /\ acked.index > 0 /\ Effect(acked.entry.command) # None)
       => \A n \in Node : store'[n] = store[n] \/ store'[n] \in possible]_vars

=============================================================================
