------------------------------ MODULE RaftNode ------------------------------
(***************************************************************************)
(* Network consensus of one partition: the NetworkRaftNode of every voter  *)
(* (residiuum-cluster/src/raft_rpc.rs) over the peer it owns and the files *)
(* that peer keeps (ConsensusPeer).  Node is the set of configured voters. *)
(*                                                                         *)
(* A node serves one request at a time: `campaign` and `propose` hold the  *)
(* node's lock while they call the other voters one after the other, so a  *)
(* node inside one of them answers nobody.  A call either completes (the   *)
(* receiver's whole handler and the caller's use of the answer are one     *)
(* step: the caller is locked meanwhile, so nothing can tell the two       *)
(* apart), or the caller gives up on it; a request given up on may still   *)
(* be executed later, its answer going nowhere.  The order in which the    *)
(* voters are called is left open.                                         *)
(***************************************************************************)
EXTENDS ConsensusPeer

CONSTANTS
    MaxBatch,       \* RaftRpcConfig.max_append_batch
    MaxTerm,        \* bound: no campaign beyond this term
    MaxLog,         \* bound: no proposal beyond this index
    MaxCrash,       \* bound: restarts in a behaviour
    MaxFlushFail,   \* bound: failed flushes in a behaviour
    MaxLate,        \* bound: requests given up on and still under way
    MaxBusy         \* bound: nodes inside a campaign or a proposal at a time

ASSUME BoundAssumption ==
    /\ MaxBatch \in Nat \ {0}
    /\ {MaxTerm, MaxLog, MaxCrash, MaxFlushFail, MaxLate, MaxBusy} \subseteq Nat

VARIABLES
    peer,           \* the RaftPeer in each node's memory
    disk,           \* the hard state and log in each node's peer directory
    op,             \* the campaign or proposal each node is executing
    late,           \* requests given up on by their caller, not yet executed
    crashes,        \* restarts so far
    flush_fails,    \* failed flushes so far
    elected,        \* history: the <<term, node>> that won an election
    tally,          \* history: the <<term, voter, candidate>> votes counted
    chosen,         \* history: the entries reported committed, in log order
    written         \* history: the logs that proposals have written

vars == <<peer, disk, op, late, crashes, flush_fails, elected, tally, chosen, written>>
history == <<elected, tally, chosen, written>>

-----------------------------------------------------------------------------
Quorum == Cardinality(Node) \div 2 + 1

(* The result of a flush, if one is made; the failures are counted against *)
(* their bound.                                                            *)
Flushes(made, f) ==
    /\ f \in FlushResult
    /\ f # "ok" => made /\ flush_fails < MaxFlushFail
    /\ flush_fails' = IF f = "ok" THEN flush_fails ELSE flush_fails + 1

-----------------------------------------------------------------------------
(* Requests.                                                               *)

VoteRequest(n, v) ==
    [from |-> n, to |-> v, term |-> peer[n].current_term, kind |-> "vote",
     last_log_index |-> LastLogIndex(peer[n].log),
     last_log_term |-> LastLogTerm(peer[n].log)]

AppendRequest(n, v) ==
    LET p == peer[n]
        next == IF p.next_index[v] = 0 THEN 1 ELSE p.next_index[v]
        last == Min({LastLogIndex(p.log), next + MaxBatch - 1})
    IN [from |-> n, to |-> v, term |-> p.current_term, kind |-> "append",
        prev_log_index |-> next - 1,
        prev_log_term |-> Max({TermAt(p.log, next - 1), 0}),
        entries |-> SubSeq(p.log, next, last), leader_commit |-> p.commit_index]

(* The operation a node is executing: whom it still has to call, whom it   *)
(* is retrying, the votes it has, the higher term it was answered with,    *)
(* the index it is proposing.                                              *)
Idle == [phase |-> "idle", todo |-> {}, at |-> None, votes |-> {},
         term |-> 0, index |-> 0]

IsIdle(n) == op[n].phase = "idle"

CanBegin(n) == IsIdle(n) /\ Cardinality({v \in Node : ~IsIdle(v)}) < MaxBusy

(* A call the caller gives up on: refused, lost, timed out, or the last    *)
(* attempt.  The request may still reach the receiver.                     *)
GiveUp(n, v, m) ==
    /\ op' = [op EXCEPT ![n] = [op[n] EXCEPT !.todo = @ \ {v}, !.at = None]]
    /\ \/ UNCHANGED late
       \/ Cardinality(late) < MaxLate /\ late' = late \cup {m}
    /\ UNCHANGED <<peer, disk, crashes, flush_fails, history>>

-----------------------------------------------------------------------------
(* campaign, called by ensure_leader on a node that is not the leader      *)

Campaign(n, f) ==
    /\ CanBegin(n)
    /\ peer[n].role # Leader
    /\ peer[n].current_term < MaxTerm
    /\ Flushes(TRUE, f)
    /\ LET p == [peer[n] EXCEPT !.current_term = @ + 1, !.role = Candidate,
                                !.voted_for = n]
       IN /\ disk' = [disk EXCEPT ![n] = SavePeer(@, p, f)]
          /\ \/ /\ f = "ok"
                /\ peer' = [peer EXCEPT ![n] = p]
                /\ op' = [op EXCEPT ![n] = [Idle EXCEPT !.phase = "vote",
                                !.todo = Node \ {n}, !.votes = {n}]]
                /\ tally' = tally \cup {<<p.current_term, n, n>>}
             \/ /\ f # "ok"
                /\ peer' = [peer EXCEPT ![n] = [p EXCEPT !.role = Follower]]
                /\ UNCHANGED <<op, tally>>
    /\ UNCHANGED <<late, crashes, elected, chosen, written>>

CampaignCall(n, v, f) ==
    /\ op[n].phase = "vote"
    /\ v \in op[n].todo
    /\ IsIdle(v)
    /\ LET term == peer[n].current_term
           res == HandleRequestVote(peer[v], disk[v], VoteRequest(n, v), f)
       IN /\ Flushes(res.flushed, f)
          /\ peer' = [peer EXCEPT ![v] = res.peer]
          /\ disk' = [disk EXCEPT ![v] = res.disk]
          /\ \/ /\ res.peer.current_term > term
                /\ op' = [op EXCEPT ![n] = [op[n] EXCEPT !.phase = "higher",
                                                     !.term = res.peer.current_term]]
                /\ UNCHANGED tally
             \/ /\ res.peer.current_term <= term
                /\ op' = [op EXCEPT ![n] = [op[n] EXCEPT !.todo = @ \ {v},
                                !.votes = IF res.granted THEN @ \cup {v} ELSE @]]
                /\ tally' = IF res.granted THEN tally \cup {<<term, v, n>>} ELSE tally
    /\ UNCHANGED <<late, crashes, elected, chosen, written>>

CampaignGivesUp(n, v) ==
    /\ op[n].phase = "vote"
    /\ v \in op[n].todo
    /\ GiveUp(n, v, VoteRequest(n, v))

CampaignEnd(n, f) ==
    /\ op[n].phase = "vote"
    /\ op[n].todo = {}
    /\ Flushes(TRUE, f)
    /\ LET won == Cardinality(op[n].votes) >= Quorum
           p == IF won THEN BecomeLeader(peer[n], n)
                ELSE [peer[n] EXCEPT !.role = Follower]
       IN /\ peer' = [peer EXCEPT ![n] = p]
          /\ disk' = [disk EXCEPT ![n] = SavePeer(@, p, f)]
          /\ elected' = IF won THEN elected \cup {<<p.current_term, n>>} ELSE elected
    /\ op' = [op EXCEPT ![n] = Idle]
    /\ UNCHANGED <<late, crashes, tally, chosen, written>>

(* An answer with a higher term ends a campaign, and a proposal: the term  *)
(* is adopted, without a vote.                                             *)
StepDown(n, f) ==
    /\ op[n].phase = "higher"
    /\ Flushes(TRUE, f)
    /\ LET p == [peer[n] EXCEPT !.current_term = op[n].term, !.role = Follower,
                                !.voted_for = None]
       IN /\ peer' = [peer EXCEPT ![n] = p]
          /\ disk' = [disk EXCEPT ![n] = SavePeer(@, p, f)]
    /\ op' = [op EXCEPT ![n] = Idle]
    /\ UNCHANGED <<late, crashes, history>>

-----------------------------------------------------------------------------
(* propose                                                                 *)

(* The logs written, once a proposal has written `log`.  It takes the      *)
(* place of one that an earlier proposal of the term left in the leader's  *)
(* own file when its flush failed.                                         *)
Written(log) ==
    {a \in written : Len(a) # Len(log) \/ LastLogTerm(a) # LastLogTerm(log)} \cup {log}

Propose(n, command, f) ==
    /\ CanBegin(n)
    /\ peer[n].role = Leader
    /\ LastLogIndex(peer[n].log) < MaxLog
    /\ Flushes(TRUE, f)
    /\ LET last == LastLogIndex(peer[n].log)
           matched(p, index) == [p EXCEPT !.match_index[n] = index,
                                          !.next_index[n] = index + 1]
           entry == [term |-> peer[n].current_term, command |-> command]
           p == matched([peer[n] EXCEPT !.log = Append(@, entry)], last + 1)
       IN /\ disk' = [disk EXCEPT ![n] = SavePeer(@, p, f)]
          /\ written' = IF f = "none" THEN written ELSE Written(p.log)
          /\ \/ /\ f = "ok"
                /\ peer' = [peer EXCEPT ![n] = p]
                /\ op' = [op EXCEPT ![n] = [Idle EXCEPT !.phase = "append",
                                !.todo = Node \ {n}, !.index = last + 1]]
             \/ /\ f # "ok"
                /\ peer' = [peer EXCEPT ![n] = matched(@, last)]
                /\ UNCHANGED op
    /\ UNCHANGED <<late, crashes, elected, tally, chosen>>

(* Fault: next_index and match_index confused.                             *)
ReplicatedOneMore(p, v, match) ==
    [p EXCEPT !.match_index[v] = match + 1, !.next_index[v] = match + 1]

(* replicate_to: what the caller does with the answer of follower v.       *)
Replicated(p, v, match) ==
    [p EXCEPT !.match_index[v] = match, !.next_index[v] = match + 1]

(* Fault: next_index may fall below 1.                                     *)
BackOffTooFar(p, v, conflict_index) ==
    LET hint == IF conflict_index = 0 THEN p.next_index[v] - 1 ELSE conflict_index
    IN [p EXCEPT !.next_index[v] = hint - 1]

(* Fault: the follower's hint is taken as it is when there is one.         *)
BackOffToHint(p, v, conflict_index) ==
    IF conflict_index = 0 THEN p ELSE [p EXCEPT !.next_index[v] = conflict_index + 1]

BackOff(p, v, conflict_index) ==
    LET next == IF p.next_index[v] = 0 THEN 1 ELSE p.next_index[v]
        hint == IF conflict_index = 0 THEN next - 1 ELSE conflict_index
    IN [p EXCEPT !.next_index[v] = Max({hint - 1, 1})]

ReplicateCall(n, v, f) ==
    /\ op[n].phase \in {"append", "push"}
    /\ v \in op[n].todo
    /\ op[n].at \in {None, v}
    /\ IsIdle(v)
    /\ \E res \in {HandleAppendEntries(peer[v], disk[v], AppendRequest(n, v), f)} :
          /\ Flushes(res.flushed, f)
          /\ disk' = [disk EXCEPT ![v] = res.disk]
          /\ \/ /\ res.peer.current_term > peer[n].current_term
                /\ peer' = [peer EXCEPT ![v] = res.peer]
                /\ op' = [op EXCEPT ![n] = [op[n] EXCEPT !.phase = "higher",
                                                     !.term = res.peer.current_term]]
             \/ /\ res.peer.current_term <= peer[n].current_term
                /\ res.success
                /\ peer' = [peer EXCEPT ![v] = res.peer,
                                        ![n] = Replicated(@, v, res.match_index)]
                /\ op' = [op EXCEPT ![n] = [op[n] EXCEPT !.todo = @ \ {v}, !.at = None]]
             \/ /\ res.peer.current_term <= peer[n].current_term
                /\ ~res.success
                /\ peer' = [peer EXCEPT ![v] = res.peer,
                                        ![n] = BackOff(@, v, res.conflict_index)]
                /\ op' = [op EXCEPT ![n] = [op[n] EXCEPT !.at = v]]
    /\ UNCHANGED <<late, crashes, history>>

ReplicateGivesUp(n, v) ==
    /\ op[n].phase \in {"append", "push"}
    /\ v \in op[n].todo
    /\ op[n].at \in {None, v}
    /\ GiveUp(n, v, AppendRequest(n, v))

(* Fault: one voter short of a majority.                                   *)
CommittableByHalf(p) ==
    {i \in p.commit_index + 1 .. LastLogIndex(p.log) :
        Cardinality({v \in Node : p.match_index[v] >= i}) >= Quorum - 1}

(* The indices advance_commit may move commit_index to.                    *)
Committable(p) ==
    {i \in p.commit_index + 1 .. LastLogIndex(p.log) :
        /\ TermAt(p.log, i) = p.current_term
        /\ Cardinality({v \in Node : p.match_index[v] >= i}) >= Quorum}

(* All followers were called: advance_commit, then either tell them or     *)
(* answer that the entry is not committed.                                 *)
AdvanceCommit(n, f) ==
    /\ op[n].phase = "append"
    /\ op[n].todo = {}
    /\ LET S == Committable(peer[n])
           commit == IF S = {} THEN peer[n].commit_index ELSE Max(S)
           p == [peer[n] EXCEPT !.commit_index = commit]
       IN /\ peer' = [peer EXCEPT ![n] = p]
          /\ \/ /\ S # {}
                /\ Flushes(TRUE, f)
                /\ disk' = [disk EXCEPT ![n] = SavePeer(@, p, f)]
             \/ /\ S = {}
                /\ f = "ok"
                /\ UNCHANGED <<disk, flush_fails>>
          /\ op' = [op EXCEPT ![n] =
                       IF commit >= op[n].index
                       THEN [Idle EXCEPT !.phase = "push", !.todo = Node \ {n}]
                       ELSE Idle]
          /\ chosen' = IF S # {} /\ commit > Len(chosen)
                       THEN SubSeq(p.log, 1, commit) ELSE chosen
    /\ UNCHANGED <<late, crashes, elected, tally, written>>

(* The proposal returns its result.                                        *)
ProposeEnd(n) ==
    /\ op[n].phase = "push"
    /\ op[n].todo = {}
    /\ op' = [op EXCEPT ![n] = Idle]
    /\ UNCHANGED <<peer, disk, late, crashes, flush_fails, history>>

-----------------------------------------------------------------------------
(* The rest of the world.                                                  *)

(* A request its caller gave up on is executed; nobody reads the answer.   *)
ExecuteLate(m, f) ==
    /\ m \in late
    /\ IsIdle(m.to)
    /\ LET v == m.to
           res == IF m.kind = "vote" THEN HandleRequestVote(peer[v], disk[v], m, f)
                  ELSE HandleAppendEntries(peer[v], disk[v], m, f)
       IN /\ Flushes(res.flushed, f)
          /\ peer' = [peer EXCEPT ![v] = res.peer]
          /\ disk' = [disk EXCEPT ![v] = res.disk]
    /\ late' = late \ {m}
    /\ UNCHANGED <<op, crashes, history>>

(* The process dies, whatever it is doing, and comes back from its files.  *)
(* The requests it had not read are gone with its connections.             *)
Restart(n) ==
    /\ crashes < MaxCrash
    /\ crashes' = crashes + 1
    /\ peer' = [peer EXCEPT ![n] = LoadPeer(disk[n])]
    /\ op' = [op EXCEPT ![n] = Idle]
    /\ late' = {m \in late : m.to # n}
    /\ UNCHANGED <<disk, flush_fails, history>>

-----------------------------------------------------------------------------
Init ==
    /\ peer = [n \in Node |-> NewPeer]
    /\ disk = [n \in Node |-> Saved(NewPeer)]
    /\ op = [n \in Node |-> Idle]
    /\ late = {}
    /\ crashes = 0
    /\ flush_fails = 0
    /\ elected = {}
    /\ tally = {}
    /\ chosen = <<>>
    /\ written = {}

(* The steps of the operation node n is executing.                         *)
Proceed(n) ==
    \/ \E f \in FlushResult : CampaignEnd(n, f) \/ StepDown(n, f) \/ AdvanceCommit(n, f)
    \/ \E v \in Node, f \in FlushResult : CampaignCall(n, v, f) \/ ReplicateCall(n, v, f)
    \/ ProposeEnd(n)

GivesUp(n, v) == CampaignGivesUp(n, v) \/ ReplicateGivesUp(n, v)

Next ==
    \/ \E n \in Node, f \in FlushResult : Campaign(n, f)
    \/ \E n \in Node, command \in Value, f \in FlushResult : Propose(n, command, f)
    \/ \E n \in Node : Proceed(n)
    \/ \E n, v \in Node : GivesUp(n, v)
    \/ \E m \in late, f \in FlushResult : ExecuteLate(m, f)
    \/ \E n \in Node : Restart(n)

Spec == Init /\ [][Next]_vars

(* A node goes on with the operation it is executing: its thread runs, the *)
(* call to a node that is free is answered, and the call to a node that is *)
(* busy ends by the transport's request timeout.  Nothing is assumed of    *)
(* clients, of late requests, of restarts, nor that any other call is ever *)
(* given up on.                                                            *)
Fairness ==
    \A n \in Node :
        WF_vars(Proceed(n) \/ \E v \in Node : ~IsIdle(v) /\ GivesUp(n, v))

FairSpec == Spec /\ Fairness

-----------------------------------------------------------------------------
(* Properties.                                                             *)

VoteRequests ==
    [from : Node, to : Node, term : Nat, kind : {"vote"},
     last_log_index : Nat, last_log_term : Nat]

AppendRequests ==
    [from : Node, to : Node, term : Nat, kind : {"append"},
     prev_log_index : Nat, prev_log_term : Nat, entries : Seq(LogEntry),
     leader_commit : Nat]

RaftPeer ==
    [current_term : Nat, voted_for : Node \cup {None},
     role : {Follower, Candidate, Leader}, log : Seq(LogEntry),
     commit_index : Nat, last_applied : Nat,
     next_index : [Node -> Nat], match_index : [Node -> Nat]]

PeerFiles ==
    [current_term : Nat, voted_for : Node \cup {None}, commit_index : Nat,
     last_applied : Nat, log : Seq(LogEntry)]

Operation ==
    [phase : {"idle", "vote", "higher", "append", "push"}, todo : SUBSET Node,
     at : Node \cup {None}, votes : SUBSET Node, term : Nat, index : Nat]

(* Every variable holds a value of its kind: peers and their files are     *)
(* well formed and every request under way is one a caller could send.     *)
TypeOK ==
    /\ peer \in [Node -> RaftPeer]
    /\ disk \in [Node -> PeerFiles]
    /\ op \in [Node -> Operation]
    /\ late \subseteq VoteRequests \cup AppendRequests
    /\ crashes \in 0..MaxCrash
    /\ flush_fails \in 0..MaxFlushFail
    /\ elected \subseteq Nat \X Node
    /\ tally \subseteq Nat \X Node \X Node
    /\ chosen \in Seq(LogEntry)
    /\ written \subseteq Seq(LogEntry)

(* At most one node wins the election of a term, whatever votes are lost,  *)
(* flushes fail, and nodes restart between granting a vote and the next    *)
(* request (campaign, handle_request_vote, save_peer).                     *)
ElectionSafety ==
    \A x, y \in elected : x[1] = y[1] => x[2] = y[2]

(* r, the peer or the files of the voter of the counted vote x, keeps that *)
(* vote for the rest of the term, or names a winner of the term.           *)
Honours(r, x, winners) ==
    /\ r.current_term >= x[1]
    /\ r.current_term = x[1] => r.voted_for = x[3] \/ <<x[1], r.voted_for>> \in winners

(* A vote that was counted is never given away: the voter's files keep it  *)
(* for the rest of the term, unless they name the leader that term already *)
(* has (append_entries overwrites voted_for).                              *)
VotesHonoured == \A x \in tally : Honours(disk[x[2]], x, elected)

(* Two logs, in memory or on disk, that hold an entry of the same term at  *)
(* the same index are equal up to it (append_entries, propose and the      *)
(* roll-back of a proposal whose flush failed).                            *)
Logs == {peer[n].log : n \in Node} \cup {disk[n].log : n \in Node}

LogMatching ==
    \A a, b \in Logs : \A i \in DOMAIN a \cap DOMAIN b :
        a[i].term = b[i].term => SubSeq(a, 1, i) = SubSeq(b, 1, i)

(* No node ever treats as committed an entry other than the one reported   *)
(* committed at that index (advance_commit, the min with the follower's    *)
(* last index in append_entries, load_peer after a restart).               *)
CommittedPrefix ==
    \A n \in Node :
        /\ peer[n].commit_index <= Len(chosen)
        /\ \A i \in 1..peer[n].commit_index :
              i \in DOMAIN peer[n].log /\ peer[n].log[i] = chosen[i]

(* An entry reported committed is in the files of a majority, so it        *)
(* survives the restart of every node and the loss of any minority.        *)
ChosenOnQuorumDisk ==
    \A i \in DOMAIN chosen :
        Cardinality({n \in Node : i \in DOMAIN disk[n].log /\ disk[n].log[i] = chosen[i]})
            >= Quorum

(* The leader of the newest term holds every entry reported committed      *)
(* (the up-to-date test of handle_request_vote).                           *)
LeaderCompleteness ==
    \A n \in Node :
        (/\ peer[n].role = Leader
         /\ \A x \in elected : x[1] <= peer[n].current_term)
        => /\ Len(chosen) <= Len(peer[n].log)
           /\ SubSeq(peer[n].log, 1, Len(chosen)) = chosen

(* What a leader counts as replicated on a follower that has not moved to  *)
(* a later term is in that follower's files (match_index: "highest log     *)
(* index known replicated on each follower").                              *)
MatchIndexIsReal ==
    \A n, v \in Node :
        (/\ peer[n].role = Leader
         /\ disk[v].current_term <= peer[n].current_term)
        => \A i \in 1..peer[n].match_index[v] :
              /\ i \in DOMAIN peer[n].log
              /\ i \in DOMAIN disk[v].log
              /\ disk[v].log[i] = peer[n].log[i]

-----------------------------------------------------------------------------
(* The argument for ElectionSafety, as an inductive invariant.             *)

(* A candidate's votes are counted votes of its term, its own among them,  *)
(* and it has not won yet; a leader won its term.                          *)
OperationInv(n) ==
    LET t == peer[n].current_term
    IN /\ op[n].phase = "vote" =>
             /\ n \in op[n].votes
             /\ \A v \in op[n].votes : <<t, v, n>> \in tally
             /\ <<t, n>> \notin elected
             /\ peer[n].role = Candidate
       /\ op[n].phase \in {"append", "push"} => peer[n].role = Leader
       /\ peer[n].role = Leader => <<t, n>> \in elected
       /\ op[n].phase = "higher" => op[n].term > t

CampaignInv == \A n \in Node : OperationInv(n)

(* An AppendEntries under way was sent by the winner of its term.          *)
LateInv ==
    \A m \in late : m.kind = "append" => <<m.term, m.from>> \in elected

(* A voter is counted for one candidate of a term.                         *)
TallyInv ==
    \A x, y \in tally : x[1] = y[1] /\ x[2] = y[2] => x[3] = y[3]

(* The voter remembers the counted vote in memory as VotesHonoured says of *)
(* its files.                                                              *)
VotesRemembered == \A x \in tally : Honours(peer[x[2]], x, elected)

Quorums == {Q \in SUBSET Node : Cardinality(Q) >= Quorum}

(* A winner was counted a majority of votes, and never goes back to an     *)
(* earlier term.                                                           *)
ElectedInv ==
    \A x \in elected :
        /\ \E Q \in Quorums : \A v \in Q : <<x[1], v, x[2]>> \in tally
        /\ peer[x[2]].current_term >= x[1]
        /\ disk[x[2]].current_term >= x[1]

(* Counted votes, candidates, leaders and requests under way stay          *)
(* consistent across flush failures and restarts: the reason why no term   *)
(* gets two leaders.                                                       *)
ElectionInv ==
    /\ CampaignInv
    /\ LateInv
    /\ TallyInv
    /\ VotesRemembered
    /\ VotesHonoured
    /\ ElectedInv

-----------------------------------------------------------------------------
(* Liveness and refinement.                                                *)

(* Every campaign and every proposal returns to its client.  The cap on    *)
(* replicate_attempts is not needed for it: the back-off of next_index     *)
(* always reaches an index the follower accepts, also when its flush fails *)
(* in between, and two nodes that call each other both get away (campaign, *)
(* propose, replicate_to).                                                 *)
OperationsReturn ==
    \A n \in Node : ~IsIdle(n) ~> IsIdle(n)

(* The committed prefixes of the nodes behave as one growing log           *)
(* (advance_commit, append_entries, load_peer together).                   *)
Consensus ==
    INSTANCE ReplicatedLog WITH
        Entry <- LogEntry, decided <- chosen,
        known <- [n \in Node |-> SubSeq(peer[n].log, 1, peer[n].commit_index)]

ImplementsReplicatedLog == Consensus!Spec

=============================================================================
