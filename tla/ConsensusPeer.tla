--------------------------- MODULE ConsensusPeer ---------------------------
(***************************************************************************)
(* One peer of a partition's consensus group: the RaftPeer of              *)
(* residiuum-cluster/src/raft.rs, its files (raft_persist.rs) and its      *)
(* handlers of RequestVote and AppendEntries.  The networked node          *)
(* (RaftNode) and the in-process cluster (ClusterPartition) both run this  *)
(* code.  The log starts at index 1: snapshots are not part of it.         *)
(***************************************************************************)
EXTENDS Integers, Sequences, FiniteSets, FiniteSetsExt

CONSTANTS
    Node,           \* the nodes that may hold a replica
    Value,          \* the commands a client may write
    None            \* voted_for = None

ASSUME NodeAssumption == IsFiniteSet(Node) /\ None \notin Node

-----------------------------------------------------------------------------
(* The peer and its log.                                                   *)

Follower == "Follower"
Candidate == "Candidate"
Leader == "Leader"

LogEntry == [term : Nat, command : Value]

LastLogIndex(log) == Len(log)

LastLogTerm(log) == IF log = <<>> THEN 0 ELSE log[Len(log)].term

(* term_at answers None, here -1, for an index the log does not have.      *)
TermAt(log, index) ==
    IF index = 0 THEN 0 ELSE IF index \in DOMAIN log THEN log[index].term ELSE -1

(* Fault: compares lengths only.                                           *)
LongestLogWins(log, last_term, last_index) == last_index >= LastLogIndex(log)

LogAtLeastAsUpToDate(log, last_term, last_index) ==
    IF last_term # LastLogTerm(log)
    THEN last_term >= LastLogTerm(log)
    ELSE last_index >= LastLogIndex(log)

(* RaftPeer::new.  An absent key of next_index or match_index is 0.        *)
NewPeer ==
    [current_term |-> 0, voted_for |-> None, role |-> Follower, log |-> <<>>,
     commit_index |-> 0, last_applied |-> 0,
     next_index |-> [v \in Node |-> 0], match_index |-> [v \in Node |-> 0]]

BecomeFollower(p, term) ==
    [p EXCEPT !.current_term = term, !.role = Follower, !.voted_for = None,
              !.next_index = [v \in Node |-> 0],
              !.match_index = [v \in Node |-> 0]]

BecomeLeader(p, n) ==
    LET last == LastLogIndex(p.log)
    IN [p EXCEPT !.role = Leader,
                 !.next_index = [v \in Node |-> last + 1],
                 !.match_index = [v \in Node |-> IF v = n THEN last ELSE 0]]

-----------------------------------------------------------------------------
(* The peer's files.  save_peer replaces log.ndjson and then               *)
(* hard_state.json, each atomically; a failing flush may have replaced     *)
(* none, the first or both of them.  A crash in the middle of a flush is a *)
(* failing flush followed by Restart.                                      *)

FlushResult == {"ok", "none", "log", "both"}

Saved(p) ==
    [current_term |-> p.current_term, voted_for |-> p.voted_for,
     commit_index |-> p.commit_index, last_applied |-> p.last_applied,
     log |-> p.log]

SavePeer(d, p, f) ==
    IF f = "none" THEN d
    ELSE IF f = "log" THEN [d EXCEPT !.log = p.log]
    ELSE Saved(p)

(* Fault: the vote is not restored.                                        *)
LoadPeerWithoutVote(d) ==
    [NewPeer EXCEPT !.current_term = d.current_term, !.log = d.log]

LoadPeer(d) ==
    LET commit == Min({d.commit_index, LastLogIndex(d.log)})
    IN [NewPeer EXCEPT !.current_term = d.current_term,
                       !.voted_for = d.voted_for,
                       !.log = d.log,
                       !.commit_index = commit,
                       !.last_applied = Min({d.last_applied, commit})]

-----------------------------------------------------------------------------
(* The handlers of a node, as functions of its peer p, its files d, the    *)
(* request m and the result f of the flush they make.                      *)

(* Fault: the vote already given in this term is not looked at.            *)
VoteAgain(p, d, m, f) ==
    LET q == IF m.term > p.current_term THEN BecomeFollower(p, m.term) ELSE p
        voted == [q EXCEPT !.voted_for = m.from]
        grants == LogAtLeastAsUpToDate(q.log, m.last_log_term, m.last_log_index)
    IN IF m.term < p.current_term \/ ~grants
       THEN [peer |-> p, disk |-> d, granted |-> FALSE, flushed |-> FALSE]
       ELSE [peer |-> voted, disk |-> SavePeer(d, voted, f), granted |-> f = "ok",
             flushed |-> TRUE]

HandleRequestVote(p, d, m, f) ==
    LET q == IF m.term > p.current_term THEN BecomeFollower(p, m.term) ELSE p
        grants == /\ q.voted_for \in {None, m.from}
                  /\ LogAtLeastAsUpToDate(q.log, m.last_log_term, m.last_log_index)
        voted == IF grants THEN [q EXCEPT !.voted_for = m.from] ELSE q
    IN IF m.term < p.current_term
       THEN [peer |-> p, disk |-> d, granted |-> FALSE, flushed |-> FALSE]
       ELSE [peer |-> IF f = "ok" THEN voted ELSE q,
             disk |-> SavePeer(d, voted, f),
             granted |-> grants /\ f = "ok", flushed |-> TRUE]

(* Fault: a conflicting tail is overwritten in place, not cut.             *)
OverwriteEntries(log, prev, entries) ==
    [i \in 1..Max({Len(log), prev + Len(entries)}) |->
        IF i > prev /\ i <= prev + Len(entries) THEN entries[i - prev] ELSE log[i]]

(* Fault: entries at taken indexes are not compared, only new ones added.  *)
KeepConflicting(log, prev, entries) ==
    log \o SubSeq(entries, Len(log) - prev + 1, Len(entries))

(* The log after the entries of an AppendEntries whose prev matches: the   *)
(* entries that agree in term stay, the first that does not cuts the log.  *)
MergeEntries(log, prev, entries) ==
    LET agree == {k \in 0..Len(entries) : \A i \in 1..k :
                      /\ prev + i <= Len(log)
                      /\ log[prev + i].term = entries[i].term}
        k == Max(agree)
    IN IF k = Len(entries) THEN log
       ELSE SubSeq(log, 1, prev + k) \o SubSeq(entries, k + 1, Len(entries))

(* Fault: success does not wait for the flush.                             *)
AcceptUnflushed(p, d, m, f) ==
    LET q == [p EXCEPT !.current_term = m.term, !.role = Follower,
                       !.voted_for = m.from]
        log == MergeEntries(q.log, m.prev_log_index, m.entries)
        r == [q EXCEPT !.log = log]
    IN IF m.term < p.current_term \/ TermAt(q.log, m.prev_log_index) # m.prev_log_term
       THEN [peer |-> p, disk |-> d, success |-> FALSE,
             conflict_index |-> 0, match_index |-> 0, flushed |-> FALSE]
       ELSE [peer |-> r, disk |-> SavePeer(d, r, f), success |-> TRUE,
             conflict_index |-> 0, match_index |-> LastLogIndex(r.log),
             flushed |-> TRUE]

(* A conflict_index of 0 is None.                                          *)
HandleAppendEntries(p, d, m, f) ==
    LET q == [p EXCEPT !.current_term = m.term, !.role = Follower,
                       !.voted_for = m.from]
        prev == m.prev_log_index
        log == MergeEntries(q.log, prev, m.entries)
        commit == IF m.leader_commit > q.commit_index
                  THEN Min({m.leader_commit, LastLogIndex(log)})
                  ELSE q.commit_index
        r == [q EXCEPT !.log = log, !.commit_index = commit]
    IN IF m.term < p.current_term
       THEN [peer |-> p, disk |-> d, success |-> FALSE,
             conflict_index |-> 0, match_index |-> 0, flushed |-> FALSE]
       ELSE IF TermAt(q.log, prev) # m.prev_log_term
       THEN [peer |-> q, disk |-> d, success |-> FALSE,
             conflict_index |-> IF prev <= LastLogIndex(q.log) THEN prev
                                ELSE LastLogIndex(q.log) + 1,
             match_index |-> 0, flushed |-> FALSE]
       ELSE [peer |-> r, disk |-> SavePeer(d, r, f), success |-> f = "ok",
             conflict_index |-> 0, match_index |-> LastLogIndex(r.log),
             flushed |-> TRUE]

=============================================================================
