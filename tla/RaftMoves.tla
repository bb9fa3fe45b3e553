----------------------------- MODULE RaftMoves -----------------------------
(***************************************************************************)
(* The vocabulary of the proofs about RaftNode: what a step of a node does *)
(* to the terms, the logs, the votes and the acknowledgements.             *)
(***************************************************************************)
EXTENDS RaftNode

-----------------------------------------------------------------------------
(* Facts that hold in every instance.                                      *)

(* Two facts about finite sets: majorities have a voter in common, and a   *)
(* bounded set of indices has a greatest one.  RaftNodeProofs proves them. *)
SetFacts ==
    /\ \A A, B \in Quorums : A \cap B # {}
    /\ \A b \in Nat : \A S \in SUBSET (0..b) :
          S # {} => Max(S) \in S /\ \A y \in S : Max(S) >= y

-----------------------------------------------------------------------------
(* Logs.                                                                   *)

(* An entry of b at the same index and of the same term as one of a is     *)
(* preceded by the same entries.                                           *)
Matching(a, b) ==
    \A i \in 1..Len(a) :
        i <= Len(b) /\ a[i].term = b[i].term => \A j \in 1..i : a[j] = b[j]

(* The entries of a request continue the sender's log P after index prev.  *)
Continues(P, prev, entries) ==
    Len(P) = prev + Len(entries) /\ \A i \in 1..Len(entries) : P[prev + i] = entries[i]

AgreeUpTo(a, b, i) == i <= Len(a) /\ \A j \in 1..i : a[j] = b[j]

-----------------------------------------------------------------------------
(* What a step does to the logs.  Every step is a proposal or moves the    *)
(* nodes in one of four ways, told apart by the term, the log and the      *)
(* commit index of a peer p and its files d, which become p2 and d2.       *)

Same(r, s) ==
    s.current_term = r.current_term /\ s.log = r.log /\ s.commit_index = r.commit_index

(* save_peer, whether it fails or not.                                     *)
Flushed(d, p, d2) ==
    \/ Same(d, d2)
    \/ Same(p, d2)
    \/ /\ d2.log = p.log
       /\ d2.current_term = d.current_term /\ d2.commit_index = d.commit_index

(* The term may grow and the log stays.                                    *)
Stays(p, d, p2, d2) ==
    /\ p2.current_term >= p.current_term
    /\ p2.log = p.log /\ p2.commit_index = p.commit_index
    /\ Flushed(d, p2, d2)

(* append_entries accepts m.                                               *)
Takes(p, d, m, p2, d2) ==
    /\ m.term >= p.current_term /\ p2.current_term = m.term
    /\ TermAt(p.log, m.prev_log_index) = m.prev_log_term
    /\ p2.log = MergeEntries(p.log, m.prev_log_index, m.entries)
    /\ p2.commit_index = IF m.leader_commit > p.commit_index
                         THEN Min({m.leader_commit, LastLogIndex(p2.log)})
                         ELSE p.commit_index
    /\ p2.role = Follower
    /\ Flushed(d, p2, d2)

(* advance_commit moves the commit index.                                  *)
Commits(p, d, p2, d2) ==
    /\ p.role = Leader /\ p2.role = Leader
    /\ p2.current_term = p.current_term /\ p2.log = p.log
    /\ p2.commit_index \in Committable(p)
    /\ Flushed(d, p2, d2)

(* load_peer after a restart.                                              *)
Reloads(d, p2, d2) ==
    /\ p2.current_term = d.current_term /\ p2.log = d.log
    /\ p2.commit_index = Min({d.commit_index, LastLogIndex(d.log)})
    /\ p2.role = Follower
    /\ d2 = d

(* The AppendEntries requests a node may receive.                          *)
Replicates(n) == op[n].phase \in {"append", "push"}

Sent(m) ==
    /\ m \in AppendRequests
    /\ \/ m \in late
       \/ \E n, v \in Node : Replicates(n) /\ m = AppendRequest(n, v)

NodeMoves(k) ==
    \/ Stays(peer[k], disk[k], peer'[k], disk'[k])
    \/ \E m \in AppendRequests : Sent(m) /\ Takes(peer[k], disk[k], m, peer'[k], disk'[k])
    \/ Commits(peer[k], disk[k], peer'[k], disk'[k])
    \/ Reloads(disk[k], peer'[k], disk'[k])

(* A candidate wins.                                                       *)
Wins(k) ==
    /\ op[k].phase = "vote" /\ op[k].votes \in Quorums
    /\ peer'[k].match_index = [v \in Node |-> IF v = k THEN Len(peer[k].log) ELSE 0]

(* A leader was the leader before, of the same term and with the same log, *)
(* or has just won.                                                        *)
RoleMoves(k) ==
    peer'[k].role = Leader =>
        /\ peer'[k].current_term = peer[k].current_term /\ peer'[k].log = peer[k].log
        /\ peer[k].role = Leader \/ Wins(k)

(* v may vote for n.                                                       *)
Grants(v, n) ==
    /\ peer[v].current_term <= peer[n].current_term
    /\ LogAtLeastAsUpToDate(peer[v].log, LastLogTerm(peer[n].log), LastLogIndex(peer[n].log))

(* A campaign goes on with more votes, or begins; replication goes on.     *)
VotesMove(n) ==
    /\ op'[n].phase = "vote" =>
          /\ peer'[n].log = peer[n].log
          /\ \/ /\ op[n].phase = "vote" /\ peer'[n].current_term = peer[n].current_term
                /\ \A v \in op'[n].votes \ op[n].votes : Grants(v, n)
             \/ op'[n].votes = {n} /\ peer'[n].current_term = peer[n].current_term + 1
    /\ op'[n].phase \in {"append", "push"} => Replicates(n)

(* v accepts all that leader l has to send and writes it to its files.     *)
Acks(v, l) ==
    /\ v # l /\ Replicates(l) /\ Sent(AppendRequest(l, v))
    /\ Takes(peer[v], disk[v], AppendRequest(l, v), peer'[v], disk'[v])
    /\ Same(peer'[v], disk'[v])
    /\ peer'[l].match_index[v] = LastLogIndex(peer'[v].log)

AcksMove(l) ==
    peer[l].role = Leader /\ peer'[l].role = Leader =>
        \A v \in Node : peer'[l].match_index[v] = peer[l].match_index[v] \/ Acks(v, l)

NewWinners ==
    /\ elected \subseteq elected'
    /\ \A x \in elected' \ elected :
          x[1] = peer[x[2]].current_term /\ peer'[x[2]].role = Leader /\ Wins(x[2])

NewVotes ==
    /\ tally \subseteq tally'
    /\ \A x \in tally' \ tally :
          /\ op'[x[3]].phase = "vote" /\ x[2] \in op'[x[3]].votes
          /\ x[1] = peer'[x[3]].current_term

CommitMoves(k) == Commits(peer[k], disk[k], peer'[k], disk'[k])

NewChosen ==
    \/ /\ chosen' = chosen
       /\ \A k \in Node : CommitMoves(k) => peer'[k].commit_index <= Len(chosen)
    \/ \E k \in Node :
          /\ CommitMoves(k) /\ peer'[k].commit_index > Len(chosen)
          /\ chosen' = SubSeq(peer[k].log, 1, peer'[k].commit_index)
          /\ \A j \in Node \ {k} : ~CommitMoves(j)

OneCommits ==
    \A j, k \in Node :
        /\ peer'[j].commit_index # peer[j].commit_index
        /\ peer'[k].commit_index # peer[k].commit_index
        => j = k

Moves ==
    /\ written' = written
    /\ \A k \in Node : NodeMoves(k) /\ RoleMoves(k) /\ VotesMove(k) /\ AcksMove(k)
    /\ NewWinners /\ NewVotes /\ NewChosen /\ OneCommits
    /\ \A m \in late' : m.kind = "append" => Sent(m)

(* What propose does to the logs: n has the new log G in its files unless  *)
(* the flush did nothing, and in memory if the flush succeeded.            *)
Proposes(n, G, f) ==
    /\ peer[n].role = Leader /\ f \in FlushResult
    /\ G \in Seq(LogEntry) /\ Len(G) = Len(peer[n].log) + 1
    /\ LastLogTerm(G) = peer[n].current_term /\ G[Len(G)].term = peer[n].current_term
    /\ \A j \in 1..Len(peer[n].log) : G[j] = peer[n].log[j]
    /\ \A k \in Node :
          /\ peer'[k].role = peer[k].role /\ peer'[k].current_term = peer[k].current_term
          /\ peer'[k].commit_index = peer[k].commit_index
          /\ k # n => UNCHANGED <<peer[k], disk[k], op[k]>>
    /\ op[n].phase # "vote" /\ op'[n].phase # "vote"
    /\ op'[n].phase \in {"append", "push"} => f = "ok"
    /\ peer'[n].log = IF f = "ok" THEN G ELSE peer[n].log
    /\ disk'[n].log = IF f = "none" THEN disk[n].log ELSE G
    /\ f \in {"none", "log"} => disk'[n].current_term = disk[n].current_term
                               /\ disk'[n].commit_index = disk[n].commit_index
    /\ f \in {"ok", "both"} => disk'[n].current_term = peer[n].current_term
                               /\ disk'[n].commit_index = peer[n].commit_index
    /\ written' = IF f = "none" THEN written ELSE Written(G)
    /\ UNCHANGED <<late, elected, tally, chosen>>
    /\ peer'[n].match_index = [peer[n].match_index EXCEPT ![n] = Len(peer'[n].log)]

=============================================================================
