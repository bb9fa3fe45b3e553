--------------------------- MODULE RaftInvariants ---------------------------
(***************************************************************************)
(* The inductive invariants behind the properties of RaftNode.             *)
(***************************************************************************)
EXTENDS RaftMoves

-----------------------------------------------------------------------------
(* The logs.  Every log is a log that some proposal has written, and no    *)
(* two of those have the same length and last term.  One exception is      *)
(* behind the detail: a proposal whose flush fails may leave its entry in  *)
(* the leader's own file, one index beyond the leader's log in memory, and *)
(* the next proposal writes another entry of the same term and index over  *)
(* it.                                                                     *)

Kept(G) == G = <<>> \/ G \in written

(* G does not have the entry leader n would write next.                    *)
Fresh(n, G) ==
    Len(peer[n].log) < Len(G) => G[Len(peer[n].log) + 1].term # peer[n].current_term

(* A log that may be in use anywhere but in the files of leader k.         *)
Usable(G, k) ==
    /\ Kept(G)
    /\ \A n \in Node \ {k} : peer[n].role = Leader => Fresh(n, G)

Closed ==
    \A a \in written :
        a \in Seq(LogEntry) /\ a # <<>> /\ \A i \in 1..Len(a) : SubSeq(a, 1, i) \in written

Unique ==
    \A a, b \in written : Len(a) = Len(b) /\ LastLogTerm(a) = LastLogTerm(b) => a = b

FromWinners == \A a \in written : \E x \in Node : <<LastLogTerm(a), x>> \in elected

(* A log written in n's term is at most one entry longer than n's.         *)
LeaderLog(n, a) ==
    /\ LastLogTerm(a) = peer[n].current_term => Len(a) <= Len(peer[n].log) + 1
    /\ Fresh(n, a) \/ Len(a) = Len(peer[n].log) + 1

LeaderLogs == \A n \in Node : peer[n].role = Leader => \A a \in written : LeaderLog(n, a)

NodeLogs == \A n \in Node : Usable(peer[n].log, n) /\ Usable(disk[n].log, n)

(* The entries of request m end the log P and follow on what m names as    *)
(* the entry before them.                                                  *)
Carries(m, P) ==
    /\ Continues(P, m.prev_log_index, m.entries)
    /\ TermAt(P, m.prev_log_index) = m.prev_log_term

Backed(m) ==
    m.entries # <<>> => \E P \in written : Carries(m, P) /\ Usable(P, None)

LateLogs == \A m \in late : m.kind = "append" => Backed(m)

LogInv ==
    /\ Closed /\ Unique /\ FromWinners
    /\ LeaderLogs /\ NodeLogs /\ LateLogs

-----------------------------------------------------------------------------
(* The terms.  They grow along every log, the leader of a term writes one  *)
(* log, and a candidate whose log has an entry of a later term is doomed:  *)
(* its voters did not elect the leader of that term, so they are fewer     *)
(* than a majority.                                                        *)

Ordered == \A a \in written : \A j \in 1..Len(a) : \A i \in 1..j : a[i].term <= a[j].term

OneLine ==
    \A a, b \in written :
        LastLogTerm(a) = LastLogTerm(b) /\ Len(a) <= Len(b) => b[Len(a)].term = LastLogTerm(a)

LeaderTerm(n) ==
    LET log == peer[n].log
        t == peer[n].current_term
    IN /\ \A i \in 1..Len(log) : log[i].term <= t
       /\ \A a \in written :
             LastLogTerm(a) = t /\ Len(a) <= Len(log) => log[Len(a)].term = t

LeaderTerms == \A n \in Node : peer[n].role = Leader => LeaderTerm(n)

(* Voter v was not counted for the winner of term s.                       *)
NotCounted(s, v) == \A x \in Node : <<s, x>> \in elected => <<s, v, x>> \notin tally

Doomed ==
    \A n \in Node : op[n].phase = "vote" =>
        \A i \in 1..Len(peer[n].log) :
            peer[n].log[i].term > peer[n].current_term =>
                \A v \in op[n].votes : NotCounted(peer[n].log[i].term, v)

(* A node replicates an entry of its own term.                             *)
ReplicatesOwn ==
    \A n \in Node : Replicates(n) => LastLogTerm(peer[n].log) = peer[n].current_term

TermInv ==
    /\ Ordered /\ OneLine /\ LeaderTerms /\ Doomed /\ ReplicatesOwn
    /\ \A x \in tally : x[1] >= 1
    /\ \A a \in written : Len(a) <= MaxLog

-----------------------------------------------------------------------------
(* Commitment.  A log C, the last entry of which is of term s, is spread   *)
(* over the voters M: they have it in memory and in their files, and       *)
(* whoever they may elect in a later term has it as well.                  *)

Holds(G, C) == Len(C) <= Len(G) /\ G[Len(C)].term = LastLogTerm(C)

SpreadOn(C, v) ==
    /\ peer[v].current_term >= LastLogTerm(C) /\ disk[v].current_term >= LastLogTerm(C)
    /\ Holds(peer[v].log, C) /\ Holds(disk[v].log, C)

CandidatesHold(C, v) ==
    \A n \in Node :
        op[n].phase = "vote" /\ peer[n].current_term > LastLogTerm(C) /\ v \in op[n].votes
            => Holds(peer[n].log, C)

LaterHold(C) == \A a \in written : LastLogTerm(a) > LastLogTerm(C) => Holds(a, C)

LeadersHold(C) ==
    \A n \in Node :
        peer[n].role = Leader /\ peer[n].current_term >= LastLogTerm(C)
            => Holds(peer[n].log, C)

Spread(C, M) ==
    /\ C \in written /\ LaterHold(C) /\ LeadersHold(C)
    /\ \A v \in M : SpreadOn(C, v) /\ CandidatesHold(C, v)

(* Whoever wins a term after that of C has a vote from M.                  *)
Heard(C, M) ==
    \A n \in Node :
        Wins(n) /\ peer[n].current_term > LastLogTerm(C) => op[n].votes \cap M # {}

(* A log that is spread over a majority stays so: it is committed.         *)
Settled(C) == \E Q \in Quorums : Spread(C, Q)

(* Leader l can not commit index i any more: too many voters have gone to  *)
(* later terms.                                                            *)
Past(v, t) == peer[v].current_term > t /\ disk[v].current_term > t

Barred(l, i) ==
    \E Q \in Quorums : \A v \in Q :
        Past(v, peer[l].current_term) /\ peer[l].match_index[v] < i

(* What match_index means to leader l.                                     *)
Acked(l, i) == {v \in Node : peer[l].match_index[v] >= i}

AckedBy(l) ==
    LET log == peer[l].log
    IN /\ peer[l].match_index[l] = Len(log)
       /\ \A v \in Node : peer[l].match_index[v] <= Len(log) \/ Barred(l, Len(log) + 1)
       /\ \A i \in 1..Len(log) : log[i].term = peer[l].current_term =>
             Barred(l, i) \/ Spread(SubSeq(log, 1, i), Acked(l, i))

AckInv == \A l \in Node : peer[l].role = Leader => AckedBy(l)

(* The first c entries of log G are known to be committed in term t.       *)
KnownBy(G, c, t, C) ==
    /\ Settled(C) /\ Holds(chosen, C) /\ LastLogTerm(C) <= t
    /\ c <= Len(C) /\ c <= Len(G) /\ G[c].term = C[c].term

Known(G, c, t) == c = 0 \/ \E C \in written : KnownBy(G, c, t, C)

(* A request carries the whole log of a leader, or asks for an entry that  *)
(* no log has.                                                             *)
Bogus(m) == m.prev_log_index > 0 /\ m.prev_log_term = 0 /\ m.entries = <<>>

Full(m, P) == Carries(m, P) /\ Usable(P, None) /\ LastLogTerm(P) = m.term

WholeLogs ==
    \A m \in AppendRequests : Sent(m) => Bogus(m) \/ \E P \in written : Full(m, P)

Sound(m) ==
    \/ Bogus(m)
    \/ \E P \in written : Full(m, P) /\ Known(P, m.leader_commit, m.term)

CommitInv ==
    /\ chosen # <<>> => Settled(chosen)
    /\ \A n \in Node :
          /\ Known(peer[n].log, peer[n].commit_index, peer[n].current_term)
          /\ Known(disk[n].log, disk[n].commit_index, disk[n].current_term)
          /\ disk[n].commit_index <= peer[n].commit_index
    /\ \A m \in late : m.kind = "append" => Sound(m)

(* What a node treats as committed is a prefix of the committed entries.   *)
KnownLogs == [n \in Node |-> SubSeq(peer[n].log, 1, peer[n].commit_index)]

=============================================================================
