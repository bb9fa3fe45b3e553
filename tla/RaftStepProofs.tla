--------------------------- MODULE RaftStepProofs ---------------------------
(***************************************************************************)
(* What every step of RaftNode does: it keeps the types and the elections, *)
(* and it is a proposal or moves the nodes as RaftMoves says.  The module  *)
(* does not extend RaftLogProofs, nor that this one, and states the few    *)
(* basic facts that both need again.                                       *)
(***************************************************************************)
EXTENDS RaftMoves, TLAPS

-----------------------------------------------------------------------------
(* Logs as sequences.                                                      *)

(* A log is a function on 1..Len.                                          *)
LEMMA SeqLength ==
    ASSUME NEW S, NEW log \in Seq(S)
    PROVE  Len(log) \in Nat /\ DOMAIN log = 1..Len(log) /\ log \in [1..Len(log) -> S]
OBVIOUS

(* What a log holds at an index it has is an entry.                        *)
LEMMA SeqElement == ASSUME NEW S, NEW log \in Seq(S), NEW i \in 1..Len(log) PROVE log[i] \in S
OBVIOUS

(* The empty log is the one of length 0.                                   *)
LEMMA SeqEmpty ==
    ASSUME NEW S
    PROVE  /\ <<>> \in Seq(S) /\ Len(<<>>) = 0
           /\ \A log \in Seq(S) : log # <<>> => Len(log) \in Nat \ {0}
OBVIOUS

(* The entries of two logs one after the other.                            *)
LEMMA SeqConcat ==
    ASSUME NEW S, NEW a \in Seq(S), NEW b \in Seq(S)
    PROVE  /\ a \o b \in Seq(S) /\ Len(a \o b) = Len(a) + Len(b)
           /\ \A i \in 1..(Len(a) + Len(b)) :
                 (a \o b)[i] = IF i <= Len(a) THEN a[i] ELSE b[i - Len(a)]
OBVIOUS

(* The entries of a part of a log.                                         *)
LEMMA SeqPart ==
    ASSUME NEW S, NEW log, NEW i \in Int, NEW j \in Int, \A k \in i..j : log[k] \in S
    PROVE  /\ SubSeq(log, i, j) \in Seq(S)
           /\ Len(SubSeq(log, i, j)) = IF i <= j THEN j - i + 1 ELSE 0
           /\ \A k \in 1..(j - i + 1) : SubSeq(log, i, j)[k] = log[i + k - 1]
OBVIOUS

(* The entries of a log with one entry more.                               *)
LEMMA SeqAppend ==
    ASSUME NEW S, NEW log \in Seq(S), NEW e \in S
    PROVE  /\ Append(log, e) \in Seq(S) /\ Append(log, e) # <<>>
           /\ Len(Append(log, e)) = Len(log) + 1
           /\ \A i \in 1..Len(log) : Append(log, e)[i] = log[i]
           /\ Append(log, e)[Len(log) + 1] = e
OBVIOUS

-----------------------------------------------------------------------------
(* Basic facts.                                                            *)

(* Min and Max of two numbers, as append_entries, load_peer and the        *)
(* back-off of next_index use them.                                        *)
LEMMA MinOfPair ==
    ASSUME NEW a \in Int, NEW b \in Int
    PROVE  Min({a, b}) = IF a <= b THEN a ELSE b
<1> DEFINE m == IF a <= b THEN a ELSE b
<1>1. m \in {a, b} /\ \A y \in {a, b} : m <= y
  OBVIOUS
<1>2. \A x \in {a, b} : (\A y \in {a, b} : x <= y) => x = m
  OBVIOUS
<1> QED
  BY <1>1, <1>2 DEF Min

LEMMA MaxOfPair ==
    ASSUME NEW a \in Int, NEW b \in Int
    PROVE  Max({a, b}) = IF a >= b THEN a ELSE b
<1> DEFINE m == IF a >= b THEN a ELSE b
<1>1. m \in {a, b} /\ \A y \in {a, b} : m >= y
  OBVIOUS
<1>2. \A x \in {a, b} : (\A y \in {a, b} : x >= y) => x = m
  OBVIOUS
<1> QED
  BY <1>1, <1>2 DEF Max

(* What MergeEntries and AdvanceCommit choose exists.                      *)
LEMMA MaxInBounds ==
    ASSUME SetFacts, NEW b \in Nat, NEW S, S \subseteq 0..b, S # {}
    PROVE  Max(S) \in S /\ \A y \in S : Max(S) >= y
  BY Zenon DEF SetFacts

(* What TypeOK says of one node.                                           *)
LEMMA NodeTypes ==
    ASSUME TypeOK, NEW n \in Node
    PROVE  /\ peer[n] \in RaftPeer /\ disk[n] \in PeerFiles /\ op[n] \in Operation
           /\ peer[n].current_term \in Nat /\ peer[n].commit_index \in Nat
           /\ peer[n].log \in Seq(LogEntry)
           /\ op[n].term \in Nat /\ op[n].votes \subseteq Node
  BY Zenon DEF TypeOK, RaftPeer, Operation

LEMMA EmptyLen == Len(<<>>) = 0
  BY SeqEmpty

(* The last term of a log is that of its last entry.                       *)
LEMMA LastTermIs ==
    ASSUME NEW a \in Seq(LogEntry), a # <<>>
    PROVE  /\ Len(a) \in Nat /\ Len(a) >= 1
           /\ LastLogTerm(a) = a[Len(a)].term /\ LastLogTerm(a) \in Nat
<1>1. Len(a) \in Nat /\ Len(a) # 0
  BY SeqLength, SeqEmpty
<1>2. a[Len(a)] \in LogEntry
  BY <1>1, SeqElement
<1> QED BY <1>1, <1>2 DEF LastLogTerm, LogEntry

(* Only a leader replicates.                                               *)
LEMMA ReplicatesLeads ==
    ASSUME ElectionInv, NEW n \in Node, Replicates(n)
    PROVE  peer[n].role = Leader
<1>1. OperationInv(n)
  BY DEF ElectionInv, CampaignInv
<1> QED BY <1>1, Zenon DEF OperationInv, Replicates

-----------------------------------------------------------------------------
(* Type correctness: the operators.                                        *)

LEMMA PeerTypes ==
    ASSUME NEW p \in RaftPeer
    PROVE  /\ LastLogIndex(p.log) \in Nat
           /\ LastLogTerm(p.log) \in Nat
           /\ Saved(p) \in PeerFiles
           /\ \A t \in Nat : BecomeFollower(p, t) \in RaftPeer
           /\ \A n \in Node : BecomeLeader(p, n) \in RaftPeer
<1>1. LastLogIndex(p.log) \in Nat
  BY DEF RaftPeer, LastLogIndex
<1>2. LastLogTerm(p.log) \in Nat
  <2>1. CASE p.log = <<>>
    BY <2>1 DEF LastLogTerm
  <2>2. CASE p.log # <<>>
    <3>1. p.log \in Seq(LogEntry)
      BY DEF RaftPeer
    <3>2. Len(p.log) \in 1..Len(p.log)
      BY <3>1, <2>2
    <3>3. p.log[Len(p.log)] \in LogEntry
      BY <3>1, <3>2, SeqElement
    <3> QED BY <2>2, <3>3 DEF LastLogTerm, LogEntry
  <2> QED BY <2>1, <2>2
<1>3. Saved(p) \in PeerFiles
  BY DEF RaftPeer, PeerFiles, Saved
<1>4. \A t \in Nat : BecomeFollower(p, t) \in RaftPeer
  BY Zenon DEF RaftPeer, BecomeFollower, Follower
<1>5. ASSUME NEW n \in Node
      PROVE  BecomeLeader(p, n) \in RaftPeer
  <2> DEFINE last == LastLogIndex(p.log)
  <2>1. [v \in Node |-> last + 1] \in [Node -> Nat]
    BY <1>1
  <2>2. [v \in Node |-> IF v = n THEN last ELSE 0] \in [Node -> Nat]
    BY <1>1
  <2> HIDE DEF last
  <2> QED BY <2>1, <2>2, Zenon DEF RaftPeer, BecomeLeader, Leader, last
<1> QED BY <1>1, <1>2, <1>3, <1>4, <1>5

LEMMA NewPeerType == NewPeer \in RaftPeer
  BY SeqEmpty DEF NewPeer, RaftPeer, Follower

LEMMA FileTypes ==
    ASSUME NEW d \in PeerFiles
    PROVE  /\ LoadPeer(d) \in RaftPeer
           /\ \A p \in RaftPeer, f \in FlushResult : SavePeer(d, p, f) \in PeerFiles
<1>1. /\ d.commit_index \in Nat /\ d.last_applied \in Nat /\ d.log \in Seq(LogEntry)
      /\ d.current_term \in Nat /\ d.voted_for \in Node \cup {None}
  BY DEF PeerFiles
<1>2. LastLogIndex(d.log) \in Nat
  BY <1>1 DEF LastLogIndex
<1> DEFINE commit == Min({d.commit_index, LastLogIndex(d.log)})
<1>3. commit \in Nat
  BY <1>1, <1>2, MinOfPair
<1>4. Min({d.last_applied, commit}) \in Nat
  <2> HIDE DEF commit
  <2>1. Min({d.last_applied, commit}) =
           IF d.last_applied <= commit THEN d.last_applied ELSE commit
    BY <1>1, <1>3, MinOfPair
  <2> QED BY <1>1, <1>3, <2>1
<1>5. LoadPeer(d) \in RaftPeer
  <2>1. LoadPeer(d) = [NewPeer EXCEPT !.current_term = d.current_term,
                                      !.voted_for = d.voted_for,
                                      !.log = d.log,
                                      !.commit_index = commit,
                                      !.last_applied = Min({d.last_applied, commit})]
    BY DEF LoadPeer
  <2> HIDE DEF commit
  <2> QED BY <1>1, <1>3, <1>4, <2>1, NewPeerType, Zenon DEF RaftPeer
<1>6. ASSUME NEW p \in RaftPeer, NEW f \in FlushResult
      PROVE  SavePeer(d, p, f) \in PeerFiles
  <2>1. Saved(p) \in PeerFiles
    BY PeerTypes
  <2>2. [d EXCEPT !.log = p.log] \in PeerFiles
    BY Zenon DEF PeerFiles, RaftPeer
  <2> QED BY <2>1, <2>2 DEF SavePeer
<1> QED BY <1>5, <1>6

LEMMA TermAtType ==
    ASSUME NEW log \in Seq(LogEntry), NEW i \in Nat
    PROVE  /\ TermAt(log, i) \in Nat \cup {-1}
           /\ TermAt(log, i) # -1 => i <= Len(log)
<1>1. CASE i = 0
  BY <1>1 DEF TermAt
<1>2. CASE i # 0 /\ i \in DOMAIN log
  <2>1. log[i] \in LogEntry /\ i <= Len(log)
    BY <1>2, SeqElement
  <2> QED BY <1>2, <2>1 DEF TermAt, LogEntry
<1>3. CASE i # 0 /\ i \notin DOMAIN log
  BY <1>3 DEF TermAt
<1> QED BY <1>1, <1>2, <1>3

(* What MergeEntries keeps of the follower's log: an agreeing prefix.      *)
LEMMA MergeEntriesType ==
    ASSUME SetFacts, NEW log \in Seq(LogEntry), NEW prev \in 0..Len(log),
           NEW entries \in Seq(LogEntry)
    PROVE  MergeEntries(log, prev, entries) \in Seq(LogEntry)
<1> DEFINE agree == {k \in 0..Len(entries) : \A i \in 1..k :
                        /\ prev + i <= Len(log)
                        /\ log[prev + i].term = entries[i].term}
           k == Max(agree)
<1>1. Len(log) \in Nat /\ Len(entries) \in Nat
  BY SeqLength
<1>2. k \in agree
  <2>1. 0 \in agree
    BY <1>1
  <2>2. agree \subseteq 0..Len(entries)
    OBVIOUS
  <2> HIDE DEF agree
  <2> QED BY <1>1, <2>1, <2>2, MaxInBounds, Zenon
<1>3. k \in 0..Len(entries) /\ prev + k <= Len(log)
  <2> HIDE DEF k
  <2> QED BY <1>1, <1>2
<1>4. SubSeq(log, 1, prev + k) \in Seq(LogEntry)
  <2> HIDE DEF k
  <2>1. \A i \in 1..prev + k : log[i] \in LogEntry
    BY <1>1, <1>3, SeqElement
  <2> QED BY <1>1, <1>3, <2>1, SeqPart
<1>5. SubSeq(entries, k + 1, Len(entries)) \in Seq(LogEntry)
  <2> HIDE DEF k
  <2>1. \A i \in k + 1..Len(entries) : entries[i] \in LogEntry
    BY <1>1, <1>3, SeqElement
  <2> QED BY <1>1, <1>3, <2>1, SeqPart
<1>6. SubSeq(log, 1, prev + k) \o SubSeq(entries, k + 1, Len(entries)) \in Seq(LogEntry)
  <2> HIDE DEF k
  <2> QED BY <1>4, <1>5, SeqConcat
<1> QED
  <2>1. MergeEntries(log, prev, entries) =
           IF k = Len(entries) THEN log
           ELSE SubSeq(log, 1, prev + k) \o SubSeq(entries, k + 1, Len(entries))
    BY DEF MergeEntries
  <2> HIDE DEF k
  <2> QED BY <2>1, <1>6, Zenon

LEMMA VoteRequestType ==
    ASSUME TypeOK, NEW n \in Node, NEW v \in Node
    PROVE  VoteRequest(n, v) \in VoteRequests
<1>1. peer[n] \in RaftPeer
  BY DEF TypeOK
<1>2. /\ peer[n].current_term \in Nat
      /\ LastLogIndex(peer[n].log) \in Nat
      /\ LastLogTerm(peer[n].log) \in Nat
  BY <1>1, PeerTypes, Zenon DEF RaftPeer
<1> QED BY <1>2 DEF VoteRequest, VoteRequests

LEMMA AppendRequestType ==
    ASSUME TypeOK, NEW n \in Node, NEW v \in Node
    PROVE  AppendRequest(n, v) \in AppendRequests
<1> DEFINE p == peer[n]
           next == IF p.next_index[v] = 0 THEN 1 ELSE p.next_index[v]
           last == Min({LastLogIndex(p.log), next + MaxBatch - 1})
           prev_term == Max({TermAt(p.log, next - 1), 0})
           entries == SubSeq(p.log, next, last)
<1>1. /\ p \in RaftPeer
      /\ p.next_index[v] \in Nat /\ p.log \in Seq(LogEntry)
      /\ p.current_term \in Nat /\ p.commit_index \in Nat
  BY Zenon DEF TypeOK, RaftPeer
<1>2. AppendRequest(n, v) =
         [from |-> n, to |-> v, term |-> p.current_term, kind |-> "append",
          prev_log_index |-> next - 1, prev_log_term |-> prev_term,
          entries |-> entries, leader_commit |-> p.commit_index]
  BY DEF AppendRequest
<1> HIDE DEF p
<1>3. next \in Nat /\ next >= 1 /\ next - 1 \in Nat
  BY <1>1
<1> HIDE DEF next
<1>4. prev_term \in Nat
  <2> DEFINE t == TermAt(p.log, next - 1)
  <2>1. t \in Nat \cup {-1}
    BY <1>1, <1>3, TermAtType
  <2> HIDE DEF t
  <2>2. Max({t, 0}) = IF t >= 0 THEN t ELSE 0
    BY <2>1, MaxOfPair
  <2> QED BY <2>1, <2>2 DEF t
<1>5. entries \in Seq(LogEntry)
  <2>1. LastLogIndex(p.log) = Len(p.log) /\ Len(p.log) \in Nat
    BY <1>1, SeqLength DEF LastLogIndex
  <2>2. next + MaxBatch - 1 \in Int
    BY <1>3, BoundAssumption
  <2>3. last \in Int /\ last <= Len(p.log)
    BY <2>1, <2>2, MinOfPair
  <2> HIDE DEF last
  <2>4. \A i \in next..last : p.log[i] \in LogEntry
    BY <1>1, <1>3, <2>1, <2>3, SeqElement
  <2> QED BY <1>3, <2>3, <2>4, SeqPart
<1> HIDE DEF prev_term, entries
<1> QED BY <1>1, <1>2, <1>3, <1>4, <1>5 DEF AppendRequests

(* The two handlers return a peer and files of the right kind.             *)
LEMMA VoteHandlerType ==
    ASSUME NEW p \in RaftPeer, NEW d \in PeerFiles, NEW m \in VoteRequests,
           NEW f \in FlushResult
    PROVE  LET res == HandleRequestVote(p, d, m, f)
           IN res.peer \in RaftPeer /\ res.disk \in PeerFiles
<1> DEFINE q == IF m.term > p.current_term THEN BecomeFollower(p, m.term) ELSE p
           grants == /\ q.voted_for \in {None, m.from}
                     /\ LogAtLeastAsUpToDate(q.log, m.last_log_term, m.last_log_index)
           voted == IF grants THEN [q EXCEPT !.voted_for = m.from] ELSE q
<1>1. m.term \in Nat /\ m.from \in Node
  BY DEF VoteRequests
<1>2. q \in RaftPeer
  BY <1>1, PeerTypes, Zenon
<1>3. voted \in RaftPeer
  <2> HIDE DEF q
  <2>1. [q EXCEPT !.voted_for = m.from] \in RaftPeer
    BY <1>1, <1>2, Zenon DEF RaftPeer
  <2> QED BY <1>2, <2>1
<1>4. HandleRequestVote(p, d, m, f) =
         IF m.term < p.current_term
         THEN [peer |-> p, disk |-> d, granted |-> FALSE, flushed |-> FALSE]
         ELSE [peer |-> IF f = "ok" THEN voted ELSE q,
               disk |-> SavePeer(d, voted, f),
               granted |-> grants /\ f = "ok", flushed |-> TRUE]
  BY DEF HandleRequestVote
<1>5. SavePeer(d, voted, f) \in PeerFiles
  <2> HIDE DEF voted
  <2> QED BY <1>3, FileTypes
<1> HIDE DEF voted, q, grants
<1> QED BY <1>2, <1>3, <1>4, <1>5

LEMMA AppendHandlerType ==
    ASSUME SetFacts, NEW p \in RaftPeer, NEW d \in PeerFiles, NEW m \in AppendRequests,
           NEW f \in FlushResult
    PROVE  LET res == HandleAppendEntries(p, d, m, f)
           IN /\ res.peer \in RaftPeer /\ res.disk \in PeerFiles
              /\ res.match_index \in Nat /\ res.conflict_index \in Nat
<1> DEFINE q == [p EXCEPT !.current_term = m.term, !.role = Follower,
                          !.voted_for = m.from]
           prev == m.prev_log_index
           log == MergeEntries(q.log, prev, m.entries)
           commit == IF m.leader_commit > q.commit_index
                     THEN Min({m.leader_commit, LastLogIndex(log)})
                     ELSE q.commit_index
           r == [q EXCEPT !.log = log, !.commit_index = commit]
           conflict == IF prev <= LastLogIndex(q.log) THEN prev
                       ELSE LastLogIndex(q.log) + 1
<1>1. /\ m.term \in Nat /\ m.from \in Node /\ prev \in Nat
      /\ m.entries \in Seq(LogEntry) /\ m.leader_commit \in Nat
      /\ m.prev_log_term \in Nat
  BY DEF AppendRequests
<1>2. HandleAppendEntries(p, d, m, f) =
         IF m.term < p.current_term
         THEN [peer |-> p, disk |-> d, success |-> FALSE,
               conflict_index |-> 0, match_index |-> 0, flushed |-> FALSE]
         ELSE IF TermAt(q.log, prev) # m.prev_log_term
         THEN [peer |-> q, disk |-> d, success |-> FALSE,
               conflict_index |-> conflict, match_index |-> 0, flushed |-> FALSE]
         ELSE [peer |-> r, disk |-> SavePeer(d, r, f), success |-> f = "ok",
               conflict_index |-> 0, match_index |-> LastLogIndex(r.log),
               flushed |-> TRUE]
  BY DEF HandleAppendEntries
<1>3. q \in RaftPeer /\ q.log \in Seq(LogEntry) /\ q.commit_index \in Nat
  BY <1>1, Zenon DEF RaftPeer, Follower
<1> HIDE DEF q, prev
<1>4. conflict \in Nat
  BY <1>1, <1>3, SeqLength DEF LastLogIndex
<1> HIDE DEF conflict
<1>5. CASE TermAt(q.log, prev) = m.prev_log_term
  <2>1. prev \in 0..Len(q.log)
    BY <1>1, <1>3, <1>5, TermAtType, SeqLength
  <2>2. log \in Seq(LogEntry)
    BY <1>1, <1>3, <2>1, MergeEntriesType
  <2> HIDE DEF log
  <2>3. LastLogIndex(log) \in Nat
    BY <2>2 DEF LastLogIndex
  <2>4. commit \in Nat
    BY <1>1, <1>3, <2>3, MinOfPair
  <2> HIDE DEF commit
  <2>5. r \in RaftPeer /\ r.log = log
    BY <1>3, <2>2, <2>4, Zenon DEF RaftPeer
  <2> HIDE DEF r
  <2>6. SavePeer(d, r, f) \in PeerFiles
    BY <2>5, FileTypes
  <2> QED BY <1>2, <1>5, <2>3, <2>5, <2>6
<1>6. CASE TermAt(q.log, prev) # m.prev_log_term
  <2> HIDE DEF log, commit, r
  <2> QED BY <1>2, <1>3, <1>4, <1>6
<1> QED BY <1>5, <1>6

-----------------------------------------------------------------------------
(* Type correctness: the steps.                                            *)

LEMMA FlushesType ==
    ASSUME TypeOK, NEW made, NEW f, Flushes(made, f)
    PROVE  f \in FlushResult /\ flush_fails' \in 0..MaxFlushFail
  BY BoundAssumption DEF TypeOK, Flushes

LEMMA PeerUpdateType ==
    ASSUME NEW p \in RaftPeer, NEW t \in Nat, NEW r \in {Follower, Candidate, Leader},
           NEW w \in Node \cup {None}
    PROVE  /\ [p EXCEPT !.current_term = t, !.role = r, !.voted_for = w] \in RaftPeer
           /\ [p EXCEPT !.role = r] \in RaftPeer
  BY Zenon DEF RaftPeer

LEMMA IdleType == Idle \in Operation
  BY DEF Idle, Operation

(* What a call leaves of the caller's operation.                           *)
LEMMA OperationUpdateType ==
    ASSUME NEW o \in Operation, NEW v \in Node, NEW g, NEW t \in Nat
    PROVE  /\ [o EXCEPT !.todo = @ \ {v}, !.at = None] \in Operation
           /\ [o EXCEPT !.at = v] \in Operation
           /\ [o EXCEPT !.phase = "higher", !.term = t] \in Operation
           /\ [o EXCEPT !.todo = @ \ {v}, !.votes = IF g THEN @ \cup {v} ELSE @]
                 \in Operation
<1>1. o.todo \ {v} \subseteq Node /\ o.votes \cup {v} \subseteq Node
  BY DEF Operation
<1> QED BY <1>1, Zenon DEF Operation

LEMMA CampaignType ==
    ASSUME TypeOK, NEW n \in Node, NEW f \in FlushResult, Campaign(n, f)
    PROVE  TypeOK'
<1> DEFINE p == [peer[n] EXCEPT !.current_term = @ + 1, !.role = Candidate,
                                !.voted_for = n]
<1>1. p \in RaftPeer /\ [p EXCEPT !.role = Follower] \in RaftPeer /\ p.current_term \in Nat
  <2>1. peer[n].current_term + 1 \in Nat /\ peer[n] \in RaftPeer
    BY NodeTypes, SMTT(30)
  <2>2. p \in RaftPeer
    BY <2>1, PeerUpdateType, Zenon
  <2> HIDE DEF p
  <2> QED BY <2>2, PeerUpdateType, Zenon DEF RaftPeer
<1>2. SavePeer(disk[n], p, f) \in PeerFiles
  <2> HIDE DEF p
  <2> QED BY <1>1, NodeTypes, FileTypes
<1>3. [Idle EXCEPT !.phase = "vote", !.todo = Node \ {n}, !.votes = {n}] \in Operation
  BY IdleType, Zenon DEF Operation
<1>4. disk' = [disk EXCEPT ![n] = SavePeer(@, p, f)]
  BY DEF Campaign
<1>5. peer' = [peer EXCEPT ![n] = p] \/ peer' = [peer EXCEPT ![n] = [p EXCEPT !.role = Follower]]
  BY DEF Campaign
<1>6. op' = op \/ op' = [op EXCEPT ![n] =
                            [Idle EXCEPT !.phase = "vote", !.todo = Node \ {n}, !.votes = {n}]]
  BY DEF Campaign
<1>7. tally' = tally \/ tally' = tally \cup {<<p.current_term, n, n>>}
  BY DEF Campaign
<1>8. UNCHANGED <<late, crashes, elected, chosen, written>> /\ flush_fails' \in 0..MaxFlushFail
  BY FlushesType, Zenon DEF Campaign
<1> HIDE DEF p
<1>9. tally' \subseteq Nat \X Node \X Node
  BY <1>1, <1>7 DEF TypeOK
<1>10. peer' \in [Node -> RaftPeer]
  <2>1. PICK q \in RaftPeer : peer' = [peer EXCEPT ![n] = q]
    BY <1>1, <1>5, Zenon
  <2> QED BY <2>1 DEF TypeOK
<1>11. disk' \in [Node -> PeerFiles]
  BY <1>2, <1>4 DEF TypeOK
<1>12. op' \in [Node -> Operation]
  BY <1>3, <1>6 DEF TypeOK
<1> QED BY <1>8, <1>9, <1>10, <1>11, <1>12, SMTT(30) DEF TypeOK

LEMMA CampaignCallType ==
    ASSUME TypeOK, NEW n \in Node, NEW v \in Node, NEW f \in FlushResult,
           CampaignCall(n, v, f)
    PROVE  TypeOK'
<1> DEFINE res == HandleRequestVote(peer[v], disk[v], VoteRequest(n, v), f)
           term == peer[n].current_term
<1>1. res.peer \in RaftPeer /\ res.disk \in PeerFiles
  BY NodeTypes, VoteRequestType, VoteHandlerType
<1>2. term \in Nat
  BY NodeTypes
<1>3. peer' = [peer EXCEPT ![v] = res.peer] /\ disk' = [disk EXCEPT ![v] = res.disk]
  BY DEF CampaignCall
<1>4. tally' = tally \/ tally' = tally \cup {<<term, v, n>>}
  BY DEF CampaignCall
<1>5. \/ op' = [op EXCEPT ![n] = [op[n] EXCEPT !.phase = "higher", !.term = res.peer.current_term]]
      \/ op' = [op EXCEPT ![n] = [op[n] EXCEPT !.todo = @ \ {v},
                                           !.votes = IF res.granted THEN @ \cup {v} ELSE @]]
  BY DEF CampaignCall
<1>6. UNCHANGED <<late, crashes, elected, chosen, written>> /\ flush_fails' \in 0..MaxFlushFail
  BY FlushesType DEF CampaignCall
<1> HIDE DEF res, term
<1>7. res.peer.current_term \in Nat
  BY <1>1 DEF RaftPeer
<1>8. op' \in [Node -> Operation]
  <2>1. op \in [Node -> Operation]
    BY SMTT(30) DEF TypeOK
  <2>2. /\ [op[n] EXCEPT !.phase = "higher", !.term = res.peer.current_term] \in Operation
        /\ [op[n] EXCEPT !.todo = @ \ {v}, !.votes = IF res.granted THEN @ \cup {v} ELSE @]
              \in Operation
    BY <1>7, <2>1, OperationUpdateType, Zenon
  <2> QED BY <1>5, <2>1, <2>2
<1>9. tally' \subseteq Nat \X Node \X Node
  BY <1>2, <1>4 DEF TypeOK
<1>10. peer' \in [Node -> RaftPeer] /\ disk' \in [Node -> PeerFiles]
  BY <1>1, <1>3 DEF TypeOK
<1> QED BY <1>6, <1>8, <1>9, <1>10 DEF TypeOK

LEMMA GiveUpType ==
    ASSUME TypeOK, NEW n \in Node, NEW v \in Node,
           NEW m \in VoteRequests \cup AppendRequests, GiveUp(n, v, m)
    PROVE  TypeOK'
<1>1. op' \in [Node -> Operation]
  <2>1. op \in [Node -> Operation]
    BY SMTT(30) DEF TypeOK
  <2>2. [op[n] EXCEPT !.todo = @ \ {v}, !.at = None] \in Operation
    BY <2>1, OperationUpdateType, Zenon
  <2> QED BY <2>1, <2>2 DEF GiveUp
<1> QED BY <1>1 DEF TypeOK, GiveUp, history

LEMMA CampaignEndType ==
    ASSUME TypeOK, NEW n \in Node, NEW f \in FlushResult, CampaignEnd(n, f)
    PROVE  TypeOK'
<1> DEFINE won == Cardinality(op[n].votes) >= Quorum
           p == IF won THEN BecomeLeader(peer[n], n)
                ELSE [peer[n] EXCEPT !.role = Follower]
<1>1. p \in RaftPeer
  <2>1. [peer[n] EXCEPT !.role = Follower] \in RaftPeer
    BY NodeTypes, PeerUpdateType, Zenon
  <2> QED BY <2>1, NodeTypes, PeerTypes, Zenon
<1>2. /\ peer' = [peer EXCEPT ![n] = p]
      /\ disk' = [disk EXCEPT ![n] = SavePeer(@, p, f)]
      /\ elected' = elected \/ elected' = elected \cup {<<p.current_term, n>>}
      /\ op' = [op EXCEPT ![n] = Idle]
      /\ UNCHANGED <<late, crashes, tally, chosen, written>>
      /\ flush_fails' \in 0..MaxFlushFail
  BY FlushesType, Zenon DEF CampaignEnd
<1> HIDE DEF p, won
<1>3. SavePeer(disk[n], p, f) \in PeerFiles /\ p.current_term \in Nat
  BY <1>1, NodeTypes, FileTypes, Zenon DEF RaftPeer
<1> QED BY <1>1, <1>2, <1>3, IdleType DEF TypeOK

LEMMA StepDownType ==
    ASSUME TypeOK, NEW n \in Node, NEW f \in FlushResult, StepDown(n, f)
    PROVE  TypeOK'
<1> DEFINE p == [peer[n] EXCEPT !.current_term = op[n].term, !.role = Follower,
                                !.voted_for = None]
<1>1. p \in RaftPeer
  BY NodeTypes, PeerUpdateType, Zenon
<1>2. /\ peer' = [peer EXCEPT ![n] = p]
      /\ disk' = [disk EXCEPT ![n] = SavePeer(@, p, f)]
      /\ op' = [op EXCEPT ![n] = Idle]
      /\ UNCHANGED <<late, crashes, history>>
      /\ flush_fails' \in 0..MaxFlushFail
  BY FlushesType, Zenon DEF StepDown
<1> HIDE DEF p
<1>3. SavePeer(disk[n], p, f) \in PeerFiles
  BY <1>1, NodeTypes, FileTypes
<1> QED BY <1>1, <1>2, <1>3, IdleType, SMTT(30) DEF TypeOK, history

(* A leader's maps after it set one follower's entries.                    *)
LEMMA ProgressType ==
    ASSUME NEW p \in RaftPeer, NEW v \in Node, NEW i \in Nat, NEW j \in Nat
    PROVE  /\ [p EXCEPT !.match_index[v] = i, !.next_index[v] = j] \in RaftPeer
           /\ [p EXCEPT !.next_index[v] = j] \in RaftPeer
<1>1. p.match_index \in [Node -> Nat] /\ p.next_index \in [Node -> Nat]
  BY DEF RaftPeer
<1>2. /\ [p.match_index EXCEPT ![v] = i] \in [Node -> Nat]
      /\ [p.next_index EXCEPT ![v] = j] \in [Node -> Nat]
  BY <1>1
<1> QED BY <1>2, Zenon DEF RaftPeer

LEMMA BackOffType ==
    ASSUME NEW p \in RaftPeer, NEW v \in Node, NEW c \in Nat
    PROVE  BackOff(p, v, c) \in RaftPeer
<1> DEFINE next == IF p.next_index[v] = 0 THEN 1 ELSE p.next_index[v]
           hint == IF c = 0 THEN next - 1 ELSE c
<1>1. p.next_index[v] \in Nat
  BY DEF RaftPeer
<1>2. hint - 1 \in Int
  BY <1>1
<1>3. BackOff(p, v, c) = [p EXCEPT !.next_index[v] = Max({hint - 1, 1})]
  BY DEF BackOff
<1> HIDE DEF hint
<1>4. Max({hint - 1, 1}) \in Nat
  BY <1>2, MaxOfPair
<1>5. [p.next_index EXCEPT ![v] = Max({hint - 1, 1})] \in [Node -> Nat]
  BY <1>4 DEF RaftPeer
<1>6. [p EXCEPT !.next_index = [p.next_index EXCEPT ![v] = Max({hint - 1, 1})]] \in RaftPeer
  BY <1>5, Zenon DEF RaftPeer
<1> QED BY <1>3, <1>6

LEMMA ProposeType ==
    ASSUME TypeOK, NEW n \in Node, NEW command \in Value, NEW f \in FlushResult,
           Propose(n, command, f)
    PROVE  TypeOK'
<1> DEFINE last == LastLogIndex(peer[n].log)
           matched(p, index) == [p EXCEPT !.match_index[n] = index,
                                          !.next_index[n] = index + 1]
           entry == [term |-> peer[n].current_term, command |-> command]
           grown == [peer[n] EXCEPT !.log = Append(@, entry)]
           p1 == matched(grown, last + 1)
           o1 == [Idle EXCEPT !.phase = "append", !.todo = Node \ {n}, !.index = last + 1]
<1>1. last \in Nat /\ peer[n] \in RaftPeer
  BY NodeTypes, PeerTypes, Zenon
<1>2. entry \in LogEntry
  BY NodeTypes DEF LogEntry
<1>3. /\ disk' = [disk EXCEPT ![n] = SavePeer(@, p1, f)]
      /\ \/ peer' = [peer EXCEPT ![n] = p1] /\ op' = [op EXCEPT ![n] = o1]
         \/ peer' = [peer EXCEPT ![n] = matched(peer[n], last)] /\ op' = op
      /\ written' = IF f = "none" THEN written ELSE Written(p1.log)
      /\ UNCHANGED <<late, crashes, elected, tally, chosen>>
      /\ flush_fails' \in 0..MaxFlushFail
  BY FlushesType, Zenon DEF Propose
<1>4. grown \in RaftPeer
  <2>1. Append(peer[n].log, entry) \in Seq(LogEntry)
    <3> HIDE DEF entry
    <3> QED BY <1>2, NodeTypes, SeqAppend
  <2> HIDE DEF entry
  <2> QED BY <1>1, <2>1, Zenon DEF RaftPeer
<1> HIDE DEF grown, last, entry
<1>5. p1 \in RaftPeer /\ matched(peer[n], last) \in RaftPeer
  <2>1. last + 1 \in Nat /\ last + 1 + 1 \in Nat
    BY <1>1
  <2> QED BY <1>1, <1>4, <2>1, ProgressType, Zenon
<1>6. o1 \in Operation
  <2>1. last + 1 \in Nat /\ Node \ {n} \in SUBSET Node
    BY <1>1
  <2> QED BY <2>1, IdleType, Zenon DEF Operation
<1> HIDE DEF p1, matched, o1
<1>7. SavePeer(disk[n], p1, f) \in PeerFiles
  BY <1>5, NodeTypes, FileTypes
<1>8. written' \subseteq Seq(LogEntry)
  <2>1. p1.log \in Seq(LogEntry)
    BY <1>5 DEF RaftPeer
  <2> QED BY <1>3, <2>1, Zenon DEF TypeOK, Written
<1> QED BY <1>3, <1>5, <1>6, <1>7, <1>8, Zenon DEF TypeOK

LEMMA ReplicateCallType ==
    ASSUME SetFacts, TypeOK, NEW n \in Node, NEW v \in Node, NEW f \in FlushResult,
           ReplicateCall(n, v, f)
    PROVE  TypeOK'
<1> DEFINE res == HandleAppendEntries(peer[v], disk[v], AppendRequest(n, v), f)
           peer1 == [peer EXCEPT ![v] = res.peer]
<1>1. /\ res.peer \in RaftPeer /\ res.disk \in PeerFiles
      /\ res.match_index \in Nat /\ res.conflict_index \in Nat
  BY NodeTypes, AppendRequestType, AppendHandlerType, Zenon
<1>2. /\ disk' = [disk EXCEPT ![v] = res.disk]
      /\ \/ peer' = peer1
         \/ peer' = [peer EXCEPT ![v] = res.peer, ![n] = Replicated(@, v, res.match_index)]
         \/ peer' = [peer EXCEPT ![v] = res.peer, ![n] = BackOff(@, v, res.conflict_index)]
      /\ \/ op' = [op EXCEPT ![n] = [op[n] EXCEPT !.phase = "higher",
                                                  !.term = res.peer.current_term]]
         \/ op' = [op EXCEPT ![n] = [op[n] EXCEPT !.todo = @ \ {v}, !.at = None]]
         \/ op' = [op EXCEPT ![n] = [op[n] EXCEPT !.at = v]]
      /\ UNCHANGED <<late, crashes, history>>
      /\ flush_fails' \in 0..MaxFlushFail
  BY FlushesType, Zenon DEF ReplicateCall
<1> HIDE DEF res
<1>3. peer1 \in [Node -> RaftPeer]
  BY <1>1 DEF TypeOK
<1>4. res.peer.current_term \in Nat
  BY <1>1, Zenon DEF RaftPeer
<1>5. op' \in [Node -> Operation]
  <2>1. op \in [Node -> Operation]
    BY DEF TypeOK
  <2>2. /\ [op[n] EXCEPT !.phase = "higher", !.term = res.peer.current_term] \in Operation
        /\ [op[n] EXCEPT !.todo = @ \ {v}, !.at = None] \in Operation
        /\ [op[n] EXCEPT !.at = v] \in Operation
    BY <1>4, <2>1, OperationUpdateType, Zenon
  <2> QED BY <1>2, <2>1, <2>2, SMTT(30)
<1>6. peer' \in [Node -> RaftPeer]
  <2>1. ASSUME NEW p \in RaftPeer
        PROVE  /\ Replicated(p, v, res.match_index) \in RaftPeer
               /\ BackOff(p, v, res.conflict_index) \in RaftPeer
    <3>1. res.match_index + 1 \in Nat
      BY <1>1, SMTT(30)
    <3>2. Replicated(p, v, res.match_index) \in RaftPeer
      BY <1>1, <3>1, ProgressType, Zenon DEF Replicated
    <3> QED BY <1>1, <3>2, BackOffType
  <2>2. \/ peer' = peer1
        \/ peer' = [peer1 EXCEPT ![n] = Replicated(@, v, res.match_index)]
        \/ peer' = [peer1 EXCEPT ![n] = BackOff(@, v, res.conflict_index)]
    BY <1>2
  <2> HIDE DEF peer1
  <2> QED BY <1>3, <2>1, <2>2
<1>7. disk' \in [Node -> PeerFiles]
  BY <1>1, <1>2 DEF TypeOK
<1> QED BY <1>2, <1>5, <1>6, <1>7, Zenon DEF TypeOK, history

LEMMA AdvanceCommitType ==
    ASSUME SetFacts, TypeOK, NEW n \in Node, NEW f \in FlushResult, AdvanceCommit(n, f)
    PROVE  TypeOK'
<1> DEFINE S == Committable(peer[n])
           commit == IF S = {} THEN peer[n].commit_index ELSE Max(S)
           p == [peer[n] EXCEPT !.commit_index = commit]
           pushing == [Idle EXCEPT !.phase = "push", !.todo = Node \ {n}]
<1>1. /\ peer' = [peer EXCEPT ![n] = p]
      /\ \/ disk' = [disk EXCEPT ![n] = SavePeer(@, p, f)]
         \/ disk' = disk
      /\ op' = [op EXCEPT ![n] = pushing] \/ op' = [op EXCEPT ![n] = Idle]
      /\ (S # {} /\ chosen' = SubSeq(p.log, 1, commit)) \/ chosen' = chosen
      /\ UNCHANGED <<late, crashes, elected, tally, written>>
      /\ flush_fails' \in 0..MaxFlushFail
  BY FlushesType, Zenon DEF AdvanceCommit, TypeOK
<1>2. commit \in Nat /\ (S # {} => commit <= Len(peer[n].log))
  <2>1. LastLogIndex(peer[n].log) = Len(peer[n].log) /\ Len(peer[n].log) \in Nat
    BY NodeTypes, SeqLength DEF LastLogIndex
  <2>2. S \subseteq 0..Len(peer[n].log)
    <3>1. \A a, b \in Nat : a + 1 .. b \subseteq 0..b
      OBVIOUS
    <3>2. S \subseteq peer[n].commit_index + 1 .. LastLogIndex(peer[n].log)
      BY Zenon DEF Committable
    <3>3. peer[n].commit_index + 1 .. Len(peer[n].log) \subseteq 0..Len(peer[n].log)
      BY <2>1, <3>1, NodeTypes, Zenon
    <3> QED BY <2>1, <3>2, <3>3, Zenon
  <2>3. CASE S = {}
    BY <2>3, NodeTypes, Zenon
  <2>4. CASE S # {}
    <3> HIDE DEF S
    <3>1. Max(S) \in S
      BY <2>1, <2>2, <2>4, MaxInBounds, Zenon
    <3>2. commit = Max(S)
      BY <2>4
    <3>3. Max(S) \in 0..Len(peer[n].log)
      BY <2>2, <3>1, Zenon
    <3> HIDE DEF commit
    <3> QED BY <2>1, <3>2, <3>3, SMTT(30)
  <2> QED BY <2>3, <2>4, Zenon
<1> HIDE DEF S, commit
<1>3. p \in RaftPeer /\ p.log = peer[n].log
  <2>1. peer[n] \in RaftPeer
    BY NodeTypes
  <2> QED BY <1>2, <2>1, Zenon DEF RaftPeer
<1>4. S # {} => SubSeq(p.log, 1, commit) \in Seq(LogEntry)
  <2> SUFFICES ASSUME S # {} PROVE SubSeq(peer[n].log, 1, commit) \in Seq(LogEntry)
    BY <1>3
  <2>1. \A i \in 1..commit : peer[n].log[i] \in LogEntry
    BY <1>2, NodeTypes, SeqElement, SeqLength
  <2> QED BY <1>2, <2>1, SeqPart
<1>5. pushing \in Operation
  BY IdleType, ZenonT(30) DEF Operation
<1> HIDE DEF p, pushing
<1>6. SavePeer(disk[n], p, f) \in PeerFiles
  BY <1>3, NodeTypes, FileTypes, Zenon
<1> QED BY <1>1, <1>3, <1>4, <1>5, <1>6, IdleType, Zenon DEF TypeOK

LEMMA ExecuteLateType ==
    ASSUME SetFacts, TypeOK, NEW m \in late, NEW f \in FlushResult, ExecuteLate(m, f)
    PROVE  TypeOK'
<1> DEFINE v == m.to
           res == IF m.kind = "vote" THEN HandleRequestVote(peer[v], disk[v], m, f)
                  ELSE HandleAppendEntries(peer[v], disk[v], m, f)
<1>1. \/ m \in VoteRequests /\ m.kind = "vote"
      \/ m \in AppendRequests /\ m.kind = "append"
  BY DEF TypeOK, VoteRequests, AppendRequests
<1>2. v \in Node
  BY <1>1 DEF VoteRequests, AppendRequests
<1>3. res.peer \in RaftPeer /\ res.disk \in PeerFiles
  BY <1>1, <1>2, NodeTypes, VoteHandlerType, AppendHandlerType, Zenon
<1>4. /\ peer' = [peer EXCEPT ![v] = res.peer]
      /\ disk' = [disk EXCEPT ![v] = res.disk]
      /\ late' = late \ {m}
      /\ UNCHANGED <<op, crashes, history>>
      /\ flush_fails' \in 0..MaxFlushFail
  BY FlushesType, Zenon DEF ExecuteLate
<1> HIDE DEF v, res
<1> QED BY <1>2, <1>3, <1>4, Zenon DEF TypeOK, history

LEMMA RestartType ==
    ASSUME TypeOK, NEW n \in Node, Restart(n)
    PROVE  TypeOK'
<1>1. LoadPeer(disk[n]) \in RaftPeer
  BY NodeTypes, FileTypes
<1>2. crashes' \in 0..MaxCrash
  BY BoundAssumption DEF TypeOK, Restart
<1> QED BY <1>1, <1>2, IdleType DEF TypeOK, Restart, history

LEMMA InitType == Init => TypeOK
<1> SUFFICES ASSUME Init PROVE TypeOK
  OBVIOUS
<1>1. Saved(NewPeer) \in PeerFiles
  BY NewPeerType, PeerTypes
<1>2. crashes \in 0..MaxCrash /\ flush_fails \in 0..MaxFlushFail
  BY BoundAssumption DEF Init
<1>3. chosen \in Seq(LogEntry)
  BY SeqEmpty DEF Init
<1> QED BY <1>1, <1>2, <1>3, NewPeerType, IdleType DEF Init, TypeOK

(* Every step is one of the actions.                                       *)
LEMMA NextCases ==
    ASSUME [Next]_vars,
           NEW P,
           UNCHANGED vars => P,
           \A n \in Node, f \in FlushResult : Campaign(n, f) => P,
           \A n, v \in Node, f \in FlushResult : CampaignCall(n, v, f) => P,
           \A n, v \in Node : CampaignGivesUp(n, v) => P,
           \A n \in Node, f \in FlushResult : CampaignEnd(n, f) => P,
           \A n \in Node, f \in FlushResult : StepDown(n, f) => P,
           \A n \in Node, c \in Value, f \in FlushResult : Propose(n, c, f) => P,
           \A n, v \in Node, f \in FlushResult : ReplicateCall(n, v, f) => P,
           \A n, v \in Node : ReplicateGivesUp(n, v) => P,
           \A n \in Node, f \in FlushResult : AdvanceCommit(n, f) => P,
           \A n \in Node : ProposeEnd(n) => P,
           \A m \in late, f \in FlushResult : ExecuteLate(m, f) => P,
           \A n \in Node : Restart(n) => P
    PROVE  P
  BY Zenon DEF Next, Proceed, GivesUp

LEMMA TypeStep ==
    ASSUME SetFacts, TypeOK, [Next]_vars
    PROVE  TypeOK'
<1>1. UNCHANGED vars => TypeOK'
  BY Zenon DEF vars, TypeOK
<1>2. \A n, v \in Node : CampaignGivesUp(n, v) => TypeOK'
  BY VoteRequestType, GiveUpType DEF CampaignGivesUp
<1>3. \A n, v \in Node : ReplicateGivesUp(n, v) => TypeOK'
  BY AppendRequestType, GiveUpType DEF ReplicateGivesUp
<1>4. \A n \in Node : ProposeEnd(n) => TypeOK'
  BY IdleType, Zenon DEF ProposeEnd, TypeOK, history
<1> QED
  BY <1>1, <1>2, <1>3, <1>4, NextCases, CampaignType, CampaignCallType,
     CampaignEndType, StepDownType, ProposeType, ReplicateCallType,
     AdvanceCommitType, ExecuteLateType, RestartType, SMTT(30)

-----------------------------------------------------------------------------
(* Elections: what may become of a vote.                                   *)

(* From the state r of a voter to its next state s no vote is given away:  *)
(* the term grows, or it stays and the vote stays, is given for the first  *)
(* time, or goes to a winner of the term.                                  *)
Keeps(r, s) ==
    \/ s.current_term > r.current_term
    \/ /\ s.current_term = r.current_term
       /\ \/ s.voted_for = r.voted_for
          \/ r.voted_for = None
          \/ <<s.current_term, s.voted_for>> \in elected

SameVote(r, s) == s.current_term = r.current_term /\ s.voted_for = r.voted_for

(* A handler that answered res gives no vote away and makes no leader.     *)
Handled(p, d, res) ==
    /\ Keeps(p, res.peer)
    /\ SameVote(d, res.disk) \/ Keeps(p, res.disk)
    /\ res.peer.role = Leader =>
          p.role = Leader /\ res.peer.current_term = p.current_term

(* No node gives a vote away in this step, in memory or in its files.      *)
VotersKeep ==
    \A v \in Node :
        /\ Keeps(peer[v], peer'[v])
        /\ SameVote(disk[v], disk'[v]) \/ Keeps(peer[v], disk'[v])

LEMMA SavedVote ==
    ASSUME NEW p \in RaftPeer, NEW d \in PeerFiles, NEW f \in FlushResult
    PROVE  /\ \/ SameVote(d, SavePeer(d, p, f))
              \/ SameVote(p, SavePeer(d, p, f))
           /\ f = "ok" => SameVote(p, SavePeer(d, p, f))
<1>1. SameVote(p, Saved(p))
  BY DEF SameVote, Saved
<1>2. SameVote(d, d) /\ SameVote(d, [d EXCEPT !.log = p.log])
  BY DEF SameVote, PeerFiles
<1> QED BY <1>1, <1>2 DEF SavePeer

LEMMA VoteHandlerKeeps ==
    ASSUME NEW p \in RaftPeer, NEW d \in PeerFiles, NEW m \in VoteRequests,
           NEW f \in FlushResult
    PROVE  LET res == HandleRequestVote(p, d, m, f)
           IN /\ Handled(p, d, res)
              /\ res.granted =>
                    /\ m.term >= p.current_term
                    /\ m.term = p.current_term => p.voted_for \in {None, m.from}
                    /\ res.peer.current_term = m.term /\ res.peer.voted_for = m.from
                    /\ SameVote(res.peer, res.disk)
<1> DEFINE res == HandleRequestVote(p, d, m, f)
           result == /\ Handled(p, d, res)
                     /\ res.granted =>
                           /\ m.term >= p.current_term
                           /\ m.term = p.current_term => p.voted_for \in {None, m.from}
                           /\ res.peer.current_term = m.term
                           /\ res.peer.voted_for = m.from
                           /\ SameVote(res.peer, res.disk)
           q == IF m.term > p.current_term THEN BecomeFollower(p, m.term) ELSE p
           grants == /\ q.voted_for \in {None, m.from}
                     /\ LogAtLeastAsUpToDate(q.log, m.last_log_term, m.last_log_index)
           voted == IF grants THEN [q EXCEPT !.voted_for = m.from] ELSE q
<1> HIDE DEF res, result
<1>1. m.term \in Nat /\ m.from \in Node /\ p.current_term \in Nat
  BY DEF VoteRequests, RaftPeer
<1>2. ASSUME m.term < p.current_term PROVE result
  <2>1. res = [peer |-> p, disk |-> d, granted |-> FALSE, flushed |-> FALSE]
    BY <1>2 DEF res, HandleRequestVote
  <2>2. res.peer = p /\ res.disk = d /\ ~res.granted
    BY <2>1
  <2> QED BY <2>2, Zenon DEF Keeps, SameVote, Handled, result
<1>3. ASSUME m.term >= p.current_term PROVE result
  <2>1. res = [peer |-> IF f = "ok" THEN voted ELSE q,
               disk |-> SavePeer(d, voted, f),
               granted |-> grants /\ f = "ok", flushed |-> TRUE]
    <3>1. ~(m.term < p.current_term)
      BY <1>1, <1>3
    <3> QED BY <3>1 DEF res, HandleRequestVote
  <2>2. /\ q \in RaftPeer
        /\ q.current_term = m.term
        /\ m.term = p.current_term => q = p
        /\ q.role = Leader => p.role = Leader /\ q.current_term = p.current_term
    <3>1. CASE m.term > p.current_term
      <4>1. q = BecomeFollower(p, m.term)
        BY <3>1
      <4>2. q \in RaftPeer
        BY <1>1, <4>1, PeerTypes, Zenon
      <4>3. q.current_term = m.term /\ q.role = Follower
        BY <4>1, Zenon DEF BecomeFollower, RaftPeer
      <4> HIDE DEF q
      <4> QED BY <1>1, <3>1, <4>2, <4>3 DEF Follower, Leader
    <3>2. CASE m.term = p.current_term
      BY <1>1, <3>2
    <3> QED BY <1>1, <1>3, <3>1, <3>2
  <2> HIDE DEF q
  <2>3. Keeps(p, q)
    BY <1>1, <1>3, <2>2 DEF Keeps
  <2>4. /\ voted \in RaftPeer
        /\ voted.current_term = q.current_term /\ voted.role = q.role
        /\ grants => voted.voted_for = m.from
        /\ ~grants => voted = q
    BY <1>1, <2>2, ZenonT(30) DEF RaftPeer
  <2>5. grants => q.voted_for \in {None, m.from}
    OBVIOUS
  <2> HIDE DEF grants, voted
  <2>6. Keeps(p, voted)
    BY <1>1, <1>3, <2>2, <2>3, <2>4, <2>5, Zenon DEF Keeps
  <2>7. /\ SameVote(d, res.disk) \/ SameVote(voted, res.disk)
        /\ f = "ok" => SameVote(voted, res.disk)
    BY <2>1, <2>4, SavedVote
  <2>8. SameVote(d, res.disk) \/ Keeps(p, res.disk)
    BY <2>6, <2>7, Zenon DEF Keeps, SameVote
  <2>9. res.peer = IF f = "ok" THEN voted ELSE q
    BY <2>1
  <2>10. ASSUME res.granted
         PROVE  /\ m.term = p.current_term => p.voted_for \in {None, m.from}
                /\ res.peer.current_term = m.term /\ res.peer.voted_for = m.from
                /\ SameVote(res.peer, res.disk)
    <3>1. grants /\ f = "ok"
      <4> DEFINE g == grants /\ f = "ok"
      <4>1. res = [peer |-> IF f = "ok" THEN voted ELSE q,
                   disk |-> SavePeer(d, voted, f), granted |-> g, flushed |-> TRUE]
        BY <2>1, Zenon
      <4> HIDE DEF g
      <4>2. res.granted = g
        BY <4>1
      <4> QED BY <2>10, <4>2, Zenon DEF g
    <3> QED BY <2>2, <2>4, <2>5, <2>7, <2>9, <3>1, Zenon
  <2>11. Keeps(p, res.peer) /\ res.peer.current_term = q.current_term /\ res.peer.role = q.role
    BY <2>3, <2>4, <2>6, <2>9, Zenon
  <2> QED BY <1>3, <2>2, <2>8, <2>10, <2>11, Zenon DEF Handled, result
<1>4. m.term < p.current_term \/ m.term >= p.current_term
  BY <1>1
<1>5. result
  BY <1>2, <1>3, <1>4, Zenon
<1> QED BY <1>5, Zenon DEF res, result

LEMMA AppendHandlerKeeps ==
    ASSUME SetFacts, NEW p \in RaftPeer, NEW d \in PeerFiles, NEW m \in AppendRequests,
           NEW f \in FlushResult, <<m.term, m.from>> \in elected
    PROVE  Handled(p, d, HandleAppendEntries(p, d, m, f))
<1> DEFINE res == HandleAppendEntries(p, d, m, f)
           q == [p EXCEPT !.current_term = m.term, !.role = Follower,
                          !.voted_for = m.from]
           prev == m.prev_log_index
           log == MergeEntries(q.log, prev, m.entries)
           commit == IF m.leader_commit > q.commit_index
                     THEN Min({m.leader_commit, LastLogIndex(log)})
                     ELSE q.commit_index
           r == [q EXCEPT !.log = log, !.commit_index = commit]
<1> HIDE DEF res
<1>1. m.term \in Nat /\ m.from \in Node /\ p.current_term \in Nat
  BY SMTT(30) DEF AppendRequests, RaftPeer
<1>2. ASSUME m.term < p.current_term PROVE Handled(p, d, res)
  <2>1. res = [peer |-> p, disk |-> d, success |-> FALSE,
               conflict_index |-> 0, match_index |-> 0, flushed |-> FALSE]
    BY <1>2 DEF res, HandleAppendEntries
  <2>2. res.peer = p /\ res.disk = d
    BY <2>1
  <2> QED BY <2>2, Zenon DEF Keeps, SameVote, Handled
<1>3. ASSUME m.term >= p.current_term PROVE Handled(p, d, res)
  <2>1. q.current_term = m.term /\ q.voted_for = m.from /\ q.role # Leader
    BY DEF RaftPeer, Follower, Leader
  <2>2. \A s : s.current_term = m.term /\ s.voted_for = m.from => Keeps(p, s)
    BY <1>1, <1>3, SMTT(30) DEF Keeps
  <2>3. ~(m.term < p.current_term)
    BY <1>1, <1>3
  <2>4. CASE TermAt(q.log, prev) # m.prev_log_term
    <3>1. res.peer = q /\ res.disk = d
      BY <2>3, <2>4, SMTT(30) DEF res, HandleAppendEntries
    <3> HIDE DEF q
    <3> QED BY <2>1, <2>2, <3>1, Zenon DEF SameVote, Handled
  <2>5. CASE TermAt(q.log, prev) = m.prev_log_term
    <3>1. res.peer = r /\ res.disk = SavePeer(d, r, f)
      BY <2>3, <2>5 DEF res, HandleAppendEntries
    <3> HIDE DEF log, commit
    <3>2. r.current_term = q.current_term /\ r.voted_for = q.voted_for /\ r.role = q.role
      BY DEF RaftPeer
    <3> HIDE DEF q, r
    <3>3. res.peer \in RaftPeer
      BY AppendHandlerType, Zenon DEF res
    <3>4. SameVote(d, res.disk) \/ SameVote(res.peer, res.disk)
      BY <3>1, <3>3, SavedVote, Zenon
    <3> QED BY <2>1, <2>2, <3>1, <3>2, <3>4, Zenon DEF SameVote, Handled
  <2> QED BY <2>4, <2>5, Zenon
<1>4. m.term < p.current_term \/ m.term >= p.current_term
  BY <1>1
<1> QED BY <1>2, <1>3, <1>4, Zenon DEF res

-----------------------------------------------------------------------------
(* Elections: the steps.                                                   *)

(* A step in which voters keep their votes preserves what is known of the  *)
(* votes already counted.                                                  *)
LEMMA OldVotes ==
    ASSUME TypeOK, TypeOK', VotesRemembered, VotesHonoured, VotersKeep,
           elected \subseteq elected', NEW x \in tally
    PROVE  /\ Honours(peer'[x[2]], x, elected')
           /\ Honours(disk'[x[2]], x, elected')
<1> DEFINE v == x[2]
<1>1. x[1] \in Nat /\ v \in Node /\ x[3] \in Node
  BY Zenon DEF TypeOK
<1>2. x[3] # None /\ <<x[1], None>> \notin elected
  BY <1>1, NodeAssumption, Zenon DEF TypeOK
<1>3. /\ peer[v].current_term \in Nat
      /\ peer'[v].current_term \in Nat /\ disk'[v].current_term \in Nat
  BY <1>1, Zenon DEF TypeOK, RaftPeer, PeerFiles
<1>4. Honours(peer[v], x, elected) /\ Honours(disk[v], x, elected)
  BY Zenon DEF VotesRemembered, VotesHonoured
<1>5. Keeps(peer[v], peer'[v]) /\ (SameVote(disk[v], disk'[v]) \/ Keeps(peer[v], disk'[v]))
  BY <1>1, SMTT(30) DEF VotersKeep
<1> HIDE DEF v
<1>6. ASSUME NEW s, Keeps(peer[v], s), s.current_term \in Nat
      PROVE  Honours(s, x, elected')
  BY <1>1, <1>2, <1>3, <1>4, <1>6, SMTT(30) DEF Keeps, Honours
<1>7. SameVote(disk[v], disk'[v]) => Honours(disk'[v], x, elected')
  BY <1>4, Zenon DEF SameVote, Honours
<1> QED BY <1>3, <1>5, <1>6, <1>7, Zenon DEF v

(* ... and of the nodes that have already won.                             *)
LEMMA OldWinners ==
    ASSUME TypeOK, TypeOK', ElectedInv, VotersKeep, tally \subseteq tally',
           NEW x \in elected
    PROVE  /\ \E Q \in Quorums : \A v \in Q : <<x[1], v, x[2]>> \in tally'
           /\ peer'[x[2]].current_term >= x[1]
           /\ disk'[x[2]].current_term >= x[1]
<1> DEFINE n == x[2]
<1>1. x[1] \in Nat /\ n \in Node
  BY Zenon DEF TypeOK
<1>2. /\ peer[n].current_term \in Nat /\ disk[n].current_term \in Nat
      /\ peer'[n].current_term \in Nat /\ disk'[n].current_term \in Nat
  BY <1>1, Zenon DEF TypeOK, RaftPeer, PeerFiles
<1>3. /\ \E Q \in Quorums : \A v \in Q : <<x[1], v, x[2]>> \in tally
      /\ peer[n].current_term >= x[1] /\ disk[n].current_term >= x[1]
  BY Zenon DEF ElectedInv
<1>4. Keeps(peer[n], peer'[n]) /\ (SameVote(disk[n], disk'[n]) \/ Keeps(peer[n], disk'[n]))
  BY <1>1, Zenon DEF VotersKeep
<1> HIDE DEF n
<1>5. peer'[n].current_term >= x[1] /\ disk'[n].current_term >= x[1]
  BY <1>1, <1>2, <1>3, <1>4, SMTT(30) DEF Keeps, SameVote
<1> QED BY <1>3, <1>5, Zenon DEF n

(* A step that counts no vote and elects nobody.                           *)
LEMMA QuietStep ==
    ASSUME TypeOK, TypeOK', ElectionInv, VotersKeep, UNCHANGED <<tally, elected>>
    PROVE  TallyInv' /\ VotesRemembered' /\ VotesHonoured' /\ ElectedInv'
<1>1. TallyInv'
  BY DEF ElectionInv, TallyInv
<1>2. VotesRemembered' /\ VotesHonoured'
  BY OldVotes, Zenon DEF ElectionInv, VotesRemembered, VotesHonoured
<1>3. ElectedInv'
  <2> SUFFICES ASSUME NEW x \in elected'
               PROVE  /\ \E Q \in Quorums : \A v \in Q : <<x[1], v, x[2]>> \in tally'
                      /\ peer'[x[2]].current_term >= x[1]
                      /\ disk'[x[2]].current_term >= x[1]
    BY Zenon DEF ElectedInv, Quorums, Quorum
  <2> QED BY OldWinners, Zenon DEF ElectionInv
<1> QED BY <1>1, <1>2, <1>3

(* The operation of a node this step does not touch.                       *)
LEMMA OtherOperation ==
    ASSUME NEW k \in Node, OperationInv(k),
           op'[k] = op[k], peer'[k].current_term = peer[k].current_term,
           peer'[k].role = peer[k].role, tally \subseteq tally',
           \A t : <<t, k>> \in elected' <=> <<t, k>> \in elected
    PROVE  OperationInv(k)'
  BY SMTT(30) DEF OperationInv

(* A node that answers a request is idle, and stays leader only of the     *)
(* term it won.                                                            *)
LEMMA IdleOperation ==
    ASSUME NEW k \in Node, OperationInv(k), op'[k].phase = "idle",
           peer'[k].role = Leader =>
              peer[k].role = Leader /\ peer'[k].current_term = peer[k].current_term,
           elected \subseteq elected'
    PROVE  OperationInv(k)'
  BY Zenon DEF OperationInv

LEMMA OneVoterKeeps ==
    ASSUME TypeOK, NEW v \in Node, NEW p, NEW d,
           peer' = [peer EXCEPT ![v] = p], disk' = [disk EXCEPT ![v] = d],
           Keeps(peer[v], p), SameVote(disk[v], d) \/ Keeps(peer[v], d)
    PROVE  VotersKeep
<1>1. \A r : Keeps(r, r) /\ SameVote(r, r)
  BY Zenon DEF Keeps, SameVote
<1>2. \A k \in Node : /\ peer'[k] = IF k = v THEN p ELSE peer[k]
                      /\ disk'[k] = IF k = v THEN d ELSE disk[k]
  BY Zenon DEF TypeOK
<1> QED BY <1>1, <1>2 DEF VotersKeep

LEMMA NobodyVotes ==
    ASSUME UNCHANGED <<peer, disk>>
    PROVE  VotersKeep
  BY Zenon DEF VotersKeep, Keeps, SameVote

(* A node that writes its own peer p, whose vote is kept.                  *)
LEMMA OwnFlushKeeps ==
    ASSUME TypeOK, NEW n \in Node, NEW p \in RaftPeer, NEW s, NEW f \in FlushResult,
           Keeps(peer[n], p), Keeps(peer[n], s),
           peer' = [peer EXCEPT ![n] = s],
           disk' = [disk EXCEPT ![n] = SavePeer(@, p, f)]
    PROVE  VotersKeep
<1>1. disk[n] \in PeerFiles
  BY NodeTypes, Zenon
<1>2. SameVote(disk[n], SavePeer(disk[n], p, f)) \/ Keeps(peer[n], SavePeer(disk[n], p, f))
  BY <1>1, SavedVote, Zenon DEF Keeps, SameVote
<1> QED BY <1>2, OneVoterKeeps, Zenon

LEMMA CampaignElects ==
    ASSUME TypeOK, TypeOK', ElectionInv, NEW n \in Node, NEW f \in FlushResult,
           Campaign(n, f)
    PROVE  ElectionInv'
<1> DEFINE t == peer[n].current_term + 1
           p == [peer[n] EXCEPT !.current_term = @ + 1, !.role = Candidate,
                                !.voted_for = n]
<1>1. /\ peer[n] \in RaftPeer /\ peer[n].current_term \in Nat /\ t \in Nat
      /\ t > peer[n].current_term
  BY NodeTypes, SMTT(30)
<1>2. /\ p \in RaftPeer /\ [p EXCEPT !.role = Follower] \in RaftPeer
      /\ p.current_term = t /\ p.voted_for = n /\ p.role = Candidate
  <2>1. p \in RaftPeer /\ p.current_term = t /\ p.voted_for = n /\ p.role = Candidate
    BY <1>1, PeerUpdateType, Zenon DEF RaftPeer
  <2> HIDE DEF p
  <2> QED BY <2>1, PeerUpdateType, ZenonT(30)
<1>3. /\ disk' = [disk EXCEPT ![n] = SavePeer(@, p, f)]
      /\ UNCHANGED <<late, elected>> /\ op[n].phase = "idle"
  BY DEF Campaign, CanBegin, IsIdle
<1>4. \/ /\ f = "ok" /\ peer' = [peer EXCEPT ![n] = p]
         /\ op' = [op EXCEPT ![n] =
                      [Idle EXCEPT !.phase = "vote", !.todo = Node \ {n}, !.votes = {n}]]
         /\ tally' = tally \cup {<<p.current_term, n, n>>}
      \/ /\ peer' = [peer EXCEPT ![n] = [p EXCEPT !.role = Follower]]
         /\ UNCHANGED <<op, tally>>
  BY DEF Campaign
<1>5. [p EXCEPT !.role = Follower].current_term = t /\ [p EXCEPT !.role = Follower].role = Follower
  BY <1>2 DEF RaftPeer
<1> HIDE DEF p
<1>6. VotersKeep
  <2>1. Keeps(peer[n], p) /\ Keeps(peer[n], [p EXCEPT !.role = Follower])
    BY <1>1, <1>2, <1>5 DEF Keeps
  <2> QED BY <1>2, <1>3, <1>4, <2>1, OwnFlushKeeps, Zenon
<1>7. LateInv'
  BY <1>3, Zenon DEF ElectionInv, LateInv
<1>8. \A k \in Node \ {n} : op'[k] = op[k] /\ peer'[k] = peer[k]
  BY <1>4 DEF TypeOK
<1>9. CASE UNCHANGED <<op, tally>> /\ peer' = [peer EXCEPT ![n] = [p EXCEPT !.role = Follower]]
  <2>1. OperationInv(n)'
    <3>1. op'[n].phase = "idle" /\ peer'[n].role # Leader
      BY <1>3, <1>5, <1>9, SMTT(30) DEF TypeOK, Follower, Leader
    <3> QED BY <1>3, <3>1, IdleOperation, SMTT(30) DEF ElectionInv, CampaignInv
  <2>2. \A k \in Node \ {n} : OperationInv(k)'
    BY <1>3, <1>8, <1>9, OtherOperation, SMTT(30) DEF ElectionInv, CampaignInv
  <2>3. CampaignInv'
    BY <2>1, <2>2 DEF CampaignInv
  <2> QED BY <1>3, <1>6, <1>7, <1>9, <2>3, QuietStep, SMTT(30) DEF ElectionInv
<1>10. CASE /\ f = "ok" /\ peer' = [peer EXCEPT ![n] = p]
            /\ op' = [op EXCEPT ![n] =
                      [Idle EXCEPT !.phase = "vote", !.todo = Node \ {n}, !.votes = {n}]]
            /\ tally' = tally \cup {<<p.current_term, n, n>>}
  <2>1. /\ peer'[n] = p /\ SameVote(p, disk'[n])
        /\ op'[n].phase = "vote" /\ op'[n].votes = {n}
    <3>1. SameVote(p, SavePeer(disk[n], p, f))
      BY <1>2, <1>10, NodeTypes, SavedVote, SMTT(30)
    <3> QED BY <1>3, <1>10, <3>1, SMTT(30) DEF TypeOK, Idle
  <2>2. tally' = tally \cup {<<t, n, n>>}
    BY <1>2, <1>10, SMTT(30)
  <2>3. \A x \in tally : x[2] = n => x[1] < t
    <3>1. \A x \in tally : x[1] \in Nat
      BY Zenon DEF TypeOK
    <3>2. \A x \in tally : x[2] = n => peer[n].current_term >= x[1]
      BY ZenonT(30) DEF ElectionInv, VotesRemembered, Honours
    <3> HIDE DEF t
    <3> QED BY <1>1, <3>1, <3>2, SMTT(30)
  <2>4. <<t, n>> \notin elected
    BY <1>1, SMTT(30) DEF ElectionInv, ElectedInv, TypeOK
  <2>5. TallyInv'
    BY <1>1, <2>2, <2>3 DEF ElectionInv, TallyInv
  <2>6. VotesRemembered' /\ VotesHonoured'
    <3>1. \A x \in tally : Honours(peer'[x[2]], x, elected') /\ Honours(disk'[x[2]], x, elected')
      BY <1>3, <1>6, OldVotes, Zenon DEF ElectionInv
    <3>2. \A x \in {<<t, n, n>>} : Honours(peer'[x[2]], x, elected') /\ Honours(disk'[x[2]], x, elected')
      BY <1>1, <1>2, <2>1, SMTT(30) DEF Honours, SameVote
    <3> QED BY <2>2, <3>1, <3>2, Zenon DEF VotesRemembered, VotesHonoured
  <2>7. ElectedInv'
    <3> SUFFICES ASSUME NEW x \in elected'
                 PROVE  /\ \E Q \in Quorums : \A v \in Q : <<x[1], v, x[2]>> \in tally'
                        /\ peer'[x[2]].current_term >= x[1]
                        /\ disk'[x[2]].current_term >= x[1]
      BY Zenon DEF ElectedInv, Quorums, Quorum
    <3> QED BY <1>3, <1>6, <2>2, OldWinners, Zenon DEF ElectionInv
  <2>8. OperationInv(n)'
    BY <1>2, <1>3, <2>1, <2>2, <2>4, SMTT(30) DEF OperationInv, Candidate, Leader
  <2>9. \A k \in Node \ {n} : OperationInv(k)'
    BY <1>3, <1>8, <2>2, OtherOperation, Zenon DEF ElectionInv, CampaignInv
  <2>10. CampaignInv'
    BY <2>8, <2>9 DEF CampaignInv
  <2> QED BY <1>7, <2>5, <2>6, <2>7, <2>10, SMTT(30) DEF ElectionInv
<1> QED BY <1>4, <1>9, <1>10, SMTT(30)

(* The voter is idle, so it is not the candidate; a vote it grants is the  *)
(* first of its term or repeats one already counted for the candidate.     *)
LEMMA CampaignCallElects ==
    ASSUME TypeOK, TypeOK', ElectionInv, NEW n \in Node, NEW v \in Node,
           NEW f \in FlushResult, CampaignCall(n, v, f)
    PROVE  ElectionInv'
<1> DEFINE t == peer[n].current_term
           m == VoteRequest(n, v)
           res == HandleRequestVote(peer[v], disk[v], m, f)
<1>1. /\ m \in VoteRequests /\ m.term = t /\ m.from = n /\ t \in Nat
      /\ peer[v] \in RaftPeer /\ disk[v] \in PeerFiles /\ peer[v].current_term \in Nat
      /\ op[n] \in Operation
  BY VoteRequestType, NodeTypes, Zenon DEF VoteRequest
<1>2. /\ Keeps(peer[v], res.peer)
      /\ SameVote(disk[v], res.disk) \/ Keeps(peer[v], res.disk)
      /\ res.peer.role = Leader =>
            peer[v].role = Leader /\ res.peer.current_term = peer[v].current_term
      /\ res.granted =>
            /\ m.term >= peer[v].current_term
            /\ m.term = peer[v].current_term => peer[v].voted_for \in {None, m.from}
            /\ res.peer.current_term = m.term /\ res.peer.voted_for = m.from
            /\ SameVote(res.peer, res.disk)
  BY <1>1, VoteHandlerKeeps, ZenonT(30) DEF Handled
<1>3. /\ peer' = [peer EXCEPT ![v] = res.peer] /\ disk' = [disk EXCEPT ![v] = res.disk]
      /\ UNCHANGED <<late, elected>>
      /\ op[n].phase = "vote" /\ op[v].phase = "idle"
      /\ \/ /\ res.peer.current_term > t
            /\ op' = [op EXCEPT ![n] = [op[n] EXCEPT !.phase = "higher",
                                                     !.term = res.peer.current_term]]
            /\ UNCHANGED tally
         \/ /\ op' = [op EXCEPT ![n] = [op[n] EXCEPT !.todo = @ \ {v},
                                !.votes = IF res.granted THEN @ \cup {v} ELSE @]]
            /\ tally' = IF res.granted THEN tally \cup {<<t, v, n>>} ELSE tally
  BY Zenon DEF CampaignCall, IsIdle
<1> HIDE DEF m, res
<1>4. v # n /\ VotersKeep
  BY <1>2, <1>3, OneVoterKeeps, Zenon
<1>5. LateInv'
  BY <1>3 DEF ElectionInv, LateInv
<1>6. /\ peer'[n] = peer[n] /\ peer'[v] = res.peer /\ disk'[v] = res.disk
      /\ op'[v] = op[v] /\ tally \subseteq tally'
      /\ \A k \in Node \ {n, v} : op'[k] = op[k] /\ peer'[k] = peer[k]
  BY <1>3, <1>4, Zenon DEF TypeOK
<1>7. \A k \in Node \ {n} : OperationInv(k)'
  <2>1. \A k \in Node \ {n, v} : OperationInv(k)'
    BY <1>3, <1>6, OtherOperation, SMTT(30) DEF ElectionInv, CampaignInv
  <2>2. OperationInv(v)'
    BY <1>2, <1>3, <1>6, IdleOperation, SMTT(30) DEF ElectionInv, CampaignInv
  <2> QED BY <2>1, <2>2
<1>8. OperationInv(n)
  BY DEF ElectionInv, CampaignInv
<1>9. CASE tally' = tally
  <2>1. OperationInv(n)'
    <3>1. CASE /\ res.peer.current_term > t
               /\ op' = [op EXCEPT ![n] = [op[n] EXCEPT !.phase = "higher",
                                                     !.term = res.peer.current_term]]
      <4>1. op'[n].phase = "higher" /\ op'[n].term = res.peer.current_term
        BY <1>1, <3>1, SMTT(30) DEF TypeOK, Operation
      <4> QED BY <1>3, <1>6, <1>8, <3>1, <4>1, SMTT(30) DEF OperationInv
    <3>2. CASE /\ op' = [op EXCEPT ![n] = [op[n] EXCEPT !.todo = @ \ {v},
                                !.votes = IF res.granted THEN @ \cup {v} ELSE @]]
               /\ tally' = IF res.granted THEN tally \cup {<<t, v, n>>} ELSE tally
      <4>1. /\ op'[n].phase = "vote"
            /\ op'[n].votes = IF res.granted THEN op[n].votes \cup {v} ELSE op[n].votes
        BY <1>1, <1>3, <3>2, SMTT(30) DEF TypeOK, Operation
      <4>2. res.granted => <<t, v, n>> \in tally
        BY <1>9, <3>2
      <4> QED BY <1>3, <1>6, <1>8, <1>9, <4>1, <4>2, SMTT(30) DEF OperationInv
    <3> QED BY <1>3, <3>1, <3>2, SMTT(30)
  <2>2. CampaignInv'
    BY <1>7, <2>1, SMTT(30) DEF CampaignInv
  <2> QED BY <1>3, <1>4, <1>5, <1>9, <2>2, QuietStep, SMTT(30) DEF ElectionInv
<1>10. CASE tally' # tally
  <2>1. /\ res.granted /\ tally' = tally \cup {<<t, v, n>>}
        /\ op' = [op EXCEPT ![n] = [op[n] EXCEPT !.todo = @ \ {v},
                                !.votes = IF res.granted THEN @ \cup {v} ELSE @]]
    BY <1>3, <1>10, SMTT(30)
  <2>2. op'[n].phase = "vote" /\ op'[n].votes = op[n].votes \cup {v}
    BY <1>1, <1>3, <2>1, SMTT(30) DEF TypeOK, Operation
  <2>3. <<t, n>> \notin elected
    BY <1>3, <1>8, SMTT(30) DEF OperationInv
  <2>4. \A x \in tally : x[1] = t /\ x[2] = v => x[3] = n
    <3> SUFFICES ASSUME NEW x \in tally, x[1] = t, x[2] = v
                 PROVE  x[3] = n
      BY Zenon
    <3>1. x[3] \in Node /\ x[3] # None /\ <<x[1], None>> \notin elected
      BY NodeAssumption, Zenon DEF TypeOK
    <3>2. Honours(peer[v], x, elected)
      BY Zenon DEF ElectionInv, VotesRemembered
    <3>3. peer[v].current_term = t /\ peer[v].voted_for \in {None, n}
      BY <1>1, <1>2, <2>1, <3>2, SMTT(30) DEF Honours
    <3> QED BY <2>3, <3>1, <3>2, <3>3, Zenon DEF Honours
  <2>5. TallyInv'
    BY <2>1, <2>4 DEF ElectionInv, TallyInv
  <2>6. VotesRemembered' /\ VotesHonoured'
    <3>1. \A x \in tally : Honours(peer'[x[2]], x, elected') /\ Honours(disk'[x[2]], x, elected')
      BY <1>3, <1>4, OldVotes, SMTT(30) DEF ElectionInv
    <3>2. \A x \in {<<t, v, n>>} : Honours(peer'[x[2]], x, elected') /\ Honours(disk'[x[2]], x, elected')
      BY <1>1, <1>2, <1>6, <2>1, SMTT(30) DEF Honours, SameVote
    <3> QED BY <2>1, <3>1, <3>2, SMTT(30) DEF VotesRemembered, VotesHonoured
  <2>7. ElectedInv'
    <3> SUFFICES ASSUME NEW x \in elected'
                 PROVE  /\ \E Q \in Quorums : \A k \in Q : <<x[1], k, x[2]>> \in tally'
                        /\ peer'[x[2]].current_term >= x[1]
                        /\ disk'[x[2]].current_term >= x[1]
      BY Zenon DEF ElectedInv, Quorums, Quorum
    <3> QED BY <1>3, <1>4, <2>1, OldWinners, SMTT(30) DEF ElectionInv
  <2>8. OperationInv(n)'
    BY <1>3, <1>6, <1>8, <2>1, <2>2, SMTT(30) DEF OperationInv
  <2>9. CampaignInv'
    BY <1>7, <2>8 DEF CampaignInv
  <2> QED BY <1>5, <2>5, <2>6, <2>7, <2>9, SMTT(30) DEF ElectionInv
<1> QED BY <1>9, <1>10, SMTT(30)

(* A request that is given up on is, if an AppendEntries, one of a leader. *)
LEMMA GiveUpElects ==
    ASSUME TypeOK, TypeOK', ElectionInv, NEW n \in Node, NEW v \in Node,
           GivesUp(n, v)
    PROVE  ElectionInv'
<1>1. PICK m : /\ GiveUp(n, v, m)
               /\ m.kind = "append" => <<m.term, m.from>> \in elected
  <2>1. CASE CampaignGivesUp(n, v)
    <3>1. VoteRequest(n, v).kind = "vote"
      BY SMTT(30) DEF VoteRequest
    <3> QED BY <2>1, <3>1, SMTT(30) DEF CampaignGivesUp
  <2>2. CASE ReplicateGivesUp(n, v)
    <3>1. /\ AppendRequest(n, v).term = peer[n].current_term
          /\ AppendRequest(n, v).from = n
      BY Zenon DEF AppendRequest
    <3>2. <<peer[n].current_term, n>> \in elected
      BY <2>2, Zenon DEF ReplicateGivesUp, ElectionInv, CampaignInv, OperationInv
    <3> QED BY <2>2, <3>1, <3>2, Zenon DEF ReplicateGivesUp
  <2> QED BY <2>1, <2>2, SMTT(30) DEF GivesUp
<1>2. /\ UNCHANGED <<peer, disk, tally, elected>>
      /\ op' = [op EXCEPT ![n] = [op[n] EXCEPT !.todo = @ \ {v}, !.at = None]]
      /\ late' = late \/ late' = late \cup {m}
  BY <1>1 DEF GiveUp, history
<1>3. \A k \in Node : /\ op'[k].phase = op[k].phase /\ op'[k].votes = op[k].votes
                      /\ op'[k].term = op[k].term
  <2>1. op[n] \in Operation /\ op \in [Node -> Operation]
    BY Zenon DEF TypeOK
  <2> DEFINE o == [op[n] EXCEPT !.todo = @ \ {v}, !.at = None]
  <2>2. o.phase = op[n].phase /\ o.votes = op[n].votes /\ o.term = op[n].term
    BY <2>1 DEF Operation
  <2>3. \A k \in Node : op'[k] = IF k = n THEN o ELSE op[k]
    BY <1>2, <2>1, SMTT(30)
  <2> HIDE DEF o
  <2> QED BY <2>2, <2>3, SMTT(30)
<1>4. CampaignInv'
  BY <1>2, <1>3, Zenon DEF ElectionInv, CampaignInv, OperationInv
<1>5. LateInv'
  BY <1>1, <1>2, SMTT(30) DEF ElectionInv, LateInv
<1> QED BY <1>2, <1>4, <1>5, NobodyVotes, QuietStep, SMTT(30) DEF ElectionInv

(* A node that ends its own operation with peer p.                         *)
LEMMA OwnStep ==
    ASSUME TypeOK, TypeOK', ElectionInv, NEW n \in Node,
           UNCHANGED <<late, tally, elected>>, VotersKeep, OperationInv(n)',
           \A k \in Node \ {n} : op'[k] = op[k] /\ peer'[k] = peer[k]
    PROVE  ElectionInv'
<1>1. LateInv'
  BY SMTT(30) DEF ElectionInv, LateInv
<1>2. CampaignInv'
  BY OtherOperation, Zenon DEF ElectionInv, CampaignInv
<1> QED BY <1>1, <1>2, QuietStep, SMTT(30) DEF ElectionInv

LEMMA StepDownElects ==
    ASSUME TypeOK, TypeOK', ElectionInv, NEW n \in Node, NEW f \in FlushResult,
           StepDown(n, f)
    PROVE  ElectionInv'
<1> DEFINE p == [peer[n] EXCEPT !.current_term = op[n].term, !.role = Follower,
                                !.voted_for = None]
<1>1. /\ peer' = [peer EXCEPT ![n] = p] /\ disk' = [disk EXCEPT ![n] = SavePeer(@, p, f)]
      /\ op' = [op EXCEPT ![n] = Idle] /\ UNCHANGED <<late, tally, elected>>
      /\ op[n].phase = "higher"
  BY DEF StepDown, history
<1>2. /\ p \in RaftPeer /\ p.current_term = op[n].term /\ p.role # Leader
  <2>1. peer[n] \in RaftPeer /\ op[n].term \in Nat
    BY NodeTypes, Zenon
  <2>2. p \in RaftPeer
    BY <2>1, PeerUpdateType, Zenon
  <2> QED BY <2>1, <2>2, ZenonT(30) DEF RaftPeer, Follower, Leader
<1> HIDE DEF p
<1>3. /\ op[n].term > peer[n].current_term
      /\ op[n].term \in Nat /\ peer[n].current_term \in Nat
  BY <1>1, NodeTypes, Zenon DEF ElectionInv, CampaignInv, OperationInv
<1>4. VotersKeep
  <2>1. Keeps(peer[n], p)
    BY <1>2, <1>3, Zenon DEF Keeps
  <2> QED BY <1>1, <1>2, <2>1, OwnFlushKeeps, ZenonT(30)
<1>5. OperationInv(n)'
  <2>1. op'[n].phase = "idle" /\ peer'[n] = p
    BY <1>1, Zenon DEF TypeOK, Idle
  <2> QED BY <1>1, <1>2, <2>1, IdleOperation, Zenon DEF ElectionInv, CampaignInv
<1>6. \A k \in Node \ {n} : op'[k] = op[k] /\ peer'[k] = peer[k]
  BY <1>1, Zenon DEF TypeOK
<1> QED BY <1>1, <1>4, <1>5, <1>6, OwnStep, Zenon

LEMMA CampaignEndElects ==
    ASSUME TypeOK, TypeOK', ElectionInv, NEW n \in Node, NEW f \in FlushResult,
           CampaignEnd(n, f)
    PROVE  ElectionInv'
<1> DEFINE t == peer[n].current_term
           won == Cardinality(op[n].votes) >= Quorum
           p == IF won THEN BecomeLeader(peer[n], n)
                ELSE [peer[n] EXCEPT !.role = Follower]
<1>1. /\ peer' = [peer EXCEPT ![n] = p] /\ disk' = [disk EXCEPT ![n] = SavePeer(@, p, f)]
      /\ elected' = IF won THEN elected \cup {<<p.current_term, n>>} ELSE elected
      /\ op' = [op EXCEPT ![n] = Idle] /\ UNCHANGED <<late, tally>>
      /\ op[n].phase = "vote"
  BY SMTT(30) DEF CampaignEnd
<1>2. /\ peer[n] \in RaftPeer /\ t \in Nat /\ op[n].votes \subseteq Node
      /\ disk[n] \in PeerFiles
  BY NodeTypes, Zenon
<1>3. /\ p \in RaftPeer /\ p.current_term = t /\ p.voted_for = peer[n].voted_for
      /\ p.role = IF won THEN Leader ELSE Follower
  BY <1>2, PeerTypes, ZenonT(30) DEF BecomeLeader, RaftPeer, Follower
<1> HIDE DEF p
<1>4. VotersKeep
  <2>1. Keeps(peer[n], p)
    BY <1>3, Zenon DEF Keeps
  <2> QED BY <1>1, <1>3, <2>1, OwnFlushKeeps, ZenonT(30)
<1>5. op'[n].phase = "idle" /\ peer'[n] = p
  BY <1>1, Zenon DEF TypeOK, Idle
<1>6. \A k \in Node \ {n} : op'[k] = op[k] /\ peer'[k] = peer[k]
  BY <1>1, Zenon DEF TypeOK
<1>7. OperationInv(n)
  BY DEF ElectionInv, CampaignInv
<1>8. CASE ~won
  <2>1. OperationInv(n)'
    BY <1>1, <1>3, <1>5, <1>7, <1>8, IdleOperation, Zenon DEF Follower, Leader
  <2> QED BY <1>1, <1>4, <1>6, <1>8, <2>1, OwnStep, SMTT(30)
<1>9. CASE won
  <2>1. elected' = elected \cup {<<t, n>>}
    BY <1>1, <1>3, <1>9, SMTT(30)
  <2>2. /\ <<t, n, n>> \in tally
        /\ op[n].votes \in Quorums
        /\ \A v \in op[n].votes : <<t, v, n>> \in tally
    <3>1. /\ <<t, n, n>> \in tally
          /\ \A v \in op[n].votes : <<t, v, n>> \in tally
      BY <1>1, <1>7, Zenon DEF OperationInv
    <3>2. op[n].votes \in Quorums
      BY <1>2, <1>9, Zenon DEF Quorums
    <3> QED BY <3>1, <3>2, Zenon
  <2>3. TallyInv' /\ LateInv'
    BY <1>1, <2>1, Zenon DEF ElectionInv, TallyInv, LateInv
  <2>4. VotesRemembered' /\ VotesHonoured'
    <3>1. \A x \in tally : Honours(peer'[x[2]], x, elected') /\ Honours(disk'[x[2]], x, elected')
      BY <1>4, <2>1, OldVotes, Zenon DEF ElectionInv
    <3> QED BY <1>1, <3>1, ZenonT(30) DEF VotesRemembered, VotesHonoured
  <2>5. ElectedInv'
    <3> SUFFICES ASSUME NEW x \in elected'
                 PROVE  /\ \E Q \in Quorums : \A k \in Q : <<x[1], k, x[2]>> \in tally'
                        /\ peer'[x[2]].current_term >= x[1]
                        /\ disk'[x[2]].current_term >= x[1]
      BY Zenon DEF ElectedInv, Quorums, Quorum
    <3>1. CASE x \in elected
      BY <1>1, <1>4, <3>1, OldWinners, Zenon DEF ElectionInv
    <3>2. CASE x = <<t, n>>
      <4>1. \E Q \in Quorums : \A k \in Q : <<t, k, n>> \in tally'
        BY <1>1, <2>2, Zenon
      <4>2. peer'[n].current_term >= t /\ disk'[n].current_term >= t
        <5>1. <<t, n, n>> \in tally'
          BY <1>1, <2>2, Zenon
        <5> QED BY <2>4, <5>1, ZenonT(30) DEF VotesRemembered, VotesHonoured, Honours
      <4> QED BY <3>2, <4>1, <4>2, Zenon
    <3> QED BY <2>1, <3>1, <3>2, Zenon
  <2>6. OperationInv(n)'
    BY <1>3, <1>5, <2>1, Zenon DEF OperationInv
  <2>7. \A k \in Node \ {n} : OperationInv(k)'
    <3>1. \A k \in Node \ {n} : \A u : <<u, k>> \in elected' <=> <<u, k>> \in elected
      BY <2>1, SMTT(30)
    <3> QED BY <1>1, <1>6, <3>1, OtherOperation, Zenon DEF ElectionInv, CampaignInv
  <2>8. CampaignInv'
    BY <2>6, <2>7 DEF CampaignInv
  <2> QED BY <2>3, <2>4, <2>5, <2>8, SMTT(30) DEF ElectionInv
<1> QED BY <1>8, <1>9

(* The leader's own log and maps do not matter to its vote.                *)
LEMMA ProposeElects ==
    ASSUME TypeOK, TypeOK', ElectionInv, NEW n \in Node, NEW command \in Value,
           NEW f \in FlushResult, Propose(n, command, f)
    PROVE  ElectionInv'
<1> DEFINE last == LastLogIndex(peer[n].log)
           matched(p, index) == [p EXCEPT !.match_index[n] = index,
                                          !.next_index[n] = index + 1]
           entry == [term |-> peer[n].current_term, command |-> command]
           a == [peer[n] EXCEPT !.log = Append(@, entry)]
           p == matched(a, last + 1)
           q == matched(peer[n], last)
<1>1. /\ peer[n] \in RaftPeer /\ entry \in LogEntry /\ last \in Nat
      /\ peer[n].log \in Seq(LogEntry)
  <2>1. /\ peer[n] \in RaftPeer /\ peer[n].current_term \in Nat
        /\ peer[n].log \in Seq(LogEntry)
    BY NodeTypes, Zenon
  <2>2. last \in Nat
    BY <2>1, SMTT(30) DEF LastLogIndex
  <2>3. entry \in LogEntry
    BY <2>1, Zenon DEF LogEntry
  <2> QED BY <2>1, <2>2, <2>3, Zenon
<1>2. a \in RaftPeer /\ SameVote(peer[n], a) /\ a.role = peer[n].role
  <2>1. Append(peer[n].log, entry) \in Seq(LogEntry)
    BY <1>1
  <2> HIDE DEF entry
  <2> QED BY <1>1, <2>1, Zenon DEF RaftPeer, SameVote
<1> HIDE DEF a, last
<1>3. \A r \in RaftPeer : \A i \in Nat :
         matched(r, i) \in RaftPeer /\ SameVote(r, matched(r, i)) /\ matched(r, i).role = r.role
  <2> SUFFICES ASSUME NEW r \in RaftPeer, NEW i \in Nat
               PROVE  /\ matched(r, i) \in RaftPeer /\ SameVote(r, matched(r, i))
                      /\ matched(r, i).role = r.role
    BY Zenon
  <2>1. matched(r, i) \in RaftPeer
    <3>1. i + 1 \in Nat
      OBVIOUS
    <3> QED BY <3>1, ProgressType, Zenon
  <2> QED BY <2>1, ZenonT(30) DEF RaftPeer, SameVote
<1>4. /\ disk' = [disk EXCEPT ![n] = SavePeer(@, p, f)]
      /\ op[n].phase = "idle" /\ peer[n].role = Leader
      /\ \/ /\ peer' = [peer EXCEPT ![n] = p]
            /\ op' = [op EXCEPT ![n] = [Idle EXCEPT !.phase = "append",
                            !.todo = Node \ {n}, !.index = last + 1]]
         \/ peer' = [peer EXCEPT ![n] = q] /\ UNCHANGED op
      /\ UNCHANGED <<late, tally, elected>>
  BY DEF Propose, CanBegin, IsIdle, history, a, last
<1>5. /\ p \in RaftPeer /\ SameVote(peer[n], p) /\ p.role = Leader
      /\ q \in RaftPeer /\ SameVote(peer[n], q) /\ q.role = Leader
  <2>1. last + 1 \in Nat
    BY <1>1, SMTT(30)
  <2>2. p \in RaftPeer /\ SameVote(a, p) /\ p.role = a.role
    BY <1>2, <1>3, <2>1, ZenonT(30)
  <2>3. q \in RaftPeer /\ SameVote(peer[n], q) /\ q.role = peer[n].role
    BY <1>1, <1>3, Zenon
  <2> HIDE DEF p, q
  <2> QED BY <1>2, <1>4, <2>2, <2>3, SMTT(30) DEF SameVote
<1> HIDE DEF p, q
<1>6. VotersKeep
  <2>1. Keeps(peer[n], p) /\ Keeps(peer[n], q)
    BY <1>5, Zenon DEF Keeps, SameVote
  <2> QED BY <1>4, <1>5, <2>1, OwnFlushKeeps, ZenonT(30)
<1>7. OperationInv(n)'
  <2>1. /\ SameVote(peer[n], peer'[n]) /\ peer'[n].role = Leader
        /\ op'[n].phase \in {"idle", "append"}
    BY <1>4, <1>5, ZenonT(30) DEF TypeOK, Idle
  <2> QED BY <1>4, <2>1 DEF ElectionInv, CampaignInv, OperationInv, SameVote, Leader, Candidate
<1>8. \A k \in Node \ {n} : op'[k] = op[k] /\ peer'[k] = peer[k]
  BY <1>4 DEF TypeOK
<1> QED BY <1>4, <1>6, <1>7, <1>8, OwnStep, SMTT(30)

LEMMA AdvanceCommitElects ==
    ASSUME TypeOK, TypeOK', ElectionInv, NEW n \in Node, NEW f \in FlushResult,
           AdvanceCommit(n, f)
    PROVE  ElectionInv'
<1> DEFINE S == Committable(peer[n])
           commit == IF S = {} THEN peer[n].commit_index ELSE Max(S)
           p == [peer[n] EXCEPT !.commit_index = commit]
<1>1. /\ peer' = [peer EXCEPT ![n] = p]
      /\ disk' = [disk EXCEPT ![n] = SavePeer(@, p, f)] \/ UNCHANGED disk
      /\ op' = [op EXCEPT ![n] = [Idle EXCEPT !.phase = "push", !.todo = Node \ {n}]]
         \/ op' = [op EXCEPT ![n] = Idle]
      /\ UNCHANGED <<late, tally, elected>> /\ op[n].phase = "append"
  BY ZenonT(30) DEF AdvanceCommit
<1>2. p \in RaftPeer
  <2> HIDE DEF p
  <2>1. p = peer'[n]
    BY <1>1 DEF TypeOK
  <2> QED BY <2>1, Zenon DEF TypeOK
<1>3. peer[n] \in RaftPeer
  BY NodeTypes, Zenon
<1> HIDE DEF commit
<1>4. SameVote(peer[n], p) /\ p.role = peer[n].role
  BY <1>3 DEF RaftPeer, SameVote
<1> HIDE DEF p
<1>5. VotersKeep
  <2>1. Keeps(peer[n], p) /\ SameVote(disk[n], disk[n])
    BY <1>4, Zenon DEF Keeps, SameVote
  <2>2. disk' = disk => disk' = [disk EXCEPT ![n] = disk[n]]
    BY Zenon DEF TypeOK
  <2> QED BY <1>1, <1>2, <2>1, <2>2, OwnFlushKeeps, OneVoterKeeps, Zenon
<1>6. OperationInv(n)'
  <2>1. peer'[n] = p
    BY <1>1 DEF TypeOK
  <2>2. op'[n].phase \in {"idle", "push"}
    <3>1. /\ [Idle EXCEPT !.phase = "push", !.todo = Node \ {n}].phase = "push"
          /\ Idle.phase = "idle"
      BY DEF Idle
    <3>2. op'[n] \in {[Idle EXCEPT !.phase = "push", !.todo = Node \ {n}], Idle}
      BY <1>1 DEF TypeOK
    <3> QED BY <3>1, <3>2, Zenon
  <2> QED BY <1>1, <1>4, <2>1, <2>2, SMTT(30) DEF ElectionInv, CampaignInv, OperationInv, SameVote
<1>7. \A k \in Node \ {n} : op'[k] = op[k] /\ peer'[k] = peer[k]
  BY <1>1 DEF TypeOK
<1> QED BY <1>1, <1>5, <1>6, <1>7, OwnStep

LEMMA ProposeEndElects ==
    ASSUME TypeOK, TypeOK', ElectionInv, NEW n \in Node, ProposeEnd(n)
    PROVE  ElectionInv'
<1>1. /\ op' = [op EXCEPT ![n] = Idle] /\ UNCHANGED <<peer, disk, late, tally, elected>>
  BY SMTT(30) DEF ProposeEnd, history
<1>2. op'[n].phase = "idle" /\ \A k \in Node \ {n} : op'[k] = op[k] /\ peer'[k] = peer[k]
  BY <1>1, Zenon DEF TypeOK, Idle
<1>3. OperationInv(n)'
  BY <1>1, <1>2, IdleOperation, Zenon DEF ElectionInv, CampaignInv
<1> QED BY <1>1, <1>2, <1>3, NobodyVotes, OwnStep, SMTT(30)

(* The follower answers a leader of a term it won; the leader only moves   *)
(* its indices.                                                            *)
LEMMA ReplicateCallElects ==
    ASSUME SetFacts, TypeOK, TypeOK', ElectionInv, NEW n \in Node, NEW v \in Node,
           NEW f \in FlushResult, ReplicateCall(n, v, f)
    PROVE  ElectionInv'
<1> DEFINE t == peer[n].current_term
           m == AppendRequest(n, v)
           res == HandleAppendEntries(peer[v], disk[v], m, f)
<1>1. /\ m \in AppendRequests /\ m.term = t /\ m.from = n /\ t \in Nat
      /\ peer[v] \in RaftPeer /\ disk[v] \in PeerFiles /\ peer[n] \in RaftPeer
      /\ op[n] \in Operation
  BY AppendRequestType, NodeTypes, ZenonT(30) DEF AppendRequest
<1>2. /\ op[n].phase \in {"append", "push"} /\ op[v].phase = "idle"
      /\ peer[n].role = Leader /\ <<t, n>> \in elected
  BY Zenon DEF ReplicateCall, IsIdle, ElectionInv, CampaignInv, OperationInv
<1>3. /\ Keeps(peer[v], res.peer)
      /\ SameVote(disk[v], res.disk) \/ Keeps(peer[v], res.disk)
      /\ res.peer.role = Leader =>
            peer[v].role = Leader /\ res.peer.current_term = peer[v].current_term
  BY <1>1, <1>2, AppendHandlerKeeps, ZenonT(30) DEF Handled
<1>4. res.match_index \in Nat /\ res.conflict_index \in Nat
  BY <1>1, AppendHandlerType, Zenon
<1>5. /\ disk' = [disk EXCEPT ![v] = res.disk]
      /\ \/ /\ res.peer.current_term > t
            /\ peer' = [peer EXCEPT ![v] = res.peer]
            /\ op' = [op EXCEPT ![n] = [op[n] EXCEPT !.phase = "higher",
                                                 !.term = res.peer.current_term]]
         \/ /\ peer' = [peer EXCEPT ![v] = res.peer,
                                    ![n] = Replicated(@, v, res.match_index)]
            /\ op' = [op EXCEPT ![n] = [op[n] EXCEPT !.todo = @ \ {v}, !.at = None]]
         \/ /\ peer' = [peer EXCEPT ![v] = res.peer,
                                    ![n] = BackOff(@, v, res.conflict_index)]
            /\ op' = [op EXCEPT ![n] = [op[n] EXCEPT !.at = v]]
      /\ UNCHANGED <<late, tally, elected>>
  BY Zenon DEF ReplicateCall, history
<1> HIDE DEF m, res
<1>6. v # n
  BY <1>2, Zenon
<1>7. \A c \in Nat :
         /\ SameVote(peer[n], Replicated(peer[n], v, c)) /\ Replicated(peer[n], v, c).role = Leader
         /\ SameVote(peer[n], BackOff(peer[n], v, c)) /\ BackOff(peer[n], v, c).role = Leader
  BY <1>1, <1>2, SMTT(30) DEF SameVote, Replicated, BackOff, RaftPeer
<1>8. /\ peer'[v] = res.peer /\ op'[v] = op[v]
      /\ SameVote(peer[n], peer'[n]) /\ peer'[n].role = Leader
      /\ \A k \in Node \ {n, v} : op'[k] = op[k] /\ peer'[k] = peer[k]
  <2>1. CASE peer' = [peer EXCEPT ![v] = res.peer]
    BY <1>2, <1>5, <1>6, <2>1, Zenon DEF TypeOK, SameVote
  <2>2. CASE \E q : /\ peer' = [peer EXCEPT ![v] = res.peer, ![n] = q]
                    /\ SameVote(peer[n], q) /\ q.role = Leader
    BY <1>5, <1>6, <2>2, Zenon DEF TypeOK
  <2>3. \/ peer' = [peer EXCEPT ![v] = res.peer]
        \/ peer' = [peer EXCEPT ![v] = res.peer, ![n] = Replicated(peer[n], v, res.match_index)]
        \/ peer' = [peer EXCEPT ![v] = res.peer, ![n] = BackOff(peer[n], v, res.conflict_index)]
    BY <1>5, <1>6, SMTT(30) DEF TypeOK
  <2> QED BY <1>4, <1>7, <2>1, <2>2, <2>3, ZenonT(30)
<1>9. VotersKeep
  <2>1. \A k \in Node \ {v} : disk'[k] = disk[k]
    BY <1>5, SMTT(30) DEF TypeOK
  <2>2. disk'[v] = res.disk
    BY <1>5, SMTT(30) DEF TypeOK
  <2>3. \A r, s : SameVote(r, s) => Keeps(r, s)
    BY Zenon DEF SameVote, Keeps
  <2>4. \A r : Keeps(r, r) /\ SameVote(r, r)
    BY Zenon DEF SameVote, Keeps
  <2>5. \A k \in Node : Keeps(peer[k], peer'[k])
    BY <1>3, <1>8, <2>3, <2>4, Zenon
  <2>6. \A k \in Node : SameVote(disk[k], disk'[k]) \/ Keeps(peer[k], disk'[k])
    BY <1>3, <2>1, <2>2, <2>4, Zenon
  <2> QED BY <2>5, <2>6, Zenon DEF VotersKeep
<1>10. OperationInv(n)'
  <2>1. \/ op'[n].phase \in {"append", "push"}
        \/ /\ op'[n].phase = "higher" /\ op'[n].term = res.peer.current_term
           /\ res.peer.current_term > t
    <3>1. /\ [op[n] EXCEPT !.at = v].phase \in {"append", "push"}
          /\ [op[n] EXCEPT !.todo = @ \ {v}, !.at = None].phase \in {"append", "push"}
      BY <1>1, <1>2 DEF Operation
    <3>2. \A x : /\ [op[n] EXCEPT !.phase = "higher", !.term = x].phase = "higher"
                 /\ [op[n] EXCEPT !.phase = "higher", !.term = x].term = x
      BY <1>1, SMTT(30) DEF Operation
    <3>3. \A o : op' = [op EXCEPT ![n] = o] => op'[n] = o
      BY Zenon DEF TypeOK
    <3>4. \/ op'[n] = [op[n] EXCEPT !.at = v]
          \/ op'[n] = [op[n] EXCEPT !.todo = @ \ {v}, !.at = None]
          \/ /\ res.peer.current_term > t
             /\ op'[n] = [op[n] EXCEPT !.phase = "higher", !.term = res.peer.current_term]
      BY <1>5, <3>3, Zenon
    <3> DEFINE o1 == [op[n] EXCEPT !.at = v]
               o2 == [op[n] EXCEPT !.todo = @ \ {v}, !.at = None]
               o3 == [op[n] EXCEPT !.phase = "higher", !.term = res.peer.current_term]
    <3>5. o3.phase = "higher" /\ o3.term = res.peer.current_term
      BY <3>2
    <3> HIDE DEF o1, o2, o3
    <3> QED BY <3>1, <3>4, <3>5, Zenon DEF o1, o2, o3
  <2> QED BY <1>2, <1>5, <1>8, <2>1, SMTT(30) DEF OperationInv, SameVote
<1>11. CampaignInv'
  <2>1. \A k \in Node \ {n, v} : OperationInv(k)'
    BY <1>5, <1>8, OtherOperation, SMTT(30) DEF ElectionInv, CampaignInv
  <2>2. OperationInv(v)'
    BY <1>2, <1>3, <1>5, <1>8, IdleOperation, SMTT(30) DEF ElectionInv, CampaignInv
  <2> QED BY <1>10, <2>1, <2>2, SMTT(30) DEF CampaignInv
<1>12. LateInv'
  BY <1>5, SMTT(30) DEF ElectionInv, LateInv
<1> QED BY <1>5, <1>9, <1>11, <1>12, QuietStep, SMTT(30) DEF ElectionInv

LEMMA ExecuteLateElects ==
    ASSUME SetFacts, TypeOK, TypeOK', ElectionInv, NEW m \in late, NEW f \in FlushResult,
           ExecuteLate(m, f)
    PROVE  ElectionInv'
<1> DEFINE v == m.to
           res == IF m.kind = "vote" THEN HandleRequestVote(peer[v], disk[v], m, f)
                  ELSE HandleAppendEntries(peer[v], disk[v], m, f)
<1>1. m \in VoteRequests \/ m \in AppendRequests
  BY Zenon DEF TypeOK
<1>2. v \in Node
  BY <1>1 DEF VoteRequests, AppendRequests
<1>3. peer[v] \in RaftPeer /\ disk[v] \in PeerFiles
  BY <1>2, NodeTypes, SMTT(30)
<1>4. Handled(peer[v], disk[v], res)
  <2>1. CASE m \in VoteRequests
    <3>1. res = HandleRequestVote(peer[v], disk[v], m, f)
      BY <2>1, Zenon DEF VoteRequests
    <3>2. Handled(peer[v], disk[v], HandleRequestVote(peer[v], disk[v], m, f))
      BY <1>3, <2>1, VoteHandlerKeeps, Zenon
    <3> QED BY <3>1, <3>2, Zenon
  <2>2. CASE m \in AppendRequests
    <3>1. m.kind = "append"
      BY <2>2, SMTT(30) DEF AppendRequests
    <3>2. res = HandleAppendEntries(peer[v], disk[v], m, f)
      BY <3>1, Zenon
    <3>3. <<m.term, m.from>> \in elected
      BY <3>1, SMTT(30) DEF ElectionInv, LateInv
    <3>4. Handled(peer[v], disk[v], HandleAppendEntries(peer[v], disk[v], m, f))
      BY <1>3, <2>2, <3>3, AppendHandlerKeeps, Zenon
    <3> QED BY <3>2, <3>4, Zenon
  <2> QED BY <1>1, <2>1, <2>2, ZenonT(30)
<1>5. /\ peer' = [peer EXCEPT ![v] = res.peer] /\ disk' = [disk EXCEPT ![v] = res.disk]
      /\ late' \subseteq late /\ UNCHANGED <<op, tally, elected>> /\ op[v].phase = "idle"
  BY ZenonT(30) DEF ExecuteLate, IsIdle, history
<1> HIDE DEF v, res
<1>6. VotersKeep
  BY <1>2, <1>4, <1>5, OneVoterKeeps, ZenonT(30) DEF Handled
<1>7. CampaignInv'
  <2>1. peer'[v] = res.peer /\ \A k \in Node \ {v} : peer'[k] = peer[k]
    BY <1>2, <1>5, Zenon DEF TypeOK
  <2>2. OperationInv(v)'
    <3>1. peer'[v].role = Leader =>
             peer[v].role = Leader /\ peer'[v].current_term = peer[v].current_term
      BY <1>4, <2>1, Zenon DEF Handled
    <3> QED BY <1>2, <1>5, <3>1, IdleOperation, Zenon DEF ElectionInv, CampaignInv
  <2>3. ASSUME NEW k \in Node \ {v}
        PROVE  OperationInv(k)'
    <3>1. OperationInv(k) /\ peer'[k] = peer[k]
      BY <2>1, Zenon DEF ElectionInv, CampaignInv
    <3>2. /\ op'[k] = op[k] /\ peer'[k].current_term = peer[k].current_term
          /\ peer'[k].role = peer[k].role /\ tally' = tally /\ elected' = elected
      BY <1>5, <3>1, Zenon
    <3>3. tally \subseteq tally' /\ \A t : <<t, k>> \in elected' <=> <<t, k>> \in elected
      BY <3>2
    <3> QED BY <3>1, <3>2, <3>3, OtherOperation, Zenon
  <2> QED BY <2>2, <2>3 DEF CampaignInv
<1>8. LateInv'
  BY <1>5, Zenon DEF ElectionInv, LateInv
<1> QED BY <1>5, <1>6, <1>7, <1>8, QuietStep, Zenon DEF ElectionInv

(* The peer comes back with the vote of its files, which keep every vote   *)
(* that was counted.                                                       *)
LEMMA RestartElects ==
    ASSUME TypeOK, TypeOK', ElectionInv, NEW n \in Node, Restart(n)
    PROVE  ElectionInv'
<1>1. /\ peer' = [peer EXCEPT ![n] = LoadPeer(disk[n])] /\ op' = [op EXCEPT ![n] = Idle]
      /\ late' \subseteq late /\ UNCHANGED <<disk, tally, elected>>
  BY Zenon DEF Restart, history
<1>2. SameVote(disk[n], LoadPeer(disk[n])) /\ LoadPeer(disk[n]).role # Leader
  BY SMTT(30) DEF LoadPeer, NewPeer, SameVote, Follower, Leader
<1>3. /\ peer'[n] = LoadPeer(disk[n]) /\ op'[n].phase = "idle"
      /\ \A k \in Node \ {n} : op'[k] = op[k] /\ peer'[k] = peer[k]
  BY <1>1, Zenon DEF TypeOK, Idle
<1>4. CampaignInv'
  <2>1. OperationInv(n)'
    BY <1>1, <1>2, <1>3, IdleOperation, SMTT(30) DEF ElectionInv, CampaignInv
  <2>2. \A k \in Node \ {n} : OperationInv(k)'
    BY <1>1, <1>3, OtherOperation, SMTT(30) DEF ElectionInv, CampaignInv
  <2> QED BY <2>1, <2>2, SMTT(30) DEF CampaignInv
<1>5. LateInv' /\ TallyInv' /\ VotesHonoured'
  BY <1>1, Zenon DEF ElectionInv, LateInv, TallyInv, VotesHonoured
<1>6. VotesRemembered'
  <2> SUFFICES ASSUME NEW x \in tally'
               PROVE  Honours(peer'[x[2]], x, elected')
    BY Zenon DEF VotesRemembered
  <2>1. x \in tally /\ x[2] \in Node
    BY <1>1, Zenon DEF TypeOK
  <2>2. Honours(peer[x[2]], x, elected) /\ Honours(disk[x[2]], x, elected)
    BY <2>1, Zenon DEF ElectionInv, VotesRemembered, VotesHonoured
  <2> QED BY <1>1, <1>2, <1>3, <2>1, <2>2, SMTT(30) DEF Honours, SameVote
<1>7. ElectedInv'
  <2> SUFFICES ASSUME NEW x \in elected'
               PROVE  /\ \E Q \in Quorums : \A k \in Q : <<x[1], k, x[2]>> \in tally'
                      /\ peer'[x[2]].current_term >= x[1]
                      /\ disk'[x[2]].current_term >= x[1]
    BY Zenon DEF ElectedInv, Quorums, Quorum
  <2>1. x \in elected /\ x[2] \in Node
    BY <1>1, Zenon DEF TypeOK
  <2>2. /\ \E Q \in Quorums : \A k \in Q : <<x[1], k, x[2]>> \in tally
        /\ peer[x[2]].current_term >= x[1] /\ disk[x[2]].current_term >= x[1]
    BY <2>1, Zenon DEF ElectionInv, ElectedInv
  <2>3. peer'[x[2]].current_term >= x[1]
    <3>1. CASE x[2] = n
      BY <1>2, <1>3, <2>2, <3>1, Zenon DEF SameVote
    <3>2. CASE x[2] # n
      BY <1>3, <2>1, <2>2, <3>2, Zenon
    <3> QED BY <3>1, <3>2, Zenon
  <2>4. tally' = tally /\ disk' = disk
    BY <1>1, Zenon
  <2> QED BY <2>2, <2>3, <2>4, Zenon
<1> QED BY <1>4, <1>5, <1>6, <1>7, SMTT(30) DEF ElectionInv

LEMMA InitElects == Init => ElectionInv
<1> SUFFICES ASSUME Init PROVE ElectionInv
  OBVIOUS
<1>1. CampaignInv
  BY Zenon DEF Init, CampaignInv, OperationInv, Idle, NewPeer, Follower, Leader
<1>2. LateInv /\ TallyInv /\ VotesRemembered /\ VotesHonoured /\ ElectedInv
  BY Zenon DEF Init, LateInv, TallyInv, VotesRemembered, VotesHonoured, ElectedInv
<1> QED BY <1>1, <1>2, SMTT(30) DEF ElectionInv

LEMMA ElectionStep ==
    ASSUME SetFacts, TypeOK, ElectionInv, [Next]_vars
    PROVE  ElectionInv'
<1>1. TypeOK'
  BY TypeStep, SMTT(30)
<1>2. UNCHANGED vars => ElectionInv'
  BY ZenonT(30) DEF vars, history, ElectionInv, CampaignInv, OperationInv, LateInv, TallyInv,
         VotesRemembered, VotesHonoured, ElectedInv, Honours, Quorums, Quorum
<1>3. \A n, v \in Node : GivesUp(n, v) => ElectionInv'
  BY <1>1, GiveUpElects
<1>4. /\ \A n, v \in Node : CampaignGivesUp(n, v) => ElectionInv'
      /\ \A n, v \in Node : ReplicateGivesUp(n, v) => ElectionInv'
  BY <1>3 DEF GivesUp
<1> QED
  BY <1>1, <1>2, <1>4, NextCases, CampaignElects, CampaignCallElects,
     CampaignEndElects, StepDownElects, ProposeElects, ReplicateCallElects,
     AdvanceCommitElects, ProposeEndElects, ExecuteLateElects, RestartElects, Zenon

-----------------------------------------------------------------------------
(* What every step does to the logs.                                       *)

LEMMA SavedFlushed ==
    ASSUME NEW p \in RaftPeer, NEW d \in PeerFiles, NEW f \in FlushResult
    PROVE  /\ Flushed(d, p, SavePeer(d, p, f))
           /\ f = "ok" => Same(p, SavePeer(d, p, f))
<1>1. Same(p, Saved(p)) /\ Same(d, d)
  BY Zenon DEF Same, Saved
<1>2. LET s == [d EXCEPT !.log = p.log]
      IN s.log = p.log /\ s.current_term = d.current_term /\ s.commit_index = d.commit_index
  BY DEF PeerFiles
<1> QED BY <1>1, <1>2 DEF SavePeer, Flushed

(* A step that leaves a node alone.                                        *)
LEMMA QuietNode ==
    ASSUME NEW p \in RaftPeer, NEW d
    PROVE  Stays(p, d, p, d) /\ Flushed(d, p, d)
  BY DEF Stays, Flushed, Same, RaftPeer

(* handle_request_vote keeps the log; the vote it grants goes to a log at  *)
(* least as up to date.                                                    *)
LEMMA VoteHandlerMoves ==
    ASSUME NEW p \in RaftPeer, NEW d \in PeerFiles, NEW m \in VoteRequests,
           NEW f \in FlushResult
    PROVE  LET res == HandleRequestVote(p, d, m, f)
           IN /\ Stays(p, d, res.peer, res.disk)
              /\ res.peer.role = Leader =>
                    /\ p.role = Leader /\ res.peer.current_term = p.current_term
                    /\ res.peer.match_index = p.match_index
              /\ res.granted =>
                    /\ m.term >= p.current_term
                    /\ LogAtLeastAsUpToDate(p.log, m.last_log_term, m.last_log_index)
<1> DEFINE res == HandleRequestVote(p, d, m, f)
           result == /\ Stays(p, d, res.peer, res.disk)
                     /\ res.peer.role = Leader =>
                           /\ p.role = Leader /\ res.peer.current_term = p.current_term
                           /\ res.peer.match_index = p.match_index
                     /\ res.granted =>
                           /\ m.term >= p.current_term
                           /\ LogAtLeastAsUpToDate(p.log, m.last_log_term, m.last_log_index)
           q == IF m.term > p.current_term THEN BecomeFollower(p, m.term) ELSE p
           grants == /\ q.voted_for \in {None, m.from}
                     /\ LogAtLeastAsUpToDate(q.log, m.last_log_term, m.last_log_index)
           voted == IF grants THEN [q EXCEPT !.voted_for = m.from] ELSE q
<1> HIDE DEF res, result
<1>1. m.term \in Nat /\ m.from \in Node /\ p.current_term \in Nat
  BY DEF VoteRequests, RaftPeer
<1>2. ASSUME m.term < p.current_term PROVE result
  <2>1. res = [peer |-> p, disk |-> d, granted |-> FALSE, flushed |-> FALSE]
    BY <1>2 DEF res, HandleRequestVote
  <2>2. res.peer = p /\ res.disk = d /\ ~res.granted
    BY <2>1
  <2> QED BY <2>2, QuietNode, Zenon DEF result
<1>3. ASSUME ~(m.term < p.current_term) PROVE result
  <2>1. /\ res.peer = IF f = "ok" THEN voted ELSE q
        /\ res.disk = SavePeer(d, voted, f)
        /\ res.granted => grants
    <3> DEFINE g == grants /\ f = "ok"
               x == IF f = "ok" THEN voted ELSE q
               y == SavePeer(d, voted, f)
    <3>1. res = [peer |-> x, disk |-> y, granted |-> g, flushed |-> TRUE]
      BY <1>3, Zenon DEF res, HandleRequestVote
    <3> HIDE DEF g, x, y
    <3>2. res.peer = x /\ res.disk = y /\ res.granted = g
      BY <3>1
    <3> QED BY <3>2, Zenon DEF g, x, y
  <2>2. /\ q \in RaftPeer /\ q.log = p.log /\ q.commit_index = p.commit_index
        /\ q.current_term >= p.current_term
        /\ q.role = Leader => p.role = Leader /\ q.current_term = p.current_term
                              /\ q.match_index = p.match_index
    <3>1. CASE m.term > p.current_term
      <4>1. q = BecomeFollower(p, m.term)
        BY <3>1
      <4>2. q \in RaftPeer
        BY <1>1, <4>1, PeerTypes, Zenon
      <4>3. /\ q.current_term = m.term /\ q.role = Follower /\ q.log = p.log
            /\ q.commit_index = p.commit_index
        BY <4>1, Zenon DEF BecomeFollower, RaftPeer
      <4> HIDE DEF q
      <4> QED BY <1>1, <3>1, <4>2, <4>3 DEF Follower, Leader
    <3>2. CASE ~(m.term > p.current_term)
      BY <1>1, <3>2
    <3> QED BY <3>1, <3>2, Zenon
  <2>3. grants => LogAtLeastAsUpToDate(q.log, m.last_log_term, m.last_log_index)
    BY Zenon
  <2> HIDE DEF q
  <2>4. /\ voted \in RaftPeer /\ voted.log = q.log /\ voted.commit_index = q.commit_index
        /\ voted.current_term = q.current_term /\ voted.role = q.role
        /\ voted.match_index = q.match_index
    BY <1>1, <2>2, ZenonT(30) DEF RaftPeer
  <2> HIDE DEF grants, voted
  <2>5. Flushed(d, voted, res.disk)
    BY <2>1, <2>4, SavedFlushed, Zenon
  <2>6. Flushed(d, res.peer, res.disk)
    BY <2>1, <2>4, <2>5, Zenon DEF Flushed, Same
  <2>7. Stays(p, d, res.peer, res.disk)
    BY <2>1, <2>2, <2>4, <2>6, Zenon DEF Stays
  <2>8. m.term >= p.current_term
    BY <1>1, <1>3
  <2> QED BY <2>1, <2>2, <2>3, <2>4, <2>7, <2>8, Zenon DEF result
<1>4. result
  BY <1>2, <1>3, Zenon
<1> QED BY <1>4, Zenon DEF res, result

(* append_entries keeps the log or takes over the entries of the request;  *)
(* when it answers success the files hold what memory holds.               *)
LEMMA AppendHandlerMoves ==
    ASSUME SetFacts, NEW p \in RaftPeer, NEW d \in PeerFiles, NEW m \in AppendRequests,
           NEW f \in FlushResult
    PROVE  LET res == HandleAppendEntries(p, d, m, f)
           IN /\ \/ Stays(p, d, res.peer, res.disk)
                 \/ Takes(p, d, m, res.peer, res.disk)
              /\ res.peer.role = Leader => res.peer = p
              /\ res.success =>
                    /\ Takes(p, d, m, res.peer, res.disk) /\ Same(res.peer, res.disk)
                    /\ res.match_index = LastLogIndex(res.peer.log)
<1> DEFINE res == HandleAppendEntries(p, d, m, f)
           result == /\ \/ Stays(p, d, res.peer, res.disk)
                        \/ Takes(p, d, m, res.peer, res.disk)
                     /\ res.peer.role = Leader => res.peer = p
                     /\ res.success =>
                           /\ Takes(p, d, m, res.peer, res.disk) /\ Same(res.peer, res.disk)
                           /\ res.match_index = LastLogIndex(res.peer.log)
           q == [p EXCEPT !.current_term = m.term, !.role = Follower,
                          !.voted_for = m.from]
           prev == m.prev_log_index
           log == MergeEntries(q.log, prev, m.entries)
           commit == IF m.leader_commit > q.commit_index
                     THEN Min({m.leader_commit, LastLogIndex(log)})
                     ELSE q.commit_index
           r == [q EXCEPT !.log = log, !.commit_index = commit]
<1> HIDE DEF res, result
<1>1. m.term \in Nat /\ m.from \in Node /\ p.current_term \in Nat
  BY SMTT(30) DEF AppendRequests, RaftPeer
<1>2. ASSUME m.term < p.current_term PROVE result
  <2>1. res = [peer |-> p, disk |-> d, success |-> FALSE,
               conflict_index |-> 0, match_index |-> 0, flushed |-> FALSE]
    BY <1>2 DEF res, HandleAppendEntries
  <2>2. res.peer = p /\ res.disk = d /\ ~res.success
    BY <2>1
  <2> QED BY <2>2, QuietNode, Zenon DEF result
<1>3. ASSUME ~(m.term < p.current_term) PROVE result
  <2>1. /\ q.current_term = m.term /\ q.log = p.log /\ q.commit_index = p.commit_index
        /\ q.role = Follower
    BY DEF RaftPeer
  <2>2. m.term >= p.current_term
    BY <1>1, <1>3
  <2>4. CASE TermAt(q.log, prev) # m.prev_log_term
    <3>1. res.peer = q /\ res.disk = d /\ ~res.success
      BY <1>3, <2>4, SMTT(30) DEF res, HandleAppendEntries
    <3> HIDE DEF q
    <3>2. Stays(p, d, q, d)
      BY <2>1, <2>2, Zenon DEF Stays, Flushed, Same
    <3> QED BY <2>1, <3>1, <3>2, Zenon DEF Follower, Leader, result
  <2>5. CASE TermAt(q.log, prev) = m.prev_log_term
    <3>1. /\ res.peer = r /\ res.disk = SavePeer(d, r, f)
          /\ res.success = (f = "ok") /\ res.match_index = LastLogIndex(r.log)
      BY <1>3, <2>5 DEF res, HandleAppendEntries
    <3>2. /\ log = MergeEntries(p.log, prev, m.entries)
          /\ commit = IF m.leader_commit > p.commit_index
                      THEN Min({m.leader_commit, LastLogIndex(log)})
                      ELSE p.commit_index
      BY <2>1
    <3> HIDE DEF log, commit
    <3>3. /\ r.current_term = q.current_term /\ r.log = log /\ r.commit_index = commit
          /\ r.role = q.role
      BY DEF RaftPeer
    <3> HIDE DEF q, r
    <3>4. res.peer \in RaftPeer
      BY AppendHandlerType, Zenon DEF res
    <3>5. Flushed(d, r, res.disk) /\ (f = "ok" => Same(r, res.disk))
      BY <3>1, <3>4, SavedFlushed, Zenon
    <3>6. Takes(p, d, m, r, res.disk)
      BY <2>1, <2>2, <2>5, <3>2, <3>3, <3>5, Zenon DEF Takes
    <3> QED BY <2>1, <3>1, <3>3, <3>5, <3>6, Zenon DEF Follower, Leader, result
  <2> QED BY <2>4, <2>5
<1>4. result
  BY <1>2, <1>3, Zenon
<1> QED BY <1>4, Zenon DEF res, result

(* A node the step does not touch.                                         *)
LEMMA Unmoved ==
    ASSUME TypeOK, NEW k \in Node, peer'[k] = peer[k], disk'[k] = disk[k]
    PROVE  /\ NodeMoves(k) /\ RoleMoves(k) /\ AcksMove(k) /\ ~CommitMoves(k)
           /\ op'[k] = op[k] => VotesMove(k)
<1>1. peer[k] \in RaftPeer /\ peer[k].commit_index \in Nat
  BY NodeTypes, Zenon
<1>2. NodeMoves(k)
  BY <1>1, QuietNode, Zenon DEF NodeMoves
<1>3. RoleMoves(k) /\ AcksMove(k)
  BY Zenon DEF RoleMoves, AcksMove
<1>4. ~CommitMoves(k)
  <2>1. peer[k].commit_index \notin Committable(peer[k])
    BY <1>1 DEF Committable
  <2> QED BY <2>1, Zenon DEF CommitMoves, Commits
<1>5. op'[k] = op[k] => VotesMove(k)
  BY Zenon DEF VotesMove, Replicates
<1> QED BY <1>2, <1>3, <1>4, <1>5, Zenon

(* advance_commit alone commits.                                           *)
LEMMA NotCommitted ==
    ASSUME TypeOK, NEW k \in Node,
           peer'[k].commit_index = peer[k].commit_index \/ peer'[k].role # Leader
    PROVE  ~CommitMoves(k)
<1>1. peer[k].commit_index \notin Committable(peer[k])
  BY NodeTypes, SMTT(30) DEF Committable
<1> QED BY <1>1, Zenon DEF CommitMoves, Commits

(* A step of one node that elects nobody and commits nothing.              *)
LEMMA OneNodeMoves ==
    ASSUME TypeOK, NEW n \in Node, NodeMoves(n), RoleMoves(n), AcksMove(n), VotesMove(n),
           ~CommitMoves(n), UNCHANGED <<chosen, written>>, NewWinners, NewVotes,
           \A m \in late' : m.kind = "append" => Sent(m),
           \A k \in Node \ {n} : UNCHANGED <<peer[k], disk[k], op[k]>>
    PROVE  Moves
<1>1. \A k \in Node : /\ NodeMoves(k) /\ RoleMoves(k) /\ AcksMove(k) /\ VotesMove(k)
                      /\ ~CommitMoves(k)
  BY Unmoved, Zenon
<1>2. NewChosen
  BY <1>1, Zenon DEF NewChosen
<1>3. OneCommits
  BY Zenon DEF OneCommits
<1> QED BY <1>1, <1>2, <1>3, Zenon DEF Moves

(* Requests that were under way before the step.                           *)
LEMMA LateSent ==
    ASSUME TypeOK, late' \subseteq late
    PROVE  \A m \in late' : m.kind = "append" => Sent(m)
  BY Zenon DEF TypeOK, Sent, VoteRequests

LEMMA CampaignMoves ==
    ASSUME TypeOK, TypeOK', NEW n \in Node, NEW f \in FlushResult, Campaign(n, f)
    PROVE  Moves
<1> DEFINE p == [peer[n] EXCEPT !.current_term = @ + 1, !.role = Candidate, !.voted_for = n]
           p2 == [p EXCEPT !.role = Follower]
           o == [Idle EXCEPT !.phase = "vote", !.todo = Node \ {n}, !.votes = {n}]
<1>1. peer[n] \in RaftPeer /\ peer[n].current_term \in Nat /\ disk[n] \in PeerFiles
  BY NodeTypes, Zenon
<1>2. /\ disk' = [disk EXCEPT ![n] = SavePeer(@, p, f)]
      /\ UNCHANGED <<late, elected, chosen, written>> /\ op[n].phase = "idle"
      /\ \/ /\ peer' = [peer EXCEPT ![n] = p] /\ op' = [op EXCEPT ![n] = o]
            /\ tally' = tally \cup {<<p.current_term, n, n>>}
         \/ /\ peer' = [peer EXCEPT ![n] = p2] /\ UNCHANGED <<op, tally>>
  BY Zenon DEF Campaign, CanBegin, IsIdle
<1>3. /\ p \in RaftPeer /\ p.current_term = peer[n].current_term + 1
      /\ p.log = peer[n].log /\ p.commit_index = peer[n].commit_index /\ p.role = Candidate
  <2>1. peer[n].current_term + 1 \in Nat
    BY <1>1
  <2> QED BY <1>1, <2>1, PeerUpdateType, Zenon DEF RaftPeer
<1> HIDE DEF p
<1>4. /\ p2.current_term = p.current_term /\ p2.log = p.log
      /\ p2.commit_index = p.commit_index /\ p2.role = Follower
  BY <1>3, Zenon DEF RaftPeer
<1> HIDE DEF p2
<1>5. o.phase = "vote" /\ o.votes = {n}
  BY DEF Idle
<1> HIDE DEF o
<1>6. Flushed(disk[n], p, disk'[n])
  <2>1. disk \in [Node -> PeerFiles]
    BY Zenon DEF TypeOK
  <2>2. disk'[n] = SavePeer(disk[n], p, f)
    BY <1>2, <2>1, Zenon
  <2> QED BY <1>1, <1>3, <2>2, SavedFlushed, Zenon
<1>7. /\ peer'[n] \in {p, p2}
      /\ \A k \in Node \ {n} : UNCHANGED <<peer[k], disk[k], op[k]>>
  BY <1>2, Zenon DEF TypeOK
<1>8. Stays(peer[n], disk[n], peer'[n], disk'[n])
  <2>1. \A x \in Nat : x + 1 >= x
    OBVIOUS
  <2>2. p.current_term >= peer[n].current_term
    BY <1>1, <1>3, <2>1, Zenon
  <2>3. /\ peer'[n].current_term = p.current_term /\ peer'[n].log = p.log
        /\ peer'[n].commit_index = p.commit_index
    BY <1>4, <1>7, Zenon
  <2>4. Flushed(disk[n], peer'[n], disk'[n])
    BY <1>6, <2>3, Zenon DEF Flushed, Same
  <2> QED BY <1>3, <2>2, <2>3, <2>4, Zenon DEF Stays
<1>9. peer'[n].role # Leader /\ peer'[n].log = peer[n].log
  BY <1>3, <1>4, <1>7, Zenon DEF Follower, Candidate, Leader
<1>10. VotesMove(n) /\ NewVotes
  <2>1. CASE peer' = [peer EXCEPT ![n] = p2] /\ UNCHANGED <<op, tally>>
    BY <1>2, <2>1, Zenon DEF VotesMove, NewVotes, Replicates
  <2>2. CASE /\ peer' = [peer EXCEPT ![n] = p] /\ op' = [op EXCEPT ![n] = o]
             /\ tally' = tally \cup {<<p.current_term, n, n>>}
    <3>1. peer'[n] = p /\ op'[n] = o
      BY <2>2, Zenon DEF TypeOK
    <3>2. VotesMove(n)
      BY <1>3, <1>5, <1>9, <3>1, Zenon DEF VotesMove
    <3>3. \A x \in tally' \ tally : x = <<p.current_term, n, n>>
      BY <2>2, Zenon
    <3>4. NewVotes
      BY <1>5, <2>2, <3>1, <3>3, SMTT(30) DEF NewVotes
    <3> QED BY <3>2, <3>4
  <2> QED BY <1>2, <2>1, <2>2, Zenon
<1> QED
  BY <1>2, <1>7, <1>8, <1>9, <1>10, OneNodeMoves, NotCommitted, LateSent, Zenon
     DEF NodeMoves, RoleMoves, AcksMove, NewWinners

LEMMA StepDownMoves ==
    ASSUME TypeOK, TypeOK', ElectionInv, NEW n \in Node, NEW f \in FlushResult, StepDown(n, f)
    PROVE  Moves
<1> DEFINE p == [peer[n] EXCEPT !.current_term = op[n].term, !.role = Follower,
                                !.voted_for = None]
<1>1. /\ peer[n] \in RaftPeer /\ peer[n].current_term \in Nat /\ disk[n] \in PeerFiles
      /\ op[n].term \in Nat
  BY NodeTypes, Zenon
<1>2. /\ disk' = [disk EXCEPT ![n] = SavePeer(@, p, f)]
      /\ peer' = [peer EXCEPT ![n] = p] /\ op' = [op EXCEPT ![n] = Idle]
      /\ UNCHANGED <<late, elected, tally, chosen, written>> /\ op[n].phase = "higher"
  BY Zenon DEF StepDown, history
<1>3. /\ p \in RaftPeer /\ p.current_term = op[n].term
      /\ p.log = peer[n].log /\ p.commit_index = peer[n].commit_index /\ p.role = Follower
  BY <1>1, PeerUpdateType, ZenonT(30) DEF RaftPeer
<1> HIDE DEF p
<1>4. op[n].term > peer[n].current_term
  BY <1>2, Zenon DEF ElectionInv, CampaignInv, OperationInv
<1>5. Flushed(disk[n], p, disk'[n])
  <2>1. disk \in [Node -> PeerFiles]
    BY Zenon DEF TypeOK
  <2>2. disk'[n] = SavePeer(disk[n], p, f)
    BY <1>2, <2>1, Zenon
  <2> QED BY <1>1, <1>3, <2>2, SavedFlushed, Zenon
<1>6. /\ peer'[n] = p /\ op'[n] = Idle
      /\ \A k \in Node \ {n} : UNCHANGED <<peer[k], disk[k], op[k]>>
  BY <1>2, Zenon DEF TypeOK
<1>7. Stays(peer[n], disk[n], peer'[n], disk'[n])
  BY <1>1, <1>3, <1>4, <1>5, <1>6, SMTT(30) DEF Stays
<1>8. peer'[n].role # Leader /\ op'[n].phase \notin {"vote", "append", "push"}
  BY <1>3, <1>6, SMTT(30) DEF Follower, Leader, Idle
<1> QED
  BY <1>2, <1>6, <1>7, <1>8, OneNodeMoves, NotCommitted, LateSent, Zenon
     DEF NodeMoves, RoleMoves, AcksMove, VotesMove, NewWinners, NewVotes

LEMMA RestartMoves ==
    ASSUME TypeOK, TypeOK', NEW n \in Node, Restart(n)
    PROVE  Moves
<1> DEFINE p == LoadPeer(disk[n])
<1>1. /\ p.current_term = disk[n].current_term /\ p.log = disk[n].log /\ p.role = Follower
      /\ p.commit_index = Min({disk[n].commit_index, LastLogIndex(disk[n].log)})
  BY ZenonT(30) DEF LoadPeer, NewPeer
<1> HIDE DEF p
<1>2. /\ peer' = [peer EXCEPT ![n] = p] /\ op' = [op EXCEPT ![n] = Idle]
      /\ late' \subseteq late /\ UNCHANGED <<disk, elected, tally, chosen, written>>
  BY Zenon DEF Restart, history, p
<1>3. /\ peer'[n] = p /\ op'[n] = Idle
      /\ \A k \in Node \ {n} : UNCHANGED <<peer[k], disk[k], op[k]>>
  BY <1>2, Zenon DEF TypeOK
<1>4. Reloads(disk[n], peer'[n], disk'[n])
  BY <1>1, <1>2, <1>3, Zenon DEF Reloads
<1>5. peer'[n].role # Leader /\ op'[n].phase \notin {"vote", "append", "push"}
  BY <1>1, <1>3, SMTT(30) DEF Follower, Leader, Idle
<1> QED
  BY <1>2, <1>3, <1>4, <1>5, OneNodeMoves, NotCommitted, LateSent, Zenon
     DEF NodeMoves, RoleMoves, AcksMove, VotesMove, NewWinners, NewVotes

LEMMA CampaignEndMoves ==
    ASSUME TypeOK, TypeOK', ElectionInv, NEW n \in Node, NEW f \in FlushResult,
           CampaignEnd(n, f)
    PROVE  Moves
<1> DEFINE won == Cardinality(op[n].votes) >= Quorum
           p == IF won THEN BecomeLeader(peer[n], n) ELSE [peer[n] EXCEPT !.role = Follower]
<1>1. /\ peer[n] \in RaftPeer /\ peer[n].current_term \in Nat /\ disk[n] \in PeerFiles
      /\ op[n].votes \subseteq Node
  BY NodeTypes, Zenon
<1>2. /\ disk' = [disk EXCEPT ![n] = SavePeer(@, p, f)]
      /\ peer' = [peer EXCEPT ![n] = p] /\ op' = [op EXCEPT ![n] = Idle]
      /\ UNCHANGED <<late, tally, chosen, written>> /\ op[n].phase = "vote"
      /\ elected' = IF won THEN elected \cup {<<p.current_term, n>>} ELSE elected
  BY Zenon DEF CampaignEnd
<1>3. /\ p \in RaftPeer /\ p.current_term = peer[n].current_term
      /\ p.log = peer[n].log /\ p.commit_index = peer[n].commit_index
      /\ IF won THEN /\ p.role = Leader
                     /\ p.match_index = [v \in Node |-> IF v = n THEN Len(peer[n].log) ELSE 0]
                ELSE p.role = Follower
  <2>1. CASE won
    <3>1. p = BecomeLeader(peer[n], n)
      BY <2>1
    <3>2. p \in RaftPeer
      BY <1>1, <3>1, PeerTypes, Zenon
    <3> HIDE DEF p
    <3>3. /\ p.current_term = peer[n].current_term
          /\ p.log = peer[n].log /\ p.commit_index = peer[n].commit_index /\ p.role = Leader
          /\ p.match_index = [v \in Node |-> IF v = n THEN Len(peer[n].log) ELSE 0]
      BY <1>1, <3>1, SMTT(30) DEF BecomeLeader, RaftPeer, LastLogIndex
    <3> QED BY <2>1, <3>2, <3>3, Zenon
  <2>2. CASE ~won
    BY <1>1, <2>2, PeerUpdateType, Zenon DEF RaftPeer
  <2> QED BY <2>1, <2>2, Zenon
<1>4. won => op[n].votes \in Quorums
  BY <1>1, Zenon DEF Quorums
<1> HIDE DEF won, p
<1>5. Flushed(disk[n], p, disk'[n])
  <2>1. disk \in [Node -> PeerFiles]
    BY Zenon DEF TypeOK
  <2>2. disk'[n] = SavePeer(disk[n], p, f)
    BY <1>2, <2>1, Zenon
  <2> QED BY <1>1, <1>3, <2>2, SavedFlushed, Zenon
<1>6. /\ peer'[n] = p /\ op'[n] = Idle
      /\ \A k \in Node \ {n} : UNCHANGED <<peer[k], disk[k], op[k]>>
  BY <1>2, Zenon DEF TypeOK
<1>7. Stays(peer[n], disk[n], peer'[n], disk'[n])
  <2>1. peer[n].current_term >= peer[n].current_term
    BY <1>1, SMTT(30)
  <2> QED BY <1>3, <1>5, <1>6, <2>1, Zenon DEF Stays
<1>8. won => Wins(n)
  BY <1>2, <1>3, <1>4, <1>6, Zenon DEF Wins
<1>9. p.role = Leader => won
  BY <1>3, Zenon DEF Leader, Follower
<1>10. RoleMoves(n)
  <2>1. peer'[n].current_term = peer[n].current_term /\ peer'[n].log = peer[n].log
    BY <1>3, <1>6, Zenon
  <2>2. peer'[n].role = Leader => won
    BY <1>6, <1>9, Zenon
  <2> QED BY <1>8, <2>1, <2>2, Zenon DEF RoleMoves
<1>11. NewWinners
  <2>1. \A x \in elected' \ elected : won /\ x = <<p.current_term, n>>
    BY <1>2, Zenon
  <2>2. elected \subseteq elected'
    BY <1>2, Zenon
  <2> QED BY <1>3, <1>6, <1>8, <2>1, <2>2, SMTT(30) DEF NewWinners
<1>12. op'[n].phase \notin {"vote", "append", "push"}
  BY <1>6, SMTT(30) DEF Idle
<1>13. ~CommitMoves(n)
  BY <1>3, <1>6, NotCommitted, Zenon
<1>14. AcksMove(n)
  <2>1. peer[n].role = Candidate
    BY <1>2, Zenon DEF ElectionInv, CampaignInv, OperationInv
  <2> QED BY <2>1, Zenon DEF AcksMove, Candidate, Leader
<1> QED
  BY <1>2, <1>6, <1>7, <1>10, <1>11, <1>12, <1>13, <1>14, OneNodeMoves, LateSent, Zenon
     DEF NodeMoves, VotesMove, NewVotes

LEMMA CampaignCallMoves ==
    ASSUME TypeOK, TypeOK', NEW n \in Node, NEW v \in Node, NEW f \in FlushResult,
           CampaignCall(n, v, f)
    PROVE  Moves
<1> DEFINE m == VoteRequest(n, v)
           res == HandleRequestVote(peer[v], disk[v], m, f)
           t == peer[n].current_term
<1>1. /\ peer[v] \in RaftPeer /\ disk[v] \in PeerFiles /\ m \in VoteRequests
      /\ t \in Nat /\ m.term = t /\ m.last_log_term = LastLogTerm(peer[n].log)
      /\ m.last_log_index = LastLogIndex(peer[n].log)
  BY NodeTypes, VoteRequestType, Zenon DEF VoteRequest
<1>2. /\ Stays(peer[v], disk[v], res.peer, res.disk)
      /\ res.peer.role = Leader =>
            /\ peer[v].role = Leader /\ res.peer.current_term = peer[v].current_term
            /\ res.peer.match_index = peer[v].match_index
      /\ res.granted => Grants(v, n)
  <2> HIDE DEF m, res
  <2>1. /\ Stays(peer[v], disk[v], res.peer, res.disk)
        /\ res.peer.role = Leader =>
              /\ peer[v].role = Leader /\ res.peer.current_term = peer[v].current_term
              /\ res.peer.match_index = peer[v].match_index
        /\ res.granted =>
              /\ m.term >= peer[v].current_term
              /\ LogAtLeastAsUpToDate(peer[v].log, m.last_log_term, m.last_log_index)
    BY <1>1, VoteHandlerMoves, Zenon DEF res
  <2>2. m.term >= peer[v].current_term => peer[v].current_term <= t
    BY <1>1, NodeTypes, Zenon
  <2> QED BY <1>1, <2>1, <2>2, Zenon DEF Grants
<1>3. /\ peer' = [peer EXCEPT ![v] = res.peer]
      /\ disk' = [disk EXCEPT ![v] = res.disk]
      /\ \/ /\ op' = [op EXCEPT ![n] = [op[n] EXCEPT !.phase = "higher",
                                                     !.term = res.peer.current_term]]
            /\ UNCHANGED tally
         \/ /\ op' = [op EXCEPT ![n] = [op[n] EXCEPT !.todo = @ \ {v},
                            !.votes = IF res.granted THEN @ \cup {v} ELSE @]]
            /\ tally' = IF res.granted THEN tally \cup {<<t, v, n>>} ELSE tally
      /\ UNCHANGED <<late, elected, chosen, written>>
      /\ op[n].phase = "vote" /\ op[v].phase = "idle"
  BY Zenon DEF CampaignCall, IsIdle
<1> HIDE DEF m, res
<1>4. v # n
  BY <1>3
<1>5. /\ peer'[v] = res.peer /\ disk'[v] = res.disk
      /\ \A k \in Node \ {v} : peer'[k] = peer[k] /\ disk'[k] = disk[k]
      /\ \A k \in Node \ {n} : op'[k] = op[k]
  BY <1>3, SMTT(30) DEF TypeOK
<1>6. /\ op'[n].phase = "vote" =>
            /\ op'[n].votes = IF res.granted THEN op[n].votes \cup {v} ELSE op[n].votes
            /\ tally' = IF res.granted THEN tally \cup {<<t, v, n>>} ELSE tally
      /\ op'[n].phase # "vote" => tally' = tally
      /\ op'[n].phase \notin {"append", "push"}
  <2>1. op[n] \in Operation
    BY NodeTypes, Zenon
  <2>2. CASE /\ op' = [op EXCEPT ![n] = [op[n] EXCEPT !.phase = "higher",
                                                      !.term = res.peer.current_term]]
             /\ UNCHANGED tally
    <3>1. op'[n].phase = "higher"
      BY <2>1, <2>2, SMTT(30) DEF TypeOK, Operation
    <3> QED BY <2>2, <3>1
  <2>3. CASE /\ op' = [op EXCEPT ![n] = [op[n] EXCEPT !.todo = @ \ {v},
                            !.votes = IF res.granted THEN @ \cup {v} ELSE @]]
             /\ tally' = IF res.granted THEN tally \cup {<<t, v, n>>} ELSE tally
    <3> DEFINE w == IF res.granted THEN op[n].votes \cup {v} ELSE op[n].votes
               o == [op[n] EXCEPT !.todo = @ \ {v}, !.votes = w]
    <3>1. op'[n] = o
      BY <2>3, Zenon DEF TypeOK
    <3> HIDE DEF w
    <3>2. o.phase = "vote" /\ o.votes = w
      BY <1>3, <2>1, SMTT(30) DEF Operation
    <3> QED BY <2>3, <3>1, <3>2, Zenon DEF w
  <2> QED BY <1>3, <2>2, <2>3, Zenon
<1>7. /\ NodeMoves(v) /\ RoleMoves(v) /\ AcksMove(v) /\ ~CommitMoves(v) /\ VotesMove(v)
  <2>1. NodeMoves(v)
    BY <1>2, <1>5, Zenon DEF NodeMoves
  <2>2. RoleMoves(v)
    BY <1>2, <1>5, Zenon DEF RoleMoves, Stays
  <2>3. AcksMove(v)
    BY <1>2, <1>5, Zenon DEF AcksMove
  <2>4. ~CommitMoves(v)
    BY <1>2, <1>5, NotCommitted, Zenon DEF Stays
  <2>5. VotesMove(v)
    BY <1>3, <1>4, <1>5 DEF VotesMove, Replicates
  <2> QED BY <2>1, <2>2, <2>3, <2>4, <2>5, Zenon
<1>8. \A k \in Node \ {v} : NodeMoves(k) /\ RoleMoves(k) /\ AcksMove(k) /\ ~CommitMoves(k)
  BY <1>5, Unmoved, Zenon
<1>9. VotesMove(n)
  <2>1. op'[n].phase = "vote" => \A u \in op'[n].votes \ op[n].votes : Grants(u, n)
    <3> SUFFICES ASSUME op'[n].phase = "vote", NEW u \in op'[n].votes \ op[n].votes
                 PROVE  Grants(u, n)
      BY Zenon
    <3>1. res.granted /\ u = v
      BY <1>6, Zenon
    <3> QED BY <1>2, <3>1, Zenon
  <2> QED BY <1>3, <1>4, <1>5, <1>6, <2>1 DEF VotesMove
<1>10. \A k \in Node \ {n} : VotesMove(k)
  BY <1>5, <1>7, Unmoved, Zenon
<1>11. NewVotes
  <2>1. tally \subseteq tally'
    BY <1>6, Zenon
  <2>2. ASSUME NEW x \in tally' \ tally
        PROVE  /\ x = <<t, v, n>> /\ op'[n].phase = "vote" /\ v \in op'[n].votes
               /\ peer'[n].current_term = t
    <3>1. op'[n].phase = "vote"
      BY <1>6, <2>2, Zenon
    <3>2. res.granted /\ x = <<t, v, n>>
      BY <1>6, <2>2, <3>1, Zenon
    <3>3. v \in op'[n].votes
      BY <1>6, <3>1, <3>2, Zenon
    <3> QED BY <1>4, <1>5, <3>1, <3>2, <3>3, Zenon
  <2> QED BY <2>1, <2>2, SMTT(30) DEF NewVotes
<1>12. NewChosen
  BY <1>3, <1>7, <1>8 DEF NewChosen
<1>13. OneCommits
  BY <1>5, Zenon DEF OneCommits
<1> QED
  BY <1>3, <1>7, <1>8, <1>9, <1>10, <1>11, <1>12, <1>13, LateSent DEF Moves, NewWinners

LEMMA GiveUpMoves ==
    ASSUME TypeOK, TypeOK', NEW n \in Node, NEW v \in Node, NEW m, GiveUp(n, v, m),
           m.kind = "append" => Sent(m)
    PROVE  Moves
<1>1. /\ op' = [op EXCEPT ![n] = [op[n] EXCEPT !.todo = @ \ {v}, !.at = None]]
      /\ late' = late \/ late' = late \cup {m}
      /\ UNCHANGED <<peer, disk, elected, tally, chosen, written>>
  BY Zenon DEF GiveUp, history
<1>2. /\ op'[n].phase = op[n].phase /\ op'[n].votes = op[n].votes
      /\ \A k \in Node \ {n} : op'[k] = op[k]
  <2>1. op[n] \in Operation
    BY NodeTypes, Zenon
  <2> QED BY <1>1, <2>1, SMTT(30) DEF TypeOK, Operation
<1>3. VotesMove(n)
  BY <1>1, <1>2 DEF VotesMove, Replicates
<1>4. \A x \in late' : x.kind = "append" => Sent(x)
  <2>1. \A x \in late : x.kind = "append" => Sent(x)
    BY Zenon DEF TypeOK, Sent, VoteRequests
  <2> QED BY <1>1, <2>1
<1> QED
  BY <1>1, <1>2, <1>3, <1>4, Unmoved, OneNodeMoves DEF NewWinners, NewVotes

LEMMA ProposeEndMoves ==
    ASSUME TypeOK, TypeOK', NEW n \in Node, ProposeEnd(n)
    PROVE  Moves
<1>1. /\ op' = [op EXCEPT ![n] = Idle]
      /\ UNCHANGED <<peer, disk, late, elected, tally, chosen, written>>
  BY Zenon DEF ProposeEnd, history
<1>2. op'[n] = Idle /\ \A k \in Node \ {n} : op'[k] = op[k]
  BY <1>1, Zenon DEF TypeOK
<1>3. VotesMove(n)
  BY <1>2, SMTT(30) DEF VotesMove, Idle
<1> QED
  BY <1>1, <1>2, <1>3, Unmoved, OneNodeMoves, LateSent, Zenon DEF NewWinners, NewVotes

(* What the leader makes of an answer concerns next_index and match_index. *)
LEMMA ProgressMoves ==
    ASSUME NEW p \in RaftPeer, NEW v \in Node, NEW c \in Nat
    PROVE  /\ Same(p, Replicated(p, v, c)) /\ Replicated(p, v, c).role = p.role
           /\ Replicated(p, v, c).match_index = [p.match_index EXCEPT ![v] = c]
           /\ Same(p, BackOff(p, v, c)) /\ BackOff(p, v, c).role = p.role
           /\ BackOff(p, v, c).match_index = p.match_index
  BY SMTT(30) DEF Same, Replicated, BackOff, RaftPeer

LEMMA ReplicateCallMoves ==
    ASSUME SetFacts, TypeOK, TypeOK', ElectionInv, NEW n \in Node, NEW v \in Node,
           NEW f \in FlushResult, ReplicateCall(n, v, f)
    PROVE  Moves
<1> DEFINE m == AppendRequest(n, v)
           res == HandleAppendEntries(peer[v], disk[v], m, f)
<1>1. /\ peer[v] \in RaftPeer /\ disk[v] \in PeerFiles /\ m \in AppendRequests
      /\ peer[n] \in RaftPeer /\ op[n] \in Operation
  BY AppendRequestType, NodeTypes, Zenon
<1>2. /\ op[n].phase \in {"append", "push"} /\ op[v].phase = "idle" /\ peer[n].role = Leader
      /\ Replicates(n)
  <2>1. op[n].phase \in {"append", "push"} /\ op[v].phase = "idle"
    BY Zenon DEF ReplicateCall, IsIdle
  <2> QED BY <2>1, ReplicatesLeads, Zenon DEF Replicates
<1>3. Sent(m)
  BY <1>1, <1>2, Zenon DEF Sent
<1>4. /\ \/ Stays(peer[v], disk[v], res.peer, res.disk)
         \/ Takes(peer[v], disk[v], m, res.peer, res.disk)
      /\ res.peer.role = Leader => res.peer = peer[v]
      /\ res.success =>
            /\ Takes(peer[v], disk[v], m, res.peer, res.disk) /\ Same(res.peer, res.disk)
            /\ res.match_index = LastLogIndex(res.peer.log)
      /\ res.match_index \in Nat /\ res.conflict_index \in Nat
  <2> HIDE DEF m
  <2>1. res = HandleAppendEntries(peer[v], disk[v], m, f)
    BY Zenon
  <2> HIDE DEF res
  <2>2. /\ \/ Stays(peer[v], disk[v], res.peer, res.disk)
           \/ Takes(peer[v], disk[v], m, res.peer, res.disk)
        /\ res.peer.role = Leader => res.peer = peer[v]
        /\ res.success =>
              /\ Takes(peer[v], disk[v], m, res.peer, res.disk) /\ Same(res.peer, res.disk)
              /\ res.match_index = LastLogIndex(res.peer.log)
    <3> DEFINE r == HandleAppendEntries(peer[v], disk[v], m, f)
    <3>1. /\ \/ Stays(peer[v], disk[v], r.peer, r.disk)
             \/ Takes(peer[v], disk[v], m, r.peer, r.disk)
          /\ r.peer.role = Leader => r.peer = peer[v]
          /\ r.success =>
                /\ Takes(peer[v], disk[v], m, r.peer, r.disk) /\ Same(r.peer, r.disk)
                /\ r.match_index = LastLogIndex(r.peer.log)
      BY <1>1, AppendHandlerMoves, Zenon
    <3> HIDE DEF r
    <3>2. res = r
      BY <2>1, Zenon DEF r
    <3> QED BY <3>1, <3>2, Zenon
  <2>3. res.match_index \in Nat /\ res.conflict_index \in Nat
    BY <1>1, <2>1, AppendHandlerType, Zenon
  <2> QED BY <2>2, <2>3, Zenon
<1>5. /\ disk' = [disk EXCEPT ![v] = res.disk]
      /\ \/ /\ peer' = [peer EXCEPT ![v] = res.peer]
            /\ op' = [op EXCEPT ![n] = [op[n] EXCEPT !.phase = "higher",
                                                 !.term = res.peer.current_term]]
         \/ /\ res.success
            /\ peer' = [peer EXCEPT ![v] = res.peer,
                                    ![n] = Replicated(@, v, res.match_index)]
            /\ op' = [op EXCEPT ![n] = [op[n] EXCEPT !.todo = @ \ {v}, !.at = None]]
         \/ /\ peer' = [peer EXCEPT ![v] = res.peer,
                                    ![n] = BackOff(@, v, res.conflict_index)]
            /\ op' = [op EXCEPT ![n] = [op[n] EXCEPT !.at = v]]
      /\ UNCHANGED <<late, tally, elected, chosen, written>>
  BY Zenon DEF ReplicateCall, history
<1> HIDE DEF m, res
<1>6. v # n
  BY <1>2, Zenon
<1>7. /\ disk'[v] = res.disk /\ \A k \in Node \ {v} : disk'[k] = disk[k]
      /\ \A k \in Node \ {n} : op'[k] = op[k]
  BY <1>5, Zenon DEF TypeOK
<1>8. op'[n].phase # "vote"
  <2> DEFINE o1 == [op[n] EXCEPT !.phase = "higher", !.term = res.peer.current_term]
             o2 == [op[n] EXCEPT !.todo = @ \ {v}, !.at = None]
             o3 == [op[n] EXCEPT !.at = v]
  <2>1. o1.phase # "vote" /\ o2.phase # "vote" /\ o3.phase # "vote"
    BY <1>1, <1>2 DEF Operation
  <2>2. op' = [op EXCEPT ![n] = o1] \/ op' = [op EXCEPT ![n] = o2] \/ op' = [op EXCEPT ![n] = o3]
    BY <1>5, Zenon
  <2> HIDE DEF o1, o2, o3
  <2> QED BY <2>1, <2>2, Zenon DEF TypeOK
<1>9. /\ peer'[v] = res.peer /\ \A k \in Node \ {n, v} : peer'[k] = peer[k]
      /\ \/ peer'[n] = peer[n]
         \/ res.success /\ peer'[n] = Replicated(peer[n], v, res.match_index)
         \/ peer'[n] = BackOff(peer[n], v, res.conflict_index)
  BY <1>5, <1>6, SMTT(30) DEF TypeOK
<1>10. /\ Same(peer[n], peer'[n]) /\ peer'[n].role = peer[n].role
       /\ \/ peer'[n].match_index = peer[n].match_index
          \/ /\ res.success
             /\ peer'[n].match_index = [peer[n].match_index EXCEPT ![v] = res.match_index]
  <2>1. Same(peer[n], peer[n])
    BY Zenon DEF Same
  <2>2. CASE peer'[n] = peer[n]
    BY <2>1, <2>2, Zenon
  <2>3. CASE res.success /\ peer'[n] = Replicated(peer[n], v, res.match_index)
    <3>1. /\ Same(peer[n], Replicated(peer[n], v, res.match_index))
          /\ Replicated(peer[n], v, res.match_index).role = peer[n].role
          /\ Replicated(peer[n], v, res.match_index).match_index
                = [peer[n].match_index EXCEPT ![v] = res.match_index]
      <4>1. peer[n] \in RaftPeer /\ res.match_index \in Nat
        BY <1>1, <1>4, NodeTypes, Zenon
      <4> QED BY <4>1, ProgressMoves, SMTT(30)
    <3> QED BY <2>3, <3>1, Zenon
  <2>4. CASE peer'[n] = BackOff(peer[n], v, res.conflict_index)
    <3>1. /\ Same(peer[n], BackOff(peer[n], v, res.conflict_index))
          /\ BackOff(peer[n], v, res.conflict_index).role = peer[n].role
          /\ BackOff(peer[n], v, res.conflict_index).match_index = peer[n].match_index
      <4>1. PICK q \in RaftPeer : q = peer[n]
        BY <1>1, NodeTypes, Zenon
      <4>2. PICK c \in Nat : c = res.conflict_index
        BY <1>4, Zenon
      <4>3. /\ Same(q, BackOff(q, v, c)) /\ BackOff(q, v, c).role = q.role
            /\ BackOff(q, v, c).match_index = q.match_index
        BY ProgressMoves, Zenon
      <4> QED BY <4>1, <4>2, <4>3, Zenon
    <3> QED BY <2>4, <3>1, Zenon
  <2> QED BY <1>9, <2>2, <2>3, <2>4, Zenon
<1>11. NodeMoves(v) /\ RoleMoves(v) /\ AcksMove(v) /\ ~CommitMoves(v) /\ VotesMove(v)
  <2>1. NodeMoves(v)
    BY <1>1, <1>3, <1>4, <1>7, <1>9, Zenon DEF NodeMoves
  <2>2. RoleMoves(v)
    BY <1>4, <1>9, Zenon DEF RoleMoves
  <2>3. AcksMove(v)
    BY <1>4, <1>9, Zenon DEF AcksMove
  <2>4. ~CommitMoves(v)
    BY <1>4, <1>9, NotCommitted, Zenon
  <2>5. VotesMove(v)
    BY <1>2, <1>6, <1>7, Zenon DEF VotesMove, Replicates
  <2> QED BY <2>1, <2>2, <2>3, <2>4, <2>5
<1>12. NodeMoves(n) /\ RoleMoves(n) /\ ~CommitMoves(n) /\ VotesMove(n)
  <2>1. Stays(peer[n], disk[n], peer'[n], disk'[n])
    <3>1. peer[n].current_term \in Nat
      BY NodeTypes, Zenon
    <3> QED BY <1>6, <1>7, <1>10, <3>1, SMTT(30) DEF Stays, Flushed, Same
  <2>2. RoleMoves(n)
    BY <1>2, <1>10, Zenon DEF RoleMoves, Same
  <2>3. ~CommitMoves(n)
    BY <1>10, NotCommitted, Zenon DEF Same
  <2> QED BY <1>2, <1>8, <2>1, <2>2, <2>3, Zenon DEF NodeMoves, VotesMove
<1>13. AcksMove(n)
  <2>1. CASE peer'[n].match_index = peer[n].match_index
    BY <2>1, Zenon DEF AcksMove
  <2>2. CASE /\ res.success
             /\ peer'[n].match_index = [peer[n].match_index EXCEPT ![v] = res.match_index]
    <3>1. peer[n].match_index \in [Node -> Nat]
      BY <1>1, Zenon DEF RaftPeer
    <3>2. /\ peer'[n].match_index[v] = res.match_index
          /\ \A u \in Node \ {v} : peer'[n].match_index[u] = peer[n].match_index[u]
      BY <2>2, <3>1, Zenon
    <3>3. Acks(v, n)
      BY <1>2, <1>3, <1>4, <1>6, <1>7, <1>9, <2>2, <3>2, Zenon DEF Acks, m
    <3> QED BY <3>2, <3>3, Zenon DEF AcksMove
  <2> QED BY <1>10, <2>1, <2>2, Zenon
<1>14. \A k \in Node \ {n, v} :
          /\ NodeMoves(k) /\ RoleMoves(k) /\ AcksMove(k) /\ ~CommitMoves(k) /\ VotesMove(k)
  BY <1>7, <1>9, Unmoved, Zenon
<1>15. \A k \in Node :
          /\ NodeMoves(k) /\ RoleMoves(k) /\ AcksMove(k) /\ ~CommitMoves(k) /\ VotesMove(k)
  BY <1>11, <1>12, <1>13, <1>14, Zenon
<1>16. OneCommits
  BY <1>9, <1>10, ZenonT(30) DEF OneCommits, Same
<1> QED
  BY <1>5, <1>15, <1>16, LateSent, Zenon DEF Moves, NewWinners, NewVotes, NewChosen

(* A late request changes its receiver as a request in time does.          *)
LEMMA LateVote ==
    ASSUME NEW p \in RaftPeer, NEW d \in PeerFiles, NEW m \in VoteRequests,
           NEW f \in FlushResult
    PROVE  LET r == HandleRequestVote(p, d, m, f)
           IN /\ Stays(p, d, r.peer, r.disk)
              /\ r.peer.role = Leader =>
                    /\ p.role = Leader /\ r.peer.current_term = p.current_term
                    /\ r.peer.match_index = p.match_index
  BY VoteHandlerMoves, Zenon

LEMMA LateAppend ==
    ASSUME SetFacts, NEW p \in RaftPeer, NEW d \in PeerFiles, NEW m \in AppendRequests,
           NEW f \in FlushResult
    PROVE  LET r == HandleAppendEntries(p, d, m, f)
           IN /\ Stays(p, d, r.peer, r.disk) \/ Takes(p, d, m, r.peer, r.disk)
              /\ r.peer.role = Leader => r.peer = p
  BY AppendHandlerMoves, Zenon

LEMMA ExecuteLateMoves ==
    ASSUME SetFacts, TypeOK, TypeOK', NEW m \in late, NEW f \in FlushResult, ExecuteLate(m, f)
    PROVE  Moves
<1> DEFINE v == m.to
           res == IF m.kind = "vote" THEN HandleRequestVote(peer[v], disk[v], m, f)
                  ELSE HandleAppendEntries(peer[v], disk[v], m, f)
<1>1. \/ m \in VoteRequests /\ m.kind = "vote"
      \/ m \in AppendRequests /\ m.kind = "append"
  BY Zenon DEF TypeOK, VoteRequests, AppendRequests
<1>2. v \in Node
  BY <1>1, Zenon DEF VoteRequests, AppendRequests
<1>3. peer[v] \in RaftPeer /\ disk[v] \in PeerFiles
  BY <1>2, NodeTypes, Zenon
<1>4. /\ peer' = [peer EXCEPT ![v] = res.peer]
      /\ disk' = [disk EXCEPT ![v] = res.disk]
      /\ late' \subseteq late /\ UNCHANGED <<op, elected, tally, chosen, written>>
      /\ op[v].phase = "idle"
  BY ZenonT(30) DEF ExecuteLate, IsIdle, history
<1>5. /\ \/ Stays(peer[v], disk[v], res.peer, res.disk)
         \/ Sent(m) /\ Takes(peer[v], disk[v], m, res.peer, res.disk)
      /\ res.peer.role = Leader =>
            /\ peer[v].role = Leader /\ res.peer.current_term = peer[v].current_term
            /\ res.peer.match_index = peer[v].match_index
            /\ res.peer.log = peer[v].log /\ res.peer.commit_index = peer[v].commit_index
  <2>1. CASE m \in VoteRequests /\ m.kind = "vote"
    <3>1. res = HandleRequestVote(peer[v], disk[v], m, f)
      BY <2>1, Zenon
    <3> HIDE DEF res, v
    <3>2. /\ Stays(peer[v], disk[v], res.peer, res.disk)
          /\ res.peer.role = Leader =>
                /\ peer[v].role = Leader /\ res.peer.current_term = peer[v].current_term
                /\ res.peer.match_index = peer[v].match_index
      <4> DEFINE r == HandleRequestVote(peer[v], disk[v], m, f)
      <4>1. /\ Stays(peer[v], disk[v], r.peer, r.disk)
            /\ r.peer.role = Leader =>
                  /\ peer[v].role = Leader /\ r.peer.current_term = peer[v].current_term
                  /\ r.peer.match_index = peer[v].match_index
        BY <1>3, <2>1, LateVote, Zenon
      <4> HIDE DEF r
      <4>2. res = r
        BY <3>1, Zenon DEF r
      <4> QED BY <4>1, <4>2, Zenon
    <3> QED BY <3>2, Zenon DEF Stays
  <2>2. CASE m \in AppendRequests /\ m.kind = "append"
    <3>1. res = HandleAppendEntries(peer[v], disk[v], m, f)
      BY <2>2, Zenon
    <3>2. Sent(m)
      BY <2>2, Zenon DEF Sent
    <3> HIDE DEF res, v
    <3>3. /\ \/ Stays(peer[v], disk[v], res.peer, res.disk)
             \/ Takes(peer[v], disk[v], m, res.peer, res.disk)
          /\ res.peer.role = Leader => res.peer = peer[v]
      <4> DEFINE r == HandleAppendEntries(peer[v], disk[v], m, f)
      <4>1. /\ \/ Stays(peer[v], disk[v], r.peer, r.disk)
               \/ Takes(peer[v], disk[v], m, r.peer, r.disk)
            /\ r.peer.role = Leader => r.peer = peer[v]
        BY <1>3, <2>2, LateAppend, Zenon
      <4> HIDE DEF r
      <4>2. res = r
        BY <3>1 DEF r
      <4> QED BY <4>1, <4>2, Zenon
    <3> QED BY <3>2, <3>3, Zenon
  <2> QED BY <1>1, <2>1, <2>2, Zenon
<1> HIDE DEF v, res
<1>6. /\ peer'[v] = res.peer /\ disk'[v] = res.disk
      /\ \A k \in Node \ {v} : UNCHANGED <<peer[k], disk[k], op[k]>>
  BY <1>2, <1>4, Zenon DEF TypeOK
<1>7. NodeMoves(v)
  <2>1. Sent(m) => m \in AppendRequests
    BY DEF Sent
  <2> QED BY <1>5, <1>6, <2>1, Zenon DEF NodeMoves
<1>8. RoleMoves(v) /\ AcksMove(v)
  BY <1>5, <1>6, Zenon DEF RoleMoves, AcksMove
<1>9. ~CommitMoves(v)
  BY <1>2, <1>5, <1>6, NotCommitted, Zenon
<1>10. VotesMove(v)
  BY <1>4, Zenon DEF VotesMove, Replicates
<1> QED
  BY <1>2, <1>4, <1>6, <1>7, <1>8, <1>9, <1>10, OneNodeMoves, LateSent, Zenon
     DEF NewWinners, NewVotes

LEMMA AdvanceCommitMoves ==
    ASSUME SetFacts, TypeOK, TypeOK', ElectionInv, NEW n \in Node, NEW f \in FlushResult,
           AdvanceCommit(n, f)
    PROVE  Moves
<1> DEFINE S == Committable(peer[n])
           commit == IF S = {} THEN peer[n].commit_index ELSE Max(S)
           p == [peer[n] EXCEPT !.commit_index = commit]
           pushing == [Idle EXCEPT !.phase = "push", !.todo = Node \ {n}]
<1>1. /\ peer' = [peer EXCEPT ![n] = p]
      /\ IF S # {} THEN disk' = [disk EXCEPT ![n] = SavePeer(@, p, f)] ELSE disk' = disk
      /\ op' = [op EXCEPT ![n] = pushing] \/ op' = [op EXCEPT ![n] = Idle]
      /\ chosen' = IF S # {} /\ commit > Len(chosen) THEN SubSeq(p.log, 1, commit) ELSE chosen
      /\ UNCHANGED <<late, elected, tally, written>> /\ op[n].phase = "append"
  BY Zenon DEF AdvanceCommit
<1>2. peer[n] \in RaftPeer /\ peer[n].current_term \in Nat /\ disk[n] \in PeerFiles
  BY NodeTypes, Zenon
<1>3. Replicates(n) /\ peer[n].role = Leader
  BY <1>1, ReplicatesLeads DEF Replicates
<1>4. S # {} => commit \in S
  <2>1. LastLogIndex(peer[n].log) = Len(peer[n].log) /\ Len(peer[n].log) \in Nat
    BY NodeTypes, SeqLength, Zenon DEF LastLogIndex
  <2>2. S \subseteq 0..Len(peer[n].log)
    <3>1. \A a, b \in Nat : a + 1 .. b \subseteq 0..b
      OBVIOUS
    <3>2. S \subseteq peer[n].commit_index + 1 .. LastLogIndex(peer[n].log)
      BY Zenon DEF Committable
    <3>3. peer[n].commit_index + 1 .. Len(peer[n].log) \subseteq 0..Len(peer[n].log)
      BY <2>1, <3>1, NodeTypes, Zenon
    <3> QED BY <2>1, <3>2, <3>3, Zenon
  <2> HIDE DEF S
  <2> QED BY <2>1, <2>2, MaxInBounds, Zenon
<1>5. commit \in Nat
  <2>1. S \subseteq Nat
    BY NodeTypes, SeqLength, SMTT(30) DEF Committable, LastLogIndex
  <2>2. CASE S = {}
    BY <2>2, NodeTypes, Zenon
  <2>3. CASE S # {}
    BY <1>4, <2>1, <2>3, Zenon
  <2> QED BY <2>2, <2>3, Zenon
<1>6. S = {} => commit = peer[n].commit_index
  BY Zenon
<1> HIDE DEF S, commit
<1>7. /\ p \in RaftPeer /\ p.log = peer[n].log /\ p.current_term = peer[n].current_term
      /\ p.role = Leader /\ p.match_index = peer[n].match_index /\ p.commit_index = commit
  BY <1>2, <1>3, <1>5, Zenon DEF RaftPeer
<1>8. pushing.phase # "vote" /\ Idle.phase # "vote"
  BY DEF Idle
<1> HIDE DEF p, pushing
<1>9. Flushed(disk[n], p, SavePeer(disk[n], p, f)) /\ Flushed(disk[n], p, disk[n])
  BY <1>2, <1>7, SavedFlushed, QuietNode, Zenon
<1>10. /\ peer'[n] = p /\ Flushed(disk[n], p, disk'[n]) /\ op'[n].phase # "vote"
       /\ \A k \in Node \ {n} : UNCHANGED <<peer[k], disk[k], op[k]>>
  BY <1>1, <1>8, <1>9, Zenon DEF TypeOK
<1>11. IF S # {} THEN CommitMoves(n) ELSE Stays(peer[n], disk[n], peer'[n], disk'[n])
  <2>1. CASE S # {}
    BY <1>3, <1>4, <1>7, <1>10, <2>1, Zenon DEF CommitMoves, Commits, S
  <2>2. CASE S = {}
    <3>1. peer[n].current_term >= peer[n].current_term
      BY <1>2
    <3> QED BY <1>6, <1>7, <1>10, <2>2, <3>1, Zenon DEF Stays
  <2> QED BY <2>1, <2>2, Zenon
<1>12. NodeMoves(n)
  BY <1>11, Zenon DEF NodeMoves, CommitMoves
<1>13. RoleMoves(n) /\ AcksMove(n) /\ VotesMove(n)
  BY <1>3, <1>7, <1>10, Zenon DEF RoleMoves, AcksMove, VotesMove
<1>14. \A k \in Node \ {n} :
          /\ NodeMoves(k) /\ RoleMoves(k) /\ AcksMove(k) /\ ~CommitMoves(k) /\ VotesMove(k)
  BY <1>10, Unmoved, Zenon
<1>15. NewChosen
  <2>1. CASE S # {} /\ commit > Len(chosen)
    <3>1. chosen' = SubSeq(peer[n].log, 1, peer'[n].commit_index)
      BY <1>1, <1>7, <1>10, <2>1, Zenon
    <3> QED BY <1>7, <1>10, <1>11, <1>14, <2>1, <3>1, Zenon DEF NewChosen
  <2>2. CASE ~(S # {} /\ commit > Len(chosen))
    <3>1. chosen' = chosen
      BY <1>1, <2>2, Zenon
    <3>2. CommitMoves(n) => S # {}
      BY Zenon DEF CommitMoves, Commits, S
    <3>3. Len(chosen) \in Nat
      BY SeqLength, Zenon DEF TypeOK
    <3>4. CommitMoves(n) => peer'[n].commit_index <= Len(chosen)
      <4>1. CommitMoves(n) => ~(commit > Len(chosen))
        BY <2>2, <3>2, Zenon
      <4>2. ~(commit > Len(chosen)) => commit <= Len(chosen)
        BY <1>5, <3>3
      <4> QED BY <1>7, <1>10, <4>1, <4>2, Zenon
    <3> QED BY <1>14, <3>1, <3>4, Zenon DEF NewChosen
  <2> QED BY <2>1, <2>2
<1>16. OneCommits
  BY <1>10, Zenon DEF OneCommits
<1> QED
  BY <1>1, <1>12, <1>13, <1>14, <1>15, <1>16, LateSent, Zenon DEF Moves, NewWinners, NewVotes

(* Every step is a proposal or moves the nodes.                            *)
LEMMA StepMoves ==
    ASSUME SetFacts, TypeOK, TypeOK', ElectionInv, [Next]_vars
    PROVE  \/ Moves
           \/ \E n \in Node, c \in Value, f \in FlushResult : Propose(n, c, f)
<1> DEFINE P == \/ Moves
                \/ \E n \in Node, c \in Value, f \in FlushResult : Propose(n, c, f)
<1>1. UNCHANGED vars => P
  <2> SUFFICES ASSUME UNCHANGED vars PROVE Moves
    OBVIOUS
  <2>1. UNCHANGED <<peer, disk, op, late, elected, tally, chosen, written>>
    BY Zenon DEF vars
  <2>2. \A k \in Node :
          /\ NodeMoves(k) /\ RoleMoves(k) /\ AcksMove(k) /\ ~CommitMoves(k) /\ VotesMove(k)
    BY <2>1, Unmoved, Zenon
  <2> QED BY <2>1, <2>2, LateSent, Zenon DEF Moves, NewWinners, NewVotes, NewChosen, OneCommits
<1>2. \A n, v \in Node : CampaignGivesUp(n, v) => P
  <2> SUFFICES ASSUME NEW n \in Node, NEW v \in Node, CampaignGivesUp(n, v) PROVE Moves
    BY Zenon
  <2>1. VoteRequest(n, v).kind # "append"
    BY VoteRequestType DEF VoteRequests
  <2> QED BY <2>1, GiveUpMoves, Zenon DEF CampaignGivesUp
<1>3. \A n, v \in Node : ReplicateGivesUp(n, v) => P
  <2> SUFFICES ASSUME NEW n \in Node, NEW v \in Node, ReplicateGivesUp(n, v) PROVE Moves
    BY Zenon
  <2>1. Replicates(n)
    BY Zenon DEF ReplicateGivesUp, Replicates
  <2>2. Sent(AppendRequest(n, v))
    BY <2>1, AppendRequestType, Zenon DEF Sent
  <2> QED BY <2>2, GiveUpMoves, Zenon DEF ReplicateGivesUp
<1>4. \A n \in Node, c \in Value, f \in FlushResult : Propose(n, c, f) => P
  OBVIOUS
<1>5. \A n \in Node, f \in FlushResult :
         (Campaign(n, f) => P) /\ (CampaignEnd(n, f) => P)
  BY CampaignMoves, CampaignEndMoves, Zenon
<1>6. \A n \in Node, f \in FlushResult :
         (StepDown(n, f) => P) /\ (AdvanceCommit(n, f) => P)
  BY StepDownMoves, AdvanceCommitMoves, Zenon
<1>7. \A n, v \in Node, f \in FlushResult :
         (CampaignCall(n, v, f) => P) /\ (ReplicateCall(n, v, f) => P)
  BY CampaignCallMoves, ReplicateCallMoves, Zenon
<1>8. \A n \in Node : (ProposeEnd(n) => P) /\ (Restart(n) => P)
  BY ProposeEndMoves, RestartMoves, Zenon
<1>9. \A m \in late, f \in FlushResult : ExecuteLate(m, f) => P
  BY ExecuteLateMoves, Zenon
<1> HIDE DEF P
<1>10. P
  BY <1>1, <1>2, <1>3, <1>4, <1>5, <1>6, <1>7, <1>8, <1>9, NextCases, Zenon
<1> QED BY <1>10 DEF P

LEMMA ProposeProposes ==
    ASSUME TypeOK, NEW n \in Node, NEW c \in Value, NEW f \in FlushResult, Propose(n, c, f)
    PROVE  \E G : Proposes(n, G, f) /\ Len(G) <= MaxLog
<1> DEFINE last == LastLogIndex(peer[n].log)
           entry == [term |-> peer[n].current_term, command |-> c]
           matched(p, index) == [p EXCEPT !.match_index[n] = index, !.next_index[n] = index + 1]
           p == matched([peer[n] EXCEPT !.log = Append(@, entry)], last + 1)
           q == matched(peer[n], last)
           G == Append(peer[n].log, entry)
           appending == [Idle EXCEPT !.phase = "append", !.todo = Node \ {n}, !.index = last + 1]
<1>1. /\ op[n].phase = "idle" /\ peer[n].role = Leader /\ last < MaxLog
      /\ disk' = [disk EXCEPT ![n] = SavePeer(@, p, f)]
      /\ written' = IF f = "none" THEN written ELSE Written(p.log)
      /\ \/ f = "ok" /\ peer' = [peer EXCEPT ![n] = p] /\ op' = [op EXCEPT ![n] = appending]
         \/ f # "ok" /\ peer' = [peer EXCEPT ![n] = q] /\ UNCHANGED op
      /\ UNCHANGED <<late, elected, tally, chosen>>
  BY SMTT(30) DEF Propose, CanBegin, IsIdle
<1>2. /\ peer[n] \in RaftPeer /\ disk[n] \in PeerFiles /\ peer[n].log \in Seq(LogEntry)
      /\ peer[n].current_term \in Nat /\ peer[n].match_index \in [Node -> Nat]
  BY NodeTypes, Zenon DEF RaftPeer
<1>3. entry \in LogEntry /\ entry.term = peer[n].current_term
  BY <1>2, Zenon DEF LogEntry
<1> HIDE DEF entry
<1>4. /\ G \in Seq(LogEntry) /\ Len(G) = Len(peer[n].log) + 1 /\ G[Len(G)] = entry
      /\ \A j \in 1..Len(peer[n].log) : G[j] = peer[n].log[j]
  <2>1. /\ G \in Seq(LogEntry) /\ Len(G) = Len(peer[n].log) + 1
        /\ \A j \in 1..Len(peer[n].log) : G[j] = peer[n].log[j]
        /\ G[Len(peer[n].log) + 1] = entry
    <3>1. PICK L \in Seq(LogEntry) : L = peer[n].log
      BY <1>2, Zenon
    <3>2. PICK e \in LogEntry : e = entry
      BY <1>3, Zenon
    <3>3. /\ Append(L, e) \in Seq(LogEntry) /\ Len(Append(L, e)) = Len(L) + 1
          /\ \A j \in 1..Len(L) : Append(L, e)[j] = L[j]
          /\ Append(L, e)[Len(L) + 1] = e
      BY SeqAppend, SMTT(30)
    <3> QED BY <3>1, <3>2, <3>3, Zenon
  <2> HIDE DEF G
  <2> QED BY <2>1, Zenon
<1>5. G # <<>> /\ LastLogTerm(G) = peer[n].current_term /\ last = Len(peer[n].log)
      /\ last \in Nat
  <2>1. last = Len(peer[n].log) /\ last \in Nat
    BY <1>2, SeqLength, Zenon DEF LastLogIndex
  <2>2. G # <<>>
    <3>1. Len(G) # 0
      BY <1>4, <2>1, SMTT(30)
    <3> HIDE DEF G
    <3> QED BY <3>1, EmptyLen
  <2>3. LastLogTerm(G) = G[Len(G)].term
    <3> HIDE DEF G
    <3> QED BY <1>4, <2>2, LastTermIs, Zenon
  <2> QED BY <1>3, <1>4, <2>1, <2>2, <2>3, Zenon
<1>6. /\ p.log = G /\ p.role = peer[n].role /\ p.current_term = peer[n].current_term
      /\ p.commit_index = peer[n].commit_index
      /\ p.match_index = [peer[n].match_index EXCEPT ![n] = last + 1]
  BY <1>2, Zenon DEF RaftPeer
<1>7. /\ q.log = peer[n].log /\ q.role = peer[n].role
      /\ q.current_term = peer[n].current_term /\ q.commit_index = peer[n].commit_index
      /\ q.match_index = [peer[n].match_index EXCEPT ![n] = last]
  BY <1>2, SMTT(30) DEF RaftPeer
<1>8. appending.phase # "vote"
  BY DEF Idle
<1> HIDE DEF p, q, G, appending
<1> DEFINE d == SavePeer(disk[n], p, f)
<1>9. /\ d.log = IF f = "none" THEN disk[n].log ELSE G
      /\ f \in {"none", "log"} => /\ d.current_term = disk[n].current_term
                                 /\ d.commit_index = disk[n].commit_index
      /\ f \in {"ok", "both"} => /\ d.current_term = peer[n].current_term
                                /\ d.commit_index = peer[n].commit_index
  BY <1>2, <1>6, Zenon DEF SavePeer, Saved, FlushResult, PeerFiles
<1> HIDE DEF d
<1>10. /\ disk'[n] = d /\ peer'[n] = IF f = "ok" THEN p ELSE q
       /\ op'[n].phase # "vote" /\ (op'[n].phase \in {"append", "push"} => f = "ok")
       /\ \A k \in Node \ {n} : UNCHANGED <<peer[k], disk[k], op[k]>>
  BY <1>1, <1>8, Zenon DEF TypeOK, d
<1>11. /\ peer'[n].role = peer[n].role /\ peer'[n].current_term = peer[n].current_term
       /\ peer'[n].commit_index = peer[n].commit_index
       /\ peer'[n].log = IF f = "ok" THEN G ELSE peer[n].log
       /\ peer'[n].match_index = [peer[n].match_index EXCEPT ![n] = Len(peer'[n].log)]
  <2>1. Len(G) = last + 1
    BY <1>4, <1>5, Zenon
  <2>2. CASE f = "ok"
    <3>1. peer'[n] = p
      BY <1>10, <2>2, Zenon
    <3> QED BY <1>6, <2>1, <2>2, <3>1, Zenon
  <2>3. CASE f # "ok"
    <3>1. peer'[n] = q
      BY <1>10, <2>3, Zenon
    <3>2. peer'[n].log = peer[n].log /\ last = Len(peer'[n].log)
      BY <1>5, <1>7, <3>1, Zenon
    <3> QED BY <1>7, <2>3, <3>1, <3>2, Zenon
  <2> QED BY <2>2, <2>3, Zenon
<1>12. \A k \in Node :
          /\ peer'[k].role = peer[k].role /\ peer'[k].current_term = peer[k].current_term
          /\ peer'[k].commit_index = peer[k].commit_index
          /\ k # n => UNCHANGED <<peer[k], disk[k], op[k]>>
  BY <1>10, <1>11, Zenon
<1>13. Proposes(n, G, f)
  BY <1>1, <1>3, <1>4, <1>5, <1>6, <1>9, <1>10, <1>11, <1>12, Zenon DEF Proposes
<1>14. Len(G) <= MaxLog
  <2>1. \A a, b \in Nat : a < b => a + 1 <= b
    OBVIOUS
  <2>2. MaxLog \in Nat /\ last \in Nat /\ last < MaxLog /\ Len(G) = last + 1
    BY <1>1, <1>4, <1>5, BoundAssumption, Zenon
  <2> QED BY <2>1, <2>2, Zenon
<1> QED BY <1>13, <1>14, Zenon

=============================================================================
