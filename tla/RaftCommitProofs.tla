-------------------------- MODULE RaftCommitProofs --------------------------
(***************************************************************************)
(* Commitment in RaftNode: what a majority has acknowledged stays, and     *)
(* every log that a later leader can have holds it.                        *)
(***************************************************************************)
EXTENDS RaftLogProofs

-----------------------------------------------------------------------------
(* Logs that hold another.                                                 *)

(* A written log is well formed and its last term was won.                 *)
LEMMA WrittenFacts ==
    ASSUME Closed, NEW C \in written
    PROVE  /\ C \in Seq(LogEntry) /\ Len(C) \in Nat /\ Len(C) >= 1
           /\ LastLogTerm(C) = C[Len(C)].term /\ LastLogTerm(C) \in Nat
           /\ Kept(C)
<1>1. C \in Seq(LogEntry) /\ C # <<>>
  BY DEF Closed
<1>2. Kept(C)
  BY DEF Kept
<1> QED
  BY <1>1, <1>2, LastTermOf, Zenon

(* A log that holds C begins with the entries of C.                        *)
LEMMA HoldsPrefix ==
    ASSUME Closed, Unique, NEW G, Kept(G), NEW C \in written, Holds(G, C)
    PROVE  /\ Len(C) <= Len(G) /\ \A j \in 1..Len(C) : G[j] = C[j]
           /\ SubSeq(G, 1, Len(C)) = C
<1>1. C \in Seq(LogEntry) /\ Len(C) \in Nat /\ Len(C) >= 1
      /\ LastLogTerm(C) = C[Len(C)].term /\ Kept(C)
  BY WrittenFacts
<1>2. Len(C) <= Len(G) /\ G[Len(C)].term = C[Len(C)].term
  BY <1>1 DEF Holds
<1>3. G \in Seq(LogEntry)
  BY KeptType
<1>4. SubSeq(G, 1, Len(C)) = SubSeq(C, 1, Len(C))
  BY <1>1, <1>2, KeptMatch
<1>5. \A j \in 1..Len(C) : G[j] = C[j]
  BY <1>1, <1>2, <1>3, <1>4, EqualPrefixes
<1>6. SubSeq(C, 1, Len(C)) = C
  BY <1>1, WholePrefix
<1> QED
  BY <1>2, <1>4, <1>5, <1>6

(* A log that begins with the entries of C holds it.                       *)
LEMMA PrefixHolds ==
    ASSUME Closed, NEW C \in written, NEW G, Len(C) <= Len(G),
           G[Len(C)] = C[Len(C)]
    PROVE  Holds(G, C)
  BY WrittenFacts DEF Holds

LEMMA HoldsTrans ==
    ASSUME Closed, Unique, NEW G, Kept(G), NEW C \in written, NEW D \in written,
           Holds(G, C), Holds(C, D)
    PROVE  Holds(G, D)
<1>1. Len(C) <= Len(G) /\ \A j \in 1..Len(C) : G[j] = C[j]
  BY HoldsPrefix
<1>2. Len(D) <= Len(C) /\ C[Len(D)].term = LastLogTerm(D)
  BY DEF Holds
<1>3. Len(C) \in Nat /\ Len(D) \in Nat /\ Len(D) >= 1
  BY WrittenFacts
<1>4. Len(G) \in Nat
  BY KeptType
<1>5. G[Len(D)] = C[Len(D)]
  BY <1>1, <1>2, <1>3
<1> QED
  BY <1>1, <1>2, <1>3, <1>4, <1>5 DEF Holds

(* The last term of a log is at least that of a log it holds.              *)
LEMMA HoldsTerm ==
    ASSUME Closed, Ordered, NEW G, Kept(G), NEW C \in written, Holds(G, C)
    PROVE  G \in written /\ LastLogTerm(G) >= LastLogTerm(C)
<1>1. Len(C) \in Nat /\ Len(C) >= 1 /\ LastLogTerm(C) \in Nat
  BY WrittenFacts
<1>2. Len(C) <= Len(G) /\ G[Len(C)].term = LastLogTerm(C)
  BY DEF Holds
<1>3. G # <<>>
  BY <1>1, <1>2, LenOfEmpty
<1>4. G \in written
  BY <1>3 DEF Kept
<1>5. Len(G) \in Nat /\ LastLogTerm(G) = G[Len(G)].term
  BY <1>4, WrittenFacts
<1>6. G[Len(C)].term <= G[Len(G)].term
  BY <1>1, <1>2, <1>4, <1>5 DEF Ordered
<1> QED
  BY <1>1, <1>2, <1>4, <1>5, <1>6

(* Of two logs with the same last term the longer holds the shorter.       *)
LEMMA LongerHolds ==
    ASSUME Closed, OneLine, NEW P \in written, NEW C \in written,
           LastLogTerm(P) = LastLogTerm(C), Len(C) <= Len(P)
    PROVE  Holds(P, C)
  BY DEF OneLine, Holds

(* What a log has to be like to be taken for one that holds C.             *)
LEMMA UpToDateHolds ==
    ASSUME Closed, Unique, Ordered, OneLine, NEW G, Kept(G), NEW C \in written, Holds(G, C),
           LaterHold(C), NEW H, Kept(H),
           LogAtLeastAsUpToDate(G, LastLogTerm(H), LastLogIndex(H))
    PROVE  Holds(H, C)
<1>1. G \in written /\ LastLogTerm(G) >= LastLogTerm(C)
  BY HoldsTerm
<1>2. Len(C) \in Nat /\ Len(C) >= 1 /\ LastLogTerm(C) \in Nat
  BY WrittenFacts
<1>3. Len(G) \in Nat /\ Len(G) >= 1 /\ LastLogTerm(G) \in Nat
  BY <1>1, WrittenFacts
<1>4. Len(C) <= Len(G)
  BY DEF Holds
<1>5. H \in Seq(LogEntry) /\ Len(H) \in Nat
  BY KeptType
<1>6. CASE H = <<>>
  <2>1. LastLogTerm(H) = 0 /\ Len(H) = 0
    BY <1>6, LenOfEmpty DEF LastLogTerm
  <2>2. FALSE
    BY <1>1, <1>2, <1>3, <2>1 DEF LogAtLeastAsUpToDate, LastLogIndex
  <2> QED
    BY <2>2
<1>7. CASE H \in written
  <2>1. LastLogTerm(H) \in Nat
    BY <1>7, WrittenFacts
  <2>2. CASE LastLogTerm(H) > LastLogTerm(C)
    BY <1>7, <2>2 DEF LaterHold
  <2>3. CASE ~(LastLogTerm(H) > LastLogTerm(C))
    <3>1. LastLogTerm(H) = LastLogTerm(G) /\ LastLogTerm(H) = LastLogTerm(C)
          /\ Len(H) >= Len(G)
      BY <1>1, <1>2, <1>3, <2>1, <2>3 DEF LogAtLeastAsUpToDate, LastLogIndex
    <3>2. Len(C) <= Len(H)
      BY <1>2, <1>3, <1>4, <1>5, <3>1
    <3> QED
      BY <1>7, <3>1, <3>2, LongerHolds
  <2> QED
    BY <2>2, <2>3
<1> QED
  BY <1>6, <1>7 DEF Kept

-----------------------------------------------------------------------------
(* Requests.  From here on a batch has room for the whole log.             *)

LEMMA TermPositive ==
    ASSUME SetFacts, ElectionInv, LogInv, TermInv, NEW a \in written
    PROVE  LastLogTerm(a) >= 1
<1>1. PICK x \in Node : <<LastLogTerm(a), x>> \in elected
  BY Zenon DEF LogInv, FromWinners
<1>2. <<LastLogTerm(a), x>>[1] >= 1
  BY <1>1, WinnerTerm
<1> QED BY <1>2

(* No log has an entry of term 0, so a bogus request is refused.           *)
LEMMA BogusRefused ==
    ASSUME SetFacts, TypeOK, ElectionInv, LogInv, TermInv, NEW k \in Node,
           NEW m \in AppendRequests, NEW p2, NEW d2, Takes(peer[k], disk[k], m, p2, d2)
    PROVE  ~Bogus(m)
<1> DEFINE log == peer[k].log
           i == m.prev_log_index
<1> SUFFICES ASSUME Bogus(m) PROVE FALSE
  OBVIOUS
<1>1. i \in Nat /\ i > 0 /\ TermAt(log, i) = 0
  BY DEF Bogus, Takes, AppendRequests
<1>2. log \in Seq(LogEntry) /\ Kept(log)
  BY TypeOfNode DEF LogInv, NodeLogs, Usable
<1> HIDE DEF log, i
<1>3. i \in DOMAIN log /\ log[i].term = 0
  BY <1>1 DEF TermAt
<1>4. i <= Len(log) /\ 1 <= i
  BY <1>1, <1>2, <1>3, LogLength
<1>5. SubSeq(log, 1, i) \in written /\ LastLogTerm(SubSeq(log, 1, i)) = 0
  BY <1>1, <1>2, <1>3, <1>4, PrefixWritten, Zenon DEF LogInv
<1> QED BY <1>5, TermPositive

(* The log a node replicates ends with an entry of its own term.           *)
LEMMA OwnLog ==
    ASSUME SetFacts, TypeOK, ElectionInv, LogInv, TermInv, NEW l \in Node, Replicates(l)
    PROVE  /\ peer[l].role = Leader
           /\ peer[l].log \in written /\ Usable(peer[l].log, None)
           /\ LastLogTerm(peer[l].log) = peer[l].current_term
           /\ Len(peer[l].log) \in Nat /\ Len(peer[l].log) >= 1 /\ Len(peer[l].log) <= MaxLog
<1> DEFINE log == peer[l].log
<1>1. peer[l].role = Leader
  BY AppendingLeads
<1>2. LastLogTerm(log) = peer[l].current_term
  BY DEF TermInv, ReplicatesOwn
<1>3. PICK x \in elected : x[1] = peer[l].current_term
  BY <1>1, Zenon DEF ElectionInv, CampaignInv, OperationInv
<1>4. LastLogTerm(log) >= 1
  BY <1>2, <1>3, WinnerTerm
<1>5. log # <<>>
  BY <1>4 DEF LastLogTerm
<1>6. log \in Seq(LogEntry)
  BY TypeOfNode
<1> HIDE DEF log
<1>7. Len(log) \in Nat /\ Len(log) >= 1
  BY <1>5, <1>6, LastTermOf
<1>8. SubSeq(log, 1, Len(log)) = log
  BY <1>6, WholePrefix
<1>9. Len(log) \in 1..Len(log)
  BY <1>7
<1>10. log \in written /\ Usable(log, None)
  <2>1. SubSeq(log, 1, Len(log)) \in written /\ Usable(SubSeq(log, 1, Len(log)), None)
    BY <1>1, <1>9, LeaderPrefixUsable, Zenon DEF log
  <2> QED BY <1>8, <2>1, Zenon
<1>11. Len(log) <= MaxLog
  BY <1>10 DEF TermInv
<1> QED BY <1>1, <1>2, <1>7, <1>10, <1>11 DEF log

LEMMA WholeRequest ==
    ASSUME SetFacts, TypeOK, ElectionInv, LogInv, TermInv, MaxLog <= MaxBatch,
           NEW l \in Node, NEW v \in Node, Replicates(l), NEW m, m = AppendRequest(l, v)
    PROVE  Bogus(m) \/ Full(m, peer[l].log)
<1> DEFINE log == peer[l].log
           next == IF peer[l].next_index[v] = 0 THEN 1 ELSE peer[l].next_index[v]
           last == Min({LastLogIndex(log), next + MaxBatch - 1})
<1>1. /\ m.entries = SubSeq(log, next, last) /\ m.prev_log_index = next - 1
      /\ m.prev_log_term = Max({TermAt(log, next - 1), 0})
      /\ m.term = peer[l].current_term
  BY Zenon DEF AppendRequest
<1>2. next \in Nat /\ next >= 1
  <2>1. peer[l].next_index[v] \in Nat
    BY TypeOfNode DEF RaftPeer
  <2> QED BY <2>1
<1>3. log \in Seq(LogEntry) /\ Len(log) \in Nat /\ Len(log) <= MaxLog
  BY TypeOfNode, OwnLog, Zenon
<1>4. last = Len(log)
  <2>1. Len(log) \in Int /\ next + MaxBatch - 1 \in Int /\ Len(log) <= next + MaxBatch - 1
    <3>1. MaxLog \in Nat /\ MaxBatch \in Nat
      BY BoundAssumption
    <3>2. ASSUME NEW x \in Nat, NEW y \in Nat, y >= 1, x <= MaxLog
          PROVE  x \in Int /\ y + MaxBatch - 1 \in Int /\ x <= y + MaxBatch - 1
      BY <3>1, <3>2
    <3> QED BY <1>2, <1>3, <3>2, Zenon
  <2> HIDE DEF next
  <2> QED BY <2>1, MinOfTwo, Zenon DEF LastLogIndex
<1>5. Usable(log, None) /\ LastLogTerm(log) = m.term
  BY <1>1, OwnLog, Zenon
<1> HIDE DEF next, last, log
<1>6. CASE next > Len(log) + 1
  <2>1. SubSeq(log, next, last) = <<>>
    BY <1>2, <1>3, <1>4, <1>6, LogPart, LogEmpty
  <2>2. TermAt(log, next - 1) = -1
    <3>1. next - 1 # 0 /\ next - 1 \notin DOMAIN log
      BY <1>2, <1>3, <1>6, LogLength
    <3> QED BY <3>1 DEF TermAt
  <2>3. m.prev_log_term = 0
    BY <1>1, <2>2, MaxOfTwo
  <2> QED BY <1>1, <1>2, <1>3, <1>6, <2>1, <2>3 DEF Bogus
<1>7. CASE next <= Len(log) + 1
  <2>1. /\ Len(m.entries) = Len(log) - next + 1
        /\ \A i \in 1..(Len(log) - next + 1) : m.entries[i] = log[next + i - 1]
    <3>1. \A i \in next..Len(log) : log[i] \in LogEntry
      BY <1>2, <1>3, LogElement
    <3>2. CASE next = Len(log) + 1
      <4>1. SubSeq(log, next, last) = <<>>
        BY <1>2, <1>3, <1>4, <3>2, LogPart, LogEmpty
      <4>2. Len(m.entries) = 0
        BY <1>1, <4>1, LenOfEmpty
      <4>3. Len(log) - next + 1 = 0 /\ 1..0 = {}
        BY <1>2, <1>3, <3>2
      <4> QED BY <4>2, <4>3
    <3>3. CASE next <= Len(log)
      BY <1>1, <1>2, <1>3, <1>4, <3>1, <3>3, LogPart
    <3> QED BY <1>2, <1>3, <1>7, <3>2, <3>3
  <2>2. TermAt(log, next - 1) \in Nat
    <3>1. CASE next - 1 = 0
      BY <3>1 DEF TermAt
    <3>2. CASE next - 1 # 0
      <4>1. next - 1 \in 1..Len(log)
        BY <1>2, <1>3, <1>7, <3>2
      <4>2. next - 1 \in DOMAIN log /\ log[next - 1] \in LogEntry
        BY <1>3, <4>1, LogLength, LogElement
      <4> QED BY <3>2, <4>2 DEF TermAt, LogEntry
    <3> QED BY <3>1, <3>2
  <2>3. m.prev_log_term = TermAt(log, m.prev_log_index)
    BY <1>1, <2>2, MaxOfTwo
  <2>4. Continues(log, m.prev_log_index, m.entries)
    <3>1. Len(log) = m.prev_log_index + Len(m.entries)
      BY <1>1, <1>2, <1>3, <2>1
    <3>2. ASSUME NEW i \in 1..Len(m.entries)
          PROVE  log[m.prev_log_index + i] = m.entries[i]
      <4>1. m.prev_log_index + i = next + i - 1
        BY <1>1, <1>2, <3>2
      <4> QED BY <2>1, <3>2, <4>1, Zenon
    <3> QED BY <3>1, <3>2 DEF Continues
  <2>5. Full(m, log)
    BY <1>5, <2>3, <2>4 DEF Full, Carries
  <2> QED BY <2>5 DEF log
<1> QED BY <1>2, <1>3, <1>6, <1>7

-----------------------------------------------------------------------------
(* A log that is spread stays so.                                          *)

LEMMA LogsKept ==
    ASSUME TypeOK, LogInv, NEW k \in Node
    PROVE  /\ Closed /\ Unique /\ Kept(peer[k].log) /\ Kept(disk[k].log)
           /\ peer[k].current_term \in Nat /\ disk[k].current_term \in Nat
           /\ peer[k].commit_index \in Nat /\ disk[k].commit_index \in Nat
<1>1. peer[k] \in RaftPeer /\ disk[k] \in PeerFiles
  BY TypeOfNode
<1>2. Closed /\ Unique /\ Usable(peer[k].log, k) /\ Usable(disk[k].log, k)
  BY DEF LogInv, NodeLogs
<1> QED BY <1>1, <1>2, Zenon DEF RaftPeer, PeerFiles, Usable

(* append_entries does not remove what is spread.                          *)
LEMMA TakenHolds ==
    ASSUME SetFacts, TypeOK, ElectionInv, LogInv, TermInv, NEW k \in Node,
           NEW m \in AppendRequests, NEW p2, NEW d2, Takes(peer[k], disk[k], m, p2, d2),
           NEW P \in written, Full(m, P),
           NEW C \in written, LaterHold(C), Holds(peer[k].log, C),
           LastLogTerm(C) <= peer[k].current_term
    PROVE  Holds(p2.log, C)
<1>1. /\ Closed /\ Unique /\ Ordered /\ OneLine /\ Kept(peer[k].log)
      /\ peer[k].current_term \in Nat
  BY LogsKept, Zenon DEF TermInv
<1>2. Carries(m, P) /\ LastLogTerm(P) = m.term
  BY Zenon DEF Full
<1>3. /\ p2.log \in {peer[k].log, P}
      /\ AgreeUpTo(peer[k].log, P, Len(P)) => p2.log = peer[k].log
  BY <1>2, TakesCarried, Zenon
<1>4. m.term >= peer[k].current_term
  BY Zenon DEF Takes
<1>5. /\ Len(C) \in Nat /\ LastLogTerm(C) \in Nat /\ Len(P) \in Nat
      /\ LastLogTerm(P) \in Nat
  BY <1>1, WrittenFacts, Zenon
<1>6. LastLogTerm(P) >= LastLogTerm(C)
  BY <1>1, <1>2, <1>4, <1>5
<1>7. CASE LastLogTerm(P) > LastLogTerm(C) \/ Len(C) <= Len(P)
  <2>1. CASE LastLogTerm(P) > LastLogTerm(C)
    <3>1. Holds(P, C)
      BY <2>1 DEF LaterHold
    <3> QED BY <1>3, <3>1, Zenon
  <2>2. CASE LastLogTerm(P) = LastLogTerm(C) /\ Len(C) <= Len(P)
    <3>1. Holds(P, C)
      BY <1>1, <2>2, LongerHolds, Zenon
    <3> QED BY <1>3, <3>1
  <2> QED BY <1>5, <1>6, <1>7, <2>1, <2>2
<1>8. CASE LastLogTerm(P) = LastLogTerm(C) /\ Len(P) < Len(C)
  <2>1. Holds(C, P)
    BY <1>1, <1>5, <1>8, LongerHolds
  <2>2. Holds(peer[k].log, P)
    BY <1>1, <2>1, HoldsTrans, Zenon
  <2>3. AgreeUpTo(peer[k].log, P, Len(P))
    BY <1>1, <2>2, HoldsPrefix, Zenon DEF AgreeUpTo
  <2> QED BY <1>3, <2>3, Zenon
<1> QED BY <1>5, <1>6, <1>7, <1>8

LEMMA FlushedHolds ==
    ASSUME NEW d, NEW p2, NEW d2, Flushed(d, p2, d2), NEW C, NEW s,
           d.current_term >= s, p2.current_term >= s, Holds(d.log, C), Holds(p2.log, C)
    PROVE  d2.current_term >= s /\ Holds(d2.log, C)
BY Zenon DEF Flushed, Same

LEMMA MovedOn ==
    ASSUME SetFacts, TypeOK, TypeOK', ElectionInv, LogInv, TermInv, WholeLogs, Moves,
           NEW v \in Node, NEW C \in written, LaterHold(C), SpreadOn(C, v)
    PROVE  SpreadOn(C, v)'
<1> DEFINE s == LastLogTerm(C)
<1>1. /\ Closed /\ Unique /\ Kept(peer[v].log) /\ Kept(disk[v].log)
      /\ peer[v].current_term \in Nat /\ disk[v].current_term \in Nat
  BY LogsKept, Zenon
<1>2. /\ peer[v].current_term >= s /\ disk[v].current_term >= s
      /\ Holds(peer[v].log, C) /\ Holds(disk[v].log, C)
  BY Zenon DEF SpreadOn
<1>3. s \in Nat
  BY <1>1, WrittenFacts, Zenon
<1>4. NodeMoves(v)
  BY DEF Moves
<1>5. peer'[v].current_term \in Nat /\ disk'[v].current_term \in Nat
  BY Zenon DEF TypeOK, RaftPeer, PeerFiles
<1> SUFFICES /\ peer'[v].current_term >= s /\ disk'[v].current_term >= s
             /\ Holds(peer'[v].log, C) /\ Holds(disk'[v].log, C)
  BY Zenon DEF SpreadOn, s, Holds, LastLogTerm
<1> HIDE DEF s
<1>6. CASE /\ peer'[v].current_term >= s /\ Holds(peer'[v].log, C)
           /\ Flushed(disk[v], peer'[v], disk'[v])
  <2>1. disk'[v].current_term >= s /\ Holds(disk'[v].log, C)
    BY <1>2, <1>6, FlushedHolds, Zenon
  <2> QED BY <1>6, <2>1, Zenon
<1>7. CASE Stays(peer[v], disk[v], peer'[v], disk'[v])
  BY <1>1, <1>2, <1>3, <1>5, <1>6, <1>7 DEF Stays
<1>8. CASE Commits(peer[v], disk[v], peer'[v], disk'[v])
  BY <1>2, <1>6, <1>8, Zenon DEF Commits
<1>9. CASE Reloads(disk[v], peer'[v], disk'[v])
  BY <1>2, <1>9, Zenon DEF Reloads
<1>10. ASSUME NEW m \in AppendRequests, Sent(m),
              Takes(peer[v], disk[v], m, peer'[v], disk'[v])
       PROVE  /\ peer'[v].current_term >= s /\ disk'[v].current_term >= s
              /\ Holds(peer'[v].log, C) /\ Holds(disk'[v].log, C)
  <2>1. ~Bogus(m)
    BY <1>10, BogusRefused, Zenon
  <2>2. PICK P \in written : Full(m, P)
    BY <1>10, <2>1, Zenon DEF WholeLogs
  <2>3. Holds(peer'[v].log, C)
    BY <1>2, <1>10, <2>2, TakenHolds, Zenon DEF s
  <2>4. /\ m.term >= peer[v].current_term /\ peer'[v].current_term = m.term
        /\ Flushed(disk[v], peer'[v], disk'[v])
    BY <1>10, Zenon DEF Takes
  <2>5. peer'[v].current_term >= s
    BY <1>1, <1>2, <1>3, <1>5, <2>4
  <2> QED BY <1>6, <2>3, <2>4, <2>5, Zenon
<1> QED BY <1>4, <1>7, <1>8, <1>9, <1>10, Zenon DEF NodeMoves

(* The up-to-date test of handle_request_vote: v votes for a log that has  *)
(* what v has.                                                             *)
LEMMA MovedCandidates ==
    ASSUME SetFacts, TypeOK, LogInv, TermInv, Moves,
           NEW v \in Node, NEW C \in written, LaterHold(C), SpreadOn(C, v),
           CandidatesHold(C, v)
    PROVE  CandidatesHold(C, v)'
<1> SUFFICES ASSUME NEW n \in Node, op'[n].phase = "vote",
                    peer'[n].current_term > LastLogTerm(C), v \in op'[n].votes
             PROVE  Holds(peer'[n].log, C)
  BY Zenon DEF CandidatesHold, Holds, LastLogTerm
<1>1. /\ Closed /\ Unique /\ Ordered /\ OneLine /\ Kept(peer[v].log) /\ Kept(peer[n].log)
  BY LogsKept, Zenon DEF TermInv
<1>2. Holds(peer[v].log, C)
  BY Zenon DEF SpreadOn
<1>3. /\ peer'[n].log = peer[n].log
      /\ \/ /\ op[n].phase = "vote" /\ peer'[n].current_term = peer[n].current_term
            /\ \A u \in op'[n].votes \ op[n].votes : Grants(u, n)
         \/ op'[n].votes = {n}
  BY Zenon DEF Moves, VotesMove
<1>4. CASE op'[n].votes = {n}
  BY <1>2, <1>3, <1>4, Zenon
<1>5. CASE /\ op[n].phase = "vote" /\ peer'[n].current_term = peer[n].current_term
           /\ v \in op[n].votes
  BY <1>3, <1>5, Zenon DEF CandidatesHold
<1>6. CASE Grants(v, n)
  <2>1. Holds(peer[n].log, C)
    BY <1>1, <1>2, <1>6, UpToDateHolds, Zenon DEF Grants
  <2> QED BY <1>3, <2>1, Zenon
<1> QED BY <1>3, <1>4, <1>5, <1>6, Zenon

LEMMA MovedLeaders ==
    ASSUME SetFacts, TypeOK, ElectionInv, LogInv, Moves,
           NEW C \in written, NEW M, Heard(C, M), LeadersHold(C),
           \A v \in M : CandidatesHold(C, v)
    PROVE  LeadersHold(C)'
<1> SUFFICES ASSUME NEW n \in Node, peer'[n].role = Leader,
                    peer'[n].current_term >= LastLogTerm(C)
             PROVE  Holds(peer'[n].log, C)
  BY Zenon DEF LeadersHold, Holds, LastLogTerm
<1>1. /\ peer'[n].current_term = peer[n].current_term /\ peer'[n].log = peer[n].log
      /\ peer[n].role = Leader \/ Wins(n)
  BY Zenon DEF Moves, RoleMoves
<1>2. CASE peer[n].role = Leader
  BY <1>1, <1>2, Zenon DEF LeadersHold
<1>3. CASE Wins(n)
  <2>1. Closed /\ peer[n].current_term \in Nat
    BY LogsKept, Zenon
  <2>2. Kept(C) /\ Len(C) \in 1..Len(C) /\ LastLogTerm(C) = C[Len(C)].term
        /\ LastLogTerm(C) \in Nat
    BY <2>1, WrittenFacts
  <2>3. C[Len(C)].term # peer[n].current_term
    BY <1>3, <2>2, NewTerm, Zenon
  <2>4. peer[n].current_term > LastLogTerm(C)
    BY <1>1, <2>1, <2>2, <2>3
  <2>5. PICK v \in M : v \in op[n].votes
    BY <1>3, <2>4, Zenon DEF Heard
  <2>6. op[n].phase = "vote"
    BY <1>3, Zenon DEF Wins
  <2>7. Holds(peer[n].log, C)
    BY <2>4, <2>5, <2>6, Zenon DEF CandidatesHold
  <2> QED BY <1>1, <2>7, Zenon
<1> QED BY <1>1, <1>2, <1>3, Zenon

LEMMA SpreadMoves ==
    ASSUME SetFacts, TypeOK, TypeOK', ElectionInv, LogInv, TermInv, WholeLogs, Moves,
           NEW C, NEW M \in SUBSET Node, Spread(C, M), Heard(C, M)
    PROVE  Spread(C, M)'
<1>1. C \in written /\ LaterHold(C) /\ LeadersHold(C)
  BY DEF Spread
<1>2. \A v \in M : v \in Node /\ SpreadOn(C, v) /\ CandidatesHold(C, v)
  BY DEF Spread
<1>3. written' = written
  BY DEF Moves
<1>4. LeadersHold(C)'
  BY <1>1, <1>2, MovedLeaders
<1>5. LaterHold(C)'
  BY <1>1, <1>3, Zenon DEF LaterHold, Holds, LastLogTerm
<1>6. \A v \in M : SpreadOn(C, v)' /\ CandidatesHold(C, v)'
  BY <1>1, <1>2, MovedOn, MovedCandidates, Zenon
<1> QED BY <1>1, <1>3, <1>4, <1>5, <1>6 DEF Spread

(* propose adds an entry and takes none away.                              *)
LEMMA ProposedHolds ==
    ASSUME TypeOK, LogInv, NEW n \in Node, NEW G, NEW f, Proposes(n, G, f),
           NEW C \in written, Holds(peer[n].log, C)
    PROVE  Holds(G, C)
<1>1. /\ Len(G) = Len(peer[n].log) + 1
      /\ \A j \in 1..Len(peer[n].log) : G[j] = peer[n].log[j]
  BY Zenon DEF Proposes
<1>2. Len(C) <= Len(peer[n].log) /\ peer[n].log[Len(C)].term = LastLogTerm(C)
  BY DEF Holds
<1>3. Len(C) \in Nat /\ Len(C) >= 1 /\ Len(peer[n].log) \in Nat
  BY LogsKept, WrittenFacts, KeptType, Zenon
<1>4. G[Len(C)] = peer[n].log[Len(C)]
  BY <1>1, <1>2, <1>3
<1> QED BY <1>1, <1>2, <1>3, <1>4 DEF Holds

LEMMA ProposedKeeps ==
    ASSUME TypeOK, LogInv, NEW n \in Node, NEW G, NEW f, Proposes(n, G, f),
           NEW C \in written, LeadersHold(C)
    PROVE  C \in written'
<1>1. CASE f = "none"
  BY <1>1, Zenon DEF Proposes
<1>2. CASE f # "none"
  <2>1. /\ written' = Written(G) /\ LastLogTerm(G) = peer[n].current_term
        /\ Len(G) = Len(peer[n].log) + 1 /\ peer[n].role = Leader
    BY <1>2, Zenon DEF Proposes
  <2>2. Len(C) \in Nat /\ Len(peer[n].log) \in Nat /\ peer[n].current_term \in Nat
    BY LogsKept, WrittenFacts, KeptType, Zenon
  <2>3. CASE LastLogTerm(C) = peer[n].current_term
    <3>1. Holds(peer[n].log, C)
      BY <2>1, <2>2, <2>3 DEF LeadersHold
    <3>2. Len(C) # Len(G)
      BY <2>1, <2>2, <3>1 DEF Holds
    <3> QED BY <2>1, <3>2, Zenon DEF Written
  <2>4. CASE LastLogTerm(C) # peer[n].current_term
    BY <2>1, <2>4 DEF Written
  <2> QED BY <2>3, <2>4
<1> QED BY <1>1, <1>2

LEMMA ProposedOn ==
    ASSUME TypeOK, LogInv, NEW n \in Node, NEW G, NEW f, Proposes(n, G, f),
           NEW C \in written, NEW v \in Node, SpreadOn(C, v)
    PROVE  SpreadOn(C, v)'
<1> DEFINE s == LastLogTerm(C)
<1>1. /\ peer[v].current_term >= s /\ disk[v].current_term >= s
      /\ Holds(peer[v].log, C) /\ Holds(disk[v].log, C)
  BY Zenon DEF SpreadOn
<1> SUFFICES /\ peer'[v].current_term >= s /\ disk'[v].current_term >= s
             /\ Holds(peer'[v].log, C) /\ Holds(disk'[v].log, C)
  BY Zenon DEF SpreadOn, s, Holds, LastLogTerm
<1> HIDE DEF s
<1>2. CASE v # n
  <2>1. peer'[v] = peer[v] /\ disk'[v] = disk[v]
    BY <1>2, Zenon DEF Proposes
  <2> QED BY <1>1, <2>1, Zenon
<1>3. CASE v = n
  <2>1. Holds(G, C)
    BY <1>1, <1>3, ProposedHolds, Zenon
  <2>2. /\ peer'[v].current_term = peer[v].current_term
        /\ peer'[v].log \in {peer[v].log, G} /\ disk'[v].log \in {disk[v].log, G}
        /\ disk'[v].current_term \in {disk[v].current_term, peer[v].current_term}
    BY <1>3, Zenon DEF Proposes, FlushResult
  <2> QED BY <1>1, <2>1, <2>2, Zenon
<1> QED BY <1>2, <1>3, Zenon

LEMMA SpreadProposes ==
    ASSUME TypeOK, LogInv, NEW n \in Node, NEW G, NEW f, Proposes(n, G, f),
           NEW C, NEW M \in SUBSET Node, Spread(C, M)
    PROVE  Spread(C, M)'
<1>1. C \in written /\ LaterHold(C) /\ LeadersHold(C)
  BY DEF Spread
<1>2. \A v \in M : v \in Node /\ SpreadOn(C, v) /\ CandidatesHold(C, v)
  BY DEF Spread
<1>3. /\ peer[n].role = Leader /\ peer[n].current_term \in Nat
      /\ LastLogTerm(G) = peer[n].current_term /\ LastLogTerm(C) \in Nat
  BY <1>1, LogsKept, WrittenFacts, Zenon DEF Proposes
<1>4. C \in written'
  BY <1>1, ProposedKeeps
<1>5. LaterHold(C)'
  <2> SUFFICES ASSUME NEW a \in written', LastLogTerm(a) > LastLogTerm(C)
               PROVE  Holds(a, C)
    BY Zenon DEF LaterHold, Holds, LastLogTerm
  <2>1. a \in written \/ a = G
    BY Zenon DEF Proposes, Written
  <2>2. CASE a \in written
    BY <1>1, <2>2, Zenon DEF LaterHold
  <2>3. CASE a = G
    <3>1. Holds(peer[n].log, C)
      BY <1>1, <1>3, <2>3 DEF LeadersHold
    <3> QED BY <1>1, <2>3, <3>1, ProposedHolds, Zenon
  <2> QED BY <2>1, <2>2, <2>3
<1>6. LeadersHold(C)'
  <2> SUFFICES ASSUME NEW k \in Node, peer'[k].role = Leader,
                      peer'[k].current_term >= LastLogTerm(C)
               PROVE  Holds(peer'[k].log, C)
    BY Zenon DEF LeadersHold, Holds, LastLogTerm
  <2>1. peer[k].role = Leader /\ peer[k].current_term >= LastLogTerm(C)
    BY Zenon DEF Proposes
  <2>2. Holds(peer[k].log, C)
    BY <1>1, <2>1, Zenon DEF LeadersHold
  <2>3. CASE k # n
    BY <2>2, <2>3, Zenon DEF Proposes
  <2>4. CASE k = n
    <3>1. Holds(G, C)
      BY <1>1, <2>2, <2>4, ProposedHolds, Zenon
    <3>2. peer'[k].log \in {peer[k].log, G}
      BY <2>4, Zenon DEF Proposes
    <3> QED BY <2>2, <3>1, <3>2, Zenon
  <2> QED BY <2>3, <2>4, Zenon
<1>7. \A v \in M : SpreadOn(C, v)'
  BY <1>1, <1>2, ProposedOn
<1>8. \A v \in M : CandidatesHold(C, v)'
  <2> SUFFICES ASSUME NEW v \in M, NEW k \in Node, op'[k].phase = "vote",
                      peer'[k].current_term > LastLogTerm(C), v \in op'[k].votes
               PROVE  Holds(peer'[k].log, C)
    BY Zenon DEF CandidatesHold, Holds, LastLogTerm
  <2>1. peer'[k] = peer[k] /\ op'[k] = op[k]
    BY Zenon DEF Proposes
  <2> QED BY <1>2, <2>1, Zenon DEF CandidatesHold
<1> QED BY <1>4, <1>5, <1>6, <1>7, <1>8, Zenon DEF Spread

(* A log on a majority stays there whatever happens: every winner has a    *)
(* vote from that majority.                                                *)
LEMMA SettledMoves ==
    ASSUME SetFacts, TypeOK, TypeOK', ElectionInv, LogInv, TermInv, WholeLogs, Moves,
           NEW C, Settled(C)
    PROVE  Settled(C)'
<1>1. PICK Q \in Quorums : Spread(C, Q)
  BY DEF Settled
<1>2. Heard(C, Q)
  <2> SUFFICES ASSUME NEW n \in Node, Wins(n) PROVE op[n].votes \cap Q # {}
    BY Zenon DEF Heard
  <2>1. op[n].votes \in Quorums
    BY Zenon DEF Wins
  <2> QED BY <2>1, QuorumsIntersect, Zenon
<1>3. Q \in SUBSET Node
  BY DEF Quorums
<1>4. Spread(C, Q)'
  BY <1>1, <1>2, <1>3, SpreadMoves, Zenon
<1> QED BY <1>4 DEF Settled, Quorums

LEMMA SettledProposes ==
    ASSUME TypeOK, LogInv, NEW n \in Node, NEW G, NEW f, Proposes(n, G, f),
           NEW C, Settled(C)
    PROVE  Settled(C)'
<1>1. PICK Q \in Quorums : Spread(C, Q)
  BY DEF Settled
<1>2. Q \in SUBSET Node
  BY Zenon DEF Quorums
<1>3. Spread(C, Q)'
  BY <1>1, <1>2, SpreadProposes
<1> QED BY <1>3 DEF Settled, Quorums

-----------------------------------------------------------------------------
(* What leaders count as replicated.                                       *)

(* A node that is past a term stays past it.                               *)
LEMMA PastMoves ==
    ASSUME TypeOK, TypeOK', LogInv, Moves, NEW v \in Node, NEW t \in Nat, Past(v, t)
    PROVE  Past(v, t)'
<1>1. peer[v].current_term \in Nat /\ disk[v].current_term \in Nat
  BY LogsKept, Zenon
<1>2. peer'[v].current_term \in Nat /\ disk'[v].current_term \in Nat
  BY Zenon DEF TypeOK, RaftPeer, PeerFiles
<1>3. peer[v].current_term > t /\ disk[v].current_term > t
  BY Zenon DEF Past
<1>4. \/ /\ peer'[v].current_term >= peer[v].current_term
         /\ disk'[v].current_term \in {disk[v].current_term, peer'[v].current_term}
      \/ /\ peer'[v].current_term = disk[v].current_term
         /\ disk'[v].current_term = disk[v].current_term
  <2>1. ASSUME Flushed(disk[v], peer'[v], disk'[v])
        PROVE  disk'[v].current_term \in {disk[v].current_term, peer'[v].current_term}
    BY <2>1, Zenon DEF Flushed, Same
  <2>2. CASE Stays(peer[v], disk[v], peer'[v], disk'[v])
    BY <2>1, <2>2, Zenon DEF Stays
  <2>3. CASE \E m \in AppendRequests : Takes(peer[v], disk[v], m, peer'[v], disk'[v])
    BY <2>1, <2>3, Zenon DEF Takes
  <2>4. CASE Commits(peer[v], disk[v], peer'[v], disk'[v])
    BY <1>1, <2>1, <2>4 DEF Commits
  <2>5. CASE Reloads(disk[v], peer'[v], disk'[v])
    BY <2>5, Zenon DEF Reloads
  <2>6. NodeMoves(v)
    BY Zenon DEF Moves
  <2> QED BY <2>2, <2>3, <2>4, <2>5, <2>6, Zenon DEF NodeMoves
<1>5. peer'[v].current_term > t /\ disk'[v].current_term > t
  BY <1>1, <1>2, <1>3, <1>4
<1> QED BY <1>5, Zenon DEF Past

LEMMA PastProposes ==
    ASSUME TypeOK, LogInv, NEW n \in Node, NEW G, NEW f, Proposes(n, G, f),
           NEW v \in Node, NEW t \in Nat, Past(v, t)
    PROVE  Past(v, t)'
<1>1. /\ peer'[v].current_term = peer[v].current_term
      /\ disk'[v].current_term \in {disk[v].current_term, peer[v].current_term}
  <2>1. CASE v # n
    BY <2>1, Zenon DEF Proposes
  <2>2. CASE v = n
    BY <2>2, Zenon DEF Proposes, FlushResult
  <2> QED BY <2>1, <2>2, Zenon
<1>2. peer'[v].current_term > t /\ disk'[v].current_term > t
  BY <1>1, Zenon DEF Past
<1> QED BY <1>2, Zenon DEF Past

(* An index that a leader can not commit stays so: who is past its term    *)
(* refuses its requests.                                                   *)
LEMMA BarredMoves ==
    ASSUME TypeOK, TypeOK', LogInv, Moves, NEW l \in Node, NEW i,
           peer[l].role = Leader, peer'[l].role = Leader, Barred(l, i)
    PROVE  Barred(l, i)'
<1>0. PICK t \in Nat : t = peer[l].current_term
  BY LogsKept, Zenon
<1>1. PICK Q \in Quorums : \A v \in Q : Past(v, t) /\ peer[l].match_index[v] < i
  BY <1>0, Zenon DEF Barred
<1>2. peer'[l].current_term = t
  BY <1>0, Zenon DEF Moves, RoleMoves
<1>3. ASSUME NEW v \in Q PROVE Past(v, t)' /\ peer'[l].match_index[v] < i
  <2>1. v \in Node /\ Past(v, t) /\ peer[l].match_index[v] < i
    BY <1>1, <1>3, Zenon DEF Quorums
  <2>2. Past(v, t)'
    BY <2>1, PastMoves, Zenon
  <2>3. ~Acks(v, l)
    <3> SUFFICES ASSUME Acks(v, l) PROVE FALSE
      BY Zenon
    <3>1. AppendRequest(l, v).term >= peer[v].current_term
      BY Zenon DEF Acks, Takes
    <3>2. AppendRequest(l, v).term = t
      BY <1>0, Zenon DEF AppendRequest
    <3>3. peer[v].current_term \in Nat
      BY <2>1, LogsKept, Zenon
    <3> QED BY <2>1, <3>1, <3>2, <3>3 DEF Past
  <2>4. peer'[l].match_index[v] = peer[l].match_index[v]
    BY <2>1, <2>3, Zenon DEF Moves, AcksMove
  <2> QED BY <2>1, <2>2, <2>4, Zenon
<1>4. Q \in Quorums'
  BY Zenon DEF Quorums
<1> QED BY <1>2, <1>3, <1>4, Zenon DEF Barred, Past

LEMMA BarredProposes ==
    ASSUME TypeOK, LogInv, NEW n \in Node, NEW G, NEW f, Proposes(n, G, f),
           NEW l \in Node, NEW i, Barred(l, i)
    PROVE  Barred(l, i)'
<1>0. PICK t \in Nat : t = peer[l].current_term
  BY LogsKept, Zenon
<1>1. PICK Q \in Quorums : \A v \in Q : Past(v, t) /\ peer[l].match_index[v] < i
  BY <1>0, Zenon DEF Barred
<1>2. peer'[l].current_term = t
  BY <1>0, Zenon DEF Proposes
<1>3. ASSUME NEW v \in Q PROVE Past(v, t)' /\ peer'[l].match_index[v] < i
  <2>1. v \in Node /\ Past(v, t) /\ peer[l].match_index[v] < i
    BY <1>1, <1>3, Zenon DEF Quorums
  <2>2. Past(v, t)'
    BY <2>1, PastProposes, Zenon
  <2>3. v # l
    BY <1>0, <2>1 DEF Past
  <2>4. peer'[l].match_index[v] = peer[l].match_index[v]
    <3>1. CASE l # n
      BY <3>1, Zenon DEF Proposes
    <3>2. CASE l = n
      <4>1. peer'[l].match_index = [peer[l].match_index EXCEPT ![l] = Len(peer'[l].log)]
        BY <3>2, Zenon DEF Proposes
      <4>2. peer[l].match_index \in [Node -> Nat]
        BY TypeOfNode, Zenon DEF RaftPeer
      <4> QED BY <2>1, <2>3, <4>1, <4>2, Zenon
    <3> QED BY <3>1, <3>2, Zenon
  <2> QED BY <2>1, <2>2, <2>4, Zenon
<1>4. Q \in Quorums'
  BY DEF Quorums
<1> QED BY <1>2, <1>3, <1>4, Zenon DEF Barred, Past

(* Whoever has been counted as a voter of a later term is past this one.   *)
LEMMA CountedPast ==
    ASSUME TypeOK, ElectionInv, LogInv, NEW t \in Nat, NEW s \in Nat, s > t,
           NEW v \in Node, NEW x, <<s, v, x>> \in tally
    PROVE  Past(v, t)
<1>1. peer[v].current_term >= s /\ disk[v].current_term >= s
  <2>1. Honours(peer[v], <<s, v, x>>, elected) /\ Honours(disk[v], <<s, v, x>>, elected)
    BY Zenon DEF ElectionInv, VotesRemembered, VotesHonoured
  <2> QED BY <2>1, Zenon DEF Honours
<1>2. peer[v].current_term \in Nat /\ disk[v].current_term \in Nat
  BY LogsKept, Zenon
<1> QED BY <1>1, <1>2 DEF Past

(* Once a later leader is elected, this one commits nothing new.           *)
LEMMA LaterWinner ==
    ASSUME TypeOK, ElectionInv, LogInv, NEW l \in Node, AckedBy(l),
           NEW x \in elected, x[1] > peer[l].current_term
    PROVE  Barred(l, Len(peer[l].log) + 1)
<1> DEFINE i == Len(peer[l].log) + 1
<1>1. /\ peer[l].current_term \in Nat /\ x[1] \in Nat /\ Len(peer[l].log) \in Nat
      /\ \A v \in Node : peer[l].match_index[v] \in Nat
  <2>1. x[1] \in Nat
    BY Zenon DEF TypeOK
  <2>2. peer[l] \in RaftPeer
    BY TypeOfNode, Zenon
  <2> QED BY <2>1, <2>2 DEF RaftPeer
<1>2. \A v \in Node : peer[l].match_index[v] <= Len(peer[l].log) \/ Barred(l, i)
  BY Zenon DEF AckedBy
<1> SUFFICES ASSUME ~Barred(l, i) PROVE FALSE
  BY Zenon
<1>3. PICK Q \in Quorums : \A v \in Q : <<x[1], v, x[2]>> \in tally
  BY Zenon DEF ElectionInv, ElectedInv
<1>4. ASSUME NEW v \in Q
      PROVE  Past(v, peer[l].current_term) /\ peer[l].match_index[v] < i
  <2>1. v \in Node
    BY Zenon DEF Quorums
  <2>2. Past(v, peer[l].current_term)
    BY <1>1, <1>3, <2>1, CountedPast, Zenon
  <2>3. peer[l].match_index[v] < i
    BY <1>1, <1>2, <2>1
  <2> QED BY <2>2, <2>3, Zenon
<1> QED BY <1>4, Zenon DEF Barred

(* What an accepted request tells the leader: its follower has the whole   *)
(* log in its files.  A follower with a longer log has entries of a later  *)
(* term.                                                                   *)
LEMMA AckedLog ==
    ASSUME SetFacts, TypeOK, ElectionInv, LogInv, TermInv, MaxLog <= MaxBatch,
           NEW l \in Node, NEW v \in Node, Acks(v, l)
    PROVE  /\ peer'[v].current_term = peer[l].current_term
           /\ disk'[v].current_term = peer[l].current_term
           /\ AgreeUpTo(peer'[v].log, peer[l].log, Len(peer[l].log))
           /\ disk'[v].log = peer'[v].log
           /\ peer'[l].match_index[v] = Len(peer'[v].log)
           /\ \/ Len(peer'[v].log) <= Len(peer[l].log)
              \/ \E x \in elected : x[1] > peer[l].current_term
<1> DEFINE m == AppendRequest(l, v)
           P == peer[l].log
           r == peer'[v].log
<1>1. /\ v # l /\ Replicates(l) /\ m \in AppendRequests
      /\ Takes(peer[v], disk[v], m, peer'[v], disk'[v]) /\ Same(peer'[v], disk'[v])
      /\ peer'[l].match_index[v] = Len(r)
  BY Zenon DEF Acks, Sent, LastLogIndex
<1>2. m.term = peer[l].current_term
  BY Zenon DEF AppendRequest
<1> HIDE DEF m
<1>3. ~Bogus(m)
  BY <1>1, BogusRefused, Zenon
<1>4. Full(m, P)
  BY <1>1, <1>3, WholeRequest, Zenon DEF m
<1>5. /\ P \in written /\ LastLogTerm(P) = peer[l].current_term /\ peer[l].role = Leader
      /\ Len(P) \in Nat /\ Len(P) >= 1
  BY <1>1, OwnLog, Zenon
<1> HIDE DEF P
<1>6. r \in {peer[v].log, P} /\ AgreeUpTo(r, P, Len(P))
  BY <1>1, <1>4, <1>5, TakesCarried, Zenon DEF Full
<1>7. Len(r) <= Len(P) \/ \E x \in elected : x[1] > peer[l].current_term
  <2> SUFFICES ASSUME ~(Len(r) <= Len(P))
               PROVE  \E x \in elected : x[1] > peer[l].current_term
    BY Zenon
  <2>1. r = peer[v].log
    BY <1>5, <1>6
  <2>2. Closed /\ Unique /\ Ordered /\ Usable(r, v) /\ Kept(r) /\ Len(r) \in Nat
    BY <2>1, LogsKept, KeptType, Zenon DEF LogInv, NodeLogs, TermInv
  <2> DEFINE i == Len(P) + 1
  <2>3. i \in Nat /\ 1 <= i /\ i <= Len(r)
    BY <1>5, <2>2
  <2>4. r[i].term # peer[l].current_term
    <3>1. Len(P) < Len(r)
      BY <1>5, <2>2, <2>3
    <3>2. Fresh(l, r)
      BY <1>1, <1>5, <2>2, Zenon DEF Usable
    <3> QED BY <3>1, <3>2, Zenon DEF Fresh, P
  <2>5. r[Len(P)].term = peer[l].current_term
    <3>1. Closed /\ LastLogTerm(P) = P[Len(P)].term
      BY <1>5, <2>2, WrittenFacts, Zenon
    <3>2. r[Len(P)] = P[Len(P)]
      BY <1>5, <1>6 DEF AgreeUpTo
    <3> QED BY <1>5, <3>1, <3>2, Zenon
  <2>6. r \in written
    <3>1. r # <<>>
      BY <2>3, LenOfEmpty
    <3> QED BY <2>2, <3>1, Zenon DEF Kept
  <2>7. r[Len(P)].term <= r[i].term
    BY <1>5, <2>2, <2>3, <2>6 DEF Ordered
  <2>8. SubSeq(r, 1, i) \in written /\ LastLogTerm(SubSeq(r, 1, i)) = r[i].term
    BY <2>2, <2>3, PrefixWritten, Zenon
  <2>9. r[i].term \in Nat /\ peer[l].current_term \in Nat
    BY <2>2, <2>8, WrittenFacts, LogsKept, Zenon
  <2>10. PICK y \in Node : <<r[i].term, y>> \in elected
    BY <2>8, Zenon DEF LogInv, FromWinners
  <2>11. r[i].term > peer[l].current_term
    BY <2>4, <2>5, <2>7, <2>9
  <2> QED BY <2>10, <2>11, Zenon
<1> QED BY <1>1, <1>2, <1>6, <1>7, Zenon DEF Takes, Same, P

(* Sets and logs of the next state, named.                                 *)
LEMMA SpreadNow ==
    ASSUME NEW C, NEW M, NEW l \in Node, NEW i, Spread(C, M)',
           SubSeq(peer'[l].log, 1, i) = C, {v \in Node : peer'[l].match_index[v] >= i} = M
    PROVE  Spread(SubSeq(peer[l].log, 1, i), Acked(l, i))'
BY ZenonT(30) DEF Spread, Acked, SpreadOn, CandidatesHold, LaterHold, LeadersHold, Holds, LastLogTerm

(* A step in which l stays the leader keeps what l has counted, unless a   *)
(* later leader is elected without those who were counted.                 *)
LEMMA AckMatch ==
    ASSUME SetFacts, TypeOK, TypeOK', ElectionInv, LogInv, TermInv, MaxLog <= MaxBatch, Moves,
           NEW l \in Node, peer[l].role = Leader, peer'[l].role = Leader, AckedBy(l),
           NEW v \in Node
    PROVE  peer'[l].match_index[v] <= Len(peer[l].log) \/ Barred(l, Len(peer[l].log) + 1)
<1>1. peer[l].match_index[v] <= Len(peer[l].log) \/ Barred(l, Len(peer[l].log) + 1)
  BY Zenon DEF AckedBy
<1>2. peer'[l].match_index[v] = peer[l].match_index[v] \/ Acks(v, l)
  BY Zenon DEF Moves, AcksMove
<1>3. CASE peer'[l].match_index[v] = peer[l].match_index[v]
  BY <1>1, <1>3, Zenon
<1>4. CASE Acks(v, l)
  <2>1. /\ peer'[l].match_index[v] = Len(peer'[v].log)
        /\ \/ Len(peer'[v].log) <= Len(peer[l].log)
           \/ \E x \in elected : x[1] > peer[l].current_term
    BY <1>4, AckedLog, Zenon
  <2> QED BY <2>1, LaterWinner, Zenon
<1> QED BY <1>2, <1>3, <1>4, Zenon

LEMMA AckSpread ==
    ASSUME SetFacts, TypeOK, TypeOK', ElectionInv, ElectionInv', LogInv, TermInv, WholeLogs,
           MaxLog <= MaxBatch, Moves,
           NEW l \in Node, peer[l].role = Leader, peer'[l].role = Leader, AckedBy(l),
           NEW i \in 1..Len(peer[l].log), peer[l].log[i].term = peer[l].current_term
    PROVE  Barred(l, i) \/ Spread(SubSeq(peer[l].log, 1, i), Acked(l, i))'
<1>1. PICK C : C = SubSeq(peer[l].log, 1, i)
  BY Zenon
<1>2. PICK M : M = Acked(l, i)
  BY Zenon
<1>3. PICK N : N = {v \in Node : peer'[l].match_index[v] >= i}
  BY Zenon
<1>4. /\ peer[l].log \in Seq(LogEntry) /\ peer[l].current_term \in Nat /\ i \in Nat
      /\ peer'[l].log = peer[l].log /\ Closed /\ Len(peer[l].log) \in Nat
      /\ peer[l].match_index \in [Node -> Nat] /\ Kept(peer[l].log)
  <2>1. peer[l] \in RaftPeer /\ peer[l].log \in Seq(LogEntry) /\ peer[l].current_term \in Nat
    BY TypeOfNode, Zenon
  <2>2. Closed /\ Kept(peer[l].log)
    BY LogsKept, Zenon
  <2>3. peer[l].match_index \in [Node -> Nat]
    BY <2>1, Zenon DEF RaftPeer
  <2>4. Len(peer[l].log) \in Nat
    BY <2>1, LogLength, Zenon
  <2>5. peer'[l].log = peer[l].log
    BY Zenon DEF Moves, RoleMoves
  <2>6. \A x \in Nat : \A y \in 1..x : y \in Nat
    OBVIOUS
  <2> QED BY <2>1, <2>2, <2>3, <2>4, <2>5, <2>6, Zenon
<1>10. 1 <= i /\ i <= Len(peer[l].log) /\ i \in 1..i
  <2>1. \A x \in Nat : \A y \in 1..x : 1 <= y /\ y <= x /\ y \in 1..y
    OBVIOUS
  <2> QED BY <1>4, <2>1, Zenon
<1>5. C \in written /\ Len(C) = i /\ LastLogTerm(C) = peer[l].current_term
      /\ \A j \in 1..i : C[j] = peer[l].log[j]
  BY <1>1, <1>4, <1>10, PrefixWritten, Zenon
<1> SUFFICES ASSUME ~Barred(l, i) PROVE Spread(C, N)'
  BY <1>1, <1>3, <1>4, SpreadNow, Zenon
<1>6. Spread(C, M) /\ M \in SUBSET Node
  BY <1>1, <1>2, Zenon DEF AckedBy, Acked
<1>7. Heard(C, M)
  <2> SUFFICES ASSUME NEW n \in Node, Wins(n), peer[n].current_term > peer[l].current_term,
                      op[n].votes \cap M = {}
               PROVE  FALSE
    BY <1>5, Zenon DEF Heard
  <2>1. op[n].phase = "vote" /\ op[n].votes \in Quorums /\ peer[n].current_term \in Nat
    BY LogsKept, Zenon DEF Wins
  <2>2. ASSUME NEW v \in op[n].votes
        PROVE  Past(v, peer[l].current_term) /\ peer[l].match_index[v] < i
    <3>1. v \in Node /\ v \notin M
      BY <2>1, Zenon DEF Quorums
    <3>2. <<peer[n].current_term, v, n>> \in tally
      BY <2>1, Zenon DEF ElectionInv, CampaignInv, OperationInv
    <3>3. Past(v, peer[l].current_term)
      BY <1>4, <2>1, <3>1, <3>2, CountedPast, Zenon
    <3>4. peer[l].match_index[v] < i
      <4>1. peer[l].match_index[v] \in Nat
        BY <1>4, <3>1, Zenon
      <4>2. ~(peer[l].match_index[v] >= i)
        BY <1>2, <3>1, Zenon DEF Acked
      <4>3. \A x, y \in Nat : ~(x >= y) => x < y
        OBVIOUS
      <4> QED BY <1>4, <4>1, <4>2, <4>3, Zenon
    <3> QED BY <3>3, <3>4, Zenon
  <2> QED BY <2>1, <2>2, Zenon DEF Barred
<1>8. Spread(C, M)'
  BY <1>6, <1>7, SpreadMoves, Zenon
<1>9. ASSUME NEW u \in N, u \notin M
      PROVE  SpreadOn(C, u)' /\ CandidatesHold(C, u)'
  <2>1. u \in Node /\ peer'[l].match_index[u] # peer[l].match_index[u]
    BY <1>2, <1>3, <1>9, Zenon DEF Acked
  <2>2. Acks(u, l)
    BY <2>1, Zenon DEF Moves, AcksMove
  <2>3. /\ peer'[u].current_term = peer[l].current_term
        /\ disk'[u].current_term = peer[l].current_term
        /\ AgreeUpTo(peer'[u].log, peer[l].log, Len(peer[l].log))
        /\ disk'[u].log = peer'[u].log
    BY <2>1, <2>2, AckedLog, Zenon
  <2>4. Holds(peer'[u].log, C)
    <3>1. peer'[u].log \in Seq(LogEntry)
      BY <2>1, Zenon DEF TypeOK, RaftPeer
    <3>2. Len(C) <= Len(peer'[u].log) /\ peer'[u].log[i] = C[i]
      <4>1. Len(peer'[u].log) \in Nat
        BY <3>1, LogLength, Zenon
      <4>2. /\ Len(peer[l].log) <= Len(peer'[u].log)
            /\ peer'[u].log[i] = peer[l].log[i] /\ C[i] = peer[l].log[i]
        BY <1>5, <1>10, <2>3, Zenon DEF AgreeUpTo
      <4>3. \A x, y, z \in Nat : x <= y /\ y <= z => x <= z
        OBVIOUS
      <4> QED BY <1>4, <1>5, <1>10, <4>1, <4>2, <4>3, Zenon
    <3> QED BY <1>4, <1>5, <3>2, PrefixHolds, Zenon
  <2>5. SpreadOn(C, u)'
    <3>1. /\ peer'[u].current_term >= LastLogTerm(C) /\ disk'[u].current_term >= LastLogTerm(C)
          /\ Holds(disk'[u].log, C)
      BY <1>4, <1>5, <2>3, <2>4
    <3> QED BY <2>4, <3>1, Zenon DEF SpreadOn, Holds, LastLogTerm
  <2>6. CandidatesHold(C, u)'
    <3> SUFFICES ASSUME NEW n \in Node, op'[n].phase = "vote",
                        peer'[n].current_term > LastLogTerm(C), u \in op'[n].votes
                 PROVE  FALSE
      BY Zenon DEF CandidatesHold, Holds, LastLogTerm
    <3>1. <<peer'[n].current_term, u, n>> \in tally'
      BY Zenon DEF ElectionInv, CampaignInv, OperationInv
    <3>3. peer'[u].current_term >= peer'[n].current_term
      BY <3>1, Zenon DEF ElectionInv, VotesRemembered, Honours
    <3>4. peer'[n].current_term \in Nat
      BY Zenon DEF TypeOK, RaftPeer
    <3>5. \A x, y \in Nat : ~(y > x /\ x >= y)
      OBVIOUS
    <3> QED BY <1>4, <1>5, <2>3, <3>3, <3>4, <3>5, Zenon
  <2> QED BY <2>5, <2>6, Zenon
<1> QED BY <1>8, <1>9, Zenon DEF Spread

LEMMA AckMoves ==
    ASSUME SetFacts, TypeOK, TypeOK', ElectionInv, ElectionInv', LogInv, TermInv, WholeLogs,
           MaxLog <= MaxBatch, AckInv, Moves
    PROVE  AckInv'
<1> SUFFICES ASSUME NEW l \in Node, peer'[l].role = Leader PROVE AckedBy(l)'
  BY Zenon DEF AckInv
<1>1. /\ peer'[l].current_term = peer[l].current_term /\ peer'[l].log = peer[l].log
      /\ peer[l].role = Leader \/ Wins(l)
  BY Zenon DEF Moves, RoleMoves
<1>2. /\ Len(peer[l].log) \in Nat /\ Kept(peer[l].log)
      /\ peer'[l].match_index \in [Node -> Nat]
  BY LogsKept, KeptType, Zenon DEF TypeOK, RaftPeer
<1> SUFFICES /\ peer'[l].match_index[l] = Len(peer[l].log)
             /\ \A v \in Node :
                   \/ peer'[l].match_index[v] <= Len(peer[l].log)
                   \/ Barred(l, Len(peer[l].log) + 1)
                      /\ peer[l].role = Leader
             /\ \A i \in 1..Len(peer[l].log) : peer[l].log[i].term = peer[l].current_term =>
                   \/ Barred(l, i) /\ peer[l].role = Leader
                   \/ Spread(SubSeq(peer[l].log, 1, i), Acked(l, i))'
  <2>1. ASSUME NEW i, Barred(l, i), peer[l].role = Leader PROVE Barred(l, i)'
    BY <2>1, BarredMoves, Zenon
  <2>2. PICK j : j = Len(peer[l].log) + 1
    BY Zenon
  <2>3. peer[l].role = Leader /\ Barred(l, j) => Barred(l, j)'
    BY <2>1, Zenon
  <2>4. peer[l].role = Leader /\ Barred(l, j) => Barred(l, Len(peer[l].log) + 1)'
    BY <1>1, <2>2, <2>3, Zenon DEF Barred, Past
  <2>5. \A v \in Node : peer'[l].match_index[v] <= Len(peer[l].log)
                        \/ Barred(l, Len(peer[l].log) + 1)'
    BY <2>2, <2>4, Zenon
  <2>6. \A i \in 1..Len(peer[l].log) : peer[l].log[i].term = peer[l].current_term =>
           Barred(l, i)' \/ Spread(SubSeq(peer[l].log, 1, i), Acked(l, i))'
    BY <2>1, Zenon
  <2> QED BY <1>1, <2>5, <2>6, Zenon DEF AckedBy
<1>3. CASE peer[l].role = Leader
  <2>1. AckedBy(l)
    BY <1>3, Zenon DEF AckInv
  <2>2. peer'[l].match_index[l] = Len(peer[l].log)
    <3>1. peer'[l].match_index[l] = peer[l].match_index[l]
      BY <1>3, Zenon DEF Moves, AcksMove, Acks
    <3> QED BY <2>1, <3>1, Zenon DEF AckedBy
  <2>3. \A v \in Node : peer'[l].match_index[v] <= Len(peer[l].log)
                        \/ Barred(l, Len(peer[l].log) + 1)
    BY <1>3, <2>1, AckMatch, Zenon
  <2>4. \A i \in 1..Len(peer[l].log) : peer[l].log[i].term = peer[l].current_term =>
           Barred(l, i) \/ Spread(SubSeq(peer[l].log, 1, i), Acked(l, i))'
    BY <1>3, <2>1, AckSpread, Zenon
  <2> QED BY <1>3, <2>2, <2>3, <2>4, Zenon
<1>4. CASE Wins(l)
  <2>1. peer'[l].match_index = [v \in Node |-> IF v = l THEN Len(peer[l].log) ELSE 0]
    BY <1>4, Zenon DEF Wins
  <2>2. \A i \in 1..Len(peer[l].log) : peer[l].log[i].term # peer[l].current_term
    BY <1>2, <1>4, NewTerm, Zenon
  <2> QED BY <1>2, <2>1, <2>2
<1> QED BY <1>1, <1>3, <1>4, Zenon

(* The new entry is on its leader, and no later leader exists yet.         *)
LEMMA OwnSpread ==
    ASSUME SetFacts, TypeOK, TypeOK', ElectionInv, LogInv, LogInv', TermInv,
           NEW n \in Node, NEW G, NEW f, Proposes(n, G, f), f = "ok",
           AckedBy(n), ~Barred(n, Len(peer[n].log) + 1)
    PROVE  Spread(G, {n})'
<1>1. PICK t \in Nat : t = peer[n].current_term
  BY LogsKept, Zenon
<1>2. /\ LastLogTerm(G) = t /\ G[Len(G)].term = t /\ G \in Seq(LogEntry) /\ peer[n].role = Leader
      /\ peer'[n].current_term = t /\ disk'[n].current_term = t
      /\ peer'[n].log = G /\ disk'[n].log = G /\ written' = Written(G)
  BY <1>1, Zenon DEF Proposes
<1>3. Len(G) \in Nat /\ Holds(G, G)
  BY <1>2, LogLength DEF Holds
<1>4. \A x \in elected : ~(x[1] > t)
  BY <1>1, LaterWinner, Zenon
<1>5. G \in written'
  BY <1>2, Zenon DEF Written
<1>6. LaterHold(G)'
  <2> SUFFICES ASSUME NEW a \in written', LastLogTerm(a) > t PROVE FALSE
    BY <1>2, Zenon DEF LaterHold, Holds, LastLogTerm
  <2>1. a # G
    BY <1>2
  <2>2. a \in written
    BY <1>2, <2>1, Zenon DEF Written
  <2>3. PICK x \in Node : <<LastLogTerm(a), x>> \in elected
    BY <2>2, Zenon DEF LogInv, FromWinners
  <2> QED BY <1>4, <2>3, Zenon
<1>7. LeadersHold(G)'
  <2> SUFFICES ASSUME NEW k \in Node, peer'[k].role = Leader, peer'[k].current_term >= t
               PROVE  Holds(peer'[k].log, G)
    BY <1>2, Zenon DEF LeadersHold, Holds, LastLogTerm
  <2>1. CASE k = n
    BY <1>2, <1>3, <2>1, Zenon
  <2>2. CASE k # n
    <3>1. peer[k].role = Leader /\ peer[k].current_term >= t
      BY Zenon DEF Proposes
    <3>2. peer[k].current_term # peer[n].current_term
      BY <2>2, <3>1, ProposedFresh, Zenon
    <3>3. <<peer[k].current_term, k>> \in elected
      BY <3>1, Zenon DEF ElectionInv, CampaignInv, OperationInv
    <3>4. peer[k].current_term \in Nat
      BY LogsKept, Zenon
    <3> QED BY <1>1, <1>4, <3>1, <3>2, <3>3, <3>4
  <2> QED BY <2>1, <2>2, Zenon
<1>8. SpreadOn(G, n)'
  BY <1>2, <1>3 DEF SpreadOn, Holds, LastLogTerm
<1>9. CandidatesHold(G, n)'
  <2> SUFFICES ASSUME NEW k \in Node, op'[k].phase = "vote", peer'[k].current_term > t,
                      n \in op'[k].votes
               PROVE  FALSE
    BY <1>2, Zenon DEF CandidatesHold, Holds, LastLogTerm
  <2>1. peer'[k] = peer[k] /\ op'[k] = op[k]
    BY Zenon DEF Proposes
  <2>2. <<peer[k].current_term, n, k>> \in tally
    BY <2>1, Zenon DEF ElectionInv, CampaignInv, OperationInv
  <2>3. peer[k].current_term \in Nat
    BY LogsKept, Zenon
  <2>4. Past(n, t)
    BY <2>1, <2>2, <2>3, CountedPast, Zenon
  <2> QED BY <1>1, <2>4 DEF Past
<1> QED BY <1>5, <1>6, <1>7, <1>8, <1>9, Zenon DEF Spread

LEMMA AckProposes ==
    ASSUME SetFacts, TypeOK, TypeOK', ElectionInv, LogInv, LogInv', TermInv, AckInv,
           NEW n \in Node, NEW G, NEW f, Proposes(n, G, f)
    PROVE  AckInv'
<1> SUFFICES ASSUME NEW l \in Node, peer'[l].role = Leader PROVE AckedBy(l)'
  BY Zenon DEF AckInv
<1>1. PICK L : L = peer[l].log
  BY Zenon
<1>2. PICK L2 : L2 = peer'[l].log
  BY Zenon
<1>3. PICK t \in Nat : t = peer[l].current_term
  BY LogsKept, Zenon
<1>4. /\ peer[l].role = Leader /\ peer'[l].current_term = t
      /\ L \in Seq(LogEntry) /\ L2 \in Seq(LogEntry) /\ Len(L) \in Nat /\ Len(L2) \in Nat
      /\ \A v \in Node : peer[l].match_index[v] \in Nat
      /\ peer[l].match_index \in [Node -> Nat]
  <2>1. peer[l] \in RaftPeer /\ peer'[l] \in RaftPeer
    BY Zenon DEF TypeOK
  <2> QED BY <1>1, <1>2, <1>3, <2>1, LogLength, Zenon DEF RaftPeer, Proposes
<1>5. /\ peer[l].match_index[l] = Len(L)
      /\ \A v \in Node : peer[l].match_index[v] <= Len(L) \/ Barred(l, Len(L) + 1)
      /\ \A i \in 1..Len(L) : L[i].term = t => Barred(l, i) \/ Spread(SubSeq(L, 1, i), Acked(l, i))
      /\ AckedBy(l)
  BY <1>1, <1>3, <1>4, Zenon DEF AckInv, AckedBy
<1>6. \A i : Barred(l, i) => Barred(l, i)'
  BY BarredProposes, Zenon
<1>7. /\ \/ l # n /\ L2 = L
         \/ l = n /\ f # "ok" /\ L2 = L
         \/ l = n /\ f = "ok" /\ L2 = G /\ Len(G) = Len(L) + 1 /\ \A j \in 1..Len(L) : G[j] = L[j]
      /\ peer'[l].match_index = [peer[l].match_index EXCEPT ![l] = Len(L2)]
  <2>1. CASE l # n
    <3>1. peer'[l] = peer[l]
      BY <2>1, Zenon DEF Proposes
    <3> QED BY <1>1, <1>2, <1>4, <1>5, <2>1, <3>1, Zenon
  <2>2. CASE l = n
    BY <1>1, <1>2, <2>2, Zenon DEF Proposes
  <2> QED BY <2>1, <2>2, Zenon
<1>8. /\ Len(L) <= Len(L2) /\ \A j \in 1..Len(L) : L2[j] = L[j]
      /\ peer'[l].match_index[l] = Len(L2)
      /\ \A v \in Node \ {l} : peer'[l].match_index[v] = peer[l].match_index[v]
  BY <1>4, <1>7
<1>9. ASSUME NEW v \in Node
      PROVE  peer'[l].match_index[v] <= Len(L2) \/ Barred(l, Len(L2) + 1)'
  <2>1. CASE v = l
    BY <1>4, <1>8, <2>1
  <2>2. CASE v # l /\ peer[l].match_index[v] <= Len(L)
    BY <1>4, <1>8, <2>2
  <2>3. CASE Barred(l, Len(L) + 1)
    <3>1. PICK j \in Nat : j = Len(L) + 1 /\ j <= Len(L2) + 1
      BY <1>4, <1>8
    <3>2. Barred(l, j)'
      BY <1>6, <2>3, <3>1, Zenon
    <3>3. PICK Q \in Quorums' : \A u \in Q :
             Past(u, t)' /\ peer'[l].match_index[u] < j
      BY <1>4, <3>2, Zenon DEF Barred, Past
    <3>4. \A u \in Q : peer'[l].match_index[u] < Len(L2) + 1
      <4>1. \A u \in Node : peer'[l].match_index[u] \in Nat
        BY Zenon DEF TypeOK, RaftPeer
      <4>2. ASSUME NEW u \in Q
            PROVE  /\ peer'[l].match_index[u] \in Nat
                   /\ peer'[l].match_index[u] < j
        BY <3>3, <4>1, Zenon DEF Quorums
      <4>3. Len(L2) \in Nat
        BY <1>4, Zenon
      <4>4. \A k \in Nat : k < j => k < Len(L2) + 1
        BY <3>1, <4>3
      <4> QED BY <4>2, <4>4, Zenon
    <3> QED BY <1>4, <3>3, <3>4, Zenon DEF Barred, Past
  <2> QED BY <1>5, <2>1, <2>2, <2>3, Zenon
<1>10. ASSUME NEW i \in 1..Len(L2), L2[i].term = t
       PROVE  Barred(l, i)' \/ Spread(SubSeq(peer[l].log, 1, i), Acked(l, i))'
  <2> SUFFICES ASSUME ~Barred(l, i)
               PROVE  Spread(SubSeq(peer[l].log, 1, i), Acked(l, i))'
    BY <1>6, Zenon
  <2>1. PICK M : M = Acked(l, i)
    BY Zenon
  <2>2. PICK N : N = {v \in Node : peer'[l].match_index[v] >= i}
    BY Zenon
  <2>3. PICK C : C = SubSeq(L2, 1, i)
    BY Zenon
  <2> SUFFICES Spread(C, N)'
    BY <1>2, <2>2, <2>3, SpreadNow, Zenon
  <2>4. CASE i <= Len(L)
    <3>1. C = SubSeq(L, 1, i)
      BY <1>4, <1>8, <2>3, <2>4, EqualPrefixes
    <3>2. i \in 1..Len(L) /\ L[i].term = t
      BY <1>8, <1>10, <2>4
    <3>3. Spread(C, M) /\ M \in SUBSET Node
      BY <1>5, <2>1, <3>1, <3>2, Zenon DEF Acked
    <3>4. N = M
      <4>1. ASSUME NEW v \in Node
            PROVE  peer'[l].match_index[v] >= i <=> peer[l].match_index[v] >= i
        <5>1. CASE v = l
          <6>1. \A x, y \in Nat : x <= y => \A z \in 1..y : z <= x => x >= z /\ y >= z
            OBVIOUS
          <6>2. Len(L) >= i /\ Len(L2) >= i
            BY <1>4, <1>8, <2>4, <6>1, Zenon
          <6> QED BY <1>5, <1>8, <5>1, <6>2, Zenon
        <5>2. CASE v # l
          BY <1>8, <5>2, Zenon
        <5> QED BY <5>1, <5>2, Zenon
      <4> QED BY <2>1, <2>2, <4>1, Zenon DEF Acked
    <3> QED BY <3>3, <3>4, SpreadProposes, Zenon
  <2>5. CASE ~(i <= Len(L))
    <3>1. l = n /\ f = "ok" /\ L2 = G /\ i = Len(L) + 1 /\ i = Len(G)
      BY <1>4, <1>7, <1>10, <2>5
    <3>2. C = G
      BY <1>4, <2>3, <3>1, WholePrefix, Zenon
    <3>3. N = {n}
      <4>1. \A v \in Node : peer[l].match_index[v] <= Len(L)
        BY <1>5, <3>1, Zenon
      <4> QED BY <1>4, <1>8, <2>2, <3>1, <4>1
    <3>4. Spread(G, {n})'
      BY <1>1, <1>5, <3>1, OwnSpread, Zenon
    <3> QED BY <3>2, <3>3, <3>4, Zenon
  <2> QED BY <2>4, <2>5, Zenon
<1> QED BY <1>2, <1>4, <1>8, <1>9, <1>10, Zenon DEF AckedBy

-----------------------------------------------------------------------------
(* What is committed.                                                      *)

LEMMA SettledFacts ==
    ASSUME NEW C, Settled(C)
    PROVE  C \in written /\ LaterHold(C) /\ LeadersHold(C)
BY DEF Settled, Spread

(* Of two committed logs the longer holds the shorter.                     *)
LEMMA SettledCompare ==
    ASSUME Closed, OneLine, NEW A, NEW B, Settled(A), Settled(B), Len(A) <= Len(B)
    PROVE  Holds(B, A)
<1>1. A \in written /\ B \in written /\ LaterHold(A) /\ LaterHold(B)
  BY SettledFacts
<1>2. /\ LastLogTerm(A) \in Nat /\ LastLogTerm(B) \in Nat /\ Len(A) \in Nat /\ Len(B) \in Nat
      /\ LastLogTerm(A) = A[Len(A)].term
  BY <1>1, WrittenFacts, Zenon
<1>3. CASE LastLogTerm(A) < LastLogTerm(B)
  BY <1>1, <1>2, <1>3, Zenon DEF LaterHold
<1>4. CASE LastLogTerm(A) = LastLogTerm(B)
  BY <1>1, <1>4, LongerHolds
<1>5. CASE LastLogTerm(A) > LastLogTerm(B)
  <2>1. Len(B) <= Len(A) /\ A[Len(B)].term = LastLogTerm(B)
    BY <1>1, <1>5, Zenon DEF LaterHold, Holds
  <2>2. Len(A) = Len(B)
    BY <1>2, <2>1
  <2> QED BY <1>2, <1>5, <2>1, <2>2
<1> QED BY <1>2, <1>3, <1>4, <1>5

(* What a majority has acknowledged in the leader's own term is committed. *)
LEMMA CommittableSettled ==
    ASSUME SetFacts, TypeOK, LogInv, AckInv,
           NEW l \in Node, peer[l].role = Leader, NEW i \in Committable(peer[l])
    PROVE  /\ i \in 1..Len(peer[l].log) /\ i \in Nat /\ i > peer[l].commit_index
           /\ Settled(SubSeq(peer[l].log, 1, i))
           /\ LastLogTerm(SubSeq(peer[l].log, 1, i)) = peer[l].current_term
<1> DEFINE log == peer[l].log
<1>1. /\ log \in Seq(LogEntry) /\ Len(log) \in Nat /\ peer[l].commit_index \in Nat
      /\ peer[l].match_index \in [Node -> Nat]
  BY TypeOfNode, LogLength, Zenon DEF RaftPeer
<1>2. /\ i \in peer[l].commit_index + 1 .. Len(log) /\ TermAt(log, i) = peer[l].current_term
      /\ Cardinality({v \in Node : peer[l].match_index[v] >= i}) >= Quorum
  BY Zenon DEF Committable, LastLogIndex
<1>3. i \in 1..Len(log) /\ i \in Nat /\ i > peer[l].commit_index
  BY <1>1, <1>2
<1>4. log[i].term = peer[l].current_term
  <2>1. i # 0 /\ i \in DOMAIN log
    BY <1>1, <1>3, LogLength
  <2> QED BY <1>2, <2>1, Zenon DEF TermAt
<1>5. Acked(l, i) \in Quorums
  BY <1>2, Zenon DEF Acked, Quorums
<1>6. ~Barred(l, i)
  <2> SUFFICES ASSUME NEW Q \in Quorums, \A v \in Q : peer[l].match_index[v] < i PROVE FALSE
    BY Zenon DEF Barred
  <2>1. PICK v \in Q : v \in Acked(l, i)
    BY <1>5, QuorumsIntersect, Zenon
  <2> QED BY <1>1, <1>3, <2>1 DEF Acked
<1>7. Spread(SubSeq(log, 1, i), Acked(l, i))
  BY <1>3, <1>4, <1>6, Zenon DEF AckInv, AckedBy
<1>8. LastLogTerm(SubSeq(log, 1, i)) = log[i].term
  BY <1>1, <1>3, PrefixFacts, Zenon
<1> QED BY <1>3, <1>4, <1>5, <1>7, <1>8, Zenon DEF Settled

LEMMA SettledNow ==
    ASSUME NEW C, Settled(C)', chosen' = C
    PROVE  Settled(chosen)'
BY ZenonT(30) DEF Settled, Spread, SpreadOn, CandidatesHold, LaterHold, LeadersHold, Holds,
             LastLogTerm

(* advance_commit only ever extends the committed entries.                 *)
LEMMA ChosenGrows ==
    ASSUME SetFacts, TypeOK, TypeOK', ElectionInv, LogInv, TermInv, WholeLogs, AckInv, Moves,
           chosen # <<>> => Settled(chosen)
    PROVE  /\ chosen' # chosen => chosen' \in written /\ Len(chosen') > Len(chosen)
           /\ chosen' # chosen /\ chosen # <<>> => Holds(chosen', chosen)
           /\ chosen' # <<>> => Settled(chosen)'
           /\ \A k \in Node : CommitMoves(k) =>
                 Holds(chosen', SubSeq(peer[k].log, 1, peer'[k].commit_index))
<1>1. Closed /\ OneLine /\ chosen \in Seq(LogEntry) /\ Len(chosen) \in Nat
  BY LogLength, Zenon DEF LogInv, TermInv, TypeOK
<1>2. ASSUME NEW k \in Node, CommitMoves(k)
      PROVE  LET C == SubSeq(peer[k].log, 1, peer'[k].commit_index)
             IN Settled(C) /\ Len(C) = peer'[k].commit_index /\ Len(C) \in Nat
  <2>1. peer[k].role = Leader /\ peer'[k].commit_index \in Committable(peer[k])
    BY <1>2, Zenon DEF CommitMoves, Commits
  <2>2. peer'[k].commit_index \in 1..Len(peer[k].log) /\ peer'[k].commit_index \in Nat
        /\ Settled(SubSeq(peer[k].log, 1, peer'[k].commit_index))
    BY <2>1, CommittableSettled, Zenon
  <2>3. peer[k].log \in Seq(LogEntry)
    BY TypeOfNode, Zenon
  <2> QED BY <2>2, <2>3, PrefixFacts, Zenon
<1>3. CASE /\ chosen' = chosen
           /\ \A k \in Node : CommitMoves(k) => peer'[k].commit_index <= Len(chosen)
  <2>1. chosen' # <<>> => Settled(chosen)'
    <3> SUFFICES ASSUME chosen # <<>> PROVE Settled(chosen)'
      BY <1>3, Zenon
    <3>1. PICK C : C = chosen
      OBVIOUS
    <3>2. Settled(C)'
      BY <3>1, SettledMoves, Zenon
    <3> QED BY <1>3, <3>1, <3>2, SettledNow, Zenon
  <2>2. ASSUME NEW k \in Node, CommitMoves(k)
        PROVE  Holds(chosen', SubSeq(peer[k].log, 1, peer'[k].commit_index))
    <3>1. PICK C : C = SubSeq(peer[k].log, 1, peer'[k].commit_index)
      BY Zenon
    <3>2. Settled(C) /\ Len(C) <= Len(chosen)
      BY <1>2, <1>3, <2>2, <3>1, Zenon
    <3>3. Len(C) \in Nat /\ Len(C) >= 1
      BY <1>1, <3>2, SettledFacts, WrittenFacts, Zenon
    <3>4. chosen # <<>>
      BY <3>2, <3>3, LenOfEmpty
    <3>5. Holds(chosen, C)
      BY <1>1, <3>2, <3>4, SettledCompare, Zenon
    <3> QED BY <1>3, <3>1, <3>5, Zenon
  <2> QED BY <1>3, <2>1, <2>2, Zenon
<1>4. CASE \E k \in Node :
              /\ CommitMoves(k) /\ peer'[k].commit_index > Len(chosen)
              /\ chosen' = SubSeq(peer[k].log, 1, peer'[k].commit_index)
              /\ \A j \in Node \ {k} : ~CommitMoves(j)
  <2>1. PICK k \in Node :
              /\ CommitMoves(k) /\ peer'[k].commit_index > Len(chosen)
              /\ chosen' = SubSeq(peer[k].log, 1, peer'[k].commit_index)
              /\ \A j \in Node \ {k} : ~CommitMoves(j)
    BY <1>4, Zenon
  <2>2. PICK C : C = chosen'
    BY Zenon
  <2>3. Settled(C) /\ Len(C) > Len(chosen)
    BY <1>2, <2>1, <2>2, Zenon
  <2>4. C \in written /\ Len(C) \in Nat /\ LastLogTerm(C) = C[Len(C)].term
    BY <1>1, <2>3, SettledFacts, WrittenFacts, Zenon
  <2>5. Holds(C, C)
    BY <2>4 DEF Holds
  <2>6. chosen # <<>> => Holds(C, chosen)
    BY <1>1, <2>3, <2>4, SettledCompare
  <2>7. Settled(C)'
    BY <2>3, SettledMoves, Zenon
  <2>8. Settled(chosen)'
    BY <2>2, <2>7, SettledNow, Zenon
  <2> QED BY <2>1, <2>2, <2>3, <2>4, <2>5, <2>6, <2>8, Zenon
<1> QED BY <1>3, <1>4, Zenon DEF Moves, NewChosen

LEMMA ChosenKept ==
    ASSUME chosen # <<>> => Settled(chosen)
    PROVE  Kept(chosen)
BY SettledFacts DEF Kept

LEMMA KnownNext ==
    ASSUME NEW G, NEW c, NEW t, Known(G, c, t),
           \A C \in written : Settled(C) /\ Holds(chosen, C) =>
               C \in written' /\ Settled(C)' /\ Holds(chosen', C)
    PROVE  Known(G, c, t)'
<1>1. CASE c = 0
  BY <1>1, Zenon DEF Known
<1>2. ASSUME NEW C \in written, KnownBy(G, c, t, C) PROVE Known(G, c, t)'
  <2>1. /\ Settled(C) /\ Holds(chosen, C) /\ LastLogTerm(C) <= t
        /\ c <= Len(C) /\ c <= Len(G) /\ G[c].term = C[c].term
    BY <1>2, Zenon DEF KnownBy
  <2>2. C \in written' /\ Settled(C)' /\ Holds(chosen', C)
    BY <2>1, Zenon
  <2>3. Holds(chosen, C)'
    BY <2>2, Zenon DEF Holds, LastLogTerm
  <2>4. KnownBy(G, c, t, C)'
    BY <2>1, <2>2, <2>3, Zenon DEF KnownBy, LastLogTerm
  <2> QED BY <2>2, <2>4, Zenon DEF Known
<1> QED BY <1>1, <1>2, Zenon DEF Known

(* Two nodes know the same entries.                                        *)
LEMMA KnownMix ==
    ASSUME Closed, Unique, chosen # <<>> => Settled(chosen),
           NEW G, NEW c \in Nat, NEW t, Known(G, c, t),
           NEW H, Kept(H), NEW c2 \in Nat, NEW t2, Known(H, c2, t2), c <= c2
    PROVE  Known(H, c, t)
<1> SUFFICES ASSUME c # 0 PROVE Known(H, c, t)
  BY Zenon DEF Known
<1>1. PICK C \in written : KnownBy(G, c, t, C)
  BY Zenon DEF Known
<1>2. PICK D \in written : KnownBy(H, c2, t2, D)
  BY DEF Known
<1>3. Settled(C) /\ Holds(chosen, C) /\ LastLogTerm(C) <= t /\ c <= Len(C)
  BY <1>1, Zenon DEF KnownBy
<1>4. Holds(chosen, D) /\ c2 <= Len(D) /\ c2 <= Len(H) /\ H[c2].term = D[c2].term
  BY <1>2, Zenon DEF KnownBy
<1>5. Len(C) \in Nat /\ Len(D) \in Nat /\ Len(H) \in Nat /\ Kept(D) /\ D \in Seq(LogEntry)
      /\ H \in Seq(LogEntry)
  BY WrittenFacts, KeptType, Zenon
<1>6. (\A j \in 1..Len(C) : chosen[j] = C[j]) /\ \A j \in 1..Len(D) : chosen[j] = D[j]
  BY <1>3, <1>4, ChosenKept, HoldsPrefix, Zenon
<1>7. c2 >= 1 /\ SubSeq(H, 1, c2) = SubSeq(D, 1, c2)
  BY <1>4, <1>5, KeptMatch
<1>8. \A j \in 1..c2 : H[j] = D[j]
  BY <1>4, <1>5, <1>7, EqualPrefixes, Zenon
<1>9. c \in 1..c2 /\ c \in 1..Len(C) /\ c \in 1..Len(D) /\ c <= Len(H)
  BY <1>3, <1>4, <1>5
<1>10. H[c] = C[c]
  BY <1>6, <1>8, <1>9, Zenon
<1> QED BY <1>3, <1>9, <1>10, Zenon DEF Known, KnownBy

(* A log that begins like G knows what G knows.                            *)
LEMMA KnownCopied ==
    ASSUME NEW G, NEW c \in Nat, NEW t, Known(G, c, t), Len(G) \in Nat,
           NEW H, Len(H) \in Nat, Len(G) <= Len(H), \A j \in 1..Len(G) : H[j] = G[j]
    PROVE  Known(H, c, t) /\ c <= Len(G)
<1>1. CASE c = 0
  BY <1>1 DEF Known
<1>2. CASE c # 0
  <2>1. PICK C \in written : KnownBy(G, c, t, C)
    BY <1>2, Zenon DEF Known
  <2>2. c \in 1..Len(G) /\ c <= Len(H)
    BY <1>2, <2>1 DEF KnownBy
  <2>3. H[c] = G[c]
    BY <2>2, Zenon
  <2> QED BY <2>1, <2>2, <2>3, Zenon DEF Known, KnownBy
<1> QED BY <1>1, <1>2

(* append_entries does not remove what is known to be committed.           *)
LEMMA KnownTaken ==
    ASSUME SetFacts, TypeOK, ElectionInv, LogInv, TermInv, NEW k \in Node,
           NEW m \in AppendRequests, NEW p2, NEW d2, Takes(peer[k], disk[k], m, p2, d2),
           NEW P \in written, Full(m, P),
           Known(peer[k].log, peer[k].commit_index, peer[k].current_term)
    PROVE  Known(p2.log, peer[k].commit_index, m.term)
<1> DEFINE log == peer[k].log
           c == peer[k].commit_index
<1>1. /\ Closed /\ Unique /\ OneLine /\ Kept(log) /\ peer[k].current_term \in Nat /\ c \in Nat
  BY LogsKept, Zenon DEF TermInv
<1> SUFFICES ASSUME c # 0 PROVE Known(p2.log, c, m.term)
  BY Zenon DEF Known
<1>2. PICK C \in written : KnownBy(log, c, peer[k].current_term, C)
  BY Zenon DEF Known
<1>3. /\ Settled(C) /\ Holds(chosen, C) /\ LastLogTerm(C) <= peer[k].current_term
      /\ c <= Len(C) /\ c <= Len(log) /\ log[c].term = C[c].term
  BY <1>2, Zenon DEF KnownBy
<1>4. Carries(m, P) /\ LastLogTerm(P) = m.term /\ m.term >= peer[k].current_term
  BY Zenon DEF Full, Takes
<1>5. /\ p2.log \in {log, P}
      /\ AgreeUpTo(log, P, Len(P)) => p2.log = log
  BY <1>4, TakesCarried, Zenon
<1>6. /\ Len(C) \in Nat /\ Len(P) \in Nat /\ Len(log) \in Nat /\ LastLogTerm(C) \in Nat
      /\ LastLogTerm(P) \in Nat /\ log \in Seq(LogEntry) /\ C \in Seq(LogEntry) /\ Kept(C)
      /\ Kept(P)
  BY <1>1, WrittenFacts, KeptType, Zenon
<1>7. LastLogTerm(C) <= m.term
  <2>1. \A x, y, z \in Nat : x <= y /\ z >= y => x <= z
    OBVIOUS
  <2>2. m.term \in Nat
    BY <1>4, <1>6, Zenon
  <2> QED BY <1>1, <1>3, <1>4, <1>6, <2>1, <2>2, Zenon
<1> HIDE DEF log, c
<1>8. CASE p2.log = log
  BY <1>2, <1>3, <1>7, <1>8, Zenon DEF Known, KnownBy
<1>9. CASE Holds(P, C)
  <2>1. Len(C) <= Len(P) /\ \A j \in 1..Len(C) : P[j] = C[j]
    BY <1>1, <1>6, <1>9, HoldsPrefix, Zenon
  <2>2. c <= Len(P) /\ P[c] = C[c]
    BY <1>1, <1>3, <1>6, <2>1
  <2>3. CASE p2.log = P
    BY <1>3, <1>7, <2>2, <2>3, Zenon DEF Known, KnownBy
  <2> QED BY <1>5, <1>8, <2>3, Zenon
<1>10. CASE Holds(C, P)
  <2>1. Len(P) <= Len(C) /\ \A j \in 1..Len(P) : C[j] = P[j]
    BY <1>1, <1>6, <1>10, HoldsPrefix, Zenon
  <2>2. \A j \in 1..c : log[j] = C[j]
    <3>1. SubSeq(log, 1, c) = SubSeq(C, 1, c)
      <4>1. 1 <= c
        BY <1>1
      <4> QED BY <1>1, <1>3, <1>6, <4>1, KeptMatch, Zenon
    <3> QED BY <1>1, <1>3, <1>6, <3>1, EqualPrefixes, ZenonT(30)
  <2>3. CASE Len(P) <= c
    <3>1. AgreeUpTo(log, P, Len(P))
      <4>1. Len(P) <= Len(log)
        BY <1>1, <1>3, <1>6, <2>3
      <4>2. \A j \in 1..Len(P) : j \in 1..c
        BY <1>1, <1>6, <2>3
      <4>3. \A j \in 1..Len(P) : log[j] = P[j]
        BY <2>1, <2>2, <4>2, Zenon
      <4> QED BY <4>1, <4>3, Zenon DEF AgreeUpTo
    <3> QED BY <1>5, <1>8, <3>1, Zenon
  <2>4. CASE c <= Len(P)
    <3>1. c \in 1..Len(P) /\ P[c] = C[c]
      BY <1>1, <1>6, <2>1, <2>4
    <3>2. CASE p2.log = P
      BY <1>3, <1>7, <2>4, <3>1, <3>2, Zenon DEF Known, KnownBy
    <3> QED BY <1>5, <1>8, <3>2, Zenon
  <2> QED BY <1>1, <1>6, <2>3, <2>4
<1>11. Holds(P, C) \/ Holds(C, P)
  <2>1. CASE LastLogTerm(P) > LastLogTerm(C)
    BY <1>3, <2>1, SettledFacts, Zenon DEF LaterHold
  <2>2. CASE LastLogTerm(P) = LastLogTerm(C)
    BY <1>1, <1>6, <2>2, LongerHolds
  <2> QED BY <1>4, <1>6, <1>7, <2>1, <2>2
<1> QED BY <1>9, <1>10, <1>11, Zenon DEF c

(* A leader sends its whole log and the commit index that goes with it.    *)
LEMMA SentSound ==
    ASSUME SetFacts, TypeOK, ElectionInv, LogInv, TermInv, MaxLog <= MaxBatch, CommitInv,
           NEW m, Sent(m)
    PROVE  Sound(m)
<1>1. m \in AppendRequests
  BY Zenon DEF Sent
<1>2. CASE m \in late
  <2>1. m.kind = "append"
    BY <1>1, Zenon DEF AppendRequests
  <2> QED BY <1>2, <2>1, Zenon DEF CommitInv
<1>3. ASSUME NEW n \in Node, NEW v \in Node, Replicates(n), m = AppendRequest(n, v)
      PROVE  Sound(m)
  <2>1. Bogus(m) \/ Full(m, peer[n].log)
    BY <1>3, WholeRequest, Zenon
  <2>2. peer[n].log \in written
    BY <1>3, OwnLog, Zenon
  <2>3. m.leader_commit = peer[n].commit_index /\ m.term = peer[n].current_term
    BY <1>3, Zenon DEF AppendRequest
  <2>4. Known(peer[n].log, m.leader_commit, m.term)
    BY <2>3, Zenon DEF CommitInv
  <2> QED BY <2>1, <2>2, <2>4, Zenon DEF Sound
<1> QED BY <1>2, <1>3, Zenon DEF Sent

LEMMA AllWhole ==
    ASSUME SetFacts, TypeOK, ElectionInv, LogInv, TermInv, MaxLog <= MaxBatch, CommitInv
    PROVE  WholeLogs
BY SentSound, Zenon DEF WholeLogs, Sound

(* The committed entries that node k remembers after a step, told apart by *)
(* what the step does to its log.                                          *)
LEMMA StaysKnown ==
    ASSUME NEW G, NEW c, NEW t \in Nat, NEW t2 \in Nat, t <= t2, Known(G, c, t), Closed
    PROVE  Known(G, c, t2)
<1> SUFFICES ASSUME c # 0 PROVE Known(G, c, t2)
  BY Zenon DEF Known
<1>1. PICK C \in written : KnownBy(G, c, t, C)
  BY Zenon DEF Known
<1>2. LastLogTerm(C) \in Nat
  BY WrittenFacts, Zenon
<1>3. KnownBy(G, c, t2, C)
  BY <1>1, <1>2 DEF KnownBy
<1> QED BY <1>3, Zenon DEF Known

LEMMA TakesKnown ==
    ASSUME SetFacts, TypeOK, ElectionInv, LogInv, TermInv, MaxLog <= MaxBatch, CommitInv,
           NEW k \in Node, NEW m, Sent(m), NEW p2, NEW d2,
           Takes(peer[k], disk[k], m, p2, d2)
    PROVE  /\ Known(p2.log, p2.commit_index, p2.current_term) /\ Kept(p2.log)
           /\ p2.commit_index \in Nat /\ peer[k].commit_index <= p2.commit_index
<1>1. m \in AppendRequests /\ m.leader_commit \in Nat
  BY Zenon DEF Sent, AppendRequests
<1>2. ~Bogus(m)
  BY <1>1, BogusRefused, Zenon
<1>3. PICK P \in written : Full(m, P) /\ Known(P, m.leader_commit, m.term)
  BY <1>2, SentSound, Zenon DEF Sound
<1>4. /\ p2.log \in {peer[k].log, P} /\ AgreeUpTo(p2.log, P, Len(P))
  BY <1>1, <1>3, TakesCarried, Zenon DEF Full
<1>5. /\ Closed /\ Kept(peer[k].log) /\ Kept(P) /\ peer[k].commit_index \in Nat
      /\ Len(P) \in Nat
  BY LogsKept, WrittenFacts, Zenon
<1>6. Kept(p2.log) /\ Len(p2.log) \in Nat
  BY <1>4, <1>5, KeptType, Zenon
<1>7. p2.current_term = m.term
  BY Zenon DEF Takes
<1>8. CASE m.leader_commit > peer[k].commit_index
  <2>1. Known(p2.log, m.leader_commit, m.term) /\ m.leader_commit <= Len(P)
    BY <1>1, <1>3, <1>4, <1>5, <1>6, KnownCopied, Zenon DEF AgreeUpTo
  <2>2. m.leader_commit <= Len(p2.log)
    BY <1>1, <1>4, <1>5, <1>6, <2>1 DEF AgreeUpTo
  <2>3. p2.commit_index = Min({m.leader_commit, Len(p2.log)})
    BY <1>8, Zenon DEF Takes, LastLogIndex
  <2>4. p2.commit_index = m.leader_commit
    BY <1>1, <1>6, <2>2, <2>3, MinOfTwo
  <2> QED BY <1>1, <1>5, <1>6, <1>7, <1>8, <2>1, <2>4
<1>9. CASE ~(m.leader_commit > peer[k].commit_index)
  <2>1. p2.commit_index = peer[k].commit_index
    BY <1>9, Zenon DEF Takes
  <2>2. Known(p2.log, peer[k].commit_index, m.term)
    BY <1>1, <1>3, KnownTaken, Zenon DEF CommitInv
  <2> QED BY <1>5, <1>6, <1>7, <2>1, <2>2
<1> QED BY <1>8, <1>9, Zenon

LEMMA ReloadsKnown ==
    ASSUME TypeOK, LogInv, CommitInv, NEW k \in Node, NEW p2, NEW d2, Reloads(disk[k], p2, d2)
    PROVE  /\ Known(p2.log, p2.commit_index, p2.current_term)
           /\ p2.commit_index = disk[k].commit_index
<1>1. /\ Closed /\ Kept(disk[k].log) /\ disk[k].commit_index \in Nat
      /\ Known(disk[k].log, disk[k].commit_index, disk[k].current_term)
  BY LogsKept, Zenon DEF CommitInv
<1>2. Len(disk[k].log) \in Nat
  BY <1>1, KeptType, Zenon
<1>3. disk[k].commit_index <= Len(disk[k].log)
  BY <1>1, <1>2 DEF Known, KnownBy
<1>4. p2.commit_index = Min({disk[k].commit_index, Len(disk[k].log)})
  BY Zenon DEF Reloads, LastLogIndex
<1>5. p2.commit_index = disk[k].commit_index
  BY <1>1, <1>2, <1>3, <1>4, MinOfTwo
<1> QED BY <1>1, <1>5, Zenon DEF Reloads

(* save_peer, in all its outcomes: the entries up to the commit index in   *)
(* the files are in the log in the files.                                  *)
LEMMA FlushedKnown ==
    ASSUME TypeOK, LogInv, CommitInv, NEW k \in Node, NEW p2, NEW d2,
           Flushed(disk[k], p2, d2), Kept(p2.log), p2.commit_index \in Nat,
           Known(p2.log, p2.commit_index, p2.current_term),
           disk[k].commit_index <= p2.commit_index
    PROVE  /\ Known(d2.log, d2.commit_index, d2.current_term)
           /\ d2.commit_index <= p2.commit_index
<1>1. /\ Closed /\ Unique /\ disk[k].commit_index \in Nat
      /\ chosen # <<>> => Settled(chosen)
      /\ Known(disk[k].log, disk[k].commit_index, disk[k].current_term)
  BY LogsKept, Zenon DEF CommitInv
<1>2. CASE Same(disk[k], d2)
  BY <1>1, <1>2, Zenon DEF Same
<1>3. CASE Same(p2, d2)
  BY <1>3 DEF Same
<1>4. CASE /\ d2.log = p2.log
           /\ d2.current_term = disk[k].current_term
           /\ d2.commit_index = disk[k].commit_index
  BY <1>1, <1>4, KnownMix, Zenon
<1> QED BY <1>2, <1>3, <1>4, Zenon DEF Flushed

LEMMA KnownNow ==
    ASSUME NEW k \in Node, NEW p2, p2 = peer'[k], NEW d2, d2 = disk'[k],
           Known(p2.log, p2.commit_index, p2.current_term)',
           Known(d2.log, d2.commit_index, d2.current_term)'
    PROVE  /\ Known(peer[k].log, peer[k].commit_index, peer[k].current_term)'
           /\ Known(disk[k].log, disk[k].commit_index, disk[k].current_term)'
BY Zenon DEF Known, KnownBy

(* What is committed before a step is committed after it.                  *)
LEMMA MovesPersist ==
    ASSUME SetFacts, TypeOK, TypeOK', ElectionInv, LogInv, TermInv, MaxLog <= MaxBatch,
           AckInv, CommitInv, Moves, NEW C \in written, Settled(C), Holds(chosen, C)
    PROVE  C \in written' /\ Settled(C)' /\ Holds(chosen', C)
<1>1. WholeLogs
  BY AllWhole
<1>2. Settled(C)' /\ C \in written'
  BY <1>1, SettledMoves, Zenon DEF Moves
<1>3. chosen # <<>> => Settled(chosen)
  BY Zenon DEF CommitInv
<1>4. CASE chosen' = chosen
  BY <1>2, <1>4, Zenon
<1>5. CASE chosen' # chosen
  <2>1. Closed /\ Unique
    BY DEF LogInv
  <2>2. Len(C) \in Nat /\ Len(C) >= 1 /\ Len(C) <= Len(chosen)
    BY <2>1, WrittenFacts, Zenon DEF Holds
  <2>3. chosen # <<>>
    BY <2>2, LenOfEmpty
  <2>4. chosen \in written
    BY <1>3, <2>3, SettledFacts, Zenon
  <2>5. chosen' \in written /\ Holds(chosen', chosen)
    BY <1>1, <1>3, <1>5, <2>3, ChosenGrows, Zenon
  <2>6. Kept(chosen')
    BY <2>5, Zenon DEF Kept
  <2> QED BY <1>2, <2>1, <2>4, <2>5, <2>6, HoldsTrans, Zenon
<1> QED BY <1>4, <1>5, Zenon

LEMMA CommitsKnown ==
    ASSUME SetFacts, TypeOK, TypeOK', ElectionInv, LogInv, TermInv, MaxLog <= MaxBatch,
           AckInv, CommitInv, Moves, NEW k \in Node, CommitMoves(k),
           NEW p2, p2 = peer'[k], NEW d2, d2 = disk'[k]
    PROVE  /\ Known(p2.log, p2.commit_index, p2.current_term)'
           /\ Known(d2.log, d2.commit_index, d2.current_term)'
           /\ d2.commit_index <= p2.commit_index
<1>1. /\ peer[k].role = Leader /\ p2.current_term = peer[k].current_term
      /\ p2.log = peer[k].log /\ p2.commit_index \in Committable(peer[k])
      /\ Flushed(disk[k], p2, d2)
  BY Zenon DEF CommitMoves, Commits
<1>2. PICK C : C = SubSeq(peer[k].log, 1, p2.commit_index)
  BY Zenon
<1>3. /\ p2.commit_index \in 1..Len(peer[k].log) /\ p2.commit_index \in Nat
      /\ p2.commit_index > peer[k].commit_index
      /\ Settled(C) /\ LastLogTerm(C) = p2.current_term
  BY <1>1, <1>2, CommittableSettled, Zenon
<1>4. /\ Closed /\ Unique /\ Kept(peer[k].log) /\ disk[k].commit_index \in Nat
      /\ peer[k].commit_index \in Nat /\ peer[k].current_term \in Nat
      /\ peer[k].log \in Seq(LogEntry) /\ Len(peer[k].log) \in Nat
  BY LogsKept, KeptType, Zenon
<1>5. Len(C) = p2.commit_index /\ C[p2.commit_index] = p2.log[p2.commit_index]
      /\ p2.commit_index <= Len(p2.log)
  <2>1. \A x \in Nat : \A y \in 1..x : y <= x /\ y \in 1..y
    OBVIOUS
  <2>2. p2.commit_index <= Len(peer[k].log) /\ p2.commit_index \in 1..p2.commit_index
    BY <1>3, <1>4, <2>1, Zenon
  <2> QED BY <1>1, <1>2, <1>3, <1>4, <2>2, PrefixFacts, Zenon
<1>6. WholeLogs /\ (chosen # <<>> => Settled(chosen))
  BY AllWhole, Zenon DEF CommitInv
<1>7. Settled(C)' /\ Holds(chosen', C) /\ C \in written'
  BY <1>2, <1>3, <1>6, SettledMoves, SettledFacts, ChosenGrows, Zenon DEF Moves
<1>8. Known(p2.log, p2.commit_index, p2.current_term)'
  <2>1. Holds(chosen, C)'
    BY <1>7, Zenon DEF Holds, LastLogTerm
  <2>2. LastLogTerm(C) <= p2.current_term /\ p2.commit_index <= Len(C)
    BY <1>1, <1>3, <1>4, <1>5
  <2>3. KnownBy(p2.log, p2.commit_index, p2.current_term, C)'
    BY <1>5, <1>7, <2>1, <2>2, Zenon DEF KnownBy, LastLogTerm
  <2> QED BY <1>7, <2>3, Zenon DEF Known
<1>9. /\ Known(disk[k].log, disk[k].commit_index, disk[k].current_term)
      /\ Known(peer[k].log, peer[k].commit_index, peer[k].current_term)
      /\ disk[k].commit_index <= peer[k].commit_index
  BY Zenon DEF CommitInv
<1>10. \A D \in written : Settled(D) /\ Holds(chosen, D) =>
           D \in written' /\ Settled(D)' /\ Holds(chosen', D)
  BY MovesPersist, Zenon
<1>11. CASE Same(p2, d2)
  <2>1. d2.log = p2.log /\ d2.commit_index = p2.commit_index /\ d2.current_term = p2.current_term
    BY <1>11, Zenon DEF Same
  <2>2. Known(d2.log, d2.commit_index, d2.current_term)'
    BY <1>8, <2>1, Zenon
  <2> QED BY <1>3, <1>8, <2>1, <2>2
<1>12. CASE /\ d2.log \in {disk[k].log, p2.log}
            /\ d2.current_term = disk[k].current_term
            /\ d2.commit_index = disk[k].commit_index
  <2>1. Known(d2.log, d2.commit_index, d2.current_term)
    BY <1>1, <1>4, <1>6, <1>9, <1>12, KnownMix, Zenon
  <2>2. Known(d2.log, d2.commit_index, d2.current_term)'
    BY <1>10, <2>1, KnownNext, Zenon
  <2> QED BY <1>3, <1>4, <1>8, <1>9, <1>12, <2>2
<1> QED BY <1>1, <1>11, <1>12, Zenon DEF Flushed, Same

LEMMA MovedKnown ==
    ASSUME SetFacts, TypeOK, TypeOK', ElectionInv, LogInv, TermInv, MaxLog <= MaxBatch,
           AckInv, CommitInv, Moves, NEW k \in Node
    PROVE  /\ Known(peer[k].log, peer[k].commit_index, peer[k].current_term)'
           /\ Known(disk[k].log, disk[k].commit_index, disk[k].current_term)'
           /\ disk'[k].commit_index <= peer'[k].commit_index
<1>1. PICK p2 : p2 = peer'[k]
  OBVIOUS
<1>2. PICK d2 : d2 = disk'[k]
  OBVIOUS
<1> SUFFICES /\ Known(p2.log, p2.commit_index, p2.current_term)'
             /\ Known(d2.log, d2.commit_index, d2.current_term)'
             /\ d2.commit_index <= p2.commit_index
  BY <1>1, <1>2, KnownNow, Zenon
<1>3. /\ Closed /\ Kept(peer[k].log) /\ Kept(disk[k].log) /\ disk[k].commit_index \in Nat
      /\ peer[k].commit_index \in Nat /\ peer[k].current_term \in Nat
  BY LogsKept, Zenon
<1>4. p2.current_term \in Nat
  BY <1>1, Zenon DEF TypeOK, RaftPeer
<1>5. /\ Known(disk[k].log, disk[k].commit_index, disk[k].current_term)
      /\ Known(peer[k].log, peer[k].commit_index, peer[k].current_term)
      /\ disk[k].commit_index <= peer[k].commit_index
  BY Zenon DEF CommitInv
<1>6. ASSUME Known(p2.log, p2.commit_index, p2.current_term),
             Known(d2.log, d2.commit_index, d2.current_term)
      PROVE  /\ Known(p2.log, p2.commit_index, p2.current_term)'
             /\ Known(d2.log, d2.commit_index, d2.current_term)'
  <2>1. \A D \in written : Settled(D) /\ Holds(chosen, D) =>
            D \in written' /\ Settled(D)' /\ Holds(chosen', D)
    BY MovesPersist, Zenon
  <2> QED BY <1>6, <2>1, KnownNext, Zenon
<1>7. CASE Stays(peer[k], disk[k], p2, d2)
  <2>1. /\ p2.current_term >= peer[k].current_term /\ p2.log = peer[k].log
        /\ p2.commit_index = peer[k].commit_index /\ Flushed(disk[k], p2, d2)
    BY <1>7, Zenon DEF Stays
  <2>2. Known(p2.log, p2.commit_index, p2.current_term)
    BY <1>3, <1>4, <1>5, <2>1, StaysKnown, Zenon
  <2>3. /\ Known(d2.log, d2.commit_index, d2.current_term)
        /\ d2.commit_index <= p2.commit_index
    BY <1>3, <1>5, <2>1, <2>2, FlushedKnown, Zenon
  <2> QED BY <1>6, <2>2, <2>3, Zenon
<1>8. ASSUME NEW m \in AppendRequests, Sent(m), Takes(peer[k], disk[k], m, p2, d2)
      PROVE  /\ Known(p2.log, p2.commit_index, p2.current_term)'
             /\ Known(d2.log, d2.commit_index, d2.current_term)'
             /\ d2.commit_index <= p2.commit_index
  <2>1. /\ Known(p2.log, p2.commit_index, p2.current_term) /\ Kept(p2.log)
        /\ p2.commit_index \in Nat /\ peer[k].commit_index <= p2.commit_index
    BY <1>8, TakesKnown, Zenon
  <2>2. Flushed(disk[k], p2, d2)
    BY <1>8, Zenon DEF Takes
  <2>3. disk[k].commit_index <= p2.commit_index
    BY <1>3, <1>5, <2>1
  <2>4. /\ Known(d2.log, d2.commit_index, d2.current_term)
        /\ d2.commit_index <= p2.commit_index
    BY <2>1, <2>2, <2>3, FlushedKnown, Zenon
  <2> QED BY <1>6, <2>1, <2>4, Zenon
<1>9. CASE Commits(peer[k], disk[k], p2, d2)
  BY <1>1, <1>2, <1>9, CommitsKnown, Zenon DEF CommitMoves
<1>10. CASE Reloads(disk[k], p2, d2)
  <2>1. /\ Known(p2.log, p2.commit_index, p2.current_term)
        /\ p2.commit_index = disk[k].commit_index
    BY <1>10, ReloadsKnown, Zenon
  <2>2. d2 = disk[k]
    BY <1>10, Zenon DEF Reloads
  <2>3. /\ Known(d2.log, d2.commit_index, d2.current_term)
        /\ d2.commit_index = p2.commit_index
    BY <1>3, <1>5, <2>1, <2>2, Zenon
  <2>4. disk[k].commit_index \in Nat
    BY <1>3, <1>5, Zenon
  <2>5. d2.commit_index <= p2.commit_index
    BY <2>1, <2>2, <2>4
  <2> QED BY <1>6, <2>1, <2>3, <2>5, Zenon
<1> QED BY <1>1, <1>2, <1>7, <1>8, <1>9, <1>10, Zenon DEF Moves, NodeMoves

LEMMA SoundNext ==
    ASSUME LogInv, NEW m, Sound(m),
           \A P \in written : Usable(P, None) => Usable(P, None)',
           \A C \in written : Settled(C) /\ Holds(chosen, C) =>
               C \in written' /\ Settled(C)' /\ Holds(chosen', C)
    PROVE  Sound(m)'
<1>1. CASE Bogus(m)
  BY <1>1, Zenon DEF Sound, Bogus
<1>2. ASSUME NEW P \in written, Full(m, P), Known(P, m.leader_commit, m.term)
      PROVE  Sound(m)'
  <2>1. Known(P, m.leader_commit, m.term)'
    BY <1>2, KnownNext, Zenon
  <2>2. Carries(m, P) /\ Usable(P, None)' /\ LastLogTerm(P) = m.term
    BY <1>2, Zenon DEF Full
  <2>3. Full(m, P)'
    BY <2>2, Zenon DEF Full, Carries, Continues, TermAt, LastLogTerm
  <2>4. P # <<>> /\ (P = <<>> \/ P \in written')
    BY <2>2, Zenon DEF Usable, Kept, LogInv, Closed
  <2> QED BY <2>1, <2>3, <2>4, Zenon DEF Sound
<1> QED BY <1>1, <1>2, Zenon DEF Sound

LEMMA MovesKeepCommits ==
    ASSUME SetFacts, TypeOK, TypeOK', ElectionInv, LogInv, TermInv, MaxLog <= MaxBatch,
           AckInv, CommitInv, Moves
    PROVE  CommitInv'
<1>1. chosen' # <<>> => Settled(chosen)'
  BY AllWhole, ChosenGrows, Zenon DEF CommitInv
<1>2. \A C \in written : Settled(C) /\ Holds(chosen, C) =>
          C \in written' /\ Settled(C)' /\ Holds(chosen', C)
  BY MovesPersist, Zenon
<1>3. \A P \in written : Usable(P, None) => Usable(P, None)'
  BY MovedUsable
<1>4. ASSUME NEW m \in late', m.kind = "append" PROVE Sound(m)'
  <2>1. Sent(m)
    BY <1>4 DEF Moves
  <2> QED BY <1>2, <1>3, <2>1, SentSound, SoundNext, Zenon
<1> QED BY <1>1, <1>4, MovedKnown, Zenon DEF CommitInv

LEMMA ProposePersists ==
    ASSUME TypeOK, LogInv, NEW n \in Node, NEW G, NEW f, Proposes(n, G, f),
           NEW C, Settled(C)
    PROVE  C \in written' /\ Settled(C)'
BY SettledFacts, ProposedKeeps, SettledProposes, Zenon

LEMMA ProposeKeepsCommits ==
    ASSUME TypeOK, LogInv, CommitInv, NEW n \in Node, NEW G, NEW f, Proposes(n, G, f)
    PROVE  CommitInv'
<1>1. chosen' = chosen /\ late' = late
  BY Zenon DEF Proposes
<1>2. chosen # <<>> => Settled(chosen)
  BY Zenon DEF CommitInv
<1>3. chosen' # <<>> => Settled(chosen)'
  <2> SUFFICES ASSUME chosen # <<>> PROVE Settled(chosen)'
    BY <1>1
  <2>1. PICK C : C = chosen
    OBVIOUS
  <2>2. Settled(C)'
    BY <1>2, <2>1, ProposePersists, Zenon
  <2> QED BY <1>1, <2>1, <2>2, SettledNow, Zenon
<1>4. \A C \in written : Settled(C) /\ Holds(chosen, C) =>
          C \in written' /\ Settled(C)' /\ Holds(chosen', C)
  BY <1>1, ProposePersists, Zenon
<1>5. \A P \in written : Usable(P, None) => Usable(P, None)'
  BY ProposedUsable, NodeAssumption, Zenon
<1>6. ASSUME NEW m \in late', m.kind = "append" PROVE Sound(m)'
  <2>1. Sound(m)
    BY <1>1, <1>6, Zenon DEF CommitInv
  <2> QED BY <1>4, <1>5, <2>1, SoundNext, Zenon
<1>7. ASSUME NEW k \in Node
      PROVE  /\ Known(peer[k].log, peer[k].commit_index, peer[k].current_term)'
             /\ Known(disk[k].log, disk[k].commit_index, disk[k].current_term)'
             /\ disk'[k].commit_index <= peer'[k].commit_index
  <2>1. PICK p2 : p2 = peer'[k]
    OBVIOUS
  <2>2. PICK d2 : d2 = disk'[k]
    OBVIOUS
  <2>3. /\ Known(peer[k].log, peer[k].commit_index, peer[k].current_term)
        /\ Known(disk[k].log, disk[k].commit_index, disk[k].current_term)
        /\ disk[k].commit_index <= peer[k].commit_index
    BY Zenon DEF CommitInv
  <2>4. /\ Closed /\ Unique /\ Kept(peer[k].log) /\ disk[k].commit_index \in Nat
        /\ peer[k].commit_index \in Nat /\ Len(peer[k].log) \in Nat
    BY LogsKept, KeptType, Zenon
  <2> SUFFICES /\ Known(p2.log, p2.commit_index, p2.current_term)
               /\ Known(d2.log, d2.commit_index, d2.current_term)
               /\ d2.commit_index <= p2.commit_index
    BY <1>4, <2>1, <2>2, KnownNext, KnownNow, Zenon
  <2>5. CASE k # n
    <3>1. p2 = peer[k] /\ d2 = disk[k]
      BY <2>1, <2>2, <2>5, Zenon DEF Proposes
    <3> QED BY <2>3, <3>1, Zenon
  <2>6. CASE k = n
    <3>1. /\ p2.current_term = peer[k].current_term /\ p2.commit_index = peer[k].commit_index
          /\ p2.log \in {peer[k].log, G}
          /\ \/ /\ d2.log = disk[k].log
                /\ d2.current_term = disk[k].current_term
                /\ d2.commit_index = disk[k].commit_index
             \/ /\ d2.log = G
                /\ d2.current_term = disk[k].current_term
                /\ d2.commit_index = disk[k].commit_index
             \/ /\ d2.log = G
                /\ d2.current_term = peer[k].current_term
                /\ d2.commit_index = peer[k].commit_index
      BY <2>1, <2>2, <2>6, Zenon DEF Proposes, FlushResult
    <3>2. ASSUME NEW c \in Nat, NEW t, Known(peer[k].log, c, t) PROVE Known(G, c, t)
      <4>1. Len(G) = Len(peer[k].log) + 1 /\ \A j \in 1..Len(peer[k].log) : G[j] = peer[k].log[j]
        BY <2>6, Zenon DEF Proposes
      <4>2. Len(G) \in Nat /\ Len(peer[k].log) <= Len(G)
        BY <2>4, <4>1
      <4> QED BY <2>4, <3>2, <4>1, <4>2, KnownCopied, Zenon
    <3>3. Known(peer[k].log, disk[k].commit_index, disk[k].current_term)
      BY <1>2, <2>3, <2>4, KnownMix, Zenon
    <3>4. /\ Known(G, disk[k].commit_index, disk[k].current_term)
          /\ Known(G, peer[k].commit_index, peer[k].current_term)
      BY <2>3, <2>4, <3>2, <3>3, Zenon
    <3> QED BY <2>3, <2>4, <3>1, <3>4
  <2> QED BY <2>5, <2>6, Zenon
<1> QED BY <1>3, <1>6, <1>7, Zenon DEF CommitInv

LEMMA InitCommits == Init => AckInv /\ CommitInv
<1> SUFFICES ASSUME Init PROVE AckInv /\ CommitInv
  OBVIOUS
<1>1. /\ \A n \in Node : peer[n] = NewPeer /\ disk[n] = Saved(NewPeer)
      /\ late = {} /\ chosen = <<>>
  BY Zenon DEF Init
<1>2. NewPeer.role # Leader /\ NewPeer.commit_index = 0 /\ Saved(NewPeer).commit_index = 0
  BY Zenon DEF NewPeer, Saved, Follower, Leader
<1>3. AckInv
  BY <1>1, <1>2, Zenon DEF AckInv
<1>4. \A n \in Node : peer[n].commit_index = 0 /\ disk[n].commit_index = 0
  BY <1>1, <1>2, Zenon
<1>5. CommitInv
  BY <1>1, <1>4 DEF CommitInv, Known
<1> QED BY <1>3, <1>5

-----------------------------------------------------------------------------
(* What follows from the invariants.                                       *)

LEMMA CommittedHere ==
    ASSUME TypeOK, LogInv, CommitInv
    PROVE  CommittedPrefix
<1> SUFFICES ASSUME NEW n \in Node
             PROVE  /\ peer[n].commit_index <= Len(chosen)
                    /\ \A i \in 1..peer[n].commit_index :
                          i \in DOMAIN peer[n].log /\ peer[n].log[i] = chosen[i]
  BY Zenon DEF CommittedPrefix
<1> DEFINE log == peer[n].log
           c == peer[n].commit_index
<1>1. /\ Closed /\ Unique /\ Kept(log) /\ c \in Nat /\ log \in Seq(LogEntry)
      /\ Len(log) \in Nat
  BY LogsKept, KeptType, Zenon
<1>2. Known(log, c, peer[n].current_term) /\ (chosen # <<>> => Settled(chosen))
  BY Zenon DEF CommitInv
<1>3. Kept(chosen) /\ Len(chosen) \in Nat
  BY <1>1, <1>2, ChosenKept, KeptType, Zenon
<1> HIDE DEF log, c
<1>4. CASE c = 0
  BY <1>3, <1>4 DEF c
<1>5. CASE c # 0
  <2>1. PICK C \in written : KnownBy(log, c, peer[n].current_term, C)
    BY <1>2, <1>5, Zenon DEF Known
  <2>2. Holds(chosen, C) /\ c <= Len(C) /\ c <= Len(log) /\ log[c].term = C[c].term
    BY <2>1, Zenon DEF KnownBy
  <2>3. Len(C) \in Nat /\ C \in Seq(LogEntry) /\ Kept(C)
    BY <1>1, WrittenFacts, Zenon
  <2>4. Len(C) <= Len(chosen) /\ \A j \in 1..Len(C) : chosen[j] = C[j]
    BY <1>1, <1>3, <2>2, HoldsPrefix, Zenon
  <2>5. SubSeq(log, 1, c) = SubSeq(C, 1, c)
    BY <1>1, <1>5, <2>2, <2>3, KeptMatch
  <2>6. \A j \in 1..c : log[j] = C[j]
    BY <1>1, <2>2, <2>3, <2>5, EqualPrefixes, Zenon
  <2>7. c <= Len(chosen) /\ \A i \in 1..c : i \in 1..Len(log) /\ log[i] = chosen[i]
    BY <1>1, <1>3, <2>2, <2>3, <2>4, <2>6
  <2>8. DOMAIN log = 1..Len(log)
    BY <1>1, LogLength
  <2> QED BY <2>7, <2>8, Zenon DEF log, c
<1> QED BY <1>4, <1>5, Zenon

LEMMA LeaderHasChosen ==
    ASSUME TypeOK, LogInv, CommitInv
    PROVE  LeaderCompleteness
<1> SUFFICES ASSUME NEW n \in Node, peer[n].role = Leader,
                    \A x \in elected : x[1] <= peer[n].current_term
             PROVE  /\ Len(chosen) <= Len(peer[n].log)
                    /\ SubSeq(peer[n].log, 1, Len(chosen)) = chosen
  BY Zenon DEF LeaderCompleteness
<1>1. Closed /\ Unique /\ Kept(peer[n].log) /\ peer[n].current_term \in Nat
  BY LogsKept, Zenon
<1>2. peer[n].log \in Seq(LogEntry) /\ Len(peer[n].log) \in Nat
  BY <1>1, KeptType, Zenon
<1>3. CASE chosen = <<>>
  <2>1. Len(chosen) = 0 /\ SubSeq(peer[n].log, 1, 0) = <<>>
    BY <1>2, <1>3, LenOfEmpty, LogPart, LogEmpty
  <2> QED BY <1>2, <1>3, <2>1
<1>4. CASE chosen # <<>>
  <2>1. chosen \in written /\ LeadersHold(chosen)
    BY <1>4, SettledFacts, Zenon DEF CommitInv
  <2>2. PICK x \in Node : <<LastLogTerm(chosen), x>> \in elected
    BY <2>1, Zenon DEF LogInv, FromWinners
  <2>3. <<LastLogTerm(chosen), x>>[1] <= peer[n].current_term
    BY <2>2, Zenon
  <2>4. LastLogTerm(chosen) \in Nat
    BY <1>1, <2>1, WrittenFacts, Zenon
  <2>5. peer[n].current_term >= LastLogTerm(chosen)
    BY <1>1, <2>3, <2>4, Zenon
  <2>6. Holds(peer[n].log, chosen)
    BY <2>1, <2>5, Zenon DEF LeadersHold
  <2> QED BY <1>1, <2>1, <2>6, HoldsPrefix, Zenon
<1> QED BY <1>3, <1>4, Zenon

LEMMA ChosenOnDisks ==
    ASSUME TypeOK, LogInv, CommitInv, NEW i \in DOMAIN chosen
    PROVE  \E Q \in Quorums : \A v \in Q :
              i \in DOMAIN disk[v].log /\ disk[v].log[i] = chosen[i]
<1>1. chosen \in Seq(LogEntry) /\ Closed /\ Unique
  BY Zenon DEF TypeOK, LogInv
<1>2. i \in 1..Len(chosen) /\ Len(chosen) \in Nat
  BY <1>1, LogLength, Zenon
<1>3. chosen # <<>>
  BY <1>2, LenOfEmpty
<1>4. PICK Q \in Quorums : Spread(chosen, Q)
  BY <1>3, Zenon DEF CommitInv, Settled
<1>5. ASSUME NEW v \in Q PROVE i \in DOMAIN disk[v].log /\ disk[v].log[i] = chosen[i]
  <2>1. v \in Node /\ chosen \in written /\ Holds(disk[v].log, chosen)
    BY <1>4, Zenon DEF Quorums, Spread, SpreadOn
  <2>2. Kept(disk[v].log)
    BY <2>1, LogsKept, Zenon
  <2>3. disk[v].log \in Seq(LogEntry) /\ Len(disk[v].log) \in Nat
    BY <1>1, <2>2, KeptType, Zenon
  <2>4. /\ Len(chosen) <= Len(disk[v].log)
        /\ \A j \in 1..Len(chosen) : disk[v].log[j] = chosen[j]
    BY <1>1, <2>1, <2>2, HoldsPrefix, Zenon
  <2>5. DOMAIN disk[v].log = 1..Len(disk[v].log)
    BY <2>3, LogLength, Zenon
  <2> QED BY <1>2, <2>3, <2>4, <2>5
<1> QED BY <1>5, Zenon

-----------------------------------------------------------------------------
(* The committed prefixes behave as one growing log.                       *)

LEMMA KnownEntries ==
    TypeOK /\ CommittedPrefix =>
        /\ chosen \in Seq(LogEntry) /\ Len(chosen) \in Nat
        /\ KnownLogs = [n \in Node |-> SubSeq(chosen, 1, peer[n].commit_index)]
        /\ \A n \in Node :
              /\ peer[n].commit_index \in Nat /\ peer[n].commit_index <= Len(chosen)
              /\ Len(SubSeq(chosen, 1, peer[n].commit_index)) = peer[n].commit_index
<1> SUFFICES ASSUME TypeOK, CommittedPrefix
             PROVE  /\ chosen \in Seq(LogEntry) /\ Len(chosen) \in Nat
                    /\ KnownLogs = [n \in Node |-> SubSeq(chosen, 1, peer[n].commit_index)]
                    /\ \A n \in Node :
                          /\ peer[n].commit_index \in Nat
                          /\ peer[n].commit_index <= Len(chosen)
                          /\ Len(SubSeq(chosen, 1, peer[n].commit_index)) = peer[n].commit_index
  BY Zenon
<1>1. chosen \in Seq(LogEntry) /\ Len(chosen) \in Nat
  BY LogLength, Zenon DEF TypeOK
<1>2. ASSUME NEW n \in Node
      PROVE  /\ peer[n].commit_index \in Nat /\ peer[n].commit_index <= Len(chosen)
             /\ SubSeq(peer[n].log, 1, peer[n].commit_index)
                  = SubSeq(chosen, 1, peer[n].commit_index)
             /\ Len(SubSeq(chosen, 1, peer[n].commit_index)) = peer[n].commit_index
  <2> DEFINE c == peer[n].commit_index
             log == peer[n].log
  <2>1. c \in Nat /\ log \in Seq(LogEntry) /\ Len(log) \in Nat /\ DOMAIN log = 1..Len(log)
    BY TypeOfNode, LogLength, Zenon
  <2>2. c <= Len(chosen) /\ \A i \in 1..c : i \in DOMAIN log /\ log[i] = chosen[i]
    BY Zenon DEF CommittedPrefix
  <2> HIDE DEF c, log
  <2>3. c <= Len(log)
    <3>1. CASE c = 0
      BY <2>1, <3>1
    <3>2. CASE c # 0
      <4>1. c \in 1..c
        BY <2>1, <3>2
      <4> QED BY <2>1, <2>2, <4>1
    <3> QED BY <3>1, <3>2
  <2>4. SubSeq(log, 1, c) = SubSeq(chosen, 1, c)
    BY <1>1, <2>1, <2>2, <2>3, EqualPrefixes, Zenon
  <2>5. Len(SubSeq(chosen, 1, c)) = c
    <3>1. \A i \in 1..c : chosen[i] \in LogEntry
      BY <1>1, <2>1, <2>2, LogElement, Zenon
    <3> QED BY <1>1, <2>1, <2>2, <3>1, LogPart
  <2> QED BY <2>1, <2>2, <2>4, <2>5, Zenon DEF c, log
<1> QED BY <1>1, <1>2, Zenon DEF KnownLogs

LEMMA RefineStep ==
    ASSUME TypeOK, TypeOK', CommittedPrefix, CommittedPrefix', OneCommits,
           \/ chosen' = chosen
           \/ /\ Len(chosen') > Len(chosen) /\ SubSeq(chosen', 1, Len(chosen)) = chosen
              /\ \E k \in Node : peer'[k].commit_index = Len(chosen')
    PROVE  Consensus!Next \/ (chosen' = chosen /\ KnownLogs' = KnownLogs)
<1> DEFINE c(n) == peer[n].commit_index
           c2(n) == peer'[n].commit_index
<1>1. /\ chosen \in Seq(LogEntry) /\ Len(chosen) \in Nat
      /\ KnownLogs = [n \in Node |-> SubSeq(chosen, 1, c(n))]
      /\ \A n \in Node : /\ c(n) \in Nat /\ c(n) <= Len(chosen)
                         /\ Len(SubSeq(chosen, 1, c(n))) = c(n)
  BY KnownEntries, Zenon
<1>2. /\ chosen' \in Seq(LogEntry) /\ Len(chosen') \in Nat
      /\ KnownLogs' = [n \in Node |-> SubSeq(chosen', 1, c2(n))]
      /\ \A n \in Node : /\ c2(n) \in Nat /\ c2(n) <= Len(chosen')
                         /\ Len(SubSeq(chosen', 1, c2(n))) = c2(n)
  <2>1. (/\ chosen \in Seq(LogEntry) /\ Len(chosen) \in Nat
         /\ KnownLogs = [n \in Node |-> SubSeq(chosen, 1, peer[n].commit_index)]
         /\ \A n \in Node :
               /\ peer[n].commit_index \in Nat /\ peer[n].commit_index <= Len(chosen)
               /\ Len(SubSeq(chosen, 1, peer[n].commit_index)) = peer[n].commit_index)'
    BY KnownEntries, PTL
  <2> QED BY <2>1, Zenon
<1>3. \A j, k \in Node : c2(j) # c(j) /\ c2(k) # c(k) => j = k
  BY Zenon DEF OneCommits
<1>4. \A n \in Node : KnownLogs[n] = SubSeq(chosen, 1, c(n)) /\ Len(KnownLogs[n]) = c(n)
  BY <1>1, Zenon
<1> HIDE DEF c, c2
<1>5. CASE chosen' = chosen /\ \A n \in Node : c2(n) = c(n)
  <2>1. KnownLogs' = KnownLogs
    BY <1>1, <1>2, <1>5, Zenon
  <2> QED BY <1>5, <2>1, Zenon
<1>6. ASSUME chosen' = chosen, NEW k \in Node, c2(k) # c(k)
      PROVE  Consensus!Next
  <2>1. KnownLogs' = [KnownLogs EXCEPT ![k] = SubSeq(chosen, 1, c2(k))]
    <3>1. \A n \in Node \ {k} : c2(n) = c(n)
      BY <1>3, <1>6, Zenon
    <3> QED BY <1>1, <1>2, <1>6, <3>1, Zenon
  <2>2. c2(k) \in Len(KnownLogs[k]) + 1 .. Len(chosen) \/ c2(k) \in 0 .. Len(KnownLogs[k]) - 1
    BY <1>1, <1>2, <1>4, <1>6
  <2>3. CASE c2(k) \in Len(KnownLogs[k]) + 1 .. Len(chosen)
    <3>1. Consensus!Learn(k)
      BY <1>6, <2>1, <2>3, Zenon DEF Consensus!Learn, KnownLogs
    <3> QED BY <3>1, Zenon DEF Consensus!Next
  <2>4. CASE c2(k) \in 0 .. Len(KnownLogs[k]) - 1
    <3>1. Consensus!Forget(k)
      BY <1>6, <2>1, <2>4, Zenon DEF Consensus!Forget, KnownLogs
    <3> QED BY <3>1, Zenon DEF Consensus!Next
  <2> QED BY <2>2, <2>3, <2>4, Zenon
<1>7. ASSUME Len(chosen') > Len(chosen), SubSeq(chosen', 1, Len(chosen)) = chosen,
             NEW k \in Node, c2(k) = Len(chosen')
      PROVE  Consensus!Next
  <2>1. c2(k) # c(k)
    BY <1>1, <1>2, <1>7
  <2>2. SubSeq(chosen', 1, c2(k)) = chosen'
    BY <1>2, <1>7, WholePrefix, Zenon
  <2>3. ASSUME NEW n \in Node \ {k}
        PROVE  SubSeq(chosen', 1, c2(n)) = SubSeq(chosen, 1, c(n))
    <3>1. c2(n) = c(n)
      BY <1>3, <2>1, <2>3, Zenon
    <3>2. \A j \in 1..Len(chosen) : chosen'[j] = chosen[j]
      <4>1. SubSeq(chosen', 1, Len(chosen)) = SubSeq(chosen, 1, Len(chosen))
        BY <1>1, <1>7, WholePrefix, Zenon
      <4> QED BY <1>1, <1>2, <1>7, <4>1, EqualPrefixes
    <3>3. \A j \in 1..c(n) : chosen'[j] = chosen[j]
      BY <1>1, <3>2
    <3>4. SubSeq(chosen', 1, c(n)) = SubSeq(chosen, 1, c(n))
      <4>1. c(n) \in Nat /\ c(n) <= Len(chosen) /\ c(n) <= Len(chosen')
        BY <1>1, <1>2, <1>7
      <4> QED BY <1>1, <1>2, <3>3, <4>1, EqualPrefixes, Zenon
    <3> QED BY <3>1, <3>4, Zenon
  <2>4. KnownLogs' = [KnownLogs EXCEPT ![k] = chosen']
    BY <1>1, <1>2, <2>2, <2>3, Zenon
  <2>5. Consensus!Decide(k)
    <3>1. Len(chosen) <= Len(chosen')
      BY <1>1, <1>2, <1>7
    <3> QED BY <1>1, <1>2, <1>7, <2>4, <3>1, Zenon
            DEF Consensus!Decide, Consensus!IsPrefixOf, KnownLogs
  <2> QED BY <2>5, Zenon DEF Consensus!Next
<1> QED BY <1>5, <1>6, <1>7, Zenon DEF c2

(* advance_commit of one leader extends what was committed before.         *)
LEMMA ChosenExtends ==
    ASSUME SetFacts, TypeOK, TypeOK', ElectionInv, LogInv, TermInv, MaxLog <= MaxBatch,
           AckInv, CommitInv, Moves, chosen' # chosen
    PROVE  /\ Len(chosen') > Len(chosen) /\ SubSeq(chosen', 1, Len(chosen)) = chosen
           /\ \E k \in Node : peer'[k].commit_index = Len(chosen')
<1>1. /\ chosen' \in written /\ Len(chosen') > Len(chosen)
      /\ chosen # <<>> => Holds(chosen', chosen)
  BY AllWhole, ChosenGrows, Zenon DEF CommitInv
<1>2. SubSeq(chosen', 1, Len(chosen)) = chosen
  <2>1. CASE chosen = <<>>
    <3>1. chosen' \in Seq(LogEntry)
      BY <1>1, WrittenFacts, Zenon DEF LogInv
    <3> QED BY <2>1, <3>1, LenOfEmpty, LogPart, LogEmpty
  <2>2. CASE chosen # <<>>
    <3>1. chosen \in written
      BY <2>2, SettledFacts, Zenon DEF CommitInv
    <3>2. Kept(chosen')
      BY <1>1, Zenon DEF Kept
    <3> QED BY <1>1, <2>2, <3>1, <3>2, HoldsPrefix, Zenon DEF LogInv
  <2> QED BY <2>1, <2>2
<1>3. PICK k \in Node : /\ CommitMoves(k)
                        /\ chosen' = SubSeq(peer[k].log, 1, peer'[k].commit_index)
  BY Zenon DEF Moves, NewChosen
<1>4. peer[k].role = Leader /\ peer'[k].commit_index \in Committable(peer[k])
  BY <1>3, Zenon DEF CommitMoves, Commits
<1>5. peer'[k].commit_index \in 1..Len(peer[k].log) /\ peer[k].log \in Seq(LogEntry)
  BY <1>4, CommittableSettled, TypeOfNode, Zenon
<1>6. Len(chosen') = peer'[k].commit_index
  BY <1>3, <1>5, PrefixFacts, Zenon
<1> QED BY <1>1, <1>2, <1>6, Zenon

LEMMA CommittedNext == TypeOK' /\ LogInv' /\ CommitInv' => CommittedPrefix'
<1>1. TypeOK /\ LogInv /\ CommitInv => CommittedPrefix
  BY CommittedHere
<1> QED BY <1>1, PTL

LEMMA MovesRefine ==
    ASSUME SetFacts, TypeOK, TypeOK', ElectionInv, LogInv, LogInv', TermInv,
           MaxLog <= MaxBatch, AckInv, CommitInv, CommitInv', Moves
    PROVE  Consensus!Next \/ (chosen' = chosen /\ KnownLogs' = KnownLogs)
<1>1. CommittedPrefix
  BY CommittedHere, Zenon
<1>2. CommittedPrefix'
  BY CommittedNext, Zenon
<1>3. OneCommits
  BY Zenon DEF Moves
<1> QED BY <1>1, <1>2, <1>3, ChosenExtends, RefineStep, Zenon

LEMMA ProposeRefines ==
    ASSUME TypeOK, TypeOK', LogInv, LogInv', CommitInv, CommitInv',
           NEW n \in Node, NEW G, NEW f, Proposes(n, G, f)
    PROVE  Consensus!Next \/ (chosen' = chosen /\ KnownLogs' = KnownLogs)
<1>1. CommittedPrefix /\ CommittedPrefix'
  BY CommittedHere, CommittedNext, Zenon
<1>2. OneCommits /\ chosen' = chosen
  BY Zenon DEF Proposes, OneCommits
<1> QED BY <1>1, <1>2, RefineStep, Zenon

LEMMA InitRefines == Init => Consensus!Init
<1> SUFFICES ASSUME Init PROVE Consensus!Init
  OBVIOUS
<1>1. chosen = <<>> /\ \A n \in Node : peer[n].log = <<>> /\ peer[n].commit_index = 0
  BY Zenon DEF Init, NewPeer
<1>2. SubSeq(<<>>, 1, 0) = <<>>
  OBVIOUS
<1> QED BY <1>1, <1>2, Zenon DEF Consensus!Init

=============================================================================
