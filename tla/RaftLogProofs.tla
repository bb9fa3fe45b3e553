--------------------------- MODULE RaftLogProofs ----------------------------
(***************************************************************************)
(* The logs of RaftNode match and their terms grow: LogInv and TermInv of  *)
(* RaftInvariants are kept by every step, for any finite set of voters,    *)
(* any commands and any bounds, batches shorter than the log included.     *)
(***************************************************************************)
EXTENDS RaftInvariants, TLAPS

-----------------------------------------------------------------------------
(* Logs as sequences.                                                      *)

(* A log is a function on 1..Len.                                          *)
LEMMA LogLength ==
    ASSUME NEW S, NEW log \in Seq(S)
    PROVE  Len(log) \in Nat /\ DOMAIN log = 1..Len(log) /\ log \in [1..Len(log) -> S]
OBVIOUS

(* What a log holds at an index it has is an entry.                        *)
LEMMA LogElement == ASSUME NEW S, NEW log \in Seq(S), NEW i \in 1..Len(log) PROVE log[i] \in S
OBVIOUS

(* The empty log is the one of length 0.                                   *)
LEMMA LogEmpty ==
    ASSUME NEW S
    PROVE  /\ <<>> \in Seq(S) /\ Len(<<>>) = 0
           /\ \A log \in Seq(S) : log # <<>> => Len(log) \in Nat \ {0}
OBVIOUS

(* Logs with the same entries are equal.                                   *)
LEMMA LogEqual ==
    ASSUME NEW S, NEW a \in Seq(S), NEW b \in Seq(S), Len(a) = Len(b),
           \A i \in 1..Len(a) : a[i] = b[i]
    PROVE  a = b
OBVIOUS

(* The entries of two logs one after the other.                            *)
LEMMA LogConcat ==
    ASSUME NEW S, NEW a \in Seq(S), NEW b \in Seq(S)
    PROVE  /\ a \o b \in Seq(S) /\ Len(a \o b) = Len(a) + Len(b)
           /\ \A i \in 1..(Len(a) + Len(b)) :
                 (a \o b)[i] = IF i <= Len(a) THEN a[i] ELSE b[i - Len(a)]
OBVIOUS

(* The entries of a part of a log.                                         *)
LEMMA LogPart ==
    ASSUME NEW S, NEW log, NEW i \in Int, NEW j \in Int, \A k \in i..j : log[k] \in S
    PROVE  /\ SubSeq(log, i, j) \in Seq(S)
           /\ Len(SubSeq(log, i, j)) = IF i <= j THEN j - i + 1 ELSE 0
           /\ \A k \in 1..(j - i + 1) : SubSeq(log, i, j)[k] = log[i + k - 1]
OBVIOUS

-----------------------------------------------------------------------------
(* Numbers, majorities and types.                                          *)


(* Min and Max of two numbers, as append_entries, load_peer and the        *)
(* back-off of next_index use them.                                        *)
LEMMA MinOfTwo ==
    ASSUME NEW a \in Int, NEW b \in Int
    PROVE  Min({a, b}) = IF a <= b THEN a ELSE b
<1> DEFINE m == IF a <= b THEN a ELSE b
<1>1. m \in {a, b} /\ \A y \in {a, b} : m <= y
  OBVIOUS
<1>2. \A x \in {a, b} : (\A y \in {a, b} : x <= y) => x = m
  OBVIOUS
<1> QED
  BY <1>1, <1>2 DEF Min

LEMMA MaxOfTwo ==
    ASSUME NEW a \in Int, NEW b \in Int
    PROVE  Max({a, b}) = IF a >= b THEN a ELSE b
<1> DEFINE m == IF a >= b THEN a ELSE b
<1>1. m \in {a, b} /\ \A y \in {a, b} : m >= y
  OBVIOUS
<1>2. \A x \in {a, b} : (\A y \in {a, b} : x >= y) => x = m
  OBVIOUS
<1> QED
  BY <1>1, <1>2 DEF Max

LEMMA MaxOfBounded ==
    ASSUME SetFacts, NEW b \in Nat, NEW S, S \subseteq 0..b, S # {}
    PROVE  Max(S) \in S /\ \A y \in S : Max(S) >= y
  BY Zenon DEF SetFacts

LEMMA QuorumsIntersect ==
    ASSUME SetFacts, NEW A \in Quorums, NEW B \in Quorums
    PROVE  A \cap B # {}
  BY Zenon DEF SetFacts

(* What TypeOK says of one node and of its flushes.                        *)
LEMMA TypeOfNode ==
    ASSUME TypeOK, NEW n \in Node
    PROVE  /\ peer[n] \in RaftPeer /\ disk[n] \in PeerFiles /\ op[n] \in Operation
           /\ peer[n].current_term \in Nat /\ peer[n].commit_index \in Nat
           /\ peer[n].log \in Seq(LogEntry)
           /\ op[n].term \in Nat /\ op[n].votes \subseteq Node
  BY Zenon DEF TypeOK, RaftPeer, Operation

LEMMA LenOfEmpty == Len(<<>>) = 0
  BY LogEmpty

(* The majorities of two winners share a voter, and it is counted once.    *)
LEMMA OneWinner ==
    ASSUME SetFacts, TypeOK, ElectionInv
    PROVE  ElectionSafety
<1> SUFFICES ASSUME NEW x \in elected, NEW y \in elected,
                    x[1] = y[1]
             PROVE  x[2] = y[2]
  BY DEF ElectionSafety
<1>1. PICK A \in Quorums : \A v \in A : <<x[1], v, x[2]>> \in tally
  BY DEF ElectionInv, ElectedInv
<1>2. PICK B \in Quorums : \A v \in B : <<y[1], v, y[2]>> \in tally
  BY DEF ElectionInv, ElectedInv
<1>3. PICK v : v \in A /\ v \in B
  BY QuorumsIntersect
<1>4. <<x[1], v, x[2]>> \in tally /\ <<x[1], v, y[2]>> \in tally
  BY <1>1, <1>2, <1>3
<1> QED BY <1>4 DEF ElectionInv, TallyInv

-----------------------------------------------------------------------------
(* Prefixes of a log.                                                      *)


(* The last term of a log is that of its last entry.                       *)
LEMMA LastTermOf ==
    ASSUME NEW a \in Seq(LogEntry), a # <<>>
    PROVE  /\ Len(a) \in Nat /\ Len(a) >= 1
           /\ LastLogTerm(a) = a[Len(a)].term /\ LastLogTerm(a) \in Nat
<1>1. Len(a) \in Nat /\ Len(a) # 0
  BY LogLength, LogEmpty
<1>2. a[Len(a)] \in LogEntry
  BY <1>1, LogElement
<1> QED BY <1>1, <1>2 DEF LastLogTerm, LogEntry

(* The first i entries of a log.                                           *)
LEMMA PrefixFacts ==
    ASSUME NEW a \in Seq(LogEntry), NEW i \in 1..Len(a)
    PROVE  /\ SubSeq(a, 1, i) \in Seq(LogEntry) /\ Len(SubSeq(a, 1, i)) = i
           /\ \A j \in 1..i : SubSeq(a, 1, i)[j] = a[j]
           /\ SubSeq(a, 1, i) # <<>> /\ LastLogTerm(SubSeq(a, 1, i)) = a[i].term
           /\ a[i].term \in Nat
<1>0. Len(a) \in Nat
  BY LogLength
<1>1. /\ SubSeq(a, 1, i) \in Seq(LogEntry) /\ Len(SubSeq(a, 1, i)) = i
      /\ \A j \in 1..i : SubSeq(a, 1, i)[j] = a[j]
  BY <1>0, LogPart, LogElement
<1>2. SubSeq(a, 1, i) # <<>>
  BY <1>1, LogEmpty
<1> QED BY <1>1, <1>2, LogElement DEF LastLogTerm, LogEntry

(* A log is its longest prefix.                                            *)
LEMMA WholePrefix ==
    ASSUME NEW a \in Seq(LogEntry)
    PROVE  SubSeq(a, 1, Len(a)) = a
<1>1. CASE a = <<>>
  BY <1>1, LogPart, LogEmpty
<1>2. CASE a # <<>>
  <2>1. Len(a) \in 1..Len(a)
    BY <1>2, LastTermOf
  <2> QED BY <2>1, PrefixFacts, LogEqual
<1> QED BY <1>1, <1>2

(* Logs that agree on their first i entries have the same prefix.          *)
LEMMA EqualPrefixes ==
    ASSUME NEW a \in Seq(LogEntry), NEW b \in Seq(LogEntry),
           NEW i \in Nat, i <= Len(a), i <= Len(b)
    PROVE  SubSeq(a, 1, i) = SubSeq(b, 1, i) <=> \A j \in 1..i : a[j] = b[j]
<1>1. CASE i = 0
  BY <1>1, LogPart, LogEmpty, LogLength
<1>2. CASE i # 0
  <2>1. i \in 1..Len(a) /\ i \in 1..Len(b)
    BY <1>2, LogLength
  <2>2. /\ SubSeq(a, 1, i) \in Seq(LogEntry) /\ Len(SubSeq(a, 1, i)) = i
        /\ SubSeq(b, 1, i) \in Seq(LogEntry) /\ Len(SubSeq(b, 1, i)) = i
        /\ \A j \in 1..i : SubSeq(a, 1, i)[j] = a[j] /\ SubSeq(b, 1, i)[j] = b[j]
    BY <2>1, PrefixFacts
  <2>3. (\A j \in 1..i : a[j] = b[j]) => SubSeq(a, 1, i) = SubSeq(b, 1, i)
    BY <2>2, LogEqual
  <2> QED BY <2>2, <2>3
<1> QED BY <1>1, <1>2

-----------------------------------------------------------------------------
(* What append_entries makes of a log.                                     *)


(* A receiver whose log agrees with P up to prev keeps its log, if that    *)
(* has the whole of P, or takes over P.                                    *)
LEMMA MergeResult ==
    ASSUME SetFacts, NEW log \in Seq(LogEntry), NEW P \in Seq(LogEntry),
           NEW entries \in Seq(LogEntry), NEW prev \in Nat,
           Continues(P, prev, entries), AgreeUpTo(log, P, prev),
           Matching(log, P), NEW r, r = MergeEntries(log, prev, entries)
    PROVE  /\ (r = log \/ r = P) /\ AgreeUpTo(r, P, Len(P))
           /\ AgreeUpTo(log, P, Len(P)) => r = log
<1>0. /\ prev <= Len(log) /\ Len(P) = prev + Len(entries)
      /\ \A i \in 1..Len(entries) : P[prev + i] = entries[i]
      /\ \A i \in 1..prev : log[i] = P[i]
  BY DEF Continues, AgreeUpTo
<1> DEFINE agree == {k \in 0..Len(entries) : \A i \in 1..k :
                        /\ prev + i <= Len(log)
                        /\ log[prev + i].term = entries[i].term}
           k == Max(agree)
<1>1. Len(log) \in Nat /\ Len(entries) \in Nat /\ Len(P) \in Nat
  BY LogLength
<1>2. k \in agree /\ \A y \in agree : k >= y
  <2>1. 0 \in agree
    BY <1>1
  <2> HIDE DEF agree
  <2>2. agree \subseteq 0..Len(entries)
    BY DEF agree
  <2> QED BY <1>1, <2>1, <2>2, MaxOfBounded, Zenon
<1>3. r = IF k = Len(entries) THEN log
          ELSE SubSeq(log, 1, prev + k) \o SubSeq(entries, k + 1, Len(entries))
  BY Zenon DEF MergeEntries
<1>4. /\ k \in 0..Len(entries)
      /\ \A i \in 1..k : prev + i <= Len(log) /\ log[prev + i].term = entries[i].term
  BY <1>2, Zenon
<1>8. AgreeUpTo(log, P, Len(P)) => k = Len(entries)
  <2> SUFFICES ASSUME AgreeUpTo(log, P, Len(P)) PROVE k = Len(entries)
    BY Zenon
  <2>1. Len(entries) \in agree
    <3> SUFFICES ASSUME NEW i \in 1..Len(entries)
                 PROVE  prev + i <= Len(log) /\ log[prev + i].term = entries[i].term
      BY <1>1
    <3>1. prev + i \in 1..Len(P)
      BY <1>0, <1>1
    <3> QED BY <1>0, <1>1, <3>1 DEF AgreeUpTo
  <2>2. k >= Len(entries)
    BY <1>2, <2>1, Zenon
  <2> HIDE DEF k, agree
  <2> QED BY <1>1, <1>4, <2>2
<1> HIDE DEF k, agree
<1>5. prev + k <= Len(log) /\ \A j \in 1..prev + k : log[j] = P[j]
  <2>1. CASE k = 0
    BY <1>0, <1>1, <2>1
  <2>2. CASE k # 0
    <3>0. k \in 1..k /\ k \in 1..Len(entries)
      BY <1>0, <1>1, <1>4, <2>2
    <3>1. prev + k <= Len(log) /\ log[prev + k].term = P[prev + k].term
      BY <1>0, <1>4, <3>0, Zenon
    <3>2. prev + k \in 1..Len(log) /\ prev + k <= Len(P)
      BY <1>0, <1>1, <1>4, <2>2, <3>1
    <3> QED BY <3>1, <3>2, Zenon DEF Matching
  <2> QED BY <2>1, <2>2
<1>6. CASE k = Len(entries)
  BY <1>0, <1>1, <1>3, <1>5, <1>6 DEF AgreeUpTo
<1>7. CASE k # Len(entries)
  <2> DEFINE a == SubSeq(log, 1, prev + k)
             b == SubSeq(entries, k + 1, Len(entries))
  <2>1. k \in Nat /\ k < Len(entries)
    BY <1>0, <1>1, <1>4, <1>7
  <2>2. /\ a \in Seq(LogEntry) /\ Len(a) = prev + k
        /\ \A i \in 1..prev + k : a[i] = log[i]
    <3>1. \A i \in 1..prev + k : log[i] \in LogEntry
      BY <1>0, <1>1, <1>5, <2>1, LogElement
    <3> QED BY <1>0, <1>1, <1>5, <2>1, <3>1, LogPart
  <2>3. /\ b \in Seq(LogEntry) /\ Len(b) = Len(entries) - k
        /\ \A i \in 1..Len(entries) - k : b[i] = entries[k + i]
    <3>1. \A i \in k + 1..Len(entries) : entries[i] \in LogEntry
      BY <1>0, <1>1, <2>1, LogElement
    <3> QED BY <1>0, <1>1, <2>1, <3>1, LogPart
  <2> HIDE DEF a, b
  <2> DEFINE c == a \o b
  <2>4. /\ c \in Seq(LogEntry) /\ Len(c) = Len(a) + Len(b)
        /\ \A i \in 1..Len(a) + Len(b) : c[i] = IF i <= Len(a) THEN a[i] ELSE b[i - Len(a)]
    <3>1. a \in Seq(LogEntry) /\ b \in Seq(LogEntry)
      BY <2>2, <2>3
    <3> QED BY <3>1, LogConcat
  <2> HIDE DEF c
  <2>7. Len(a) + Len(b) = Len(P)
    BY <1>0, <1>1, <2>1, <2>2, <2>3
  <2>5. \A i \in 1..Len(P) : c[i] = P[i]
    <3> SUFFICES ASSUME NEW i \in 1..Len(P) PROVE c[i] = P[i]
      OBVIOUS
    <3>1. CASE i <= prev + k
      <4>1. i \in 1..prev + k /\ i \in 1..Len(a) + Len(b) /\ i <= Len(a)
        BY <1>0, <1>1, <2>1, <2>2, <2>7, <3>1
      <4>2. c[i] = a[i]
        BY <2>4, <4>1, Zenon
      <4> QED BY <1>5, <2>2, <4>1, <4>2, Zenon
    <3>2. CASE i > prev + k
      <4>1. /\ i - (prev + k) \in 1..Len(entries) - k
            /\ i - prev \in 1..Len(entries) /\ k + (i - (prev + k)) = i - prev
            /\ prev + (i - prev) = i
        BY <1>0, <1>1, <2>1, <3>2
      <4>2. b[i - (prev + k)] = entries[i - prev]
        BY <2>3, <4>1, Zenon
      <4>3. P[i] = entries[i - prev]
        BY <1>0, <4>1, Zenon
      <4>4. ~(i <= Len(a)) /\ i - Len(a) = i - (prev + k) /\ i \in 1..Len(a) + Len(b)
        BY <1>0, <1>1, <2>1, <2>2, <2>7, <3>2
      <4> QED BY <2>4, <4>2, <4>3, <4>4, Zenon
    <3>3. i <= prev + k \/ i > prev + k
      BY <1>0, <1>1, <2>1
    <3> QED BY <3>1, <3>2, <3>3
  <2>6. c = P
    BY <2>4, <2>5, <2>7, LogEqual, Zenon
  <2>8. r = P
    BY <1>3, <1>7, <2>6, Zenon DEF a, b, c
  <2> QED BY <1>1, <1>7, <1>8, <2>8 DEF AgreeUpTo
<1> QED BY <1>6, <1>7

-----------------------------------------------------------------------------
(* Consequences of the invariant.                                          *)


(* Written logs that have an entry of the same term at the same index are  *)
(* equal up to it.                                                         *)
LEMMA KeptMatch ==
    ASSUME Closed, Unique, NEW a, NEW b, Kept(a), Kept(b),
           NEW i \in Nat, 1 <= i, i <= Len(a), i <= Len(b), a[i].term = b[i].term
    PROVE  SubSeq(a, 1, i) = SubSeq(b, 1, i)
<1>1. a \in written /\ b \in written
  BY LogEmpty DEF Kept
<1>2. a \in Seq(LogEntry) /\ b \in Seq(LogEntry)
  BY <1>1 DEF Closed
<1>3. Len(a) \in Nat /\ Len(b) \in Nat
  BY <1>2, LogLength
<1>4. i \in 1..Len(a) /\ i \in 1..Len(b)
  BY <1>3
<1>5. SubSeq(a, 1, i) \in written /\ SubSeq(b, 1, i) \in written
  BY <1>1, <1>4 DEF Closed
<1>6. /\ Len(SubSeq(a, 1, i)) = Len(SubSeq(b, 1, i))
      /\ LastLogTerm(SubSeq(a, 1, i)) = LastLogTerm(SubSeq(b, 1, i))
  BY <1>2, <1>4, PrefixFacts
<1> QED BY <1>5, <1>6, Zenon DEF Unique

LEMMA KeptType ==
    ASSUME Closed, NEW a, Kept(a)
    PROVE  a \in Seq(LogEntry) /\ Len(a) \in Nat
<1>1. a \in Seq(LogEntry)
  BY LogEmpty, Zenon DEF Closed, Kept
<1> QED BY <1>1, LogLength

LEMMA KeptMatching ==
    ASSUME Closed, Unique, NEW a, NEW b, Kept(a), Kept(b)
    PROVE  Matching(a, b)
<1> SUFFICES ASSUME NEW i \in 1..Len(a), i <= Len(b), a[i].term = b[i].term
             PROVE  \A j \in 1..i : a[j] = b[j]
  BY DEF Matching
<1>1. a \in Seq(LogEntry) /\ b \in Seq(LogEntry) /\ Len(a) \in Nat /\ Len(b) \in Nat
  BY KeptType
<1>2. i \in Nat /\ 1 <= i /\ i <= Len(a)
  BY <1>1
<1>3. SubSeq(a, 1, i) = SubSeq(b, 1, i)
  BY <1>2, KeptMatch
<1> QED BY <1>1, <1>2, <1>3, EqualPrefixes

(* A prefix of a written log was written.                                  *)
LEMMA PrefixWritten ==
    ASSUME Closed, NEW a, Kept(a), NEW i \in Nat, 1 <= i, i <= Len(a)
    PROVE  /\ SubSeq(a, 1, i) \in written /\ Len(SubSeq(a, 1, i)) = i
           /\ LastLogTerm(SubSeq(a, 1, i)) = a[i].term
           /\ \A j \in 1..i : SubSeq(a, 1, i)[j] = a[j]
<1>1. a \in Seq(LogEntry) /\ Len(a) \in Nat
  BY KeptType
<1>2. a \in written /\ i \in 1..Len(a)
  BY <1>1, LogEmpty DEF Kept
<1> QED BY <1>1, <1>2, PrefixFacts DEF Closed

(* A term that a candidate is about to win has no entry yet.               *)
LEMMA NewTerm ==
    ASSUME SetFacts, TypeOK, ElectionInv, LogInv, NEW n \in Node, Wins(n),
           NEW a, Kept(a), NEW i \in 1..Len(a)
    PROVE  a[i].term # peer[n].current_term
<1> SUFFICES ASSUME a[i].term = peer[n].current_term PROVE FALSE
  OBVIOUS
<1> DEFINE t == peer[n].current_term
<1>1. i \in Nat /\ 1 <= i /\ i <= Len(a)
  BY KeptType DEF LogInv
<1>2. SubSeq(a, 1, i) \in written /\ LastLogTerm(SubSeq(a, 1, i)) = t
  BY <1>1, PrefixWritten DEF LogInv
<1>3. PICK x \in Node : <<t, x>> \in elected
  BY <1>2, Zenon DEF LogInv, FromWinners
<1>4. PICK A \in Quorums : \A v \in A : <<t, v, x>> \in tally
  BY <1>3, Zenon DEF ElectionInv, ElectedInv
<1>5. op[n].votes \in Quorums /\ op[n].phase = "vote"
  BY DEF Wins
<1>6. (\A v \in op[n].votes : <<t, v, n>> \in tally) /\ <<t, n>> \notin elected
  BY <1>5, Zenon DEF ElectionInv, CampaignInv, OperationInv
<1>7. PICK v : v \in A /\ v \in op[n].votes
  BY <1>5, QuorumsIntersect
<1>8. <<t, v, x>> \in tally /\ <<t, v, n>> \in tally
  BY <1>4, <1>6, <1>7
<1>9. x = n
  BY <1>8 DEF ElectionInv, TallyInv
<1> QED BY <1>3, <1>6, <1>9

(* The leaders after a step that moves the nodes find a log as fresh as    *)
(* the leaders before it.                                                  *)
LEMMA MovedLeader ==
    ASSUME SetFacts, TypeOK, ElectionInv, LogInv, Moves, NEW n \in Node, peer'[n].role = Leader
    PROVE  /\ peer'[n].log = peer[n].log /\ peer'[n].current_term = peer[n].current_term
           /\ \/ peer[n].role = Leader
              \/ \A a : Kept(a) => \A i \in 1..Len(a) : a[i].term # peer[n].current_term
<1>1. RoleMoves(n)
  BY DEF Moves
<1> QED BY <1>1, NewTerm DEF RoleMoves

LEMMA MovedUsable ==
    ASSUME SetFacts, TypeOK, ElectionInv, LogInv, Moves, NEW G, NEW k, Usable(G, k)
    PROVE  Usable(G, k)'
<1>1. Kept(G) /\ Kept(G)'
  BY DEF Usable, Kept, Moves
<1>2. G \in Seq(LogEntry) /\ Len(G) \in Nat
  BY <1>1, KeptType DEF LogInv
<1>3. ASSUME NEW n \in Node \ {k}, peer'[n].role = Leader PROVE Fresh(n, G)'
  <2>1. peer'[n].log = peer[n].log /\ peer'[n].current_term = peer[n].current_term
    BY <1>3, MovedLeader
  <2>2. CASE peer[n].role = Leader
    BY <2>1, <2>2 DEF Usable, Fresh
  <2>3. CASE \A a : Kept(a) => \A i \in 1..Len(a) : a[i].term # peer[n].current_term
    <3>1. Len(peer[n].log) \in Nat
      BY TypeOfNode, LogLength
    <3> QED BY <1>1, <1>2, <2>1, <2>3, <3>1 DEF Fresh
  <2> QED BY <1>3, <2>2, <2>3, MovedLeader
<1> QED BY <1>1, <1>3 DEF Usable

(* What a leader sends is the end of a prefix of its log.                  *)
LEMMA SentByLeader ==
    ASSUME TypeOK, NEW n \in Node, NEW v \in Node, NEW m, m = AppendRequest(n, v),
           m.entries # <<>>
    PROVE  \E last \in 1..Len(peer[n].log) : Carries(m, SubSeq(peer[n].log, 1, last))
<1> DEFINE log == peer[n].log
           next == IF peer[n].next_index[v] = 0 THEN 1 ELSE peer[n].next_index[v]
           last == Min({LastLogIndex(log), next + MaxBatch - 1})
<1>1. /\ m.entries = SubSeq(log, next, last) /\ m.prev_log_index = next - 1
      /\ m.prev_log_term = Max({TermAt(log, next - 1), 0})
  BY Zenon DEF AppendRequest
<1>2. next \in Nat /\ next >= 1
  <2>1. peer[n].next_index[v] \in Nat
    BY TypeOfNode, Zenon DEF RaftPeer
  <2> QED BY <2>1
<1>3. log \in Seq(LogEntry) /\ Len(log) \in Nat
  BY TypeOfNode, LogLength
<1>4. last \in Int /\ last <= Len(log)
  <2>1. Len(log) \in Int /\ next + MaxBatch - 1 \in Int
    BY <1>2, <1>3, BoundAssumption
  <2> HIDE DEF next
  <2> QED BY <2>1, MinOfTwo DEF LastLogIndex
<1> HIDE DEF next, last, log
<1>5. next <= last
  <2> SUFFICES ASSUME next > last PROVE FALSE
    BY <1>2, <1>4
  <2>1. SubSeq(log, next, last) = <<>>
    BY <1>2, <1>3, <1>4, LogPart, LogEmpty
  <2> QED BY <1>1, <2>1
<1>6. last \in 1..Len(log) /\ next - 1 \in Nat
  BY <1>2, <1>3, <1>4, <1>5
<1>7. /\ Len(m.entries) = last - next + 1
      /\ \A i \in 1..(last - next + 1) : m.entries[i] = log[next + i - 1]
  <2>1. \A i \in next..last : log[i] \in LogEntry
    BY <1>2, <1>3, <1>4, LogElement
  <2> QED BY <1>1, <1>2, <1>3, <1>4, <1>5, <2>1, LogPart
<1> DEFINE P == SubSeq(log, 1, last)
<1>8. /\ P \in Seq(LogEntry) /\ Len(P) = last /\ \A j \in 1..last : P[j] = log[j]
  BY <1>3, <1>6, PrefixFacts
<1> HIDE DEF P
<1>9. TermAt(P, next - 1) = m.prev_log_term
  <2>1. TermAt(P, next - 1) = TermAt(log, next - 1) /\ TermAt(log, next - 1) \in Nat
    <3>1. CASE next - 1 = 0
      BY <3>1 DEF TermAt
    <3>2. CASE next - 1 # 0
      <4>1. next - 1 \in 1..last /\ next - 1 \in 1..Len(log)
        BY <1>2, <1>3, <1>4, <1>5, <3>2
      <4>2. next - 1 \in DOMAIN P /\ next - 1 \in DOMAIN log /\ log[next - 1] \in LogEntry
        BY <1>3, <1>8, <4>1, LogLength, LogElement
      <4> QED BY <1>8, <3>2, <4>1, <4>2, Zenon DEF TermAt, LogEntry
    <3> QED BY <3>1, <3>2
  <2> QED BY <1>1, <2>1, MaxOfTwo
<1>10. \A i \in 1..Len(m.entries) : P[m.prev_log_index + i] = m.entries[i]
  <2> SUFFICES ASSUME NEW i \in 1..Len(m.entries)
               PROVE  P[m.prev_log_index + i] = m.entries[i]
    OBVIOUS
  <2>1. next + i - 1 \in 1..last /\ m.prev_log_index + i = next + i - 1
    BY <1>1, <1>2, <1>4, <1>5, <1>7
  <2> QED BY <1>7, <1>8, <2>1, Zenon
<1>11. Len(P) = m.prev_log_index + Len(m.entries)
  BY <1>1, <1>2, <1>4, <1>7, <1>8
<1>12. Carries(m, P)
  BY <1>1, <1>9, <1>10, <1>11, Zenon DEF Carries, Continues
<1> QED BY <1>6, <1>12 DEF P, log

(* A prefix of a leader's log is usable everywhere.                        *)
LEMMA LeaderPrefixUsable ==
    ASSUME TypeOK, LogInv, NEW n \in Node, peer[n].role = Leader,
           NEW i \in 1..Len(peer[n].log)
    PROVE  SubSeq(peer[n].log, 1, i) \in written /\ Usable(SubSeq(peer[n].log, 1, i), None)
<1> DEFINE log == peer[n].log
           P == SubSeq(log, 1, i)
<1>1. log \in Seq(LogEntry) /\ Len(log) \in Nat /\ Usable(log, n)
  BY TypeOfNode, LogLength, Zenon DEF LogInv, NodeLogs
<1>2. P \in written /\ Len(P) = i /\ \A j \in 1..i : P[j] = log[j]
  BY <1>1, PrefixWritten DEF LogInv, Usable
<1> HIDE DEF P
<1>3. ASSUME NEW k \in Node, peer[k].role = Leader PROVE Fresh(k, P)
  <2>1. CASE k = n
    BY <1>1, <1>2, <2>1 DEF Fresh
  <2>2. CASE k # n
    <3>1. Fresh(k, log)
      BY <1>1, <1>3, <2>2 DEF Usable
    <3>2. Len(peer[k].log) \in Nat
      BY TypeOfNode, LogLength
    <3>3. Len(peer[k].log) < i =>
             Len(peer[k].log) < Len(log) /\ Len(peer[k].log) + 1 \in 1..i
      BY <1>1, <3>2
    <3> QED BY <1>2, <3>1, <3>3, Zenon DEF Fresh
  <2> QED BY <2>1, <2>2
<1>4. P \in written /\ Usable(P, None)
  BY <1>2, <1>3 DEF Usable, Kept
<1> QED BY <1>4 DEF P

(* Only a leader replicates.                                               *)
LEMMA AppendingLeads ==
    ASSUME ElectionInv, NEW n \in Node, Replicates(n)
    PROVE  peer[n].role = Leader
<1>1. OperationInv(n)
  BY DEF ElectionInv, CampaignInv
<1> QED BY <1>1, Zenon DEF OperationInv, Replicates

LEMMA SentBacked ==
    ASSUME TypeOK, ElectionInv, LogInv, NEW m, Sent(m)
    PROVE  Backed(m)
<1>1. CASE m \in late
  BY <1>1 DEF Sent, AppendRequests, LogInv, LateLogs
<1>2. ASSUME NEW n \in Node, NEW v \in Node, Replicates(n), m = AppendRequest(n, v),
             m.entries # <<>>
      PROVE  \E P \in written : Carries(m, P) /\ Usable(P, None)
  <2>1. PICK last \in 1..Len(peer[n].log) : Carries(m, SubSeq(peer[n].log, 1, last))
    BY <1>2, SentByLeader
  <2>2. peer[n].role = Leader
    BY <1>2, AppendingLeads
  <2> QED BY <2>1, <2>2, LeaderPrefixUsable
<1> QED BY <1>1, <1>2, Zenon DEF Sent, Backed

(* append_entries without entries keeps the log.                           *)
LEMMA NoEntries ==
    ASSUME NEW log, NEW prev
    PROVE  MergeEntries(log, prev, <<>>) = log
<1> DEFINE agree == {k \in 0..Len(<<>>) : \A i \in 1..k :
                        /\ prev + i <= Len(log)
                        /\ log[prev + i].term = <<>>[i].term}
<1>1. Len(<<>>) = 0
  BY LogEmpty
<1>2. agree = {0}
  BY <1>1, SMTT(30)
<1>3. Max({0}) = 0
  BY MaxOfTwo
<1> QED BY <1>1, <1>2, <1>3, Zenon DEF MergeEntries

(* A node that accepts a request keeps its log or takes over the one that  *)
(* the request carries.                                                    *)
LEMMA TakesCarried ==
    ASSUME SetFacts, TypeOK, LogInv, NEW k \in Node, NEW m \in AppendRequests, NEW p2, NEW d2,
           Takes(peer[k], disk[k], m, p2, d2), NEW P \in written, Carries(m, P)
    PROVE  /\ p2.log \in {peer[k].log, P} /\ AgreeUpTo(p2.log, P, Len(P))
           /\ AgreeUpTo(peer[k].log, P, Len(P)) => p2.log = peer[k].log
<1> DEFINE log == peer[k].log
           prev == m.prev_log_index
<1>1. /\ prev \in Nat /\ m.entries \in Seq(LogEntry) /\ m.prev_log_term \in Nat
  BY DEF AppendRequests
<1>2. /\ p2.log = MergeEntries(log, prev, m.entries)
      /\ TermAt(log, prev) = m.prev_log_term
  BY Zenon DEF Takes
<1>3. Kept(P) /\ Kept(log)
  BY Zenon DEF Kept, Usable, LogInv, NodeLogs
<1>4. /\ P \in Seq(LogEntry) /\ log \in Seq(LogEntry)
      /\ Len(P) \in Nat /\ Len(log) \in Nat /\ Len(m.entries) \in Nat
  BY <1>1, <1>3, KeptType, LogLength, Zenon DEF LogInv
<1>5. Matching(log, P)
  BY <1>3, KeptMatching, Zenon DEF LogInv
<1>6. /\ Continues(P, prev, m.entries) /\ TermAt(P, prev) = TermAt(log, prev)
      /\ prev <= Len(P)
  BY <1>1, <1>2, <1>4 DEF Carries, Continues
<1>7. AgreeUpTo(log, P, prev)
  <2>1. CASE prev = 0
    BY <1>4, <2>1 DEF AgreeUpTo
  <2>2. CASE prev # 0
    <3>1. prev \in 1..Len(P) /\ prev \in DOMAIN P
      BY <1>1, <1>4, <1>6, <2>2, LogLength
    <3>2. prev \in DOMAIN log /\ log[prev].term = P[prev].term
      <4>1. P[prev].term \in Nat
        BY <1>4, <3>1, PrefixFacts, Zenon
      <4> QED BY <1>6, <2>2, <3>1, <4>1 DEF TermAt
    <3>3. prev \in 1..Len(log)
      BY <1>4, <3>2, LogLength, Zenon
    <3> QED BY <1>4, <1>5, <3>1, <3>2, <3>3 DEF Matching, AgreeUpTo
  <2> QED BY <2>1, <2>2, Zenon
<1>8. /\ (p2.log = log \/ p2.log = P) /\ AgreeUpTo(p2.log, P, Len(P))
      /\ AgreeUpTo(log, P, Len(P)) => p2.log = log
  BY <1>1, <1>2, <1>4, <1>5, <1>6, <1>7, MergeResult
<1> QED BY <1>8, Zenon

(* A node that accepts a request keeps its log or takes over the sender's. *)
LEMMA TakenLog ==
    ASSUME SetFacts, TypeOK, ElectionInv, LogInv, NEW k \in Node, NEW m, Sent(m), NEW p2, NEW d2,
           Takes(peer[k], disk[k], m, p2, d2)
    PROVE  \/ p2.log = peer[k].log /\ m.entries = <<>>
           \/ \E P \in written :
                 /\ Carries(m, P) /\ Usable(P, None)
                 /\ p2.log \in {peer[k].log, P} /\ AgreeUpTo(p2.log, P, Len(P))
<1> DEFINE log == peer[k].log
           prev == m.prev_log_index
<1>1. /\ m \in AppendRequests /\ prev \in Nat /\ m.entries \in Seq(LogEntry)
      /\ m.prev_log_term \in Nat
  BY Zenon DEF Sent, AppendRequests
<1>2. /\ p2.log = MergeEntries(log, prev, m.entries)
      /\ TermAt(log, prev) = m.prev_log_term
  BY Zenon DEF Takes
<1>3. CASE m.entries = <<>>
  BY <1>2, <1>3, NoEntries, Zenon
<1>4. CASE m.entries # <<>>
  <2>1. PICK P \in written : Carries(m, P) /\ Usable(P, None)
    BY <1>4, SentBacked, Zenon DEF Backed
  <2>2. p2.log \in {log, P} /\ AgreeUpTo(p2.log, P, Len(P))
    BY <1>1, <2>1, TakesCarried, Zenon
  <2> QED BY <2>1, <2>2, Zenon
<1> QED BY <1>3, <1>4, Zenon

-----------------------------------------------------------------------------
(* Steps that are no proposals keep the invariant.                         *)


LEMMA UsableNow ==
    ASSUME NEW k \in Node, NEW G, NEW H, Usable(G, k)', Usable(H, k)',
           peer'[k].log = G, disk'[k].log = H
    PROVE  Usable(peer[k].log, k)' /\ Usable(disk[k].log, k)'
  BY Zenon DEF Usable, Kept, Fresh

LEMMA MovesKeepLogs ==
    ASSUME SetFacts, TypeOK, TypeOK', ElectionInv, LogInv, Moves
    PROVE  LogInv'
<1>1. written' = written /\ elected \subseteq elected'
  BY Zenon DEF Moves, NewWinners
<1>2. (Closed /\ Unique /\ FromWinners)'
  <2>1. Closed' /\ Unique'
    BY <1>1 DEF LogInv, Closed, Unique
  <2>2. FromWinners'
    BY <1>1, Zenon DEF LogInv, FromWinners
  <2> QED BY <2>1, <2>2
<1>3. LeaderLogs'
  <2> SUFFICES ASSUME NEW n \in Node, peer'[n].role = Leader, NEW a \in written
               PROVE  LeaderLog(n, a)'
    BY <1>1 DEF LeaderLogs
  <2>1. peer'[n].log = peer[n].log /\ peer'[n].current_term = peer[n].current_term
    BY MovedLeader
  <2>2. CASE peer[n].role = Leader
    BY <2>1, <2>2, Zenon DEF LogInv, LeaderLogs, LeaderLog, Fresh
  <2>3. CASE \A b : Kept(b) => \A i \in 1..Len(b) : b[i].term # peer[n].current_term
    <3>1. a \in Seq(LogEntry) /\ a # <<>> /\ Kept(a)
      BY DEF LogInv, Closed, Kept
    <3>2. Len(a) \in 1..Len(a) /\ LastLogTerm(a) = a[Len(a)].term /\ Len(a) \in Nat
      BY <3>1, LastTermOf
    <3>3. Len(peer[n].log) \in Nat
      BY TypeOfNode, LogLength
    <3>4. LastLogTerm(a) # peer[n].current_term
      BY <2>3, <3>1, <3>2
    <3>5. Len(peer[n].log) < Len(a) => a[Len(peer[n].log) + 1].term # peer[n].current_term
      BY <2>3, <3>1, <3>2, <3>3
    <3> QED BY <2>1, <3>4, <3>5, Zenon DEF LeaderLog, Fresh
  <2> QED BY <2>2, <2>3, MovedLeader, Zenon
<1>4. NodeLogs'
  <2> SUFFICES ASSUME NEW k \in Node PROVE Usable(peer[k].log, k)' /\ Usable(disk[k].log, k)'
    BY Zenon DEF NodeLogs
  <2>1. Usable(peer[k].log, k) /\ Usable(disk[k].log, k) /\ NodeMoves(k)
    BY Zenon DEF LogInv, NodeLogs, Moves
  <2>2. \E G : Usable(G, k) /\ peer'[k].log = G
    <3>1. ASSUME NEW m, Sent(m), Takes(peer[k], disk[k], m, peer'[k], disk'[k])
          PROVE  \E G : Usable(G, k) /\ peer'[k].log = G
      <4>1. CASE peer'[k].log = peer[k].log
        BY <2>1, <4>1, Zenon
      <4>2. ASSUME NEW P, Usable(P, None), peer'[k].log \in {peer[k].log, P}
            PROVE  \E G : Usable(G, k) /\ peer'[k].log = G
        BY <2>1, <4>2, NodeAssumption, Zenon DEF Usable
      <4> QED BY <3>1, <4>1, <4>2, TakenLog, Zenon
    <3> QED BY <2>1, <3>1, Zenon DEF NodeMoves, Stays, Commits, Reloads
  <2>3. PICK G : Usable(G, k) /\ peer'[k].log = G
    BY <2>2
  <2>4. disk'[k].log \in {disk[k].log, G}
    BY <2>1, <2>3, Zenon DEF NodeMoves, Stays, Takes, Commits, Reloads, Flushed, Same
  <2>5. PICK H : Usable(H, k) /\ disk'[k].log = H
    BY <2>1, <2>3, <2>4, Zenon
  <2>6. Usable(G, k)' /\ Usable(H, k)'
    BY <2>3, <2>5, MovedUsable
  <2> QED BY <2>3, <2>5, <2>6, UsableNow, Zenon
<1>5. LateLogs'
  <2> SUFFICES ASSUME NEW m \in late', m.kind = "append", m.entries # <<>>
               PROVE  \E P \in written : Carries(m, P) /\ Usable(P, None)'
    BY <1>1, Zenon DEF LateLogs, Backed, Carries
  <2>1. Sent(m)
    BY Zenon DEF Moves
  <2>2. PICK P \in written : Carries(m, P) /\ Usable(P, None)
    BY <2>1, SentBacked DEF Backed
  <2> QED BY <2>2, MovedUsable
<1> QED BY <1>2, <1>3, <1>4, <1>5 DEF LogInv

-----------------------------------------------------------------------------
(* A proposal keeps the invariant.                                         *)


(* A log in use outside of n's files is not the one a proposal of n        *)
(* replaces, and stays usable.                                             *)
LEMMA ProposedUsable ==
    ASSUME TypeOK, LogInv, NEW n \in Node, NEW G, NEW f, Proposes(n, G, f),
           NEW H, NEW k, Usable(H, k), k = n => H = peer[n].log
    PROVE  Usable(H, k)'
<1> DEFINE L == Len(peer[n].log)
           t == peer[n].current_term
<1>1. /\ L \in Nat /\ Len(G) = L + 1 /\ LastLogTerm(G) = t /\ peer[n].role = Leader
  BY TypeOfNode, LogLength, Zenon DEF Proposes
<1>2. Kept(H) /\ H \in Seq(LogEntry) /\ Len(H) \in Nat
  BY KeptType DEF Usable, LogInv
<1>3. Len(H) = L + 1 => H[L + 1].term # t
  <2>1. CASE k = n
    BY <1>1, <2>1
  <2>2. CASE k # n
    <3>1. Fresh(n, H)
      BY <1>1, <2>2 DEF Usable
    <3> QED BY <1>1, <3>1 DEF Fresh
  <2> QED BY <2>1, <2>2, Zenon
<1>4. Kept(H)'
  <2>1. CASE H = <<>>
    BY <2>1, Zenon DEF Kept
  <2>2. CASE H # <<>>
    <3>1. H \in written /\ LastLogTerm(H) = H[Len(H)].term
      BY <1>2, <2>2, LastTermOf, Zenon DEF Kept
    <3>2. H \in Written(G)
      BY <1>1, <1>3, <3>1, Zenon DEF Written
    <3>3. written' = written \/ written' = Written(G)
      BY Zenon DEF Proposes
    <3> QED BY <3>1, <3>2, <3>3, Zenon DEF Kept
  <2> QED BY <2>1, <2>2, Zenon
<1>5. ASSUME NEW l \in Node \ {k}, peer'[l].role = Leader PROVE Fresh(l, H)'
  <2>1. peer[l].role = Leader /\ peer'[l].current_term = peer[l].current_term
    BY <1>5, Zenon DEF Proposes
  <2>2. Fresh(l, H)
    BY <1>5, <2>1, Zenon DEF Usable
  <2>3. CASE peer'[l].log = peer[l].log
    BY <2>1, <2>2, <2>3, Zenon DEF Fresh
  <2>4. CASE peer'[l].log # peer[l].log
    <3>1. l = n /\ peer'[n].log = G
      BY <1>5, <2>4, Zenon DEF Proposes
    <3>2. SUFFICES ASSUME L + 2 <= Len(H), H[L + 2].term = t PROVE FALSE
      BY <1>1, <1>2, <2>1, <3>1 DEF Fresh
    <3>3. SubSeq(H, 1, L + 2) \in written /\ Len(SubSeq(H, 1, L + 2)) = L + 2
          /\ LastLogTerm(SubSeq(H, 1, L + 2)) = t
      <4>1. L + 2 \in Nat /\ 1 <= L + 2
        BY <1>1
      <4> QED BY <1>2, <3>2, <4>1, PrefixWritten, Zenon DEF LogInv
    <3>4. LeaderLog(n, SubSeq(H, 1, L + 2))
      BY <1>1, <3>3, Zenon DEF LogInv, LeaderLogs
    <3> QED BY <1>1, <3>3, <3>4 DEF LeaderLog
  <2> QED BY <2>3, <2>4, Zenon
<1> QED BY <1>4, <1>5, Zenon DEF Usable

(* Nobody else would write the entry that n proposes.                      *)
LEMMA ProposedFresh ==
    ASSUME SetFacts, TypeOK, ElectionInv, LogInv, NEW n \in Node, NEW G, NEW f, Proposes(n, G, f),
           NEW l \in Node, l # n, peer[l].role = Leader
    PROVE  Fresh(l, G) /\ peer[l].current_term # peer[n].current_term
<1> DEFINE L == Len(peer[n].log)
           t == peer[n].current_term
<1>1. /\ L \in Nat /\ Len(G) = L + 1 /\ G[L + 1].term = t /\ peer[n].role = Leader
      /\ \A j \in 1..L : G[j] = peer[n].log[j]
  BY TypeOfNode, LogLength, Zenon DEF Proposes
<1>2. Len(peer[l].log) \in Nat
  BY TypeOfNode, LogLength, Zenon
<1>3. peer[l].current_term # t
  <2>1. <<t, n>> \in elected /\ <<peer[l].current_term, l>> \in elected
    BY <1>1, Zenon DEF ElectionInv, CampaignInv, OperationInv
  <2>2. ElectionSafety
    BY OneWinner
  <2> QED BY <2>1, <2>2 DEF ElectionSafety
<1>4. Fresh(l, peer[n].log)
  BY Zenon DEF LogInv, NodeLogs, Usable
<1>5. CASE Len(peer[l].log) < L
  <2>1. Len(peer[l].log) + 1 \in 1..L
    <3>1. L \in Nat
      BY <1>1, Zenon
    <3>2. \A x, y \in Nat : x < y => x + 1 \in 1..y
      OBVIOUS
    <3> QED BY <1>2, <1>5, <3>1, <3>2, Zenon
  <2>2. G[Len(peer[l].log) + 1] = peer[n].log[Len(peer[l].log) + 1]
    BY <1>1, <2>1, Zenon
  <2> QED BY <1>3, <1>4, <1>5, <2>2, Zenon DEF Fresh
<1>6. CASE Len(peer[l].log) = L
  <2>1. G[Len(peer[l].log) + 1].term = t
    BY <1>1, <1>6, Zenon
  <2> QED BY <1>3, <2>1, Zenon DEF Fresh
<1>7. CASE Len(peer[l].log) > L
  BY <1>1, <1>2, <1>3, <1>7 DEF Fresh
<1> QED BY <1>1, <1>2, <1>5, <1>6, <1>7

(* The logs written after a proposal.                                      *)
LEMMA ProposedWritten ==
    ASSUME SetFacts, TypeOK, ElectionInv, LogInv, NEW n \in Node, NEW G, NEW f, Proposes(n, G, f),
           f # "none"
    PROVE  (Closed /\ Unique /\ FromWinners /\ LeaderLogs)' /\ Usable(G, n)'
<1> DEFINE L == Len(peer[n].log)
           t == peer[n].current_term
<1>1. /\ L \in Nat /\ G \in Seq(LogEntry) /\ Len(G) = L + 1 /\ LastLogTerm(G) = t
      /\ peer[n].role = Leader /\ written' = Written(G)
      /\ \A j \in 1..L : G[j] = peer[n].log[j]
      /\ peer[n].log \in Seq(LogEntry) /\ t \in Nat
  BY TypeOfNode, LogLength, Zenon DEF Proposes
<1>2. \A a : a \in written' <=>
         a = G \/ (a \in written /\ (Len(a) # L + 1 \/ LastLogTerm(a) # t))
  BY <1>1, Zenon DEF Written
<1>3. ASSUME NEW a \in written PROVE a \in Seq(LogEntry) /\ a # <<>> /\ Kept(a) /\ Len(a) \in Nat
  BY KeptType DEF LogInv, Closed, Kept
<1>4. ASSUME NEW a \in written PROVE LeaderLog(n, a)
  BY <1>1, Zenon DEF LogInv, LeaderLogs
<1>5. Closed'
  <2> SUFFICES ASSUME NEW a \in written'
               PROVE  /\ a \in Seq(LogEntry) /\ a # <<>>
                      /\ \A i \in 1..Len(a) : SubSeq(a, 1, i) \in written'
    BY DEF Closed
  <2>1. CASE a = G
    <3>1. G # <<>>
      BY <1>1, LogEmpty
    <3>2. ASSUME NEW i \in 1..Len(G) PROVE SubSeq(G, 1, i) \in written'
      <4>1. CASE i = L + 1
        BY <1>1, <1>2, <4>1, WholePrefix, Zenon
      <4>2. CASE i # L + 1
        <5>1. i \in Nat /\ 1 <= i /\ i <= L /\ i <= Len(G) /\ i # L + 1
          BY <1>1, <4>2
        <5>2. Usable(peer[n].log, n)
          BY Zenon DEF LogInv, NodeLogs
        <5>3. SubSeq(peer[n].log, 1, i) \in written /\ Len(SubSeq(peer[n].log, 1, i)) = i
          BY <5>1, <5>2, PrefixWritten, Zenon DEF LogInv, Usable
        <5>4. SubSeq(peer[n].log, 1, i) = SubSeq(G, 1, i)
          BY <1>1, <5>1, EqualPrefixes
        <5> QED BY <1>2, <5>1, <5>3, <5>4, Zenon
      <4> QED BY <4>1, <4>2
    <3> QED BY <1>1, <2>1, <3>1, <3>2, Zenon
  <2>2. CASE a \in written /\ (Len(a) # L + 1 \/ LastLogTerm(a) # t)
    <3>1. ASSUME NEW i \in 1..Len(a) PROVE SubSeq(a, 1, i) \in written'
      <4>1. i \in Nat /\ 1 <= i /\ i <= Len(a)
        BY <1>3, <2>2
      <4>2. /\ SubSeq(a, 1, i) \in written /\ Len(SubSeq(a, 1, i)) = i
            /\ LastLogTerm(SubSeq(a, 1, i)) = a[i].term
        BY <1>3, <2>2, <4>1, PrefixWritten, Zenon DEF LogInv
      <4>3. ~(i = L + 1 /\ a[i].term = t)
        <5> SUFFICES ASSUME i = L + 1, a[i].term = t PROVE FALSE
          OBVIOUS
        <5>1. Fresh(n, a) \/ Len(a) = L + 1
          BY <1>4, <2>2, Zenon DEF LeaderLog
        <5>2. Len(a) = L + 1
          BY <1>1, <1>3, <2>2, <4>1, <5>1 DEF Fresh
        <5>3. LastLogTerm(a) = t
          BY <1>3, <2>2, <5>2, LastTermOf, Zenon
        <5> QED BY <2>2, <5>2, <5>3, Zenon
      <4> QED BY <1>2, <4>2, <4>3, Zenon
    <3> QED BY <1>3, <2>2, <3>1
  <2> QED BY <1>2, <2>1, <2>2, Zenon
<1>6. Unique'
  BY <1>1, <1>2, ZenonT(30) DEF LogInv, Unique
<1>7. FromWinners'
  <2>1. <<t, n>> \in elected /\ elected' = elected
    BY <1>1, Zenon DEF ElectionInv, CampaignInv, OperationInv, Proposes
  <2> QED BY <1>1, <1>2, <2>1, Zenon DEF LogInv, FromWinners
<1>8. LeaderLogs'
  <2> SUFFICES ASSUME NEW l \in Node, peer'[l].role = Leader, NEW a \in written'
               PROVE  LeaderLog(l, a)'
    BY DEF LeaderLogs
  <2>1. peer[l].role = Leader /\ peer'[l].current_term = peer[l].current_term
    BY Zenon DEF Proposes
  <2>2. CASE l # n
    <3>1. peer'[l] = peer[l]
      BY <2>2, Zenon DEF Proposes
    <3>2. LeaderLog(l, a)
      <4>1. CASE a = G
        BY <1>1, <2>1, <2>2, <4>1, ProposedFresh, Zenon DEF LeaderLog
      <4>2. CASE a # G
        BY <1>2, <2>1, <4>2, Zenon DEF LogInv, LeaderLogs
      <4> QED BY <4>1, <4>2
    <3> QED BY <3>1, <3>2, Zenon DEF LeaderLog, Fresh
  <2>3. CASE l = n /\ f # "ok"
    <3>1. peer'[n].log = peer[n].log
      BY <2>3, Zenon DEF Proposes
    <3>2. LeaderLog(n, a)
      <4>1. CASE a = G
        BY <1>1, <4>1 DEF LeaderLog
      <4>2. CASE a # G
        BY <1>2, <1>4, <4>2, Zenon
      <4> QED BY <4>1, <4>2
    <3> QED BY <2>1, <2>3, <3>1, <3>2, Zenon DEF LeaderLog, Fresh
  <2>4. CASE l = n /\ f = "ok"
    <3>1. peer'[n].log = G
      BY <2>4, Zenon DEF Proposes
    <3>2. CASE a = G
      BY <1>1, <2>1, <2>4, <3>1, <3>2 DEF LeaderLog, Fresh
    <3>3. CASE a # G
      <4>1. a \in written
        BY <1>2, <3>3, Zenon
      <4>2. LastLogTerm(a) = t => Len(a) <= L + 1
        BY <1>4, <4>1, Zenon DEF LeaderLog
      <4>3. ~(L + 2 <= Len(a) /\ a[L + 2].term = t)
        <5> SUFFICES ASSUME L + 2 <= Len(a), a[L + 2].term = t PROVE FALSE
          BY Zenon
        <5>1. SubSeq(a, 1, L + 2) \in written /\ Len(SubSeq(a, 1, L + 2)) = L + 2
              /\ LastLogTerm(SubSeq(a, 1, L + 2)) = t
          <6>1. \A x \in Nat : x + 2 \in Nat /\ 1 <= x + 2
            OBVIOUS
          <6>2. Closed /\ Kept(a)
            BY <4>1, Zenon DEF LogInv, Kept
          <6>3. L + 2 \in Nat /\ 1 <= L + 2
            BY <1>1, <6>1, Zenon
          <6> QED BY <6>2, <6>3, PrefixWritten, Zenon
        <5>2. LeaderLog(n, SubSeq(a, 1, L + 2))
          BY <1>4, <5>1, Zenon
        <5> QED BY <1>1, <5>1, <5>2 DEF LeaderLog
      <4>4. \A x, y \in Nat : /\ y <= x + 1 => y <= x + 2
                              /\ x + 1 < y => x + 2 <= y
                              /\ (x + 1) + 1 = x + 2
        OBVIOUS
      <4>5. /\ L \in Nat /\ Len(a) \in Nat /\ Len(G) = L + 1
            /\ peer'[l].log = G /\ peer'[l].current_term = t
        BY <1>1, <1>3, <2>1, <2>4, <3>1, <4>1, Zenon
      <4> HIDE DEF L
      <4>6. Len(G) + 1 = L + 2
        BY <4>4, <4>5, Zenon
      <4>7. LastLogTerm(a) = t => Len(a) <= L + 2
        BY <4>2, <4>4, <4>5, Zenon
      <4>8. Len(G) < Len(a) => a[L + 2].term # t
        BY <4>3, <4>4, <4>5, Zenon
      <4> QED BY <4>5, <4>6, <4>7, <4>8, Zenon DEF LeaderLog, Fresh
    <3> QED BY <3>2, <3>3
  <2> QED BY <2>2, <2>3, <2>4
<1>9. Usable(G, n)'
  <2>1. ASSUME NEW l \in Node \ {n}, peer'[l].role = Leader PROVE Fresh(l, G)'
    <3>1. peer'[l] = peer[l]
      BY <2>1, Zenon DEF Proposes
    <3> QED BY <2>1, <3>1, ProposedFresh, Zenon DEF Fresh
  <2> QED BY <1>2, <2>1, Zenon DEF Usable, Kept
<1> QED BY <1>5, <1>6, <1>7, <1>8, <1>9

LEMMA ProposeKeepsLogs ==
    ASSUME SetFacts, TypeOK, TypeOK', ElectionInv, LogInv, NEW n \in Node, NEW G, NEW f,
           Proposes(n, G, f)
    PROVE  LogInv'
<1>1. /\ late' = late /\ elected' = elected /\ f \in FlushResult
      /\ \A k \in Node : /\ peer'[k].role = peer[k].role
                         /\ peer'[k].current_term = peer[k].current_term
      /\ \A k \in Node \ {n} : peer'[k].log = peer[k].log /\ disk'[k].log = disk[k].log
  BY Zenon DEF Proposes
<1>2. (Closed /\ Unique /\ FromWinners /\ LeaderLogs)'
  <2>1. CASE f = "none"
    <3>1. written' = written /\ \A k \in Node : peer'[k].log = peer[k].log
      BY <1>1, <2>1, Zenon DEF Proposes
    <3>2. Closed' /\ Unique' /\ FromWinners'
      BY <1>1, <3>1, Zenon DEF LogInv, Closed, Unique, FromWinners
    <3>3. LeaderLogs'
      BY <1>1, <3>1, ZenonT(30) DEF LogInv, LeaderLogs, LeaderLog, Fresh
    <3> QED BY <3>2, <3>3
  <2>2. CASE f # "none"
    BY <2>2, ProposedWritten
  <2> QED BY <2>1, <2>2
<1>3. LateLogs'
  <2> SUFFICES ASSUME NEW m \in late, m.kind = "append", m.entries # <<>>
               PROVE  \E P \in written' : Carries(m, P) /\ Usable(P, None)'
    BY <1>1, Zenon DEF LateLogs, Backed, Carries
  <2>1. PICK P \in written : Carries(m, P) /\ Usable(P, None)
    BY Zenon DEF LogInv, LateLogs, Backed
  <2>2. Usable(P, None)'
    BY <2>1, ProposedUsable, NodeAssumption, Zenon
  <2>3. P # <<>>
    BY DEF LogInv, Closed
  <2> QED BY <2>1, <2>2, <2>3, Zenon DEF Usable, Kept
<1>4. NodeLogs'
  <2> SUFFICES ASSUME NEW k \in Node PROVE Usable(peer[k].log, k)' /\ Usable(disk[k].log, k)'
    BY Zenon DEF NodeLogs
  <2>1. Usable(peer[k].log, k) /\ Usable(disk[k].log, k)
    BY Zenon DEF LogInv, NodeLogs
  <2>2. PICK A, B : A = peer'[k].log /\ B = disk'[k].log
    BY Zenon
  <2>3. CASE k # n
    BY <1>1, <2>1, <2>2, <2>3, ProposedUsable, UsableNow, Zenon
  <2>4. CASE k = n
    <3>1. Usable(A, k)'
      <4>1. A = peer[n].log \/ (f = "ok" /\ A = G)
        BY <2>2, <2>4, Zenon DEF Proposes
      <4>2. CASE A = peer[n].log
        BY <2>1, <2>4, <4>2, ProposedUsable, Zenon
      <4>3. CASE f = "ok" /\ A = G
        BY <2>4, <4>3, ProposedWritten
      <4> QED BY <4>1, <4>2, <4>3
    <3>2. Usable(B, k)'
      <4>1. CASE f = "none"
        <5>1. B = disk[n].log /\ written' = written /\ \A j \in Node : peer'[j].log = peer[j].log
          BY <1>1, <2>2, <2>4, <4>1, Zenon DEF Proposes
        <5> QED BY <1>1, <2>1, <2>4, <5>1, Zenon DEF Usable, Kept, Fresh
      <4>2. CASE f # "none"
        <5>1. B = G
          BY <2>2, <2>4, <4>2, Zenon DEF Proposes
        <5> QED BY <2>4, <4>2, <5>1, ProposedWritten
      <4> QED BY <4>1, <4>2
    <3> QED BY <2>2, <3>1, <3>2, UsableNow, Zenon
  <2> QED BY <2>3, <2>4, Zenon
<1> QED BY <1>2, <1>3, <1>4 DEF LogInv

LEMMA InitLogs == Init => LogInv
<1> SUFFICES ASSUME Init PROVE LogInv
  OBVIOUS
<1>1. /\ written = {} /\ late = {}
      /\ \A n \in Node : peer[n].log = <<>> /\ disk[n].log = <<>> /\ peer[n].role # Leader
  BY Zenon DEF Init, NewPeer, Saved, Follower, Leader
<1> QED
  BY <1>1, Zenon DEF LogInv, Closed, Unique, FromWinners, LeaderLogs, NodeLogs, LateLogs, Usable, Kept

-----------------------------------------------------------------------------
(* Terms.                                                                  *)

(* A majority has a voter.                                                 *)
LEMMA WinnerTerm ==
    ASSUME SetFacts, ElectionInv, TermInv, NEW x \in elected
    PROVE  x[1] >= 1
<1>1. PICK Q \in Quorums : \A v \in Q : <<x[1], v, x[2]>> \in tally
  BY Zenon DEF ElectionInv, ElectedInv
<1>2. PICK v : v \in Q
  BY QuorumsIntersect
<1>3. <<x[1], v, x[2]>> \in tally
  BY <1>1, <1>2
<1> QED BY <1>3 DEF TermInv

(* A vote is counted for a candidate that has not won.                     *)
LEMMA CountedBeforeWin ==
    ASSUME TypeOK', ElectionInv', Moves, NEW s, NEW v, NEW x \in Node,
           <<s, x>> \in elected', <<s, v, x>> \in tally'
    PROVE  <<s, v, x>> \in tally
<1> SUFFICES ASSUME <<s, v, x>> \notin tally PROVE FALSE
  OBVIOUS
<1>1. op'[x].phase = "vote" /\ s = peer'[x].current_term
  BY DEF Moves, NewVotes
<1>2. <<peer'[x].current_term, x>> \notin elected'
  BY <1>1, Zenon DEF ElectionInv, CampaignInv, OperationInv
<1> QED BY <1>1, <1>2, Zenon

(* The entries of a new leader's log are of earlier terms.                 *)
LEMMA WinnerLog ==
    ASSUME SetFacts, TypeOK, ElectionInv, LogInv, TermInv, NEW n \in Node, Wins(n),
           NEW i \in 1..Len(peer[n].log)
    PROVE  peer[n].log[i].term <= peer[n].current_term
<1> DEFINE log == peer[n].log
           s == log[i].term
<1>1. Kept(log) /\ Len(log) \in Nat /\ log \in Seq(LogEntry)
  BY TypeOfNode, LogLength, Zenon DEF LogInv, NodeLogs, Usable
<1>2. s \in Nat /\ peer[n].current_term \in Nat
  BY <1>1, PrefixFacts, TypeOfNode, Zenon
<1> SUFFICES ASSUME s > peer[n].current_term PROVE FALSE
  BY <1>2
<1>3. SubSeq(log, 1, i) \in written /\ LastLogTerm(SubSeq(log, 1, i)) = s
  BY <1>1, PrefixWritten DEF LogInv
<1>4. PICK x \in Node : <<s, x>> \in elected
  BY <1>3, Zenon DEF LogInv, FromWinners
<1>5. PICK Q \in Quorums : \A v \in Q : <<s, v, x>> \in tally
  BY <1>4, Zenon DEF ElectionInv, ElectedInv
<1>6. op[n].votes \in Quorums /\ op[n].phase = "vote"
  BY Zenon DEF Wins
<1>7. PICK v : v \in Q /\ v \in op[n].votes
  BY <1>6, QuorumsIntersect, Zenon
<1>8. NotCounted(s, v)
  BY <1>6, <1>7, Zenon DEF TermInv, Doomed
<1> QED BY <1>4, <1>5, <1>7, <1>8, Zenon DEF NotCounted

LEMMA MovesKeepTerms ==
    ASSUME SetFacts, TypeOK, TypeOK', ElectionInv, ElectionInv', LogInv, TermInv, Moves
    PROVE  TermInv'
<1>1. written' = written
  BY DEF Moves
<1>2. Ordered' /\ OneLine' /\ \A a \in written' : Len(a) <= MaxLog
  BY <1>1, Zenon DEF TermInv, Ordered, OneLine
<1>3. LeaderTerms'
  <2> SUFFICES ASSUME NEW n \in Node, peer'[n].role = Leader PROVE LeaderTerm(n)'
    BY DEF LeaderTerms
  <2>1. RoleMoves(n)
    BY DEF Moves
  <2>2. peer'[n].log = peer[n].log /\ peer'[n].current_term = peer[n].current_term
    BY <2>1, Zenon DEF RoleMoves
  <2>3. LeaderTerm(n)
    <3>1. CASE peer[n].role = Leader
      BY <3>1, Zenon DEF TermInv, LeaderTerms
    <3>2. CASE Wins(n)
      <4>1. \A i \in 1..Len(peer[n].log) : peer[n].log[i].term <= peer[n].current_term
        BY <3>2, WinnerLog, Zenon
      <4>2. ASSUME NEW a \in written PROVE LastLogTerm(a) # peer[n].current_term
        <5>1. a \in Seq(LogEntry) /\ a # <<>> /\ Kept(a)
          BY DEF LogInv, Closed, Kept
        <5>2. Len(a) \in 1..Len(a) /\ LastLogTerm(a) = a[Len(a)].term
          BY <5>1, LastTermOf
        <5> QED BY <3>2, <5>1, <5>2, NewTerm, Zenon
      <4> QED BY <4>1, <4>2, Zenon DEF LeaderTerm
    <3> QED BY <2>1, <3>1, <3>2, Zenon DEF RoleMoves
  <2> QED BY <1>1, <2>2, <2>3, Zenon DEF LeaderTerm
<1>4. Doomed'
  <2> SUFFICES ASSUME NEW n \in Node, op'[n].phase = "vote", NEW i \in 1..Len(peer'[n].log),
                      peer'[n].log[i].term > peer'[n].current_term, NEW v \in op'[n].votes,
                      NEW x \in Node, <<peer'[n].log[i].term, x>> \in elected',
                      <<peer'[n].log[i].term, v, x>> \in tally'
               PROVE  FALSE
    BY Zenon DEF Doomed, NotCounted
  <2> DEFINE s == peer[n].log[i].term
  <2>1. VotesMove(n)
    BY Zenon DEF Moves
  <2>2. peer'[n].log = peer[n].log
    BY <2>1, Zenon DEF VotesMove
  <2>3. /\ Kept(peer[n].log) /\ peer[n].log \in Seq(LogEntry) /\ i \in 1..Len(peer[n].log)
        /\ peer[n].current_term \in Nat /\ peer'[n].current_term \in Nat
        /\ v \in Node /\ peer[v].current_term \in Nat
    BY <2>2, TypeOfNode, Zenon DEF LogInv, NodeLogs, Usable, TypeOK, Operation, RaftPeer
  <2>4. s \in Nat /\ s > peer'[n].current_term
    BY <2>2, <2>3, PrefixFacts, Zenon
  <2>5. <<s, v, x>> \in tally
    BY <2>2, CountedBeforeWin, Zenon
  <2>6. <<s, x>> \in elected
    <3> SUFFICES ASSUME <<s, x>> \notin elected PROVE FALSE
      BY Zenon
    <3>1. s = peer[x].current_term /\ Wins(x)
      BY <2>2 DEF Moves, NewWinners
    <3> QED BY <2>3, <3>1, NewTerm, Zenon
  <2>7. peer[v].current_term >= s
    BY <2>5, Zenon DEF ElectionInv, VotesRemembered, Honours
  <2>8. CASE op[n].phase = "vote" /\ peer'[n].current_term = peer[n].current_term /\ v \in op[n].votes
    <3>1. NotCounted(s, v)
      BY <2>3, <2>4, <2>8, Zenon DEF TermInv, Doomed
    <3> QED BY <2>5, <2>6, <3>1, Zenon DEF NotCounted
  <2> HIDE DEF s
  <2>11. \A a, b \in Nat : a >= s /\ s > b => ~(a <= b) /\ a # b
    BY <2>4
  <2>9. CASE Grants(v, n) /\ peer'[n].current_term = peer[n].current_term
    BY <2>3, <2>4, <2>7, <2>9, <2>11, Zenon DEF Grants
  <2>10. CASE v = n /\ peer'[n].current_term = peer[n].current_term + 1
    <3>1. peer[n].current_term >= s /\ s > peer[n].current_term + 1
      BY <2>4, <2>7, <2>10, Zenon
    <3>2. s \in Nat /\ peer[n].current_term \in Nat
      BY <2>3, <2>4, Zenon
    <3> QED BY <3>1, <3>2
  <2> QED BY <2>1, <2>8, <2>9, <2>10 DEF VotesMove
<1>5. ReplicatesOwn'
  <2> SUFFICES ASSUME NEW n \in Node, Replicates(n)'
               PROVE  LastLogTerm(peer'[n].log) = peer'[n].current_term
    BY DEF ReplicatesOwn
  <2>1. Replicates(n) /\ peer'[n].role = Leader /\ RoleMoves(n)
    BY Zenon DEF Moves, VotesMove, Replicates, ElectionInv, CampaignInv, OperationInv
  <2> QED BY <2>1, Zenon DEF RoleMoves, TermInv, ReplicatesOwn
<1>6. \A x \in tally' : x[1] >= 1
  <2> SUFFICES ASSUME NEW x \in tally', x \notin tally PROVE x[1] >= 1
    BY DEF TermInv
  <2> DEFINE n == x[3]
  <2>1. n \in Node /\ op'[n].phase = "vote" /\ x[1] = peer'[n].current_term
    BY Zenon DEF TypeOK, Moves, NewVotes
  <2>2. VotesMove(n)
    BY <2>1, Zenon DEF Moves
  <2>3. peer[n].current_term \in Nat
    BY <2>1, TypeOfNode, Zenon
  <2>4. CASE op[n].phase = "vote" /\ peer'[n].current_term = peer[n].current_term
    <3>1. <<peer[n].current_term, n, n>> \in tally
      BY <2>1, <2>4, Zenon DEF ElectionInv, CampaignInv, OperationInv
    <3> QED BY <2>1, <2>4, <3>1, Zenon DEF TermInv
  <2>5. CASE peer'[n].current_term = peer[n].current_term + 1
    BY <2>1, <2>3, <2>5
  <2> QED BY <2>1, <2>2, <2>4, <2>5, Zenon DEF VotesMove
<1> QED BY <1>2, <1>3, <1>4, <1>5, <1>6 DEF TermInv

LEMMA ProposeKeepsTerms ==
    ASSUME SetFacts, TypeOK, TypeOK', ElectionInv, LogInv, TermInv,
           NEW n \in Node, NEW G, NEW f, Proposes(n, G, f), Len(G) <= MaxLog
    PROVE  TermInv'
<1> DEFINE L == Len(peer[n].log)
           t == peer[n].current_term
<1>1. /\ L \in Nat /\ t \in Nat /\ G \in Seq(LogEntry) /\ Len(G) = L + 1
      /\ LastLogTerm(G) = t /\ G[L + 1].term = t /\ peer[n].role = Leader
      /\ \A j \in 1..L : G[j] = peer[n].log[j]
      /\ peer[n].log \in Seq(LogEntry) /\ Kept(peer[n].log)
  BY TypeOfNode, LogLength, Zenon DEF Proposes, LogInv, NodeLogs, Usable
<1>2. \A a \in written' :
         \/ a = G /\ f # "none"
         \/ a \in written /\ (LastLogTerm(a) = t /\ f # "none" => Len(a) # L + 1)
  <2>1. written' = IF f = "none" THEN written ELSE Written(G)
    BY Zenon DEF Proposes
  <2> QED BY <1>1, <2>1, Zenon DEF Written
<1>3. LeaderTerm(n) /\ \A a \in written : LeaderLog(n, a)
  BY <1>1, Zenon DEF TermInv, LeaderTerms, LogInv, LeaderLogs
<1>4. ASSUME NEW a \in written
      PROVE  a \in Seq(LogEntry) /\ Len(a) \in Nat /\ Len(a) >= 1 /\ Len(a) <= MaxLog
  BY LastTermOf, Zenon DEF LogInv, Closed, TermInv
<1>5. \A j \in 1..L : G[j].term <= t /\ G[j].term \in Nat
  <2>1. \A j \in 1..L : peer[n].log[j].term \in Nat
    BY <1>1, PrefixFacts, Zenon
  <2> QED BY <1>1, <1>3, <2>1, Zenon DEF LeaderTerm
<1>6. Ordered'
  <2> SUFFICES ASSUME NEW a \in written', NEW j \in 1..Len(a), NEW i \in 1..j
               PROVE  a[i].term <= a[j].term
    BY Zenon DEF Ordered
  <2>1. CASE a \in written
    BY <2>1, Zenon DEF TermInv, Ordered
  <2>2. CASE a = G
    <3>1. CASE j = L + 1
      <4>1. i \in 1..L \/ i = L + 1
        BY <1>1, <2>2, <3>1
      <4>2. a[j].term = t /\ a[L + 1].term = t /\ \A h \in 1..L : a[h].term <= t
        BY <1>1, <1>5, <2>2, <3>1, Zenon
      <4>3. t <= t
        BY <1>1
      <4> QED BY <4>1, <4>2, <4>3, Zenon
    <3>2. CASE j # L + 1
      <4>1. j \in 1..L /\ i \in 1..L /\ i \in 1..j
        <5>1. \A x \in Nat : \A y \in 1..x + 1 :
                 y # x + 1 => y \in 1..x /\ \A z \in 1..y : z \in 1..x
          OBVIOUS
        <5> QED BY <1>1, <2>2, <3>2, <5>1, Zenon
      <4>2. peer[n].log \in written
        <5>1. L # 0
          BY <4>1
        <5> QED BY <1>1, <5>1, LenOfEmpty, Zenon DEF Kept
      <4>3. peer[n].log[i].term <= peer[n].log[j].term
        BY <4>1, <4>2, Zenon DEF TermInv, Ordered
      <4> QED BY <1>1, <2>2, <4>1, <4>3, Zenon
    <3> QED BY <3>1, <3>2, Zenon
  <2> QED BY <1>2, <2>1, <2>2, Zenon
<1>7. OneLine'
  <2> SUFFICES ASSUME NEW a \in written', NEW b \in written',
                      LastLogTerm(a) = LastLogTerm(b), Len(a) <= Len(b)
               PROVE  b[Len(a)].term = LastLogTerm(a)
    BY DEF OneLine
  <2>1. CASE a \in written /\ b \in written
    BY <2>1, Zenon DEF TermInv, OneLine
  <2>2. CASE a = G /\ b = G
    BY <1>1, <2>2, Zenon
  <2>3. CASE f # "none" /\ a = G /\ b # G
    <3>1. b \in written /\ Len(b) # L + 1 /\ LeaderLog(n, b) /\ Len(b) \in Nat
      BY <1>1, <1>2, <1>3, <1>4, <2>3, Zenon
    <3> QED BY <1>1, <2>3, <3>1 DEF LeaderLog
  <2>4. CASE f # "none" /\ a # G /\ b = G
    <3>1. a \in written /\ Len(a) # L + 1 /\ Len(a) \in 1..L
      BY <1>1, <1>2, <1>4, <2>4
    <3>2. peer[n].log[Len(a)].term = t
      BY <1>1, <1>3, <2>4, <3>1 DEF LeaderTerm
    <3> QED BY <1>1, <2>4, <3>1, <3>2, Zenon
  <2> QED BY <1>2, <2>1, <2>2, <2>3, <2>4, Zenon
<1>8. LeaderTerms'
  <2> SUFFICES ASSUME NEW l \in Node, peer'[l].role = Leader PROVE LeaderTerm(l)'
    BY DEF LeaderTerms
  <2>1. peer[l].role = Leader /\ peer'[l].current_term = peer[l].current_term
    BY Zenon DEF Proposes
  <2>2. LeaderTerm(l)
    BY <2>1, Zenon DEF TermInv, LeaderTerms
  <2>3. CASE l # n
    <3>1. peer'[l].log = peer[l].log /\ peer[l].current_term # t
      BY <2>1, <2>3, ProposedFresh, Zenon DEF Proposes
    <3> QED BY <1>1, <1>2, <2>1, <2>2, <3>1, Zenon DEF LeaderTerm
  <2>4. CASE l = n /\ f # "ok"
    <3>1. peer'[l].log = peer[l].log
      BY <2>4, Zenon DEF Proposes
    <3> QED BY <1>1, <1>2, <2>1, <2>2, <2>4, <3>1 DEF LeaderTerm
  <2>5. CASE l = n /\ f = "ok"
    <3>1. peer'[n].log = G
      BY <2>5, Zenon DEF Proposes
    <3>2. \A i \in 1..Len(G) : G[i].term <= t
      BY <1>1, <1>5
    <3>3. ASSUME NEW a \in written', LastLogTerm(a) = t, Len(a) <= Len(G)
          PROVE  G[Len(a)].term = t
      <4>1. CASE a = G
        BY <1>1, <4>1, Zenon
      <4>2. CASE a # G
        <5>1. a \in written /\ Len(a) \in 1..L /\ Len(a) <= L
          <6>1. \A x, y \in Nat : y >= 1 /\ y <= x + 1 /\ y # x + 1 => y \in 1..x /\ y <= x
            OBVIOUS
          <6>2. a \in written /\ Len(a) # L + 1
            BY <1>2, <2>5, <3>3, <4>2, Zenon
          <6>3. Len(a) \in Nat /\ Len(a) >= 1
            BY <1>4, <6>2, Zenon
          <6> QED BY <1>1, <3>3, <6>1, <6>2, <6>3, Zenon
        <5>2. peer[n].log[Len(a)].term = t
          BY <1>1, <1>3, <3>3, <5>1, Zenon DEF LeaderTerm
        <5> QED BY <1>1, <5>1, <5>2, Zenon
      <4> QED BY <4>1, <4>2, Zenon
    <3> QED BY <2>1, <2>5, <3>1, <3>2, <3>3, Zenon DEF LeaderTerm
  <2> QED BY <2>3, <2>4, <2>5
<1>9. Doomed'
  <2>1. ASSUME NEW k \in Node, op'[k].phase = "vote"
        PROVE  UNCHANGED <<peer[k], op[k], elected, tally>>
    BY <2>1, Zenon DEF Proposes
  <2> QED BY <2>1, Zenon DEF TermInv, Doomed, NotCounted
<1>10. ReplicatesOwn'
  <2> SUFFICES ASSUME NEW k \in Node, Replicates(k)'
               PROVE  LastLogTerm(peer'[k].log) = peer'[k].current_term
    BY DEF ReplicatesOwn
  <2>1. CASE k = n
    BY <1>1, <2>1, Zenon DEF Proposes, Replicates
  <2>2. CASE k # n
    BY <2>2, Zenon DEF Proposes, Replicates, TermInv, ReplicatesOwn
  <2> QED BY <2>1, <2>2, Zenon
<1>11. \A a \in written' : Len(a) <= MaxLog
  BY <1>2, <1>4, Zenon
<1>12. \A x \in tally' : x[1] >= 1
  BY Zenon DEF Proposes, TermInv
<1> QED BY <1>6, <1>7, <1>8, <1>9, <1>10, <1>11, <1>12, Zenon DEF TermInv

LEMMA InitTerms == Init => TermInv
<1> SUFFICES ASSUME Init PROVE TermInv
  OBVIOUS
<1>1. /\ written = {} /\ tally = {}
      /\ \A n \in Node : peer[n].role # Leader /\ op[n].phase = "idle"
  BY Zenon DEF Init, NewPeer, Idle, Follower, Leader
<1> QED
  BY <1>1, Zenon DEF TermInv, Ordered, OneLine, LeaderTerms, Doomed, ReplicatesOwn, Replicates

=============================================================================
