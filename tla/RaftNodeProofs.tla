--------------------------- MODULE RaftNodeProofs ---------------------------
(***************************************************************************)
(* Theorems about RaftNode, for any finite set of voters, any commands and *)
(* any bounds.                                                             *)
(***************************************************************************)
EXTENDS RaftStepProofs, RaftCommitProofs, FiniteSetTheorems, WellFoundedInduction

-----------------------------------------------------------------------------
(* Numbers and majorities.                                                 *)

(* A bounded set of indices has a greatest one: what MergeEntries and      *)
(* AdvanceCommit choose exists.                                            *)
LEMMA BoundedMax ==
    ASSUME NEW b \in Nat, NEW S, S \subseteq 0..b, S # {}
    PROVE  Max(S) \in S /\ \A y \in S : Max(S) >= y
<1> DEFINE R == OpToRel(<, Nat)
           T == {b - x : x \in S}
<1>1. IsWellFoundedOn(R, Nat)
  BY NatLessThanWellFounded, Zenon
<1>2. T \subseteq Nat /\ T # {}
  <2>1. \A x \in S : x \in Int /\ b - x \in Nat
    OBVIOUS
  <2>2. T \subseteq Nat
    BY <2>1, Zenon
  <2>3. PICK x \in S : TRUE
    BY Zenon
  <2>4. b - x \in T
    BY Zenon
  <2> QED BY <2>2, <2>4, Zenon
<1>3. PICK t \in T : \A u \in T : ~(<<u, t>> \in R)
  <2> HIDE DEF R, T
  <2> QED BY <1>1, <1>2, WFMin, Zenon
<1>4. \A u \in T : ~(u < t)
  BY <1>2, <1>3, Zenon DEF OpToRel
<1>5. PICK x \in S : t = b - x
  BY Zenon
<1>6. \A y \in S : x >= y
  <2> SUFFICES ASSUME NEW y \in S PROVE x >= y
    BY Zenon
  <2>1. ~(b - y < b - x)
    BY <1>4, <1>5, Zenon
  <2> QED BY <2>1
<1> QED
  BY <1>6, Zenon DEF Max

(* Two majorities of the voters have a voter in common.                    *)
LEMMA MajoritiesMeet ==
    ASSUME NEW A \in Quorums, NEW B \in Quorums
    PROVE  A \cap B # {}
<1> USE DEF Quorums
<1>1. Cardinality(Node) \in Nat
  BY NodeAssumption, FS_CardinalityType, Zenon
<1>2. /\ IsFiniteSet(A) /\ IsFiniteSet(B)
      /\ Cardinality(A) \in Nat /\ Cardinality(B) \in Nat
  BY NodeAssumption, FS_Subset, FS_CardinalityType, Zenon
<1>3. Cardinality(A) + Cardinality(B) > Cardinality(Node)
  BY <1>1, <1>2 DEF Quorum
<1> QED
  BY <1>3, NodeAssumption, FS_MajoritiesIntersect, Zenon

LEMMA SetFactsHold == SetFacts
  BY BoundedMax, MajoritiesMeet, Zenon DEF SetFacts

(* In every state the network consensus of a partition can reach, peers,   *)
(* files, operations and requests are well formed, for any voters and      *)
(* bounds.                                                                 *)
THEOREM TypeCorrect == Spec => []TypeOK
<1>1. TypeOK /\ [Next]_vars => TypeOK'
  BY TypeStep, SetFactsHold, Zenon
<1> QED BY <1>1, InitType, PTL DEF Spec

-----------------------------------------------------------------------------
(* Elections.                                                              *)

(* Counted votes, candidates, leaders and requests under way stay          *)
(* consistent, for any set of voters, through lost, late and repeated      *)
(* calls, failing flushes and restarts.                                    *)
THEOREM ElectionInvariant == Spec => []ElectionInv
<1>1. Init => TypeOK /\ ElectionInv
  BY InitType, InitElects, Zenon
<1>2. TypeOK /\ ElectionInv /\ [Next]_vars => (TypeOK /\ ElectionInv)'
  BY TypeStep, SetFactsHold, ElectionStep, Zenon
<1> QED BY <1>1, <1>2, PTL DEF Spec

(* campaign and handle_request_vote never elect two leaders of one term.   *)
THEOREM OneLeaderPerTerm == Spec => []ElectionSafety
<1>1. TypeOK /\ ElectionInv => ElectionSafety
  BY OneWinner, SetFactsHold, Zenon
<1> QED BY <1>1, TypeCorrect, ElectionInvariant, PTL

-----------------------------------------------------------------------------
(* Logs.                                                                   *)

LEMMA LogStep == TypeOK /\ ElectionInv /\ LogInv /\ [Next]_vars => LogInv'
<1> SUFFICES ASSUME TypeOK, ElectionInv, LogInv, [Next]_vars PROVE LogInv'
  BY Zenon
<1>1. TypeOK'
  BY TypeStep, SetFactsHold, Zenon
<1>2. CASE Moves
  BY <1>1, <1>2, MovesKeepLogs, SetFactsHold, Zenon
<1>3. ASSUME NEW n \in Node, NEW c \in Value, NEW f \in FlushResult, Propose(n, c, f)
      PROVE  LogInv'
  <2>1. PICK G : Proposes(n, G, f)
    BY <1>3, ProposeProposes, Zenon
  <2> QED BY <1>1, <2>1, ProposeKeepsLogs, SetFactsHold, Zenon
<1> QED BY <1>1, <1>2, <1>3, StepMoves, SetFactsHold, Zenon

(* Every log in memory and on disk, and every log a request under way      *)
(* carries, was written by the one leader of its last term, prefix by      *)
(* prefix: across failed flushes, whose residue on the leader's disk is    *)
(* the exception LogInv spells out, and restarts.                          *)
THEOREM LogInvariant == Spec => []LogInv
<1>1. Init => TypeOK /\ ElectionInv /\ LogInv
  BY InitType, InitElects, InitLogs, Zenon
<1>2. TypeOK /\ ElectionInv /\ LogInv /\ [Next]_vars => (TypeOK /\ ElectionInv /\ LogInv)'
  BY TypeStep, SetFactsHold, ElectionStep, LogStep, Zenon
<1> QED BY <1>1, <1>2, PTL DEF Spec

(* append_entries, propose and the roll-back of a proposal whose flush     *)
(* failed keep the logs matching: two logs, in memory or on disk, that     *)
(* hold an entry of the same term at the same index are equal up to it.    *)
THEOREM LogsMatch == Spec => []LogMatching
<1>1. TypeOK /\ LogInv => LogMatching
  <2> SUFFICES ASSUME TypeOK, LogInv, NEW a \in Logs, NEW b \in Logs,
                      NEW i \in DOMAIN a \cap DOMAIN b, a[i].term = b[i].term
               PROVE  SubSeq(a, 1, i) = SubSeq(b, 1, i)
    BY Zenon DEF LogMatching
  <2>1. Kept(a) /\ Kept(b)
    BY Zenon DEF Logs, LogInv, NodeLogs, Usable
  <2>2. a \in Seq(LogEntry) /\ b \in Seq(LogEntry) /\ Len(a) \in Nat /\ Len(b) \in Nat
    BY <2>1, KeptType, Zenon DEF LogInv
  <2>3. i \in Nat /\ 1 <= i /\ i <= Len(a) /\ i <= Len(b)
    BY <2>2, LogLength
  <2> QED BY <2>1, <2>3, KeptMatch, Zenon DEF LogInv
<1> QED BY <1>1, TypeCorrect, LogInvariant, PTL

-----------------------------------------------------------------------------
(* Terms and commitment.                                                   *)

LEMMA TermStep == TypeOK /\ ElectionInv /\ LogInv /\ TermInv /\ [Next]_vars => TermInv'
<1> SUFFICES ASSUME TypeOK, ElectionInv, LogInv, TermInv, [Next]_vars PROVE TermInv'
  BY Zenon
<1>1. TypeOK' /\ ElectionInv'
  BY TypeStep, ElectionStep, SetFactsHold, Zenon
<1>2. CASE Moves
  BY <1>1, <1>2, MovesKeepTerms, SetFactsHold, Zenon
<1>3. ASSUME NEW n \in Node, NEW c \in Value, NEW f \in FlushResult, Propose(n, c, f)
      PROVE  TermInv'
  <2>1. PICK G : Proposes(n, G, f) /\ Len(G) <= MaxLog
    BY <1>3, ProposeProposes
  <2> QED BY <1>1, <2>1, ProposeKeepsTerms, SetFactsHold, Zenon
<1> QED BY <1>1, <1>2, <1>3, StepMoves, SetFactsHold, Zenon

(* The terms of every log grow along it and none is above the term of the  *)
(* leader that writes it, although a follower that votes again after a     *)
(* restart may have an entry of a later term in its files: whoever it      *)
(* votes for can no longer win.                                            *)
THEOREM TermInvariant == Spec => []TermInv
<1>1. Init => TermInv
  BY InitTerms
<1>2. TypeOK /\ ElectionInv /\ LogInv /\ TermInv /\ [Next]_vars => TermInv'
  BY TermStep
<1> QED BY <1>1, <1>2, TypeCorrect, ElectionInvariant, LogInvariant, PTL DEF Spec

LEMMA CommitStep ==
    ASSUME MaxLog <= MaxBatch
    PROVE  /\ TypeOK /\ ElectionInv /\ LogInv /\ TermInv /\ AckInv /\ CommitInv
           /\ [Next]_vars
           => /\ AckInv' /\ CommitInv'
              /\ Consensus!Next \/ (chosen' = chosen /\ KnownLogs' = KnownLogs)
<1> SUFFICES ASSUME TypeOK, ElectionInv, LogInv, TermInv, AckInv, CommitInv, [Next]_vars
             PROVE  /\ AckInv' /\ CommitInv'
                    /\ Consensus!Next \/ (chosen' = chosen /\ KnownLogs' = KnownLogs)
  BY Zenon
<1>1. TypeOK' /\ ElectionInv' /\ LogInv'
  BY TypeStep, ElectionStep, LogStep, SetFactsHold
<1>2. CASE Moves
  <2>1. AckInv'
    BY <1>1, <1>2, AllWhole, AckMoves, SetFactsHold, Zenon
  <2>2. CommitInv'
    BY <1>1, <1>2, MovesKeepCommits, SetFactsHold, Zenon
  <2> QED BY <1>1, <1>2, <2>1, <2>2, MovesRefine, SetFactsHold, Zenon
<1>3. ASSUME NEW n \in Node, NEW c \in Value, NEW f \in FlushResult, Propose(n, c, f)
      PROVE  /\ AckInv' /\ CommitInv'
             /\ Consensus!Next \/ (chosen' = chosen /\ KnownLogs' = KnownLogs)
  <2>1. PICK G : Proposes(n, G, f)
    BY <1>3, ProposeProposes, Zenon
  <2>2. AckInv'
    BY <1>1, <2>1, AckProposes, SetFactsHold, Zenon
  <2>3. CommitInv'
    BY <2>1, ProposeKeepsCommits, Zenon
  <2> QED BY <1>1, <2>1, <2>2, <2>3, ProposeRefines, Zenon
<1> QED BY <1>1, <1>2, <1>3, StepMoves, SetFactsHold, Zenon

(* What a leader counts as acknowledged in its own term is on the disks of *)
(* those it counted, or a majority has already left that term; what was    *)
(* committed is on a majority of disks and in the log of every later       *)
(* leader; and no request and no commit index tells a node that more is    *)
(* committed.  The hypothesis says that a log fits in one AppendEntries:   *)
(* a follower answers a shorter batch with the length of its whole log,    *)
(* and the leader counts entries that it never compared.                   *)
THEOREM CommitInvariant ==
    ASSUME MaxLog <= MaxBatch
    PROVE  Spec => [](AckInv /\ CommitInv)
<1>1. Init => AckInv /\ CommitInv
  BY InitCommits, Zenon
<1>2. /\ TypeOK /\ ElectionInv /\ LogInv /\ TermInv /\ AckInv /\ CommitInv
      /\ [Next]_vars
      => AckInv' /\ CommitInv'
  BY CommitStep, Zenon
<1> QED
  BY <1>1, <1>2, TypeCorrect, ElectionInvariant, LogInvariant, TermInvariant, PTL DEF Spec

(* advance_commit reports only entries that a majority has flushed, and    *)
(* neither a restart, a late request nor a new leader removes them.        *)
THEOREM ChosenStaysOnDisk ==
    ASSUME MaxLog <= MaxBatch
    PROVE  Spec => []ChosenOnQuorumDisk
<1>1. TypeOK /\ LogInv /\ CommitInv => ChosenOnQuorumDisk
  <2> SUFFICES ASSUME TypeOK, LogInv, CommitInv, NEW i \in DOMAIN chosen
               PROVE  Cardinality({n \in Node : /\ i \in DOMAIN disk[n].log
                                                /\ disk[n].log[i] = chosen[i]}) >= Quorum
    BY Zenon DEF ChosenOnQuorumDisk
  <2> DEFINE S == {n \in Node : i \in DOMAIN disk[n].log /\ disk[n].log[i] = chosen[i]}
  <2>1. PICK Q \in Quorums : \A v \in Q : i \in DOMAIN disk[v].log /\ disk[v].log[i] = chosen[i]
    BY ChosenOnDisks, Zenon
  <2>2. Q \subseteq S /\ S \subseteq Node /\ Cardinality(Q) >= Quorum
    BY <2>1, Zenon DEF Quorums
  <2> HIDE DEF S
  <2>3. IsFiniteSet(S) /\ Cardinality(Q) <= Cardinality(S)
    BY <2>2, NodeAssumption, FS_Subset, Zenon
  <2>4. Cardinality(Q) \in Nat /\ Cardinality(S) \in Nat /\ Quorum \in Int
    BY <2>2, <2>3, NodeAssumption, FS_Subset, FS_CardinalityType DEF Quorum
  <2> QED BY <2>2, <2>3, <2>4 DEF S
<1> QED BY <1>1, TypeCorrect, LogInvariant, CommitInvariant, PTL

(* Nodes never disagree on a committed entry: what commit_index covers on  *)
(* any node is a prefix of what leaders reported committed.                *)
THEOREM CommittedPrefixes ==
    ASSUME MaxLog <= MaxBatch
    PROVE  Spec => []CommittedPrefix
<1>1. TypeOK /\ LogInv /\ CommitInv => CommittedPrefix
  BY CommittedHere, Zenon
<1> QED BY <1>1, TypeCorrect, LogInvariant, CommitInvariant, PTL

(* The vote restriction of handle_request_vote gives the newest leader     *)
(* every committed entry.                                                  *)
THEOREM LeadersComplete ==
    ASSUME MaxLog <= MaxBatch
    PROVE  Spec => []LeaderCompleteness
<1>1. TypeOK /\ LogInv /\ CommitInv => LeaderCompleteness
  BY LeaderHasChosen
<1> QED BY <1>1, TypeCorrect, LogInvariant, CommitInvariant, PTL

(* The nodes of a partition behave as one log that only grows and of which *)
(* every node knows a prefix: advance_commit decides, append_entries       *)
(* learns, a restart may forget, and every other step changes nothing.     *)
THEOREM RaftImplementsLog ==
    ASSUME MaxLog <= MaxBatch
    PROVE  Spec => ImplementsReplicatedLog
<1>1. Init => Consensus!Init
  BY InitRefines, Zenon
<1>2. /\ TypeOK /\ ElectionInv /\ LogInv /\ TermInv /\ AckInv /\ CommitInv
      /\ [Next]_vars
      => [Consensus!Next]_<<chosen, KnownLogs>>
  BY CommitStep, Zenon
<1>3. Spec => Consensus!Init /\ [][Consensus!Next]_<<chosen, KnownLogs>>
  BY <1>1, <1>2, TypeCorrect, ElectionInvariant, LogInvariant, TermInvariant,
     CommitInvariant, PTL DEF Spec
<1> QED BY <1>3, PTL DEF ImplementsReplicatedLog, Consensus!Spec, KnownLogs

=============================================================================
