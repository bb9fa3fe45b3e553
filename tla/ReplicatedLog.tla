---------------------------- MODULE ReplicatedLog ----------------------------
(***************************************************************************)
(* What the consensus of one partition promises: one sequence of decided   *)
(* entries that only ever grows, of which every node knows a prefix.  A    *)
(* node learns more of it from the leader and may forget some of it when   *)
(* it restarts, because commit_index is only a hint on disk.               *)
(***************************************************************************)
EXTENDS Integers, Sequences

CONSTANTS Node, Entry

VARIABLES
    decided,    \* the entries whose commitment was reported, in log order
    known       \* the prefix of it each node treats as committed

IsPrefixOf(s, t) == Len(s) <= Len(t) /\ SubSeq(t, 1, Len(s)) = s

Init ==
    /\ decided = <<>>
    /\ known = [n \in Node |-> <<>>]

(* A leader extends the decided entries and knows all of them.             *)
Decide(n) ==
    /\ decided' \in Seq(Entry)
    /\ Len(decided') > Len(decided)
    /\ IsPrefixOf(decided, decided')
    /\ known' = [known EXCEPT ![n] = decided']

(* A node learns that more of the decided entries are committed.           *)
Learn(n) ==
    /\ UNCHANGED decided
    /\ \E k \in Len(known[n]) + 1 .. Len(decided) :
          known' = [known EXCEPT ![n] = SubSeq(decided, 1, k)]

(* A node restarts with an older commit_index.                             *)
Forget(n) ==
    /\ UNCHANGED decided
    /\ \E k \in 0 .. Len(known[n]) - 1 :
          known' = [known EXCEPT ![n] = SubSeq(decided, 1, k)]

Next == \E n \in Node : Decide(n) \/ Learn(n) \/ Forget(n)

Spec == Init /\ [][Next]_<<decided, known>>

=============================================================================
