---------------------------- MODULE MCRaftNode ----------------------------
(* RaftNode on small instances.                                            *)
EXTENDS RaftNode, TLC

(* Voters and commands are interchangeable.                                *)
Symmetry == Permutations(Node) \cup Permutations(Value)

(* The maps of a peer that is not a leader are never read before campaign  *)
(* replaces them; states that differ only there are the same state.        *)
LivePeer(p) ==
    IF p.role = Leader THEN p
    ELSE [p EXCEPT !.next_index = NewPeer.next_index,
                   !.match_index = NewPeer.match_index]

LiveState ==
    <<[n \in Node |-> LivePeer(peer[n])], disk, op, late, crashes, flush_fails,
      elected, tally, chosen>>

(* For the runs that ask nothing about the votes counted.                  *)
UntalliedState ==
    <<[n \in Node |-> LivePeer(peer[n])], disk, op, late, crashes, flush_fails,
      elected, chosen>>

=============================================================================
