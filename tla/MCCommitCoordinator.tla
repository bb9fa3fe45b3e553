------------------------- MODULE MCCommitCoordinator -------------------------
(* CommitCoordinator on small instances.                                   *)
EXTENDS CommitCoordinator, TLC

CONSTANTS Size,       \* lengths of requests
          Id,         \* operation ids
          LargeId,    \* those that a call longer than a cohort may have
          Waits       \* {TRUE}: submit, {FALSE}: try_submit

Requests == {r \in [bytes : Size, id : Id, waits : Waits] :
                r.bytes > CohortBytes => r.id \in LargeId}

(* Calls are interchangeable.                                              *)
Symmetry == Permutations(Caller)

=============================================================================
