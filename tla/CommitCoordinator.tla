------------------------- MODULE CommitCoordinator -------------------------
(* The commit coordinator of a heap host (heap/commit_coordinator.rs):     *)
(* callers admit operations against a budget of byte credits, one worker   *)
(* takes them in cohorts, installs every cohort behind one stable boundary *)
(* of the store and answers.  Callers that wait for credits and the worker *)
(* sleep on the same condition variable.                                   *)
EXTENDS Integers, Sequences, FiniteSets, FiniteSetsExt

CONSTANTS Caller,        \* calls of submit, try_submit_put, try_submit_delete
          Request,       \* what a call may ask for
          CohortEntries, CohortBytes,
          None,
          MaxFail,       \* failures of the store and of the cooker pool
          MaxDirect      \* other mutations of the store

(* A request is its length, its operation id, and whether the call sleeps  *)
(* until it gets credits (submit) or is refused (try_submit).              *)
ASSUME RequestAssumption ==
    \A r \in Request : r.bytes \in Nat \ {0} /\ r.waits \in BOOLEAN

ASSUME CallerAssumption == None \notin Caller /\ None \notin {r.id : r \in Request}

ASSUME AnswerAssumption == None \notin {"ok", "dedup", "error", "full"}

ASSUME CohortAssumption == CohortEntries \in Nat \ {0} /\ CohortBytes \in Nat \ {0}

ASSUME BoundAssumption == MaxFail \in Nat /\ MaxDirect \in Nat

VARIABLES
    request,        \* what every call asks for
    call,           \* where every call is
    answer,         \* what it was told
    queue, queued_bytes, admitted_credit_bytes, shutdown,
    worker,         \* where the worker is
    cohorts,        \* what it took: one cohort, or two
    turn,           \* the cohort it commits or finishes
    outcome,        \* outcomes of committed calls
    chain,          \* operation_reservation_chain, and what is reserved
    next_cook_ticket, cooker_failed,
    cooking,        \* tasks in the cooker pool
    ready,          \* the ordered ready ring
    next_expected,  \* the ring's next ticket
    frames,         \* the active segment: a caller per frame, None if direct
    stable,         \* how many frames crossed the stable boundary
    write_dedup,    \* operation ids with a recorded outcome
    poisoned,       \* awo_writer_poisoned
    fails, directs,
    order           \* history: calls in the order of their admission

callers == <<request, call, answer>>
ledger == <<queue, queued_bytes, admitted_credit_bytes, shutdown>>
cooker == <<next_cook_ticket, cooker_failed, cooking, ready, next_expected>>
store == <<frames, stable, write_dedup, poisoned>>
vars == <<callers, ledger, worker, cohorts, turn, outcome, chain, cooker,
          store, fails, directs, order>>

Min2(a, b) == IF a < b THEN a ELSE b

(* The budget covers two gathered cohorts, each of two cohorts.            *)
GatheredBytes == 2 * CohortBytes
GatheredEntries == 2 * CohortEntries
AdmittedBytes == 2 * GatheredBytes

(* A call larger than the whole budget takes all of it.                    *)
Credit(c) == Min2(request[c].bytes, AdmittedBytes)

BytesOf(asked, cs) == SumFunction([i \in DOMAIN cs |-> asked[cs[i]].bytes])
Bytes(cs) == BytesOf(request, cs)
Credits(cs) == SumFunction([i \in DOMAIN cs |-> Credit(cs[i])])

-----------------------------------------------------------------------------
(* The condition variable.  A sleeper that is notified has left the wait   *)
(* set and takes the lock again later.                                     *)

WorkerAsleep == worker \in {"sleep", "collect", "follow"}

Awake(w) == IF w = "sleep" THEN "lock"
            ELSE IF w = "collect" THEN "fill"
            ELSE IF w = "follow" THEN "refill" ELSE w

Asleep == {c \in Caller : call[c] = "sleep"}

-----------------------------------------------------------------------------
(* Callers.                                                                *)

(* Fault of HasCredits: the credits of the new call are not counted.       *)
AnyCredits(c) == admitted_credit_bytes < AdmittedBytes

HasCredits(c) == admitted_credit_bytes <= AdmittedBytes - Credit(c)

Enters(c) == call[c] \in {"idle", "woken"} /\ ~shutdown

(* Fault of Admit: nobody is notified.                                     *)
AdmitSilently(c) ==
    /\ Enters(c) /\ HasCredits(c)
    /\ admitted_credit_bytes' = admitted_credit_bytes + Credit(c)
    /\ queued_bytes' = queued_bytes + request[c].bytes
    /\ queue' = Append(queue, c)
    /\ call' = [call EXCEPT ![c] = "done"]
    /\ order' = Append(order, c)
    /\ UNCHANGED <<request, answer, shutdown, worker, cohorts, turn, outcome,
                   chain, cooker, store, fails, directs>>

(* admit, when it finds credits.                                           *)
Admit(c) ==
    /\ Enters(c) /\ HasCredits(c)
    /\ admitted_credit_bytes' = admitted_credit_bytes + Credit(c)
    /\ queued_bytes' = queued_bytes + request[c].bytes
    /\ queue' = Append(queue, c)
    /\ call' = [call EXCEPT ![c] = "notify"]
    /\ order' = Append(order, c)
    /\ UNCHANGED <<request, answer, shutdown, worker, cohorts, turn, outcome,
                   chain, cooker, store, fails, directs>>

(* admit, when it finds none: WriteAdmissionFull, or wake.wait.            *)
NoCredits(c) ==
    /\ Enters(c) /\ ~HasCredits(c)
    /\ IF request[c].waits
       THEN call' = [call EXCEPT ![c] = "sleep"] /\ UNCHANGED answer
       ELSE /\ call' = [call EXCEPT ![c] = "done"]
            /\ answer' = [answer EXCEPT ![c] = "full"]
    /\ UNCHANGED <<request, ledger, worker, cohorts, turn, outcome, chain,
                   cooker, store, fails, directs, order>>

(* notify_one, after the lock is released: whoever sleeps, if anyone does. *)
Notify(c) ==
    /\ call[c] = "notify"
    /\ \/ /\ Asleep = {} /\ ~WorkerAsleep
          /\ call' = [call EXCEPT ![c] = "done"] /\ UNCHANGED worker
       \/ /\ WorkerAsleep
          /\ call' = [call EXCEPT ![c] = "done"] /\ worker' = Awake(worker)
       \/ \E d \in Asleep :
             /\ call' = [call EXCEPT ![c] = "done", ![d] = "woken"]
             /\ UNCHANGED worker
    /\ UNCHANGED <<request, answer, ledger, cohorts, turn, outcome, chain,
                   cooker, store, fails, directs, order>>

(* A condition variable may wake a sleeper that nobody notified.           *)
Spurious ==
    /\ \/ /\ WorkerAsleep /\ worker' = Awake(worker) /\ UNCHANGED call
       \/ \E c \in Asleep : call' = [call EXCEPT ![c] = "woken"] /\ UNCHANGED worker
    /\ UNCHANGED <<request, answer, ledger, cohorts, turn, outcome, chain,
                   cooker, store, fails, directs, order>>

(* The last handle is dropped.  Calls borrow it and callbacks own one, so  *)
(* all that were admitted have been answered.                              *)
Drop ==
    /\ ~shutdown
    /\ \A c \in Caller : call[c] # "idle" => call[c] = "done" /\ answer[c] # None
    /\ shutdown' = TRUE
    /\ worker' = Awake(worker)
    /\ UNCHANGED <<callers, queue, queued_bytes, admitted_credit_bytes, cohorts, turn,
                   outcome, chain, cooker, store, fails, directs, order>>

-----------------------------------------------------------------------------
(* The worker collects one cohort, then perhaps a second.                  *)

CollectMore == /\ Len(queue) < CohortEntries
               /\ queued_bytes < CohortBytes
               /\ ~shutdown

(* take_batch: the longest prefix within both bounds, at least one entry.  *)
TakeBatch(q) ==
    LET fits == {n \in 0..Min2(Len(q), CohortEntries) :
                    n > 1 => Bytes(SubSeq(q, 1, n)) \in 0..CohortBytes}
    IN SubSeq(q, 1, Max(fits))

(* Fault of Gather: the bound of one cohort, not of two.                   *)
GatherSmall(first, second) ==
    IF second = <<>> THEN <<first>>
    ELSE IF Bytes(first) + Bytes(second) <= CohortBytes
         THEN <<first \o second>> ELSE <<first, second>>

(* Fault of Gather: the second cohort is put before the first.             *)
GatherReversed(first, second) ==
    IF second = <<>> THEN <<first>> ELSE <<second \o first>>

(* install_batch_pair: two cohorts that fit together become one.           *)
Gather(first, second) ==
    IF second = <<>> THEN <<first>>
    ELSE IF /\ Len(first) + Len(second) <= GatheredEntries
            /\ Bytes(first) + Bytes(second) <= GatheredBytes
         THEN <<first \o second>>
         ELSE <<first, second>>

Taken(taken) ==
    /\ queue' = SubSeq(queue, Len(taken) + 1, Len(queue))
    /\ queued_bytes' = queued_bytes - Bytes(taken)

WorkerElse == <<callers, admitted_credit_bytes, shutdown, outcome, chain,
                cooker, store, fails, directs, order>>

(* Nothing to do.                                                          *)
Idle ==
    /\ worker = "lock" /\ queue = <<>>
    /\ worker' = IF shutdown THEN "stopped" ELSE "sleep"
    /\ UNCHANGED <<WorkerElse, queue, queued_bytes, cohorts, turn>>

(* wait_timeout for more of the first cohort, or of the second.            *)
Collect ==
    /\ CollectMore
    /\ \/ worker \in {"lock", "fill"} /\ queue # <<>> /\ worker' = "collect"
       \/ worker = "refill" /\ worker' = "follow"
    /\ UNCHANGED <<WorkerElse, queue, queued_bytes, cohorts, turn>>

CollectTimesOut ==
    /\ \/ worker = "collect" /\ worker' = "take"
       \/ worker = "follow" /\ worker' = "retake"
    /\ UNCHANGED <<WorkerElse, queue, queued_bytes, cohorts, turn>>

(* The first cohort is taken; when the ledger shows credits of others, the *)
(* worker waits for a second one.                                          *)
TakeFirst ==
    LET first == TakeBatch(queue)
        rest == SubSeq(queue, Len(first) + 1, Len(queue))
        waits == /\ admitted_credit_bytes > Credits(first)
                 /\ Len(rest) < CohortEntries
                 /\ queued_bytes - Bytes(first) < CohortBytes
                 /\ ~shutdown
    IN /\ queue # <<>>
       /\ worker = "take" \/ (worker \in {"lock", "fill"} /\ ~CollectMore)
       /\ IF waits
          THEN /\ worker' = "follow" /\ cohorts' = <<first>>
               /\ Taken(first)
          ELSE LET second == TakeBatch(rest)
               IN /\ worker' = "commit" /\ cohorts' = Gather(first, second)
                  /\ Taken(first \o second)
       /\ turn' = 1
       /\ UNCHANGED WorkerElse

TakeSecond ==
    LET second == TakeBatch(queue)
    IN /\ worker = "retake" \/ (worker = "refill" /\ ~CollectMore)
       /\ worker' = "commit" /\ cohorts' = Gather(cohorts[1], second)
       /\ Taken(second)
       /\ UNCHANGED <<WorkerElse, turn>>

-----------------------------------------------------------------------------
(* commit_batch, for one cohort after the other.  commit_batch_pair does   *)
(* the same: it would reserve the second cohort while the first is not yet *)
(* installed, but only if both have two entries, and then Gather has made  *)
(* one cohort of them (PairHasSingleton).                                  *)

Cohort == cohorts[turn]
Ids(cs) == {request[c].id : c \in Range(cs)}

Failure == fails < MaxFail /\ fails' = fails + 1

(* The cohort has its outcomes: the next one, or the answers.              *)
Committed(outcomes) ==
    /\ outcome' = [c \in Caller |-> IF c \in Range(Cohort) THEN outcomes[c]
                                    ELSE outcome[c]]
    /\ IF turn < Len(cohorts)
       THEN worker' = "commit" /\ turn' = turn + 1
       ELSE worker' = "finish" /\ turn' = 1

AllFailed == [c \in Range(Cohort) |-> "error"]

CommitElse == <<callers, ledger, cohorts, directs, order>>

(* The store is poisoned, fenced by a reservation, or fails before it      *)
(* writes anything.                                                        *)
Refused ==
    /\ worker = "commit"
    /\ IF poisoned \/ chain # <<>> THEN UNCHANGED fails ELSE Failure
    /\ Committed(AllFailed)
    /\ UNCHANGED <<CommitElse, chain, cooker, store>>

(* operation_cohort_awo_owned.  An operation id with a recorded outcome,   *)
(* or that an earlier member of the cohort has, is answered from it;       *)
(* conditions refuse some of the others.                                   *)
Leads(c) ==
    LET place(d) == CHOOSE i \in DOMAIN Cohort : Cohort[i] = d
    IN \A d \in Range(Cohort) : request[d].id = request[c].id => place(c) <= place(d)

(* Fault of CohortOutcome: a cohort's own duplicates are not looked for.   *)
RepeatedOutcome(refused) ==
    [c \in Range(Cohort) |->
        IF request[c].id \in write_dedup THEN "dedup"
        ELSE IF request[c].id \in refused THEN "error" ELSE "ok"]

CohortOutcome(refused) ==
    [c \in Range(Cohort) |->
        IF request[c].id \in write_dedup THEN "dedup"
        ELSE IF request[c].id \in refused THEN "error"
        ELSE IF Leads(c) THEN "ok" ELSE "dedup"]

(* The calls of cs at some indexes, in the order of cs.                    *)
Members(cs, indexes) ==
    LET nth(k) == CHOOSE i \in indexes : Cardinality({j \in indexes : j <= i}) = k
    IN [k \in 1..Cardinality(indexes) |-> cs[nth(k)]]

(* The members of the cohort that are written.                             *)
Written(outcomes) == Members(Cohort, {i \in DOMAIN Cohort : outcomes[Cohort[i]] = "ok"})

(* Fault of CommitSerially: the answers come before the stable boundary.   *)
CommitUnsynced ==
    /\ worker = "commit" /\ ~poisoned /\ chain = <<>>
    /\ \E refused \in SUBSET Ids(Cohort) :
          LET outcomes == CohortOutcome(refused)
          IN /\ frames' = frames \o Written(outcomes)
             /\ write_dedup' = write_dedup \cup Ids(Written(outcomes))
             /\ Committed(outcomes)
    /\ UNCHANGED <<CommitElse, chain, cooker, stable, poisoned, fails>>

CommitSerially ==
    /\ worker = "commit" /\ ~poisoned /\ chain = <<>>
    /\ \E refused \in SUBSET Ids(Cohort) :
          LET outcomes == CohortOutcome(refused)
          IN /\ frames' = frames \o Written(outcomes)
             /\ stable' = IF Written(outcomes) = <<>> THEN stable ELSE Len(frames')
             /\ write_dedup' = write_dedup \cup Ids(Written(outcomes))
             /\ Committed(outcomes)
    /\ UNCHANGED <<CommitElse, chain, cooker, poisoned, fails>>

(* An error that is nobody's request poisons the writer: some frames are   *)
(* in the segment, perhaps stable, and none has a recorded outcome.        *)
CommitBreaks ==
    /\ worker = "commit" /\ ~poisoned /\ chain = <<>>
    /\ Failure
    /\ \E refused \in SUBSET Ids(Cohort) :
          LET written == Written(CohortOutcome(refused))
          IN \E n \in 0..Len(written) :
                /\ written # <<>>
                /\ frames' = frames \o SubSeq(written, 1, n)
                /\ stable' \in IF n = Len(written) THEN {stable, Len(frames')}
                               ELSE {stable}
    /\ poisoned' = TRUE
    /\ Committed(AllFailed)
    /\ UNCHANGED <<CommitElse, chain, cooker, write_dedup>>

(* reserve_operation_put_cohort, for two or more new operations with       *)
(* different ids; the tasks go to the cooker pool.  Deletes, conditions    *)
(* that fail, and large values take CommitSerially instead.                *)
Reserve ==
    /\ worker = "commit" /\ ~cooker_failed /\ ~poisoned /\ chain = <<>>
    /\ Len(Cohort) >= 2 /\ Cardinality(Ids(Cohort)) = Len(Cohort)
    /\ Ids(Cohort) \cap write_dedup = {}
    /\ chain' = <<[checkpoint |-> Len(frames), ticket |-> next_cook_ticket]>>
    /\ next_cook_ticket' = next_cook_ticket + Len(Cohort)
    /\ cooking' = cooking \cup next_cook_ticket..(next_cook_ticket + Len(Cohort) - 1)
    /\ worker' = "cook"
    /\ UNCHANGED <<CommitElse, turn, outcome, cooker_failed, ready, next_expected,
                   store, fails>>

(* A cooker thread encodes the frame of one task, in any order.            *)
Cook(t) ==
    /\ t \in cooking
    /\ cooking' = cooking \ {t}
    /\ \/ ready' = ready \cup {[ticket |-> t, ok |-> TRUE]} /\ UNCHANGED fails
       \/ ready' = ready \cup {[ticket |-> t, ok |-> FALSE]} /\ Failure
    /\ UNCHANGED <<callers, ledger, worker, cohorts, turn, outcome, chain,
                   next_cook_ticket, cooker_failed, next_expected, store, directs,
                   order>>

(* pop_next_until: the next tickets of the ring, strictly in order.        *)
NextCooked ==
    {r \in ready : r.ticket \in next_expected..(next_expected + Len(Cohort) - 1)}

(* Fault of Pop: the outcomes after the first error stay in the ring.      *)
PopToError ==
    LET bad == {r.ticket : r \in {q \in NextCooked : ~q.ok}}
        last == IF bad = {} THEN next_expected + Len(Cohort) - 1 ELSE Min(bad)
    IN /\ worker = "cook"
       /\ Cardinality(NextCooked) = Len(Cohort)
       /\ ready' = {r \in ready : r.ticket > last}
       /\ next_expected' = last + 1

Pop ==
    /\ worker = "cook"
    /\ Cardinality(NextCooked) = Len(Cohort)
    /\ ready' = ready \ NextCooked
    /\ next_expected' = next_expected + Len(Cohort)

PoolElse == <<next_cook_ticket, cooker_failed, cooking>>

(* An encoding failed: abort_operation_put_reservation.                    *)
CookFails ==
    /\ Pop /\ \E r \in NextCooked : ~r.ok
    /\ chain' = <<>>
    /\ Committed(AllFailed)
    /\ UNCHANGED <<CommitElse, PoolElse, store, fails>>

(* Fault of CookTimesOut: the reservation is not aborted.                  *)
CookAbandoned ==
    /\ worker = "cook"
    /\ cooker_failed' = TRUE
    /\ Committed(AllFailed)
    /\ UNCHANGED <<CommitElse, chain, next_cook_ticket, cooking, ready,
                   next_expected, store, fails>>

(* Fault of CookTimesOut: the wait for the cookers has no deadline.        *)
CookUntimed == FALSE

(* The deadline of 30 seconds: the pool is never used again.               *)
CookTimesOut ==
    /\ worker = "cook"
    /\ cooker_failed' = TRUE
    /\ chain' = <<>>
    /\ Committed(AllFailed)
    /\ UNCHANGED <<CommitElse, next_cook_ticket, cooking, ready, next_expected,
                   store, fails>>

Cooked == Pop /\ \A r \in NextCooked : r.ok

(* Fault of ActiveMatches: the checkpoint is not compared.                 *)
AnyActive == chain # <<>>

(* active_matches of install_operation_put_reservation.                    *)
ActiveMatches == Len(frames) = chain[1].checkpoint

(* install_operation_put_reservation.                                      *)
Install ==
    /\ Cooked /\ ActiveMatches
    /\ frames' = frames \o Cohort
    /\ stable' = Len(frames')
    /\ write_dedup' = write_dedup \cup Ids(Cohort)
    /\ chain' = <<>>
    /\ Committed([c \in Range(Cohort) |-> "ok"])
    /\ UNCHANGED <<CommitElse, PoolElse, poisoned, fails>>

(* The segment is not where it was reserved, or an append fails and the    *)
(* segment is put back to the checkpoint.                                  *)
InstallUndone ==
    /\ Cooked
    /\ IF ActiveMatches THEN Failure ELSE UNCHANGED fails
    /\ chain' = <<>>
    /\ Committed(AllFailed)
    /\ UNCHANGED <<CommitElse, PoolElse, store>>

(* The write, the stable boundary or the rotation after it fails.          *)
InstallBreaks ==
    /\ Cooked /\ ActiveMatches
    /\ Failure
    /\ frames' = frames \o Cohort
    /\ stable' \in {stable, Len(frames')}
    /\ poisoned' = TRUE
    /\ chain' = <<>>
    /\ Committed(AllFailed)
    /\ UNCHANGED <<CommitElse, PoolElse, write_dedup>>

-----------------------------------------------------------------------------
(* release_byte_credits with its notify_all, then the answers.             *)

(* Fault of Release: the credits of calls that failed are kept.            *)
ReleaseWritten ==
    /\ worker = "finish"
    /\ admitted_credit_bytes' = admitted_credit_bytes
          - Credits(SelectSeq(Cohort, LAMBDA c : outcome[c] # "error"))
    /\ call' = [c \in Caller |-> IF c \in Asleep THEN "woken" ELSE call[c]]
    /\ worker' = "reply"
    /\ UNCHANGED <<request, answer, queue, queued_bytes, shutdown, cohorts, turn,
                   outcome, chain, cooker, store, fails, directs, order>>

Release ==
    /\ worker = "finish"
    /\ admitted_credit_bytes' = admitted_credit_bytes - Credits(Cohort)
    /\ call' = [c \in Caller |-> IF c \in Asleep THEN "woken" ELSE call[c]]
    /\ worker' = "reply"
    /\ UNCHANGED <<request, answer, queue, queued_bytes, shutdown, cohorts, turn,
                   outcome, chain, cooker, store, fails, directs, order>>

Reply ==
    /\ worker = "reply"
    /\ answer' = [c \in Caller |-> IF c \in Range(Cohort) THEN outcome[c]
                                   ELSE answer[c]]
    /\ IF turn < Len(cohorts)
       THEN worker' = "finish" /\ turn' = turn + 1 /\ UNCHANGED cohorts
       ELSE worker' = "lock" /\ turn' = 1 /\ cohorts' = <<>>
    /\ UNCHANGED <<request, call, ledger, outcome, chain, cooker, store, fails,
                   directs, order>>

-----------------------------------------------------------------------------
(* Other users of the store.                                               *)

(* refuse_direct_mutation_if_awo.                                          *)
DirectAllowed == ~poisoned /\ chain = <<>>

(* A put or delete on the store itself, buffered or durable.               *)
Direct ==
    /\ directs < MaxDirect /\ DirectAllowed
    /\ directs' = directs + 1
    /\ frames' = Append(frames, None)
    /\ stable' \in {stable, Len(frames')}
    /\ UNCHANGED <<callers, ledger, worker, cohorts, turn, outcome, chain,
                   cooker, write_dedup, poisoned, fails, order>>

DirectBreaks ==
    /\ directs < MaxDirect /\ DirectAllowed
    /\ directs' = directs + 1
    /\ Failure
    /\ frames' \in {frames, Append(frames, None)}
    /\ poisoned' = TRUE
    /\ UNCHANGED <<callers, ledger, worker, cohorts, turn, outcome, chain,
                   cooker, stable, write_dedup, order>>

(* An atomic plan decided on the same store; its appends ask neither for   *)
(* reservations nor for poison.                                            *)
Atomic ==
    /\ directs < MaxDirect
    /\ directs' = directs + 1
    /\ frames' = Append(frames, None)
    /\ stable' \in {stable, Len(frames')}
    /\ UNCHANGED <<callers, ledger, worker, cohorts, turn, outcome, chain,
                   cooker, write_dedup, poisoned, fails, order>>

-----------------------------------------------------------------------------
Init ==
    /\ request \in [Caller -> Request]
    /\ call = [c \in Caller |-> "idle"]
    /\ answer = [c \in Caller |-> None]
    /\ queue = <<>> /\ queued_bytes = 0 /\ admitted_credit_bytes = 0
    /\ shutdown = FALSE
    /\ worker = "lock" /\ cohorts = <<>> /\ turn = 1
    /\ outcome = [c \in Caller |-> None]
    /\ chain = <<>>
    /\ next_cook_ticket = 0 /\ cooker_failed = FALSE
    /\ cooking = {} /\ ready = {} /\ next_expected = 0
    /\ frames = <<>> /\ stable = 0 /\ write_dedup = {} /\ poisoned = FALSE
    /\ fails = 0 /\ directs = 0
    /\ order = <<>>

CallerStep(c) == Admit(c) \/ NoCredits(c) \/ Notify(c)

CommitStep == \/ Refused \/ CommitSerially \/ CommitBreaks \/ Reserve
              \/ CookFails \/ CookTimesOut
              \/ Install \/ InstallUndone \/ InstallBreaks

WorkerStep == \/ Idle \/ Collect \/ CollectTimesOut \/ TakeFirst \/ TakeSecond
              \/ CommitStep \/ Release \/ Reply

Next == \/ \E c \in Caller : CallerStep(c)
        \/ WorkerStep
        \/ \E t \in cooking : Cook(t)
        \/ Spurious \/ Drop
        \/ Direct \/ DirectBreaks \/ Atomic

Spec == Init /\ [][Next]_vars

(* A call under way goes on, and so does the worker: its wait for cookers  *)
(* has a deadline, and so has a wait for more of a cohort, however often   *)
(* it is woken.  Clients owe no calls, the condition variable no spurious  *)
(* wake-ups, the cookers no results.                                       *)
FairSpec == /\ Spec
            /\ \A c \in Caller : WF_vars(call[c] # "idle" /\ CallerStep(c))
            /\ WF_vars(WorkerStep) /\ SF_vars(CollectTimesOut)

-----------------------------------------------------------------------------
WorkerPlaces == {"lock", "sleep", "collect", "fill", "take", "follow", "refill",
                 "retake", "commit", "cook", "finish", "reply", "stopped"}

(* Every variable has its type, and the ledger stays within the budget of  *)
(* credits that admit guards.                                              *)
TypeOK ==
    /\ request \in [Caller -> Request]
    /\ call \in [Caller -> {"idle", "sleep", "woken", "notify", "done"}]
    /\ answer \in [Caller -> {"ok", "dedup", "error", "full", None}]
    /\ queue \in Seq(Caller)
    /\ queued_bytes \in Nat /\ admitted_credit_bytes \in 0..AdmittedBytes
    /\ shutdown \in BOOLEAN
    /\ worker \in WorkerPlaces
    /\ cohorts \in Seq(Seq(Caller)) /\ turn \in Nat \ {0}
    /\ outcome \in [Caller -> {"ok", "dedup", "error", None}]
    /\ chain \in Seq([checkpoint : Nat, ticket : Nat]) /\ Len(chain) <= 1
    /\ next_cook_ticket \in Nat /\ cooker_failed \in BOOLEAN
    /\ cooking \subseteq Nat /\ ready \subseteq [ticket : Nat, ok : BOOLEAN]
    /\ next_expected \in Nat
    /\ frames \in Seq(Caller \cup {None}) /\ stable \in 0..Len(frames)
    /\ write_dedup \subseteq {r.id : r \in Request} /\ poisoned \in BOOLEAN
    /\ fails \in 0..MaxFail /\ directs \in 0..MaxDirect
    /\ order \in Seq(Caller)

(* The credits of what the worker took and has not yet released.           *)
HeldCredits ==
    LET from == IF worker = "finish" THEN turn
                ELSE IF worker = "reply" THEN turn + 1 ELSE 1
    IN SumFunction([i \in from..Len(cohorts) |-> Credits(cohorts[i])])

(* The ledger of admit and release_byte_credits is exact: its credits are  *)
(* those of the calls in the queue and of the cohorts not yet installed,   *)
(* so none leaks on any failure path; and queued_bytes is what is queued.  *)
CreditsExact ==
    /\ admitted_credit_bytes = Credits(queue) + HeldCredits
    /\ queued_bytes = Bytes(queue)

(* commit_batch_pair's overlap of a second reservation with the first      *)
(* install needs two cohorts of two or more; install_batch_pair merges     *)
(* those, so one of a pair has a single entry and nothing overlaps.        *)
PairHasSingleton ==
    Len(cohorts) = 2 => Len(cohorts[1]) = 1 \/ Len(cohorts[2]) = 1

Stable == SubSeq(frames, 1, stable)

(* An answered write is behind the stable boundary of the cohort that      *)
(* wrote it; a deduplicated one is the write of an earlier call that is.   *)
AnsweredStable ==
    \A c \in Caller :
        /\ answer[c] = "ok" => c \in Range(Stable)
        /\ answer[c] = "dedup" =>
              \E d \in Range(Stable) \ {None} : request[d].id = request[c].id

(* An operation id is written at most once, whichever cohorts its calls    *)
(* fall in, whatever failed before: operation_cohort_awo_owned and         *)
(* reserve_operation_put_cohort look at what is recorded and at the        *)
(* cohort's own duplicates.                                                *)
WrittenOnce ==
    \A i, j \in DOMAIN frames :
        (frames[i] # None /\ frames[j] # None
            /\ request[frames[i]].id = request[frames[j]].id) => i = j

(* Calls are written in the order in which admit queued them, across       *)
(* cohorts, pairs and the cooker pool.                                     *)
WrittenInOrder ==
    LET place(c) == CHOOSE i \in DOMAIN order : order[i] = c
    IN \A i, j \in DOMAIN frames :
          (i < j /\ frames[i] # None /\ frames[j] # None)
             => place(frames[i]) < place(frames[j])

(* The ring's next ticket is the reservation's first, and nothing of an    *)
(* earlier cohort is left in the ring or the pool: the frames commit_batch *)
(* pops are those of its own cohort.                                       *)
CookedForCohort ==
    worker = "cook" =>
        /\ next_expected = chain[1].ticket
        /\ cooking \cup {r.ticket : r \in ready}
              = chain[1].ticket..(chain[1].ticket + Len(Cohort) - 1)

(* No reservation outlives the commit of its cohort, on any path: one that *)
(* did would refuse every direct mutation and every later cohort.          *)
FenceLifted == (chain # <<>>) <=> (worker = "cook")

(* A reserved cohort lands at the checkpoint it was reserved at, where its *)
(* conditions were evaluated, or not at all.                               *)
InstalledAsReserved ==
    [][(worker = "cook" /\ worker' # "cook" /\ frames' # frames)
          => Len(frames) = chain[1].checkpoint]_vars

(* Work in the queue is seen: when the worker sleeps over a queue that is  *)
(* not empty, an admit is about to notify it.                              *)
WorkSeen ==
    (worker = "sleep" /\ queue # <<>>) => \E c \in Caller : call[c] = "notify"

(* Every call that began is answered.                                      *)
CallsAnswered ==
    \A c \in Caller : (call[c] # "idle") ~> (call[c] = "done" /\ answer[c] # None)

=============================================================================
