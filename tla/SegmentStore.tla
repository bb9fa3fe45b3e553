---------------------------- MODULE SegmentStore ----------------------------
(* One writer's segment store: the allocator of segment ids, the active      *)
(* segment and its rotation, the primary index with its checkpoint on disk,  *)
(* and compaction with its job records, from opening to orderly close, with  *)
(* a crash before any write.                                                 *)
(*                                                                           *)
(* Segments are named by the sequence number in their id.  A segment is the  *)
(* sequence of its item events; frames, hashes and summaries are left out.   *)
(* The store has one writer shard, the asynchronous life cycle, materialized *)
(* recovery, the hot tier only and durable writes, so that the durable index *)
(* and the visible one are the same.                                         *)
EXTENDS Integers, Sequences, FiniteSets, FiniteSetsExt

CONSTANTS
    Key,         \* subjects
    Value,       \* bodies of puts
    Gone,        \* a subject that is absent or deleted
    Lease,       \* SEGMENT_ID_LEASE
    Radix,       \* file names order ids by their lowest byte first: 256
    MaxWrite,    \* bound on the puts and deletes
    MaxJob,      \* bound on the compactions
    MaxStop,     \* bound on the ends of the process, orderly or not
    MaxFail      \* bound on the I/O errors the process survives and on the
                 \* losses of the allocator's file, together

ASSUME KeyAssumption == IsFiniteSet(Key)
ASSUME LeaseAssumption == Lease \in Nat \ {0}
ASSUME GoneAssumption == Gone \notin Value

VARIABLES
    \* On disk.
    sealed,      \* ids of the segments published under segments/
    pending,     \* ids of the rotated segments that are not published yet
    active,      \* id of the active segment, 0 if there is no such file
    events,      \* the item events of every segment ever created
    durable,     \* reserved_thru of segment_seq.v1, 0 if there is no such file
    cache,       \* the index checkpoint
    jobs,        \* the compaction job records
    \* In memory.
    pc,          \* where the writer's thread is
    index,       \* PrimaryIndex
    dirty,       \* derived_ops_since_checkpoint # 0
    issued,      \* segment_seq
    reserved,    \* segment_seq_reserved_thru
    job,         \* the job in hand, 0 if none
    \* History.
    truth,       \* what the last acknowledged write of every key left
    minted,      \* the ids handed out, in order
    shadowed,    \* keys written to a segment older than one that holds them
    unsure,      \* keys of the index that a replay may have left stale
    cached,      \* what unsure was when the checkpoint was written
    writes, stops, fails, lost

disk == <<sealed, pending, active, events, durable, cache, jobs>>
memory == <<pc, index, dirty, issued, reserved, job>>
doubts == <<shadowed, unsure, cached>>
counts == <<writes, stops, fails, lost>>
vars == <<disk, memory, truth, minted, doubts, counts>>

Content == Value \cup {Gone}
Event == [key : Key, val : Content]
Entry == [val : Content, at : Nat]
Phase == {"planned", "created", "verified", "activated", "hold",
          "reclaimed", "cancelled", "failed"}
Files == sealed \cup pending \cup ({active} \ {0})

-----------------------------------------------------------------------------
(* Replaying segments into an index. *)

(* The sequences that hold every element of U once. *)
Orders(U) == Bijection(1 .. Cardinality(U), U)

(* The places after `from` where a segment has an event of k. *)
Places(s, from, k) == {i \in from + 1 .. Len(events[s]) : events[s][i].key = k}

(* An index without entries. *)
Nothing == [k \in Key |-> [val |-> Gone, at |-> 0]]

(* apply_event for all events of the segments S, in the order of rank: the   *)
(* last one of a key stands.  start[s] is how much of s is covered already.  *)
Replay(ix, S, rank, start) ==
    [k \in Key |->
        LET held == {s \in S : Places(s, start[s], k) # {}}
            s    == CHOOSE s \in held : \A t \in held : rank[t] <= rank[s]
        IN  IF held = {} THEN ix[k]
            ELSE [val |-> events[s][Max(Places(s, start[s], k))].val, at |-> s]]

MintOrder == [s \in DOMAIN events |-> s]
Whole == [s \in DOMAIN events |-> 0]

(* index_and_chunk_locators_from_segments: all events in mint order. *)
Rebuilt(S) == Replay(Nothing, S, MintOrder, Whole)

Live(ix) == {k \in Key : ix[k].val # Gone}

(* A live entry can be read when the segment it points to is there. *)
Resolves(k) == index[k].val # Gone => index[k].at \in Files

-----------------------------------------------------------------------------
(* The checkpoint of the index. *)

(* persist_index_cache, with the frontier of current_index_frontier: a store *)
(* that is still opening has no writer and does not know the active id.      *)
Checkpoint(ix, S, id) ==
    [sealed |-> S, active |-> id, index |-> ix, bound |-> TRUE,
     len    |-> IF active = 0 THEN 0 ELSE Len(events[active])]

(* A checkpoint whose sidecar of sealed segments belongs to an older one. *)
Unbound(c) == [c EXCEPT !.bound = FALSE]

(* Fault: the checkpoint is used whatever is sealed since. *)
CacheAlways(S) == active # 0 /\ Len(events[active]) >= cache.len

(* try_load_index_from_cache: the sealed segments are those of the checkpoint.*)
CacheHit(S) ==
    cache.sealed = S /\ active # 0 /\ Len(events[active]) >= cache.len

(* try_replay_sealed_checkpoint_suffix: they are more than those. *)
CacheSuffix(S) == cache.sealed # S /\ cache.bound /\ cache.sealed \subseteq S

Covered == [s \in DOMAIN events |-> IF s = cache.active THEN cache.len ELSE 0]

(* The segments that a suffix replay applies in the order of a hash map, the *)
(* active one after them, and the keys for which that order matters.         *)
Uncovered(S) == S \ cache.sealed
AnyOrder(U) == {Append(o, active) : o \in Orders(U)}
Scrambled(S) ==
    LET holders(k) == {s \in Uncovered(S) : Places(s, Covered[s], k) # {}}
        last(s, k) == events[s][Max(Places(s, Covered[s], k))].val
    IN  {k \in Key : \/ Cardinality({last(s, k) : s \in holders(k)}) > 1
                     \/ \E s \in holders(k) : s < cache.active}

-----------------------------------------------------------------------------
(* Segment ids. *)

Exhausted == issued >= reserved

(* next_segment_id_from_lease, first half: a new lease is on disk before an  *)
(* id of it is handed out.                                                   *)
ExtendLease ==
    /\ pc \in {"rotate", "compact", "closing", "resume", "plan"}
    /\ Exhausted
    /\ durable' = issued + Lease
    /\ reserved' = issued + Lease
    /\ UNCHANGED <<sealed, pending, active, events, cache, jobs, pc, index,
                   dirty, issued, job, truth, minted, doubts, counts>>

(* The second half. *)
Mint ==
    /\ ~Exhausted
    /\ issued' = issued + 1
    /\ minted' = Append(minted, issued + 1)

(* Where the thread goes on when it has its new active segment. *)
After(p) ==
    IF p = "rotate" THEN "idle"
    ELSE IF p = "compact" THEN "plan"
    ELSE IF p = "closing" THEN "close"
    ELSE "recover"

(* start_active_segment: a fresh id and an empty file. *)
NewActive ==
    /\ pc \in {"rotate", "compact", "closing", "resume"}
    /\ Mint
    /\ active' = issued + 1
    /\ events' = [s \in DOMAIN events \cup {issued + 1} |->
                     IF s = issued + 1 THEN <<>> ELSE events[s]]
    /\ pc' = After(pc)
    /\ UNCHANGED <<sealed, pending, durable, cache, jobs, index, dirty,
                   reserved, job, truth, doubts, counts>>

-----------------------------------------------------------------------------
(* Writing, rotating, sealing. *)

(* write_event: a put or a delete is on disk, then in the index. *)
Write(k, v) ==
    /\ pc = "idle" /\ writes < MaxWrite
    /\ events' = [events EXCEPT ![active] = Append(@, [key |-> k, val |-> v])]
    /\ index' = [index EXCEPT ![k] = [val |-> v, at |-> active]]
    /\ dirty' = TRUE
    /\ truth' = [truth EXCEPT ![k] = v]
    /\ shadowed' = IF \E s \in Files : s > active /\ Places(s, 0, k) # {}
                   THEN shadowed \cup {k} ELSE shadowed \ {k}
    /\ unsure' = unsure \ {k}
    /\ writes' = writes + 1
    /\ UNCHANGED <<sealed, pending, active, durable, cache, jobs, pc, issued,
                   reserved, job, minted, cached, stops, fails, lost>>

(* rotate_active_async moves the active segment aside for the worker, which  *)
(* hears of it when the next one is there.                                   *)
Detach == pending' = pending \cup {active} /\ active' = 0

Rotate ==
    /\ pc = "idle" /\ events[active] # <<>>
    /\ Detach
    /\ pc' = "rotate"
    /\ UNCHANGED <<sealed, events, durable, cache, jobs, index, dirty, issued,
                   reserved, job, truth, minted, doubts, counts>>

(* The worker publishes a pending segment (FinalizeSealMeta). *)
Publish(s) ==
    /\ pc # "down" /\ s \in pending
    /\ pc \in {"rotate", "closing"} => \E t \in pending : s < t
    /\ sealed' = sealed \cup {s}
    /\ pending' = pending \ {s}
    /\ UNCHANGED <<active, events, durable, cache, jobs, memory, truth, minted,
                   doubts, counts>>

(* seal_active: wait for the worker, publish the active segment. *)
SealActive ==
    /\ pending = {}
    /\ sealed' = sealed \cup {active}
    /\ active' = 0

(* prepare_orderly_close: a written active segment is rotated, and once the  *)
(* worker is through the checkpoint is written if any write came after the   *)
(* last one.                                                                 *)
BeginClose ==
    /\ pc = "idle" /\ stops < MaxStop
    /\ IF events[active] # <<>>
       THEN Detach /\ pc' = "closing"
       ELSE pc' = "close" /\ UNCHANGED <<pending, active>>
    /\ UNCHANGED <<sealed, events, durable, cache, jobs, index, dirty, issued,
                   reserved, job, truth, minted, doubts, counts>>

Forget ==
    /\ pc' = "down" /\ index' = Nothing /\ dirty' = FALSE
    /\ issued' = 0 /\ reserved' = 0 /\ job' = 0
    /\ unsure' = {}

Close ==
    /\ pc = "close" /\ pending = {}
    /\ cache' = IF dirty THEN Checkpoint(index, sealed, active) ELSE cache
    /\ cached' = IF dirty THEN unsure ELSE cached
    /\ Forget
    /\ stops' = stops + 1
    /\ UNCHANGED <<sealed, pending, active, events, durable, jobs, truth,
                   minted, shadowed, writes, fails, lost>>

(* rebuild_index, as an operator calls it. *)
RebuildIndex ==
    /\ pc = "idle"
    /\ index' = Rebuilt(Files)
    /\ cache' = Checkpoint(Rebuilt(Files), sealed, active)
    /\ dirty' = FALSE
    /\ unsure' = shadowed /\ cached' = shadowed
    /\ pc' = "rebuilt"
    /\ UNCHANGED <<sealed, pending, active, events, durable, jobs, issued,
                   reserved, job, truth, minted, shadowed, counts>>

Return ==
    /\ pc = "rebuilt"
    /\ pc' = "idle"
    /\ UNCHANGED <<disk, index, dirty, issued, reserved, job, truth, minted,
                   doubts, counts>>

-----------------------------------------------------------------------------
(* Compaction. *)

Now == jobs[job]
Unsettled(j) == jobs[j].phase \in {"planned", "created", "verified"}
Goes(phase) == jobs' = [jobs EXCEPT ![job].phase = phase]

(* compact_live_with, up to seal_active. *)
Compact ==
    /\ pc = "idle" /\ Len(jobs) < MaxJob
    /\ SealActive
    /\ pc' = "compact"
    /\ UNCHANGED <<pending, events, durable, cache, jobs, index, dirty, issued,
                   reserved, job, truth, minted, doubts, counts>>

(* The plan: the sources are what is sealed now, the output gets the next id.*)
Plan(loss, reclaim) ==
    /\ pc = "plan" /\ (reclaim => loss)
    /\ Mint
    /\ jobs' = Append(jobs, [phase |-> "planned", out |-> issued + 1,
                             sources |-> sealed, loss |-> loss,
                             reclaim |-> reclaim,
                             count |-> Cardinality(Live(index))])
    /\ job' = Len(jobs) + 1
    /\ pc' = "create"
    /\ UNCHANGED <<sealed, pending, active, events, durable, cache, index,
                   dirty, reserved, truth, doubts, counts>>

(* write_live_segment: one put of every live key.  It fails, and the job     *)
(* with it, if a body cannot be read.                                        *)
Create ==
    /\ pc = "create"
    /\ IF \A k \in Key : Resolves(k)
       THEN /\ events' = [s \in DOMAIN events \cup {Now.out} |->
                  IF s # Now.out THEN events[s]
                  ELSE CHOOSE puts \in Orders({[key |-> k, val |-> index[k].val] :
                                                   k \in Live(index)}) : TRUE]
            /\ sealed' = sealed \cup {Now.out}
            /\ shadowed' = shadowed \cup unsure
            /\ pc' = "created"
            /\ UNCHANGED <<jobs, job>>
       ELSE /\ Goes("failed")
            /\ job' = 0 /\ pc' = "idle"
            /\ UNCHANGED <<events, sealed, shadowed>>
    /\ UNCHANGED <<pending, active, durable, cache, index, dirty, issued,
                   reserved, truth, minted, unsure, cached, counts>>

(* verify_live_segment: every live key is in the output, with the same body. *)
Verifies(j) ==
    LET out == Rebuilt({jobs[j].out})
    IN  /\ jobs[j].out \in sealed
        /\ Cardinality(Live(out)) = jobs[j].count
        /\ \A k \in Live(index) : Resolves(k) /\ out[k].val = index[k].val

RecordCreated ==
    /\ pc = "created"
    /\ Goes("created")
    /\ pc' = "verify"
    /\ UNCHANGED <<sealed, pending, active, events, durable, cache, index,
                   dirty, issued, reserved, job, truth, minted, doubts, counts>>

RecordVerified ==
    /\ pc \in {"verify", "reverify"}
    /\ LET back == IF pc = "verify" THEN "idle" ELSE "recover"
           on   == IF pc = "verify" THEN "activate" ELSE "reactivate"
       IN  IF Verifies(job) THEN Goes("verified") /\ pc' = on /\ job' = job
           ELSE Goes("failed") /\ pc' = back /\ job' = 0
    /\ UNCHANGED <<sealed, pending, active, events, durable, cache, index,
                   dirty, issued, reserved, truth, minted, doubts, counts>>

(* The index checkpoint names the output among its sealed segments... *)
Register ==
    /\ pc \in {"activate", "reactivate"}
    /\ cache' = Checkpoint(index, sealed, active)
    /\ dirty' = FALSE
    /\ cached' = unsure
    /\ pc' = IF pc = "activate" THEN "activating" ELSE "reactivating"
    /\ UNCHANGED <<sealed, pending, active, events, durable, jobs, index,
                   issued, reserved, job, truth, minted, shadowed, unsure,
                   counts>>

(* ...and the job is recorded as active. *)
Activate ==
    /\ pc \in {"activating", "reactivating"}
    /\ Goes("activated")
    /\ pc' = IF pc = "reactivating" THEN "recover"
             ELSE IF Now.reclaim THEN "hold" ELSE "idle"
    /\ job' = IF pc' = "hold" THEN job ELSE 0
    /\ UNCHANGED <<sealed, pending, active, events, durable, cache, index,
                   dirty, issued, reserved, truth, minted, doubts, counts>>

Hold ==
    /\ pc = "hold"
    /\ Goes("hold")
    /\ pc' = "reclaim"
    /\ UNCHANGED <<sealed, pending, active, events, durable, cache, index,
                   dirty, issued, reserved, job, truth, minted, doubts, counts>>

(* reclaim_compact_job: an operator reclaims the sources of an active job. *)
Reclaim(j) ==
    /\ pc = "idle"
    /\ jobs[j].loss /\ jobs[j].phase \in {"activated", "hold"}
    /\ jobs' = [jobs EXCEPT ![j].phase = "hold"]
    /\ job' = j
    /\ pc' = "reclaim"
    /\ UNCHANGED <<sealed, pending, active, events, durable, cache, index,
                   dirty, issued, reserved, truth, minted, doubts, counts>>

Sources == (Now.sources \cap sealed) \ {Now.out}

(* Fault: the newest source is deleted first. *)
NewestFirst(s, t) == s >= t

(* File names are ids in hexadecimal, lowest byte first. *)
NameBefore(s, t) ==
    s % Radix < t % Radix \/ (s % Radix = t % Radix /\ s <= t)

(* reclaim_source_segments deletes the sources in the order of their names. *)
DeleteSource ==
    /\ pc = "reclaim"
    /\ \E s \in Sources : /\ \A t \in Sources : NameBefore(s, t)
                          /\ sealed' = sealed \ {s}
    /\ UNCHANGED <<pending, active, events, durable, cache, jobs, memory,
                   truth, minted, doubts, counts>>

(* Fault: the index keeps its locators. *)
RebindNothing ==
    /\ pc = "reclaim" /\ Sources = {}
    /\ cache' = Checkpoint(index, sealed, active)
    /\ dirty' = FALSE
    /\ cached' = unsure
    /\ pc' = "reclaimed"
    /\ UNCHANGED <<sealed, pending, active, events, durable, jobs, index,
                   issued, reserved, job, truth, minted, shadowed, unsure,
                   counts>>

(* The rest of reclaim_compact_job_inner: a rebuilt index, a checkpoint... *)
Rebind ==
    /\ pc = "reclaim" /\ Sources = {}
    /\ index' = Rebuilt(Files)
    /\ cache' = Checkpoint(Rebuilt(Files), sealed, active)
    /\ dirty' = FALSE
    /\ unsure' = shadowed /\ cached' = shadowed
    /\ pc' = "reclaimed"
    /\ UNCHANGED <<sealed, pending, active, events, durable, jobs, issued,
                   reserved, job, truth, minted, shadowed, counts>>

(* ...and the record. *)
EndReclaim ==
    /\ pc = "reclaimed"
    /\ Goes("reclaimed")
    /\ job' = 0 /\ pc' = "idle"
    /\ UNCHANGED <<sealed, pending, active, events, durable, cache, index,
                   dirty, issued, reserved, truth, minted, doubts, counts>>

(* cancel_compact_job: the output of a job that is not active is removed. *)
Cancel(j) ==
    /\ pc = "idle" /\ Unsettled(j)
    /\ sealed' = sealed \ {jobs[j].out}
    /\ jobs' = [jobs EXCEPT ![j].phase = "cancelled"]
    /\ UNCHANGED <<pending, active, events, durable, cache, memory, truth,
                   minted, doubts, counts>>

(* An I/O error leaves the job where its last record says. *)
Fail ==
    /\ pc \in {"created", "verify", "activating", "hold", "reclaim", "reclaimed"}
    /\ fails + lost < MaxFail
    /\ fails' = fails + 1
    /\ job' = 0 /\ pc' = "idle"
    /\ UNCHANGED <<disk, index, dirty, issued, reserved, truth, minted, doubts,
                   writes, stops, lost>>

-----------------------------------------------------------------------------
(* Opening. *)

(* recover_all_pending, then load_or_rebuild_index.  A checkpoint that is    *)
(* not just loaded is written again at once.                                 *)
LoadIndex ==
    /\ pc = "down"
    /\ pending' = {}
    /\ LET now   == sealed \cup pending
           fresh(from) == {k \in Key : active # 0 /\ Places(active, from, k) # {}}
       IN  /\ sealed' = now
           /\ \/ /\ CacheHit(now)
                 /\ index' = Replay(cache.index, {active}, MintOrder,
                                    [s \in DOMAIN events |-> cache.len])
                 /\ unsure' = cached \ fresh(cache.len)
                 /\ pc' = "loaded"
                 /\ UNCHANGED <<cache, cached>>
              \/ /\ CacheSuffix(now)
                 /\ \E order \in AnyOrder(Uncovered(now)) :
                       index' = Replay(cache.index, Files \ cache.sealed,
                                       AntiFunction(order), Covered)
                 /\ unsure' = (cached \cup Scrambled(now))
                               \ fresh(IF active = cache.active THEN cache.len ELSE 0)
                 /\ pc' = "healed"
                 /\ cache' = Checkpoint(index', now, 0)
                 /\ cached' = unsure'
              \/ /\ ~CacheHit(now) /\ ~CacheSuffix(now)
                 /\ index' = Rebuilt(Files)
                 /\ unsure' = shadowed
                 /\ pc' = "healed"
                 /\ cache' = Checkpoint(index', now, 0)
                 /\ cached' = unsure'
    /\ UNCHANGED <<active, events, durable, jobs, dirty, issued, reserved, job,
                   truth, minted, shadowed, counts>>

(* Faults: the ids on media alone, the allocator's file alone. *)
ReconstructFromMedia ==
    /\ pc \in {"loaded", "healed"}
    /\ \E top \in {0} \cup Range(minted) :
          /\ \A s \in Files : s <= top
          /\ durable' = top
    /\ issued' = durable' /\ reserved' = durable'
    /\ pc' = IF active = 0 THEN "resume" ELSE "recover"
    /\ UNCHANGED <<sealed, pending, active, events, cache, jobs, index, dirty,
                   job, truth, minted, doubts, counts>>

ReconstructFromFile ==
    /\ pc \in {"loaded", "healed"}
    /\ issued' = durable /\ reserved' = durable
    /\ pc' = IF active = 0 THEN "resume" ELSE "recover"
    /\ UNCHANGED <<disk, index, dirty, job, truth, minted, doubts, counts>>

(* reconstruct_reserved_thru: no id below the file's or below any on media.  *)
(* Side files of removed segments may still show their ids.                  *)
Reconstruct ==
    /\ pc \in {"loaded", "healed"}
    /\ \E top \in {0} \cup Range(minted) :
          /\ \A s \in Files : s <= top
          /\ durable' = IF durable < top THEN top ELSE durable
    /\ issued' = durable' /\ reserved' = durable'
    /\ pc' = IF active = 0 THEN "resume" ELSE "recover"
    /\ UNCHANGED <<sealed, pending, active, events, cache, jobs, index, dirty,
                   job, truth, minted, doubts, counts>>

(* recover_compact_jobs: a planned job is cancelled and its output removed,  *)
(* one whose output is recorded is finished.                                 *)
Recover(j) ==
    /\ pc = "recover" /\ Unsettled(j)
    /\ \/ /\ jobs[j].phase = "planned"
          /\ sealed' = sealed \ {jobs[j].out}
          /\ jobs' = [jobs EXCEPT ![j].phase = "cancelled"]
          /\ UNCHANGED <<pc, job>>
       \/ /\ jobs[j].phase # "planned"
          /\ job' = j
          /\ pc' = IF jobs[j].phase = "created" THEN "reverify" ELSE "reactivate"
          /\ UNCHANGED <<sealed, jobs>>
    /\ UNCHANGED <<pending, active, events, durable, cache, index, dirty,
                   issued, reserved, truth, minted, doubts, counts>>

Opened ==
    /\ pc = "recover" /\ \A j \in DOMAIN jobs : ~Unsettled(j)
    /\ pc' = "idle"
    /\ UNCHANGED <<disk, index, dirty, issued, reserved, job, truth, minted,
                   doubts, counts>>

-----------------------------------------------------------------------------
(* Faults. *)

(* The process dies.  Between the two files of a checkpoint, the new one is  *)
(* left with the older list of sealed segments.                              *)
Crash ==
    /\ pc # "down" /\ stops < MaxStop
    /\ stops' = stops + 1
    /\ \/ UNCHANGED <<cache, cached>>
       \/ /\ pc \in {"healed", "activating", "reactivating", "reclaimed",
                     "rebuilt"}
          /\ cache' = Unbound(cache)
          /\ UNCHANGED cached
       \/ /\ pc = "close" /\ pending = {} /\ dirty
          /\ cache' = Unbound(Checkpoint(index, sealed, active))
          /\ cached' = unsure
    /\ Forget
    /\ UNCHANGED <<sealed, pending, active, events, durable, jobs, truth,
                   minted, shadowed, writes, fails, lost>>

(* segment_seq.v1 is missing or unreadable. *)
LoseSeqFile ==
    /\ pc = "down" /\ fails + lost < MaxFail
    /\ durable' = 0 /\ lost' = lost + 1
    /\ UNCHANGED <<sealed, pending, active, events, cache, jobs, memory, truth,
                   minted, doubts, writes, stops, fails>>

-----------------------------------------------------------------------------
(* create: an active segment of the first lease and a checkpoint of it. *)
Init ==
    /\ sealed = {} /\ pending = {} /\ active = 1
    /\ events = [s \in {1} |-> <<>>]
    /\ durable = Lease
    /\ cache = [sealed |-> {}, active |-> 1, index |-> Nothing, bound |-> TRUE,
                len |-> 0]
    /\ jobs = <<>>
    /\ pc = "idle" /\ index = Nothing /\ dirty = FALSE
    /\ issued = 1 /\ reserved = Lease /\ job = 0
    /\ truth = [k \in Key |-> Gone]
    /\ minted = <<1>>
    /\ shadowed = {} /\ unsure = {} /\ cached = {}
    /\ writes = 0 /\ stops = 0 /\ fails = 0 /\ lost = 0

Next ==
    \/ \E k \in Key, v \in Content : Write(k, v)
    \/ Rotate
    \/ \E s \in pending : Publish(s)
    \/ BeginClose
    \/ Close
    \/ RebuildIndex
    \/ Return
    \/ ExtendLease
    \/ NewActive
    \/ Compact
    \/ \E loss, reclaim \in BOOLEAN : Plan(loss, reclaim)
    \/ Create
    \/ RecordCreated
    \/ RecordVerified
    \/ Register
    \/ Activate
    \/ Hold
    \/ \E j \in DOMAIN jobs : Reclaim(j)
    \/ DeleteSource
    \/ Rebind
    \/ EndReclaim
    \/ \E j \in DOMAIN jobs : Cancel(j)
    \/ Fail
    \/ LoadIndex
    \/ Reconstruct
    \/ \E j \in DOMAIN jobs : Recover(j)
    \/ Opened
    \/ Crash
    \/ LoseSeqFile

Spec == Init /\ [][Next]_vars

-----------------------------------------------------------------------------
Pcs == {"idle", "rotate", "compact", "closing", "close", "rebuilt", "plan", "create",
        "created", "verify", "activate", "activating", "hold", "reclaim",
        "reclaimed", "down", "loaded", "healed", "resume", "recover",
        "reverify", "reactivate", "reactivating"}

(* The types of the state. *)
TypeOK ==
    /\ sealed \subseteq DOMAIN events /\ pending \subseteq DOMAIN events
    /\ active \in DOMAIN events \cup {0}
    /\ DOMAIN events \subseteq Nat \ {0}
    /\ \A s \in DOMAIN events : events[s] \in Seq(Event)
    /\ durable \in Nat /\ issued \in Nat /\ reserved \in Nat
    /\ cache \in [sealed : SUBSET DOMAIN events, active : Nat, len : Nat,
                  index : [Key -> Entry], bound : BOOLEAN]
    /\ jobs \in Seq([phase : Phase, out : Nat, sources : SUBSET DOMAIN events,
                     loss : BOOLEAN, reclaim : BOOLEAN, count : Nat])
    /\ pc \in Pcs
    /\ index \in [Key -> Entry]
    /\ dirty \in BOOLEAN
    /\ job \in DOMAIN jobs \cup {0}
    /\ truth \in [Key -> Content]
    /\ minted \in Seq(Nat)
    /\ shadowed \subseteq Key /\ unsure \subseteq Key /\ cached \subseteq Key

(* next_segment_id_from_lease and reconstruct_reserved_thru never hand out   *)
(* an id twice, over any crashes, as long as segment_seq.v1 is not lost.     *)
NeverReused ==
    lost = 0 => \A i, j \in DOMAIN minted : i < j => minted[i] < minted[j]

(* Even when it is lost, the ids of the segments on media are behind the     *)
(* allocator of an open store: write_live_segment and start_active_segment   *)
(* truncate a file of the same name, so the next id must be that of no file. *)
FreshIds ==
    pc \notin {"down", "loaded", "healed"} => \A s \in Files : s <= issued

(* At any moment, a crash in the middle of a compaction or a reclaim         *)
(* included, the segments on media rebuild to the last write of every key;   *)
(* excepted are keys written to an active segment that is older than a       *)
(* compaction's output which holds them.                                     *)
MediaLatest ==
    \A k \in Key \ shadowed : Rebuilt(Files)[k].val = truth[k]

(* The index of an open store, loaded from a checkpoint, from a checkpoint   *)
(* and the segments after it, or rebuilt, has the last write of every key;   *)
(* excepted are keys that a rebuild or a replay out of order left in doubt.  *)
IndexLatest ==
    pc # "down" => \A k \in Key \ unsure : index[k].val = truth[k]

(* resolve_live_value_body finds the segment of a live entry, unless that    *)
(* was the output of a job that was cancelled, or is a source of a job whose *)
(* reclaim stopped half-way.                                                 *)
EntriesResolve ==
    pc = "idle" => \A k \in Key :
        \/ Resolves(k)
        \/ \E j \in DOMAIN jobs :
              \/ jobs[j].phase = "cancelled" /\ index[k].at = jobs[j].out
              \/ jobs[j].phase = "hold" /\ index[k].at \in jobs[j].sources

(* "Live index still valid; rebuild so segment pointers prefer survivors":   *)
(* the rebuild at the end of reclaim_compact_job_inner moves locators and    *)
(* changes no value.                                                         *)
ReclaimKeepsValues ==
    [][Rebind => \A k \in Key : index'[k].val = index[k].val]_vars
=============================================================================
