--------------------------- MODULE AuthorityStore ---------------------------
(***************************************************************************)
(* The authority files of one heap (residiuum-authority): two head slots,  *)
(* two time-floor slots, their selectors, the anchor that names the        *)
(* committed head, and one event file per revision.  commit_head replaces  *)
(* six files one after the other, each atomically; the process may die     *)
(* between any two of them, or a write may fail, which leaves the same     *)
(* files.  The genesis ceremony commits the first head and then publishes  *)
(* the staged storage descriptor; the data service reloads the head.       *)
(***************************************************************************)
EXTENDS Integers, FiniteSets

CONSTANTS
    AnchorMismatch, \* load_head found no slot that the anchor names
    MaxAttempt,     \* bound: updates begun in a behaviour
    MaxCrash        \* bound: crashes in a behaviour

VARIABLES
    slot,           \* head.a.cbor, head.b.cbor
    time_slot,      \* time-floor.a.cbor, time-floor.b.cbor: whose floor
    anchor,         \* the head whose hash anchor.cbor holds
    current,        \* selector of the head slots
    time_current,   \* selector of the time-floor slots
    events,         \* the head whose event file has each revision
    published,      \* the storage descriptor of the heap is published
    pending,        \* the head the reload request of the data service names
    snapshot,       \* the head resident in the data service
    seen,           \* the anchor the data service read for its reload
    pc,             \* the next file the running ceremony writes
    target,         \* the head it is committing
    inactive,       \* the slots it chose for the head and for the time floor
    attempts,       \* updates begun so far
    crashes,        \* crashes so far
    anchored,       \* history: the heads that were the anchor's
    behind          \* history: the process died between the write of the anchor
                    \* and that of the selector, which was not written since

vars == <<slot, time_slot, anchor, current, time_current, events, published,
          pending, snapshot, seen, pc, target, inactive, attempts, crashes, anchored,
          behind>>
files == <<slot, time_slot, anchor, current, time_current, events, published,
           pending>>
service == <<snapshot, seen>>
bounds == <<attempts, crashes>>
history == <<anchored, behind>>

-----------------------------------------------------------------------------
Slot == {"A", "B"}

Other(s) == IF s = "A" THEN "B" ELSE "A"

(* A head is its file_sequence and what tells two heads of one sequence    *)
(* number apart.  A file that does not exist holds NoHead; a selector that *)
(* does not exist counts as "A".                                           *)
Head == [seq : 0..MaxAttempt + 1, id : 0..MaxAttempt]
NoHead == [seq |-> 0, id |-> 0]
Genesis == [seq |-> 1, id |-> 0]

(* The order of the writes; the last two belong to the genesis only.       *)
Phases == {"event", "slot", "time", "anchor", "current", "time_current",
           "publish", "notify"}

ASSUME MismatchAssumption == AnchorMismatch \notin Head
ASSUME BoundAssumption == MaxAttempt \in Nat /\ MaxCrash \in Nat

(* Fault: the head the selector names is taken without the anchor.         *)
LoadSelected == slot[current]

LoadHead ==
    IF anchor = NoHead THEN NoHead
    ELSE IF \E s \in Slot : slot[s] = anchor THEN anchor
    ELSE AnchorMismatch

(* Fault: the slot in use is written.                                      *)
Active(slots, hint) == hint

(* Fault: the slot with the older head is written, whatever is anchored.   *)
OlderSlot(slots, hint) == IF slots["A"].seq <= slots["B"].seq THEN "A" ELSE "B"

Inactive(slots, hint) == IF slots[hint] = NoHead THEN hint ELSE Other(hint)

-----------------------------------------------------------------------------
(* commit_head                                                             *)

WriteEvent ==
    /\ pc = "event"
    /\ events' = [events EXCEPT ![target.seq] = target]
    /\ pc' = "slot"
    /\ UNCHANGED <<slot, time_slot, anchor, current, time_current, published,
                   pending, service, target, inactive, bounds, history>>

WriteSlot ==
    /\ pc = "slot"
    /\ LET s == Inactive(slot, current)
       IN /\ slot' = [slot EXCEPT ![s] = target]
          /\ inactive' = [inactive EXCEPT !.head = s]
    /\ pc' = "time"
    /\ UNCHANGED <<time_slot, anchor, current, time_current, events, published,
                   pending, service, target, bounds, history>>

WriteTime ==
    /\ pc = "time"
    /\ LET s == Inactive(time_slot, time_current)
       IN /\ time_slot' = [time_slot EXCEPT ![s] = target]
          /\ inactive' = [inactive EXCEPT !.time = s]
    /\ pc' = "anchor"
    /\ UNCHANGED <<slot, anchor, current, time_current, events, published,
                   pending, service, target, bounds, history>>

WriteAnchor ==
    /\ pc = "anchor"
    /\ anchor' = target
    /\ anchored' = anchored \cup {target}
    /\ pc' = "current"
    /\ UNCHANGED <<slot, time_slot, current, time_current, events, published,
                   pending, service, target, inactive, bounds, behind>>

FlipCurrent ==
    /\ pc = "current"
    /\ current' = inactive.head
    /\ behind' = FALSE
    /\ pc' = "time_current"
    /\ UNCHANGED <<slot, time_slot, anchor, time_current, events, published,
                   pending, service, target, inactive, bounds, anchored>>

FlipTimeCurrent ==
    /\ pc = "time_current"
    /\ time_current' = inactive.time
    /\ pc' = IF target = Genesis THEN "publish" ELSE "idle"
    /\ UNCHANGED <<slot, time_slot, anchor, current, events, published,
                   pending, service, target, inactive, bounds, history>>

-----------------------------------------------------------------------------
(* The callers of commit_head, and the data service.                       *)

(* Fault: storage is published although the authority may not be committed. *)
PublishAnyway ==
    /\ pc = "idle"
    /\ ~published
    /\ target' = Genesis
    /\ pc' = "publish"
    /\ UNCHANGED <<files, service, inactive, bounds, history>>

(* commit_prepared_genesis, run by the bootstrap until the heap has a head *)
(* and is published: a head that exists must be the genesis head.          *)
BeginGenesis ==
    /\ pc = "idle"
    /\ ~published
    /\ LoadHead \in {NoHead, Genesis}
    /\ target' = Genesis
    /\ pc' = IF LoadHead = NoHead THEN "event" ELSE "publish"
    /\ UNCHANGED <<files, service, inactive, bounds, history>>

Publish ==
    /\ pc = "publish"
    /\ published' = TRUE
    /\ pc' = "notify"
    /\ UNCHANGED <<slot, time_slot, anchor, current, time_current, events,
                   pending, service, target, inactive, bounds, history>>

Notify ==
    /\ pc = "notify"
    /\ pending' = target
    /\ pc' = "idle"
    /\ UNCHANGED <<slot, time_slot, anchor, current, time_current, events, published,
                   service, target, inactive, bounds, history>>

(* Fault: a sequence number is left out.                                   *)
UpdateSkipsNumbers ==
    /\ pc = "idle"
    /\ published
    /\ attempts < MaxAttempt
    /\ LoadHead \notin {NoHead, AnchorMismatch}
    /\ attempts' = attempts + 1
    /\ target' = [seq |-> LoadHead.seq + 2, id |-> attempts + 1]
    /\ pc' = "event"
    /\ UNCHANGED <<files, service, inactive, crashes, history>>

(* A later change of the authority of a published heap: the loaded head is *)
(* changed, numbered one higher and committed.                             *)
BeginUpdate ==
    /\ pc = "idle"
    /\ published
    /\ attempts < MaxAttempt
    /\ LoadHead \notin {NoHead, AnchorMismatch}
    /\ attempts' = attempts + 1
    /\ target' = [seq |-> LoadHead.seq + 1, id |-> attempts + 1]
    /\ pc' = "event"
    /\ UNCHANGED <<files, service, inactive, crashes, history>>

(* apply_reload_request reads the anchor, then the slots; it is refused    *)
(* unless they hold the head the request names.                            *)
ReadAnchor ==
    /\ pending # NoHead
    /\ anchor # NoHead
    /\ seen' = anchor
    /\ UNCHANGED <<files, snapshot, pc, target, inactive, bounds, history>>

ReadSlots ==
    /\ seen # NoHead
    /\ seen' = NoHead
    /\ \/ /\ seen = pending
          /\ \E s \in Slot : slot[s] = seen
          /\ snapshot' = seen
          /\ pending' = NoHead
       \/ /\ seen # pending \/ \A s \in Slot : slot[s] # seen
          /\ UNCHANGED <<snapshot, pending>>
    /\ UNCHANGED <<slot, time_slot, anchor, current, time_current, events, published,
                   pc, target, inactive, bounds, history>>

Crash ==
    /\ pc \in Phases
    /\ crashes < MaxCrash
    /\ crashes' = crashes + 1
    /\ behind' = (behind \/ pc = "current")
    /\ pc' = "idle"
    /\ UNCHANGED <<files, service, target, inactive, attempts, anchored>>

-----------------------------------------------------------------------------
Init ==
    /\ slot = [s \in Slot |-> NoHead]
    /\ time_slot = [s \in Slot |-> NoHead]
    /\ anchor = NoHead
    /\ current = "A"
    /\ time_current = "A"
    /\ events = [r \in 1..MaxAttempt + 1 |-> NoHead]
    /\ published = FALSE
    /\ pending = NoHead
    /\ snapshot = NoHead
    /\ seen = NoHead
    /\ pc = "idle"
    /\ target = NoHead
    /\ inactive = [head |-> "A", time |-> "A"]
    /\ attempts = 0
    /\ crashes = 0
    /\ anchored = {}
    /\ behind = FALSE

Next ==
    \/ BeginGenesis \/ BeginUpdate
    \/ WriteEvent \/ WriteSlot \/ WriteTime \/ WriteAnchor
    \/ FlipCurrent \/ FlipTimeCurrent
    \/ Publish \/ Notify
    \/ ReadAnchor \/ ReadSlots
    \/ Crash

Spec == Init /\ [][Next]_vars

-----------------------------------------------------------------------------
(* Properties.                                                             *)

(* Files, selectors and the ceremony under way hold values of their kind,  *)
(* and no sequence number outruns the commits attempted.                   *)
TypeOK ==
    /\ slot \in [Slot -> Head]
    /\ time_slot \in [Slot -> Head]
    /\ anchor \in Head
    /\ pending \in Head
    /\ snapshot \in Head
    /\ seen \in Head
    /\ target \in Head
    /\ current \in Slot
    /\ time_current \in Slot
    /\ events \in [1..MaxAttempt + 1 -> Head]
    /\ published \in BOOLEAN
    /\ pc \in Phases \cup {"idle"}
    /\ inactive \in [head : Slot, time : Slot]
    /\ attempts \in 0..MaxAttempt
    /\ crashes \in 0..MaxCrash
    /\ anchored \subseteq Head
    /\ behind \in BOOLEAN

(* A head that was anchored is never shadowed by an older one: whatever    *)
(* load_head returns is the newest head ever anchored, although the        *)
(* selectors may still name the slot before it.                            *)
NewestHeadLoaded ==
    LoadHead # AnchorMismatch => \A h \in anchored : h.seq <= LoadHead.seq

(* The event file of every revision that was anchored is the one committed *)
(* with it: a retry after a crash, which may commit something else under   *)
(* the same revision, never replaces it (commit_head writes events/ first).*)
EventsOfAnchored ==
    \A h \in anchored : events[h.seq] = h

(* The two slots never hold different heads of one sequence number, which  *)
(* detect_slot_fork reports as a fork.                                     *)
NoSlotFork ==
    slot["A"].seq = slot["B"].seq => slot["A"] = slot["B"]

(* The storage of a heap is published only under a committed authority     *)
(* (commit_prepared_genesis: "Crash before the authority selector/anchor   *)
(* commit leaves staged bytes invisible to published catalogs").           *)
PublishedUnderAuthority ==
    published => Genesis \in anchored

(* A head is lost in one way only: the process dies after the anchor's     *)
(* write and before the selector's, and the next commit_head takes the     *)
(* slot the stale selector leaves free, which is the anchored one.         *)
LostOnlyBehind ==
    LoadHead = AnchorMismatch => behind

(* The anchored head can always be loaded, also in the middle of a commit  *)
(* (commit_head: "crash after this still recovers via anchor hash match"). *)
HeadRecoverable ==
    LoadHead # AnchorMismatch

=============================================================================
