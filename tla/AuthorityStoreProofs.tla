------------------------ MODULE AuthorityStoreProofs ------------------------
(***************************************************************************)
(* Proofs about AuthorityStore, for any number of updates and crashes.     *)
(***************************************************************************)
EXTENDS AuthorityStore, TLAPS

(* What the files and the ceremony have in common at every step: commits   *)
(* are numbered one after the other, an event file is written before the   *)
(* anchor names its head and only for a number not anchored yet, and the   *)
(* selected slot is never ahead of the anchor.                             *)
CommitInv ==
    /\ anchor # NoHead => anchor \in anchored
    /\ anchor = NoHead => anchored = {}
    /\ \A h \in anchored : h.seq \in 1..anchor.seq /\ events[h.seq] = h
    /\ pc \in {"event", "slot", "time", "anchor"} =>
          /\ target.seq = anchor.seq + 1
          /\ target.seq <= attempts + 1
          /\ anchor = NoHead => target = Genesis
    /\ pc \in {"slot", "time", "anchor"} => events[target.seq] = target
    /\ pc \in {"current", "time_current"} => target = anchor
    /\ pc \in {"publish", "notify"} \/ published => Genesis \in anchored
    /\ anchor.seq <= attempts + 1
    /\ anchor.seq = 0 => anchor = NoHead

(* Where the head being committed and the one before it are.               *)
SlotInv ==
    /\ anchor = NoHead => \A s \in Slot : slot[s] \in {NoHead, Genesis}
    /\ anchor # NoHead \/ pc \in {"time", "anchor"} => slot[current] # NoHead
    /\ anchor # NoHead => slot[current].seq <= anchor.seq
    /\ pc \in {"time", "anchor", "current"} => slot[inactive.head] = target
    /\ NoSlotFork

(* The selector names the anchored slot except between the writes of the   *)
(* two, and after a crash there.                                           *)
SelectorInv ==
    ~behind /\ anchor # NoHead =>
        slot[current] = anchor \/ pc = "current"

Inv == TypeOK /\ CommitInv /\ SlotInv /\ SelectorInv

-----------------------------------------------------------------------------
(* load_head returns the anchored head whenever it returns a head.         *)
LEMMA LoadedIsAnchored ==
    ASSUME TypeOK, LoadHead # AnchorMismatch
    PROVE  LoadHead = anchor
BY DEF LoadHead

(* Sequence numbers of heads, so that the steps below need not look inside *)
(* the records.                                                            *)
LEMMA HeadFacts ==
    /\ NoHead \in Head /\ Genesis \in Head
    /\ NoHead.seq = 0 /\ Genesis.seq = 1
    /\ \A h \in Head : h.seq \in Nat /\ h.seq <= MaxAttempt + 1
BY BoundAssumption DEF Head, NoHead, Genesis

(* The commit protocol starts from an empty directory.                     *)
LEMMA InitInv == Init => Inv
<1> SUFFICES ASSUME Init PROVE Inv
  OBVIOUS
<1>1. TypeOK
  <2>1. slot \in [Slot -> Head] /\ time_slot \in [Slot -> Head]
    BY HeadFacts DEF Init
  <2>2. events \in [1..MaxAttempt + 1 -> Head] /\ anchored \subseteq Head
    BY HeadFacts DEF Init
  <2>3. inactive \in [head : Slot, time : Slot]
    BY DEF Init, Slot
  <2>4. attempts \in 0..MaxAttempt /\ crashes \in 0..MaxCrash
    BY BoundAssumption DEF Init
  <2>5. pc \in Phases \cup {"idle"} /\ published \in BOOLEAN /\ behind \in BOOLEAN
    BY Zenon DEF Init
  <2>6. current \in Slot /\ time_current \in Slot
    BY DEF Init, Slot
  <2>7. {anchor, pending, snapshot, seen, target} \subseteq Head
    BY HeadFacts DEF Init
  <2> QED
    BY <2>1, <2>2, <2>3, <2>4, <2>5, <2>6, <2>7 DEF TypeOK
<1>2. CommitInv /\ SlotInv /\ SelectorInv
  BY HeadFacts, BoundAssumption DEF Init, CommitInv, SlotInv, SelectorInv, NoSlotFork, Slot
<1> QED
  BY <1>1, <1>2 DEF Inv

(* Every step of the ceremonies, of the data service and of a crash keeps  *)
(* the invariant.                                                          *)
LEMMA StepInv == Inv /\ [Next]_vars => Inv'
<1> SUFFICES ASSUME Inv, [Next]_vars PROVE Inv'
  OBVIOUS
<1> USE HeadFacts, BoundAssumption, MismatchAssumption
<1>1. CASE BeginGenesis
  <2>1. TypeOK'
    BY <1>1, LoadedIsAnchored DEF Inv, TypeOK, CommitInv, LoadHead, BeginGenesis, files, service, bounds, history, Slot, Phases, Inactive, Other
  <2>2. CommitInv'
    BY <1>1, LoadedIsAnchored DEF Inv, TypeOK, CommitInv, LoadHead, BeginGenesis, files, service, bounds, history, Slot, Phases
  <2>3. SlotInv'
    BY <1>1 DEF Inv, TypeOK, CommitInv, SlotInv, NoSlotFork, BeginGenesis, files, service, bounds, history, Slot, Phases, Inactive, Other
  <2>4. SelectorInv'
    BY <1>1 DEF Inv, TypeOK, CommitInv, SlotInv, SelectorInv, BeginGenesis, files, service, bounds, history, Slot, Phases, Inactive, Other
  <2> QED
    BY <2>1, <2>2, <2>3, <2>4 DEF Inv
<1>2. CASE BeginUpdate
  <2>1. TypeOK'
    <3>1. LoadHead = anchor /\ anchor.seq \in Nat /\ anchor.seq <= attempts + 1
      BY <1>2, LoadedIsAnchored DEF Inv, TypeOK, CommitInv, BeginUpdate
    <3>2. attempts' \in 0..MaxAttempt /\ attempts \in Nat /\ attempts < MaxAttempt
      BY <1>2 DEF Inv, TypeOK, BeginUpdate
    <3>3. target' \in Head
      BY <1>2, <3>1, <3>2 DEF BeginUpdate, Head
    <3> QED
      BY <1>2, <3>2, <3>3 DEF Inv, TypeOK, BeginUpdate, files, service, history, Phases
  <2>2. CommitInv'
    BY <1>2, LoadedIsAnchored DEF Inv, TypeOK, CommitInv, LoadHead, BeginUpdate, files, service, bounds, history, Slot, Phases
  <2>3. SlotInv'
    BY <1>2 DEF Inv, TypeOK, CommitInv, SlotInv, NoSlotFork, BeginUpdate, files, service, bounds, history, Slot, Phases, Inactive, Other
  <2>4. SelectorInv'
    BY <1>2 DEF Inv, TypeOK, CommitInv, SlotInv, SelectorInv, BeginUpdate, files, service, bounds, history, Slot, Phases, Inactive, Other
  <2> QED
    BY <2>1, <2>2, <2>3, <2>4 DEF Inv
<1>3. CASE WriteEvent
  <2>1. TypeOK'
    BY <1>3, LoadedIsAnchored DEF Inv, TypeOK, CommitInv, WriteEvent, files, service, bounds, history, Slot, Phases, Inactive, Other
  <2>2. CommitInv'
    BY <1>3, LoadedIsAnchored DEF Inv, TypeOK, CommitInv, WriteEvent, files, service, bounds, history, Slot, Phases
  <2>3. SlotInv'
    BY <1>3 DEF Inv, TypeOK, CommitInv, SlotInv, NoSlotFork, WriteEvent, files, service, bounds, history, Slot, Phases, Inactive, Other
  <2>4. SelectorInv'
    BY <1>3 DEF Inv, TypeOK, CommitInv, SlotInv, SelectorInv, WriteEvent, files, service, bounds, history, Slot, Phases, Inactive, Other
  <2> QED
    BY <2>1, <2>2, <2>3, <2>4 DEF Inv
<1>4. CASE WriteSlot
  <2>1. TypeOK'
    BY <1>4, LoadedIsAnchored, Zenon DEF Inv, TypeOK, CommitInv, WriteSlot, files, service, bounds, history, Slot, Phases, Inactive, Other
  <2>2. CommitInv'
    BY <1>4, LoadedIsAnchored DEF Inv, TypeOK, CommitInv, WriteSlot, files, service, bounds, history, Slot, Phases
  <2>3. SlotInv'
    <3> DEFINE s == Inactive(slot, current)
    <3>1. /\ s \in Slot /\ slot' = [slot EXCEPT ![s] = target]
          /\ inactive'.head = s
          /\ UNCHANGED <<anchor, current, target>> /\ pc = "slot" /\ pc' = "time"
      BY <1>4 DEF Inv, TypeOK, WriteSlot, Inactive, Other, Slot
    <3>2. CASE anchor = NoHead
      <4>1. target = Genesis /\ \A x \in Slot : slot[x] \in {NoHead, Genesis}
        BY <3>1, <3>2 DEF Inv, CommitInv, SlotInv
      <4>2. slot'[s] = Genesis /\ \A x \in Slot : slot'[x] \in {NoHead, Genesis}
        BY <3>1, <4>1 DEF Inv, TypeOK
      <4>3. slot'[current] # NoHead
        BY <3>1, <4>1, <4>2 DEF Inv, TypeOK, Inactive, Other, Slot
      <4>4. NoSlotFork'
        BY <4>2 DEF NoSlotFork, Slot
      <4> QED
        BY <3>1, <3>2, <4>1, <4>2, <4>3, <4>4 DEF SlotInv
    <3>3. CASE anchor # NoHead
      <4>1. /\ slot[current] # NoHead /\ slot[current].seq <= anchor.seq
            /\ target.seq = anchor.seq + 1 /\ anchor.seq \in Nat
            /\ slot[current].seq \in Nat
        BY <3>1, <3>3 DEF Inv, TypeOK, CommitInv, SlotInv
      <4>2. s = Other(current) /\ s # current
        BY <4>1 DEF Inv, TypeOK, Inactive, Other, Slot
      <4>3. slot'[s] = target /\ slot'[current] = slot[current]
        BY <3>1, <4>2 DEF Inv, TypeOK
      <4>4. NoSlotFork'
        BY <4>1, <4>2, <4>3 DEF Inv, TypeOK, NoSlotFork, Slot, Other
      <4> HIDE DEF s
      <4> QED
        BY <3>1, <3>3, <4>1, <4>3, <4>4 DEF SlotInv
    <3> QED
      BY <3>2, <3>3
  <2>4. SelectorInv'
    BY <1>4 DEF Inv, TypeOK, CommitInv, SlotInv, SelectorInv, WriteSlot, files, service, bounds, history, Slot, Phases, Inactive, Other
  <2> QED
    BY <2>1, <2>2, <2>3, <2>4 DEF Inv
<1>5. CASE WriteTime
  <2>1. TypeOK'
    BY <1>5, LoadedIsAnchored, Zenon DEF Inv, TypeOK, CommitInv, WriteTime, files, service, bounds, history, Slot, Phases, Inactive, Other
  <2>2. CommitInv'
    BY <1>5, LoadedIsAnchored DEF Inv, TypeOK, CommitInv, WriteTime, files, service, bounds, history, Slot, Phases
  <2>3. SlotInv'
    BY <1>5 DEF Inv, TypeOK, CommitInv, SlotInv, NoSlotFork, WriteTime, files, service, bounds, history, Slot, Phases, Inactive, Other
  <2>4. SelectorInv'
    BY <1>5 DEF Inv, TypeOK, CommitInv, SlotInv, SelectorInv, WriteTime, files, service, bounds, history, Slot, Phases, Inactive, Other
  <2> QED
    BY <2>1, <2>2, <2>3, <2>4 DEF Inv
<1>6. CASE WriteAnchor
  <2>1. TypeOK'
    BY <1>6, LoadedIsAnchored DEF Inv, TypeOK, CommitInv, WriteAnchor, files, service, bounds, history, Slot, Phases, Inactive, Other
  <2>2. CommitInv'
    BY <1>6, LoadedIsAnchored DEF Inv, TypeOK, CommitInv, WriteAnchor, files, service, bounds, history, Slot, Phases
  <2>3. SlotInv'
    BY <1>6 DEF Inv, TypeOK, CommitInv, SlotInv, NoSlotFork, WriteAnchor, files, service, bounds, history, Slot, Phases, Inactive, Other
  <2>4. SelectorInv'
    BY <1>6 DEF Inv, TypeOK, CommitInv, SlotInv, SelectorInv, WriteAnchor, files, service, bounds, history, Slot, Phases, Inactive, Other
  <2> QED
    BY <2>1, <2>2, <2>3, <2>4 DEF Inv
<1>7. CASE FlipCurrent
  <2>1. TypeOK'
    BY <1>7, LoadedIsAnchored, Zenon DEF Inv, TypeOK, CommitInv, FlipCurrent, files, service, bounds, history, Slot, Phases, Inactive, Other
  <2>2. CommitInv'
    BY <1>7, LoadedIsAnchored DEF Inv, TypeOK, CommitInv, FlipCurrent, files, service, bounds, history, Slot, Phases
  <2>3. SlotInv'
    BY <1>7 DEF Inv, TypeOK, CommitInv, SlotInv, NoSlotFork, FlipCurrent, files, service, bounds, history, Slot, Phases, Inactive, Other
  <2>4. SelectorInv'
    BY <1>7 DEF Inv, TypeOK, CommitInv, SlotInv, SelectorInv, FlipCurrent, files, service, bounds, history, Slot, Phases, Inactive, Other
  <2> QED
    BY <2>1, <2>2, <2>3, <2>4 DEF Inv
<1>8. CASE FlipTimeCurrent
  <2>1. TypeOK'
    BY <1>8, LoadedIsAnchored DEF Inv, TypeOK, CommitInv, FlipTimeCurrent, files, service, bounds, history, Slot, Phases, Inactive, Other
  <2>2. CommitInv'
    BY <1>8, LoadedIsAnchored DEF Inv, TypeOK, CommitInv, FlipTimeCurrent, files, service, bounds, history, Slot, Phases
  <2>3. SlotInv'
    BY <1>8 DEF Inv, TypeOK, CommitInv, SlotInv, NoSlotFork, FlipTimeCurrent, files, service, bounds, history, Slot, Phases, Inactive, Other
  <2>4. SelectorInv'
    BY <1>8 DEF Inv, TypeOK, CommitInv, SlotInv, SelectorInv, FlipTimeCurrent, files, service, bounds, history, Slot, Phases, Inactive, Other
  <2> QED
    BY <2>1, <2>2, <2>3, <2>4 DEF Inv
<1>9. CASE Publish
  <2>1. TypeOK'
    BY <1>9, LoadedIsAnchored DEF Inv, TypeOK, CommitInv, Publish, files, service, bounds, history, Slot, Phases, Inactive, Other
  <2>2. CommitInv'
    BY <1>9, LoadedIsAnchored DEF Inv, TypeOK, CommitInv, Publish, files, service, bounds, history, Slot, Phases
  <2>3. SlotInv'
    BY <1>9 DEF Inv, TypeOK, CommitInv, SlotInv, NoSlotFork, Publish, files, service, bounds, history, Slot, Phases, Inactive, Other
  <2>4. SelectorInv'
    BY <1>9 DEF Inv, TypeOK, CommitInv, SlotInv, SelectorInv, Publish, files, service, bounds, history, Slot, Phases, Inactive, Other
  <2> QED
    BY <2>1, <2>2, <2>3, <2>4 DEF Inv
<1>10. CASE Notify
  <2>1. TypeOK'
    BY <1>10, LoadedIsAnchored DEF Inv, TypeOK, CommitInv, Notify, files, service, bounds, history, Slot, Phases, Inactive, Other
  <2>2. CommitInv'
    BY <1>10, LoadedIsAnchored DEF Inv, TypeOK, CommitInv, Notify, files, service, bounds, history, Slot, Phases
  <2>3. SlotInv'
    BY <1>10 DEF Inv, TypeOK, CommitInv, SlotInv, NoSlotFork, Notify, files, service, bounds, history, Slot, Phases, Inactive, Other
  <2>4. SelectorInv'
    BY <1>10 DEF Inv, TypeOK, CommitInv, SlotInv, SelectorInv, Notify, files, service, bounds, history, Slot, Phases, Inactive, Other
  <2> QED
    BY <2>1, <2>2, <2>3, <2>4 DEF Inv
<1>11. CASE ReadAnchor
  <2>1. TypeOK'
    BY <1>11, LoadedIsAnchored DEF Inv, TypeOK, CommitInv, ReadAnchor, files, service, bounds, history, Slot, Phases, Inactive, Other
  <2>2. CommitInv'
    BY <1>11, LoadedIsAnchored DEF Inv, TypeOK, CommitInv, ReadAnchor, files, service, bounds, history, Slot, Phases
  <2>3. SlotInv'
    BY <1>11 DEF Inv, TypeOK, CommitInv, SlotInv, NoSlotFork, ReadAnchor, files, service, bounds, history, Slot, Phases, Inactive, Other
  <2>4. SelectorInv'
    BY <1>11 DEF Inv, TypeOK, CommitInv, SlotInv, SelectorInv, ReadAnchor, files, service, bounds, history, Slot, Phases, Inactive, Other
  <2> QED
    BY <2>1, <2>2, <2>3, <2>4 DEF Inv
<1>12. CASE ReadSlots
  <2>1. TypeOK'
    BY <1>12, LoadedIsAnchored DEF Inv, TypeOK, CommitInv, ReadSlots, files, service, bounds, history, Slot, Phases, Inactive, Other
  <2>2. CommitInv'
    BY <1>12, LoadedIsAnchored DEF Inv, TypeOK, CommitInv, ReadSlots, files, service, bounds, history, Slot, Phases
  <2>3. SlotInv'
    BY <1>12 DEF Inv, TypeOK, CommitInv, SlotInv, NoSlotFork, ReadSlots, files, service, bounds, history, Slot, Phases, Inactive, Other
  <2>4. SelectorInv'
    BY <1>12 DEF Inv, TypeOK, CommitInv, SlotInv, SelectorInv, ReadSlots, files, service, bounds, history, Slot, Phases, Inactive, Other
  <2> QED
    BY <2>1, <2>2, <2>3, <2>4 DEF Inv
<1>13. CASE Crash
  <2>1. TypeOK'
    BY <1>13, LoadedIsAnchored DEF Inv, TypeOK, CommitInv, Crash, files, service, bounds, history, Slot, Phases, Inactive, Other
  <2>2. CommitInv'
    BY <1>13, LoadedIsAnchored DEF Inv, TypeOK, CommitInv, Crash, files, service, bounds, history, Slot, Phases
  <2>3. SlotInv'
    BY <1>13 DEF Inv, TypeOK, CommitInv, SlotInv, NoSlotFork, Crash, files, service, bounds, history, Slot, Phases, Inactive, Other
  <2>4. SelectorInv'
    BY <1>13, Zenon DEF Inv, TypeOK, CommitInv, SlotInv, SelectorInv, Crash, files, service, bounds, history, Slot, Phases, Inactive, Other
  <2> QED
    BY <2>1, <2>2, <2>3, <2>4 DEF Inv
<1>14. CASE UNCHANGED vars
  BY <1>14, Zenon DEF vars, Inv, TypeOK, CommitInv, SlotInv, SelectorInv, NoSlotFork
<1> QED
  BY <1>1, <1>2, <1>3, <1>4, <1>5, <1>6, <1>7, <1>8, <1>9, <1>10, <1>11, <1>12, <1>13, <1>14 DEF Next

(* The invariant holds in every reachable state.                           *)
THEOREM AuthorityInvariant == Spec => []Inv
<1> QED
  BY InitInv, StepInv, PTL DEF Spec

(* The files of an authority always have their types (AuthorityStore).     *)
THEOREM AuthorityTypes == Spec => []TypeOK
<1>1. Inv => TypeOK
  BY DEF Inv
<1> QED
  BY <1>1, AuthorityInvariant, PTL

(* load_head never returns a head older than one that was anchored.        *)
THEOREM AuthorityNeverRollsBack == Spec => []NewestHeadLoaded
<1>1. Inv => NewestHeadLoaded
  BY LoadedIsAnchored, HeadFacts DEF Inv, TypeOK, CommitInv, NewestHeadLoaded
<1> QED
  BY <1>1, AuthorityInvariant, PTL

(* commit_head never replaces the event file of an anchored revision.      *)
THEOREM EventsPermanent == Spec => []EventsOfAnchored
<1>1. Inv => EventsOfAnchored
  BY Zenon DEF Inv, CommitInv, EventsOfAnchored
<1> QED
  BY <1>1, AuthorityInvariant, PTL

(* commit_head never produces what detect_slot_fork calls a fork.          *)
THEOREM SlotsNeverFork == Spec => []NoSlotFork
<1>1. Inv => NoSlotFork
  BY Zenon DEF Inv, SlotInv
<1> QED
  BY <1>1, AuthorityInvariant, PTL

(* commit_prepared_genesis publishes only under a committed authority.     *)
THEOREM PublishedLast == Spec => []PublishedUnderAuthority
<1>1. Inv => PublishedUnderAuthority
  BY DEF Inv, CommitInv, PublishedUnderAuthority
<1> QED
  BY <1>1, AuthorityInvariant, PTL

(* A crash between the anchor's write and the selector's is the only way   *)
(* in which commit_head can lose the anchored head.                        *)
THEOREM RecoverableOutsideWindow == Spec => []LostOnlyBehind
<1>1. Inv => LostOnlyBehind
  <2> SUFFICES ASSUME Inv, ~behind, anchor # NoHead PROVE \E s \in Slot : slot[s] = anchor
    BY MismatchAssumption, HeadFacts DEF LostOnlyBehind, LoadHead, Inv, TypeOK
  <2>1. CASE slot[current] = anchor
    BY <2>1 DEF Inv, TypeOK
  <2>2. CASE pc = "current"
    BY <2>2 DEF Inv, TypeOK, CommitInv, SlotInv
  <2> QED
    BY <2>1, <2>2 DEF Inv, SelectorInv
<1> QED
  BY <1>1, AuthorityInvariant, PTL

=============================================================================
