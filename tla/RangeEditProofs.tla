--------------------------- MODULE RangeEditProofs ---------------------------
(***************************************************************************)
(* Proofs about RangeEdit for every value of its constants.                *)
(*                                                                         *)
(* TypeOK is not inductive by itself: a committed successor has a natural  *)
(* extent only because begin checked that the replaced range lies in the   *)
(* base extent.  Grounded states that check as an invariant.               *)
(***************************************************************************)
EXTENDS RangeEdit, ListTheorems, TLAPS

\* What begin established about the transaction that is active.
GroundedIn(a) ==
  a.state # "Free" =>
    /\ a.key \in Keys
    /\ a.rep \in Replacements
    /\ a.extent \in ExtentSpace
    /\ a.rep.len <= a.extent.bytes
    /\ a.rep.breaks <= Breaks(a.extent)
    /\ Breaks(a.extent) \in Nat

Grounded == GroundedIn(active)

\* The active transaction is in the history.
Recorded == active.state # "Free" => Last > 0

TypeInv == TypeOK /\ Grounded /\ Recorded

-----------------------------------------------------------------------------
(* Types of the operators the actions are built from.                      *)

\* The absent transaction has the type of a transaction.
LEMMA InactiveType == Inactive \in ActiveSpace /\ GroundedIn(Inactive)
  BY DEF Inactive, ActiveSpace, GroundedIn, EmptyLanes, EmptyTotals, EmptySequence,
         SequenceSpace, States, Phases, Lanes

\* A transaction that begin admits is grounded in the binding.
LEMMA FreshType ==
  ASSUME TypeOK, NEW key \in Keys, NEW rep \in Replacements, NEW producer \in Producers \cup {None},
         WellFormedExtent(binding.extent), WellFormedReplacement(rep, binding.extent)
  PROVE  Fresh(key, rep, producer) \in ActiveSpace /\ GroundedIn(Fresh(key, rep, producer))
<1>1. /\ binding.extent \in ExtentSpace
      /\ rep \in ReplacementSpace
      /\ Breaks(binding.extent) \in Nat
  BY SpacesAssumption DEF TypeOK, ExtentSpace, WellFormedExtent, Breaks
<1>2. rep.len <= binding.extent.bytes /\ rep.breaks <= Breaks(binding.extent)
  BY <1>1 DEF WellFormedReplacement, ReplacementSpace, ExtentSpace
<1> QED
  BY <1>1, <1>2, InactiveType, ZenonT(60) DEF Fresh, Inactive, ActiveSpace, GroundedIn, States

\* The expected successor of a grounded transaction is an extent.
LEMMA ExpectedExtentType ==
  ASSUME NEW a \in ActiveSpace, GroundedIn(a), a.state # "Free"
  PROVE  ExpectedExtent(a) \in ExtentSpace
<1>1. /\ a.rep.len \in Nat /\ a.rep.breaks \in Nat
      /\ a.extent.bytes \in Nat
      /\ a.sequence.inserted \in Nat /\ a.sequence.breaks \in Nat
  BY SpacesAssumption DEF GroundedIn, ReplacementSpace, ExtentSpace, ActiveSpace, SequenceSpace
<1>2. ExpectedBytes(a) \in Nat
  BY <1>1 DEF ExpectedBytes, GroundedIn
<1>3. ExpectedBreaks(a) \in Nat
  BY <1>1 DEF ExpectedBreaks, GroundedIn
<1> QED
  BY <1>2, <1>3 DEF ExpectedExtent, ExtentSpace

\* An accepted page leaves a transaction of the same state and grounding.
LEMMA AcceptedType ==
  ASSUME NEW a \in ActiveSpace, GroundedIn(a), NEW lane \in Lanes, NEW p \in Payloads
  PROVE  Accepted(a, lane, p) \in ActiveSpace /\ GroundedIn(Accepted(a, lane, p))
<1>1. p \in PayloadSpace
  BY SpacesAssumption
<1>2. a.lanes[lane] \in Seq(Payloads) /\ Append(a.lanes[lane], p) \in Seq(Payloads)
  BY DEF ActiveSpace
<1>3. a.totals[lane] + p.weight \in Nat
  BY <1>1 DEF ActiveSpace, PayloadSpace
<1>4. Extend(a.sequence, p) \in SequenceSpace
  BY <1>1, SMTT(30) DEF ActiveSpace, PayloadSpace, SequenceSpace, Extend
<1>5. EffectOn(a, p) \in {"None", "Removed", "Replaced"}
  BY <1>1 DEF ActiveSpace, PayloadSpace, EffectOn
<1> DEFINE lanes == [a.lanes EXCEPT ![lane] = Append(@, p)]
           totals == [a.totals EXCEPT ![lane] = @ + p.weight]
           sequence == IF lane = "Proposal" THEN Extend(a.sequence, p) ELSE a.sequence
           effect == IF lane = "Proposal" THEN EffectOn(a, p) ELSE a.effect
<1>6. /\ lanes \in [Lanes -> Seq(Payloads)]
      /\ totals \in [Lanes -> Nat]
      /\ sequence \in SequenceSpace
      /\ effect \in {"None", "Removed", "Replaced"}
  BY <1>2, <1>3, <1>4, <1>5 DEF ActiveSpace
<1>7. Accepted(a, lane, p) = [a EXCEPT !.lanes = lanes, !.totals = totals,
                                       !.sequence = sequence, !.effect = effect]
  BY DEF Accepted, ActiveSpace
<1> HIDE DEF lanes, totals, sequence, effect
<1> DEFINE b == [a EXCEPT !.lanes = lanes, !.totals = totals,
                          !.sequence = sequence, !.effect = effect]
<1>8. b \in ActiveSpace
  BY <1>6, ZenonT(60) DEF ActiveSpace
<1>9. b.state = a.state /\ b.key = a.key /\ b.rep = a.rep /\ b.extent = a.extent
  BY DEF ActiveSpace
<1>10. GroundedIn(b)
  <2> HIDE DEF b
  <2> QED  BY <1>9 DEF GroundedIn
<1> QED
  BY <1>7, <1>8, <1>10

\* A declarable finish is a finish, and freezing it keeps type and grounding.
LEMMA FreezeType ==
  ASSUME TypeInv, active.state # "Free", NEW finish \in Declarable
  PROVE  /\ finish \in FinishSpace
         /\ Freeze(active, finish) \in ActiveSpace
         /\ GroundedIn(Freeze(active, finish))
<1>1. finish \in FinishSpace
  <2>1. ExpectedExtent(active) \in ExtentSpace
    BY ExpectedExtentType DEF TypeInv, TypeOK, Grounded
  <2>2. \A intent \in Intents : FinishOf(active, intent) \in FinishSpace
    BY <2>1 DEF FinishOf, FinishSpace, TypeInv, TypeOK, ActiveSpace
  <2>3. active.closure # None => active.closure \in FinishSpace
    BY DEF TypeInv, TypeOK, ActiveSpace
  <2> QED
    BY <2>2, <2>3 DEF Declarable
<1>2. finish.intent \in Intents /\ finish.extent \in ExtentSpace
  BY <1>1 DEF FinishSpace
<1> QED
  BY <1>1, <1>2 DEF Freeze, ActiveSpace, GroundedIn, TypeInv, TypeOK, Grounded

\* Grounding speaks about what begin fixed: it survives any change of the rest.
LEMMA GroundedKept ==
  ASSUME NEW a, GroundedIn(a), a.state # "Free", NEW b,
         b.key = a.key, b.rep = a.rep, b.extent = a.extent
  PROVE  GroundedIn(b)
  BY DEF GroundedIn

\* One entry of the history changed to another entry.
LEMMA EntryType ==
  ASSUME NEW h \in Seq(EntrySpace), NEW i \in 1..Len(h), NEW e \in EntrySpace
  PROVE  [h EXCEPT ![i] = e] \in Seq(EntrySpace)
  OBVIOUS

-----------------------------------------------------------------------------
(* Type correctness.                                                       *)

\* A new coordinator has its types.
LEMMA TypeInit == ASSUME Init PROVE TypeInv
<1>1. binding \in [id : BindingIds, rev : Revisions, extent : ExtentSpace]
  BY SpacesAssumption DEF Init, Bindings
<1> QED
  BY <1>1, InactiveType DEF Init, TypeInv, TypeOK, Grounded, Recorded, Inactive

\* A step that replaces the active transaction only.
LEMMA UpdateType ==
  ASSUME TypeInv, active.state # "Free", NEW a \in ActiveSpace, GroundedIn(a), Update(a)
  PROVE  TypeInv'
  BY DEF TypeInv, TypeOK, Grounded, Recorded, Last, Update

\* A step that ends the active transaction, whatever it does to the binding.
LEMMA TakeType ==
  ASSUME TypeInv, active.state # "Free", NEW outcome \in Outcomes, Take(outcome)
  PROVE  /\ active' \in ActiveSpace /\ Grounded' /\ Recorded'
         /\ lastTerminal' \in Keys \cup {None}
         /\ released' \in Nat
         /\ history' \in Seq(EntrySpace)
<1>1. Last \in 1..Len(history) /\ history[Last] \in EntrySpace
  BY DEF Last, TypeInv, TypeOK, Recorded
<1> DEFINE e == [history[Last] EXCEPT !.outcome = outcome]
<1>2. e \in EntrySpace
  BY <1>1 DEF EntrySpace
<1>3. history' = [history EXCEPT ![Last] = e]
  BY DEF Take
<1>4. history' \in Seq(EntrySpace)
  <2> HIDE DEF e
  <2> QED  BY <1>1, <1>2, <1>3, EntryType DEF TypeInv, TypeOK
<1> QED
  BY <1>4, InactiveType DEF Take, TypeInv, TypeOK, Grounded, Recorded, Inactive, ActiveSpace

\* A step that ends the active transaction and leaves the binding.
LEMMA FinishUnchangedType ==
  ASSUME TypeInv, active.state # "Free", NEW outcome \in Outcomes, FinishUnchanged(outcome)
  PROVE  TypeInv'
  BY TakeType DEF FinishUnchanged, TypeInv, TypeOK

\* What a committed successor makes of the binding.
LEMMA SettleCommittedType ==
  ASSUME TypeInv, NEW key, NEW rev \in Revisions, SettleCommitted(key, rev)
  PROVE  TypeInv'
<1>1. active.state # "Free" /\ key = active.key
  BY DEF SettleCommitted, Named
<1>2. key.id \in BindingIds
  BY <1>1 DEF TypeInv, Grounded, GroundedIn, Keys
<1>3. ExpectedExtent(active) \in ExtentSpace
  BY <1>1, ExpectedExtentType DEF TypeInv, TypeOK, Grounded
<1>4. /\ binding' \in [id : BindingIds, rev : Revisions, extent : ExtentSpace]
      /\ highWater' \in Nat /\ epoch' \in Nat
  BY <1>2, <1>3 DEF SettleCommitted, TypeInv, TypeOK
<1>5. Take("Committed")
  BY DEF SettleCommitted
<1> QED
  BY <1>1, <1>4, <1>5, TakeType DEF Outcomes, TypeInv, TypeOK

\* What rebind and dispose leave of the transaction.
LEMMA RetireType ==
  ASSUME TypeInv, Retire
  PROVE  /\ active' \in ActiveSpace /\ Grounded' /\ Recorded'
         /\ lastTerminal' \in Keys \cup {None}
         /\ released' \in Nat
         /\ history' \in Seq(EntrySpace)
<1>1. CASE active.state = "Free" /\ UNCHANGED <<active, lastTerminal, released, history>>
  BY <1>1 DEF TypeInv, TypeOK, Grounded, Recorded, Last
<1>2. CASE active.state = "CommitPending" /\ Detach /\ UNCHANGED <<lastTerminal, released, history>>
  BY <1>2 DEF Detach, TypeInv, TypeOK, Grounded, GroundedIn, Recorded, Last, ActiveSpace
<1>3. CASE active.state \notin {"Free", "CommitPending"} /\ Take("Cancelled")
  BY <1>3, TakeType DEF Outcomes
<1> QED
  BY <1>1, <1>2, <1>3 DEF Retire

\* begin makes a transaction that is typed, grounded and recorded.
LEMMA BeginType ==
  ASSUME TypeInv, NEW op \in Operations, NEW rep \in Replacements,
         NEW producer \in Producers \cup {None}, Begin(op, rep, producer)
  PROVE  TypeInv'
<1> DEFINE key == [id |-> binding.id, rev |-> binding.rev, op |-> op]
<1>1. key \in Keys /\ op \in Nat
  BY BoundsAssumption DEF Keys, Operations, TypeInv, TypeOK
<1>2. Entry(key) \in EntrySpace
  BY <1>1 DEF Entry, EntrySpace, TypeInv, TypeOK
<1> HIDE DEF key
<1>3. /\ active' = Fresh(key, rep, producer) /\ history' = Append(history, Entry(key))
      /\ highWater' = op /\ UNCHANGED <<binding, lastTerminal, released, epoch>>
      /\ WellFormedExtent(binding.extent) /\ WellFormedReplacement(rep, binding.extent)
  BY DEF Begin, key
<1>4. active' \in ActiveSpace /\ GroundedIn(active')
  BY <1>1, <1>3, FreshType DEF TypeInv
<1>5. history' \in Seq(EntrySpace) /\ Len(history') > 0
  BY <1>2, <1>3 DEF TypeInv, TypeOK
<1> QED
  BY <1>1, <1>3, <1>4, <1>5 DEF TypeInv, TypeOK, Grounded, Recorded, Last

\* Every call that names the active transaction keeps the types.
LEMMA TransactType ==
  ASSUME TypeInv, NEW key \in BeganKeys, Transact(key)
  PROVE  TypeInv'
<1> USE DEF Named
<1>0. active \in ActiveSpace /\ GroundedIn(active)
  BY DEF TypeInv, TypeOK, Grounded
<1>1. CASE RequestEvidence(key)
  <2> DEFINE phase == IF active.producer = None THEN "Unavailable" ELSE "Streaming"
             a == [active EXCEPT !.phase = phase]
  <2>0. phase \in Phases
    BY DEF Phases
  <2>1. a \in ActiveSpace
    <3> HIDE DEF phase
    <3> QED  BY <1>0, <2>0 DEF ActiveSpace
  <2>2. a.key = active.key /\ a.rep = active.rep /\ a.extent = active.extent
    BY <1>0 DEF ActiveSpace
  <2>3. active.state # "Free" /\ Update(a)
    BY <1>1 DEF RequestEvidence
  <2> HIDE DEF a
  <2> QED
    BY <1>0, <2>1, <2>2, <2>3, GroundedKept, UpdateType
<1>2. ASSUME NEW tracked \in Tracked, AcceptPreflight(key, tracked) PROVE TypeInv'
  <2> DEFINE phase == IF active.phase = "Complete" THEN "RestartPending" ELSE active.phase
             a == [active EXCEPT !.state = "InputStreaming", !.tracked = tracked, !.phase = phase]
  <2>1. tracked \in Nat
    BY SpacesAssumption DEF Tracked, PayloadSpace
  <2>2. phase \in Phases
    BY <1>0 DEF ActiveSpace, Phases
  <2>3. a \in ActiveSpace
    <3> HIDE DEF phase
    <3> QED  BY <1>0, <2>1, <2>2 DEF ActiveSpace, States
  <2>4. a.key = active.key /\ a.rep = active.rep /\ a.extent = active.extent
    BY <1>0 DEF ActiveSpace
  <2>5. active.state # "Free" /\ Update(a)
    BY <1>2 DEF AcceptPreflight
  <2> HIDE DEF a
  <2> QED
    BY <1>0, <2>3, <2>4, <2>5, GroundedKept, UpdateType
<1>3. CASE RejectPreflight(key)
  BY <1>3, FinishUnchangedType DEF RejectPreflight, Outcomes
<1>4. CASE RejectInput(key)
  BY <1>4, FinishUnchangedType DEF RejectInput, Outcomes
<1>5. ASSUME NEW lane \in Lanes, NEW p \in Payloads, AcceptPage(key, lane, p) PROVE TypeInv'
  BY <1>0, <1>5, AcceptedType, UpdateType DEF AcceptPage, StagingOpen
<1>6. ASSUME NEW lane \in Lanes, NEW p \in Payloads, SubmitEvidencePage(key, lane, p) PROVE TypeInv'
  <2>1. ASSUME NEW a \in ActiveSpace, GroundedIn(a)
        PROVE  AwaitAcknowledgement(a) \in ActiveSpace /\ GroundedIn(AwaitAcknowledgement(a))
    <3> DEFINE b == AwaitAcknowledgement(a)
    <3>0. a.nextRequest \in Nat /\ a.nextRequest + 1 \in Nat
      BY DEF ActiveSpace
    <3>1. b \in ActiveSpace
      BY <3>0 DEF AwaitAcknowledgement, ActiveSpace
    <3>2. b.state = a.state /\ b.key = a.key /\ b.rep = a.rep /\ b.extent = a.extent
      BY DEF AwaitAcknowledgement, ActiveSpace
    <3> QED
      BY <2>1, <3>1, <3>2 DEF GroundedIn
  <2>2. active.state # "Free"
    BY <1>6 DEF SubmitEvidencePage, EvidenceOpen
  <2>3. CASE Update(AwaitAcknowledgement(Accepted(active, lane, p)))
    BY <1>0, <2>1, <2>2, <2>3, AcceptedType, UpdateType
  <2>4. CASE Update(AwaitAcknowledgement(active))
    BY <1>0, <2>1, <2>2, <2>4, UpdateType
  <2> QED
    BY <1>6, <2>3, <2>4 DEF SubmitEvidencePage
<1>7. ASSUME NEW lane \in Lanes, NEW p \in Payloads, CollidingPage(key, lane, p) PROVE TypeInv'
  BY <1>7, FinishUnchangedType DEF CollidingPage, StagingOpen, EvidenceOpen, Outcomes
<1>8. ASSUME NEW request \in 0..MaxRequests, AcknowledgeEvidencePage(key, request) PROVE TypeInv'
  <2> DEFINE a == [active EXCEPT !.outstanding = None]
  <2>1. a \in ActiveSpace /\ GroundedIn(a)
    BY <1>0, ZenonT(60) DEF ActiveSpace, GroundedIn
  <2> QED
    BY <1>8, <2>1, UpdateType DEF AcknowledgeEvidencePage
<1>9. ASSUME NEW finish \in Declarable, FinishEvidence(key, finish) PROVE TypeInv'
  <2>1. active.state # "Free"
    BY <1>9 DEF FinishEvidence, EvidenceOpen
  <2> DEFINE f == Freeze(active, finish)
  <2>2. f \in ActiveSpace /\ GroundedIn(f) /\ f.state = active.state /\ finish \in FinishSpace
    BY <1>0, <2>1, FreezeType DEF Freeze, ActiveSpace
  <2> HIDE DEF f
  <2>3. [f EXCEPT !.closure = finish, !.phase = "Complete"] \in ActiveSpace
    BY <2>2 DEF ActiveSpace, Phases
  <2>4. GroundedIn([f EXCEPT !.closure = finish, !.phase = "Complete"])
    BY <2>1, <2>2, GroundedKept DEF ActiveSpace
  <2> QED
    BY <1>9, <2>1, <2>3, <2>4, UpdateType DEF FinishEvidence, f
<1>10. ASSUME NEW finish \in Declarable, active.state = "InputStreaming",
              Update([Freeze(active, finish) EXCEPT !.state = "FinishPending"])
       PROVE  TypeInv'
  <2> DEFINE f == Freeze(active, finish)
             a == [f EXCEPT !.state = "FinishPending"]
  <2>1. f \in ActiveSpace /\ GroundedIn(f) /\ f.state # "Free"
    BY <1>0, <1>10, FreezeType DEF Freeze, ActiveSpace
  <2>2. a \in ActiveSpace
    BY <2>1 DEF ActiveSpace, States
  <2>3. GroundedIn(a)
    BY <2>1 DEF ActiveSpace, GroundedIn
  <2> QED
    BY <1>10, <2>2, <2>3, UpdateType
<1>11. ASSUME NEW finish \in Declarable, FinishInput(key, finish) PROVE TypeInv'
  BY <1>10, <1>11 DEF FinishInput
<1>12. ASSUME NEW finish \in Declarable, FinishPassInput(key, finish) PROVE TypeInv'
  BY <1>10, <1>12, FinishUnchangedType DEF FinishPassInput, Outcomes
<1>13. CASE AcknowledgeRestart(key)
  <2> DEFINE a == [active EXCEPT !.lanes = EmptyLanes, !.totals = EmptyTotals,
                     !.sequence = EmptySequence, !.effect = "None",
                     !.intended = None, !.intendedExtent = None, !.phase = "Staging"]
  <2>1. /\ EmptyLanes \in [Lanes -> Seq(Payloads)]
        /\ EmptyTotals \in [Lanes -> Nat]
        /\ EmptySequence \in SequenceSpace
    BY DEF EmptyLanes, EmptyTotals, EmptySequence, SequenceSpace
  <2>2. a \in ActiveSpace
    BY <1>0, <2>1, ZenonT(60) DEF ActiveSpace, Phases
  <2>3. a.key = active.key /\ a.rep = active.rep /\ a.extent = active.extent
    BY <1>0 DEF ActiveSpace
  <2>4. active.state # "Free" /\ Update(a)
    BY <1>13 DEF AcknowledgeRestart
  <2> HIDE DEF a
  <2> QED
    BY <1>0, <2>2, <2>3, <2>4, GroundedKept, UpdateType
<1>14. CASE AdmitCommit(key)
  <2>1. active' \in ActiveSpace /\ GroundedIn(active')
    BY <1>0, <1>14 DEF AdmitCommit, ActiveSpace, GroundedIn, States
  <2> DEFINE e == [history[Last] EXCEPT !.admitted = TRUE]
  <2>2. Last \in 1..Len(history) /\ history[Last] \in EntrySpace
    BY <1>14 DEF AdmitCommit, Last, TypeInv, TypeOK, Recorded
  <2>3. e \in EntrySpace
    BY <2>2 DEF EntrySpace
  <2>4. history' = [history EXCEPT ![Last] = e]
    BY <1>14 DEF AdmitCommit
  <2>5. history' \in Seq(EntrySpace) /\ Len(history') = Len(history)
    <3> HIDE DEF e
    <3> QED  BY <2>2, <2>3, <2>4, EntryType DEF TypeInv, TypeOK
  <2> QED
    BY <1>14, <2>1, <2>2, <2>5 DEF AdmitCommit, TypeInv, TypeOK, Grounded, Recorded, Last
<1>15. CASE Cancel(key)
  BY <1>15, FinishUnchangedType DEF Cancel, Outcomes
<1> QED
  BY <1>1, <1>2, <1>3, <1>4, <1>5, <1>6, <1>7, <1>8, <1>9, <1>11, <1>12, <1>13, <1>14, <1>15
  DEF Transact

\* The type invariant is inductive.
LEMMA TypeStep == ASSUME TypeInv, [Next]_vars PROVE TypeInv'
<1>1. ASSUME NEW op \in Operations, NEW rep \in Replacements,
             NEW producer \in Producers \cup {None}, Begin(op, rep, producer)
      PROVE  TypeInv'
  BY <1>1, BeginType
<1>2. ASSUME NEW key \in BeganKeys, Transact(key) PROVE TypeInv'
  BY <1>2, TransactType
<1>3. ASSUME NEW i \in 1..Last, NEW outcome \in Outcomes, HostDecide(i, outcome) PROVE TypeInv'
  <2> DEFINE e == [history[i] EXCEPT !.host = outcome]
  <2>0. i \in 1..Len(history) /\ history[i] \in EntrySpace
    BY DEF Last, TypeInv, TypeOK
  <2>1. i \in 1..Len(history) /\ e \in EntrySpace
    BY <2>0 DEF EntrySpace
  <2>2. history' = [history EXCEPT ![i] = e]
    BY <1>3 DEF HostDecide
  <2>3. history' \in Seq(EntrySpace) /\ Len(history') = Len(history)
    <3> HIDE DEF e
    <3> QED  BY <2>1, <2>2, EntryType DEF TypeInv, TypeOK
  <2> QED
    BY <1>3, <2>3 DEF HostDecide, TypeInv, TypeOK, Grounded, Recorded, Last
<1>4. ASSUME NEW i \in 1..Last, Settle(i) PROVE TypeInv'
  <2>0. history[i] \in EntrySpace
    BY DEF Last, TypeInv, TypeOK
  <2>1. history[i].host \in Outcomes
    BY <1>4, <2>0 DEF Settle, EntrySpace
  <2> QED
    BY <1>4, <2>1, SettleCommittedType, FinishUnchangedType DEF Settle, SettleUnchanged, Named
<1>5. ASSUME NEW b \in Bindings, Rebind(b) PROVE TypeInv'
  <2>1. binding' \in [id : BindingIds, rev : Revisions, extent : ExtentSpace]
    BY <1>5, SpacesAssumption DEF Rebind, Bindings
  <2>2. highWater' \in Nat /\ epoch' \in Nat
    BY <1>5 DEF Rebind, TypeInv, TypeOK
  <2> QED
    BY <1>5, <2>1, <2>2, RetireType DEF Rebind, TypeInv, TypeOK
<1>6. CASE Dispose
  BY <1>6, RetireType DEF Dispose, TypeInv, TypeOK
<1>7. CASE UNCHANGED vars
  BY <1>7 DEF vars, TypeInv, TypeOK, Grounded, Recorded, Last
<1> QED
  BY <1>1, <1>2, <1>3, <1>4, <1>5, <1>6, <1>7 DEF Next

\* The coordinator and its history always have their types, whatever the host,
\* the producers and the pages are (coordinator.rs, RangeEditCoordinator).
THEOREM TypeCorrect == Spec => []TypeOK
<1>1. Init => TypeInv
  BY TypeInit
<1>2. TypeInv /\ [Next]_vars => TypeInv'
  BY TypeStep
<1>3. TypeInv => TypeOK
  BY DEF TypeInv
<1> QED
  BY <1>1, <1>2, <1>3, PTL DEF Spec

-----------------------------------------------------------------------------
(* The history.  Agreement is inductive only together with the link between *)
(* the active transaction and its entry and the uniqueness of keys: a late  *)
(* decision is delivered by key, so two entries with one key would let the  *)
(* decision about the first settle the second.                              *)

Linked ==
  /\ active.state # "Free" =>
       /\ history[Last].key = active.key
       /\ history[Last].admitted <=> active.state = "CommitPending"
  /\ \A i \in 1..Last : history[i].host # None => history[i].admitted

\* No operation of the current epoch is above the high water, and no key occurs twice.
KeysInv ==
  /\ \A i \in 1..Last :
       /\ history[i].epoch <= epoch
       /\ history[i].epoch = epoch => history[i].key.op <= highWater
  /\ \A i, j \in 1..Last : history[i].key = history[j].key => i = j

HistoryInv == Agreement /\ TerminalOnce /\ Linked /\ KeysInv

\* Either nothing was forgotten, or the epoch of what was forgotten is over.
EpochStep == UNCHANGED <<highWater, epoch>> \/ epoch' = epoch + 1

\* A step that replaces the active transaction by the same one, not admitted meanwhile.
LEMMA UpdateKeepsHistory ==
  ASSUME TypeInv, HistoryInv, NEW a, Update(a), active.state # "Free", a.state # "Free",
         a.key = active.key, a.state = "CommitPending" <=> active.state = "CommitPending"
  PROVE  HistoryInv'
  BY DEF HistoryInv, Agreement, TerminalOnce, Linked, KeysInv, Update, Last

\* A step that ends the active transaction with an outcome it may have.
LEMMA TakeKeepsHistory ==
  ASSUME TypeInv, HistoryInv, active.state # "Free", NEW outcome \in Outcomes, Take(outcome),
         IF active.state = "CommitPending" THEN outcome = history[Last].host
                                           ELSE outcome # "Committed",
         EpochStep
  PROVE  HistoryInv'
<1>1. Last \in Nat \ {0} /\ Len(history') = Last /\ Last' = Last
  BY DEF Take, Last, TypeInv, TypeOK, Recorded
<1>2. active'.state = "Free" /\ released' = released + 1 /\ outcome # None
  BY NoneAssumption DEF Take, Inactive
<1>3. \A i \in 1..Last : history[i] \in EntrySpace
  BY DEF Last, TypeInv, TypeOK
<1>4. \A i \in 1..Last : i # Last => history'[i] = history[i]
  BY DEF Take, Last, TypeInv, TypeOK
<1>5. /\ history'[Last].outcome = outcome
      /\ history'[Last].host = history[Last].host
      /\ history'[Last].admitted = history[Last].admitted
      /\ history'[Last].key = history[Last].key
      /\ history'[Last].epoch = history[Last].epoch
  BY <1>1, <1>3 DEF Take, Last, TypeInv, TypeOK, EntrySpace
<1>6. Agreement'
  BY <1>1, <1>4, <1>5 DEF HistoryInv, Agreement, Linked
<1>7. TerminalOnce'
  BY <1>1, <1>2, <1>4, <1>5 DEF HistoryInv, TerminalOnce, TypeInv, TypeOK
<1>8. Linked'
  BY <1>1, <1>2, <1>4, <1>5 DEF HistoryInv, Linked
<1>9. \A i \in 1..Last : history'[i].key = history[i].key /\ history'[i].epoch = history[i].epoch
  BY <1>4, <1>5
<1>10. \A i \in 1..Last : history[i].epoch \in Nat
  BY <1>3 DEF EntrySpace
<1>11. KeysInv'
  BY <1>1, <1>9, <1>10, SMTT(30) DEF HistoryInv, KeysInv, EpochStep, TypeInv, TypeOK
<1> QED
  BY <1>6, <1>7, <1>8, <1>11 DEF HistoryInv

\* A step that leaves the history alone keeps it, whatever it does to the binding.
LEMMA IdleKeepsHistory ==
  ASSUME TypeInv, HistoryInv, UNCHANGED <<released, history>>, EpochStep,
         active'.state = active.state, active'.key = active.key
  PROVE  HistoryInv'
<1>0. \A i \in 1..Last : history[i] \in EntrySpace
  BY DEF Last, TypeInv, TypeOK
<1>1. \A i \in 1..Last : history[i].epoch \in Nat
  BY <1>0 DEF EntrySpace
<1>2. KeysInv'
  BY <1>1 DEF HistoryInv, KeysInv, EpochStep, TypeInv, TypeOK, Last
<1> QED
  BY <1>2 DEF HistoryInv, Agreement, TerminalOnce, Linked, Last

\* The empty history satisfies the history invariant.
LEMMA HistoryInit == ASSUME Init PROVE HistoryInv
  BY DEF Init, Inactive, HistoryInv, Agreement, TerminalOnce, Linked, KeysInv, Last

\* begin appends an entry whose key no entry has: an older operation of this
\* epoch is not above the high water, one of another epoch is not leased again.
LEMMA BeginKeepsHistory ==
  ASSUME TypeInv, HistoryInv, NEW op \in Operations, NEW rep, NEW producer, Begin(op, rep, producer)
  PROVE  HistoryInv'
<1> DEFINE key == [id |-> binding.id, rev |-> binding.rev, op |-> op]
           e == Entry(key)
<1>1. /\ active.state = "Free" /\ Leased(op) /\ op > highWater /\ highWater' = op
      /\ active'.state = "PreflightPending" /\ active'.key = key
      /\ history' = Append(history, e)
      /\ UNCHANGED <<released, epoch>>
  BY DEF Begin, Fresh, Inactive
<1>2. /\ e.key = key /\ e.epoch = epoch /\ e.admitted = FALSE /\ e.host = None /\ e.outcome = None
      /\ key.op = op
  BY DEF Entry
<1> HIDE DEF e, key
<1>3. /\ Last \in Nat /\ Last' = Last + 1
      /\ history'[Last + 1] = e
      /\ \A i \in 1..Last : history'[i] = history[i]
  BY <1>1 DEF Last, TypeInv, TypeOK
<1>4. /\ op \in Nat /\ highWater \in Nat /\ epoch \in Nat
      /\ \A i \in 1..Last : history[i] \in EntrySpace
  BY BoundsAssumption DEF Operations, TypeInv, TypeOK, Last
<1>5. \A i \in 1..Last : history[i].key # key
  <2> SUFFICES ASSUME NEW i \in 1..Last, history[i].key = key PROVE FALSE
    OBVIOUS
  <2>1. history[i].key.op = op
    BY <1>2
  <2>2. history[i].epoch = epoch
    BY <1>1, <2>1 DEF Leased
  <2> QED
    BY <1>1, <1>4, <2>1, <2>2 DEF HistoryInv, KeysInv
<1>6. \A i \in 1..Last : history[i].key.op \in Nat /\ history[i].epoch \in Nat
  BY <1>4, BoundsAssumption DEF EntrySpace, Keys, Operations
<1>7. \A i \in 1..Last' : i = Last + 1 \/ (i \in 1..Last /\ i # Last + 1)
  BY <1>3
<1>8. Agreement'
  BY <1>2, <1>3 DEF HistoryInv, Agreement
<1>9. TerminalOnce'
  <2>1. \A i \in 1..Last : history[i].outcome # None
    BY <1>1 DEF HistoryInv, TerminalOnce
  <2>2. released' = Last' - 1 /\ active'.state # "Free"
    BY <1>1, <1>3 DEF HistoryInv, TerminalOnce
  <2>3. \A i \in 1..Last' : history'[i].outcome = None <=> i = Last'
    BY <1>2, <1>3, <1>7, <2>1
  <2> QED
    BY <2>2, <2>3 DEF TerminalOnce
<1>10. Linked'
  <2>1. \A i \in 1..Last' : history'[i].host # None => history'[i].admitted
    BY <1>2, <1>3, <1>7 DEF HistoryInv, Linked
  <2>2. history'[Last'].key = active'.key /\ history'[Last'].admitted = FALSE
    BY <1>1, <1>2, <1>3
  <2> QED
    BY <1>1, <2>1, <2>2 DEF Linked
<1>11. KeysInv'
  <2>1. \A i \in 1..Last' : history'[i].epoch <= epoch' /\
                            (history'[i].epoch = epoch' => history'[i].key.op <= highWater')
    BY <1>1, <1>2, <1>3, <1>4, <1>6, <1>7, SMTT(30) DEF HistoryInv, KeysInv
  <2>2. \A i, j \in 1..Last' : history'[i].key = history'[j].key => i = j
    BY <1>2, <1>3, <1>5, <1>7 DEF HistoryInv, KeysInv
  <2> QED
    BY <2>1, <2>2 DEF KeysInv
<1> QED
  BY <1>8, <1>9, <1>10, <1>11 DEF HistoryInv

\* Ending a transaction that is not admitted, with any outcome but Committed.
LEMMA AbandonKeepsHistory ==
  ASSUME TypeInv, HistoryInv, active.state \notin {"Free", "CommitPending"},
         NEW outcome \in Outcomes \ {"Committed"}, FinishUnchanged(outcome)
  PROVE  HistoryInv'
  BY TakeKeepsHistory DEF FinishUnchanged, EpochStep

\* Every call that names the active transaction keeps the history invariant.
LEMMA TransactKeepsHistory ==
  ASSUME TypeInv, HistoryInv, NEW key, Transact(key)
  PROVE  HistoryInv'
<1> USE DEF Named
<1>0. active \in ActiveSpace
  BY DEF TypeInv, TypeOK
<1>1. ASSUME NEW a, Update(a), active.state # "Free", active.state # "CommitPending",
             a.state \in {active.state, "InputStreaming", "FinishPending"}, a.key = active.key
      PROVE  HistoryInv'
  BY <1>1, UpdateKeepsHistory
<1>2. CASE RequestEvidence(key)
  BY <1>0, <1>1, <1>2 DEF RequestEvidence, ActiveSpace
<1>3. ASSUME NEW tracked \in Tracked, AcceptPreflight(key, tracked) PROVE HistoryInv'
  BY <1>0, <1>1, <1>3 DEF AcceptPreflight, ActiveSpace
<1>4. CASE RejectPreflight(key)
  BY <1>4, AbandonKeepsHistory DEF RejectPreflight, Outcomes
<1>5. CASE RejectInput(key)
  BY <1>5, AbandonKeepsHistory DEF RejectInput, Outcomes
<1>6. ASSUME NEW lane, NEW p
      PROVE  /\ Accepted(active, lane, p).state = active.state
             /\ Accepted(active, lane, p).key = active.key
  BY <1>0 DEF Accepted, ActiveSpace
<1>7. ASSUME NEW lane \in Lanes, NEW p \in Payloads, AcceptPage(key, lane, p) PROVE HistoryInv'
  BY <1>1, <1>6, <1>7 DEF AcceptPage, StagingOpen
<1>8. ASSUME NEW lane \in Lanes, NEW p \in Payloads, SubmitEvidencePage(key, lane, p) PROVE HistoryInv'
  <2>1. ASSUME NEW a \in ActiveSpace
        PROVE  AwaitAcknowledgement(a).state = a.state /\ AwaitAcknowledgement(a).key = a.key
    BY DEF AwaitAcknowledgement, ActiveSpace
  <2>2. Accepted(active, lane, p) \in ActiveSpace
    BY AcceptedType DEF TypeInv, TypeOK, Grounded
  <2> QED
    BY <1>0, <1>1, <1>6, <1>8, <2>1, <2>2 DEF SubmitEvidencePage, EvidenceOpen
<1>9. ASSUME NEW lane \in Lanes, NEW p \in Payloads, CollidingPage(key, lane, p) PROVE HistoryInv'
  BY <1>9, AbandonKeepsHistory DEF CollidingPage, StagingOpen, EvidenceOpen, Outcomes
<1>10. ASSUME NEW request \in 0..MaxRequests, AcknowledgeEvidencePage(key, request) PROVE HistoryInv'
  BY <1>0, <1>1, <1>10 DEF AcknowledgeEvidencePage, ActiveSpace
<1>11. ASSUME NEW finish \in Declarable, FinishEvidence(key, finish) PROVE HistoryInv'
  BY <1>0, <1>1, <1>11 DEF FinishEvidence, EvidenceOpen, Freeze, ActiveSpace
<1>12. ASSUME NEW finish \in Declarable, active.state = "InputStreaming",
              Update([Freeze(active, finish) EXCEPT !.state = "FinishPending"])
       PROVE  HistoryInv'
  BY <1>0, <1>1, <1>12 DEF Freeze, ActiveSpace
<1>13. ASSUME NEW finish \in Declarable, FinishInput(key, finish) PROVE HistoryInv'
  BY <1>12, <1>13 DEF FinishInput
<1>14. ASSUME NEW finish \in Declarable, FinishPassInput(key, finish) PROVE HistoryInv'
  BY <1>12, <1>14, AbandonKeepsHistory DEF FinishPassInput, Outcomes
<1>15. CASE AcknowledgeRestart(key)
  BY <1>0, <1>1, <1>15 DEF AcknowledgeRestart, ActiveSpace
<1>16. CASE AdmitCommit(key)
  <2>1. /\ active.state = "FinishPending" /\ active'.state = "CommitPending"
        /\ active'.key = active.key /\ UNCHANGED <<released, epoch, highWater>>
        /\ Last \in Nat \ {0} /\ Last' = Last
    BY <1>0, <1>16 DEF AdmitCommit, ActiveSpace, TypeInv, TypeOK, Recorded, Last
  <2>2. \A i \in 1..Last : history[i] \in EntrySpace
    BY DEF TypeInv, TypeOK, Last
  <2>3. /\ \A i \in 1..Last : i # Last => history'[i] = history[i]
        /\ history'[Last].outcome = history[Last].outcome
        /\ history'[Last].host = history[Last].host
        /\ history'[Last].key = history[Last].key
        /\ history'[Last].epoch = history[Last].epoch
        /\ history'[Last].admitted
    BY <1>16, <2>1, <2>2 DEF AdmitCommit, EntrySpace, TypeInv, TypeOK, Last
  <2>4. history[Last].outcome = None
    BY <2>1 DEF HistoryInv, TerminalOnce
  <2>5. Agreement'
    BY <2>1, <2>3, <2>4 DEF HistoryInv, Agreement
  <2>6. TerminalOnce'
    BY <2>1, <2>3 DEF HistoryInv, TerminalOnce
  <2>7. Linked'
    BY <2>1, <2>3 DEF HistoryInv, Linked
  <2>8. KeysInv'
    BY <2>1, <2>3 DEF HistoryInv, KeysInv
  <2> QED
    BY <2>5, <2>6, <2>7, <2>8 DEF HistoryInv
<1>17. CASE Cancel(key)
  BY <1>17, AbandonKeepsHistory DEF Cancel, Outcomes
<1> QED
  BY <1>2, <1>3, <1>4, <1>5, <1>7, <1>8, <1>9, <1>10, <1>11, <1>13, <1>14, <1>15, <1>16, <1>17
  DEF Transact

\* The host decides: only an admitted entry that is still open gets its decision.
LEMMA HostDecideKeepsHistory ==
  ASSUME TypeInv, HistoryInv, NEW i \in 1..Last, NEW outcome \in Outcomes, HostDecide(i, outcome)
  PROVE  HistoryInv'
<1>1. \A k \in 1..Last : history[k] \in EntrySpace
  BY DEF TypeInv, TypeOK, Last
<1>2. /\ Last' = Last /\ Last \in Nat
      /\ UNCHANGED <<active, released, epoch, highWater>>
      /\ history[i].admitted /\ history[i].host = None
  BY DEF HostDecide, Last, TypeInv, TypeOK
<1>3. /\ \A k \in 1..Last : k # i => history'[k] = history[k]
      /\ history'[i].outcome = history[i].outcome
      /\ history'[i].key = history[i].key
      /\ history'[i].epoch = history[i].epoch
      /\ history'[i].admitted = history[i].admitted
  <2> DEFINE e == [history[i] EXCEPT !.host = outcome]
  <2>1. /\ e.outcome = history[i].outcome /\ e.key = history[i].key
        /\ e.epoch = history[i].epoch /\ e.admitted = history[i].admitted
    BY <1>1 DEF EntrySpace
  <2>2. history' = [history EXCEPT ![i] = e]
    BY DEF HostDecide
  <2> HIDE DEF e
  <2> QED
    BY <2>1, <2>2 DEF TypeInv, TypeOK, Last
<1>4. history[i].outcome = None
  <2>2. history[i].outcome # None => history[i].outcome = history[i].host
    BY <1>2 DEF HistoryInv, Agreement
  <2> QED
    BY <1>2, <2>2
<1>5. Agreement'
  <2> SUFFICES ASSUME NEW k \in 1..Last, history'[k].outcome # None
               PROVE  IF history'[k].admitted THEN history'[k].outcome = history'[k].host
                                              ELSE history'[k].outcome # "Committed"
    BY <1>2 DEF Agreement
  <2>1. k # i
    BY <1>3, <1>4
  <2> QED
    BY <1>3, <2>1 DEF HistoryInv, Agreement
<1>6. TerminalOnce'
  <2>1. \A k \in 1..Last : history'[k].outcome = history[k].outcome
    BY <1>3
  <2> QED
    BY <1>2, <2>1 DEF HistoryInv, TerminalOnce
<1>7. Linked'
  <2>1. \A k \in 1..Last : history'[k].key = history[k].key /\ history'[k].admitted = history[k].admitted
    BY <1>3
  <2>2. \A k \in 1..Last : history'[k].host # None => history'[k].admitted
    BY <1>2, <1>3 DEF HistoryInv, Linked
  <2>3. active.state # "Free" => Last \in 1..Last
    BY <1>2 DEF TypeInv, Recorded
  <2> QED
    BY <1>2, <2>1, <2>2, <2>3 DEF HistoryInv, Linked
<1>8. KeysInv'
  <2>1. \A k \in 1..Last : history'[k].key = history[k].key /\ history'[k].epoch = history[k].epoch
    BY <1>3
  <2> QED
    BY <1>2, <2>1 DEF HistoryInv, KeysInv
<1> QED
  BY <1>5, <1>6, <1>7, <1>8 DEF HistoryInv

\* A decision names the active transaction by its key: it is the one decided about.
LEMMA SettleKeepsHistory ==
  ASSUME TypeInv, HistoryInv, NEW i \in 1..Last, Settle(i)
  PROVE  HistoryInv'
<1> DEFINE outcome == history[i].host
<1>1. /\ active.state = "CommitPending" /\ active.key = history[i].key
      /\ Take(outcome) /\ EpochStep
  BY DEF Settle, SettleCommitted, SettleUnchanged, FinishUnchanged, Named, EpochStep
<1>2. i = Last
  BY <1>1 DEF HistoryInv, Linked, KeysInv, TypeInv, TypeOK, Last, Recorded
<1>3. history[i] \in EntrySpace /\ outcome # None
  BY DEF Settle, TypeInv, TypeOK, Last
<1>4. outcome \in Outcomes
  BY <1>3 DEF EntrySpace
<1> QED
  BY <1>1, <1>2, <1>4, TakeKeepsHistory

\* Rebind and dispose: an admitted transaction stays in the history, open.
LEMMA RetireKeepsHistory ==
  ASSUME TypeInv, HistoryInv, Retire, EpochStep
  PROVE  HistoryInv'
<1>0. active \in ActiveSpace
  BY DEF TypeInv, TypeOK
<1>1. CASE active.state = "Free" /\ UNCHANGED <<active, lastTerminal, released, history>>
  BY <1>1, IdleKeepsHistory
<1>2. CASE active.state = "CommitPending" /\ Detach /\ UNCHANGED <<lastTerminal, released, history>>
  <2>1. active'.state = active.state /\ active'.key = active.key
    BY <1>0, <1>2 DEF Detach, ActiveSpace
  <2> QED
    BY <1>2, <2>1, IdleKeepsHistory
<1>3. CASE active.state \notin {"Free", "CommitPending"} /\ Take("Cancelled")
  BY <1>3, TakeKeepsHistory DEF Outcomes
<1> QED
  BY <1>1, <1>2, <1>3 DEF Retire

\* The history invariant is inductive, given the types.
LEMMA HistoryStep == ASSUME TypeInv, HistoryInv, [Next]_vars PROVE HistoryInv'
<1>1. ASSUME NEW op \in Operations, NEW rep \in Replacements,
             NEW producer \in Producers \cup {None}, Begin(op, rep, producer)
      PROVE  HistoryInv'
  BY <1>1, BeginKeepsHistory
<1>2. ASSUME NEW key \in BeganKeys, Transact(key) PROVE HistoryInv'
  BY <1>2, TransactKeepsHistory
<1>3. ASSUME NEW i \in 1..Last, NEW outcome \in Outcomes, HostDecide(i, outcome) PROVE HistoryInv'
  BY <1>3, HostDecideKeepsHistory
<1>4. ASSUME NEW i \in 1..Last, Settle(i) PROVE HistoryInv'
  BY <1>4, SettleKeepsHistory
<1>5. ASSUME NEW b \in Bindings, Rebind(b) PROVE HistoryInv'
  BY <1>5, RetireKeepsHistory DEF Rebind, EpochStep
<1>6. CASE Dispose
  BY <1>6, RetireKeepsHistory DEF Dispose, EpochStep
<1>7. CASE UNCHANGED vars
  BY <1>7, IdleKeepsHistory DEF vars, EpochStep
<1> QED
  BY <1>1, <1>2, <1>3, <1>4, <1>5, <1>6, <1>7 DEF Next

\* The coordinator and the history of its transactions stay linked: the active
\* transaction is the newest entry, every identity begun in this epoch is below
\* the high water (coordinator.rs finish, preflight.rs begin).
THEOREM HistoryInvariant == Spec => [](TypeInv /\ HistoryInv)
<1>1. Init => TypeInv /\ HistoryInv
  BY TypeInit, HistoryInit
<1>2. (TypeInv /\ HistoryInv) /\ [Next]_vars => (TypeInv /\ HistoryInv)'
  BY TypeStep, HistoryStep
<1> QED
  BY <1>1, <1>2, PTL DEF Spec

\* An admitted commit ends with the host's decision and no other transaction ends
\* as committed, for any number of transactions, bindings and rebinds
\* (settlement.rs, lifecycle.rs).
THEOREM AgreementHolds == Spec => []Agreement
  BY HistoryInvariant, PTL DEF HistoryInv

\* Every transaction ends once and is released once (coordinator.rs finish,
\* lifecycle.rs rebind and dispose).
THEOREM TerminalOnceHolds == Spec => []TerminalOnce
  BY HistoryInvariant, PTL DEF HistoryInv

\* A retired key never names the active transaction again (preflight.rs begin).
THEOREM RetiredKeysHold == Spec => []RetiredKeysStayRetired
<1>1. TypeInv /\ HistoryInv => RetiredKeysStayRetired
  <2> SUFFICES ASSUME TypeInv, HistoryInv, active.state # "Free"
               PROVE  /\ active.key = history[Last].key
                      /\ \A i \in 1..(Last - 1) : history[i].key # active.key
    BY DEF RetiredKeysStayRetired
  <2>1. Last \in Nat \ {0} /\ active.key = history[Last].key
    BY DEF HistoryInv, Linked, TypeInv, TypeOK, Recorded, Last
  <2> QED
    BY <2>1 DEF HistoryInv, KeysInv
<1> QED
  BY <1>1, HistoryInvariant, PTL
-----------------------------------------------------------------------------
(* What RangeEdit streams, freezes and admits: what is kept beside the pages is  *)
(* what the pages add up to, what was finished stays as it was finished, and the *)
(* coordinator implements EditTransaction.                                       *)

-----------------------------------------------------------------------------
(* The pages of a chain, added up.                                         *)

Column(chain, field) == [n \in 1..Len(chain) |-> chain[n][field]]

\* Added is the last of the partial sums of the field.
LEMMA AddedIsSum ==
  ASSUME NEW chain, Len(chain) \in Nat, NEW field
  PROVE  \E f : SumsOf(f, Column(chain, field), Len(chain)) /\ Added(chain, field) = f[Len(chain)]
<1> DEFINE N == Len(chain)
           sum == CHOOSE f : f = [n \in 0..N |-> IF n = 0 THEN 0 ELSE f[n - 1] + chain[n][field]]
<1>1. Added(chain, field) = sum[N]
  BY DEF Added
<1>2. PICK f : SumsOf(f, Column(chain, field), N)
  BY SumsExist
<1>3. f = [n \in 0..N |-> IF n = 0 THEN 0 ELSE f[n - 1] + chain[n][field]]
  <2>1. \A n \in 0..N : n # 0 => Column(chain, field)[n] = chain[n][field]
    BY DEF Column
  <2> QED
    BY <1>2, <2>1 DEF SumsOf
<1>4. sum = [n \in 0..N |-> IF n = 0 THEN 0 ELSE sum[n - 1] + chain[n][field]]
  BY <1>3
<1> HIDE DEF sum
<1>5. SumsOf(sum, Column(chain, field), N)
  BY <1>4 DEF SumsOf, Column
<1> QED
  BY <1>1, <1>5

\* Nothing adds up to zero.
LEMMA AddedEmpty == ASSUME NEW field PROVE Added(<<>>, field) = 0
<1>1. Len(<<>>) = 0
  OBVIOUS
<1>2. PICK f : SumsOf(f, Column(<<>>, field), 0) /\ Added(<<>>, field) = f[0]
  BY <1>1, AddedIsSum
<1> QED
  BY <1>2 DEF SumsOf

\* One more page adds its own value.
LEMMA AddedAppend ==
  ASSUME NEW S, NEW chain \in Seq(S), NEW p \in S, NEW field
  PROVE  Added(Append(chain, p), field) = Added(chain, field) + p[field]
<1>1. PICK v : v = Column(chain, field)
  OBVIOUS
<1>2. PICK w : w = Column(Append(chain, p), field)
  OBVIOUS
<1>3. PICK N \in Nat : N = Len(chain)
  OBVIOUS
<1>4. /\ Len(Append(chain, p)) = N + 1
      /\ w[N + 1] = p[field]
      /\ \A n \in 1..N : v[n] = w[n]
  BY <1>1, <1>2, <1>3 DEF Column
<1>5. PICK f : SumsOf(f, v, N) /\ Added(chain, field) = f[N]
  BY <1>1, <1>3, AddedIsSum
<1>6. PICK g : SumsOf(g, w, N + 1) /\ Added(Append(chain, p), field) = g[N + 1]
  <2>1. PICK longer : longer = Append(chain, p)
    OBVIOUS
  <2>2. Len(longer) \in Nat
    BY <1>4, <2>1
  <2>3. \E g : SumsOf(g, w, Len(longer)) /\ Added(longer, field) = g[Len(longer)]
    BY <1>2, <2>1, <2>2, AddedIsSum
  <2> QED
    BY <1>4, <2>1, <2>3
<1>7. f[N] = g[N]
  <2>1. N + 1 \in Nat /\ N <= N + 1
    OBVIOUS
  <2> QED
    BY <1>4, <1>5, <1>6, <2>1, SumsAgree
<1>8. g[N + 1] = g[N] + w[N + 1]
  BY <1>6 DEF SumsOf
<1> QED
  BY <1>4, <1>5, <1>6, <1>7, <1>8

-----------------------------------------------------------------------------
(* Phases and closures.  Each invariant is stated about a transaction, so   *)
(* that a step is a fact about the transaction it leaves.                   *)

\* Where a transaction is in its evidence protocol follows from its state; what
\* it froze is there from the freeze on and is what its pages add up to.
StagedIn(a) ==
  /\ a.state = "PreflightPending" =>
       a.phase \in {"NotRequested", "Unavailable", "Streaming", "Complete"}
  /\ a.state = "InputStreaming" => a.phase \in {"NotRequested", "RestartPending", "Staging"}
  /\ a.state \in {"FinishPending", "CommitPending"} =>
       /\ a.phase \in {"NotRequested", "Staging"}
       /\ a.intended \in Intents
       /\ a.intendedExtent = ExpectedExtent(a)
       /\ a.phase = "Staging" =>
            a.closure = [lanes |-> a.lanes, extent |-> a.intendedExtent, intent |-> a.intended]
  /\ a.phase \in {"Complete", "RestartPending", "Staging"} <=> a.closure # None
  /\ a.outstanding # None => a.phase = "Streaming" /\ a.outstanding + 1 = a.nextRequest
  /\ a.detached => a.state = "CommitPending"

\* LaneAccounting about any transaction.
AccountedIn(a) ==
  LET proposal == a.lanes["Proposal"]
  IN /\ \A lane \in Lanes : a.totals[lane] = Added(a.lanes[lane], "weight")
     /\ a.sequence.inserted = Added(proposal, "ins")
     /\ a.sequence.breaks = Added(proposal, "brk")
     /\ \A i \in 1..Len(proposal) :
          proposal[i].ins > 0 => proposal[i].off = Added(SubSeq(proposal, 1, i - 1), "ins")

\* The pages of a chain that have an effect on an object.
Hits(chain, object) ==
  {i \in 1..Len(chain) : chain[i].target = object /\ chain[i].effect # "None"}

\* ActiveObjectEffect about any transaction.  No two pages have one target: the
\* targets grow along the chain and the sequence state holds the last one.
EffectIn(a) ==
  LET chain == a.lanes["Proposal"]
  IN /\ \A i \in 1..Len(chain) : chain[i].target <= a.sequence.target
     /\ a.phase \in {"NotRequested", "Staging"} =>
          IF a.tracked = 0 \/ Hits(chain, a.tracked) = {} THEN a.effect = "None"
          ELSE \A i \in Hits(chain, a.tracked) : a.effect = chain[i].effect
     /\ a.state = "PreflightPending" /\ a.phase = "NotRequested" =>
          chain = <<>> /\ a.effect = "None"

\* An attached transaction is based on the document the widget is bound to.
BasedOnBinding ==
  active.state # "Free" /\ ~active.detached =>
    binding = [id |-> active.key.id, rev |-> active.key.rev, extent |-> active.extent]

PagesIn(a) == AccountedIn(a) /\ EffectIn(a)

StagingInv == StagedIn(active) /\ PagesIn(active) /\ BasedOnBinding

-----------------------------------------------------------------------------
(* The pages.                                                              *)

\* What a transaction owes its successor depends on its base and its pages only.
LEMMA ExpectedKept ==
  ASSUME NEW a, NEW b, b.extent = a.extent, b.rep = a.rep, b.sequence = a.sequence
  PROVE  ExpectedExtent(b) = ExpectedExtent(a)
<1>1. ExpectedBytes(b) = ExpectedBytes(a) /\ ExpectedBreaks(b) = ExpectedBreaks(a)
  BY DEF ExpectedBytes, ExpectedBreaks
<1> QED
  BY <1>1 DEF ExpectedExtent

\* A step that leaves the pages leaves what is kept beside them.
LEMMA PagesKept ==
  ASSUME NEW a, PagesIn(a), NEW b, b.lanes = a.lanes, b.totals = a.totals,
         b.sequence = a.sequence, b.effect = a.effect,
         b.phase \in {"NotRequested", "Staging"} =>
           a.phase \in {"NotRequested", "Staging"} /\ b.tracked = a.tracked,
         b.state = "PreflightPending" /\ b.phase = "NotRequested" =>
           a.state = "PreflightPending" /\ a.phase = "NotRequested"
  PROVE  PagesIn(b)
<1>1. AccountedIn(b)
  BY DEF PagesIn, AccountedIn
<1>2. EffectIn(b)
  BY DEF PagesIn, EffectIn
<1> QED
  BY <1>1, <1>2 DEF PagesIn

\* Without pages there is nothing to keep beside them.
LEMMA PagesEmpty ==
  ASSUME NEW a, a.lanes = EmptyLanes, a.totals = EmptyTotals, a.sequence = EmptySequence,
         a.effect = "None"
  PROVE  PagesIn(a)
<1>1. /\ \A lane \in Lanes : a.lanes[lane] = <<>> /\ a.totals[lane] = 0
      /\ a.lanes["Proposal"] = <<>>
      /\ a.sequence.inserted = 0 /\ a.sequence.breaks = 0
  BY DEF EmptyLanes, EmptyTotals, EmptySequence, Lanes
<1>2. AccountedIn(a)
  BY <1>1, AddedEmpty DEF AccountedIn
<1>3. EffectIn(a)
  BY <1>1 DEF EffectIn, Hits
<1> QED
  BY <1>2, <1>3 DEF PagesIn

\* The pages before the appended one are those there were.
LEMMA PrefixKept ==
  ASSUME NEW S, NEW chain \in Seq(S), NEW p \in S, NEW n \in 0..Len(chain)
  PROVE  /\ SubSeq(Append(chain, p), 1, n) = SubSeq(chain, 1, n)
         /\ SubSeq(chain, 1, Len(chain)) = chain
  OBVIOUS

\* A page that is accepted is accounted for, on the lane it was accepted on.
LEMMA AcceptedAccounted ==
  ASSUME NEW a \in ActiveSpace, AccountedIn(a), NEW lane \in Lanes, NEW p \in Payloads,
         Acceptable(a, lane, p)
  PROVE  AccountedIn(Accepted(a, lane, p))
<1> DEFINE b == Accepted(a, lane, p)
           chain == a.lanes["Proposal"]
<1>1. /\ b.lanes = [a.lanes EXCEPT ![lane] = Append(@, p)]
      /\ b.totals = [a.totals EXCEPT ![lane] = @ + p.weight]
      /\ b.sequence = IF lane = "Proposal" THEN Extend(a.sequence, p) ELSE a.sequence
  BY DEF Accepted, ActiveSpace
<1> SUFFICES AccountedIn(b)
  OBVIOUS
<1> HIDE DEF b
<1>2. /\ a.lanes \in [Lanes -> Seq(Payloads)] /\ a.totals \in [Lanes -> Nat]
      /\ chain \in Seq(Payloads) /\ a.lanes[lane] \in Seq(Payloads)
      /\ p \in PayloadSpace
  BY SpacesAssumption DEF ActiveSpace, Lanes
<1>3. /\ b.lanes[lane] = Append(a.lanes[lane], p)
      /\ b.totals[lane] = a.totals[lane] + p.weight
      /\ \A other \in Lanes \ {lane} :
           b.lanes[other] = a.lanes[other] /\ b.totals[other] = a.totals[other]
  BY <1>1, <1>2
<1>4. \A l \in Lanes : b.totals[l] = Added(b.lanes[l], "weight")
  <2>1. Added(b.lanes[lane], "weight") = Added(a.lanes[lane], "weight") + p["weight"]
    BY <1>2, <1>3, AddedAppend
  <2>2. \A l \in Lanes : a.totals[l] = Added(a.lanes[l], "weight")
    BY DEF AccountedIn
  <2>3. b.totals[lane] = Added(b.lanes[lane], "weight")
    BY <1>3, <2>1, <2>2
  <2>4. ASSUME NEW l \in Lanes, l # lane PROVE b.totals[l] = Added(b.lanes[l], "weight")
    <3>1. l \in Lanes \ {lane}
      BY <2>4
    <3>2. b.lanes[l] = a.lanes[l] /\ b.totals[l] = a.totals[l]
      BY <1>3, <3>1
    <3> QED
      BY <2>2, <3>2
  <2> QED
    BY <2>3, <2>4
<1>5. CASE lane # "Proposal"
  <2>1. b.lanes["Proposal"] = chain /\ b.sequence = a.sequence
    BY <1>1, <1>3, <1>5 DEF Lanes
  <2> QED
    BY <1>4, <2>1 DEF AccountedIn
<1>6. CASE lane = "Proposal"
  <2> DEFINE longer == Append(chain, p)
             N == Len(chain)
  <2>1. b.lanes["Proposal"] = longer
    BY <1>3, <1>6
  <2>2. /\ b.sequence.inserted = a.sequence.inserted + p["ins"]
        /\ b.sequence.breaks = a.sequence.breaks + p["brk"]
    BY <1>1, <1>6 DEF Extend
  <2>3. /\ b.sequence.inserted = Added(longer, "ins")
        /\ b.sequence.breaks = Added(longer, "brk")
    BY <1>2, <2>2, AddedAppend DEF AccountedIn
  <2>4. ASSUME NEW i \in 1..Len(longer), longer[i].ins > 0
        PROVE  longer[i].off = Added(SubSeq(longer, 1, i - 1), "ins")
    <3>1. i \in 1..(N + 1) /\ N \in Nat /\ i - 1 \in 0..N
      BY <1>2
    <3>2. SubSeq(longer, 1, i - 1) = SubSeq(chain, 1, i - 1)
      BY <1>2, <3>1, PrefixKept
    <3>3. CASE i <= N
      <4>1. longer[i] = chain[i] /\ i \in 1..N
        BY <1>2, <3>1, <3>3
      <4> QED
        BY <2>4, <3>2, <4>1 DEF AccountedIn
    <3>4. CASE i = N + 1
      <4>1. longer[i] = p /\ i - 1 = N
        BY <1>2, <3>1, <3>4
      <4>2. SubSeq(chain, 1, N) = chain
        BY <1>2, <3>1, PrefixKept
      <4>3. p.off = a.sequence.inserted
        BY <1>6, <2>4, <4>1 DEF Acceptable, Continues
      <4> QED
        BY <3>2, <4>1, <4>2, <4>3 DEF AccountedIn
    <3> QED
      BY <3>1, <3>3, <3>4
  <2>5. \A i \in 1..Len(longer) :
          longer[i].ins > 0 => longer[i].off = Added(SubSeq(longer, 1, i - 1), "ins")
    BY <2>4
  <2> HIDE DEF longer
  <2> QED
    BY <1>4, <2>1, <2>3, <2>5 DEF AccountedIn
<1> QED
  BY <1>5, <1>6

\* A page that is accepted has the effect that is reported, if it has one on the
\* tracked object: its target is beyond the targets of the pages before it.
LEMMA AcceptedEffect ==
  ASSUME NEW a \in ActiveSpace, EffectIn(a), NEW lane \in Lanes, NEW p \in Payloads,
         Acceptable(a, lane, p), ~(a.state = "PreflightPending" /\ a.phase = "NotRequested")
  PROVE  EffectIn(Accepted(a, lane, p))
<1> DEFINE b == Accepted(a, lane, p)
           chain == a.lanes["Proposal"]
           N == Len(chain)
<1>1. /\ b.lanes = [a.lanes EXCEPT ![lane] = Append(@, p)]
      /\ b.sequence = IF lane = "Proposal" THEN Extend(a.sequence, p) ELSE a.sequence
      /\ b.effect = IF lane = "Proposal" THEN EffectOn(a, p) ELSE a.effect
      /\ b.phase = a.phase /\ b.state = a.state /\ b.tracked = a.tracked
  BY DEF Accepted, ActiveSpace
<1> SUFFICES EffectIn(b)
  OBVIOUS
<1> HIDE DEF b
<1>2. /\ a.lanes \in [Lanes -> Seq(Payloads)]
      /\ chain \in Seq(Payloads) /\ N \in Nat
      /\ p \in PayloadSpace /\ p.target \in Nat
      /\ a.tracked \in Nat /\ a.sequence.target \in Nat
      /\ \A i \in 1..N : chain[i] \in PayloadSpace /\ chain[i].target \in Nat
  <2>1. a.lanes \in [Lanes -> Seq(Payloads)] /\ chain \in Seq(Payloads)
    BY DEF ActiveSpace, Lanes
  <2>2. a.tracked \in Nat /\ a.sequence.target \in Nat
    BY DEF ActiveSpace, SequenceSpace
  <2>3. \A q \in Payloads : q \in PayloadSpace /\ q.target \in Nat
    BY SpacesAssumption DEF PayloadSpace
  <2>4. N \in Nat /\ \A i \in 1..N : chain[i] \in Payloads
    BY <2>1
  <2> QED
    BY <2>1, <2>2, <2>3, <2>4
<1>3. CASE lane # "Proposal"
  <2>1. b.lanes["Proposal"] = chain /\ b.sequence = a.sequence /\ b.effect = a.effect
    BY <1>1, <1>2, <1>3 DEF Lanes
  <2> QED
    BY <1>1, <2>1 DEF EffectIn
<1>4. CASE lane = "Proposal"
  <2> DEFINE longer == Append(chain, p)
  <2>1. /\ b.lanes["Proposal"] = longer
        /\ b.sequence.target = IF p.target > 0 THEN p.target ELSE a.sequence.target
        /\ b.effect = EffectOn(a, p)
    BY <1>1, <1>2, <1>4 DEF Extend
  <2>2. /\ Len(longer) = N + 1 /\ longer[N + 1] = p
        /\ \A i \in 1..N : longer[i] = chain[i]
    BY <1>2
  <2>3. p.target > 0 => p.target > a.sequence.target
    BY <1>4 DEF Acceptable, Continues
  <2>4. \A i \in 1..N : chain[i].target <= a.sequence.target
    BY DEF EffectIn
  <2>0. \A i : i \in Hits(chain, a.tracked) <=>
                 i \in 1..N /\ chain[i].target = a.tracked /\ chain[i].effect # "None"
    BY DEF Hits
  <2> HIDE DEF longer, N
  <2>5. ASSUME NEW i \in 1..Len(longer) PROVE longer[i].target <= b.sequence.target
    <3>1. i \in 1..N \/ i = N + 1
      BY <1>2, <2>2
    <3>2. CASE i = N + 1
      BY <1>2, <2>1, <2>2, <2>3, <3>2
    <3>3. CASE i \in 1..N
      <4>1. longer[i].target = chain[i].target /\ chain[i].target \in Nat
            /\ chain[i].target <= a.sequence.target
        BY <1>2, <2>2, <2>4, <3>3
      <4> QED
        BY <1>2, <2>1, <2>3, <4>1
    <3> QED
      BY <3>1, <3>2, <3>3
  <2>6. ASSUME b.phase \in {"NotRequested", "Staging"}
        PROVE  IF b.tracked = 0 \/ Hits(longer, b.tracked) = {} THEN b.effect = "None"
               ELSE \A i \in Hits(longer, b.tracked) : b.effect = longer[i].effect
    <3>1. IF a.tracked = 0 \/ Hits(chain, a.tracked) = {} THEN a.effect = "None"
          ELSE \A i \in Hits(chain, a.tracked) : a.effect = chain[i].effect
      BY <1>1, <2>6 DEF EffectIn
    <3>2. CASE a.tracked = 0
      BY <1>1, <1>2, <2>1, <3>1, <3>2 DEF EffectOn
    <3>3. CASE a.tracked # 0 /\ p.target = a.tracked /\ p.effect # "None"
      <4>1. Hits(longer, a.tracked) = {N + 1}
        <5>1. ASSUME NEW i \in 1..N PROVE longer[i].target # a.tracked
          <6>1. longer[i].target <= a.sequence.target
            BY <2>2, <2>4
          <6>2. a.tracked > a.sequence.target
            BY <1>2, <2>3, <3>3
          <6> QED
            BY <1>2, <6>1, <6>2
        <5>2. Hits(longer, a.tracked) \subseteq {N + 1}
          <6> SUFFICES ASSUME NEW i \in 1..(N + 1), longer[i].target = a.tracked PROVE i = N + 1
            BY <2>2 DEF Hits
          <6>1. i \notin 1..N
            BY <5>1
          <6> QED
            BY <1>2, <6>1
        <5>3. N + 1 \in 1..(N + 1) /\ longer[N + 1].target = a.tracked /\ longer[N + 1].effect # "None"
          BY <1>2, <2>2, <3>3
        <5> QED
          BY <2>2, <5>2, <5>3 DEF Hits
      <4>2. b.effect = p.effect
        BY <1>2, <2>1, <3>3 DEF EffectOn
      <4> QED
        BY <1>1, <2>2, <3>3, <4>1, <4>2
    <3>4. CASE a.tracked # 0 /\ ~(p.target = a.tracked /\ p.effect # "None")
      <4>1. Hits(longer, a.tracked) = Hits(chain, a.tracked)
        <5>1. \A i \in 1..(N + 1) : i \in 1..N \/ i = N + 1
          BY <1>2
        <5>2. \A i \in 1..N : i \in 1..(N + 1) /\ longer[i] = chain[i]
          BY <1>2, <2>2
        <5>3. ~(longer[N + 1].target = a.tracked /\ longer[N + 1].effect # "None")
          BY <2>2, <3>4
        <5>4. \A i : i \in Hits(longer, a.tracked) <=> i \in Hits(chain, a.tracked)
          BY <2>0, <2>2, <5>1, <5>2, <5>3 DEF Hits
        <5> QED
          BY <5>4 DEF Hits
      <4>2. b.effect = a.effect
        BY <2>1, <3>4 DEF EffectOn
      <4>3. \A i \in Hits(chain, a.tracked) : longer[i] = chain[i]
        BY <2>0, <2>2
      <4> QED
        BY <1>1, <3>1, <3>4, <4>1, <4>2, <4>3
    <3> QED
      BY <3>2, <3>3, <3>4
  <2> QED
    BY <1>1, <2>1, <2>5, <2>6 DEF EffectIn
<1> QED
  BY <1>3, <1>4

\* The absent transaction: nothing streamed, nothing frozen.
LEMMA InactiveStaged == StagedIn(Inactive) /\ PagesIn(Inactive) /\ Inactive.state = "Free"
<1>1. PagesIn(Inactive)
  BY PagesEmpty DEF Inactive
<1> QED
  BY <1>1 DEF Inactive, StagedIn

-----------------------------------------------------------------------------
(* The invariant is inductive.                                             *)

LEMMA StagingInit == ASSUME Init PROVE StagingInv
  BY InactiveStaged DEF Init, StagingInv, BasedOnBinding

\* A step that ends the active transaction, whatever it does to the binding.
LEMMA TakeStaged == ASSUME NEW outcome, Take(outcome) PROVE StagingInv'
  BY InactiveStaged DEF Take, StagingInv, BasedOnBinding

\* A step that replaces the active transaction only.
LEMMA UpdateStaged ==
  ASSUME StagingInv, NEW a, Update(a), StagedIn(a), PagesIn(a), active.state # "Free",
         a.key = active.key, a.extent = active.extent, a.detached = active.detached
  PROVE  StagingInv'
  BY DEF StagingInv, BasedOnBinding, Update

\* begin takes the binding as the base and has no pages yet.
LEMMA BeginStaged ==
  ASSUME TypeInv, NEW op, NEW rep, NEW producer, Begin(op, rep, producer)
  PROVE  StagingInv'
<1> DEFINE key == [id |-> binding.id, rev |-> binding.rev, op |-> op]
           a == Fresh(key, rep, producer)
<1>1. active' = a /\ binding' = binding
  BY DEF Begin
<1>2. /\ a.state = "PreflightPending" /\ a.phase = "NotRequested" /\ a.closure = None
      /\ a.outstanding = None /\ a.detached = FALSE
      /\ a.lanes = EmptyLanes /\ a.totals = EmptyTotals /\ a.sequence = EmptySequence
      /\ a.effect = "None" /\ a.key = key /\ a.extent = binding.extent
  BY DEF Fresh, Inactive
<1> HIDE DEF a
<1>3. StagedIn(a)
  BY <1>2 DEF StagedIn
<1>4. PagesIn(a)
  BY <1>2, PagesEmpty
<1>5. a.key.id = binding.id /\ a.key.rev = binding.rev
  BY <1>2
<1>6. binding = [id |-> binding.id, rev |-> binding.rev, extent |-> binding.extent]
  BY DEF TypeInv, TypeOK
<1> QED
  BY <1>1, <1>2, <1>3, <1>4, <1>5, <1>6 DEF StagingInv, BasedOnBinding

\* A page is accepted where the pass allows it.
LEMMA AcceptedStaged ==
  ASSUME NEW a \in ActiveSpace, StagedIn(a), PagesIn(a),
         a.state = "InputStreaming" \/ (a.state = "PreflightPending" /\ a.phase = "Streaming"),
         NEW lane \in Lanes, NEW p \in Payloads, Acceptable(a, lane, p)
  PROVE  StagedIn(Accepted(a, lane, p)) /\ PagesIn(Accepted(a, lane, p))
<1> DEFINE b == Accepted(a, lane, p)
<1>1. PagesIn(b)
  BY AcceptedAccounted, AcceptedEffect DEF PagesIn
<1>2. /\ b.state = a.state /\ b.phase = a.phase /\ b.closure = a.closure
      /\ b.outstanding = a.outstanding /\ b.nextRequest = a.nextRequest /\ b.detached = a.detached
  BY DEF Accepted, ActiveSpace
<1> HIDE DEF b
<1>3. StagedIn(b)
  BY <1>2 DEF StagedIn
<1> QED
  BY <1>1, <1>3 DEF b

\* An evidence page awaits its acknowledgement: the newest request is outstanding.
LEMMA AwaitStaged ==
  ASSUME NEW a \in ActiveSpace, StagedIn(a), PagesIn(a),
         a.state = "PreflightPending", a.phase = "Streaming"
  PROVE  StagedIn(AwaitAcknowledgement(a)) /\ PagesIn(AwaitAcknowledgement(a))
<1> DEFINE b == AwaitAcknowledgement(a)
<1>1. /\ b.lanes = a.lanes /\ b.totals = a.totals /\ b.sequence = a.sequence /\ b.effect = a.effect
      /\ b.tracked = a.tracked
      /\ b.state = a.state /\ b.phase = a.phase /\ b.closure = a.closure /\ b.detached = a.detached
      /\ b.outstanding = a.nextRequest /\ b.nextRequest = a.nextRequest + 1
  BY DEF AwaitAcknowledgement, ActiveSpace
<1> HIDE DEF b
<1>2. StagedIn(b)
  BY <1>1 DEF StagedIn
<1>3. PagesIn(b)
  BY <1>1, PagesKept
<1> QED
  BY <1>2, <1>3 DEF b

\* What a freeze leaves alone, and what it fixes.
LEMMA FreezeFields ==
  ASSUME NEW a \in ActiveSpace, NEW finish
  PROVE  LET f == Freeze(a, finish) IN
           /\ f.lanes = a.lanes /\ f.totals = a.totals /\ f.sequence = a.sequence
           /\ f.effect = a.effect /\ f.tracked = a.tracked
           /\ f.key = a.key /\ f.rep = a.rep /\ f.extent = a.extent
           /\ f.state = a.state /\ f.phase = a.phase /\ f.closure = a.closure
           /\ f.outstanding = a.outstanding /\ f.nextRequest = a.nextRequest
           /\ f.detached = a.detached
           /\ f.intended = finish.intent /\ f.intendedExtent = finish.extent
  BY DEF Freeze, ActiveSpace

\* Input that is finished is frozen as it was streamed, and as it was closed before
\* when it is the second pass.
LEMMA FinishStaged ==
  ASSUME TypeInv, StagedIn(active), PagesIn(active), active.state = "InputStreaming",
         NEW finish \in Declarable, FinishAdmissible(active, finish),
         \/ active.phase = "NotRequested"
         \/ active.phase = "Staging" /\ finish = active.closure
  PROVE  LET a == [Freeze(active, finish) EXCEPT !.state = "FinishPending"] IN
           /\ StagedIn(a) /\ PagesIn(a)
           /\ a.key = active.key /\ a.extent = active.extent /\ a.detached = active.detached
<1> DEFINE f == Freeze(active, finish)
           a == [f EXCEPT !.state = "FinishPending"]
<1>1. active \in ActiveSpace /\ f \in ActiveSpace /\ finish \in FinishSpace
  BY FreezeType DEF TypeInv, TypeOK
<1>2. /\ f.lanes = active.lanes /\ f.totals = active.totals /\ f.sequence = active.sequence
      /\ f.effect = active.effect /\ f.tracked = active.tracked
      /\ f.key = active.key /\ f.rep = active.rep /\ f.extent = active.extent
      /\ f.phase = active.phase /\ f.closure = active.closure
      /\ f.outstanding = active.outstanding /\ f.nextRequest = active.nextRequest
      /\ f.detached = active.detached
      /\ f.intended = finish.intent /\ f.intendedExtent = finish.extent
  BY <1>1, FreezeFields
<1> HIDE DEF f
<1>3. /\ a.lanes = active.lanes /\ a.totals = active.totals /\ a.sequence = active.sequence
      /\ a.effect = active.effect /\ a.tracked = active.tracked
      /\ a.key = active.key /\ a.rep = active.rep /\ a.extent = active.extent
      /\ a.state = "FinishPending" /\ a.phase = active.phase /\ a.closure = active.closure
      /\ a.outstanding = active.outstanding /\ a.nextRequest = active.nextRequest
      /\ a.detached = active.detached
      /\ a.intended = finish.intent /\ a.intendedExtent = finish.extent
  BY <1>1, <1>2 DEF ActiveSpace
<1>4. finish = FinishOf(active, finish.intent) /\ finish.intent \in Intents
  BY <1>1 DEF FinishAdmissible, FinishSpace
<1>5. finish.extent = ExpectedExtent(active)
  BY <1>4 DEF FinishOf
<1> HIDE DEF a
<1>6. a.intendedExtent = ExpectedExtent(a)
  BY <1>3, <1>5, ExpectedKept
<1>7. a.phase = "Staging" =>
        a.closure = [lanes |-> a.lanes, extent |-> a.intendedExtent, intent |-> a.intended]
  BY <1>3, <1>4, <1>5 DEF FinishOf
<1>8. StagedIn(a)
  BY <1>3, <1>4, <1>6, <1>7 DEF StagedIn
<1>9. PagesIn(a)
  BY <1>3, PagesKept
<1> QED
  BY <1>3, <1>8, <1>9 DEF a, f

\* The closure of the evidence pass is frozen once, with no page unacknowledged.
LEMMA FinishEvidenceStaged ==
  ASSUME TypeInv, StagingInv, NEW key, NEW finish \in Declarable, FinishEvidence(key, finish)
  PROVE  StagingInv'
<1> DEFINE f == Freeze(active, finish)
           a == [f EXCEPT !.closure = finish, !.phase = "Complete"]
<1>0. active.state = "PreflightPending" /\ active.outstanding = None /\ Update(a)
  BY DEF FinishEvidence, EvidenceOpen, Named
<1>1. active \in ActiveSpace /\ f \in ActiveSpace /\ finish \in FinishSpace
  BY <1>0, FreezeType DEF TypeInv, TypeOK
<1>2. /\ f.lanes = active.lanes /\ f.totals = active.totals /\ f.sequence = active.sequence
      /\ f.effect = active.effect /\ f.key = active.key /\ f.extent = active.extent
      /\ f.state = active.state /\ f.outstanding = active.outstanding
      /\ f.detached = active.detached
  BY <1>1, FreezeFields
<1> HIDE DEF f
<1>3. /\ a.lanes = active.lanes /\ a.totals = active.totals /\ a.sequence = active.sequence
      /\ a.effect = active.effect /\ a.key = active.key /\ a.extent = active.extent
      /\ a.state = "PreflightPending" /\ a.outstanding = None
      /\ a.detached = active.detached /\ a.phase = "Complete" /\ a.closure = finish
  BY <1>0, <1>1, <1>2 DEF ActiveSpace
<1>4. finish # None
  BY <1>1, NoneAssumption
<1> HIDE DEF a
<1>5. StagedIn(a)
  BY <1>0, <1>3, <1>4 DEF StagedIn, StagingInv
<1>6. PagesIn(a)
  BY <1>3, PagesKept DEF StagingInv
<1> QED
  BY <1>0, <1>3, <1>5, <1>6, UpdateStaged

\* What the preflight accepts has no page yet, or pages that a restart will drop.
LEMMA AcceptPreflightStaged ==
  ASSUME TypeInv, StagingInv, NEW key, NEW tracked, AcceptPreflight(key, tracked)
  PROVE  StagingInv'
<1> DEFINE phase == IF active.phase = "Complete" THEN "RestartPending" ELSE active.phase
           a == [active EXCEPT !.state = "InputStreaming", !.tracked = tracked, !.phase = phase]
<1>0. /\ active.state = "PreflightPending" /\ active.phase \in {"NotRequested", "Complete"}
      /\ Update(a) /\ active \in ActiveSpace
  BY DEF AcceptPreflight, Named, TypeInv, TypeOK, ActiveSpace
<1> HIDE DEF phase
<1>1. /\ a.lanes = active.lanes /\ a.totals = active.totals /\ a.sequence = active.sequence
      /\ a.effect = active.effect /\ a.key = active.key /\ a.extent = active.extent
      /\ a.closure = active.closure /\ a.outstanding = active.outstanding
      /\ a.nextRequest = active.nextRequest /\ a.detached = active.detached
      /\ a.state = "InputStreaming" /\ a.phase = phase /\ a.tracked = tracked
  BY <1>0 DEF ActiveSpace
<1> HIDE DEF a
<1>2. StagedIn(a)
  BY <1>0, <1>1 DEF StagedIn, StagingInv, phase
<1>3. PagesIn(a)
  <2>1. CASE active.phase = "Complete"
    <3>1. a.phase = "RestartPending"
      BY <1>1, <2>1 DEF phase
    <3> QED
      BY <1>1, <3>1, PagesKept DEF StagingInv
  <2>2. CASE active.phase = "NotRequested"
    <3>1. active.lanes["Proposal"] = <<>> /\ active.effect = "None"
      BY <1>0, <2>2 DEF StagingInv, PagesIn, EffectIn
    <3>2. AccountedIn(a)
      BY <1>1 DEF StagingInv, PagesIn, AccountedIn
    <3>3. EffectIn(a)
      BY <1>1, <3>1 DEF EffectIn, Hits
    <3> QED
      BY <3>2, <3>3 DEF PagesIn
  <2> QED
    BY <1>0, <2>1, <2>2
<1> QED
  BY <1>0, <1>1, <1>2, <1>3, UpdateStaged

\* The restart drops the pages and everything that was derived from them.
LEMMA AcknowledgeRestartStaged ==
  ASSUME TypeInv, StagingInv, NEW key, AcknowledgeRestart(key)
  PROVE  StagingInv'
<1> DEFINE a == [active EXCEPT !.lanes = EmptyLanes, !.totals = EmptyTotals,
                   !.sequence = EmptySequence, !.effect = "None",
                   !.intended = None, !.intendedExtent = None, !.phase = "Staging"]
<1>0. /\ active.state = "InputStreaming" /\ active.phase = "RestartPending"
      /\ Update(a) /\ active \in ActiveSpace
  BY DEF AcknowledgeRestart, Named, TypeInv, TypeOK
<1>1. /\ a.lanes = EmptyLanes /\ a.totals = EmptyTotals /\ a.sequence = EmptySequence
      /\ a.effect = "None" /\ a.key = active.key /\ a.extent = active.extent
      /\ a.closure = active.closure /\ a.outstanding = active.outstanding
      /\ a.detached = active.detached /\ a.state = active.state /\ a.phase = "Staging"
  BY <1>0 DEF ActiveSpace
<1> HIDE DEF a
<1>2. StagedIn(a)
  BY <1>0, <1>1 DEF StagedIn, StagingInv
<1>3. PagesIn(a)
  BY <1>1, PagesEmpty
<1> QED
  BY <1>0, <1>1, <1>2, <1>3, UpdateStaged

\* What is admitted or detached is what was finished: only the state or the mark changes.
LEMMA FrozenStaged ==
  ASSUME StagedIn(active), PagesIn(active), active \in ActiveSpace,
         active.state \in {"FinishPending", "CommitPending"},
         NEW detached \in BOOLEAN, NEW a,
         a = [active EXCEPT !.state = "CommitPending", !.detached = detached]
  PROVE  /\ StagedIn(a) /\ PagesIn(a)
         /\ a.key = active.key /\ a.extent = active.extent /\ a.detached = detached
         /\ a.state = "CommitPending"
         /\ a.lanes = active.lanes /\ a.intended = active.intended
         /\ a.intendedExtent = active.intendedExtent
<1>1. /\ a.lanes = active.lanes /\ a.totals = active.totals /\ a.sequence = active.sequence
      /\ a.effect = active.effect /\ a.tracked = active.tracked
      /\ a.key = active.key /\ a.rep = active.rep /\ a.extent = active.extent
      /\ a.phase = active.phase /\ a.closure = active.closure
      /\ a.outstanding = active.outstanding /\ a.nextRequest = active.nextRequest
      /\ a.intended = active.intended /\ a.intendedExtent = active.intendedExtent
      /\ a.state = "CommitPending" /\ a.detached = detached
  BY DEF ActiveSpace
<1>2. a.intendedExtent = ExpectedExtent(a)
  BY <1>1, ExpectedKept, ZenonT(60) DEF StagedIn
<1>3. StagedIn(a)
  BY <1>1, <1>2 DEF StagedIn
<1>4. PagesIn(a)
  BY <1>1, PagesKept
<1> QED
  BY <1>1, <1>3, <1>4

\* Every call that names the active transaction keeps the staging invariant.
LEMMA TransactStaged ==
  ASSUME TypeInv, StagingInv, NEW key, Transact(key)
  PROVE  StagingInv'
<1> USE DEF Named
<1>0. active \in ActiveSpace /\ StagedIn(active) /\ PagesIn(active)
  BY DEF TypeInv, TypeOK, StagingInv
<1>1. CASE RequestEvidence(key)
  <2> DEFINE phase == IF active.producer = None THEN "Unavailable" ELSE "Streaming"
             a == [active EXCEPT !.phase = phase]
  <2>0. /\ active.state = "PreflightPending" /\ active.phase = "NotRequested" /\ Update(a)
        /\ phase \in {"Unavailable", "Streaming"}
    BY <1>1 DEF RequestEvidence
  <2> HIDE DEF phase
  <2>1. /\ a.lanes = active.lanes /\ a.totals = active.totals /\ a.sequence = active.sequence
        /\ a.effect = active.effect /\ a.key = active.key /\ a.extent = active.extent
        /\ a.closure = active.closure /\ a.outstanding = active.outstanding
        /\ a.state = "PreflightPending" /\ a.detached = active.detached /\ a.phase = phase
    BY <1>0, <2>0 DEF ActiveSpace
  <2> HIDE DEF a
  <2>2. StagedIn(a)
    BY <1>0, <2>0, <2>1 DEF StagedIn
  <2>3. PagesIn(a)
    BY <1>0, <2>0, <2>1, PagesKept
  <2> QED
    BY <2>0, <2>1, <2>2, <2>3, UpdateStaged
<1>2. ASSUME NEW tracked, AcceptPreflight(key, tracked) PROVE StagingInv'
  BY <1>2, AcceptPreflightStaged
<1>3. ASSUME NEW outcome, FinishUnchanged(outcome) PROVE StagingInv'
  BY <1>3, TakeStaged DEF FinishUnchanged
<1>4. RejectPreflight(key) \/ RejectInput(key) \/ Cancel(key) => StagingInv'
  BY <1>3 DEF RejectPreflight, RejectInput, Cancel
<1>5. ASSUME NEW lane \in Lanes, NEW p \in Payloads
      PROVE  /\ Accepted(active, lane, p).key = active.key
             /\ Accepted(active, lane, p).extent = active.extent
             /\ Accepted(active, lane, p).detached = active.detached
             /\ Accepted(active, lane, p).state = active.state
             /\ Accepted(active, lane, p).phase = active.phase
  BY <1>0 DEF Accepted, ActiveSpace
<1>6. ASSUME NEW lane \in Lanes, NEW p \in Payloads, AcceptPage(key, lane, p) PROVE StagingInv'
  <2>1. active.state = "InputStreaming" /\ Acceptable(active, lane, p) /\ Update(Accepted(active, lane, p))
    BY <1>6 DEF AcceptPage, StagingOpen
  <2>2. StagedIn(Accepted(active, lane, p)) /\ PagesIn(Accepted(active, lane, p))
    BY <1>0, <2>1, AcceptedStaged
  <2> QED
    BY <1>5, <2>1, <2>2, UpdateStaged
<1>7. ASSUME NEW lane \in Lanes, NEW p \in Payloads, SubmitEvidencePage(key, lane, p) PROVE StagingInv'
  <2>1. active.state = "PreflightPending" /\ active.phase = "Streaming"
    BY <1>7 DEF SubmitEvidencePage, EvidenceOpen
  <2>2. ASSUME NEW a \in ActiveSpace, StagedIn(a), PagesIn(a), a.state = "PreflightPending",
               a.phase = "Streaming", a.key = active.key, a.extent = active.extent,
               a.detached = active.detached, Update(AwaitAcknowledgement(a))
        PROVE  StagingInv'
    <3>1. StagedIn(AwaitAcknowledgement(a)) /\ PagesIn(AwaitAcknowledgement(a))
      BY <2>2, AwaitStaged
    <3>2. /\ AwaitAcknowledgement(a).key = a.key /\ AwaitAcknowledgement(a).extent = a.extent
          /\ AwaitAcknowledgement(a).detached = a.detached
      BY DEF AwaitAcknowledgement, ActiveSpace
    <3> QED
      BY <2>1, <2>2, <3>1, <3>2, UpdateStaged
  <2>3. CASE Acceptable(active, lane, p) /\ Update(AwaitAcknowledgement(Accepted(active, lane, p)))
    <3>1. StagedIn(Accepted(active, lane, p)) /\ PagesIn(Accepted(active, lane, p))
      BY <1>0, <2>1, <2>3, AcceptedStaged
    <3>2. Accepted(active, lane, p) \in ActiveSpace
      BY AcceptedType DEF TypeInv, TypeOK, Grounded
    <3> QED
      BY <1>5, <2>1, <2>2, <2>3, <3>1, <3>2
  <2>4. CASE Update(AwaitAcknowledgement(active))
    BY <1>0, <2>1, <2>2, <2>4
  <2> QED
    BY <1>7, <2>3, <2>4 DEF SubmitEvidencePage
<1>8. ASSUME NEW lane, NEW p, CollidingPage(key, lane, p) PROVE StagingInv'
  BY <1>3, <1>8 DEF CollidingPage
<1>9. ASSUME NEW request, AcknowledgeEvidencePage(key, request) PROVE StagingInv'
  <2> DEFINE a == [active EXCEPT !.outstanding = None]
  <2>0. active.state = "PreflightPending" /\ active.phase = "Streaming" /\ Update(a)
    BY <1>9 DEF AcknowledgeEvidencePage
  <2>1. /\ a.lanes = active.lanes /\ a.totals = active.totals /\ a.sequence = active.sequence
        /\ a.effect = active.effect /\ a.key = active.key /\ a.extent = active.extent
        /\ a.closure = active.closure /\ a.outstanding = None /\ a.phase = active.phase
        /\ a.state = "PreflightPending" /\ a.detached = active.detached
    BY <1>0, <2>0 DEF ActiveSpace
  <2> HIDE DEF a
  <2>2. StagedIn(a)
    BY <1>0, <2>0, <2>1 DEF StagedIn
  <2>3. PagesIn(a)
    BY <1>0, <2>0, <2>1, PagesKept
  <2> QED
    BY <2>0, <2>1, <2>2, <2>3, UpdateStaged
<1>10. ASSUME NEW finish \in Declarable, FinishEvidence(key, finish) PROVE StagingInv'
  BY <1>10, FinishEvidenceStaged
<1>11. ASSUME NEW finish \in Declarable, FinishInput(key, finish) PROVE StagingInv'
  <2>1. /\ active.state = "InputStreaming" /\ active.phase = "NotRequested"
        /\ FinishAdmissible(active, finish)
        /\ Update([Freeze(active, finish) EXCEPT !.state = "FinishPending"])
    BY <1>11 DEF FinishInput
  <2> QED
    BY <1>0, <2>1, FinishStaged, UpdateStaged
<1>12. ASSUME NEW finish \in Declarable, FinishPassInput(key, finish) PROVE StagingInv'
  <2>1. CASE finish = active.closure /\ FinishAdmissible(active, finish)
    <3>1. /\ active.state = "InputStreaming" /\ active.phase = "Staging"
          /\ Update([Freeze(active, finish) EXCEPT !.state = "FinishPending"])
      BY <1>12, <2>1 DEF FinishPassInput
    <3> QED
      BY <1>0, <2>1, <3>1, FinishStaged, UpdateStaged
  <2>2. CASE ~(finish = active.closure /\ FinishAdmissible(active, finish))
    BY <1>3, <1>12, <2>2 DEF FinishPassInput
  <2> QED
    BY <2>1, <2>2
<1>13. CASE AcknowledgeRestart(key)
  BY <1>13, AcknowledgeRestartStaged
<1>14. CASE AdmitCommit(key)
  <2>1. active.state = "FinishPending" /\ active' = [active EXCEPT !.state = "CommitPending"]
        /\ binding' = binding
    BY <1>14 DEF AdmitCommit
  <2>2. active.detached \in BOOLEAN
        /\ active' = [active EXCEPT !.state = "CommitPending", !.detached = active.detached]
    BY <1>0, <2>1 DEF ActiveSpace
  <2>3. /\ StagedIn(active') /\ PagesIn(active') /\ active'.key = active.key
        /\ active'.extent = active.extent /\ active'.detached = active.detached
    BY <1>0, <2>1, <2>2, FrozenStaged
  <2> QED
    BY <2>1, <2>3 DEF StagingInv, BasedOnBinding
<1> QED
  BY <1>1, <1>2, <1>4, <1>6, <1>7, <1>8, <1>9, <1>10, <1>11, <1>12, <1>13, <1>14 DEF Transact

\* Rebind and dispose: an admitted transaction is detached and stays as it was frozen.
LEMMA RetireStaged ==
  ASSUME TypeInv, StagingInv, Retire
  PROVE  StagingInv'
<1>0. active \in ActiveSpace /\ StagedIn(active) /\ PagesIn(active)
  BY DEF TypeInv, TypeOK, StagingInv
<1>1. CASE active.state = "Free" /\ active' = active
  BY <1>0, <1>1 DEF StagingInv, BasedOnBinding
<1>2. CASE active.state = "CommitPending" /\ Detach
  <2>1. active' = [active EXCEPT !.state = "CommitPending", !.detached = TRUE]
    BY <1>0, <1>2 DEF Detach, ActiveSpace
  <2>2. StagedIn(active') /\ PagesIn(active') /\ active'.detached
    BY <1>0, <1>2, <2>1, FrozenStaged
  <2> QED
    BY <2>2 DEF StagingInv, BasedOnBinding
<1>3. CASE Take("Cancelled")
  BY <1>3, TakeStaged
<1> QED
  BY <1>1, <1>2, <1>3 DEF Retire

\* The staging invariant is inductive, given the types.
LEMMA StagingStep == ASSUME TypeInv, StagingInv, [Next]_vars PROVE StagingInv'
<1>1. ASSUME NEW op, NEW rep, NEW producer, Begin(op, rep, producer) PROVE StagingInv'
  BY <1>1, BeginStaged
<1>2. ASSUME NEW key, Transact(key) PROVE StagingInv'
  BY <1>2, TransactStaged
<1>3. ASSUME NEW i, NEW outcome, HostDecide(i, outcome) PROVE StagingInv'
  BY <1>3 DEF HostDecide, StagingInv, BasedOnBinding
<1>4. ASSUME NEW i, Settle(i) PROVE StagingInv'
  BY <1>4, TakeStaged DEF Settle, SettleCommitted, SettleUnchanged, FinishUnchanged
<1>5. ASSUME NEW b, Rebind(b) PROVE StagingInv'
  BY <1>5, RetireStaged DEF Rebind
<1>6. CASE Dispose
  BY <1>6, RetireStaged DEF Dispose
<1>7. CASE UNCHANGED vars
  BY <1>7 DEF vars, StagingInv, BasedOnBinding
<1> QED
  BY <1>1, <1>2, <1>3, <1>4, <1>5, <1>6, <1>7 DEF Next

\* Phases, closures, pages and base of the active transaction stay linked
\* (evidence.rs, staging.rs, preflight.rs begin).
THEOREM StagingInvariant == Spec => [](TypeInv /\ StagingInv)
<1>1. Init => TypeInv /\ StagingInv
  BY TypeInit, StagingInit
<1>2. (TypeInv /\ StagingInv) /\ [Next]_vars => (TypeInv /\ StagingInv)'
  BY TypeStep, StagingStep
<1> QED
  BY <1>1, <1>2, PTL DEF Spec

\* Evidence that was requested is acknowledged before it is frozen, and what is
\* presented for commit is the frozen closure, page for page, for every number of
\* pages, requests and producers (evidence.rs).
THEOREM EvidenceHolds == Spec => []EvidenceStands
<1>1. TypeInv /\ StagingInv => EvidenceStands
  <2> SUFFICES ASSUME TypeInv, StagedIn(active) PROVE EvidenceStands
    BY DEF StagingInv
  <2>1. AcknowledgedBeforeFreeze
    BY DEF AcknowledgedBeforeFreeze, StagedIn
  <2>2. EvidenceReproduced
    BY DEF EvidenceReproduced, StagedIn
  <2> QED
    BY <2>1, <2>2 DEF EvidenceStands
<1> QED
  BY <1>1, StagingInvariant, PTL

\* What the coordinator keeps beside the pages is what the pages of the current pass
\* add up to, for chains of every length, and the effect it reports is the one they
\* have on the tracked object (staging.rs accept_page_validated, validate_object_change).
THEOREM DerivedHolds == Spec => []DerivedFromPages
<1>1. TypeInv /\ StagingInv => DerivedFromPages
  <2> SUFFICES ASSUME PagesIn(active) PROVE DerivedFromPages
    BY DEF StagingInv
  <2>1. LaneAccounting
    BY DEF PagesIn, AccountedIn, LaneAccounting
  <2>2. ActiveObjectEffect
    BY DEF PagesIn, EffectIn, Hits, ActiveObjectEffect
  <2> QED
    BY <2>1, <2>2 DEF DerivedFromPages
<1> QED
  BY <1>1, StagingInvariant, PTL

\* A step that ends the transaction, and one that leaves what was finished.
Ended == active'.state = "Free"
KeepsTheFinished ==
  /\ active'.lanes = active.lanes
  /\ active'.intended = active.intended
  /\ active'.intendedExtent = active.intendedExtent

\* Once input is finished a step ends the transaction or keeps what was finished.
LEMMA FinishedStep ==
  ASSUME TypeInv, StagingInv, [Next]_vars, active.state \in {"FinishPending", "CommitPending"}
  PROVE  Ended \/ KeepsTheFinished
<1> USE DEF Named
<1>0. active \in ActiveSpace /\ StagedIn(active) /\ PagesIn(active)
  BY DEF TypeInv, TypeOK, StagingInv
<1>1. ASSUME NEW outcome, Take(outcome) PROVE Ended
  BY <1>1, InactiveStaged DEF Take, Ended
<1>2. ASSUME NEW detached \in BOOLEAN,
             active' = [active EXCEPT !.state = "CommitPending", !.detached = detached]
      PROVE  KeepsTheFinished
  BY <1>0, <1>2, FrozenStaged DEF KeepsTheFinished
<1>3. ASSUME Retire PROVE Ended \/ KeepsTheFinished
  <2>1. CASE active.state = "CommitPending" /\ Detach
    <3>1. active' = [active EXCEPT !.state = "CommitPending", !.detached = TRUE]
      BY <1>0, <2>1 DEF Detach, ActiveSpace
    <3> QED
      BY <1>2, <3>1
  <2>2. CASE Take("Cancelled")
    BY <1>1, <2>2
  <2> QED
    BY <1>3, <2>1, <2>2 DEF Retire
<1>4. ASSUME NEW key, Transact(key) PROVE Ended \/ KeepsTheFinished
  <2>1. CASE AdmitCommit(key)
    <3>1. active.detached \in BOOLEAN
          /\ active' = [active EXCEPT !.state = "CommitPending", !.detached = active.detached]
      BY <1>0, <2>1 DEF AdmitCommit, ActiveSpace
    <3> QED
      BY <1>2, <3>1
  <2>2. CASE RejectInput(key) \/ Cancel(key)
    BY <1>1, <2>2 DEF RejectInput, Cancel, FinishUnchanged
  <2>3. ASSUME NEW lane, NEW p, CollidingPage(key, lane, p) PROVE Ended
    BY <1>1, <2>3 DEF CollidingPage, FinishUnchanged
  <2> QED
    BY <1>4, <2>1, <2>2, <2>3
    DEF Transact, RequestEvidence, AcceptPreflight, RejectPreflight, AcceptPage, StagingOpen,
        SubmitEvidencePage, EvidenceOpen, AcknowledgeEvidencePage, FinishEvidence, FinishInput,
        FinishPassInput, AcknowledgeRestart
<1>5. ASSUME NEW i, Settle(i) PROVE Ended
  BY <1>1, <1>5 DEF Settle, SettleCommitted, SettleUnchanged, FinishUnchanged
<1>6. ASSUME UNCHANGED active PROVE KeepsTheFinished
  BY <1>6 DEF KeepsTheFinished
<1> QED
  BY <1>3, <1>4, <1>5, <1>6 DEF Next, vars, Begin, HostDecide, Rebind, Dispose

\* Input that is finished stays as it was finished until the transaction ends
\* (staging.rs PostFinishInput, admit_commit).
THEOREM FinishFreezesHolds == Spec => FinishFreezes
<1>1. TypeInv /\ StagingInv /\ [Next]_vars =>
        [active.state \in {"FinishPending", "CommitPending"} /\ active'.state # "Free" =>
           /\ active'.lanes = active.lanes
           /\ active'.intended = active.intended
           /\ active'.intendedExtent = ExpectedExtent(active)]_vars
  <2> SUFFICES ASSUME TypeInv, StagingInv, [Next]_vars,
                      active.state \in {"FinishPending", "CommitPending"}, active'.state # "Free"
               PROVE  /\ active'.lanes = active.lanes
                      /\ active'.intended = active.intended
                      /\ active'.intendedExtent = ExpectedExtent(active)
    OBVIOUS
  <2>1. KeepsTheFinished
    BY FinishedStep DEF Ended
  <2>2. active.intendedExtent = ExpectedExtent(active)
    BY DEF StagingInv, StagedIn
  <2> QED
    BY <2>1, <2>2 DEF KeepsTheFinished
<1> QED
  BY <1>1, StagingInvariant, PTL DEF Spec, FinishFreezes

-----------------------------------------------------------------------------
(* The coordinator implements the abstract edit.                           *)

\* A new coordinator is an abstract edit without a transaction.
LEMMA AbstractInit == ASSUME Init PROVE Abstract!Init
<1>1. binding \in [id : BindingIds, rev : Revisions, extent : ExtentSpace]
  BY SpacesAssumption DEF Init, Bindings
<1>2. active.state = "Free"
  BY InactiveStaged DEF Init
<1> QED
  BY <1>1, <1>2 DEF Abstract!Init, Abstract!Documents, Abstract!ExtentSpace, ExtentSpace

\* Ending a transaction that leaves the binding: abandoned before its admission,
\* settled beside the document or without effect after it.
LEMMA TakeRefines ==
  ASSUME TypeInv, active.state # "Free", NEW outcome, Take(outcome), binding' = binding
  PROVE  Abstract!Next
<1>1. active'.state = "Free"
  BY InactiveStaged DEF Take
<1>2. Abstract!Gone
  BY <1>1 DEF Abstract!Gone
<1>3. CASE active.state = "CommitPending"
  <2>1. Abstract!Settle
    BY <1>2, <1>3 DEF Abstract!Settle
  <2> QED
    BY <2>1 DEF Abstract!Next
<1>4. CASE active.state # "CommitPending"
  <2>1. Abstract!Abandon
    BY <1>2, <1>4 DEF Abstract!Abandon
  <2> QED
    BY <2>1 DEF Abstract!Next
<1> QED
  BY <1>3, <1>4

\* A step between the same states of the transaction, with the same base and
\* extent, does not show in the abstract edit.
LEMMA UpdateRefines ==
  ASSUME active.state # "Free", active.state # "CommitPending",
         active'.state # "Free", active'.state # "CommitPending",
         active'.key = active.key, active'.extent = active.extent, binding' = binding
  PROVE  UNCHANGED Abstract!vars
  BY DEF Abstract!vars

\* Admission fixes the extent that the finished stream adds up to.
LEMMA AdmitRefines ==
  ASSUME TypeInv, StagingInv, NEW key, AdmitCommit(key)
  PROVE  Abstract!Next
<1>0. active \in ActiveSpace /\ StagedIn(active) /\ active.state = "FinishPending"
  BY DEF TypeInv, TypeOK, StagingInv, AdmitCommit, Named
<1>1. /\ active'.state = "CommitPending" /\ active'.key = active.key
      /\ active'.extent = active.extent /\ active'.intendedExtent = active.intendedExtent
      /\ active'.detached = FALSE /\ binding' = binding
  BY <1>0 DEF AdmitCommit, ActiveSpace, StagedIn
<1>2. active'.intendedExtent \in ExtentSpace
  BY <1>0, <1>1, ExpectedExtentType DEF StagedIn, TypeInv, Grounded
<1>3. Abstract!Admit
  BY <1>0, <1>1, <1>2 DEF Abstract!Admit, Abstract!ExtentSpace, ExtentSpace
<1> QED
  BY <1>3 DEF Abstract!Next

\* Rebind and dispose replace the document, and detach what was admitted.
LEMMA RetireRefines ==
  ASSUME TypeInv, StagingInv, Retire, binding' \in [id : BindingIds, rev : Revisions, extent : ExtentSpace]
  PROVE  Abstract!Replace
<1>0. active \in ActiveSpace /\ binding' \in Abstract!Documents
  BY DEF TypeInv, TypeOK, Abstract!Documents, Abstract!ExtentSpace, ExtentSpace
<1>1. CASE active.state = "Free" /\ active' = active
  BY <1>0, <1>1 DEF Abstract!Replace
<1>2. CASE active.state = "CommitPending" /\ Detach
  <2>1. /\ active'.state = "CommitPending" /\ active'.detached = TRUE /\ active'.key = active.key
        /\ active'.extent = active.extent /\ active'.intendedExtent = active.intendedExtent
    BY <1>0, <1>2 DEF Detach, ActiveSpace
  <2> QED
    BY <1>0, <1>2, <2>1 DEF Abstract!Replace
<1>3. CASE active.state \notin {"Free", "CommitPending"} /\ Take("Cancelled")
  <2>1. active'.state = "Free"
    BY <1>3, InactiveStaged DEF Take
  <2> QED
    BY <1>0, <1>3, <2>1 DEF Abstract!Replace, Abstract!Gone
<1> QED
  BY <1>1, <1>2, <1>3 DEF Retire

\* A commit that reaches the document applies the admitted change to the very
\* document the transaction began on.
LEMMA SettleRefines ==
  ASSUME TypeInv, StagingInv, NEW key, NEW rev \in Revisions, SettleCommitted(key, rev)
  PROVE  Abstract!Next
<1>0. active.state = "CommitPending" /\ key = active.key /\ rev # key.rev /\ Take("Committed")
  BY DEF SettleCommitted, Named
<1>1. CASE active.detached
  <2>1. binding' = binding
    BY <1>1 DEF SettleCommitted
  <2> QED
    BY <1>0, <2>1, TakeRefines
<1>2. CASE ~active.detached
  <2>1. binding = [id |-> active.key.id, rev |-> active.key.rev, extent |-> active.extent]
    BY <1>0, <1>2 DEF StagingInv, BasedOnBinding
  <2>2. binding' = [id |-> active.key.id, rev |-> rev, extent |-> active.intendedExtent]
    BY <1>0, <1>2 DEF SettleCommitted, StagingInv, StagedIn
  <2>3. active'.state = "Free"
    BY <1>0, InactiveStaged DEF Take
  <2>4. Abstract!Commit
    BY <1>0, <1>2, <2>1, <2>2, <2>3 DEF Abstract!Commit, Abstract!Gone
  <2> QED
    BY <2>4 DEF Abstract!Next
<1> QED
  BY <1>1, <1>2

\* Every call that names the active transaction is one abstract step or none.
LEMMA TransactRefines ==
  ASSUME TypeInv, StagingInv, NEW key, Transact(key)
  PROVE  Abstract!Next \/ UNCHANGED Abstract!vars
<1> USE DEF Named
<1>0. active \in ActiveSpace
  BY DEF TypeInv, TypeOK
<1>1. ASSUME NEW outcome, FinishUnchanged(outcome), active.state # "Free" PROVE Abstract!Next
  BY <1>1, TakeRefines DEF FinishUnchanged
<1>2. ASSUME NEW a, Update(a), active.state \in {"PreflightPending", "InputStreaming"},
             a.state \in {"PreflightPending", "InputStreaming", "FinishPending"},
             a.key = active.key, a.extent = active.extent
      PROVE  UNCHANGED Abstract!vars
  BY <1>2, UpdateRefines DEF Update
<1>3. CASE RequestEvidence(key)
  BY <1>0, <1>2, <1>3 DEF RequestEvidence, ActiveSpace
<1>4. ASSUME NEW tracked, AcceptPreflight(key, tracked) PROVE UNCHANGED Abstract!vars
  BY <1>0, <1>2, <1>4 DEF AcceptPreflight, ActiveSpace
<1>5. CASE RejectPreflight(key) \/ RejectInput(key) \/ Cancel(key)
  BY <1>1, <1>5 DEF RejectPreflight, RejectInput, Cancel
<1>6. ASSUME NEW lane, NEW p
      PROVE  /\ Accepted(active, lane, p).key = active.key
             /\ Accepted(active, lane, p).extent = active.extent
             /\ Accepted(active, lane, p).state = active.state
  BY <1>0 DEF Accepted, ActiveSpace
<1>7. ASSUME NEW lane, NEW p, AcceptPage(key, lane, p) PROVE UNCHANGED Abstract!vars
  BY <1>2, <1>6, <1>7 DEF AcceptPage, StagingOpen
<1>8. ASSUME NEW lane \in Lanes, NEW p \in Payloads, SubmitEvidencePage(key, lane, p)
      PROVE  UNCHANGED Abstract!vars
  <2>1. ASSUME NEW a \in ActiveSpace
        PROVE  /\ AwaitAcknowledgement(a).key = a.key
               /\ AwaitAcknowledgement(a).extent = a.extent
               /\ AwaitAcknowledgement(a).state = a.state
    BY DEF AwaitAcknowledgement, ActiveSpace
  <2>2. Accepted(active, lane, p) \in ActiveSpace
    BY AcceptedType DEF TypeInv, TypeOK, Grounded
  <2> QED
    BY <1>0, <1>2, <1>6, <1>8, <2>1, <2>2 DEF SubmitEvidencePage, EvidenceOpen
<1>9. ASSUME NEW lane, NEW p, CollidingPage(key, lane, p) PROVE Abstract!Next
  BY <1>1, <1>9 DEF CollidingPage, StagingOpen, EvidenceOpen
<1>10. ASSUME NEW request, AcknowledgeEvidencePage(key, request) PROVE UNCHANGED Abstract!vars
  BY <1>0, <1>2, <1>10 DEF AcknowledgeEvidencePage, ActiveSpace
<1>11. ASSUME NEW finish, FinishEvidence(key, finish) PROVE UNCHANGED Abstract!vars
  BY <1>0, <1>2, <1>11 DEF FinishEvidence, EvidenceOpen, Freeze, ActiveSpace
<1>12. ASSUME NEW finish, active.state = "InputStreaming",
              Update([Freeze(active, finish) EXCEPT !.state = "FinishPending"])
       PROVE  UNCHANGED Abstract!vars
  BY <1>0, <1>2, <1>12 DEF Freeze, ActiveSpace
<1>13. ASSUME NEW finish, FinishInput(key, finish) PROVE UNCHANGED Abstract!vars
  BY <1>12, <1>13 DEF FinishInput
<1>14. ASSUME NEW finish, FinishPassInput(key, finish)
       PROVE  Abstract!Next \/ UNCHANGED Abstract!vars
  BY <1>1, <1>12, <1>14 DEF FinishPassInput
<1>15. CASE AcknowledgeRestart(key)
  BY <1>0, <1>2, <1>15 DEF AcknowledgeRestart, ActiveSpace
<1>16. CASE AdmitCommit(key)
  BY <1>16, AdmitRefines
<1> QED
  BY <1>3, <1>4, <1>5, <1>7, <1>8, <1>9, <1>10, <1>11, <1>13, <1>14, <1>15, <1>16 DEF Transact

\* Every step of the coordinator is an abstract step or a stutter.
LEMMA AbstractStep ==
  ASSUME TypeInv, StagingInv, [Next]_vars
  PROVE  Abstract!Next \/ UNCHANGED Abstract!vars
<1>0. active \in ActiveSpace /\ binding \in [id : BindingIds, rev : Revisions, extent : ExtentSpace]
  BY DEF TypeInv, TypeOK
<1>1. ASSUME NEW op, NEW rep, NEW producer, Begin(op, rep, producer) PROVE Abstract!Next
  <2>1. /\ active.state = "Free" /\ binding' = binding
        /\ active'.state = "PreflightPending" /\ active'.extent = binding.extent
        /\ active'.key.id = binding.id /\ active'.key.rev = binding.rev
    BY <1>1 DEF Begin, Fresh, Inactive
  <2>2. binding = [id |-> active'.key.id, rev |-> active'.key.rev, extent |-> active'.extent]
    BY <1>0, <2>1
  <2>3. Abstract!Open
    BY <2>1, <2>2 DEF Abstract!Open
  <2> QED
    BY <2>3 DEF Abstract!Next
<1>2. ASSUME NEW key, Transact(key) PROVE Abstract!Next \/ UNCHANGED Abstract!vars
  BY <1>2, TransactRefines
<1>3. ASSUME NEW i, NEW outcome, HostDecide(i, outcome) PROVE UNCHANGED Abstract!vars
  BY <1>3 DEF HostDecide, Abstract!vars
<1>4. ASSUME NEW i, Settle(i) PROVE Abstract!Next
  <2>1. ASSUME NEW rev \in Revisions, NEW key, SettleCommitted(key, rev) PROVE Abstract!Next
    BY <2>1, SettleRefines
  <2>2. ASSUME NEW key, NEW outcome, SettleUnchanged(key, outcome) PROVE Abstract!Next
    BY <2>2, TakeRefines DEF SettleUnchanged, FinishUnchanged, Named
  <2> QED
    BY <1>4, <2>1, <2>2 DEF Settle
<1>5. ASSUME NEW b \in Bindings, Rebind(b) PROVE Abstract!Next
  <2>1. Retire /\ binding' \in [id : BindingIds, rev : Revisions, extent : ExtentSpace]
    BY <1>5, SpacesAssumption DEF Rebind, Bindings
  <2> QED
    BY <2>1, RetireRefines DEF Abstract!Next
<1>6. CASE Dispose
  BY <1>0, <1>6, RetireRefines DEF Dispose, Abstract!Next
<1>7. CASE UNCHANGED vars
  BY <1>7 DEF vars, Abstract!vars
<1> QED
  BY <1>1, <1>2, <1>3, <1>4, <1>5, <1>6, <1>7 DEF Next

\* Whatever the host, the producers and the pages are, the document changes by one
\* whole admitted change of its own base or by a rebind: the coordinator implements
\* EditTransaction (coordinator.rs, settlement.rs settle, lifecycle.rs).
THEOREM ImplementsEditHolds == Spec => ImplementsEdit
<1>1. Init => Abstract!Init
  BY AbstractInit
<1>2. TypeInv /\ StagingInv /\ [Next]_vars => [Abstract!Next]_(Abstract!vars)
  BY AbstractStep
<1> QED
  BY <1>1, <1>2, StagingInvariant, PTL DEF Spec, ImplementsEdit, Abstract!Spec
=============================================================================
