----------------------- MODULE SettlementCustodyProofs -----------------------
(***************************************************************************)
(* Proofs about SettlementCustody for any number of widgets, slots and     *)
(* operations.                                                             *)
(*                                                                         *)
(* CustodyExact is not inductive.  That an answer releases the slot of one *)
(* operation and leaves no other widget without its slot needs             *)
(* OperationsUnique, and that a retained settlement releases the slot of   *)
(* its own widget needs Anchored: the operation it names is still the live *)
(* one.  The queues play no part in that; what is queued comes last.       *)
(***************************************************************************)
EXTENDS SettlementCustody, ListTheorems, FiniteSetTheorems, TLAPS

\* A widget has the fields of a widget.
Fields ==
  {"mounted", "binding", "phase", "op", "retired", "hist", "histAdmitted", "queue",
   "dispatched", "config", "rebind", "credit"}

Shaped(r) == r = [field \in Fields |-> r[field]]

\* What a widget says of its operations has its type and agrees with itself.
Sound(r) ==
  /\ r.phase \in Phases
  /\ r.op \in Operations \cup {0} /\ r.hist \in Operations \cup {0}
  /\ r.histAdmitted \in BOOLEAN
  /\ r.rebind \in Intents
  /\ r.phase = "None" <=> r.op = 0
  /\ r.histAdmitted => r.hist # 0

\* A retained settlement names the admitted operation that is live.
Anchored(r) ==
  /\ r.rebind.kind = "Mutation" => r.phase = "CommitPending" /\ r.rebind.op = r.op
  /\ r.rebind.kind = "History" => r.histAdmitted /\ r.rebind.op = r.hist
  /\ IF r.rebind.kind \in Kinds THEN r.rebind.op \in committed ELSE r.rebind.op = 0

\* A live operation that was admitted is the one the widget says is admitted.
Pending(r, done) ==
  /\ r.op \in done => r.phase = "CommitPending"
  /\ r.hist \in done => r.histAdmitted

CustodyType ==
  /\ next \in Nat \ {0}
  /\ leases \subseteq Operations
  /\ widget = [w \in Widgets |-> widget[w]]
  /\ \A w \in Widgets : Shaped(widget[w]) /\ Sound(widget[w])

\* Every operation that was leased or admitted was allocated.
Allocated == \A op \in leases \cup admitted : op < next

OneSlotEach == \A s, t \in slots : s.op = t.op => s = t

\* The books of the coordinator: what is held is what was admitted and not answered.
Books ==
  /\ slots \subseteq Slots /\ admitted \subseteq Operations /\ answers \in [Operations -> Nat]
  /\ OneSlotEach
  /\ \A op \in Operations : Held(op) <=> op \in admitted /\ answers[op] = 0
  /\ \A op \in Operations : answers[op] <= 1 /\ (answers[op] = 1 => op \in admitted)

CustodyInv ==
  /\ CustodyType /\ Allocated /\ Books
  /\ CustodyExact /\ OperationsUnique
  /\ \A w \in Widgets : Anchored(widget[w]) /\ Pending(widget[w], admitted)

-----------------------------------------------------------------------------
(* The coordinator's slots.                                                *)

\* A slot knows its kind and its operation.
LEMMA SlotFacts ==
  /\ \A kind \in Kinds, op \in Operations : Slot(kind, op) \in Slots
  /\ \A kind, op : Slot(kind, op).kind = kind /\ Slot(kind, op).op = op
  /\ \A s \in Slots : s.kind \in Kinds /\ s.op \in Operations /\ s = Slot(s.kind, s.op)
  BY DEF Slot, Slots, Kinds

\* A release answers one admitted operation and keeps the books.
LEMMA ReleaseKeepsBooks ==
  ASSUME Books, NEW kind, NEW op, Release(kind, op)
  PROVE  /\ Books' /\ admitted' = admitted
         /\ op \in admitted /\ answers'[op] = 1
         /\ \A k, o : Slot(k, o) \in slots' <=> Slot(k, o) \in slots /\ ~(k = kind /\ o = op)
<1>1. /\ kind \in Kinds /\ op \in Operations
      /\ Held(op)
  BY SlotFacts DEF Release, Books, Held
<1>2. answers[op] = 0 /\ op \in admitted
  BY <1>1 DEF Books
<1>3. /\ slots' = slots \ {Slot(kind, op)} /\ admitted' = admitted
      /\ answers' = [answers EXCEPT ![op] = answers[op] + 1]
  BY DEF Release
<1>4. answers' \in [Operations -> Nat] /\ answers'[op] = 1
      /\ \A o \in Operations \ {op} : answers'[o] = answers[o]
  BY <1>1, <1>2, <1>3 DEF Books
<1>5. \A s \in slots : s.op = op <=> s = Slot(kind, op)
  BY <1>1, SlotFacts DEF Release, Books, OneSlotEach
<1>6. \A o \in Operations : Held(o)' <=> Held(o) /\ o # op
  BY <1>3, <1>5, SlotFacts DEF Held
<1>7. Books'
  <2>1. \A o \in Operations : Held(o)' <=> o \in admitted' /\ answers'[o] = 0
    BY <1>2, <1>3, <1>4, <1>6 DEF Books
  <2>2. \A o \in Operations : answers'[o] <= 1 /\ (answers'[o] = 1 => o \in admitted')
    BY <1>2, <1>3, <1>4 DEF Books
  <2> QED
    BY <1>3, <1>4, <2>1, <2>2 DEF Books, OneSlotEach
<1>8. \A k, o : Slot(k, o) \in slots' <=> Slot(k, o) \in slots /\ ~(k = kind /\ o = op)
  BY <1>3, SlotFacts
<1> QED
  BY <1>2, <1>3, <1>4, <1>7, <1>8

\* A reservation admits one operation that was never admitted and keeps the books.
LEMMA ReserveKeepsBooks ==
  ASSUME Books, NEW kind \in Kinds, NEW op \in Operations, op \notin admitted,
         Reserve(kind, op)
  PROVE  /\ Books' /\ admitted' = admitted \cup {op}
         /\ \A k, o : Slot(k, o) \in slots' <=> Slot(k, o) \in slots \/ (k = kind /\ o = op)
<1>1. /\ slots' = slots \cup {Slot(kind, op)} /\ admitted' = admitted \cup {op}
      /\ answers' = answers /\ ~Held(op)
  BY DEF Reserve
<1>2. \A o \in Operations : Held(o)' <=> Held(o) \/ o = op
  BY <1>1, SlotFacts DEF Held
<1>3. slots' \subseteq Slots /\ OneSlotEach'
  BY <1>1, SlotFacts DEF Books, OneSlotEach, Held
<1>4. \A k, o : Slot(k, o) \in slots' <=> Slot(k, o) \in slots \/ (k = kind /\ o = op)
  BY <1>1, SlotFacts
<1> QED
  BY <1>1, <1>2, <1>3, <1>4 DEF Books

-----------------------------------------------------------------------------
(* Steps of one widget.                                                    *)

\* Slots change only on behalf of an operation that is live in no other widget.
SlotsFor(w) ==
  \/ SlotsKept
  \/ \E kind \in Kinds, op \in Operations :
       /\ \A v \in Widgets \ {w} : ~LiveAt(v, op)
       /\ Release(kind, op) \/ (Reserve(kind, op) /\ op \notin admitted /\ LiveAt(w, op))

\* What a step of one widget does to the books, and that no other widget sees it.
LEMMA SlotsForOne ==
  ASSUME CustodyInv, NEW w \in Widgets, SlotsFor(w)
  PROVE  /\ Books'
         /\ \A op \in admitted' : op \in admitted \/ LiveAt(w, op)
         /\ \A v \in Widgets \ {w}, k \in Kinds :
              \A o \in {widget[v].op, widget[v].hist} \ {0} :
                Slot(k, o) \in slots' <=> Slot(k, o) \in slots
<1>1. CASE SlotsKept
  BY <1>1 DEF SlotsKept, CustodyInv, Books, Held, OneSlotEach
<1>2. ASSUME NEW kind \in Kinds, NEW op \in Operations, Release(kind, op),
             \A v \in Widgets \ {w} : ~LiveAt(v, op)
      PROVE  /\ Books'
             /\ \A o \in admitted' : o \in admitted \/ LiveAt(w, o)
             /\ \A v \in Widgets \ {w}, k \in Kinds :
                  \A o \in {widget[v].op, widget[v].hist} \ {0} :
                    Slot(k, o) \in slots' <=> Slot(k, o) \in slots
  BY <1>2, ReleaseKeepsBooks DEF CustodyInv, LiveAt, Operations
<1>3. ASSUME NEW kind \in Kinds, NEW op \in Operations, Reserve(kind, op), op \notin admitted,
             LiveAt(w, op), \A v \in Widgets \ {w} : ~LiveAt(v, op)
      PROVE  /\ Books'
             /\ \A o \in admitted' : o \in admitted \/ LiveAt(w, o)
             /\ \A v \in Widgets \ {w}, k \in Kinds :
                  \A o \in {widget[v].op, widget[v].hist} \ {0} :
                    Slot(k, o) \in slots' <=> Slot(k, o) \in slots
  BY <1>3, ReserveKeepsBooks DEF CustodyInv, LiveAt, Operations
<1> QED
  BY <1>1, <1>2, <1>3 DEF SlotsFor

\* What a widget becomes in a step that begins nothing.
Succeeds(r, s) ==
  /\ Shaped(s) /\ Sound(s) /\ Anchored(s)
  /\ s.op \in {0, r.op} /\ s.hist \in {0, r.hist}
  /\ s.phase # "None" => s.hist = 0

\* A widget holds the slots it says it holds.
Holds(r, held) ==
  /\ r.phase = "CommitPending" <=> Slot("Mutation", r.op) \in held
  /\ r.histAdmitted <=> Slot("History", r.hist) \in held

\* A step of one widget that begins nothing keeps the invariant when the widget
\* still holds what it says.
LEMMA StepAt ==
  ASSUME CustodyInv, NEW w \in Widgets, NEW s, Become(w, s), Succeeds(widget[w], s),
         SlotsFor(w), Holds(s, slots'), Pending(s, admitted'),
         UNCHANGED <<next, leases, committed>>
  PROVE  CustodyInv'
<1>1. /\ widget' = [v \in Widgets |-> widget'[v]]
      /\ widget'[w] = s
      /\ \A v \in Widgets \ {w} : widget'[v] = widget[v]
  BY DEF Become, CustodyInv, CustodyType
<1>2. /\ Books'
      /\ \A op \in admitted' : op \in admitted \/ LiveAt(w, op)
  BY SlotsForOne
<1>3. CustodyType'
  BY <1>1 DEF CustodyInv, CustodyType, Succeeds
<1>4. \A v \in Widgets : \A op : LiveAt(v, op)' => LiveAt(v, op)
  BY <1>1 DEF LiveAt, Succeeds
<1>5. OperationsUnique'
  <2>1. \A v \in Widgets, op \in Operations : LiveAt(v, op)' =>
          op < next' /\ op \notin leases' /\ \A u \in Widgets \ {v} : ~LiveAt(u, op)'
    BY <1>4 DEF CustodyInv, OperationsUnique
  <2>2. \A v \in Widgets : widget'[v].phase # "None" => widget'[v].hist = 0
    BY <1>1 DEF CustodyInv, OperationsUnique, Succeeds
  <2>3. leases' \cap admitted' = {}
    BY <1>2 DEF CustodyInv, OperationsUnique, Books
  <2> QED
    BY <2>1, <2>2, <2>3 DEF OperationsUnique
<1>6. Allocated'
  BY <1>2 DEF CustodyInv, Allocated, OperationsUnique, Books
<1>7. \A v \in Widgets : Holds(widget'[v], slots')
  <2>1. SUFFICES ASSUME NEW v \in Widgets \ {w} PROVE Holds(widget[v], slots')
    BY <1>1
  <2>2. Holds(widget[v], slots)
    BY DEF CustodyInv, CustodyExact, Holds
  <2>3. /\ \A k \in Kinds : Slot(k, 0) \notin slots /\ Slot(k, 0) \notin slots'
    BY <1>2, SlotFacts DEF CustodyInv, Books, Operations
  <2> QED
    BY <2>2, <2>3, SlotsForOne DEF Holds, Kinds
<1>8. CustodyExact'
  BY <1>2, <1>7 DEF CustodyExact, Books, Holds
<1>9. \A v \in Widgets : (Anchored(widget[v]) /\ Pending(widget[v], admitted))'
  <2>1. \A v \in Widgets \ {w} : Anchored(widget[v])' /\ Anchored(s)'
    BY <1>1 DEF CustodyInv, Anchored, Succeeds
  <2>2. \A v \in Widgets \ {w} : Pending(widget[v], admitted')
    <3>1. \A v \in Widgets \ {w} : \A op \in {widget[v].op, widget[v].hist} :
            op \in admitted' => op \in admitted
      BY <1>2 DEF CustodyInv, Books, OperationsUnique, LiveAt, Operations
    <3> QED
      BY <3>1 DEF CustodyInv, Pending
  <2> QED
    BY <1>1, <2>1, <2>2 DEF Succeeds, Anchored
<1> QED
  BY <1>2, <1>3, <1>5, <1>6, <1>8, <1>9 DEF CustodyInv

\* A step that begins an operation keeps the invariant when the operation comes
\* from a lease or from the counter.
LEMMA BeginAt ==
  ASSUME CustodyInv, NEW w \in Widgets, NEW s, Become(w, s), SlotsKept,
         NEW op \in Operations, op \notin admitted, \A v \in Widgets : ~LiveAt(v, op),
         Shaped(s), Sound(s), s.rebind = widget[w].rebind,
         widget[w].phase = "None" /\ widget[w].hist = 0,
         \/ s.op = op /\ s.phase = "Preflight" /\ s.hist = 0
         \/ s.op = 0 /\ s.phase = "None" /\ s.hist = op,
         s.histAdmitted = FALSE,
         next' \in Nat \ {0}, op < next', next <= next',
         leases' \subseteq leases \ {op}, UNCHANGED committed
  PROVE  CustodyInv'
<1>1. /\ widget' = [v \in Widgets |-> widget'[v]]
      /\ widget'[w] = s
      /\ \A v \in Widgets \ {w} : widget'[v] = widget[v]
  BY DEF Become, CustodyInv, CustodyType
<1>2. Books' /\ admitted' = admitted /\ slots' = slots
  BY DEF SlotsKept, CustodyInv, Books, Held, OneSlotEach
<1>3. CustodyType'
  BY <1>1 DEF CustodyInv, CustodyType
<1>4. /\ \A v \in Widgets \ {w} : \A o : LiveAt(v, o)' <=> LiveAt(v, o)
      /\ \A o : LiveAt(w, o)' => o = op
  BY <1>1 DEF LiveAt
<1>5. OperationsUnique'
  <2>1. \A v \in Widgets, o \in Operations : LiveAt(v, o)' =>
          o < next' /\ o \notin leases' /\ \A u \in Widgets \ {v} : ~LiveAt(u, o)'
    BY <1>4 DEF CustodyInv, CustodyType, OperationsUnique, Operations
  <2>2. \A v \in Widgets : widget'[v].phase # "None" => widget'[v].hist = 0
    BY <1>1 DEF CustodyInv, OperationsUnique
  <2>3. leases' \cap admitted' = {}
    BY <1>2 DEF CustodyInv, OperationsUnique
  <2> QED
    BY <2>1, <2>2, <2>3 DEF OperationsUnique
<1>6. Allocated'
  BY <1>2 DEF CustodyInv, CustodyType, Allocated, Operations, Books
<1>7. CustodyExact'
  <2>1. ~Held(op) /\ \A k \in Kinds : Slot(k, 0) \notin slots
    BY SlotFacts DEF CustodyInv, Books, Operations
  <2>2. \A k \in Kinds : Slot(k, op) \notin slots
    BY <2>1, SlotFacts DEF Held
  <2>3. Holds(s, slots)
    BY <2>1, <2>2 DEF Holds, Kinds
  <2>4. \A v \in Widgets \ {w} : Holds(widget[v], slots)
    BY DEF CustodyInv, CustodyExact, Holds
  <2> QED
    BY <1>1, <1>2, <2>3, <2>4 DEF CustodyExact, Books, Holds
<1>8. \A v \in Widgets : (Anchored(widget[v]) /\ Pending(widget[v], admitted))'
  <2>1. s.rebind.kind \notin Kinds
    BY DEF CustodyInv, CustodyType, Sound, Anchored, Kinds, Operations
  <2>2. Pending(s, admitted)
    BY DEF CustodyInv, Books, Operations, Pending
  <2> QED
    BY <1>1, <1>2, <2>1, <2>2 DEF CustodyInv, Anchored, Kinds
<1> QED
  BY <1>2, <1>3, <1>5, <1>6, <1>7, <1>8 DEF CustodyInv

\* A step of the host alone keeps the invariant.
LEMMA HostStep ==
  ASSUME CustodyInv, UNCHANGED widget, SlotsKept,
         committed \subseteq committed', next' \in Nat \ {0}, next <= next',
         leases' \subseteq Operations,
         \A op \in leases' \ leases : op \notin admitted /\ next <= op /\ op < next'
  PROVE  CustodyInv'
<1>1. Books' /\ CustodyExact'
  BY DEF SlotsKept, CustodyInv, Books, Held, OneSlotEach, CustodyExact
<1>2. CustodyType'
  BY DEF CustodyInv, CustodyType
<1>3. Allocated'
  BY DEF CustodyInv, CustodyType, Allocated, SlotsKept, Books, Operations
<1>4. OperationsUnique'
  <2>1. \A v \in Widgets, o \in Operations : LiveAt(v, o)' <=> LiveAt(v, o)
    BY DEF LiveAt
  <2>2. \A v \in Widgets, o \in Operations : LiveAt(v, o) =>
          o < next' /\ o \notin leases' /\ \A u \in Widgets \ {v} : ~LiveAt(u, o)
    BY DEF CustodyInv, CustodyType, OperationsUnique, Operations
  <2>3. leases' \cap admitted' = {}
    BY DEF CustodyInv, OperationsUnique, SlotsKept
  <2>4. \A v \in Widgets : widget'[v].phase # "None" => widget'[v].hist = 0
    BY DEF CustodyInv, OperationsUnique
  <2> QED
    BY <2>1, <2>2, <2>3, <2>4 DEF OperationsUnique
<1>5. \A v \in Widgets : (Anchored(widget[v]) /\ Pending(widget[v], admitted))'
  BY DEF CustodyInv, Anchored, SlotsKept
<1> QED
  BY <1>1, <1>2, <1>3, <1>4, <1>5 DEF CustodyInv

-----------------------------------------------------------------------------
(* The actions.                                                            *)

\* A widget as the invariant describes it.
LEMMA WidgetFacts ==
  ASSUME CustodyInv, NEW w \in Widgets
  PROVE  /\ Shaped(widget[w]) /\ Sound(widget[w]) /\ Anchored(widget[w])
         /\ Holds(widget[w], slots) /\ Pending(widget[w], admitted)
         /\ 0 \notin admitted
         /\ widget[w].phase # "None" => widget[w].hist = 0
         /\ \A op \in Operations : LiveAt(w, op) =>
              op < next /\ op \notin leases /\ \A v \in Widgets \ {w} : ~LiveAt(v, op)
         /\ Slot("Mutation", 0) \notin slots /\ Slot("History", 0) \notin slots
  BY SlotFacts DEF CustodyInv, CustodyType, CustodyExact, OperationsUnique, Holds, Books, Operations

\* What a step of one widget changes that matters to custody.
Ops(r) == <<r.phase, r.op, r.hist, r.histAdmitted, r.rebind>>

\* A step that changes none of it.
LEMMA QuietStep ==
  ASSUME CustodyInv, NEW w \in Widgets, NEW s, Become(w, s), SlotsKept, Shaped(s),
         Ops(s) = Ops(widget[w]), UNCHANGED <<next, leases, committed>>
  PROVE  CustodyInv'
<1>1. /\ s.phase = widget[w].phase /\ s.op = widget[w].op /\ s.hist = widget[w].hist
      /\ s.histAdmitted = widget[w].histAdmitted /\ s.rebind = widget[w].rebind
  BY DEF Ops
<1>2. Succeeds(widget[w], s)
  BY <1>1, WidgetFacts DEF Succeeds, Sound, Anchored
<1>3. Holds(s, slots') /\ Pending(s, admitted')
  BY <1>1, WidgetFacts DEF Holds, Pending, SlotsKept
<1> QED
  BY <1>2, <1>3, StepAt DEF SlotsFor

\* Pushing a request leaves everything else of the widget alone.
LEMMA PushedFacts ==
  ASSUME NEW r, Shaped(r), NEW q, NEW s \in Pushed(r, q)
  PROVE  Shaped(s) /\ Ops(s) = Ops(r)
  BY DEF Pushed, Shaped, Fields, Ops

LEMMA AbandonedFacts ==
  ASSUME NEW r, Shaped(r)
  PROVE  /\ Shaped(Abandoned(r))
         /\ Ops(Abandoned(r)) = <<"None", 0, r.hist, r.histAdmitted, r.rebind>>
  BY DEF Abandoned, Shaped, Fields, Ops

LEMMA PhaseFacts ==
  ASSUME NEW r, Shaped(r), NEW phase
  PROVE  /\ Shaped([r EXCEPT !.phase = phase])
         /\ Ops([r EXCEPT !.phase = phase]) = <<phase, r.op, r.hist, r.histAdmitted, r.rebind>>
  BY DEF Shaped, Fields, Ops

\* An edit that ends before its admission holds nothing and leaves the widget idle.
LEMMA AbandonStep ==
  ASSUME CustodyInv, NEW w \in Widgets, NEW s, Become(w, s), SlotsKept, Shaped(s),
         widget[w].phase \in {"Preflight", "Streaming", "Finished"},
         Ops(s) = Ops(Abandoned(widget[w])), UNCHANGED <<next, leases, committed>>
  PROVE  CustodyInv'
<1> DEFINE r == widget[w]
<1>0. Ops(s) = <<"None", 0, r.hist, r.histAdmitted, r.rebind>>
  BY WidgetFacts, AbandonedFacts
<1>1. /\ s.phase = "None" /\ s.op = 0 /\ s.hist = r.hist
      /\ s.histAdmitted = r.histAdmitted /\ s.rebind = r.rebind
  BY <1>0 DEF Ops
<1>2. Succeeds(widget[w], s)
  BY <1>1, WidgetFacts DEF Succeeds, Sound, Anchored, Phases
<1>3. Holds(s, slots') /\ Pending(s, admitted')
  BY <1>1, WidgetFacts DEF Holds, Pending, SlotsKept
<1> QED
  BY <1>2, <1>3, StepAt DEF SlotsFor

LEMMA EditSteps ==
  ASSUME CustodyInv, NEW w \in Widgets,
         \/ AcceptPreflight(w) \/ SubmitFinish(w) \/ Reject(w) \/ CancelMutation(w)
  PROVE  CustodyInv'
<1> DEFINE r == widget[w]
<1>1. CASE Reject(w)
  <2>1. Shaped(Abandoned(r))
    BY WidgetFacts, AbandonedFacts
  <2> QED
    BY <1>1, <2>1, AbandonStep DEF Reject, hostVars
<1>2. CASE CancelMutation(w)
  <2>1. Shaped(Abandoned(r))
    BY WidgetFacts, AbandonedFacts
  <2>2. PICK s \in Pushed(Abandoned(r), Request("Cancel", r.op)) : Become(w, s)
    BY <1>2 DEF CancelMutation
  <2> QED
    BY <1>2, <2>1, <2>2, PushedFacts, AbandonStep DEF CancelMutation, hostVars
<1>3. ASSUME NEW phase \in {"Streaming", "Finished"}, NEW s, Become(w, s), SlotsKept, Shaped(s),
             r.phase \in {"Preflight", "Streaming"},
             Ops(s) = Ops([r EXCEPT !.phase = phase]), UNCHANGED <<next, leases, committed>>
      PROVE  CustodyInv'
  <2>1. /\ s.phase = phase /\ s.op = r.op /\ s.hist = r.hist
        /\ s.histAdmitted = r.histAdmitted /\ s.rebind = r.rebind
    BY <1>3, WidgetFacts, PhaseFacts DEF Ops
  <2>2. Succeeds(r, s)
    BY <1>3, <2>1, WidgetFacts DEF Succeeds, Sound, Anchored, Phases
  <2>3. Holds(s, slots') /\ Pending(s, admitted')
    BY <1>3, <2>1, WidgetFacts DEF Holds, Pending, SlotsKept
  <2> QED
    BY <1>3, <2>2, <2>3, StepAt DEF SlotsFor
<1>4. \A phase \in {"Streaming", "Finished"} : Shaped([r EXCEPT !.phase = phase])
  BY WidgetFacts, PhaseFacts
<1>5. CASE AcceptPreflight(w) \/ SubmitFinish(w)
  <2>1. /\ r.phase \in {"Preflight", "Streaming"} /\ SlotsKept
        /\ UNCHANGED <<next, leases, committed>>
    BY <1>5 DEF AcceptPreflight, SubmitFinish, hostVars
  <2>2. CASE Become(w, [r EXCEPT !.phase = "Streaming"])
    BY <1>3, <1>4, <2>1, <2>2
  <2>3. CASE \E s \in Pushed([r EXCEPT !.phase = "Finished"], Request("Finish", r.op)) : Become(w, s)
    BY <1>3, <1>4, <2>1, <2>3, PushedFacts
  <2> QED
    BY <1>5, <2>2, <2>3 DEF AcceptPreflight, SubmitFinish
<1> QED
  BY <1>1, <1>2, <1>5

\* An operation that is about to begin was never admitted and is live nowhere.
LEMMA NewOperation ==
  ASSUME CustodyInv
  PROVE  /\ next \in Nat \ {0} /\ (next <= MaxOperation => next \in Operations)
         /\ \A op \in leases \cup {next} :
              /\ op \notin admitted /\ (op \in leases => op \in Operations)
              /\ op # 0 /\ \A v \in Widgets : ~LiveAt(v, op)
         /\ next \notin leases
         /\ \A op \in leases : op < next
<1>1. BoundsAssumption
  BY BoundsAssumption
<1>2. \A v \in Widgets : \A op : LiveAt(v, op) => op \in Operations
  BY DEF CustodyInv, CustodyType, Sound, LiveAt
<1>3. next \in Nat \ {0} /\ leases \subseteq Operations /\ admitted \subseteq Operations
  BY DEF CustodyInv, CustodyType, Books
<1>4. \A op \in leases : op < next
  BY DEF CustodyInv, Allocated
<1>5. next \notin admitted /\ next \notin leases
  BY <1>3 DEF CustodyInv, Allocated, Operations
<1>6. \A v \in Widgets : ~LiveAt(v, next)
  BY <1>2, <1>3 DEF CustodyInv, OperationsUnique, Operations
<1>7. \A op \in leases : op \notin admitted /\ \A v \in Widgets : ~LiveAt(v, op)
  BY <1>3 DEF CustodyInv, OperationsUnique
<1> QED
  BY <1>1, <1>3, <1>4, <1>5, <1>6, <1>7 DEF BoundsAssumption, Operations

\* A widget that may begin something has nothing admitted.
LEMMA IdleFacts ==
  ASSUME CustodyInv, NEW w \in Widgets, widget[w].phase = "None", widget[w].hist = 0
  PROVE  widget[w].op = 0 /\ widget[w].histAdmitted = FALSE
  BY WidgetFacts DEF Sound

LEMMA BeginSteps ==
  ASSUME CustodyInv, NEW w \in Widgets,
         (\E op \in Operations : BeginHost(w, op)) \/ BeginLocal(w)
  PROVE  CustodyInv'
<1> DEFINE r == widget[w]
<1>1. ASSUME NEW op \in Operations, Begun(w, op), SlotsKept, UNCHANGED committed,
             op \in leases \cup {next}, r.phase = "None", r.hist = 0,
             next' \in Nat \ {0}, op < next', next <= next', leases' \subseteq leases \ {op}
      PROVE  CustodyInv'
  <2>1. PICK s \in Pushed([r EXCEPT !.phase = "Preflight", !.op = op], Request("Begin", op)) :
          Become(w, s)
    BY <1>1 DEF Begun
  <2>2. /\ Shaped([r EXCEPT !.phase = "Preflight", !.op = op])
        /\ Ops([r EXCEPT !.phase = "Preflight", !.op = op]) =
             <<"Preflight", op, r.hist, r.histAdmitted, r.rebind>>
    BY WidgetFacts DEF Shaped, Fields, Ops
  <2>3. Shaped(s) /\ Ops(s) = <<"Preflight", op, r.hist, r.histAdmitted, r.rebind>>
    BY <2>1, <2>2, PushedFacts
  <2>4. /\ s.phase = "Preflight" /\ s.op = op /\ s.hist = 0
        /\ s.histAdmitted = FALSE /\ s.rebind = r.rebind
    BY <1>1, <2>3, IdleFacts DEF Ops
  <2>5. Sound(s)
    <3>1. op # 0 /\ r.rebind \in Intents
      BY <1>1, WidgetFacts, NewOperation DEF Sound
    <3> QED
      BY <2>4, <3>1 DEF Sound, Phases
  <2> QED
    BY <1>1, <2>1, <2>3, <2>4, <2>5, NewOperation, BeginAt
<1>2. ASSUME NEW op \in Operations, BeginHost(w, op) PROVE CustodyInv'
  BY <1>1, <1>2, NewOperation DEF BeginHost, QueueHasRoom, hostVars
<1>3. CASE BeginLocal(w)
  BY <1>1, <1>3, NewOperation DEF BeginLocal, Interactive, hostVars
<1> QED
  BY <1>2, <1>3

LEMMA RequestHistoryStep ==
  ASSUME CustodyInv, NEW w \in Widgets, RequestHistory(w)
  PROVE  CustodyInv'
<1> DEFINE r == widget[w]
<1>1. PICK p \in Pushed(r, Request("History", next)) :
        Become(w, IF p = r THEN p ELSE [p EXCEPT !.hist = next])
  BY DEF RequestHistory
<1>2. /\ Shaped(p) /\ Ops(p) = Ops(r)
      /\ r.phase = "None" /\ r.hist = 0 /\ r.op = 0 /\ r.histAdmitted = FALSE
  BY <1>1, WidgetFacts, PushedFacts, IdleFacts DEF RequestHistory, Interactive
<1>3. /\ SlotsKept /\ UNCHANGED <<leases, committed>> /\ next' = next + 1
      /\ next \in Operations
  BY NewOperation DEF RequestHistory, hostVars
<1>4. CASE p = r
  <2>1. UNCHANGED widget
    BY <1>1, <1>4 DEF Become, CustodyInv, CustodyType
  <2> QED
    BY <1>3, <2>1, HostStep DEF CustodyInv, CustodyType
<1>5. CASE p # r
  <2> DEFINE s == [p EXCEPT !.hist = next]
  <2>1. Shaped(s) /\ Ops(s) = <<p.phase, p.op, next, p.histAdmitted, p.rebind>>
    BY <1>2 DEF Shaped, Fields, Ops
  <2>2. /\ s.phase = "None" /\ s.op = 0 /\ s.hist = next
        /\ s.histAdmitted = FALSE /\ s.rebind = r.rebind
    BY <1>2, <2>1 DEF Ops
  <2>3. Sound(s)
    BY <1>3, <2>2, WidgetFacts DEF Sound, Phases
  <2>4. Become(w, s)
    BY <1>1, <1>5
  <2>5. next' \in Nat \ {0} /\ next < next' /\ next <= next' /\ leases' \subseteq leases \ {next}
    BY <1>3, NewOperation
  <2> HIDE DEF s
  <2> QED
    BY <1>2, <1>3, <2>1, <2>2, <2>3, <2>4, <2>5, NewOperation, BeginAt
<1> QED
  BY <1>4, <1>5

LEMMA AdmissionSteps ==
  ASSUME CustodyInv, NEW w \in Widgets, AcceptFinish(w) \/ SubmitSession(w)
  PROVE  CustodyInv'
<1> DEFINE r == widget[w]
<1>1. CASE AcceptFinish(w)
  <2>1. r.phase = "Finished" /\ Reserve("Mutation", r.op) /\ UNCHANGED <<next, leases, committed>>
    BY <1>1 DEF AcceptFinish, hostVars
  <2>2. PICK s \in Pushed([r EXCEPT !.phase = "CommitPending"], Request("Commit", r.op)) :
          Become(w, s)
    BY <1>1 DEF AcceptFinish
  <2>3. Shaped(s) /\ Ops(s) = <<"CommitPending", r.op, r.hist, r.histAdmitted, r.rebind>>
    BY <2>2, WidgetFacts, PhaseFacts, PushedFacts
  <2>4. /\ s.phase = "CommitPending" /\ s.op = r.op /\ s.hist = r.hist
        /\ s.histAdmitted = r.histAdmitted /\ s.rebind = r.rebind
    BY <2>3 DEF Ops
  <2>5. Succeeds(r, s) /\ r.op \in Operations /\ LiveAt(w, r.op)
    BY <2>1, <2>3, <2>4, WidgetFacts DEF Succeeds, Sound, Anchored, Phases, LiveAt, Operations
  <2>6. r.op \notin admitted
    BY <2>1, WidgetFacts DEF Pending
  <2>7. /\ admitted' = admitted \cup {r.op}
        /\ \A k, o : Slot(k, o) \in slots' <=> Slot(k, o) \in slots \/ (k = "Mutation" /\ o = r.op)
    BY <2>1, <2>5, <2>6, ReserveKeepsBooks DEF CustodyInv, Kinds
  <2>8. Holds(s, slots') /\ Pending(s, admitted')
    BY <2>1, <2>4, <2>5, <2>7, WidgetFacts DEF Holds, Pending, Operations
  <2>9. SlotsFor(w)
    BY <2>1, <2>5, <2>6, WidgetFacts DEF SlotsFor, Kinds
  <2> QED
    BY <2>1, <2>2, <2>5, <2>8, <2>9, StepAt
<1>2. CASE SubmitSession(w)
  <2> DEFINE s == [r EXCEPT !.histAdmitted = TRUE]
  <2>1. /\ r.hist # 0 /\ ~r.histAdmitted /\ Reserve("History", r.hist) /\ Become(w, s)
        /\ UNCHANGED <<next, leases, committed>>
    BY <1>2 DEF SubmitSession, hostVars
  <2>2. /\ Shaped(s)
        /\ s.phase = r.phase /\ s.op = r.op /\ s.hist = r.hist
        /\ s.histAdmitted = TRUE /\ s.rebind = r.rebind
    BY WidgetFacts DEF Shaped, Fields
  <2>3. Succeeds(r, s) /\ r.hist \in Operations /\ LiveAt(w, r.hist)
    BY <2>1, <2>2, WidgetFacts DEF Succeeds, Sound, Anchored, LiveAt
  <2>4. r.hist \notin admitted
    BY <2>1, WidgetFacts DEF Pending
  <2>5. /\ admitted' = admitted \cup {r.hist}
        /\ \A k, o : Slot(k, o) \in slots' <=> Slot(k, o) \in slots \/ (k = "History" /\ o = r.hist)
    BY <2>1, <2>3, <2>4, ReserveKeepsBooks DEF CustodyInv, Kinds
  <2>6. Holds(s, slots') /\ Pending(s, admitted')
    BY <2>1, <2>2, <2>3, <2>5, WidgetFacts DEF Holds, Pending, Sound, Operations
  <2>7. SlotsFor(w)
    BY <2>1, <2>3, <2>4, WidgetFacts DEF SlotsFor, Kinds
  <2> HIDE DEF s
  <2> QED
    BY <2>1, <2>3, <2>6, <2>7, StepAt
<1> QED
  BY <1>1, <1>2

LEMMA TakeStep ==
  ASSUME CustodyInv, NEW w \in Widgets, Take(w)
  PROVE  CustodyInv'
<1> DEFINE r == widget[w]
           q == Head(r.queue)
           s == [r EXCEPT !.queue = Tail(@),
                          !.dispatched = IF q.type \in EditRequests THEN @ \cup {q.op} ELSE @]
<1>1. Become(w, s) /\ SlotsKept /\ UNCHANGED <<next, leases, committed>>
  BY DEF Take
<1>2. Shaped(s) /\ Ops(s) = Ops(r)
  BY WidgetFacts DEF Shaped, Fields, Ops
<1> HIDE DEF s
<1> QED
  BY <1>1, <1>2, QuietStep

\* A change of configuration leaves the operations alone.
LEMMA ConfiguredFacts ==
  ASSUME NEW r, Shaped(r)
  PROVE  /\ Shaped(Configured(r)) /\ Ops(Configured(r)) = Ops(r)
         /\ \A config : Shaped([r EXCEPT !.config = config])
                        /\ Ops([r EXCEPT !.config = config]) = Ops(r)
         /\ \A credit : Shaped([r EXCEPT !.credit = credit])
                        /\ Ops([r EXCEPT !.credit = credit]) = Ops(r)
  BY DEF Configured, Shaped, Fields, Ops

LEMMA ConfigurationSteps ==
  ASSUME CustodyInv, NEW w \in Widgets, Configure(w) \/ Retarget(w)
  PROVE  CustodyInv'
<1> DEFINE r == widget[w]
<1>1. CASE Configure(w)
  <2> DEFINE c == [r EXCEPT !.config = TRUE]
             s == IF CanConfigure(c) THEN Configured(c) ELSE c
  <2>1. Become(w, s) /\ SlotsKept /\ UNCHANGED <<next, leases, committed>>
    BY <1>1 DEF Configure, hostVars
  <2>2. Shaped(c) /\ Ops(c) = Ops(r)
    BY WidgetFacts, ConfiguredFacts
  <2>3. Shaped(s) /\ Ops(s) = Ops(r)
    BY <2>2, ConfiguredFacts
  <2> HIDE DEF s
  <2> QED
    BY <2>1, <2>3, QuietStep
<1>2. CASE Retarget(w)
  <2> DEFINE s == [r EXCEPT !.credit = @ - 1, !.queue = @ \o CancelHistory(r)]
  <2>1. Become(w, s) /\ SlotsKept /\ UNCHANGED <<next, leases, committed>>
    BY <1>2 DEF Retarget, hostVars
  <2>2. Shaped(s) /\ Ops(s) = Ops(r)
    BY WidgetFacts DEF Shaped, Fields, Ops
  <2> HIDE DEF s
  <2> QED
    BY <2>1, <2>2, QuietStep
<1> QED
  BY <1>1, <1>2

\* A widget without operations succeeds any other.
LEMMA BareFacts ==
  ASSUME NEW r, NEW s, Shaped(s), s.phase = "None", s.op = 0, s.hist = 0,
         s.histAdmitted = FALSE, s.rebind = NoIntent
  PROVE  Succeeds(r, s)
<1>1. NoIntent \in Intents /\ NoIntent.kind \notin Kinds /\ NoIntent.op = 0
  BY DEF NoIntent, Intent, Intents, Kinds
<1>2. Sound(s)
  BY <1>1 DEF Sound, Phases
<1>3. Anchored(s)
  BY <1>1 DEF Anchored, Kinds
<1> QED
  BY <1>2, <1>3 DEF Succeeds

LEMMA DisposeStep ==
  ASSUME CustodyInv, NEW w \in Widgets, Dispose(w)
  PROVE  CustodyInv'
<1> DEFINE s == [Fresh EXCEPT !.mounted = FALSE, !.binding = widget[w].binding, !.credit = 0]
<1>1. Become(w, s) /\ SlotsKept /\ UNCHANGED <<next, leases, committed>>
  BY DEF Dispose, hostVars
<1>2. /\ Shaped(s)
      /\ s.phase = "None" /\ s.op = 0 /\ s.hist = 0 /\ s.histAdmitted = FALSE
      /\ s.rebind = NoIntent
  BY DEF Fresh, Shaped, Fields
<1>3. Succeeds(widget[w], s)
  BY <1>2, BareFacts
<1>4. Holds(s, slots') /\ Pending(s, admitted')
  BY <1>1, <1>2, WidgetFacts DEF Holds, Pending, SlotsKept
<1> HIDE DEF s
<1> QED
  BY <1>1, <1>3, <1>4, StepAt DEF SlotsFor

-----------------------------------------------------------------------------
(* Rebinds and settlements.                                                *)

LEMMA ReboundFacts ==
  ASSUME NEW r, Shaped(r), NEW binding, NEW settling
  PROVE  /\ Shaped(Rebound(r, binding, settling))
         /\ Ops(Rebound(r, binding, settling)) = <<"None", 0, 0, FALSE, NoIntent>>
         /\ Rebound(r, binding, settling).binding = binding
  BY DEF Rebound, Shaped, Fields, Ops

\* Adopting a retained rebind releases the slot of the operation it settles,
\* which is live here and so nowhere else.
LEMMA AdoptStep ==
  ASSUME CustodyInv, NEW w \in Widgets, NEW r, Shaped(r), Sound(r), Anchored(r),
         r.op = widget[w].op, r.hist = widget[w].hist, Adopt(w, r),
         UNCHANGED <<next, leases, committed>>
  PROVE  CustodyInv'
<1> DEFINE s == Rebound(r, r.rebind.op, Settling(r))
<1>1. Become(w, s)
  BY DEF Adopt
<1>2. Shaped(s) /\ Ops(s) = <<"None", 0, 0, FALSE, NoIntent>>
  BY ReboundFacts
<1> HIDE DEF s
<1>3. /\ s.phase = "None" /\ s.op = 0 /\ s.hist = 0 /\ s.histAdmitted = FALSE
      /\ s.rebind = NoIntent
  BY <1>2 DEF Ops
<1>4. Succeeds(widget[w], s)
  BY <1>2, <1>3, BareFacts
<1>5. SlotsFor(w)
  <2>1. CASE r.rebind.kind = "Direct"
    BY <2>1 DEF Adopt, SlotsFor
  <2>2. CASE r.rebind.kind # "Direct"
    <3>1. Release(r.rebind.kind, r.rebind.op)
      BY <2>2 DEF Adopt
    <3>2. r.rebind.kind \in Kinds /\ r.rebind.op \in Operations
      BY <3>1, SlotFacts DEF Release, CustodyInv, Books
    <3>3. LiveAt(w, r.rebind.op)
      BY <3>2 DEF Anchored, Kinds, LiveAt, Operations
    <3> QED
      BY <3>1, <3>2, <3>3, WidgetFacts DEF SlotsFor
  <2> QED
    BY <2>1, <2>2
<1>6. Books' /\ 0 \notin admitted'
  BY <1>5, SlotsForOne DEF Books, Operations
<1>7. Holds(s, slots') /\ Pending(s, admitted')
  BY <1>3, <1>6, SlotFacts DEF Holds, Pending, Books, Operations
<1> QED
  BY <1>1, <1>4, <1>5, <1>7, StepAt

\* Retaining an intent that names the admitted operation of this widget, or none.
LEMMA RetainStep ==
  ASSUME CustodyInv, NEW w \in Widgets, NEW intent \in Intents,
         Anchored([widget[w] EXCEPT !.rebind = intent]),
         RetainAndService(w, intent), UNCHANGED <<next, leases, committed>>
  PROVE  CustodyInv'
<1> DEFINE r == [widget[w] EXCEPT !.rebind = intent]
<1>1. (Adoptable(r) /\ Adopt(w, r)) \/ (Become(w, r) /\ SlotsKept)
  BY DEF RetainAndService
<1>2. /\ Shaped(r) /\ Anchored(r)
      /\ r.phase = widget[w].phase /\ r.op = widget[w].op /\ r.hist = widget[w].hist
      /\ r.histAdmitted = widget[w].histAdmitted /\ r.rebind = intent
  BY WidgetFacts DEF Shaped, Fields
<1> HIDE DEF r
<1>3. Sound(r)
  BY <1>2, WidgetFacts DEF Sound
<1>4. CASE Adopt(w, r)
  BY <1>2, <1>3, <1>4, AdoptStep
<1>5. CASE Become(w, r) /\ SlotsKept
  <2>1. Succeeds(widget[w], r)
    BY <1>2, <1>3, WidgetFacts DEF Succeeds
  <2>2. Holds(r, slots') /\ Pending(r, admitted')
    BY <1>2, <1>5, WidgetFacts DEF Holds, Pending, SlotsKept
  <2> QED
    BY <1>5, <2>1, <2>2, StepAt DEF SlotsFor
<1> QED
  BY <1>1, <1>4, <1>5

LEMMA RetainingSteps ==
  ASSUME CustodyInv, NEW w \in Widgets,
         RequestRebind(w) \/ SettleCommitted(w) \/ SettleHistoryCommitted(w)
  PROVE  CustodyInv'
<1> DEFINE r == widget[w]
<1>1. UNCHANGED <<next, leases, committed>>
  BY DEF RequestRebind, SettleCommitted, SettleHistoryCommitted, hostVars
<1>2. ASSUME NEW intent
      PROVE  /\ [r EXCEPT !.rebind = intent].rebind = intent
             /\ [r EXCEPT !.rebind = intent].phase = r.phase
             /\ [r EXCEPT !.rebind = intent].op = r.op
             /\ [r EXCEPT !.rebind = intent].hist = r.hist
             /\ [r EXCEPT !.rebind = intent].histAdmitted = r.histAdmitted
  BY WidgetFacts DEF Shaped, Fields
<1>3. CASE RequestRebind(w)
  <2> DEFINE intent == Intent("Direct", 0)
  <2>1. intent \in Intents /\ intent.kind = "Direct" /\ intent.op = 0
    BY DEF Intent, Intents
  <2>2. RetainAndService(w, intent)
    BY <1>3 DEF RequestRebind
  <2> HIDE DEF intent
  <2>3. Anchored([r EXCEPT !.rebind = intent])
    BY <1>2, <2>1 DEF Anchored, Kinds
  <2> QED
    BY <1>1, <2>1, <2>2, <2>3, RetainStep
<1>4. CASE SettleCommitted(w)
  <2> DEFINE intent == Intent("Mutation", r.op)
  <2>1. intent \in Intents /\ intent.kind = "Mutation" /\ intent.op = r.op
    BY WidgetFacts DEF Intent, Intents, Kinds, Sound
  <2>2. RetainAndService(w, intent) /\ r.phase = "CommitPending" /\ r.op \in committed
    BY <1>4 DEF SettleCommitted
  <2> HIDE DEF intent
  <2>3. Anchored([r EXCEPT !.rebind = intent])
    BY <1>2, <2>1, <2>2 DEF Anchored, Kinds
  <2> QED
    BY <1>1, <2>1, <2>2, <2>3, RetainStep
<1>5. CASE SettleHistoryCommitted(w)
  <2> DEFINE intent == Intent("History", r.hist)
  <2>1. intent \in Intents /\ intent.kind = "History" /\ intent.op = r.hist
    BY WidgetFacts DEF Intent, Intents, Kinds, Sound
  <2>2. RetainAndService(w, intent) /\ r.histAdmitted /\ r.hist \in committed
    BY <1>5 DEF SettleHistoryCommitted
  <2> HIDE DEF intent
  <2>3. Anchored([r EXCEPT !.rebind = intent])
    BY <1>2, <2>1, <2>2 DEF Anchored, Kinds
  <2> QED
    BY <1>1, <2>1, <2>2, <2>3, RetainStep
<1> QED
  BY <1>3, <1>4, <1>5

\* What the prepaint makes of a widget before it serves a rebind.
Prepared(r) ==
  LET credited == [r EXCEPT !.credit = Credits]
  IN  IF CanConfigure(credited) THEN Configured(credited) ELSE credited

LEMMA PreparedFacts ==
  ASSUME NEW r, Shaped(r)
  PROVE  Shaped(Prepared(r)) /\ Ops(Prepared(r)) = Ops(r)
<1> DEFINE credited == [r EXCEPT !.credit = Credits]
<1>1. Shaped(credited) /\ Ops(credited) = Ops(r)
  BY ConfiguredFacts
<1>2. Prepared(r) \in {credited, Configured(credited)}
  BY DEF Prepared
<1> HIDE DEF credited
<1> QED
  BY <1>1, <1>2, ConfiguredFacts

LEMMA FrameStep ==
  ASSUME CustodyInv, NEW w \in Widgets, NEW refused \in BOOLEAN, Frame(w, refused)
  PROVE  CustodyInv'
<1> DEFINE credited == [widget[w] EXCEPT !.credit = Credits]
           r == Prepared(widget[w])
<1>1. /\ UNCHANGED <<next, leases, committed>>
      /\ \/ SlotsKept /\ \E s \in {credited, r} : Become(w, s)
         \/ Adopt(w, r)
  BY DEF Frame, Prepared, hostVars
<1>2. /\ Shaped(credited) /\ Ops(credited) = Ops(widget[w])
      /\ Shaped(r) /\ Ops(r) = Ops(widget[w])
  BY WidgetFacts, ConfiguredFacts, PreparedFacts
<1> HIDE DEF credited, r
<1>3. /\ r.phase = widget[w].phase /\ r.op = widget[w].op /\ r.hist = widget[w].hist
      /\ r.histAdmitted = widget[w].histAdmitted /\ r.rebind = widget[w].rebind
  BY <1>2 DEF Ops
<1>4. Sound(r) /\ Anchored(r)
  BY <1>3, WidgetFacts DEF Sound, Anchored
<1>5. CASE SlotsKept /\ \E s \in {credited, r} : Become(w, s)
  BY <1>1, <1>2, <1>5, QuietStep
<1>6. CASE Adopt(w, r)
  BY <1>1, <1>2, <1>3, <1>4, <1>6, AdoptStep
<1> QED
  BY <1>1, <1>5, <1>6

\* An answer that ends the live operation of a widget without a rebind.
LEMMA UnchangedSteps ==
  ASSUME CustodyInv, NEW w \in Widgets, SettleUnchanged(w) \/ SettleHistoryUnchanged(w)
  PROVE  CustodyInv'
<1> DEFINE r == widget[w]
<1>1. CASE SettleUnchanged(w)
  <2> DEFINE s == [r EXCEPT !.phase = "None", !.op = 0, !.retired = r.op,
                            !.dispatched = @ \ {r.op}, !.credit = @ - 1]
  <2>1. /\ r.phase = "CommitPending" /\ r.op \notin committed
        /\ Release("Mutation", r.op) /\ Become(w, s) /\ UNCHANGED <<next, leases, committed>>
    BY <1>1 DEF SettleUnchanged, hostVars
  <2>2. /\ Shaped(s)
        /\ s.phase = "None" /\ s.op = 0 /\ s.hist = r.hist
        /\ s.histAdmitted = r.histAdmitted /\ s.rebind = r.rebind
    BY WidgetFacts DEF Shaped, Fields
  <2> HIDE DEF s
  <2>3. r.hist = 0 /\ ~r.histAdmitted /\ r.rebind.kind \notin Kinds
    BY <2>1, WidgetFacts DEF Sound, Anchored, Kinds
  <2>4. Succeeds(r, s)
    BY <2>2, <2>3, WidgetFacts DEF Succeeds, Sound, Anchored, Phases, Kinds
  <2>5. r.op \in Operations /\ LiveAt(w, r.op)
    BY <2>1, WidgetFacts DEF Sound, LiveAt, Operations
  <2>6. SlotsFor(w)
    BY <2>1, <2>5, WidgetFacts DEF SlotsFor, Kinds
  <2>7. Books' /\ 0 \notin admitted'
    BY <2>6, SlotsForOne DEF Books, Operations
  <2>8. Holds(s, slots') /\ Pending(s, admitted')
    BY <2>2, <2>3, <2>7, SlotFacts DEF Holds, Pending, Books, Operations
  <2> QED
    BY <2>1, <2>4, <2>6, <2>8, StepAt
<1>2. CASE SettleHistoryUnchanged(w)
  <2> DEFINE s == [r EXCEPT !.hist = 0, !.histAdmitted = FALSE, !.credit = @ - 1]
  <2>1. /\ r.histAdmitted /\ r.hist \notin committed
        /\ Release("History", r.hist) /\ Become(w, s) /\ UNCHANGED <<next, leases, committed>>
    BY <1>2 DEF SettleHistoryUnchanged, hostVars
  <2>2. /\ Shaped(s)
        /\ s.phase = r.phase /\ s.op = r.op /\ s.hist = 0
        /\ s.histAdmitted = FALSE /\ s.rebind = r.rebind
    BY WidgetFacts DEF Shaped, Fields
  <2> HIDE DEF s
  <2>3. /\ r.hist \in Operations /\ LiveAt(w, r.hist)
        /\ r.phase = "None" /\ r.op = 0 /\ r.rebind.kind \notin Kinds
    BY <2>1, WidgetFacts DEF Sound, Anchored, Kinds, LiveAt
  <2>4. Succeeds(r, s)
    BY <2>2, <2>3, WidgetFacts DEF Succeeds, Sound, Anchored, Kinds
  <2>5. SlotsFor(w)
    BY <2>1, <2>3, WidgetFacts DEF SlotsFor, Kinds
  <2>6. Books' /\ 0 \notin admitted'
    BY <2>5, SlotsForOne DEF Books, Operations
  <2>7. Holds(s, slots') /\ Pending(s, admitted')
    BY <2>2, <2>3, <2>6, SlotFacts DEF Holds, Pending, Books, Operations
  <2> QED
    BY <2>1, <2>4, <2>5, <2>7, StepAt
<1> QED
  BY <1>1, <1>2

\* The answer to an operation that is live nowhere disturbs no widget.
LEMMA ObsoleteRelease ==
  ASSUME CustodyInv, NEW kind, NEW op, Release(kind, op), ~Live(op), NEW w \in Widgets,
         NEW s, Become(w, s), Shaped(s), Ops(s) = Ops(widget[w]),
         UNCHANGED <<next, leases, committed>>
  PROVE  CustodyInv'
<1>1. kind \in Kinds /\ op \in Operations /\ \A v \in Widgets : ~LiveAt(v, op)
  BY SlotFacts DEF Release, CustodyInv, Books, Live
<1>2. /\ s.phase = widget[w].phase /\ s.op = widget[w].op /\ s.hist = widget[w].hist
      /\ s.histAdmitted = widget[w].histAdmitted /\ s.rebind = widget[w].rebind
  BY DEF Ops
<1>3. Succeeds(widget[w], s)
  BY <1>2, WidgetFacts DEF Succeeds, Sound, Anchored
<1>4. SlotsFor(w)
  BY <1>1 DEF SlotsFor
<1>5. /\ admitted' = admitted
      /\ \A k, o : Slot(k, o) \in slots' <=> Slot(k, o) \in slots /\ ~(k = kind /\ o = op)
  BY ReleaseKeepsBooks DEF CustodyInv
<1>6. s.op # op /\ s.hist # op
  BY <1>1, <1>2 DEF LiveAt, Operations
<1>7. Holds(s, slots') /\ Pending(s, admitted')
  BY <1>2, <1>5, <1>6, WidgetFacts DEF Holds, Pending
<1> QED
  BY <1>3, <1>4, <1>7, StepAt

LEMMA ObsoleteSteps ==
  ASSUME CustodyInv, NEW t \in slots,
         SettleDetached(t) \/ \E w \in Widgets : SettleObsolete(w, t)
  PROVE  CustodyInv'
<1>1. ASSUME NEW w \in Widgets, SettleObsolete(w, t) PROVE CustodyInv'
  <2> DEFINE s == [widget[w] EXCEPT !.dispatched = @ \ {t.op}, !.credit = @ - 1]
  <2>1. /\ Release(t.kind, t.op) /\ ~Live(t.op) /\ Become(w, s)
        /\ UNCHANGED <<next, leases, committed>>
    BY <1>1 DEF SettleObsolete, hostVars
  <2>2. Shaped(s) /\ Ops(s) = Ops(widget[w])
    BY WidgetFacts DEF Shaped, Fields, Ops
  <2> HIDE DEF s
  <2> QED
    BY <2>1, <2>2, ObsoleteRelease
<1>2. CASE SettleDetached(t)
  <2>1. /\ Release(t.kind, t.op) /\ ~Live(t.op)
        /\ UNCHANGED <<widget, next, leases, committed>>
    BY <1>2 DEF SettleDetached, hostVars
  <2>2. CASE Widgets = {}
    <3>1. Books' /\ admitted' = admitted
      BY <2>1, ReleaseKeepsBooks DEF CustodyInv
    <3> QED
      BY <2>1, <2>2, <3>1 DEF CustodyInv, CustodyType, Allocated, Books, CustodyExact,
                              OperationsUnique
  <2>3. ASSUME NEW w \in Widgets PROVE CustodyInv'
    <3>1. Become(w, widget[w])
      BY <2>1 DEF Become, CustodyInv, CustodyType
    <3> QED
      BY <2>1, <3>1, WidgetFacts, ObsoleteRelease
  <2> QED
    BY <2>2, <2>3
<1> QED
  BY <1>1, <1>2

LEMMA HostSteps ==
  ASSUME CustodyInv,
         Lease \/ \E op \in Operations : DropLease(op) \/ Apply(op) \/ AnswerCancelled(op)
  PROVE  CustodyInv'
<1>1. CASE Lease
  BY <1>1, NewOperation, HostStep DEF Lease, CustodyInv, CustodyType
<1>2. ASSUME NEW op \in Operations, DropLease(op) \/ Apply(op) \/ AnswerCancelled(op)
      PROVE  CustodyInv'
  BY <1>2, HostStep DEF DropLease, Apply, AnswerCancelled, CustodyInv, CustodyType
<1> QED
  BY <1>1, <1>2

-----------------------------------------------------------------------------
(* The theorems.                                                           *)

LEMMA CustodyInit == ASSUME Init PROVE CustodyInv
<1>1. Shaped(Fresh) /\ Succeeds(Fresh, Fresh)
  <2>1. Shaped(Fresh)
    BY DEF Fresh, Shaped, Fields
  <2> QED
    BY <2>1, BareFacts DEF Fresh
<1>2. CustodyType /\ Allocated /\ Books
  BY <1>1 DEF Init, CustodyType, Allocated, Books, OneSlotEach, Held, Succeeds
<1>3. CustodyExact
  BY DEF Init, CustodyExact, Held, Fresh
<1>4. OperationsUnique
  BY DEF Init, OperationsUnique, LiveAt, Fresh, Operations
<1>5. \A w \in Widgets : Anchored(widget[w]) /\ Pending(widget[w], admitted)
  BY <1>1 DEF Init, Succeeds, Pending
<1> QED
  BY <1>2, <1>3, <1>4, <1>5 DEF CustodyInv

LEMMA CustodyStep == ASSUME CustodyInv, [Next]_vars PROVE CustodyInv'
<1>1. ASSUME NEW w \in Widgets, Act(w) PROVE CustodyInv'
  BY <1>1, BeginSteps, EditSteps, AdmissionSteps, RequestHistoryStep, TakeStep,
     RetainingSteps, ConfigurationSteps, FrameStep, UnchangedSteps, ObsoleteSteps, DisposeStep
     DEF Act
<1>2. CASE Lease \/ \E op \in Operations : DropLease(op) \/ Apply(op) \/ AnswerCancelled(op)
  BY <1>2, HostSteps
<1>3. CASE \E s \in slots : SettleDetached(s)
  BY <1>3, ObsoleteSteps
<1>4. CASE UNCHANGED vars
  BY <1>4 DEF vars, hostVars, CustodyInv, CustodyType, Allocated, Books, OneSlotEach, Held,
              CustodyExact, OperationsUnique, LiveAt, Anchored, Pending
<1> QED
  BY <1>1, <1>2, <1>3, <1>4 DEF Next

\* The inductive invariant of custody.
THEOREM CustodyInvariant == Spec => []CustodyInv
<1>1. Init => CustodyInv
  BY CustodyInit
<1>2. CustodyInv /\ [Next]_vars => CustodyInv'
  BY CustodyStep
<1> QED
  BY <1>1, <1>2, PTL DEF Spec

\* No rebind, disposal, refusal or retry loses or doubles a settlement slot,
\* however many widgets share the coordinator (types.rs reserve and release).
THEOREM CustodyHolds == Spec => []CustodyExact
<1>1. CustodyInv => CustodyExact
  BY DEF CustodyInv
<1> QED
  BY <1>1, CustodyInvariant, PTL

\* An operation is live in one widget at most (types.rs allocate_operation).
THEOREM OperationsUniqueHolds == Spec => []OperationsUnique
<1>1. CustodyInv => OperationsUnique
  BY DEF CustodyInv
<1> QED
  BY <1>1, CustodyInvariant, PTL

-----------------------------------------------------------------------------
(* What a widget is bound to.                                              *)

\* A widget adopts an intent that is anchored: the one it retained, when that one
\* is a settlement.
Adopts(w, r) ==
  /\ Adopt(w, r) /\ Shaped(r) /\ Anchored(r)
  /\ r.op = widget[w].op /\ r.hist = widget[w].hist
  /\ widget[w].rebind.kind \in Kinds => r.rebind = widget[w].rebind

\* How the binding and the retained intent of a widget change in its own steps.
BindingChange(w) ==
  \/ widget'[w].binding = widget[w].binding
     /\ \/ widget'[w].rebind = widget[w].rebind
        \/ widget[w].rebind.kind \notin Kinds
        \/ ~widget'[w].mounted
  \/ \E r : Adopts(w, r)

\* The record a step writes is the widget's next state.
LEMMA BecomeFacts ==
  ASSUME CustodyInv, NEW w \in Widgets, NEW s, Become(w, s)
  PROVE  widget'[w] = s /\ \A v \in Widgets \ {w} : widget'[v] = widget[v]
  BY DEF Become, CustodyInv, CustodyType

\* A step that retains an intent, or adopts it at once.
LEMMA RetainBinding ==
  ASSUME CustodyInv, NEW w \in Widgets, NEW intent \in Intents,
         Anchored([widget[w] EXCEPT !.rebind = intent]),
         widget[w].rebind.kind \in Kinds => intent = widget[w].rebind,
         RetainAndService(w, intent)
  PROVE  BindingChange(w)
<1> DEFINE r == [widget[w] EXCEPT !.rebind = intent]
<1>1. Adopt(w, r) \/ Become(w, r)
  BY DEF RetainAndService
<1>2. /\ Shaped(r) /\ Anchored(r) /\ r.rebind = intent /\ r.binding = widget[w].binding
      /\ r.op = widget[w].op /\ r.hist = widget[w].hist
  BY WidgetFacts DEF Shaped, Fields
<1> HIDE DEF r
<1>3. CASE Adopt(w, r)
  BY <1>2, <1>3 DEF BindingChange, Adopts
<1>4. CASE Become(w, r)
  BY <1>2, <1>4, BecomeFacts DEF BindingChange
<1> QED
  BY <1>1, <1>3, <1>4

LEMMA RetainingBindings ==
  ASSUME CustodyInv, NEW w \in Widgets,
         RequestRebind(w) \/ SettleCommitted(w) \/ SettleHistoryCommitted(w)
  PROVE  BindingChange(w)
<1> DEFINE r == widget[w]
<1>1. ASSUME NEW intent
      PROVE  /\ [r EXCEPT !.rebind = intent].rebind = intent
             /\ [r EXCEPT !.rebind = intent].phase = r.phase
             /\ [r EXCEPT !.rebind = intent].op = r.op
             /\ [r EXCEPT !.rebind = intent].hist = r.hist
             /\ [r EXCEPT !.rebind = intent].histAdmitted = r.histAdmitted
  BY WidgetFacts DEF Shaped, Fields
<1>2. \A kind : Intent(kind, r.rebind.op) = r.rebind \/ r.rebind.kind # kind
  BY WidgetFacts DEF Sound, Intents, Intent
<1>3. CASE RequestRebind(w)
  <2> DEFINE intent == Intent("Direct", 0)
  <2>1. intent \in Intents /\ intent.kind = "Direct" /\ intent.op = 0
    BY DEF Intent, Intents
  <2>2. RetainAndService(w, intent)
    BY <1>3 DEF RequestRebind
  <2> HIDE DEF intent
  <2>3. Anchored([r EXCEPT !.rebind = intent]) /\ r.rebind.kind \notin Kinds
    BY <1>1, <2>1, <2>2 DEF Anchored, Kinds, RetainAndService, Retains
  <2> QED
    BY <2>1, <2>2, <2>3, RetainBinding
<1>4. CASE SettleCommitted(w)
  <2> DEFINE intent == Intent("Mutation", r.op)
  <2>1. intent \in Intents /\ intent.kind = "Mutation" /\ intent.op = r.op
    BY WidgetFacts DEF Intent, Intents, Kinds, Sound
  <2>2. RetainAndService(w, intent) /\ r.phase = "CommitPending" /\ r.op \in committed
    BY <1>4 DEF SettleCommitted
  <2>3. r.rebind.kind \in Kinds => intent = r.rebind
    BY <1>2, <2>2, WidgetFacts DEF Sound, Anchored, Kinds
  <2> HIDE DEF intent
  <2>4. Anchored([r EXCEPT !.rebind = intent])
    BY <1>1, <2>1, <2>2 DEF Anchored, Kinds
  <2> QED
    BY <2>1, <2>2, <2>3, <2>4, RetainBinding
<1>5. CASE SettleHistoryCommitted(w)
  <2> DEFINE intent == Intent("History", r.hist)
  <2>1. intent \in Intents /\ intent.kind = "History" /\ intent.op = r.hist
    BY WidgetFacts DEF Intent, Intents, Kinds, Sound
  <2>2. RetainAndService(w, intent) /\ r.histAdmitted /\ r.hist \in committed
    BY <1>5 DEF SettleHistoryCommitted
  <2>3. r.rebind.kind \in Kinds => intent = r.rebind
    BY <1>2, <2>2, WidgetFacts DEF Sound, Anchored, Kinds
  <2> HIDE DEF intent
  <2>4. Anchored([r EXCEPT !.rebind = intent])
    BY <1>1, <2>1, <2>2 DEF Anchored, Kinds
  <2> QED
    BY <2>1, <2>2, <2>3, <2>4, RetainBinding
<1> QED
  BY <1>3, <1>4, <1>5

LEMMA FrameBinding ==
  ASSUME CustodyInv, NEW w \in Widgets, NEW refused \in BOOLEAN, Frame(w, refused)
  PROVE  BindingChange(w)
<1> DEFINE credited == [widget[w] EXCEPT !.credit = Credits]
           r == Prepared(widget[w])
<1>1. (\E s \in {credited, r} : Become(w, s)) \/ Adopt(w, r)
  BY DEF Frame, Prepared
<1>2. /\ Shaped(credited) /\ credited.binding = widget[w].binding
      /\ credited.rebind = widget[w].rebind
  BY WidgetFacts DEF Shaped, Fields
<1>3. /\ r.binding = widget[w].binding /\ Ops(r) = Ops(widget[w])
  <2>1. r \in {credited, Configured(credited)}
    BY DEF Prepared
  <2>2. Configured(credited).binding = credited.binding
    BY <1>2 DEF Configured, Shaped, Fields
  <2> HIDE DEF credited, r
  <2> QED
    BY <1>2, <2>1, <2>2, WidgetFacts, PreparedFacts DEF r
<1> HIDE DEF credited, r
<1>4. /\ r.phase = widget[w].phase /\ r.op = widget[w].op /\ r.hist = widget[w].hist
      /\ r.histAdmitted = widget[w].histAdmitted /\ r.rebind = widget[w].rebind
  BY <1>3 DEF Ops
<1>5. Shaped(r) /\ Anchored(r)
  <2>1. Shaped(r)
    BY WidgetFacts, PreparedFacts DEF r
  <2> QED
    BY <1>4, <2>1, WidgetFacts DEF Anchored
<1>6. CASE \E s \in {credited, r} : Become(w, s)
  BY <1>2, <1>3, <1>4, <1>6, BecomeFacts DEF BindingChange
<1>7. CASE Adopt(w, r)
  BY <1>4, <1>5, <1>7 DEF BindingChange, Adopts
<1> QED
  BY <1>1, <1>6, <1>7

\* The parts that say what a widget is and will be bound to.
SameBinding(r, s) == s.binding = r.binding /\ s.rebind = r.rebind

LEMMA SameBindings ==
  ASSUME NEW r, Shaped(r)
  PROVE  /\ \A q : \A s \in Pushed(r, q) : SameBinding(r, s)
         /\ Shaped(Abandoned(r)) /\ SameBinding(r, Abandoned(r))
         /\ Shaped(Configured(r)) /\ SameBinding(r, Configured(r))
         /\ \A phase : /\ Shaped([r EXCEPT !.phase = phase])
                       /\ SameBinding(r, [r EXCEPT !.phase = phase])
         /\ \A phase, op : /\ Shaped([r EXCEPT !.phase = phase, !.op = op])
                           /\ SameBinding(r, [r EXCEPT !.phase = phase, !.op = op])
         /\ \A op : SameBinding(r, [r EXCEPT !.hist = op])
         /\ SameBinding(r, [r EXCEPT !.config = TRUE])
<1>1. \A q : \A s \in Pushed(r, q) : SameBinding(r, s)
  BY DEF Pushed, SameBinding, Shaped, Fields
<1>2. Shaped(Abandoned(r)) /\ SameBinding(r, Abandoned(r))
  BY DEF Abandoned, SameBinding, Shaped, Fields
<1>3. Shaped(Configured(r)) /\ SameBinding(r, Configured(r))
  BY DEF Configured, SameBinding, Shaped, Fields
<1>4. \A phase : /\ Shaped([r EXCEPT !.phase = phase])
                 /\ SameBinding(r, [r EXCEPT !.phase = phase])
  BY DEF SameBinding, Shaped, Fields
<1>5. \A phase, op : /\ Shaped([r EXCEPT !.phase = phase, !.op = op])
                     /\ SameBinding(r, [r EXCEPT !.phase = phase, !.op = op])
  BY DEF SameBinding, Shaped, Fields
<1>6. /\ \A op : SameBinding(r, [r EXCEPT !.hist = op])
      /\ SameBinding(r, [r EXCEPT !.config = TRUE])
  BY DEF SameBinding, Shaped, Fields
<1> QED
  BY <1>1, <1>2, <1>3, <1>4, <1>5, <1>6

\* Pushing a request onto what kept the binding keeps it.
LEMMA PushedBinding ==
  ASSUME NEW r, NEW u, Shaped(u), SameBinding(r, u), NEW q, NEW s \in Pushed(u, q)
  PROVE  SameBinding(r, s) /\ Shaped(s)
<1>1. SameBinding(u, s)
  BY DEF Pushed, SameBinding, Shaped, Fields
<1>2. Shaped(s)
  BY PushedFacts
<1> QED
  BY <1>1, <1>2 DEF SameBinding

\* Every other step of a widget leaves its binding and its retained intent, or
\* disposes of it.
LEMMA OtherBindings ==
  ASSUME CustodyInv, NEW w \in Widgets, Act(w),
         ~(RequestRebind(w) \/ SettleCommitted(w) \/ SettleHistoryCommitted(w)),
         ~ \E refused \in BOOLEAN : Frame(w, refused)
  PROVE  BindingChange(w)
<1> DEFINE r == widget[w]
<1>1. Shaped(r) /\ SameBinding(r, r)
  BY WidgetFacts DEF SameBinding
<1>2. ASSUME NEW s, Become(w, s), SameBinding(r, s) PROVE BindingChange(w)
  BY <1>2, BecomeFacts DEF SameBinding, BindingChange
<1>3. ASSUME NEW u, Shaped(u), SameBinding(r, u), NEW q, \E s \in Pushed(u, q) : Become(w, s)
      PROVE  BindingChange(w)
  BY <1>2, <1>3, PushedBinding
<1>4. CASE (\E op \in Operations : BeginHost(w, op)) \/ BeginLocal(w)
  <2>1. PICK op : Begun(w, op)
    BY <1>4 DEF BeginHost, BeginLocal
  <2> QED
    BY <1>1, <1>3, <2>1, SameBindings DEF Begun
<1>5. CASE AcceptPreflight(w) \/ SubmitFinish(w) \/ AcceptFinish(w)
  <2>1. \E phase : \/ Become(w, [r EXCEPT !.phase = phase])
                   \/ \E q : \E s \in Pushed([r EXCEPT !.phase = phase], q) : Become(w, s)
    BY <1>5 DEF AcceptPreflight, SubmitFinish, AcceptFinish
  <2> QED
    BY <1>1, <1>2, <1>3, <2>1, SameBindings
<1>6. CASE Reject(w) \/ CancelMutation(w)
  <2>1. \/ Become(w, Abandoned(r))
        \/ \E q : \E s \in Pushed(Abandoned(r), q) : Become(w, s)
    BY <1>6 DEF Reject, CancelMutation
  <2> QED
    BY <1>1, <1>2, <1>3, <2>1, SameBindings
<1>7. CASE RequestHistory(w)
  <2>1. PICK s \in Pushed(r, Request("History", next)) :
          Become(w, IF s = r THEN s ELSE [s EXCEPT !.hist = next])
    BY <1>7 DEF RequestHistory
  <2>2. Shaped(s) /\ SameBinding(r, s)
    BY <1>1, <2>1, PushedBinding
  <2>3. SameBinding(s, [s EXCEPT !.hist = next])
    BY <2>2 DEF SameBinding, Shaped, Fields
  <2>4. SameBinding(r, [s EXCEPT !.hist = next])
    BY <2>2, <2>3 DEF SameBinding
  <2> QED
    BY <1>2, <2>1, <2>2, <2>4
<1>8. CASE SubmitSession(w)
  <2>1. SameBinding(r, [r EXCEPT !.histAdmitted = TRUE])
    BY <1>1 DEF SameBinding, Shaped, Fields
  <2> QED
    BY <1>2, <1>8, <2>1 DEF SubmitSession
<1>9. CASE Take(w)
  <2>1. \A queue, told1 : SameBinding(r, [r EXCEPT !.queue = queue, !.dispatched = told1])
    BY <1>1 DEF SameBinding, Shaped, Fields
  <2> QED
    BY <1>2, <1>9, <2>1 DEF Take
<1>10. CASE Configure(w)
  <2> DEFINE c == [r EXCEPT !.config = TRUE]
  <2>1. Shaped(c) /\ SameBinding(r, c)
    BY <1>1 DEF SameBinding, Shaped, Fields
  <2>2. Become(w, c) \/ Become(w, Configured(c))
    BY <1>10 DEF Configure
  <2> HIDE DEF c
  <2>3. SameBinding(r, Configured(c))
    BY <2>1, SameBindings DEF SameBinding
  <2> QED
    BY <1>2, <2>1, <2>2, <2>3
<1>13. CASE Retarget(w)
  <2>1. Become(w, [r EXCEPT !.credit = r.credit - 1, !.queue = r.queue \o CancelHistory(r)])
    BY <1>13 DEF Retarget
  <2>2. SameBinding(r, [r EXCEPT !.credit = r.credit - 1, !.queue = r.queue \o CancelHistory(r)])
    BY <1>1 DEF SameBinding, Shaped, Fields
  <2> QED
    BY <1>2, <2>1, <2>2
<1>14. CASE SettleUnchanged(w)
  <2>1. SameBinding(r, [r EXCEPT !.phase = "None", !.op = 0, !.retired = r.op,
                                 !.dispatched = r.dispatched \ {r.op}, !.credit = r.credit - 1])
    BY <1>1 DEF SameBinding, Shaped, Fields
  <2>2. Become(w, [r EXCEPT !.phase = "None", !.op = 0, !.retired = r.op,
                            !.dispatched = r.dispatched \ {r.op}, !.credit = r.credit - 1])
    BY <1>14 DEF SettleUnchanged
  <2> QED
    BY <1>2, <2>1, <2>2
<1>15. CASE SettleHistoryUnchanged(w)
  <2>1. SameBinding(r, [r EXCEPT !.hist = 0, !.histAdmitted = FALSE, !.credit = r.credit - 1])
    BY <1>1 DEF SameBinding, Shaped, Fields
  <2>2. Become(w, [r EXCEPT !.hist = 0, !.histAdmitted = FALSE, !.credit = r.credit - 1])
    BY <1>15 DEF SettleHistoryUnchanged
  <2> QED
    BY <1>2, <2>1, <2>2
<1>16. CASE \E t \in slots : SettleObsolete(w, t)
  <2>1. PICK t \in slots :
          Become(w, [r EXCEPT !.dispatched = r.dispatched \ {t.op}, !.credit = r.credit - 1])
    BY <1>16 DEF SettleObsolete
  <2>2. SameBinding(r, [r EXCEPT !.dispatched = r.dispatched \ {t.op}, !.credit = r.credit - 1])
    BY <1>1 DEF SameBinding, Shaped, Fields
  <2> QED
    BY <1>2, <2>1, <2>2
<1>11. CASE Dispose(w)
  <2> DEFINE s == [Fresh EXCEPT !.mounted = FALSE, !.binding = r.binding, !.credit = 0]
  <2>1. s.binding = r.binding /\ s.mounted = FALSE
    BY DEF Fresh
  <2>2. Become(w, s)
    BY <1>11 DEF Dispose
  <2> HIDE DEF s
  <2> QED
    BY <2>1, <2>2, BecomeFacts DEF BindingChange
<1> QED
  BY <1>4, <1>5, <1>6, <1>7, <1>8, <1>9, <1>10, <1>11, <1>13, <1>14, <1>15, <1>16 DEF Act

\* A step changes what it changes of one widget.
LEMMA BindingStep ==
  ASSUME CustodyInv, [Next]_vars, NEW w \in Widgets
  PROVE  BindingChange(w)
<1>1. CASE Act(w)
  BY <1>1, RetainingBindings, FrameBinding, OtherBindings
<1>2. ASSUME NEW v \in Widgets \ {w}, Act(v) PROVE widget'[w] = widget[w]
  <2>1. \E s : Become(v, s)
    BY <1>2 DEF Act, BeginHost, BeginLocal, Begun, AcceptPreflight, SubmitFinish, Reject,
                CancelMutation, AcceptFinish, RequestHistory, SubmitSession, Take,
                RequestRebind, RetainAndService, Adopt, Configure, Retarget, Frame,
                SettleCommitted, SettleUnchanged, SettleHistoryCommitted,
                SettleHistoryUnchanged, SettleObsolete, Dispose
  <2> QED
    BY <2>1, BecomeFacts
<1>3. CASE Lease \/ (\E op \in Operations : DropLease(op) \/ Apply(op) \/ AnswerCancelled(op))
           \/ (\E s \in slots : SettleDetached(s)) \/ UNCHANGED vars
  <2>1. UNCHANGED widget
    BY <1>3 DEF Lease, DropLease, Apply, AnswerCancelled, SettleDetached, vars
  <2> QED
    BY <2>1 DEF BindingChange
<1>4. (\E v \in Widgets \ {w} : Act(v)) => BindingChange(w)
  BY <1>2 DEF BindingChange
<1> QED
  BY <1>1, <1>3, <1>4 DEF Next

\* What is adopted for a settlement was live, is committed and is answered now.
LEMMA AdoptsFacts ==
  ASSUME CustodyInv, NEW w \in Widgets, NEW r, Adopts(w, r)
  PROVE  /\ widget'[w].binding = r.rebind.op
         /\ r.rebind.op # 0 =>
              /\ LiveAt(w, r.rebind.op) /\ r.rebind.op \in committed
              /\ answers'[r.rebind.op] = 1
<1>1. widget'[w].binding = r.rebind.op
  <2> DEFINE s == Rebound(r, r.rebind.op, Settling(r))
  <2>1. s.binding = r.rebind.op
    <3>1. Shaped(r)
      BY DEF Adopts
    <3>2. \A binding, settling : Rebound(r, binding, settling).binding = binding
      BY <3>1, ReboundFacts
    <3> QED
      BY <3>2
  <2>2. Become(w, s)
    BY DEF Adopts, Adopt
  <2> HIDE DEF s
  <2> QED
    BY <2>1, <2>2, BecomeFacts
<1>2. ASSUME r.rebind.op # 0
      PROVE  /\ LiveAt(w, r.rebind.op) /\ r.rebind.op \in committed
             /\ answers'[r.rebind.op] = 1
  <2>1. r.rebind.kind \in Kinds /\ r.rebind.op \in committed /\ LiveAt(w, r.rebind.op)
    BY <1>2 DEF Adopts, Anchored, Kinds, LiveAt
  <2>2. Release(r.rebind.kind, r.rebind.op)
    BY <2>1 DEF Adopts, Adopt, Kinds
  <2> QED
    BY <2>1, <2>2, ReleaseKeepsBooks DEF CustodyInv
<1> QED
  BY <1>1, <1>2

\* A widget is bound to a successor only by adopting the commit of the operation
\* that is live in it, and that adoption is the one answer to the operation
\* (lifecycle.rs commit_pending_mutation_rebind, commit_pending_history_rebind).
THEOREM BindingFollowsLiveHolds == Spec => BindingFollowsLive
<1>1. ASSUME CustodyInv, [Next]_vars, NEW w \in Widgets,
             widget'[w].binding # widget[w].binding, widget'[w].binding # 0
      PROVE  /\ LiveAt(w, widget'[w].binding) /\ widget'[w].binding \in committed
             /\ answers'[widget'[w].binding] = 1
  BY <1>1, BindingStep, AdoptsFacts DEF BindingChange
<1>2. CustodyInv /\ [Next]_vars =>
        [\A w \in Widgets :
           widget'[w].binding # widget[w].binding /\ widget'[w].binding # 0 =>
             /\ LiveAt(w, widget'[w].binding) /\ widget'[w].binding \in committed
             /\ answers'[widget'[w].binding] = 1]_vars
  BY <1>1
<1> QED
  BY <1>2, CustodyInvariant, PTL DEF Spec, BindingFollowsLive

\* A committed answer that waits for credit is not displaced by a rebind of the
\* host (rebind.rs retain_pending_rebind_intent).
THEOREM RetainedSettlementWinsHolds == Spec => RetainedSettlementWins
<1>1. ASSUME CustodyInv, [Next]_vars, NEW w \in Widgets, widget[w].rebind.kind \in Kinds
      PROVE  \/ widget'[w].rebind = widget[w].rebind
             \/ widget'[w].binding = widget[w].rebind.op
             \/ ~widget'[w].mounted
  <2>1. CASE \E r : Adopts(w, r)
    <3>1. PICK r : Adopts(w, r)
      BY <2>1
    <3>2. widget'[w].binding = r.rebind.op
      BY <1>1, <3>1, AdoptsFacts
    <3>3. r.rebind = widget[w].rebind
      BY <1>1, <3>1 DEF Adopts
    <3> QED
      BY <3>2, <3>3
  <2> QED
    BY <1>1, <2>1, BindingStep DEF BindingChange
<1>2. CustodyInv /\ [Next]_vars =>
        [\A w \in Widgets :
           widget[w].rebind.kind \in Kinds =>
             \/ widget'[w].rebind = widget[w].rebind
             \/ widget'[w].binding = widget[w].rebind.op
             \/ ~widget'[w].mounted]_vars
  BY <1>1
<1> QED
  BY <1>2, CustodyInvariant, PTL DEF Spec, RetainedSettlementWins
-----------------------------------------------------------------------------
(* Queues.  What a widget has queued for its host is true, for queues of every     *)
(* length.  A notice of cancellation stays in the queue while other operations     *)
(* begin, so it must name an operation nobody can admit any more: Gone.  An edit   *)
(* that is settled while its commit request is queued leaves that request behind;  *)
(* the theorem assumes of the host, as the runs do, that it settles only what it   *)
(* took.                                                                           *)

\* Allocated operations that nobody leased, holds or has admitted.
Gone ==
  {op \in Operations :
     op < next /\ op \notin leases \cup admitted /\ \A v \in Widgets : ~LiveAt(v, op)}

\* The requests a widget may have queued, given what was admitted and what is gone.
Welcome(r, done, gone) ==
  {q \in Requests :
     /\ q.type \in EditRequests => q.op = r.op
     /\ q.type = "History" => q.op = r.hist /\ ~r.histAdmitted
     /\ q.type = "Cancel" => q.op \in gone
     /\ q.type = "Detached" => q.op \in done}

Queueing(r, done, gone) ==
  /\ r.queue \in Seq(Welcome(r, done, gone))
  /\ r.dispatched \subseteq {r.op} \ {0}

QueueInv == \A w \in Widgets : Queueing(widget[w], admitted, Gone)

-----------------------------------------------------------------------------
(* Requests and queues.                                                    *)

LEMMA SeqGrows ==
  ASSUME NEW A, NEW B, A \subseteq B, NEW s \in Seq(A)
  PROVE  s \in Seq(B)
  OBVIOUS

LEMMA RequestFacts ==
  /\ \A type \in EditRequests \cup {"Cancel", "Detached", "History", "CancelHistory"} :
       \A op \in Operations : Request(type, op) \in Requests
  /\ \A type, op : Request(type, op).type = type /\ Request(type, op).op = op
  /\ \A q \in Requests : q.op \in Operations /\ q = Request(q.type, q.op)
  /\ \A q \in Requests : \A op :
       q \in [type : EditRequests, op : {op}] <=> q.type \in EditRequests /\ q.op = op
  /\ \A q \in Requests : q \in HistoryRequests <=> q.type = "History"
  BY DEF Requests, Request, HistoryRequests

\* More may be queued when more is admitted and gone.
LEMMA QueueingGrows ==
  ASSUME NEW r, NEW done, NEW more, done \subseteq more, NEW gone, NEW further,
         gone \subseteq further, Queueing(r, done, gone)
  PROVE  Queueing(r, more, further)
<1>1. Welcome(r, done, gone) \subseteq Welcome(r, more, further)
  BY DEF Welcome
<1> QED
  BY <1>1, SeqGrows DEF Queueing

\* What requests and notices depend on.
Named(r) == <<r.op, r.hist, r.histAdmitted>>

LEMMA WelcomeNamed ==
  ASSUME NEW r, NEW s, Named(s) = Named(r), NEW done, NEW gone
  PROVE  Welcome(s, done, gone) = Welcome(r, done, gone)
<1>1. s.op = r.op /\ s.hist = r.hist /\ s.histAdmitted = r.histAdmitted
  BY DEF Named
<1> QED
  BY <1>1 DEF Welcome

\* A widget that names the same operations and queued one more request.
LEMMA QueueingKept ==
  ASSUME NEW r, NEW s, NEW done, NEW gone, Queueing(r, done, gone), Named(s) = Named(r),
         s.dispatched \subseteq r.dispatched,
         \/ s.queue = r.queue
         \/ \E q \in Welcome(r, done, gone) : s.queue = Append(r.queue, q)
  PROVE  Queueing(s, done, gone)
<1>1. Welcome(s, done, gone) = Welcome(r, done, gone) /\ s.op = r.op
  BY WelcomeNamed DEF Named
<1>2. s.queue \in Seq(Welcome(r, done, gone))
  <2> DEFINE A == Welcome(r, done, gone)
  <2>1. r.queue \in Seq(A)
    BY DEF Queueing
  <2> HIDE DEF A
  <2> QED
    BY <2>1, SMTT(30) DEF A
<1> QED
  BY <1>1, <1>2 DEF Queueing

LEMMA PushedQueue ==
  ASSUME NEW r, Shaped(r), NEW q, NEW s \in Pushed(r, q)
  PROVE  /\ Named(s) = Named(r) /\ s.dispatched = r.dispatched
         /\ s.queue = r.queue \/ s.queue = Append(r.queue, q)
  BY DEF Pushed, Shaped, Fields, Named

LEMMA PushedQueueing ==
  ASSUME NEW r, Shaped(r), NEW done, NEW gone, Queueing(r, done, gone),
         NEW q \in Welcome(r, done, gone), NEW s \in Pushed(r, q)
  PROVE  Queueing(s, done, gone)
  BY PushedQueue, QueueingKept

\* An edit that ended left nothing behind in the queue.
LEMMA AbandonedQueueing ==
  ASSUME NEW r, Shaped(r), NEW done, NEW gone, Queueing(r, done, gone)
  PROVE  Queueing(Abandoned(r), done, gone)
<1>1. PICK s : s = Abandoned(r)
  OBVIOUS
<1>2. /\ s.op = 0 /\ s.hist = r.hist /\ s.histAdmitted = r.histAdmitted
      /\ s.queue = Without(r.queue, r.op) /\ s.dispatched = r.dispatched \ {r.op}
  BY <1>1 DEF Abandoned, Shaped, Fields
<1> DEFINE A == Welcome(r, done, gone)
           E == [type : EditRequests, op : {r.op}]
<1>3. r.queue \in Seq(A)
  BY DEF Queueing
<1>4. A \ E \subseteq Welcome(s, done, gone)
  BY <1>2, RequestFacts DEF Welcome
<1> HIDE DEF A, E
<1>5. s.queue \in Seq(A \ E)
  <2>1. s.queue = Removed(r.queue, E)
    BY <1>2 DEF Without, E
  <2> QED
    BY <1>3, <2>1, RemovedIn
<1>6. s.queue \in Seq(Welcome(s, done, gone))
  BY <1>4, <1>5, SeqGrows
<1>7. s.dispatched \subseteq {s.op} \ {0}
  BY <1>2 DEF Queueing
<1> QED
  BY <1>1, <1>6, <1>7 DEF Queueing

\* A request to cancel a history selection names an operation.
LEMMA CancelHistoryIn ==
  ASSUME NEW r, Sound(r), NEW s, NEW done, NEW gone
  PROVE  CancelHistory(r) \in Seq(Welcome(s, done, gone))
<1> DEFINE A == Welcome(s, done, gone)
<1>1. ASSUME r.hist # 0 PROVE Request("CancelHistory", r.hist) \in A
  <2>1. r.hist \in Operations
    BY <1>1 DEF Sound
  <2> QED
    BY <2>1, RequestFacts DEF Welcome, EditRequests
<1> HIDE DEF A
<1>2. CancelHistory(r) \in {<<>>, <<Request("CancelHistory", r.hist)>>}
      /\ (r.hist = 0 => CancelHistory(r) = <<>>)
  BY DEF CancelHistory
<1>3. CancelHistory(r) \in Seq(A)
  <2>1. ASSUME NEW q \in A PROVE <<q>> \in Seq(A)
    OBVIOUS
  <2>2. <<>> \in Seq(A)
    OBVIOUS
  <2> QED
    BY <1>1, <1>2, <2>1, <2>2
<1> QED
  BY <1>3 DEF A

LEMMA ExtendedQueueing ==
  ASSUME NEW r, Sound(r), NEW done, NEW gone, Queueing(r, done, gone), NEW s,
         Named(s) = Named(r), s.dispatched = r.dispatched, s.queue = r.queue \o CancelHistory(r)
  PROVE  Queueing(s, done, gone)
<1>1. Welcome(s, done, gone) = Welcome(r, done, gone) /\ s.op = r.op
  BY WelcomeNamed DEF Named
<1>2. s.queue \in Seq(Welcome(r, done, gone))
  BY CancelHistoryIn, ConcatIn DEF Queueing
<1> QED
  BY <1>1, <1>2 DEF Queueing

LEMMA ConfiguredQueueing ==
  ASSUME NEW r, Shaped(r), Sound(r), NEW done, NEW gone, Queueing(r, done, gone)
  PROVE  Queueing(Configured(r), done, gone)
<1>1. PICK s : s = Configured(r)
  OBVIOUS
<1>2. /\ Named(s) = Named(r) /\ s.dispatched = r.dispatched
      /\ s.queue = r.queue \o CancelHistory(r)
  BY <1>1 DEF Configured, Shaped, Fields, Named
<1> QED
  BY <1>1, <1>2, ExtendedQueueing

\* A rebind leaves nothing of the old binding but what became of it.
LEMMA ReboundQueueing ==
  ASSUME NEW r, Shaped(r), Sound(r), NEW done, NEW gone, Queueing(r, done, gone),
         NEW binding, NEW settling,
         r.op \notin {0, settling} =>
           IF r.phase = "CommitPending" THEN r.op \in done ELSE r.op \in gone
  PROVE  Queueing(Rebound(r, binding, settling), done, gone)
<1>1. PICK s : s = Rebound(r, binding, settling)
  OBVIOUS
<1>2. /\ s.op = 0 /\ s.hist = 0 /\ s.histAdmitted = FALSE
      /\ s.queue = RetiredQueue(r) \o Disposed(r, settling) \o CancelHistory(r)
      /\ s.dispatched = r.dispatched \ {r.op}
  BY <1>1 DEF Rebound, Shaped, Fields
<1> DEFINE A == Welcome(r, done, gone)
           B == Welcome(s, done, gone)
           E == [type : EditRequests, op : {r.op}]
<1>3. r.queue \in Seq(A)
  BY DEF Queueing
<1>4. (A \ E) \ HistoryRequests \subseteq B
  BY <1>2, RequestFacts DEF Welcome
<1>5. CancelHistory(r) \in Seq(B)
  BY CancelHistoryIn
<1>6. ASSUME r.op \notin {0, settling}
      PROVE  Request(IF r.phase = "CommitPending" THEN "Detached" ELSE "Cancel", r.op) \in B
  <2>1. r.op \in Operations
    BY <1>6 DEF Sound
  <2>2. CASE r.phase = "CommitPending"
    <3>1. Request("Detached", r.op) \in B
      BY <1>6, <2>1, <2>2, RequestFacts DEF Welcome, EditRequests
    <3> QED
      BY <2>2, <3>1
  <2>3. CASE r.phase # "CommitPending"
    <3>1. Request("Cancel", r.op) \in B
      BY <1>6, <2>1, <2>3, RequestFacts DEF Welcome, EditRequests
    <3> QED
      BY <2>3, <3>1
  <2> QED
    BY <2>2, <2>3
<1> HIDE DEF A, B, E
<1>7. Without(r.queue, r.op) \in Seq(A \ E)
  BY <1>3, RemovedIn DEF Without, E
<1>8. RetiredQueue(r) \in Seq((A \ E) \ HistoryRequests)
  BY <1>7, RemovedIn DEF RetiredQueue
<1>9. RetiredQueue(r) \in Seq(B)
  BY <1>4, <1>8, SeqGrows
<1>10. Disposed(r, settling) \in Seq(B)
  BY <1>6 DEF Disposed
<1>11. s.queue \in Seq(B)
  BY <1>2, <1>5, <1>9, <1>10, ConcatIn
<1>12. s.dispatched \subseteq {s.op} \ {0}
  BY <1>2 DEF Queueing
<1> QED
  BY <1>1, <1>11, <1>12 DEF Queueing, B

-----------------------------------------------------------------------------
(* Steps of one widget.                                                    *)

\* A step of a widget admits and names what it had or what it may begin.
StepTo(w, s) ==
  /\ Become(w, s)
  /\ next' \in Nat /\ next <= next' /\ leases' \subseteq leases
  /\ admitted \subseteq admitted'
  /\ \A op \in admitted' : op \in admitted \/ LiveAt(w, op)
  /\ \A op \in {s.op, s.hist} \ {0} : LiveAt(w, op) \/ op \in leases \cup {next}

\* What is gone is never named again.
LEMMA GoneGrows ==
  ASSUME CustodyInv, NEW w \in Widgets, NEW s, StepTo(w, s)
  PROVE  /\ widget'[w] = s /\ \A v \in Widgets \ {w} : widget'[v] = widget[v]
         /\ Gone \subseteq Gone'
<1>1. /\ widget'[w] = s
      /\ \A v \in Widgets \ {w} : widget'[v] = widget[v]
  BY DEF StepTo, Become, CustodyInv, CustodyType
<1>2. ASSUME NEW op \in Gone PROVE op \in Gone'
  <2>1. /\ op \in Operations /\ op < next /\ op \notin leases /\ op \notin admitted
        /\ op \in Nat /\ op # 0
        /\ \A v \in Widgets : ~LiveAt(v, op)
    BY <1>2 DEF Gone, Operations
  <2>2. next \in Nat /\ next' \in Nat /\ next <= next' /\ leases' \subseteq leases
    BY DEF StepTo, CustodyInv, CustodyType
  <2>3. op < next' /\ op \notin leases' /\ op # next
    BY <2>1, <2>2
  <2>4. op \notin admitted'
    BY <2>1 DEF StepTo
  <2>5. op \notin {s.op, s.hist}
    BY <2>1, <2>3 DEF StepTo
  <2>6. \A v \in Widgets : ~LiveAt(v, op)'
    BY <1>1, <2>1, <2>5 DEF LiveAt
  <2> QED
    BY <2>1, <2>3, <2>4, <2>6 DEF Gone
<1> QED
  BY <1>1, <1>2

\* A widget that keeps its queue true keeps every queue true.
LEMMA QueueStepAt ==
  ASSUME CustodyInv, QueueInv, NEW w \in Widgets, NEW s, StepTo(w, s),
         Queueing(widget[w], admitted', Gone') => Queueing(s, admitted', Gone')
  PROVE  QueueInv'
<1>1. /\ widget'[w] = s /\ \A v \in Widgets \ {w} : widget'[v] = widget[v]
      /\ Gone \subseteq Gone' /\ admitted \subseteq admitted'
  BY GoneGrows DEF StepTo
<1>2. \A v \in Widgets : Queueing(widget[v], admitted', Gone')
  BY <1>1, QueueingGrows DEF QueueInv
<1>3. \A v \in Widgets : Queueing(widget'[v], admitted', Gone')
  BY <1>1, <1>2
<1> QED
  BY <1>3 DEF QueueInv

\* What the widget no longer names and never had admitted is gone.
LEMMA LeftBehind ==
  ASSUME CustodyInv, NEW w \in Widgets, NEW s, StepTo(w, s), NEW op \in Operations,
         LiveAt(w, op), op \notin admitted', op \notin {s.op, s.hist}
  PROVE  op \in Gone'
<1>1. /\ widget'[w] = s /\ \A v \in Widgets \ {w} : widget'[v] = widget[v]
  BY GoneGrows
<1>2. op < next /\ op \notin leases /\ \A v \in Widgets \ {w} : ~LiveAt(v, op)
  BY WidgetFacts
<1>3. op < next' /\ op \notin leases'
  <2>1. next \in Nat /\ next' \in Nat /\ next <= next' /\ leases' \subseteq leases /\ op \in Nat
    BY DEF StepTo, CustodyInv, CustodyType, Operations
  <2> QED
    BY <1>2, <2>1
<1>4. \A v \in Widgets : ~LiveAt(v, op)'
  BY <1>1, <1>2 DEF LiveAt
<1> QED
  BY <1>3, <1>4 DEF Gone

\* A step that begins nothing and admits nothing.
LEMMA PlainStep ==
  ASSUME CustodyInv, NEW w \in Widgets, NEW s, Become(w, s), UNCHANGED <<next, leases>>,
         admitted' = admitted, s.op \in {0, widget[w].op}, s.hist \in {0, widget[w].hist}
  PROVE  StepTo(w, s)
  BY DEF StepTo, CustodyInv, CustodyType, LiveAt

\* A step that leaves the names and the queue alone.
LEMMA QuietQueue ==
  ASSUME CustodyInv, QueueInv, NEW w \in Widgets, NEW s, Become(w, s), UNCHANGED <<next, leases>>,
         admitted' = admitted, Named(s) = Named(widget[w]), s.queue = widget[w].queue,
         s.dispatched \subseteq widget[w].dispatched
  PROVE  QueueInv'
<1>1. StepTo(w, s)
  BY PlainStep DEF Named
<1> QED
  BY <1>1, QueueingKept, QueueStepAt

LEMMA EditQueues ==
  ASSUME CustodyInv, QueueInv, NEW w \in Widgets,
         \/ AcceptPreflight(w) \/ SubmitFinish(w) \/ Reject(w) \/ CancelMutation(w)
  PROVE  QueueInv'
<1> DEFINE r == widget[w]
<1>0. /\ UNCHANGED <<next, leases>> /\ admitted' = admitted
      /\ r.phase \in {"Preflight", "Streaming", "Finished"}
  BY DEF AcceptPreflight, SubmitFinish, Reject, CancelMutation, hostVars, SlotsKept
<1>1. Shaped(r) /\ Sound(r) /\ r.op \in Operations /\ LiveAt(w, r.op) /\ r.op \notin admitted
  BY <1>0, WidgetFacts DEF Sound, LiveAt, Pending, Operations
<1>2. PICK a : a = Abandoned(r)
  OBVIOUS
<1>3. Shaped(a) /\ a.op = 0 /\ a.hist = r.hist
  BY <1>1, <1>2 DEF Abandoned, Shaped, Fields
<1>4. CASE Reject(w)
  <2>1. Become(w, a)
    BY <1>2, <1>4 DEF Reject
  <2>2. StepTo(w, a)
    BY <1>0, <1>3, <2>1, PlainStep
  <2> QED
    BY <1>1, <1>2, <2>2, AbandonedQueueing, QueueStepAt
<1>5. CASE CancelMutation(w)
  <2>1. PICK s \in Pushed(a, Request("Cancel", r.op)) : Become(w, s)
    BY <1>2, <1>5 DEF CancelMutation
  <2>2. s.op = 0 /\ s.hist = r.hist
    BY <1>3, <2>1, PushedQueue DEF Named
  <2>3. StepTo(w, s)
    BY <1>0, <2>1, <2>2, PlainStep
  <2>4. r.op \notin {s.op, s.hist}
    BY <1>0, <1>1, <2>2, WidgetFacts DEF Operations
  <2>5. r.op \in Gone'
    BY <1>0, <1>1, <2>3, <2>4, LeftBehind
  <2>6. Request("Cancel", r.op) \in Welcome(a, admitted', Gone')
    BY <1>1, <2>5, RequestFacts DEF Welcome, EditRequests
  <2>7. Queueing(r, admitted', Gone') => Queueing(s, admitted', Gone')
    BY <1>1, <1>2, <1>3, <2>1, <2>6, AbandonedQueueing, PushedQueueing
  <2> QED
    BY <2>3, <2>7, QueueStepAt
<1>6. ASSUME NEW phase
      PROVE  /\ Shaped([r EXCEPT !.phase = phase]) /\ Named([r EXCEPT !.phase = phase]) = Named(r)
             /\ [r EXCEPT !.phase = phase].queue = r.queue
             /\ [r EXCEPT !.phase = phase].dispatched = r.dispatched
  BY <1>1 DEF Shaped, Fields, Named
<1>7. CASE Become(w, [r EXCEPT !.phase = "Streaming"])
  BY <1>0, <1>6, <1>7, QuietQueue
<1>8. CASE \E s \in Pushed([r EXCEPT !.phase = "Finished"], Request("Finish", r.op)) : Become(w, s)
  <2>1. PICK f : f = [r EXCEPT !.phase = "Finished"]
    OBVIOUS
  <2>2. PICK s \in Pushed(f, Request("Finish", r.op)) : Become(w, s)
    BY <1>8, <2>1
  <2>3. Shaped(f) /\ Named(f) = Named(r) /\ f.queue = r.queue /\ f.dispatched = r.dispatched
    BY <1>6, <2>1
  <2>4. /\ Named(s) = Named(r) /\ s.dispatched = r.dispatched
        /\ s.queue = r.queue \/ s.queue = Append(r.queue, Request("Finish", r.op))
    BY <2>2, <2>3, PushedQueue
  <2>5. StepTo(w, s)
    BY <1>0, <2>2, <2>4, PlainStep DEF Named
  <2>6. Request("Finish", r.op) \in Welcome(r, admitted', Gone')
    BY <1>1, RequestFacts DEF Welcome, EditRequests
  <2>7. Queueing(r, admitted', Gone') => Queueing(s, admitted', Gone')
    BY <2>4, <2>6, QueueingKept
  <2> QED
    BY <2>5, <2>7, QueueStepAt
<1> QED
  BY <1>4, <1>5, <1>7, <1>8 DEF AcceptPreflight, SubmitFinish

\* Nothing is queued for a widget that names no edit, and so what begins is all
\* that is queued for it.
LEMMA BeginQueues ==
  ASSUME CustodyInv, QueueInv, NEW w \in Widgets,
         (\E op \in Operations : BeginHost(w, op)) \/ BeginLocal(w)
  PROVE  QueueInv'
<1> DEFINE r == widget[w]
<1>1. ASSUME NEW op \in Operations, Begun(w, op), op \in leases \cup {next}, r.phase = "None",
             r.hist = 0, admitted' = admitted, next' \in Nat, next <= next', leases' \subseteq leases
      PROVE  QueueInv'
  <2>1. PICK u : u = [r EXCEPT !.phase = "Preflight", !.op = op]
    OBVIOUS
  <2>2. PICK s \in Pushed(u, Request("Begin", op)) : Become(w, s)
    BY <1>1, <2>1 DEF Begun
  <2>3. /\ Shaped(u) /\ u.op = op /\ u.hist = r.hist /\ u.histAdmitted = r.histAdmitted
        /\ u.queue = r.queue /\ u.dispatched = r.dispatched
    BY <2>1, WidgetFacts DEF Shaped, Fields
  <2>4. s.op = op /\ s.hist = r.hist
    BY <2>2, <2>3, PushedQueue DEF Named
  <2>5. StepTo(w, s)
    BY <1>1, <2>2, <2>4 DEF StepTo
  <2>6. ASSUME Queueing(r, admitted', Gone') PROVE Queueing(s, admitted', Gone')
    <3>1. r.op = 0
      BY <1>1, IdleFacts
    <3>2. Welcome(r, admitted', Gone') \subseteq Welcome(u, admitted', Gone')
      BY <2>3, <3>1, RequestFacts DEF Welcome, Operations
    <3>3. u.queue \in Seq(Welcome(u, admitted', Gone'))
      BY <2>3, <2>6, <3>2, SeqGrows DEF Queueing
    <3>4. Queueing(u, admitted', Gone')
      BY <2>3, <2>6, <3>1, <3>3 DEF Queueing
    <3>5. Request("Begin", op) \in Welcome(u, admitted', Gone')
      BY <2>3, RequestFacts DEF Welcome, EditRequests
    <3> QED
      BY <2>2, <2>3, <3>4, <3>5, PushedQueueing
  <2> QED
    BY <2>5, <2>6, QueueStepAt
<1>2. ASSUME NEW op \in Operations, BeginHost(w, op) PROVE QueueInv'
  <2>1. /\ Begun(w, op) /\ op \in leases /\ r.phase = "None" /\ r.hist = 0
        /\ admitted' = admitted /\ next' = next /\ leases' \subseteq leases
    BY <1>2 DEF BeginHost, QueueHasRoom, SlotsKept
  <2>2. next \in Nat
    BY DEF CustodyInv, CustodyType
  <2> QED
    BY <1>1, <2>1, <2>2
<1>3. CASE BeginLocal(w)
  <2>1. /\ Begun(w, next) /\ r.phase = "None" /\ r.hist = 0 /\ next <= MaxOperation
        /\ admitted' = admitted /\ next' = next + 1 /\ leases' = leases
    BY <1>3 DEF BeginLocal, Interactive, SlotsKept, hostVars
  <2>2. next \in Nat /\ next \in Operations
    BY <2>1, NewOperation
  <2>3. next' \in Nat /\ next <= next'
    BY <2>1, <2>2
  <2> QED
    BY <1>1, <2>1, <2>2, <2>3
<1> QED
  BY <1>2, <1>3

LEMMA RequestHistoryQueue ==
  ASSUME CustodyInv, QueueInv, NEW w \in Widgets, RequestHistory(w)
  PROVE  QueueInv'
<1> DEFINE r == widget[w]
<1>1. PICK p \in Pushed(r, Request("History", next)) :
        Become(w, IF p = r THEN p ELSE [p EXCEPT !.hist = next])
  BY DEF RequestHistory
<1>2. /\ r.phase = "None" /\ r.hist = 0 /\ next <= MaxOperation
      /\ admitted' = admitted /\ next' = next + 1 /\ leases' = leases
  BY DEF RequestHistory, Interactive, SlotsKept, hostVars
<1>3. next \in Nat /\ next \in Operations /\ next' \in Nat /\ next <= next'
  BY <1>2, NewOperation
<1>4. PICK s : s = IF p = r THEN p ELSE [p EXCEPT !.hist = next]
  OBVIOUS
<1>5. /\ Shaped(r) /\ Shaped(p) /\ r.op = 0 /\ ~r.histAdmitted
      /\ Named(p) = Named(r) /\ p.dispatched = r.dispatched
      /\ p.queue = r.queue \/ p.queue = Append(r.queue, Request("History", next))
  BY <1>1, <1>2, WidgetFacts, IdleFacts, PushedFacts, PushedQueue
<1>6. /\ s.op = r.op /\ s.hist \in {0, next}
      /\ s.dispatched = r.dispatched /\ s.histAdmitted = r.histAdmitted
      /\ s.queue = r.queue \/ (s.hist = next /\ s.queue = Append(r.queue, Request("History", next)))
  <2>1. CASE p = r
    BY <1>2, <1>4, <1>5, <2>1
  <2>2. CASE p # r
    <3>1. /\ s.op = p.op /\ s.hist = next /\ s.histAdmitted = p.histAdmitted
          /\ s.queue = p.queue /\ s.dispatched = p.dispatched
      BY <1>4, <1>5, <2>2 DEF Shaped, Fields
    <3> QED
      BY <1>5, <3>1 DEF Named
  <2> QED
    BY <2>1, <2>2
<1>7. StepTo(w, s)
  BY <1>1, <1>2, <1>3, <1>4, <1>5, <1>6 DEF StepTo
<1>8. ASSUME Queueing(r, admitted', Gone') PROVE Queueing(s, admitted', Gone')
  <2> DEFINE A == Welcome(s, admitted', Gone')
  <2>1. Welcome(r, admitted', Gone') \subseteq A
    BY <1>2, <1>6, RequestFacts DEF Welcome, Operations
  <2>2. s.hist = next => Request("History", next) \in A
    BY <1>3, <1>5, <1>6, RequestFacts DEF Welcome, EditRequests
  <2> HIDE DEF A
  <2>3. r.queue \in Seq(A)
    BY <1>8, <2>1, SeqGrows DEF Queueing
  <2>4. s.queue \in Seq(A)
    <3>1. PICK queue \in Seq(A) : queue = r.queue
      BY <2>3
    <3>2. CASE s.queue = queue
      BY <3>2
    <3>3. CASE s.hist = next /\ s.queue = Append(queue, Request("History", next))
      <4>1. Append(queue, Request("History", next)) \in Seq(A)
        BY <2>2, <3>3, AppendIn
      <4> QED
        BY <3>3, <4>1
    <3> QED
      BY <1>6, <3>1, <3>2, <3>3
  <2>5. s.dispatched \subseteq {s.op} \ {0}
    BY <1>6, <1>8 DEF Queueing
  <2> QED
    BY <2>4, <2>5 DEF Queueing, A
<1> QED
  BY <1>7, <1>8, QueueStepAt

\* What is admitted is the operation the widget names, and its slot is held from then on.
LEMMA AdmissionQueues ==
  ASSUME CustodyInv, QueueInv, NEW w \in Widgets, AcceptFinish(w) \/ SubmitSession(w)
  PROVE  QueueInv'
<1> DEFINE r == widget[w]
<1>1. UNCHANGED <<next, leases>> /\ next \in Nat
  BY DEF AcceptFinish, SubmitSession, hostVars, CustodyInv, CustodyType
<1>2. Shaped(r) /\ Sound(r)
  BY WidgetFacts
<1>3. CASE AcceptFinish(w)
  <2>1. PICK u : u = [r EXCEPT !.phase = "CommitPending"]
    OBVIOUS
  <2>2. PICK s \in Pushed(u, Request("Commit", r.op)) : Become(w, s)
    BY <1>3, <2>1 DEF AcceptFinish
  <2>3. r.phase = "Finished" /\ admitted' = admitted \cup {r.op}
    BY <1>3 DEF AcceptFinish, Reserve
  <2>4. r.op \in Operations /\ LiveAt(w, r.op)
    BY <1>2, <2>3 DEF Sound, LiveAt, Operations
  <2>5. /\ Shaped(u) /\ Named(u) = Named(r) /\ u.queue = r.queue /\ u.dispatched = r.dispatched
    BY <1>2, <2>1 DEF Shaped, Fields, Named
  <2>6. /\ Named(s) = Named(r) /\ s.dispatched = r.dispatched
        /\ s.queue = r.queue \/ s.queue = Append(r.queue, Request("Commit", r.op))
    BY <2>2, <2>5, PushedQueue
  <2>7. StepTo(w, s)
    BY <1>1, <2>2, <2>3, <2>4, <2>6 DEF StepTo, Named, LiveAt
  <2>8. Request("Commit", r.op) \in Welcome(r, admitted', Gone')
    BY <2>4, RequestFacts DEF Welcome, EditRequests
  <2>9. Queueing(r, admitted', Gone') => Queueing(s, admitted', Gone')
    BY <2>6, <2>8, QueueingKept
  <2> QED
    BY <2>7, <2>9, QueueStepAt
<1>4. CASE SubmitSession(w)
  <2>1. PICK s : s = [r EXCEPT !.histAdmitted = TRUE]
    OBVIOUS
  <2>2. /\ s.op = r.op /\ s.hist = r.hist /\ s.queue = r.queue /\ s.dispatched = r.dispatched
        /\ Become(w, s)
    BY <1>2, <1>4, <2>1 DEF SubmitSession, Shaped, Fields
  <2>3. /\ r.hist # 0 /\ admitted' = admitted \cup {r.hist} /\ ~Queued(r, "History", r.hist)
    BY <1>4 DEF SubmitSession, Reserve
  <2>4. r.hist \in Operations /\ LiveAt(w, r.hist)
    BY <1>2, <2>3 DEF Sound, LiveAt
  <2>5. StepTo(w, s)
    BY <1>1, <2>2, <2>3, <2>4 DEF StepTo, LiveAt
  <2>6. ASSUME Queueing(r, admitted', Gone') PROVE Queueing(s, admitted', Gone')
    <3> DEFINE A == Welcome(r, admitted', Gone')
               B == Welcome(s, admitted', Gone')
    <3>1. r.queue \in Seq(A) /\ r.dispatched \subseteq {r.op} \ {0}
      BY <2>6 DEF Queueing
    <3>2. \A q \in A : q \notin B => q = Request("History", r.hist)
      BY <2>2, RequestFacts DEF Welcome
    <3> HIDE DEF A, B
    <3>3. \A i \in 1..Len(r.queue) : r.queue[i] \in B
      BY <2>3, <3>1, <3>2 DEF Queued
    <3>4. r.queue \in Seq(B)
      BY <3>1, <3>3
    <3> QED
      BY <2>2, <3>1, <3>4 DEF Queueing, B
  <2> QED
    BY <2>5, <2>6, QueueStepAt
<1> QED
  BY <1>3, <1>4

\* A request that is taken was true, so what is dispatched names the live edit.
LEMMA TakeQueue ==
  ASSUME CustodyInv, QueueInv, NEW w \in Widgets, Take(w)
  PROVE  QueueInv'
<1> DEFINE r == widget[w]
           q == Head(r.queue)
<1>1. /\ UNCHANGED <<next, leases>> /\ admitted' = admitted /\ r.queue # <<>>
  BY DEF Take, SlotsKept
<1>2. PICK s : s = [r EXCEPT !.queue = Tail(@),
                             !.dispatched = IF q.type \in EditRequests THEN @ \cup {q.op} ELSE @]
  OBVIOUS
<1>3. /\ Become(w, s)
      /\ s.op = r.op /\ s.hist = r.hist /\ s.histAdmitted = r.histAdmitted
      /\ s.queue = Tail(r.queue)
      /\ s.dispatched = IF q.type \in EditRequests THEN r.dispatched \cup {q.op} ELSE r.dispatched
  BY <1>2, WidgetFacts DEF Take, Shaped, Fields
<1>4. StepTo(w, s)
  BY <1>1, <1>3, PlainStep
<1>5. ASSUME Queueing(r, admitted', Gone') PROVE Queueing(s, admitted', Gone')
  <2> DEFINE A == Welcome(r, admitted', Gone')
  <2>1. r.queue \in Seq(A) /\ r.dispatched \subseteq {r.op} \ {0}
    BY <1>5 DEF Queueing
  <2>2. Welcome(s, admitted', Gone') = A
    BY <1>3, WelcomeNamed DEF Named
  <2>3. \A p \in A : p.type \in EditRequests => p.op = r.op /\ p.op # 0
    BY RequestFacts DEF Welcome, Operations
  <2> HIDE DEF A
  <2>4. Tail(r.queue) \in Seq(A) /\ q \in A
    BY <1>1, <2>1
  <2> HIDE DEF q
  <2>5. s.dispatched \subseteq {s.op} \ {0}
    BY <1>3, <2>1, <2>3, <2>4
  <2> QED
    BY <1>3, <2>2, <2>4, <2>5 DEF Queueing
<1> QED
  BY <1>4, <1>5, QueueStepAt

LEMMA ConfigurationQueues ==
  ASSUME CustodyInv, QueueInv, NEW w \in Widgets, Configure(w) \/ Retarget(w)
  PROVE  QueueInv'
<1> DEFINE r == widget[w]
<1>1. UNCHANGED <<next, leases>> /\ admitted' = admitted /\ Shaped(r) /\ Sound(r)
  BY WidgetFacts DEF Configure, Retarget, SlotsKept, hostVars
<1>2. CASE Configure(w)
  <2>1. PICK c : c = [r EXCEPT !.config = TRUE]
    OBVIOUS
  <2>2. PICK s \in {c, Configured(c)} : Become(w, s)
    BY <1>2, <2>1 DEF Configure
  <2>3. /\ Shaped(c) /\ Named(c) = Named(r) /\ c.queue = r.queue /\ c.dispatched = r.dispatched
        /\ c.phase = r.phase /\ c.rebind = r.rebind
    BY <1>1, <2>1 DEF Shaped, Fields, Named
  <2>4. Sound(c)
    BY <1>1, <2>3 DEF Sound, Named
  <2>5. Named(Configured(c)) = Named(c)
    BY <2>3 DEF Configured, Shaped, Fields, Named
  <2>6. StepTo(w, s)
    BY <1>1, <2>2, <2>3, <2>5, PlainStep DEF Named
  <2>7. Queueing(r, admitted', Gone') => Queueing(c, admitted', Gone')
    BY <2>3, QueueingKept
  <2>8. Queueing(r, admitted', Gone') => Queueing(s, admitted', Gone')
    BY <2>2, <2>3, <2>4, <2>7, ConfiguredQueueing
  <2> QED
    BY <2>6, <2>8, QueueStepAt
<1>3. CASE Retarget(w)
  <2>1. PICK s : s = [r EXCEPT !.credit = @ - 1, !.queue = @ \o CancelHistory(r)]
    OBVIOUS
  <2>2. /\ Become(w, s) /\ Named(s) = Named(r) /\ s.dispatched = r.dispatched
        /\ s.queue = r.queue \o CancelHistory(r)
    BY <1>1, <1>3, <2>1 DEF Retarget, Shaped, Fields, Named
  <2>3. StepTo(w, s)
    BY <1>1, <2>2, PlainStep DEF Named
  <2>4. Queueing(r, admitted', Gone') => Queueing(s, admitted', Gone')
    BY <1>1, <2>2, ExtendedQueueing
  <2> QED
    BY <2>3, <2>4, QueueStepAt
<1> QED
  BY <1>2, <1>3

\* A widget that is disposed of has nothing queued.
LEMMA DisposeQueue ==
  ASSUME CustodyInv, QueueInv, NEW w \in Widgets, Dispose(w)
  PROVE  QueueInv'
<1>1. PICK s : s = [Fresh EXCEPT !.mounted = FALSE, !.binding = widget[w].binding, !.credit = 0]
  OBVIOUS
<1>2. /\ s.op = 0 /\ s.hist = 0 /\ s.queue = <<>> /\ s.dispatched = {} /\ Become(w, s)
      /\ UNCHANGED <<next, leases>> /\ admitted' = admitted
  BY <1>1 DEF Dispose, Fresh, hostVars, SlotsKept
<1>3. StepTo(w, s)
  BY <1>2, PlainStep
<1>4. Queueing(s, admitted', Gone')
  BY <1>2 DEF Queueing
<1> QED
  BY <1>3, <1>4, QueueStepAt

-----------------------------------------------------------------------------
(* Rebinds and settlements.                                                *)

\* Adoption tells the host what becomes of the edit it disposes of: detached if it
\* was admitted, gone if it was not.
LEMMA AdoptQueue ==
  ASSUME CustodyInv, QueueInv, NEW w \in Widgets, NEW r, Shaped(r), Sound(r),
         r.op = widget[w].op, r.hist = widget[w].hist, r.phase = widget[w].phase,
         \A done, gone : Queueing(widget[w], done, gone) => Queueing(r, done, gone),
         Adopt(w, r), UNCHANGED <<next, leases>>
  PROVE  QueueInv'
<1>1. PICK s : s = Rebound(r, r.rebind.op, Settling(r))
  OBVIOUS
<1>2. Become(w, s) /\ admitted' = admitted
  BY <1>1 DEF Adopt, Release, SlotsKept
<1>3. s.op = 0 /\ s.hist = 0
  BY <1>1 DEF Rebound, Shaped, Fields
<1>4. StepTo(w, s)
  BY <1>2, <1>3, PlainStep
<1>5. ASSUME r.op # 0
      PROVE  IF r.phase = "CommitPending" THEN r.op \in admitted' ELSE r.op \in Gone'
  <2>1. r.op \in Operations /\ LiveAt(w, r.op)
    BY <1>5 DEF Sound, LiveAt
  <2>2. CASE r.phase = "CommitPending"
    <3>1. Slot("Mutation", r.op) \in slots
      BY <2>2, WidgetFacts DEF Holds
    <3>2. Held(r.op)
      BY <3>1, SlotFacts DEF Held
    <3> QED
      BY <1>2, <2>1, <2>2, <3>2 DEF CustodyInv, Books
  <2>3. CASE r.phase # "CommitPending"
    <3>1. r.op \notin admitted
      BY <2>3, WidgetFacts DEF Pending
    <3>2. r.op \notin {s.op, s.hist}
      BY <1>3, <1>5
    <3> QED
      BY <1>2, <1>4, <2>1, <2>3, <3>1, <3>2, LeftBehind
  <2> QED
    BY <2>2, <2>3
<1>6. Queueing(widget[w], admitted', Gone') => Queueing(s, admitted', Gone')
  BY <1>1, <1>5, ReboundQueueing
<1> QED
  BY <1>4, <1>6, QueueStepAt

LEMMA RetainingQueues ==
  ASSUME CustodyInv, QueueInv, NEW w \in Widgets,
         RequestRebind(w) \/ SettleCommitted(w) \/ SettleHistoryCommitted(w)
  PROVE  QueueInv'
<1>1. UNCHANGED <<next, leases>>
  BY DEF RequestRebind, SettleCommitted, SettleHistoryCommitted, hostVars
<1>2. PICK intent : RetainAndService(w, intent) /\ intent \in Intents
  <2>1. Intent("Direct", 0) \in Intents
    BY DEF Intent, Intents
  <2>2. \A kind \in Kinds : /\ Intent(kind, widget[w].op) \in Intents
                            /\ Intent(kind, widget[w].hist) \in Intents
    BY WidgetFacts DEF Intent, Intents, Sound
  <2> QED
    BY <2>1, <2>2 DEF RequestRebind, SettleCommitted, SettleHistoryCommitted, Kinds
<1>3. PICK r : r = [widget[w] EXCEPT !.rebind = intent]
  OBVIOUS
<1>4. Adopt(w, r) \/ (Become(w, r) /\ SlotsKept)
  BY <1>2, <1>3 DEF RetainAndService
<1>5. /\ Shaped(r) /\ Named(r) = Named(widget[w]) /\ r.phase = widget[w].phase
      /\ r.queue = widget[w].queue /\ r.dispatched = widget[w].dispatched /\ r.rebind = intent
  BY <1>3, WidgetFacts DEF Shaped, Fields, Named
<1>6. Sound(r)
  BY <1>2, <1>5, WidgetFacts DEF Sound, Named
<1>7. \A done, gone : Queueing(widget[w], done, gone) => Queueing(r, done, gone)
  BY <1>5, QueueingKept
<1>8. CASE Adopt(w, r)
  BY <1>1, <1>5, <1>6, <1>7, <1>8, AdoptQueue DEF Named
<1>9. CASE Become(w, r) /\ SlotsKept
  BY <1>1, <1>5, <1>9, QuietQueue DEF SlotsKept
<1> QED
  BY <1>4, <1>8, <1>9

LEMMA FrameQueue ==
  ASSUME CustodyInv, QueueInv, NEW w \in Widgets, NEW refused \in BOOLEAN, Frame(w, refused)
  PROVE  QueueInv'
<1>1. PICK credited : credited = [widget[w] EXCEPT !.credit = Credits]
  OBVIOUS
<1>2. PICK r : r = IF CanConfigure(credited) THEN Configured(credited) ELSE credited
  OBVIOUS
<1>3. /\ UNCHANGED <<next, leases>>
      /\ \/ SlotsKept /\ \E s \in {credited, r} : Become(w, s)
         \/ Adopt(w, r)
  BY <1>1, <1>2 DEF Frame, hostVars
<1>4. /\ Shaped(credited) /\ Ops(credited) = Ops(widget[w])
      /\ credited.queue = widget[w].queue /\ credited.dispatched = widget[w].dispatched
      /\ Named(credited) = Named(widget[w])
  BY <1>1, WidgetFacts DEF Shaped, Fields, Ops, Named
<1>5. Shaped(r) /\ Ops(r) = Ops(widget[w])
  BY <1>2, <1>4, ConfiguredFacts
<1>6. /\ Sound(credited) /\ Sound(r)
      /\ r.op = widget[w].op /\ r.hist = widget[w].hist /\ r.phase = widget[w].phase
      /\ credited.op = widget[w].op /\ credited.hist = widget[w].hist
  BY <1>4, <1>5, WidgetFacts DEF Ops, Sound
<1>7. \A done, gone : Queueing(widget[w], done, gone) => Queueing(credited, done, gone)
  BY <1>4, QueueingKept
<1>8. \A done, gone : Queueing(widget[w], done, gone) => Queueing(r, done, gone)
  BY <1>2, <1>4, <1>6, <1>7, ConfiguredQueueing
<1>9. CASE SlotsKept /\ \E s \in {credited, r} : Become(w, s)
  <2>1. PICK s \in {credited, r} : Become(w, s)
    BY <1>9
  <2>2. StepTo(w, s)
    BY <1>3, <1>6, <1>9, <2>1, PlainStep DEF SlotsKept
  <2> QED
    BY <1>7, <1>8, <2>1, <2>2, QueueStepAt
<1>10. CASE Adopt(w, r)
  BY <1>3, <1>5, <1>6, <1>8, <1>10, AdoptQueue
<1> QED
  BY <1>3, <1>9, <1>10

\* Nothing is queued for an edit of which the host took everything.
LEMMA UnqueuedFacts ==
  ASSUME NEW r, NEW A, r.queue \in Seq(A), QueuedFor(r, r.op) = 0
  PROVE  \A i \in 1..Len(r.queue) : ~(r.queue[i].type \in EditRequests /\ r.queue[i].op = r.op)
<1> DEFINE I == {i \in 1..Len(r.queue) :
                   r.queue[i].op = r.op /\ r.queue[i].type \notin {"History", "CancelHistory"}}
<1>1. IsFiniteSet(I)
  <2>1. I \subseteq 1..Len(r.queue) /\ Len(r.queue) \in Nat
    OBVIOUS
  <2>2. IsFiniteSet(1..Len(r.queue))
    BY <2>1, FS_Interval, SMTT(30)
  <2> QED
    BY <2>1, <2>2, FS_Subset
<1>2. Cardinality(I) = 0
  BY DEF QueuedFor
<1>3. I = {}
  BY <1>1, <1>2, FS_EmptySet
<1>4. \A i \in 1..Len(r.queue) : i \notin I
  BY <1>3
<1> QED
  BY <1>4 DEF EditRequests

\* An operation that is answered without a commit leaves nothing queued.
LEMMA UnchangedQueues ==
  ASSUME CustodyInv, QueueInv, "SettlesUntaken" \notin Habits, NEW w \in Widgets,
         SettleUnchanged(w) \/ SettleHistoryUnchanged(w)
  PROVE  QueueInv'
<1> DEFINE r == widget[w]
<1>1. UNCHANGED <<next, leases>> /\ admitted' = admitted /\ Shaped(r) /\ Sound(r)
  BY WidgetFacts DEF SettleUnchanged, SettleHistoryUnchanged, Release, hostVars
<1>2. CASE SettleUnchanged(w)
  <2>1. PICK s : s = [r EXCEPT !.phase = "None", !.op = 0, !.retired = r.op,
                               !.dispatched = @ \ {r.op}, !.credit = @ - 1]
    OBVIOUS
  <2>2. /\ Become(w, s) /\ QueuedFor(r, r.op) = 0
        /\ s.op = 0 /\ s.hist = r.hist /\ s.histAdmitted = r.histAdmitted
        /\ s.queue = r.queue /\ s.dispatched = r.dispatched \ {r.op}
    BY <1>1, <1>2, <2>1 DEF SettleUnchanged, Shaped, Fields
  <2>3. StepTo(w, s)
    BY <1>1, <2>2, PlainStep
  <2>4. ASSUME Queueing(r, admitted', Gone') PROVE Queueing(s, admitted', Gone')
    <3> DEFINE A == Welcome(r, admitted', Gone')
               B == Welcome(s, admitted', Gone')
    <3>1. r.queue \in Seq(A) /\ r.dispatched \subseteq {r.op} \ {0}
      BY <2>4 DEF Queueing
    <3>2. \A q \in A : q \notin B => q.type \in EditRequests /\ q.op = r.op
      BY <2>2 DEF Welcome
    <3> HIDE DEF A, B
    <3>3. \A i \in 1..Len(r.queue) : r.queue[i] \in A /\ r.queue[i] \in B
      BY <2>2, <3>1, <3>2, UnqueuedFacts
    <3>4. r.queue \in Seq(B)
      BY <3>1, <3>3
    <3> QED
      BY <2>2, <3>1, <3>4 DEF Queueing, B
  <2> QED
    BY <2>3, <2>4, QueueStepAt
<1>3. CASE SettleHistoryUnchanged(w)
  <2>1. PICK s : s = [r EXCEPT !.hist = 0, !.histAdmitted = FALSE, !.credit = @ - 1]
    OBVIOUS
  <2>2. /\ Become(w, s) /\ r.histAdmitted
        /\ s.op = r.op /\ s.hist = 0
        /\ s.queue = r.queue /\ s.dispatched = r.dispatched
    BY <1>1, <1>3, <2>1 DEF SettleHistoryUnchanged, Shaped, Fields
  <2>3. StepTo(w, s)
    BY <1>1, <2>2, PlainStep
  <2>4. Welcome(r, admitted', Gone') \subseteq Welcome(s, admitted', Gone')
    BY <2>2 DEF Welcome
  <2>5. Queueing(r, admitted', Gone') => Queueing(s, admitted', Gone')
    BY <2>2, <2>4, SeqGrows DEF Queueing
  <2> QED
    BY <2>3, <2>5, QueueStepAt
<1> QED
  BY <1>2, <1>3

\* Steps of the host and answers at the coordinator change no widget; what they
\* lease was never allocated before.
LEMMA HostQueues ==
  ASSUME CustodyInv, QueueInv, UNCHANGED widget, next' \in Nat, next <= next',
         \A op \in leases' \ leases : op = next, admitted' = admitted
  PROVE  QueueInv'
<1>1. next \in Nat /\ \A op \in Operations : op \in Nat
  BY DEF CustodyInv, CustodyType, Operations
<1>2. ASSUME NEW op \in Gone PROVE op \in Gone'
  <2>1. /\ op \in Operations /\ op < next /\ op \notin leases /\ op \notin admitted
        /\ \A v \in Widgets : ~LiveAt(v, op)
    BY <1>2 DEF Gone
  <2>2. op < next' /\ op \notin leases'
    BY <1>1, <2>1
  <2>3. \A v \in Widgets : ~LiveAt(v, op)'
    BY <2>1 DEF LiveAt
  <2> QED
    BY <2>1, <2>2, <2>3 DEF Gone
<1>3. \A v \in Widgets : Queueing(widget[v], admitted', Gone')
  BY <1>2, QueueingGrows DEF QueueInv
<1> QED
  BY <1>3 DEF QueueInv

LEMMA QueueInit == ASSUME Init PROVE QueueInv
<1>1. Fresh.queue = <<>> /\ Fresh.dispatched = {}
  BY DEF Fresh
<1>2. \A done, gone : Queueing(Fresh, done, gone)
  BY <1>1 DEF Queueing
<1>3. \A w \in Widgets : widget[w] = Fresh
  BY DEF Init
<1> QED
  BY <1>2, <1>3 DEF QueueInv

LEMMA QueueStep ==
  ASSUME CustodyInv, QueueInv, [Next]_vars, "SettlesUntaken" \notin Habits
  PROVE  QueueInv'
<1>1. ASSUME NEW w \in Widgets, NEW t \in slots, SettleObsolete(w, t) PROVE QueueInv'
  <2>1. PICK s : s = [widget[w] EXCEPT !.dispatched = @ \ {t.op}, !.credit = @ - 1]
    OBVIOUS
  <2>2. /\ Named(s) = Named(widget[w]) /\ s.queue = widget[w].queue
        /\ s.dispatched \subseteq widget[w].dispatched
    BY <2>1, WidgetFacts DEF Shaped, Fields, Named
  <2>3. Become(w, s) /\ UNCHANGED <<next, leases>> /\ admitted' = admitted
    BY <1>1, <2>1 DEF SettleObsolete, Release, hostVars
  <2> QED
    BY <2>2, <2>3, QuietQueue
<1>2. ASSUME NEW w \in Widgets, Act(w) PROVE QueueInv'
  BY <1>1, <1>2, EditQueues, BeginQueues, RequestHistoryQueue, AdmissionQueues, TakeQueue,
     ConfigurationQueues, DisposeQueue, RetainingQueues, FrameQueue, UnchangedQueues DEF Act
<1>3. CASE Lease \/ (\E op \in Operations : DropLease(op) \/ Apply(op) \/ AnswerCancelled(op))
           \/ (\E t \in slots : SettleDetached(t)) \/ UNCHANGED vars
  <2>1. next \in Nat
    BY DEF CustodyInv, CustodyType
  <2>2. /\ UNCHANGED widget /\ admitted' = admitted
        /\ next' = next \/ next' = next + 1
        /\ \A op \in leases' \ leases : op = next
    BY <1>3 DEF Lease, DropLease, Apply, AnswerCancelled, SettleDetached, Release, SlotsKept,
                hostVars, vars
  <2>3. next' \in Nat /\ next <= next'
    BY <2>1, <2>2
  <2> QED
    BY <2>2, <2>3, HostQueues
<1> QED
  BY <1>2, <1>3 DEF Next

\* What is queued, dispatched and gone stays linked, when the host settles only
\* edits of which it took every request (interaction.rs, transition.rs).
THEOREM QueueInvariant ==
  ASSUME "SettlesUntaken" \notin Habits
  PROVE  Spec => []QueueInv
<1>1. Init => QueueInv
  BY QueueInit
<1>2. CustodyInv /\ QueueInv /\ [Next]_vars => QueueInv'
  BY QueueStep
<1> QED
  BY <1>1, <1>2, CustodyInvariant, PTL DEF Spec

\* A request a host takes can still be refused, and a notice tells what became of
\* the operation, for queues of every length (transition.rs remove_queued_mutation,
\* prepare_widget_transition; interaction.rs finish_local_mutation).
THEOREM HostHearsTruthHolds ==
  ASSUME "SettlesUntaken" \notin Habits
  PROVE  Spec => []HostHearsTruth
<1>1. QueueInv => HostHearsTruth
  <2> SUFFICES ASSUME QueueInv, NEW w \in Widgets
               PROVE  /\ widget[w].dispatched \subseteq {widget[w].op}
                      /\ \A i \in 1..Len(widget[w].queue) :
                           LET q == widget[w].queue[i]
                           IN  /\ q.type \in EditRequests => q.op = widget[w].op
                               /\ q.type = "History" => q.op = widget[w].hist /\ ~widget[w].histAdmitted
                               /\ q.type = "Cancel" => q.op \notin admitted
                               /\ q.type = "Detached" => q.op \in admitted
    BY DEF HostHearsTruth, QueueNamesLive, NoticesTellAdmission
  <2> DEFINE r == widget[w]
             A == Welcome(r, admitted, Gone)
  <2>1. r.queue \in Seq(A) /\ r.dispatched \subseteq {r.op} \ {0}
    BY DEF QueueInv, Queueing
  <2>2. ASSUME NEW q \in A
        PROVE  /\ q.type \in EditRequests => q.op = r.op
               /\ q.type = "History" => q.op = r.hist /\ ~r.histAdmitted
               /\ q.type = "Cancel" => q.op \notin admitted
               /\ q.type = "Detached" => q.op \in admitted
    BY <2>2 DEF Welcome, Gone
  <2> HIDE DEF A
  <2>3. \A i \in 1..Len(r.queue) : r.queue[i] \in A
    BY <2>1
  <2> QED
    BY <2>1, <2>2, <2>3
<1> QED
  BY <1>1, QueueInvariant, PTL
=============================================================================
