------------------------ MODULE PrepublicationProofs ------------------------
(* Theorems about Prepublication, for any number of slots, sessions and sources: its    *)
(* types, what the ledger holds and for whom, what the host is told and when, and what  *)
(* a resident adoption finds.                                                           *)
EXTENDS Prepublication, TLAPS, WellFoundedInduction

-----------------------------------------------------------------------------
(* Types.                                                                      *)

RequestStates == [kind : {"None", "Validation", "Page", "Object", "Candidate"},
                  gen : Nat, n : Nat]

TokenStates == [slot : Nat, request : RequestStates]

RecordStates ==
  [state : {"Free", "Active", "Ready", "Draining"}, request : RequestStates,
   owner : {"Session", "Candidate", "Widget"}, delivered : BOOLEAN,
   effect : {"None", "Cancel", "Release"}, followup : BOOLEAN]

LedgerStates == [1..Slots -> RecordStates]

SeedStates == [source : Nat, position : Nat]

SessionStates ==
  [stage : {"None", "Initializing", "Validating", "Restoration", "Index", "Target", "Ready",
            "Cancelled", "Failed", "CandidateTaken", "Dropped"},
   seed : SeedStates, waiting : TokenStates, delivered : {"None", "Good", "Bad"},
   admitted : {"None", "Page", "Object"}, needs : {"Page", "Object"}, complete : BOOLEAN,
   pages : SUBSET TokenStates, asked : Nat]

CandidateStates ==
  [place : {"None", "Session", "Host", "Gone", "Adopted"}, token : TokenStates,
   pages : SUBSET TokenStates]

ReservationStates ==
  [open : BOOLEAN, generation : Nat, cut : SeedStates, mode : {"Preserved", "Replacement"}]

WidgetStates ==
  [life : {"None", "Mounted", "Disposed"}, enabled : BOOLEAN, source : Nat,
   shown : SeedStates, protection : Nat, cut : SeedStates, captured : Nat,
   invalidated : BOOLEAN, generation : Nat, pages : SUBSET TokenStates]

TypeOK ==
  /\ ledger \in LedgerStates
  /\ sessions \in [Generations -> SessionStates]
  /\ candidates \in [Generations -> CandidateStates]
  /\ reservations \in [Generations -> ReservationStates]
  /\ widget \in WidgetStates
  /\ published \in Nat
  /\ asked \subseteq TokenStates
  /\ answered \subseteq TokenStates
  /\ told \subseteq TokenStates \X {"None", "Cancel", "Release"}
  /\ altered \subseteq Nat
  /\ changes \in Nat

-----------------------------------------------------------------------------
(* The operators of the ledger.                                                *)

\* A nonempty set of numbers has a first one.
LEMMA LeastExists ==
  ASSUME NEW S \in SUBSET Nat, S # {}
  PROVE  \E least \in S : \A other \in S : least <= other
<1>1. IsWellFoundedOn(OpToRel(<, Nat), Nat)
  BY NatLessThanWellFounded
<1>2. PICK least \in S : \A other \in S : ~(<<other, least>> \in OpToRel(<, Nat))
  BY <1>1, WFMin, Zenon
<1>3. \A other \in S : ~(other < least)
  BY <1>2 DEF OpToRel
<1>4. QED
  BY <1>3

LEMMA FirstExists ==
  ASSUME NEW S \in SUBSET Nat, S # {}
  PROVE  First(S) \in S
BY LeastExists DEF First

\* A slot is found when there is room, and it is free.
LEMMA FirstFreeIsFree ==
  ASSUME NEW l, HasRoom(l)
  PROVE  FirstFree(l) \in 1..Slots /\ l[FirstFree(l)].state = "Free"
<1> DEFINE Free == {slot \in 1..Slots : l[slot].state = "Free"}
<1>1. Free \in SUBSET Nat /\ Free # {}
  BY SlotsAssumption DEF HasRoom
<1>2. PICK least \in Free : \A other \in Free : least <= other
  BY <1>1, LeastExists
<1>3. \A s \in 1..Slots : s < least => l[s].state # "Free"
  BY <1>2, SlotsAssumption
<1>4. QED
  BY <1>2, <1>3 DEF FirstFree

LEMMA TokenType ==
  ASSUME NEW slot \in Nat, NEW request \in RequestStates
  PROVE  Token(slot, request) \in TokenStates
BY DEF Token, TokenStates

LEMMA FreeSlotType == FreeSlot \in RecordStates /\ NoRequest \in RequestStates /\ NoToken \in TokenStates
BY DEF FreeSlot, RecordStates, NoRequest, RequestStates, NoToken, Token, TokenStates

LEMMA BoundType ==
  ASSUME NEW l \in LedgerStates, NEW request \in RequestStates
  PROVE  Bound(l, request) \in LedgerStates
BY FreeSlotType DEF Bound, LedgerStates, RecordStates

LEMMA MarkTokensType ==
  ASSUME NEW l \in LedgerStates, NEW tokens
  PROVE  MarkTokens(l, tokens) \in LedgerStates
BY ZenonT(60) DEF MarkTokens, MarkedReady, LedgerStates, RecordStates

LEMMA MarkSessionType ==
  ASSUME NEW l \in LedgerStates, NEW gen
  PROVE  MarkSession(l, gen) \in LedgerStates
BY ZenonT(60) DEF MarkSession, MarkedReady, LedgerStates, RecordStates

LEMMA MarkDeliveredType ==
  ASSUME NEW l \in LedgerStates, NEW request
  PROVE  MarkDelivered(l, request) \in LedgerStates
BY ZenonT(60) DEF MarkDelivered, Answered, LedgerStates, RecordStates

LEMMA CompleteType ==
  ASSUME NEW l \in LedgerStates, NEW token
  PROVE  Complete(l, token) \in LedgerStates
BY FreeSlotType DEF Complete, LedgerStates

LEMMA GiveToType ==
  ASSUME NEW l \in LedgerStates, NEW tokens, NEW owner \in {"Session", "Candidate", "Widget"}
  PROVE  GiveTo(l, tokens, owner) \in LedgerStates
BY DEF GiveTo, LedgerStates, RecordStates

LEMMA PromotedType ==
  ASSUME NEW l \in LedgerStates, NEW request \in RequestStates, NEW pages
  PROVE  Promoted(l, request, pages) \in LedgerStates
<1>1. [FreeSlot EXCEPT !.state = "Active", !.request = request, !.delivered = TRUE] \in RecordStates
  BY FreeSlotType DEF RecordStates
<1>2. QED
  BY <1>1, GiveToType DEF Promoted, LedgerStates

LEMMA TransferredType ==
  ASSUME NEW l \in LedgerStates, NEW token, NEW pages
  PROVE  Transferred(l, token, pages) \in LedgerStates
BY FreeSlotType, GiveToType DEF Transferred, LedgerStates

LEMMA HandedOutType ==
  ASSUME NEW l \in LedgerStates, NEW slot \in 1..Slots
  PROVE  HandedOut(l, slot) \in LedgerStates
BY ZenonT(60) DEF HandedOut, LedgerStates, RecordStates

LEMMA AcknowledgedType ==
  ASSUME NEW l \in LedgerStates, NEW slot \in 1..Slots
  PROVE  Acknowledged(l, slot) \in LedgerStates
BY FreeSlotType, ZenonT(60) DEF Acknowledged, LedgerStates, RecordStates

-----------------------------------------------------------------------------
(* The types are invariant.                                                    *)

LEMMA SeedTypes == NoSeed \in SeedStates /\ Seeds \subseteq SeedStates
BY ConstantsAssumption DEF NoSeed, Seeds, SeedStates

LEMMA SessionTypes ==
  /\ Fresh \in SessionStates
  /\ NoCandidate \in CandidateStates
  /\ NoReservation \in ReservationStates
BY FreeSlotType, SeedTypes
   DEF Fresh, SessionStates, NoCandidate, CandidateStates, NoReservation, ReservationStates

LEMMA InitTyped == Init => TypeOK
<1> SUFFICES ASSUME Init PROVE TypeOK
  OBVIOUS
<1> USE SlotsAssumption, ConstantsAssumption
<1>1. First(Sources) \in Nat /\ First(Positions) \in Nat
  BY FirstExists
<1>2. EarlierPage \in TokenStates /\ EarlierPage.request \in RequestStates
  BY DEF EarlierPage, Token, TokenStates, RequestStates
<1>3. ASSUME NEW seed \in SeedStates, NEW enabled \in BOOLEAN, NEW pages \in SUBSET TokenStates
      PROVE  Resident(seed, enabled, pages) \in WidgetStates
  BY SeedTypes DEF Resident, WidgetStates, SeedStates
<1>4. NoWidget \in WidgetStates
  BY SeedTypes DEF NoWidget, Resident, WidgetStates, NoSeed, SeedStates
<1>5. EmptyLedger \in LedgerStates
  BY FreeSlotType DEF EmptyLedger, LedgerStates
<1>6. [FreeSlot EXCEPT !.state = "Active", !.request = EarlierPage.request, !.owner = "Widget",
                       !.delivered = TRUE] \in RecordStates
  BY <1>2, FreeSlotType DEF RecordStates
<1>7. ledger \in LedgerStates
  BY <1>5, <1>6 DEF Init, LedgerStates
<1>8. [source |-> published, position |-> First(Positions)] \in SeedStates
  BY <1>1 DEF Init, SeedStates
<1>9. widget \in WidgetStates
  <2>1. CASE widget = NoWidget
    BY <2>1, <1>4
  <2>2. CASE \E first \in AtFirst \ {"None"} :
               widget = Resident([source |-> published, position |-> First(Positions)],
                                 first = "Enabled", {EarlierPage})
    <3>1. PICK first \in AtFirst \ {"None"} :
            widget = Resident([source |-> published, position |-> First(Positions)],
                              first = "Enabled", {EarlierPage})
      BY <2>2
    <3>2. (first = "Enabled") \in BOOLEAN /\ {EarlierPage} \in SUBSET TokenStates
      BY <1>2
    <3>3. QED
      BY <3>1, <3>2, <1>3, <1>8, Zenon
  <2>3. QED
    BY <2>1, <2>2 DEF Init
<1>10. asked \subseteq TokenStates /\ answered \subseteq TokenStates
  BY <1>2 DEF Init
<1>11. published \in Nat
  BY <1>1 DEF Init
<1>12. QED
  BY <1>7, <1>9, <1>10, <1>11, SessionTypes DEF Init, TypeOK

\* One lemma per part: what every step keeps of the variables it does not change is
\* what the frames say.
LEMMA EndsTyped ==
  ASSUME TypeOK, NEW g \in Generations,
         NEW stage \in {"Failed", "Cancelled", "Dropped"}, Ends(g, stage)
  PROVE  /\ ledger' \in LedgerStates
         /\ sessions' \in [Generations -> SessionStates]
         /\ candidates' \in [Generations -> CandidateStates]
<1>1. ledger' \in LedgerStates
  BY MarkTokensType, MarkSessionType DEF Ends, ReleasedBy, TypeOK
<1>2. LocalOwnersReleased(g, stage) \in SessionStates
  BY SessionTypes DEF LocalOwnersReleased, TypeOK, SessionStates
<1>3. CandidateOf(g) \in CandidateStates
  BY SessionTypes DEF CandidateOf, TypeOK, CandidateStates
<1>4. QED
  BY <1>1, <1>2, <1>3 DEF Ends, TypeOK

LEMMA SessionStepTyped ==
  ASSUME TypeOK, NEW g \in Generations, SessionStep(g)
  PROVE  TypeOK'
<1> USE SlotsAssumption, ConstantsAssumption
<1>0. sessions[g] \in SessionStates /\ g \in Nat
  BY DEF TypeOK, Generations
<1>1. ASSUME NEW kind \in {"Validation"} \cup Kinds, Ask(g, kind)
      PROVE  TypeOK'
  <2> DEFINE request == [kind |-> kind, gen |-> g, n |-> sessions[g].asked + 1]
             token == Token(FirstFree(ledger), request)
  <2>1. request \in RequestStates
    BY <1>0 DEF RequestStates, SessionStates
  <2>2. token \in TokenStates
    BY <2>1, <1>1, FirstFreeIsFree, TokenType DEF Ask
  <2>3. ledger' \in LedgerStates
    BY <2>1, <1>1, BoundType DEF Ask, TypeOK
  <2>4. sessions' \in [Generations -> SessionStates]
    BY <2>2, <1>1, <1>0 DEF Ask, TypeOK, SessionStates
  <2>5. asked' \subseteq TokenStates
    BY <2>2, <1>1 DEF Ask, TypeOK
  <2>6. QED
    BY <2>3, <2>4, <2>5, <1>1 DEF Ask, TypeOK
<1>2. CASE UseResident(g)
  <2>1. sessions' \in [Generations -> SessionStates]
    BY <1>2, <1>0 DEF UseResident, TypeOK, SessionStates
  <2>2. QED
    BY <2>1, <1>2 DEF UseResident, TypeOK, heard
<1>3. CASE BeginIndex(g)
  <2>1. sessions' \in [Generations -> SessionStates]
    BY <1>3, <1>0, ZenonT(60) DEF BeginIndex, TypeOK, SessionStates
  <2>2. ledger' \in LedgerStates
    BY <1>3, MarkTokensType DEF BeginIndex, TypeOK
  <2>3. QED
    BY <2>1, <2>2, <1>3 DEF BeginIndex, TypeOK, heard
<1>4. CASE AcceptValidation(g)
  <2>1. sessions' \in [Generations -> SessionStates]
    BY <1>4, <1>0, FreeSlotType DEF AcceptValidation, TypeOK, SessionStates
  <2>2. ledger' \in LedgerStates
    BY <1>4, CompleteType DEF AcceptValidation, TypeOK
  <2>3. QED
    BY <2>1, <2>2, <1>4 DEF AcceptValidation, TypeOK
<1>5. CASE AdmitPage(g)
  <2> DEFINE token == sessions[g].waiting
             kind == token.request.kind
  <2>1. PICK kept \in SUBSET OfKind(sessions[g].pages, kind) :
          LET evicted == OfKind(sessions[g].pages, kind) \ kept
          IN /\ ledger' = MarkTokens(ledger, evicted)
             /\ sessions' = [sessions EXCEPT
                  ![g].pages = (@ \ evicted) \cup {token},
                  ![g].delivered = "None",
                  ![g].waiting = IF Scanning(g) THEN token ELSE NoToken,
                  ![g].admitted = IF Scanning(g) THEN kind ELSE "None"]
    BY <1>5 DEF AdmitPage
  <2>2. ledger' \in LedgerStates
    BY <2>1, MarkTokensType DEF TypeOK
  <2>3. kind \in {"Page", "Object"}
    BY <1>5 DEF AdmitPage
  <2>4. sessions' \in [Generations -> SessionStates]
    <3>1. token \in TokenStates /\ sessions[g].pages \in SUBSET TokenStates
      BY <1>0 DEF SessionStates
    <3>2. PICK left \in SUBSET TokenStates, waiting \in TokenStates,
               admitted \in {"None", "Page", "Object"} :
            sessions' = [sessions EXCEPT ![g].pages = left, ![g].delivered = "None",
                                         ![g].waiting = waiting, ![g].admitted = admitted]
      BY <2>1, <2>3, <3>1, FreeSlotType, ZenonT(60)
    <3>3. [sessions[g] EXCEPT !.pages = left, !.delivered = "None", !.waiting = waiting,
                              !.admitted = admitted] \in SessionStates
      BY <1>0 DEF SessionStates
    <3>4. sessions' = [sessions EXCEPT ![g] =
            [sessions[g] EXCEPT !.pages = left, !.delivered = "None", !.waiting = waiting,
                                !.admitted = admitted]]
      BY <3>2 DEF TypeOK
    <3>5. QED
      BY <3>3, <3>4 DEF TypeOK
  <2>5. QED
    BY <2>2, <2>4, <1>5 DEF AdmitPage, TypeOK, heard
<1>6. CASE Refuse(g)
  BY <1>6, EndsTyped DEF Refuse, TypeOK, heard
<1>0a. Served(g) \in SessionStates
  BY <1>0, FreeSlotType DEF Served, SessionStates
<1>7. ASSUME NEW needs \in Kinds, ContinueScan(g, needs)
      PROVE  TypeOK'
  <2>1. sessions' \in [Generations -> SessionStates]
    BY <1>7, <1>0a DEF ContinueScan, TypeOK, SessionStates
  <2>2. QED
    BY <2>1, <1>7 DEF ContinueScan, TypeOK, heard
<1>8. CASE CompleteIndex(g)
  <2>1. sessions' \in [Generations -> SessionStates]
    BY <1>8, <1>0a DEF CompleteIndex, TypeOK, SessionStates
  <2>2. ledger' \in LedgerStates
    BY <1>8, MarkTokensType DEF CompleteIndex, TypeOK
  <2>3. QED
    BY <2>1, <2>2, <1>8 DEF CompleteIndex, TypeOK, heard
<1>9. CASE CompleteTarget(g)
  <2>1. sessions' \in [Generations -> SessionStates]
    BY <1>9, <1>0a DEF CompleteTarget, TypeOK, SessionStates
  <2>2. QED
    BY <2>1, <1>9 DEF CompleteTarget, TypeOK, heard
<1>10. CASE FinishCandidate(g)
  <2> DEFINE request == [kind |-> "Candidate", gen |-> g, n |-> 0]
  <2>1. request \in RequestStates
    BY <1>0 DEF RequestStates
  <2>2. Token(FirstFree(ledger), request) \in TokenStates
    BY <2>1, <1>10, FirstFreeIsFree, TokenType DEF FinishCandidate
  <2>3. ledger' \in LedgerStates
    BY <2>1, <1>10, PromotedType DEF FinishCandidate, TypeOK
  <2>4. sessions' \in [Generations -> SessionStates]
    BY <1>10, <1>0a DEF FinishCandidate, TypeOK, SessionStates
  <2>5. [place |-> "Session", token |-> Token(FirstFree(ledger), request),
         pages |-> sessions[g].pages] \in CandidateStates
    BY <2>2, <1>0 DEF CandidateStates, SessionStates
  <2>6. candidates' \in [Generations -> CandidateStates]
    BY <2>5, <1>10 DEF FinishCandidate, TypeOK
  <2>7. QED
    BY <2>3, <2>4, <2>6, <1>10 DEF FinishCandidate, TypeOK, heard
<1>11. CASE Fail(g)
  BY <1>11, EndsTyped DEF Fail, TypeOK, heard
<1>12. QED
  BY <1>1, <1>2, <1>3, <1>4, <1>5, <1>6, <1>7, <1>8, <1>9, <1>10, <1>11 DEF SessionStep

LEMMA CandidateDroppedTyped ==
  ASSUME TypeOK, NEW g \in Generations, CandidateDropped(g)
  PROVE  /\ ledger' \in LedgerStates
         /\ candidates' \in [Generations -> CandidateStates]
<1>1. [NoCandidate EXCEPT !.place = "Gone"] \in CandidateStates
  BY SessionTypes DEF CandidateStates
<1>2. QED
  BY <1>1, MarkTokensType DEF CandidateDropped, TypeOK

LEMMA AdoptedTyped ==
  ASSUME TypeOK, NEW g \in Generations, Adopted(g)
  PROVE  candidates' \in [Generations -> CandidateStates]
<1>1. [NoCandidate EXCEPT !.place = "Adopted"] \in CandidateStates
  BY SessionTypes DEF CandidateStates
<1>2. QED
  BY <1>1 DEF Adopted, TypeOK

LEMMA HostStepTyped ==
  ASSUME TypeOK, NEW g \in Generations, HostStep(g)
  PROVE  TypeOK'
<1> USE SlotsAssumption, ConstantsAssumption
<1>0. sessions[g] \in SessionStates /\ candidates[g] \in CandidateStates
  BY DEF TypeOK
<1>a. ASSUME NEW seed \in Seeds, Begins(g, seed)
      PROVE  sessions' \in [Generations -> SessionStates]
  <2>1. [sessions[g] EXCEPT !.stage = "Initializing", !.seed = seed] \in SessionStates
    BY <1>0, SeedTypes DEF SessionStates
  <2>2. sessions' = [sessions EXCEPT ![g] = [sessions[g] EXCEPT !.stage = "Initializing",
                                                                !.seed = seed]]
    BY <1>a DEF Begins, TypeOK
  <2>3. QED
    BY <2>1, <2>2 DEF TypeOK
<1>1. ASSUME NEW seed \in Seeds, New(g, seed)
      PROVE  TypeOK'
  BY <1>1, <1>a DEF New, TypeOK, heard
<1>2. ASSUME NEW seed \in Seeds, NEW mode \in {"Preserved", "Replacement"},
             PrepareSuccessor(g, seed, mode)
      PROVE  TypeOK'
  <2>1. [open |-> TRUE, generation |-> widget.protection, cut |-> widget.cut, mode |-> mode]
          \in ReservationStates
    BY DEF TypeOK, WidgetStates, ReservationStates
  <2>2. reservations' \in [Generations -> ReservationStates]
    BY <2>1, <1>2 DEF PrepareSuccessor, TypeOK
  <2>3. QED
    BY <2>2, <1>2, <1>a DEF PrepareSuccessor, TypeOK, heard
<1>3. ASSUME NEW token \in asked, NEW good \in BOOLEAN, Deliver(token, g, good)
      PROVE  TypeOK'
  <2>1. token \in TokenStates /\ answered' \subseteq TokenStates
    BY <1>3 DEF Deliver, TypeOK
  <2>2. ledger' \in LedgerStates
    BY <1>3, MarkDeliveredType, MarkSessionType DEF Deliver, TypeOK
  <2>3. sessions' \in [Generations -> SessionStates]
    <3> DEFINE h == token.request.gen
    <3>1. CASE sessions' = sessions
      BY <3>1 DEF TypeOK
    <3>2. CASE h = g /\ sessions' = [sessions EXCEPT ![h].delivered = IF good THEN "Good" ELSE "Bad"]
      BY <3>2, <1>0 DEF TypeOK, SessionStates
    <3>3. CASE h = g /\ sessions' = [sessions EXCEPT ![h] = LocalOwnersReleased(h, "Failed")]
      <4>1. LocalOwnersReleased(g, "Failed") \in SessionStates
        BY <1>0, SessionTypes DEF LocalOwnersReleased, SessionStates
      <4>2. QED
        BY <3>3, <4>1 DEF TypeOK
    <3>4. QED
      BY <1>3, <3>1, <3>2, <3>3 DEF Deliver
  <2>4. QED
    BY <2>1, <2>2, <2>3, <1>3 DEF Deliver, TypeOK
<1>4. CASE Cancel(g)
  BY <1>4, EndsTyped DEF Cancel, TypeOK, heard
<1>5. CASE Drop(g)
  BY <1>5, EndsTyped DEF Drop, TypeOK, heard
<1>6. CASE TakeCandidate(g)
  <2>1. sessions' \in [Generations -> SessionStates]
    BY <1>6, <1>0 DEF TakeCandidate, TypeOK, SessionStates
  <2>2. candidates' \in [Generations -> CandidateStates]
    BY <1>6, <1>0 DEF TakeCandidate, TypeOK, CandidateStates
  <2>3. QED
    BY <2>1, <2>2, <1>6 DEF TakeCandidate, TypeOK, heard
<1>7. CASE DropCandidate(g)
  BY <1>7, CandidateDroppedTyped DEF DropCandidate, TypeOK, heard
<1>8. CASE AdoptFresh(g)
  <2>1. widget' \in WidgetStates
    BY <1>8, <1>0 DEF AdoptFresh, TypeOK, WidgetStates, SessionStates, SeedStates, CandidateStates
  <2>2. ledger' \in LedgerStates
    BY <1>8, TransferredType DEF AdoptFresh, TypeOK
  <2>3. QED
    BY <2>1, <2>2, <1>8, AdoptedTyped DEF AdoptFresh, TypeOK, heard
<1>9. ASSUME NEW r \in Generations, RefuseAdoption(r, g)
      PROVE  TypeOK'
  <2>1. reservations' \in [Generations -> ReservationStates]
    BY <1>9, SessionTypes DEF RefuseAdoption, TypeOK
  <2>2. QED
    BY <2>1, <1>9, CandidateDroppedTyped DEF RefuseAdoption, TypeOK, heard
<1>10. ASSUME NEW r \in Generations, NEW protects \in BOOLEAN, AdoptResident(r, g, protects)
       PROVE  TypeOK'
  <2>1. reservations' \in [Generations -> ReservationStates]
    BY <1>10, SessionTypes DEF AdoptResident, TypeOK
  <2>2. ledger' \in LedgerStates
    BY <1>10, TransferredType, MarkTokensType DEF AdoptResident, WidgetReleased, TypeOK
  <2>3. widget' \in WidgetStates
    <3>1. PICK generation \in Nat, protection \in Nat, cut \in SeedStates, captured \in Nat :
            widget' = [widget EXCEPT
              !.source = sessions[g].seed.source, !.shown = sessions[g].seed,
              !.pages = candidates[g].pages, !.generation = generation,
              !.protection = protection, !.cut = cut, !.captured = captured,
              !.invalidated = ~protects]
      <4>1. /\ widget.generation \in Nat /\ widget.protection \in Nat
            /\ widget.cut \in SeedStates /\ widget.captured \in Nat
            /\ sessions[g].seed \in SeedStates /\ sessions[g].seed.source \in Nat
            /\ widget.generation + 1 \in Nat
        BY <1>0 DEF TypeOK, WidgetStates, SessionStates, SeedStates
      <4>2. CASE protects
        BY <4>1, <4>2, <1>10 DEF AdoptResident
      <4>3. CASE ~protects
        BY <4>1, <4>3, <1>10, ZenonT(60) DEF AdoptResident
      <4>4. QED
        BY <4>2, <4>3
    <3>2. /\ sessions[g].seed \in SeedStates /\ sessions[g].seed.source \in Nat
          /\ candidates[g].pages \in SUBSET TokenStates
      BY <1>0 DEF SessionStates, SeedStates, CandidateStates
    <3>3. QED
      BY <3>1, <3>2 DEF TypeOK, WidgetStates
  <2>4. altered' \subseteq Nat
    BY <1>10 DEF AdoptResident, TypeOK, WidgetStates
  <2>5. QED
    BY <2>1, <2>2, <2>3, <2>4, <1>10, AdoptedTyped DEF AdoptResident, TypeOK, heard
<1>11. QED
  BY <1>1, <1>2, <1>3, <1>4, <1>5, <1>6, <1>7, <1>8, <1>9, <1>10 DEF HostStep

LEMMA WidgetStepTyped ==
  ASSUME TypeOK, WidgetStep
  PROVE  TypeOK'
<1> USE SlotsAssumption, ConstantsAssumption
<1>0. widget \in WidgetStates
  BY DEF TypeOK
<1>a. ASSUME altered' = 1..widget.generation
      PROVE  altered' \subseteq Nat
  BY <1>a, <1>0 DEF WidgetStates
<1>1. ASSUME NEW ofPublished \in BOOLEAN, Protect(ofPublished)
      PROVE  TypeOK'
  <2>1. widget' \in WidgetStates
    <3> DEFINE next == widget.generation + 1
    <3>1. widget' = [widget EXCEPT !.generation = next, !.protection = next,
                                   !.cut = widget.shown, !.captured = widget.source,
                                   !.invalidated = FALSE]
      BY <1>1 DEF Protect
    <3>2. next \in Nat
      BY <1>0 DEF WidgetStates
    <3>3. QED
      BY <3>1, <3>2, <1>0 DEF WidgetStates
  <2>2. QED
    BY <2>1, <1>1 DEF Protect, TypeOK, work, heard
<1>2. CASE ReleaseProtection
  <2>1. widget' \in WidgetStates
    BY <1>2, <1>0 DEF ReleaseProtection, WidgetStates
  <2>2. QED
    BY <2>1, <1>2 DEF ReleaseProtection, TypeOK, work, heard
<1>3. CASE SetEnabled
  <2>1. widget' \in WidgetStates
    BY <1>3, <1>0 DEF SetEnabled, WidgetStates
  <2>2. QED
    BY <2>1, <1>3, <1>a DEF SetEnabled, Alters, TypeOK, work, heard
<1>4. CASE EnvironmentChange
  <2>1. widget' \in WidgetStates
    BY <1>4, <1>0 DEF EnvironmentChange, WidgetStates
  <2>2. QED
    BY <2>1, <1>4, <1>a DEF EnvironmentChange, Alters, TypeOK, work, heard
<1>5. CASE Rebind
  <2>1. widget' \in WidgetStates
    BY <1>5, <1>0 DEF Rebind, WidgetStates, TypeOK
  <2>2. QED
    BY <2>1, <1>5, <1>a DEF Rebind, TypeOK, work, heard
<1>b. ASSUME PagesReleased
      PROVE  ledger' \in LedgerStates
  BY <1>b, MarkTokensType DEF PagesReleased, WidgetReleased, TypeOK
<1>6. ASSUME NEW position \in Positions, Publish(position)
      PROVE  TypeOK'
  <2>1. [source |-> widget.source, position |-> position] \in SeedStates
    BY <1>0 DEF WidgetStates, SeedStates
  <2>2. widget' \in WidgetStates
    BY <1>6, <1>0, <2>1 DEF Publish, WidgetStates
  <2>3. QED
    BY <2>2, <1>6, <1>a, <1>b DEF Publish, Alters, TypeOK, heard
<1>7. CASE ImportRestoration
  <2>1. widget' \in WidgetStates
    BY <1>7, <1>0, SeedTypes DEF ImportRestoration, WidgetStates
  <2>2. QED
    BY <2>1, <1>7, <1>a, <1>b DEF ImportRestoration, Alters, TypeOK, heard
<1>8. CASE Dispose
  <2>1. widget' \in WidgetStates
    BY <1>8, <1>0, SeedTypes DEF Dispose, WidgetStates
  <2>2. QED
    BY <2>1, <1>8, <1>a, <1>b DEF Dispose, TypeOK, heard
<1>9. ASSUME NEW source \in Sources, PublishSource(source)
      PROVE  TypeOK'
  BY <1>9 DEF PublishSource, TypeOK, work, heard
<1>10. QED
  BY <1>1, <1>2, <1>3, <1>4, <1>5, <1>6, <1>7, <1>8, <1>9 DEF WidgetStep

LEMMA NextTyped == TypeOK /\ [Next]_vars => TypeOK'
<1> SUFFICES ASSUME TypeOK, [Next]_vars
             PROVE  TypeOK'
  OBVIOUS
<1>1. ASSUME NEW g \in Generations, SessionStep(g) \/ HostStep(g)
      PROVE  TypeOK'
  BY <1>1, SessionStepTyped, HostStepTyped
<1>2. CASE WidgetStep
  BY <1>2, WidgetStepTyped
<1>3. CASE Drain
  <2>1. PICK slot \in 1..Slots :
          /\ ledger' = HandedOut(ledger, slot)
          /\ told' = told \cup {<<Token(slot, ledger[slot].request), ledger[slot].effect>>}
    BY <1>3 DEF Drain
  <2>2. ledger' \in LedgerStates
    BY <2>1, HandedOutType DEF TypeOK
  <2>3. /\ Token(slot, ledger[slot].request) \in TokenStates
        /\ ledger[slot].effect \in {"None", "Cancel", "Release"}
    BY TokenType, SlotsAssumption DEF TypeOK, LedgerStates, RecordStates
  <2>4. QED
    BY <2>1, <2>2, <2>3, <1>3 DEF Drain, TypeOK
<1>4. ASSUME NEW token \in Tokens, Acknowledge(token)
      PROVE  TypeOK'
  <2>1. ledger' \in LedgerStates
    BY <1>4, AcknowledgedType DEF Acknowledge, Tracks, TypeOK
  <2>2. QED
    BY <2>1, <1>4 DEF Acknowledge, TypeOK
<1>5. CASE UNCHANGED vars
  BY <1>5 DEF vars, work, heard, TypeOK
<1>6. QED
  BY <1>1, <1>2, <1>3, <1>4, <1>5 DEF Next

\* Every variable keeps its type: a token names a slot or none, a candidate is at one of
\* its places, a request is of a kind there is (cleanup.rs, session.rs, protection.rs).
THEOREM TypeCorrect == Spec => []TypeOK
BY InitTyped, NextTyped, PTL DEF Spec

-----------------------------------------------------------------------------
(* What a resident adoption finds.                                             *)

\* Protections are numbered in order, and one whose widget was changed since is known to
\* be of no use: an unprotected widget has none, a protected one was invalidated.
ProtectionsTellChanges ==
  /\ widget.protection <= widget.generation
  /\ altered \subseteq 1..widget.generation
  /\ widget.protection \in altered => widget.invalidated

LEMMA ProtectionsKept ==
  TypeOK /\ ProtectionsTellChanges /\ [Next]_vars => ProtectionsTellChanges'
<1> SUFFICES ASSUME TypeOK, ProtectionsTellChanges, [Next]_vars
             PROVE  ProtectionsTellChanges'
  OBVIOUS
<1> USE DEF ProtectionsTellChanges
<1>0. widget \in WidgetStates
  BY DEF TypeOK
<1>0a. /\ widget.generation \in Nat /\ widget.protection \in Nat
       /\ widget.invalidated \in BOOLEAN
       /\ 0 \notin altered
  BY <1>0 DEF WidgetStates
<1>1. CASE UNCHANGED <<widget, altered>>
  BY <1>1
<1>2. ASSUME NEW g \in Generations, SessionStep(g)
      PROVE  UNCHANGED <<widget, altered>>
  BY <1>2 DEF SessionStep, Ask, UseResident, BeginIndex, AcceptValidation, AdmitPage, Refuse,
              ContinueScan, CompleteIndex, CompleteTarget, FinishCandidate, Fail
<1>3. ASSUME NEW g \in Generations, HostStep(g)
      PROVE  ProtectionsTellChanges'
  <2>1. CASE AdoptFresh(g)
    <3>1. /\ widget'.protection = widget.protection /\ widget'.generation = widget.generation
          /\ widget'.invalidated = widget.invalidated /\ altered' = altered
      BY <2>1, <1>0 DEF AdoptFresh, WidgetStates
    <3>2. QED
      BY <3>1
  <2>2. ASSUME NEW r \in Generations, NEW protects \in BOOLEAN, AdoptResident(r, g, protects)
        PROVE  ProtectionsTellChanges'
    <3>1. altered' = 1..widget.generation
      BY <2>2 DEF AdoptResident
    <3>2. CASE protects
      <4>1. /\ widget'.protection = widget.generation + 1
            /\ widget'.generation = widget.generation + 1
        BY <2>2, <3>2, <1>0 DEF AdoptResident, WidgetStates
      <4>2. QED
        BY <3>1, <4>1, <1>0a
    <3>3. CASE ~protects
      <4>1. /\ widget'.protection = widget.protection
            /\ widget'.generation = widget.generation
            /\ widget'.invalidated = TRUE
        BY <2>2, <3>3, <1>0 DEF AdoptResident, WidgetStates
      <4>2. QED
        BY <3>1, <4>1, <1>0a
    <3>4. QED
      BY <3>2, <3>3
  <2>3. CASE ~AdoptFresh(g) /\ ~\E r \in Generations, protects \in BOOLEAN :
                                    AdoptResident(r, g, protects)
    <3>1. UNCHANGED <<widget, altered>>
      BY <1>3, <2>3 DEF HostStep, New, PrepareSuccessor, Deliver, Cancel, Drop, TakeCandidate,
                        DropCandidate, RefuseAdoption
    <3>2. QED
      BY <3>1, <1>1
  <2>4. QED
    BY <2>1, <2>2, <2>3
<1>4. ASSUME NEW ofPublished \in BOOLEAN, Protect(ofPublished)
      PROVE  ProtectionsTellChanges'
  <2>1. /\ widget'.generation = widget.generation + 1
        /\ widget'.protection = widget.generation + 1
        /\ altered' = altered
    BY <1>4, <1>0 DEF Protect, heard, WidgetStates
  <2>2. QED
    BY <2>1, <1>0a
<1>5. CASE ReleaseProtection
  <2>1. widget'.generation = widget.generation /\ widget'.protection = 0 /\ altered' = altered
    BY <1>5, <1>0 DEF ReleaseProtection, heard, WidgetStates
  <2>2. QED
    BY <2>1, <1>0a
\* A change of an unprotected widget, or one that ends its protection.
<1>6. ASSUME altered' = 1..widget.generation, widget'.generation = widget.generation,
             widget'.protection = 0
      PROVE  ProtectionsTellChanges'
  BY <1>6, <1>0a
<1>7. CASE SetEnabled \/ Rebind \/ ImportRestoration
            \/ \E position \in Positions : Publish(position)
  <2>1. /\ altered' = 1..widget.generation /\ widget'.generation = widget.generation
        /\ widget'.protection = 0
    BY <1>7, <1>0 DEF SetEnabled, Rebind, ImportRestoration, Publish, Alters, Unprotected, WidgetStates
  <2>2. QED
    BY <2>1, <1>6
<1>8. CASE Dispose
  <2>1. /\ altered' = 1..widget.generation /\ widget'.generation = widget.generation
        /\ widget'.protection = 0
    BY <1>8, <1>0 DEF Dispose, WidgetStates
  <2>2. QED
    BY <2>1, <1>6
<1>9. CASE EnvironmentChange
  <2>1. /\ altered' = 1..widget.generation /\ widget'.generation = widget.generation
        /\ widget'.protection = widget.protection /\ widget'.invalidated = TRUE
    BY <1>9, <1>0 DEF EnvironmentChange, Alters, WidgetStates
  <2>2. QED
    BY <2>1, <1>0a
<1>10. CASE \E source \in Sources : PublishSource(source)
  BY <1>10, <1>1 DEF PublishSource
<1>11. CASE Drain \/ (\E token \in Tokens : Acknowledge(token)) \/ UNCHANGED vars
  BY <1>11, <1>1 DEF Drain, Acknowledge, vars, heard
<1>12. CASE WidgetStep
  BY <1>12, <1>4, <1>5, <1>7, <1>8, <1>9, <1>10 DEF WidgetStep
<1>13. CASE \E g \in Generations : SessionStep(g) \/ HostStep(g)
  BY <1>13, <1>1, <1>2, <1>3
<1>14. QED
  BY <1>11, <1>12, <1>13 DEF Next

LEMMA InitProtections == Init => ProtectionsTellChanges
BY DEF Init, ProtectionsTellChanges, NoWidget, Resident

\* AdoptsOnItsCut, as what it says of one step.
AdoptionStands(r) ==
  (/\ reservations[r].open /\ ~reservations'[r].open
   /\ \E g \in Generations : candidates'[g].place # candidates[g].place
                           /\ candidates'[g].place = "Adopted") =>
    /\ reservations[r].generation \notin altered
    /\ widget.shown = reservations[r].cut
    /\ widget'.shown = sessions[r].seed
    /\ widget'.shown.source = published
    /\ reservations[r].mode = "Preserved" =>
         widget'.shown.position = widget.shown.position

LEMMA AdoptionStep ==
  ASSUME TypeOK, ProtectionsTellChanges, [Next]_vars, NEW r \in Generations
  PROVE  AdoptionStands(r)
<1> SUFFICES ASSUME reservations[r].open, ~reservations'[r].open,
                    NEW h \in Generations, candidates'[h].place # candidates[h].place,
                    candidates'[h].place = "Adopted"
             PROVE  /\ reservations[r].generation \notin altered
                    /\ widget.shown = reservations[r].cut
                    /\ widget'.shown = sessions[r].seed
                    /\ widget'.shown.source = published
                    /\ reservations[r].mode = "Preserved" =>
                         widget'.shown.position = widget.shown.position
  BY DEF AdoptionStands
<1>0. /\ widget \in WidgetStates /\ reservations \in [Generations -> ReservationStates]
      /\ candidates \in [Generations -> CandidateStates]
  BY DEF TypeOK
<1>1. ASSUME NEW s \in Generations, NEW g \in Generations, NEW protects \in BOOLEAN,
             AdoptResident(s, g, protects)
      PROVE  /\ reservations[r].generation \notin altered
             /\ widget.shown = reservations[r].cut
             /\ widget'.shown = sessions[r].seed
             /\ widget'.shown.source = published
             /\ reservations[r].mode = "Preserved" =>
                  widget'.shown.position = widget.shown.position
  <2>1. s = r
    BY <1>1, <1>0 DEF AdoptResident
  <2>2. g = r
    BY <1>1, <2>1 DEF AdoptResident, AcceptsCandidate
  <2>3. ProtectionIsCurrent(reservations[r].generation, reservations[r].cut)
    BY <1>1, <2>1 DEF AdoptResident
  <2>4. widget'.shown = sessions[r].seed
    BY <1>1, <2>1, <2>2, <1>0 DEF AdoptResident, WidgetStates
  <2>5. sessions[r].seed.source = published
    BY <1>1, <2>2 DEF AdoptResident, StillCurrent
  <2>6. reservations[r].generation \notin altered
    BY <2>3 DEF ProtectionIsCurrent, ProtectionsTellChanges
  <2>7. reservations[r].mode = "Preserved" => sessions[r].seed.position = reservations[r].cut.position
    BY <1>1, <2>1, <2>2 DEF AdoptResident, AcceptsCandidate, PreservesPositions
  <2>8. QED
    BY <2>3, <2>4, <2>5, <2>6, <2>7 DEF ProtectionIsCurrent
\* No other step closes a reservation and adopts.
<1>2. ASSUME NEW g \in Generations, SessionStep(g)
      PROVE  reservations' = reservations
  BY <1>2 DEF SessionStep, Ask, UseResident, BeginIndex, AcceptValidation, AdmitPage, Refuse,
              ContinueScan, CompleteIndex, CompleteTarget, FinishCandidate, Fail
<1>3. ASSUME NEW g \in Generations, NEW seed \in Seeds, NEW mode \in {"Preserved", "Replacement"},
             PrepareSuccessor(g, seed, mode)
      PROVE  FALSE
  BY <1>3, <1>0 DEF PrepareSuccessor
<1>4. ASSUME NEW g \in Generations, NEW s \in Generations, RefuseAdoption(s, g)
      PROVE  FALSE
  BY <1>4, <1>0 DEF RefuseAdoption, CandidateDropped
<1>5. ASSUME NEW g \in Generations, HostStep(g)
      PROVE  \/ reservations' = reservations
             \/ \E s \in Generations, protects \in BOOLEAN : AdoptResident(s, g, protects)
  BY <1>5, <1>3, <1>4 DEF HostStep, New, Deliver, Cancel, Drop, TakeCandidate, DropCandidate, AdoptFresh
<1>6. CASE WidgetStep \/ Drain \/ (\E token \in Tokens : Acknowledge(token)) \/ UNCHANGED vars
  <2>1. reservations' = reservations
    BY <1>6 DEF WidgetStep, Protect, ReleaseProtection, SetEnabled, EnvironmentChange, Rebind,
                Publish, ImportRestoration, Dispose, PublishSource, Drain, Acknowledge, vars
  <2>2. QED
    BY <2>1
<1>7. CASE \E g \in Generations : SessionStep(g) \/ HostStep(g)
  BY <1>7, <1>1, <1>2, <1>5
<1>8. QED
  BY <1>6, <1>7 DEF Next

\* A resident adoption finds the widget unchanged since its reservation and the candidate's
\* source current (protection.rs, prepublication/adoption): what the code checks is
\* enough, because a change leaves an invalidated protection or none.
THEOREM AdoptsOnItsCutHolds == Spec => AdoptsOnItsCut
<1>1. TypeOK /\ ProtectionsTellChanges /\ [Next]_vars => \A r \in Generations : AdoptionStands(r)
  BY AdoptionStep
<1>2. TypeOK /\ ProtectionsTellChanges /\ [Next]_vars =>
        [\A r \in Generations : AdoptionStands(r)]_vars
  BY <1>1
<1>3. Spec => [][\A r \in Generations : AdoptionStands(r)]_vars
  BY <1>2, TypeCorrect, InitProtections, ProtectionsKept, PTL DEF Spec
<1>4. QED
  BY <1>3, PTL DEF AdoptsOnItsCut, AdoptionStands

-----------------------------------------------------------------------------
(* What the operators of the ledger do to what is active.                      *)

\* The tokens of the active records an owner has of some generations.
ActiveAmong(l, owner, gens) ==
  {Token(slot, l[slot].request) : slot \in
     {s \in 1..Slots : /\ l[s].state = "Active" /\ l[s].owner = owner
                      /\ l[s].request.gen \in gens}}

IsActive(l, token, owner, gens) ==
  /\ token.slot \in 1..Slots
  /\ l[token.slot].state = "Active" /\ l[token.slot].owner = owner
  /\ l[token.slot].request.gen \in gens
  /\ token = Token(token.slot, l[token.slot].request)

LEMMA ActiveMember ==
  ASSUME NEW l, NEW owner, NEW gens, NEW token
  PROVE  token \in ActiveAmong(l, owner, gens) <=> IsActive(l, token, owner, gens)
BY DEF ActiveAmong, IsActive, Token

\* Two ledgers that agree on what is active.
LEMMA SameActive ==
  ASSUME NEW l, NEW m, NEW owner, NEW gens,
         \A s \in 1..Slots :
           /\ m[s].state = "Active" <=> l[s].state = "Active"
           /\ l[s].state = "Active" => m[s].request = l[s].request /\ m[s].owner = l[s].owner
  PROVE  ActiveAmong(m, owner, gens) = ActiveAmong(l, owner, gens)
<1>1. ASSUME NEW token PROVE IsActive(m, token, owner, gens) <=> IsActive(l, token, owner, gens)
  BY DEF IsActive
<1>2. QED
  BY <1>1, ActiveMember

LEMMA MarkTokensActive ==
  ASSUME NEW l \in LedgerStates, NEW tokens, NEW owner, NEW gens
  PROVE  ActiveAmong(MarkTokens(l, tokens), owner, gens) = ActiveAmong(l, owner, gens) \ tokens
<1> DEFINE m == MarkTokens(l, tokens)
<1>1. ASSUME NEW s \in 1..Slots
      PROVE  /\ m[s].request = l[s].request /\ m[s].owner = l[s].owner
             /\ m[s].state = "Active" <=> l[s].state = "Active" /\ Token(s, l[s].request) \notin tokens
  BY DEF MarkTokens, MarkedReady, LedgerStates, RecordStates
<1> HIDE DEF m
<1>2. ASSUME NEW token
      PROVE  IsActive(m, token, owner, gens) <=> IsActive(l, token, owner, gens) /\ token \notin tokens
  BY <1>1 DEF IsActive
<1>3. QED
  BY <1>2, ActiveMember DEF m

LEMMA MarkSessionActive ==
  ASSUME NEW l \in LedgerStates, NEW gen, NEW owner, NEW gens
  PROVE  ActiveAmong(MarkSession(l, gen), owner, gens) =
           IF owner = "Session" THEN ActiveAmong(l, owner, gens \ {gen}) ELSE ActiveAmong(l, owner, gens)
<1> DEFINE m == MarkSession(l, gen)
<1>1. ASSUME NEW s \in 1..Slots
      PROVE  /\ m[s].request = l[s].request /\ m[s].owner = l[s].owner
             /\ m[s].state = "Active" <=> l[s].state = "Active" /\ ~OfSession(l[s], gen)
  BY DEF MarkSession, MarkedReady, LedgerStates, RecordStates
<1> HIDE DEF m
<1>2. ASSUME NEW token
      PROVE  IsActive(m, token, owner, gens) <=>
               IF owner = "Session" THEN IsActive(l, token, owner, gens \ {gen})
                                    ELSE IsActive(l, token, owner, gens)
  BY <1>1 DEF IsActive, OfSession
<1>3. QED
  BY <1>2, ActiveMember DEF m

LEMMA MarkDeliveredActive ==
  ASSUME NEW l \in LedgerStates, NEW request, NEW owner, NEW gens
  PROVE  ActiveAmong(MarkDelivered(l, request), owner, gens) = ActiveAmong(l, owner, gens)
<1> DEFINE m == MarkDelivered(l, request)
<1>1. ASSUME NEW s \in 1..Slots
      PROVE  m[s].request = l[s].request /\ m[s].owner = l[s].owner /\ m[s].state = l[s].state
  BY DEF MarkDelivered, Answered, LedgerStates, RecordStates
<1> HIDE DEF m
<1>2. QED
  BY <1>1, SameActive DEF m

LEMMA BoundActive ==
  ASSUME NEW l \in LedgerStates, HasRoom(l), NEW request, NEW owner, NEW gens
  PROVE  ActiveAmong(Bound(l, request), owner, gens) =
           ActiveAmong(l, owner, gens)
             \cup (IF owner = "Session" /\ request.gen \in gens
                   THEN {Token(FirstFree(l), request)} ELSE {})
<1> DEFINE m == Bound(l, request)
           free == FirstFree(l)
<1>0. free \in 1..Slots /\ l[free].state = "Free"
  BY FirstFreeIsFree
<1> HIDE DEF free
<1>1. /\ m[free].state = "Active" /\ m[free].owner = "Session" /\ m[free].request = request
      /\ \A s \in 1..Slots : s # free => m[s] = l[s]
  BY <1>0 DEF Bound, FreeSlot, LedgerStates, free
<1> HIDE DEF m
<1>2. ASSUME NEW token
      PROVE  IsActive(m, token, owner, gens) <=>
               \/ IsActive(l, token, owner, gens)
               \/ owner = "Session" /\ request.gen \in gens /\ token = Token(free, request)
  BY <1>0, <1>1 DEF IsActive, Token
<1>3. QED
  BY <1>2, ActiveMember DEF m, free

LEMMA CompleteActive ==
  ASSUME NEW l \in LedgerStates, NEW token, NEW owner, NEW gens,
         token = Token(token.slot, token.request)
  PROVE  ActiveAmong(Complete(l, token), owner, gens) = ActiveAmong(l, owner, gens) \ {token}
<1> DEFINE m == Complete(l, token)
<1>1. CASE Tracks(l, token) /\ l[token.slot].state = "Active"
  <2>1. /\ m[token.slot].state = "Free"
        /\ \A s \in 1..Slots : s # token.slot => m[s] = l[s]
    BY <1>1 DEF Complete, Tracks, FreeSlot, LedgerStates
  <2> HIDE DEF m
  <2>2. ASSUME NEW t
        PROVE  IsActive(m, t, owner, gens) <=> IsActive(l, t, owner, gens) /\ t # token
    BY <1>1, <2>1 DEF IsActive, Tracks, Token
  <2>3. QED
    BY <2>2, ActiveMember DEF m
<1>2. CASE ~(Tracks(l, token) /\ l[token.slot].state = "Active")
  <2>1. m = l
    BY <1>2 DEF Complete
  <2>2. ~IsActive(l, token, owner, gens)
    BY <1>2 DEF IsActive, Tracks, Token
  <2>3. QED
    BY <2>1, <2>2, ActiveMember
<1>3. QED
  BY <1>1, <1>2

LEMMA HandedOutActive ==
  ASSUME NEW l \in LedgerStates, NEW slot \in 1..Slots, l[slot].state = "Ready",
         NEW owner, NEW gens
  PROVE  ActiveAmong(HandedOut(l, slot), owner, gens) = ActiveAmong(l, owner, gens)
<1> DEFINE m == HandedOut(l, slot)
<1>1. m[slot].state = "Draining" /\ \A s \in 1..Slots : s # slot => m[s] = l[s]
  BY DEF HandedOut, LedgerStates, RecordStates
<1> HIDE DEF m
<1>2. QED
  BY <1>1, SameActive DEF m

LEMMA AcknowledgedActive ==
  ASSUME NEW l \in LedgerStates, NEW slot \in 1..Slots, l[slot].state = "Draining",
         NEW owner, NEW gens
  PROVE  ActiveAmong(Acknowledged(l, slot), owner, gens) = ActiveAmong(l, owner, gens)
<1> DEFINE m == Acknowledged(l, slot)
<1>1. m[slot].state \in {"Ready", "Free"} /\ \A s \in 1..Slots : s # slot => m[s] = l[s]
  BY DEF Acknowledged, FreeSlot, LedgerStates, RecordStates
<1> HIDE DEF m
<1>2. QED
  BY <1>1, SameActive DEF m

\* Giving records away: what is given leaves its owner.
LEMMA GiveToActive ==
  ASSUME NEW l \in LedgerStates, NEW tokens, NEW to, NEW owner, NEW gens
  PROVE  ActiveAmong(GiveTo(l, tokens, to), owner, gens) =
           (ActiveAmong(l, owner, gens) \ tokens)
             \cup (IF owner = to
                   THEN {t \in tokens : \E from \in {"Session", "Candidate", "Widget"} :
                                          t \in ActiveAmong(l, from, gens)}
                   ELSE {})
<1> DEFINE m == GiveTo(l, tokens, to)
<1>1. ASSUME NEW s \in 1..Slots
      PROVE  /\ m[s].request = l[s].request /\ m[s].state = l[s].state
             /\ m[s].owner = IF Token(s, l[s].request) \in tokens THEN to ELSE l[s].owner
             /\ l[s].owner \in {"Session", "Candidate", "Widget"}
  BY DEF GiveTo, LedgerStates, RecordStates
<1> HIDE DEF m
<1>2. ASSUME NEW token
      PROVE  IsActive(m, token, owner, gens) <=>
               \/ IsActive(l, token, owner, gens) /\ token \notin tokens
               \/ /\ owner = to /\ token \in tokens
                  /\ \E from \in {"Session", "Candidate", "Widget"} : IsActive(l, token, from, gens)
  BY <1>1 DEF IsActive
<1>3. QED
  BY <1>2, ActiveMember DEF m

LEMMA PromotedActive ==
  ASSUME NEW l \in LedgerStates, HasRoom(l), NEW request \in RequestStates, NEW pages,
         NEW owner, NEW gens
  PROVE  ActiveAmong(Promoted(l, request, pages), owner, gens) =
           (ActiveAmong(l, owner, gens) \ pages)
             \cup (IF owner = "Candidate"
                   THEN {t \in pages : \E from \in {"Session", "Candidate", "Widget"} :
                                         t \in ActiveAmong(l, from, gens)}
                        \cup (IF request.gen \in gens THEN {Token(FirstFree(l), request)} ELSE {})
                   ELSE {})
<1> DEFINE free == FirstFree(l)
           token == Token(free, request)
           bound == [l EXCEPT ![free] = [FreeSlot EXCEPT !.state = "Active", !.request = request,
                                                         !.delivered = TRUE]]
<1>0. free \in 1..Slots /\ l[free].state = "Free"
  BY FirstFreeIsFree
<1>1. Promoted(l, request, pages) = GiveTo(bound, pages \cup {token}, "Candidate")
  BY DEF Promoted
<1> HIDE DEF free
<1>2. bound \in LedgerStates
  <2>1. [FreeSlot EXCEPT !.state = "Active", !.request = request, !.delivered = TRUE] \in RecordStates
    BY FreeSlotType DEF RecordStates
  <2>2. QED
    BY <2>1, <1>0 DEF LedgerStates
<1>3. /\ bound[free].state = "Active" /\ bound[free].owner = "Session"
      /\ bound[free].request = request
      /\ \A s \in 1..Slots : s # free => bound[s] = l[s]
  BY <1>0 DEF FreeSlot, LedgerStates
<1> HIDE DEF bound
<1>4. ASSUME NEW t, NEW from
      PROVE  t \in ActiveAmong(bound, from, gens) <=>
               \/ t \in ActiveAmong(l, from, gens)
               \/ from = "Session" /\ request.gen \in gens /\ t = token
  <2>1. IsActive(bound, t, from, gens) <=>
          IsActive(l, t, from, gens) \/ (from = "Session" /\ request.gen \in gens /\ t = token)
    BY <1>0, <1>3 DEF IsActive, Token
  <2>2. QED
    BY <2>1, ActiveMember
<1>5. ASSUME NEW from PROVE token \notin ActiveAmong(l, from, gens)
  BY <1>0, ActiveMember DEF IsActive, Token
<1>6. ActiveAmong(GiveTo(bound, pages \cup {token}, "Candidate"), owner, gens) =
        (ActiveAmong(bound, owner, gens) \ (pages \cup {token}))
          \cup (IF owner = "Candidate"
                THEN {t \in pages \cup {token} : \E from \in {"Session", "Candidate", "Widget"} :
                                                    t \in ActiveAmong(bound, from, gens)}
                ELSE {})
  BY <1>2, GiveToActive
<1> HIDE DEF token
<1>7. QED
  BY <1>1, <1>4, <1>5, <1>6 DEF token, free

LEMMA TransferredActive ==
  ASSUME NEW l \in LedgerStates, NEW token, Tracks(l, token),
         token = Token(token.slot, token.request), NEW pages, NEW owner, NEW gens
  PROVE  ActiveAmong(Transferred(l, token, pages), owner, gens) =
           (ActiveAmong(l, owner, gens) \ (pages \cup {token}))
             \cup (IF owner = "Widget"
                   THEN {t \in pages \ {token} : \E from \in {"Session", "Candidate", "Widget"} :
                                                    t \in ActiveAmong(l, from, gens)}
                   ELSE {})
<1> DEFINE freed == [l EXCEPT ![token.slot] = FreeSlot]
<1>1. freed \in LedgerStates
  BY FreeSlotType DEF LedgerStates
<1>2. /\ freed[token.slot].state = "Free"
      /\ \A s \in 1..Slots : s # token.slot => freed[s] = l[s]
  BY DEF FreeSlot, LedgerStates, Tracks
<1>3. Transferred(l, token, pages) = GiveTo(freed, pages, "Widget")
  BY DEF Transferred
<1> HIDE DEF freed
<1>4. ASSUME NEW t, NEW from
      PROVE  t \in ActiveAmong(freed, from, gens) <=> t \in ActiveAmong(l, from, gens) /\ t # token
  <2>1. IsActive(freed, t, from, gens) <=> IsActive(l, t, from, gens) /\ t # token
    BY <1>2 DEF IsActive, Tracks, Token
  <2>2. QED
    BY <2>1, ActiveMember
<1>5. ActiveAmong(GiveTo(freed, pages, "Widget"), owner, gens) =
        (ActiveAmong(freed, owner, gens) \ pages)
          \cup (IF owner = "Widget"
                THEN {t \in pages : \E from \in {"Session", "Candidate", "Widget"} :
                                      t \in ActiveAmong(freed, from, gens)}
                ELSE {})
  BY <1>1, GiveToActive
<1>6. QED
  BY <1>3, <1>4, <1>5

\* No token is active for two owners or in two generations.
LEMMA ActiveApart ==
  ASSUME NEW l, NEW owner, NEW gens, NEW other, NEW others,
         owner # other \/ gens \cap others = {}
  PROVE  ActiveAmong(l, owner, gens) \cap ActiveAmong(l, other, others) = {}
<1>1. ASSUME NEW t, t \in ActiveAmong(l, owner, gens), t \in ActiveAmong(l, other, others)
      PROVE  FALSE
  BY <1>1, ActiveMember DEF IsActive
<1>2. QED
  BY <1>1

-----------------------------------------------------------------------------
(* What the ledger holds.                                                      *)

\* HeldExactly in the terms of the lemmas above.
Held ==
  /\ \A g \in Generations : /\ ActiveAmong(ledger, "Session", {g}) = HeldBy(g)
                            /\ ActiveAmong(ledger, "Candidate", {g}) = CandidateHolds(g)
  /\ ActiveAmong(ledger, "Widget", Generations \cup {0}) = widget.pages

LEMMA HeldIsHeldExactly == Held => HeldExactly
<1> SUFFICES ASSUME Held PROVE HeldExactly
  OBVIOUS
<1>1. ASSUME NEW owner, NEW g PROVE ActiveOf(owner, g) = ActiveAmong(ledger, owner, {g})
  BY DEF ActiveOf, ActiveAmong
<1>2. UNION {ActiveOf("Widget", g) : g \in Generations \cup {0}}
        = ActiveAmong(ledger, "Widget", Generations \cup {0})
  BY DEF ActiveOf, ActiveAmong
<1>3. QED
  BY <1>1, <1>2 DEF Held, HeldExactly

\* The stages at which a session still works on its candidate.
Working == {"None", "Initializing", "Validating", "Restoration", "Index", "Target"}

\* A session waits for a token it does not hold yet, unless its page was admitted; it has an
\* answer only while it waits; when its target is complete it waits for nothing; and only a
\* session whose work is done has a candidate.
SessionShaped(g) ==
  /\ sessions[g].waiting # NoToken /\ sessions[g].admitted = "None" =>
       sessions[g].waiting \notin sessions[g].pages
  /\ sessions[g].admitted # "None" =>
       /\ sessions[g].delivered = "None"
       /\ sessions[g].waiting \in sessions[g].pages \cup {NoToken}
  /\ sessions[g].delivered # "None" => sessions[g].waiting # NoToken
  /\ sessions[g].complete =>
       /\ sessions[g].stage \in {"Target", "Ready", "CandidateTaken"}
       /\ sessions[g].waiting = NoToken /\ sessions[g].admitted = "None"
  /\ sessions[g].waiting # NoToken \/ sessions[g].admitted # "None" => sessions[g].stage \in Working
  /\ sessions[g].stage \in Working => candidates[g] = NoCandidate

Shaped ==
  /\ \A g \in Generations : /\ SessionShaped(g)
                            /\ candidates[g].token \notin candidates[g].pages
  /\ widget.life = "None" => widget.pages = {}

HeldInv == TypeOK /\ Shaped /\ Held

LEMMA InitHeld == Init => Shaped /\ Held
<1> SUFFICES ASSUME Init PROVE Shaped /\ Held
  OBVIOUS
<1> USE SlotsAssumption, ConstantsAssumption
<1>1. Shaped
  BY DEF Init, Shaped, SessionShaped, Fresh, NoCandidate, NoWidget, Resident, Working
<1>2. ASSUME NEW g \in Generations
      PROVE  HeldBy(g) = {} /\ CandidateHolds(g) = {}
  BY DEF Init, HeldBy, CandidateHolds, Fresh, NoCandidate
<1>3. CASE ledger = EmptyLedger /\ widget = NoWidget
  <2>1. ASSUME NEW owner, NEW gens PROVE ActiveAmong(ledger, owner, gens) = {}
    BY <1>3 DEF ActiveAmong, EmptyLedger, FreeSlot
  <2>2. widget.pages = {}
    BY <1>3 DEF NoWidget, Resident
  <2>3. QED
    BY <1>1, <1>2, <2>1, <2>2 DEF Held
<1>4. CASE /\ ledger = [EmptyLedger EXCEPT ![1] =
                          [FreeSlot EXCEPT !.state = "Active", !.request = EarlierPage.request,
                                           !.owner = "Widget", !.delivered = TRUE]]
           /\ widget.pages = {EarlierPage}
  <2>1. /\ ledger[1].state = "Active" /\ ledger[1].owner = "Widget"
        /\ ledger[1].request = EarlierPage.request /\ EarlierPage.request.gen = 0
        /\ EarlierPage = Token(1, EarlierPage.request)
        /\ 1 \in 1..Slots
        /\ \A s \in 1..Slots : s # 1 => ledger[s].state = "Free"
    BY <1>4 DEF EmptyLedger, FreeSlot, EarlierPage, Token
  <2>2. ASSUME NEW g \in Generations, NEW owner \in {"Session", "Candidate"}
        PROVE  ActiveAmong(ledger, owner, {g}) = {}
    BY <2>1 DEF ActiveAmong
  <2>3. ActiveAmong(ledger, "Widget", Generations \cup {0}) = {EarlierPage}
    <3>1. ASSUME NEW t
          PROVE  IsActive(ledger, t, "Widget", Generations \cup {0}) <=> t = EarlierPage
      BY <2>1 DEF IsActive, Token
    <3>2. QED
      BY <3>1, ActiveMember
  <2>4. QED
    BY <1>1, <1>2, <1>4, <2>2, <2>3 DEF Held
<1>5. QED
  BY <1>3, <1>4 DEF Init, Resident

\* A step of one session that leaves what others hold alone.
OthersKept(g) ==
  /\ \A h \in Generations \ {g} :
       ActiveAmong(ledger', "Session", {h}) = ActiveAmong(ledger, "Session", {h})
  /\ \A h \in Generations :
       ActiveAmong(ledger', "Candidate", {h}) = ActiveAmong(ledger, "Candidate", {h})
  /\ ActiveAmong(ledger', "Widget", Generations \cup {0}) =
       ActiveAmong(ledger, "Widget", Generations \cup {0})

LEMMA HeldByStep ==
  ASSUME Held, NEW g \in Generations, OthersKept(g),
         \A h \in Generations \ {g} : sessions'[h] = sessions[h],
         candidates' = candidates, widget' = widget,
         ActiveAmong(ledger', "Session", {g}) = HeldBy(g)'
  PROVE  Held'
<1>1. ASSUME NEW h \in Generations \ {g} PROVE HeldBy(h)' = HeldBy(h)
  BY DEF HeldBy
<1>2. ASSUME NEW h \in Generations PROVE CandidateHolds(h)' = CandidateHolds(h)
  BY DEF CandidateHolds
<1>3. QED
  BY <1>1, <1>2 DEF Held, OthersKept

\* A session that marks tokens of its own.
LEMMA MarkOwn ==
  ASSUME TypeOK, Held, NEW g \in Generations, NEW tokens \in SUBSET HeldBy(g),
         ledger' = MarkTokens(ledger, tokens)
  PROVE  /\ OthersKept(g)
         /\ ActiveAmong(ledger', "Session", {g}) = HeldBy(g) \ tokens
<1>0. ledger \in LedgerStates
  BY DEF TypeOK
<1>1. tokens \subseteq ActiveAmong(ledger, "Session", {g})
  BY DEF Held
<1>2. ASSUME NEW owner, NEW gens
      PROVE  ActiveAmong(ledger', owner, gens) = ActiveAmong(ledger, owner, gens) \ tokens
  BY <1>0, MarkTokensActive
<1>3. ASSUME NEW owner, NEW gens, owner # "Session" \/ {g} \cap gens = {}
      PROVE  ActiveAmong(ledger', owner, gens) = ActiveAmong(ledger, owner, gens)
  <2>1. ActiveAmong(ledger, "Session", {g}) \cap ActiveAmong(ledger, owner, gens) = {}
    BY <1>3, ActiveApart
  <2>2. QED
    BY <1>1, <1>2, <2>1
<1>4. ASSUME NEW h \in Generations \ {g}
      PROVE  ActiveAmong(ledger', "Session", {h}) = ActiveAmong(ledger, "Session", {h})
  BY <1>3
<1>5. QED
  BY <1>2, <1>3, <1>4 DEF OthersKept, Held

\* A session that ends: what it holds, and the candidate it still has, are marked.
LEMMA EndsHeld ==
  ASSUME HeldInv, NEW g \in Generations, NEW stage \in {"Failed", "Cancelled", "Dropped"},
         Ends(g, stage), widget' = widget
  PROVE  Shaped' /\ Held'
<1> USE DEF HeldInv
<1>0. ledger \in LedgerStates /\ g \in Generations
  BY DEF TypeOK
<1> DEFINE own == IF candidates[g].place = "Session"
                  THEN candidates[g].pages \cup {candidates[g].token} ELSE {}
<1>1. ledger' = MarkTokens(MarkSession(ledger, g), own)
  BY DEF Ends, ReleasedBy
<1>2. /\ sessions'[g] = LocalOwnersReleased(g, stage) /\ candidates'[g] = CandidateOf(g)
      /\ \A h \in Generations \ {g} : sessions'[h] = sessions[h] /\ candidates'[h] = candidates[h]
  BY DEF Ends, TypeOK
<1>3. ASSUME NEW owner, NEW gens
      PROVE  ActiveAmong(ledger', owner, gens) =
               (IF owner = "Session" THEN ActiveAmong(ledger, owner, gens \ {g})
                                     ELSE ActiveAmong(ledger, owner, gens)) \ own
  BY <1>0, <1>1, MarkSessionType, MarkTokensActive, MarkSessionActive
<1>4. own \ {NoToken} \subseteq ActiveAmong(ledger, "Candidate", {g})
  BY DEF Held, CandidateHolds
<1>4a. ASSUME NEW owner, NEW gens PROVE NoToken \notin ActiveAmong(ledger, owner, gens)
  BY ActiveMember, SlotsAssumption DEF IsActive, NoToken, Token
<1>5. ASSUME NEW owner, NEW gens, owner # "Candidate" \/ {g} \cap gens = {}
      PROVE  ActiveAmong(ledger, owner, gens) \cap own = {}
  <2>1. ActiveAmong(ledger, "Candidate", {g}) \cap ActiveAmong(ledger, owner, gens) = {}
    BY <1>5, ActiveApart
  <2>2. QED
    BY <1>4, <1>4a, <2>1
<1> HIDE DEF own
<1>6. ASSUME NEW h \in Generations
      PROVE  ActiveAmong(ledger', "Session", {h}) = HeldBy(h)'
  <2>1. CASE h = g
    <3>1. {h} \ {g} = {}
      BY <2>1
    <3>2. ActiveAmong(ledger, "Session", {}) = {}
      BY DEF ActiveAmong
    <3>3. HeldBy(g)' = {}
      BY <1>2 DEF HeldBy, LocalOwnersReleased, Fresh
    <3>4. QED
      BY <1>3, <2>1, <3>1, <3>2, <3>3
  <2>2. CASE h # g
    <3>1. {h} \ {g} = {h} /\ {g} \cap {h} = {}
      BY <2>2
    <3>2. ActiveAmong(ledger', "Session", {h}) = ActiveAmong(ledger, "Session", {h})
      BY <1>3, <1>5, <3>1
    <3>3. HeldBy(h)' = HeldBy(h)
      BY <1>2, <2>2 DEF HeldBy
    <3>4. QED
      BY <3>2, <3>3 DEF Held
  <2>3. QED
    BY <2>1, <2>2
<1>7. ASSUME NEW h \in Generations
      PROVE  ActiveAmong(ledger', "Candidate", {h}) = CandidateHolds(h)'
  <2>0. ActiveAmong(ledger', "Candidate", {h}) = ActiveAmong(ledger, "Candidate", {h}) \ own
    BY <1>3
  <2>1. CASE h = g /\ candidates[g].place = "Session"
    <3>1. CandidateHolds(g)' = {}
      BY <1>2, <2>1 DEF CandidateHolds, CandidateOf, NoCandidate
    <3>2. ActiveAmong(ledger, "Candidate", {g}) \subseteq own
      BY <2>1 DEF Held, CandidateHolds, own
    <3>3. QED
      BY <2>0, <2>1, <3>1, <3>2
  <2>2. CASE h = g /\ candidates[g].place # "Session"
    <3>1. own = {} /\ CandidateHolds(g)' = CandidateHolds(g)
      BY <1>2, <2>2 DEF CandidateHolds, CandidateOf, own
    <3>2. QED
      BY <2>0, <2>2, <3>1 DEF Held
  <2>3. CASE h # g
    <3>1. CandidateHolds(h)' = CandidateHolds(h)
      BY <1>2, <2>3 DEF CandidateHolds
    <3>2. ActiveAmong(ledger, "Candidate", {h}) \cap own = {}
      BY <1>5, <2>3
    <3>3. QED
      BY <2>0, <3>1, <3>2 DEF Held
  <2>4. QED
    BY <2>1, <2>2, <2>3
<1>8. ActiveAmong(ledger', "Widget", Generations \cup {0}) = widget'.pages
  <2>1. ActiveAmong(ledger', "Widget", Generations \cup {0}) =
          ActiveAmong(ledger, "Widget", Generations \cup {0}) \ own
    BY <1>3
  <2>2. ActiveAmong(ledger, "Widget", Generations \cup {0}) \cap own = {}
    BY <1>5
  <2>3. QED
    BY <2>1, <2>2 DEF Held
<1>9. Shaped'
  <2>1. SessionShaped(g)' /\ (candidates[g].token \notin candidates[g].pages)'
    BY <1>2 DEF Shaped, SessionShaped, LocalOwnersReleased, Fresh, CandidateOf, NoCandidate, Working
  <2>2. ASSUME NEW h \in Generations \ {g}
        PROVE  SessionShaped(h)' /\ (candidates[h].token \notin candidates[h].pages)'
    BY <1>2 DEF Shaped, SessionShaped
  <2>3. (widget.life = "None" => widget.pages = {})'
    BY DEF Shaped
  <2>4. QED
    BY <2>1, <2>2, <2>3 DEF Shaped
<1>10. QED
  BY <1>6, <1>7, <1>8, <1>9 DEF Held

LEMMA ShapedByStep ==
  ASSUME Shaped, NEW g \in Generations,
         \A h \in Generations \ {g} : sessions'[h] = sessions[h],
         candidates' = candidates, widget' = widget, SessionShaped(g)'
  PROVE  Shaped'
<1>1. ASSUME NEW h \in Generations \ {g} PROVE SessionShaped(h)'
  BY DEF Shaped, SessionShaped
<1>2. QED
  BY <1>1 DEF Shaped

LEMMA LedgerKept ==
  ASSUME ledger' = ledger, NEW g \in Generations
  PROVE  OthersKept(g)
BY DEF OthersKept

LEMMA SessionStepHeld ==
  ASSUME HeldInv, NEW g \in Generations, SessionStep(g)
  PROVE  Shaped' /\ Held'
<1> USE SlotsAssumption, ConstantsAssumption DEF HeldInv
<1>0. /\ ledger \in LedgerStates /\ sessions \in [Generations -> SessionStates]
      /\ sessions[g] \in SessionStates /\ SessionShaped(g) /\ g \in Nat \ {0}
  BY DEF TypeOK, Shaped, Generations
<1>0a. /\ sessions[g].pages \subseteq TokenStates /\ sessions[g].waiting \in TokenStates
       /\ sessions[g].asked \in Nat
  BY <1>0 DEF SessionStates
<1>0b. /\ Served(g).waiting = NoToken /\ Served(g).admitted = "None"
       /\ Served(g).delivered = sessions[g].delivered /\ Served(g).pages = sessions[g].pages
       /\ Served(g).stage = sessions[g].stage /\ Served(g).complete = sessions[g].complete
       /\ Served(g) \in SessionStates
  BY <1>0, FreeSlotType DEF Served, SessionStates
\* A step in which the ledger stays and so does what the session holds.
<1>a. ASSUME ledger' = ledger, HeldBy(g)' = HeldBy(g),
             \A h \in Generations \ {g} : sessions'[h] = sessions[h],
             candidates' = candidates, widget' = widget, SessionShaped(g)'
      PROVE  Shaped' /\ Held'
  BY <1>a, LedgerKept, HeldByStep, ShapedByStep DEF Held
<1>1. ASSUME NEW kind \in {"Validation"} \cup Kinds, Ask(g, kind)
      PROVE  Shaped' /\ Held'
  <2> DEFINE request == [kind |-> kind, gen |-> g, n |-> sessions[g].asked + 1]
             free == FirstFree(ledger)
             token == Token(free, request)
  <2>1. /\ ledger' = Bound(ledger, request) /\ HasRoom(ledger)
        /\ candidates' = candidates /\ widget' = widget
        /\ sessions[g].waiting = NoToken /\ sessions[g].delivered = "None"
        /\ sessions[g].admitted = "None"
    BY <1>1 DEF Ask, Idle
  <2>2. /\ sessions'[g].waiting = token /\ sessions'[g].pages = sessions[g].pages
        /\ sessions'[g].delivered = "None" /\ sessions'[g].admitted = "None"
        /\ sessions'[g].complete = sessions[g].complete
        /\ sessions'[g].stage = IF kind = "Validation" THEN "Validating" ELSE sessions[g].stage
        /\ \A h \in Generations \ {g} : sessions'[h] = sessions[h]
    BY <1>1, <1>0, <2>1 DEF Ask, SessionStates
  <2>3. free \in 1..Slots /\ ledger[free].state = "Free"
    BY <2>1, FirstFreeIsFree
  <2>4. request.gen = g /\ token # NoToken /\ token.slot = free
    BY <2>3 DEF NoToken, Token
  <2>5. ASSUME NEW owner, NEW gens PROVE token \notin ActiveAmong(ledger, owner, gens)
    BY <2>3, <2>4, ActiveMember DEF IsActive
  <2> HIDE DEF request, free
  <2>6. ASSUME NEW owner, NEW gens
        PROVE  ActiveAmong(ledger', owner, gens) =
                 ActiveAmong(ledger, owner, gens)
                   \cup (IF owner = "Session" /\ g \in gens THEN {token} ELSE {})
    BY <1>0, <2>1, <2>4, BoundActive DEF free
  <2> HIDE DEF token
  <2>7. OthersKept(g)
    <3>1. ASSUME NEW owner, NEW gens, owner # "Session" \/ g \notin gens
          PROVE  ActiveAmong(ledger', owner, gens) = ActiveAmong(ledger, owner, gens)
      <4>1. ActiveAmong(ledger', owner, gens) =
              ActiveAmong(ledger, owner, gens)
                \cup (IF owner = "Session" /\ g \in gens THEN {token} ELSE {})
        BY <2>6
      <4>2. QED
        BY <3>1, <4>1
    <3>2. ASSUME NEW h \in Generations \ {g}
          PROVE  ActiveAmong(ledger', "Session", {h}) = ActiveAmong(ledger, "Session", {h})
      BY <3>1
    <3>3. QED
      BY <3>1, <3>2 DEF OthersKept
  <2>8. ActiveAmong(ledger', "Session", {g}) = HeldBy(g)'
    <3>1. HeldBy(g) = sessions[g].pages /\ HeldBy(g)' = sessions[g].pages \cup {token}
      BY <2>1, <2>2, <2>4 DEF HeldBy
    <3>2. ActiveAmong(ledger', "Session", {g}) = ActiveAmong(ledger, "Session", {g}) \cup {token}
      BY <2>6
    <3>3. QED
      BY <3>1, <3>2 DEF Held
  <2>9. sessions[g].stage \in Working /\ ~sessions[g].complete /\ token \notin sessions[g].pages
    <3>1. sessions[g].stage \in {"Initializing", "Restoration"} \/ Scanning(g)
      BY <1>1 DEF Ask, Asks
    <3>2. sessions[g].stage \in Working /\ ~sessions[g].complete
      BY <3>1, <1>0 DEF Scanning, Working, SessionShaped
    <3>3. sessions[g].pages \subseteq ActiveAmong(ledger, "Session", {g})
      BY DEF Held, HeldBy
    <3>4. QED
      BY <3>2, <3>3, <2>5
  <2>10. SessionShaped(g)'
    BY <1>0, <2>1, <2>2, <2>9 DEF SessionShaped, Working
  <2>11. QED
    BY <2>1, <2>2, <2>7, <2>8, <2>10, HeldByStep, ShapedByStep
<1>2. CASE UseResident(g)
  <2>1. /\ ledger' = ledger /\ candidates' = candidates /\ widget' = widget
        /\ sessions[g].waiting = NoToken /\ sessions[g].delivered = "None"
    BY <1>2 DEF UseResident, Idle
  <2>2. /\ sessions'[g] = [sessions[g] EXCEPT !.admitted = sessions[g].needs]
        /\ \A h \in Generations \ {g} : sessions'[h] = sessions[h]
    BY <1>2, <1>0 DEF UseResident
  <2>3. HeldBy(g)' = HeldBy(g)
    BY <2>2, <1>0 DEF HeldBy, SessionStates
  <2>4. SessionShaped(g)'
    BY <2>1, <2>2, <1>0, <1>2 DEF SessionShaped, SessionStates, UseResident, Scanning, Working
  <2>5. QED
    BY <2>1, <2>2, <2>3, <2>4, <1>a
<1>3. CASE BeginIndex(g)
  <2>1. /\ ledger' = MarkTokens(ledger, sessions[g].pages)
        /\ candidates' = candidates /\ widget' = widget
        /\ sessions[g].waiting = NoToken /\ sessions[g].delivered = "None"
        /\ sessions[g].admitted = "None" /\ sessions[g].stage = "Restoration"
    BY <1>3 DEF BeginIndex, Idle
  <2>2. /\ sessions'[g] = [sessions[g] EXCEPT !.stage = "Index", !.pages = {}]
        /\ \A h \in Generations \ {g} : sessions'[h] = sessions[h]
    BY <1>3, <1>0 DEF BeginIndex
  <2>3. HeldBy(g) = sessions[g].pages /\ HeldBy(g)' = {}
    BY <2>1, <2>2, <1>0 DEF HeldBy, SessionStates
  <2>4. OthersKept(g) /\ ActiveAmong(ledger', "Session", {g}) = {}
    BY <2>1, <2>3, MarkOwn
  <2>5. SessionShaped(g)'
    BY <2>1, <2>2, <1>0 DEF SessionShaped, SessionStates, Working
  <2>6. QED
    BY <2>1, <2>2, <2>3, <2>4, <2>5, HeldByStep, ShapedByStep
<1>4. CASE AcceptValidation(g)
  <2> DEFINE token == sessions[g].waiting
  <2>1. /\ ledger' = Complete(ledger, token)
        /\ candidates' = candidates /\ widget' = widget /\ sessions[g].delivered = "Good"
    BY <1>4 DEF AcceptValidation
  <2>2. /\ sessions'[g] = [sessions[g] EXCEPT !.stage = "Restoration", !.waiting = NoToken,
                                             !.delivered = "None"]
        /\ \A h \in Generations \ {g} : sessions'[h] = sessions[h]
    BY <1>4, <1>0 DEF AcceptValidation
  <2>3. token # NoToken /\ sessions[g].admitted = "None" /\ token \notin sessions[g].pages
    BY <2>1, <1>0 DEF SessionShaped
  <2>4. HeldBy(g) = sessions[g].pages \cup {token} /\ HeldBy(g)' = sessions[g].pages
    BY <2>2, <2>3, <1>0 DEF HeldBy, SessionStates
  <2>5. token \in ActiveAmong(ledger, "Session", {g})
    BY <2>4 DEF Held
  <2>6. token = Token(token.slot, token.request)
    BY <2>5, ActiveMember DEF IsActive, Token
  <2>7. ASSUME NEW owner, NEW gens
        PROVE  ActiveAmong(ledger', owner, gens) = ActiveAmong(ledger, owner, gens) \ {token}
    BY <1>0, <2>1, <2>6, CompleteActive
  <2> HIDE DEF token
  <2>8. OthersKept(g)
    <3>1. ASSUME NEW owner, NEW gens, owner # "Session" \/ {g} \cap gens = {}
          PROVE  ActiveAmong(ledger', owner, gens) = ActiveAmong(ledger, owner, gens)
      <4>1. ActiveAmong(ledger, "Session", {g}) \cap ActiveAmong(ledger, owner, gens) = {}
        BY <3>1, ActiveApart
      <4>2. QED
        BY <2>5, <2>7, <4>1
    <3>2. ASSUME NEW h \in Generations \ {g}
          PROVE  ActiveAmong(ledger', "Session", {h}) = ActiveAmong(ledger, "Session", {h})
      BY <3>1
    <3>3. QED
      BY <3>1, <3>2 DEF OthersKept
  <2>9. ActiveAmong(ledger', "Session", {g}) = HeldBy(g)'
    <3>1. ActiveAmong(ledger', "Session", {g}) = HeldBy(g) \ {token}
      BY <2>7 DEF Held
    <3>2. QED
      BY <3>1, <2>3, <2>4
  <2>10. sessions[g].stage \in Working /\ ~sessions[g].complete
    BY <2>3, <1>0 DEF SessionShaped, token
  <2>11. SessionShaped(g)'
    BY <2>1, <2>2, <2>3, <2>10, <1>0 DEF SessionShaped, SessionStates, Working
  <2>12. QED
    BY <2>1, <2>2, <2>8, <2>9, <2>11, HeldByStep, ShapedByStep
<1>5. CASE AdmitPage(g)
  <2> DEFINE token == sessions[g].waiting
             kind == token.request.kind
  <2>1. PICK kept \in SUBSET OfKind(sessions[g].pages, kind) :
          LET evicted == OfKind(sessions[g].pages, kind) \ kept
          IN /\ ledger' = MarkTokens(ledger, evicted)
             /\ sessions' = [sessions EXCEPT
                  ![g].pages = (@ \ evicted) \cup {token},
                  ![g].delivered = "None",
                  ![g].waiting = IF Scanning(g) THEN token ELSE NoToken,
                  ![g].admitted = IF Scanning(g) THEN kind ELSE "None"]
    BY <1>5 DEF AdmitPage
  <2>2. /\ candidates' = candidates /\ widget' = widget /\ sessions[g].delivered = "Good"
        /\ kind \in {"Page", "Object"}
    BY <1>5 DEF AdmitPage
  <2> DEFINE evicted == OfKind(sessions[g].pages, kind) \ kept
  <2>3. evicted \subseteq sessions[g].pages
    BY DEF OfKind
  <2>4. /\ sessions'[g].pages = (sessions[g].pages \ evicted) \cup {token}
        /\ sessions'[g].delivered = "None"
        /\ sessions'[g].waiting = IF Scanning(g) THEN token ELSE NoToken
        /\ sessions'[g].admitted = IF Scanning(g) THEN kind ELSE "None"
        /\ sessions'[g].stage = sessions[g].stage /\ sessions'[g].complete = sessions[g].complete
        /\ \A h \in Generations \ {g} : sessions'[h] = sessions[h]
    BY <2>1, <1>0 DEF SessionStates
  <2>5. ledger' = MarkTokens(ledger, evicted)
    BY <2>1
  <2> HIDE DEF evicted, kind
  <2>6. token # NoToken /\ sessions[g].admitted = "None" /\ token \notin sessions[g].pages
    BY <2>2, <1>0 DEF SessionShaped
  <2>7. HeldBy(g) = sessions[g].pages \cup {token}
    BY <2>6 DEF HeldBy
  <2>8. HeldBy(g)' = (sessions[g].pages \ evicted) \cup {token}
    BY <2>4, <2>6 DEF HeldBy
  <2>9. OthersKept(g) /\ ActiveAmong(ledger', "Session", {g}) = HeldBy(g) \ evicted
    BY <2>3, <2>5, <2>7, MarkOwn
  <2>10. SessionShaped(g)'
    BY <2>2, <2>4, <2>6, <1>0 DEF SessionShaped
  <2>11. QED
    BY <2>2, <2>3, <2>4, <2>6, <2>7, <2>8, <2>9, <2>10, HeldByStep, ShapedByStep, SMTT(30)
<1>6. CASE Refuse(g)
  BY <1>6, EndsHeld DEF Refuse
<1>7. ASSUME NEW needs \in Kinds, ContinueScan(g, needs)
      PROVE  Shaped' /\ Held'
  <2>1. /\ ledger' = ledger /\ candidates' = candidates /\ widget' = widget
        /\ sessions[g].admitted # "None"
    BY <1>7 DEF ContinueScan
  <2>2. /\ sessions'[g] = [Served(g) EXCEPT !.needs = needs]
        /\ \A h \in Generations \ {g} : sessions'[h] = sessions[h]
    BY <1>7, <1>0 DEF ContinueScan
  <2>3. /\ sessions'[g].waiting = NoToken /\ sessions'[g].admitted = "None"
        /\ sessions'[g].delivered = "None" /\ sessions'[g].pages = sessions[g].pages
        /\ sessions'[g].stage = sessions[g].stage /\ ~sessions'[g].complete
    BY <2>1, <2>2, <1>0, <1>0b DEF SessionStates, SessionShaped
  <2>4. HeldBy(g)' = HeldBy(g)
    BY <2>1, <2>3, <1>0 DEF HeldBy, SessionShaped
  <2>5. SessionShaped(g)'
    BY <2>1, <2>3, <1>0 DEF SessionShaped
  <2>6. QED
    BY <2>1, <2>2, <2>4, <2>5, <1>a
<1>8. CASE CompleteIndex(g)
  <2>1. /\ ledger' = MarkTokens(ledger, sessions[g].pages)
        /\ candidates' = candidates /\ widget' = widget
        /\ sessions[g].admitted # "None" /\ sessions[g].stage = "Index"
    BY <1>8 DEF CompleteIndex
  <2>2. /\ sessions'[g] = [Served(g) EXCEPT !.stage = "Target", !.needs = "Page", !.pages = {}]
        /\ \A h \in Generations \ {g} : sessions'[h] = sessions[h]
    BY <1>8, <1>0 DEF CompleteIndex
  <2>3. /\ sessions'[g].waiting = NoToken /\ sessions'[g].admitted = "None"
        /\ sessions'[g].delivered = "None" /\ sessions'[g].pages = {}
        /\ sessions'[g].stage = "Target" /\ ~sessions'[g].complete
    BY <2>1, <2>2, <1>0, <1>0b DEF SessionStates, SessionShaped
  <2>4. HeldBy(g) = sessions[g].pages /\ HeldBy(g)' = {}
    BY <2>1, <2>3, <1>0 DEF HeldBy, SessionShaped
  <2>5. OthersKept(g) /\ ActiveAmong(ledger', "Session", {g}) = {}
    <3>1. sessions[g].pages \in SUBSET HeldBy(g) /\ HeldBy(g) \ sessions[g].pages = {}
      BY <2>4
    <3>2. QED
      BY <2>1, <3>1, MarkOwn
  <2>6. SessionShaped(g)'
    BY <2>1, <2>3, <1>0 DEF SessionShaped, Working
  <2>7. QED
    BY <2>1, <2>2, <2>4, <2>5, <2>6, HeldByStep, ShapedByStep
<1>9. CASE CompleteTarget(g)
  <2>1. /\ ledger' = ledger /\ candidates' = candidates /\ widget' = widget
        /\ sessions[g].admitted # "None" /\ sessions[g].stage = "Target"
    BY <1>9 DEF CompleteTarget
  <2>2. /\ sessions'[g] = [Served(g) EXCEPT !.complete = TRUE]
        /\ \A h \in Generations \ {g} : sessions'[h] = sessions[h]
    BY <1>9, <1>0 DEF CompleteTarget
  <2>3. /\ sessions'[g].waiting = NoToken /\ sessions'[g].admitted = "None"
        /\ sessions'[g].delivered = "None" /\ sessions'[g].pages = sessions[g].pages
        /\ sessions'[g].stage = "Target"
    BY <2>1, <2>2, <1>0, <1>0b DEF SessionStates, SessionShaped
  <2>4. HeldBy(g)' = HeldBy(g)
    BY <2>1, <2>3, <1>0 DEF HeldBy, SessionShaped
  <2>5. SessionShaped(g)'
    BY <2>1, <2>3, <1>0 DEF SessionShaped, Working
  <2>6. QED
    BY <2>1, <2>2, <2>4, <2>5, <1>a
<1>10. CASE FinishCandidate(g)
  <2> DEFINE request == [kind |-> "Candidate", gen |-> g, n |-> 0]
             free == FirstFree(ledger)
             token == Token(free, request)
             pages == sessions[g].pages
  <2>1. /\ ledger' = Promoted(ledger, request, pages) /\ HasRoom(ledger) /\ widget' = widget
        /\ sessions[g].stage = "Target"
        /\ sessions[g].admitted # "None" \/ sessions[g].complete
    BY <1>10 DEF FinishCandidate
  <2>2. /\ candidates'[g] = [place |-> "Session", token |-> token, pages |-> pages]
        /\ \A h \in Generations \ {g} : candidates'[h] = candidates[h]
    BY <1>10 DEF FinishCandidate, TypeOK
  <2>3. /\ sessions'[g] = [Served(g) EXCEPT !.stage = "Ready", !.complete = TRUE, !.pages = {}]
        /\ \A h \in Generations \ {g} : sessions'[h] = sessions[h]
    BY <1>10, <1>0 DEF FinishCandidate
  <2>4. /\ sessions'[g].waiting = NoToken /\ sessions'[g].admitted = "None"
        /\ sessions'[g].delivered = "None" /\ sessions'[g].pages = {}
        /\ sessions'[g].stage = "Ready"
    BY <2>1, <2>3, <1>0, <1>0b DEF SessionStates, SessionShaped
  <2>5. free \in 1..Slots /\ ledger[free].state = "Free"
    BY <2>1, FirstFreeIsFree
  <2>6. request.gen = g /\ request \in RequestStates /\ token # NoToken /\ token.slot = free
    BY <2>5, <1>0 DEF NoToken, Token, RequestStates
  <2> HIDE DEF request, free
  <2>7. ASSUME NEW owner, NEW gens PROVE token \notin ActiveAmong(ledger, owner, gens)
    BY <2>5, <2>6, ActiveMember DEF IsActive
  <2>8. ASSUME NEW owner, NEW gens
        PROVE  ActiveAmong(ledger', owner, gens) =
           (ActiveAmong(ledger, owner, gens) \ pages)
             \cup (IF owner = "Candidate"
                   THEN {t \in pages : \E from \in {"Session", "Candidate", "Widget"} :
                                         t \in ActiveAmong(ledger, from, gens)}
                        \cup (IF g \in gens THEN {token} ELSE {})
                   ELSE {})
    BY <1>0, <2>1, <2>6, PromotedActive DEF free
  <2>8a. ASSUME NEW owner, NEW gens, owner # "Candidate"
         PROVE  ActiveAmong(ledger', owner, gens) = ActiveAmong(ledger, owner, gens) \ pages
    BY <2>8, <2>8a
  <2> HIDE DEF token
  <2>9. /\ HeldBy(g) = pages /\ HeldBy(g)' = {}
        /\ CandidateHolds(g) = {} /\ CandidateHolds(g)' = pages \cup {token}
    <3>1. HeldBy(g) = pages /\ HeldBy(g)' = {}
      BY <2>1, <2>4, <1>0 DEF HeldBy, SessionShaped
    <3>2. candidates[g] = NoCandidate
      BY <2>1, <1>0 DEF SessionShaped, Working
    <3>3. QED
      BY <3>1, <3>2, <2>2, <2>6 DEF CandidateHolds, NoCandidate
  <2>10. pages = ActiveAmong(ledger, "Session", {g})
    BY <2>9 DEF Held
  <2>11. ASSUME NEW owner, NEW gens, {g} \cap gens = {}
         PROVE  ActiveAmong(ledger', owner, gens) = ActiveAmong(ledger, owner, gens)
    <3>1. ASSUME NEW from PROVE pages \cap ActiveAmong(ledger, from, gens) = {}
      BY <2>11, <2>10, ActiveApart
    <3>2. (IF g \in gens THEN {token} ELSE {}) = {}
      BY <2>11
    <3>3. {t \in pages : \E from \in {"Session", "Candidate", "Widget"} :
                           t \in ActiveAmong(ledger, from, gens)} = {}
      BY <3>1
    <3>4. ActiveAmong(ledger, owner, gens) \ pages = ActiveAmong(ledger, owner, gens)
      BY <3>1
    <3>5. CASE owner = "Candidate"
      <4>1. ActiveAmong(ledger', owner, gens) =
              (ActiveAmong(ledger, owner, gens) \ pages)
                \cup ({t \in pages : \E from \in {"Session", "Candidate", "Widget"} :
                                       t \in ActiveAmong(ledger, from, gens)}
                        \cup (IF g \in gens THEN {token} ELSE {}))
        BY <2>8, <3>5
      <4>2. QED
        BY <3>2, <3>3, <3>4, <4>1
    <3>6. CASE owner # "Candidate"
      BY <2>8a, <3>4, <3>6
    <3>7. QED
      BY <3>5, <3>6
  <2>12. ASSUME NEW h \in Generations
         PROVE  /\ ActiveAmong(ledger', "Session", {h}) = HeldBy(h)'
                /\ ActiveAmong(ledger', "Candidate", {h}) = CandidateHolds(h)'
    <3>1. CASE h = g
      <4>1. ActiveAmong(ledger', "Session", {g}) = {}
        <5>1. ActiveAmong(ledger', "Session", {g}) = ActiveAmong(ledger, "Session", {g}) \ pages
          BY <2>8a
        <5>2. QED
          BY <5>1, <2>10
      <4>2. ActiveAmong(ledger', "Candidate", {g}) = pages \cup {token}
        <5>1. ActiveAmong(ledger, "Candidate", {g}) = {}
          BY <2>9 DEF Held
        <5>2. QED
          BY <2>8, <2>10, <5>1
      <4>3. QED
        BY <3>1, <4>1, <4>2, <2>9
    <3>2. CASE h # g
      <4>1. HeldBy(h)' = HeldBy(h) /\ CandidateHolds(h)' = CandidateHolds(h)
        BY <3>2, <2>2, <2>3 DEF HeldBy, CandidateHolds
      <4>2. {g} \cap {h} = {}
        BY <3>2
      <4>3. QED
        BY <4>1, <4>2, <2>11 DEF Held
    <3>3. QED
      BY <3>1, <3>2
  <2>13. ActiveAmong(ledger', "Widget", Generations \cup {0}) = widget'.pages
    <3>1. pages \cap ActiveAmong(ledger, "Widget", Generations \cup {0}) = {}
      BY <2>10, ActiveApart
    <3>2. QED
      <4>1. ActiveAmong(ledger', "Widget", Generations \cup {0}) =
              ActiveAmong(ledger, "Widget", Generations \cup {0}) \ pages
        BY <2>8a
      <4>2. QED
        BY <3>1, <4>1, <2>1 DEF Held
  <2>14. SessionShaped(g)' /\ (candidates[g].token \notin candidates[g].pages)'
    <3>1. token \notin pages
      BY <2>7, <2>10
    <3>2. QED
      BY <3>1, <2>2, <2>4 DEF SessionShaped, Working
  <2>15. ASSUME NEW h \in Generations \ {g}
         PROVE  SessionShaped(h)' /\ (candidates[h].token \notin candidates[h].pages)'
    BY <2>2, <2>3 DEF Shaped, SessionShaped
  <2>16. (widget.life = "None" => widget.pages = {})'
    BY <2>1 DEF Shaped
  <2>17. QED
    BY <2>12, <2>13, <2>14, <2>15, <2>16 DEF Held, Shaped
<1>11. CASE Fail(g)
  BY <1>11, EndsHeld DEF Fail
<1>12. QED
  BY <1>1, <1>2, <1>3, <1>4, <1>5, <1>6, <1>7, <1>8, <1>9, <1>10, <1>11 DEF SessionStep

\* A step in which what is active stays, and so does what one session holds.
LEMMA ActiveStays ==
  ASSUME HeldInv, NEW g \in Generations,
         \A owner, gens : ActiveAmong(ledger', owner, gens) = ActiveAmong(ledger, owner, gens),
         HeldBy(g)' = HeldBy(g),
         \A h \in Generations \ {g} : sessions'[h] = sessions[h],
         candidates' = candidates, widget' = widget, SessionShaped(g)'
  PROVE  Shaped' /\ Held'
<1>1. OthersKept(g)
  BY DEF OthersKept
<1>2. QED
  BY <1>1, HeldByStep, ShapedByStep DEF HeldInv, Held

LEMMA BeginsHeld ==
  ASSUME HeldInv, NEW g \in Generations, NEW seed, Begins(g, seed),
         ledger' = ledger, candidates' = candidates, widget' = widget
  PROVE  Shaped' /\ Held'
<1>0. sessions \in [Generations -> SessionStates] /\ SessionShaped(g)
  BY DEF HeldInv, TypeOK, Shaped
<1>1. /\ sessions[g].stage = "None"
      /\ sessions'[g].stage = "Initializing" /\ sessions'[g].waiting = sessions[g].waiting
      /\ sessions'[g].delivered = sessions[g].delivered
      /\ sessions'[g].admitted = sessions[g].admitted
      /\ sessions'[g].complete = sessions[g].complete /\ sessions'[g].pages = sessions[g].pages
      /\ \A h \in Generations \ {g} : sessions'[h] = sessions[h]
  BY <1>0 DEF Begins, SessionStates
<1>2. SessionShaped(g)' /\ HeldBy(g)' = HeldBy(g)
  BY <1>0, <1>1 DEF SessionShaped, HeldBy, Working
<1>3. QED
  BY <1>1, <1>2, ActiveStays

LEMMA DeliverHeld ==
  ASSUME HeldInv, NEW through \in Generations, NEW token \in asked, NEW good \in BOOLEAN,
         Deliver(token, through, good)
  PROVE  Shaped' /\ Held'
<1> DEFINE marked == MarkDelivered(ledger, token.request)
           waits == /\ token.request.gen = through /\ ~Over(sessions[through].stage)
                    /\ sessions[through].waiting = token
<1>0. /\ ledger \in LedgerStates /\ sessions \in [Generations -> SessionStates]
      /\ SessionShaped(through) /\ token \in TokenStates
  BY DEF HeldInv, TypeOK, Shaped
<1>1. \A owner, gens : ActiveAmong(marked, owner, gens) = ActiveAmong(ledger, owner, gens)
  BY <1>0, MarkDeliveredActive
<1>2. marked \in LedgerStates
  BY <1>0, MarkDeliveredType DEF TokenStates
<1>3. candidates' = candidates /\ widget' = widget
  BY DEF Deliver
<1>4. ASSUME waits PROVE token # NoToken
  BY <1>4, ConstantsAssumption DEF NoToken, Token, NoRequest, Generations
<1>5. CASE /\ waits /\ sessions[through].delivered = "None" /\ sessions[through].admitted = "None"
           /\ sessions' = [sessions EXCEPT ![through].delivered = IF good THEN "Good" ELSE "Bad"]
           /\ ledger' = marked
  <2>1. /\ sessions'[through].delivered \in {"Good", "Bad"}
        /\ sessions'[through].waiting = token
        /\ sessions'[through].pages = sessions[through].pages
        /\ sessions'[through].stage = sessions[through].stage
        /\ sessions'[through].complete = sessions[through].complete
        /\ sessions'[through].admitted = "None"
        /\ \A h \in Generations \ {through} : sessions'[h] = sessions[h]
    BY <1>0, <1>5 DEF SessionStates
  <2>2. SessionShaped(through)' /\ HeldBy(through)' = HeldBy(through)
    BY <1>0, <1>3, <1>4, <1>5, <2>1 DEF SessionShaped, HeldBy
  <2>3. QED
    BY <1>1, <1>3, <1>5, <2>1, <2>2, ActiveStays
<1>6. CASE /\ waits /\ sessions' = [sessions EXCEPT ![through] = LocalOwnersReleased(through, "Failed")]
           /\ ledger' = MarkSession(marked, through)
  <2>1. /\ sessions'[through] = LocalOwnersReleased(through, "Failed")
        /\ \A h \in Generations \ {through} : sessions'[h] = sessions[h]
    BY <1>0, <1>6
  <2> HIDE DEF marked
  <2>2. ASSUME NEW owner, NEW gens
        PROVE  ActiveAmong(ledger', owner, gens) =
                 IF owner = "Session" THEN ActiveAmong(ledger, owner, gens \ {through})
                                      ELSE ActiveAmong(ledger, owner, gens)
    BY <1>1, <1>2, <1>6, MarkSessionActive
  <2>3. OthersKept(through)
    <3>1. ASSUME NEW h \in Generations \ {through}
          PROVE  ActiveAmong(ledger', "Session", {h}) = ActiveAmong(ledger, "Session", {h})
      <4>1. {h} \ {through} = {h}
        OBVIOUS
      <4>2. QED
        BY <2>2, <4>1
    <3>2. QED
      BY <2>2, <3>1 DEF OthersKept
  <2>4. ActiveAmong(ledger', "Session", {through}) = HeldBy(through)'
    <3>1. HeldBy(through)' = {}
      BY <2>1 DEF HeldBy, LocalOwnersReleased, Fresh
    <3>2. {through} \ {through} = {} /\ ActiveAmong(ledger, "Session", {}) = {}
      BY DEF ActiveAmong
    <3>3. QED
      BY <2>2, <3>1, <3>2
  <2>5. SessionShaped(through)'
    BY <2>1 DEF SessionShaped, LocalOwnersReleased, Fresh, Working
  <2>6. QED
    BY <1>3, <2>1, <2>3, <2>4, <2>5, HeldByStep, ShapedByStep DEF HeldInv
<1>7. CASE ledger' = marked /\ sessions' = sessions
  <2>1. HeldBy(through)' = HeldBy(through) /\ SessionShaped(through)'
    BY <1>0, <1>3, <1>7 DEF HeldBy, SessionShaped
  <2>2. QED
    BY <1>1, <1>3, <1>7, <2>1, ActiveStays
<1>8. QED
  BY <1>5, <1>6, <1>7 DEF Deliver

\* NoToken names no slot.
LEMMA NoTokenIdle ==
  ASSUME NEW l, NEW owner, NEW gens
  PROVE  NoToken \notin ActiveAmong(l, owner, gens)
BY ActiveMember, SlotsAssumption DEF IsActive, NoToken, Token

LEMMA CandidateDroppedHeld ==
  ASSUME HeldInv, NEW g \in Generations, candidates[g].place = "Host", CandidateDropped(g),
         sessions' = sessions, widget' = widget
  PROVE  Shaped' /\ Held'
<1> DEFINE own == candidates[g].pages \cup {candidates[g].token}
<1>0. ledger \in LedgerStates /\ SessionShaped(g)
  BY DEF HeldInv, TypeOK, Shaped
<1>1. /\ ledger' = MarkTokens(ledger, own)
      /\ candidates'[g] = [NoCandidate EXCEPT !.place = "Gone"]
      /\ \A h \in Generations \ {g} : candidates'[h] = candidates[h]
  BY DEF CandidateDropped, HeldInv, TypeOK
<1>2. own \ {NoToken} = ActiveAmong(ledger, "Candidate", {g})
  <2>1. ActiveAmong(ledger, "Candidate", {g}) =
          candidates[g].pages \cup ({candidates[g].token} \ {NoToken})
    BY DEF HeldInv, Held, CandidateHolds
  <2>2. NoToken \notin ActiveAmong(ledger, "Candidate", {g})
    BY NoTokenIdle
  <2>3. QED
    BY <2>1, <2>2
<1> HIDE DEF own
<1>3. ASSUME NEW owner, NEW gens
      PROVE  ActiveAmong(ledger', owner, gens) = ActiveAmong(ledger, owner, gens) \ own
  BY <1>0, <1>1, MarkTokensActive
<1>4. ASSUME NEW owner, NEW gens, owner # "Candidate" \/ {g} \cap gens = {}
      PROVE  ActiveAmong(ledger', owner, gens) = ActiveAmong(ledger, owner, gens)
  <2>1. ActiveAmong(ledger, "Candidate", {g}) \cap ActiveAmong(ledger, owner, gens) = {}
    BY <1>4, ActiveApart
  <2>2. ActiveAmong(ledger, owner, gens) \cap own = {}
    BY <1>2, <2>1, NoTokenIdle
  <2>3. QED
    BY <1>3, <2>2
<1>5. ASSUME NEW h \in Generations
      PROVE  /\ ActiveAmong(ledger', "Session", {h}) = HeldBy(h)'
             /\ ActiveAmong(ledger', "Candidate", {h}) = CandidateHolds(h)'
  <2>1. ActiveAmong(ledger', "Session", {h}) = HeldBy(h)'
    <3>1. HeldBy(h)' = HeldBy(h)
      BY DEF HeldBy
    <3>2. ActiveAmong(ledger', "Session", {h}) = ActiveAmong(ledger, "Session", {h})
      BY <1>4
    <3>3. QED
      BY <3>1, <3>2 DEF HeldInv, Held
  <2>2. CASE h = g
    <3>1. CandidateHolds(g)' = {}
      BY <1>1 DEF CandidateHolds, NoCandidate
    <3>2. ActiveAmong(ledger', "Candidate", {g}) = {}
      BY <1>2, <1>3
    <3>3. QED
      BY <2>1, <2>2, <3>1, <3>2
  <2>3. CASE h # g
    <3>1. CandidateHolds(h)' = CandidateHolds(h)
      BY <1>1, <2>3 DEF CandidateHolds
    <3>2. QED
      BY <1>4, <2>1, <2>3, <3>1 DEF HeldInv, Held
  <2>4. QED
    BY <2>2, <2>3
<1>6. ActiveAmong(ledger', "Widget", Generations \cup {0}) = widget'.pages
  BY <1>4 DEF HeldInv, Held
<1>7. Shaped'
  <2>1. SessionShaped(g)' /\ (candidates[g].token \notin candidates[g].pages)'
    BY <1>0, <1>1 DEF SessionShaped, NoCandidate
  <2>2. ASSUME NEW h \in Generations \ {g}
        PROVE  SessionShaped(h)' /\ (candidates[h].token \notin candidates[h].pages)'
    BY <1>1 DEF HeldInv, Shaped, SessionShaped
  <2>3. QED
    BY <2>1, <2>2 DEF HeldInv, Shaped
<1>8. QED
  BY <1>5, <1>6, <1>7 DEF Held

\* What the transfer of a candidate's custody to the widget leaves active.
LEMMA AdoptedHeld ==
  ASSUME HeldInv, NEW g \in Generations, candidates[g].place = "Host", Adopted(g),
         sessions' = sessions
  PROVE  LET l == Transferred(ledger, candidates[g].token, candidates[g].pages)
         IN /\ l \in LedgerStates
            /\ \A h \in Generations : /\ ActiveAmong(l, "Session", {h}) = HeldBy(h)'
                                      /\ ActiveAmong(l, "Candidate", {h}) = CandidateHolds(h)'
            /\ ActiveAmong(l, "Widget", Generations \cup {0}) = widget.pages \cup candidates[g].pages
            /\ widget.pages \cap candidates[g].pages = {}
            /\ \A h \in Generations : ActiveAmong(l, "Session", {h}) \cap widget.pages = {}
            /\ \A h \in Generations : ActiveAmong(l, "Candidate", {h}) \cap widget.pages = {}
            /\ \A h \in Generations : SessionShaped(h)' /\ (candidates[h].token \notin candidates[h].pages)'
<1> DEFINE token == candidates[g].token
           pages == candidates[g].pages
           l == Transferred(ledger, token, pages)
           all == Generations \cup {0}
<1>0. /\ ledger \in LedgerStates /\ SessionShaped(g) /\ token \in TokenStates
      /\ pages \in SUBSET TokenStates /\ token \notin pages
  BY DEF HeldInv, TypeOK, Shaped, CandidateStates
<1>1. Tracks(ledger, token) /\ token = Token(token.slot, token.request)
  BY <1>0 DEF Adopted, Transferable, TokenStates, Token
<1>2. /\ candidates'[g] = [NoCandidate EXCEPT !.place = "Adopted"]
      /\ \A h \in Generations \ {g} : candidates'[h] = candidates[h]
  BY DEF Adopted, HeldInv, TypeOK
<1>3. l \in LedgerStates
  BY <1>0, TransferredType
<1>4. token # NoToken /\ pages \cup {token} = ActiveAmong(ledger, "Candidate", {g})
  <2>1. token # NoToken
    BY <1>1, SlotsAssumption DEF Tracks, NoToken, Token
  <2>2. QED
    BY <2>1 DEF HeldInv, Held, CandidateHolds
<1>5. ASSUME NEW owner, NEW gens
      PROVE  ActiveAmong(l, owner, gens) =
           (ActiveAmong(ledger, owner, gens) \ (pages \cup {token}))
             \cup (IF owner = "Widget"
                   THEN {t \in pages \ {token} : \E from \in {"Session", "Candidate", "Widget"} :
                                                    t \in ActiveAmong(ledger, from, gens)}
                   ELSE {})
  BY <1>0, <1>1, TransferredActive
<1> HIDE DEF l, token, pages
<1>6. ASSUME NEW owner, NEW gens, owner # "Widget"
      PROVE  ActiveAmong(l, owner, gens) = ActiveAmong(ledger, owner, gens) \ (pages \cup {token})
  BY <1>5, <1>6
<1>7. ASSUME NEW owner, NEW gens, owner # "Candidate" \/ {g} \cap gens = {}
      PROVE  ActiveAmong(ledger, owner, gens) \cap (pages \cup {token}) = {}
  BY <1>4, <1>7, ActiveApart
<1>8. ASSUME NEW h \in Generations
      PROVE  /\ ActiveAmong(l, "Session", {h}) = HeldBy(h)'
             /\ ActiveAmong(l, "Session", {h}) = ActiveAmong(ledger, "Session", {h})
  <2>1. ActiveAmong(l, "Session", {h}) = ActiveAmong(ledger, "Session", {h})
    <3>1. ActiveAmong(ledger, "Session", {h}) \cap (pages \cup {token}) = {}
      BY <1>7
    <3>2. ActiveAmong(l, "Session", {h}) = ActiveAmong(ledger, "Session", {h}) \ (pages \cup {token})
      BY <1>6
    <3>3. QED
      BY <3>1, <3>2
  <2>2. QED
    BY <2>1 DEF HeldInv, Held, HeldBy
<1>9. ASSUME NEW h \in Generations
      PROVE  /\ ActiveAmong(l, "Candidate", {h}) = CandidateHolds(h)'
             /\ ActiveAmong(l, "Candidate", {h}) \subseteq ActiveAmong(ledger, "Candidate", {h})
  <2>1. ActiveAmong(l, "Candidate", {h}) = ActiveAmong(ledger, "Candidate", {h}) \ (pages \cup {token})
    BY <1>6
  <2>2. CASE h = g
    <3>1. CandidateHolds(g)' = {}
      BY <1>2 DEF CandidateHolds, NoCandidate
    <3>2. QED
      BY <1>4, <2>1, <2>2, <3>1
  <2>3. CASE h # g
    <3>1. CandidateHolds(h)' = CandidateHolds(h)
      BY <1>2, <2>3 DEF CandidateHolds
    <3>2. ActiveAmong(ledger, "Candidate", {h}) \cap (pages \cup {token}) = {}
      BY <1>7, <2>3
    <3>3. QED
      BY <2>1, <3>1, <3>2 DEF HeldInv, Held
  <2>4. QED
    BY <2>2, <2>3
<1>10. ActiveAmong(ledger, "Widget", all) = widget.pages
  BY DEF HeldInv, Held
<1>11. widget.pages \cap (pages \cup {token}) = {}
  BY <1>7, <1>10
<1>12. ActiveAmong(l, "Widget", all) = widget.pages \cup pages
  <2>1. ASSUME NEW t \in pages PROVE t \in ActiveAmong(ledger, "Candidate", all) /\ t # token
    BY <1>0, <1>4, ActiveMember DEF IsActive, token, pages
  <2>2. {t \in pages \ {token} : \E from \in {"Session", "Candidate", "Widget"} :
                                    t \in ActiveAmong(ledger, from, all)} = pages
    BY <2>1
  <2>3. ActiveAmong(l, "Widget", all) = (ActiveAmong(ledger, "Widget", all) \ (pages \cup {token})) \cup
          {t \in pages \ {token} : \E from \in {"Session", "Candidate", "Widget"} :
                                    t \in ActiveAmong(ledger, from, all)}
    BY <1>5
  <2>4. QED
    BY <1>10, <1>11, <2>2, <2>3
<1>13. ASSUME NEW h \in Generations
       PROVE  /\ ActiveAmong(l, "Session", {h}) \cap widget.pages = {}
              /\ ActiveAmong(l, "Candidate", {h}) \cap widget.pages = {}
  <2>1. /\ ActiveAmong(ledger, "Session", {h}) \cap ActiveAmong(ledger, "Widget", all) = {}
        /\ ActiveAmong(ledger, "Candidate", {h}) \cap ActiveAmong(ledger, "Widget", all) = {}
    BY ActiveApart
  <2>2. QED
    BY <2>1, <1>8, <1>9, <1>10
<1>14. ASSUME NEW h \in Generations
       PROVE  SessionShaped(h)' /\ (candidates[h].token \notin candidates[h].pages)'
  <2>1. CASE h = g
    BY <2>1, <1>0, <1>2 DEF SessionShaped, NoCandidate
  <2>2. CASE h # g
    BY <2>2, <1>2 DEF HeldInv, Shaped, SessionShaped
  <2>3. QED
    BY <2>1, <2>2
<1>15. QED
  BY <1>3, <1>8, <1>9, <1>11, <1>12, <1>13, <1>14 DEF l, token, pages

LEMMA HostStepHeld ==
  ASSUME HeldInv, NEW g \in Generations, HostStep(g)
  PROVE  Shaped' /\ Held'
<1>0. SessionShaped(g) /\ sessions \in [Generations -> SessionStates]
  BY DEF HeldInv, TypeOK, Shaped
<1>1. ASSUME NEW seed \in Seeds, New(g, seed)
      PROVE  Shaped' /\ Held'
  BY <1>1, BeginsHeld DEF New
<1>2. ASSUME NEW seed \in Seeds, NEW mode, PrepareSuccessor(g, seed, mode)
      PROVE  Shaped' /\ Held'
  BY <1>2, BeginsHeld DEF PrepareSuccessor
<1>3. ASSUME NEW token \in asked, NEW good \in BOOLEAN, Deliver(token, g, good)
      PROVE  Shaped' /\ Held'
  BY <1>3, DeliverHeld
<1>4. CASE Cancel(g)
  BY <1>4, EndsHeld DEF Cancel
<1>5. CASE Drop(g)
  BY <1>5, EndsHeld DEF Drop
<1>6. CASE TakeCandidate(g)
  <2>1. /\ sessions[g].stage = "Ready" /\ candidates[g].place = "Session"
        /\ ledger' = ledger /\ widget' = widget
    BY <1>6 DEF TakeCandidate
  <2>2. /\ sessions'[g].stage = "CandidateTaken" /\ sessions'[g].waiting = sessions[g].waiting
        /\ sessions'[g].delivered = sessions[g].delivered
        /\ sessions'[g].admitted = sessions[g].admitted
        /\ sessions'[g].complete = sessions[g].complete /\ sessions'[g].pages = sessions[g].pages
        /\ \A h \in Generations \ {g} : sessions'[h] = sessions[h]
    BY <1>0, <1>6 DEF TakeCandidate, SessionStates
  <2>3. /\ candidates'[g].token = candidates[g].token /\ candidates'[g].pages = candidates[g].pages
        /\ \A h \in Generations \ {g} : candidates'[h] = candidates[h]
    BY <1>6 DEF TakeCandidate, HeldInv, TypeOK, CandidateStates
  <2>4. ASSUME NEW h \in Generations
        PROVE  HeldBy(h)' = HeldBy(h) /\ CandidateHolds(h)' = CandidateHolds(h)
    BY <2>2, <2>3 DEF HeldBy, CandidateHolds
  <2>5. SessionShaped(g)'
    BY <1>0, <2>1, <2>2 DEF SessionShaped, Working
  <2>6. ASSUME NEW h \in Generations \ {g} PROVE SessionShaped(h)'
    BY <2>2, <2>3 DEF HeldInv, Shaped, SessionShaped
  <2>7. ASSUME NEW h \in Generations PROVE (candidates[h].token \notin candidates[h].pages)'
    BY <2>3 DEF HeldInv, Shaped
  <2>8. Shaped'
    BY <2>1, <2>5, <2>6, <2>7 DEF HeldInv, Shaped
  <2>9. Held'
    BY <2>1, <2>4 DEF HeldInv, Held
  <2>10. QED
    BY <2>8, <2>9
<1>7. CASE DropCandidate(g)
  BY <1>7, CandidateDroppedHeld DEF DropCandidate
<1>8. ASSUME NEW r \in Generations, RefuseAdoption(r, g)
      PROVE  Shaped' /\ Held'
  BY <1>8, CandidateDroppedHeld DEF RefuseAdoption
<1> DEFINE l == Transferred(ledger, candidates[g].token, candidates[g].pages)
<1>9. CASE AdoptFresh(g)
  <2>1. /\ candidates[g].place = "Host" /\ Adopted(g) /\ sessions' = sessions
        /\ ledger' = l /\ widget.life = "None"
    BY <1>9 DEF AdoptFresh
  <2>2. widget'.pages = candidates[g].pages /\ widget'.life = "Mounted"
    BY <1>9 DEF AdoptFresh, HeldInv, TypeOK, WidgetStates
  <2>3. widget.pages = {}
    BY <2>1 DEF HeldInv, Shaped
  <2>4. /\ \A h \in Generations : /\ ActiveAmong(l, "Session", {h}) = HeldBy(h)'
                                  /\ ActiveAmong(l, "Candidate", {h}) = CandidateHolds(h)'
        /\ ActiveAmong(l, "Widget", Generations \cup {0}) = widget.pages \cup candidates[g].pages
        /\ \A h \in Generations : SessionShaped(h)' /\ (candidates[h].token \notin candidates[h].pages)'
    BY <2>1, AdoptedHeld
  <2> HIDE DEF l
  <2>5. Held'
    BY <2>1, <2>2, <2>3, <2>4 DEF Held
  <2>6. QED
    BY <2>2, <2>4, <2>5 DEF Shaped
<1>10. ASSUME NEW r \in Generations, NEW protects \in BOOLEAN, AdoptResident(r, g, protects)
       PROVE  Shaped' /\ Held'
  <2>1. /\ candidates[g].place = "Host" /\ Adopted(g) /\ sessions' = sessions
        /\ ledger' = MarkTokens(l, widget.pages) /\ widget.life = "Mounted"
    BY <1>10 DEF AdoptResident, WidgetReleased, ProtectionIsCurrent
  <2>2. widget'.pages = candidates[g].pages /\ widget'.life = "Mounted"
    BY <1>10, <2>1 DEF AdoptResident, HeldInv, TypeOK, WidgetStates
  <2>3. /\ l \in LedgerStates
        /\ \A h \in Generations : /\ ActiveAmong(l, "Session", {h}) = HeldBy(h)'
                                  /\ ActiveAmong(l, "Candidate", {h}) = CandidateHolds(h)'
        /\ ActiveAmong(l, "Widget", Generations \cup {0}) = widget.pages \cup candidates[g].pages
        /\ widget.pages \cap candidates[g].pages = {}
        /\ \A h \in Generations : ActiveAmong(l, "Session", {h}) \cap widget.pages = {}
        /\ \A h \in Generations : ActiveAmong(l, "Candidate", {h}) \cap widget.pages = {}
        /\ \A h \in Generations : SessionShaped(h)' /\ (candidates[h].token \notin candidates[h].pages)'
    BY <2>1, AdoptedHeld
  <2> HIDE DEF l
  <2>4. ASSUME NEW owner, NEW gens
        PROVE  ActiveAmong(ledger', owner, gens) = ActiveAmong(l, owner, gens) \ widget.pages
    BY <2>1, <2>3, MarkTokensActive
  <2>5. ASSUME NEW h \in Generations
        PROVE  /\ ActiveAmong(ledger', "Session", {h}) = HeldBy(h)'
               /\ ActiveAmong(ledger', "Candidate", {h}) = CandidateHolds(h)'
    <3>1. /\ ActiveAmong(ledger', "Session", {h}) = ActiveAmong(l, "Session", {h}) \ widget.pages
          /\ ActiveAmong(ledger', "Candidate", {h}) = ActiveAmong(l, "Candidate", {h}) \ widget.pages
      BY <2>4
    <3>2. /\ ActiveAmong(l, "Session", {h}) \cap widget.pages = {}
          /\ ActiveAmong(l, "Candidate", {h}) \cap widget.pages = {}
      BY <2>3
    <3>3. /\ ActiveAmong(ledger', "Session", {h}) = ActiveAmong(l, "Session", {h})
          /\ ActiveAmong(ledger', "Candidate", {h}) = ActiveAmong(l, "Candidate", {h})
      BY <3>1, <3>2
    <3>4. QED
      BY <2>3, <3>3
  <2>6. ActiveAmong(ledger', "Widget", Generations \cup {0}) = widget'.pages
    <3>1. ActiveAmong(ledger', "Widget", Generations \cup {0}) =
            (widget.pages \cup candidates[g].pages) \ widget.pages
      <4>1. ActiveAmong(ledger', "Widget", Generations \cup {0}) =
              ActiveAmong(l, "Widget", Generations \cup {0}) \ widget.pages
        BY <2>4
      <4>2. QED
        BY <2>3, <4>1
    <3>2. QED
      BY <2>2, <2>3, <3>1
  <2>7. QED
    BY <2>2, <2>3, <2>5, <2>6 DEF Held, Shaped
<1>11. QED
  BY <1>1, <1>2, <1>3, <1>4, <1>5, <1>6, <1>7, <1>8, <1>9, <1>10 DEF HostStep

\* A step of the widget that gives its pages back.
LEMMA ReleasedHeld ==
  ASSUME HeldInv, PagesReleased, widget'.pages = {}, sessions' = sessions,
         candidates' = candidates
  PROVE  Shaped' /\ Held'
<1>1. ASSUME NEW owner, NEW gens
      PROVE  ActiveAmong(ledger', owner, gens) = ActiveAmong(ledger, owner, gens) \ widget.pages
  BY MarkTokensActive DEF HeldInv, TypeOK, PagesReleased, WidgetReleased
<1>2. widget.pages = ActiveAmong(ledger, "Widget", Generations \cup {0})
  BY DEF HeldInv, Held
<1>3. ASSUME NEW owner, NEW gens, owner # "Widget"
      PROVE  ActiveAmong(ledger', owner, gens) = ActiveAmong(ledger, owner, gens)
  <2>1. ActiveAmong(ledger, "Widget", Generations \cup {0}) \cap ActiveAmong(ledger, owner, gens) = {}
    BY <1>3, ActiveApart
  <2>2. QED
    BY <1>1, <1>2, <2>1
<1>4. ASSUME NEW h \in Generations
      PROVE  HeldBy(h)' = HeldBy(h) /\ CandidateHolds(h)' = CandidateHolds(h)
  BY DEF HeldBy, CandidateHolds
<1>5. ASSUME NEW h \in Generations
      PROVE  SessionShaped(h)' /\ (candidates[h].token \notin candidates[h].pages)'
  BY DEF HeldInv, Shaped, SessionShaped
<1>6. ActiveAmong(ledger', "Widget", Generations \cup {0}) = widget'.pages
  BY <1>1, <1>2
<1>7. Held'
  BY <1>3, <1>4, <1>6 DEF HeldInv, Held
<1>8. QED
  BY <1>5, <1>7 DEF Shaped

\* A step that leaves the sessions, the candidates and what is active alone.
LEMMA UntouchedHeld ==
  ASSUME HeldInv, sessions' = sessions, candidates' = candidates,
         widget'.pages = widget.pages, widget'.life = widget.life,
         \A owner, gens : ActiveAmong(ledger', owner, gens) = ActiveAmong(ledger, owner, gens)
  PROVE  Shaped' /\ Held'
<1>1. ASSUME NEW h \in Generations
      PROVE  HeldBy(h)' = HeldBy(h) /\ CandidateHolds(h)' = CandidateHolds(h)
  BY DEF HeldBy, CandidateHolds
<1>2. ASSUME NEW h \in Generations
      PROVE  SessionShaped(h)' /\ (candidates[h].token \notin candidates[h].pages)'
  BY DEF HeldInv, Shaped, SessionShaped
<1>3. Held'
  BY <1>1 DEF HeldInv, Held
<1>4. QED
  BY <1>2, <1>3 DEF HeldInv, Shaped

LEMMA WidgetStepHeld ==
  ASSUME HeldInv, WidgetStep
  PROVE  Shaped' /\ Held'
<1>0. widget \in WidgetStates
  BY DEF HeldInv, TypeOK
<1>a. ASSUME UNCHANGED work, widget'.pages = widget.pages, widget'.life = widget.life
      PROVE  Shaped' /\ Held'
  <2>1. ledger' = ledger /\ sessions' = sessions /\ candidates' = candidates
    BY <1>a DEF work
  <2>2. QED
    BY <1>a, <2>1, UntouchedHeld
<1>1. ASSUME NEW ofPublished \in BOOLEAN, Protect(ofPublished)
      PROVE  Shaped' /\ Held'
  BY <1>0, <1>1, <1>a DEF Protect, WidgetStates
<1>2. CASE ReleaseProtection
  BY <1>0, <1>2, <1>a DEF ReleaseProtection, WidgetStates
<1>3. CASE SetEnabled
  BY <1>0, <1>3, <1>a DEF SetEnabled, WidgetStates
<1>4. CASE EnvironmentChange
  BY <1>0, <1>4, <1>a DEF EnvironmentChange, WidgetStates
<1>5. CASE Rebind
  BY <1>0, <1>5, <1>a DEF Rebind, WidgetStates
<1>6. ASSUME NEW position \in Positions, Publish(position)
      PROVE  Shaped' /\ Held'
  BY <1>0, <1>6, ReleasedHeld DEF Publish, WidgetStates
<1>7. CASE ImportRestoration
  BY <1>0, <1>7, ReleasedHeld DEF ImportRestoration, WidgetStates
<1>8. CASE Dispose
  BY <1>0, <1>8, ReleasedHeld DEF Dispose, WidgetStates
<1>9. ASSUME NEW source \in Sources, PublishSource(source)
      PROVE  Shaped' /\ Held'
  BY <1>9, <1>a DEF PublishSource
<1>10. QED
  BY <1>1, <1>2, <1>3, <1>4, <1>5, <1>6, <1>7, <1>8, <1>9 DEF WidgetStep

LEMMA HeldKept == HeldInv /\ [Next]_vars => Shaped' /\ Held'
<1> SUFFICES ASSUME HeldInv, [Next]_vars PROVE Shaped' /\ Held'
  OBVIOUS
<1>1. ASSUME NEW g \in Generations, SessionStep(g) \/ HostStep(g)
      PROVE  Shaped' /\ Held'
  BY <1>1, SessionStepHeld, HostStepHeld
<1>2. CASE WidgetStep
  BY <1>2, WidgetStepHeld
<1>3. CASE Drain
  <2>1. PICK slot \in 1..Slots : FirstReady(ledger, slot) /\ ledger' = HandedOut(ledger, slot)
    BY <1>3 DEF Drain
  <2>2. ASSUME NEW owner, NEW gens
        PROVE  ActiveAmong(ledger', owner, gens) = ActiveAmong(ledger, owner, gens)
    BY <2>1, HandedOutActive DEF FirstReady, HeldInv, TypeOK
  <2>3. QED
    BY <1>3, <2>2, UntouchedHeld DEF Drain
<1>4. ASSUME NEW token \in Tokens, Acknowledge(token)
      PROVE  Shaped' /\ Held'
  <2>1. /\ token.slot \in 1..Slots /\ ledger[token.slot].state = "Draining"
        /\ ledger' = Acknowledged(ledger, token.slot)
    BY <1>4 DEF Acknowledge, Tracks
  <2>2. ASSUME NEW owner, NEW gens
        PROVE  ActiveAmong(ledger', owner, gens) = ActiveAmong(ledger, owner, gens)
    BY <2>1, AcknowledgedActive DEF HeldInv, TypeOK
  <2>3. QED
    BY <1>4, <2>2, UntouchedHeld DEF Acknowledge
<1>5. CASE UNCHANGED vars
  BY <1>5, UntouchedHeld DEF vars, work
<1>6. QED
  BY <1>1, <1>2, <1>3, <1>4, <1>5 DEF Next

\* What the ledger calls active is held, by the owner it names, and what anyone holds is
\* active: the custody of every page and candidate, in every step of sessions, candidates,
\* widget and host (cleanup.rs, prepublication/session.rs, adoption.rs).
THEOREM HeldExactlyHolds == Spec => []HeldExactly
<1>1. Init => HeldInv
  BY InitTyped, InitHeld DEF HeldInv
<1>2. HeldInv /\ [Next]_vars => HeldInv'
  BY NextTyped, HeldKept DEF HeldInv
<1>3. HeldInv => HeldExactly
  BY HeldIsHeldExactly DEF HeldInv
<1>4. QED
  BY <1>1, <1>2, <1>3, PTL DEF Spec

-----------------------------------------------------------------------------
(* What the host is told.                                                      *)

\* How far a record is settled: what was asked is recorded with the owner that asked; a
\* record that is active was told of to nobody, one that waits is to be cancelled if it was
\* not answered and released if it was, and one that was told knows if an answer came since.
RecordSettles(record, token, as, an, to) ==
  record.state # "Free" =>
  /\ IF record.request.kind = "Candidate" THEN record.owner # "Session" ELSE token \in as
  /\ record.owner # "Session" => record.delivered
  /\ record.state = "Active" =>
       /\ <<token, "Cancel">> \notin to /\ <<token, "Release">> \notin to
       /\ record.request.kind # "Candidate" => (record.delivered <=> token \in an)
  /\ record.state = "Ready" =>
       /\ record.effect \in {"Cancel", "Release"} /\ <<token, "Release">> \notin to
       /\ record.effect = "Cancel" => record.owner = "Session" /\ <<token, "Cancel">> \notin to
       /\ record.request.kind # "Candidate" => (record.effect = "Release" <=> token \in an)
  /\ record.state = "Draining" =>
       /\ record.effect \in {"Cancel", "Release"} /\ <<token, record.effect>> \in to
       /\ record.effect = "Cancel" =>
            /\ record.owner = "Session" /\ <<token, "Release">> \notin to
            /\ record.followup <=> token \in an
       /\ record.effect = "Release" =>
            /\ ~record.followup
            /\ record.request.kind # "Candidate" => token \in an

Settles(l, as, an, to) ==
  \A s \in 1..Slots : RecordSettles(l[s], Token(s, l[s].request), as, an, to)

\* Nothing that is recorded is forgotten, and nothing that waits is handed out.
Kept(l, m) ==
  \A s \in 1..Slots : l[s].state # "Free" =>
    /\ m[s].state # "Free" /\ m[s].request = l[s].request
    /\ l[s].state = "Ready" => m[s].state # "Draining"

ToldTracked(l, to) == \A e \in to : Tracks(l, e[1]) /\ e[2] \in {"Cancel", "Release"}

LEMMA MarkedSettles ==
  ASSUME NEW record \in RecordStates, NEW token, NEW as, NEW an, NEW to,
         RecordSettles(record, token, as, an, to)
  PROVE  RecordSettles(MarkedReady(record), token, as, an, to)
<1> DEFINE marked == MarkedReady(record)
<1>1. CASE record.state = "Active"
  <2>1. /\ marked.state = "Ready" /\ marked.request = record.request /\ marked.owner = record.owner
        /\ marked.delivered = record.delivered
        /\ marked.effect = IF record.delivered THEN "Release" ELSE "Cancel"
    BY <1>1 DEF MarkedReady, RecordStates
  <2>2. CASE record.delivered
    BY <1>1, <2>1, <2>2 DEF RecordSettles, RecordStates
  <2>3. CASE ~record.delivered
    BY <1>1, <2>1, <2>3 DEF RecordSettles, RecordStates
  <2>4. QED
    BY <2>2, <2>3
<1>2. CASE record.state # "Active"
  BY <1>2 DEF MarkedReady
<1>3. QED
  BY <1>1, <1>2

LEMMA MarkedRecord ==
  ASSUME NEW record \in RecordStates
  PROVE  /\ MarkedReady(record).request = record.request
         /\ record.state # "Free" => MarkedReady(record).state # "Free"
         /\ record.state = "Ready" => MarkedReady(record).state # "Draining"
BY DEF MarkedReady, RecordStates

LEMMA MarkTokensSettles ==
  ASSUME NEW l \in LedgerStates, NEW tokens, NEW as, NEW an, NEW to, Settles(l, as, an, to)
  PROVE  Settles(MarkTokens(l, tokens), as, an, to) /\ Kept(l, MarkTokens(l, tokens))
<1> DEFINE m == MarkTokens(l, tokens)
<1>1. ASSUME NEW s \in 1..Slots
      PROVE  (m[s] = l[s] \/ m[s] = MarkedReady(l[s])) /\ l[s] \in RecordStates
  BY DEF MarkTokens, LedgerStates
<1> HIDE DEF m
<1>2. ASSUME NEW s \in 1..Slots
      PROVE  /\ RecordSettles(m[s], Token(s, m[s].request), as, an, to)
             /\ l[s].state # "Free" =>
                  /\ m[s].state # "Free" /\ m[s].request = l[s].request
                  /\ l[s].state = "Ready" => m[s].state # "Draining"
  <2>1. CASE m[s] = l[s]
    BY <2>1 DEF Settles
  <2>2. CASE m[s] = MarkedReady(l[s])
    BY <1>1, <2>2, MarkedSettles, MarkedRecord DEF Settles
  <2>3. QED
    BY <1>1, <2>1, <2>2
<1>3. QED
  BY <1>2 DEF Settles, Kept, m

LEMMA MarkSessionSettles ==
  ASSUME NEW l \in LedgerStates, NEW gen, NEW as, NEW an, NEW to, Settles(l, as, an, to)
  PROVE  Settles(MarkSession(l, gen), as, an, to) /\ Kept(l, MarkSession(l, gen))
<1> DEFINE m == MarkSession(l, gen)
<1>1. ASSUME NEW s \in 1..Slots
      PROVE  (m[s] = l[s] \/ m[s] = MarkedReady(l[s])) /\ l[s] \in RecordStates
  BY DEF MarkSession, LedgerStates
<1> HIDE DEF m
<1>2. ASSUME NEW s \in 1..Slots
      PROVE  /\ RecordSettles(m[s], Token(s, m[s].request), as, an, to)
             /\ l[s].state # "Free" =>
                  /\ m[s].state # "Free" /\ m[s].request = l[s].request
                  /\ l[s].state = "Ready" => m[s].state # "Draining"
  <2>1. CASE m[s] = l[s]
    BY <2>1 DEF Settles
  <2>2. CASE m[s] = MarkedReady(l[s])
    BY <1>1, <2>2, MarkedSettles, MarkedRecord DEF Settles
  <2>3. QED
    BY <1>1, <2>1, <2>2
<1>3. QED
  BY <1>2 DEF Settles, Kept, m

LEMMA KeptTwice ==
  ASSUME NEW l, NEW m, NEW n, Kept(l, m), Kept(m, n),
         \A s \in 1..Slots : l[s].state = "Ready" => m[s].state = "Ready"
  PROVE  Kept(l, n)
BY DEF Kept

LEMMA KeptTracks ==
  ASSUME NEW l, NEW m, Kept(l, m), NEW token, Tracks(l, token)
  PROVE  Tracks(m, token)
BY DEF Kept, Tracks

LEMMA BoundSettles ==
  ASSUME NEW l \in LedgerStates, HasRoom(l), NEW request, request.kind # "Candidate",
         NEW as, NEW an, NEW to, Settles(l, as, an, to), ToldTracked(l, to),
         Token(FirstFree(l), request) \notin an
  PROVE  /\ Settles(Bound(l, request), as \cup {Token(FirstFree(l), request)}, an, to)
         /\ Kept(l, Bound(l, request))
<1> DEFINE m == Bound(l, request)
           free == FirstFree(l)
<1>0. free \in 1..Slots /\ l[free].state = "Free"
  BY FirstFreeIsFree
<1> HIDE DEF free
<1>1. /\ m[free].state = "Active" /\ m[free].owner = "Session" /\ m[free].request = request
      /\ m[free].delivered = FALSE
      /\ \A s \in 1..Slots : s # free => m[s] = l[s]
  BY <1>0 DEF Bound, FreeSlot, LedgerStates, free
<1> HIDE DEF m
<1>2. ASSUME NEW effect PROVE <<Token(free, request), effect>> \notin to
  BY <1>0 DEF ToldTracked, Tracks, Token
<1>3. RecordSettles(m[free], Token(free, m[free].request), as \cup {Token(free, request)}, an, to)
  BY <1>1, <1>2 DEF RecordSettles, free
<1>4. ASSUME NEW s \in 1..Slots, s # free
      PROVE  RecordSettles(m[s], Token(s, m[s].request), as \cup {Token(free, request)}, an, to)
  BY <1>1, <1>4, ZenonT(60) DEF RecordSettles, Settles
<1>5. Settles(m, as \cup {Token(free, request)}, an, to)
  BY <1>3, <1>4 DEF Settles
<1>6. Kept(l, m)
  BY <1>0, <1>1 DEF Kept
<1>7. QED
  BY <1>5, <1>6 DEF m, free

\* An answer is recorded where its request is, and nowhere else.
LEMMA DeliveredSettles ==
  ASSUME NEW l \in LedgerStates, NEW token \in TokenStates, NEW as, NEW an, NEW to,
         Settles(l, as, an, to), token \in as, token.request.kind # "Candidate",
         \A t, u \in as : t.request = u.request => t = u
  PROVE  /\ Settles(MarkDelivered(l, token.request), as,
                    IF Tracks(l, token) THEN an \cup {token} ELSE an, to)
         /\ Kept(l, MarkDelivered(l, token.request))
         /\ \A s \in 1..Slots : l[s].state = "Ready" => MarkDelivered(l, token.request)[s].state = "Ready"
<1> DEFINE m == MarkDelivered(l, token.request)
           an1 == IF Tracks(l, token) THEN an \cup {token} ELSE an
<1>0. token = Token(token.slot, token.request)
  BY DEF TokenStates, Token
<1>1. ASSUME NEW s \in 1..Slots
      PROVE  /\ l[s] \in RecordStates
             /\ m[s].request = l[s].request /\ m[s].state = l[s].state /\ m[s].owner = l[s].owner
             /\ m[s] = IF OfSession(l[s], token.request.gen) /\ l[s].request = token.request
                       THEN Answered(l[s]) ELSE l[s]
  BY DEF MarkDelivered, Answered, LedgerStates, RecordStates
<1> HIDE DEF m
<1>2. ASSUME NEW s \in 1..Slots, l[s].state # "Free", Token(s, l[s].request) # token
      PROVE  RecordSettles(m[s], Token(s, m[s].request), as, an1, to)
  <2>1. l[s].request # token.request
    <3>1. CASE l[s].request.kind = "Candidate"
      BY <3>1
    <3>2. CASE l[s].request.kind # "Candidate"
      <4>1. Token(s, l[s].request) \in as
        BY <1>2, <3>2 DEF Settles, RecordSettles
      <4>2. Token(s, l[s].request).request = l[s].request
        BY DEF Token
      <4>3. QED
        BY <1>2, <4>1, <4>2
    <3>3. QED
      BY <3>1, <3>2
  <2>2. m[s] = l[s]
    BY <1>1, <2>1
  <2>3. Token(s, l[s].request) \in an1 <=> Token(s, l[s].request) \in an
    BY <1>2
  <2> HIDE DEF an1
  <2>4. QED
    BY <2>2, <2>3 DEF Settles, RecordSettles
<1>3. ASSUME NEW s \in 1..Slots, l[s].state # "Free", Token(s, l[s].request) = token
      PROVE  RecordSettles(m[s], Token(s, m[s].request), as, an1, to)
  <2>1. s = token.slot /\ l[s].request = token.request
    BY <1>0, <1>3 DEF Token
  <2>2. token \in an1
    BY <1>3, <2>1 DEF Tracks
  <2> HIDE DEF an1
  <2>3. RecordSettles(l[s], token, as, an, to)
    BY <1>3 DEF Settles
  <2>4. CASE l[s].owner = "Session"
    <3>1. m[s] = Answered(l[s])
      BY <1>1, <2>1, <2>4 DEF OfSession
    <3>2. /\ l[s].state = "Active" => m[s].delivered
          /\ l[s].state = "Ready" => m[s].effect = "Release"
          /\ l[s].state = "Draining" =>
               /\ m[s].effect = l[s].effect
               /\ m[s].followup <=> (l[s].followup \/ l[s].effect = "Cancel")
      BY <1>1, <3>1 DEF Answered, RecordStates
    <3>3. QED
      BY <1>1, <1>3, <2>1, <2>2, <2>3, <2>4, <3>2 DEF RecordSettles
  <2>5. CASE l[s].owner # "Session"
    <3>1. m[s] = l[s]
      BY <1>1, <2>5 DEF OfSession
    <3>2. QED
      BY <1>3, <2>1, <2>2, <2>3, <2>5, <3>1 DEF RecordSettles
  <2>6. QED
    BY <2>4, <2>5
<1>4. Settles(m, as, an1, to)
  BY <1>1, <1>2, <1>3, ZenonT(60) DEF Settles, RecordSettles
<1>5. Kept(l, m) /\ \A s \in 1..Slots : l[s].state = "Ready" => m[s].state = "Ready"
  BY <1>1 DEF Kept
<1>6. QED
  BY <1>4, <1>5 DEF m

LEMMA CompleteSettles ==
  ASSUME NEW l \in LedgerStates, NEW token, Tracks(l, token), l[token.slot].state = "Active",
         NEW as, NEW an, NEW to, Settles(l, as, an, to)
  PROVE  /\ Settles(Complete(l, token), as, an \ {token}, to)
         /\ Complete(l, token)[token.slot].state = "Free"
         /\ \A s \in 1..Slots : s # token.slot => Complete(l, token)[s] = l[s]
<1> DEFINE m == Complete(l, token)
<1>1. /\ m[token.slot].state = "Free"
      /\ \A s \in 1..Slots : s # token.slot => m[s] = l[s]
  BY DEF Complete, Tracks, FreeSlot, LedgerStates
<1> HIDE DEF m
<1>2. ASSUME NEW s \in 1..Slots, s # token.slot
      PROVE  RecordSettles(m[s], Token(s, m[s].request), as, an \ {token}, to)
  <2>1. Token(s, l[s].request) # token
    BY <1>2 DEF Token
  <2>2. QED
    BY <1>1, <1>2, <2>1 DEF Settles, RecordSettles
<1>3. Settles(m, as, an \ {token}, to)
  BY <1>1, <1>2 DEF Settles, RecordSettles
<1>4. QED
  BY <1>1, <1>3 DEF m

LEMMA CandidateSlotType ==
  ASSUME NEW request \in RequestStates
  PROVE  [FreeSlot EXCEPT !.state = "Active", !.request = request, !.delivered = TRUE] \in RecordStates
BY FreeSlotType DEF RecordStates

LEMMA PromotedSettles ==
  ASSUME NEW l \in LedgerStates, HasRoom(l), NEW request \in RequestStates,
         request.kind = "Candidate", NEW pages, NEW as, NEW an, NEW to,
         Settles(l, as, an, to), ToldTracked(l, to),
         \A t \in pages : /\ t \in an /\ t.request.kind # "Candidate"
                          /\ Tracks(l, t) /\ l[t.slot].state = "Active"
  PROVE  Settles(Promoted(l, request, pages), as, an, to) /\ Kept(l, Promoted(l, request, pages))
<1> DEFINE m == Promoted(l, request, pages)
           free == FirstFree(l)
           token == Token(free, request)
           bound == [l EXCEPT ![free] = [FreeSlot EXCEPT !.state = "Active", !.request = request,
                                                         !.delivered = TRUE]]
<1>0. free \in 1..Slots /\ l[free].state = "Free"
  BY FirstFreeIsFree
<1>1. m = GiveTo(bound, pages \cup {token}, "Candidate")
  BY DEF Promoted
<1> HIDE DEF free
<1>2. /\ bound[free] = [FreeSlot EXCEPT !.state = "Active", !.request = request, !.delivered = TRUE]
      /\ \A s \in 1..Slots : s # free => bound[s] = l[s]
  BY <1>0 DEF LedgerStates
<1> HIDE DEF bound
<1>3. /\ bound[free].state = "Active" /\ bound[free].request = request /\ bound[free].delivered
      /\ bound[free] \in RecordStates
  <2>1. bound[free] \in RecordStates
    BY <1>2, CandidateSlotType
  <2>2. /\ bound[free].state = "Active" /\ bound[free].request = request
        /\ bound[free].delivered = TRUE
    BY <1>2 DEF FreeSlot
  <2>3. QED
    BY <2>1, <2>2
<1> HIDE DEF m, token
<1>4. ASSUME NEW s \in 1..Slots
      PROVE  m[s] = IF Token(s, bound[s].request) \in pages \cup {token}
                    THEN [bound[s] EXCEPT !.owner = "Candidate"] ELSE bound[s]
  BY <1>1 DEF GiveTo
<1>5. /\ m[free].state = "Active" /\ m[free].request = request /\ m[free].delivered
      /\ m[free].owner = "Candidate"
  BY <1>0, <1>3, <1>4 DEF RecordStates, token
<1>6. ASSUME NEW effect PROVE <<Token(free, request), effect>> \notin to
  BY <1>0 DEF ToldTracked, Tracks, Token
<1>7. RecordSettles(m[free], Token(free, m[free].request), as, an, to)
  BY <1>5, <1>6 DEF RecordSettles
<1>8. ASSUME NEW s \in 1..Slots, s # free
      PROVE  /\ RecordSettles(m[s], Token(s, m[s].request), as, an, to)
             /\ m[s].state = l[s].state /\ m[s].request = l[s].request
  <2>0. RecordSettles(l[s], Token(s, l[s].request), as, an, to) /\ l[s] \in RecordStates
    BY DEF Settles, LedgerStates
  <2>1. Token(s, l[s].request) # token
    BY <1>8 DEF Token, token
  <2>2. CASE Token(s, l[s].request) \in pages
    <3>1. m[s] = [l[s] EXCEPT !.owner = "Candidate"]
      BY <1>2, <1>4, <1>8, <2>2
    <3>2. /\ m[s].state = l[s].state /\ m[s].request = l[s].request /\ m[s].owner = "Candidate"
          /\ m[s].delivered = l[s].delivered
      BY <2>0, <3>1 DEF RecordStates
    <3>3. /\ l[s].state = "Active" /\ l[s].request.kind # "Candidate"
          /\ Token(s, l[s].request) \in an
      BY <2>2 DEF Token
    <3>4. QED
      BY <2>0, <3>2, <3>3 DEF RecordSettles
  <2>3. CASE Token(s, l[s].request) \notin pages
    <3>1. m[s] = l[s]
      BY <1>2, <1>4, <1>8, <2>1, <2>3
    <3>2. QED
      BY <2>0, <3>1
  <2>4. QED
    BY <2>2, <2>3
<1>9. Settles(m, as, an, to)
  BY <1>7, <1>8 DEF Settles
<1>10. Kept(l, m)
  BY <1>0, <1>8 DEF Kept
<1>11. QED
  BY <1>9, <1>10 DEF m

LEMMA TransferredSettles ==
  ASSUME NEW l \in LedgerStates, NEW token, NEW pages, Transferable(l, token, pages),
         NEW as, NEW an, NEW to, Settles(l, as, an, to)
  PROVE  /\ Settles(Transferred(l, token, pages), as, an, to)
         /\ \A s \in 1..Slots : s # token.slot =>
              /\ Transferred(l, token, pages)[s].state = l[s].state
              /\ Transferred(l, token, pages)[s].request = l[s].request
<1> DEFINE m == Transferred(l, token, pages)
           freed == [l EXCEPT ![token.slot] = FreeSlot]
<1>0. token.slot \in 1..Slots
  BY DEF Transferable, Tracks
<1>1. /\ freed[token.slot] = FreeSlot
      /\ \A s \in 1..Slots : s # token.slot => freed[s] = l[s]
  BY <1>0 DEF LedgerStates
<1>2. m = GiveTo(freed, pages, "Widget")
  BY DEF Transferred
<1> HIDE DEF m, freed
<1>3. ASSUME NEW s \in 1..Slots
      PROVE  m[s] = IF Token(s, freed[s].request) \in pages
                    THEN [freed[s] EXCEPT !.owner = "Widget"] ELSE freed[s]
  BY <1>2 DEF GiveTo
<1>4. m[token.slot].state = "Free"
  <2>1. m[token.slot] = [FreeSlot EXCEPT !.owner = "Widget"] \/ m[token.slot] = FreeSlot
    BY <1>0, <1>1, <1>3
  <2>2. QED
    BY <2>1 DEF FreeSlot
<1>5. ASSUME NEW s \in 1..Slots, s # token.slot
      PROVE  /\ RecordSettles(m[s], Token(s, m[s].request), as, an, to)
             /\ m[s].state = l[s].state /\ m[s].request = l[s].request
  <2>0. RecordSettles(l[s], Token(s, l[s].request), as, an, to) /\ l[s] \in RecordStates
    BY DEF Settles, LedgerStates
  <2>2. CASE Token(s, l[s].request) \in pages
    <3>1. m[s] = [l[s] EXCEPT !.owner = "Widget"]
      BY <1>1, <1>3, <1>5, <2>2
    <3>2. /\ m[s].state = l[s].state /\ m[s].request = l[s].request /\ m[s].owner = "Widget"
          /\ m[s].delivered = l[s].delivered
      BY <2>0, <3>1 DEF RecordStates
    <3>3. l[s].state = "Active" /\ l[s].owner = "Candidate" /\ l[s].delivered
      BY <2>2 DEF Transferable, Token
    <3>4. QED
      BY <2>0, <3>2, <3>3 DEF RecordSettles
  <2>3. CASE Token(s, l[s].request) \notin pages
    <3>1. m[s] = l[s]
      BY <1>1, <1>3, <1>5, <2>3
    <3>2. QED
      BY <2>0, <3>1
  <2>4. QED
    BY <2>2, <2>3
<1>6. Settles(m, as, an, to)
  BY <1>4, <1>5 DEF Settles, RecordSettles
<1>7. QED
  BY <1>5, <1>6 DEF m

LEMMA HandedOutSettles ==
  ASSUME NEW l \in LedgerStates, NEW slot \in 1..Slots, l[slot].state = "Ready",
         NEW as, NEW an, NEW to, Settles(l, as, an, to)
  PROVE  Settles(HandedOut(l, slot), as, an,
                 to \cup {<<Token(slot, l[slot].request), l[slot].effect>>})
<1> DEFINE m == HandedOut(l, slot)
           token == Token(slot, l[slot].request)
           to1 == to \cup {<<token, l[slot].effect>>}
<1>1. /\ m[slot].state = "Draining" /\ m[slot].request = l[slot].request
      /\ m[slot].owner = l[slot].owner /\ m[slot].delivered = l[slot].delivered
      /\ m[slot].effect = l[slot].effect /\ m[slot].followup = FALSE
      /\ \A s \in 1..Slots : s # slot => m[s] = l[s]
  BY DEF HandedOut, LedgerStates, RecordStates
<1> HIDE DEF m
<1>2. RecordSettles(l[slot], token, as, an, to)
  BY DEF Settles
<1>3. /\ <<token, l[slot].effect>> \in to1
      /\ l[slot].effect = "Cancel" => (<<token, "Release">> \in to1 <=> <<token, "Release">> \in to)
  OBVIOUS
<1>4. ASSUME NEW s \in 1..Slots, s # slot, NEW effect
      PROVE  <<Token(s, l[s].request), effect>> \in to1 <=> <<Token(s, l[s].request), effect>> \in to
  BY <1>4 DEF Token
<1> HIDE DEF to1, token
<1>5. RecordSettles(m[slot], token, as, an, to1)
  BY <1>1, <1>2, <1>3 DEF RecordSettles
<1>6. ASSUME NEW s \in 1..Slots, s # slot
      PROVE  RecordSettles(m[s], Token(s, m[s].request), as, an, to1)
  <2>1. /\ m[s] = l[s] /\ RecordSettles(l[s], Token(s, l[s].request), as, an, to)
        /\ <<Token(s, l[s].request), "Cancel">> \in to1 <=> <<Token(s, l[s].request), "Cancel">> \in to
        /\ <<Token(s, l[s].request), "Release">> \in to1 <=> <<Token(s, l[s].request), "Release">> \in to
        /\ <<Token(s, l[s].request), l[s].effect>> \in to1 <=> <<Token(s, l[s].request), l[s].effect>> \in to
    BY <1>1, <1>4, <1>6 DEF Settles
  <2>2. QED
    BY <2>1 DEF RecordSettles
<1>7. QED
  BY <1>1, <1>5, <1>6 DEF Settles, m, token, to1

\* A request is shown to the host once, in the slot that records it, and numbered by its
\* session; only what was asked is answered, and only what is recorded was told.
AskedOnce ==
  /\ \A t \in asked : /\ t.request.kind # "Candidate"
                      /\ t.request.gen # 0 =>
                           t.request.gen \in Generations /\ t.request.n <= sessions[t.request.gen].asked
  /\ \A t, u \in asked : t.request = u.request => t = u
  /\ answered \subseteq asked

\* A session has an answer only to what was answered, and so are its pages.
AnswersOf(g) ==
  /\ sessions[g].delivered # "None" => sessions[g].waiting \in answered
  /\ sessions[g].pages \subseteq answered

Settling ==
  /\ AskedOnce
  /\ \A g \in Generations : AnswersOf(g)
  /\ ToldTracked(ledger, told)
  /\ Settles(ledger, asked, answered, told)

SettlingInv == HeldInv /\ Settling

LEMMA InitSettling == Init => Settling
<1> SUFFICES ASSUME Init PROVE Settling
  OBVIOUS
<1>1. \A g \in Generations : AnswersOf(g)
  BY DEF Init, AnswersOf, Fresh
<1>2. ToldTracked(ledger, told)
  BY DEF Init, ToldTracked
<1>3. CASE ledger = EmptyLedger /\ asked = {} /\ answered = {}
  <2>1. Settles(ledger, asked, answered, told)
    BY <1>3 DEF EmptyLedger, FreeSlot, Settles, RecordSettles
  <2>2. QED
    BY <1>1, <1>2, <1>3, <2>1 DEF Settling, AskedOnce
<1>4. CASE /\ ledger = [EmptyLedger EXCEPT ![1] =
                          [FreeSlot EXCEPT !.state = "Active", !.request = EarlierPage.request,
                                           !.owner = "Widget", !.delivered = TRUE]]
           /\ asked = {EarlierPage} /\ answered = {EarlierPage}
  <2>1. /\ ledger[1].state = "Active" /\ ledger[1].owner = "Widget" /\ ledger[1].delivered
        /\ ledger[1].request = EarlierPage.request
        /\ EarlierPage.request.gen = 0 /\ EarlierPage.request.kind = "Page"
        /\ EarlierPage = Token(1, EarlierPage.request)
        /\ \A s \in 1..Slots : s # 1 => ledger[s].state = "Free"
    BY <1>4, SlotsAssumption DEF EmptyLedger, FreeSlot, EarlierPage, Token
  <2>2. told = {}
    BY DEF Init
  <2>3. Settles(ledger, asked, answered, told)
    BY <1>4, <2>1, <2>2 DEF Settles, RecordSettles
  <2>4. AskedOnce
    BY <1>4, <2>1 DEF AskedOnce
  <2>5. QED
    BY <1>1, <1>2, <2>3, <2>4 DEF Settling
<1>5. QED
  BY <1>3, <1>4 DEF Init

\* A step tells the host nothing and forgets nothing out of turn, and keeps the invariant.
SettledStep == Settling' /\ ForgottenWhenSettled /\ ToldInTurn

LEMMA KeptFollows ==
  ASSUME Kept(ledger, ledger')
  PROVE  ForgottenWhenSettled /\ ToldInTurn
<1>1. ASSUME NEW token \in Recorded(ledger) PROVE Tracks(ledger', token)
  BY DEF Recorded, Tracks, Token, Kept
<1>2. ASSUME NEW slot \in 1..Slots, ledger[slot].state = "Ready"
      PROVE  ledger'[slot].state # "Draining"
  BY <1>2 DEF Kept
<1>3. QED
  BY <1>1, <1>2 DEF ForgottenWhenSettled, ToldInTurn

LEMMA AskedOnceKept ==
  ASSUME AskedOnce, asked' = asked, answered' \subseteq asked,
         \A h \in Generations : sessions'[h].asked = sessions[h].asked
  PROVE  AskedOnce'
BY DEF AskedOnce

\* A step of one session that keeps what is recorded, and in which nothing is asked,
\* answered or told.
LEMMA QuietStep ==
  ASSUME Settling, NEW g \in Generations, Kept(ledger, ledger'),
         Settles(ledger', asked, answered, told),
         asked' = asked, answered' = answered, told' = told,
         \A h \in Generations \ {g} : sessions'[h] = sessions[h],
         sessions'[g].asked = sessions[g].asked, AnswersOf(g)'
  PROVE  SettledStep
<1>1. AskedOnce'
  BY AskedOnceKept DEF Settling, AskedOnce
<1>2. ASSUME NEW h \in Generations PROVE AnswersOf(h)'
  BY DEF Settling, AnswersOf
<1>3. ToldTracked(ledger', told')
  BY KeptTracks DEF Settling, ToldTracked
<1>4. QED
  BY <1>1, <1>2, <1>3, KeptFollows DEF Settling, SettledStep

\* The same with the ledger as it was.
LEMMA IdleStep ==
  ASSUME Settling, NEW g \in Generations, ledger' = ledger, UNCHANGED heard,
         \A h \in Generations \ {g} : sessions'[h] = sessions[h],
         sessions'[g].asked = sessions[g].asked,
         sessions'[g].pages = sessions[g].pages,
         \/ sessions'[g].delivered = "None"
         \/ sessions'[g].delivered = sessions[g].delivered /\ sessions'[g].waiting = sessions[g].waiting
  PROVE  SettledStep
<1>1. AnswersOf(g)'
  BY DEF Settling, AnswersOf, heard
<1>2. Kept(ledger, ledger')
  BY DEF Kept
<1>3. QED
  BY <1>1, <1>2, QuietStep DEF Settling, heard

\* The same with tokens marked.
LEMMA MarkingStep ==
  ASSUME SettlingInv, NEW g \in Generations, NEW tokens, ledger' = MarkTokens(ledger, tokens),
         UNCHANGED heard, \A h \in Generations \ {g} : sessions'[h] = sessions[h],
         sessions'[g].asked = sessions[g].asked, AnswersOf(g)'
  PROVE  SettledStep
<1>1. ledger \in LedgerStates /\ Settles(ledger, asked, answered, told)
  BY DEF SettlingInv, HeldInv, TypeOK, Settling
<1>2. Settles(ledger', asked, answered, told) /\ Kept(ledger, ledger')
  BY <1>1, MarkTokensSettles
<1>3. QED
  BY <1>2, QuietStep DEF SettlingInv, heard

LEMMA EndsSettles ==
  ASSUME SettlingInv, NEW g \in Generations, NEW stage, Ends(g, stage), UNCHANGED heard
  PROVE  SettledStep
<1>0. /\ ledger \in LedgerStates /\ Settles(ledger, asked, answered, told) /\ Settling
      /\ sessions \in [Generations -> SessionStates]
  BY DEF SettlingInv, HeldInv, TypeOK, Settling
<1> DEFINE own == IF candidates[g].place = "Session"
                  THEN candidates[g].pages \cup {candidates[g].token} ELSE {}
           marked == MarkSession(ledger, g)
<1>1. ledger' = MarkTokens(marked, own)
  BY DEF Ends, ReleasedBy
<1> HIDE DEF own
<1>2. marked \in LedgerStates /\ Settles(marked, asked, answered, told) /\ Kept(ledger, marked)
  BY <1>0, MarkSessionType, MarkSessionSettles
<1>3. ASSUME NEW s \in 1..Slots, ledger[s].state = "Ready" PROVE marked[s].state = "Ready"
  BY <1>3 DEF MarkSession, MarkedReady
<1> HIDE DEF marked
<1>4. Settles(ledger', asked, answered, told) /\ Kept(marked, ledger')
  BY <1>1, <1>2, MarkTokensSettles
<1>5. Kept(ledger, ledger')
  BY <1>2, <1>3, <1>4, KeptTwice
<1>6. /\ sessions'[g] = LocalOwnersReleased(g, stage)
      /\ \A h \in Generations \ {g} : sessions'[h] = sessions[h]
  BY <1>0 DEF Ends
<1>7. sessions'[g].asked = sessions[g].asked /\ AnswersOf(g)'
  BY <1>6 DEF LocalOwnersReleased, Fresh, AnswersOf
<1>8. QED
  BY <1>0, <1>4, <1>5, <1>6, <1>7, QuietStep DEF heard

\* What a session holds is recorded for it, and active.
LEMMA HeldTracked ==
  ASSUME HeldInv, NEW g \in Generations, NEW token \in HeldBy(g)
  PROVE  /\ Tracks(ledger, token) /\ ledger[token.slot].state = "Active"
         /\ ledger[token.slot].owner = "Session" /\ token.request.gen = g
         /\ token = Token(token.slot, ledger[token.slot].request)
<1>1. token \in ActiveAmong(ledger, "Session", {g})
  BY DEF HeldInv, Held
<1>2. IsActive(ledger, token, "Session", {g})
  BY <1>1, ActiveMember
<1>3. token.request = ledger[token.slot].request
  BY <1>2 DEF IsActive, Token
<1>4. QED
  BY <1>2, <1>3 DEF IsActive, Tracks

LEMMA AskSettles ==
  ASSUME SettlingInv, NEW g \in Generations, NEW kind \in {"Validation"} \cup Kinds, Ask(g, kind)
  PROVE  SettledStep
<1> DEFINE request == [kind |-> kind, gen |-> g, n |-> sessions[g].asked + 1]
           free == FirstFree(ledger)
           token == Token(free, request)
<1>0. /\ ledger \in LedgerStates /\ Settling /\ sessions \in [Generations -> SessionStates]
      /\ sessions[g].asked \in Nat /\ g \in Nat \ {0}
  BY ConstantsAssumption DEF SettlingInv, HeldInv, TypeOK, SessionStates, Generations
<1>1. /\ ledger' = Bound(ledger, request) /\ HasRoom(ledger) /\ Idle(g)
      /\ asked' = asked \cup {token} /\ answered' = answered /\ told' = told
  BY DEF Ask
<1>2. /\ sessions'[g].asked = sessions[g].asked + 1 /\ sessions'[g].pages = sessions[g].pages
      /\ sessions'[g].delivered = sessions[g].delivered
      /\ \A h \in Generations \ {g} : sessions'[h] = sessions[h]
  BY <1>0 DEF Ask, SessionStates
<1>3. ASSUME NEW t \in asked PROVE t.request # request
  BY <1>0, <1>3 DEF Settling, AskedOnce
<1>4. token.request = request /\ request.kind # "Candidate" /\ request.gen = g
      /\ request.n = sessions[g].asked + 1
  BY ConstantsAssumption DEF Token
<1> HIDE DEF request, token
<1>5. token \notin asked /\ token \notin answered
  BY <1>0, <1>3, <1>4 DEF Settling, AskedOnce
<1>6. Settles(ledger', asked', answered, told) /\ Kept(ledger, ledger')
  BY <1>0, <1>1, <1>4, <1>5, BoundSettles DEF Settling, token
<1>7. AskedOnce'
  <2>1. ASSUME NEW t \in asked'
        PROVE  /\ t.request.kind # "Candidate"
               /\ t.request.gen # 0 =>
                    t.request.gen \in Generations /\ t.request.n <= sessions'[t.request.gen].asked
    <3>1. CASE t \in asked
      <4>1. CASE t.request.gen = g
        <5>1. t.request.n <= sessions[g].asked /\ t \in TokenStates
          BY <1>0, <3>1, <4>1 DEF Settling, AskedOnce, SettlingInv, HeldInv, TypeOK
        <5>2. t.request.n \in Nat
          BY <5>1 DEF TokenStates, RequestStates
        <5>3. t.request.n <= sessions[g].asked + 1
          BY <1>0, <5>1, <5>2
        <5>4. QED
          BY <1>0, <1>2, <3>1, <4>1, <5>3 DEF Settling, AskedOnce
      <4>2. CASE t.request.gen # g
        BY <1>0, <1>2, <3>1, <4>2 DEF Settling, AskedOnce
      <4>3. QED
        BY <4>1, <4>2
    <3>2. CASE t = token
      BY <1>0, <1>2, <1>4, <3>2
    <3>3. QED
      BY <1>1, <3>1, <3>2
  <2>2. ASSUME NEW t \in asked', NEW u \in asked', t.request = u.request PROVE t = u
    BY <1>0, <1>1, <1>3, <1>4, <2>2 DEF Settling, AskedOnce
  <2>3. answered' \subseteq asked'
    BY <1>0, <1>1 DEF Settling, AskedOnce
  <2>4. QED
    BY <2>1, <2>2, <2>3 DEF AskedOnce
<1>8. ASSUME NEW h \in Generations PROVE AnswersOf(h)'
  BY <1>0, <1>1, <1>2 DEF Settling, AnswersOf, Idle
<1>9. ToldTracked(ledger', told')
  BY <1>0, <1>1, <1>6, KeptTracks DEF Settling, ToldTracked
<1>10. QED
  BY <1>1, <1>6, <1>7, <1>8, <1>9, KeptFollows DEF Settling, SettledStep

LEMMA AcceptSettles ==
  ASSUME SettlingInv, NEW g \in Generations, AcceptValidation(g)
  PROVE  SettledStep
<1> DEFINE token == sessions[g].waiting
<1>0. /\ ledger \in LedgerStates /\ Settling /\ sessions \in [Generations -> SessionStates]
      /\ SessionShaped(g)
  BY DEF SettlingInv, HeldInv, TypeOK, Shaped
<1>1. /\ ledger' = Complete(ledger, token) /\ asked' = asked /\ answered' = answered \ {token}
      /\ told' = told /\ sessions[g].delivered = "Good"
  BY DEF AcceptValidation
<1>2. /\ sessions'[g].asked = sessions[g].asked /\ sessions'[g].pages = sessions[g].pages
      /\ sessions'[g].delivered = "None" /\ sessions'[g].stage = "Restoration"
      /\ \A h \in Generations \ {g} : sessions'[h] = sessions[h]
  BY <1>0 DEF AcceptValidation, SessionStates
<1>3. token \in HeldBy(g) /\ token \notin sessions[g].pages
  BY <1>0, <1>1 DEF SessionShaped, HeldBy
<1>4. /\ Tracks(ledger, token) /\ ledger[token.slot].state = "Active"
      /\ token.request.gen = g /\ token = Token(token.slot, ledger[token.slot].request)
  BY <1>3, HeldTracked DEF SettlingInv
<1> HIDE DEF token
<1>5. /\ Settles(ledger', asked', answered', told') /\ ledger'[token.slot].state = "Free"
      /\ \A s \in 1..Slots : s # token.slot => ledger'[s] = ledger[s]
  BY <1>0, <1>1, <1>4, CompleteSettles DEF Settling
<1>6. AskedOnce'
  BY <1>0, <1>1, <1>2, AskedOnceKept DEF Settling, AskedOnce
<1>7. ASSUME NEW h \in Generations PROVE AnswersOf(h)'
  <2>1. CASE h = g
    BY <1>0, <1>1, <1>2, <1>3, <2>1 DEF Settling, AnswersOf
  <2>2. CASE h # g
    <3>1. ASSUME NEW t \in HeldBy(h) PROVE t # token
      BY <1>4, <2>2, <3>1, HeldTracked DEF SettlingInv
    <3>2. sessions[h].delivered # "None" => sessions[h].waiting \in HeldBy(h)
      BY DEF SettlingInv, HeldInv, Shaped, SessionShaped, HeldBy
    <3>3. sessions[h].pages \subseteq HeldBy(h)
      BY DEF HeldBy
    <3>4. AnswersOf(h) /\ sessions'[h] = sessions[h]
      BY <1>0, <1>2, <2>2 DEF Settling
    <3>5. QED
      BY <1>1, <3>1, <3>2, <3>3, <3>4 DEF AnswersOf
  <2>3. QED
    BY <2>1, <2>2
<1>8. ToldTracked(ledger', told')
  <2>1. ASSUME NEW e \in told PROVE Tracks(ledger', e[1]) /\ e[2] \in {"Cancel", "Release"}
    <3>1. Tracks(ledger, e[1]) /\ e[2] \in {"Cancel", "Release"} /\ e = <<e[1], e[2]>>
          /\ e[1] = Token(e[1].slot, e[1].request)
      BY <1>0 DEF Settling, ToldTracked, SettlingInv, HeldInv, TypeOK, TokenStates, Token
    <3>2. <<token, "Cancel">> \notin told /\ <<token, "Release">> \notin told
      BY <1>0, <1>4 DEF Settling, Settles, RecordSettles, Tracks
    <3>3. e[1] # token
      BY <3>1, <3>2
    <3>4. e[1].slot # token.slot
      BY <1>4, <3>1, <3>3 DEF Tracks
    <3>5. QED
      BY <1>5, <3>1, <3>4 DEF Tracks
  <2>2. QED
    BY <1>1, <2>1 DEF ToldTracked
<1>9. ForgottenWhenSettled
  <2>1. ASSUME NEW t \in Recorded(ledger), ~Tracks(ledger', t)
        PROVE  sessions[g].waiting = t /\ sessions'[g].stage = "Restoration"
    <3>1. t.slot \in 1..Slots /\ t = Token(t.slot, ledger[t.slot].request) /\ Tracks(ledger, t)
      BY DEF Recorded, Token, Tracks
    <3>2. t.slot = token.slot
      BY <1>5, <2>1, <3>1 DEF Tracks
    <3>3. QED
      BY <1>2, <1>4, <3>1, <3>2 DEF token
  <2>2. QED
    BY <2>1 DEF ForgottenWhenSettled
<1>10. ToldInTurn
  BY <1>5 DEF ToldInTurn
<1>11. QED
  BY <1>5, <1>6, <1>7, <1>8, <1>9, <1>10 DEF Settling, SettledStep

LEMMA SessionStepSettles ==
  ASSUME SettlingInv, NEW g \in Generations, SessionStep(g)
  PROVE  SettledStep
<1> USE DEF heard
<1>0. /\ ledger \in LedgerStates /\ Settling /\ sessions \in [Generations -> SessionStates]
      /\ sessions[g] \in SessionStates /\ AnswersOf(g)
  BY DEF SettlingInv, HeldInv, TypeOK, Settling
<1>0b. /\ Served(g).waiting = NoToken /\ Served(g).admitted = "None"
       /\ Served(g).delivered = sessions[g].delivered /\ Served(g).pages = sessions[g].pages
       /\ Served(g).asked = sessions[g].asked /\ Served(g) \in SessionStates
  BY <1>0, FreeSlotType DEF Served, SessionStates
<1>0c. sessions[g].admitted # "None" => sessions[g].delivered = "None"
  BY DEF SettlingInv, HeldInv, Shaped, SessionShaped
<1>1. ASSUME NEW kind \in {"Validation"} \cup Kinds, Ask(g, kind)
      PROVE  SettledStep
  BY <1>1, AskSettles
<1>2. CASE UseResident(g)
  <2>1. /\ sessions'[g].asked = sessions[g].asked /\ sessions'[g].pages = sessions[g].pages
        /\ sessions'[g].delivered = sessions[g].delivered
        /\ sessions'[g].waiting = sessions[g].waiting
        /\ \A h \in Generations \ {g} : sessions'[h] = sessions[h]
    BY <1>0, <1>2 DEF UseResident, SessionStates
  <2>2. QED
    BY <1>0, <1>2, <2>1, IdleStep DEF UseResident
<1>3. CASE BeginIndex(g)
  <2>1. /\ sessions'[g].asked = sessions[g].asked /\ sessions'[g].pages = {}
        /\ sessions'[g].delivered = sessions[g].delivered /\ sessions[g].delivered = "None"
        /\ \A h \in Generations \ {g} : sessions'[h] = sessions[h]
    BY <1>0, <1>3 DEF BeginIndex, Idle, SessionStates
  <2>2. AnswersOf(g)'
    BY <2>1 DEF AnswersOf
  <2>3. QED
    BY <1>3, <2>1, <2>2, MarkingStep DEF BeginIndex
<1>4. CASE AcceptValidation(g)
  BY <1>4, AcceptSettles
<1>5. CASE AdmitPage(g)
  <2> DEFINE token == sessions[g].waiting
             kind == token.request.kind
  <2>1. PICK kept \in SUBSET OfKind(sessions[g].pages, kind) :
          LET evicted == OfKind(sessions[g].pages, kind) \ kept
          IN /\ ledger' = MarkTokens(ledger, evicted)
             /\ sessions' = [sessions EXCEPT
                  ![g].pages = (@ \ evicted) \cup {token},
                  ![g].delivered = "None",
                  ![g].waiting = IF Scanning(g) THEN token ELSE NoToken,
                  ![g].admitted = IF Scanning(g) THEN kind ELSE "None"]
    BY <1>5 DEF AdmitPage
  <2> DEFINE evicted == OfKind(sessions[g].pages, kind) \ kept
  <2>2. /\ sessions'[g].pages = (sessions[g].pages \ evicted) \cup {token}
        /\ sessions'[g].delivered = "None" /\ sessions'[g].asked = sessions[g].asked
        /\ \A h \in Generations \ {g} : sessions'[h] = sessions[h]
    BY <2>1, <1>0 DEF SessionStates
  <2>3. ledger' = MarkTokens(ledger, evicted)
    BY <2>1
  <2> HIDE DEF evicted, kind
  <2>4. UNCHANGED heard /\ sessions[g].delivered = "Good"
    BY <1>5 DEF AdmitPage
  <2>5. AnswersOf(g)'
    BY <1>0, <2>2, <2>4 DEF AnswersOf
  <2>6. QED
    BY <2>2, <2>3, <2>4, <2>5, MarkingStep
<1>6. CASE Refuse(g)
  BY <1>6, EndsSettles DEF Refuse
<1>7. ASSUME NEW needs \in Kinds, ContinueScan(g, needs)
      PROVE  SettledStep
  <2>1. /\ sessions'[g] = [Served(g) EXCEPT !.needs = needs] /\ sessions[g].admitted # "None"
        /\ \A h \in Generations \ {g} : sessions'[h] = sessions[h]
    BY <1>0, <1>7 DEF ContinueScan
  <2>2. /\ sessions'[g].asked = sessions[g].asked /\ sessions'[g].pages = sessions[g].pages
        /\ sessions'[g].delivered = "None"
    BY <1>0b, <1>0c, <2>1 DEF SessionStates
  <2>3. QED
    BY <1>0, <1>7, <2>1, <2>2, IdleStep DEF ContinueScan
<1>8. CASE CompleteIndex(g)
  <2>1. /\ sessions'[g] = [Served(g) EXCEPT !.stage = "Target", !.needs = "Page", !.pages = {}]
        /\ sessions[g].admitted # "None"
        /\ \A h \in Generations \ {g} : sessions'[h] = sessions[h]
    BY <1>0, <1>8 DEF CompleteIndex
  <2>2. /\ sessions'[g].asked = sessions[g].asked /\ sessions'[g].pages = {}
        /\ sessions'[g].delivered = "None"
    BY <1>0b, <1>0c, <2>1 DEF SessionStates
  <2>3. AnswersOf(g)'
    BY <2>2 DEF AnswersOf
  <2>4. QED
    BY <1>8, <2>1, <2>2, <2>3, MarkingStep DEF CompleteIndex
<1>9. CASE CompleteTarget(g)
  <2>1. /\ sessions'[g] = [Served(g) EXCEPT !.complete = TRUE] /\ sessions[g].admitted # "None"
        /\ \A h \in Generations \ {g} : sessions'[h] = sessions[h]
    BY <1>0, <1>9 DEF CompleteTarget
  <2>2. /\ sessions'[g].asked = sessions[g].asked /\ sessions'[g].pages = sessions[g].pages
        /\ sessions'[g].delivered = "None"
    BY <1>0b, <1>0c, <2>1 DEF SessionStates
  <2>3. QED
    BY <1>0, <1>9, <2>1, <2>2, IdleStep DEF CompleteTarget
<1>10. CASE FinishCandidate(g)
  <2> DEFINE request == [kind |-> "Candidate", gen |-> g, n |-> 0]
             pages == sessions[g].pages
  <2>1. /\ ledger' = Promoted(ledger, request, pages) /\ HasRoom(ledger) /\ UNCHANGED heard
        /\ sessions[g].admitted # "None" \/ sessions[g].complete
        /\ sessions'[g] = [Served(g) EXCEPT !.stage = "Ready", !.complete = TRUE, !.pages = {}]
        /\ \A h \in Generations \ {g} : sessions'[h] = sessions[h]
    BY <1>0, <1>10 DEF FinishCandidate
  <2>2. sessions[g].delivered = "None"
    BY <1>0c, <2>1 DEF SettlingInv, HeldInv, Shaped, SessionShaped
  <2>3. /\ sessions'[g].asked = sessions[g].asked /\ sessions'[g].pages = {}
        /\ sessions'[g].delivered = "None"
    BY <1>0b, <2>1, <2>2 DEF SessionStates
  <2>4. request \in RequestStates /\ request.kind = "Candidate"
    BY ConstantsAssumption DEF RequestStates, Generations
  <2> HIDE DEF request
  <2>5. ASSUME NEW t \in pages
        PROVE  /\ t \in answered /\ t.request.kind # "Candidate"
               /\ Tracks(ledger, t) /\ ledger[t.slot].state = "Active"
    <3>1. t \in HeldBy(g)
      BY DEF HeldBy
    <3>2. t \in answered
      BY <1>0 DEF AnswersOf
    <3>3. QED
      BY <1>0, <3>1, <3>2, HeldTracked DEF SettlingInv, Settling, AskedOnce
  <2>6. Settles(ledger', asked, answered, told) /\ Kept(ledger, ledger')
    BY <1>0, <2>1, <2>4, <2>5, PromotedSettles DEF Settling
  <2>7. AnswersOf(g)'
    BY <2>3 DEF AnswersOf
  <2>8. QED
    BY <1>0, <2>1, <2>3, <2>6, <2>7, QuietStep
<1>11. CASE Fail(g)
  BY <1>11, EndsSettles DEF Fail
<1>12. QED
  BY <1>1, <1>2, <1>3, <1>4, <1>5, <1>6, <1>7, <1>8, <1>9, <1>10, <1>11 DEF SessionStep

LEMMA DeliverSettles ==
  ASSUME SettlingInv, NEW through \in Generations, NEW token \in asked, NEW good \in BOOLEAN,
         Deliver(token, through, good)
  PROVE  SettledStep
<1> DEFINE marked == MarkDelivered(ledger, token.request)
           waits == /\ token.request.gen = through /\ ~Over(sessions[through].stage)
                    /\ sessions[through].waiting = token
           now == IF Tracks(ledger, token) THEN answered \cup {token} ELSE answered
<1>0. /\ ledger \in LedgerStates /\ Settling /\ sessions \in [Generations -> SessionStates]
      /\ token \in TokenStates /\ token.request.kind # "Candidate"
  BY DEF SettlingInv, HeldInv, TypeOK, Settling, AskedOnce
<1>1. asked' = asked /\ told' = told /\ answered' = now
  BY DEF Deliver
<1>2. /\ Settles(marked, asked, now, told) /\ Kept(ledger, marked)
      /\ \A s \in 1..Slots : ledger[s].state = "Ready" => marked[s].state = "Ready"
  BY <1>0, DeliveredSettles DEF Settling, AskedOnce
<1>3. marked \in LedgerStates
  BY <1>0, MarkDeliveredType DEF TokenStates
<1>4. answered \subseteq now /\ now \subseteq asked
  BY <1>0 DEF Settling, AskedOnce
<1>5. ASSUME waits PROVE token \in now
  <2>1. token # NoToken
    BY <1>5, ConstantsAssumption DEF NoToken, Token, NoRequest, Generations
  <2>2. token \in HeldBy(through)
    BY <1>5, <2>1 DEF HeldBy
  <2>3. Tracks(ledger, token)
    BY <2>2, HeldTracked DEF SettlingInv
  <2>4. QED
    BY <2>3
<1> HIDE DEF marked, now
\* What is left to show of a step: its ledger, and the session it comes through.
<1>6. ASSUME Kept(ledger, ledger'), Settles(ledger', asked, now, told),
             \A h \in Generations \ {through} : sessions'[h] = sessions[h],
             sessions'[through].asked = sessions[through].asked, AnswersOf(through)'
      PROVE  SettledStep
  <2>1. AskedOnce'
    BY <1>0, <1>1, <1>4, <1>6, AskedOnceKept DEF Settling
  <2>2. ASSUME NEW h \in Generations PROVE AnswersOf(h)'
    BY <1>0, <1>1, <1>4, <1>6 DEF Settling, AnswersOf
  <2>3. ToldTracked(ledger', told')
    BY <1>0, <1>1, <1>6, KeptTracks DEF Settling, ToldTracked
  <2>4. QED
    BY <1>1, <1>6, <2>1, <2>2, <2>3, KeptFollows DEF Settling, SettledStep
<1>7. CASE /\ waits /\ sessions[through].delivered = "None"
           /\ sessions' = [sessions EXCEPT ![through].delivered = IF good THEN "Good" ELSE "Bad"]
           /\ ledger' = marked
  <2>1. /\ sessions'[through].waiting = token
        /\ sessions'[through].pages = sessions[through].pages
        /\ sessions'[through].asked = sessions[through].asked
        /\ \A h \in Generations \ {through} : sessions'[h] = sessions[h]
    BY <1>0, <1>7 DEF SessionStates
  <2>2. AnswersOf(through)'
    BY <1>0, <1>1, <1>4, <1>5, <1>7, <2>1 DEF Settling, AnswersOf
  <2>3. QED
    BY <1>2, <1>6, <1>7, <2>1, <2>2
<1>8. CASE /\ sessions' = [sessions EXCEPT ![through] = LocalOwnersReleased(through, "Failed")]
           /\ ledger' = MarkSession(marked, through)
  <2>1. /\ sessions'[through] = LocalOwnersReleased(through, "Failed")
        /\ \A h \in Generations \ {through} : sessions'[h] = sessions[h]
    BY <1>0, <1>8
  <2>2. sessions'[through].asked = sessions[through].asked /\ AnswersOf(through)'
    BY <2>1 DEF LocalOwnersReleased, Fresh, AnswersOf
  <2>3. Settles(ledger', asked, now, told) /\ Kept(marked, ledger')
    BY <1>2, <1>3, <1>8, MarkSessionSettles
  <2>4. Kept(ledger, ledger')
    BY <1>2, <2>3, KeptTwice
  <2>5. QED
    BY <1>6, <2>1, <2>2, <2>3, <2>4
<1>9. CASE ledger' = marked /\ sessions' = sessions
  <2>1. AnswersOf(through)'
    BY <1>0, <1>1, <1>4, <1>9 DEF Settling, AnswersOf
  <2>2. QED
    BY <1>2, <1>6, <1>9, <2>1
<1>10. QED
  BY <1>7, <1>8, <1>9 DEF Deliver, marked

\* An adoption frees the slot of the candidate it adopts, and no other.
LEMMA AdoptedSettles ==
  ASSUME SettlingInv, NEW g \in Generations, Adopted(g), sessions' = sessions, UNCHANGED heard,
         NEW given,
         ledger' = MarkTokens(Transferred(ledger, candidates[g].token, candidates[g].pages), given)
  PROVE  SettledStep
<1> DEFINE token == candidates[g].token
           pages == candidates[g].pages
           l == Transferred(ledger, token, pages)
<1>0. /\ ledger \in LedgerStates /\ Settling
      /\ token \in TokenStates /\ token = Token(token.slot, token.request)
  BY DEF SettlingInv, HeldInv, TypeOK, CandidateStates, TokenStates, Token
<1>1. /\ Transferable(ledger, token, pages) /\ Tracks(ledger, token)
      /\ ledger[token.slot].state = "Active" /\ candidates'[g].place = "Adopted"
  BY DEF Adopted, Transferable, SettlingInv, HeldInv, TypeOK
<1>2. /\ l \in LedgerStates /\ Settles(l, asked, answered, told)
      /\ \A s \in 1..Slots : s # token.slot => l[s].state = ledger[s].state
                                            /\ l[s].request = ledger[s].request
  BY <1>0, <1>1, TransferredType, TransferredSettles DEF Settling, SettlingInv, HeldInv, TypeOK, CandidateStates
<1>3. ledger' = MarkTokens(l, given)
  OBVIOUS
<1> HIDE DEF l, token, pages
<1>4. Settles(ledger', asked, answered, told) /\ Kept(l, ledger')
  BY <1>2, <1>3, MarkTokensSettles
<1>5. ASSUME NEW s \in 1..Slots, s # token.slot, ledger[s].state # "Free"
      PROVE  /\ ledger'[s].state # "Free" /\ ledger'[s].request = ledger[s].request
             /\ ledger[s].state = "Ready" => ledger'[s].state # "Draining"
  BY <1>2, <1>4, <1>5 DEF Kept
<1>6. AskedOnce'
  BY <1>0, AskedOnceKept DEF Settling, AskedOnce, heard
<1>7. ASSUME NEW h \in Generations PROVE AnswersOf(h)'
  BY <1>0 DEF Settling, AnswersOf, heard
<1>8. ToldTracked(ledger', told')
  <2>1. ASSUME NEW e \in told PROVE Tracks(ledger', e[1]) /\ e[2] \in {"Cancel", "Release"}
    <3>1. /\ Tracks(ledger, e[1]) /\ e[2] \in {"Cancel", "Release"} /\ e = <<e[1], e[2]>>
          /\ e[1] = Token(e[1].slot, e[1].request)
      BY <1>0 DEF Settling, ToldTracked, SettlingInv, HeldInv, TypeOK, TokenStates, Token
    <3>2. <<token, "Cancel">> \notin told /\ <<token, "Release">> \notin told
      BY <1>0, <1>1 DEF Settling, Settles, RecordSettles, Tracks
    <3>3. e[1] # token
      BY <3>1, <3>2
    <3>4. e[1].slot # token.slot
      BY <1>0, <1>1, <3>1, <3>3 DEF Tracks
    <3>5. QED
      BY <1>5, <3>1, <3>4 DEF Tracks
  <2>2. QED
    BY <2>1 DEF ToldTracked, heard
<1>9. ForgottenWhenSettled
  <2>1. ASSUME NEW t \in Recorded(ledger), ~Tracks(ledger', t)
        PROVE  candidates[g].token = t /\ candidates'[g].place = "Adopted"
    <3>1. t.slot \in 1..Slots /\ t = Token(t.slot, ledger[t.slot].request) /\ Tracks(ledger, t)
      BY DEF Recorded, Token, Tracks
    <3>2. t.slot = token.slot
      BY <1>5, <2>1, <3>1 DEF Tracks
    <3>3. QED
      BY <1>0, <1>1, <3>1, <3>2 DEF token, Tracks
  <2>2. QED
    BY <2>1 DEF ForgottenWhenSettled
<1>10. ToldInTurn
  BY <1>1, <1>5 DEF ToldInTurn
<1>11. QED
  BY <1>4, <1>6, <1>7, <1>8, <1>9, <1>10 DEF Settling, SettledStep, heard

\* Nothing marked is nothing changed.
LEMMA NoneMarked ==
  ASSUME NEW l \in LedgerStates
  PROVE  MarkTokens(l, {}) = l
BY DEF MarkTokens, LedgerStates

LEMMA HostStepSettles ==
  ASSUME SettlingInv, NEW g \in Generations, HostStep(g)
  PROVE  SettledStep
<1> USE DEF heard
<1>0. /\ ledger \in LedgerStates /\ Settling /\ sessions \in [Generations -> SessionStates]
      /\ AnswersOf(g)
  BY DEF SettlingInv, HeldInv, TypeOK, Settling
<1>a. ASSUME NEW seed, Begins(g, seed), ledger' = ledger, UNCHANGED heard
      PROVE  SettledStep
  <2>1. /\ sessions'[g].asked = sessions[g].asked /\ sessions'[g].pages = sessions[g].pages
        /\ sessions'[g].delivered = sessions[g].delivered
        /\ sessions'[g].waiting = sessions[g].waiting
        /\ \A h \in Generations \ {g} : sessions'[h] = sessions[h]
    BY <1>0, <1>a DEF Begins, SessionStates
  <2>2. QED
    BY <1>0, <1>a, <2>1, IdleStep
<1>1. ASSUME NEW seed \in Seeds, New(g, seed)
      PROVE  SettledStep
  BY <1>1, <1>a DEF New
<1>2. ASSUME NEW seed \in Seeds, NEW mode, PrepareSuccessor(g, seed, mode)
      PROVE  SettledStep
  BY <1>2, <1>a DEF PrepareSuccessor
<1>3. ASSUME NEW token \in asked, NEW good \in BOOLEAN, Deliver(token, g, good)
      PROVE  SettledStep
  BY <1>3, DeliverSettles
<1>4. CASE Cancel(g)
  BY <1>4, EndsSettles DEF Cancel
<1>5. CASE Drop(g)
  BY <1>5, EndsSettles DEF Drop
<1>6. CASE TakeCandidate(g)
  <2>1. /\ sessions'[g].asked = sessions[g].asked /\ sessions'[g].pages = sessions[g].pages
        /\ sessions'[g].delivered = sessions[g].delivered
        /\ sessions'[g].waiting = sessions[g].waiting
        /\ \A h \in Generations \ {g} : sessions'[h] = sessions[h]
    BY <1>0, <1>6 DEF TakeCandidate, SessionStates
  <2>2. QED
    BY <1>0, <1>6, <2>1, IdleStep DEF TakeCandidate
<1>b. ASSUME CandidateDropped(g), sessions' = sessions, UNCHANGED heard
      PROVE  SettledStep
  <2>1. AnswersOf(g)'
    BY <1>0, <1>b DEF AnswersOf
  <2>2. QED
    BY <1>b, <2>1, MarkingStep DEF CandidateDropped
<1>7. CASE DropCandidate(g)
  BY <1>7, <1>b DEF DropCandidate
<1>8. ASSUME NEW r \in Generations, RefuseAdoption(r, g)
      PROVE  SettledStep
  BY <1>8, <1>b DEF RefuseAdoption
<1>9. CASE AdoptFresh(g)
  <2>1. Transferred(ledger, candidates[g].token, candidates[g].pages) \in LedgerStates
    BY <1>0, TransferredType DEF SettlingInv, HeldInv, TypeOK, CandidateStates
  <2>2. ledger' = MarkTokens(Transferred(ledger, candidates[g].token, candidates[g].pages), {})
    BY <1>9, <2>1, NoneMarked DEF AdoptFresh
  <2>3. QED
    BY <1>9, <2>2, AdoptedSettles DEF AdoptFresh
<1>10. ASSUME NEW r \in Generations, NEW protects \in BOOLEAN, AdoptResident(r, g, protects)
       PROVE  SettledStep
  BY <1>10, AdoptedSettles DEF AdoptResident, WidgetReleased
<1>11. QED
  BY <1>1, <1>2, <1>3, <1>4, <1>5, <1>6, <1>7, <1>8, <1>9, <1>10 DEF HostStep

LEMMA WidgetStepSettles ==
  ASSUME SettlingInv, WidgetStep
  PROVE  SettledStep
<1>0. ledger \in LedgerStates /\ Settling
  BY DEF SettlingInv, HeldInv, TypeOK
<1>a. ASSUME NEW tokens, ledger' = MarkTokens(ledger, tokens), sessions' = sessions, UNCHANGED heard
      PROVE  SettledStep
  <2>1. Settles(ledger', asked, answered, told) /\ Kept(ledger, ledger')
    BY <1>0, <1>a, MarkTokensSettles DEF Settling
  <2>2. AskedOnce'
    BY <1>0, <1>a, AskedOnceKept DEF Settling, AskedOnce, heard
  <2>3. ASSUME NEW h \in Generations PROVE AnswersOf(h)'
    BY <1>0, <1>a DEF Settling, AnswersOf, heard
  <2>4. ToldTracked(ledger', told')
    BY <1>0, <1>a, <2>1, KeptTracks DEF Settling, ToldTracked, heard
  <2>5. QED
    BY <1>a, <2>1, <2>2, <2>3, <2>4, KeptFollows DEF Settling, SettledStep, heard
<1>b. ASSUME UNCHANGED work, UNCHANGED heard
      PROVE  SettledStep
  BY <1>0, <1>a, <1>b, NoneMarked DEF work
<1>1. CASE (\E position \in Positions : Publish(position)) \/ ImportRestoration \/ Dispose
  BY <1>1, <1>a DEF Publish, ImportRestoration, Dispose, PagesReleased, WidgetReleased
<1>2. CASE \/ \E ofPublished \in BOOLEAN : Protect(ofPublished)
           \/ ReleaseProtection \/ SetEnabled \/ EnvironmentChange \/ Rebind
           \/ \E source \in Sources : PublishSource(source)
  BY <1>2, <1>b DEF Protect, ReleaseProtection, SetEnabled, EnvironmentChange, Rebind, PublishSource
<1>3. QED
  BY <1>1, <1>2 DEF WidgetStep

LEMMA DrainSettles ==
  ASSUME SettlingInv, Drain
  PROVE  SettledStep
<1>0. ledger \in LedgerStates /\ Settling
  BY DEF SettlingInv, HeldInv, TypeOK
<1>1. PICK slot \in 1..Slots :
        /\ ledger[slot].state = "Ready" /\ ledger' = HandedOut(ledger, slot)
        /\ told' = told \cup {<<Token(slot, ledger[slot].request), ledger[slot].effect>>}
  BY DEF Drain, FirstReady
<1>2. sessions' = sessions /\ asked' = asked /\ answered' = answered
  BY DEF Drain
<1> DEFINE token == Token(slot, ledger[slot].request)
<1>3. /\ ledger'[slot].state = "Draining" /\ ledger'[slot].request = ledger[slot].request
      /\ \A s \in 1..Slots : s # slot => ledger'[s] = ledger[s]
  BY <1>0, <1>1 DEF HandedOut, LedgerStates, RecordStates
<1>4. Settles(ledger', asked', answered', told')
  BY <1>0, <1>1, <1>2, HandedOutSettles DEF Settling
<1>5. RecordSettles(ledger[slot], token, asked, answered, told)
  BY <1>0 DEF Settling, Settles
<1>6. ASSUME NEW t, Tracks(ledger, t) PROVE Tracks(ledger', t)
  BY <1>3, <1>6 DEF Tracks
<1>7. AskedOnce'
  BY <1>0, <1>2, AskedOnceKept DEF Settling, AskedOnce
<1>8. ASSUME NEW h \in Generations PROVE AnswersOf(h)'
  BY <1>0, <1>2 DEF Settling, AnswersOf
<1>9. ToldTracked(ledger', told')
  <2>1. Tracks(ledger, token) /\ ledger[slot].effect \in {"Cancel", "Release"}
    BY <1>1, <1>5 DEF Tracks, Token, RecordSettles
  <2>2. QED
    BY <1>0, <1>1, <1>6, <2>1 DEF ToldTracked, Settling
<1>10. ForgottenWhenSettled
  <2>1. ASSUME NEW t \in Recorded(ledger) PROVE Tracks(ledger', t)
    BY <1>6 DEF Recorded, Tracks, Token
  <2>2. QED
    BY <2>1 DEF ForgottenWhenSettled
<1>11. ToldInTurn
  <2>1. ASSUME NEW s \in 1..Slots, ledger[s].state = "Ready", ledger'[s].state = "Draining"
        PROVE  s = slot
    BY <1>3, <2>1
  <2>2. /\ <<token, ledger[slot].effect>> \notin told
        /\ token.request.kind # "Candidate" => (ledger[slot].effect = "Release" <=> token \in answered)
    BY <1>1, <1>5 DEF RecordSettles, Token
  <2>3. QED
    BY <2>1, <2>2 DEF ToldInTurn
<1>12. QED
  BY <1>4, <1>7, <1>8, <1>9, <1>10, <1>11 DEF Settling, SettledStep

LEMMA AcknowledgeSettles ==
  ASSUME SettlingInv, NEW token, Acknowledge(token)
  PROVE  SettledStep
<1> DEFINE slot == token.slot
           record == ledger[slot]
<1>0. ledger \in LedgerStates /\ Settling
  BY DEF SettlingInv, HeldInv, TypeOK
<1>1. /\ Tracks(ledger, token) /\ record.state = "Draining" /\ slot \in 1..Slots
      /\ ledger' = Acknowledged(ledger, slot)
      /\ told' = {e \in told : Tracks(ledger', e[1])}
      /\ answered' = {t \in answered : Tracks(ledger', t)}
      /\ sessions' = sessions /\ asked' = asked
  BY DEF Acknowledge, Tracks
<1>2. \A s \in 1..Slots : s # slot => ledger'[s] = ledger[s]
  BY <1>0, <1>1 DEF Acknowledged, LedgerStates
<1>3. /\ record.followup =>
           /\ ledger'[slot].state = "Ready" /\ ledger'[slot].effect = "Release"
           /\ ledger'[slot].request = record.request /\ ledger'[slot].owner = record.owner
           /\ ledger'[slot].delivered = record.delivered
      /\ ~record.followup => ledger'[slot].state = "Free"
  BY <1>0, <1>1 DEF Acknowledged, FreeSlot, LedgerStates, RecordStates
<1>4. RecordSettles(record, Token(slot, record.request), asked, answered, told)
  BY <1>0, <1>1 DEF Settling, Settles
<1> HIDE DEF slot, record
\* What is still tracked is heard as before.
<1>5. ASSUME NEW t, Tracks(ledger', t)
      PROVE  /\ t \in answered' <=> t \in answered
             /\ <<t, "Cancel">> \in told' <=> <<t, "Cancel">> \in told
             /\ <<t, "Release">> \in told' <=> <<t, "Release">> \in told
             /\ <<t, "None">> \in told' <=> <<t, "None">> \in told
  BY <1>1, <1>5
<1>6. ASSUME NEW s \in 1..Slots, ledger'[s].state # "Free"
      PROVE  RecordSettles(ledger'[s], Token(s, ledger'[s].request), asked, answered', told')
  <2> DEFINE t == Token(s, ledger'[s].request)
  <2>0. Tracks(ledger', t)
    BY <1>6 DEF Tracks, Token
  <2>1. CASE s = slot
    <3>1. /\ record.followup /\ ledger'[s].state = "Ready" /\ ledger'[s].effect = "Release"
          /\ ledger'[s].request = record.request /\ ledger'[s].owner = record.owner
          /\ ledger'[s].delivered = record.delivered
      BY <1>3, <1>6, <2>1
    <3>2. t = Token(slot, record.request)
      BY <2>1, <3>1
    <3>3. t \in answered' <=> t \in answered
      BY <1>5, <2>0
    <3>4. <<t, "Release">> \in told' => <<t, "Release">> \in told
      BY <1>5, <2>0
    <3> HIDE DEF t
    <3>5. RecordSettles(record, t, asked, answered, told)
      BY <1>4, <3>2
    <3>6. RecordSettles(ledger'[s], t, asked, answered', told')
      BY <1>1, <3>1, <3>3, <3>4, <3>5 DEF RecordSettles
    <3>7. QED
      BY <3>6 DEF t
  <2>2. CASE s # slot
    <3>1. ledger'[s] = ledger[s] /\ RecordSettles(ledger[s], t, asked, answered, told)
      BY <1>0, <1>2, <2>2 DEF Settling, Settles
    <3>2. /\ t \in answered' <=> t \in answered
          /\ <<t, "Cancel">> \in told' <=> <<t, "Cancel">> \in told
          /\ <<t, "Release">> \in told' <=> <<t, "Release">> \in told
      BY <1>5, <2>0
    <3> HIDE DEF t
    <3>3. RecordSettles(ledger'[s], t, asked, answered', told')
      BY <1>6, <3>1, <3>2 DEF RecordSettles
    <3>4. QED
      BY <3>3 DEF t
  <2>3. QED
    BY <2>1, <2>2
<1>7. Settles(ledger', asked', answered', told')
  BY <1>1, <1>6 DEF Settles, RecordSettles
<1>8. AskedOnce'
  BY <1>0, <1>1, AskedOnceKept DEF Settling, AskedOnce
<1>9. ASSUME NEW h \in Generations PROVE AnswersOf(h)'
  <2>1. ASSUME NEW t \in HeldBy(h) PROVE Tracks(ledger', t)
    <3>1. Tracks(ledger, t) /\ ledger[t.slot].state = "Active"
      BY HeldTracked DEF SettlingInv
    <3>2. t.slot # slot
      BY <1>1, <3>1 DEF record
    <3>3. QED
      BY <1>2, <3>1, <3>2 DEF Tracks
  <2>2. sessions[h].delivered # "None" => sessions[h].waiting \in HeldBy(h)
    BY DEF SettlingInv, HeldInv, Shaped, SessionShaped, HeldBy
  <2>3. sessions[h].pages \subseteq HeldBy(h)
    BY DEF HeldBy
  <2>4. AnswersOf(h)
    BY <1>0 DEF Settling
  <2>5. QED
    BY <1>1, <2>1, <2>2, <2>3, <2>4 DEF AnswersOf
<1>10. ToldTracked(ledger', told')
  BY <1>0, <1>1 DEF Settling, ToldTracked
<1>11. ForgottenWhenSettled
  <2>1. ASSUME NEW t \in Recorded(ledger), ~Tracks(ledger', t)
        PROVE  <<t, "Release">> \in told \/ (<<t, "Cancel">> \in told /\ t \notin answered)
    <3>1. t.slot \in 1..Slots /\ t = Token(t.slot, ledger[t.slot].request) /\ Tracks(ledger, t)
      BY DEF Recorded, Token, Tracks
    <3>2. t.slot = slot
      BY <1>2, <2>1, <3>1 DEF Tracks
    <3>3. t = Token(slot, record.request) /\ ~record.followup
      <4>1. t = Token(slot, record.request)
        BY <3>1, <3>2 DEF record
      <4>2. record.followup => Tracks(ledger', t)
        BY <1>1, <1>3, <4>1 DEF Tracks, Token
      <4>3. QED
        BY <2>1, <4>1, <4>2
    <3>4. QED
      BY <1>1, <1>4, <3>3 DEF RecordSettles
  <2>2. QED
    BY <2>1 DEF ForgottenWhenSettled
<1>12. ToldInTurn
  <2>1. ASSUME NEW s \in 1..Slots, ledger[s].state = "Ready" PROVE ledger'[s].state # "Draining"
    BY <1>1, <1>2, <2>1 DEF record
  <2>2. QED
    BY <2>1 DEF ToldInTurn
<1>13. QED
  BY <1>7, <1>8, <1>9, <1>10, <1>11, <1>12 DEF Settling, SettledStep

LEMMA SettlingKept == SettlingInv /\ [Next]_vars => SettledStep
<1> SUFFICES ASSUME SettlingInv, [Next]_vars PROVE SettledStep
  OBVIOUS
<1>1. ASSUME NEW g \in Generations, SessionStep(g) \/ HostStep(g)
      PROVE  SettledStep
  BY <1>1, SessionStepSettles, HostStepSettles
<1>2. CASE WidgetStep
  BY <1>2, WidgetStepSettles
<1>3. CASE Drain
  BY <1>3, DrainSettles
<1>4. ASSUME NEW token \in Tokens, Acknowledge(token)
      PROVE  SettledStep
  BY <1>4, AcknowledgeSettles
<1>5. CASE UNCHANGED vars
  <2>1. Settling'
    <3>1. AskedOnce'
      BY <1>5, AskedOnceKept DEF vars, work, heard, SettlingInv, Settling, AskedOnce
    <3>2. QED
      BY <1>5, <3>1 DEF vars, work, heard, SettlingInv, Settling, AnswersOf
  <2>2. Kept(ledger, ledger')
    BY <1>5 DEF vars, work, Kept
  <2>3. QED
    BY <2>1, <2>2, KeptFollows DEF SettledStep
<1>6. QED
  BY <1>1, <1>2, <1>3, <1>4, <1>5 DEF Next

\* Whatever is asked of the host is settled with it before the ledger forgets it, and the
\* host is told of each effect once, to cancel only what it has not answered and to release
\* only what it has: cancellations, answers that come late, collisions, adoptions and
\* acknowledgements included (cleanup.rs, prepublication/session.rs).
THEOREM SettledInTurnHolds == Spec => SettledInTurn
<1>1. Init => SettlingInv
  BY InitTyped, InitHeld, InitSettling DEF SettlingInv, HeldInv
<1>2. SettlingInv /\ [Next]_vars => SettlingInv'
  BY NextTyped, HeldKept, SettlingKept DEF SettlingInv, HeldInv, SettledStep
<1>3. SettlingInv /\ [Next]_vars => [ForgottenWhenSettled /\ ToldInTurn]_vars
  BY SettlingKept DEF SettledStep
<1>4. QED
  BY <1>1, <1>2, <1>3, PTL DEF Spec, SettledInTurn
=============================================================================
