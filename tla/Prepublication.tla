---------------------------- MODULE Prepublication ----------------------------
(* Sessions that realize a publication before a widget shows it, the candidates they *)
(* hand to the host, the widget that adopts one, and the ledger in which all of them *)
(* record what they hold of the host. The host serves a session, answers its         *)
(* requests when and as often as it likes, through any session, cancels or forgets   *)
(* what it pleases, drains the ledger, and publishes new sources meanwhile.          *)
EXTENDS CleanupLedger, FiniteSets

CONSTANTS
  Sources,         \* what the host may publish: a binding with its history
  Kinds,           \* the pages the source has: Page, and Object if it has objects
  Positions,       \* where caret, selection and scroll may be
  AtFirst,         \* the widget there is at first: None, Enabled, Disabled
  Sessions,        \* BOUND: sessions, 1..n in the order of their generations
  MaxAsks,         \* BOUND: the requests of all sessions
  MaxText,         \* the text pages a session keeps
  MaxObjects,      \* the object pages a session keeps
  MaxProtections,  \* BOUND: protections of the widget
  MaxChanges       \* BOUND: changes of the widget and of the published source

ASSUME ConstantsAssumption ==
  /\ Sources \subseteq Nat \ {0} /\ Sources # {}
  /\ Positions # {} /\ Positions \subseteq Nat \ {0}
  /\ "Page" \in Kinds /\ Kinds \subseteq {"Page", "Object"}
  /\ AtFirst \subseteq {"None", "Enabled", "Disabled"}
  /\ Sessions \in Nat /\ MaxAsks \in Nat /\ MaxProtections \in Nat /\ MaxChanges \in Nat
  /\ MaxText \in Nat \ {0} /\ MaxObjects \in Nat \ {0}

VARIABLES
  ledger,          \* the records of the ledger's slots
  sessions,        \* the sessions by generation
  candidates,      \* the candidate of each session and who has it
  reservations,    \* what the host reserved of the widget for a session
  widget,          \* the widget that adopts and is replaced
  published,       \* the source the host has now
  asked,           \* history: requests shown to the host, by token
  answered,        \* history: those in the ledger that were answered
  told,            \* history: effects handed to the host, of those in the ledger
  altered,         \* history: protections whose widget was changed since
  changes          \* the changes counted against MaxChanges

work == <<ledger, sessions, candidates>>
heard == <<asked, answered, told>>
vars == <<work, reservations, widget, published, heard, altered, changes>>

Generations == 1..Sessions
Seeds == [source : Sources, position : Positions]
NoSeed == [source |-> 0, position |-> 0]

Fresh == [stage |-> "None", seed |-> NoSeed, waiting |-> NoToken, delivered |-> "None",
          admitted |-> "None", needs |-> "Page", complete |-> FALSE, pages |-> {}, asked |-> 0]
NoCandidate == [place |-> "None", token |-> NoToken, pages |-> {}]
NoReservation == [open |-> FALSE, generation |-> 0, cut |-> NoSeed, mode |-> "Preserved"]

First(names) == CHOOSE name \in names : \A other \in names : name <= other

\* A widget of the host that shows the published source, with a page of a session before.
EarlierPage == Token(1, [kind |-> "Page", gen |-> 0, n |-> 1])

Resident(seed, enabled, pages) ==
  [life |-> "Mounted", enabled |-> enabled, source |-> seed.source, shown |-> seed,
   protection |-> 0, cut |-> NoSeed, captured |-> seed.source, invalidated |-> FALSE,
   generation |-> 0, pages |-> pages]

NoWidget == [Resident(NoSeed, TRUE, {}) EXCEPT !.life = "None"]

Init ==
  /\ published = First(Sources)
  /\ \/ /\ "None" \in AtFirst
        /\ widget = NoWidget
        /\ ledger = EmptyLedger /\ asked = {} /\ answered = {}
     \/ \E first \in AtFirst \ {"None"} :
        /\ widget = Resident([source |-> published, position |-> First(Positions)],
                             first = "Enabled", {EarlierPage})
        /\ ledger = [EmptyLedger EXCEPT ![1] =
                       [FreeSlot EXCEPT !.state = "Active", !.request = EarlierPage.request,
                                        !.owner = "Widget", !.delivered = TRUE]]
        /\ asked = {EarlierPage} /\ answered = {EarlierPage}
  /\ sessions = [g \in Generations |-> Fresh]
  /\ candidates = [g \in Generations |-> NoCandidate]
  /\ reservations = [g \in Generations |-> NoReservation]
  /\ told = {}
  /\ altered = {} /\ changes = 0

------------------------------------------------------------------------------
(* The session.                                                                *)

Live(g) == sessions[g].stage \notin {"None", "Dropped"}

Over(stage) == stage \in {"Ready", "Cancelled", "Failed", "CandidateTaken"}

\* A session can take a step of its own: nothing is out, and nothing has come in.
Idle(g) ==
  /\ sessions[g].waiting = NoToken
  /\ sessions[g].delivered = "None"
  /\ sessions[g].admitted = "None"

OfKind(tokens, kind) == {t \in tokens : t.request.kind = kind}

Scanning(g) == sessions[g].stage \in {"Index", "Target"} /\ ~sessions[g].complete

\* What the session may ask for at its stage.
Asks(g, kind) ==
  \/ sessions[g].stage = "Initializing" /\ kind = "Validation"
  \/ sessions[g].stage = "Restoration" /\ kind \in Kinds
  \/ Scanning(g) /\ kind = sessions[g].needs

Begins(g, seed) ==
  /\ sessions[g].stage = "None"
  /\ \A h \in Generations : h < g => sessions[h].stage # "None"
  /\ sessions' = [sessions EXCEPT ![g].stage = "Initializing", ![g].seed = seed]

\* RangePrepublicationSession::new
New(g, seed) ==
  /\ Begins(g, seed)
  /\ UNCHANGED <<ledger, candidates, reservations, widget, published, heard, altered, changes>>

\* A service that finds a free slot records the request and shows it to the host.
Ask(g, kind) ==
  LET request == [kind |-> kind, gen |-> g, n |-> sessions[g].asked + 1]
      token == Token(FirstFree(ledger), request)
  IN /\ Idle(g) /\ Asks(g, kind)
     /\ Cardinality({t \in asked : t.request.gen # 0}) < MaxAsks
     /\ HasRoom(ledger)
     /\ ledger' = Bound(ledger, request)
     /\ sessions' = [sessions EXCEPT
          ![g].stage = IF kind = "Validation" THEN "Validating" ELSE @,
          ![g].waiting = token, ![g].asked = @ + 1]
     /\ asked' = asked \cup {token}
     /\ UNCHANGED <<candidates, reservations, widget, published,
                    answered, told, altered, changes>>

\* The page the geometry needs is resident: it is admitted without a request.
UseResident(g) ==
  /\ Idle(g) /\ Scanning(g)
  /\ OfKind(sessions[g].pages, sessions[g].needs) # {}
  /\ sessions' = [sessions EXCEPT ![g].admitted = sessions[g].needs]
  /\ UNCHANGED <<ledger, candidates, reservations, widget, published, heard, altered, changes>>

\* The restoration is validated: its pages go, the geometry index starts.
BeginIndex(g) ==
  /\ Idle(g) /\ sessions[g].stage = "Restoration"
  /\ ledger' = MarkTokens(ledger, sessions[g].pages)
  /\ sessions' = [sessions EXCEPT ![g].stage = "Index", ![g].pages = {}]
  /\ UNCHANGED <<candidates, reservations, widget, published, heard, altered, changes>>

\* Fault: the records of a candidate, which are not the session's any more, are forgotten.
ReleasedOwn(g) == MarkSession(ledger, g)

\* A session lets go of all it has, its candidate included: the candidate's records are
\* its own to mark.
ReleasedBy(g) ==
  MarkTokens(MarkSession(ledger, g),
             IF candidates[g].place = "Session"
             THEN candidates[g].pages \cup {candidates[g].token} ELSE {})

CandidateOf(g) ==
  IF candidates[g].place = "Session" THEN [NoCandidate EXCEPT !.place = "Gone"] ELSE candidates[g]

LocalOwnersReleased(g, stage) ==
  [Fresh EXCEPT !.stage = stage, !.seed = sessions[g].seed, !.asked = sessions[g].asked]

Ends(g, stage) ==
  /\ ledger' = ReleasedBy(g)
  /\ sessions' = [sessions EXCEPT ![g] = LocalOwnersReleased(g, stage)]
  /\ candidates' = [candidates EXCEPT ![g] = CandidateOf(g)]

\* A service that finds an error, a capacity that can never fit, or another text system.
Fail(g) ==
  /\ Live(g) /\ sessions[g].stage # "Failed"
  /\ Ends(g, "Failed")
  /\ UNCHANGED <<reservations, widget, published, heard, altered, changes>>

Cancel(g) ==
  /\ Live(g) /\ sessions[g].stage # "Cancelled"
  /\ Ends(g, "Cancelled")
  /\ UNCHANGED <<reservations, widget, published, heard, altered, changes>>

Drop(g) ==
  /\ Live(g)
  /\ Ends(g, "Dropped")
  /\ UNCHANGED <<reservations, widget, published, heard, altered, changes>>

\* An answer is marked in the ledger whatever session it comes through; the session that
\* waits for it keeps it until it is served, and another like it is a collision.
Deliver(token, through, good) ==
  LET g == token.request.gen
      marked == MarkDelivered(ledger, token.request)
      waits == g = through /\ ~Over(sessions[g].stage) /\ sessions[g].waiting = token
  IN /\ token \in asked /\ Live(through)
     /\ token.request.kind = "Validation" => good = (sessions[g].seed.source = published)
     /\ answered' = IF Tracks(ledger, token) THEN answered \cup {token} ELSE answered
     /\ \/ /\ waits /\ sessions[g].delivered = "None" /\ sessions[g].admitted = "None"
           /\ sessions' = [sessions EXCEPT ![g].delivered = IF good THEN "Good" ELSE "Bad"]
           /\ ledger' = marked
        \/ /\ waits /\ (sessions[g].delivered # "None" \/ sessions[g].admitted # "None")
           /\ sessions' = [sessions EXCEPT ![g] = LocalOwnersReleased(g, "Failed")]
           /\ ledger' = MarkSession(marked, g)
        \/ /\ ~waits
           /\ ledger' = marked
           /\ UNCHANGED sessions
     /\ UNCHANGED <<candidates, reservations, widget, published, asked, told, altered, changes>>

\* The owner's answer to the validation: current, of the same binding and history.
AcceptValidation(g) ==
  LET token == sessions[g].waiting
  IN /\ sessions[g].delivered = "Good" /\ token.request.kind = "Validation"
     /\ ledger' = Complete(ledger, token)
     /\ answered' = answered \ {token}
     /\ sessions' = [sessions EXCEPT ![g].stage = "Restoration", ![g].waiting = NoToken,
                                     ![g].delivered = "None"]
     /\ UNCHANGED <<candidates, reservations, widget, published, asked, told,
                    altered, changes>>

Room(kind) == IF kind = "Page" THEN MaxText ELSE MaxObjects

\* A page becomes resident in place of some of its kind, whose custody ends. The
\* restoration is done with it; the geometry keeps it as the response to prepare.
AdmitPage(g) ==
  LET token == sessions[g].waiting
      kind == token.request.kind
  IN /\ sessions[g].delivered = "Good" /\ kind \in Kinds
     /\ \E kept \in SUBSET OfKind(sessions[g].pages, kind) :
          /\ Cardinality(kept) < Room(kind)
          /\ LET evicted == OfKind(sessions[g].pages, kind) \ kept
             IN /\ ledger' = MarkTokens(ledger, evicted)
                /\ sessions' = [sessions EXCEPT
                     ![g].pages = (@ \ evicted) \cup {token},
                     ![g].delivered = "None",
                     ![g].waiting = IF Scanning(g) THEN token ELSE NoToken,
                     ![g].admitted = IF Scanning(g) THEN kind ELSE "None"]
     /\ UNCHANGED <<candidates, reservations, widget, published, heard, altered, changes>>

Refuse(g) ==
  /\ sessions[g].delivered = "Bad"
  /\ Ends(g, "Failed")
  /\ UNCHANGED <<reservations, widget, published, heard, altered, changes>>

Served(g) == [sessions[g] EXCEPT !.admitted = "None", !.waiting = NoToken]

\* The geometry goes on with the response; the text page may need its objects first.
ContinueScan(g, needs) ==
  /\ sessions[g].admitted # "None"
  /\ sessions' = [sessions EXCEPT ![g] = [Served(g) EXCEPT !.needs = needs]]
  /\ UNCHANGED <<ledger, candidates, reservations, widget, published, heard, altered, changes>>

\* The index is complete: its pages go, the target starts.
CompleteIndex(g) ==
  /\ sessions[g].admitted # "None" /\ sessions[g].stage = "Index"
  /\ ledger' = MarkTokens(ledger, sessions[g].pages)
  /\ sessions' = [sessions EXCEPT ![g] =
       [Served(g) EXCEPT !.stage = "Target", !.needs = "Page", !.pages = {}]]
  /\ UNCHANGED <<candidates, reservations, widget, published, heard, altered, changes>>

\* The target is complete and its candidate has to wait, for a slot or for capacity.
CompleteTarget(g) ==
  /\ sessions[g].admitted # "None" /\ sessions[g].stage = "Target"
  /\ sessions' = [sessions EXCEPT ![g] = [Served(g) EXCEPT !.complete = TRUE]]
  /\ UNCHANGED <<ledger, candidates, reservations, widget, published, heard, altered, changes>>

\* The candidate takes a slot of its own and the session's pages, in the service that
\* completes the target or in a later one.
FinishCandidate(g) ==
  LET request == [kind |-> "Candidate", gen |-> g, n |-> 0]
  IN /\ sessions[g].stage = "Target"
     /\ sessions[g].admitted # "None" \/ sessions[g].complete
     /\ HasRoom(ledger)
     /\ ledger' = Promoted(ledger, request, sessions[g].pages)
     /\ candidates' = [candidates EXCEPT ![g] =
          [place |-> "Session", token |-> Token(FirstFree(ledger), request),
           pages |-> sessions[g].pages]]
     /\ sessions' = [sessions EXCEPT ![g] =
          [Served(g) EXCEPT !.stage = "Ready", !.complete = TRUE, !.pages = {}]]
     /\ UNCHANGED <<reservations, widget, published, heard, altered, changes>>

TakeCandidate(g) ==
  /\ sessions[g].stage = "Ready"
  /\ candidates[g].place = "Session"
  /\ sessions' = [sessions EXCEPT ![g].stage = "CandidateTaken"]
  /\ candidates' = [candidates EXCEPT ![g].place = "Host"]
  /\ UNCHANGED <<ledger, reservations, widget, published, heard, altered, changes>>

CandidateDropped(g) ==
  /\ ledger' = MarkTokens(ledger, candidates[g].pages \cup {candidates[g].token})
  /\ candidates' = [candidates EXCEPT ![g] = [NoCandidate EXCEPT !.place = "Gone"]]

DropCandidate(g) ==
  /\ candidates[g].place = "Host"
  /\ CandidateDropped(g)
  /\ UNCHANGED <<sessions, reservations, widget, published, heard, altered, changes>>

------------------------------------------------------------------------------
(* The widget and its protection.                                              *)

\* Fault: a protection is known by what it protects.
ProtectsCut(generation, cut) ==
  /\ widget.life = "Mounted" /\ ~widget.enabled
  /\ widget.protection # 0 /\ widget.cut = cut
  /\ ~widget.invalidated
  /\ widget.shown = cut
  /\ widget.source = widget.captured

\* The cut the host holds is still what the widget shows: the same protection, nothing
\* changed, and what it would export now is what it exported then.
ProtectionIsCurrent(generation, cut) ==
  /\ widget.life = "Mounted" /\ ~widget.enabled
  /\ widget.protection # 0 /\ widget.protection = generation /\ widget.cut = cut
  /\ ~widget.invalidated
  /\ widget.shown = cut
  /\ widget.source = widget.captured

\* A disabled widget that shows something is protected; the protection names what it
\* shows, of the widget's own source, or of the source it has published last.
Protect(ofPublished) ==
  /\ widget.life = "Mounted" /\ ~widget.enabled /\ widget.protection = 0
  /\ widget.shown # NoSeed
  /\ ofPublished \/ widget.shown.source = widget.source
  /\ widget.generation < MaxProtections
  /\ widget' = [widget EXCEPT !.generation = @ + 1, !.protection = widget.generation + 1,
                              !.cut = widget.shown, !.captured = widget.source,
                              !.invalidated = FALSE]
  /\ UNCHANGED <<work, reservations, published, heard, altered, changes>>

ReleaseProtection ==
  /\ widget.life = "Mounted" /\ widget.protection # 0
  /\ widget' = [widget EXCEPT !.protection = 0]
  /\ UNCHANGED <<work, reservations, published, heard, altered, changes>>

\* Everything that changes the widget counts; protections so far are of a widget that was.
Alters ==
  /\ changes < MaxChanges
  /\ changes' = changes + 1
  /\ altered' = 1..widget.generation

Unprotected == widget.life = "Mounted" /\ widget.protection = 0

SetEnabled ==
  /\ Unprotected
  /\ widget' = [widget EXCEPT !.enabled = ~@]
  /\ Alters
  /\ UNCHANGED <<work, reservations, published, heard>>

\* A layout, a presentation or a size that is not the widget's any more is refused while
\* the widget is protected, and what was prepared beside it is of no use.
EnvironmentChange ==
  /\ widget.life = "Mounted" /\ widget.protection # 0
  /\ widget' = [widget EXCEPT !.invalidated = TRUE]
  /\ Alters
  /\ UNCHANGED <<work, reservations, published, heard>>

\* The widget follows the host to another source; it shows the old one until it can
\* publish the new one.
Rebind ==
  /\ Unprotected
  /\ widget.source # published
  /\ widget' = [widget EXCEPT !.source = published]
  /\ altered' = 1..widget.generation
  /\ UNCHANGED <<work, reservations, published, heard, changes>>

\* The custody of what the widget shows ends when it is replaced.
WidgetReleased(records) == MarkTokens(records, widget.pages)

PagesReleased == ledger' = WidgetReleased(ledger)

\* A publication of the widget's own, of its source and wherever it has moved to.
Publish(position) ==
  /\ Unprotected
  /\ PagesReleased
  /\ widget' = [widget EXCEPT !.shown = [source |-> widget.source, position |-> position],
                              !.pages = {}]
  /\ Alters
  /\ UNCHANGED <<sessions, candidates, reservations, published, heard>>

\* A restoration seed is imported: nothing is shown until it is validated.
ImportRestoration ==
  /\ Unprotected
  /\ PagesReleased
  /\ widget' = [widget EXCEPT !.shown = NoSeed, !.pages = {}]
  /\ Alters
  /\ UNCHANGED <<sessions, candidates, reservations, published, heard>>

Dispose ==
  /\ widget.life = "Mounted"
  /\ PagesReleased
  /\ widget' = [widget EXCEPT !.life = "Disposed", !.protection = 0, !.shown = NoSeed,
                              !.pages = {}]
  /\ altered' = 1..widget.generation
  /\ UNCHANGED <<sessions, candidates, reservations, published, heard, changes>>

\* The host edits its document, or undoes to what it had before.
PublishSource(source) ==
  /\ source # published /\ changes < MaxChanges
  /\ published' = source
  /\ changes' = changes + 1
  /\ UNCHANGED <<work, reservations, widget, heard, altered>>

------------------------------------------------------------------------------
(* Reservation and adoption.                                                   *)

PreservesPositions(seed, cut) == seed.position = cut.position

\* A session is prepared to replace what the protected widget shows, at the positions it
\* shows, or to replace its source.
PrepareSuccessor(g, seed, mode) ==
  /\ ProtectionIsCurrent(widget.protection, widget.cut)
  /\ mode = "Preserved" => PreservesPositions(seed, widget.cut)
  /\ Begins(g, seed)
  /\ reservations' = [reservations EXCEPT ![g] =
       [open |-> TRUE, generation |-> widget.protection, cut |-> widget.cut, mode |-> mode]]
  /\ UNCHANGED <<ledger, candidates, widget, published, heard, altered, changes>>

\* What the host says is current when it adopts is the source it has now.
StillCurrent(g) == sessions[g].seed.source = published

AcceptsCandidate(r, g) ==
  /\ r = g
  /\ reservations[r].mode = "Preserved" =>
       PreservesPositions(sessions[g].seed, reservations[r].cut)

Adopted(g) ==
  /\ Transferable(ledger, candidates[g].token, candidates[g].pages)
  /\ candidates' = [candidates EXCEPT ![g] = [NoCandidate EXCEPT !.place = "Adopted"]]

\* A new widget is made of the candidate.
AdoptFresh(g) ==
  /\ candidates[g].place = "Host" /\ widget.life = "None"
  /\ StillCurrent(g)
  /\ Adopted(g)
  /\ ledger' = Transferred(ledger, candidates[g].token, candidates[g].pages)
  /\ widget' = [widget EXCEPT !.life = "Mounted", !.source = sessions[g].seed.source,
                              !.shown = sessions[g].seed, !.pages = candidates[g].pages]
  /\ UNCHANGED <<sessions, reservations, published, heard, altered, changes>>

\* The candidate takes the place of what the protected widget shows; the pages of what it
\* showed are released. The old protection is of no use, or a new one takes its place.
AdoptResident(r, g, protects) ==
  LET reserved == reservations[r]
      protection == widget.generation + 1
  IN /\ reserved.open /\ candidates[g].place = "Host"
     /\ ProtectionIsCurrent(reserved.generation, reserved.cut)
     /\ AcceptsCandidate(r, g)
     /\ protects \/ reserved.mode = "Preserved"
     /\ protects => widget.generation < MaxProtections
     /\ StillCurrent(g)
     /\ Adopted(g)
     /\ ledger' = WidgetReleased(Transferred(ledger, candidates[g].token, candidates[g].pages))
     /\ reservations' = [reservations EXCEPT ![r] = NoReservation]
     /\ widget' = [widget EXCEPT
          !.source = sessions[g].seed.source, !.shown = sessions[g].seed,
          !.pages = candidates[g].pages,
          !.generation = IF protects THEN protection ELSE @,
          !.protection = IF protects THEN protection ELSE @,
          !.cut = IF protects THEN sessions[g].seed ELSE @,
          !.captured = IF protects THEN sessions[g].seed.source ELSE @,
          !.invalidated = ~protects]
     /\ altered' = 1..widget.generation
     /\ UNCHANGED <<sessions, published, heard, changes>>

\* An adoption that is refused, for what changed or for capacity, takes the reservation
\* and the candidate with it.
RefuseAdoption(r, g) ==
  /\ reservations[r].open /\ candidates[g].place = "Host"
  /\ CandidateDropped(g)
  /\ reservations' = [reservations EXCEPT ![r] = NoReservation]
  /\ UNCHANGED <<sessions, widget, published, heard, altered, changes>>

------------------------------------------------------------------------------
(* The host and the ledger.                                                    *)

Drain ==
  \E slot \in 1..Slots :
    /\ FirstReady(ledger, slot)
    /\ ledger' = HandedOut(ledger, slot)
    /\ told' = told \cup {<<Token(slot, ledger[slot].request), ledger[slot].effect>>}
    /\ UNCHANGED <<sessions, candidates, reservations, widget, published,
                   asked, answered, altered, changes>>

\* The host acknowledges what it was told, again if it likes.
Acknowledge(token) ==
  /\ \E effect \in {"Cancel", "Release"} : <<token, effect>> \in told
  /\ Tracks(ledger, token) /\ ledger[token.slot].state = "Draining"
  /\ ledger' = Acknowledged(ledger, token.slot)
  /\ told' = {e \in told : Tracks(ledger', e[1])}
  /\ answered' = {t \in answered : Tracks(ledger', t)}
  /\ UNCHANGED <<sessions, candidates, reservations, widget, published, asked,
                 altered, changes>>

Tokens == {e[1] : e \in told}

SessionStep(g) ==
  \/ \E kind \in {"Validation"} \cup Kinds : Ask(g, kind)
  \/ UseResident(g) \/ BeginIndex(g)
  \/ AcceptValidation(g) \/ AdmitPage(g) \/ Refuse(g)
  \/ \E needs \in Kinds : ContinueScan(g, needs)
  \/ CompleteIndex(g) \/ CompleteTarget(g) \/ FinishCandidate(g)
  \/ Fail(g)

HostStep(g) ==
  \/ \E seed \in Seeds : New(g, seed)
  \/ \E seed \in Seeds, mode \in {"Preserved", "Replacement"} : PrepareSuccessor(g, seed, mode)
  \/ \E token \in asked, good \in BOOLEAN : Deliver(token, g, good)
  \/ Cancel(g) \/ Drop(g) \/ TakeCandidate(g) \/ DropCandidate(g) \/ AdoptFresh(g)
  \/ \E r \in Generations : RefuseAdoption(r, g)
  \/ \E r \in Generations, protects \in BOOLEAN : AdoptResident(r, g, protects)

WidgetStep ==
  \/ \E ofPublished \in BOOLEAN : Protect(ofPublished)
  \/ ReleaseProtection \/ SetEnabled \/ EnvironmentChange \/ Rebind
  \/ \E position \in Positions : Publish(position)
  \/ ImportRestoration \/ Dispose
  \/ \E source \in Sources : PublishSource(source)

Next ==
  \/ \E g \in Generations : SessionStep(g) \/ HostStep(g)
  \/ WidgetStep
  \/ Drain
  \/ \E token \in Tokens : Acknowledge(token)

Spec == Init /\ [][Next]_vars

\* The host drains the ledger and acknowledges what it was told.
FairSpec ==
  Spec /\ WF_vars(Drain) /\ WF_vars(\E token \in Tokens : Acknowledge(token))

------------------------------------------------------------------------------
(* Properties.                                                                 *)

HeldBy(g) == sessions[g].pages \cup ({sessions[g].waiting} \ {NoToken})

CandidateHolds(g) == candidates[g].pages \cup ({candidates[g].token} \ {NoToken})

ActiveOf(owner, gen) ==
  {Token(slot, ledger[slot].request) : slot \in
     {s \in 1..Slots : /\ ledger[s].state = "Active" /\ ledger[s].owner = owner
                      /\ ledger[s].request.gen = gen}}

\* What the ledger calls active is held, by the owner it names, and what anyone holds is
\* active: no page is given back while it is used, and none is forgotten.
HeldExactly ==
  /\ \A g \in Generations :
       /\ ActiveOf("Session", g) = HeldBy(g)
       /\ ActiveOf("Candidate", g) = CandidateHolds(g)
  /\ UNION {ActiveOf("Widget", g) : g \in Generations \cup {0}} = widget.pages

\* The ledger forgets a request only when a session accepted it as its validation, or the
\* host was told to release it, or to cancel it when it had not been answered; and a
\* candidate only when it was adopted, or released.
ForgottenWhenSettled ==
  \A token \in Recorded(ledger) : ~Tracks(ledger', token) =>
       \/ <<token, "Release">> \in told
       \/ <<token, "Cancel">> \in told /\ token \notin answered
       \/ \E g \in Generations :
            \/ sessions[g].waiting = token /\ sessions'[g].stage = "Restoration"
            \/ candidates[g].token = token /\ candidates'[g].place = "Adopted"

\* The host is told of each effect once: to cancel only what it has not answered, and to
\* release only what it has.
ToldInTurn ==
  \A slot \in 1..Slots :
       (ledger[slot].state = "Ready" /\ ledger'[slot].state = "Draining") =>
         LET token == Token(slot, ledger[slot].request)
             effect == ledger[slot].effect
         IN /\ <<token, effect>> \notin told
            /\ token.request.kind # "Candidate" =>
                 (effect = "Release") = (token \in answered)

\* Whatever is asked of the host is settled with it, once and truly, before it is forgotten.
SettledInTurn == [][ForgottenWhenSettled /\ ToldInTurn]_vars

\* A resident adoption finds the widget as it was when it was reserved, whatever happened
\* in between, and the published source in the candidate.
AdoptsOnItsCut ==
  [][\A r \in Generations :
       (/\ reservations[r].open /\ ~reservations'[r].open
        /\ \E g \in Generations : candidates'[g].place # candidates[g].place
                                /\ candidates'[g].place = "Adopted") =>
         /\ reservations[r].generation \notin altered
         /\ widget.shown = reservations[r].cut
         /\ widget'.shown = sessions[r].seed
         /\ widget'.shown.source = published
         /\ reservations[r].mode = "Preserved" =>
              widget'.shown.position = widget.shown.position]_vars

Abandoned(g) ==
  /\ sessions[g].stage \in {"Cancelled", "Failed", "Dropped"}
  /\ candidates[g].place \notin {"Session", "Host"}
  /\ \A token \in widget.pages : token.request.gen # g

\* Whatever an abandoned session had asked for leaves the ledger.
LedgerDrains ==
  \A g \in Generations :
    Abandoned(g) ~> (\A token \in Recorded(ledger) : token.request.gen # g)
=============================================================================
