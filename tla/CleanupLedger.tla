---------------------------- MODULE CleanupLedger ----------------------------
(* The ledger in which a prepublication environment records what it has asked of the *)
(* host: finitely many slots, each with a record from before the request is shown to *)
(* the host until the host has acknowledged what became of it. The operators are the *)
(* ledger's own functions; the modules that use them keep the ledger as a variable.  *)
EXTENDS Naturals

CONSTANT
  Slots            \* the slots of the ledger

ASSUME SlotsAssumption == Slots \in Nat \ {0}

\* What a record stands for: the n-th request of a session, or its candidate.
NoRequest == [kind |-> "None", gen |-> 0, n |-> 0]

\* A token names a slot and, as its identity, the request that was recorded there.
Token(slot, request) == [slot |-> slot, request |-> request]
NoToken == Token(0, NoRequest)

FreeSlot == [state |-> "Free", request |-> NoRequest, owner |-> "Session",
             delivered |-> FALSE, effect |-> "None", followup |-> FALSE]

EmptyLedger == [slot \in 1..Slots |-> FreeSlot]

Recorded(ledger) ==
  {Token(slot, ledger[slot].request) : slot \in {s \in 1..Slots : ledger[s].state # "Free"}}

\* The token finds its record unless the slot was freed, and perhaps used again.
Tracks(ledger, token) ==
  /\ token.slot \in 1..Slots
  /\ ledger[token.slot].state # "Free"
  /\ ledger[token.slot].request = token.request

HasRoom(ledger) == \E slot \in 1..Slots : ledger[slot].state = "Free"

FirstFree(ledger) ==
  CHOOSE slot \in 1..Slots :
    /\ ledger[slot].state = "Free"
    /\ \A s \in 1..Slots : s < slot => ledger[s].state # "Free"

\* A request takes the first free slot and is bound to it.
Bound(ledger, request) ==
  [ledger EXCEPT ![FirstFree(ledger)] =
     [FreeSlot EXCEPT !.state = "Active", !.request = request]]

\* A session that ends leaves a cancellation for what was not answered and a release
\* for what was.
MarkedReady(record) ==
  IF record.state = "Active"
  THEN [record EXCEPT !.state = "Ready",
                      !.effect = IF record.delivered THEN "Release" ELSE "Cancel"]
  ELSE record

MarkTokens(ledger, tokens) ==
  [slot \in 1..Slots |->
     IF Token(slot, ledger[slot].request) \in tokens THEN MarkedReady(ledger[slot])
                                                     ELSE ledger[slot]]

OfSession(record, gen) == record.owner = "Session" /\ record.request.gen = gen

MarkSession(ledger, gen) ==
  [slot \in 1..Slots |->
     IF OfSession(ledger[slot], gen) THEN MarkedReady(ledger[slot]) ELSE ledger[slot]]

\* Fault: an answer does not change an effect that waits.
AnsweredTooLate(record) ==
  [record EXCEPT !.delivered = @ \/ record.state = "Active",
                 !.followup = @ \/ (record.state = "Draining" /\ record.effect = "Cancel")]

\* An answer turns a cancellation that waits into a release, and lets a release follow
\* a cancellation the host has been told and has not acknowledged.
Answered(record) ==
  [record EXCEPT
     !.delivered = @ \/ record.state = "Active",
     !.effect = IF record.state = "Ready" THEN "Release" ELSE @,
     !.followup = @ \/ (record.state = "Draining" /\ record.effect = "Cancel")]

MarkDelivered(ledger, request) ==
  [slot \in 1..Slots |->
     IF OfSession(ledger[slot], request.gen) /\ ledger[slot].request = request
     THEN Answered(ledger[slot]) ELSE ledger[slot]]

Complete(ledger, token) ==
  IF Tracks(ledger, token) /\ ledger[token.slot].state = "Active"
  THEN [ledger EXCEPT ![token.slot] = FreeSlot] ELSE ledger

GiveTo(ledger, tokens, owner) ==
  [slot \in 1..Slots |->
     IF Token(slot, ledger[slot].request) \in tokens
     THEN [ledger[slot] EXCEPT !.owner = owner] ELSE ledger[slot]]

\* The candidate's own record and those of the pages it takes along.
Promoted(ledger, request, pages) ==
  LET slot == FirstFree(ledger)
  IN GiveTo([ledger EXCEPT ![slot] = [FreeSlot EXCEPT !.state = "Active", !.request = request,
                                                      !.delivered = TRUE]],
            pages \cup {Token(slot, request)}, "Candidate")

Transferable(ledger, token, pages) ==
  \A t \in pages \cup {token} :
    /\ Tracks(ledger, t)
    /\ LET record == ledger[t.slot]
       IN record.owner = "Candidate" /\ record.state = "Active" /\ record.delivered

Transferred(ledger, token, pages) ==
  GiveTo([ledger EXCEPT ![token.slot] = FreeSlot], pages, "Widget")

\* Fault: a record that is still in use holds up those behind it.
FirstUsed(ledger, slot) ==
  /\ ledger[slot].state = "Ready"
  /\ \A s \in 1..Slots : s < slot => ledger[s].state \in {"Free", "Draining"}

\* What a service of the ledger hands to the host, the first slot first.
FirstReady(ledger, slot) ==
  /\ ledger[slot].state = "Ready"
  /\ \A s \in 1..Slots : s < slot => ledger[s].state # "Ready"

HandedOut(ledger, slot) == [ledger EXCEPT ![slot].state = "Draining", ![slot].followup = FALSE]

Acknowledged(ledger, slot) ==
  [ledger EXCEPT ![slot] =
     IF @.followup THEN [@ EXCEPT !.state = "Ready", !.effect = "Release", !.followup = FALSE]
     ELSE FreeSlot]
=============================================================================
