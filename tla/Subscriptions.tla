---------------------------- MODULE Subscriptions ----------------------------
(***************************************************************************)
(* The subscription row of one user, written from two sides: by the events *)
(* of the payment providers, each an HTTP request that the provider sends  *)
(* again until it is answered, in any order, and by the user's own         *)
(* requests, of which the providers are never told.  No handler uses a     *)
(* transaction.                                                            *)
(***************************************************************************)
EXTENDS Naturals, FiniteSets, Sequences

CONSTANTS
  Checkouts,  \* the provider-side subscriptions the user may open
  Offers,     \* the providers and tiers that checkouts are opened for
  Handlers,   \* provider events being handled
  Users,      \* requests of the user being handled
  RawBody,    \* whether the application keeps the raw body of a request
  MaxEvents,  \* bound: events the providers send
  MaxFaults,  \* bound: handlers that fail, die, or outlive the provider's patience
  MaxAsks     \* bound: requests of the user

Providers == {"stripe", "paypal", "lemonsqueezy"}
PaidTiers == {"pro", "enterprise"}

ASSUME SubscriptionsAssumption ==
  /\ Offers \subseteq [provider : Providers, tier : PaidTiers] /\ Offers # {}
  /\ "none" \notin Checkouts
  /\ RawBody \in BOOLEAN
  /\ MaxEvents \in Nat /\ MaxFaults \in Nat /\ MaxAsks \in Nat

VARIABLES
  sub,      \* the Subscription row of the user
  payments, \* the Payment rows of each invoice; an invoice is named by its event
  renewed,  \* the invoices for which the period was extended and the usage reset
  via,      \* where each checkout is paid and what for
  paying,   \* what the provider holds of each checkout
  sent,     \* the events the providers have sent
  answered, \* the ids of those answered 200
  handler,  \* what each event handler is executing
  asked,    \* what each request of the user has found and is about to write
  asks, faults,
  orderly   \* no event out of turn, one checkout at a time, no write of the user's own

vars == <<sub, payments, renewed, via, paying, sent, answered, handler, asked, asks, faults,
          orderly>>

providerSide == <<via, paying, sent>>
ledger       == <<payments, renewed>>
userSide     == <<asked, asks>>

-----------------------------------------------------------------------------
(* Data                                                                    *)

Tiers    == {"free"} \cup PaidTiers
Statuses == {"active", "canceled", "past_due"}

NoRow  == [tier |-> "none"]
Nobody == "none"

\* externalCustomerId is an account of the user at a provider, one at each.
Row == [tier : Tiers, status : Statuses, cancelling : BOOLEAN,
        ext : Checkouts \cup {Nobody}, cust : Providers \cup {Nobody}]

FreeRow == [tier |-> "free", status |-> "active", cancelling |-> FALSE,
            ext |-> Nobody, cust |-> Nobody]

\* What the provider holds of a checkout that was paid and has not ended.
Live == {"active", "past_due", "unpaid", "cancelling"}
ProviderStates == {"none", "ended"} \cup Live

Kinds == {"started", "updated", "deleted", "paid", "failed"}
Event == [id : 1..MaxEvents, kind : Kinds, of : Checkouts, state : ProviderStates]

\* A handler at work: the step it is at, and its event.
Work == [pc : {"begun", "found", "recorded", "answer"}, event : Event]
Idle == [pc |-> "idle"]

Asks == {"none", "cancelNow", "cancelLater", "resume"}

\* Mutant of GrantedTier: the tier the event names is not read, and every checkout is a 'pro'.
GrantedTierPro(c) == "pro"

\* PayPal's checkout is not told the tier, so its event names none: the code takes 'pro'.
GrantedTier(c) == IF via[c].provider = "paypal" THEN "pro" ELSE via[c].tier

\* Mutant of MapStatus: the provider's words are kept.
MapStatusRaw(s) == s

\* mapProviderStatus: what it does not know is active.  A subscription that ends with its
\* period is still active to the provider.
MapStatus(s) == IF s = "past_due" THEN "past_due" ELSE "active"

\* The customer an invoice names.  PayPal's names the agreement, never the stored email.
Payer(e) == IF via[e.of].provider = "paypal" THEN "agreement" ELSE via[e.of].provider

\* findFirst by externalCustomerId.
PayerFound(e) == sub # NoRow /\ sub.cust = Payer(e)

-----------------------------------------------------------------------------
(* The providers                                                           *)

Init ==
  /\ sub \in {NoRow, FreeRow}
  /\ payments = [i \in 1..MaxEvents |-> 0]
  /\ renewed = {}
  /\ via = [c \in Checkouts |-> CHOOSE o \in Offers : TRUE]
  /\ paying = [c \in Checkouts |-> "none"]
  /\ sent = {}
  /\ answered = {}
  /\ handler = [h \in Handlers |-> Idle]
  /\ asked = [u \in Users |-> "none"]
  /\ asks = 0
  /\ faults = 0
  /\ orderly = TRUE

\* The events of a change that the application handles, in the order in which they happen.
Told(p, change) ==
  CASE change = "pay"     -> <<"started", "paid">>
    [] change = "renew"   -> <<"paid">>
    [] change = "end"     -> <<"deleted">>
    [] change = "decline" -> IF p = "stripe" THEN <<"updated", "failed">>
                             ELSE IF p = "lemonsqueezy" THEN <<"updated">> ELSE <<>>
    [] change = "recover" -> IF p = "paypal" THEN <<"paid">> ELSE <<"updated", "paid">>
    [] OTHER              -> IF p = "paypal" THEN <<>> ELSE <<"updated">>

Emitted == Cardinality(sent)

Change(c, to, change) ==
  LET kinds == Told(via'[c].provider, change)
  IN /\ Emitted + Len(kinds) <= MaxEvents
     /\ paying' = [paying EXCEPT ![c] = to]
     /\ sent' = sent \cup {[id |-> Emitted + i, kind |-> kinds[i], of |-> c, state |-> to] :
                           i \in DOMAIN kinds}
     /\ UNCHANGED <<sub, ledger, answered, handler, userSide, faults>>

\* createCheckout asks the provider for a session, whatever the user's row says and without
\* a trace in it; then the user pays.
Checkout(c, o) ==
  /\ paying[c] = "none"
  /\ via' = [via EXCEPT ![c] = o]
  /\ Change(c, "active", "pay")
  /\ orderly' = (orderly /\ \A d \in Checkouts : paying[d] \notin Live)

Go(c, from, to, change) == /\ paying[c] \in from
                           /\ UNCHANGED <<via, orderly>>
                           /\ Change(c, to, change)

Renew(c)   == Go(c, {"active"}, "active", "renew")
Decline(c) == Go(c, {"active"}, "past_due", "decline")
Recover(c) == Go(c, {"past_due"}, "active", "recover")
GiveUp(c)  == Go(c, {"past_due"}, "unpaid", "giveUp")

\* createPortalSession leads the customer the row names to Stripe's portal, and what ends
\* there ends with its period; the other providers' subscriptions end when cancelled.
PortalCancel(c) ==
  /\ sub # NoRow /\ sub.cust = "stripe" /\ via[c].provider = "stripe"
  /\ Go(c, {"active"}, "cancelling", "cancel")

EndAtProvider(c) ==
  Go(c, IF via[c].provider = "stripe" THEN Live \ {"active"} ELSE Live, "ended", "end")

-----------------------------------------------------------------------------
(* Handling an event                                                       *)

Goto(h, pc) == handler' = [handler EXCEPT ![h].pc = pc]

At(h, pc, kinds) == /\ handler[h] # Idle
                    /\ handler[h].pc = pc
                    /\ handler[h].event.kind \in kinds

Pending == {e \in sent : e.id \notin answered}

\* The request arrives, and its signature is checked against the raw body: without one it is
\* answered 500 and stays to be sent again.  A provider that has lost patience sends an event
\* that is still being handled.
Receive(h, e) ==
  LET again == \E g \in Handlers : handler[g] # Idle /\ handler[g].event = e
  IN /\ RawBody
     /\ e \in Pending
     /\ handler[h] = Idle
     /\ again => faults < MaxFaults
     /\ faults' = IF again THEN faults + 1 ELSE faults
     /\ handler' = [handler EXCEPT ![h] = [pc |-> "begun", event |-> e]]
     /\ orderly' = /\ orderly
                   /\ \A g \in Handlers : handler[g] = Idle
                   /\ \A d \in Pending : d.id >= e.id
     /\ UNCHANGED <<sub, ledger, providerSide, answered, userSide>>

\* handleCheckoutComplete: an upsert.  Every provider is handed the user when the checkout is
\* opened and names them in its events: one that names nobody is of no checkout here, and this
\* and the next two handlers return from it with nothing written.
CheckoutComplete(h) ==
  LET c == handler[h].event.of
  IN /\ At(h, "begun", {"started"})
     /\ sub' = [tier |-> GrantedTier(c), status |-> "active", cancelling |-> FALSE,
                ext |-> c, cust |-> via[c].provider]
     /\ Goto(h, "answer")
     /\ UNCHANGED <<ledger, providerSide, answered, userSide, faults, orderly>>

\* Mutant of SubscriptionUpdate: the status alone is taken over.
SubscriptionUpdateStatusOnly(h) ==
  /\ At(h, "begun", {"updated"})
  /\ sub' = IF sub = NoRow THEN sub
            ELSE [sub EXCEPT !.status = MapStatus(handler[h].event.state)]
  /\ Goto(h, "answer")
  /\ UNCHANGED <<ledger, providerSide, answered, userSide, faults, orderly>>

\* handleSubscriptionUpdate: updateMany by the user, whichever subscription the event is of.
SubscriptionUpdate(h) ==
  LET e == handler[h].event
  IN /\ At(h, "begun", {"updated"})
     /\ sub' = IF sub = NoRow THEN sub
               ELSE [sub EXCEPT !.status = MapStatus(e.state),
                                !.cancelling = (e.state = "cancelling")]
     /\ Goto(h, "answer")
     /\ UNCHANGED <<ledger, providerSide, answered, userSide, faults, orderly>>

\* Mutant of SubscriptionDeleted: the ids at the provider are cleared, the tier is not.
SubscriptionDeletedKeepingTier(h) ==
  /\ At(h, "begun", {"deleted"})
  /\ sub' = IF sub = NoRow THEN sub ELSE [FreeRow EXCEPT !.tier = sub.tier]
  /\ Goto(h, "answer")
  /\ UNCHANGED <<ledger, providerSide, answered, userSide, faults, orderly>>

\* handleSubscriptionDeleted: updateMany by the user.
SubscriptionDeleted(h) ==
  /\ At(h, "begun", {"deleted"})
  /\ sub' = IF sub = NoRow THEN sub ELSE FreeRow
  /\ Goto(h, "answer")
  /\ UNCHANGED <<ledger, providerSide, answered, userSide, faults, orderly>>

\* Mutant of FindPayer: without a row the handler throws, as often as the event comes.
FindPayerThrowing(h) ==
  /\ At(h, "begun", {"paid", "failed"})
  /\ handler' = [handler EXCEPT ![h] = IF PayerFound(@.event) THEN [@ EXCEPT !.pc = "found"] ELSE Idle]
  /\ UNCHANGED <<sub, ledger, providerSide, answered, userSide, faults, orderly>>

\* recordPayment and handlePaymentFailed look for the row of the customer; without one there
\* is nothing to do.
FindPayer(h) ==
  /\ At(h, "begun", {"paid", "failed"})
  /\ Goto(h, IF PayerFound(handler[h].event) THEN "found" ELSE "answer")
  /\ UNCHANGED <<sub, ledger, providerSide, answered, userSide, faults, orderly>>

RecordPayment(h) ==
  /\ At(h, "found", {"paid"})
  /\ payments' = [payments EXCEPT ![handler[h].event.id] = @ + 1]
  /\ Goto(h, "recorded")
  /\ UNCHANGED <<sub, renewed, providerSide, answered, userSide, faults, orderly>>

ExtendPeriod(h) ==
  /\ At(h, "recorded", {"paid"})
  /\ renewed' = renewed \cup {handler[h].event.id}
  /\ Goto(h, "answer")
  /\ UNCHANGED <<sub, payments, providerSide, answered, userSide, faults, orderly>>

\* The row found is updated by its id, whatever has become of its tier meanwhile.
PaymentFailed(h) ==
  /\ At(h, "found", {"failed"})
  /\ sub' = [sub EXCEPT !.status = "past_due"]
  /\ Goto(h, "answer")
  /\ UNCHANGED <<ledger, providerSide, answered, userSide, faults, orderly>>

\* Mutant of Answer: the handler throws when its work is done.
AnswerThrowing(h) ==
  /\ At(h, "answer", Kinds)
  /\ handler' = [handler EXCEPT ![h] = Idle]
  /\ UNCHANGED <<sub, ledger, providerSide, answered, userSide, faults, orderly>>

Answer(h) ==
  /\ At(h, "answer", Kinds)
  /\ answered' = answered \cup {handler[h].event.id}
  /\ handler' = [handler EXCEPT ![h] = Idle]
  /\ UNCHANGED <<sub, ledger, providerSide, userSide, faults, orderly>>

\* Mutant of Fail: the error is logged and the event answered.
FailAnswering(h) ==
  /\ handler[h] # Idle
  /\ faults < MaxFaults
  /\ faults' = faults + 1
  /\ answered' = answered \cup {handler[h].event.id}
  /\ handler' = [handler EXCEPT ![h] = Idle]
  /\ UNCHANGED <<sub, ledger, providerSide, userSide, orderly>>

\* A database call throws, which is rethrown and answered 500; or the process dies; or the
\* answer is lost.  The provider sends the event again.
Fail(h) ==
  /\ handler[h] # Idle
  /\ faults < MaxFaults
  /\ faults' = faults + 1
  /\ handler' = [handler EXCEPT ![h] = Idle]
  /\ UNCHANGED <<sub, ledger, providerSide, answered, userSide, orderly>>

-----------------------------------------------------------------------------
(* The user's own requests                                                 *)

Ask(u, what) ==
  /\ asked[u] = "none"
  /\ asks < MaxAsks
  /\ asks' = asks + 1
  /\ asked' = [asked EXCEPT ![u] = what]
  /\ UNCHANGED <<sub, ledger, providerSide, answered, handler, faults, orderly>>

\* upgradeTier to 'free', an upsert that keeps the customer.  To a paid tier it only advises.
UpgradeToFree ==
  /\ asks < MaxAsks
  /\ asks' = asks + 1
  /\ sub' = IF sub = NoRow THEN FreeRow ELSE [FreeRow EXCEPT !.cust = sub.cust]
  /\ orderly' = FALSE
  /\ UNCHANGED <<ledger, providerSide, answered, handler, asked, faults>>

\* cancelSubscription, the read: a row of a paid tier is found.
AskCancel(u, what) == /\ what \in {"cancelNow", "cancelLater"}
                      /\ sub # NoRow /\ sub.tier # "free"
                      /\ Ask(u, what)

\* resumeSubscription, the read: a row set to end is found.
AskResume(u) == /\ sub # NoRow /\ sub.cancelling
                /\ Ask(u, "resume")

Write(u, row) ==
  /\ sub' = row
  /\ asked' = [asked EXCEPT ![u] = "none"]
  /\ orderly' = FALSE
  /\ UNCHANGED <<ledger, providerSide, answered, handler, asks, faults>>

CancelNow(u) ==
  /\ asked[u] = "cancelNow"
  /\ Write(u, [sub EXCEPT !.tier = "free", !.status = "active", !.cancelling = FALSE])

CancelLater(u) ==
  /\ asked[u] = "cancelLater"
  /\ Write(u, [sub EXCEPT !.status = "canceled", !.cancelling = TRUE])

Resume(u) ==
  /\ asked[u] = "resume"
  /\ Write(u, [sub EXCEPT !.status = "active", !.cancelling = FALSE])

-----------------------------------------------------------------------------

ProviderNext ==
  \E c \in Checkouts :
    \/ \E o \in Offers : Checkout(c, o)
    \/ Renew(c) \/ Decline(c) \/ Recover(c) \/ GiveUp(c)
    \/ PortalCancel(c) \/ EndAtProvider(c)

Handle(h) == \/ CheckoutComplete(h) \/ SubscriptionUpdate(h) \/ SubscriptionDeleted(h)
             \/ FindPayer(h) \/ RecordPayment(h) \/ ExtendPeriod(h) \/ PaymentFailed(h)
             \/ Answer(h)

HandlerNext == \E h \in Handlers : \/ \E e \in sent : Receive(h, e)
                                   \/ Handle(h)
                                   \/ Fail(h)

UserNext ==
  \/ UpgradeToFree
  \/ \E u \in Users : \/ \E what \in Asks : AskCancel(u, what)
                      \/ AskResume(u) \/ CancelNow(u) \/ CancelLater(u) \/ Resume(u)

Next == ProviderNext \/ HandlerNext \/ UserNext

Spec == Init /\ [][Next]_vars

\* A provider sends an event until it is answered; a handler that has begun goes on.
Fairness == /\ \A h \in Handlers : WF_vars(Handle(h))
            /\ \A i \in 1..MaxEvents :
                 WF_vars(\E h \in Handlers : \E e \in sent : e.id = i /\ Receive(h, e))

FairSpec == Spec /\ Fairness

-----------------------------------------------------------------------------
(* Properties                                                              *)

TypeOK ==
  /\ sub \in Row \cup {NoRow}
  /\ payments \in [1..MaxEvents -> Nat]
  /\ renewed \subseteq 1..MaxEvents
  /\ via \in [Checkouts -> Offers]
  /\ paying \in [Checkouts -> ProviderStates]
  /\ sent \subseteq Event
  /\ answered \subseteq 1..MaxEvents
  /\ handler \in [Handlers -> Work \cup {Idle}]
  /\ asked \in [Users -> Asks]
  /\ asks \in 0..MaxAsks
  /\ faults \in 0..MaxFaults
  /\ orderly \in BOOLEAN

\* A paid tier is never in force without a checkout that was paid and grants it, whatever the
\* order of events, the failures and the user's own requests.
EntitledByCheckout ==
  sub # NoRow /\ sub.tier # "free" =>
    /\ sub.ext \in Checkouts
    /\ paying[sub.ext] # "none"
    /\ sub.tier = GrantedTier(sub.ext)

\* recordPayment may record an invoice again, as nothing tells it that it has: at most once
\* for every failure, lost answer or impatient provider.
PaymentsAccounted == \A i \in 1..MaxEvents : payments[i] <= 1 + faults

\* An invoice that was answered is recorded and has renewed the period, as long as the events
\* come in turn.  (PayPal's invoices never find their customer.)
InvoicesRecorded ==
  orderly => \A e \in sent : /\ e.kind = "paid" /\ via[e.of].provider # "paypal"
                             /\ e.id \in answered
                             => payments[e.id] >= 1 /\ e.id \in renewed

AtRest == Pending = {} /\ \A h \in Handlers : handler[h] = Idle

LiveCheckouts == {c \in Checkouts : paying[c] \in Live}

\* What the row says of a live checkout.  PayPal's arrears are not reported.
Mirrors(c) ==
  /\ sub # NoRow
  /\ sub.ext = c /\ sub.tier = GrantedTier(c)
  /\ via[c].provider # "paypal" => /\ sub.status = (IF paying[c] = "past_due" THEN "past_due"
                                                                          ELSE "active")
                                   /\ sub.cancelling = (paying[c] = "cancelling")

\* Once every event is answered the row is what the provider holds, unless an event came out
\* of turn, two checkouts were paid at once, or the user wrote the row: failures and repeated
\* events alone do not part them.
MirrorsProvider ==
  AtRest /\ orderly =>
    IF LiveCheckouts = {} THEN sub = NoRow \/ sub = FreeRow
                          ELSE \A c \in LiveCheckouts : Mirrors(c)

\* Every event is answered in the end.
EventsAnswered == \A i \in 1..MaxEvents :
                    (\E e \in sent : e.id = i) ~> i \in answered

\* A checkout that was paid comes into force in the end, unless its subscription ends first or
\* the user changes the row: with the tier it was opened for, and by PayPal, whose event names
\* no tier, with 'pro' even where 'enterprise' was paid.
PaidIsInForce == \A c \in Checkouts :
  paying[c] = "active" ~>
    \/ /\ sub # NoRow /\ sub.ext = c
       /\ sub.tier = (IF via[c].provider = "paypal" THEN "pro" ELSE via[c].tier)
    \/ paying[c] # "active"
    \/ asks > 0
=============================================================================
