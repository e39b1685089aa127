------------------------ MODULE SubscriptionsProofs ------------------------
(* Theorems about Subscriptions, for every value of its constants.         *)
EXTENDS Subscriptions, FiniteSetTheorems, TLAPS

-----------------------------------------------------------------------------
(* The events of the providers                                             *)

\* The events sent are finitely many, each with a number of its own, counted from one.
Numbered ==
  /\ IsFiniteSet(sent)
  /\ \A e \in sent : e.id <= Emitted
  /\ \A d, e \in sent : d.id = e.id => d = e

\* A change at a provider makes at most two events.
LEMMA ToldShort ==
  ASSUME NEW p, NEW change
  PROVE  \/ Told(p, change) = <<>>
         \/ \E k \in Kinds : Told(p, change) = <<k>>
         \/ \E k, l \in Kinds : Told(p, change) = <<k, l>>
  <1> DEFINE t == Told(p, change)
  <1>1. /\ "started" \in Kinds /\ "paid" \in Kinds /\ "deleted" \in Kinds
        /\ "updated" \in Kinds /\ "failed" \in Kinds
    BY DEF Kinds
  <1>2. \/ t = <<>> \/ t = <<"started", "paid">> \/ t = <<"paid">> \/ t = <<"deleted">>
        \/ t = <<"updated", "failed">> \/ t = <<"updated">> \/ t = <<"updated", "paid">>
    <2>1. CASE change = "pay"     BY <2>1 DEF Told
    <2>2. CASE change = "renew"   BY <2>2 DEF Told
    <2>3. CASE change = "end"     BY <2>3 DEF Told
    <2>4. CASE change = "decline" BY <2>4 DEF Told
    <2>5. CASE change = "recover" BY <2>5 DEF Told
    <2>6. CASE change \notin {"pay", "renew", "end", "decline", "recover"}
      BY <2>6 DEF Told
    <2> QED
      BY <2>1, <2>2, <2>3, <2>4, <2>5, <2>6
  <1> QED
    BY <1>1, <1>2

\* One more event, with the next number, keeps the numbering.
LEMMA OneMore ==
  ASSUME NEW S, IsFiniteSet(S), NEW n \in Nat, n = Cardinality(S), NEW e, e.id = n + 1,
         S \subseteq Event,
         \A d \in S : d.id <= n, \A d, f \in S : d.id = f.id => d = f
  PROVE  /\ IsFiniteSet(S \cup {e})
         /\ Cardinality(S \cup {e}) = n + 1
         /\ \A d \in S \cup {e} : d.id <= n + 1
         /\ \A d, f \in S \cup {e} : d.id = f.id => d = f
  <1>1. e \notin S /\ \A d \in S : d.id \in Nat /\ d.id # n + 1
    BY DEF Event
  <1>2. IsFiniteSet(S \cup {e}) /\ Cardinality(S \cup {e}) = n + 1
    BY <1>1, FS_AddElement
  <1>3. \A d \in S \cup {e} : d.id <= n + 1
    BY <1>1
  <1>4. \A d, f \in S \cup {e} : d.id = f.id => d = f
    BY <1>1
  <1> QED
    BY <1>2, <1>3, <1>4

\* What a change at a provider does to the events sent: it only adds, about its own checkout.
LEMMA ChangeSends ==
  ASSUME sent \subseteq Event, Numbered,
         NEW c \in Checkouts, NEW to \in ProviderStates, NEW change, Change(c, to, change)
  PROVE  /\ sent' \subseteq Event /\ Numbered' /\ sent \subseteq sent'
         /\ \A e \in sent' \ sent : e.of = c /\ e.state = to /\ e.id > Emitted
  <1> DEFINE kinds == Told(via'[c].provider, change)
             n == Cardinality(sent)
             ev(i) == [id |-> n + i, kind |-> kinds[i], of |-> c, state |-> to]
  <1>1. n \in Nat /\ n = Emitted /\ MaxEvents \in Nat
    BY FS_CardinalityType, SubscriptionsAssumption DEF Numbered, Emitted
  <1>2. /\ n + Len(kinds) <= MaxEvents
        /\ sent' = sent \cup {ev(i) : i \in DOMAIN kinds}
    BY <1>1 DEF Change
  <1>3. \A d \in sent : d.id \in Nat /\ d.id <= n
    BY <1>1, SubscriptionsAssumption DEF Event, Numbered
  <1>4. CASE kinds = <<>>
    <2>1. sent' = sent
      BY <1>2, <1>4
    <2> QED
      BY <2>1 DEF Numbered, Emitted
  <1>5. CASE \E k \in Kinds : kinds = <<k>>
    <2>1. Len(kinds) = 1 /\ DOMAIN kinds = {1} /\ kinds[1] \in Kinds
      BY <1>5
    <2>2. sent' = sent \cup {ev(1)}
      BY <1>2, <2>1
    <2>3. ev(1) \in Event /\ ev(1).id = n + 1 /\ ev(1).of = c /\ ev(1).state = to
      BY <1>1, <1>2, <2>1 DEF Event
    <2>4. Numbered' /\ Emitted' = n + 1
      <3> HIDE DEF n, ev
      <3> QED
        BY <1>1, <1>3, <2>2, <2>3, OneMore DEF Numbered, Emitted
    <2> QED
      BY <1>1, <2>2, <2>3, <2>4
  <1>6. CASE \E k, l \in Kinds : kinds = <<k, l>>
    <2>1. /\ Len(kinds) = 2 /\ DOMAIN kinds = {1, 2}
          /\ kinds[1] \in Kinds /\ kinds[2] \in Kinds
      BY <1>6
    <2>2. sent' = (sent \cup {ev(1)}) \cup {ev(2)}
      BY <1>2, <2>1
    <2>3. /\ ev(1) \in Event /\ ev(1).id = n + 1 /\ ev(1).of = c /\ ev(1).state = to
          /\ ev(2) \in Event /\ ev(2).id = n + 2 /\ ev(2).of = c /\ ev(2).state = to
      BY <1>1, <1>2, <2>1 DEF Event
    <2>4. LET S == sent \cup {ev(1)}
          IN  /\ IsFiniteSet(S) /\ Cardinality(S) = n + 1 /\ S \subseteq Event
              /\ \A d \in S : d.id <= n + 1
              /\ \A d, f \in S : d.id = f.id => d = f
      <3> HIDE DEF n, ev
      <3> QED
        BY <1>1, <1>3, <2>3, OneMore DEF Numbered, Emitted
    <2>5. Numbered'
      <3> DEFINE S == sent \cup {ev(1)}
                 m == n + 1
      <3>1. m \in Nat /\ m = Cardinality(S) /\ ev(2).id = m + 1
        BY <1>1, <2>3, <2>4
      <3>2. sent' = S \cup {ev(2)}
        BY <2>2
      <3> HIDE DEF ev, S, m
      <3>3. /\ IsFiniteSet(S) /\ S \subseteq Event
            /\ \A d \in S : d.id <= m
            /\ \A d, f \in S : d.id = f.id => d = f
        BY <2>4 DEF S, m
      <3> QED
        BY <3>1, <3>2, <3>3, OneMore DEF Numbered, Emitted
    <2> QED
      BY <1>1, <2>2, <2>3, <2>5
  <1> QED
    BY <1>4, <1>5, <1>6, ToldShort

-----------------------------------------------------------------------------
(* Types                                                                   *)

\* A handler works on an event that was sent.
HandlersSent == \A h \in Handlers : handler[h] # Idle => handler[h].event \in sent

\* A handler that found the row of a payer, and a request that found the user's, will find it
\* when they write: rows are never removed.
NeedsRow ==
  /\ \A h \in Handlers : (handler[h] # Idle /\ handler[h].pc = "found") => sub # NoRow
  /\ \A u \in Users : asked[u] # "none" => sub # NoRow

Sound == TypeOK /\ Numbered /\ HandlersSent /\ NeedsRow

\* Idle is no work.
LEMMA IdleIsNoWork == Idle \notin Work
  <1>1. Idle.pc = "idle"
    BY DEF Idle
  <1>2. \A w \in Work : w.pc # "idle"
    BY DEF Work
  <1> QED
    BY <1>1, <1>2

\* A handler at a step works on an event of the kind.
LEMMA AtWork ==
  ASSUME handler \in [Handlers -> Work \cup {Idle}], NEW h \in Handlers, NEW pc, NEW kinds,
         At(h, pc, kinds)
  PROVE  /\ handler[h] \in Work /\ handler[h].event \in Event
         /\ handler[h].pc = pc /\ handler[h].event.kind \in kinds
         /\ handler[h].event.of \in Checkouts /\ handler[h].event.id \in 1..MaxEvents
  BY DEF At, Work, Event

\* A handler that goes on stays well-formed and keeps its event.
LEMMA GotoType ==
  ASSUME handler \in [Handlers -> Work \cup {Idle}], NEW h \in Handlers, handler[h] \in Work,
         NEW pc \in {"begun", "found", "recorded", "answer"}, Goto(h, pc)
  PROVE  /\ handler' \in [Handlers -> Work \cup {Idle}]
         /\ handler'[h] \in Work /\ handler'[h].pc = pc /\ handler'[h].event = handler[h].event
         /\ \A g \in Handlers \ {h} : handler'[g] = handler[g]
  <1> DEFINE w == [handler[h] EXCEPT !.pc = pc]
  <1>1. w \in Work /\ w.pc = pc /\ w.event = handler[h].event
    BY DEF Work
  <1>2. handler' = [handler EXCEPT ![h] = w]
    BY DEF Goto
  <1> HIDE DEF w
  <1> QED
    BY <1>1, <1>2

\* The row of a user without a subscription is a row.
LEMMA FreeRowType == FreeRow \in Row /\ FreeRow.tier = "free"
  BY DEF FreeRow, Row, Tiers, Statuses

\* What an event may write is a row.
LEMMA Rows ==
  ASSUME TypeOK
  PROVE  /\ FreeRow \in Row /\ FreeRow # NoRow /\ FreeRow.tier = "free" /\ NoRow \notin Row
         /\ \A c \in Checkouts : GrantedTier(c) \in PaidTiers /\ via[c].provider \in Providers
         /\ \A st : MapStatus(st) \in Statuses
  <1>1. \A x \in Row : x.tier # "none"
    BY DEF Row, Tiers, PaidTiers
  <1>2. FreeRow \in Row /\ FreeRow.tier = "free"
    BY FreeRowType
  <1>3. NoRow.tier = "none"
    BY DEF NoRow
  <1>4. \A c \in Checkouts : /\ via[c].provider \in Providers
                             /\ via[c].tier \in PaidTiers
    BY SubscriptionsAssumption DEF TypeOK
  <1>5. \A c \in Checkouts : GrantedTier(c) \in PaidTiers
    BY <1>4 DEF GrantedTier, PaidTiers
  <1>6. \A st : MapStatus(st) \in Statuses
    BY DEF MapStatus, Statuses
  <1> QED
    BY <1>1, <1>2, <1>3, <1>4, <1>5, <1>6

\* The initial states are sound.
LEMMA InitSound == Init => Sound
  <1> SUFFICES ASSUME Init PROVE Sound
    OBVIOUS
  <1>1. sub \in Row \cup {NoRow}
    BY FreeRowType DEF Init
  <1>2. via \in [Checkouts -> Offers]
    <2>1. (CHOOSE o \in Offers : TRUE) \in Offers
      BY SubscriptionsAssumption
    <2> QED
      BY <2>1 DEF Init
  <1>3. paying \in [Checkouts -> ProviderStates] /\ asked \in [Users -> Asks]
    BY DEF Init, ProviderStates, Asks
  <1>4. TypeOK
    BY <1>1, <1>2, <1>3, SubscriptionsAssumption DEF Init, TypeOK
  <1>5. Numbered
    BY FS_EmptySet DEF Init, Numbered
  <1> QED
    BY <1>4, <1>5 DEF Init, Sound, HandlersSent, NeedsRow, Idle

\* A change at a provider.
LEMMA ProviderSound ==
  ASSUME Sound, NEW c \in Checkouts, NEW to \in ProviderStates, NEW change,
         Change(c, to, change), via' \in [Checkouts -> Offers], orderly' \in BOOLEAN
  PROVE  Sound'
  <1>1. /\ sent' \subseteq Event /\ Numbered' /\ sent \subseteq sent'
    BY ChangeSends DEF Sound, TypeOK
  <1>2. TypeOK'
    BY <1>1 DEF Sound, TypeOK, Change, ledger, userSide
  <1>3. HandlersSent' /\ NeedsRow'
    BY <1>1 DEF Sound, HandlersSent, NeedsRow, Change, userSide
  <1> QED
    BY <1>1, <1>2, <1>3 DEF Sound

\* Every step of a provider.
LEMMA ProviderNextSound == Sound /\ ProviderNext => Sound'
  <1> SUFFICES ASSUME Sound, NEW c \in Checkouts,
                      \/ \E o \in Offers : Checkout(c, o)
                      \/ Renew(c) \/ Decline(c) \/ Recover(c) \/ GiveUp(c)
                      \/ PortalCancel(c) \/ EndAtProvider(c)
               PROVE  Sound'
    BY DEF ProviderNext
  <1>1. /\ "active" \in ProviderStates /\ "past_due" \in ProviderStates
        /\ "unpaid" \in ProviderStates /\ "cancelling" \in ProviderStates
        /\ "ended" \in ProviderStates
    BY DEF ProviderStates, Live
  <1>2. ASSUME NEW from, NEW to \in ProviderStates, NEW change, Go(c, from, to, change)
        PROVE  Sound'
    <2>1. via' \in [Checkouts -> Offers] /\ orderly' \in BOOLEAN /\ Change(c, to, change)
      BY <1>2 DEF Go, Sound, TypeOK
    <2> QED
      BY <2>1, ProviderSound
  <1>3. ASSUME NEW o \in Offers, Checkout(c, o) PROVE Sound'
    <2>1. via' \in [Checkouts -> Offers] /\ orderly' \in BOOLEAN /\ Change(c, "active", "pay")
      BY <1>3 DEF Checkout, Sound, TypeOK
    <2> QED
      BY <1>1, <2>1, ProviderSound
  <1>4. CASE Renew(c)         BY <1>1, <1>2, <1>4 DEF Renew
  <1>5. CASE Decline(c)       BY <1>1, <1>2, <1>5 DEF Decline
  <1>6. CASE Recover(c)       BY <1>1, <1>2, <1>6 DEF Recover
  <1>7. CASE GiveUp(c)        BY <1>1, <1>2, <1>7 DEF GiveUp
  <1>8. CASE PortalCancel(c)  BY <1>1, <1>2, <1>8 DEF PortalCancel
  <1>9. CASE EndAtProvider(c) BY <1>1, <1>2, <1>9 DEF EndAtProvider
  <1> QED
    BY <1>3, <1>4, <1>5, <1>6, <1>7, <1>8, <1>9

\* A handler that takes an event that was sent.
LEMMA ReceiveSound ==
  ASSUME Sound, NEW h \in Handlers, NEW e \in sent, Receive(h, e)
  PROVE  Sound'
  <1> DEFINE w == [pc |-> "begun", event |-> e]
  <1>1. w \in Work /\ w.event = e /\ w.pc = "begun" /\ handler' = [handler EXCEPT ![h] = w]
    BY DEF Sound, TypeOK, Work, Receive
  <1>2. orderly' \in BOOLEAN /\ faults' \in 0..MaxFaults
    BY SubscriptionsAssumption DEF Receive, Sound, TypeOK
  <1> HIDE DEF w
  <1>3. TypeOK'
    BY <1>1, <1>2 DEF Receive, Sound, TypeOK, ledger, providerSide, userSide
  <1>4. Numbered'
    BY DEF Receive, providerSide, Sound, Numbered, Emitted
  <1>5. HandlersSent' /\ NeedsRow'
    BY <1>1 DEF Sound, TypeOK, HandlersSent, NeedsRow, Receive, providerSide, userSide
  <1> QED
    BY <1>3, <1>4, <1>5 DEF Sound

\* A handler that goes on, having perhaps written the row, which stays a row.
LEMMA GoingOn ==
  ASSUME Sound, NEW h \in Handlers, handler[h] \in Work,
         NEW pc \in {"begun", "found", "recorded", "answer"}, Goto(h, pc),
         sub' \in Row \cup {NoRow}, sub # NoRow => sub' # NoRow,
         pc = "found" => sub # NoRow,
         payments' \in [1..MaxEvents -> Nat], renewed' \subseteq 1..MaxEvents,
         UNCHANGED <<providerSide, answered, userSide, faults, orderly>>
  PROVE  Sound'
  <1>1. /\ handler' \in [Handlers -> Work \cup {Idle}]
        /\ handler'[h] \in Work /\ handler'[h].pc = pc /\ handler'[h].event = handler[h].event
        /\ \A g \in Handlers \ {h} : handler'[g] = handler[g]
    BY GotoType DEF Sound, TypeOK
  <1>2. TypeOK'
    BY <1>1 DEF Sound, TypeOK, providerSide, userSide
  <1>3. Numbered'
    BY DEF providerSide, Sound, Numbered, Emitted
  <1>4. HandlersSent'
    BY <1>1, IdleIsNoWork DEF Sound, HandlersSent, providerSide
  <1>5. NeedsRow'
    BY <1>1 DEF Sound, NeedsRow, userSide
  <1> QED
    BY <1>2, <1>3, <1>4, <1>5 DEF Sound

\* A handler that ends, with or without an answer.
LEMMA Ending ==
  ASSUME Sound, NEW h \in Handlers, handler' = [handler EXCEPT ![h] = Idle],
         answered' \subseteq 1..MaxEvents, faults' \in 0..MaxFaults,
         UNCHANGED <<sub, ledger, providerSide, userSide, orderly>>
  PROVE  Sound'
  <1>1. TypeOK'
    BY DEF Sound, TypeOK, ledger, providerSide, userSide
  <1>2. Numbered'
    BY DEF providerSide, Sound, Numbered, Emitted
  <1>3. HandlersSent' /\ NeedsRow'
    BY DEF Sound, TypeOK, HandlersSent, NeedsRow, providerSide, userSide
  <1> QED
    BY <1>1, <1>2, <1>3 DEF Sound

\* Every step of a handler.
LEMMA HandlerNextSound == Sound /\ HandlerNext => Sound'
  <1> SUFFICES ASSUME Sound, NEW h \in Handlers,
                      (\E e \in sent : Receive(h, e)) \/ Handle(h) \/ Fail(h)
               PROVE  Sound'
    BY DEF HandlerNext
  <1>1. handler \in [Handlers -> Work \cup {Idle}]
    BY DEF Sound, TypeOK
  <1>2. ASSUME NEW e \in sent, Receive(h, e) PROVE Sound'
    BY <1>2, ReceiveSound
  <1>3. CASE CheckoutComplete(h)
    <2> DEFINE c == handler[h].event.of
    <2>1. handler[h] \in Work /\ c \in Checkouts
      BY <1>1, <1>3, AtWork DEF CheckoutComplete
    <2>2. GrantedTier(c) \in Tiers /\ via[c].provider \in Providers
      BY <2>1, Rows DEF Sound, Tiers
    <2>3. sub' \in Row
      BY <1>3, <2>1, <2>2 DEF CheckoutComplete, Row, Statuses
    <2> QED
      BY <1>3, <2>1, <2>3, GoingOn, Rows DEF CheckoutComplete, Sound, TypeOK, ledger
  <1>4. CASE SubscriptionUpdate(h)
    <2>1. handler[h] \in Work
      BY <1>1, <1>4, AtWork DEF SubscriptionUpdate
    <2>2. MapStatus(handler[h].event.state) \in Statuses /\ NoRow \notin Row
      BY Rows DEF Sound
    <2>3. sub' \in Row \cup {NoRow} /\ (sub # NoRow => sub' # NoRow)
      BY <1>4, <2>2 DEF SubscriptionUpdate, Row, Sound, TypeOK
    <2> QED
      BY <1>4, <2>1, <2>3, GoingOn DEF SubscriptionUpdate, Sound, TypeOK, ledger
  <1>5. CASE SubscriptionDeleted(h)
    <2>1. handler[h] \in Work
      BY <1>1, <1>5, AtWork DEF SubscriptionDeleted
    <2>2. sub' \in Row \cup {NoRow} /\ (sub # NoRow => sub' # NoRow)
      BY <1>5, Rows DEF SubscriptionDeleted, Sound, TypeOK
    <2> QED
      BY <1>5, <2>1, <2>2, GoingOn DEF SubscriptionDeleted, Sound, TypeOK, ledger
  <1>6. CASE FindPayer(h)
    <2>1. handler[h] \in Work
      BY <1>1, <1>6, AtWork DEF FindPayer
    <2>2. CASE PayerFound(handler[h].event)
      BY <1>6, <2>1, <2>2, GoingOn DEF FindPayer, PayerFound, Sound, TypeOK, ledger
    <2>3. CASE ~PayerFound(handler[h].event)
      BY <1>6, <2>1, <2>3, GoingOn DEF FindPayer, Sound, TypeOK, ledger
    <2> QED
      BY <2>2, <2>3
  <1>7. CASE RecordPayment(h)
    <2>1. handler[h] \in Work
      BY <1>1, <1>7, AtWork DEF RecordPayment
    <2>2. payments' \in [1..MaxEvents -> Nat]
      <3> DEFINE i == handler[h].event.id
                 n == payments[i] + 1
      <3>1. i \in 1..MaxEvents /\ payments' = [payments EXCEPT ![i] = n]
        BY <1>1, <1>7, AtWork DEF RecordPayment
      <3>2. payments \in [1..MaxEvents -> Nat] /\ n \in Nat
        BY <3>1 DEF Sound, TypeOK
      <3> HIDE DEF i, n
      <3> QED
        BY <3>1, <3>2
    <2> QED
      BY <1>7, <2>1, <2>2, GoingOn DEF RecordPayment, Sound, TypeOK
  <1>8. CASE ExtendPeriod(h)
    <2>1. handler[h] \in Work /\ handler[h].event.id \in 1..MaxEvents
      BY <1>1, <1>8, AtWork DEF ExtendPeriod
    <2>2. renewed' \subseteq 1..MaxEvents
      BY <1>8, <2>1 DEF ExtendPeriod, Sound, TypeOK
    <2> QED
      BY <1>8, <2>1, <2>2, GoingOn DEF ExtendPeriod, Sound, TypeOK
  <1>9. CASE PaymentFailed(h)
    <2>1. handler[h] \in Work
      BY <1>1, <1>9, AtWork DEF PaymentFailed
    <2>2. sub # NoRow
      BY <1>9 DEF PaymentFailed, At, Sound, NeedsRow
    <2>3. sub' \in Row
      BY <1>9, <2>2 DEF PaymentFailed, Row, Statuses, Sound, TypeOK
    <2> QED
      BY <1>9, <2>1, <2>3, GoingOn, Rows DEF PaymentFailed, Sound, TypeOK, ledger
  <1>10. CASE Answer(h)
    <2>1. handler[h].event.id \in 1..MaxEvents
      BY <1>1, <1>10, AtWork DEF Answer
    <2> QED
      BY <1>10, <2>1, Ending DEF Answer, Sound, TypeOK
  <1>11. CASE Fail(h)
    <2>1. faults' \in 0..MaxFaults
      BY <1>11, SubscriptionsAssumption DEF Fail, Sound, TypeOK
    <2> QED
      BY <1>11, <2>1, Ending DEF Fail, Sound, TypeOK
  <1> QED
    BY <1>2, <1>3, <1>4, <1>5, <1>6, <1>7, <1>8, <1>9, <1>10, <1>11 DEF Handle

\* Every step of the user's own.
LEMMA UserNextSound == Sound /\ UserNext => Sound'
  <1>1. ASSUME Sound, NEW u \in Users, NEW what \in Asks, Ask(u, what), sub # NoRow
        PROVE  Sound'
    <2>1. TypeOK'
      BY <1>1, SubscriptionsAssumption
         DEF Sound, TypeOK, Ask, ledger, providerSide
    <2>2. Numbered'
      BY <1>1 DEF Ask, providerSide, Sound, Numbered, Emitted
    <2>3. HandlersSent' /\ NeedsRow'
      BY <1>1 DEF Sound, HandlersSent, NeedsRow, Ask, providerSide
    <2> QED
      BY <2>1, <2>2, <2>3 DEF Sound
  <1>2. ASSUME Sound, NEW row \in Row, sub' = row, orderly' = FALSE,
               asked' \in [Users -> Asks], asks' \in 0..MaxAsks,
               \A v \in Users : asked'[v] # "none" => asked[v] # "none",
               UNCHANGED <<ledger, providerSide, answered, handler, faults>>
        PROVE  Sound'
    <2>1. TypeOK'
      BY <1>2 DEF Sound, TypeOK, ledger, providerSide
    <2>2. Numbered'
      BY <1>2 DEF providerSide, Sound, Numbered, Emitted
    <2>3. HandlersSent' /\ NeedsRow'
      BY <1>2, Rows DEF Sound, HandlersSent, NeedsRow, providerSide
    <2> QED
      BY <2>1, <2>2, <2>3 DEF Sound
  <1>3. ASSUME Sound, NEW u \in Users, NEW row \in Row, Write(u, row)
        PROVE  Sound'
    <2>1. /\ asked' \in [Users -> Asks] /\ asks' \in 0..MaxAsks
          /\ \A v \in Users : asked'[v] # "none" => asked[v] # "none"
      BY <1>3 DEF Write, Sound, TypeOK, Asks
    <2> QED
      BY <1>2, <1>3, <2>1 DEF Write
  <1>4. ASSUME Sound, UpgradeToFree PROVE Sound'
    <2>1. sub' \in Row
      BY <1>4, FreeRowType DEF UpgradeToFree, Row, Sound, TypeOK
    <2>2. asks' \in 0..MaxAsks
      BY <1>4, SubscriptionsAssumption DEF UpgradeToFree, Sound, TypeOK
    <2> QED
      BY <1>2, <1>4, <2>1, <2>2 DEF UpgradeToFree, Sound, TypeOK
  <1>5. ASSUME Sound, NEW u \in Users, asked[u] # "none" PROVE sub \in Row
    BY <1>5 DEF Sound, TypeOK, NeedsRow
  <1>6. ASSUME Sound, NEW u \in Users, CancelNow(u) PROVE Sound'
    <2>1. [sub EXCEPT !.tier = "free", !.status = "active", !.cancelling = FALSE] \in Row
      BY <1>5, <1>6 DEF CancelNow, Row, Tiers, Statuses
    <2> QED
      BY <1>3, <1>6, <2>1 DEF CancelNow
  <1>7. ASSUME Sound, NEW u \in Users, CancelLater(u) PROVE Sound'
    <2>1. [sub EXCEPT !.status = "canceled", !.cancelling = TRUE] \in Row
      BY <1>5, <1>7 DEF CancelLater, Row, Statuses
    <2> QED
      BY <1>3, <1>7, <2>1 DEF CancelLater
  <1>8. ASSUME Sound, NEW u \in Users, Resume(u) PROVE Sound'
    <2>1. [sub EXCEPT !.status = "active", !.cancelling = FALSE] \in Row
      BY <1>5, <1>8 DEF Resume, Row, Statuses
    <2> QED
      BY <1>3, <1>8, <2>1 DEF Resume
  <1>9. ASSUME Sound, NEW u \in Users, NEW what \in Asks, AskCancel(u, what) PROVE Sound'
    BY <1>1, <1>9 DEF AskCancel
  <1>10. ASSUME Sound, NEW u \in Users, AskResume(u) PROVE Sound'
    BY <1>1, <1>10 DEF AskResume, Asks
  <1> QED
    BY <1>4, <1>6, <1>7, <1>8, <1>9, <1>10 DEF UserNext

\* Every step is sound.
LEMMA StepSound == Sound /\ [Next]_vars => Sound'
  <1>1. ASSUME Sound, UNCHANGED vars PROVE Sound'
    BY <1>1 DEF vars, Sound, TypeOK, Numbered, Emitted, HandlersSent, NeedsRow,
                ledger, providerSide, userSide
  <1> QED
    BY <1>1, ProviderNextSound, HandlerNextSound, UserNextSound DEF Next

\* The invariant on which the other theorems rest.
LEMMA AlwaysSound == Spec => []Sound
  BY InitSound, StepSound, PTL DEF Spec

\* Every variable keeps its type: the statuses written are those of the schema, whatever
\* the providers report (billing.service.ts: mapProviderStatus).
THEOREM TypeCorrect == Spec => []TypeOK
  <1>1. Sound => TypeOK
    BY DEF Sound
  <1> QED
    BY <1>1, AlwaysSound, PTL

-----------------------------------------------------------------------------
(* What entitles to a paid tier                                            *)

\* An event is only sent about a checkout that was paid.
EventsPaid == \A e \in sent : paying[e.of] # "none"

Entitled == EntitledByCheckout /\ EventsPaid

\* A change at a provider leaves every paid checkout as it was bought.
LEMMA ProviderEntitled == Sound /\ Entitled /\ ProviderNext => Entitled'
  <1> SUFFICES ASSUME Sound, Entitled, NEW c \in Checkouts,
                      \/ \E o \in Offers : Checkout(c, o)
                      \/ Renew(c) \/ Decline(c) \/ Recover(c) \/ GiveUp(c)
                      \/ PortalCancel(c) \/ EndAtProvider(c)
               PROVE  Entitled'
    BY DEF ProviderNext
  <1>1. ASSUME NEW to \in ProviderStates \ {"none"}, NEW change, Change(c, to, change),
               \A d \in Checkouts : paying[d] # "none" => via'[d] = via[d]
        PROVE  Entitled'
    <2>1. /\ sent' \subseteq Event
          /\ \A e \in sent' \ sent : e.of = c
      BY <1>1, ChangeSends DEF Sound, TypeOK
    <2>2. paying' = [paying EXCEPT ![c] = to] /\ sub' = sub
      BY <1>1 DEF Change
    <2>3. EventsPaid'
      BY <1>1, <2>1, <2>2 DEF Entitled, EventsPaid, Sound, TypeOK, Event
    <2>4. EntitledByCheckout'
      BY <1>1, <2>2 DEF Entitled, EntitledByCheckout, GrantedTier, Sound, TypeOK
    <2> QED
      BY <2>3, <2>4 DEF Entitled
  <1>2. {"active", "past_due", "unpaid", "cancelling", "ended"} \subseteq ProviderStates \ {"none"}
    BY DEF ProviderStates, Live
  <1>3. ASSUME NEW from, NEW to \in ProviderStates \ {"none"}, NEW change,
               Go(c, from, to, change)
        PROVE  Entitled'
    BY <1>1, <1>3 DEF Go
  <1>4. ASSUME NEW o \in Offers, Checkout(c, o) PROVE Entitled'
    <2>1. \A d \in Checkouts : paying[d] # "none" => via'[d] = via[d]
      BY <1>4 DEF Checkout, Sound, TypeOK
    <2> QED
      BY <1>1, <1>2, <1>4, <2>1 DEF Checkout
  <1>5. CASE Renew(c)          BY <1>2, <1>3, <1>5 DEF Renew
  <1>6. CASE Decline(c)        BY <1>2, <1>3, <1>6 DEF Decline
  <1>7. CASE Recover(c)        BY <1>2, <1>3, <1>7 DEF Recover
  <1>8. CASE GiveUp(c)         BY <1>2, <1>3, <1>8 DEF GiveUp
  <1>9. CASE PortalCancel(c)   BY <1>2, <1>3, <1>9 DEF PortalCancel
  <1>10. CASE EndAtProvider(c) BY <1>2, <1>3, <1>10 DEF EndAtProvider
  <1> QED
    BY <1>4, <1>5, <1>6, <1>7, <1>8, <1>9, <1>10

\* Where the row becomes another one, it is free, or keeps its tier and its checkout, or is
\* that of a checkout an event was sent about.
LEMMA RowEntitled ==
  ASSUME Sound, Entitled, UNCHANGED providerSide,
         \/ sub' = sub
         \/ sub'.tier = "free"
         \/ sub # NoRow /\ sub'.tier = sub.tier /\ sub'.ext = sub.ext
         \/ \E e \in sent : sub'.ext = e.of /\ sub'.tier = GrantedTier(e.of)
  PROVE  Entitled'
  <1>1. EventsPaid'
    BY DEF Entitled, EventsPaid, providerSide
  <1>2. \A c : GrantedTier(c)' = GrantedTier(c)
    BY DEF GrantedTier, providerSide
  <1>3. \A e \in sent : e.of \in Checkouts
    BY DEF Sound, TypeOK, Event
  <1>4. EntitledByCheckout'
    BY <1>2, <1>3 DEF Entitled, EntitledByCheckout, EventsPaid, providerSide
  <1> QED
    BY <1>1, <1>4 DEF Entitled

\* Every step of a handler keeps the entitlement.
LEMMA HandlerEntitled == Sound /\ Entitled /\ HandlerNext => Entitled'
  <1> SUFFICES ASSUME Sound, Entitled, NEW h \in Handlers,
                      (\E e \in sent : Receive(h, e)) \/ Handle(h) \/ Fail(h)
               PROVE  Entitled'
    BY DEF HandlerNext
  <1>1. CASE CheckoutComplete(h)
    <2>1. handler[h].event \in sent
      BY <1>1 DEF CheckoutComplete, At, Sound, HandlersSent
    <2> QED
      BY <1>1, <2>1, RowEntitled DEF CheckoutComplete
  <1>2. CASE SubscriptionUpdate(h)
    <2>1. sub' = sub \/ (sub # NoRow /\ sub'.tier = sub.tier /\ sub'.ext = sub.ext)
      BY <1>2 DEF SubscriptionUpdate, Sound, TypeOK, Row
    <2> QED
      BY <1>2, <2>1, RowEntitled DEF SubscriptionUpdate
  <1>3. CASE SubscriptionDeleted(h)
    BY <1>3, RowEntitled, FreeRowType DEF SubscriptionDeleted
  <1>4. CASE PaymentFailed(h)
    <2>1. sub # NoRow /\ sub'.tier = sub.tier /\ sub'.ext = sub.ext
      BY <1>4 DEF PaymentFailed, At, Sound, NeedsRow, TypeOK, Row
    <2> QED
      BY <1>4, <2>1, RowEntitled DEF PaymentFailed
  <1>5. CASE \/ \E e \in sent : Receive(h, e)
             \/ FindPayer(h) \/ RecordPayment(h) \/ ExtendPeriod(h) \/ Answer(h) \/ Fail(h)
    BY <1>5, RowEntitled DEF Receive, FindPayer, RecordPayment, ExtendPeriod, Answer, Fail
  <1> QED
    BY <1>1, <1>2, <1>3, <1>4, <1>5 DEF Handle

\* The user's own requests never grant a paid tier.
LEMMA UserEntitled == Sound /\ Entitled /\ UserNext => Entitled'
  <1> SUFFICES ASSUME Sound, Entitled, UserNext PROVE Entitled'
    OBVIOUS
  <1>1. CASE UpgradeToFree
    <2>1. sub'.tier = "free"
      BY <1>1, FreeRowType DEF UpgradeToFree, FreeRow
    <2> QED
      BY <1>1, <2>1, RowEntitled DEF UpgradeToFree
  <1>2. ASSUME NEW u \in Users, CancelNow(u) PROVE Entitled'
    <2>1. sub \in Row
      BY <1>2 DEF CancelNow, Sound, NeedsRow, TypeOK
    <2>2. sub'.tier = "free"
      BY <1>2, <2>1 DEF CancelNow, Write, Row
    <2> QED
      BY <1>2, <2>2, RowEntitled DEF CancelNow, Write
  <1>3. ASSUME NEW u \in Users, CancelLater(u) \/ Resume(u) PROVE Entitled'
    <2>1. sub \in Row /\ sub # NoRow
      BY <1>3 DEF CancelLater, Resume, Sound, NeedsRow, TypeOK
    <2>2. sub'.tier = sub.tier /\ sub'.ext = sub.ext
      BY <1>3, <2>1 DEF CancelLater, Resume, Write, Row
    <2> QED
      BY <1>3, <2>1, <2>2, RowEntitled DEF CancelLater, Resume, Write
  <1>4. ASSUME NEW u \in Users, (\E what \in Asks : AskCancel(u, what)) \/ AskResume(u)
        PROVE  Entitled'
    BY <1>4, RowEntitled DEF AskCancel, AskResume, Ask
  <1> QED
    BY <1>1, <1>2, <1>3, <1>4 DEF UserNext

\* Every step keeps the entitlement.
LEMMA StepEntitled == Sound /\ Entitled /\ [Next]_vars => Entitled'
  <1>1. ASSUME Sound, Entitled, UNCHANGED vars PROVE Entitled'
    BY <1>1, RowEntitled DEF vars, providerSide
  <1> QED
    BY <1>1, ProviderEntitled, HandlerEntitled, UserEntitled DEF Next

\* A paid tier is in force only while a checkout that was paid grants it: whatever is lost,
\* repeated or reordered, no event, failure or request of the user grants what was not bought
\* (billing.service.ts: handleCheckoutComplete; subscriptions.service.ts: upgradeTier).
THEOREM AlwaysEntitledByCheckout == Spec => []EntitledByCheckout
  <1>1. Init => Entitled
    <2>1. Init => sub = NoRow \/ sub.tier = "free"
      BY FreeRowType DEF Init
    <2> QED
      BY <2>1 DEF Init, Entitled, EntitledByCheckout, EventsPaid
  <1>2. Entitled => EntitledByCheckout
    BY DEF Entitled
  <1> QED
    BY <1>1, <1>2, StepEntitled, AlwaysSound, PTL DEF Spec

-----------------------------------------------------------------------------
(* What repeated events cost                                               *)

Works(h, i) == handler[h] # Idle /\ handler[h].event.id = i

\* The handlers that may still record invoice i.
Busy(i) == {h \in Handlers : Works(h, i) /\ handler[h].pc \in {"begun", "found"}}

\* An event that is being handled, or was answered, has used up its one turn without a fault.
Turn(i) == IF i \in answered \/ \E h \in Handlers : Works(h, i) THEN 1 ELSE 0

Accounted == \A i \in 1..MaxEvents :
  IsFiniteSet(Busy(i)) /\ payments[i] + Cardinality(Busy(i)) <= faults + Turn(i)

\* A turn is one or none.
LEMMA TurnType == \A i : Turn(i) \in {0, 1} /\ Turn(i)' \in {0, 1}
  BY DEF Turn

\* Taking an element from a finite set leaves at most as many, or exactly one less.
LEMMA OneLess ==
  ASSUME NEW S, IsFiniteSet(S), NEW x
  PROVE  /\ IsFiniteSet(S \ {x}) /\ Cardinality(S \ {x}) \in Nat
         /\ Cardinality(S \ {x}) <= Cardinality(S)
         /\ x \in S => Cardinality(S \ {x}) = Cardinality(S) - 1
  <1>1. IsFiniteSet(S \ {x})
        /\ Cardinality(S \ {x}) = IF x \in S THEN Cardinality(S) - 1 ELSE Cardinality(S)
    BY FS_RemoveElement
  <1>2. Cardinality(S) \in Nat /\ Cardinality(S \ {x}) \in Nat
    BY <1>1, FS_CardinalityType
  <1> QED
    BY <1>1, <1>2

\* Where nothing is recorded and the handlers of no invoice grow in number, the account holds
\* while no turn is given back without a fault.
LEMMA NoneRecorded ==
  ASSUME Sound, Accounted, NEW h, payments' = payments,
         \A i \in 1..MaxEvents : Busy(i)' = Busy(i) \/ Busy(i)' = Busy(i) \ {h},
         \/ faults' = faults + 1
         \/ faults' = faults /\ \A i \in 1..MaxEvents : Turn(i) = 1 => Turn(i)' = 1
  PROVE  Accounted'
  <1> SUFFICES ASSUME NEW i \in 1..MaxEvents
               PROVE  /\ IsFiniteSet(Busy(i)')
                      /\ payments'[i] + Cardinality(Busy(i)') <= faults' + Turn(i)'
    BY DEF Accounted
  <1>1. /\ IsFiniteSet(Busy(i)) /\ Cardinality(Busy(i)) \in Nat
        /\ payments[i] + Cardinality(Busy(i)) <= faults + Turn(i)
    BY FS_CardinalityType DEF Accounted
  <1>2. IsFiniteSet(Busy(i)') /\ Cardinality(Busy(i)') \in Nat
        /\ Cardinality(Busy(i)') <= Cardinality(Busy(i))
    <2>1. CASE Busy(i)' = Busy(i)
      BY <1>1, <2>1
    <2>2. CASE Busy(i)' = Busy(i) \ {h}
      BY <1>1, <2>2, OneLess
    <2> QED
      BY <2>1, <2>2
  <1>3. payments[i] \in Nat /\ faults \in Nat /\ Turn(i) \in {0, 1} /\ Turn(i)' \in {0, 1}
    BY TurnType, SubscriptionsAssumption DEF Sound, TypeOK
  <1> QED
    BY <1>1, <1>2, <1>3

\* What a handler's going on changes in the account: its own event's handlers.
LEMMA GoingOnBusy ==
  ASSUME Sound, NEW h \in Handlers, handler[h] \in Work,
         NEW pc \in {"begun", "found", "recorded", "answer"}, Goto(h, pc)
  PROVE  /\ \A i : Busy(i)' = Busy(i) \/ Busy(i)' = Busy(i) \ {h}
                                      \/ (pc \in {"begun", "found"} /\ Busy(i)' = Busy(i) \cup {h})
         /\ handler[h].pc \in {"begun", "found"} /\ pc \in {"begun", "found"}
              => \A i : Busy(i)' = Busy(i)
         /\ pc \notin {"begun", "found"} => \A i : Busy(i)' = Busy(i) \ {h}
         /\ answered' = answered => \A i : Turn(i)' = Turn(i)
  <1>1. /\ handler'[h] \in Work /\ handler'[h].pc = pc /\ handler'[h].event = handler[h].event
        /\ \A g \in Handlers \ {h} : handler'[g] = handler[g]
    BY GotoType DEF Sound, TypeOK
  <1>2. \A i : \A g \in Handlers : Works(g, i)' <=> Works(g, i)
    BY <1>1, IdleIsNoWork DEF Works
  <1>3. \A i : \A g \in Handlers \ {h} : g \in Busy(i)' <=> g \in Busy(i)
    BY <1>1, <1>2 DEF Busy
  <1>4. \A i : h \in Busy(i)' <=> Works(h, i) /\ pc \in {"begun", "found"}
    BY <1>1, <1>2 DEF Busy
  <1>5. \A i : h \in Busy(i) <=> Works(h, i) /\ handler[h].pc \in {"begun", "found"}
    BY DEF Busy
  <1>6. \A i : Busy(i) \subseteq Handlers /\ Busy(i)' \subseteq Handlers
    BY DEF Busy
  <1>7. answered' = answered => \A i : Turn(i)' = Turn(i)
    BY <1>2 DEF Turn
  <1> QED
    BY <1>3, <1>4, <1>5, <1>6, <1>7

\* A step of a handler that records nothing.
LEMMA GoingOnAccounted ==
  ASSUME Sound, Accounted, NEW h \in Handlers, handler[h] \in Work,
         NEW pc \in {"begun", "found", "recorded", "answer"}, Goto(h, pc),
         handler[h].pc \in {"begun", "found"} \/ pc \notin {"begun", "found"},
         UNCHANGED <<payments, answered, faults>>
  PROVE  Accounted'
  BY GoingOnBusy, NoneRecorded

\* A handler that ends has answered, or there was a fault.
LEMMA EndingAccounted ==
  ASSUME Sound, Accounted, NEW h \in Handlers, handler[h] # Idle,
         handler' = [handler EXCEPT ![h] = Idle], payments' = payments,
         \/ faults' = faults + 1
         \/ faults' = faults /\ answered' = answered \cup {handler[h].event.id}
  PROVE  Accounted'
  <1>1. handler' \in [Handlers -> Work \cup {Idle}] /\ handler'[h] = Idle
        /\ \A g \in Handlers \ {h} : handler'[g] = handler[g]
    BY DEF Sound, TypeOK
  <1>2. \A i : Busy(i)' = Busy(i) \ {h}
    BY <1>1 DEF Busy, Works
  <1>3. faults' = faults => \A i : Turn(i) = 1 => Turn(i)' = 1
    <2> SUFFICES ASSUME faults' = faults, NEW i, Turn(i) = 1 PROVE Turn(i)' = 1
      OBVIOUS
    <2>1. answered' = answered \cup {handler[h].event.id}
      BY SubscriptionsAssumption DEF Sound, TypeOK
    <2>2. CASE i \in answered
      BY <2>1, <2>2 DEF Turn
    <2>3. CASE i \notin answered
      <3>1. PICK g \in Handlers : Works(g, i)
        BY <2>3 DEF Turn
      <3>2. CASE g = h
        BY <2>1, <3>1, <3>2 DEF Turn, Works
      <3>3. CASE g # h
        BY <1>1, <3>1, <3>3 DEF Turn, Works
      <3> QED
        BY <3>2, <3>3
    <2> QED
      BY <2>2, <2>3
  <1> QED
    BY <1>2, <1>3, NoneRecorded

\* A delivery takes the event's turn, or is a fault.
LEMMA ReceiveAccounted ==
  ASSUME Sound, Accounted, NEW h \in Handlers, NEW e \in sent, Receive(h, e)
  PROVE  Accounted'
  <1> DEFINE w == [pc |-> "begun", event |-> e]
  <1>1. w \in Work /\ w.event = e /\ w.pc = "begun" /\ handler' = [handler EXCEPT ![h] = w]
        /\ handler[h] = Idle /\ e.id \in 1..MaxEvents
    BY DEF Sound, TypeOK, Work, Receive, Event
  <1> HIDE DEF w
  <1>2. /\ \A i : Busy(i) \subseteq Handlers /\ Busy(i)' \subseteq Handlers
        /\ \A i : \A g \in Handlers \ {h} : g \in Busy(i)' <=> g \in Busy(i)
        /\ \A i : h \notin Busy(i) /\ (h \in Busy(i)' <=> i = e.id)
    BY <1>1, IdleIsNoWork DEF Busy, Works, Sound, TypeOK
  <1>3. \A i : Busy(i)' = IF i = e.id THEN Busy(i) \cup {h} ELSE Busy(i)
    BY <1>2
  <1>4. answered' = answered /\ payments' = payments /\ e.id \notin answered
    BY DEF Receive, Pending, ledger
  <1>5. \A i : Turn(i) = 1 => Turn(i)' = 1
    BY <1>1, <1>4 DEF Turn, Works, Sound, TypeOK
  <1>6. Turn(e.id)' = 1
    BY <1>1, IdleIsNoWork DEF Turn, Works, Sound, TypeOK
  <1>7. faults' = faults + 1 \/ (faults' = faults /\ Turn(e.id) = 0)
    <2>1. CASE \E g \in Handlers : handler[g] # Idle /\ handler[g].event = e
      BY <2>1 DEF Receive
    <2>2. CASE ~\E g \in Handlers : handler[g] # Idle /\ handler[g].event = e
      <3>1. \A g \in Handlers : ~Works(g, e.id)
        BY <2>2 DEF Works, Sound, HandlersSent, Numbered
      <3> QED
        BY <1>4, <2>2, <3>1 DEF Receive, Turn
    <2> QED
      BY <2>1, <2>2
  <1> SUFFICES ASSUME NEW i \in 1..MaxEvents
               PROVE  /\ IsFiniteSet(Busy(i)')
                      /\ payments'[i] + Cardinality(Busy(i)') <= faults' + Turn(i)'
    BY DEF Accounted
  <1>8. /\ IsFiniteSet(Busy(i)) /\ Cardinality(Busy(i)) \in Nat
        /\ payments[i] + Cardinality(Busy(i)) <= faults + Turn(i)
    BY FS_CardinalityType DEF Accounted
  <1>9. payments[i] \in Nat /\ faults \in Nat /\ Turn(i) \in {0, 1} /\ Turn(i)' \in {0, 1}
    BY TurnType, SubscriptionsAssumption DEF Sound, TypeOK
  <1>10. CASE i = e.id
    <2>1. IsFiniteSet(Busy(i)') /\ Cardinality(Busy(i)') = Cardinality(Busy(i)) + 1
      BY <1>2, <1>3, <1>8, <1>10, FS_AddElement
    <2> QED
      BY <1>4, <1>6, <1>7, <1>8, <1>9, <1>10, <2>1
  <1>11. CASE i # e.id
    BY <1>3, <1>4, <1>5, <1>7, <1>8, <1>9, <1>11
  <1> QED
    BY <1>10, <1>11

\* An invoice that is recorded moves from one side of the account to the other.
LEMMA RecordAccounted ==
  ASSUME Sound, Accounted, NEW h \in Handlers, RecordPayment(h)
  PROVE  Accounted'
  <1> DEFINE x == handler[h].event.id
  <1>1. handler[h] \in Work /\ x \in 1..MaxEvents /\ handler[h].pc = "found"
    BY AtWork DEF RecordPayment, Sound, TypeOK
  <1>2. /\ \A i : Busy(i)' = Busy(i) \ {h}
        /\ \A i : Turn(i)' = Turn(i)
    BY <1>1, GoingOnBusy DEF RecordPayment
  <1>3. h \in Busy(x) /\ faults' = faults
    BY <1>1, IdleIsNoWork DEF Busy, Works, RecordPayment
  <1>4. payments' = [payments EXCEPT ![x] = @ + 1] /\ payments \in [1..MaxEvents -> Nat]
    BY DEF RecordPayment, Sound, TypeOK
  <1> HIDE DEF x
  <1> SUFFICES ASSUME NEW i \in 1..MaxEvents
               PROVE  /\ IsFiniteSet(Busy(i)')
                      /\ payments'[i] + Cardinality(Busy(i)') <= faults' + Turn(i)'
    BY DEF Accounted
  <1>5. /\ IsFiniteSet(Busy(i)) /\ Cardinality(Busy(i)) \in Nat
        /\ payments[i] + Cardinality(Busy(i)) <= faults + Turn(i)
    BY FS_CardinalityType DEF Accounted
  <1>6. faults \in Nat /\ Turn(i) \in {0, 1} /\ payments[i] \in Nat
    BY TurnType, SubscriptionsAssumption DEF Sound, TypeOK
  <1>7. /\ IsFiniteSet(Busy(i)') /\ Cardinality(Busy(i)') \in Nat
        /\ Cardinality(Busy(i)') <= Cardinality(Busy(i))
        /\ i = x => Cardinality(Busy(i)') = Cardinality(Busy(i)) - 1
    BY <1>2, <1>3, <1>5, OneLess
  <1>8. payments'[i] = IF i = x THEN payments[i] + 1 ELSE payments[i]
    BY <1>4
  <1> QED
    BY <1>2, <1>3, <1>5, <1>6, <1>7, <1>8

\* Every step keeps the account.
LEMMA StepAccounted == Sound /\ Accounted /\ [Next]_vars => Accounted'
  <1> SUFFICES ASSUME Sound, Accounted, [Next]_vars PROVE Accounted'
    OBVIOUS
  <1>1. ASSUME UNCHANGED <<payments, handler, answered, faults>> PROVE Accounted'
    <2>1. \A i : Busy(i)' = Busy(i) /\ Turn(i)' = Turn(i)
      BY <1>1 DEF Busy, Works, Turn
    <2> QED
      BY <1>1, <2>1, NoneRecorded
  <1>2. CASE ProviderNext
    BY <1>1, <1>2 DEF ProviderNext, Checkout, Renew, Decline, Recover, GiveUp, PortalCancel,
       EndAtProvider, Go, Change, ledger
  <1>3. CASE UserNext
    BY <1>1, <1>3 DEF UserNext, UpgradeToFree, AskCancel, AskResume, Ask, CancelNow, CancelLater,
       Resume, Write, ledger
  <1>4. ASSUME NEW h \in Handlers, (\E e \in sent : Receive(h, e)) \/ Handle(h) \/ Fail(h)
        PROVE  Accounted'
    <2>1. handler \in [Handlers -> Work \cup {Idle}]
      BY DEF Sound, TypeOK
    <2>2. CASE \E e \in sent : Receive(h, e)
      BY <2>2, ReceiveAccounted
    <2>3. CASE CheckoutComplete(h) \/ SubscriptionUpdate(h) \/ SubscriptionDeleted(h)
               \/ PaymentFailed(h) \/ ExtendPeriod(h)
      <3>1. handler[h] \in Work
        BY <2>1, <2>3, AtWork DEF CheckoutComplete, SubscriptionUpdate, SubscriptionDeleted,
           PaymentFailed, ExtendPeriod
      <3>2. Goto(h, "answer") /\ UNCHANGED <<payments, answered, faults>>
        BY <2>3 DEF CheckoutComplete, SubscriptionUpdate, SubscriptionDeleted, PaymentFailed,
           ExtendPeriod, ledger
      <3> QED
        BY <3>1, <3>2, GoingOnAccounted
    <2>4. CASE FindPayer(h)
      <3>1. handler[h] \in Work /\ handler[h].pc = "begun"
        BY <2>1, <2>4, AtWork DEF FindPayer
      <3>2. UNCHANGED <<payments, answered, faults>>
            /\ (Goto(h, "found") \/ Goto(h, "answer"))
        BY <2>4 DEF FindPayer, ledger
      <3> QED
        BY <3>1, <3>2, GoingOnAccounted
    <2>5. CASE RecordPayment(h)
      BY <2>5, RecordAccounted
    <2>6. CASE Answer(h)
      BY <2>6, EndingAccounted DEF Answer, At, ledger
    <2>7. CASE Fail(h)
      BY <2>7, EndingAccounted DEF Fail, ledger
    <2> QED
      BY <1>4, <2>2, <2>3, <2>4, <2>5, <2>6, <2>7 DEF Handle
  <1>5. CASE UNCHANGED vars
    BY <1>1, <1>5 DEF vars
  <1> QED
    BY <1>2, <1>3, <1>4, <1>5 DEF Next, HandlerNext

\* However events are repeated, reordered and cut short, an invoice is recorded once, and at
\* most once more for every failure, lost answer or impatient provider
\* (billing.service.ts: recordPayment, which looks for no earlier record).
THEOREM AlwaysPaymentsAccounted == Spec => []PaymentsAccounted
  <1>1. Init => Accounted
    <2> SUFFICES ASSUME Init, NEW i \in 1..MaxEvents
                 PROVE  IsFiniteSet(Busy(i)) /\ payments[i] + Cardinality(Busy(i)) <= faults + Turn(i)
      BY DEF Accounted
    <2>1. Busy(i) = {}
      BY DEF Init, Busy, Works
    <2> QED
      BY <2>1, FS_EmptySet, TurnType DEF Init
  <1>2. Sound /\ Accounted => PaymentsAccounted
    <2> SUFFICES ASSUME Sound, Accounted, NEW i \in 1..MaxEvents PROVE payments[i] <= 1 + faults
      BY DEF PaymentsAccounted
    <2>1. payments[i] \in Nat /\ faults \in Nat /\ Turn(i) \in {0, 1}
      BY TurnType, SubscriptionsAssumption DEF Sound, TypeOK
    <2>2. Cardinality(Busy(i)) \in Nat /\ payments[i] + Cardinality(Busy(i)) <= faults + Turn(i)
      BY FS_CardinalityType DEF Accounted
    <2> QED
      BY <2>1, <2>2
  <1> QED
    BY <1>1, <1>2, StepAccounted, AlwaysSound, PTL DEF Spec

-----------------------------------------------------------------------------
(* What events in turn achieve                                             *)

\* As long as events come in turn: one handler at a time, on the first pending event.
InTurn == orderly =>
  /\ \A g, h \in Handlers : handler[g] # Idle /\ handler[h] # Idle => g = h
  /\ \A h \in Handlers : handler[h] # Idle =>
       handler[h].event \in Pending /\ \A d \in Pending : d.id >= handler[h].event.id
  /\ \A d \in Pending, a \in sent \ Pending : a.id < d.id

\* An event that begins the time of a checkout, or ends the time of one.
Turns(d) == d.kind \in {"started", "deleted"}
Opens(s, c) == s.kind = "started" /\ s.of = c

\* As long as one checkout is live at a time: what happens to it was sent after its start, and
\* nothing began or ended since.
History == orderly =>
  /\ \A c, d \in LiveCheckouts : c = d
  /\ \A c \in LiveCheckouts : \E s \in sent :
       Opens(s, c) /\ \A d \in sent : Turns(d) => d.id <= s.id
  /\ \A e \in sent : e.kind = "paid" => \E s \in sent :
       /\ Opens(s, e.of) /\ s.id < e.id
       /\ \A d \in sent : Turns(d) /\ d.id < e.id => d.id <= s.id

\* Events in turn leave an event alone while an earlier one is pending.
Untouched(d) == \E e \in Pending : e.id < d.id

\* The row names a customer as c's provider does.
Names(c) == sub # NoRow /\ sub.cust = via[c].provider

\* The row names the customer of the last checkout that was told to have started.
Named == orderly =>
  /\ \A s \in sent \ Pending :
       s.kind = "started" /\ (\A d \in sent : Turns(d) /\ d.id > s.id => Untouched(d))
       => Names(s.of)
  /\ \A h \in Handlers : handler[h] # Idle /\ handler[h].pc = "answer"
                         /\ handler[h].event.kind = "started" => Names(handler[h].event.of)

Billed(e) == e.kind = "paid" /\ via[e.of].provider # "paypal"
Recorded(e) == payments[e.id] >= 1
Complete(e) == Recorded(e) /\ e.id \in renewed

\* An invoice is recorded before its period is extended, and both before it is answered.
InvoiceSteps == orderly =>
  /\ \A h \in Handlers : handler[h] # Idle /\ Billed(handler[h].event) =>
       /\ handler[h].pc = "recorded" => Recorded(handler[h].event)
       /\ handler[h].pc = "answer" => Complete(handler[h].event)
  /\ \A e \in sent \ Pending : Billed(e) => Complete(e)

\* Only what was sent is answered.
AnsweredSent == \A i \in answered : \E e \in sent : e.id = i

Regular == AnsweredSent /\ InTurn /\ History /\ Named /\ InvoiceSteps

\* The kinds of event that a change makes, apart from the start and the end.
LEMMA ToldKinds ==
  /\ \A p : Told(p, "pay") = <<"started", "paid">>
  /\ \A p : Told(p, "end") = <<"deleted">>
  /\ \A p, change : change \notin {"pay", "end"} =>
       \A i \in DOMAIN Told(p, change) : ~(Told(p, change)[i] \in {"started", "deleted"})
  <1>1. \A p : Told(p, "pay") = <<"started", "paid">> /\ Told(p, "end") = <<"deleted">>
    BY DEF Told
  <1>2. ASSUME NEW p, NEW change, change \notin {"pay", "end"}
        PROVE  \A i \in DOMAIN Told(p, change) : Told(p, change)[i] \notin {"started", "deleted"}
    <2> DEFINE t == Told(p, change)
    <2>1. \/ t = <<>> \/ t = <<"paid">> \/ t = <<"updated", "failed">> \/ t = <<"updated">>
          \/ t = <<"updated", "paid">>
      <3>1. CASE change = "renew"   BY <3>1 DEF Told
      <3>2. CASE change = "decline" BY <3>2 DEF Told
      <3>3. CASE change = "recover" BY <3>3 DEF Told
      <3>4. CASE change \notin {"renew", "decline", "recover"} BY <1>2, <3>4 DEF Told
      <3> QED
        BY <3>1, <3>2, <3>3, <3>4
    <2> QED
      BY <2>1
  <1> QED
    BY <1>1, <1>2

\* Events sent later leave the turn of those sent before as it is.
LEMMA SendingInTurn ==
  ASSUME Sound, InTurn, sent' \subseteq Event, sent \subseteq sent',
         \A e \in sent' \ sent : e.id > Emitted,
         AnsweredSent, UNCHANGED <<answered, handler>>, orderly' => orderly
  PROVE  /\ InTurn' /\ Pending \subseteq Pending'
         /\ \A d \in Pending' \ Pending : d \in sent' \ sent
         /\ sent' \ Pending' = sent \ Pending
  <1>1. \A e \in sent : e.id \in Nat /\ e.id <= Emitted
    BY SubscriptionsAssumption DEF Sound, TypeOK, Event, Numbered
  <1>2. Emitted \in Nat /\ \A e \in sent' : e.id \in Nat
    BY FS_CardinalityType, SubscriptionsAssumption DEF Sound, Numbered, Emitted, Event
  <1>3. Pending \subseteq Pending' /\ (\A d \in Pending' \ Pending : d \in sent' \ sent)
    BY DEF Pending
  <1>4. \A e \in sent' \ sent : e.id \notin answered
    BY <1>1, <1>2 DEF AnsweredSent
  <1>5. sent' \ Pending' = sent \ Pending
    BY <1>4 DEF Pending
  <1>6. ASSUME orderly' PROVE InTurn'
    BY <1>1, <1>2, <1>3, <1>5, <1>6 DEF InTurn, Sound, HandlersSent
  <1> QED
    BY <1>3, <1>5, <1>6 DEF InTurn

\* What a change at a provider sends, event by event.
LEMMA ChangeAdds ==
  ASSUME Sound, NEW c \in Checkouts, NEW to \in ProviderStates, NEW change, Change(c, to, change)
  PROVE  LET kinds == Told(via'[c].provider, change)
         IN  /\ \A i \in DOMAIN kinds : \E e \in sent' : e.id = Emitted + i /\ e.kind = kinds[i]
                                                                            /\ e.of = c
             /\ \A e \in sent' \ sent : \E i \in DOMAIN kinds :
                  e.id = Emitted + i /\ e.kind = kinds[i] /\ e.of = c
  <1> DEFINE kinds == Told(via'[c].provider, change)
             ev(i) == [id |-> Emitted + i, kind |-> kinds[i], of |-> c, state |-> to]
  <1>1. sent' = sent \cup {ev(i) : i \in DOMAIN kinds}
    BY DEF Change
  <1>2. \A i \in DOMAIN kinds : ev(i).id = Emitted + i /\ ev(i).kind = kinds[i] /\ ev(i).of = c
    OBVIOUS
  <1> HIDE DEF ev
  <1>3. \A i \in DOMAIN kinds : \E e \in sent' : e.id = Emitted + i /\ e.kind = kinds[i]
                                                                    /\ e.of = c
    BY <1>1, <1>2
  <1>4. \A e \in sent' \ sent : \E i \in DOMAIN kinds :
          e.id = Emitted + i /\ e.kind = kinds[i] /\ e.of = c
    BY <1>1, <1>2
  <1> QED
    BY <1>3, <1>4

\* The history that a checkout begins: its start is the last turn, and it is paid after it.
LEMMA PayHistory ==
  ASSUME Sound, Regular, EventsPaid, NEW c \in Checkouts, NEW o \in Offers, Checkout(c, o)
  PROVE  History'
  <1> SUFFICES ASSUME orderly'
               PROVE  /\ \A d, e \in LiveCheckouts' : d = e
                      /\ \A d \in LiveCheckouts' : \E s \in sent' :
                           Opens(s, d) /\ \A x \in sent' : Turns(x) => x.id <= s.id
                      /\ \A e \in sent' : e.kind = "paid" => \E s \in sent' :
                           /\ Opens(s, e.of) /\ s.id < e.id
                           /\ \A x \in sent' : Turns(x) /\ x.id < e.id => x.id <= s.id
    BY DEF History, Opens, Turns
  <1>1. /\ sent' \subseteq Event /\ Numbered' /\ sent \subseteq sent'
        /\ \A e \in sent' \ sent : e.id > Emitted
        /\ Emitted \in Nat /\ \A e \in sent' : e.id \in Nat
        /\ \A e \in sent : e.id <= Emitted
    <2>1. "active" \in ProviderStates /\ Change(c, "active", "pay")
      BY DEF Checkout, ProviderStates, Live
    <2>2. sent' \subseteq Event /\ Numbered' /\ sent \subseteq sent'
          /\ \A e \in sent' \ sent : e.id > Emitted
      BY <2>1, ChangeSends DEF Sound, TypeOK
    <2> QED
      BY <2>2, FS_CardinalityType, SubscriptionsAssumption DEF Sound, Numbered, Emitted, Event
  <1>2. PICK a, b \in sent' :
          /\ a.id = Emitted + 1 /\ a.kind = "started" /\ a.of = c
          /\ b.id = Emitted + 2 /\ b.kind = "paid" /\ b.of = c
          /\ \A e \in sent' \ sent : e = a \/ e = b
    <2>1. "active" \in ProviderStates /\ Change(c, "active", "pay")
      BY DEF Checkout, ProviderStates, Live
    <2> DEFINE kinds == Told(via'[c].provider, "pay")
    <2>2. kinds[1] = "started" /\ kinds[2] = "paid" /\ DOMAIN kinds = {1, 2}
      BY ToldKinds
    <2>3. PICK a \in sent' : a.id = Emitted + 1 /\ a.kind = "started" /\ a.of = c
      BY <2>1, <2>2, ChangeAdds
    <2>4. PICK b \in sent' : b.id = Emitted + 2 /\ b.kind = "paid" /\ b.of = c
      BY <2>1, <2>2, ChangeAdds
    <2>5. \A e \in sent' \ sent : e.id = Emitted + 1 \/ e.id = Emitted + 2
      BY <2>1, <2>2, ChangeAdds
    <2>6. \A e \in sent' \ sent : e = a \/ e = b
      BY <1>1, <2>3, <2>4, <2>5 DEF Numbered
    <2> QED
      BY <2>3, <2>4, <2>6
  <1>3. LiveCheckouts' = {c}
    <2>1. LiveCheckouts = {}
      BY DEF Checkout, LiveCheckouts
    <2>2. paying' = [paying EXCEPT ![c] = "active"]
      BY DEF Checkout, Change
    <2> QED
      BY <2>1, <2>2 DEF LiveCheckouts, Live, Sound, TypeOK
  <1>4. \A x \in sent' : Turns(x) => x.id <= a.id
    BY <1>1, <1>2 DEF Turns
  <1>5. \A d \in LiveCheckouts' : \E s \in sent' :
          Opens(s, d) /\ \A x \in sent' : Turns(x) => x.id <= s.id
    BY <1>2, <1>3, <1>4 DEF Opens
  <1>6. ASSUME NEW e \in sent', e.kind = "paid"
        PROVE  \E s \in sent' : /\ Opens(s, e.of) /\ s.id < e.id
                                /\ \A x \in sent' : Turns(x) /\ x.id < e.id => x.id <= s.id
    <2>1. CASE e \in sent
      <3>1. PICK s \in sent : /\ Opens(s, e.of) /\ s.id < e.id
                              /\ \A x \in sent : Turns(x) /\ x.id < e.id => x.id <= s.id
        BY <1>6, <2>1 DEF Regular, History, Checkout
      <3>2. \A x \in sent' \ sent : ~(x.id < e.id)
        BY <1>1, <2>1
      <3> QED
        BY <1>1, <3>1, <3>2
    <2>2. CASE e = b
      BY <1>1, <1>2, <1>4, <2>2 DEF Opens
    <2> QED
      BY <1>2, <1>6, <2>1, <2>2
  <1> QED
    BY <1>3, <1>5, <1>6

\* The history that a live checkout's changes continue.
LEMMA GoHistory ==
  ASSUME Sound, Regular, EventsPaid, NEW c \in Checkouts, NEW from \in SUBSET Live,
         NEW to \in ProviderStates, NEW change, Go(c, from, to, change), change # "pay",
         to \in Live \/ to = "ended", change = "end" <=> to = "ended"
  PROVE  History'
  <1> SUFFICES ASSUME orderly'
               PROVE  /\ \A d, e \in LiveCheckouts' : d = e
                      /\ \A d \in LiveCheckouts' : \E s \in sent' :
                           Opens(s, d) /\ \A x \in sent' : Turns(x) => x.id <= s.id
                      /\ \A e \in sent' : e.kind = "paid" => \E s \in sent' :
                           /\ Opens(s, e.of) /\ s.id < e.id
                           /\ \A x \in sent' : Turns(x) /\ x.id < e.id => x.id <= s.id
    BY DEF History, Opens, Turns
  <1>1. /\ sent' \subseteq Event /\ sent \subseteq sent'
        /\ \A e \in sent' \ sent : e.of = c /\ e.id > Emitted
        /\ Emitted \in Nat /\ \A e \in sent' : e.id \in Nat
        /\ \A e \in sent : e.id <= Emitted
    <2>1. sent' \subseteq Event /\ sent \subseteq sent'
          /\ \A e \in sent' \ sent : e.of = c /\ e.id > Emitted
      BY ChangeSends DEF Sound, TypeOK, Go
    <2> QED
      BY <2>1, FS_CardinalityType, SubscriptionsAssumption DEF Sound, Numbered, Emitted, Event
  <1>2. LiveCheckouts = {c} /\ orderly /\ paying' = [paying EXCEPT ![c] = to]
    BY DEF Go, Change, LiveCheckouts, Regular, History
  <1>3. LiveCheckouts' = IF change = "end" THEN {} ELSE {c}
    BY <1>2 DEF LiveCheckouts, Live, Sound, TypeOK
  <1>4. PICK s \in sent : Opens(s, c) /\ \A x \in sent : Turns(x) => x.id <= s.id
    BY <1>2 DEF Regular, History
  <1>5. \A e \in sent' \ sent : IF change = "end" THEN e.kind = "deleted" ELSE ~Turns(e)
    <2>1. CASE change = "end"
      <3>1. \A i \in DOMAIN Told(via'[c].provider, change) :
              Told(via'[c].provider, change)[i] = "deleted"
        BY <2>1, ToldKinds
      <3> QED
        BY <2>1, <3>1, ChangeAdds DEF Go
    <2>2. CASE change # "end"
      <3>1. \A i \in DOMAIN Told(via'[c].provider, change) :
              ~(Told(via'[c].provider, change)[i] \in {"started", "deleted"})
        BY <2>2, ToldKinds
      <3> QED
        BY <2>2, <3>1, ChangeAdds DEF Go, Turns
    <2> QED
      BY <2>1, <2>2
  <1>6. \A d \in LiveCheckouts' : \E x \in sent' :
          Opens(x, d) /\ \A y \in sent' : Turns(y) => y.id <= x.id
    BY <1>1, <1>3, <1>4, <1>5
  <1>7. ASSUME NEW e \in sent', e.kind = "paid"
        PROVE  \E x \in sent' : /\ Opens(x, e.of) /\ x.id < e.id
                                /\ \A y \in sent' : Turns(y) /\ y.id < e.id => y.id <= x.id
    <2>1. CASE e \in sent
      <3>1. PICK x \in sent : /\ Opens(x, e.of) /\ x.id < e.id
                              /\ \A y \in sent : Turns(y) /\ y.id < e.id => y.id <= x.id
        BY <1>2, <1>7, <2>1 DEF Regular, History
      <3>2. \A y \in sent' \ sent : ~(y.id < e.id)
        BY <1>1, <2>1
      <3> QED
        BY <1>1, <3>1, <3>2
    <2>2. CASE e \notin sent
      <3>1. change # "end" /\ e.of = c /\ s.id < e.id
        BY <1>1, <1>4, <1>5, <1>7, <2>2
      <3>2. \A y \in sent' : Turns(y) => y.id <= s.id
        BY <1>4, <1>5, <3>1
      <3> QED
        BY <1>1, <1>4, <3>1, <3>2
    <2> QED
      BY <2>1, <2>2
  <1> QED
    BY <1>3, <1>6, <1>7

\* A change at a provider is as regular as its history.
LEMMA SendingRegular ==
  ASSUME Sound, Regular, EventsPaid, NEW c \in Checkouts, NEW to \in ProviderStates, NEW change,
         Change(c, to, change), History', orderly' => orderly,
         \A d \in Checkouts : paying[d] # "none" => via'[d] = via[d]
  PROVE  Regular'
  <1>1. /\ sent' \subseteq Event /\ sent \subseteq sent'
        /\ \A e \in sent' \ sent : e.id > Emitted
        /\ Emitted \in Nat /\ \A e \in sent' : e.id \in Nat
        /\ \A e \in sent : e.id <= Emitted
    <2>1. sent' \subseteq Event /\ sent \subseteq sent' /\ \A e \in sent' \ sent : e.id > Emitted
      BY ChangeSends DEF Sound, TypeOK
    <2> QED
      BY <2>1, FS_CardinalityType, SubscriptionsAssumption DEF Sound, Numbered, Emitted, Event
  <1>2. UNCHANGED <<sub, payments, renewed, answered, handler>>
    BY DEF Change, ledger
  <1>3. AnsweredSent'
    BY <1>1, <1>2 DEF Regular, AnsweredSent
  <1>4. InTurn' /\ (\A d \in Pending' \ Pending : d \in sent' \ sent)
        /\ sent' \ Pending' = sent \ Pending
    <2>1. InTurn /\ AnsweredSent
      BY DEF Regular
    <2>2. UNCHANGED <<answered, handler>> /\ sent' \subseteq Event /\ sent \subseteq sent'
          /\ \A e \in sent' \ sent : e.id > Emitted
      BY <1>1, <1>2
    <2> QED
      BY <2>1, <2>2, SendingInTurn
  <1>5. \A e \in sent : /\ Names(e.of)' <=> Names(e.of)
                        /\ Billed(e)' <=> Billed(e)
                        /\ Complete(e)' <=> Complete(e)
                        /\ Recorded(e)' <=> Recorded(e)
    <2>1. \A e \in sent : via'[e.of] = via[e.of]
      BY DEF EventsPaid, Sound, TypeOK, Event
    <2> QED
      BY <1>2, <2>1 DEF Names, Billed, Complete, Recorded
  <1>6. Named'
    <2> SUFFICES ASSUME orderly'
                 PROVE  /\ \A s \in sent' \ Pending' :
                            s.kind = "started"
                            /\ (\A d \in sent' : Turns(d) /\ d.id > s.id => Untouched(d)')
                            => Names(s.of)'
                        /\ \A h \in Handlers : handler[h] # Idle /\ handler[h].pc = "answer"
                               /\ handler[h].event.kind = "started" => Names(handler[h].event.of)'
      BY <1>2 DEF Named, Turns
    <2>1. \A d \in sent : Untouched(d)' => Untouched(d)
      BY <1>1, <1>4 DEF Untouched
    <2>2. ASSUME NEW s \in sent' \ Pending', s.kind = "started",
                 \A d \in sent' : Turns(d) /\ d.id > s.id => Untouched(d)'
          PROVE  Names(s.of)'
      <3>1. s \in sent \ Pending
        BY <1>4
      <3>2. \A d \in sent : Turns(d) /\ d.id > s.id => Untouched(d)
        BY <1>1, <2>1, <2>2
      <3> QED
        BY <1>5, <2>2, <3>1, <3>2 DEF Regular, Named
    <2>3. \A h \in Handlers : handler[h] # Idle => handler[h].event \in sent
      BY DEF Sound, HandlersSent
    <2>4. \A h \in Handlers : handler[h] # Idle /\ handler[h].pc = "answer"
             /\ handler[h].event.kind = "started" => Names(handler[h].event.of)'
      <3>1. \A h \in Handlers : handler[h] # Idle =>
              (Names(handler[h].event.of)' <=> Names(handler[h].event.of))
        BY <1>2, <1>5, <2>3
      <3> QED
        BY <3>1 DEF Regular, Named
    <2> QED
      BY <2>2, <2>4
  <1>7. InvoiceSteps'
    <2>1. \A h \in Handlers : handler[h] # Idle => handler[h].event \in sent
      BY DEF Sound, HandlersSent
    <2> QED
      BY <1>2, <1>4, <1>5, <2>1 DEF Regular, InvoiceSteps
  <1> QED
    BY <1>3, <1>4, <1>6, <1>7 DEF Regular

\* Every step of a provider is regular.
LEMMA ProviderRegular == Sound /\ Entitled /\ Regular /\ ProviderNext => Regular'
  <1> SUFFICES ASSUME Sound, Entitled, Regular, NEW c \in Checkouts,
                      \/ \E o \in Offers : Checkout(c, o)
                      \/ Renew(c) \/ Decline(c) \/ Recover(c) \/ GiveUp(c)
                      \/ PortalCancel(c) \/ EndAtProvider(c)
               PROVE  Regular'
    BY DEF ProviderNext
  <1>1. EventsPaid
    BY DEF Entitled
  <1>2. ASSUME NEW from \in SUBSET Live, NEW to \in ProviderStates, NEW change,
               Go(c, from, to, change), change # "pay",
               to \in Live \/ to = "ended", change = "end" <=> to = "ended"
        PROVE  Regular'
    <2>1. History'
      BY <1>1, <1>2, GoHistory
    <2>2. Change(c, to, change) /\ via' = via /\ orderly' = orderly
      BY <1>2 DEF Go
    <2> QED
      BY <1>1, <2>1, <2>2, SendingRegular
  <1>3. ASSUME NEW o \in Offers, Checkout(c, o) PROVE Regular'
    <2>1. History'
      BY <1>1, <1>3, PayHistory
    <2>2. Change(c, "active", "pay") /\ (orderly' => orderly) /\ "active" \in ProviderStates
      BY <1>3 DEF Checkout, ProviderStates, Live
    <2>3. \A d \in Checkouts : paying[d] # "none" => via'[d] = via[d]
      BY <1>3 DEF Checkout, Sound, TypeOK
    <2> QED
      BY <1>1, <2>1, <2>2, <2>3, SendingRegular
  <1>4. /\ {"active", "past_due", "unpaid", "cancelling", "ended"} \subseteq ProviderStates
        /\ {"active", "past_due", "unpaid", "cancelling"} = Live
    BY DEF ProviderStates, Live
  <1>5. CASE Renew(c)          BY <1>2, <1>4, <1>5 DEF Renew
  <1>6. CASE Decline(c)        BY <1>2, <1>4, <1>6 DEF Decline
  <1>7. CASE Recover(c)        BY <1>2, <1>4, <1>7 DEF Recover
  <1>8. CASE GiveUp(c)         BY <1>2, <1>4, <1>8 DEF GiveUp
  <1>9. CASE PortalCancel(c)   BY <1>2, <1>4, <1>9 DEF PortalCancel
  <1>10. CASE EndAtProvider(c)
    <2>1. \E from \in SUBSET Live : Go(c, from, "ended", "end")
      BY <1>10 DEF EndAtProvider
    <2> QED
      BY <1>2, <1>4, <2>1
  <1> QED
    BY <1>3, <1>5, <1>6, <1>7, <1>8, <1>9, <1>10

\* The user's own requests put an end to the order, or write nothing.
LEMMA UserRegular == Sound /\ Regular /\ UserNext => Regular'
  <1>1. ASSUME Regular, ~orderly', AnsweredSent' PROVE Regular'
    BY <1>1 DEF Regular, InTurn, History, Named, InvoiceSteps
  <1>2. ASSUME Regular, UNCHANGED <<sub, ledger, providerSide, answered, handler, orderly>>
        PROVE  Regular'
    BY <1>2 DEF ledger, providerSide, Regular, InTurn, History, Named, InvoiceSteps, AnsweredSent,
       Pending, LiveCheckouts, Untouched, Names, Billed, Complete, Recorded, Opens, Turns
  <1> QED
    BY <1>1, <1>2 DEF UserNext, UpgradeToFree, AskCancel, AskResume, Ask, CancelNow, CancelLater,
       Resume, Write, ledger, providerSide, Regular, AnsweredSent

\* A handler in turn: what is before its event is answered, what is after it untouched.
LEMMA HandledInTurn ==
  ASSUME Sound, Regular, orderly, NEW h \in Handlers, handler[h] # Idle
  PROVE  /\ \A g \in Handlers \ {h} : handler[g] = Idle
         /\ handler[h].event \in Pending /\ handler[h].event \in sent
         /\ \A d \in Pending : d.id >= handler[h].event.id
         /\ \A a \in sent \ Pending : a.id < handler[h].event.id
         /\ ~Untouched(handler[h].event)
         /\ \A d \in sent : d.id \in Nat
  <1>1. \A d \in sent : d.id \in Nat
    BY SubscriptionsAssumption DEF Sound, TypeOK, Event
  <1>2. Pending \subseteq sent
    BY DEF Pending
  <1> QED
    BY <1>1, <1>2 DEF Regular, InTurn, Untouched

\* A handler that goes on leaves the turn and the history as they are.
LEMMA GoingInTurn ==
  ASSUME Sound, Regular, NEW h \in Handlers, handler[h] \in Work,
         NEW pc \in {"begun", "found", "recorded", "answer"}, Goto(h, pc),
         UNCHANGED <<providerSide, answered, orderly>>
  PROVE  AnsweredSent' /\ InTurn' /\ History'
  <1>1. /\ handler'[h] \in Work /\ handler'[h].pc = pc /\ handler'[h].event = handler[h].event
        /\ \A g \in Handlers \ {h} : handler'[g] = handler[g]
    BY GotoType DEF Sound, TypeOK
  <1>2. AnsweredSent' /\ History'
    BY DEF Regular, AnsweredSent, History, LiveCheckouts, Opens, Turns, providerSide
  <1>3. Pending' = Pending
    BY DEF Pending, providerSide
  <1>4. InTurn'
    BY <1>1, <1>3, IdleIsNoWork DEF Regular, InTurn, providerSide
  <1> QED
    BY <1>2, <1>4

\* A handler that goes on keeps the row named, when it keeps its customer, or when its event
\* is itself the turn after which the row is named anew.
LEMMA GoingNamed ==
  ASSUME Sound, Regular, NEW h \in Handlers, handler[h] \in Work,
         NEW pc \in {"begun", "found", "recorded", "answer"}, Goto(h, pc),
         UNCHANGED <<providerSide, answered, orderly>>,
         \/ sub # NoRow => sub' # NoRow /\ sub'.cust = sub.cust
         \/ Turns(handler[h].event),
         pc = "answer" /\ handler[h].event.kind = "started" => Names(handler[h].event.of)'
  PROVE  Named'
  <1> DEFINE x == handler[h].event
  <1> SUFFICES ASSUME orderly
               PROVE  /\ \A s \in sent \ Pending :
                           s.kind = "started"
                           /\ (\A d \in sent : Turns(d) /\ d.id > s.id => Untouched(d))
                           => Names(s.of)'
                      /\ \A g \in Handlers :
                           (handler[g] # Idle /\ handler[g].pc = "answer"
                            /\ handler[g].event.kind = "started" => Names(handler[g].event.of))'
    <2>1. \A d : Untouched(d)' <=> Untouched(d)
      BY DEF Untouched, Pending, providerSide
    <2>2. sent' = sent /\ Pending' = Pending /\ orderly' = orderly
      BY DEF Pending, providerSide
    <2> QED
      BY <2>1, <2>2 DEF Named, Turns
  <1>1. /\ handler'[h] \in Work /\ handler'[h].pc = pc /\ handler'[h].event = x
        /\ \A g \in Handlers \ {h} : handler'[g] = handler[g]
    BY GotoType DEF Sound, TypeOK
  <1>2. /\ \A g \in Handlers \ {h} : handler[g] = Idle
        /\ x \in sent /\ ~Untouched(x) /\ \A a \in sent \ Pending : x.id > a.id
    BY HandledInTurn, IdleIsNoWork DEF Sound, TypeOK, Event, Pending
  <1>3. ASSUME NEW s \in sent \ Pending, s.kind = "started",
               \A d \in sent : Turns(d) /\ d.id > s.id => Untouched(d)
        PROVE  Names(s.of)'
    <2>1. ~Turns(x)
      BY <1>2, <1>3
    <2>2. Names(s.of)
      BY <1>3 DEF Regular, Named
    <2> QED
      BY <2>1, <2>2 DEF Names, providerSide
  <1>4. ASSUME NEW g \in Handlers, handler'[g] # Idle, handler'[g].pc = "answer",
               handler'[g].event.kind = "started"
        PROVE  Names(handler[g].event.of)'
    <2>1. g = h
      BY <1>1, <1>2, <1>4
    <2>2. pc = "answer" /\ x.kind = "started"
      BY <1>1, <1>4, <2>1
    <2> QED
      BY <2>1, <2>2
  <1> QED
    BY <1>3, <1>4

\* A handler that goes on keeps what is recorded, when it has recorded what its step says.
LEMMA GoingSteps ==
  ASSUME Sound, Regular, NEW h \in Handlers, handler[h] \in Work,
         NEW pc \in {"begun", "found", "recorded", "answer"}, Goto(h, pc),
         UNCHANGED <<providerSide, answered, orderly>>,
         \A e \in sent : Recorded(e) => Recorded(e)', renewed \subseteq renewed',
         orderly /\ Billed(handler[h].event) =>
            /\ pc = "recorded" => Recorded(handler[h].event)'
            /\ pc = "answer" => Complete(handler[h].event)'
  PROVE  InvoiceSteps'
  <1> DEFINE x == handler[h].event
  <1>1. /\ handler'[h] \in Work /\ handler'[h].pc = pc /\ handler'[h].event = x
        /\ \A g \in Handlers \ {h} : handler'[g] = handler[g]
    BY GotoType DEF Sound, TypeOK
  <1>2. \A e : Billed(e)' <=> Billed(e)
    BY DEF Billed, providerSide
  <1>3. \A e \in sent : Complete(e) => Complete(e)'
    BY DEF Complete, Recorded
  <1>4. x \in sent
    BY IdleIsNoWork DEF Sound, HandlersSent
  <1>5. sent' = sent /\ Pending' = Pending /\ orderly' = orderly
    BY DEF Pending, providerSide
  <1> SUFFICES ASSUME orderly
               PROVE  /\ \A g \in Handlers :
                           (handler[g] # Idle /\ Billed(handler[g].event) =>
                              /\ handler[g].pc = "recorded" => Recorded(handler[g].event)
                              /\ handler[g].pc = "answer" => Complete(handler[g].event))'
                      /\ \A e \in sent \ Pending : Billed(e)' => Complete(e)'
    BY <1>5 DEF InvoiceSteps
  <1>6. \A e \in sent \ Pending : Billed(e)' => Complete(e)'
    BY <1>2, <1>3 DEF Regular, InvoiceSteps
  <1>7. ASSUME NEW g \in Handlers, handler'[g] # Idle, Billed(handler[g].event)'
        PROVE  /\ handler'[g].pc = "recorded" => Recorded(handler[g].event)'
               /\ handler'[g].pc = "answer" => Complete(handler[g].event)'
    <2>1. g = h
      BY <1>1, <1>7, HandledInTurn, IdleIsNoWork
    <2>2. Billed(x)
      <3>1. Billed(handler[h].event)' <=> Billed(x)
        BY <1>1 DEF Billed, providerSide
      <3> QED
        BY <1>7, <2>1, <3>1
    <2> QED
      BY <1>1, <2>1, <2>2
  <1> QED
    BY <1>6, <1>7

\* An invoice handled in turn finds its customer: the last turn before it is its own start.
LEMMA PayerIsFound ==
  ASSUME Sound, Regular, orderly, NEW h \in Handlers, handler[h] # Idle, Billed(handler[h].event)
  PROVE  PayerFound(handler[h].event)
  <1> DEFINE x == handler[h].event
  <1>1. /\ x \in sent /\ x \in Pending /\ \A d \in Pending : d.id >= x.id
        /\ \A d \in sent : d.id \in Nat
    BY HandledInTurn
  <1>2. PICK s \in sent : /\ Opens(s, x.of) /\ s.id < x.id
                          /\ \A d \in sent : Turns(d) /\ d.id < x.id => d.id <= s.id
    BY <1>1 DEF Regular, History, Billed
  <1>3. s \notin Pending
    BY <1>1, <1>2
  <1>4. ASSUME NEW d \in sent, Turns(d), d.id > s.id PROVE Untouched(d)
    <2>1. d # x
      BY <1>4 DEF Turns, Billed
    <2>2. d.id # x.id
      BY <1>1, <2>1 DEF Sound, Numbered
    <2>3. d.id > x.id
      BY <1>1, <1>2, <1>4, <2>2
    <2> QED
      BY <1>1, <2>3 DEF Untouched
  <1>5. Names(x.of)
    BY <1>2, <1>3, <1>4 DEF Regular, Named, Opens
  <1> QED
    BY <1>5 DEF Names, PayerFound, Payer, Billed

\* A delivery in turn.
LEMMA ReceiveRegular ==
  ASSUME Sound, Regular, NEW h \in Handlers, NEW e \in sent, Receive(h, e)
  PROVE  Regular'
  <1> DEFINE w == [pc |-> "begun", event |-> e]
  <1>1. /\ w.event = e /\ w.pc = "begun" /\ handler' = [handler EXCEPT ![h] = w]
        /\ handler[h] = Idle /\ w # Idle /\ e \in Pending
    BY DEF Receive, Idle
  <1> HIDE DEF w
  <1>2. /\ handler'[h] = w /\ \A g \in Handlers \ {h} : handler'[g] = handler[g]
    BY <1>1 DEF Sound, TypeOK
  <1>3. UNCHANGED <<sub, payments, renewed, via, paying, sent, answered>>
    BY DEF Receive, ledger, providerSide
  <1>4. AnsweredSent' /\ (orderly' => orderly) /\ Pending' = Pending
    BY <1>3 DEF Regular, AnsweredSent, Receive, Pending
  <1>5. History'
    BY <1>3, <1>4 DEF Regular, History, LiveCheckouts, Opens, Turns
  <1>6. orderly' => /\ \A g \in Handlers \ {h} : handler'[g] = Idle
                    /\ \A d \in Pending : d.id >= e.id
    BY <1>2 DEF Receive
  <1>7. InTurn'
    BY <1>1, <1>2, <1>3, <1>4, <1>6 DEF Regular, InTurn
  <1>8. Named'
    <2>1. \A d : Untouched(d)' <=> Untouched(d)
      BY <1>4 DEF Untouched
    <2>2. \A c : Names(c)' <=> Names(c)
      BY <1>3 DEF Names
    <2>3. orderly' => \A g \in Handlers :
            (handler[g] # Idle /\ handler[g].pc = "answer" => FALSE)'
      BY <1>1, <1>2, <1>6
    <2> QED
      BY <1>3, <1>4, <2>1, <2>2, <2>3 DEF Regular, Named, Turns
  <1>9. InvoiceSteps'
    <2>1. orderly' => \A g \in Handlers :
            (handler[g] # Idle /\ handler[g].pc \in {"recorded", "answer"} => FALSE)'
      BY <1>1, <1>2, <1>6
    <2>2. \A d : (Billed(d)' <=> Billed(d)) /\ (Complete(d)' <=> Complete(d))
      BY <1>3 DEF Billed, Complete, Recorded
    <2> QED
      BY <1>3, <1>4, <2>1, <2>2 DEF Regular, InvoiceSteps
  <1> QED
    BY <1>4, <1>5, <1>7, <1>8, <1>9 DEF Regular

\* A handler that ends without an answer.
LEMMA FailRegular ==
  ASSUME Sound, Regular, NEW h \in Handlers, Fail(h)
  PROVE  Regular'
  <1>1. UNCHANGED <<sub, payments, renewed, via, paying, sent, answered, orderly>>
    BY DEF Fail, ledger, providerSide
  <1>2. \A g \in Handlers : handler'[g] = IF g = h THEN Idle ELSE handler[g]
    BY DEF Fail, Sound, TypeOK
  <1>3. Pending' = Pending /\ AnsweredSent'
    BY <1>1 DEF Pending, Regular, AnsweredSent
  <1>4. History'
    BY <1>1 DEF Regular, History, LiveCheckouts, Opens, Turns
  <1>5. InTurn'
    BY <1>1, <1>2, <1>3 DEF Regular, InTurn
  <1>6. \A g \in Handlers : handler'[g] # Idle => handler'[g] = handler[g]
    BY <1>2
  <1>7. /\ \A d : (Untouched(d)' <=> Untouched(d)) /\ (Billed(d)' <=> Billed(d))
                  /\ (Complete(d)' <=> Complete(d)) /\ (Recorded(d)' <=> Recorded(d))
        /\ \A c : Names(c)' <=> Names(c)
    BY <1>1, <1>3 DEF Untouched, Names, Billed, Complete, Recorded
  <1>8. Named'
    BY <1>1, <1>3, <1>6, <1>7 DEF Regular, Named, Turns
  <1>9. InvoiceSteps'
    BY <1>1, <1>3, <1>6, <1>7 DEF Regular, InvoiceSteps
  <1> QED
    BY <1>3, <1>4, <1>5, <1>8, <1>9 DEF Regular

\* A handler that answers.
LEMMA AnswerRegular ==
  ASSUME Sound, Regular, NEW h \in Handlers, Answer(h)
  PROVE  Regular'
  <1>1. UNCHANGED <<sub, payments, renewed, via, paying, sent, orderly>>
    BY DEF Answer, ledger, providerSide
  <1>2. \A g \in Handlers : handler'[g] = IF g = h THEN Idle ELSE handler[g]
    BY DEF Answer, Sound, TypeOK
  <1>3. PICK x : x = handler[h].event
    OBVIOUS
  <1>4. x \in sent /\ handler[h] # Idle /\ handler[h].pc = "answer"
    BY <1>3 DEF Answer, At, Sound, HandlersSent
  <1>5. Pending' = Pending \ {x} /\ AnsweredSent'
    <2>1. answered' = answered \cup {x.id}
      BY <1>3 DEF Answer
    <2> QED
      BY <1>1, <1>4, <2>1 DEF Pending, Regular, AnsweredSent, Sound, Numbered
  <1>6. History'
    BY <1>1 DEF Regular, History, LiveCheckouts, Opens, Turns
  <1>7. \A g \in Handlers : handler'[g] # Idle => handler'[g] = handler[g] /\ g # h
    BY <1>2
  <1>8. /\ \A d : (Untouched(d)' => Untouched(d)) /\ (Billed(d)' <=> Billed(d))
                  /\ (Complete(d)' <=> Complete(d)) /\ (Recorded(d)' <=> Recorded(d))
        /\ \A c : Names(c)' <=> Names(c)
    BY <1>1, <1>5 DEF Untouched, Names, Billed, Complete, Recorded
  <1>9. orderly => /\ \A g \in Handlers \ {h} : handler[g] = Idle
                   /\ \A d \in Pending : d.id >= x.id
                   /\ \A a \in sent \ Pending : a.id < x.id
                   /\ \A d \in sent : d.id \in Nat
    BY <1>3, <1>4, HandledInTurn
  <1>10. InTurn'
    <2> SUFFICES ASSUME orderly, NEW d \in Pending \ {x}, NEW a \in (sent \ Pending) \cup {x}
                 PROVE  a.id < d.id
      BY <1>1, <1>5, <1>7, <1>9 DEF InTurn
    <2>1. d \in sent /\ d.id # x.id
      BY <1>4 DEF Pending, Sound, Numbered
    <2> QED
      BY <1>4, <1>9, <2>1 DEF Regular, InTurn
  <1>11. Named'
    <2> SUFFICES ASSUME orderly,
                        NEW s \in (sent \ Pending) \cup {x}, s.kind = "started",
                        \A d \in sent : Turns(d) /\ d.id > s.id => Untouched(d)'
                 PROVE  Names(s.of)
      BY <1>1, <1>4, <1>5, <1>7, <1>8, <1>9 DEF Named, Turns
    <2>1. CASE s \in sent \ Pending
      BY <1>8, <2>1 DEF Regular, Named
    <2>2. CASE s = x
      BY <1>3, <1>4, <2>2 DEF Regular, Named
    <2> QED
      BY <2>1, <2>2
  <1>12. InvoiceSteps'
    <2> SUFFICES ASSUME orderly, NEW e \in (sent \ Pending) \cup {x}, Billed(e)
                 PROVE  Complete(e)
      BY <1>1, <1>4, <1>5, <1>7, <1>8, <1>9 DEF InvoiceSteps
    <2> QED
      BY <1>3, <1>4 DEF Regular, InvoiceSteps
  <1> QED
    BY <1>5, <1>6, <1>10, <1>11, <1>12 DEF Regular

\* A handler that writes the row and goes on to its answer.
LEMMA WriteRegular ==
  ASSUME Sound, Regular, NEW h \in Handlers,
         \/ CheckoutComplete(h) \/ SubscriptionUpdate(h) \/ SubscriptionDeleted(h)
         \/ PaymentFailed(h)
  PROVE  Regular'
  <1>1. /\ handler[h] \in Work /\ Goto(h, "answer") /\ handler[h].event.kind # "paid"
        /\ UNCHANGED <<ledger, providerSide, answered, orderly>>
    BY AtWork DEF CheckoutComplete, SubscriptionUpdate, SubscriptionDeleted, PaymentFailed,
       Sound, TypeOK
  <1>2. \/ sub # NoRow => sub' # NoRow /\ sub'.cust = sub.cust
        \/ Turns(handler[h].event)
    <2>1. CASE CheckoutComplete(h) \/ SubscriptionDeleted(h)
      BY <2>1 DEF CheckoutComplete, SubscriptionDeleted, At, Turns
    <2>2. CASE SubscriptionUpdate(h)
      <3>1. MapStatus(handler[h].event.state) \in Statuses
        BY Rows DEF Sound
      <3>2. sub # NoRow => sub' \in Row /\ sub'.cust = sub.cust
        BY <2>2, <3>1 DEF SubscriptionUpdate, Sound, TypeOK, Row
      <3> QED
        BY <3>2, Rows DEF Sound
    <2>3. CASE PaymentFailed(h)
      <3>1. sub \in Row
        BY <2>3 DEF PaymentFailed, At, Sound, NeedsRow, TypeOK
      <3>2. sub' \in Row /\ sub'.cust = sub.cust
        BY <2>3, <3>1 DEF PaymentFailed, Row, Statuses
      <3> QED
        BY <3>2, Rows DEF Sound
    <2> QED
      BY <2>1, <2>2, <2>3
  <1>3. handler[h].event.kind = "started" => Names(handler[h].event.of)'
    <2> SUFFICES ASSUME handler[h].event.kind = "started" PROVE Names(handler[h].event.of)'
      OBVIOUS
    <2>1. CheckoutComplete(h)
      BY DEF SubscriptionUpdate, SubscriptionDeleted, PaymentFailed, At
    <2>2. handler'[h].event = handler[h].event
      BY <1>1, GotoType DEF Sound, TypeOK
    <2>3. sub'.cust = via[handler[h].event.of].provider /\ sub' # NoRow
      <3>1. sub'.tier = GrantedTier(handler[h].event.of) /\ sub'.cust = via[handler[h].event.of].provider
        BY <2>1 DEF CheckoutComplete
      <3>2. GrantedTier(handler[h].event.of) # "none" /\ NoRow.tier = "none"
        BY <1>1, AtWork, Rows DEF Sound, PaidTiers, NoRow, Work, Event
      <3> QED
        BY <3>1, <3>2
    <2> QED
      BY <1>1, <2>2, <2>3 DEF Names, providerSide
  <1>4. AnsweredSent' /\ InTurn' /\ History'
    BY <1>1, GoingInTurn
  <1>5. Named'
    BY <1>1, <1>2, <1>3, GoingNamed
  <1>6. InvoiceSteps'
    <2>1. ~Billed(handler[h].event)
      BY <1>1 DEF Billed
    <2>2. \A e \in sent : Recorded(e) => Recorded(e)'
      BY <1>1 DEF Recorded, ledger
    <2> QED
      BY <1>1, <2>1, <2>2, GoingSteps DEF ledger
  <1> QED
    BY <1>4, <1>5, <1>6 DEF Regular

\* A handler that does its part of an invoice and goes on.
LEMMA InvoiceRegular ==
  ASSUME Sound, Regular, NEW h \in Handlers,
         FindPayer(h) \/ RecordPayment(h) \/ ExtendPeriod(h)
  PROVE  Regular'
  <1>1. /\ handler[h] \in Work /\ handler[h].event.kind # "started"
        /\ handler[h].event.id \in 1..MaxEvents
        /\ UNCHANGED <<sub, providerSide, answered, orderly>>
    BY AtWork DEF FindPayer, RecordPayment, ExtendPeriod, Sound, TypeOK
  <1>2. PICK pc \in {"found", "recorded", "answer"} : Goto(h, pc)
    BY DEF FindPayer, RecordPayment, ExtendPeriod
  <1>3. handler'[h].pc = pc /\ handler'[h].event = handler[h].event
    BY <1>1, <1>2, GotoType DEF Sound, TypeOK
  <1>4. AnsweredSent' /\ InTurn' /\ History'
    BY <1>1, <1>2, GoingInTurn
  <1>5. Named'
    BY <1>1, <1>2, GoingNamed
  <1>6. \A e \in sent : e.id \in 1..MaxEvents
    BY DEF Sound, TypeOK, Event
  <1>7. (\A e \in sent : Recorded(e) => Recorded(e)') /\ renewed \subseteq renewed'
    <2>1. CASE FindPayer(h) \/ ExtendPeriod(h)
      BY <2>1 DEF FindPayer, ExtendPeriod, Recorded, ledger
    <2>2. CASE RecordPayment(h)
      BY <1>6, <2>2 DEF RecordPayment, Recorded, Sound, TypeOK
    <2> QED
      BY <2>1, <2>2
  <1>8. ASSUME orderly, Billed(handler[h].event)
        PROVE  /\ pc = "recorded" => Recorded(handler[h].event)'
               /\ pc = "answer" => Complete(handler[h].event)'
    <2>1. CASE FindPayer(h)
      <3>1. PayerFound(handler[h].event)
        BY <1>1, <1>8, IdleIsNoWork, PayerIsFound
      <3>2. Goto(h, "found")
        BY <2>1, <3>1 DEF FindPayer
      <3>3. pc = "found"
        BY <1>1, <1>3, <3>2, GotoType DEF Sound, TypeOK
      <3> QED
        BY <3>3
    <2>2. CASE RecordPayment(h)
      <3>1. pc = "recorded"
        BY <1>1, <1>3, <2>2, GotoType DEF RecordPayment, Sound, TypeOK
      <3>2. payments'[handler[h].event.id] >= 1
        BY <1>1, <2>2 DEF RecordPayment, Sound, TypeOK
      <3> QED
        BY <1>3, <3>1, <3>2 DEF Recorded
    <2>3. CASE ExtendPeriod(h)
      <3>1. pc = "answer" /\ handler[h].pc = "recorded" /\ handler[h] # Idle
        BY <1>1, <1>3, <2>3, GotoType DEF ExtendPeriod, At, Sound, TypeOK
      <3>2. Recorded(handler[h].event)
        BY <1>8, <3>1 DEF Regular, InvoiceSteps
      <3>3. payments' = payments /\ handler[h].event.id \in renewed'
        BY <2>3 DEF ExtendPeriod
      <3> QED
        BY <1>3, <3>1, <3>2, <3>3 DEF Complete, Recorded
    <2> QED
      BY <2>1, <2>2, <2>3
  <1>9. InvoiceSteps'
    BY <1>1, <1>2, <1>7, <1>8, GoingSteps
  <1> QED
    BY <1>4, <1>5, <1>9 DEF Regular

\* Every step is regular.
LEMMA StepRegular == Sound /\ Entitled /\ Regular /\ [Next]_vars => Regular'
  <1>1. ASSUME Regular, UNCHANGED vars PROVE Regular'
    BY <1>1 DEF vars, Regular, InTurn, History, Named, InvoiceSteps, AnsweredSent,
       Pending, LiveCheckouts, Untouched, Names, Billed, Complete, Recorded, Opens, Turns
  <1>2. ASSUME Sound, Regular, HandlerNext PROVE Regular'
    BY <1>2, ReceiveRegular, FailRegular, AnswerRegular, WriteRegular, InvoiceRegular
       DEF HandlerNext, Handle
  <1> QED
    BY <1>1, <1>2, ProviderRegular, UserRegular DEF Next

\* As long as events come in turn, an invoice that was answered is recorded and has renewed
\* the period: the customer it names is found, because the checkout it belongs to is the last
\* one the application was told of, whatever fails and is repeated (billing.service.ts:
\* recordPayment, whose findFirst by customer gives up without an error).
THEOREM AlwaysInvoicesRecorded == Spec => []InvoicesRecorded
  <1>1. Init => Entitled /\ Regular
    <2> SUFFICES ASSUME Init PROVE Entitled /\ Regular
      OBVIOUS
    <2>1. sub = NoRow \/ sub.tier = "free"
      BY FreeRowType DEF Init
    <2>2. /\ sent = {} /\ answered = {} /\ LiveCheckouts = {}
          /\ \A h \in Handlers : handler[h] = Idle
      BY DEF Init, LiveCheckouts, Live
    <2> QED
      BY <2>1, <2>2 DEF Entitled, EntitledByCheckout, EventsPaid, Regular, AnsweredSent, InTurn,
         History, Named, InvoiceSteps, Pending
  <1>2. Sound /\ Entitled /\ Regular /\ [Next]_vars => (Entitled /\ Regular)'
    <2>1. Sound /\ Entitled /\ [Next]_vars => Entitled'
      BY StepEntitled
    <2> QED
      BY <2>1, StepRegular
  <1>3. Sound /\ Regular => InvoicesRecorded
    <2> SUFFICES ASSUME Sound, Regular, orderly, NEW e \in sent, e.kind = "paid",
                        via[e.of].provider # "paypal", e.id \in answered
                 PROVE  payments[e.id] >= 1 /\ e.id \in renewed
      BY DEF InvoicesRecorded
    <2>1. e \in sent \ Pending /\ Billed(e)
      BY DEF Pending, Billed
    <2> QED
      BY <2>1 DEF Regular, InvoiceSteps, Complete, Recorded
  <1> QED
    BY <1>1, <1>2, <1>3, AlwaysSound, PTL DEF Spec

-----------------------------------------------------------------------------
(* The row as the provider's mirror                                        *)

\* The row shows checkout c in the provider's state st.
Shows(c, st) ==
  /\ sub # NoRow
  /\ sub.ext = c /\ sub.tier = GrantedTier(c)
  /\ via[c].provider # "paypal" => /\ sub.status = MapStatus(st)
                                   /\ sub.cancelling = (st = "cancelling")

\* The row is as event e leaves it.
Says(e) == IF e.kind = "deleted" THEN sub \in {NoRow, FreeRow} ELSE Shows(e.of, e.state)

\* Event a comes right before event b of the same checkout; an invoice tells of no new state.
Precedes(a, b) ==
  /\ a.id < b.id /\ \A d \in sent : d.id < b.id => d.id <= a.id
  /\ a.of = b.of /\ a.kind # "deleted"
  /\ b.kind \in {"paid", "failed"} /\ via[b.of].provider # "paypal" => a.state = b.state

Last(e) == \A d \in sent : d.id <= e.id

\* As long as one checkout is live at a time, the events are chains that begin with a start and
\* end with a deletion, and the last event tells of the state that the provider is in.
Chained == orderly =>
  /\ \A b \in sent : ~Turns(b) => \E a \in sent : Precedes(a, b)
  /\ \A b \in sent : /\ b.kind = "started" => b.state = "active"
                     /\ b.kind = "failed" => b.state = "past_due"
  /\ \A c \in LiveCheckouts : \E e \in sent :
       /\ Last(e) /\ e.of = c /\ e.kind # "deleted"
       /\ via[c].provider # "paypal" => e.state = paying[c]
  /\ LiveCheckouts = {} => \A e \in sent : Last(e) => e.kind = "deleted"

\* As long as events come in turn the row is as the last answered event leaves it, or as the
\* first pending one does, which a handler has applied without answering.
Shown == orderly =>
  /\ \/ sub \in {NoRow, FreeRow} /\ sent \subseteq Pending
     \/ \E e \in sent : /\ Says(e)
                        /\ \A a \in sent \ Pending : a.id <= e.id
                        /\ \A d \in Pending : d.id >= e.id
  /\ \A h \in Handlers : handler[h] # Idle /\ handler[h].pc = "answer" => Says(handler[h].event)

\* The numbers of what a change at a provider sends.
LEMMA ChangeNumbers ==
  ASSUME Sound, NEW c \in Checkouts, NEW to \in ProviderStates, NEW change, Change(c, to, change)
  PROVE  /\ sent' \subseteq Event /\ Numbered' /\ sent \subseteq sent'
         /\ \A e \in sent' \ sent : e.of = c /\ e.state = to /\ e.id > Emitted
         /\ Emitted \in Nat /\ \A e \in sent' : e.id \in Nat
         /\ \A e \in sent : e.id <= Emitted
  <1>1. /\ sent' \subseteq Event /\ Numbered' /\ sent \subseteq sent'
        /\ \A e \in sent' \ sent : e.of = c /\ e.state = to /\ e.id > Emitted
    BY ChangeSends DEF Sound, TypeOK
  <1> QED
    BY <1>1, FS_CardinalityType, SubscriptionsAssumption DEF Sound, Numbered, Emitted, Event

\* The chain that a checkout begins: its start, and its first invoice.
LEMMA PayChained ==
  ASSUME Sound, Chained, EventsPaid, NEW c \in Checkouts, NEW o \in Offers, Checkout(c, o)
  PROVE  Chained'
  <1>1. Change(c, "active", "pay") /\ "active" \in ProviderStates
    BY DEF Checkout, ProviderStates, Live
  <1>2. /\ sent' \subseteq Event /\ Numbered' /\ sent \subseteq sent'
        /\ \A e \in sent' \ sent : e.of = c /\ e.state = "active" /\ e.id > Emitted
        /\ Emitted \in Nat /\ \A e \in sent' : e.id \in Nat
        /\ \A e \in sent : e.id <= Emitted
    BY <1>1, ChangeNumbers
  <1>3. PICK a, b \in sent' :
          /\ a.id = Emitted + 1 /\ a.kind = "started" /\ a.of = c
          /\ b.id = Emitted + 2 /\ b.kind = "paid" /\ b.of = c
          /\ \A e \in sent' \ sent : e = a \/ e = b
    <2> DEFINE kinds == Told(via'[c].provider, "pay")
    <2>1. kinds[1] = "started" /\ kinds[2] = "paid" /\ DOMAIN kinds = {1, 2}
      BY ToldKinds
    <2>2. PICK a \in sent' : a.id = Emitted + 1 /\ a.kind = "started" /\ a.of = c
      BY <1>1, <2>1, ChangeAdds
    <2>3. PICK b \in sent' : b.id = Emitted + 2 /\ b.kind = "paid" /\ b.of = c
      BY <1>1, <2>1, ChangeAdds
    <2>4. \A e \in sent' \ sent : e.id = Emitted + 1 \/ e.id = Emitted + 2
      BY <1>1, <2>1, ChangeAdds
    <2>5. \A e \in sent' \ sent : e = a \/ e = b
      BY <1>2, <2>2, <2>3, <2>4 DEF Numbered
    <2> QED
      BY <2>2, <2>3, <2>5
  <1>4. a.state = "active" /\ b.state = "active"
    BY <1>2, <1>3
  <1>5. \A e \in sent : via'[e.of] = via[e.of]
    BY DEF Checkout, EventsPaid, Sound, TypeOK, Event
  <1>6. ASSUME orderly' PROVE LiveCheckouts' = {c} /\ paying'[c] = "active" /\ orderly
    <2>1. LiveCheckouts = {} /\ orderly
      BY <1>6 DEF Checkout, LiveCheckouts
    <2>2. paying' = [paying EXCEPT ![c] = "active"]
      BY DEF Checkout, Change
    <2> QED
      BY <2>1, <2>2 DEF LiveCheckouts, Live, Sound, TypeOK
  <1> SUFFICES ASSUME orderly'
               PROVE  /\ \A e \in sent' : ~Turns(e) => \E d \in sent' : Precedes(d, e)'
                      /\ \A e \in sent' : /\ e.kind = "started" => e.state = "active"
                                          /\ e.kind = "failed" => e.state = "past_due"
                      /\ Last(b)' /\ b.of = c /\ b.kind # "deleted" /\ b.state = "active"
    BY <1>3, <1>6 DEF Chained, Turns
  <1>7. ASSUME NEW e \in sent', ~Turns(e) PROVE \E d \in sent' : Precedes(d, e)'
    <2>1. CASE e \in sent
      <3>1. PICK d \in sent : Precedes(d, e)
        BY <1>6, <1>7, <2>1 DEF Chained
      <3>2. \A x \in sent' : x.id < e.id => x \in sent
        BY <1>2, <2>1
      <3> QED
        BY <1>2, <1>5, <2>1, <3>1, <3>2 DEF Precedes
    <2>2. CASE e \notin sent
      <3>1. e = b
        BY <1>3, <1>7, <2>2 DEF Turns
      <3>2. \A x \in sent' : x.id < b.id => x.id <= a.id
        BY <1>2, <1>3
      <3> QED
        BY <1>2, <1>3, <1>4, <3>1, <3>2 DEF Precedes
    <2> QED
      BY <2>1, <2>2
  <1>8. \A e \in sent' : /\ e.kind = "started" => e.state = "active"
                         /\ e.kind = "failed" => e.state = "past_due"
    BY <1>3, <1>4, <1>6 DEF Chained
  <1>9. Last(b)'
    BY <1>2, <1>3 DEF Last
  <1> QED
    BY <1>3, <1>4, <1>7, <1>8, <1>9

\* What a provider sends of a change of a live checkout.
LEMMA ToldOfLive ==
  ASSUME NEW p \in Providers, NEW change, change \notin {"pay", "end"}
  PROVE  LET t == Told(p, change)
         IN  \/ t = <<>> /\ p = "paypal"
             \/ t = <<"paid">> /\ (change = "renew" \/ p = "paypal")
             \/ t = <<"updated">> \/ t = <<"updated", "paid">>
             \/ t = <<"updated", "failed">> /\ change = "decline"
  <1>1. CASE change = "renew"   BY <1>1 DEF Told
  <1>2. CASE change = "decline" BY <1>2 DEF Told, Providers
  <1>3. CASE change = "recover" BY <1>3 DEF Told
  <1>4. CASE change \notin {"renew", "decline", "recover"} BY <1>4 DEF Told
  <1> QED
    BY <1>1, <1>2, <1>3, <1>4

\* The chain that a change of a live checkout continues.
LEMMA GoChained ==
  ASSUME Sound, Regular, Chained, EventsPaid, NEW c \in Checkouts, NEW from \in SUBSET Live,
         NEW to \in Live, NEW change, Go(c, from, to, change), change \notin {"pay", "end"},
         change = "renew" => from = {"active"} /\ to = "active",
         change = "decline" => to = "past_due"
  PROVE  Chained'
  <1> SUFFICES ASSUME orderly' PROVE Chained'
    BY DEF Chained
  <1> DEFINE p == via[c].provider
             kinds == Told(p, change)
  <1>1. Change(c, to, change) /\ to \in ProviderStates /\ via' = via /\ orderly /\ paying[c] \in from
    BY DEF Go, ProviderStates, Live
  <1>2. /\ sent' \subseteq Event /\ Numbered' /\ sent \subseteq sent'
        /\ \A e \in sent' \ sent : e.of = c /\ e.state = to /\ e.id > Emitted
        /\ Emitted \in Nat /\ \A e \in sent' : e.id \in Nat
        /\ \A e \in sent : e.id <= Emitted
    BY <1>1, ChangeNumbers
  <1>3. LiveCheckouts = {c} /\ LiveCheckouts' = {c} /\ paying'[c] = to
    <2>1. paying' = [paying EXCEPT ![c] = to] /\ paying \in [Checkouts -> ProviderStates]
      BY <1>1 DEF Change, Sound, TypeOK
    <2>2. LiveCheckouts = {c}
      BY <1>1 DEF LiveCheckouts, Regular, History
    <2> QED
      BY <2>1, <2>2 DEF LiveCheckouts
  <1>4. PICK l \in sent : /\ Last(l) /\ l.of = c /\ l.kind # "deleted"
                          /\ p # "paypal" => l.state = paying[c]
    BY <1>1, <1>3 DEF Chained
  <1>5. /\ \A i \in DOMAIN kinds : \E e \in sent' : e.id = Emitted + i /\ e.kind = kinds[i] /\ e.of = c
        /\ \A e \in sent' \ sent : \E i \in DOMAIN kinds :
             e.id = Emitted + i /\ e.kind = kinds[i] /\ e.of = c
    BY <1>1, ChangeAdds
  <1>6. \A e \in sent : ~Turns(e) => \E d \in sent' : Precedes(d, e)'
    <2>1. \A d, e \in sent : Precedes(d, e) => Precedes(d, e)'
      <3>1. ASSUME NEW d \in sent, NEW e \in sent, Precedes(d, e) PROVE Precedes(d, e)'
        <4>1. \A x \in sent' : x.id < e.id => x \in sent
          BY <1>2
        <4> QED
          BY <1>1, <3>1, <4>1 DEF Precedes
      <3> QED
        BY <3>1
    <2> QED
      BY <1>1, <1>2, <2>1 DEF Chained
  <1>7. \A e \in sent : /\ e.kind = "started" => e.state = "active"
                        /\ e.kind = "failed" => e.state = "past_due"
    BY <1>1 DEF Chained
  \* What remains to be shown of the events that the change sends.
  <1>8. ASSUME NEW x \in sent', Last(x)', x.of = c, x.kind # "deleted", p # "paypal" => x.state = to,
               \A e \in sent' \ sent :
                 /\ ~Turns(e) => \E d \in sent' : Precedes(d, e)'
                 /\ e.kind # "started" /\ (e.kind = "failed" => e.state = "past_due")
        PROVE  Chained'
    BY <1>1, <1>3, <1>6, <1>7, <1>8 DEF Chained, Turns
  <1>9. \A e \in sent : e.id <= l.id /\ l.id \in Nat
    BY <1>2, <1>4 DEF Last
  <1>10. p \in Providers
    BY Rows DEF Sound
  <1>11. CASE kinds = <<>> /\ p = "paypal"
    <2>1. sent' = sent
      <3>1. DOMAIN kinds = {}
        BY <1>11
      <3> QED
        BY <1>2, <1>5, <3>1
    <2> QED
      BY <1>4, <1>8, <1>11, <2>1 DEF Last
  <1>12. ASSUME NEW k, kinds = <<k>>, k \in {"updated", "paid"},
                k = "paid" /\ p # "paypal" => to = paying[c]
         PROVE  Chained'
    <2>1. PICK x \in sent' : x.id = Emitted + 1 /\ x.kind = k /\ x.of = c
      BY <1>5, <1>12
    <2>2. \A e \in sent' \ sent : e.id = Emitted + 1
      BY <1>5, <1>12
    <2>3. \A e \in sent' \ sent : e = x
      BY <1>2, <2>1, <2>2 DEF Numbered
    <2>4. x.state = to
      BY <1>2, <2>1
    <2>5. \A e \in sent' : e.id < x.id => e.id <= l.id
      BY <1>2, <1>9, <2>1, <2>3
    <2>6. Precedes(l, x)'
      BY <1>1, <1>2, <1>4, <1>9, <1>12, <2>1, <2>4, <2>5 DEF Precedes
    <2>7. Last(x)'
      BY <1>2, <2>1, <2>3 DEF Last
    <2> QED
      BY <1>2, <1>4, <1>8, <1>12, <2>1, <2>3, <2>4, <2>6, <2>7
  <1>13. ASSUME NEW k, kinds = <<"updated", k>>, k \in {"paid", "failed"},
                k = "failed" => to = "past_due"
         PROVE  Chained'
    <2>1. PICK x \in sent' : x.id = Emitted + 1 /\ x.kind = "updated" /\ x.of = c
      BY <1>5, <1>13
    <2>2. PICK y \in sent' : y.id = Emitted + 2 /\ y.kind = k /\ y.of = c
      BY <1>5, <1>13
    <2>3. \A e \in sent' \ sent : e.id = Emitted + 1 \/ e.id = Emitted + 2
      BY <1>5, <1>13
    <2>4. \A e \in sent' \ sent : e = x \/ e = y
      BY <1>2, <2>1, <2>2, <2>3 DEF Numbered
    <2>5. x.state = to /\ y.state = to
      BY <1>2, <2>1, <2>2
    <2>6. \A e \in sent' : /\ e.id < x.id => e.id <= l.id
                           /\ e.id < y.id => e.id <= x.id
      BY <1>2, <1>9, <2>1, <2>2, <2>4
    <2>7. Precedes(l, x)'
      BY <1>1, <1>2, <1>4, <1>9, <2>1, <2>6 DEF Precedes
    <2>8. Precedes(x, y)'
      BY <1>2, <2>1, <2>2, <2>5, <2>6 DEF Precedes
    <2>9. Last(y)'
      BY <1>2, <2>1, <2>2, <2>4 DEF Last
    <2> QED
      BY <1>2, <1>4, <1>8, <1>13, <2>1, <2>2, <2>4, <2>5, <2>7, <2>8, <2>9
  <1> QED
    BY <1>1, <1>10, <1>11, <1>12, <1>13, ToldOfLive

\* The chain that the end of a checkout ends.
LEMMA EndChained ==
  ASSUME Sound, Regular, Chained, NEW c \in Checkouts, NEW from \in SUBSET Live,
         Go(c, from, "ended", "end")
  PROVE  Chained'
  <1> SUFFICES ASSUME orderly' PROVE Chained'
    BY DEF Chained
  <1>1. /\ Change(c, "ended", "end") /\ "ended" \in ProviderStates /\ via' = via /\ orderly
        /\ paying[c] \in from
    BY DEF Go, ProviderStates
  <1>2. /\ sent' \subseteq Event /\ Numbered' /\ sent \subseteq sent'
        /\ \A e \in sent' \ sent : e.of = c /\ e.state = "ended" /\ e.id > Emitted
        /\ Emitted \in Nat /\ \A e \in sent' : e.id \in Nat
        /\ \A e \in sent : e.id <= Emitted
    BY <1>1, ChangeNumbers
  <1>3. LiveCheckouts' = {}
    <2>1. paying' = [paying EXCEPT ![c] = "ended"] /\ paying \in [Checkouts -> ProviderStates]
      BY <1>1 DEF Change, Sound, TypeOK
    <2>2. LiveCheckouts = {c}
      BY <1>1 DEF LiveCheckouts, Regular, History
    <2> QED
      BY <2>1, <2>2 DEF LiveCheckouts, Live
  <1>4. PICK x \in sent' : x.id = Emitted + 1 /\ x.kind = "deleted"
    BY <1>1, ChangeAdds, ToldKinds
  <1>5. \A e \in sent' \ sent : e = x
    <2>1. \A e \in sent' \ sent : e.id = Emitted + 1
      BY <1>1, ChangeAdds, ToldKinds
    <2> QED
      BY <1>2, <1>4, <2>1 DEF Numbered
  <1>6. ASSUME NEW b \in sent', ~Turns(b) PROVE \E a \in sent' : Precedes(a, b)'
    <2>1. b \in sent
      BY <1>4, <1>5, <1>6 DEF Turns
    <2>2. PICK a \in sent : Precedes(a, b)
      BY <1>1, <1>6, <2>1 DEF Chained
    <2>3. \A d \in sent' : d.id < b.id => d \in sent
      BY <1>2, <2>1
    <2>4. Precedes(a, b)'
      BY <1>1, <2>2, <2>3 DEF Precedes
    <2> QED
      BY <1>2, <2>4
  <1>7. \A b \in sent' : /\ b.kind = "started" => b.state = "active"
                         /\ b.kind = "failed" => b.state = "past_due"
    BY <1>1, <1>4, <1>5 DEF Chained
  <1>8. ASSUME NEW e \in sent', Last(e)' PROVE e.kind = "deleted"
    <2>1. e.id >= Emitted + 1
      BY <1>2, <1>4, <1>8 DEF Last
    <2>2. e \notin sent
      BY <1>2, <2>1
    <2> QED
      BY <1>4, <1>5, <2>2
  <1> QED
    BY <1>3, <1>6, <1>7, <1>8 DEF Chained, Turns

\* Every step at a provider keeps the chains.
LEMMA ProviderChained == Sound /\ Entitled /\ Regular /\ Chained /\ ProviderNext => Chained'
  <1> SUFFICES ASSUME Sound, EventsPaid, Regular, Chained, NEW c \in Checkouts,
                      \/ \E o \in Offers : Checkout(c, o)
                      \/ Renew(c) \/ Decline(c) \/ Recover(c) \/ GiveUp(c)
                      \/ PortalCancel(c) \/ EndAtProvider(c)
               PROVE  Chained'
    BY DEF ProviderNext, Entitled
  <1>1. {"active", "past_due", "unpaid", "cancelling"} = Live
    BY DEF Live
  <1>2. CASE \E o \in Offers : Checkout(c, o) BY <1>2, PayChained
  <1>3. CASE Renew(c)        BY <1>1, <1>3, GoChained DEF Renew
  <1>4. CASE Decline(c)      BY <1>1, <1>4, GoChained DEF Decline
  <1>5. CASE Recover(c)      BY <1>1, <1>5, GoChained DEF Recover
  <1>6. CASE GiveUp(c)       BY <1>1, <1>6, GoChained DEF GiveUp
  <1>7. CASE PortalCancel(c) BY <1>1, <1>7, GoChained DEF PortalCancel
  <1>8. CASE EndAtProvider(c)
    <2>1. \E from \in SUBSET Live : Go(c, from, "ended", "end")
      BY <1>8 DEF EndAtProvider
    <2> QED
      BY <2>1, EndChained
  <1> QED
    BY <1>2, <1>3, <1>4, <1>5, <1>6, <1>7, <1>8

\* So does every other step.
LEMMA StepChained == Sound /\ Entitled /\ Regular /\ Chained /\ [Next]_vars => Chained'
  <1>1. ASSUME Chained, UNCHANGED providerSide, orderly' => orderly PROVE Chained'
    <2>1. via' = via /\ paying' = paying /\ sent' = sent
      BY <1>1 DEF providerSide
    <2>2. /\ \A a, b : Precedes(a, b)' <=> Precedes(a, b)
          /\ \A e : Last(e)' <=> Last(e)
          /\ LiveCheckouts' = LiveCheckouts
      BY <2>1 DEF Precedes, Last, LiveCheckouts
    <2> QED
      BY <1>1, <2>1, <2>2 DEF Chained, Turns
  <1>2. UNCHANGED vars => UNCHANGED providerSide /\ (orderly' => orderly)
    BY DEF vars, providerSide
  <1>3. HandlerNext => UNCHANGED providerSide /\ (orderly' => orderly)
    <2>1. ASSUME NEW h, NEW e, Receive(h, e) PROVE UNCHANGED providerSide /\ (orderly' => orderly)
      BY <2>1 DEF Receive
    <2>2. ASSUME NEW h, Handle(h) \/ Fail(h) PROVE UNCHANGED <<providerSide, orderly>>
      BY <2>2 DEF Handle, Fail, CheckoutComplete, SubscriptionUpdate, SubscriptionDeleted,
         FindPayer, RecordPayment, ExtendPeriod, PaymentFailed, Answer
    <2> QED
      BY <2>1, <2>2 DEF HandlerNext
  <1>4. UserNext => UNCHANGED providerSide /\ (orderly' => orderly)
    BY DEF UserNext, UpgradeToFree, AskCancel, AskResume, Ask, CancelNow, CancelLater, Resume, Write
  <1> QED
    BY <1>1, <1>2, <1>3, <1>4, ProviderChained DEF Next

\* A change at a provider leaves the row, and adds events after those it is to follow.
LEMMA ProviderShown == Sound /\ Entitled /\ Regular /\ Shown /\ ProviderNext => Shown'
  <1> SUFFICES ASSUME Sound, EventsPaid, Regular, Shown, ProviderNext, orderly' PROVE Shown'
    BY DEF Entitled, Shown
  <1>1. PICK c \in Checkouts, to \in ProviderStates,
             change \in {"pay", "renew", "decline", "recover", "giveUp", "cancel", "end"} :
          Change(c, to, change)
    <2>1. {"active", "past_due", "unpaid", "cancelling", "ended"} \subseteq ProviderStates
      BY DEF ProviderStates, Live
    <2> QED
      BY <2>1 DEF ProviderNext, Checkout, Renew, Decline, Recover, GiveUp, PortalCancel,
         EndAtProvider, Go
  <1>2. orderly /\ \A d \in Checkouts : paying[d] # "none" => via'[d] = via[d]
    BY DEF ProviderNext, Checkout, Renew, Decline, Recover, GiveUp, PortalCancel, EndAtProvider,
       Go, Sound, TypeOK
  <1>3. UNCHANGED <<sub, answered, handler>>
    BY <1>1 DEF Change
  <1>4. /\ sent' \subseteq Event /\ sent \subseteq sent'
        /\ \A e \in sent' \ sent : e.id > Emitted
        /\ Emitted \in Nat /\ \A e \in sent' : e.id \in Nat
        /\ \A e \in sent : e.id <= Emitted
    BY <1>1, ChangeNumbers
  <1>5. /\ Pending \subseteq Pending'
        /\ \A d \in Pending' \ Pending : d \in sent' \ sent
        /\ sent' \ Pending' = sent \ Pending
    BY <1>2, <1>3, <1>4, SendingInTurn DEF Regular
  <1>6. \A e \in sent : Says(e)' <=> Says(e)
    <2>1. \A e \in sent : e.of \in Checkouts /\ via'[e.of] = via[e.of]
      BY <1>2 DEF EventsPaid, Sound, TypeOK, Event
    <2> QED
      BY <1>3, <2>1 DEF Says, Shows, GrantedTier
  <1>7. \A h \in Handlers : handler'[h] # Idle /\ handler'[h].pc = "answer" => Says(handler[h].event)'
    BY <1>2, <1>3, <1>6 DEF Shown, Sound, HandlersSent
  <1>8. CASE sub \in {NoRow, FreeRow} /\ sent \subseteq Pending
    <2>1. sent' \subseteq Pending'
      BY <1>5, <1>8
    <2> QED
      BY <1>3, <1>7, <1>8, <2>1 DEF Shown
  <1>9. ASSUME NEW e \in sent, Says(e), \A a \in sent \ Pending : a.id <= e.id,
               \A d \in Pending : d.id >= e.id
        PROVE  Shown'
    <2>1. \A d \in Pending' : d.id >= e.id
      BY <1>4, <1>5, <1>9
    <2>2. e \in sent' /\ Says(e)' /\ \A a \in sent' \ Pending' : a.id <= e.id
      BY <1>4, <1>5, <1>6, <1>9
    <2> QED
      BY <1>3, <1>7, <2>1, <2>2 DEF Shown
  <1> QED
    BY <1>2, <1>8, <1>9 DEF Shown

\* What a step leaves of the row and of the events, and of the handlers about to answer.
LEMMA KeepsShown ==
  ASSUME Shown, UNCHANGED <<sub, sent, via, answered>>, orderly' => orderly,
         \A h \in Handlers : handler'[h] # Idle /\ handler'[h].pc = "answer" => handler'[h] = handler[h]
  PROVE  Shown'
  <1>1. \A e : Says(e)' <=> Says(e)
    BY DEF Says, Shows, GrantedTier
  <1>2. sent' = sent /\ Pending' = Pending /\ sub' = sub
    BY DEF Pending
  <1> QED
    BY <1>1, <1>2 DEF Shown

\* A handler that has applied its event leaves the row as the event does.
LEMMA GoingShown ==
  ASSUME Sound, Regular, NEW h \in Handlers, handler[h] \in Work, Goto(h, "answer"),
         UNCHANGED <<providerSide, answered, orderly>>,
         NEW x, x = handler[h].event, orderly => Says(x)'
  PROVE  Shown'
  <1> SUFFICES ASSUME orderly PROVE Shown'
    BY DEF Shown
  <1>1. /\ handler'[h].event = x /\ \A g \in Handlers \ {h} : handler'[g] = handler[g]
    BY GotoType DEF Sound, TypeOK
  <1>2. /\ \A g \in Handlers \ {h} : handler[g] = Idle
        /\ x \in sent /\ \A d \in Pending : d.id >= x.id
        /\ \A a \in sent \ Pending : a.id < x.id
        /\ \A d \in sent : d.id \in Nat
    BY HandledInTurn, IdleIsNoWork
  <1>3. sent' = sent /\ Pending' = Pending
    BY DEF Pending, providerSide
  <1>4. /\ Says(x)' /\ x \in sent'
        /\ \A a \in (sent \ Pending)' : a.id <= x.id
        /\ \A d \in Pending' : d.id >= x.id
    BY <1>2, <1>3
  <1>5. \A g \in Handlers : handler'[g] # Idle => handler'[g].event = x
    BY <1>1, <1>2
  <1>6. ASSUME NEW g \in Handlers, handler'[g] # Idle PROVE Says(handler[g].event)'
    BY <1>4, <1>5, <1>6 DEF Says, Shows, GrantedTier
  <1> QED
    BY <1>4, <1>6 DEF Shown

\* A handler that answers leaves the row as its event does.
LEMMA AnswerShown ==
  ASSUME Sound, Regular, Shown, NEW h \in Handlers, Answer(h)
  PROVE  Shown'
  <1> SUFFICES ASSUME orderly PROVE Shown'
    BY DEF Answer, Shown
  <1>1. /\ UNCHANGED <<sub, via, sent>> /\ handler[h] # Idle /\ handler[h].pc = "answer"
        /\ \A g \in Handlers : handler'[g] = IF g = h THEN Idle ELSE handler[g]
    BY DEF Answer, At, providerSide, Sound, TypeOK
  <1>2. PICK x \in sent : x = handler[h].event
    BY <1>1, HandledInTurn
  <1>3. /\ \A g \in Handlers \ {h} : handler[g] = Idle
        /\ \A d \in Pending : d.id >= x.id
        /\ \A a \in sent \ Pending : a.id < x.id
        /\ \A d \in sent : d.id \in Nat
    BY <1>1, <1>2, HandledInTurn
  <1>4. Says(x)'
    BY <1>1, <1>2 DEF Shown, Says, Shows, GrantedTier
  <1>5. answered' = answered \cup {x.id}
    BY <1>2 DEF Answer
  <1>6. \A d \in Pending' : d.id >= x.id
    BY <1>1, <1>3, <1>5 DEF Pending
  <1>7. \A a \in (sent \ Pending)' : a.id <= x.id
    <2> SUFFICES ASSUME NEW a \in sent, a.id \in answered \/ a.id = x.id PROVE a.id <= x.id
      BY <1>1, <1>5 DEF Pending
    <2>1. a.id \in answered => a \in sent \ Pending
      BY DEF Pending
    <2> QED
      BY <1>3, <2>1
  <1>8. \A g \in Handlers : handler'[g] = Idle
    BY <1>1, <1>3
  <1> QED
    BY <1>1, <1>4, <1>6, <1>7, <1>8 DEF Shown

\* What a handler in turn finds: its checkout, in the state that its event comes after.
LEMMA Basis ==
  ASSUME Sound, Regular, Chained, Shown, orderly, NEW h \in Handlers, handler[h] # Idle,
         NEW x, x = handler[h].event, ~Turns(x)
  PROVE  \E st : /\ Shows(x.of, st)
                 /\ x.kind \in {"paid", "failed"} /\ via[x.of].provider # "paypal" => st = x.state
  <1>1. /\ x \in sent /\ x \in Pending
        /\ \A d \in Pending : d.id >= x.id
        /\ \A d \in sent : d.id \in Nat
    BY HandledInTurn
  <1>2. PICK a \in sent : Precedes(a, x)
    BY <1>1 DEF Chained
  <1>3. a.id < x.id /\ a \in sent \ Pending
    BY <1>1, <1>2 DEF Precedes
  <1>4. PICK e \in sent : Says(e) /\ a.id <= e.id /\ e.id <= x.id
    BY <1>1, <1>3 DEF Shown
  <1>5. CASE e = x
    BY <1>4, <1>5 DEF Says, Turns
  <1>6. CASE e # x
    <2>1. e.id # x.id
      BY <1>1, <1>6 DEF Sound, Numbered
    <2>2. e.id < x.id
      BY <1>1, <1>4, <2>1
    <2>3. e.id = a.id
      BY <1>1, <1>2, <1>4, <2>2 DEF Precedes
    <2>4. e = a
      BY <2>3 DEF Sound, Numbered
    <2> QED
      BY <1>2, <1>4, <2>4 DEF Says, Precedes
  <1> QED
    BY <1>5, <1>6

\* The steps of a handler that write the row.
LEMMA WriteShown ==
  ASSUME Sound, Regular, Chained, Shown, NEW h \in Handlers,
         CheckoutComplete(h) \/ SubscriptionUpdate(h) \/ SubscriptionDeleted(h) \/ PaymentFailed(h)
  PROVE  Shown'
  <1> DEFINE x == handler[h].event
  <1>1. /\ handler[h] \in Work /\ handler[h] # Idle /\ Goto(h, "answer")
        /\ UNCHANGED <<providerSide, answered, orderly>>
    BY IdleIsNoWork DEF CheckoutComplete, SubscriptionUpdate, SubscriptionDeleted, PaymentFailed,
       At, Sound, TypeOK
  <1>2. via' = via /\ \A c : GrantedTier(c)' = GrantedTier(c)
    BY <1>1 DEF providerSide, GrantedTier
  <1>3. sub \in Row \cup {NoRow} /\ \A st : MapStatus(st) \in Statuses
    BY Rows DEF Sound, TypeOK
  <1>4. PICK e : e = x
    OBVIOUS
  <1> SUFFICES ASSUME orderly PROVE Says(e)'
    BY <1>1, <1>4, GoingShown
  <1>5. e \in sent /\ e.of \in Checkouts
    BY <1>1, <1>4 DEF Sound, HandlersSent, TypeOK, Event
  <1>6. NoRow \notin Row /\ GrantedTier(e.of) \in PaidTiers
    BY <1>5, Rows DEF Sound
  <1>7. CASE CheckoutComplete(h)
    <2>1. e.kind = "started" /\ e.state = "active"
      BY <1>4, <1>5, <1>7 DEF CheckoutComplete, At, Chained
    <2>2. /\ sub'.tier = GrantedTier(e.of) /\ sub'.status = "active" /\ sub'.cancelling = FALSE
          /\ sub'.ext = e.of
      BY <1>4, <1>7 DEF CheckoutComplete
    <2>3. sub' # NoRow
      BY <1>6, <2>2 DEF NoRow, PaidTiers
    <2> QED
      BY <1>2, <2>1, <2>2, <2>3 DEF Says, Shows, MapStatus
  <1>8. CASE SubscriptionUpdate(h)
    <2>1. e.kind = "updated" /\ ~Turns(e)
      BY <1>4, <1>8 DEF SubscriptionUpdate, At, Turns
    <2>2. sub # NoRow /\ sub.ext = e.of /\ sub.tier = GrantedTier(e.of)
      BY <1>1, <1>4, <2>1, Basis DEF Shows
    <2>3. sub' = [sub EXCEPT !.status = MapStatus(e.state), !.cancelling = (e.state = "cancelling")]
      BY <1>4, <1>8, <2>2 DEF SubscriptionUpdate
    <2>4. /\ sub'.status = MapStatus(e.state) /\ sub'.cancelling = (e.state = "cancelling")
          /\ sub'.ext = sub.ext /\ sub'.tier = sub.tier /\ sub' \in Row
      BY <1>3, <2>2, <2>3 DEF Row
    <2> QED
      BY <1>2, <1>6, <2>1, <2>2, <2>4 DEF Says, Shows
  <1>9. CASE SubscriptionDeleted(h)
    BY <1>4, <1>9 DEF SubscriptionDeleted, At, Says
  <1>10. CASE PaymentFailed(h)
    <2>1. e.kind = "failed" /\ ~Turns(e) /\ e.state = "past_due"
      BY <1>4, <1>5, <1>10 DEF PaymentFailed, At, Turns, Chained
    <2>2. /\ sub # NoRow /\ sub.ext = e.of /\ sub.tier = GrantedTier(e.of)
          /\ via[e.of].provider # "paypal" => sub.cancelling = FALSE
      BY <1>1, <1>4, <2>1, Basis DEF Shows
    <2>3. sub' = [sub EXCEPT !.status = "past_due"]
      BY <1>10 DEF PaymentFailed
    <2>4. /\ sub'.status = "past_due" /\ sub'.cancelling = sub.cancelling
          /\ sub'.ext = sub.ext /\ sub'.tier = sub.tier /\ sub' \in Row
      BY <1>3, <2>2, <2>3 DEF Row, Statuses
    <2> QED
      BY <1>2, <1>6, <2>1, <2>2, <2>4 DEF Says, Shows, MapStatus
  <1> QED
    BY <1>7, <1>8, <1>9, <1>10

\* The steps of a handler that leave the row.
LEMMA LeaveShown ==
  ASSUME Sound, Regular, Chained, Shown, NEW h \in Handlers,
         FindPayer(h) \/ RecordPayment(h) \/ ExtendPeriod(h)
  PROVE  Shown'
  <1> DEFINE x == handler[h].event
  <1>1. /\ handler[h] \in Work /\ handler[h] # Idle
        /\ \E pc \in {"found", "recorded", "answer"} : Goto(h, pc)
        /\ UNCHANGED <<sub, providerSide, answered, orderly>>
        /\ x.kind \in {"paid", "failed"}
    BY IdleIsNoWork DEF FindPayer, RecordPayment, ExtendPeriod, At, Sound, TypeOK
  <1>2. UNCHANGED <<sub, sent, via, answered, orderly>>
    BY <1>1 DEF providerSide
  <1>3. CASE Goto(h, "answer")
    <2>1. PICK e : e = x
      OBVIOUS
    <2>2. ASSUME orderly PROVE Says(e)'
      <3>1. Says(e)
        BY <1>1, <2>1, <2>2, Basis DEF Says, Shows, Turns
      <3> QED
        BY <1>2, <3>1 DEF Says, Shows, GrantedTier
    <2> QED
      BY <1>1, <1>3, <2>1, <2>2, GoingShown
  <1>4. ASSUME NEW pc \in {"found", "recorded"}, Goto(h, pc) PROVE Shown'
    <2>1. /\ handler'[h].pc = pc /\ \A g \in Handlers \ {h} : handler'[g] = handler[g]
      BY <1>1, <1>4, GotoType DEF Sound, TypeOK
    <2> QED
      BY <1>2, <1>4, <2>1, KeepsShown
  <1> QED
    BY <1>1, <1>3, <1>4

\* Every step keeps the row as the events in turn leave it.
LEMMA StepShown == Sound /\ Entitled /\ Regular /\ Chained /\ Shown /\ [Next]_vars => Shown'
  <1> SUFFICES ASSUME Sound, Entitled, Regular, Chained, Shown, [Next]_vars PROVE Shown'
    OBVIOUS
  <1>1. CASE UNCHANGED vars
    BY <1>1, KeepsShown DEF vars
  <1>2. ASSUME NEW h \in Handlers, NEW e \in sent, Receive(h, e) PROVE Shown'
    <2>1. UNCHANGED <<sub, sent, via, answered>> /\ (orderly' => orderly)
      BY <1>2 DEF Receive, providerSide
    <2>2. \A g \in Handlers : handler'[g] = IF g = h THEN [pc |-> "begun", event |-> e] ELSE handler[g]
      BY <1>2 DEF Receive, Sound, TypeOK
    <2> QED
      BY <2>1, <2>2, KeepsShown
  <1>3. ASSUME NEW h \in Handlers, Fail(h) PROVE Shown'
    <2>1. UNCHANGED <<sub, sent, via, answered, orderly>>
      BY <1>3 DEF Fail, providerSide
    <2>2. \A g \in Handlers : handler'[g] = IF g = h THEN Idle ELSE handler[g]
      BY <1>3 DEF Fail, Sound, TypeOK
    <2> QED
      BY <2>1, <2>2, KeepsShown
  <1>4. ASSUME NEW h \in Handlers, Handle(h) PROVE Shown'
    BY <1>4, WriteShown, LeaveShown, AnswerShown DEF Handle
  <1>5. CASE UserNext
    <2>1. ~orderly' \/ UNCHANGED <<sub, sent, via, answered, handler, orderly>>
      BY <1>5 DEF UserNext, UpgradeToFree, AskCancel, AskResume, Ask, CancelNow, CancelLater,
         Resume, Write, providerSide
    <2> QED
      BY <2>1, KeepsShown DEF Shown
  <1>6. CASE ProviderNext
    BY <1>6, ProviderShown
  <1> QED
    BY <1>1, <1>2, <1>3, <1>4, <1>5, <1>6 DEF Next, HandlerNext

\* Once every event is answered the row is what the provider holds of the live checkout, or of
\* none, as long as the events came in turn, one checkout was paid at a time and the user wrote
\* nothing: a handler that fails half way or an event that comes again never part the two
\* (billing.service.ts: handleCheckoutComplete, handleSubscriptionUpdate,
\* handleSubscriptionDeleted, handlePaymentFailed).
THEOREM AlwaysMirrorsProvider == Spec => []MirrorsProvider
  <1> DEFINE I == Entitled /\ Regular /\ Chained /\ Shown
  <1>1. Init => I
    <2> SUFFICES ASSUME Init PROVE I
      OBVIOUS
    <2>1. sub = NoRow \/ sub.tier = "free"
      BY FreeRowType DEF Init
    <2>2. /\ sent = {} /\ answered = {} /\ LiveCheckouts = {}
          /\ \A h \in Handlers : handler[h] = Idle
      BY DEF Init, LiveCheckouts, Live
    <2>3. Entitled /\ Regular
      BY <2>1, <2>2 DEF Entitled, EntitledByCheckout, EventsPaid, Regular, AnsweredSent, InTurn,
         History, Named, InvoiceSteps, Pending
    <2>4. Chained /\ Shown
      BY <2>2 DEF Init, Chained, Shown
    <2> QED
      BY <2>3, <2>4
  <1>2. Sound /\ I /\ [Next]_vars => I'
    <2> SUFFICES ASSUME Sound, I, [Next]_vars PROVE I'
      OBVIOUS
    <2> QED
      BY StepEntitled, StepRegular, StepChained, StepShown
  <1>3. Sound /\ I => MirrorsProvider
    <2> SUFFICES ASSUME Sound, I, AtRest, orderly
                 PROVE  IF LiveCheckouts = {} THEN sub = NoRow \/ sub = FreeRow
                                              ELSE \A c \in LiveCheckouts : Mirrors(c)
      BY DEF MirrorsProvider
    <2>1. Pending = {} /\ \A e \in sent : e.id \in Nat
      BY SubscriptionsAssumption DEF AtRest, Sound, TypeOK, Event
    <2>2. CASE sub \in {NoRow, FreeRow} /\ sent \subseteq Pending
      BY <2>1, <2>2 DEF Chained
    <2>3. ASSUME NEW e \in sent, Says(e), \A a \in sent \ Pending : a.id <= e.id
          PROVE  IF LiveCheckouts = {} THEN sub = NoRow \/ sub = FreeRow
                                       ELSE \A c \in LiveCheckouts : Mirrors(c)
      <3>1. Last(e)
        BY <2>1, <2>3 DEF Last
      <3>2. CASE LiveCheckouts = {}
        BY <2>3, <3>1, <3>2 DEF Chained, Says
      <3>3. ASSUME NEW c \in LiveCheckouts PROVE Mirrors(c)
        <4>1. PICK l \in sent : /\ Last(l) /\ l.of = c /\ l.kind # "deleted"
                                /\ via[c].provider # "paypal" => l.state = paying[c]
          BY <3>3 DEF Chained
        <4>2. l.id = e.id
          BY <2>1, <3>1, <4>1 DEF Last
        <4>3. l = e
          BY <4>2 DEF Sound, Numbered
        <4> QED
          BY <2>3, <4>1, <4>3 DEF Says, Shows, Mirrors, MapStatus
      <3> QED
        BY <3>2, <3>3
    <2> QED
      BY <2>2, <2>3 DEF Shown
  <1> QED
    BY <1>1, <1>2, <1>3, AlwaysSound, PTL DEF Spec
=============================================================================
