--------------------------- MODULE ApiKeysProofs ---------------------------
(* Theorems about ApiKeys, for every value of its constants.               *)
EXTENDS ApiKeys, FiniteSetTheorems, TLAPS

-----------------------------------------------------------------------------
(* Types                                                                   *)

Sound == TypeOK /\ HasKey

\* Every plan has a limit.
LEMMA Limits == LimitOf \in [Plans -> Int]
  BY ApiKeysAssumption DEF LimitOf, Plans

\* A request at rest is well-formed.
LEMMA IdleType == Idle \in Request /\ Idle.pc = "idle"
  BY DEF Idle, Request, PCs, Changes

\* What a request may start as: one that has read the limit, one that has found a key, a call.
Reading(limit)   == [Idle EXCEPT !.pc = "count", !.limit = limit]
Found(op, k, to) == [Idle EXCEPT !.pc = op, !.key = k, !.to = to]
Calling          == [Idle EXCEPT !.pc = "rate"]

Ops == {"update", "rotate", "revoke"}

LEMMA StartTypes ==
  /\ \A limit \in Int : /\ Reading(limit) \in Request
                        /\ Reading(limit).pc = "count" /\ Reading(limit).limit = limit
                        /\ ~Reading(limit).stale
  /\ \A op \in Ops, k \in Keys, to \in Changes :
       Found(op, k, to) \in Request /\ Found(op, k, to).pc = op /\ Found(op, k, to).key = k
  /\ Calling \in Request /\ Calling.pc = "rate"
  <1>1. ASSUME NEW x \in Request, NEW pc \in PCs, NEW limit \in Int
        PROVE  [x EXCEPT !.pc = pc, !.limit = limit] \in Request
    BY DEF Request
  <1>a. ASSUME NEW x \in Request, NEW pc \in PCs, NEW limit \in Int
        PROVE  /\ [x EXCEPT !.pc = pc, !.limit = limit].pc = pc
               /\ [x EXCEPT !.pc = pc, !.limit = limit].limit = limit
               /\ [x EXCEPT !.pc = pc, !.limit = limit].stale = x.stale
    BY DEF Request
  <1>2. ASSUME NEW x \in Request, NEW pc \in PCs, NEW k \in Keys, NEW to \in Changes
        PROVE  [x EXCEPT !.pc = pc, !.key = k, !.to = to] \in Request
    BY DEF Request
  <1>3. ASSUME NEW x \in Request, NEW pc \in PCs, NEW k \in Keys, NEW to \in Changes
        PROVE  /\ [x EXCEPT !.pc = pc, !.key = k, !.to = to].pc = pc
               /\ [x EXCEPT !.pc = pc, !.key = k, !.to = to].key = k
    BY DEF Request
  <1>4. ASSUME NEW x \in Request, NEW pc \in PCs
        PROVE  [x EXCEPT !.pc = pc] \in Request /\ [x EXCEPT !.pc = pc].pc = pc
    BY DEF Request
  <1>5. "count" \in PCs /\ "rate" \in PCs /\ Ops \subseteq PCs
    BY DEF PCs, Ops
  <1>6. ~Idle.stale
    BY DEF Idle
  <1>7. ASSUME NEW limit \in Int
        PROVE  /\ Reading(limit) \in Request
               /\ Reading(limit).pc = "count" /\ Reading(limit).limit = limit
               /\ ~Reading(limit).stale
    <2>1. Idle \in Request /\ "count" \in PCs
      BY <1>5, IdleType
    <2>2. Reading(limit) \in Request
      BY <1>1, <1>7, <2>1 DEF Reading
    <2>3. /\ Reading(limit).pc = "count" /\ Reading(limit).limit = limit
          /\ Reading(limit).stale = Idle.stale
      BY <1>a, <1>7, <2>1 DEF Reading
    <2> QED
      BY <1>6, <2>2, <2>3
  <1>8. ASSUME NEW op \in Ops, NEW k \in Keys, NEW to \in Changes
        PROVE  Found(op, k, to) \in Request /\ Found(op, k, to).pc = op /\ Found(op, k, to).key = k
    <2>1. Idle \in Request /\ op \in PCs
      BY <1>5, <1>8, IdleType
    <2>2. Found(op, k, to) \in Request
      BY <1>2, <1>8, <2>1 DEF Found
    <2>3. Found(op, k, to).pc = op /\ Found(op, k, to).key = k
      BY <1>3, <1>8, <2>1 DEF Found
    <2> QED
      BY <2>2, <2>3
  <1>9. Calling \in Request /\ Calling.pc = "rate"
    BY <1>4, <1>5, IdleType DEF Calling
  <1> QED
    BY <1>7, <1>8, <1>9

\* The steps that start a request.
LEMMA Starts ==
  ASSUME NEW r, NEW k, NEW op, NEW to
  PROVE  /\ AskCreate(r) => Start(r, Reading(LimitOf[plan])) /\ UNCHANGED <<key, plan, Account, passed>>
         /\ Find(r, k, op, to) => Start(r, Found(op, k, to)) /\ UNCHANGED <<key, plan, Account, passed>>
                                  /\ Exists(k)
         /\ Call(r) => Start(r, Calling) /\ UNCHANGED <<key, plan, Account, passed>>
  BY DEF AskCreate, Find, Call, Reading, Found, Calling

\* Another step of a request.
LEMMA Goes ==
  ASSUME NEW x \in Request, NEW pc \in PCs
  PROVE  /\ [x EXCEPT !.pc = pc] \in Request
         /\ [x EXCEPT !.pc = pc].pc = pc
         /\ [x EXCEPT !.pc = pc].stale = x.stale
  BY DEF Request

\* A request whose reading is out of date is still well-formed, and at its step.
LEMMA OutdatedType ==
  ASSUME req \in [Requests -> Request], NEW pcs
  PROVE  /\ Outdated(pcs) \in [Requests -> Request]
         /\ \A q \in Requests : /\ Outdated(pcs)[q].pc = req[q].pc
                                /\ Outdated(pcs)[q].key = req[q].key
                                /\ Outdated(pcs)[q].limit = req[q].limit
                                /\ req[q].pc \notin pcs => Outdated(pcs)[q] = req[q]
                                /\ req[q].pc \in pcs => Outdated(pcs)[q].stale
  <1> SUFFICES ASSUME NEW q \in Requests
               PROVE  /\ Outdated(pcs)[q] \in Request
                      /\ Outdated(pcs)[q].pc = req[q].pc
                      /\ Outdated(pcs)[q].key = req[q].key
                      /\ Outdated(pcs)[q].limit = req[q].limit
                      /\ req[q].pc \notin pcs => Outdated(pcs)[q] = req[q]
                      /\ req[q].pc \in pcs => Outdated(pcs)[q].stale
    BY DEF Outdated
  <1>1. req[q] \in Request
    OBVIOUS
  <1>2. [req[q] EXCEPT !.stale = TRUE] \in Request
        /\ [req[q] EXCEPT !.stale = TRUE].pc = req[q].pc
        /\ [req[q] EXCEPT !.stale = TRUE].key = req[q].key
        /\ [req[q] EXCEPT !.stale = TRUE].limit = req[q].limit
        /\ [req[q] EXCEPT !.stale = TRUE].stale
    BY <1>1 DEF Request
  <1> QED
    BY <1>1, <1>2 DEF Outdated

\* What a step does to a key: nothing, or one write.
Wrote(k, row) == key' = [key EXCEPT ![k] = row]

\* A write keeps the keys well-formed and the others as they are.
LEMMA WroteType ==
  ASSUME key \in [Keys -> KeyRow], NEW k \in Keys, NEW row \in KeyRow, Wrote(k, row)
  PROVE  /\ key' \in [Keys -> KeyRow]
         /\ key'[k] = row
         /\ \A m \in Keys \ {k} : key'[m] = key[m]
  BY DEF Wrote

\* The row that createApiKey creates.
LEMMA CreateWrites ==
  ASSUME NEW r, NEW k, Create(r, k)
  PROVE  \E row \in KeyRow : /\ Wrote(k, row) /\ row.secret = 1
                             /\ row.isActive /\ ~row.revoked /\ ~row.expired
  <1> DEFINE row == [secret |-> 1, isActive |-> TRUE, revoked |-> FALSE, expired |-> FALSE]
  <1>1. row \in KeyRow
    BY DEF KeyRow
  <1>2. Wrote(k, row) /\ row.secret = 1 /\ row.isActive /\ ~row.revoked /\ ~row.expired
    BY DEF Wrote, Create
  <1> QED
    BY <1>1, <1>2

\* An update keeps the secret and the revocation.
LEMMA UpdateWrites ==
  ASSUME Sound, NEW r \in Requests, Update(r)
  PROVE  /\ req[r].key \in Keys /\ Exists(req[r].key)
         /\ \E row \in KeyRow :
              /\ Wrote(req[r].key, row)
              /\ row.secret = key[req[r].key].secret /\ row.revoked = key[req[r].key].revoked
              /\ \/ /\ row.isActive <=> req[r].to = "on"
                    /\ row.expired = key[req[r].key].expired
                 \/ row.isActive = key[req[r].key].isActive /\ ~row.expired
  <1>1. PICK k : k = req[r].key
    OBVIOUS
  <1>2. k \in Keys /\ Exists(k) /\ key[k] \in KeyRow
    BY <1>1 DEF Update, At, Sound, HasKey, TypeOK
  <1>3. ASSUME NEW b \in BOOLEAN, NEW row, row = [key[k] EXCEPT !.isActive = b]
        PROVE  row \in KeyRow /\ row.secret = key[k].secret /\ row.revoked = key[k].revoked
               /\ (row.isActive <=> b) /\ row.expired = key[k].expired
    BY <1>2, <1>3 DEF KeyRow
  <1>4. ASSUME NEW row, row = [key[k] EXCEPT !.expired = FALSE]
        PROVE  row \in KeyRow /\ row.secret = key[k].secret /\ row.revoked = key[k].revoked
               /\ row.isActive = key[k].isActive /\ ~row.expired
    BY <1>2, <1>4 DEF KeyRow
  <1>5. PICK b \in BOOLEAN : b = (req[r].to = "on")
    OBVIOUS
  <1>6. \/ key' = [key EXCEPT ![k] = [key[k] EXCEPT !.isActive = b]]
        \/ key' = [key EXCEPT ![k] = [key[k] EXCEPT !.expired = FALSE]]
    BY <1>1, <1>5 DEF Update
  <1>7. CASE key' = [key EXCEPT ![k] = [key[k] EXCEPT !.isActive = b]]
    <2>1. PICK row : row = [key[k] EXCEPT !.isActive = b]
      OBVIOUS
    <2>2. Wrote(k, row)
      BY <1>7, <2>1 DEF Wrote
    <2>3. row \in KeyRow /\ row.secret = key[k].secret /\ row.revoked = key[k].revoked
          /\ (row.isActive <=> b) /\ row.expired = key[k].expired
      BY <1>3, <2>1
    <2>4. row.isActive <=> req[r].to = "on"
      BY <1>5, <2>3
    <2> QED
      BY <1>1, <1>2, <2>2, <2>3, <2>4
  <1>8. CASE key' = [key EXCEPT ![k] = [key[k] EXCEPT !.expired = FALSE]]
    <2>1. PICK row : row = [key[k] EXCEPT !.expired = FALSE]
      OBVIOUS
    <2>2. Wrote(k, row)
      BY <1>8, <2>1 DEF Wrote
    <2> QED
      BY <1>1, <1>2, <1>4, <2>1, <2>2
  <1> QED
    BY <1>6, <1>7, <1>8

\* A rotation replaces the secret.
LEMMA RotateWrites ==
  ASSUME Sound, NEW r \in Requests, Rotate(r)
  PROVE  /\ req[r].key \in Keys /\ Exists(req[r].key)
         /\ \E row \in KeyRow :
              /\ Wrote(req[r].key, row)
              /\ row.secret = key[req[r].key].secret + 1 /\ row.revoked = key[req[r].key].revoked
              /\ row.isActive = key[req[r].key].isActive
              /\ row.expired = key[req[r].key].expired
  <1>1. PICK k : k = req[r].key
    OBVIOUS
  <1>2. k \in Keys /\ Exists(k) /\ key[k] \in KeyRow
    BY <1>1 DEF Rotate, At, Sound, HasKey, TypeOK
  <1>3. ASSUME NEW n \in Nat, NEW row, row = [key[k] EXCEPT !.secret = n]
        PROVE  row \in KeyRow /\ row.secret = n /\ row.revoked = key[k].revoked
               /\ row.isActive = key[k].isActive /\ row.expired = key[k].expired
    BY <1>2, <1>3 DEF KeyRow
  <1>4. PICK n \in Nat : n = key[k].secret + 1
    BY <1>2 DEF KeyRow
  <1>5. key' = [key EXCEPT ![k] = [key[k] EXCEPT !.secret = n]]
    BY <1>1, <1>4 DEF Rotate
  <1>6. PICK row : row = [key[k] EXCEPT !.secret = n]
    OBVIOUS
  <1>7. Wrote(k, row)
    BY <1>5, <1>6 DEF Wrote
  <1> QED
    BY <1>1, <1>2, <1>3, <1>4, <1>6, <1>7

\* A revocation turns the key off and marks it.
LEMMA RevokeWrites ==
  ASSUME Sound, NEW r \in Requests, Revoke(r)
  PROVE  /\ req[r].key \in Keys /\ Exists(req[r].key)
         /\ \E row \in KeyRow :
              /\ Wrote(req[r].key, row)
              /\ row.secret = key[req[r].key].secret /\ row.revoked /\ ~row.isActive
              /\ row.expired = key[req[r].key].expired
  <1>1. PICK k : k = req[r].key
    OBVIOUS
  <1>2. k \in Keys /\ Exists(k) /\ key[k] \in KeyRow
    BY <1>1 DEF Revoke, At, Sound, HasKey, TypeOK
  <1>3. ASSUME NEW row, row = [key[k] EXCEPT !.isActive = FALSE, !.revoked = TRUE]
        PROVE  row \in KeyRow /\ row.secret = key[k].secret /\ row.revoked /\ ~row.isActive
               /\ row.expired = key[k].expired
    BY <1>2, <1>3 DEF KeyRow
  <1>4. key' = [key EXCEPT ![k] = [key[k] EXCEPT !.isActive = FALSE, !.revoked = TRUE]]
    BY <1>1 DEF Revoke
  <1> QED
    BY <1>1, <1>2, <1>3, <1>4 DEF Wrote

\* Rows are never removed, whatever is written.
LEMMA StillExist ==
  ASSUME Sound, NEW k \in Keys, NEW row \in KeyRow, Wrote(k, row), row.secret > 0
  PROVE  key' \in [Keys -> KeyRow] /\ \A m \in Keys : Exists(m) => Exists(m)'
  <1>1. /\ key' \in [Keys -> KeyRow]
        /\ key'[k] = row
        /\ \A m \in Keys \ {k} : key'[m] = key[m]
    BY WroteType DEF Sound, TypeOK
  <1> QED
    BY <1>1 DEF Exists

\* A request that moves, beside others that may be out of date, leaves the requests sound.
LEMMA Moves ==
  ASSUME Sound, NEW r \in Requests, NEW x \in Request, NEW f \in [Requests -> Request],
         \A q \in Requests : f[q].pc = req[q].pc /\ f[q].key = req[q].key,
         req' = [f EXCEPT ![r] = x],
         \A m \in Keys : Exists(m) => Exists(m)',
         x.pc \in {"update", "rotate", "revoke"} => x.key \in Keys /\ Exists(x.key)
  PROVE  req' \in [Requests -> Request] /\ HasKey'
  <1>1. /\ req' \in [Requests -> Request] /\ req'[r] = x
        /\ \A q \in Requests \ {r} : req'[q].pc = req[q].pc /\ req'[q].key = req[q].key
    OBVIOUS
  <1>2. ASSUME NEW q \in Requests, req'[q].pc \in {"update", "rotate", "revoke"}
        PROVE  req'[q].key \in Keys /\ key'[req'[q].key].secret > 0
    BY <1>1, <1>2 DEF Sound, HasKey, Exists
  <1> QED
    BY <1>1, <1>2 DEF HasKey, Exists

\* A step about the keys of the table.
LEMMA TokenSound == Sound /\ TokenNext => Sound'
  <1> SUFFICES ASSUME Sound, NEW r \in Requests,
                      \/ AskCreate(r) \/ Count(r) \/ Update(r) \/ Rotate(r) \/ Revoke(r)
                      \/ \E k \in Keys :
                           \/ Create(r, k)
                           \/ \E to \in Changes : Find(r, k, "update", to)
                           \/ \E op \in {"rotate", "revoke"} : Find(r, k, op, "on")
               PROVE  Sound'
    BY DEF TokenNext
  <1>1. req \in [Requests -> Request] /\ key \in [Keys -> KeyRow]
    BY DEF Sound, TypeOK
  <1>2. ASSUME req' \in [Requests -> Request] /\ HasKey', key' \in [Keys -> KeyRow],
               UNCHANGED <<plan, Account, passed>>, made' \in 0..MaxRequests
        PROVE  Sound'
    BY <1>2 DEF Sound, TypeOK, Account
  <1>3. ASSUME NEW x \in Request, Start(r, x), UNCHANGED <<key, plan, Account, passed>>,
               x.pc \in {"update", "rotate", "revoke"} => x.key \in Keys /\ Exists(x.key)
        PROVE  Sound'
    <2>1. \A m \in Keys : Exists(m) => Exists(m)'
      BY <1>3 DEF Exists
    <2>2. req' \in [Requests -> Request] /\ HasKey'
      BY <1>1, <1>3, <2>1, Moves DEF Start
    <2>3. made' \in 0..MaxRequests
      BY <1>3, ApiKeysAssumption, Limits DEF Start, Sound, TypeOK
    <2> QED
      BY <1>1, <1>2, <1>3, <2>2, <2>3
  <1>4. ASSUME UNCHANGED <<plan, Account, made, passed>>,
               key' \in [Keys -> KeyRow] /\ \A m \in Keys : Exists(m) => Exists(m)',
               NEW pcs, NEW x \in Request, x.pc \notin {"update", "rotate", "revoke"},
               \/ req' = [req EXCEPT ![r] = x]
               \/ req' = [Outdated(pcs) EXCEPT ![r] = x]
        PROVE  Sound'
    <2>1. req' \in [Requests -> Request] /\ HasKey'
      <3>1. CASE req' = [req EXCEPT ![r] = x]
        BY <1>1, <1>4, <3>1, Moves
      <3>2. CASE req' = [Outdated(pcs) EXCEPT ![r] = x]
        <4> DEFINE f == Outdated(pcs)
        <4>1. f \in [Requests -> Request]
              /\ \A q \in Requests : f[q].pc = req[q].pc /\ f[q].key = req[q].key
          BY <1>1, OutdatedType
        <4> HIDE DEF f
        <4> QED
          BY <1>4, <3>2, <4>1, Moves DEF f
      <3> QED
        BY <1>4, <3>1, <3>2
    <2> QED
      BY <1>2, <1>4, <2>1 DEF Sound, TypeOK
  <1>5. CASE AskCreate(r)
    <2>1. LimitOf[plan] \in Int
      BY ApiKeysAssumption, Limits DEF Sound, TypeOK
    <2>2. Reading(LimitOf[plan]) \in Request /\ Reading(LimitOf[plan]).pc = "count"
      BY <2>1, StartTypes
    <2> QED
      BY <1>3, <1>5, <2>2, Starts
  <1>6. CASE Count(r)
    <2>1. \A m \in Keys : Exists(m) => Exists(m)'
      BY <1>6 DEF Count, Exists
    <2>2. [req[r] EXCEPT !.pc = "create"] \in Request
          /\ [req[r] EXCEPT !.pc = "create"].pc = "create"
      BY <1>1 DEF Request, PCs
    <2>3. \E x \in Request : x.pc \notin {"update", "rotate", "revoke"}
                             /\ req' = [req EXCEPT ![r] = x]
      BY <1>6, <2>2, IdleType DEF Count, End
    <2> QED
      BY <1>1, <1>4, <1>6, <2>1, <2>3 DEF Count
  <1>7. ASSUME NEW k \in Keys, Create(r, k) PROVE Sound'
    <2>1. PICK row \in KeyRow : row.secret > 0 /\ Wrote(k, row)
      BY <1>7, CreateWrites
    <2>2. key' \in [Keys -> KeyRow] /\ \A m \in Keys : Exists(m) => Exists(m)'
      BY <2>1, StillExist
    <2> QED
      BY <1>4, <1>7, <2>2, IdleType DEF Create
  <1>8. ASSUME Update(r) \/ Rotate(r) \/ Revoke(r) PROVE Sound'
    <2>1. PICK k : k = req[r].key
      OBVIOUS
    <2>2. k \in Keys /\ key[k].secret > 0 /\ key[k].secret \in Nat
      BY <1>1, <1>8, <2>1, UpdateWrites, RotateWrites, RevokeWrites DEF Exists, KeyRow
    <2>3. \E row \in KeyRow : row.secret > 0 /\ Wrote(k, row)
      BY <1>8, <2>1, <2>2, UpdateWrites, RotateWrites, RevokeWrites
    <2>4. key' \in [Keys -> KeyRow] /\ \A m \in Keys : Exists(m) => Exists(m)'
      BY <2>2, <2>3, StillExist
    <2>5. \/ req' = [req EXCEPT ![r] = Idle]
          \/ req' = [Outdated({"create"}) EXCEPT ![r] = Idle]
      BY <1>8 DEF Update, Rotate, Revoke, End
    <2>6. UNCHANGED <<plan, Account, made, passed>>
      BY <1>8 DEF Update, Rotate, Revoke
    <2>7. Idle \in Request /\ Idle.pc \notin {"update", "rotate", "revoke"}
      BY IdleType
    <2>8. PICK pcs : pcs = {"create"}
      OBVIOUS
    <2>9. \/ req' = [req EXCEPT ![r] = Idle]
          \/ req' = [Outdated(pcs) EXCEPT ![r] = Idle]
      BY <2>5, <2>8
    <2> QED
      BY <1>4, <2>4, <2>6, <2>7, <2>9
  <1>9. ASSUME NEW k \in Keys, NEW op \in {"update", "rotate", "revoke"}, NEW to \in Changes,
               Find(r, k, op, to)
        PROVE  Sound'
    <2>1. Found(op, k, to) \in Request /\ Found(op, k, to).key = k
      BY <1>9, StartTypes DEF Ops
    <2> QED
      BY <1>3, <1>9, <2>1, Starts
  <1> QED
    BY <1>5, <1>6, <1>7, <1>8, <1>9 DEF Changes

\* A step about the account's own key.
LEMMA AccountSound == Sound /\ AccountNext => Sound'
  <1> SUFFICES ASSUME Sound, AccountNext PROVE Sound'
    OBVIOUS
  <1>1. req \in [Requests -> Request] /\ key \in [Keys -> KeyRow]
    BY DEF Sound, TypeOK
  <1>2. CASE Generate \/ RevokeAccountKey
    <2>1. UNCHANGED <<key, plan, req, passed, usage>> /\ account' \in BOOLEAN
      BY <1>2 DEF Generate, RevokeAccountKey, Sound, TypeOK
    <2>2. made' \in 0..MaxRequests
      BY <1>2, ApiKeysAssumption DEF Generate, RevokeAccountKey, Sound, TypeOK
    <2>3. HasKey'
      BY <2>1 DEF Sound, HasKey, Exists
    <2> QED
      BY <2>1, <2>2, <2>3 DEF Sound, TypeOK
  <1>3. ASSUME NEW r \in Requests, Call(r) \/ CheckRateLimit(r) \/ TrackUsage(r) PROVE Sound'
    <2>1. \E x \in Request : /\ x.pc \notin {"update", "rotate", "revoke"}
                             /\ req' = [req EXCEPT ![r] = x]
      <3>1. CASE Call(r)
        BY <3>1, StartTypes, Starts DEF Start
      <3>2. CASE CheckRateLimit(r)
        <4>1. [req[r] EXCEPT !.pc = "track"] \in Request
              /\ [req[r] EXCEPT !.pc = "track"].pc = "track"
          BY <1>1, Goes DEF PCs
        <4> QED
          BY <3>2, <4>1, IdleType DEF CheckRateLimit, End
      <3>3. CASE TrackUsage(r)
        BY <3>3, IdleType DEF TrackUsage, End
      <3> QED
        BY <1>3, <3>1, <3>2, <3>3
    <2>2. key' = key /\ plan' = plan /\ account' = account /\ usage' \in Nat
          /\ passed' = passed /\ made' \in 0..MaxRequests
      BY <1>3, ApiKeysAssumption, Limits
         DEF Call, Start, CheckRateLimit, TrackUsage, Account, Sound, TypeOK
    <2>3. \A m \in Keys : Exists(m) => Exists(m)'
      BY <2>2 DEF Exists
    <2>4. req' \in [Requests -> Request] /\ HasKey'
      BY <1>1, <2>1, <2>3, Moves
    <2> QED
      BY <2>2, <2>4 DEF Sound, TypeOK
  <1> QED
    BY <1>2, <1>3 DEF AccountNext

\* A step of the world.
LEMMA WorldSound == Sound /\ WorldNext => Sound'
  <1> SUFFICES ASSUME Sound, WorldNext PROVE Sound'
    OBVIOUS
  <1>1. req \in [Requests -> Request] /\ key \in [Keys -> KeyRow]
    BY DEF Sound, TypeOK
  <1>2. passed' \in 0..MaxEvents /\ made' = made
    BY ApiKeysAssumption, Limits
       DEF WorldNext, ChangePlan, Expire, SlideWindow, Fail, Pass, Sound, TypeOK
  <1>3. ASSUME NEW p \in Plans, ChangePlan(p) PROVE Sound'
    <2> DEFINE f == Outdated({"count", "create"})
    <2>1. f \in [Requests -> Request]
          /\ \A q \in Requests : f[q].pc = req[q].pc /\ f[q].key = req[q].key
      BY <1>1, OutdatedType
    <2>2. req' = f /\ key' = key
      BY <1>3 DEF ChangePlan
    <2> HIDE DEF f
    <2>3. HasKey'
      BY <2>1, <2>2 DEF Sound, HasKey, Exists
    <2> QED
      BY <1>2, <1>3, <2>1, <2>2, <2>3 DEF ChangePlan, Sound, TypeOK, Account
  <1>4. ASSUME NEW k \in Keys, Expire(k) PROVE Sound'
    <2>1. PICK row : row = [key[k] EXCEPT !.expired = TRUE]
      OBVIOUS
    <2>2. row \in KeyRow /\ row.secret > 0
      BY <1>1, <1>4, <2>1 DEF Expire, Exists, KeyRow
    <2>3. Wrote(k, row)
      BY <1>4, <2>1 DEF Expire, Wrote
    <2>4. key' \in [Keys -> KeyRow] /\ \A m \in Keys : Exists(m) => Exists(m)'
      BY <2>2, <2>3, StillExist
    <2>5. HasKey'
      BY <1>4, <2>4 DEF Expire, Sound, HasKey, Exists
    <2> QED
      BY <1>2, <1>4, <2>4, <2>5 DEF Expire, Sound, TypeOK, Account
  <1>5. CASE SlideWindow
    BY <1>2, <1>5 DEF SlideWindow, Sound, TypeOK, HasKey, Exists
  <1>6. ASSUME NEW r \in Requests, Fail(r) PROVE Sound'
    <2>1. \A m \in Keys : Exists(m) => Exists(m)'
      BY <1>6 DEF Fail, Exists
    <2>2. req' = [req EXCEPT ![r] = Idle]
      BY <1>6 DEF Fail, End
    <2>3. req' \in [Requests -> Request] /\ HasKey'
      BY <1>1, <2>1, <2>2, IdleType, Moves
    <2> QED
      BY <1>2, <1>6, <2>3 DEF Fail, Sound, TypeOK, Account
  <1> QED
    BY <1>3, <1>4, <1>5, <1>6 DEF WorldNext

\* Every step is sound.
LEMMA StepSound == Sound /\ [Next]_vars => Sound'
  <1>1. ASSUME Sound, UNCHANGED vars PROVE Sound'
    BY <1>1 DEF vars, Sound, TypeOK, HasKey, Exists
  <1> QED
    BY <1>1, TokenSound, AccountSound, WorldSound DEF Next

\* The invariant on which the other theorems rest.
LEMMA AlwaysSound == Spec => []Sound
  <1>1. Init => Sound
    <2>1. NoKey \in KeyRow
      BY DEF NoKey, KeyRow
    <2> QED
      <3>1. ASSUME Init PROVE HasKey
        BY <3>1, IdleType DEF Init, HasKey
      <3>2. ASSUME Init PROVE usage \in Nat /\ made \in 0..MaxRequests /\ passed \in 0..MaxEvents
        BY <3>2, ApiKeysAssumption DEF Init
      <3>a. ASSUME Init PROVE account \in BOOLEAN
        BY <3>a, Zenon DEF Init
      <3>3. ASSUME Init PROVE key \in [Keys -> KeyRow] /\ plan \in Plans
        BY <2>1, <3>3 DEF Init
      <3>4. ASSUME Init PROVE req \in [Requests -> Request]
        BY <3>4, IdleType DEF Init
      <3> QED
        BY <3>1, <3>2, <3>3, <3>4, <3>a DEF Sound, TypeOK
  <1> QED
    BY <1>1, StepSound, PTL DEF Spec

\* Every variable keeps its type, and a key that a request is to write exists
\* (api-keys.service.ts: updateApiKey, rotateApiKey, revokeApiKey).
THEOREM TypeCorrect == Spec => []TypeOK
  <1>1. Sound => TypeOK
    BY DEF Sound
  <1> QED
    BY <1>1, AlwaysSound, PTL

-----------------------------------------------------------------------------
(* The rate limit                                                          *)

\* The calls that were let through and are not yet counted.
Tracking == {r \in Requests : At(r, "track")}

\* A call let through found room; it and those beside it are all that may still be added.
RateAccount == usage + Cardinality(Tracking) <= MaxUsage - 1 + Cardinality(Requests)

\* The numbers of the account.
LEMMA RateNumbers ==
  /\ Cardinality(Requests) \in Nat \ {0} /\ MaxUsage \in Nat \ {0}
  /\ Sound => usage \in Nat
  /\ IsFiniteSet(Tracking) /\ Cardinality(Tracking) \in Nat
  /\ Cardinality(Tracking) <= Cardinality(Requests)
  /\ IsFiniteSet(Tracking') /\ Cardinality(Tracking') \in Nat
  /\ Cardinality(Tracking') <= Cardinality(Requests)
  <1>1. Tracking \in SUBSET Requests /\ Tracking' \in SUBSET Requests
    BY DEF Tracking
  <1>2. IsFiniteSet(Requests) /\ Cardinality(Requests) \in Nat /\ Cardinality(Requests) # 0
    BY ApiKeysAssumption, Limits, FS_CardinalityType, FS_EmptySet
  <1>3. /\ IsFiniteSet(Tracking) /\ Cardinality(Tracking) <= Cardinality(Requests)
        /\ IsFiniteSet(Tracking') /\ Cardinality(Tracking') <= Cardinality(Requests)
    BY <1>1, <1>2, FS_Subset
  <1>4. Cardinality(Tracking) \in Nat /\ Cardinality(Tracking') \in Nat
    BY <1>3, FS_CardinalityType
  <1> QED
    BY <1>2, <1>3, <1>4, ApiKeysAssumption, Limits DEF Sound, TypeOK

\* The calls of a window go past the limit by no more than the other calls in flight, however
\* many were checked before any of them was stored (api-key.service.ts: checkRateLimit).
THEOREM AlwaysRateKept == Spec => []RateKept
  <1>1. Init => RateAccount
    <2> SUFFICES ASSUME Init PROVE RateAccount
      OBVIOUS
    <2>1. Tracking = {}
      BY IdleType DEF Init, Tracking, At
    <2> QED
      BY <2>1, FS_EmptySet, RateNumbers DEF Init, RateAccount
  <1>2. Sound /\ RateAccount /\ [Next]_vars => RateAccount'
    <2> SUFFICES ASSUME Sound, RateAccount, [Next]_vars PROVE RateAccount'
      OBVIOUS
    <2>1. req \in [Requests -> Request]
      BY DEF Sound, TypeOK
    <2>2. ASSUME usage' <= usage, usage' \in Nat, Tracking' \subseteq Tracking PROVE RateAccount'
      <3>1. Cardinality(Tracking') <= Cardinality(Tracking)
        BY <2>2, RateNumbers, FS_Subset
      <3> QED
        BY <2>2, <3>1, RateNumbers DEF RateAccount
    <2>3. ASSUME NEW r \in Requests, NEW x, x.pc # "track", req' = [req EXCEPT ![r] = x]
          PROVE  Tracking' \subseteq Tracking \ {r}
      BY <2>1, <2>3 DEF Tracking, At
    <2>11. ASSUME NEW r \in Requests, NEW pcs, req' = [Outdated(pcs) EXCEPT ![r] = Idle]
          PROVE  Tracking' \subseteq Tracking
      <3>1. /\ Outdated(pcs) \in [Requests -> Request]
            /\ \A q \in Requests : Outdated(pcs)[q].pc = req[q].pc
        BY <2>1, OutdatedType
      <3>2. req'[r].pc # "track" /\ \A q \in Requests \ {r} : req'[q].pc = req[q].pc
        BY <2>11, <3>1, IdleType
      <3> QED
        BY <3>2 DEF Tracking, At
    <2>4. CASE TokenNext
      <3> SUFFICES ASSUME NEW r \in Requests,
                          \/ AskCreate(r) \/ Count(r) \/ Update(r) \/ Rotate(r) \/ Revoke(r)
                          \/ \E k \in Keys :
                               \/ Create(r, k)
                               \/ \E to \in Changes : Find(r, k, "update", to)
                               \/ \E op \in {"rotate", "revoke"} : Find(r, k, op, "on")
                   PROVE  RateAccount'
        BY <2>4 DEF TokenNext
      <3>1. usage' = usage /\ usage \in Nat
        BY DEF AskCreate, Count, Update, Rotate, Revoke, Create, Find, Account, Sound, TypeOK
      <3>2. ASSUME NEW x, x.pc # "track", req' = [req EXCEPT ![r] = x] PROVE RateAccount'
        <4>1. Tracking' \subseteq Tracking \ {r}
          BY <2>3, <3>2
        <4> QED
          BY <2>2, <3>1, <4>1
      <3>3. CASE AskCreate(r)
        <4>1. LimitOf[plan] \in Int
          BY ApiKeysAssumption, Limits DEF Sound, TypeOK
        <4>2. Reading(LimitOf[plan]).pc = "count"
          BY <4>1, StartTypes
        <4> QED
          BY <3>2, <3>3, <4>2, Starts DEF Start
      <3>4. CASE Count(r)
        <4>1. [req[r] EXCEPT !.pc = "create"].pc = "create"
          BY <2>1, Goes DEF PCs
        <4> QED
          BY <3>2, <3>4, <4>1, IdleType DEF Count, End
      <3>5. CASE Update(r) \/ Rotate(r) \/ Revoke(r) \/ \E k \in Keys : Create(r, k)
        <4>1. req' = [req EXCEPT ![r] = Idle] \/ req' = [Outdated({"create"}) EXCEPT ![r] = Idle]
          BY <3>5 DEF Update, Rotate, Revoke, Create, End
        <4>2. PICK pcs : pcs = {"create"}
          OBVIOUS
        <4> QED
          BY <2>2, <2>11, <3>1, <3>2, <4>1, <4>2, IdleType
      <3>6. ASSUME NEW k \in Keys, NEW op \in Ops, NEW to \in Changes, Find(r, k, op, to)
            PROVE  RateAccount'
        <4>1. Found(op, k, to).pc = op
          BY <3>6, StartTypes
        <4> QED
          BY <3>2, <3>6, <4>1, Starts DEF Start, Ops
      <3> QED
        BY <3>3, <3>4, <3>5, <3>6 DEF Changes, Ops
    <2>5. CASE Generate \/ RevokeAccountKey
      BY <2>2, <2>5, RateNumbers DEF Generate, RevokeAccountKey, Tracking, At
    <2>6. ASSUME NEW r \in Requests, Call(r) PROVE RateAccount'
      <3>1. Calling.pc = "rate" /\ req' = [req EXCEPT ![r] = Calling] /\ usage' = usage
        BY <2>6, StartTypes, Starts DEF Start, Account
      <3>2. Tracking' \subseteq Tracking \ {r}
        BY <2>3, <3>1
      <3>3. usage' \in Nat /\ usage' <= usage
        BY <3>1, RateNumbers
      <3> QED
        BY <2>2, <3>2, <3>3
    <2>7. ASSUME NEW r \in Requests, CheckRateLimit(r) PROVE RateAccount'
      <3>1. CASE usage >= MaxUsage
        BY <2>2, <2>3, <2>7, <3>1, IdleType, RateNumbers DEF CheckRateLimit, End, Account
      <3>2. CASE ~(usage >= MaxUsage)
        BY <2>7, <3>2, RateNumbers DEF CheckRateLimit, Account, RateAccount
      <3> QED
        BY <3>1, <3>2
    <2>8. ASSUME NEW r \in Requests, TrackUsage(r) PROVE RateAccount'
      <3>1. Tracking' \subseteq Tracking \ {r} /\ r \in Tracking
        BY <2>3, <2>8, IdleType DEF TrackUsage, End, Tracking
      <3>2. IsFiniteSet(Tracking \ {r})
            /\ Cardinality(Tracking \ {r}) = Cardinality(Tracking) - 1
        BY <3>1, RateNumbers, FS_RemoveElement
      <3>3. Cardinality(Tracking') <= Cardinality(Tracking) - 1
        BY <3>1, <3>2, FS_Subset
      <3>4. usage' \in Nat /\ usage' <= usage + 1
        BY <2>8, RateNumbers DEF TrackUsage
      <3> QED
        BY <3>3, <3>4, RateNumbers DEF RateAccount
    <2>9. CASE WorldNext
      <3>1. usage' \in Nat /\ usage' <= usage
        BY <2>9, RateNumbers DEF WorldNext, ChangePlan, Expire, SlideWindow, Fail, Account
      <3>2. Tracking' \subseteq Tracking
        <4>1. CASE \E p \in Plans : ChangePlan(p)
          <5>1. req' = Outdated({"count", "create"})
            BY <4>1 DEF ChangePlan
          <5> QED
            BY <2>1, <5>1, OutdatedType DEF Tracking, At
        <4>2. CASE \E r \in Requests : Fail(r)
          BY <2>3, <4>2, IdleType DEF Fail, End
        <4>3. CASE (\E k \in Keys : Expire(k)) \/ SlideWindow
          BY <4>3 DEF Expire, SlideWindow, Tracking, At
        <4> QED
          BY <2>9, <4>1, <4>2, <4>3 DEF WorldNext
      <3> QED
        BY <2>2, <3>1, <3>2
    <2>10. CASE UNCHANGED vars
      BY <2>2, <2>10, RateNumbers DEF vars, Tracking, At
    <2> QED
      BY <2>4, <2>5, <2>6, <2>7, <2>8, <2>9, <2>10 DEF Next, AccountNext
  <1>3. Sound /\ RateAccount => RateKept
    BY RateNumbers DEF RateAccount, RateKept
  <1> QED
    BY <1>1, <1>2, <1>3, AlwaysSound, PTL DEF Spec

-----------------------------------------------------------------------------
(* The limit of the tier                                                   *)

\* What a request whose reading is not out of date has read: the limit, and that there is room.
FreshRequest(x) == /\ x.pc = "count" /\ ~x.stale => x.limit = LimitOf[plan]
                   /\ x.pc = "create" /\ ~x.stale => HasRoom(LimitOf[plan])

Fresh == \A r \in Requests : FreshRequest(req[r])

\* The keys that count are finitely many, and fewer keys leave more room.
LEMMA Room ==
  /\ IsFiniteSet(Counted) /\ Cardinality(Counted) \in Nat
  /\ IsFiniteSet(Counted') /\ Cardinality(Counted') \in Nat
  /\ Counted' \subseteq Counted => Cardinality(Counted') <= Cardinality(Counted)
  /\ \A k : Counted' \subseteq Counted \cup {k} => Cardinality(Counted') <= Cardinality(Counted) + 1
  <1>1. IsFiniteSet(Keys) /\ Counted \in SUBSET Keys /\ Counted' \in SUBSET Keys
    BY ApiKeysAssumption, Limits DEF Counted
  <1>2. IsFiniteSet(Counted) /\ IsFiniteSet(Counted')
    BY <1>1, FS_Subset
  <1>3. Cardinality(Counted) \in Nat /\ Cardinality(Counted') \in Nat
    BY <1>2, FS_CardinalityType
  <1>4. Counted' \subseteq Counted => Cardinality(Counted') <= Cardinality(Counted)
    BY <1>2, FS_Subset
  <1>5. ASSUME NEW k, Counted' \subseteq Counted \cup {k}
        PROVE  Cardinality(Counted') <= Cardinality(Counted) + 1
    <2>1. IsFiniteSet(Counted \cup {k}) /\ Cardinality(Counted \cup {k}) \in Nat
          /\ Cardinality(Counted \cup {k}) <= Cardinality(Counted) + 1
      BY <1>2, <1>3, FS_AddElement
    <2>2. Cardinality(Counted') <= Cardinality(Counted \cup {k})
      BY <1>5, <2>1, FS_Subset
    <2> QED
      BY <1>3, <2>1, <2>2
  <1> QED
    BY <1>2, <1>3, <1>4, <1>5

\* Where there was room and no key was added there is room.
LEMMA RoomStays ==
  ASSUME NEW limit \in Int, HasRoom(limit), Counted' \subseteq Counted
  PROVE  HasRoom(limit)'
  BY Room DEF HasRoom

\* A write that does not make a key count adds none.
LEMMA WroteCounts ==
  ASSUME Sound, NEW k \in Keys, NEW row \in KeyRow, Wrote(k, row)
  PROVE  /\ Counted' \subseteq Counted \cup {k}
         /\ (row.isActive /\ ~row.revoked => k \in Counted) => Counted' \subseteq Counted
  <1>1. key'[k] = row /\ \A m \in Keys \ {k} : key'[m] = key[m]
    BY WroteType DEF Sound, TypeOK
  <1> QED
    BY <1>1 DEF Counted, Exists

\* A request that moves leaves the others' readings true unless it adds a key.
LEMMA StaysFresh ==
  ASSUME Sound, Fresh, plan' = plan, NEW r \in Requests, NEW x, NEW f \in [Requests -> Request],
         \A q \in Requests : f[q].stale \/ f[q] = req[q],
         req' = [f EXCEPT ![r] = x],
         x.pc = "count" /\ ~x.stale => x.limit = LimitOf[plan],
         x.pc = "create" /\ ~x.stale => HasRoom(LimitOf[plan])',
         Counted' \subseteq Counted \/ \A q \in Requests : f[q].pc = "create" => f[q].stale
  PROVE  Fresh'
  <1>1. LimitOf[plan] \in Int
    BY ApiKeysAssumption, Limits DEF Sound, TypeOK
  <1> SUFFICES ASSUME NEW q \in Requests PROVE FreshRequest(req[q])'
    BY DEF Fresh
  <1>2. CASE q = r
    BY <1>2 DEF FreshRequest
  <1>3. CASE q # r
    <2>1. req'[q] = f[q] /\ FreshRequest(req[q])
      BY <1>3 DEF Fresh
    <2>2. f[q].pc = "count" /\ ~f[q].stale => f[q].limit = LimitOf[plan]
      BY <2>1 DEF FreshRequest
    <2>3. f[q].pc = "create" /\ ~f[q].stale => HasRoom(LimitOf[plan])'
      BY <1>1, <2>1, RoomStays DEF FreshRequest
    <2> QED
      BY <2>1, <2>2, <2>3 DEF FreshRequest
  <1> QED
    BY <1>2, <1>3

\* An update that does not turn its key on adds none; neither do a rotation and a revocation.
LEMMA WritesCount ==
  ASSUME Sound, NEW r \in Requests
  PROVE  /\ Update(r) /\ req[r].to # "on" => Counted' \subseteq Counted
         /\ Rotate(r) \/ Revoke(r) => Counted' \subseteq Counted
  <1>1. ASSUME NEW k \in Keys, NEW row \in KeyRow, Wrote(k, row), Exists(k),
               row.isActive => key[k].isActive, key[k].revoked => row.revoked
        PROVE  Counted' \subseteq Counted
    BY <1>1, WroteCounts DEF Counted
  <1>2. PICK k : k = req[r].key
    OBVIOUS
  <1>3. ASSUME Update(r), req[r].to # "on" PROVE Counted' \subseteq Counted
    <2>1. k \in Keys /\ Exists(k)
      BY <1>2, <1>3, UpdateWrites
    <2>2. \E row \in KeyRow : /\ Wrote(k, row)
                              /\ row.isActive => key[k].isActive
                              /\ key[k].revoked => row.revoked
      BY <1>2, <1>3, UpdateWrites
    <2> QED
      BY <1>1, <2>1, <2>2
  <1>4. ASSUME Rotate(r) PROVE Counted' \subseteq Counted
    <2>1. k \in Keys /\ Exists(k)
      BY <1>2, <1>4, RotateWrites
    <2>2. \E row \in KeyRow : /\ Wrote(k, row)
                              /\ row.isActive => key[k].isActive
                              /\ key[k].revoked => row.revoked
      BY <1>2, <1>4, RotateWrites
    <2> QED
      BY <1>1, <2>1, <2>2
  <1>5. ASSUME Revoke(r) PROVE Counted' \subseteq Counted
    <2>1. k \in Keys /\ Exists(k)
      BY <1>2, <1>5, RevokeWrites
    <2>2. \E row \in KeyRow : /\ Wrote(k, row)
                              /\ row.isActive => key[k].isActive
                              /\ key[k].revoked => row.revoked
      BY <1>2, <1>5, RevokeWrites
    <2> QED
      BY <1>1, <2>1, <2>2
  <1> QED
    BY <1>3, <1>4, <1>5

\* A step of a request keeps the readings true.
LEMMA RequestFresh ==
  ASSUME Sound, Fresh, NEW r \in Requests,
         \/ AskCreate(r) \/ Count(r) \/ Update(r) \/ Rotate(r) \/ Revoke(r)
         \/ Call(r) \/ CheckRateLimit(r) \/ TrackUsage(r) \/ Fail(r)
         \/ \E k \in Keys : \/ Create(r, k)
                            \/ \E op \in Ops, to \in Changes : Find(r, k, op, to)
  PROVE  Fresh'
  <1>1. req \in [Requests -> Request] /\ LimitOf[plan] \in Int
    BY ApiKeysAssumption, Limits DEF Sound, TypeOK
  <1>2. plan' = plan
    BY DEF AskCreate, Count, Update, Rotate, Revoke, Create, Find, Call, CheckRateLimit, TrackUsage,
           Fail
  <1>3. ASSUME NEW x, req' = [req EXCEPT ![r] = x], Counted' \subseteq Counted,
               x.pc = "count" /\ ~x.stale => x.limit = LimitOf[plan],
               x.pc = "create" /\ ~x.stale => HasRoom(LimitOf[plan])'
        PROVE  Fresh'
    <2>1. \A q \in Requests : req[q].stale \/ req[q] = req[q]
      OBVIOUS
    <2> QED
      BY <1>1, <1>2, <1>3, <2>1, StaysFresh
  <1>4. ASSUME req' = [Outdated({"create"}) EXCEPT ![r] = Idle] PROVE Fresh'
    <2>1. /\ Outdated({"create"}) \in [Requests -> Request]
          /\ \A q \in Requests : Outdated({"create"})[q].stale \/ Outdated({"create"})[q] = req[q]
          /\ \A q \in Requests : Outdated({"create"})[q].pc = "create" => Outdated({"create"})[q].stale
      <3>1. PICK pcs : pcs = {"create"}
        OBVIOUS
      <3>2. /\ Outdated(pcs) \in [Requests -> Request]
            /\ \A q \in Requests : Outdated(pcs)[q].stale \/ Outdated(pcs)[q] = req[q]
            /\ \A q \in Requests : Outdated(pcs)[q].pc = "create" => Outdated(pcs)[q].stale
        BY <1>1, <3>1, OutdatedType
      <3> QED
        BY <3>1, <3>2
    <2>2. PICK f \in [Requests -> Request] : f = Outdated({"create"})
      BY <2>1
    <2> QED
      BY <1>2, <1>4, <2>1, <2>2, IdleType, StaysFresh
  <1>5. Counted' = Counted \/ key' # key
    BY DEF Counted, Exists
  <1>6. CASE AskCreate(r)
    <2>1. Reading(LimitOf[plan]).pc = "count" /\ Reading(LimitOf[plan]).limit = LimitOf[plan]
      BY <1>1, StartTypes
    <2> QED
      BY <1>3, <1>5, <1>6, <2>1, Starts DEF Start
  <1>7. CASE Count(r)
    <2>1. key' = key
      BY <1>7 DEF Count
    <2>2. CASE ~HasRoom(req[r].limit)
      BY <1>3, <1>5, <1>7, <2>1, <2>2, IdleType DEF Count, End
    <2>3. CASE HasRoom(req[r].limit)
      <3>1. req[r].pc = "count" /\ req' = [req EXCEPT ![r] = [req[r] EXCEPT !.pc = "create"]]
        BY <1>7, <2>3 DEF Count, At
      <3>2. [req[r] EXCEPT !.pc = "create"].pc = "create"
            /\ [req[r] EXCEPT !.pc = "create"].stale = req[r].stale
        BY <1>1, Goes DEF PCs
      <3>3. ~req[r].stale => HasRoom(LimitOf[plan])
        BY <2>3, <3>1 DEF Fresh, FreshRequest
      <3>4. ~req[r].stale => HasRoom(LimitOf[plan])'
        BY <1>1, <1>2, <1>5, <2>1, <3>3 DEF HasRoom
      <3> QED
        BY <1>3, <1>5, <2>1, <3>1, <3>2, <3>4
    <2> QED
      BY <2>2, <2>3
  <1>8. CASE Update(r)
    <2>1. CASE req[r].to = "on"
      BY <1>4, <1>8, <2>1 DEF Update
    <2>2. CASE req[r].to # "on"
      BY <1>3, <1>8, <2>2, IdleType, WritesCount DEF Update
    <2> QED
      BY <2>1, <2>2
  <1>9. CASE Rotate(r) \/ Revoke(r)
    BY <1>3, <1>9, IdleType, WritesCount DEF Rotate, Revoke, End
  <1>10. CASE \E k \in Keys : Create(r, k)
    BY <1>4, <1>10 DEF Create
  <1>11. ASSUME NEW k \in Keys, NEW op \in Ops, NEW to \in Changes, Find(r, k, op, to)
         PROVE  Fresh'
    <2>1. Found(op, k, to).pc = op /\ op # "count" /\ op # "create"
      BY <1>11, StartTypes DEF Ops
    <2> QED
      BY <1>3, <1>5, <1>11, <2>1, Starts DEF Start
  <1>12. CASE Call(r)
    BY <1>3, <1>5, <1>12, Starts, StartTypes DEF Start
  <1>13. CASE CheckRateLimit(r)
    <2>1. [req[r] EXCEPT !.pc = "track"].pc = "track"
      BY <1>1, Goes DEF PCs
    <2> QED
      BY <1>3, <1>5, <1>13, <2>1, IdleType DEF CheckRateLimit, End
  <1>14. CASE TrackUsage(r) \/ Fail(r)
    BY <1>3, <1>5, <1>14, IdleType DEF TrackUsage, Fail, End
  <1> QED
    BY <1>6, <1>7, <1>8, <1>9, <1>10, <1>11, <1>12, <1>13, <1>14

\* So does every step.
LEMMA StepFresh == Sound /\ Fresh /\ [Next]_vars => Fresh'
  <1> SUFFICES ASSUME Sound, Fresh, [Next]_vars PROVE Fresh'
    OBVIOUS
  <1>1. req \in [Requests -> Request] /\ LimitOf[plan] \in Int
    BY ApiKeysAssumption, Limits DEF Sound, TypeOK
  <1>2. ASSUME req' = req, plan' = plan, Counted' \subseteq Counted PROVE Fresh'
    <2>1. ASSUME HasRoom(LimitOf[plan]) PROVE HasRoom(LimitOf[plan])'
      BY <1>1, <1>2, <2>1, RoomStays
    <2> QED
      BY <1>2, <2>1 DEF Fresh, FreshRequest
  <1>3. Counted' = Counted \/ key' # key
    BY DEF Counted, Exists
  <1>4. CASE TokenNext
    BY <1>4, RequestFresh DEF TokenNext, Ops, Changes
  <1>5. CASE AccountNext
    <2>1. CASE Generate \/ RevokeAccountKey
      BY <1>2, <1>3, <2>1 DEF Generate, RevokeAccountKey
    <2> QED
      BY <1>5, <2>1, RequestFresh DEF AccountNext
  <1>6. ASSUME NEW p \in Plans, ChangePlan(p) PROVE Fresh'
    <2>1. \A q \in Requests : req'[q].stale \/ req'[q].pc \notin {"count", "create"}
      BY <1>1, <1>6, OutdatedType DEF ChangePlan
    <2> QED
      BY <2>1 DEF Fresh, FreshRequest
  <1>7. ASSUME NEW k \in Keys, Expire(k) PROVE Fresh'
    <2>1. Counted' \subseteq Counted
      BY <1>7 DEF Expire, Counted, Exists, Sound, TypeOK, KeyRow
    <2> QED
      BY <1>2, <1>7, <2>1 DEF Expire
  <1>8. CASE SlideWindow
    BY <1>2, <1>3, <1>8 DEF SlideWindow
  <1>9. CASE UNCHANGED vars
    BY <1>2, <1>3, <1>9 DEF vars
  <1> QED
    BY <1>4, <1>5, <1>6, <1>7, <1>8, <1>9, RequestFresh DEF Next, WorldNext

\* Only a creation brings a key into the table.
LEMMA OnlyCreated ==
  ASSUME Sound, [Next]_vars, NEW k \in Keys, ~Exists(k), Exists(k)'
  PROVE  \E r \in Requests : Create(r, k)
  <1>1. key' # key /\ key \in [Keys -> KeyRow]
    BY DEF Exists, Sound, TypeOK
  <1>2. ASSUME NEW m \in Keys, NEW row \in KeyRow, Wrote(m, row), Exists(m) PROVE FALSE
    <2>1. key'[k] = key[k] \/ m = k
      BY <1>2, WroteType DEF Sound, TypeOK
    <2> QED
      BY <1>2, <2>1 DEF Exists
  <1>3. ASSUME NEW r \in Requests PROVE ~Update(r) /\ ~Rotate(r) /\ ~Revoke(r)
    BY <1>2, UpdateWrites, RotateWrites, RevokeWrites
  <1>4. ASSUME NEW m \in Keys PROVE ~Expire(m)
    BY <1>1 DEF Expire, Exists, KeyRow
  <1>5. ASSUME NEW r \in Requests, NEW m \in Keys, Create(r, m) PROVE m = k
    BY <1>1, <1>5 DEF Create, Exists
  <1>6. \E r \in Requests, m \in Keys : Create(r, m)
    BY <1>1, <1>3, <1>4 DEF Next, vars, TokenNext, AccountNext, WorldNext, AskCreate, Count, Find,
      Generate, RevokeAccountKey, Call, CheckRateLimit, TrackUsage, ChangePlan, SlideWindow, Fail
  <1> QED
    BY <1>5, <1>6

\* What LimitKept asks of a step.
LimitStep ==
  \A k \in Keys : k \notin Counted /\ k \in Counted' /\ ~Within(Cardinality(Counted'), LimitOf[plan'])
    => \/ Exists(k)
       \/ \E r \in Requests : At(r, "create") /\ req[r].stale /\ req'[r].pc = "idle"

\* A key beyond the tier's limit is one that was turned on again, or that was created from a
\* reading that another key or another plan had overtaken (api-keys.service.ts: createApiKey).
THEOREM AlwaysLimitKept == Spec => LimitKept
  <1>1. Init => Fresh
    BY IdleType DEF Init, Fresh, FreshRequest
  <1>2. Sound /\ Fresh /\ [Next]_vars => [LimitStep]_vars
    <2> SUFFICES ASSUME Sound, Fresh, [Next]_vars, NEW k \in Keys, k \notin Counted, k \in Counted',
                        ~Within(Cardinality(Counted'), LimitOf[plan']), ~Exists(k)
                 PROVE  \E r \in Requests : At(r, "create") /\ req[r].stale /\ req'[r].pc = "idle"
      BY DEF LimitStep
    <2>1. Exists(k)'
      BY DEF Counted
    <2>2. PICK r \in Requests : Create(r, k)
      BY <2>1, OnlyCreated
    <2>3. plan' = plan /\ LimitOf[plan] \in Int
      BY <2>2, ApiKeysAssumption, Limits DEF Create, Sound, TypeOK
    <2>4. Cardinality(Counted') <= Cardinality(Counted) + 1
      BY <2>2, CreateWrites, WroteCounts, Room
    <2>5. ~HasRoom(LimitOf[plan])
      BY <2>3, <2>4, Room DEF HasRoom, Within
    <2>6. At(r, "create") /\ req[r].stale
      BY <2>2, <2>5 DEF Create, At, Fresh, FreshRequest, Sound, TypeOK, Request
    <2>7. req'[r] = Idle
      BY <2>2 DEF Create, Outdated
    <2> QED
      BY <2>6, <2>7, IdleType
  <1>3. LimitKept <=> [][LimitStep]_vars
    BY DEF LimitKept, LimitStep
  <1> QED
    BY <1>1, <1>2, <1>3, StepFresh, AlwaysSound, PTL DEF Spec

-----------------------------------------------------------------------------
(* The life of a secret                                                    *)

UsableNow == {s \in Secrets : Usable(s[1], s[2])}
DeadNow   == {s \in Secrets : key[s[1]].revoked \/ s[2] < key[s[1]].secret}

\* What a write of one key does to the secrets.
LEMMA OneKey ==
  ASSUME Sound, NEW k \in Keys, NEW row \in KeyRow, Wrote(k, row), NEW s \in Secrets
  PROVE  /\ s[1] # k => (s \in UsableNow' <=> s \in UsableNow) /\ (s \in DeadNow' <=> s \in DeadNow)
         /\ s[1] = k => /\ s \in UsableNow' <=> s[2] = row.secret /\ row.isActive /\ ~row.revoked /\ ~row.expired
                        /\ s \in DeadNow' <=> row.revoked \/ s[2] < row.secret
  <1>1. key'[k] = row /\ \A m \in Keys \ {k} : key'[m] = key[m]
    BY WroteType DEF Sound, TypeOK
  <1>2. s[1] \in Keys /\ s[2] \in Nat /\ s[2] > 0
    BY ApiKeysAssumption, Limits DEF Secrets
  <1> QED
    BY <1>1, <1>2 DEF Usable, UsableNow, DeadNow

\* A secret that is usable is not dead.
LEMMA UsableAlive ==
  ASSUME Sound, NEW s \in UsableNow
  PROVE  s \in Secrets /\ s \notin DeadNow /\ s[2] = key[s[1]].secret
  <1>1. s \in Secrets /\ s[1] \in Keys /\ s[2] \in Nat
    BY ApiKeysAssumption, Limits DEF Secrets, UsableNow
  <1> QED
    BY <1>1 DEF UsableNow, DeadNow, Usable

\* A write that takes back neither a secret nor a revocation is a step of the life of secrets.
LEMMA WriteLives ==
  ASSUME Sound, NEW k \in Keys, NEW row \in KeyRow, Wrote(k, row),
         row.secret >= key[k].secret, key[k].revoked => row.revoked
  PROVE  Life!Next
  <1> DEFINE t == <<k, row.secret>>
  <1>1. key[k] \in KeyRow /\ key[k].secret \in Nat /\ row.secret \in Nat
    BY DEF Sound, TypeOK, KeyRow
  <1>2. \A s \in Secrets : /\ s = <<s[1], s[2]>> /\ s[1] \in Keys /\ s[2] \in Nat
                           /\ s[1] = k /\ s[2] = row.secret => s = t
    BY ApiKeysAssumption, Limits DEF Secrets
  <1>3. DeadNow \subseteq DeadNow'
    <2> SUFFICES ASSUME NEW s \in Secrets, s \in DeadNow PROVE s \in DeadNow'
      BY DEF DeadNow
    <2>1. CASE s[1] = k
      BY <1>1, <1>2, <2>1, OneKey DEF DeadNow
    <2>2. CASE s[1] # k
      BY <2>2, OneKey
    <2> QED
      BY <2>1, <2>2
  <1>4. \A s \in Secrets : s[1] # k => (s \in UsableNow' <=> s \in UsableNow \ DeadNow')
    BY OneKey, UsableAlive
  <1>5. CASE t \in Secrets /\ row.isActive /\ ~row.revoked /\ ~row.expired
    <2>1. t \notin DeadNow' /\ t \in UsableNow'
      BY <1>1, <1>5, OneKey
    <2>2. \A s \in Secrets : s[1] = k => (s \in UsableNow' <=> s \in (UsableNow \ DeadNow') \cup {t})
      <3> SUFFICES ASSUME NEW s \in Secrets, s[1] = k
                   PROVE  s \in UsableNow' <=> s \in (UsableNow \ DeadNow') \cup {t}
        OBVIOUS
      <3>1. s \in UsableNow' => s = t
        BY <1>2, OneKey
      <3>2. s \in UsableNow \ DeadNow' => s = t
        BY <1>1, <1>2, OneKey, UsableAlive
      <3> QED
        BY <2>1, <3>1, <3>2
    <2>3. UsableNow' = (UsableNow \ DeadNow') \cup {t}
      BY <1>4, <1>5, <2>2, <1>2 DEF UsableNow
    <2>4. Life!Replace(t)
      BY <1>3, <2>1, <2>3 DEF Life!Replace, UsableNow, DeadNow
    <2> QED
      BY <1>5, <2>4 DEF Life!Next
  <1>6. CASE ~(t \in Secrets /\ row.isActive /\ ~row.revoked /\ ~row.expired)
    <2>1. \A s \in Secrets : s[1] = k => s \notin UsableNow'
      BY <1>2, <1>6, OneKey
    <2>2. CASE row.revoked \/ row.secret > key[k].secret \/ t \notin Secrets
      <3>1. \A s \in Secrets : s[1] = k => s \notin UsableNow \ DeadNow'
        BY <1>1, <1>2, <2>2, OneKey, UsableAlive
      <3>2. UsableNow' = UsableNow \ DeadNow'
        BY <1>4, <2>1, <3>1 DEF UsableNow
      <3>3. Life!Retire
        BY <1>3, <3>2 DEF Life!Retire, UsableNow, DeadNow
      <3> QED
        BY <3>3 DEF Life!Next
    <2>3. CASE ~row.revoked /\ row.secret = key[k].secret /\ t \in Secrets
      <3>1. DeadNow' = DeadNow
        <4> SUFFICES ASSUME NEW s \in Secrets PROVE s \in DeadNow' <=> s \in DeadNow
          BY DEF DeadNow
        <4> QED
          BY <1>1, <1>2, <2>3, OneKey DEF DeadNow
      <3>2. \A s \in Secrets : s[1] = k => s \notin UsableNow \ {t}
        BY <1>2, <2>3, UsableAlive
      <3>3. \A s \in Secrets : s[1] # k => s # t
        BY <1>2
      <3>4. UsableNow' = UsableNow \ {t}
        BY <1>4, <2>1, <3>1, <3>2, <3>3, UsableAlive DEF UsableNow
      <3>5. Life!Suspend(t)
        BY <3>1, <3>4 DEF Life!Suspend, UsableNow, DeadNow
      <3> QED
        BY <2>3, <3>5 DEF Life!Next
    <2> QED
      BY <1>1, <2>2, <2>3
  <1> QED
    BY <1>5, <1>6

\* A key is not revoked before it exists.
Unborn == \A k \in Keys : ~Exists(k) => ~key[k].revoked

\* A step writes one key at most, and takes back neither a secret nor a revocation.
LEMMA StepWrites ==
  ASSUME Sound, [Next]_vars, key' # key
  PROVE  \E k \in Keys, row \in KeyRow :
           /\ Wrote(k, row) /\ row.secret > 0 /\ row.secret >= key[k].secret
           /\ Exists(k) /\ key[k].revoked => row.revoked
  <1>1. \A k \in Keys : key[k] \in KeyRow /\ key[k].secret \in Nat
    BY DEF Sound, TypeOK, KeyRow
  <1>2. ASSUME NEW r \in Requests, NEW k \in Keys, Create(r, k)
        PROVE  \E row \in KeyRow : /\ Wrote(k, row) /\ row.secret > 0 /\ row.secret >= key[k].secret
                                   /\ ~Exists(k)
    <2>1. ~Exists(k) /\ ~(key[k].secret > 0)
      BY <1>2 DEF Create, Exists
    <2>2. \E row \in KeyRow : Wrote(k, row) /\ row.secret = 1
      BY <1>2, CreateWrites
    <2> QED
      BY <1>1, <2>1, <2>2
  <1>3. ASSUME NEW r \in Requests, Update(r) \/ Rotate(r) \/ Revoke(r)
        PROVE  \E k \in Keys, row \in KeyRow :
                 /\ Wrote(k, row) /\ row.secret > 0 /\ row.secret >= key[k].secret
                 /\ key[k].revoked => row.revoked
    <2>1. PICK k : k = req[r].key
      OBVIOUS
    <2>2. k \in Keys /\ key[k].secret > 0
      BY <1>3, <2>1, UpdateWrites, RotateWrites, RevokeWrites DEF Exists
    <2>3. \E row \in KeyRow : /\ Wrote(k, row) /\ row.secret > 0 /\ row.secret >= key[k].secret
                              /\ key[k].revoked => row.revoked
      BY <1>1, <1>3, <2>1, <2>2, UpdateWrites, RotateWrites, RevokeWrites
    <2> QED
      BY <2>2, <2>3
  <1>4. ASSUME NEW k \in Keys, Expire(k)
        PROVE  \E row \in KeyRow : /\ Wrote(k, row) /\ row.secret > 0 /\ row.secret >= key[k].secret
                                   /\ key[k].revoked => row.revoked
    <2>1. PICK row : row = [key[k] EXCEPT !.expired = TRUE]
      OBVIOUS
    <2>2. row \in KeyRow /\ row.secret = key[k].secret /\ row.revoked = key[k].revoked
      BY <1>1, <2>1 DEF KeyRow
    <2>3. Wrote(k, row)
      BY <1>4, <2>1 DEF Expire, Wrote
    <2>4. key[k].secret > 0
      BY <1>4 DEF Expire, Exists
    <2> QED
      BY <1>1, <2>2, <2>3, <2>4
  <1>5. \/ \E r \in Requests, k \in Keys : Create(r, k)
        \/ \E r \in Requests : Update(r) \/ Rotate(r) \/ Revoke(r)
        \/ \E k \in Keys : Expire(k)
    BY DEF Next, vars, TokenNext, AccountNext, WorldNext, AskCreate, Count, Find, Generate,
      RevokeAccountKey, Call, CheckRateLimit, TrackUsage, ChangePlan, SlideWindow, Fail
  <1>6. ASSUME NEW r \in Requests, NEW k \in Keys, Create(r, k)
        PROVE  \E row \in KeyRow : /\ Wrote(k, row) /\ row.secret > 0 /\ row.secret >= key[k].secret
                                   /\ Exists(k) /\ key[k].revoked => row.revoked
    BY <1>2, <1>6
  <1> QED
    BY <1>3, <1>4, <1>5, <1>6

\* The secrets of a key that was revoked or rotated are refused for good
\* (api-keys.service.ts: rotateApiKey, revokeApiKey, validateApiKey).
THEOREM AlwaysKeepsLife == Spec => KeepsLife
  <1>1. Init => Life!Init /\ Unborn
    BY DEF Init, Life!Init, NoKey, Usable, Secrets, Unborn
  <1>2. Sound /\ Unborn /\ [Next]_vars => Unborn' /\ [Life!Next]_<<UsableNow, DeadNow>>
    <2> SUFFICES ASSUME Sound, Unborn, [Next]_vars
                 PROVE  Unborn' /\ (Life!Next \/ UNCHANGED <<UsableNow, DeadNow>>)
      OBVIOUS
    <2>1. CASE key' = key
      BY <2>1 DEF UsableNow, DeadNow, Usable, Unborn, Exists
    <2>2. CASE key' # key
      <3>1. PICK k \in Keys, row \in KeyRow :
              /\ Wrote(k, row) /\ row.secret > 0 /\ row.secret >= key[k].secret
              /\ Exists(k) /\ key[k].revoked => row.revoked
        BY <2>2, StepWrites
      <3>2. key[k].revoked => row.revoked
        BY <3>1 DEF Unborn
      <3>3. Life!Next
        BY <3>1, <3>2, WriteLives
      <3>4. key'[k] = row /\ \A m \in Keys \ {k} : key'[m] = key[m]
        BY <3>1, WroteType DEF Sound, TypeOK
      <3>5. Unborn'
        BY <3>1, <3>4 DEF Unborn, Exists
      <3> QED
        BY <3>3, <3>5
    <2> QED
      BY <2>1, <2>2
  <1>3. KeepsLife <=> Life!Spec
    BY DEF KeepsLife
  <1> QED
    BY <1>1, <1>2, <1>3, AlwaysSound, PTL DEF Spec, Life!Spec, UsableNow, DeadNow
=============================================================================
