----------------------- MODULE MetadataVersionsProofs -----------------------
(* Theorems about MetadataVersions, for every value of its constants.      *)
EXTENDS MetadataVersions, FiniteSetTheorems, WellFoundedInduction, TLAPS

-----------------------------------------------------------------------------
(* The newest version                                                      *)

\* A set of version numbers has a largest one.
LEMMA Largest ==
  ASSUME NEW S \in SUBSET Versions, S # {}
  PROVE  \E v \in S : \A w \in S : w <= v
  <1> DEFINE T == {MaxVersion - v : v \in S}
             R == OpToRel(<, Nat)
  <1>1. MaxVersion \in Nat /\ \A v \in S : v \in Nat /\ MaxVersion - v \in Nat
    BY MetadataAssumption DEF Versions
  <1>2. T \subseteq Nat /\ T # {}
    BY <1>1
  <1>3. IsWellFoundedOn(R, Nat)
    BY NatLessThanWellFounded
  <1> HIDE DEF T, R
  <1>4. PICK x \in T : \A y \in T : ~(<<y, x>> \in R)
    BY <1>2, <1>3, WFMin
  <1>5. \A y \in T : ~(y < x)
    BY <1>2, <1>4 DEF R, OpToRel
  <1>6. PICK v \in S : x = MaxVersion - v
    BY DEF T
  <1>7. ASSUME NEW w \in S PROVE w <= v
    <2>1. MaxVersion - w \in T
      BY DEF T
    <2> QED
      BY <1>1, <1>5, <1>6, <2>1
  <1> QED
    BY <1>7

\* The newest version is a version with a row, or none.
LEMMA NewestType ==
  ASSUME NEW t \in Rows
  PROVE  /\ Newest(t) \in 0..MaxVersion /\ ContentOf(t, Newest(t)) \in Contents
         /\ Newest(t) # 0 => Newest(t) \in Versions /\ t[Newest(t)] # 0
         /\ Newest(Empty) = 0
  <1>1. 0 \in Contents /\ Versions \subseteq 0..MaxVersion /\ 0 \in 0..MaxVersion /\ 0 \notin Versions
    BY MetadataAssumption DEF Contents, Versions
  <1>2. Newest(Empty) = 0
    BY DEF Newest, Empty
  <1>3. CASE \A v \in Versions : t[v] = 0
    BY <1>1, <1>2, <1>3 DEF Newest, ContentOf
  <1>4. CASE ~\A v \in Versions : t[v] = 0
    <2>1. PICK v \in {u \in Versions : t[u] # 0} : \A w \in {u \in Versions : t[u] # 0} : w <= v
      BY <1>4, Largest
    <2>2. \A w \in Versions : w > v => t[w] = 0
      BY <2>1 DEF Versions
    <2>3. Newest(t) = CHOOSE u \in Versions : t[u] # 0 /\ \A w \in Versions : w > u => t[w] = 0
      BY <1>4 DEF Newest
    <2>4. Newest(t) \in Versions /\ t[Newest(t)] # 0
      BY <2>1, <2>2, <2>3
    <2> QED
      BY <1>1, <1>2, <2>4 DEF ContentOf, Rows
  <1> QED
    BY <1>3, <1>4

-----------------------------------------------------------------------------
(* Requests                                                                *)

\* A request that stores or deletes has a version, and a store a content.
FitRequest(x) ==
  /\ x.pc = "idle" => x = Idle
  /\ x.op = "store" => x.pc \in {"next", "create", "project", "clear"} /\ x.content # 0
  /\ x.op = "store" /\ x.pc # "next" => x.version \in Versions
  /\ x.op = "delete" => /\ x.version \in Versions
                        /\ x.pc \in {"remove", "newest", "project", "clear"}

\* What requests start as and become.
Storing(x, pc, v, c) == [x EXCEPT !.op = "store", !.pc = pc, !.version = v, !.content = c]
Asking(x, op, pc, v) == [x EXCEPT !.op = op, !.pc = pc, !.version = v]
Paging(x)         == [x EXCEPT !.op = "page", !.pc = "query"]
Moved(x, pc)      == [x EXCEPT !.pc = pc]
Numbered(x, n)    == [x EXCEPT !.version = n, !.pc = "create"]
Newer(x, c)       == [x EXCEPT !.content = c, !.pc = "project"]
Seen(x, t)        == [x EXCEPT !.pc = "fill", !.outdated = FALSE, !.found = t]
Overtaken(x, b)   == [x EXCEPT !.outdated = (x.outdated \/ b), !.alone = FALSE]

\* No content, no version and no row are there from the start.
LEMMA Zeros ==
  /\ 0 \in Contents /\ 0 \in 0..MaxVersion /\ 0 \notin Versions /\ Versions \subseteq 0..MaxVersion
  /\ Empty \in Rows /\ NoEntry \in Entry
  /\ Idle \in Request /\ FitRequest(Idle) /\ Idle.op = "none" /\ Idle.pc = "idle"
  <1>1. /\ 0 \in Contents /\ 0 \in 0..MaxVersion /\ 0 \notin Versions
        /\ Versions \subseteq 0..MaxVersion
    BY MetadataAssumption DEF Contents, Versions
  <1>2. Empty \in Rows /\ NoEntry \in Entry
    BY <1>1 DEF Empty, Rows, NoEntry, Entry
  <1>3. Idle \in Request /\ Idle.op = "none" /\ Idle.pc = "idle"
    BY <1>1, <1>2 DEF Idle, Request, Ops, PCs
  <1>4. FitRequest(Idle)
    BY <1>3 DEF FitRequest
  <1> QED
    BY <1>1, <1>2, <1>3, <1>4

\* The requests that start.
LEMMA StartTypes ==
  ASSUME NEW x \in Request
  PROVE  /\ \A pc \in {"next", "create"}, v \in 0..MaxVersion, c \in Contents :
              /\ Storing(x, pc, v, c) \in Request /\ Storing(x, pc, v, c).op = "store"
              /\ Storing(x, pc, v, c).pc = pc /\ Storing(x, pc, v, c).version = v
              /\ Storing(x, pc, v, c).content = c
         /\ \A op \in {"delete", "get"}, pc \in {"remove", "query"}, v \in 0..MaxVersion :
              /\ Asking(x, op, pc, v) \in Request /\ Asking(x, op, pc, v).op = op
              /\ Asking(x, op, pc, v).pc = pc /\ Asking(x, op, pc, v).version = v
         /\ Paging(x) \in Request /\ Paging(x).op = "page" /\ Paging(x).pc = "query"
  <1>1. ASSUME NEW pc \in {"next", "create"}, NEW v \in 0..MaxVersion, NEW c \in Contents
        PROVE  /\ Storing(x, pc, v, c) \in Request /\ Storing(x, pc, v, c).op = "store"
               /\ Storing(x, pc, v, c).pc = pc /\ Storing(x, pc, v, c).version = v
               /\ Storing(x, pc, v, c).content = c
    BY DEF Request, Ops, PCs, Storing
  <1>2. ASSUME NEW op \in {"delete", "get"}, NEW pc \in {"remove", "query"}, NEW v \in 0..MaxVersion
        PROVE  /\ Asking(x, op, pc, v) \in Request /\ Asking(x, op, pc, v).op = op
               /\ Asking(x, op, pc, v).pc = pc /\ Asking(x, op, pc, v).version = v
    BY DEF Request, Ops, PCs, Asking
  <1>3. Paging(x) \in Request /\ Paging(x).op = "page" /\ Paging(x).pc = "query"
    BY DEF Request, Ops, PCs, Paging
  <1> QED
    BY <1>1, <1>2, <1>3

\* The requests that go on.
LEMMA MoveTypes ==
  ASSUME NEW x \in Request
  PROVE  /\ \A pc \in PCs : /\ Moved(x, pc) \in Request /\ Moved(x, pc).pc = pc
                            /\ Moved(x, pc).op = x.op /\ Moved(x, pc).version = x.version
                            /\ Moved(x, pc).content = x.content /\ Moved(x, pc).alone = x.alone
         /\ \A n \in 0..MaxVersion : /\ Numbered(x, n) \in Request /\ Numbered(x, n).pc = "create"
                                     /\ Numbered(x, n).op = x.op /\ Numbered(x, n).version = n
                                     /\ Numbered(x, n).content = x.content
         /\ \A c \in Contents : /\ Newer(x, c) \in Request /\ Newer(x, c).pc = "project"
                                /\ Newer(x, c).op = x.op /\ Newer(x, c).version = x.version
                                /\ Newer(x, c).content = c /\ Newer(x, c).alone = x.alone
         /\ \A t \in Rows : /\ Seen(x, t) \in Request /\ Seen(x, t).pc = "fill"
                            /\ Seen(x, t).op = x.op /\ Seen(x, t).version = x.version
                            /\ Seen(x, t).found = t
         /\ \A b \in BOOLEAN : /\ Overtaken(x, b) \in Request /\ Overtaken(x, b).pc = x.pc
                               /\ Overtaken(x, b).op = x.op
                               /\ Overtaken(x, b).version = x.version
                               /\ Overtaken(x, b).content = x.content
                               /\ Overtaken(x, b).found = x.found
                               /\ ~Overtaken(x, b).alone
                               /\ Overtaken(x, b).outdated <=> x.outdated \/ b
  <1>1. ASSUME NEW pc \in PCs
        PROVE  /\ Moved(x, pc) \in Request /\ Moved(x, pc).pc = pc
               /\ Moved(x, pc).op = x.op /\ Moved(x, pc).version = x.version
               /\ Moved(x, pc).content = x.content /\ Moved(x, pc).alone = x.alone
    BY DEF Request, Moved
  <1>2. ASSUME NEW n \in 0..MaxVersion
        PROVE  /\ Numbered(x, n) \in Request /\ Numbered(x, n).pc = "create"
               /\ Numbered(x, n).op = x.op /\ Numbered(x, n).version = n
               /\ Numbered(x, n).content = x.content
    BY DEF Request, Numbered, PCs
  <1>3. ASSUME NEW c \in Contents
        PROVE  /\ Newer(x, c) \in Request /\ Newer(x, c).pc = "project"
               /\ Newer(x, c).op = x.op /\ Newer(x, c).version = x.version
               /\ Newer(x, c).content = c /\ Newer(x, c).alone = x.alone
    BY DEF Request, Newer, PCs
  <1>4. ASSUME NEW t \in Rows
        PROVE  /\ Seen(x, t) \in Request /\ Seen(x, t).pc = "fill"
               /\ Seen(x, t).op = x.op /\ Seen(x, t).version = x.version /\ Seen(x, t).found = t
    BY DEF Request, Seen, PCs
  <1>5. ASSUME NEW b \in BOOLEAN
        PROVE  /\ Overtaken(x, b) \in Request /\ Overtaken(x, b).pc = x.pc
               /\ Overtaken(x, b).op = x.op /\ Overtaken(x, b).version = x.version
               /\ Overtaken(x, b).content = x.content /\ Overtaken(x, b).found = x.found
               /\ ~Overtaken(x, b).alone
               /\ Overtaken(x, b).outdated <=> x.outdated \/ b
    BY DEF Request, Overtaken
  <1> QED
    BY <1>1, <1>2, <1>3, <1>4, <1>5

-----------------------------------------------------------------------------
(* Types                                                                   *)

Sound == TypeOK /\ \A r \in Requests : FitRequest(req[r])

Moves(r, x) == req' = [req EXCEPT ![r] = x]

\* What a step does to the requests: one moves, ...
LEMMA MoveSound ==
  ASSUME Sound, NEW r \in Requests, NEW x \in Request, FitRequest(x), Moves(r, x)
  PROVE  /\ req' \in [Requests -> Request] /\ \A q \in Requests : FitRequest(req'[q])
         /\ req'[r] = x /\ \A q \in Requests \ {r} : req'[q] = req[q]
  BY DEF Moves, Sound, TypeOK

\* ... and if it writes it overtakes the others that run.
Overtakes(q, b) == /\ req'[q].pc = req[q].pc /\ req'[q].op = req[q].op
                   /\ req'[q].version = req[q].version /\ req'[q].content = req[q].content
                   /\ req'[q].found = req[q].found
                   /\ req[q].pc # "idle" => ~req'[q].alone /\ (req'[q].outdated <=> req[q].outdated \/ b)

LEMMA WroteSound ==
  ASSUME Sound, NEW r \in Requests, NEW x \in Request, FitRequest(x), NEW b \in BOOLEAN,
         Wrote(r, x, b)
  PROVE  /\ req' \in [Requests -> Request] /\ \A q \in Requests : FitRequest(req'[q])
         /\ req'[r] = x /\ \A q \in Requests \ {r} : Overtakes(q, b)
  <1>1. req \in [Requests -> Request] /\ \A q \in Requests : FitRequest(req[q])
    BY DEF Sound, TypeOK
  <1>2. req' = [q \in Requests |-> IF q = r THEN x
                                   ELSE IF req[q].pc = "idle" THEN Idle ELSE Overtaken(req[q], b)]
    BY DEF Wrote, Overtaken
  <1>3. ASSUME NEW q \in Requests \ {r}
        PROVE  req'[q] \in Request /\ FitRequest(req'[q]) /\ Overtakes(q, b)
    <2>1. CASE req[q].pc = "idle"
      <3>1. req[q] = Idle /\ req'[q] = Idle
        BY <1>1, <1>2, <2>1 DEF FitRequest
      <3> QED
        BY <3>1, Zeros DEF Overtakes
    <2>2. CASE req[q].pc # "idle"
      <3>1. PICK y \in Request : y = req[q] /\ FitRequest(y)
        BY <1>1
      <3>2. PICK z : z = Overtaken(y, b)
        OBVIOUS
      <3>3. req'[q] = z
        BY <1>2, <2>2, <3>1, <3>2
      <3>4. /\ z \in Request /\ z.pc = y.pc /\ z.op = y.op /\ z.version = y.version
            /\ z.content = y.content /\ z.found = y.found
            /\ ~z.alone /\ (z.outdated <=> y.outdated \/ b)
        BY <3>1, <3>2, MoveTypes
      <3>5. FitRequest(z)
        BY <2>2, <3>1, <3>4 DEF FitRequest
      <3> QED
        BY <3>1, <3>3, <3>4, <3>5 DEF Overtakes
    <2> QED
      BY <2>1, <2>2
  <1>4. req'[r] = x
    BY <1>2
  <1> QED
    BY <1>2, <1>3, <1>4

\* The requests that begin.
LEMMA Begins ==
  ASSUME Sound, NEW r \in Requests
  PROVE  /\ \A v \in 0..MaxVersion : Store(r, v) =>
              \E x \in Request : /\ FitRequest(x) /\ Moves(r, x)
                                 /\ x.op = "store" /\ x.pc \in {"next", "create"}
         /\ \A v \in 0..MaxVersion : Get(r, v) =>
              \E x \in Request : FitRequest(x) /\ Moves(r, x) /\ x.op = "get" /\ x.pc = "query"
         /\ \A v \in Versions : Delete(r, v) =>
              \E x \in Request : FitRequest(x) /\ Moves(r, x) /\ x.op = "delete" /\ x.pc = "remove"
         /\ GetPage(r) =>
              \E x \in Request : FitRequest(x) /\ Moves(r, x) /\ x.op = "page" /\ x.pc = "query"
  <1>1. contents \in 0..made /\ made \in 0..MaxRequests /\ MaxRequests \in Nat
    BY MetadataAssumption DEF Sound, TypeOK
  <1>2. ASSUME NEW v \in 0..MaxVersion, Store(r, v)
        PROVE  \E x \in Request : /\ FitRequest(x) /\ Moves(r, x)
                                  /\ x.op = "store" /\ x.pc \in {"next", "create"}
    <2>1. PICK pc \in {"next", "create"} : pc = IF v = 0 THEN "next" ELSE "create"
      OBVIOUS
    <2>2. PICK c \in Contents : c = contents + 1 /\ c # 0
      BY <1>1, <1>2 DEF Store, Start, Contents
    <2>3. PICK x : x = Storing(Idle, pc, v, c)
      OBVIOUS
    <2>4. x \in Request /\ x.op = "store" /\ x.pc = pc /\ x.version = v /\ x.content = c
      <3>1. PICK y \in Request : y = Idle
        BY Zeros
      <3> QED
        BY <1>2, <2>1, <2>2, <2>3, <3>1, StartTypes
    <2>5. FitRequest(x)
      BY <1>2, <2>1, <2>2, <2>4 DEF FitRequest, Versions
    <2>6. Moves(r, x)
      BY <1>2, <2>1, <2>2, <2>3 DEF Store, Start, Moves, Storing
    <2> QED
      BY <2>4, <2>5, <2>6
  <1>3. ASSUME NEW v \in 0..MaxVersion, Get(r, v)
        PROVE  \E x \in Request : FitRequest(x) /\ Moves(r, x) /\ x.op = "get" /\ x.pc = "query"
    <2>1. PICK x : x = Asking(Idle, "get", "query", v)
      OBVIOUS
    <2>2. x \in Request /\ x.op = "get" /\ x.pc = "query"
      <3>1. PICK y \in Request : y = Idle
        BY Zeros
      <3> QED
        BY <1>3, <2>1, <3>1, StartTypes
    <2>3. Moves(r, x)
      BY <1>3, <2>1 DEF Get, Start, Moves, Asking
    <2>5. FitRequest(x)
      BY <2>2 DEF FitRequest
    <2> QED
      BY <2>2, <2>3, <2>5
  <1>4. ASSUME NEW v \in Versions, Delete(r, v)
        PROVE  \E x \in Request : FitRequest(x) /\ Moves(r, x) /\ x.op = "delete" /\ x.pc = "remove"
    <2>1. PICK x : x = Asking(Idle, "delete", "remove", v)
      OBVIOUS
    <2>2. v \in 0..MaxVersion
      BY Zeros
    <2>3. x \in Request /\ x.op = "delete" /\ x.pc = "remove" /\ x.version = v
      <3>1. PICK y \in Request : y = Idle
        BY Zeros
      <3> QED
        BY <2>1, <2>2, <3>1, StartTypes
    <2>4. Moves(r, x)
      BY <1>4, <2>1 DEF Delete, Start, Moves, Asking
    <2>5. FitRequest(x)
      BY <2>3 DEF FitRequest
    <2> QED
      BY <2>3, <2>4, <2>5
  <1>5. ASSUME GetPage(r)
        PROVE  \E x \in Request : FitRequest(x) /\ Moves(r, x) /\ x.op = "page" /\ x.pc = "query"
    <2>1. PICK x : x = Paging(Idle)
      OBVIOUS
    <2>2. x \in Request /\ x.op = "page" /\ x.pc = "query"
      <3>1. PICK y \in Request : y = Idle
        BY Zeros
      <3> QED
        BY <2>1, <3>1, StartTypes
    <2>3. Moves(r, x)
      BY <1>5, <2>1 DEF GetPage, Start, Moves, Paging
    <2>5. FitRequest(x)
      BY <2>2 DEF FitRequest
    <2> QED
      BY <2>2, <2>3, <2>5
  <1> QED
    BY <1>2, <1>3, <1>4, <1>5

\* A request that goes on with what it has.
Onward(r, x) == /\ x.op = req[r].op /\ x.version = req[r].version /\ x.content = req[r].content
                /\ x.alone = req[r].alone

\* The requests that go on, one lemma for the writers ...
LEMMA Writers ==
  ASSUME Sound, NEW r \in Requests
  PROVE  /\ Create(r) /\ rows[req[r].version] = 0 =>
              \E x \in Request : FitRequest(x) /\ Wrote(r, x, TRUE) /\ Onward(r, x) /\ x.pc = "project"
         /\ UpdateProject(r) =>
              \E x \in Request : FitRequest(x) /\ Wrote(r, x, FALSE) /\ Onward(r, x) /\ x.pc = "clear"
         /\ Remove(r) /\ rows[req[r].version] # 0 =>
              \E x \in Request : FitRequest(x) /\ Wrote(r, x, TRUE) /\ Onward(r, x) /\ x.pc = "newest"
  <1>1. PICK y \in Request : y = req[r] /\ FitRequest(y)
    BY DEF Sound, TypeOK
  <1>2. ASSUME NEW pc \in PCs
        PROVE  Moved(y, pc) \in Request /\ Moved(y, pc).pc = pc /\ Onward(r, Moved(y, pc))
    BY <1>1, <1>2, MoveTypes DEF Onward
  <1>3. ASSUME Create(r), rows[req[r].version] = 0
        PROVE  \E x \in Request : FitRequest(x) /\ Wrote(r, x, TRUE) /\ Onward(r, x) /\ x.pc = "project"
    <2>1. PICK x : x = Moved(y, "project")
      OBVIOUS
    <2>2. x \in Request /\ x.pc = "project" /\ Onward(r, x)
      BY <1>2, <2>1 DEF PCs
    <2>3. y.op = "store" /\ y.pc = "create"
      BY <1>1, <1>3 DEF Create, At
    <2>4. FitRequest(x)
      BY <1>1, <2>2, <2>3 DEF FitRequest, Onward
    <2>5. Wrote(r, x, TRUE)
      BY <1>1, <1>3, <2>1 DEF Create, Moved
    <2> QED
      BY <2>2, <2>4, <2>5
  <1>4. ASSUME UpdateProject(r)
        PROVE  \E x \in Request : FitRequest(x) /\ Wrote(r, x, FALSE) /\ Onward(r, x) /\ x.pc = "clear"
    <2>1. PICK x : x = Moved(y, "clear")
      OBVIOUS
    <2>2. x \in Request /\ x.pc = "clear" /\ Onward(r, x)
      BY <1>2, <2>1 DEF PCs
    <2>3. y.op \in {"store", "delete"} /\ y.pc = "project"
      BY <1>1, <1>4 DEF UpdateProject
    <2>4. FitRequest(x)
      BY <1>1, <2>2, <2>3 DEF FitRequest, Onward
    <2>5. Wrote(r, x, FALSE)
      BY <1>1, <1>4, <2>1 DEF UpdateProject, Moved
    <2> QED
      BY <2>2, <2>4, <2>5
  <1>5. ASSUME Remove(r), rows[req[r].version] # 0
        PROVE  \E x \in Request : FitRequest(x) /\ Wrote(r, x, TRUE) /\ Onward(r, x) /\ x.pc = "newest"
    <2>1. PICK x : x = Moved(y, "newest")
      OBVIOUS
    <2>2. x \in Request /\ x.pc = "newest" /\ Onward(r, x)
      BY <1>2, <2>1 DEF PCs
    <2>3. y.op = "delete" /\ y.pc = "remove"
      BY <1>1, <1>5 DEF Remove, At
    <2>4. FitRequest(x)
      BY <1>1, <2>2, <2>3 DEF FitRequest, Onward
    <2>5. Wrote(r, x, TRUE)
      BY <1>1, <1>5, <2>1 DEF Remove, Moved
    <2> QED
      BY <2>2, <2>4, <2>5
  <1> QED
    BY <1>3, <1>4, <1>5

\* ... and one for the readers.
LEMMA Readers ==
  ASSUME Sound, NEW r \in Requests
  PROVE  /\ ReadNext(r) =>
              \E x \in Request : FitRequest(x) /\ Moves(r, x) /\ x.op = "store" /\ x.pc = "create"
         /\ ReadNewest(r) =>
              \E x \in Request : /\ FitRequest(x) /\ Moves(r, x) /\ x.op = "delete" /\ x.pc = "project"
                                 /\ x.content = ContentOf(rows, Newest(rows))
         /\ Query(r) =>
              \E x \in Request : /\ FitRequest(x) /\ Moves(r, x)
                                 /\ \/ x = Idle
                                    \/ x.op \notin {"store", "delete"} /\ x.pc = "fill" /\ x.found = rows
  <1>1. PICK y \in Request : y = req[r] /\ FitRequest(y)
    BY DEF Sound, TypeOK
  <1>2. rows \in Rows
    BY DEF Sound, TypeOK
  <1>3. ASSUME ReadNext(r)
        PROVE  \E x \in Request : FitRequest(x) /\ Moves(r, x) /\ x.op = "store" /\ x.pc = "create"
    <2>1. PICK n : n = Newest(rows) + 1
      OBVIOUS
    <2>2. n \in Versions /\ n \in 0..MaxVersion
      BY <1>2, <1>3, <2>1, NewestType, MetadataAssumption DEF ReadNext, Versions
    <2>3. PICK x : x = Numbered(y, n)
      OBVIOUS
    <2>4. y.op = "store" /\ y.pc = "next"
      BY <1>1, <1>3 DEF ReadNext, At
    <2>5. /\ x \in Request /\ x.op = "store" /\ x.pc = "create" /\ x.version = n
          /\ x.content = y.content
      BY <2>2, <2>3, <2>4, MoveTypes
    <2>6. FitRequest(x)
      BY <1>1, <2>2, <2>4, <2>5 DEF FitRequest
    <2>7. Moves(r, x)
      BY <1>1, <1>3, <2>1, <2>3 DEF ReadNext, Moves, Numbered
    <2> QED
      BY <2>5, <2>6, <2>7
  <1>4. ASSUME ReadNewest(r)
        PROVE  \E x \in Request : /\ FitRequest(x) /\ Moves(r, x) /\ x.op = "delete" /\ x.pc = "project"
                                  /\ x.content = ContentOf(rows, Newest(rows))
    <2>1. PICK c \in Contents : c = ContentOf(rows, Newest(rows))
      BY <1>2, NewestType
    <2>2. PICK x : x = Newer(y, c)
      OBVIOUS
    <2>3. y.op = "delete" /\ y.pc = "newest"
      BY <1>1, <1>4 DEF ReadNewest, At
    <2>4. /\ x \in Request /\ x.op = "delete" /\ x.pc = "project" /\ x.version = y.version
          /\ x.content = c
      BY <2>1, <2>2, <2>3, MoveTypes
    <2>5. FitRequest(x)
      BY <1>1, <2>3, <2>4 DEF FitRequest
    <2>6. Moves(r, x)
      BY <1>1, <1>4, <2>1, <2>2 DEF ReadNewest, Moves, Newer
    <2> QED
      BY <2>1, <2>4, <2>5, <2>6
  <1>5. ASSUME Query(r)
        PROVE  \E x \in Request : /\ FitRequest(x) /\ Moves(r, x)
                                  /\ \/ x = Idle
                                     \/ x.op \notin {"store", "delete"} /\ x.pc = "fill" /\ x.found = rows
    <2>1. PICK x : x = Seen(y, rows)
      OBVIOUS
    <2>2. y.pc = "query" /\ y.op \notin {"store", "delete"}
      BY <1>1, <1>5 DEF Query, FitRequest
    <2>3. /\ x \in Request /\ x.op = y.op /\ x.pc = "fill" /\ x.found = rows
      BY <1>2, <2>1, MoveTypes
    <2>4. FitRequest(x)
      BY <2>2, <2>3 DEF FitRequest
    <2>5. Moves(r, x) \/ Moves(r, Idle)
      BY <1>1, <1>5, <2>1 DEF Query, Moves, Seen, End
    <2> QED
      BY <2>2, <2>3, <2>4, <2>5, Zeros
  <1> QED
    BY <1>3, <1>4, <1>5

\* A step that leaves the tables and what was told alone.
Quiet == UNCHANGED <<rows, current, told, removed>>

\* What a request that writes nothing becomes: it writes the project's copy next only as a
\* deletion that has read the newest version, and the cache only with what it has read.
Calm(x) == /\ x.pc \in {"project", "clear"} => /\ x.op = "delete" /\ x.pc = "project"
                                               /\ x.content = ContentOf(rows, Newest(rows))
           /\ x.pc = "fill" => x.found = rows

\* A request that ends, or reads, leaves the tables alone; the types hold for what it caches.
LEMMA QuietSteps ==
  ASSUME Sound, NEW r \in Requests,
         \/ \E v \in 0..MaxVersion : Store(r, v) \/ Get(r, v)
         \/ \E v \in Versions : Delete(r, v)
         \/ GetPage(r) \/ ReadNext(r) \/ ReadNewest(r) \/ Query(r) \/ Fill(r) \/ Fail(r)
  PROVE  /\ Quiet /\ tidy' = tidy
         /\ \E x \in Request : FitRequest(x) /\ Moves(r, x) /\ Calm(x)
         /\ latest' \in Entry /\ byNumber' \in Rows
         /\ history' \in SUBSET Rows /\ Cardinality(history') <= 1
         /\ contents' \in 0..made' /\ made' \in 0..MaxRequests
         /\ faults' \in 0..MaxFaults /\ dirty' \in BOOLEAN
  <1>1. Quiet /\ tidy' = tidy
    BY DEF Store, Get, Delete, GetPage, ReadNext, ReadNewest, Query, Fill, Fail, tables, answers, Quiet
  <1>2. \E x \in Request : FitRequest(x) /\ Moves(r, x) /\ Calm(x)
    <2>1. CASE Fill(r) \/ Fail(r)
      BY <2>1, Zeros DEF Fill, Fail, End, Moves, Calm
    <2>2. CASE \/ \E v \in 0..MaxVersion : Store(r, v) \/ Get(r, v)
               \/ \E v \in Versions : Delete(r, v)
               \/ GetPage(r)
      <3>1. \E x \in Request : /\ FitRequest(x) /\ Moves(r, x)
                               /\ x.pc \in {"next", "create", "remove", "query"}
        BY <2>2, Begins
      <3>2. \A x \in Request : x.pc \in {"next", "create", "remove", "query"} => Calm(x)
        BY DEF Calm
      <3> QED
        BY <3>1, <3>2
    <2>3. CASE ReadNext(r) \/ ReadNewest(r) \/ Query(r)
      BY <2>3, Readers, Zeros DEF Calm
    <2> QED
      BY <2>1, <2>2, <2>3
  <1>3. /\ contents \in 0..made /\ made \in 0..MaxRequests /\ MaxRequests \in Nat
        /\ faults \in 0..MaxFaults /\ MaxFaults \in Nat /\ dirty \in BOOLEAN
    BY MetadataAssumption DEF Sound, TypeOK
  <1>4. contents' \in 0..made' /\ made' \in 0..MaxRequests
    <2>1. \/ made' = made /\ contents' = contents
          \/ made < MaxRequests /\ made' = made + 1 /\ contents' \in {contents, contents + 1}
      BY DEF Store, Get, Delete, GetPage, ReadNext, ReadNewest, Query, Fill, Fail, Start
    <2> QED
      BY <1>3, <2>1
  <1>5. faults' \in 0..MaxFaults /\ dirty' \in BOOLEAN
    <2>1. CASE Fail(r)
      BY <1>3, <2>1 DEF Fail
    <2>2. CASE ~Fail(r)
      <3>1. faults' = faults /\ dirty' = dirty
        BY <2>2 DEF Store, Get, Delete, GetPage, ReadNext, ReadNewest, Query, Fill
      <3> QED
        BY <1>3, <3>1
    <2> QED
      BY <2>1, <2>2
  <1>6. CASE Fill(r)
    <2>1. PICK y \in Request : y = req[r]
      BY DEF Sound, TypeOK
    <2>2. PICK t \in Rows : t = y.found
      BY DEF Request
    <2>3. Newest(t) \in 0..MaxVersion /\ ContentOf(t, Newest(t)) \in Contents /\ y.outdated \in BOOLEAN
      BY NewestType DEF Request
    <2>4. latest' \in Entry
      BY <1>6, <2>1, <2>2, <2>3 DEF Fill, Entry, Sound, TypeOK
    <2>5. byNumber' \in Rows
      <3>1. byNumber' = byNumber \/ (y.version # 0 /\ byNumber' = [byNumber EXCEPT ![y.version] = t[y.version]])
        BY <1>6, <2>1, <2>2 DEF Fill
      <3>2. y.version # 0 => y.version \in Versions
        BY <2>1, MetadataAssumption DEF Request, Versions
      <3> QED
        BY <2>2, <3>1, <3>2 DEF Sound, TypeOK, Rows
    <2>6. history' = history \/ history' = {t}
      BY <1>6, <2>1, <2>2 DEF Fill
    <2>7. IsFiniteSet({t}) /\ Cardinality({t}) = 1
      BY FS_Singleton
    <2>8. history' \in SUBSET Rows /\ Cardinality(history') <= 1
      BY <2>2, <2>6, <2>7 DEF Sound, TypeOK
    <2> QED
      BY <1>1, <1>2, <1>4, <1>5, <2>4, <2>5, <2>8
  <1>7. CASE ~Fill(r)
    <2>1. UNCHANGED caches
      BY <1>7 DEF Store, Get, Delete, GetPage, ReadNext, ReadNewest, Query, Fail
    <2> QED
      BY <1>1, <1>2, <1>4, <1>5, <2>1 DEF caches, Sound, TypeOK
  <1> QED
    BY <1>6, <1>7

\* The steps that change the tables or are told.
LEMMA WriteSound ==
  ASSUME Sound, NEW r \in Requests, Create(r) \/ UpdateProject(r) \/ ClearCache(r) \/ Remove(r)
  PROVE  Sound'
  <1>1. /\ rows \in Rows /\ req \in [Requests -> Request] /\ \A q \in Requests : FitRequest(req[q])
        /\ told \in [Versions -> Nat] /\ removed \in [Versions -> Nat] /\ current \in Contents \cup {Portfolio}
        /\ req[r] \in Request
    BY DEF Sound, TypeOK
  <1>2. ASSUME req' \in [Requests -> Request] /\ \A q \in Requests : FitRequest(req'[q]),
               rows' \in Rows, current' \in Contents \cup {Portfolio}, latest' \in Entry,
               told' \in [Versions -> Nat], removed' \in [Versions -> Nat],
               tidy' \in BOOLEAN, dirty' \in BOOLEAN,
               UNCHANGED <<byNumber, history, contents, made, faults>>
        PROVE  Sound'
    BY <1>2 DEF Sound, TypeOK, FitRequest
  <1>3. CASE End(r) /\ UNCHANGED <<rows, current, latest, told, removed, tidy, dirty>>
              /\ UNCHANGED <<byNumber, history, contents, made, faults>>
    <2>1. Moves(r, Idle)
      BY <1>3 DEF End, Moves
    <2>2. req' \in [Requests -> Request] /\ \A q \in Requests : FitRequest(req'[q])
      BY <2>1, Zeros, MoveSound
    <2> QED
      BY <1>1, <1>2, <1>3, <2>2 DEF Sound, TypeOK
  <1>4. CASE Create(r)
    <2>1. CASE rows[req[r].version] # 0
      BY <1>3, <1>4, <2>1 DEF Create, caches, answers
    <2>2. CASE rows[req[r].version] = 0
      <3>1. req' \in [Requests -> Request] /\ \A q \in Requests : FitRequest(req'[q])
        BY <1>4, <2>2, Writers, WroteSound
      <3>2. rows' \in Rows /\ tidy' = FALSE /\ UNCHANGED <<current, caches, contents, answers, dirty, made, faults>>
        BY <1>1, <1>4, <2>2 DEF Create, Rows, Request
      <3> QED
        BY <1>1, <1>2, <3>1, <3>2 DEF Sound, TypeOK, caches, answers
    <2> QED
      BY <2>1, <2>2
  <1>5. CASE Remove(r)
    <2>1. CASE rows[req[r].version] = 0
      BY <1>3, <1>5, <2>1 DEF Remove, caches
    <2>2. CASE rows[req[r].version] # 0
      <3>1. req' \in [Requests -> Request] /\ \A q \in Requests : FitRequest(req'[q])
        BY <1>5, <2>2, Writers, WroteSound
      <3>2. rows' \in Rows /\ tidy' = FALSE /\ UNCHANGED <<current, caches, contents, told, dirty, made, faults>>
        BY <1>1, <1>5, <2>2, Zeros DEF Remove, Rows
      <3>3. removed' \in [Versions -> Nat]
        BY <1>1, <1>5, <2>2 DEF Remove
      <3> QED
        BY <1>1, <1>2, <3>1, <3>2, <3>3 DEF Sound, TypeOK, caches
    <2> QED
      BY <2>1, <2>2
  <1>6. CASE UpdateProject(r)
    <2>1. req' \in [Requests -> Request] /\ \A q \in Requests : FitRequest(req'[q])
      BY <1>6, Writers, WroteSound
    <2>2. /\ current' \in Contents /\ tidy' = FALSE
          /\ UNCHANGED <<rows, caches, contents, answers, dirty, made, faults>>
      BY <1>1, <1>6 DEF UpdateProject, Request
    <2> QED
      BY <1>1, <1>2, <2>1, <2>2 DEF Sound, TypeOK, caches, answers
  <1>7. CASE ClearCache(r)
    <2>1. Moves(r, Idle)
      BY <1>7 DEF ClearCache, End, Moves
    <2>2. req' \in [Requests -> Request] /\ \A q \in Requests : FitRequest(req'[q])
      BY <2>1, Zeros, MoveSound
    <2>3. told' \in [Versions -> Nat]
      <3>1. told' = told \/ told' = [told EXCEPT ![req[r].version] = told[req[r].version] + 1]
        BY <1>7 DEF ClearCache
      <3> QED
        BY <1>1, <3>1
    <2>4. /\ latest' \in Entry /\ tidy' \in BOOLEAN /\ dirty' \in BOOLEAN
          /\ UNCHANGED <<rows, current, byNumber, history, contents, removed, made, faults>>
      <3>1. /\ latest' = NoEntry /\ dirty' = FALSE
            /\ tidy' = (req[r].alone /\ (req[r].op = "store" => req[r].version = Newest(rows)))
            /\ UNCHANGED <<tables, byNumber, history, contents, removed, made, faults>>
        BY <1>7 DEF ClearCache
      <3>2. tidy' \in BOOLEAN
        BY <1>1, <3>1 DEF Request
      <3> QED
        BY <3>1, <3>2, Zeros DEF tables
    <2> QED
      BY <1>1, <1>2, <2>2, <2>3, <2>4
  <1> QED
    BY <1>4, <1>5, <1>6, <1>7

\* The steps there are.
Calmly(r) == \/ \E v \in 0..MaxVersion : Store(r, v) \/ Get(r, v)
             \/ \E v \in Versions : Delete(r, v)
             \/ GetPage(r) \/ ReadNext(r) \/ ReadNewest(r) \/ Query(r) \/ Fill(r) \/ Fail(r)

LEMMA StepCases ==
  ASSUME [Next]_vars
  PROVE  \/ \E r \in Requests : Calmly(r)
         \/ \E r \in Requests : Create(r) \/ UpdateProject(r) \/ ClearCache(r) \/ Remove(r)
         \/ Expire \/ UNCHANGED vars
         \/ \E c \in {0, Portfolio} : Sync(c)
  BY DEF Next, Work, Calmly

\* An entry that expires.
LEMMA Expires ==
  ASSUME Sound, Expire \/ UNCHANGED vars
  PROVE  /\ Sound' /\ Quiet /\ tidy' = tidy /\ dirty' = dirty /\ req' = req
         /\ latest' = latest \/ latest' = NoEntry
  <1>1. /\ Quiet /\ req' = req
        /\ latest' = latest \/ latest' = NoEntry
        /\ UNCHANGED <<contents, dirty, tidy, made, faults>>
    BY DEF Expire, ExpireLatest, ExpireHistory, ExpireNumber, tables, answers, Quiet, vars
  <1>2. latest' \in Entry
    BY <1>1, Zeros DEF Sound, TypeOK
  <1>3. byNumber' \in Rows
    <2>1. byNumber' = byNumber \/ \E v \in Versions : byNumber' = [byNumber EXCEPT ![v] = 0]
      BY DEF Expire, ExpireLatest, ExpireHistory, ExpireNumber, vars
    <2> QED
      BY <2>1, Zeros DEF Sound, TypeOK, Rows
  <1>4. history' \in SUBSET Rows /\ Cardinality(history') <= 1
    <2>1. history' = history \/ history' = {}
      BY DEF Expire, ExpireLatest, ExpireHistory, ExpireNumber, vars
    <2> QED
      BY <2>1, FS_EmptySet DEF Sound, TypeOK
  <1> QED
    BY <1>1, <1>2, <1>3, <1>4 DEF Quiet, Sound, TypeOK, FitRequest

\* A sync from GitHub overtakes the requests that have written the copy, and nothing else.
LEMMA Syncs ==
  ASSUME Sound, NEW c \in {0, Portfolio}, Sync(c)
  PROVE  /\ Sound' /\ tidy' = FALSE
         /\ UNCHANGED <<rows, latest, dirty, told, removed>>
         /\ \A q \in Requests : /\ req'[q].pc = req[q].pc /\ req'[q].op = req[q].op
                                /\ req'[q].version = req[q].version
                                /\ req'[q].content = req[q].content
                                /\ req'[q].found = req[q].found
                                /\ req'[q].outdated = req[q].outdated
                                /\ req'[q].alone => req[q].alone /\ req[q].pc # "clear"
  <1>1. \A x \in Request : /\ [x EXCEPT !.alone = FALSE] \in Request
                           /\ [x EXCEPT !.alone = FALSE].pc = x.pc
                           /\ [x EXCEPT !.alone = FALSE].op = x.op
                           /\ [x EXCEPT !.alone = FALSE].version = x.version
                           /\ [x EXCEPT !.alone = FALSE].content = x.content
                           /\ [x EXCEPT !.alone = FALSE].found = x.found
                           /\ [x EXCEPT !.alone = FALSE].outdated = x.outdated
                           /\ ~[x EXCEPT !.alone = FALSE].alone
    BY DEF Request
  <1>2. req \in [Requests -> Request] /\ \A q \in Requests : FitRequest(req[q])
    BY DEF Sound, TypeOK
  <1>3. req' = [q \in Requests |-> IF req[q].pc = "clear" THEN [req[q] EXCEPT !.alone = FALSE]
                                                         ELSE req[q]]
    BY DEF Sync
  <1>4. ASSUME NEW q \in Requests
        PROVE  /\ req'[q] \in Request /\ FitRequest(req'[q])
               /\ req'[q].pc = req[q].pc /\ req'[q].op = req[q].op
               /\ req'[q].version = req[q].version /\ req'[q].content = req[q].content
               /\ req'[q].found = req[q].found /\ req'[q].outdated = req[q].outdated
               /\ req'[q].alone => req[q].alone /\ req[q].pc # "clear"
    <2>1. CASE req[q].pc # "clear"
      BY <1>2, <1>3, <2>1
    <2>2. CASE req[q].pc = "clear"
      <3>1. PICK x \in Request : x = req[q] /\ FitRequest(x) /\ x.pc = "clear"
        BY <1>2, <2>2
      <3>2. PICK z : z = [x EXCEPT !.alone = FALSE]
        OBVIOUS
      <3>3. req'[q] = z
        BY <1>3, <2>2, <3>1, <3>2
      <3>4. /\ z \in Request /\ z.pc = x.pc /\ z.op = x.op /\ z.version = x.version
            /\ z.content = x.content /\ z.found = x.found /\ z.outdated = x.outdated /\ ~z.alone
        BY <1>1, <3>2
      <3>5. FitRequest(z)
        BY <3>1, <3>4 DEF FitRequest
      <3> QED
        BY <3>1, <3>3, <3>4, <3>5
    <2> QED
      BY <2>1, <2>2
  <1>5. /\ UNCHANGED <<rows, latest, byNumber, history, contents, told, removed, dirty, faults>>
        /\ tidy' = FALSE /\ current' = c
    BY DEF Sync, caches, answers
  <1>6. made' \in 0..MaxRequests /\ contents \in 0..made'
    BY MetadataAssumption DEF Sync, Sound, TypeOK
  <1>7. current' \in Contents \cup {Portfolio}
    BY <1>5, Zeros
  <1>8. req' \in [Requests -> Request] /\ \A q \in Requests : FitRequest(req'[q])
    BY <1>3, <1>4
  <1>9. Sound'
    BY <1>5, <1>6, <1>7, <1>8 DEF Sound, TypeOK, FitRequest
  <1> QED
    BY <1>4, <1>5, <1>9

\* Every step is sound.
LEMMA StepSound == Sound /\ [Next]_vars => Sound'
  <1> SUFFICES ASSUME Sound, [Next]_vars PROVE Sound'
    OBVIOUS
  <1>1. ASSUME NEW r \in Requests, Calmly(r) PROVE Sound'
    <2>1. PICK x \in Request : FitRequest(x) /\ Moves(r, x)
      BY <1>1, QuietSteps DEF Calmly
    <2>2. req' \in [Requests -> Request] /\ \A q \in Requests : FitRequest(req'[q])
      BY <2>1, MoveSound
    <2>3. /\ Quiet /\ tidy' = tidy
          /\ latest' \in Entry /\ byNumber' \in Rows
          /\ history' \in SUBSET Rows /\ Cardinality(history') <= 1
          /\ contents' \in 0..made' /\ made' \in 0..MaxRequests
          /\ faults' \in 0..MaxFaults /\ dirty' \in BOOLEAN
      BY <1>1, QuietSteps DEF Calmly
    <2> QED
      BY <2>2, <2>3 DEF Quiet, Sound, TypeOK, FitRequest
  <1>2. ASSUME NEW r \in Requests, Create(r) \/ UpdateProject(r) \/ ClearCache(r) \/ Remove(r)
        PROVE  Sound'
    BY <1>2, WriteSound
  <1>3. ASSUME Expire \/ UNCHANGED vars PROVE Sound'
    BY <1>3, Expires
  <1> QED
    BY <1>1, <1>2, <1>3, StepCases, Syncs

\* The invariant on which the other theorems rest.
LEMMA AlwaysSound == Spec => []Sound
  <1>1. Init => Sound
    <2> SUFFICES ASSUME Init PROVE Sound
      OBVIOUS
    <2>1. history \in SUBSET Rows /\ Cardinality(history) <= 1
      BY FS_EmptySet DEF Init
    <2>2. req \in [Requests -> Request] /\ \A r \in Requests : FitRequest(req[r])
      BY Zeros DEF Init
    <2>3. rows \in Rows /\ byNumber \in Rows /\ latest \in Entry /\ current \in Contents
      BY Zeros DEF Init
    <2>4. /\ told \in [Versions -> Nat] /\ removed \in [Versions -> Nat]
          /\ dirty \in BOOLEAN /\ tidy \in BOOLEAN
      BY DEF Init
    <2>5. contents \in 0..made /\ made \in 0..MaxRequests /\ faults \in 0..MaxFaults
      BY MetadataAssumption DEF Init
    <2> QED
      BY <2>1, <2>2, <2>3, <2>4, <2>5 DEF Sound, TypeOK
  <1> QED
    BY <1>1, StepSound, PTL DEF Spec

\* Every variable keeps its type: a store never gets a number below 1 or over the bound, and the
\* cache never holds more than one page (metadata.service.ts: storeCustomMetadata).
THEOREM TypeCorrect == Spec => []TypeOK
  <1>1. Sound => TypeOK
    BY DEF Sound
  <1> QED
    BY <1>1, AlwaysSound, PTL

-----------------------------------------------------------------------------
(* A version is told once                                                  *)

\* A store that has its row and is not answered, and the row a version has.
Pending(v) == {r \in Requests : /\ req[r].op = "store" /\ req[r].pc \in {"project", "clear"}
                                /\ req[r].version = v}
Rowed(v) == IF rows[v] = 0 THEN 0 ELSE 1

\* Every answer, given or to come, is for a row that is there or was deleted.
Owed == \A v \in Versions : told[v] + Cardinality(Pending(v)) <= removed[v] + Rowed(v)

\* How the number of pending stores changes with the set.
LEMMA Counting ==
  ASSUME NEW A \in SUBSET Requests, NEW B \in SUBSET Requests
  PROVE  /\ Cardinality(A) \in Nat /\ Cardinality(B) \in Nat
         /\ A \subseteq B => Cardinality(A) <= Cardinality(B)
         /\ \A r : A = B \cup {r} => Cardinality(A) <= Cardinality(B) + 1
         /\ \A r : r \in B /\ A = B \ {r} => Cardinality(A) = Cardinality(B) - 1
  <1>1. IsFiniteSet(A) /\ IsFiniteSet(B)
    BY FS_Subset, MetadataAssumption
  <1>2. Cardinality(A) \in Nat /\ Cardinality(B) \in Nat
    BY <1>1, FS_CardinalityType
  <1>3. A \subseteq B => Cardinality(A) <= Cardinality(B)
    BY <1>1, FS_Subset
  <1>4. ASSUME NEW r, A = B \cup {r} PROVE Cardinality(A) <= Cardinality(B) + 1
    <2>1. Cardinality(B \cup {r}) = IF r \in B THEN Cardinality(B) ELSE Cardinality(B) + 1
      BY <1>1, FS_AddElement
    <2> QED
      BY <1>2, <1>4, <2>1
  <1>5. ASSUME NEW r, r \in B, A = B \ {r} PROVE Cardinality(A) = Cardinality(B) - 1
    <2>1. Cardinality(B \ {r}) = IF r \in B THEN Cardinality(B) - 1 ELSE Cardinality(B)
      BY <1>1, FS_RemoveElement
    <2> QED
      BY <1>5, <2>1
  <1> QED
    BY <1>2, <1>3, <1>4, <1>5

\* A step that tells nothing and leaves no new store pending keeps the account.
LEMMA OwedLess ==
  ASSUME Sound, Owed, NEW v \in Versions, told'[v] = told[v], removed'[v] = removed[v],
         Rowed(v)' = Rowed(v), Pending(v)' \subseteq Pending(v)
  PROVE  told'[v] + Cardinality(Pending(v)') <= removed'[v] + Rowed(v)'
  <1>1. Pending(v) \in SUBSET Requests /\ Pending(v)' \in SUBSET Requests
    BY DEF Pending
  <1>2. PICK m \in Nat : m = Cardinality(Pending(v))
    BY <1>1, Counting
  <1>3. PICK n \in Nat : n = Cardinality(Pending(v)') /\ n <= m
    BY <1>1, <1>2, Counting
  <1>4. told[v] \in Nat /\ removed[v] \in Nat /\ Rowed(v) \in Nat
    BY DEF Sound, TypeOK, Rowed
  <1>5. told[v] + m <= removed[v] + Rowed(v)
    BY <1>2 DEF Owed
  <1> QED
    BY <1>3, <1>4, <1>5

\* A request that becomes idle is pending no more.
LEMMA PendingLess ==
  ASSUME Sound, NEW r \in Requests, NEW x \in Request, FitRequest(x), Moves(r, x),
         x.pc \in {"project", "clear"} => x.op = "delete"
  PROVE  \A v \in Versions : Pending(v)' \subseteq Pending(v)
  <1>1. req'[r] = x /\ \A q \in Requests \ {r} : req'[q] = req[q]
    BY MoveSound
  <1> QED
    BY <1>1 DEF Pending

\* Creating a row owes an answer for it.
LEMMA CreateOwed ==
  ASSUME Sound, Owed, NEW r \in Requests, Create(r)
  PROVE  Owed'
  <1>1. told' = told /\ removed' = removed
    BY DEF Create, answers
  <1>2. CASE rows[req[r].version] # 0
    <2>1. Moves(r, Idle) /\ rows' = rows
      BY <1>2 DEF Create, End, Moves
    <2>2. \A v \in Versions : Pending(v)' \subseteq Pending(v)
      BY <2>1, Zeros, PendingLess
    <2>3. ASSUME NEW v \in Versions
          PROVE  told'[v] + Cardinality(Pending(v)') <= removed'[v] + Rowed(v)'
      BY <1>1, <2>1, <2>2, OwedLess DEF Rowed
    <2> QED
      BY <2>3 DEF Owed
  <1>3. CASE rows[req[r].version] = 0
    <2>1. PICK x \in Request : /\ FitRequest(x) /\ Wrote(r, x, TRUE) /\ Onward(r, x)
                               /\ x.pc = "project"
      BY <1>3, Writers
    <2>2. req'[r] = x /\ \A q \in Requests \ {r} : Overtakes(q, TRUE)
      BY <2>1, WroteSound
    <2>3. PICK w \in Versions : w = req[r].version
      BY DEF Create, At, Sound, FitRequest
    <2>4. /\ req[r].op = "store" /\ req[r].pc = "create"
          /\ rows' = [rows EXCEPT ![w] = req[r].content] /\ req[r].content # 0 /\ rows \in Rows
      BY <1>3, <2>3 DEF Create, At, Sound, TypeOK, FitRequest
    <2>5. ASSUME NEW v \in Versions
          PROVE  told'[v] + Cardinality(Pending(v)') <= removed'[v] + Rowed(v)'
      <3>1. CASE v = w
        <4>1. Pending(v)' = Pending(v) \cup {r}
          BY <2>1, <2>2, <2>3, <2>4, <3>1 DEF Pending, Overtakes, Onward
        <4>2. Rowed(v) = 0 /\ Rowed(v)' = 1
          BY <1>3, <2>3, <2>4, <3>1 DEF Rowed, Rows
        <4>3. Pending(v) \in SUBSET Requests /\ Pending(v)' \in SUBSET Requests
          BY DEF Pending
        <4>4. PICK m \in Nat : m = Cardinality(Pending(v))
          BY <4>3, Counting
        <4>5. PICK n \in Nat : n = Cardinality(Pending(v)') /\ n <= m + 1
          BY <4>1, <4>3, <4>4, Counting
        <4>6. told[v] \in Nat /\ removed[v] \in Nat /\ told[v] + m <= removed[v] + Rowed(v)
          BY <4>4 DEF Sound, TypeOK, Owed
        <4> QED
          BY <1>1, <4>2, <4>5, <4>6
      <3>2. CASE v # w
        <4>1. Pending(v)' \subseteq Pending(v)
          BY <2>1, <2>2, <2>3, <3>2 DEF Pending, Overtakes, Onward
        <4>2. Rowed(v)' = Rowed(v)
          BY <2>4, <3>2 DEF Rowed, Rows
        <4> QED
          BY <1>1, <4>1, <4>2, OwedLess
      <3> QED
        BY <3>1, <3>2
    <2> QED
      BY <2>5 DEF Owed
  <1> QED
    BY <1>2, <1>3

\* Removing a row moves its answer to the deletions.
LEMMA RemoveOwed ==
  ASSUME Sound, Owed, NEW r \in Requests, Remove(r)
  PROVE  Owed'
  <1>1. told' = told
    BY DEF Remove
  <1>2. CASE rows[req[r].version] = 0
    <2>1. Moves(r, Idle) /\ rows' = rows /\ removed' = removed
      BY <1>2 DEF Remove, End, Moves
    <2>2. \A v \in Versions : Pending(v)' \subseteq Pending(v)
      BY <2>1, Zeros, PendingLess
    <2>3. ASSUME NEW v \in Versions
          PROVE  told'[v] + Cardinality(Pending(v)') <= removed'[v] + Rowed(v)'
      BY <1>1, <2>1, <2>2, OwedLess DEF Rowed
    <2> QED
      BY <2>3 DEF Owed
  <1>3. CASE rows[req[r].version] # 0
    <2>1. PICK x \in Request : /\ FitRequest(x) /\ Wrote(r, x, TRUE) /\ Onward(r, x)
                               /\ x.pc = "newest"
      BY <1>3, Writers
    <2>2. req'[r] = x /\ \A q \in Requests \ {r} : Overtakes(q, TRUE)
      BY <2>1, WroteSound
    <2>3. PICK w \in Versions : w = req[r].version
      BY DEF Remove, At, Sound, FitRequest
    <2>4. /\ rows' = [rows EXCEPT ![w] = 0] /\ rows \in Rows
          /\ removed' = [removed EXCEPT ![w] = removed[w] + 1] /\ removed \in [Versions -> Nat]
      BY <1>3, <2>3 DEF Remove, Sound, TypeOK
    <2>5. ASSUME NEW v \in Versions
          PROVE  told'[v] + Cardinality(Pending(v)') <= removed'[v] + Rowed(v)'
      <3>1. Pending(v)' \subseteq Pending(v)
        BY <2>1, <2>2 DEF Pending, Overtakes
      <3>2. CASE v = w
        <4>1. Rowed(v) = 1 /\ Rowed(v)' = 0 /\ removed'[v] = removed[v] + 1
          BY <1>3, <2>3, <2>4, <3>2 DEF Rowed, Rows
        <4>2. Pending(v) \in SUBSET Requests /\ Pending(v)' \in SUBSET Requests
          BY DEF Pending
        <4>3. PICK m \in Nat : m = Cardinality(Pending(v))
          BY <4>2, Counting
        <4>4. PICK n \in Nat : n = Cardinality(Pending(v)') /\ n <= m
          BY <3>1, <4>2, <4>3, Counting
        <4>5. told[v] \in Nat /\ removed[v] \in Nat /\ told[v] + m <= removed[v] + Rowed(v)
          BY <4>3 DEF Sound, TypeOK, Owed
        <4> QED
          BY <1>1, <4>1, <4>4, <4>5
      <3>3. CASE v # w
        <4>1. Rowed(v)' = Rowed(v) /\ removed'[v] = removed[v]
          BY <2>4, <3>3 DEF Rowed, Rows
        <4> QED
          BY <1>1, <3>1, <4>1, OwedLess
      <3> QED
        BY <3>2, <3>3
    <2> QED
      BY <2>5 DEF Owed
  <1> QED
    BY <1>2, <1>3

\* Clearing the cache gives the answer that was owed.
LEMMA ClearOwed ==
  ASSUME Sound, Owed, NEW r \in Requests, ClearCache(r)
  PROVE  Owed'
  <1>1. Moves(r, Idle) /\ rows' = rows /\ removed' = removed
    BY DEF ClearCache, End, Moves, tables
  <1>2. \A v \in Versions : Pending(v)' \subseteq Pending(v)
    BY <1>1, Zeros, PendingLess
  <1>3. \A v \in Versions : Rowed(v)' = Rowed(v)
    BY <1>1 DEF Rowed
  <1>4. CASE req[r].op # "store"
    <2>1. told' = told
      BY <1>4 DEF ClearCache
    <2>2. ASSUME NEW v \in Versions
          PROVE  told'[v] + Cardinality(Pending(v)') <= removed'[v] + Rowed(v)'
      BY <1>1, <1>2, <1>3, <2>1, OwedLess
    <2> QED
      BY <2>2 DEF Owed
  <1>5. CASE req[r].op = "store"
    <2>1. PICK w \in Versions : w = req[r].version
      BY <1>5 DEF ClearCache, Sound, FitRequest
    <2>2. told' = [told EXCEPT ![w] = told[w] + 1] /\ told \in [Versions -> Nat]
      BY <1>5, <2>1 DEF ClearCache, Sound, TypeOK
    <2>3. req'[r] = Idle /\ \A q \in Requests \ {r} : req'[q] = req[q]
      BY <1>1, Zeros, MoveSound
    <2>4. ASSUME NEW v \in Versions
          PROVE  told'[v] + Cardinality(Pending(v)') <= removed'[v] + Rowed(v)'
      <3>1. CASE v = w
        <4>1. r \in Pending(v) /\ Pending(v)' = Pending(v) \ {r}
          BY <1>5, <2>1, <2>3, <3>1, Zeros DEF Pending, ClearCache
        <4>2. Pending(v) \in SUBSET Requests /\ Pending(v)' \in SUBSET Requests
          BY DEF Pending
        <4>3. PICK m \in Nat : m = Cardinality(Pending(v))
          BY <4>2, Counting
        <4>4. PICK n \in Nat : n = Cardinality(Pending(v)') /\ n = m - 1
          BY <4>1, <4>2, <4>3, Counting
        <4>5. /\ told[v] \in Nat /\ removed[v] \in Nat /\ Rowed(v) \in Nat
              /\ told[v] + m <= removed[v] + Rowed(v) /\ told'[v] = told[v] + 1
          BY <2>2, <3>1, <4>3 DEF Sound, TypeOK, Owed, Rowed
        <4> QED
          BY <1>1, <1>3, <4>4, <4>5
      <3>2. CASE v # w
        <4>1. told'[v] = told[v]
          BY <2>2, <3>2
        <4> QED
          BY <1>1, <1>2, <1>3, <4>1, OwedLess
      <3> QED
        BY <3>1, <3>2
    <2> QED
      BY <2>4 DEF Owed
  <1> QED
    BY <1>4, <1>5

\* Every step keeps the account.
LEMMA OwedStays == Sound /\ Owed /\ [Next]_vars => Owed'
  <1> SUFFICES ASSUME Sound, Owed, [Next]_vars PROVE Owed'
    OBVIOUS
  <1>1. ASSUME NEW r \in Requests, Calmly(r) PROVE Owed'
    <2>1. Quiet /\ \E x \in Request : FitRequest(x) /\ Moves(r, x) /\ Calm(x)
      BY <1>1, QuietSteps DEF Calmly
    <2>2. \A v \in Versions : Pending(v)' \subseteq Pending(v)
      <3>1. PICK x \in Request : FitRequest(x) /\ Moves(r, x) /\ Calm(x)
        BY <2>1
      <3>2. x.pc \in {"project", "clear"} => x.op = "delete"
        BY <3>1 DEF Calm
      <3> QED
        BY <3>1, <3>2, PendingLess
    <2>3. ASSUME NEW v \in Versions
          PROVE  told'[v] + Cardinality(Pending(v)') <= removed'[v] + Rowed(v)'
      BY <2>1, <2>2, OwedLess DEF Quiet, Rowed
    <2> QED
      BY <2>3 DEF Owed
  <1>2. ASSUME NEW r \in Requests, UpdateProject(r) PROVE Owed'
    <2>1. PICK x \in Request : /\ FitRequest(x) /\ Wrote(r, x, FALSE) /\ Onward(r, x)
                               /\ x.pc = "clear"
      BY <1>2, Writers
    <2>2. req'[r] = x /\ \A q \in Requests \ {r} : Overtakes(q, FALSE)
      BY <2>1, WroteSound
    <2>3. req[r].pc = "project" /\ UNCHANGED <<rows, told, removed>>
      BY <1>2 DEF UpdateProject, answers
    <2>4. ASSUME NEW v \in Versions
          PROVE  told'[v] + Cardinality(Pending(v)') <= removed'[v] + Rowed(v)'
      <3>1. Pending(v)' \subseteq Pending(v)
        BY <2>1, <2>2, <2>3 DEF Pending, Overtakes, Onward
      <3> QED
        BY <2>3, <3>1, OwedLess DEF Rowed
    <2> QED
      BY <2>4 DEF Owed
  <1>3. ASSUME Expire \/ UNCHANGED vars PROVE Owed'
    <2>1. Quiet /\ req' = req
      BY <1>3, Expires
    <2> QED
      BY <2>1 DEF Owed, Pending, Rowed, Quiet
  <1>4. ASSUME NEW c \in {0, Portfolio}, Sync(c) PROVE Owed'
    <2>1. /\ UNCHANGED <<rows, told, removed>>
          /\ \A q \in Requests : /\ req'[q].pc = req[q].pc /\ req'[q].op = req[q].op
                                 /\ req'[q].version = req[q].version
      BY <1>4, Syncs
    <2>2. ASSUME NEW v \in Versions
          PROVE  told'[v] + Cardinality(Pending(v)') <= removed'[v] + Rowed(v)'
      <3>1. Pending(v)' \subseteq Pending(v)
        BY <2>1 DEF Pending
      <3> QED
        BY <2>1, <3>1, OwedLess DEF Rowed
    <2> QED
      BY <2>2 DEF Owed
  <1> QED
    BY <1>1, <1>2, <1>3, <1>4, StepCases, CreateOwed, ClearOwed, RemoveOwed

\* However the computing of the next number and its insertion interleave, one store is told that
\* it has a version, until a deletion frees its number (metadata.service.ts: storeCustomMetadata).
THEOREM AlwaysVersionToldOnce == Spec => []VersionToldOnce
  <1>1. Init => Owed
    <2> SUFFICES ASSUME Init PROVE Owed
      OBVIOUS
    <2>1. ASSUME NEW v \in Versions
          PROVE  told[v] + Cardinality(Pending(v)) <= removed[v] + Rowed(v)
      <3>1. Pending(v) = {}
        BY Zeros DEF Init, Pending
      <3>2. Cardinality({}) = 0
        BY FS_EmptySet
      <3> QED
        BY <3>1, <3>2 DEF Init, Rowed, Empty
    <2> QED
      BY <2>1 DEF Owed
  <1>2. Sound /\ Owed => VersionToldOnce
    <2> SUFFICES ASSUME Sound, Owed, NEW v \in Versions PROVE told[v] <= removed[v] + 1
      BY DEF VersionToldOnce
    <2>1. Pending(v) \in SUBSET Requests
      BY DEF Pending
    <2>2. PICK m \in Nat : m = Cardinality(Pending(v))
      BY <2>1, Counting
    <2>3. /\ told[v] \in Nat /\ removed[v] \in Nat /\ Rowed(v) \in {0, 1}
          /\ told[v] + m <= removed[v] + Rowed(v)
      BY <2>2 DEF Sound, TypeOK, Owed, Rowed
    <2> QED
      BY <2>3
  <1> QED
    BY <1>1, <1>2, OwedStays, AlwaysSound, PTL DEF Spec

-----------------------------------------------------------------------------
(* The project's copy                                                      *)

\* What a request that nobody overtook has still to write, or has written.
Faithful(r) ==
  req[r].alone =>
    /\ req[r].op = "store" /\ req[r].pc \in {"project", "clear"}
         => rows[req[r].version] = req[r].content
    /\ req[r].op = "delete" /\ req[r].pc \in {"project", "clear"}
         => req[r].content = ContentOf(rows, Newest(rows))
    /\ req[r].pc = "clear" => current = req[r].content

Copied == CurrentIsLatest /\ \A r \in Requests : Faithful(r)

\* A request that writes no table keeps the copy.
LEMMA CalmCopied ==
  ASSUME Sound, Copied, Quiet, tidy' = tidy,
         NEW r \in Requests, NEW x \in Request, FitRequest(x), Calm(x), Moves(r, x)
  PROVE  Copied'
  <1>1. req'[r] = x /\ \A q \in Requests \ {r} : req'[q] = req[q]
    BY MoveSound
  <1>2. rows' = rows /\ current' = current
    BY DEF Quiet
  <1>3. Faithful(r)'
    BY <1>1, <1>2 DEF Faithful, Calm
  <1>4. \A q \in Requests \ {r} : Faithful(q)'
    BY <1>1, <1>2 DEF Copied, Faithful
  <1>5. CurrentIsLatest'
    BY <1>2 DEF Copied, CurrentIsLatest
  <1> QED
    BY <1>3, <1>4, <1>5 DEF Copied

\* A request that writes overtakes the others, and leaves the copy unsettled.
LEMMA WriterCopied ==
  ASSUME Sound, tidy' = FALSE, NEW r \in Requests, Faithful(r)',
         \A q \in Requests \ {r} : \E b \in BOOLEAN : Overtakes(q, b)
  PROVE  Copied'
  <1>1. ASSUME NEW q \in Requests \ {r} PROVE Faithful(q)'
    <2>1. req'[q].pc = req[q].pc /\ (req[q].pc # "idle" => ~req'[q].alone)
      BY <1>1 DEF Overtakes
    <2>2. CASE req[q].pc = "idle"
      <3>1. req'[q].pc = "idle"
        BY <2>1, <2>2
      <3> QED
        BY <3>1 DEF Faithful
    <2>3. CASE req[q].pc # "idle"
      BY <2>1, <2>3 DEF Faithful
    <2> QED
      BY <2>2, <2>3
  <1> QED
    BY <1>1 DEF Copied, CurrentIsLatest

\* Every step keeps the copy, or leaves it unsettled.
LEMMA CopiedStays == Sound /\ Copied /\ [Next]_vars => Copied'
  <1> SUFFICES ASSUME Sound, Copied, [Next]_vars PROVE Copied'
    OBVIOUS
  <1>1. ASSUME NEW r \in Requests, Calmly(r) PROVE Copied'
    <2>1. /\ Quiet /\ tidy' = tidy
          /\ \E x \in Request : FitRequest(x) /\ Moves(r, x) /\ Calm(x)
      BY <1>1, QuietSteps DEF Calmly
    <2> QED
      BY <2>1, CalmCopied
  <1>2. ASSUME NEW r \in Requests, Moves(r, Idle), Quiet, tidy' = tidy PROVE Copied'
    <2>1. Calm(Idle)
      BY Zeros DEF Calm
    <2> QED
      BY <1>2, <2>1, Zeros, CalmCopied
  <1>3. ASSUME NEW r \in Requests, Create(r) PROVE Copied'
    <2>1. CASE rows[req[r].version] # 0
      BY <1>2, <1>3, <2>1 DEF Create, End, Moves, Quiet, answers
    <2>2. CASE rows[req[r].version] = 0
      <3>1. PICK x \in Request : /\ FitRequest(x) /\ Wrote(r, x, TRUE) /\ Onward(r, x)
                                 /\ x.pc = "project"
        BY <1>3, <2>2, Writers
      <3>2. req'[r] = x /\ \A q \in Requests \ {r} : Overtakes(q, TRUE)
        BY <3>1, WroteSound
      <3>3. /\ req[r].op = "store" /\ req[r].version \in Versions /\ rows \in Rows
            /\ rows' = [rows EXCEPT ![req[r].version] = req[r].content] /\ tidy' = FALSE
        BY <1>3, <2>2 DEF Create, At, Sound, TypeOK, FitRequest
      <3>4. rows'[x.version] = x.content /\ x.op = "store"
        BY <3>1, <3>3 DEF Onward, Rows
      <3>5. Faithful(r)'
        BY <3>1, <3>2, <3>4 DEF Faithful
      <3> QED
        BY <3>2, <3>3, <3>5, WriterCopied
    <2> QED
      BY <2>1, <2>2
  <1>4. ASSUME NEW r \in Requests, Remove(r) PROVE Copied'
    <2>1. CASE rows[req[r].version] = 0
      BY <1>2, <1>4, <2>1 DEF Remove, End, Moves, Quiet
    <2>2. CASE rows[req[r].version] # 0
      <3>1. PICK x \in Request : /\ FitRequest(x) /\ Wrote(r, x, TRUE) /\ x.pc = "newest"
        BY <1>4, <2>2, Writers
      <3>2. req'[r] = x /\ \A q \in Requests \ {r} : Overtakes(q, TRUE)
        BY <3>1, WroteSound
      <3>3. tidy' = FALSE
        BY <1>4, <2>2 DEF Remove
      <3>4. Faithful(r)'
        BY <3>1, <3>2 DEF Faithful
      <3> QED
        BY <3>2, <3>3, <3>4, WriterCopied
    <2> QED
      BY <2>1, <2>2
  <1>5. ASSUME NEW r \in Requests, UpdateProject(r) PROVE Copied'
    <2>1. PICK x \in Request : /\ FitRequest(x) /\ Wrote(r, x, FALSE) /\ Onward(r, x)
                               /\ x.pc = "clear"
      BY <1>5, Writers
    <2>2. req'[r] = x /\ \A q \in Requests \ {r} : Overtakes(q, FALSE)
      BY <2>1, WroteSound
    <2>3. /\ req[r].op \in {"store", "delete"} /\ req[r].pc = "project"
          /\ rows' = rows /\ current' = req[r].content /\ tidy' = FALSE
      BY <1>5 DEF UpdateProject
    <2>4. Faithful(r)
      BY DEF Copied
    <2>5. Faithful(r)'
      BY <2>1, <2>2, <2>3, <2>4 DEF Faithful, Onward
    <2> QED
      BY <2>2, <2>3, <2>5, WriterCopied
  <1>6. ASSUME NEW r \in Requests, ClearCache(r) PROVE Copied'
    <2>1. req'[r] = Idle /\ \A q \in Requests \ {r} : req'[q] = req[q]
      BY <1>6, Zeros, MoveSound DEF ClearCache, End, Moves
    <2>2. /\ rows' = rows /\ current' = current /\ req[r].op \in {"store", "delete"}
          /\ req[r].pc = "clear"
          /\ tidy' = (req[r].alone /\ (req[r].op = "store" => req[r].version = Newest(rows)))
      BY <1>6 DEF ClearCache, tables
    <2>3. ASSUME tidy' PROVE current = ContentOf(rows, Newest(rows))
      <3>1. req[r].alone /\ (req[r].op = "store" => req[r].version = Newest(rows)) /\ Faithful(r)
        BY <2>2, <2>3 DEF Copied
      <3>2. current = req[r].content
        BY <2>2, <3>1 DEF Faithful
      <3>3. CASE req[r].op = "store"
        <4>1. req[r].version \in Versions /\ req[r].version # 0
          BY <2>2, <3>3, Zeros DEF Sound, FitRequest
        <4>2. rows[req[r].version] = req[r].content
          BY <2>2, <3>1, <3>3 DEF Faithful
        <4> QED
          BY <3>1, <3>2, <3>3, <4>1, <4>2 DEF ContentOf
      <3>4. CASE req[r].op = "delete"
        BY <2>2, <3>1, <3>2, <3>4 DEF Faithful
      <3> QED
        BY <2>2, <3>3, <3>4
    <2>4. CurrentIsLatest'
      BY <2>2, <2>3 DEF CurrentIsLatest
    <2>5. Faithful(r)'
      BY <2>1, Zeros DEF Faithful
    <2>6. \A q \in Requests \ {r} : Faithful(q)'
      BY <2>1, <2>2 DEF Copied, Faithful
    <2> QED
      BY <2>4, <2>5, <2>6 DEF Copied
  <1>7. ASSUME Expire \/ UNCHANGED vars PROVE Copied'
    <2>1. Quiet /\ req' = req /\ tidy' = tidy
      BY <1>7, Expires
    <2> QED
      BY <2>1 DEF Copied, CurrentIsLatest, Faithful, Quiet
  <1>8. ASSUME NEW c \in {0, Portfolio}, Sync(c) PROVE Copied'
    <2>1. /\ tidy' = FALSE /\ rows' = rows
          /\ \A q \in Requests : /\ req'[q].pc = req[q].pc /\ req'[q].op = req[q].op
                                 /\ req'[q].version = req[q].version
                                 /\ req'[q].content = req[q].content
                                 /\ req'[q].alone => req[q].alone /\ req[q].pc # "clear"
      BY <1>8, Syncs
    <2>2. ASSUME NEW q \in Requests PROVE Faithful(q)'
      BY <2>1 DEF Copied, Faithful
    <2> QED
      BY <2>1, <2>2 DEF Copied, CurrentIsLatest
  <1> QED
    BY <1>1, <1>3, <1>4, <1>5, <1>6, <1>7, <1>8, StepCases

\* A change that runs alone and writes the newest version leaves the project's customMetadata with
\* the latest version's content, until another change or a sync from GitHub writes it
\* (metadata.service.ts: storeCustomMetadata, deleteMetadataVersion; projects.service.ts:
\* syncProjectFromGitHub).
THEOREM AlwaysCurrentIsLatest == Spec => []CurrentIsLatest
  <1>1. Init => Copied
    <2> SUFFICES ASSUME Init PROVE Copied
      OBVIOUS
    <2>1. Newest(Empty) = 0
      BY NewestType, Zeros
    <2> QED
      BY <2>1, Zeros DEF Init, Copied, CurrentIsLatest, Faithful, ContentOf
  <1>2. Copied => CurrentIsLatest
    BY DEF Copied
  <1> QED
    BY <1>1, <1>2, CopiedStays, AlwaysSound, PTL DEF Spec

-----------------------------------------------------------------------------
(* The cached latest version                                               *)

\* What a request is about to cache is what is stored, unless it is marked as outdated.
ReadsTrue == \A r \in Requests : req[r].pc = "fill" /\ ~req[r].outdated => req[r].found = rows

Cached == ReadsTrue /\ LatestIsFresh

\* A request that writes no table marks what it leaves half-done, and what it caches it has read.
LEMMA CalmMarks ==
  ASSUME Sound, NEW r \in Requests, Calmly(r)
  PROVE  /\ dirty => dirty'
         /\ req[r].pc \in HalfDone => dirty' \/ req'[r].pc \in HalfDone
         /\ \/ latest' = latest
            \/ /\ req[r].pc = "fill"
               /\ latest' = [version |-> Newest(req[r].found),
                             content |-> ContentOf(req[r].found, Newest(req[r].found)),
                             outdated |-> req[r].outdated]
  <1>1. dirty => dirty'
    BY DEF Calmly, Store, Get, Delete, GetPage, ReadNext, ReadNewest, Query, Fill, Fail
  <1>2. ASSUME req[r].pc \in HalfDone PROVE dirty' \/ req'[r].pc \in HalfDone
    <2>1. ReadNewest(r) \/ Fail(r)
      BY <1>2 DEF Calmly, Store, Get, Delete, GetPage, ReadNext, Query, Fill, Start, At, HalfDone
    <2>2. CASE ReadNewest(r)
      <3>1. PICK x \in Request : FitRequest(x) /\ Moves(r, x) /\ x.pc = "project"
        BY <2>2, Readers
      <3>2. req'[r] = x
        BY <3>1, MoveSound
      <3> QED
        BY <3>1, <3>2 DEF HalfDone
    <2>3. CASE Fail(r)
      BY <1>2, <2>3 DEF Fail
    <2> QED
      BY <2>1, <2>2, <2>3
  <1>3. CASE Fill(r)
    BY <1>1, <1>2, <1>3 DEF Fill
  <1>4. CASE ~Fill(r)
    <2>1. latest' = latest
      BY <1>4 DEF Calmly, Store, Get, Delete, GetPage, ReadNext, ReadNewest, Query, Fail, caches
    <2> QED
      BY <1>1, <1>2, <2>1
  <1> QED
    BY <1>3, <1>4

\* While a change is under way the entry need not be the latest.
LEMMA ChangingCached ==
  ASSUME Sound, ReadsTrue, NEW r \in Requests, req'[r].pc \in HalfDone,
         NEW b \in BOOLEAN, b \/ rows' = rows,
         \A q \in Requests \ {r} : Overtakes(q, b)
  PROVE  Cached'
  <1>1. LatestIsFresh'
    BY DEF LatestIsFresh
  <1>2. ASSUME NEW q \in Requests, req'[q].pc = "fill", ~req'[q].outdated
        PROVE  req'[q].found = rows'
    <2>1. q # r
      BY <1>2 DEF HalfDone
    <2>2. /\ req[q].pc = "fill" /\ req'[q].found = req[q].found
          /\ ~req[q].outdated /\ ~b
      BY <1>2, <2>1 DEF Overtakes
    <2> QED
      BY <2>2 DEF ReadsTrue
  <1> QED
    BY <1>1, <1>2 DEF Cached, ReadsTrue

\* A request that ends without a change keeps the entry.
LEMMA EndCached ==
  ASSUME Sound, Cached, NEW r \in Requests, req[r].pc \notin HalfDone, Moves(r, Idle),
         UNCHANGED <<rows, latest, dirty>>
  PROVE  Cached'
  <1>1. req'[r] = Idle /\ \A q \in Requests \ {r} : req'[q] = req[q]
    BY Zeros, MoveSound
  <1>2. ReadsTrue'
    BY <1>1, Zeros DEF Cached, ReadsTrue
  <1>3. LatestIsFresh'
    BY <1>1 DEF Cached, LatestIsFresh, LatestIsTrue
  <1> QED
    BY <1>2, <1>3 DEF Cached

\* Every step keeps the entry, or tells why it need not be the latest.
LEMMA CachedStays == Sound /\ Cached /\ [Next]_vars => Cached'
  <1> SUFFICES ASSUME Sound, Cached, [Next]_vars PROVE Cached'
    OBVIOUS
  <1>1. ASSUME NEW r \in Requests, Calmly(r) PROVE Cached'
    <2>1. rows' = rows /\ \E x \in Request : FitRequest(x) /\ Moves(r, x) /\ Calm(x)
      BY <1>1, QuietSteps DEF Calmly, Quiet
    <2>2. PICK x \in Request : FitRequest(x) /\ Moves(r, x) /\ Calm(x)
      BY <2>1
    <2>3. req'[r] = x /\ \A q \in Requests \ {r} : req'[q] = req[q]
      BY <2>2, MoveSound
    <2>4. ReadsTrue'
      BY <2>1, <2>2, <2>3 DEF Cached, ReadsTrue, Calm
    <2>5. /\ dirty => dirty'
          /\ req[r].pc \in HalfDone => dirty' \/ req'[r].pc \in HalfDone
      BY <1>1, CalmMarks
    <2>6. CASE latest' = latest
      <3>1. ASSUME ~dirty', \A q \in Requests : req'[q].pc \notin HalfDone
            PROVE  ~dirty /\ \A q \in Requests : req[q].pc \notin HalfDone
        BY <2>3, <2>5, <3>1
      <3>2. LatestIsFresh'
        BY <2>1, <2>6, <3>1 DEF Cached, LatestIsFresh, LatestIsTrue
      <3> QED
        BY <2>4, <3>2 DEF Cached
    <2>7. CASE latest' # latest
      <3>1. /\ req[r].pc = "fill"
            /\ latest' = [version |-> Newest(req[r].found),
                          content |-> ContentOf(req[r].found, Newest(req[r].found)),
                          outdated |-> req[r].outdated]
        BY <1>1, <2>7, CalmMarks
      <3>2. ~latest'.outdated => req[r].found = rows
        BY <3>1 DEF Cached, ReadsTrue
      <3>3. ~latest'.outdated => LatestIsTrue'
        BY <2>1, <3>1, <3>2 DEF LatestIsTrue
      <3> QED
        BY <2>4, <3>3 DEF Cached, LatestIsFresh
    <2> QED
      BY <2>6, <2>7
  <1>2. ASSUME NEW r \in Requests, Create(r) PROVE Cached'
    <2>1. CASE rows[req[r].version] # 0
      BY <1>2, <2>1, EndCached DEF Create, At, HalfDone, End, Moves, caches
    <2>2. CASE rows[req[r].version] = 0
      <3>1. PICK x \in Request : FitRequest(x) /\ Wrote(r, x, TRUE) /\ x.pc = "project"
        BY <1>2, <2>2, Writers
      <3> QED
        BY <3>1, WroteSound, ChangingCached DEF Cached, HalfDone
    <2> QED
      BY <2>1, <2>2
  <1>3. ASSUME NEW r \in Requests, Remove(r) PROVE Cached'
    <2>1. CASE rows[req[r].version] = 0
      BY <1>3, <2>1, EndCached DEF Remove, At, HalfDone, End, Moves, caches
    <2>2. CASE rows[req[r].version] # 0
      <3>1. PICK x \in Request : FitRequest(x) /\ Wrote(r, x, TRUE) /\ x.pc = "newest"
        BY <1>3, <2>2, Writers
      <3> QED
        BY <3>1, WroteSound, ChangingCached DEF Cached, HalfDone
    <2> QED
      BY <2>1, <2>2
  <1>4. ASSUME NEW r \in Requests, UpdateProject(r) PROVE Cached'
    <2>1. PICK x \in Request : FitRequest(x) /\ Wrote(r, x, FALSE) /\ x.pc = "clear"
      BY <1>4, Writers
    <2>2. rows' = rows
      BY <1>4 DEF UpdateProject
    <2> QED
      BY <2>1, <2>2, WroteSound, ChangingCached DEF Cached, HalfDone
  <1>5. ASSUME NEW r \in Requests, ClearCache(r) PROVE Cached'
    <2>1. latest' = NoEntry /\ rows' = rows /\ Moves(r, Idle)
      BY <1>5 DEF ClearCache, tables, End, Moves
    <2>2. req'[r] = Idle /\ \A q \in Requests \ {r} : req'[q] = req[q]
      BY <2>1, Zeros, MoveSound
    <2> QED
      BY <2>1, <2>2, Zeros DEF Cached, ReadsTrue, LatestIsFresh
  <1>6. ASSUME Expire \/ UNCHANGED vars PROVE Cached'
    <2>1. /\ rows' = rows /\ req' = req /\ dirty' = dirty
          /\ latest' = latest \/ latest' = NoEntry
      BY <1>6, Expires DEF Quiet
    <2> QED
      BY <2>1 DEF Cached, ReadsTrue, LatestIsFresh, LatestIsTrue
  <1>7. ASSUME NEW c \in {0, Portfolio}, Sync(c) PROVE Cached'
    <2>1. /\ UNCHANGED <<rows, latest, dirty>>
          /\ \A q \in Requests : /\ req'[q].pc = req[q].pc /\ req'[q].found = req[q].found
                                 /\ req'[q].outdated = req[q].outdated
      BY <1>7, Syncs
    <2> QED
      BY <2>1 DEF Cached, ReadsTrue, LatestIsFresh, LatestIsTrue
  <1> QED
    BY <1>1, <1>2, <1>3, <1>4, <1>5, <1>6, <1>7, StepCases

\* The cached latest version is the latest, unless the rows changed while the entry was being
\* filled, a change is under way or one failed before it cleared the cache (metadata.service.ts:
\* getCustomMetadata, clearMetadataCache).
THEOREM AlwaysLatestIsFresh == Spec => []LatestIsFresh
  <1>1. Init => Cached
    BY Zeros DEF Init, Cached, ReadsTrue, LatestIsFresh
  <1>2. Cached => LatestIsFresh
    BY DEF Cached
  <1> QED
    BY <1>1, <1>2, CachedStays, AlwaysSound, PTL DEF Spec
=============================================================================
