------------------------- MODULE SessionTokensProofs -------------------------
(* Theorems about SessionTokens, for every value of its constants.         *)
EXTENDS SessionTokens, FiniteSetTheorems, WellFoundedInduction, TLAPS

-----------------------------------------------------------------------------
(* Types                                                                   *)

\* The refresh and access tokens of a session are tokens, and it has one of the former.
LEMMA TokenTypes ==
  /\ \A s \in Sessions : RT(s) \in Token /\ RT(s) \in RefreshTokens /\ RT(s).sess = s
  /\ \A s \in Sessions, n \in Nat : AT(s, n) \in Token /\ AT(s, n).sess = s
  /\ RefreshTokens \subseteq Token
  /\ \A t \in Token : t.sess \in Sessions /\ (t.n = 0 <=> t = RT(t.sess))
  /\ \A t \in RefreshTokens : t.n = 0 /\ t = RT(t.sess)
  BY DEF RT, AT, Token, RefreshTokens

\* The empty run is well formed.
LEMMA IdleType == IdleRun \in Run /\ IdleRun.pc = "idle"
  <1>1. (CHOOSE s \in Sessions : TRUE) \in Sessions
    BY SessionsAssumption
  <1> QED BY <1>1, TokenTypes DEF IdleRun, Run, Ops, PCs

\* A run that goes on or ends stays well formed.
LEMMA GotoType ==
  ASSUME run \in [Requests -> Run], NEW r \in Requests, NEW pc \in PCs, Goto(r, pc) \/ End(r)
  PROVE  run' \in [Requests -> Run]
  BY IdleType DEF Goto, End, Run

\* What is left of a bound stays a natural number.
LEMMA SpendType ==
  ASSUME left \in Budget, NEW what \in {"requests", "faults", "expiries"}, Spend(what)
  PROVE  left' \in Budget
  BY DEF Spend, Budget

\* A request that starts with a well-formed run leaves the runs well formed.
LEMMA StartType ==
  ASSUME run \in [Requests -> Run], left \in Budget, NEW r \in Requests, NEW x \in Run,
         Start(r, x)
  PROVE  run' \in [Requests -> Run] /\ left' \in Budget
  BY SpendType DEF Start

\* The names of the program counters and of the operations.
LEMMA Names ==
  /\ PCs = {"idle", "trimDelete", "store", "burn", "sweep", "find", "use", "drop",
            "collect", "bar", "dropAll", "cleanList", "answer"}
  /\ Ops = {"none", "login", "magic", "refresh", "logout", "revokeAll", "clean"}
  BY DEF PCs, Ops

\* The rows that are too many are rows.
LEMMA OldType == Old \subseteq rows
  BY DEF Old

\* Every step keeps the types.
LEMMA StepType ==
  ASSUME TypeOK, Next
  PROVE  TypeOK'
  <1> USE DEF TypeOK
  <1>a. Clock \in Nat
    <2>1. IsFiniteSet({s \in Sessions : ~Unborn(s)})
      BY SessionsAssumption, FS_Subset
    <2> QED BY <2>1, FS_CardinalityType DEF Clock
  <1>b. ASSUME NEW r \in Requests PROVE run[r] \in Run
    OBVIOUS
  <1>1. ASSUME NEW r \in Requests, NEW s \in Sessions, Login(r, s) PROVE TypeOK'
    <2>1. [IdleRun EXCEPT !.op = "login", !.token = RT(s), !.todo = Old,
                          !.pc = IF Old = {} THEN "store" ELSE "trimDelete"] \in Run
      BY IdleType, TokenTypes, OldType, Names DEF Run
    <2> QED BY <1>1, <2>1, StartType DEF Login
  <1>2. ASSUME NEW r \in Requests, NEW s \in Sessions, NEW l \in Links, OpenLink(r, l, s)
        PROVE  TypeOK'
    <2>1. [IdleRun EXCEPT !.op = "magic", !.pc = "store", !.token = RT(s), !.link = l] \in Run
      BY IdleType, TokenTypes, Names DEF Run
    <2> QED BY <1>2, <2>1, StartType DEF OpenLink
  <1>3. ASSUME NEW r \in Requests, NEW t \in issued, Refresh(r, t) PROVE TypeOK'
    <2>1. [IdleRun EXCEPT !.op = "refresh", !.pc = "find", !.token = t] \in Run
      BY IdleType, Names DEF Run
    <2> QED BY <1>3, <2>1, StartType DEF Refresh
  <1>4. ASSUME NEW r \in Requests, NEW t \in issued, Logout(r, t) PROVE TypeOK'
    <2>1. [IdleRun EXCEPT !.op = "logout", !.token = t,
                          !.pc = IF t.n = 0 THEN "drop" ELSE "answer"] \in Run
      BY IdleType, Names DEF Run
    <2> QED BY <1>4, <2>1, StartType DEF Logout
  <1>5. ASSUME NEW r \in Requests, NEW t \in issued, RevokeAll(r, t) PROVE TypeOK'
    <2>1. [IdleRun EXCEPT !.op = "revokeAll", !.pc = "collect", !.token = t] \in Run
      BY IdleType, Names DEF Run
    <2> QED BY <1>5, <2>1, StartType DEF RevokeAll
  <1>6. ASSUME NEW r \in Requests, TrimDelete(r) PROVE TypeOK'
    <2>1. [run[r] EXCEPT !.pc = "store", !.todo = {}] \in Run
      BY <1>b, Names DEF Run
    <2> QED BY <1>6, <2>1 DEF TrimDelete
  <1>7. ASSUME NEW r \in Requests, Store(r) PROVE TypeOK'
    <2>1. run' \in [Requests -> Run]
      BY <1>7, GotoType, Names DEF Store
    <2>2. run[r].token \in Token /\ run[r].token.sess \in Sessions
      BY <1>b, TokenTypes DEF Run
    <2> QED BY <1>7, <1>a, <2>1, <2>2 DEF Store
  <1>8. ASSUME NEW r \in Requests, Burn(r) \/ Sweep(r) PROVE TypeOK'
    <2>1. run' \in [Requests -> Run]
      BY <1>8, GotoType, Names DEF Burn, Sweep
    <2>2. link' \in [Links -> LinkStates]
      BY <1>8 DEF Burn, Sweep, Swept, LinkStates
    <2> QED BY <1>8, <2>1, <2>2 DEF Burn, Sweep
  <1>9. ASSUME SweepLinks PROVE TypeOK'
    BY <1>9 DEF SweepLinks, Swept, LinkStates
  <1>10. ASSUME NEW r \in Requests, Find(r) \/ Drop(r) \/ Barred(r) \/ DropAll(r) PROVE TypeOK'
    <2>1. run' \in [Requests -> Run]
      BY <1>10, GotoType, Names DEF Find, Drop, Barred, DropAll
    <2> QED BY <1>10, <2>1 DEF Find, Drop, Barred, DropAll
  <1>11. ASSUME NEW r \in Requests, Use(r) PROVE TypeOK'
    <2>1. run[r].token.sess \in Sessions
      BY <1>b, TokenTypes DEF Run
    <2>2. AT(run[r].token.sess, granted[run[r].token.sess] + 2) \in Token
      BY <2>1, TokenTypes
    <2>3. [run[r] EXCEPT !.pc = "answer",
             !.token = AT(run[r].token.sess, granted[run[r].token.sess] + 2)] \in Run
      BY <1>b, <2>2, Names DEF Run
    <2>4. run' \in [Requests -> Run]
      <3>1. CASE run[r].token \in rows
        BY <1>11, <2>3, <3>1 DEF Use
      <3>2. CASE run[r].token \notin rows
        BY <1>11, <3>2, GotoType, Names DEF Use
      <3> QED BY <3>1, <3>2
    <2>5. granted' \in [Sessions -> Nat]
      BY <1>11, <2>1 DEF Use
    <2> QED BY <1>11, <2>4, <2>5 DEF Use
  <1>12. ASSUME NEW r \in Requests, Collect(r) PROVE TypeOK'
    <2>1. [run[r] EXCEPT !.pc = "bar", !.seen = rows \ expired, !.todo = rows \ expired] \in Run
      BY <1>b, Names DEF Run
    <2> QED BY <1>12, <2>1 DEF Collect
  <1>13. ASSUME NEW r \in Requests, Bar(r) PROVE TypeOK'
    <2>1. PICK t \in run[r].todo :
            /\ \/ run' = [run EXCEPT ![r].todo = @ \ {t}]
               \/ run' = [run EXCEPT ![r].todo = @ \ {t}, ![r].failed = TRUE]
            /\ blacklist' = blacklist \/ blacklist' = blacklist \cup {t}
            /\ left' = left \/ Spend("faults")
      BY <1>13 DEF Bar
    <2>2. /\ [run[r] EXCEPT !.todo = @ \ {t}] \in Run
          /\ [run[r] EXCEPT !.todo = @ \ {t}, !.failed = TRUE] \in Run
          /\ t \in Token
      <3>1. run[r].todo \subseteq Token
        BY <1>b DEF Run
      <3>2. run[r].todo \ {t} \in SUBSET Token
        BY <3>1
      <3> QED BY <1>b, <2>1, <3>1, <3>2 DEF Run
    <2>3. left' \in Budget
      BY <2>1, SpendType
    <2> QED BY <1>13, <2>1, <2>2, <2>3 DEF Bar
  <1>14. ASSUME NEW r \in Requests, Clean(r) PROVE TypeOK'
    <2>1. [IdleRun EXCEPT !.op = "clean", !.pc = "cleanList", !.seen = expired] \in Run
      BY IdleType, Names DEF Run
    <2> QED BY <1>14, <2>1, StartType DEF Clean
  <1>15. ASSUME NEW r \in Requests, CleanList(r) PROVE TypeOK'
    <2>1. run' \in [Requests -> Run]
      BY <1>15, GotoType, Names DEF CleanList
    <2> QED BY <1>15, <2>1 DEF CleanList
  <1>16. ASSUME NEW r \in Requests, Answer(r) PROVE TypeOK'
    <2>1. run[r].token \in Token /\ AT(run[r].token.sess, 1) \in Token /\ run[r].seen \subseteq Token
      BY <1>b, TokenTypes DEF Run
    <2>2. issued' \subseteq Token /\ confirmed' \subseteq Token
      BY <1>16, <2>1 DEF Answer
    <2>3. signIns' \in [Links -> Nat]
      <3>1. signIns' \in {signIns, [signIns EXCEPT ![run[r].link] = @ + 1]}
        BY <1>16 DEF Answer
      <3> QED BY <3>1
    <2>4. run' \in [Requests -> Run]
      BY <1>16, GotoType, Names DEF Answer
    <2> QED BY <1>16, <2>2, <2>3, <2>4 DEF Answer
  <1>17. ASSUME NEW r \in Requests, Abort(r) PROVE TypeOK'
    BY <1>17, GotoType, SpendType, Names DEF Abort
  <1>18. ASSUME NEW t \in rows \cup issued, Expire(t) PROVE TypeOK'
    BY <1>18, SpendType DEF Expire
  <1>19. ASSUME NEW l \in Links, ExpireLink(l) PROVE TypeOK'
    BY <1>19, SpendType DEF ExpireLink, LinkStates
  <1> QED
    BY <1>1, <1>2, <1>3, <1>4, <1>5, <1>6, <1>7, <1>8, <1>9, <1>10, <1>11, <1>12, <1>13,
       <1>14, <1>15, <1>16, <1>17, <1>18, <1>19 DEF Next

\* The first state is well typed.
LEMMA InitType == Init => TypeOK
  BY IdleType, LimitsAssumption DEF Init, TypeOK, LinkStates, Budget

\* Every variable of the session tokens keeps its shape.
THEOREM TypeCorrect == Spec => []TypeOK
  <1>1. TypeOK /\ UNCHANGED vars => TypeOK'
    BY DEF TypeOK, vars
  <1> QED BY InitType, StepType, <1>1, PTL DEF Spec

-----------------------------------------------------------------------------
(* What the requests know of the tables                                    *)

\* Before its row is stored a session belongs to one run and to nothing else.
Before == {"trimDelete", "store"}

\* Refused from now on: by the blacklist, or by age.
Listed(t) == t \in blacklist \cup expired

\* Which operation a run is at, by its program counter.
OpAt(x) ==
  /\ x.pc = "trimDelete" => x.op = "login"
  /\ x.pc = "store" => x.op \in {"login", "magic"}
  /\ x.pc \in {"burn", "sweep"} => x.op = "magic"
  /\ x.pc \in {"find", "use"} => x.op = "refresh"
  /\ x.pc = "drop" => x.op = "logout"
  /\ x.pc \in {"collect", "bar", "dropAll"} => x.op = "revokeAll"
  /\ x.pc = "cleanList" => x.op = "clean"
  /\ x.op = "magic" => x.link \in Links

\* What a logout and a logout from all devices have achieved by each of their steps.
Revoking(x) ==
  /\ x.op = "logout" /\ x.pc \in {"drop", "answer"} => Listed(x.token)
  /\ x.op = "logout" /\ x.pc = "answer" => x.token \notin rows
  /\ x.op = "revokeAll" /\ x.pc \in {"bar", "dropAll", "answer"} =>
       \A t \in x.seen : ~Unborn(t.sess)
  /\ x.pc = "bar" /\ (~x.failed \/ left.faults = MaxFaults) =>
       \A t \in x.seen \ x.todo : Listed(t)
  /\ x.op = "revokeAll" /\ x.pc \in {"dropAll", "answer"} => \A t \in x.seen : Listed(t)
  /\ x.op = "revokeAll" /\ x.pc = "answer" => x.seen \cap rows = {}

\* What holds of every run by the step it has reached.
RunSound(x) ==
  /\ OpAt(x)
  /\ x.pc \in Before => x.token \in RefreshTokens /\ Unborn(x.token.sess)
  /\ x.pc \notin Before \cup {"idle", "cleanList"} => ~Unborn(x.token.sess)
  /\ Revoking(x)
  /\ x.pc = "cleanList" => x.seen \subseteq expired

\* No two runs are about to store the same session.
Apart == \A r, q \in Requests : r # q /\ run[r].pc \in Before /\ run[q].pc \in Before =>
                                run[r].token.sess # run[q].token.sess

\* The inductive invariant of the revocations.
Sound ==
  /\ TypeOK
  /\ rows \subseteq RefreshTokens
  /\ \A t \in rows \cup issued \cup confirmed : ~Unborn(t.sess)
  /\ \A t \in confirmed : Listed(t) /\ t \notin rows
  /\ \A r \in Requests : RunSound(run[r])
  /\ Apart
  /\ left.faults <= MaxFaults

\* What no step undoes.
Lasting ==
  /\ \A s \in Sessions : ~Unborn(s) => ~Unborn(s)'
  /\ \A t \in Token : Listed(t) => Listed(t)'
  /\ \A t \in Token : t \notin rows /\ ~Unborn(t.sess) => t \notin rows'
  /\ expired \subseteq expired'
  /\ left'.faults <= left.faults

\* Storing is the only step that gives a session its row, and the session was unborn.
Storing(s) == /\ Unborn(s)
              /\ rows' = rows \cup {RT(s)}
              /\ \E n \in Nat \ {0} : born' = [born EXCEPT ![s] = n]

\* The clock counts the sessions born.
LEMMA ClockType == Clock \in Nat
  <1>1. IsFiniteSet({s \in Sessions : ~Unborn(s)})
    BY SessionsAssumption, FS_Subset
  <1> QED BY <1>1, FS_CardinalityType DEF Clock

\* What Store does, in terms of the session it stores.
LEMMA StoreIsStoring ==
  ASSUME Sound, NEW r \in Requests, Store(r)
  PROVE  /\ Storing(run[r].token.sess) /\ run[r].token = RT(run[r].token.sess)
         /\ run[r].token.sess \in Sessions
  <1>1. run[r].token \in RefreshTokens /\ Unborn(run[r].token.sess)
    BY DEF Store, Sound, RunSound, Before
  <1>2. Clock + 1 \in Nat \ {0}
    BY ClockType
  <1>3. run[r].token.sess \in Sessions /\ run[r].token = RT(run[r].token.sess)
    BY <1>1, TokenTypes
  <1> QED BY <1>1, <1>2, <1>3 DEF Store, Storing

\* Steps that store nothing only take rows away.
LEMMA RowsShrink ==
  ASSUME Sound, Next
  PROVE  \/ rows' \subseteq rows /\ born' = born
         \/ \E r \in Requests : Store(r)
  BY DEF Next, Login, OpenLink, Refresh, Logout, RevokeAll, TrimDelete, Burn, Sweep, Find, Use,
         Drop, Collect, Bar, Barred, DropAll, Clean, CleanList, Answer, Abort, Expire,
         ExpireLink, SweepLinks

\* Only a clean-up takes entries from the blacklist, and only expired ones.
LEMMA ListGrows ==
  ASSUME Sound, Next
  PROVE  expired \subseteq expired' /\ \A t \in Token : Listed(t) => Listed(t)'
  <1>1. expired \subseteq expired'
    BY DEF Next, Login, OpenLink, Refresh, Logout, RevokeAll, TrimDelete, Store, Burn, Sweep,
           Find, Use, Drop, Collect, Bar, Barred, DropAll, Clean, CleanList, Answer, Abort,
           Expire, ExpireLink, SweepLinks
  <1>2. \/ blacklist \subseteq blacklist'
        \/ \E r \in Requests : CleanList(r)
    BY DEF Next, Login, OpenLink, Refresh, Logout, RevokeAll, TrimDelete, Store, Burn, Sweep,
           Find, Use, Drop, Collect, Bar, Barred, DropAll, Clean, Answer, Abort,
           Expire, ExpireLink, SweepLinks
  <1>3. ASSUME NEW r \in Requests, CleanList(r)
        PROVE  \A t \in Token : Listed(t) => Listed(t)'
    BY <1>1, <1>3 DEF CleanList, Sound, RunSound, Listed
  <1> QED BY <1>1, <1>2, <1>3 DEF Listed

\* Faults are only spent.
LEMMA FaultsFall ==
  ASSUME Sound, Next
  PROVE  left'.faults <= left.faults
  <1>1. \/ left' = left
        \/ \E what \in {"requests", "faults", "expiries"} : Spend(what)
    BY DEF Next, Login, OpenLink, Refresh, Logout, RevokeAll, TrimDelete, Store, Burn, Sweep,
           Find, Use, Drop, Collect, Bar, Barred, DropAll, Clean, CleanList, Answer, Abort,
           Expire, ExpireLink, SweepLinks, Start
  <1>2. left.faults \in Nat
    BY DEF Sound, TypeOK, Budget
  <1>3. ASSUME NEW what \in {"requests", "faults", "expiries"}, Spend(what)
        PROVE  left'.faults <= left.faults
    BY <1>2, <1>3 DEF Spend, Sound, TypeOK, Budget
  <1> QED BY <1>1, <1>2, <1>3

\* No step undoes what lasts.
LEMMA StepLasting ==
  ASSUME Sound, Next
  PROVE  Lasting
  <1>1. born \in [Sessions -> Nat]
    BY DEF Sound, TypeOK
  <1>2. ASSUME NEW r \in Requests, Store(r)
        PROVE  /\ \A s \in Sessions : ~Unborn(s) => ~Unborn(s)'
               /\ \A t \in Token : t \notin rows /\ ~Unborn(t.sess) => t \notin rows'
    BY <1>1, <1>2, StoreIsStoring, TokenTypes DEF Storing, Unborn
  <1>3. ASSUME rows' \subseteq rows /\ born' = born
        PROVE  /\ \A s \in Sessions : ~Unborn(s) => ~Unborn(s)'
               /\ \A t \in Token : t \notin rows /\ ~Unborn(t.sess) => t \notin rows'
    BY <1>3 DEF Unborn
  <1> QED BY <1>2, <1>3, RowsShrink, ListGrows, FaultsFall DEF Lasting

\* What a run knows outlives the steps of the others, as long as nobody stores its session.
LEMMA KeptRun ==
  ASSUME Sound, Lasting, NEW x \in Run, RunSound(x),
         x.pc \in Before => Unborn(x.token.sess)'
  PROVE  RunSound(x)'
  <1>1. x.token \in Token /\ x.token.sess \in Sessions /\ x.seen \subseteq Token
        /\ \A t \in x.seen : t.sess \in Sessions
    BY TokenTypes DEF Run
  <1>2. left.faults \in Nat /\ left.faults <= MaxFaults /\ MaxFaults \in Nat
        /\ (left'.faults = MaxFaults => left'.faults \in Int)
    BY LimitsAssumption DEF Sound, TypeOK, Budget
  <1>3. left'.faults = MaxFaults => left.faults = MaxFaults
    BY <1>2 DEF Lasting
  <1>4. OpAt(x)'
    BY DEF RunSound, OpAt
  <1>5. Revoking(x)'
    <2>1. x.op = "logout" /\ x.pc \in {"drop", "answer"} => Listed(x.token)'
      BY <1>1 DEF RunSound, Revoking, Lasting
    <2>2. x.op = "logout" /\ x.pc = "answer" => x.token \notin rows'
      BY <1>1 DEF RunSound, Revoking, Lasting, Before
    <2>3. x.op = "revokeAll" /\ x.pc \in {"bar", "dropAll", "answer"} =>
            \A t \in x.seen : ~Unborn(t.sess)'
      BY <1>1 DEF RunSound, Revoking, Lasting
    <2>4. x.pc = "bar" /\ (~x.failed \/ left'.faults = MaxFaults) =>
            \A t \in x.seen \ x.todo : Listed(t)'
      BY <1>1, <1>3 DEF RunSound, Revoking, Lasting
    <2>5. x.op = "revokeAll" /\ x.pc \in {"dropAll", "answer"} => \A t \in x.seen : Listed(t)'
      BY <1>1 DEF RunSound, Revoking, Lasting
    <2>6. x.op = "revokeAll" /\ x.pc = "answer" => x.seen \cap rows' = {}
      BY <1>1 DEF RunSound, Revoking, Lasting
    <2> QED BY <2>1, <2>2, <2>3, <2>4, <2>5, <2>6 DEF Revoking
  <1>6. x.pc \notin Before \cup {"idle", "cleanList"} => ~Unborn(x.token.sess)'
    BY <1>1 DEF RunSound, Lasting
  <1>7. x.pc = "cleanList" => x.seen \subseteq expired'
    BY DEF RunSound, Lasting
  <1> QED BY <1>4, <1>5, <1>6, <1>7 DEF RunSound

\* An idle run knows nothing.
LEMMA IdleSound == RunSound(IdleRun) /\ RunSound(IdleRun)' /\ IdleRun.pc \notin Before
  <1>1. /\ IdleRun.op = "none" /\ IdleRun.pc = "idle" /\ IdleRun.seen = {}
    BY DEF IdleRun
  <1>2. \A x : x = IdleRun => x.op = "none" /\ x.pc = "idle"
    BY <1>1
  <1>3. OpAt(IdleRun) /\ OpAt(IdleRun)'
    BY <1>1 DEF OpAt
  <1>4. Revoking(IdleRun) /\ Revoking(IdleRun)'
    BY <1>1 DEF Revoking
  <1> QED BY <1>1, <1>3, <1>4 DEF RunSound, Before

\* A run that does not store leaves the sessions of the others unborn; one that stores
\* leaves those of the others unborn too, since they are apart.
LEMMA OthersKept ==
  ASSUME Sound, Next, NEW q \in Requests,
         \A r \in Requests : Store(r) => r # q
  PROVE  RunSound(run[q])' \/ run'[q] # run[q]
  <1> SUFFICES ASSUME run'[q] = run[q] PROVE RunSound(run[q])'
    OBVIOUS
  <1>1. run[q] \in Run /\ RunSound(run[q])
    BY DEF Sound, TypeOK
  <1>2. run[q].pc \in Before => Unborn(run[q].token.sess) /\ run[q].token.sess \in Sessions
    BY <1>1, TokenTypes DEF RunSound
  <1>3. ASSUME NEW r \in Requests, Store(r), run[q].pc \in Before
        PROVE  born'[run[q].token.sess] = 0
    <2>1. run[r].token.sess # run[q].token.sess
      BY <1>3 DEF Sound, Apart, Store, Before
    <2> QED BY <1>2, <1>3, <2>1, StoreIsStoring DEF Storing, Unborn, Sound, TypeOK
  <1>4. run[q].pc \in Before => born'[run[q].token.sess] = 0
    BY <1>2, <1>3, RowsShrink DEF Unborn
  <1> DEFINE x == run[q]
  <1>5. \A y \in Run : RunSound(y) /\ (y.pc \in Before => born'[y.token.sess] = 0)
                        => RunSound(y)'
    BY KeptRun, StepLasting DEF Unborn
  <1>6. \A y \in Run : y = run[q] => RunSound(y)'
    BY <1>1, <1>4, <1>5
  <1> QED BY <1>1, <1>6 DEF RunSound, OpAt, Revoking

\* A run that stores moves on.
LEMMA StoreMoves ==
  ASSUME Sound, NEW r \in Requests, Store(r)
  PROVE  run'[r] # run[r]
  <1>1. run \in [Requests -> Run] /\ run[r] \in Run
    BY DEF Sound, TypeOK
  <1>2. run[r].pc = "store" /\ run'[r].pc # "store"
    BY <1>1 DEF Store, Goto, Run
  <1> QED BY <1>2

\* A step of one request keeps the invariant if it leaves that request's own run sound,
\* begins to sign in only with a fresh session, and answers only what holds.
LEMMA OneRun ==
  ASSUME Sound, Next, NEW r \in Requests,
         \A q \in Requests : q # r => run'[q] = run[q],
         RunSound(run[r])',
         run'[r].pc \in Before => \/ run[r].pc \in Before /\ run'[r].token = run[r].token
                                  \/ Fresh(run'[r].token.sess),
         \A t \in issued' \ issued : ~Unborn(t.sess),
         \A t \in confirmed' \ confirmed : ~Unborn(t.sess) /\ Listed(t) /\ t \notin rows
  PROVE  Sound'
  <1>1. TypeOK'
    BY StepType DEF Sound
  <1>2. Lasting
    BY StepLasting
  <1>3. /\ \A t \in issued' \cup confirmed' : t \in Token /\ t.sess \in Sessions
        /\ \A t \in rows : t \in Token /\ t.sess \in Sessions
    BY <1>1, TokenTypes DEF TypeOK, Sound
  <1>4. rows' \subseteq RefreshTokens /\ \A t \in rows' : born'[t.sess] # 0
    <2>1. CASE rows' \subseteq rows /\ born' = born
      BY <2>1 DEF Sound, Unborn
    <2>2. ASSUME NEW q \in Requests, Store(q)
          PROVE  rows' \subseteq RefreshTokens /\ \A t \in rows' : born'[t.sess] # 0
      <3>1. /\ rows' = rows \cup {RT(run[q].token.sess)} /\ run[q].token.sess \in Sessions
            /\ \E n \in Nat \ {0} : born' = [born EXCEPT ![run[q].token.sess] = n]
        BY <2>2, StoreIsStoring DEF Storing
      <3>2. born'[run[q].token.sess] # 0
        BY <3>1 DEF Sound, TypeOK
      <3>3. \A t \in rows : born[t.sess] # 0
        BY DEF Sound, Unborn
      <3>4. \A s \in Sessions : born[s] # 0 => born'[s] # 0
        BY <1>2 DEF Lasting, Unborn
      <3>5. \A t \in rows : born'[t.sess] # 0
        BY <1>3, <3>3, <3>4
      <3> QED BY <3>1, <3>2, <3>5, TokenTypes DEF Sound
    <2> QED BY <2>1, <2>2, RowsShrink
  <1>5. \A t \in rows' \cup issued' \cup confirmed' : ~Unborn(t.sess)'
    BY <1>2, <1>3, <1>4 DEF Sound, Lasting, Unborn
  <1>6. \A t \in confirmed' : Listed(t)' /\ t \notin rows'
    BY <1>2, <1>3 DEF Sound, Lasting
  <1>7. \A q \in Requests : RunSound(run[q])'
    <2>1. \A q \in Requests : q # r => RunSound(run[q])'
      BY OthersKept, StoreMoves
    <2> QED BY <2>1
  <1>8. Apart'
    <2>1. \A q \in Requests : q # r /\ run'[r].pc \in Before /\ run'[q].pc \in Before =>
                              run'[r].token.sess # run'[q].token.sess
      BY DEF Sound, Apart, Fresh, Before
    <2> QED BY <2>1 DEF Sound, Apart
  <1>9. left'.faults <= MaxFaults
    BY <1>1, <1>2, LimitsAssumption DEF Sound, Lasting, TypeOK, Budget
  <1> QED BY <1>1, <1>4, <1>5, <1>6, <1>7, <1>8, <1>9 DEF Sound

\* A step that changes no run, and answers nothing, keeps the invariant.
LEMMA NoRun ==
  ASSUME Sound, Next, run' = run, issued' = issued, confirmed' = confirmed, rows' = rows,
         born' = born
  PROVE  Sound'
  <1>1. TypeOK' /\ Lasting
    BY StepType, StepLasting DEF Sound
  <1>2. \A t \in confirmed : t \in Token
    BY DEF Sound, TypeOK
  <1>3. \A q \in Requests : RunSound(run[q])'
    BY OthersKept, StoreMoves
  <1>4. Apart'
    BY DEF Sound, Apart
  <1>5. left'.faults <= MaxFaults
    BY <1>1, LimitsAssumption DEF Sound, Lasting, TypeOK, Budget
  <1> QED BY <1>1, <1>2, <1>3, <1>4, <1>5 DEF Sound, Lasting, Unborn

\* A request that ends keeps the invariant when it answers only what holds.
LEMMA EndSound ==
  ASSUME Sound, Next, NEW r \in Requests, End(r),
         \A t \in issued' \ issued : ~Unborn(t.sess),
         \A t \in confirmed' \ confirmed : ~Unborn(t.sess) /\ Listed(t) /\ t \notin rows
  PROVE  Sound'
  <1>1. run'[r] = IdleRun /\ \A q \in Requests : q # r => run'[q] = run[q]
    BY DEF End, Sound, TypeOK
  <1>2. RunSound(run[r])'
    BY <1>1, IdleSound DEF RunSound, OpAt, Revoking
  <1> QED BY <1>1, <1>2, IdleSound, OneRun

\* What the three ways to move a run do to it, and to the others.
LEMMA Moves ==
  ASSUME run \in [Requests -> Run], NEW r \in Requests
  PROVE  /\ \A x : Start(r, x) => run'[r] = x
         /\ \A x : Start(r, x) => \A q \in Requests : q # r => run'[q] = run[q]
         /\ \A x : run' = [run EXCEPT ![r] = x] =>
              run'[r] = x /\ \A q \in Requests : q # r => run'[q] = run[q]
         /\ \A pc : Goto(r, pc) =>
              /\ run'[r].pc = pc /\ run'[r].op = run[r].op /\ run'[r].token = run[r].token
              /\ run'[r].link = run[r].link /\ run'[r].seen = run[r].seen
              /\ run'[r].todo = run[r].todo
              /\ \A q \in Requests : q # r => run'[q] = run[q]
  BY DEF Start, Goto, Run

\* Every step of a sign-in keeps the invariant.
LEMMA SignInSound ==
  ASSUME Sound, Next, NEW r \in Requests,
         \/ \E s \in Sessions : Login(r, s) \/ \E l \in Links : OpenLink(r, l, s)
         \/ TrimDelete(r) \/ Store(r) \/ Burn(r) \/ Sweep(r)
  PROVE  Sound'
  <1>r. run \in [Requests -> Run] /\ run[r] \in Run /\ RunSound(run[r])
    BY DEF Sound, TypeOK
  <1>1. ASSUME NEW s \in Sessions, Login(r, s) PROVE Sound'
    <2>1. run'[r].op = "login" /\ run'[r].pc \in Before /\ run'[r].token = RT(s)
      <3>1. run'[r] = [IdleRun EXCEPT !.op = "login", !.token = RT(s), !.todo = Old,
                                      !.pc = IF Old = {} THEN "store" ELSE "trimDelete"]
        BY <1>r, <1>1, Moves DEF Login
      <3> QED BY <3>1 DEF IdleRun, Before
    <2>2. \A q \in Requests : q # r => run'[q] = run[q]
      BY <1>r, <1>1, Moves DEF Login
    <2>3. Fresh(s) /\ born'[s] = 0 /\ issued' = issued /\ confirmed' = confirmed
      BY <1>1 DEF Login, Fresh, Unborn
    <2>4. RunSound(run[r])'
      BY <2>1, <2>3, TokenTypes DEF RunSound, OpAt, Revoking, Before, Unborn
    <2>5. run'[r].token.sess = s
      BY <2>1, TokenTypes
    <2> QED BY <2>2, <2>3, <2>4, <2>5, OneRun
  <1>2. ASSUME NEW s \in Sessions, NEW l \in Links, OpenLink(r, l, s) PROVE Sound'
    <2>1. /\ run'[r].op = "magic" /\ run'[r].pc = "store" /\ run'[r].token = RT(s)
          /\ run'[r].link = l
      <3>1. run'[r] = [IdleRun EXCEPT !.op = "magic", !.pc = "store", !.token = RT(s), !.link = l]
        BY <1>r, <1>2, Moves DEF OpenLink
      <3> QED BY <3>1 DEF IdleRun
    <2>2. \A q \in Requests : q # r => run'[q] = run[q]
      BY <1>r, <1>2, Moves DEF OpenLink
    <2>3. Fresh(s) /\ born'[s] = 0 /\ issued' = issued /\ confirmed' = confirmed
      BY <1>2 DEF OpenLink, Fresh, Unborn
    <2>4. RunSound(run[r])'
      BY <2>1, <2>3, TokenTypes DEF RunSound, OpAt, Revoking, Before, Unborn
    <2>5. run'[r].token.sess = s
      BY <2>1, TokenTypes
    <2> QED BY <2>2, <2>3, <2>4, <2>5, OneRun
  <1>3. CASE TrimDelete(r)
    <2>1. /\ run'[r].pc = "store" /\ run'[r].op = run[r].op /\ run'[r].token = run[r].token
          /\ run[r].pc = "trimDelete" /\ \A q \in Requests : q # r => run'[q] = run[q]
      BY <1>r, <1>3 DEF TrimDelete, Run
    <2>2. /\ run[r].op = "login" /\ run[r].token \in RefreshTokens
          /\ born'[run[r].token.sess] = 0 /\ issued' = issued /\ confirmed' = confirmed
      BY <1>r, <1>3, <2>1 DEF TrimDelete, RunSound, OpAt, Before, Unborn
    <2>3. RunSound(run[r])'
      BY <2>1, <2>2 DEF RunSound, OpAt, Revoking, Before, Unborn
    <2> QED BY <2>1, <2>2, <2>3, OneRun DEF Before
  <1>4. CASE Store(r)
    <2>1. /\ run'[r].pc = IF run[r].op = "magic" THEN "burn" ELSE "answer"
          /\ run'[r].op = run[r].op /\ run'[r].token = run[r].token /\ run'[r].link = run[r].link
          /\ \A q \in Requests : q # r => run'[q] = run[q]
      BY <1>r, <1>4, Moves DEF Store
    <2>2. run[r].op \in {"login", "magic"} /\ (run[r].op = "magic" => run[r].link \in Links)
      BY <1>r, <1>4 DEF Store, RunSound, OpAt
    <2>3. born'[run[r].token.sess] # 0 /\ issued' = issued /\ confirmed' = confirmed
      BY <1>4, StoreIsStoring DEF Store, Storing, Sound, TypeOK
    <2>4. RunSound(run[r])'
      BY <2>1, <2>2, <2>3 DEF RunSound, OpAt, Revoking, Before, Unborn
    <2> QED BY <2>1, <2>3, <2>4, OneRun DEF Before
  <1>5. ASSUME Goto(r, "sweep") \/ Goto(r, "answer"), run[r].pc \in {"burn", "sweep"},
               born' = born, issued' = issued, confirmed' = confirmed
        PROVE  Sound'
    <2>1. /\ run'[r].pc \in {"sweep", "answer"} /\ run'[r].op = run[r].op
          /\ run'[r].token = run[r].token /\ run'[r].link = run[r].link
          /\ \A q \in Requests : q # r => run'[q] = run[q]
      BY <1>r, <1>5, Moves
    <2>2. run[r].op = "magic" /\ run[r].link \in Links /\ born'[run[r].token.sess] # 0
      BY <1>r, <1>5 DEF RunSound, OpAt, Before, Unborn
    <2>3. RunSound(run[r])'
      BY <2>1, <2>2 DEF RunSound, OpAt, Revoking, Before, Unborn
    <2> QED BY <1>5, <2>1, <2>3, OneRun DEF Before
  <1>6. CASE Burn(r)
    <2>1. CASE End(r)
      BY <1>6, <2>1, EndSound DEF Burn
    <2> QED BY <1>5, <1>6, <2>1 DEF Burn
  <1>7. CASE Sweep(r)
    BY <1>5, <1>7 DEF Sweep
  <1> QED BY <1>1, <1>2, <1>3, <1>4, <1>6, <1>7

\* Every step of a refresh keeps the invariant.
LEMMA RefreshSound ==
  ASSUME Sound, Next, NEW r \in Requests,
         (\E t \in issued : Refresh(r, t)) \/ Find(r) \/ Use(r)
  PROVE  Sound'
  <1>r. run \in [Requests -> Run] /\ run[r] \in Run /\ RunSound(run[r])
    BY DEF Sound, TypeOK
  <1>1. ASSUME NEW t \in issued, Refresh(r, t) PROVE Sound'
    <2>1. run'[r].op = "refresh" /\ run'[r].pc = "find" /\ run'[r].token = t
      <3>1. run'[r] = [IdleRun EXCEPT !.op = "refresh", !.pc = "find", !.token = t]
        BY <1>r, <1>1, Moves DEF Refresh
      <3> QED BY <3>1 DEF IdleRun
    <2>2. \A q \in Requests : q # r => run'[q] = run[q]
      BY <1>r, <1>1, Moves DEF Refresh
    <2>3. born'[t.sess] # 0 /\ issued' = issued /\ confirmed' = confirmed
      BY <1>1 DEF Refresh, Sound, Unborn
    <2>4. RunSound(run[r])'
      BY <2>1, <2>3 DEF RunSound, OpAt, Revoking, Before, Unborn
    <2> QED BY <2>1, <2>2, <2>3, <2>4, OneRun DEF Before
  <1>2. CASE Find(r)
    <2>1. CASE End(r)
      BY <1>2, <2>1, EndSound DEF Find
    <2>2. CASE Goto(r, "use")
      <3>1. /\ run'[r].pc = "use" /\ run'[r].op = run[r].op /\ run'[r].token = run[r].token
            /\ \A q \in Requests : q # r => run'[q] = run[q]
        BY <1>r, <2>2, Moves
      <3>2. /\ run[r].op = "refresh" /\ born'[run[r].token.sess] # 0
            /\ issued' = issued /\ confirmed' = confirmed
        BY <1>r, <1>2 DEF Find, RunSound, OpAt, Before, Unborn
      <3>3. RunSound(run[r])'
        BY <3>1, <3>2 DEF RunSound, OpAt, Revoking, Before, Unborn
      <3> QED BY <3>1, <3>2, <3>3, OneRun DEF Before
    <2> QED BY <1>2, <2>1, <2>2 DEF Find
  <1>3. CASE Use(r)
    <2>1. CASE End(r)
      BY <1>3, <2>1, EndSound DEF Use
    <2>2. CASE run' = [run EXCEPT ![r].pc = "answer",
                         ![r].token = AT(run[r].token.sess, granted[run[r].token.sess] + 2)]
      <3>1. /\ run'[r].pc = "answer" /\ run'[r].op = run[r].op
            /\ run'[r].token.sess = run[r].token.sess
            /\ \A q \in Requests : q # r => run'[q] = run[q]
        BY <1>r, <2>2 DEF Run, AT
      <3>2. /\ run[r].op = "refresh" /\ born'[run[r].token.sess] # 0
            /\ issued' = issued /\ confirmed' = confirmed
        BY <1>r, <1>3 DEF Use, RunSound, OpAt, Before, Unborn
      <3>3. RunSound(run[r])'
        BY <3>1, <3>2 DEF RunSound, OpAt, Revoking, Before, Unborn
      <3> QED BY <3>1, <3>2, <3>3, OneRun DEF Before
    <2> QED BY <1>3, <2>1, <2>2 DEF Use
  <1> QED BY <1>1, <1>2, <1>3

\* Every step of a logout keeps the invariant.
LEMMA LogoutSound ==
  ASSUME Sound, Next, NEW r \in Requests, (\E t \in issued : Logout(r, t)) \/ Drop(r)
  PROVE  Sound'
  <1>r. run \in [Requests -> Run] /\ run[r] \in Run /\ RunSound(run[r])
    BY DEF Sound, TypeOK
  <1>1. ASSUME NEW t \in issued, Logout(r, t) PROVE Sound'
    <2>1. /\ run'[r].op = "logout" /\ run'[r].token = t
          /\ run'[r].pc = IF t.n = 0 THEN "drop" ELSE "answer"
      <3>1. run'[r] = [IdleRun EXCEPT !.op = "logout", !.token = t,
                                      !.pc = IF t.n = 0 THEN "drop" ELSE "answer"]
        BY <1>r, <1>1, Moves DEF Logout
      <3> QED BY <3>1 DEF IdleRun
    <2>2. \A q \in Requests : q # r => run'[q] = run[q]
      BY <1>r, <1>1, Moves DEF Logout
    <2>3. /\ born'[t.sess] # 0 /\ issued' = issued /\ confirmed' = confirmed
          /\ rows' = rows /\ t \in blacklist'
      BY <1>1 DEF Logout, Sound, Unborn
    <2>4. t.n # 0 => t \notin rows'
      BY <2>3, TokenTypes DEF Sound
    <2>5. RunSound(run[r])'
      BY <2>1, <2>3, <2>4 DEF RunSound, OpAt, Revoking, Listed, Before, Unborn
    <2> QED BY <2>1, <2>2, <2>3, <2>5, OneRun DEF Before
  <1>2. CASE Drop(r)
    <2>1. /\ run'[r].pc = "answer" /\ run'[r].op = run[r].op /\ run'[r].token = run[r].token
          /\ \A q \in Requests : q # r => run'[q] = run[q]
      BY <1>r, <1>2, Moves DEF Drop
    <2>2. /\ run[r].op = "logout" /\ born'[run[r].token.sess] # 0
          /\ run[r].token \in blacklist' \cup expired' /\ run[r].token \notin rows'
          /\ issued' = issued /\ confirmed' = confirmed
      BY <1>r, <1>2 DEF Drop, RunSound, OpAt, Revoking, Listed, Before, Unborn
    <2>3. RunSound(run[r])'
      BY <2>1, <2>2 DEF RunSound, OpAt, Revoking, Listed, Before, Unborn
    <2> QED BY <2>1, <2>2, <2>3, OneRun DEF Before
  <1> QED BY <1>1, <1>2

\* Every step of a logout from all devices keeps the invariant.
LEMMA RevokeSound ==
  ASSUME Sound, Next, NEW r \in Requests,
         (\E t \in issued : RevokeAll(r, t)) \/ Collect(r) \/ Bar(r) \/ Barred(r) \/ DropAll(r)
  PROVE  Sound'
  <1>r. run \in [Requests -> Run] /\ run[r] \in Run /\ RunSound(run[r])
    BY DEF Sound, TypeOK
  <1>1. ASSUME NEW t \in issued, RevokeAll(r, t) PROVE Sound'
    <2>1. run'[r].op = "revokeAll" /\ run'[r].pc = "collect" /\ run'[r].token = t
      <3>1. run'[r] = [IdleRun EXCEPT !.op = "revokeAll", !.pc = "collect", !.token = t]
        BY <1>r, <1>1, Moves DEF RevokeAll
      <3> QED BY <3>1 DEF IdleRun
    <2>2. \A q \in Requests : q # r => run'[q] = run[q]
      BY <1>r, <1>1, Moves DEF RevokeAll
    <2>3. born'[t.sess] # 0 /\ issued' = issued /\ confirmed' = confirmed
      BY <1>1 DEF RevokeAll, Sound, Unborn
    <2>4. RunSound(run[r])'
      BY <2>1, <2>3 DEF RunSound, OpAt, Revoking, Before, Unborn
    <2> QED BY <2>1, <2>2, <2>3, <2>4, OneRun DEF Before
  <1>2. CASE Collect(r)
    <2>1. /\ run'[r].pc = "bar" /\ run'[r].op = run[r].op /\ run'[r].token = run[r].token
          /\ run'[r].seen = rows \ expired /\ run'[r].todo = rows \ expired
          /\ \A q \in Requests : q # r => run'[q] = run[q]
      BY <1>r, <1>2 DEF Collect, Run
    <2>2. /\ run[r].op = "revokeAll" /\ born'[run[r].token.sess] # 0
          /\ \A t \in rows : born'[t.sess] # 0
          /\ issued' = issued /\ confirmed' = confirmed
      BY <1>r, <1>2 DEF Collect, Sound, RunSound, OpAt, Before, Unborn
    <2>3. RunSound(run[r])'
      BY <2>1, <2>2 DEF RunSound, OpAt, Revoking, Before, Unborn
    <2> QED BY <2>1, <2>2, <2>3, OneRun DEF Before
  <1>3. CASE Bar(r)
    <2>1. PICK t \in run[r].todo :
            \/ /\ t \notin blacklist /\ blacklist' = blacklist \cup {t} /\ left' = left
               /\ run' = [run EXCEPT ![r].todo = @ \ {t}]
            \/ /\ t \in blacklist /\ blacklist' = blacklist /\ left' = left
               /\ run' = [run EXCEPT ![r].todo = @ \ {t}, ![r].failed = TRUE]
            \/ /\ Spend("faults") /\ blacklist' = blacklist
               /\ run' = [run EXCEPT ![r].todo = @ \ {t}, ![r].failed = TRUE]
      BY <1>3 DEF Bar
    <2>2. /\ run'[r].pc = "bar" /\ run[r].pc = "bar" /\ run'[r].op = run[r].op
          /\ run'[r].token = run[r].token /\ run'[r].seen = run[r].seen
          /\ run'[r].todo = run[r].todo \ {t}
          /\ run'[r].failed \/ run'[r].failed = run[r].failed
          /\ \A q \in Requests : q # r => run'[q] = run[q]
      BY <1>r, <1>3, <2>1 DEF Bar, Run
    <2>3. /\ run[r].op = "revokeAll" /\ born'[run[r].token.sess] # 0
          /\ \A u \in run[r].seen : born'[u.sess] # 0
          /\ issued' = issued /\ confirmed' = confirmed
      BY <1>r, <1>3, <2>2 DEF Bar, RunSound, OpAt, Revoking, Before, Unborn
    <2>4. \A u \in run[r].seen \ run[r].todo :
            ~run'[r].failed \/ left'.faults = MaxFaults => u \in blacklist' \cup expired'
      <3>1. left'.faults = MaxFaults => left.faults = MaxFaults
        BY FaultsFall, StepType, LimitsAssumption DEF Sound, TypeOK, Budget
      <3>2. ~run'[r].failed => ~run[r].failed
        BY <1>r, <2>1 DEF Run
      <3>3. \A u \in run[r].seen \ run[r].todo :
              ~run[r].failed \/ left.faults = MaxFaults => u \in blacklist \cup expired
        BY <1>r, <2>2 DEF RunSound, Revoking, Listed
      <3> QED BY <1>3, <2>1, <3>1, <3>2, <3>3 DEF Bar
    <2>5. ~run'[r].failed \/ left'.faults = MaxFaults => t \in blacklist'
      <3>1. CASE Spend("faults")
        <4>1. left.faults \in Nat /\ left'.faults = left.faults - 1 /\ left.faults <= MaxFaults
          BY <3>1 DEF Spend, Sound, TypeOK, Budget
        <4>2. left'.faults # MaxFaults
          BY <4>1, LimitsAssumption
        <4> QED BY <1>r, <2>1, <3>1, <4>2 DEF Run
      <3> QED BY <2>1, <3>1
    <2>6. RunSound(run[r])'
      BY <2>2, <2>3, <2>4, <2>5 DEF RunSound, OpAt, Revoking, Listed, Before, Unborn
    <2> QED BY <2>2, <2>3, <2>6, OneRun DEF Before
  <1>4. CASE Barred(r)
    <2>1. CASE End(r)
      BY <1>4, <2>1, EndSound DEF Barred
    <2>2. CASE ~run[r].failed /\ Goto(r, "dropAll")
      <3>1. /\ run'[r].pc = "dropAll" /\ run'[r].op = run[r].op /\ run'[r].token = run[r].token
            /\ run'[r].seen = run[r].seen /\ \A q \in Requests : q # r => run'[q] = run[q]
        BY <1>r, <2>2, Moves
      <3>2. /\ run[r].op = "revokeAll" /\ born'[run[r].token.sess] # 0
            /\ \A u \in run[r].seen : born'[u.sess] # 0 /\ u \in blacklist' \cup expired'
            /\ issued' = issued /\ confirmed' = confirmed
        BY <1>r, <1>4, <2>2 DEF Barred, RunSound, OpAt, Revoking, Listed, Before, Unborn
      <3>3. RunSound(run[r])'
        BY <3>1, <3>2 DEF RunSound, OpAt, Revoking, Listed, Before, Unborn
      <3> QED BY <3>1, <3>2, <3>3, OneRun DEF Before
    <2> QED BY <1>4, <2>1, <2>2 DEF Barred
  <1>5. CASE DropAll(r)
    <2>1. /\ run'[r].pc = "answer" /\ run'[r].op = run[r].op /\ run'[r].token = run[r].token
          /\ run'[r].seen = run[r].seen /\ \A q \in Requests : q # r => run'[q] = run[q]
      BY <1>r, <1>5, Moves DEF DropAll
    <2>2. /\ run[r].op = "revokeAll" /\ born'[run[r].token.sess] # 0 /\ rows' = {}
          /\ \A u \in run[r].seen : born'[u.sess] # 0 /\ u \in blacklist' \cup expired'
          /\ issued' = issued /\ confirmed' = confirmed
      BY <1>r, <1>5 DEF DropAll, RunSound, OpAt, Revoking, Listed, Before, Unborn
    <2>3. RunSound(run[r])'
      BY <2>1, <2>2 DEF RunSound, OpAt, Revoking, Listed, Before, Unborn
    <2> QED BY <2>1, <2>2, <2>3, OneRun DEF Before
  <1> QED BY <1>1, <1>2, <1>3, <1>4, <1>5

\* A response confirms only what is listed and has no row.
LEMMA AnswerSound ==
  ASSUME Sound, Next, NEW r \in Requests, Answer(r)
  PROVE  Sound'
  <1>r. run[r] \in Run /\ RunSound(run[r]) /\ run[r].pc = "answer"
    BY DEF Sound, TypeOK, Answer
  <1>1. ~Unborn(run[r].token.sess) /\ AT(run[r].token.sess, 1).sess = run[r].token.sess
    BY <1>r DEF RunSound, Before, AT
  <1>2. \A t \in issued' \ issued : ~Unborn(t.sess)
    BY <1>1 DEF Answer
  <1>3. \A t \in confirmed' \ confirmed :
          \/ run[r].op = "logout" /\ t = run[r].token
          \/ run[r].op = "revokeAll" /\ t \in run[r].seen
    BY DEF Answer
  <1>4. \A t \in confirmed' \ confirmed : ~Unborn(t.sess) /\ Listed(t) /\ t \notin rows
    BY <1>r, <1>1, <1>3 DEF RunSound, Revoking
  <1> QED BY <1>2, <1>4, EndSound DEF Answer

\* Every step of a clean-up keeps the invariant.
LEMMA CleanSound ==
  ASSUME Sound, Next, NEW r \in Requests, Clean(r) \/ CleanList(r)
  PROVE  Sound'
  <1>r. run \in [Requests -> Run]
    BY DEF Sound, TypeOK
  <1>1. CASE Clean(r)
    <2>1. run'[r].op = "clean" /\ run'[r].pc = "cleanList" /\ run'[r].seen = expired
      <3>1. run'[r] = [IdleRun EXCEPT !.op = "clean", !.pc = "cleanList", !.seen = expired]
        BY <1>r, <1>1, Moves DEF Clean
      <3> QED BY <3>1 DEF IdleRun
    <2>2. \A q \in Requests : q # r => run'[q] = run[q]
      BY <1>r, <1>1, Moves DEF Clean
    <2>3. issued' = issued /\ confirmed' = confirmed /\ expired' = expired
      BY <1>1 DEF Clean
    <2>4. RunSound(run[r])'
      BY <2>1, <2>3 DEF RunSound, OpAt, Revoking, Before
    <2> QED BY <2>1, <2>2, <2>3, <2>4, OneRun DEF Before
  <1>2. CASE CleanList(r)
    BY <1>2, EndSound DEF CleanList
  <1> QED BY <1>1, <1>2

\* Every step keeps the invariant.
LEMMA StepSound ==
  ASSUME Sound, Next
  PROVE  Sound'
  <1>1. ASSUME NEW r \in Requests, Abort(r) PROVE Sound'
    BY <1>1, EndSound DEF Abort
  <1>2. CASE \/ \E t \in rows \cup issued : Expire(t)
             \/ \E l \in Links : ExpireLink(l)
             \/ SweepLinks
    BY <1>2, NoRun DEF Expire, ExpireLink, SweepLinks
  <1> QED BY <1>1, <1>2, SignInSound, RefreshSound, LogoutSound, RevokeSound, CleanSound,
             AnswerSound DEF Next

\* The invariant of the revocations holds of every behaviour.
THEOREM RevocationsSound == Spec => []Sound
  <1>1. Init => Sound
    <2> SUFFICES ASSUME Init PROVE Sound
      OBVIOUS
    <2>1. \A r \in Requests : run[r] = IdleRun
      BY DEF Init
    <2>2. \A r \in Requests : RunSound(run[r])
      BY <2>1, IdleSound
    <2> QED BY <2>1, <2>2, InitType, IdleSound, LimitsAssumption DEF Init, Sound, Apart
  <1>2. Sound /\ UNCHANGED vars => Sound'
    <2> SUFFICES ASSUME Sound, UNCHANGED vars PROVE Sound'
      OBVIOUS
    <2>1. TypeOK'
      BY DEF Sound, TypeOK, vars
    <2>2. \A q \in Requests : RunSound(run[q])'
      BY DEF Sound, RunSound, OpAt, Revoking, Listed, Unborn, vars
    <2> QED BY <2>1, <2>2 DEF Sound, Apart, Listed, Unborn, vars
  <1> QED BY <1>1, <1>2, StepSound, PTL DEF Spec

\* A token called revoked stays in the blacklist until its age alone refuses it.
THEOREM ConfirmedStaysListed == Spec => []ConfirmedStayListed
  <1>1. Sound => ConfirmedStayListed
    BY DEF Sound, ConfirmedStayListed, Listed
  <1> QED BY <1>1, RevocationsSound, PTL

\* While no call fails by itself, a rejected logout from all devices lists what it collected.
THEOREM RejectedStillBar == Spec => []RejectedStillBars
  <1>1. Sound => RejectedStillBars
    BY DEF Sound, RunSound, Revoking, Listed, RejectedStillBars
  <1> QED BY <1>1, RevocationsSound, PTL

-----------------------------------------------------------------------------
(* Magic links                                                             *)

\* A run that deleted its link and has yet to answer.
Spent(x) == x.op = "magic" /\ x.pc \in {"sweep", "answer"}

\* A link is there until the one run that will answer with it has deleted it.
LinkSound ==
  /\ \A l \in Links : link[l] # "gone" => signIns[l] = 0
  /\ \A r \in Requests : Spent(run[r]) => link[run[r].link] = "gone" /\ signIns[run[r].link] = 0
  /\ \A r, q \in Requests : r # q /\ Spent(run[r]) /\ Spent(run[q]) => run[r].link # run[q].link

\* Deleting the link spends a run, answering ends it, and no other step does either.
Spending(r)  == Burn(r) /\ link[run[r].link] # "gone"
Answering(r) == Answer(r) /\ run[r].op = "magic"
Sparing == /\ signIns' = signIns
           /\ \A r \in Requests : Spent(run'[r]) => Spent(run[r]) /\ run'[r].link = run[r].link

\* Links that are gone never return.
LEMMA LinksGo ==
  ASSUME TypeOK, Next
  PROVE  \A l \in Links : link[l] = "gone" => link'[l] = "gone"
  <1>1. CASE link' = link
    BY <1>1
  <1>2. ASSUME NEW r \in Requests, Burn(r) \/ Sweep(r)
        PROVE  \A l \in Links : link[l] = "gone" => link'[l] = "gone"
    BY <1>2 DEF Burn, Sweep, Swept, TypeOK
  <1>3. CASE SweepLinks \/ \E l \in Links : ExpireLink(l)
    BY <1>3 DEF SweepLinks, Swept, ExpireLink, TypeOK
  <1> QED BY <1>1, <1>2, <1>3 DEF Next, Login, OpenLink, Refresh, Logout, RevokeAll, TrimDelete,
             Store, Find, Use, Drop, Collect, Bar, Barred, DropAll, Clean, CleanList, Answer,
             Abort, Expire

\* A step of one run is sparing if that run is not spent by it.
LEMMA OneSparing ==
  ASSUME NEW r \in Requests, signIns' = signIns,
         \A q \in Requests : q # r => run'[q] = run[q],
         ~Spent(run'[r])
  PROVE  Sparing
  BY DEF Sparing

\* Every step spends a run, answers for it, or spares it.
LEMMA SpendOrSpare ==
  ASSUME Sound, Next
  PROVE  Sparing \/ \E r \in Requests : Spending(r) \/ Answering(r)
  <1>r. run \in [Requests -> Run] /\ \A r \in Requests : run[r] \in Run /\ OpAt(run[r])
    BY DEF Sound, TypeOK, RunSound
  <1>1. ASSUME NEW r \in Requests, End(r), signIns' = signIns PROVE Sparing
    <2>1. run'[r] = IdleRun /\ \A q \in Requests : q # r => run'[q] = run[q]
      BY <1>r, <1>1 DEF End
    <2> QED BY <1>1, <2>1, IdleType, OneSparing DEF Spent
  <1>2. ASSUME NEW r \in Requests, NEW x, Start(r, x), signIns' = signIns,
               x.op # "magic" \/ x.pc = "store"
        PROVE  Sparing
    <2>1. run'[r] = x /\ \A q \in Requests : q # r => run'[q] = run[q]
      BY <1>r, <1>2, Moves
    <2> QED BY <1>2, <2>1, OneSparing DEF Spent
  <1>3. ASSUME NEW r \in Requests, NEW pc, Goto(r, pc), signIns' = signIns,
               run[r].op # "magic" \/ pc = "burn"
        PROVE  Sparing
    <2>1. /\ run'[r].pc = pc /\ run'[r].op = run[r].op
          /\ \A q \in Requests : q # r => run'[q] = run[q]
      BY <1>r, <1>3, Moves
    <2> QED BY <1>3, <2>1, OneSparing DEF Spent
  <1>4. ASSUME NEW r \in Requests, NEW s \in Sessions, Login(r, s) PROVE Sparing
    <2>1. PICK x : Start(r, x) /\ x.op = "login"
      <3> DEFINE y == [IdleRun EXCEPT !.op = "login", !.token = RT(s), !.todo = Old,
                                      !.pc = IF Old = {} THEN "store" ELSE "trimDelete"]
      <3>1. y.op = "login"
        BY DEF IdleRun
      <3>2. Start(r, y)
        BY <1>4 DEF Login
      <3> QED BY <3>1, <3>2
    <2> QED BY <1>2, <1>4, <2>1 DEF Login
  <1>5. ASSUME NEW r \in Requests, NEW s \in Sessions, NEW l \in Links, OpenLink(r, l, s)
        PROVE  Sparing
    BY <1>2, <1>5 DEF OpenLink, IdleRun
  <1>6. ASSUME NEW r \in Requests, NEW t \in issued,
               Refresh(r, t) \/ Logout(r, t) \/ RevokeAll(r, t)
        PROVE  Sparing
    BY <1>2, <1>6 DEF Refresh, Logout, RevokeAll, IdleRun
  <1>7. ASSUME NEW r \in Requests, Clean(r) PROVE Sparing
    BY <1>2, <1>7 DEF Clean, IdleRun
  <1>8. ASSUME NEW r \in Requests, TrimDelete(r) \/ Collect(r) \/ Bar(r) PROVE Sparing
    <2>1. /\ run'[r].op = run[r].op /\ signIns' = signIns
          /\ \A q \in Requests : q # r => run'[q] = run[q]
      <3>1. CASE TrimDelete(r) \/ Collect(r)
        BY <1>r, <3>1 DEF TrimDelete, Collect, Run
      <3>2. CASE Bar(r)
        BY <1>r, <3>2 DEF Bar, Run
      <3> QED BY <1>8, <3>1, <3>2
    <2>2. run[r].op # "magic"
      BY <1>r, <1>8 DEF TrimDelete, Collect, Bar, OpAt
    <2> QED BY <2>1, <2>2, OneSparing DEF Spent
  <1>9. ASSUME NEW r \in Requests, Store(r) PROVE Sparing
    BY <1>3, <1>9 DEF Store
  <1>10. ASSUME NEW r \in Requests, Burn(r) PROVE Sparing \/ Spending(r)
    BY <1>1, <1>10 DEF Burn, Spending
  <1>11. ASSUME NEW r \in Requests, Sweep(r) PROVE Sparing
    <2>1. /\ run'[r].link = run[r].link /\ signIns' = signIns
          /\ \A q \in Requests : q # r => run'[q] = run[q]
      BY <1>r, <1>11, Moves DEF Sweep
    <2>2. Spent(run[r])
      BY <1>r, <1>11 DEF Sweep, OpAt, Spent
    <2> QED BY <2>1, <2>2 DEF Sparing
  <1>12. ASSUME NEW r \in Requests, Find(r) \/ Drop(r) \/ Barred(r) \/ DropAll(r) PROVE Sparing
    <2>1. run[r].op # "magic"
      BY <1>r, <1>12 DEF Find, Drop, Barred, DropAll, OpAt
    <2> QED BY <1>1, <1>3, <1>12, <2>1 DEF Find, Drop, Barred, DropAll
  <1>13. ASSUME NEW r \in Requests, Use(r) PROVE Sparing
    <2>1. CASE End(r)
      BY <1>1, <1>13, <2>1 DEF Use
    <2>2. CASE run' = [run EXCEPT ![r].pc = "answer",
                         ![r].token = AT(run[r].token.sess, granted[run[r].token.sess] + 2)]
      <3>1. run'[r].op = run[r].op /\ \A q \in Requests : q # r => run'[q] = run[q]
        BY <1>r, <2>2 DEF Run
      <3>2. run[r].op # "magic" /\ signIns' = signIns
        BY <1>r, <1>13 DEF Use, OpAt
      <3> QED BY <3>1, <3>2, OneSparing DEF Spent
    <2> QED BY <1>13, <2>1, <2>2 DEF Use
  <1>14. ASSUME NEW r \in Requests, CleanList(r) \/ Abort(r) PROVE Sparing
    BY <1>1, <1>14 DEF CleanList, Abort
  <1>15. ASSUME NEW r \in Requests, Answer(r) PROVE Sparing \/ Answering(r)
    BY <1>1, <1>15 DEF Answer, Answering
  <1>16. CASE \/ \E t \in rows \cup issued : Expire(t)
              \/ \E l \in Links : ExpireLink(l)
              \/ SweepLinks
    BY <1>16 DEF Expire, ExpireLink, SweepLinks, Sparing
  <1> QED BY <1>4, <1>5, <1>6, <1>7, <1>8, <1>9, <1>10, <1>11, <1>12, <1>13, <1>14, <1>15,
             <1>16 DEF Next

\* Every step keeps a link's sign-in unique.
LEMMA StepLink ==
  ASSUME Sound, LinkSound, Next
  PROVE  LinkSound'
  <1>1. run \in [Requests -> Run] /\ signIns \in [Links -> Nat] /\ link \in [Links -> LinkStates]
    BY DEF Sound, TypeOK
  <1>2. /\ \A l \in Links : link[l] = "gone" => link'[l] = "gone"
        /\ \A r \in Requests : run[r].op = "magic" => run[r].link \in Links
    BY LinksGo DEF Sound, RunSound, OpAt
  <1>3. CASE Sparing
    <2>1. \A l \in Links : link'[l] # "gone" => signIns'[l] = 0
      BY <1>2, <1>3 DEF LinkSound, Sparing
    <2>2. \A r \in Requests : Spent(run'[r]) =>
            link'[run'[r].link] = "gone" /\ signIns'[run'[r].link] = 0
      BY <1>2, <1>3 DEF LinkSound, Sparing, Spent
    <2>3. \A r, q \in Requests : r # q /\ Spent(run'[r]) /\ Spent(run'[q]) =>
            run'[r].link # run'[q].link
      BY <1>3 DEF LinkSound, Sparing
    <2> QED BY <2>1, <2>2, <2>3 DEF LinkSound, Spent
  <1>4. ASSUME NEW r \in Requests, Spending(r) PROVE LinkSound'
    <2>1. /\ run'[r].link = run[r].link /\ \A q \in Requests : q # r => run'[q] = run[q]
          /\ signIns' = signIns /\ run[r].link \in Links /\ link[run[r].link] # "gone"
          /\ link' = [link EXCEPT ![run[r].link] = "gone"]
      BY <1>1, <1>2, <1>4, Moves DEF Spending, Burn, Sound, RunSound, OpAt
    <2>2. \A q \in Requests : q # r /\ Spent(run[q]) => run[q].link # run[r].link
      BY <2>1 DEF LinkSound
    <2>3. link'[run[r].link] = "gone" /\ signIns'[run[r].link] = 0
      BY <1>1, <2>1 DEF LinkSound
    <2> QED BY <1>2, <2>1, <2>2, <2>3 DEF LinkSound, Spent
  <1>5. ASSUME NEW r \in Requests, Answering(r) PROVE LinkSound'
    <2>1. /\ run'[r] = IdleRun /\ \A q \in Requests : q # r => run'[q] = run[q]
          /\ link' = link /\ Spent(run[r]) /\ run[r].link \in Links
          /\ signIns' = [signIns EXCEPT ![run[r].link] = @ + 1]
      BY <1>1, <1>2, <1>5 DEF Answering, Answer, End, Spent
    <2>2. ~Spent(run'[r])
      BY <2>1, IdleType DEF Spent
    <2>3. link[run[r].link] = "gone"
      BY <2>1 DEF LinkSound
    <2>4. \A q \in Requests : q # r /\ Spent(run[q]) =>
            run[q].link # run[r].link /\ run[q].link \in Links
      BY <1>2, <2>1 DEF LinkSound, Spent
    <2>5. \A l \in Links : l # run[r].link => signIns'[l] = signIns[l]
      BY <1>1, <2>1
    <2> QED BY <2>1, <2>2, <2>3, <2>4, <2>5 DEF LinkSound, Spent
  <1> QED BY <1>3, <1>4, <1>5, SpendOrSpare

\* A link has answered no sign-in while it exists, and its one answer deletes it first.
THEOREM LinksSound == Spec => []LinkSound
  <1>1. Init => LinkSound
    BY IdleType DEF Init, LinkSound, Spent
  <1>2. LinkSound /\ UNCHANGED vars => LinkSound'
    BY DEF LinkSound, Spent, vars
  <1> QED BY <1>1, <1>2, StepLink, RevocationsSound, PTL DEF Spec

-----------------------------------------------------------------------------
(* The requests keep the promises of SessionLife                           *)

\* The sessions whose revocation was confirmed, as SessionLife sees them.
ConfirmedSessions == {s \in Sessions : RT(s) \in confirmed}

\* What a session's life is, by its row and its birth.
LEMMA LifeStateIs ==
  /\ LifeState = [s \in Sessions |-> IF born[s] = 0 THEN "none"
                                     ELSE IF RT(s) \in rows THEN "open" ELSE "closed"]
  /\ LifeState' = [s \in Sessions |-> IF born'[s] = 0 THEN "none"
                                      ELSE IF RT(s) \in rows' THEN "open" ELSE "closed"]
  BY DEF LifeState, Unborn

\* A step that takes rows away, or does nothing to them, closes their sessions.
LEMMA ShrinkingCloses ==
  ASSUME Sound, rows' \subseteq rows, born' = born, granted' = granted,
         confirmed' = confirmed, signIns' = signIns
  PROVE  Life!Next
  <1> DEFINE S == {s \in Sessions : RT(s) \in rows /\ RT(s) \notin rows'}
  <1>1. \A s \in S : LifeState[s] = "open"
    BY LifeStateIs, TokenTypes DEF Sound, Unborn
  <1>2. LifeState' = [s \in Sessions |-> IF s \in S THEN "closed" ELSE LifeState[s]]
    <2>1. \A s \in Sessions : RT(s) \in rows => born[s] # 0
      BY TokenTypes DEF Sound, Unborn
    <2> QED BY <2>1, LifeStateIs
  <1>3. Life!Close(S)
    BY <1>1, <1>2 DEF Life!Close
  <1> QED BY <1>3 DEF Life!Next

\* Storing a row opens its session.
LEMMA StoringOpens ==
  ASSUME Sound, NEW r \in Requests, Store(r)
  PROVE  Life!Next
  <1>1. PICK s \in Sessions : Storing(s)
    BY StoreIsStoring
  <1>2. PICK n \in Nat \ {0} : born' = [born EXCEPT ![s] = n]
    BY <1>1 DEF Storing
  <1>3. born \in [Sessions -> Nat]
    BY DEF Sound, TypeOK
  <1>4. born[s] = 0 /\ rows' = rows \cup {RT(s)}
    BY <1>1 DEF Storing, Unborn
  <1>5. LifeState[s] = "none"
    BY <1>4, LifeStateIs
  <1>6. \A u \in Sessions : u # s => RT(u) # RT(s)
    BY TokenTypes
  <1>7. LifeState' = [LifeState EXCEPT ![s] = "open"]
    BY <1>2, <1>3, <1>4, <1>6, LifeStateIs
  <1>8. Life!Open(s)
    BY <1>5, <1>7 DEF Life!Open, Store
  <1> QED BY <1>8 DEF Life!Next

\* Counting the use of a row grants its session an access token.
LEMMA UsingGrants ==
  ASSUME Sound, NEW r \in Requests, Use(r)
  PROVE  Life!Next
  <1>1. CASE run[r].token \notin rows
    BY <1>1, ShrinkingCloses DEF Use
  <1>2. CASE run[r].token \in rows
    <2> DEFINE s == run[r].token.sess
    <2>1. s \in Sessions /\ RT(s) \in rows
      BY <1>2, TokenTypes DEF Sound
    <2>2. born[s] # 0
      BY <1>2 DEF Sound, Unborn
    <2>3. LifeState[s] = "open"
      BY <2>1, <2>2, LifeStateIs
    <2>4. granted' = [granted EXCEPT ![s] = @ + 1] /\ LifeState' = LifeState
      BY <1>2, LifeStateIs DEF Use
    <2>5. Life!Grant(s)
      BY <2>3, <2>4 DEF Life!Grant, Use
    <2> QED BY <2>1, <2>5 DEF Life!Next
  <1> QED BY <1>1, <1>2

\* A response confirms closed sessions, or is the one sign-in of its link.
LEMMA AnsweringKeeps ==
  ASSUME Sound, LinkSound, Next, NEW r \in Requests, Answer(r)
  PROVE  Life!Next
  <1>1. LifeState' = LifeState /\ granted' = granted /\ rows' = rows /\ born' = born
    BY LifeStateIs DEF Answer
  <1>2. CASE run[r].op = "magic"
    <2>1. Spent(run[r]) /\ run[r].link \in Links
      BY <1>2 DEF Answer, Spent, Sound, RunSound, OpAt
    <2>2. signIns[run[r].link] = 0 /\ signIns \in [Links -> Nat]
      BY <2>1 DEF LinkSound, Sound, TypeOK
    <2>3. signIns' = [signIns EXCEPT ![run[r].link] = 1]
      BY <1>2, <2>1, <2>2 DEF Answer
    <2>4. confirmed' = confirmed
      BY <1>2 DEF Answer
    <2>5. Life!SignIn(run[r].link)
      BY <1>1, <2>2, <2>3, <2>4 DEF Life!SignIn
    <2> QED BY <2>1, <2>5 DEF Life!Next
  <1>3. CASE run[r].op # "magic"
    <2>1. signIns' = signIns /\ confirmed \subseteq confirmed'
      BY <1>3 DEF Answer
    <2>2. \A s \in ConfirmedSessions' : LifeState[s] = "closed"
      <3>1. \A s \in ConfirmedSessions' : s \in Sessions /\ RT(s) \in confirmed'
        BY DEF ConfirmedSessions
      <3>2. \A t \in confirmed' : t \notin rows' /\ born'[t.sess] # 0
        BY StepSound DEF Sound, Unborn
      <3> QED BY <1>1, <3>1, <3>2, LifeStateIs, TokenTypes
    <2>3. ConfirmedSessions' = ConfirmedSessions \cup ConfirmedSessions'
      BY <2>1 DEF ConfirmedSessions
    <2>4. \E S \in SUBSET Sessions : Life!Confirm(S)
      <3>1. ConfirmedSessions' \in SUBSET Sessions
        BY DEF ConfirmedSessions
      <3> QED BY <1>1, <2>1, <2>2, <2>3, <3>1 DEF Life!Confirm, ConfirmedSessions
    <2> QED BY <2>4 DEF Life!Next
  <1> QED BY <1>2, <1>3

\* The requests together implement SessionLife: each step of theirs is a step of it, or
\* leaves what it sees alone.
THEOREM KeepsTheLife == Spec => KeepsLife
  <1>1. Init => Life!Init
    BY LifeStateIs DEF Init, Life!Init
  <1>2. ASSUME Sound, LinkSound, Next PROVE Life!Next
    <2>1. ASSUME NEW r \in Requests, Store(r) PROVE Life!Next
      BY <1>2, <2>1, StoringOpens
    <2>2. ASSUME NEW r \in Requests, Use(r) PROVE Life!Next
      BY <1>2, <2>2, UsingGrants
    <2>3. ASSUME NEW r \in Requests, Answer(r) PROVE Life!Next
      BY <1>2, <2>3, AnsweringKeeps
    <2>4. \/ \E r \in Requests : Store(r) \/ Use(r) \/ Answer(r)
          \/ granted' = granted /\ confirmed' = confirmed /\ signIns' = signIns
      BY <1>2 DEF Next, Login, OpenLink, Refresh, Logout, RevokeAll, TrimDelete, Burn, Sweep,
         Find, Drop, Collect, Bar, Barred, DropAll, Clean, CleanList, Abort, Expire,
         ExpireLink, SweepLinks
    <2> QED BY <1>2, <2>1, <2>2, <2>3, <2>4, RowsShrink, ShrinkingCloses
  <1>3. UNCHANGED vars => UNCHANGED Life!lifeVars
    BY LifeStateIs DEF vars, Life!lifeVars
  <1> QED BY <1>1, <1>2, <1>3, RevocationsSound, LinksSound, PTL DEF Spec, KeepsLife, Life!Spec

-----------------------------------------------------------------------------
(* Trimming                                                                *)

\* The sessions stored after a given moment.
Since(b) == {s \in Sessions : born[s] > b}

\* A row about to be trimmed was stored, and enough sessions after it.
TrimSound == \A r \in Requests : run[r].pc = "trimDelete" =>
               \A t \in run[r].todo : /\ t \in Token /\ born[t.sess] # 0
                                      /\ Cardinality(Since(born[t.sess])) >= MaxPerUser

\* The sessions since a moment are finitely many.
LEMMA SinceFinite ==
  /\ \A b : IsFiniteSet(Since(b)) /\ Cardinality(Since(b)) \in Nat
  /\ \A b : IsFiniteSet(Since(b)') /\ Cardinality(Since(b)') \in Nat
  <1>1. \A S \in SUBSET Sessions : IsFiniteSet(S) /\ Cardinality(S) \in Nat
    BY SessionsAssumption, FS_Subset, FS_CardinalityType
  <1> QED BY <1>1 DEF Since

\* No step takes a session from those stored since a moment.
LEMMA SinceGrows ==
  ASSUME Sound, Next, NEW b \in Nat
  PROVE  Cardinality(Since(b)) <= Cardinality(Since(b)')
  <1>1. born \in [Sessions -> Nat]
    BY DEF Sound, TypeOK
  <1>2. \A s \in Sessions : born[s] # 0 => born'[s] = born[s]
    <2>1. ASSUME NEW r \in Requests, Store(r)
          PROVE  \A s \in Sessions : born[s] # 0 => born'[s] = born[s]
      BY <1>1, <2>1, StoreIsStoring DEF Storing, Unborn
    <2> QED BY <2>1, RowsShrink
  <1>3. Since(b) \subseteq Since(b)'
    BY <1>1, <1>2 DEF Since
  <1> QED BY <1>3, SinceFinite, FS_Subset

\* The rows that are too many are older than enough sessions: rows are never more than
\* the sessions they belong to.
LEMMA OldTrimmed ==
  ASSUME Sound, NEW t \in Old
  PROVE  Cardinality(Since(born[t.sess])) >= MaxPerUser
  <1> DEFINE U == {u \in rows : born[u.sess] > born[t.sess]}
             S == Since(born[t.sess])
             f == [u \in U |-> u.sess]
  <1>1. f \in Injection(U, S)
    <2>1. \A u \in U : u.sess \in S /\ u = RT(u.sess)
      BY TokenTypes DEF Sound, Since
    <2> QED BY <2>1 DEF Injection, IsInjective
  <1>2. IsFiniteSet(U) /\ Cardinality(U) <= Cardinality(S)
    <2> HIDE DEF f, U, S
    <2>1. IsFiniteSet(S)
      BY SinceFinite DEF S
    <2> QED BY <1>1, <2>1, FS_Injection
  <1>3. Cardinality(U) \in Nat /\ Cardinality(S) \in Nat /\ Cardinality(U) >= MaxPerUser
    BY <1>2, SinceFinite, FS_CardinalityType DEF Old
  <1> QED BY <1>2, <1>3, LimitsAssumption

\* Only a sign-in that began, or has trimmed, is about to trim or to store.
LEMMA BegunAsChosen ==
  ASSUME TypeOK, Next, NEW q \in Requests, run'[q].pc \in Before
  PROVE  \/ run'[q] = run[q]
         \/ TrimDelete(q)
         \/ \E s \in Sessions : Login(q, s) \/ \E l \in Links : OpenLink(q, l, s)
  <1> USE DEF Before
  <1>r. run \in [Requests -> Run] /\ \A r \in Requests : run[r] \in Run
    BY DEF TypeOK
  <1>1. ASSUME NEW r \in Requests, End(r) PROVE run'[q] = run[q]
    <2>1. run'[r].pc = "idle" /\ (q # r => run'[q] = run[q])
      BY <1>r, <1>1, IdleType DEF End
    <2> QED BY <2>1
  <1>2. ASSUME NEW r \in Requests, NEW x, Start(r, x), x.pc \notin Before
        PROVE  run'[q] = run[q]
    BY <1>r, <1>2, Moves
  <1>3. ASSUME NEW r \in Requests, NEW pc, Goto(r, pc), pc \notin Before
        PROVE  run'[q] = run[q]
    BY <1>r, <1>3, Moves
  <1>4. ASSUME NEW r \in Requests, NEW s \in Sessions, Login(r, s)
        PROVE  run'[q] = run[q] \/ Login(q, s)
    BY <1>r, <1>4, Moves DEF Login
  <1>5. ASSUME NEW r \in Requests, NEW s \in Sessions, NEW l \in Links, OpenLink(r, l, s)
        PROVE  run'[q] = run[q] \/ OpenLink(q, l, s)
    BY <1>r, <1>5, Moves DEF OpenLink
  <1>6. ASSUME NEW r \in Requests, NEW t \in issued,
               Refresh(r, t) \/ Logout(r, t) \/ RevokeAll(r, t)
        PROVE  run'[q] = run[q]
    BY <1>2, <1>6 DEF Refresh, Logout, RevokeAll, IdleRun
  <1>7. ASSUME NEW r \in Requests, Clean(r) PROVE run'[q] = run[q]
    BY <1>2, <1>7 DEF Clean, IdleRun
  <1>8. ASSUME NEW r \in Requests, TrimDelete(r) \/ Collect(r)
        PROVE  run'[q] = run[q] \/ TrimDelete(q)
    BY <1>r, <1>8 DEF TrimDelete, Collect, Run
  <1>9. ASSUME NEW r \in Requests, Bar(r) PROVE run'[q] = run[q]
    <2>1. run'[r].pc = run[r].pc /\ run[r].pc = "bar" /\ (q # r => run'[q] = run[q])
      BY <1>r, <1>9 DEF Bar, Run
    <2> QED BY <2>1
  <1>10. ASSUME NEW r \in Requests, Use(r) PROVE run'[q] = run[q]
    BY <1>r, <1>1, <1>10 DEF Use, Run
  <1>11. ASSUME NEW r \in Requests,
                \/ Store(r) \/ Burn(r) \/ Sweep(r) \/ Find(r) \/ Drop(r) \/ Barred(r)
                \/ DropAll(r) \/ CleanList(r) \/ Answer(r) \/ Abort(r)
         PROVE  run'[q] = run[q]
    BY <1>1, <1>3, <1>11 DEF Store, Burn, Sweep, Find, Drop, Barred, DropAll, CleanList,
       Answer, Abort
  <1>12. CASE \/ \E t \in rows \cup issued : Expire(t)
              \/ \E l \in Links : ExpireLink(l)
              \/ SweepLinks
    BY <1>12 DEF Expire, ExpireLink, SweepLinks
  <1> QED BY <1>4, <1>5, <1>6, <1>7, <1>8, <1>9, <1>10, <1>11, <1>12 DEF Next

\* A login begins by choosing what it will trim.
LEMMA LoginLooks ==
  ASSUME run \in [Requests -> Run], NEW r \in Requests, NEW s \in Sessions, Login(r, s)
  PROVE  /\ run'[r].todo = Old /\ rows' = rows /\ born' = born
         /\ run'[r].pc = IF Old = {} THEN "store" ELSE "trimDelete"
  <1>1. run'[r] = [IdleRun EXCEPT !.op = "login", !.token = RT(s), !.todo = Old,
                                  !.pc = IF Old = {} THEN "store" ELSE "trimDelete"]
    BY Moves DEF Login
  <1> QED BY <1>1 DEF IdleRun, Login

\* What a run is about to trim it chose when it began.
LEMMA TrimsAsChosen ==
  ASSUME TypeOK, Next, NEW q \in Requests, run'[q].pc = "trimDelete"
  PROVE  \/ run'[q] = run[q]
         \/ run'[q].todo = Old /\ born' = born
  <1>r. run \in [Requests -> Run] /\ run[q] \in Run
    BY DEF TypeOK
  <1>1. ~TrimDelete(q)
    BY <1>r DEF TrimDelete, Run
  <1>2. ASSUME NEW s \in Sessions, Login(q, s) PROVE run'[q].todo = Old /\ born' = born
    BY <1>r, <1>2, LoginLooks
  <1>3. ASSUME NEW s \in Sessions, NEW l \in Links, OpenLink(q, l, s) PROVE FALSE
    <2>1. run'[q] = [IdleRun EXCEPT !.op = "magic", !.pc = "store", !.token = RT(s), !.link = l]
      BY <1>r, <1>3, Moves DEF OpenLink
    <2> QED BY <2>1 DEF IdleRun
  <1> QED BY <1>1, <1>2, <1>3, BegunAsChosen DEF Before

\* Every step keeps what is about to be trimmed old.
LEMMA StepTrim ==
  ASSUME Sound, TrimSound, Next
  PROVE  TrimSound'
  <1> SUFFICES ASSUME NEW q \in Requests, run'[q].pc = "trimDelete", NEW t \in run'[q].todo
               PROVE  /\ t \in Token /\ born'[t.sess] # 0
                      /\ Cardinality(Since(born[t.sess])') >= MaxPerUser
    BY DEF TrimSound
  <1>1. /\ t \in Token /\ born[t.sess] # 0
        /\ Cardinality(Since(born[t.sess])) >= MaxPerUser
    <2>1. CASE run'[q] = run[q]
      BY <2>1 DEF TrimSound
    <2>2. CASE run'[q].todo = Old
      BY <2>2, OldTrimmed, TokenTypes DEF Old, Sound, Unborn
    <2> QED BY <2>1, <2>2, TrimsAsChosen DEF Sound
  <1>2. born'[t.sess] = born[t.sess]
    <2>1. t.sess \in Sessions /\ born \in [Sessions -> Nat]
      BY <1>1, TokenTypes DEF Sound, TypeOK
    <2>2. ASSUME NEW r \in Requests, Store(r) PROVE born'[t.sess] = born[t.sess]
      BY <1>1, <2>1, <2>2, StoreIsStoring DEF Storing, Unborn
    <2> QED BY <2>2, RowsShrink
  <1>3. \A b \in Nat : Cardinality(Since(b)) >= MaxPerUser =>
                       Cardinality(Since(b)') >= MaxPerUser
    BY SinceGrows, SinceFinite, LimitsAssumption
  <1> QED BY <1>1, <1>2, <1>3, TokenTypes DEF Sound, TypeOK

\* A session about to be trimmed is older than MaxPerUser others.
THEOREM OnlyTheOldAreTrimmed == Spec => []OnlyOldTrimmed
  <1>1. Init => TrimSound
    BY IdleType DEF Init, TrimSound
  <1>2. TrimSound /\ UNCHANGED vars => TrimSound'
    BY DEF TrimSound, Since, vars
  <1>3. TrimSound => OnlyOldTrimmed
    BY DEF TrimSound, OnlyOldTrimmed, Since
  <1> QED BY <1>1, <1>2, <1>3, StepTrim, RevocationsSound, PTL DEF Spec

-----------------------------------------------------------------------------
(* How many sessions                                                       *)

\* The rows stored by a given moment.
UpTo(b) == {t \in rows : born[t.sess] <= b}

\* The rows are stored one after the other.
Births == /\ \A s \in Sessions : born[s] <= Clock
          /\ \A s, u \in Sessions : born[s] = born[u] /\ born[s] # 0 => s = u

\* When each request stored last.  Whatever row is none of those has MaxPerUser rows at most
\* behind it, itself included, since the request that stored it has looked again; and a
\* request that has looked, or looked and trimmed, knows this of the row it stored last.
LastStores(f) ==
  /\ \A r \in Requests : f[r] <= Clock
  /\ \A t \in rows : \/ \E r \in Requests : born[t.sess] = f[r]
                     \/ Cardinality(UpTo(born[t.sess])) <= MaxPerUser
  /\ \A r \in Requests : run[r].pc = "store" => Cardinality(UpTo(f[r])) <= MaxPerUser
  /\ \A r \in Requests : run[r].pc = "trimDelete" =>
                           Cardinality(UpTo(f[r]) \ run[r].todo) <= MaxPerUser

\* The inductive invariant.
Few == /\ Births
       /\ Links = {} => \E f \in [Requests -> Nat] : LastStores(f)

\* A set of numbers has a least one.
LEMMA Least ==
  ASSUME NEW S \in SUBSET Nat, S # {}
  PROVE  \E n \in S : \A m \in S : n <= m
  <1> DEFINE R == OpToRel(<, Nat)
  <1>1. IsWellFoundedOn(R, Nat)
    BY NatLessThanWellFounded
  <1> HIDE DEF R
  <1>2. PICK n \in S : \A m \in S : ~(<<m, n>> \in R)
    BY <1>1, WFMin
  <1>3. \A m \in S : ~(m < n)
    BY <1>2 DEF R, OpToRel
  <1> QED BY <1>3

\* The rows are finitely many, and each has a number of its own.
LEMMA RowsNumbered ==
  ASSUME Sound, Births
  PROVE  /\ \A T \in SUBSET rows : IsFiniteSet(T) /\ Cardinality(T) \in Nat
         /\ \A T \in SUBSET rows : \A V \in SUBSET T : Cardinality(V) <= Cardinality(T)
         /\ \A t \in rows : born[t.sess] \in Nat \ {0} /\ born[t.sess] <= Clock
         /\ \A t, u \in rows : born[t.sess] = born[u.sess] => t = u
  <1> DEFINE f == [t \in rows |-> t.sess]
  <1>1. \A t \in rows : t.sess \in Sessions /\ t = RT(t.sess) /\ born[t.sess] # 0
    BY TokenTypes DEF Sound, Unborn
  <1>2. f \in Injection(rows, Sessions)
    BY <1>1 DEF Injection, IsInjective
  <1>3. IsFiniteSet(rows)
    <2> HIDE DEF f
    <2> QED BY <1>2, SessionsAssumption, FS_Injection
  <1>4. \A T \in SUBSET rows : IsFiniteSet(T) /\ Cardinality(T) \in Nat
    BY <1>3, FS_Subset, FS_CardinalityType
  <1>5. \A T \in SUBSET rows : \A V \in SUBSET T : Cardinality(V) <= Cardinality(T)
    BY <1>4, FS_Subset
  <1>6. born \in [Sessions -> Nat]
    BY DEF Sound, TypeOK
  <1>7. \A t, u \in rows : born[t.sess] = born[u.sess] => t = u
    BY <1>1 DEF Births
  <1> QED BY <1>1, <1>4, <1>5, <1>6, <1>7 DEF Births

\* A look finds all but MaxPerUser rows too many.
LEMMA OldLeavesFew ==
  ASSUME Sound, Births
  PROVE  Cardinality(rows \ Old) <= MaxPerUser
  <1> DEFINE K == rows \ Old
             B == {born[t.sess] : t \in K}
  <1>1. CASE K = {}
    BY <1>1, FS_EmptySet, LimitsAssumption
  <1>2. CASE K # {}
    <2>1. B \in SUBSET Nat /\ B # {}
      BY <1>2, RowsNumbered
    <2>2. PICK n \in B : \A m \in B : n <= m
      <3> HIDE DEF B
      <3> QED BY <2>1, Least
    <2>3. PICK t \in K : born[t.sess] = n
      BY DEF B
    <2> DEFINE N == {u \in rows : born[u.sess] > born[t.sess]}
    <2>4. K \ {t} \subseteq N
      BY <2>2, <2>3, RowsNumbered
    <2>5. Cardinality(N) \in Nat /\ Cardinality(N) < MaxPerUser
      BY RowsNumbered, LimitsAssumption DEF Old
    <2>6. /\ IsFiniteSet(K) /\ Cardinality(K) \in Nat
          /\ N \in SUBSET rows /\ K \ {t} \in SUBSET N
      BY <2>4, RowsNumbered
    <2>7. Cardinality(K \ {t}) <= Cardinality(N)
      BY <2>6, RowsNumbered
    <2> HIDE DEF K, N
    <2>8. Cardinality(K \ {t}) = Cardinality(K) - 1
      BY <2>6, FS_RemoveElement
    <2>9. Cardinality(K) <= MaxPerUser
      BY <2>5, <2>6, <2>7, <2>8, LimitsAssumption
    <2> QED BY <2>9 DEF K
  <1> QED BY <1>1, <1>2

\* Storing gives the session the next number.
LEMMA StoreNumbers ==
  ASSUME Sound, NEW r \in Requests, Store(r)
  PROVE  \E s \in Sessions :
           /\ born[s] = 0 /\ born' = [born EXCEPT ![s] = Clock + 1] /\ Clock' = Clock + 1
           /\ rows' = rows \cup {RT(s)}
  <1> DEFINE s == run[r].token.sess
             S == {u \in Sessions : ~Unborn(u)}
  <1>1. s \in Sessions /\ born[s] = 0 /\ rows' = rows \cup {RT(s)}
    BY StoreIsStoring DEF Storing, Unborn
  <1>2. born' = [born EXCEPT ![s] = Clock + 1] /\ born \in [Sessions -> Nat] /\ Clock \in Nat
    BY ClockType DEF Store, Sound, TypeOK
  <1>3. S' = S \cup {s} /\ s \notin S
    <2>1. \A u \in Sessions : born'[u] = IF u = s THEN Clock + 1 ELSE born[u]
      BY <1>1, <1>2
    <2>2. S' = {u \in Sessions : born'[u] # 0} /\ S = {u \in Sessions : born[u] # 0}
      BY DEF Unborn
    <2>3. Clock + 1 # 0
      BY <1>2
    <2> HIDE DEF S, s
    <2> QED BY <1>1, <2>1, <2>2, <2>3
  <1>4. IsFiniteSet(S)
    BY SessionsAssumption, FS_Subset
  <1>5. Clock = Cardinality(S) /\ Clock' = Cardinality(S')
    BY DEF Clock
  <1>6. Clock' = Clock + 1
    <2> HIDE DEF S, s
    <2> QED BY <1>3, <1>4, <1>5, FS_AddElement
  <1> QED BY <1>1, <1>2, <1>6

\* Every step numbers the rows on.
LEMMA StepBirths ==
  ASSUME Sound, Births, Next
  PROVE  Births'
  <1>r. born \in [Sessions -> Nat] /\ Clock \in Nat
    BY ClockType DEF Sound, TypeOK
  <1>1. ASSUME NEW r \in Requests, Store(r) PROVE Births'
    <2>1. PICK s \in Sessions :
            born[s] = 0 /\ born' = [born EXCEPT ![s] = Clock + 1] /\ Clock' = Clock + 1
      BY <1>1, StoreNumbers
    <2>2. born'[s] = Clock + 1 /\ \A u \in Sessions \ {s} : born'[u] = born[u]
      BY <1>r, <2>1
    <2>3. \A u \in Sessions : born'[u] <= Clock'
      BY <1>r, <2>1, <2>2 DEF Births
    <2>4. \A u \in Sessions \ {s} : born'[u] # born'[s]
      BY <1>r, <2>2 DEF Births
    <2> QED BY <2>2, <2>3, <2>4 DEF Births
  <1>2. ASSUME born' = born PROVE Births'
    <2>1. Clock' = Clock
      BY <1>2 DEF Clock, Unborn
    <2> QED BY <1>2, <2>1 DEF Births
  <1> QED BY <1>1, <1>2, RowsShrink

\* A step that takes rows away, or none, leaves of each request's last row no more behind it.
LEMMA LastKept ==
  ASSUME Sound, Births, NEW f \in [Requests -> Nat], LastStores(f),
         rows' \subseteq rows, born' = born,
         \A q \in Requests : run'[q].pc \in Before =>
           \/ run'[q] = run[q]
           \/ run'[q].pc = "store" /\ Cardinality(UpTo(f[q])') <= MaxPerUser
           \/ run'[q].pc = "trimDelete" /\ Cardinality(UpTo(f[q])' \ run'[q].todo) <= MaxPerUser
  PROVE  LastStores(f)'
  <1> DEFINE V(b) == UpTo(b)
             W(b) == {u \in rows' : born'[u.sess] <= b}
  <1>1. Clock' = Clock
    BY DEF Clock, Unborn
  <1>2. \A b : W(b) \in SUBSET V(b) /\ V(b) \in SUBSET rows
    BY DEF UpTo
  <1> HIDE DEF V, W
  <1>3. ASSUME NEW b, NEW D, Cardinality(V(b) \ D) <= MaxPerUser
        PROVE  Cardinality(W(b) \ D) <= MaxPerUser
    <2>1. /\ V(b) \ D \in SUBSET rows /\ W(b) \ D \in SUBSET (V(b) \ D)
          /\ W(b) \ D \in SUBSET rows
      BY <1>2
    <2> DEFINE c == Cardinality(W(b) \ D)
               d == Cardinality(V(b) \ D)
    <2>2. c <= d /\ c \in Nat /\ d \in Nat
      BY <2>1, RowsNumbered
    <2>3. d <= MaxPerUser
      BY <1>3
    <2> HIDE DEF c, d
    <2>4. c <= MaxPerUser
      BY <2>2, <2>3, LimitsAssumption
    <2> QED BY <2>4 DEF c
  <1>n. \A S : S \ {} = S
    OBVIOUS
  <1>4. ASSUME NEW b, Cardinality(V(b)) <= MaxPerUser
        PROVE  Cardinality(W(b)) <= MaxPerUser
    <2>1. Cardinality(V(b) \ {}) <= MaxPerUser
      BY <1>n, <1>4
    <2>2. Cardinality(W(b) \ {}) <= MaxPerUser
      BY <1>3, <2>1
    <2> QED BY <1>n, <2>2
  <1>5. \A t \in rows' : \/ \E r \in Requests : born'[t.sess] = f[r]
                         \/ Cardinality(UpTo(born[t.sess])') <= MaxPerUser
    <2> TAKE t \in rows'
    <2> SUFFICES ASSUME \A r \in Requests : born[t.sess] # f[r]
                 PROVE  Cardinality(W(born[t.sess])) <= MaxPerUser
      BY DEF UpTo, W
    <2>1. Cardinality(V(born[t.sess])) <= MaxPerUser
      BY DEF LastStores, V
    <2> QED BY <1>4, <2>1
  <1>6. \A q \in Requests : run'[q].pc = "store" => Cardinality(UpTo(f[q])') <= MaxPerUser
    <2> TAKE q \in Requests
    <2> HAVE run'[q].pc = "store"
    <2>1. CASE run'[q] = run[q]
      <3>1. Cardinality(V(f[q])) <= MaxPerUser
        BY <2>1 DEF LastStores, V
      <3>2. Cardinality(W(f[q])) <= MaxPerUser
        BY <1>4, <3>1
      <3> QED BY <3>2 DEF UpTo, W
    <2> QED BY <2>1 DEF Before
  <1>7. \A q \in Requests : run'[q].pc = "trimDelete" =>
          Cardinality(UpTo(f[q])' \ run'[q].todo) <= MaxPerUser
    <2> TAKE q \in Requests
    <2> HAVE run'[q].pc = "trimDelete"
    <2>1. CASE run'[q] = run[q]
      <3>1. Cardinality(V(f[q]) \ run'[q].todo) <= MaxPerUser
        BY <2>1 DEF LastStores, V
      <3>2. Cardinality(W(f[q]) \ run'[q].todo) <= MaxPerUser
        BY <1>3, <3>1
      <3> QED BY <3>2 DEF UpTo, W
    <2> QED BY <2>1 DEF Before
  <1> QED
    BY <1>1, <1>5, <1>6, <1>7 DEF LastStores

\* A request that stores takes its new row for its last: of the old one it knew enough.
LEMMA LastStored ==
  ASSUME Sound, Births, NEW f \in [Requests -> Nat], LastStores(f),
         NEW r \in Requests, Store(r)
  PROVE  \E g \in [Requests -> Nat] : LastStores(g)'
  <1>r. /\ run \in [Requests -> Run] /\ born \in [Sessions -> Nat] /\ Clock \in Nat
        /\ \A t \in rows : t.sess \in Sessions /\ born[t.sess] # 0
    BY ClockType, TokenTypes DEF Sound, TypeOK, Unborn
  <1>1. PICK s \in Sessions : /\ born[s] = 0 /\ born' = [born EXCEPT ![s] = Clock + 1]
                              /\ Clock' = Clock + 1 /\ rows' = rows \cup {RT(s)}
    BY StoreNumbers
  <1>2. PICK g \in [Requests -> Nat] :
          g[r] = Clock + 1 /\ \A q \in Requests \ {r} : g[q] = f[q]
    <2>1. [f EXCEPT ![r] = Clock + 1] \in [Requests -> Nat]
      BY <1>r
    <2> QED BY <2>1
  <1>3. /\ run[r].pc = "store" /\ run'[r].pc \notin Before
        /\ \A q \in Requests \ {r} : run'[q] = run[q]
    BY <1>r, Moves DEF Store, Before
  <1>4. /\ \A t \in rows : born'[t.sess] = born[t.sess] /\ born[t.sess] <= Clock
        /\ born'[RT(s).sess] = Clock + 1
    BY <1>r, <1>1, TokenTypes DEF Births
  <1>5. \A b \in Nat : b <= Clock => UpTo(b)' = UpTo(b)
    BY <1>r, <1>1, <1>4 DEF UpTo
  <1>6. \A q \in Requests : f[q] \in Nat /\ f[q] <= Clock
    BY DEF LastStores
  <1>7. \A q \in Requests : g[q] <= Clock'
    BY <1>r, <1>1, <1>2, <1>6
  <1>8. ASSUME NEW t \in rows', \A q \in Requests : born'[t.sess] # g[q]
        PROVE  Cardinality(UpTo(born[t.sess])') <= MaxPerUser
    <2>1. t \in rows /\ born'[t.sess] = born[t.sess] /\ born[t.sess] \in Nat
          /\ born[t.sess] <= Clock
      BY <1>r, <1>1, <1>2, <1>4, <1>8
    <2>2. Cardinality(UpTo(born[t.sess])) <= MaxPerUser
      <3>1. CASE born[t.sess] = f[r]
        BY <1>3, <3>1 DEF LastStores
      <3>2. CASE born[t.sess] # f[r]
        BY <1>2, <1>8, <2>1, <3>2 DEF LastStores
      <3> QED BY <3>1, <3>2
    <2>3. UpTo(born[t.sess])' = UpTo(born[t.sess])
      <3>1. \A b \in Nat : b = born[t.sess] => UpTo(b)' = {u \in rows' : born'[u.sess] <= b}
        BY DEF UpTo
      <3>2. UpTo(born[t.sess])' = {u \in rows' : born'[u.sess] <= born'[t.sess]}
        BY DEF UpTo
      <3> QED BY <1>5, <2>1, <3>1, <3>2
    <2> QED BY <2>2, <2>3
  <1>9. ASSUME NEW q \in Requests, run'[q].pc \in Before
        PROVE  /\ run'[q] = run[q] /\ g[q] = f[q]
               /\ {u \in rows' : born'[u.sess] <= f[q]} = UpTo(f[q])
    <2>1. run'[q] = run[q] /\ g[q] = f[q]
      BY <1>2, <1>3, <1>9
    <2>2. UpTo(f[q])' = UpTo(f[q])
      BY <1>5, <1>6
    <2> QED BY <2>1, <2>2 DEF UpTo
  <1>10. LastStores(g)'
    <2>1. ASSUME NEW q \in Requests, run'[q].pc = "store"
          PROVE  Cardinality(UpTo(g[q])') <= MaxPerUser
      <3>1. Cardinality(UpTo(f[q])) <= MaxPerUser
        BY <1>9, <2>1 DEF LastStores, Before
      <3>2. Cardinality({u \in rows' : born'[u.sess] <= g[q]}) <= MaxPerUser
        BY <1>9, <2>1, <3>1 DEF Before
      <3> QED BY <3>2 DEF UpTo
    <2>2. ASSUME NEW q \in Requests, run'[q].pc = "trimDelete"
          PROVE  Cardinality(UpTo(g[q])' \ run'[q].todo) <= MaxPerUser
      <3>1. Cardinality(UpTo(f[q]) \ run[q].todo) <= MaxPerUser
        BY <1>9, <2>2 DEF LastStores, Before
      <3>2. Cardinality({u \in rows' : born'[u.sess] <= g[q]} \ run'[q].todo) <= MaxPerUser
        BY <1>9, <2>2, <3>1 DEF Before
      <3> QED BY <3>2 DEF UpTo
    <2> QED BY <1>7, <1>8, <2>1, <2>2 DEF LastStores
  <1> QED BY <1>10

\* Every step keeps the rows few.
LEMMA StepFew ==
  ASSUME Sound, Few, Next
  PROVE  Few'
  <1> SUFFICES ASSUME Links = {} PROVE \E g \in [Requests -> Nat] : LastStores(g)'
    BY StepBirths DEF Few
  <1>1. Births /\ run \in [Requests -> Run]
    BY DEF Few, Sound, TypeOK
  <1>2. PICK f \in [Requests -> Nat] : LastStores(f)
    BY DEF Few
  <1>3. CASE \E r \in Requests : Store(r)
    BY <1>1, <1>2, <1>3, LastStored
  <1>4. CASE rows' \subseteq rows /\ born' = born
    <2>1. ASSUME NEW q \in Requests, run'[q].pc \in Before
          PROVE  \/ run'[q] = run[q]
                 \/ run'[q].pc = "store" /\ Cardinality(UpTo(f[q])') <= MaxPerUser
                 \/ run'[q].pc = "trimDelete"
                      /\ Cardinality(UpTo(f[q])' \ run'[q].todo) <= MaxPerUser
      <3>1. CASE TrimDelete(q)
        <4>1. /\ run[q].pc = "trimDelete" /\ run'[q].pc = "store"
              /\ rows' = rows \ run[q].todo
          BY <1>1, <3>1 DEF TrimDelete, Run
        <4>2. UpTo(f[q])' = UpTo(f[q]) \ run[q].todo
          BY <1>4, <4>1 DEF UpTo
        <4> QED BY <1>2, <4>1, <4>2 DEF LastStores
      <3>2. ASSUME NEW s \in Sessions, Login(q, s)
            PROVE  \/ run'[q].pc = "store" /\ Cardinality(UpTo(f[q])') <= MaxPerUser
                   \/ run'[q].pc = "trimDelete"
                        /\ Cardinality(UpTo(f[q])' \ run'[q].todo) <= MaxPerUser
        <4>1. /\ run'[q].todo = Old /\ rows' = rows
              /\ run'[q].pc = IF Old = {} THEN "store" ELSE "trimDelete"
          BY <1>1, <3>2, LoginLooks
        <4>2. UpTo(f[q])' \ Old \in SUBSET (rows \ Old) /\ rows \ Old \in SUBSET rows
          BY <4>1 DEF UpTo
        <4>3. /\ Cardinality(UpTo(f[q])' \ Old) <= Cardinality(rows \ Old)
              /\ Cardinality(rows \ Old) <= MaxPerUser
              /\ Cardinality(rows \ Old) \in Nat /\ Cardinality(UpTo(f[q])' \ Old) \in Nat
          BY <1>1, <4>2, RowsNumbered, OldLeavesFew
        <4>4. Cardinality(UpTo(f[q])' \ Old) <= MaxPerUser
          BY <4>3, LimitsAssumption
        <4>5. Old = {} => UpTo(f[q])' \ Old = UpTo(f[q])'
          OBVIOUS
        <4> QED BY <4>1, <4>4, <4>5
      <3> QED BY <2>1, <3>1, <3>2, BegunAsChosen DEF Sound
    <2> QED BY <1>1, <1>2, <1>4, <2>1, LastKept
  <1> QED BY <1>3, <1>4, RowsShrink

\* Where the rows are numbered, few are those of last stores, and few the others.
LEMMA FewImplies ==
  ASSUME Sound, Few
  PROVE  FewSessions
  <1> SUFFICES ASSUME Links = {}
               PROVE  Cardinality(rows) <= MaxPerUser + Cardinality(Requests)
    BY DEF FewSessions
  <1>1. PICK f \in [Requests -> Nat] : LastStores(f)
    BY DEF Few
  <1> DEFINE I == {t \in rows : \E r \in Requests : born[t.sess] = f[r]}
             U == rows \ I
             B == {Clock - born[t.sess] : t \in U}
             g == [t \in I |-> CHOOSE r \in Requests : born[t.sess] = f[r]]
  <1>2. /\ IsFiniteSet(I) /\ IsFiniteSet(U) /\ rows = I \cup U /\ I \cap U = {}
        /\ Cardinality(I) \in Nat /\ Cardinality(U) \in Nat /\ Cardinality(rows) \in Nat
    <2>1. I \in SUBSET rows /\ U \in SUBSET rows /\ rows = I \cup U /\ I \cap U = {}
      OBVIOUS
    <2> QED BY <2>1, RowsNumbered DEF Few
  <1>3. Cardinality(I) <= Cardinality(Requests)
    <2>1. \A t \in I : g[t] \in Requests /\ born[t.sess] = f[g[t]]
      OBVIOUS
    <2>2. g \in [I -> Requests]
      BY <2>1
    <2>3. \A t, u \in I : g[t] = g[u] => t = u
      BY <2>1, RowsNumbered DEF Few
    <2> HIDE DEF g, I
    <2>4. g \in Injection(I, Requests)
      BY <2>2, <2>3 DEF Injection, IsInjective
    <2> QED BY <2>4, SessionsAssumption, FS_Injection
  <1>4. Cardinality(U) <= MaxPerUser
    <2>1. CASE U = {}
      BY <2>1, FS_EmptySet, LimitsAssumption
    <2>2. CASE U # {}
      <3>r. \A t \in U : t \in rows /\ born[t.sess] \in Nat /\ Clock - born[t.sess] \in Nat
        BY RowsNumbered, ClockType DEF Few
      <3>1. B \in SUBSET Nat /\ B # {}
        BY <2>2, <3>r
      <3>2. PICK n \in B : \A m \in B : n <= m
        <4> HIDE DEF B
        <4> QED BY <3>1, Least
      <3>3. PICK t \in U : n = Clock - born[t.sess]
        BY DEF B
      <3>4. \A u \in U : born[u.sess] <= born[t.sess]
        <4>1. \A u \in U : n <= Clock - born[u.sess]
          BY <3>2 DEF B
        <4> QED BY <3>r, <3>3, <4>1, ClockType
      <3>5. U \in SUBSET UpTo(born[t.sess]) /\ UpTo(born[t.sess]) \in SUBSET rows
        BY <3>4 DEF UpTo
      <3>6. Cardinality(UpTo(born[t.sess])) <= MaxPerUser
        BY <1>1, <3>3 DEF LastStores
      <3>7. Cardinality(U) <= Cardinality(UpTo(born[t.sess]))
            /\ Cardinality(UpTo(born[t.sess])) \in Nat
        BY <3>5, RowsNumbered DEF Few
      <3> QED BY <1>2, <3>6, <3>7, LimitsAssumption
    <2> QED BY <2>1, <2>2
  <1>5. Cardinality(rows) <= Cardinality(I) + Cardinality(U)
    <2> HIDE DEF I, U
    <2>1. Cardinality(I \cup U) = Cardinality(I) + Cardinality(U) - Cardinality(I \cap U)
      BY <1>2, FS_Union
    <2> QED BY <1>2, <2>1, FS_EmptySet
  <1>6. Cardinality(Requests) \in Nat
    BY SessionsAssumption, FS_CardinalityType
  <1> HIDE DEF I, U
  <1> QED BY <1>2, <1>3, <1>4, <1>5, <1>6, LimitsAssumption

\* A user whose sign-ins all trim has at most one session too many for each request that may
\* be in flight, however they overlap and fail (jwt-token.service.ts: cleanupOldRefreshTokens).
THEOREM SessionsAreFew == Spec => []FewSessions
  <1>1. Init => Few
    <2> SUFFICES ASSUME Init PROVE Few
      OBVIOUS
    <2> DEFINE f == [r \in Requests |-> 0]
    <2>1. Births
      BY ClockType DEF Init, Births
    <2>2. \A b : UpTo(b) = {} /\ rows = {}
      BY DEF Init, UpTo
    <2>3. \A r \in Requests : run[r].pc = "idle"
      BY IdleType DEF Init
    <2>4. f \in [Requests -> Nat] /\ \A r \in Requests : f[r] <= Clock
      BY ClockType
    <2> HIDE DEF f
    <2>5. LastStores(f)
      BY <2>2, <2>3, <2>4 DEF LastStores
    <2> QED BY <2>1, <2>4, <2>5 DEF Few
  <1>2. Few /\ UNCHANGED vars => Few'
    <2> SUFFICES ASSUME Few, UNCHANGED vars PROVE Few'
      OBVIOUS
    <2>1. Clock' = Clock /\ \A b : UpTo(b)' = UpTo(b)
      BY DEF vars, Clock, Unborn, UpTo
    <2>2. Births'
      BY <2>1 DEF Few, Births, vars
    <2>3. ASSUME NEW f \in [Requests -> Nat], LastStores(f) PROVE LastStores(f)'
      BY <2>1, <2>3 DEF LastStores, vars
    <2> QED BY <2>2, <2>3 DEF Few
  <1> QED BY <1>1, <1>2, StepFew, FewImplies, RevocationsSound, PTL DEF Spec
=============================================================================
