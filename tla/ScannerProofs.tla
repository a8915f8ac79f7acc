---------------------------- MODULE ScannerProofs ----------------------------
(***************************************************************************)
(* Proofs about module Scanner, for every set of workers, targets, checks   *)
(* and every number of tiers.                                               *)
(*                                                                          *)
(* First that a scan is a client the work queue was built for: every step   *)
(* of a scan is a step of Worklist or leaves the queue alone, so that what  *)
(* is proved of Worklist holds of the queue inside a scan.  Then, on top of *)
(* the queue's own invariants, that a scan walks every accepted target      *)
(* through every tier, that the barrier before the last tier covers all     *)
(* that was accepted, and that nothing is left over when a scan returns.    *)
(***************************************************************************)
EXTENDS Scanner, WorklistProofs

-----------------------------------------------------------------------------
(* The inductive invariant, in named parts.                                 *)

\* Scanner's own variables have their types.
Typed ==
  /\ feed \subseteq Crawled
  /\ feeding \in Crawled \cup {None}
  /\ pageByKey \subseteq Keys
  /\ stage \in [Actors -> SourceStages \cup WorkerStages]
  /\ todo \in [Workers -> SUBSET Checks]
  /\ running \in [Workers -> SUBSET Checks]
  /\ sending \in [Workers -> SUBSET Checks]
  /\ owed \in Nat
  /\ scanned \subseteq Keys \X Tiers
  /\ failed \subseteq Keys
  /\ main \in {"join", "oobwait", "drain", "returned"}
  /\ undrained \subseteq OOBChecks

\* The source is between two calls on the queue exactly where its stage says,
\* and holds a page whenever it is past the channel.  Nobody closes the queue.
SourceAligned ==
  /\ stage[Source] \in SourceStages
  /\ stage[Source] # "idle" => feeding \in Crawled /\ ~sourceDone
  /\ stage[Source] = "pushing" => call[Source] = [target |-> feeding, tier |-> 1]
  /\ stage[Source] # "pushing" => call[Source] = None
  /\ closer = "open"

\* A worker is past "idle" exactly between a Pop and its Done, has a Push under
\* way only where its checks discover or where it advances, and has checks
\* about only while it scans, each of them in one place.
AlignedAt(w) ==
  /\ stage[w] \in WorkerStages
  /\ stage[w] # "idle" <=> pc[w] = "work"
  /\ stage[w] \notin {"scan", "advancing"} => call[w] = None
  /\ stage[w] = "scan" /\ call[w] # None => running[w] # {}
  /\ stage[w] = "advancing" =>
       call[w] = [target |-> job[w].target, tier |-> TierAt(w) + 1]
  /\ stage[w] \in {"advance", "advancing"} => TierAt(w) < LastTier
  /\ stage[w] # "scan" => todo[w] = {} /\ running[w] = {} /\ sending[w] = {}
  /\ todo[w] \cap (running[w] \cup sending[w]) = {}
  /\ running[w] \cap sending[w] = {}

WorkersAligned == \A w \in Workers : AlignedAt(w)

\* Where a key is on its way through tier n.
Waits(k, n)    == \E i \in DOMAIN items[n] : KeyOf[items[n][i]] = k
At(w, k, n)    == pc[w] = "work" /\ KeyAt(w) = k /\ TierAt(w) = n
InHand(k, n)   == \E w \in Workers :
                    At(w, k, n) /\ stage[w] \in {"refresh", "load", "fetch", "scan"}
Advances(k, n) == \E w \in Workers :
                    At(w, k, n) /\ stage[w] \in {"advance", "advancing"}

\* Nothing is about to be pushed beyond the last tier.
CallsInRange == \A a \in Actors : call[a] # None => call[a].tier <= LastTier

\* What is queued, held or scanned was accepted, and nothing is accepted or
\* about to be pushed beyond the last tier.
Accepted ==
  /\ \A k \in Keys, n \in Tiers : Waits(k, n) => <<k, n>> \in seen
  /\ \A w \in Workers : pc[w] = "work" => <<KeyAt(w), TierAt(w)>> \in seen
  /\ scanned \subseteq seen
  /\ \A k \in Keys, n \in Tiers : <<k, n>> \in seen => n <= LastTier
  /\ CallsInRange

\* An accepted key has been, or is still on its way to be, scanned at every
\* tier from the one it was accepted at.
OnItsWay(k, n, m) ==
  \/ <<k, m>> \in scanned
  \/ k \in failed
  \/ \E p \in n..m : Waits(k, p) \/ InHand(k, p) \/ (p < m /\ Advances(k, p))

Walking ==
  ~ctxDone => \A k \in Keys, n \in Tiers : <<k, n>> \in seen =>
                \A m \in n..LastTier : OnItsWay(k, n, m)

\* A key scanned below the last tier has been accepted at the next one, or a
\* worker is about to push it there.
Promoted ==
  ~ctxDone => \A k \in Keys, n \in Tiers :
                <<k, n>> \in scanned /\ n < LastTier =>
                  <<k, n + 1>> \in seen \/ Advances(k, n)

\* Every page in the cache is somebody's to evict.
SourceHolds(k) ==
  stage[Source] \in {"push", "pushing", "evict"} /\ KeyOf[feeding] = k

Cached ==
  \A k \in pageByKey :
    \/ SourceHolds(k)
    \/ \E n \in Tiers : Waits(k, n)
    \/ \E w \in Workers : pc[w] = "work" /\ KeyAt(w) = k /\ stage[w] # "done"

\* The findings returned and not yet received are those of the senders.
Senders == {s \in Workers \X Checks : s[2] \in sending[s[1]]}
Flushed == owed = Cardinality(Senders)

Ended == main # "join" => \A w \in Workers : pc[w] = "exit"

ScanInv ==
  /\ Outstanding
  /\ NothingLeftBehind
  /\ Typed
  /\ SourceAligned
  /\ WorkersAligned
  /\ Accepted
  /\ Walking
  /\ Promoted
  /\ Cached
  /\ Flushed
  /\ Ended

-----------------------------------------------------------------------------
(* A scan is a client of the work queue.                                    *)

LEMMA TierFacts ==
  /\ NumTiers \in Nat \ {0, 1} /\ LastTier \in Nat /\ LastTier <= NumTiers
  /\ LastTier >= 1 /\ NumTiers - 1 <= LastTier
  /\ TwoPhase # {} => LastTier = NumTiers
BY ConstantsAssumption, ScannerAssumption DEF LastTier, Deferred

LEMMA ScanInitQueue == ScanInit => Init
BY DEF ScanInit

\* A push at tier n of a target the crawl or the scan knows is a job.
LEMMA StepsOfSource ==
  ASSUME ScanInv, SourceStep
  PROVE  [Next]_vars
<1>1. SourceAligned
  BY DEF ScanInv
<1>2. ASSUME PushPage
      PROVE  Next
  <2>1. PushBegin(Source, [target |-> feeding, tier |-> 1])
    BY <1>2 DEF PushPage
  <2>2. feeding \in Targets /\ ~sourceDone
    BY <1>1, <1>2, ScannerAssumption DEF PushPage, SourceAligned
  <2>3. [target |-> feeding, tier |-> 1] \in Job
    BY <2>2, TierFacts DEF Job, Tiers
  <2>4. MayPush(Source) /\ Source \in Actors
    BY <2>2 DEF MayPush, Actors
  <2>5. QED
    BY <2>1, <2>3, <2>4 DEF Next
<1>3. ASSUME PagePushed
      PROVE  Next
  <2>1. PushAccept(Source) \/ PushRefuse(Source)
    BY <1>3 DEF PagePushed
  <2>2. Source \in Actors
    BY DEF Actors
  <2>3. QED
    BY <2>1, <2>2 DEF Next, Push
<1>4. ASSUME EndOfPages
      PROVE  Next
  BY <1>4 DEF EndOfPages, Next
<1>5. ASSUME PushPageDenied \/ EvictRefusedPage \/ (\E t \in Crawled : Receive(t))
      PROVE  UNCHANGED vars
  BY <1>5 DEF PushPageDenied, EvictRefusedPage, Receive
<1>6. QED
  BY <1>2, <1>3, <1>4, <1>5 DEF SourceStep

LEMMA StepsOfWorker ==
  ASSUME ScanInv, NEW w \in Workers, WorkerStep(w)
  PROVE  [Next]_vars
<1>0. w \in Actors
  BY DEF Actors
<1>1. AlignedAt(w)
  BY DEF ScanInv, WorkersAligned
<1>2. ASSUME Take(w) \/ RestOfPop(w)
      PROVE  Next
  BY <1>2 DEF Take, RestOfPop, Next, Pop
<1>3. ASSUME Discovered(w) \/ Advanced(w)
      PROVE  Next
  BY <1>0, <1>3 DEF Discovered, Advanced, Next, Push
<1>4. ASSUME Finish(w)
      PROVE  Next
  BY <1>4 DEF Finish, Next
<1>5. ASSUME Advance(w)
      PROVE  Next
  <2>1. PushBegin(w, [target |-> job[w].target, tier |-> TierAt(w) + 1])
    BY <1>5 DEF Advance
  <2>2. pc[w] = "work" /\ TierAt(w) < LastTier
    BY <1>1, <1>5 DEF Advance, AlignedAt
  <2>3. job[w] \in Job
    BY <2>2 DEF ScanInv, Outstanding, WorkingHoldsJob
  <2>4. [target |-> job[w].target, tier |-> TierAt(w) + 1] \in Job
    BY <2>2, <2>3, TierFacts DEF Job, Tiers, TierAt
  <2>5. MayPush(w)
    BY <2>2, ConstantsAssumption DEF MayPush
  <2>6. QED
    BY <1>0, <2>1, <2>4, <2>5 DEF Next
<1>6. ASSUME ObtainPage(w) \/ Abandon(w) \/ ScanReturns(w) \/ AdvanceDenied(w) \/ Evict(w)
      PROVE  UNCHANGED vars
  BY <1>6 DEF ObtainPage, Refresh, LoadHit, LoadMiss, Materialize, FetchFails, Abandon,
              ScanReturns, AdvanceDenied, Evict
<1>7. QED
  BY <1>2, <1>3, <1>4, <1>5, <1>6 DEF WorkerStep, Retire

LEMMA StepsOfChecks ==
  ASSUME ScanInv, NEW w \in Workers, NEW c \in Checks, CheckStep(w, c) \/ Discover(w, c)
  PROVE  [Next]_vars
<1>1. AlignedAt(w) /\ w \in Actors
  BY DEF ScanInv, WorkersAligned, Actors
<1>2. ASSUME CheckStep(w, c)
      PROVE  UNCHANGED vars
  BY <1>2 DEF CheckStep, Launch, CheckReturns, Send
<1>3. ASSUME Discover(w, c)
      PROVE  Next
  <2>1. PICK e \in Emits : PushBegin(w, e.job)
    BY <1>3 DEF Discover
  <2>2. e.job \in Job
    BY ScannerAssumption
  <2>3. MayPush(w)
    BY <1>1, <1>3, ConstantsAssumption DEF Discover, AlignedAt, MayPush
  <2>4. QED
    BY <1>1, <2>1, <2>2, <2>3 DEF Next
<1>4. QED
  BY <1>2, <1>3

\* Every step of a scan is a step of the queue, or leaves it alone.
LEMMA ScanNextQueue == ScanInv /\ [ScanNext]_allVars => [Next]_vars
<1> SUFFICES ASSUME ScanInv, [ScanNext]_allVars
             PROVE  [Next]_vars
  OBVIOUS
<1>1. CASE SourceStep
  BY <1>1, StepsOfSource
<1>2. ASSUME NEW w \in Workers, WorkerStep(w)
      PROVE  [Next]_vars
  BY <1>2, StepsOfWorker
<1>3. ASSUME NEW w \in Workers, NEW c \in Checks, CheckStep(w, c) \/ Discover(w, c)
      PROVE  [Next]_vars
  BY <1>3, StepsOfChecks
<1>4. CASE MainStep
  BY <1>4 DEF MainStep, Join, OOBWait, Drain, Return
<1>5. CASE CancelScan \/ WakeCancelled
  BY <1>5 DEF CancelScan, WakeCancelled, Next
<1>6. CASE UNCHANGED allVars
  BY <1>6 DEF allVars
<1>7. QED
  BY <1>1, <1>2, <1>3, <1>4, <1>5, <1>6 DEF ScanNext


-----------------------------------------------------------------------------
(* Types and alignment.                                                     *)

LEMMA HeldJobs ==
  ASSUME ScanInv, NEW w \in Workers, pc[w] = "work"
  PROVE  /\ job[w] \in Job
         /\ KeyAt(w) \in Keys
         /\ TierAt(w) \in Tiers
         /\ job[w].target \in Targets
<1>1. job[w] \in Job
  BY DEF ScanInv, Outstanding, WorkingHoldsJob
<1>2. QED
  BY <1>1, ConstantsAssumption DEF Job, KeyAt, TierAt

LEMMA NextTyped ==
  ASSUME ScanInv, [ScanNext]_allVars
  PROVE  Typed'
<1> USE DEF Goto, SourceStages, WorkerStages
<1>0. Typed /\ SourceAligned /\ WorkersAligned /\ Flushed
  BY DEF ScanInv
<1>1. CASE SourceStep
  <2>1. ASSUME NEW t \in Crawled, Receive(t)
        PROVE  Typed'
    <3>1. KeyOf[t] \in Keys
      BY ConstantsAssumption, ScannerAssumption
    <3>2. QED
      BY <1>0, <2>1, <3>1 DEF Typed, Receive
  <2>2. ASSUME PushPage \/ PushPageDenied \/ PagePushed \/ EvictRefusedPage \/ EndOfPages
        PROVE  Typed'
    BY <1>0, <2>2 DEF Typed, PushPage, PushPageDenied, PagePushed, EvictRefusedPage,
                      EndOfPages, scanVars
  <2>3. QED
    BY <1>1, <2>1, <2>2 DEF SourceStep
<1>2. ASSUME NEW w \in Workers, WorkerStep(w)
      PROVE  Typed'
  <2>1. CASE Take(w) \/ RestOfPop(w)
    BY <1>0, <2>1 DEF Typed, Take, RestOfPop, scanVars
  <2>2. AlignedAt(w)
    BY <1>0 DEF WorkersAligned
  <2>3. CASE ObtainPage(w)
    <3>1. pc[w] = "work"
      BY <2>2, <2>3 DEF ObtainPage, Refresh, LoadHit, LoadMiss, Materialize, FetchFails,
                        AlignedAt
    <3>2. Matching(job[w].target, TierAt(w)) \subseteq Checks
      BY <3>1, HeldJobs, ScannerAssumption DEF Matching
    <3>3. KeyAt(w) \in Keys
      BY <3>1, HeldJobs
    <3>4. QED
      BY <1>0, <2>3, <3>2, <3>3 DEF Typed, ObtainPage, Refresh, LoadHit, LoadMiss,
           Materialize, FetchFails, BeginScan
  <2>4. CASE ScanReturns(w)
    <3>1. pc[w] = "work"
      BY <2>2, <2>4 DEF ScanReturns, AlignedAt
    <3>2. <<KeyAt(w), TierAt(w)>> \in Keys \X Tiers
      BY <3>1, HeldJobs
    <3>3. NextStage(w) \in {"advance", "evict"}
      BY DEF NextStage
    <3>4. QED
      BY <1>0, <2>4, <3>2, <3>3 DEF Typed, ScanReturns
  <2>5. CASE Abandon(w) \/ Discovered(w) \/ Retire(w)
    BY <1>0, <2>5 DEF Typed, Abandon, Discovered, Retire, Advance, AdvanceDenied, Advanced,
         Evict, Finish, scanVars
  <2>6. QED
    BY <1>2, <2>1, <2>3, <2>4, <2>5 DEF WorkerStep
<1>3. ASSUME NEW w \in Workers, NEW c \in Checks, CheckStep(w, c) \/ Discover(w, c)
      PROVE  Typed'
  <2>1. CASE Launch(w, c) \/ Discover(w, c)
    BY <1>0, <2>1 DEF Typed, Launch, Discover, scanVars
  <2>2. CASE CheckReturns(w, c)
    BY <1>0, <2>2 DEF Typed, CheckReturns
  <2>3. CASE Send(w, c)
    <3>1. IsFiniteSet(Senders)
      <4>1. IsFiniteSet(Workers \X Checks)
        BY FS_Product, ConstantsAssumption, ScannerAssumption
      <4>2. QED
        BY <4>1, FS_Subset DEF Senders
    <3>2. <<w, c>> \in Senders
      BY <2>3 DEF Send, Senders
    <3>3. Cardinality(Senders) \in Nat \ {0}
      BY <3>1, <3>2, FS_CardinalityType, FS_EmptySet
    <3>4. owed - 1 \in Nat
      BY <1>0, <3>3 DEF Flushed
    <3>5. QED
      BY <1>0, <2>3, <3>4 DEF Typed, Send
  <2>4. QED
    BY <1>3, <2>1, <2>2, <2>3 DEF CheckStep
<1>4. CASE MainStep
  BY <1>0, <1>4 DEF Typed, MainStep, Join, OOBWait, Drain, Return
<1>5. CASE CancelScan \/ WakeCancelled \/ UNCHANGED allVars
  BY <1>0, <1>5 DEF Typed, CancelScan, WakeCancelled, scanVars, allVars
<1>6. QED
  BY <1>1, <1>2, <1>3, <1>4, <1>5 DEF ScanNext


\* What the operations of the queue do to the locals of its callers.
LEMMA QueueLocals ==
  ASSUME TypeOK
  PROVE  /\ \A a \in Actors, j \in Job : PushBegin(a, j) =>
              pc' = pc /\ job' = job /\ call' = [call EXCEPT ![a] = j]
         /\ \A a \in Actors : Push(a) =>
              /\ \A v \in Workers : pc'[v] = "work" <=> pc[v] = "work"
              /\ job' = job /\ call' = [call EXCEPT ![a] = None] /\ call[a] # None
         /\ \A w \in Workers : PopExit(w) \/ PopWait(w) =>
              /\ \A v \in Workers : pc'[v] = "work" <=> pc[v] = "work"
              /\ job' = job /\ call' = call
         /\ \A w \in Workers : PopTake(w) =>
              /\ pc[w] = "ready" /\ pc' = [pc EXCEPT ![w] = "work"] /\ call' = call
              /\ \A v \in Workers : v # w => job'[v] = job[v]
         /\ \A w \in Workers : Done(w) =>
              /\ pc'[w] = "ready" /\ call[w] = None /\ call' = call
              /\ \A v \in Workers : v # w =>
                   job'[v] = job[v] /\ (pc'[v] = "work" <=> pc[v] = "work")
         /\ SourceDone \/ CancelWaiting =>
              /\ \A v \in Workers : pc'[v] = "work" <=> pc[v] = "work"
              /\ job' = job /\ call' = call
<1>1. ASSUME NEW a \in Actors, Push(a)
      PROVE  /\ \A v \in Workers : pc'[v] = "work" <=> pc[v] = "work"
             /\ job' = job /\ call' = [call EXCEPT ![a] = None] /\ call[a] # None
  <2>1. CASE PushRefuse(a)
    BY <2>1 DEF PushRefuse
  <2>2. CASE PushAccept(a)
    BY <2>2, WakingKeepsWork DEF PushAccept
  <2>3. QED
    BY <1>1, <2>1, <2>2 DEF Push
<1>2. ASSUME NEW w \in Workers, PopExit(w) \/ PopWait(w)
      PROVE  /\ \A v \in Workers : pc'[v] = "work" <=> pc[v] = "work"
             /\ job' = job /\ call' = call
  BY <1>2 DEF PopExit, PopWait, TypeOK
<1>3. ASSUME NEW w \in Workers, PopTake(w)
      PROVE  /\ pc[w] = "ready" /\ pc' = [pc EXCEPT ![w] = "work"] /\ call' = call
             /\ \A v \in Workers : v # w => job'[v] = job[v]
  BY <1>3 DEF PopTake, TypeOK
<1>4. ASSUME NEW w \in Workers, Done(w)
      PROVE  /\ pc'[w] = "ready" /\ call[w] = None /\ call' = call
             /\ \A v \in Workers : v # w =>
                  job'[v] = job[v] /\ (pc'[v] = "work" <=> pc[v] = "work")
  BY <1>4 DEF Done, BroadcastAnd, Waiting, TypeOK
<1>5. ASSUME SourceDone \/ CancelWaiting
      PROVE  /\ \A v \in Workers : pc'[v] = "work" <=> pc[v] = "work"
             /\ job' = job /\ call' = call
  <2>1. BroadcastAnd({}) \/ UNCHANGED pc
    BY <1>5 DEF SourceDone, WakeIfIdle, CancelWaiting
  <2>2. \A v \in Workers : pc'[v] = "work" <=> pc[v] = "work"
    BY <2>1, WakingKeepsWork
  <2>3. job' = job /\ call' = call
    BY <1>5 DEF SourceDone, CancelWaiting
  <2>4. QED
    BY <2>2, <2>3
<1>6. ASSUME NEW a \in Actors, NEW j \in Job, PushBegin(a, j)
      PROVE  pc' = pc /\ job' = job /\ call' = [call EXCEPT ![a] = j]
  BY <1>6 DEF PushBegin
<1>7. QED
  BY <1>1, <1>2, <1>3, <1>4, <1>5, <1>6

\* A worker that a step does not concern stays as aligned as it was.
Untouched(v) ==
  /\ stage'[v] = stage[v]
  /\ pc'[v] = "work" <=> pc[v] = "work"
  /\ call'[v] = call[v]
  /\ job'[v] = job[v]
  /\ todo'[v] = todo[v] /\ running'[v] = running[v] /\ sending'[v] = sending[v]

LEMMA Bystander ==
  ASSUME NEW v \in Workers, AlignedAt(v), Untouched(v)
  PROVE  AlignedAt(v)'
BY DEF AlignedAt, Untouched, KeyAt, TierAt

LEMMA SourceTouchesNoWorker ==
  ASSUME ScanInv, SourceStep, NEW v \in Workers
  PROVE  Untouched(v)
<1>0. /\ Typed /\ TypeOK /\ SourceAligned
      /\ Source \in Actors /\ v \in Actors /\ v # Source
  BY ConstantsAssumption DEF ScanInv, Outstanding, Actors
<1>1. ASSUME NEW t \in Crawled, Receive(t)
      PROVE  Untouched(v)
  BY <1>0, <1>1 DEF Receive, Goto, Typed, Untouched, vars
<1>2. CASE PushPageDenied \/ EvictRefusedPage
  BY <1>0, <1>2 DEF PushPageDenied, EvictRefusedPage, Goto, Typed, Untouched, vars
<1>3. CASE PushPage
  <2>1. pc' = pc /\ job' = job /\ call'[v] = call[v]
    BY <1>0, <1>3 DEF PushPage, PushBegin, TypeOK
  <2>2. QED
    BY <1>0, <1>3, <2>1 DEF PushPage, Goto, Typed, Untouched
<1>4. CASE PagePushed
  <2>1. Push(Source)
    BY <1>4 DEF PagePushed, Push
  <2>2. job' = job /\ call'[v] = call[v] /\ (pc'[v] = "work" <=> pc[v] = "work")
    BY <1>0, <2>1, QueueLocals DEF TypeOK
  <2>3. stage'[v] = stage[v]
    BY <1>0, <1>4 DEF PagePushed, Goto, Typed
  <2>4. QED
    BY <1>4, <2>2, <2>3 DEF PagePushed, Untouched
<1>5. CASE EndOfPages
  BY <1>0, <1>5, QueueLocals DEF EndOfPages, Untouched, scanVars
<1>6. QED
  BY <1>1, <1>2, <1>3, <1>4, <1>5 DEF SourceStep

LEMMA WorkersTouchThemselves ==
  ASSUME ScanInv, NEW w \in Workers, NEW v \in Workers, v # w,
         \/ WorkerStep(w)
         \/ \E c \in Checks : CheckStep(w, c) \/ Discover(w, c)
  PROVE  Untouched(v)
<1>0. Typed /\ TypeOK /\ w \in Actors /\ v \in Actors
  BY DEF ScanInv, Outstanding, Actors
<1>1. CASE Take(w) \/ RestOfPop(w)
  <2>1. job'[v] = job[v] /\ call'[v] = call[v] /\ (pc'[v] = "work" <=> pc[v] = "work")
    BY <1>0, <1>1, QueueLocals DEF Take, RestOfPop, TypeOK
  <2>2. stage'[v] = stage[v] /\ todo' = todo /\ running' = running /\ sending' = sending
    BY <1>0, <1>1 DEF Take, RestOfPop, Goto, Typed, scanVars
  <2>3. QED
    BY <2>1, <2>2 DEF Untouched
<1>2. CASE ObtainPage(w) \/ ScanReturns(w) \/ Abandon(w)
  BY <1>0, <1>2 DEF ObtainPage, Refresh, LoadHit, LoadMiss, Materialize, FetchFails, Abandon,
              ScanReturns, BeginScan, Goto, Typed, Untouched, vars
<1>3. CASE AdvanceDenied(w) \/ Evict(w)
  BY <1>0, <1>3 DEF AdvanceDenied, Evict, Goto, Typed, Untouched, vars
<1>4. CASE Discovered(w) \/ Advanced(w)
  <2>1. Push(w)
    BY <1>4 DEF Discovered, Advanced, Push
  <2>2. job' = job /\ call'[v] = call[v] /\ (pc'[v] = "work" <=> pc[v] = "work")
    BY <1>0, <2>1, QueueLocals DEF TypeOK
  <2>3. stage'[v] = stage[v] /\ todo' = todo /\ running' = running /\ sending' = sending
    BY <1>0, <1>4 DEF Discovered, Advanced, Goto, Typed, scanVars
  <2>4. QED
    BY <2>2, <2>3 DEF Untouched
<1>5. CASE Finish(w)
  BY <1>0, <1>5, QueueLocals DEF Finish, Goto, Typed, Untouched
<1>6. CASE Advance(w)
  BY <1>0, <1>6 DEF Advance, PushBegin, Goto, Typed, TypeOK, Untouched
<1>7. ASSUME NEW c \in Checks, CheckStep(w, c)
      PROVE  Untouched(v)
  BY <1>0, <1>7 DEF CheckStep, Launch, CheckReturns, Send, Typed, Untouched, vars
<1>8. ASSUME NEW c \in Checks, Discover(w, c)
      PROVE  Untouched(v)
  BY <1>0, <1>8 DEF Discover, PushBegin, TypeOK, Untouched, scanVars
<1>9. QED
  BY <1>1, <1>2, <1>3, <1>4, <1>5, <1>6, <1>7, <1>8 DEF WorkerStep, Retire


LEMMA WorkerKeepsAligned ==
  ASSUME ScanInv, NEW w \in Workers, WorkerStep(w)
  PROVE  AlignedAt(w)'
<1>0. Typed /\ TypeOK /\ w \in Actors /\ AlignedAt(w) /\ WorkingHoldsJob
  BY DEF ScanInv, Outstanding, WorkersAligned, Actors
<1> USE DEF Goto, WorkerStages
<1>1. CASE Take(w)
  <2>1. pc[w] = "ready" /\ pc'[w] = "work" /\ call'[w] = call[w]
    BY <1>0, <1>1, QueueLocals DEF Take, TypeOK
  <2>2. stage[w] = "idle"
    BY <1>0, <2>1 DEF AlignedAt
  <2>3. stage'[w] \in {"refresh", "load"}
    BY <1>0, <1>1 DEF Take, Typed
  <2>4. todo' = todo /\ running' = running /\ sending' = sending
    BY <1>1 DEF Take
  <2>5. QED
    BY <1>0, <2>1, <2>2, <2>3, <2>4 DEF AlignedAt
<1>2. CASE RestOfPop(w)
  <2>1. Untouched(w)
    BY <1>0, <1>2, QueueLocals DEF RestOfPop, Untouched, scanVars
  <2>2. QED
    BY <1>0, <2>1, Bystander
<1>3. CASE ObtainPage(w)
  <2>1. /\ pc' = pc /\ job' = job /\ call' = call
        /\ running' = running /\ sending' = sending
    BY <1>3 DEF ObtainPage, Refresh, LoadHit, LoadMiss, Materialize, FetchFails, vars
  <2>2. stage[w] \in {"refresh", "load", "fetch"}
    BY <1>3 DEF ObtainPage, Refresh, LoadHit, LoadMiss, Materialize, FetchFails
  <2>3. \/ stage'[w] \in {"load", "fetch", "evict"} /\ todo' = todo
        \/ stage'[w] = "scan"
    BY <1>0, <1>3 DEF ObtainPage, Refresh, LoadHit, LoadMiss, Materialize, FetchFails,
                      BeginScan, Typed
  <2>4. QED
    BY <1>0, <2>1, <2>2, <2>3 DEF AlignedAt
<1>4. CASE Abandon(w)
  BY <1>0, <1>4 DEF Abandon, AlignedAt, vars, KeyAt, TierAt, Typed
<1>5. CASE Discovered(w)
  <2>1. job' = job /\ call'[w] = None /\ (pc'[w] = "work" <=> pc[w] = "work")
    BY <1>0, <1>5, QueueLocals DEF Discovered, TypeOK
  <2>2. stage[w] = "scan" /\ stage' = stage /\ todo' = todo
    BY <1>5 DEF Discovered, scanVars
  <2>3. running' = running /\ sending' = sending
    BY <1>5 DEF Discovered, scanVars
  <2>4. QED
    BY <1>0, <2>1, <2>2, <2>3 DEF AlignedAt
<1>6. CASE ScanReturns(w)
  <2>1. /\ pc' = pc /\ job' = job /\ call' = call
        /\ running' = running /\ sending' = sending /\ todo' = todo
    BY <1>6 DEF ScanReturns, vars
  <2>2. /\ stage[w] = "scan"
        /\ todo[w] = {} /\ running[w] = {} /\ sending[w] = {}
        /\ stage'[w] = NextStage(w)
    BY <1>0, <1>6 DEF ScanReturns, Typed
  <2>3. \/ stage'[w] = "advance" /\ TierAt(w) < LastTier
        \/ stage'[w] = "evict"
    BY <2>2 DEF NextStage
  <2>4. call[w] = None
    BY <1>0, <2>2 DEF AlignedAt
  <2>5. QED
    BY <1>0, <2>1, <2>2, <2>3, <2>4 DEF AlignedAt, TierAt
<1>7. CASE Retire(w)
  <2>1. todo' = todo /\ running' = running /\ sending' = sending
    BY <1>7 DEF Retire, Advance, AdvanceDenied, Advanced, Evict, Finish
  <2>2. CASE Advance(w)
    <3>1. /\ stage[w] = "advance" /\ stage'[w] = "advancing" /\ pc' = pc /\ job' = job
          /\ call'[w] = [target |-> job[w].target, tier |-> TierAt(w) + 1]
      BY <1>0, <2>2 DEF Advance, PushBegin, Typed, TypeOK
    <3>2. QED
      BY <1>0, <2>1, <3>1 DEF AlignedAt, TierAt
  <2>3. CASE AdvanceDenied(w) \/ Evict(w)
    <3>1. /\ stage[w] \in {"advance", "evict"} /\ stage'[w] \in {"evict", "done"}
          /\ pc' = pc /\ job' = job /\ call' = call
      BY <1>0, <2>3 DEF AdvanceDenied, Evict, Typed, vars
    <3>2. QED
      BY <1>0, <2>1, <3>1 DEF AlignedAt
  <2>4. CASE Advanced(w)
    <3>1. /\ stage[w] = "advancing" /\ stage'[w] \in {"evict", "done"}
          /\ Push(w)
      BY <1>0, <2>4 DEF Advanced, Typed, Push
    <3>2. job' = job /\ call'[w] = None /\ (pc'[w] = "work" <=> pc[w] = "work")
      BY <1>0, <3>1, QueueLocals DEF TypeOK
    <3>3. QED
      BY <1>0, <2>1, <3>1, <3>2 DEF AlignedAt
  <2>5. CASE Finish(w)
    <3>1. stage[w] = "done" /\ stage'[w] = "idle" /\ Done(w)
      BY <1>0, <2>5 DEF Finish, Typed
    <3>2. pc'[w] = "ready" /\ call'[w] = None
      BY <1>0, <3>1, QueueLocals
    <3>3. QED
      BY <1>0, <2>1, <3>1, <3>2 DEF AlignedAt
  <2>6. QED
    BY <1>7, <2>2, <2>3, <2>4, <2>5 DEF Retire
<1>8. QED
  BY <1>1, <1>2, <1>3, <1>4, <1>5, <1>6, <1>7 DEF WorkerStep


LEMMA CheckKeepsAligned ==
  ASSUME ScanInv, NEW w \in Workers, NEW c \in Checks, CheckStep(w, c) \/ Discover(w, c)
  PROVE  AlignedAt(w)'
<1>0. Typed /\ TypeOK /\ w \in Actors /\ AlignedAt(w)
  BY DEF ScanInv, Outstanding, WorkersAligned, Actors
<1>1. stage' = stage /\ pc' = pc /\ job' = job
  BY DEF CheckStep, Launch, CheckReturns, Send, Discover, PushBegin, scanVars, vars
<1>2. stage[w] = "scan"
  BY <1>0 DEF CheckStep, Launch, CheckReturns, Send, Discover, AlignedAt
<1>3. call'[w] # None => running'[w] # {}
  <2>1. CASE Launch(w, c)
    BY <1>0, <2>1 DEF Launch, AlignedAt, Typed, vars
  <2>2. CASE CheckReturns(w, c) \/ Send(w, c)
    BY <1>0, <1>2, <2>2 DEF CheckReturns, Send, AlignedAt, vars
  <2>3. CASE Discover(w, c)
    BY <2>3 DEF Discover, scanVars
  <2>4. QED
    BY <2>1, <2>2, <2>3 DEF CheckStep
<1>4. /\ todo'[w] \cap (running'[w] \cup sending'[w]) = {}
      /\ running'[w] \cap sending'[w] = {}
  <2>1. CASE Launch(w, c)
    BY <1>0, <2>1 DEF Launch, AlignedAt, Typed
  <2>2. CASE CheckReturns(w, c)
    BY <1>0, <2>2 DEF CheckReturns, AlignedAt, Typed
  <2>3. CASE Send(w, c)
    BY <1>0, <2>3 DEF Send, AlignedAt, Typed
  <2>4. CASE Discover(w, c)
    BY <1>0, <2>4 DEF Discover, AlignedAt, scanVars
  <2>5. QED
    BY <2>1, <2>2, <2>3, <2>4 DEF CheckStep
<1>5. QED
  BY <1>0, <1>1, <1>2, <1>3, <1>4 DEF AlignedAt, WorkerStages

LEMMA NextWorkersAligned ==
  ASSUME ScanInv, [ScanNext]_allVars
  PROVE  WorkersAligned'
<1> SUFFICES ASSUME NEW v \in Workers PROVE AlignedAt(v)'
  BY DEF WorkersAligned
<1>0. TypeOK /\ AlignedAt(v)
  BY DEF ScanInv, Outstanding, WorkersAligned
<1>1. CASE SourceStep
  BY <1>0, <1>1, SourceTouchesNoWorker, Bystander
<1>2. ASSUME NEW w \in Workers,
             \/ WorkerStep(w)
             \/ \E c \in Checks : CheckStep(w, c) \/ Discover(w, c)
      PROVE  AlignedAt(v)'
  <2>1. CASE w = v
    BY <1>2, <2>1, WorkerKeepsAligned, CheckKeepsAligned
  <2>2. CASE w # v
    BY <1>0, <1>2, <2>2, WorkersTouchThemselves, Bystander
  <2>3. QED
    BY <2>1, <2>2
<1>3. CASE MainStep \/ CancelScan \/ UNCHANGED allVars
  <2>1. Untouched(v)
    BY <1>3 DEF MainStep, Join, OOBWait, Drain, Return, CancelScan, Cancel, Untouched,
                vars, scanVars, allVars
  <2>2. QED
    BY <1>0, <2>1, Bystander
<1>4. CASE WakeCancelled
  <2>1. Untouched(v)
    BY <1>0, <1>4, QueueLocals DEF WakeCancelled, Untouched, scanVars
  <2>2. QED
    BY <1>0, <2>1, Bystander
<1>5. QED
  BY <1>1, <1>2, <1>3, <1>4 DEF ScanNext

LEMMA NextSourceAligned ==
  ASSUME ScanInv, [ScanNext]_allVars
  PROVE  SourceAligned'
<1>0. /\ Typed /\ TypeOK /\ SourceAligned
      /\ Source \in Actors /\ Source \notin Workers
      /\ \A w \in Workers : w \in Actors /\ w # Source
  BY ConstantsAssumption DEF ScanInv, Outstanding, Actors
<1> USE DEF Goto, SourceStages
<1>1. ASSUME stage'[Source] = stage[Source], feeding' = feeding, closer' = closer,
             sourceDone' = sourceDone, call'[Source] = call[Source]
      PROVE  SourceAligned'
  BY <1>0, <1>1 DEF SourceAligned
<1>2. CASE SourceStep
  <2>1. ASSUME NEW t \in Crawled, Receive(t)
        PROVE  SourceAligned'
    BY <1>0, <2>1 DEF Receive, SourceAligned, Typed, vars
  <2>2. CASE PushPage
    BY <1>0, <2>2 DEF PushPage, PushBegin, SourceAligned, Typed, TypeOK
  <2>3. CASE PushPageDenied \/ EvictRefusedPage
    BY <1>0, <2>3 DEF PushPageDenied, EvictRefusedPage, SourceAligned, Typed, vars
  <2>4. CASE PagePushed
    <3>1. Push(Source)
      BY <2>4 DEF PagePushed, Push
    <3>2. call'[Source] = None
      BY <1>0, <3>1, QueueLocals DEF TypeOK
    <3>3. closer' = closer /\ sourceDone' = sourceDone
      BY <3>1 DEF Push, PushRefuse, PushAccept
    <3>4. stage[Source] = "pushing" /\ stage'[Source] \in {"idle", "evict"} /\ feeding' = feeding
      BY <1>0, <2>4 DEF PagePushed, Typed
    <3>5. QED
      BY <1>0, <3>2, <3>3, <3>4 DEF SourceAligned
  <2>5. CASE EndOfPages
    BY <1>0, <2>5 DEF EndOfPages, SourceDone, SourceAligned, scanVars
  <2>6. QED
    BY <1>2, <2>1, <2>2, <2>3, <2>4, <2>5 DEF SourceStep
<1>3. ASSUME NEW w \in Workers, WorkerStep(w)
      PROVE  SourceAligned'
  <2>1. feeding' = feeding
    BY <1>3 DEF WorkerStep, Take, RestOfPop, ObtainPage, Refresh, LoadHit, LoadMiss,
         Materialize, FetchFails, Abandon, Discovered, ScanReturns, Retire, Advance,
         AdvanceDenied, Advanced, Evict, Finish, scanVars
  <2>2. stage'[Source] = stage[Source]
    BY <1>0, <1>3 DEF WorkerStep, Take, RestOfPop, ObtainPage, Refresh, LoadHit, LoadMiss,
         Materialize, FetchFails, Abandon, Discovered, ScanReturns, Retire, Advance,
         AdvanceDenied, Advanced, Evict, Finish, BeginScan, scanVars, Typed
  <2>3. closer' = closer /\ sourceDone' = sourceDone
    BY <1>3 DEF WorkerStep, Take, RestOfPop, ObtainPage, Refresh, LoadHit, LoadMiss,
         Materialize, FetchFails, Abandon, Discovered, ScanReturns, Retire, Advance,
         AdvanceDenied, Advanced, Evict, Finish, vars, PopTake, PopWait, PopExit, Push,
         PushAccept, PushRefuse, PushBegin, Done
  <2>4. call'[Source] = call[Source]
    BY <1>0, <1>3 DEF WorkerStep, Take, RestOfPop, ObtainPage, Refresh, LoadHit, LoadMiss,
         Materialize, FetchFails, Abandon, Discovered, ScanReturns, Retire, Advance,
         AdvanceDenied, Advanced, Evict, Finish, vars, PopTake, PopWait, PopExit, Push,
         PushAccept, PushRefuse, PushBegin, Done, TypeOK
  <2>5. QED
    BY <1>1, <2>1, <2>2, <2>3, <2>4
<1>4. ASSUME NEW w \in Workers, NEW c \in Checks, CheckStep(w, c) \/ Discover(w, c)
      PROVE  SourceAligned'
  <2>1. feeding' = feeding /\ stage' = stage /\ closer' = closer /\ sourceDone' = sourceDone
    BY <1>4 DEF CheckStep, Launch, CheckReturns, Send, Discover, PushBegin, vars, scanVars
  <2>2. call'[Source] = call[Source]
    BY <1>0, <1>4 DEF CheckStep, Launch, CheckReturns, Send, Discover, PushBegin, vars, TypeOK
  <2>3. QED
    BY <1>1, <2>1, <2>2
<1>5. CASE MainStep \/ CancelScan \/ WakeCancelled \/ UNCHANGED allVars
  BY <1>1, <1>5 DEF MainStep, Join, OOBWait, Drain, Return, CancelScan, Cancel, WakeCancelled,
     CancelWaiting, vars, scanVars, allVars
<1>6. QED
  BY <1>2, <1>3, <1>4, <1>5 DEF ScanNext

-----------------------------------------------------------------------------
(* How targets move through the queue.                                      *)

LEMMA AppendedKeys ==
  ASSUME NEW s \in Seq(Targets), NEW t \in Targets, NEW k
  PROVE  (\E i \in DOMAIN Append(s, t) : KeyOf[Append(s, t)[i]] = k)
           <=> k = KeyOf[t] \/ \E i \in DOMAIN s : KeyOf[s[i]] = k
<1> DEFINE u == Append(s, t)
<1>1. /\ Len(s) \in Nat /\ DOMAIN s = 1..Len(s)
      /\ DOMAIN u = 1..(Len(s) + 1)
      /\ \A i \in 1..Len(s) : u[i] = s[i]
      /\ u[Len(s) + 1] = t
  OBVIOUS
<1>2. ASSUME NEW i \in DOMAIN u
      PROVE  i \in 1..Len(s) \/ i = Len(s) + 1
  BY <1>1
<1>3. Len(s) + 1 \in DOMAIN u /\ \A i \in DOMAIN s : i \in DOMAIN u
  BY <1>1
<1> HIDE DEF u
<1>4. QED
  BY <1>1, <1>2, <1>3 DEF u

LEMMA PoppedKeys ==
  ASSUME NEW s \in Seq(Targets), s # <<>>, NEW k
  PROVE  (\E i \in DOMAIN s : KeyOf[s[i]] = k)
           <=> k = KeyOf[Head(s)] \/ \E i \in DOMAIN Tail(s) : KeyOf[Tail(s)[i]] = k
<1>1. /\ Len(s) \in Nat \ {0} /\ DOMAIN s = 1..Len(s)
      /\ DOMAIN Tail(s) = 1..(Len(s) - 1)
      /\ \A i \in 1..(Len(s) - 1) : Tail(s)[i] = s[i + 1]
      /\ Head(s) = s[1] /\ 1 \in DOMAIN s
  OBVIOUS
<1>2. ASSUME NEW i \in DOMAIN s, KeyOf[s[i]] = k
      PROVE  k = KeyOf[Head(s)] \/ \E j \in DOMAIN Tail(s) : KeyOf[Tail(s)[j]] = k
  <2>1. CASE i = 1
    BY <1>1, <1>2, <2>1
  <2>2. CASE i # 1
    <3>1. i - 1 \in DOMAIN Tail(s) /\ Tail(s)[i - 1] = s[i]
      BY <1>1, <1>2, <2>2
    <3>2. QED
      BY <1>2, <3>1
  <2>3. QED
    BY <2>1, <2>2
<1>3. ASSUME NEW j \in DOMAIN Tail(s), KeyOf[Tail(s)[j]] = k
      PROVE  \E i \in DOMAIN s : KeyOf[s[i]] = k
  <2>1. j + 1 \in DOMAIN s /\ Tail(s)[j] = s[j + 1]
    BY <1>1, <1>3
  <2>2. QED
    BY <1>3, <2>1
<1>4. QED
  BY <1>1, <1>2, <1>3

\* A queue grows by one key, gives one key to a worker, or stays as it is.
Grows(a) ==
  LET j == call[a] k == KeyOf[j.target] IN
  /\ j \in Job /\ k \in Keys /\ j.tier \in Tiers
  /\ ~Refused(j)
  /\ seen' = seen \cup {<<k, j.tier>>}
  /\ \A x \in Keys, n \in Tiers :
       Waits(x, n)' <=> Waits(x, n) \/ (x = k /\ n = j.tier)
  /\ job' = job
  /\ \A w \in Workers : pc'[w] = "work" <=> pc[w] = "work"

Gives(w) ==
  /\ seen' = seen
  /\ pc[w] = "ready" /\ pc' = [pc EXCEPT ![w] = "work"]
  /\ \A v \in Workers : v # w => job'[v] = job[v]
  /\ job'[w] \in Job
  /\ Waits(KeyAt(w)', TierAt(w)')
  /\ \A x \in Keys, n \in Tiers :
       Waits(x, n) <=> Waits(x, n)' \/ (x = KeyAt(w)' /\ n = TierAt(w)')

Keeps ==
  /\ seen' = seen
  /\ items' = items

LEMMA AcceptGrows ==
  ASSUME TypeOK, NEW a \in Actors, PushAccept(a)
  PROVE  Grows(a)
<1> DEFINE j == call[a]
           k == KeyOf[j.target]
<1>1. j \in Job /\ j.target \in Targets /\ j.tier \in Tiers /\ k \in Keys
  BY ConstantsAssumption DEF TypeOK, PushAccept, Job
<1>2. /\ ~Refused(j) /\ seen' = seen \cup {<<k, j.tier>>}
      /\ items' = [items EXCEPT ![j.tier] = Append(@, j.target)]
      /\ job' = job
  BY DEF PushAccept, Enqueue
<1>3. \A w \in Workers : pc'[w] = "work" <=> pc[w] = "work"
  BY WakingKeepsWork DEF PushAccept
<1>4. ASSUME NEW x \in Keys, NEW n \in Tiers
      PROVE  Waits(x, n)' <=> Waits(x, n) \/ (x = k /\ n = j.tier)
  <2>1. items[n] \in Seq(Targets)
    BY DEF TypeOK
  <2>2. CASE n = j.tier
    <3>1. items'[n] = Append(items[n], j.target)
      BY <1>1, <1>2, <2>2 DEF TypeOK
    <3>2. (\E i \in DOMAIN Append(items[n], j.target) :
             KeyOf[Append(items[n], j.target)[i]] = x)
            <=> x = k \/ \E i \in DOMAIN items[n] : KeyOf[items[n][i]] = x
      <4> HIDE DEF j
      <4>1. j.target \in Targets
        BY <1>1
      <4>2. QED
        BY <4>1, <2>1, AppendedKeys
    <3>3. Waits(x, n)' <=> x = k \/ Waits(x, n)
      BY <3>1, <3>2 DEF Waits
    <3>4. QED
      BY <2>2, <3>3
  <2>3. CASE n # j.tier
    <3>1. items'[n] = items[n]
      BY <1>1, <1>2, <2>3 DEF TypeOK
    <3>2. QED
      BY <2>3, <3>1 DEF Waits
  <2>4. QED
    BY <2>2, <2>3
<1>5. QED
  BY <1>1, <1>2, <1>3, <1>4 DEF Grows

LEMMA TakeGives ==
  ASSUME TypeOK, NEW w \in Workers, PopTake(w)
  PROVE  Gives(w)
<1>1. PICK n \in Tiers :
        /\ Dispatchable(n)
        /\ items' = [items EXCEPT ![n] = Tail(@)]
        /\ job' = [job EXCEPT ![w] = [target |-> Head(items[n]), tier |-> n]]
  BY DEF PopTake
<1>2. seen' = seen /\ pc[w] = "ready" /\ pc' = [pc EXCEPT ![w] = "work"]
  BY DEF PopTake
<1>3. items[n] \in Seq(Targets) /\ items[n] # <<>>
  BY <1>1 DEF TypeOK, Dispatchable
<1>4. Head(items[n]) \in Targets
  BY <1>3
<1>5. /\ job'[w] = [target |-> Head(items[n]), tier |-> n]
      /\ \A v \in Workers : v # w => job'[v] = job[v]
  BY <1>1 DEF TypeOK
<1>6. job'[w] \in Job /\ KeyAt(w)' = KeyOf[Head(items[n])] /\ TierAt(w)' = n
  BY <1>4, <1>5 DEF Job, KeyAt, TierAt
<1>7. ASSUME NEW x \in Keys, NEW m \in Tiers
      PROVE  Waits(x, m) <=> Waits(x, m)' \/ (x = KeyAt(w)' /\ m = TierAt(w)')
  <2>1. CASE m = n
    <3>1. items'[m] = Tail(items[n])
      BY <1>1, <2>1 DEF TypeOK
    <3>2. (\E i \in DOMAIN items[n] : KeyOf[items[n][i]] = x)
            <=> \/ x = KeyOf[Head(items[n])]
                \/ \E i \in DOMAIN Tail(items[n]) : KeyOf[Tail(items[n])[i]] = x
      BY <1>3, PoppedKeys
    <3>3. Waits(x, m) <=> x = KeyOf[Head(items[n])] \/ Waits(x, m)'
      BY <2>1, <3>1, <3>2 DEF Waits
    <3>4. QED
      BY <1>6, <2>1, <3>3
  <2>2. CASE m # n
    <3>1. items'[m] = items[m]
      BY <1>1, <2>2 DEF TypeOK
    <3>2. QED
      BY <1>6, <2>2, <3>1 DEF Waits
  <2>3. QED
    BY <2>1, <2>2
<1>8. Waits(KeyAt(w)', TierAt(w)')
  BY <1>3, <1>6, PoppedKeys DEF Waits
<1>9. QED
  BY <1>2, <1>5, <1>6, <1>7, <1>8 DEF Gives


LEMMA QueueMoves ==
  ASSUME TypeOK, [Next]_vars
  PROVE  \/ \E a \in Actors : Grows(a)
         \/ \E w \in Workers : Gives(w)
         \/ Keeps /\ \A w \in Workers : pc'[w] = "work" => pc[w] = "work" /\ job'[w] = job[w]
<1> DEFINE Rest == Keeps /\ \A w \in Workers :
                     pc'[w] = "work" => pc[w] = "work" /\ job'[w] = job[w]
<1>1. ASSUME NEW a \in Actors, Push(a)
      PROVE  Grows(a) \/ Rest
  <2>1. CASE PushAccept(a)
    BY <2>1, AcceptGrows
  <2>2. CASE PushRefuse(a)
    BY <2>2 DEF PushRefuse, Keeps
  <2>3. QED
    BY <1>1, <2>1, <2>2 DEF Push
<1>2. ASSUME NEW w \in Workers, Pop(w) \/ Done(w)
      PROVE  Gives(w) \/ Rest
  <2>1. CASE PopTake(w)
    BY <2>1, TakeGives
  <2>2. CASE PopExit(w) \/ PopWait(w)
    <3>1. Keeps
      BY <2>2 DEF PopExit, PopWait, Keeps
    <3>2. QED
      BY <2>2, <3>1, QueueLocals
  <2>3. CASE Done(w)
    <3>1. Keeps
      BY <2>3 DEF Done, Keeps
    <3>2. QED
      BY <2>3, <3>1, QueueLocals
  <2>4. QED
    BY <1>2, <2>1, <2>2, <2>3 DEF Pop
<1>3. CASE SourceDone \/ CancelWaiting
  <2>1. Keeps
    BY <1>3 DEF SourceDone, CancelWaiting, Keeps
  <2>2. QED
    BY <1>3, <2>1, QueueLocals
<1>4. CASE CloseSet \/ Cancel \/ UNCHANGED vars
  BY <1>4 DEF CloseSet, Cancel, vars, Keeps
<1>5. CASE CloseBroadcast
  <2>1. \A w \in Workers : pc'[w] = "work" <=> pc[w] = "work"
    BY <1>5, WakingKeepsWork DEF CloseBroadcast
  <2>2. QED
    BY <1>5, <2>1 DEF CloseBroadcast, Keeps
<1>6. ASSUME NEW a \in Actors, NEW j \in Job, PushBegin(a, j)
      PROVE  Rest
  BY <1>6 DEF PushBegin, Keeps
<1>7. QED
  BY <1>1, <1>2, <1>3, <1>4, <1>5, <1>6 DEF Next

LEMMA NextCallsInRange ==
  ASSUME ScanInv, [ScanNext]_allVars
  PROVE  CallsInRange'
<1>0. /\ CallsInRange /\ TypeOK
      /\ Source \in Actors /\ \A w \in Workers : w \in Actors
  BY DEF ScanInv, Outstanding, Accepted, Actors
<1>1. ASSUME NEW a \in Actors, NEW j \in Job, PushBegin(a, j), j.tier <= LastTier
      PROVE  CallsInRange'
  BY <1>0, <1>1 DEF PushBegin, CallsInRange, TypeOK
<1>2. ASSUME \A a \in Actors : call'[a] = call[a] \/ call'[a] = None
      PROVE  CallsInRange'
  BY <1>0, <1>2 DEF CallsInRange
<1>3. CASE SourceStep
  <2>1. CASE PushPage
    <3>1. feeding \in Targets
      BY <2>1, ScannerAssumption DEF ScanInv, SourceAligned, PushPage
    <3>2. [target |-> feeding, tier |-> 1] \in Job
      BY <3>1, TierFacts DEF Job, Tiers
    <3>3. QED
      BY <1>0, <1>1, <2>1, <3>2, TierFacts DEF PushPage
  <2>2. CASE PagePushed
    <3>1. Push(Source)
      BY <2>2 DEF PagePushed, Push
    <3>2. call' = [call EXCEPT ![Source] = None]
      BY <1>0, <3>1, QueueLocals
    <3>3. QED
      BY <1>0, <1>2, <3>2 DEF TypeOK
  <2>3. CASE EndOfPages
    BY <1>0, <1>2, <2>3, QueueLocals DEF EndOfPages
  <2>4. ASSUME PushPageDenied \/ EvictRefusedPage \/ \E t \in Crawled : Receive(t)
        PROVE  call' = call
    BY <2>4 DEF PushPageDenied, EvictRefusedPage, Receive, vars
  <2>5. QED
    BY <1>2, <1>3, <2>1, <2>2, <2>3, <2>4 DEF SourceStep
<1>4. ASSUME NEW w \in Workers, WorkerStep(w)
      PROVE  CallsInRange'
  <2>1. CASE Advance(w)
    <3>1. pc[w] = "work" /\ TierAt(w) < LastTier
      BY <2>1 DEF ScanInv, WorkersAligned, AlignedAt, Advance
    <3>2. job[w].target \in Targets /\ TierAt(w) \in Tiers
      BY <3>1, HeldJobs
    <3>3. [target |-> job[w].target, tier |-> TierAt(w) + 1] \in Job
      BY <3>1, <3>2, TierFacts DEF Job, Tiers
    <3>4. TierAt(w) + 1 <= LastTier
      BY <3>1, <3>2, TierFacts DEF Tiers
    <3>5. QED
      BY <1>0, <1>1, <2>1, <3>3, <3>4 DEF Advance
  <2>2. CASE Discovered(w) \/ Advanced(w)
    <3>1. Push(w)
      BY <2>2 DEF Discovered, Advanced, Push
    <3>2. call' = [call EXCEPT ![w] = None]
      BY <1>0, <3>1, QueueLocals
    <3>3. QED
      BY <1>0, <1>2, <3>2 DEF TypeOK
  <2>3. ASSUME Take(w) \/ RestOfPop(w) \/ Finish(w)
        PROVE  call' = call
    BY <1>0, <2>3, QueueLocals DEF Take, RestOfPop, Finish
  <2>4. ASSUME ObtainPage(w) \/ Abandon(w) \/ ScanReturns(w) \/ AdvanceDenied(w) \/ Evict(w)
        PROVE  call' = call
    BY <2>4 DEF ObtainPage, Refresh, LoadHit, LoadMiss, Materialize, FetchFails, Abandon,
                ScanReturns, AdvanceDenied, Evict, vars
  <2>5. QED
    BY <1>2, <1>4, <2>1, <2>2, <2>3, <2>4 DEF WorkerStep, Retire
<1>5. ASSUME NEW w \in Workers, NEW c \in Checks, CheckStep(w, c) \/ Discover(w, c)
      PROVE  CallsInRange'
  <2>1. CASE CheckStep(w, c)
    BY <1>2, <2>1 DEF CheckStep, Launch, CheckReturns, Send, vars
  <2>2. CASE Discover(w, c)
    <3>1. PICK e \in Emits : PushBegin(w, e.job)
      BY <2>2 DEF Discover
    <3>2. e.job \in Job /\ (e.job.tier = NumTiers => TwoPhase # {})
      BY ScannerAssumption DEF Deferred
    <3>3. e.job.tier \in Tiers
      BY <3>2 DEF Job
    <3>4. e.job.tier <= LastTier
      BY <3>2, <3>3, TierFacts DEF Tiers
    <3>5. QED
      BY <1>0, <1>1, <3>1, <3>2, <3>4
  <2>3. QED
    BY <1>5, <2>1, <2>2
<1>6. CASE MainStep \/ CancelScan \/ UNCHANGED allVars
  BY <1>2, <1>6 DEF MainStep, Join, OOBWait, Drain, Return, CancelScan, Cancel, vars, allVars
<1>7. CASE WakeCancelled
  BY <1>0, <1>2, <1>7, QueueLocals DEF WakeCancelled
<1>8. QED
  BY <1>3, <1>4, <1>5, <1>6, <1>7 DEF ScanNext


\* The record of what was scanned, and of what failed, changes at two places.
LEMMA RecordMoves ==
  ASSUME ScanInv, [ScanNext]_allVars
  PROVE  \/ scanned' = scanned /\ failed' = failed
         \/ \E w \in Workers : ScanReturns(w)
         \/ \E w \in Workers : FetchFails(w)
<1>1. ASSUME SourceStep \/ MainStep \/ CancelScan \/ WakeCancelled \/ UNCHANGED allVars
      PROVE  scanned' = scanned /\ failed' = failed
  BY <1>1 DEF SourceStep, PushPage, PushPageDenied, PagePushed, EvictRefusedPage, EndOfPages,
     Receive, MainStep, Join, OOBWait, Drain, Return, CancelScan, WakeCancelled, scanVars,
     allVars
<1>2. ASSUME NEW w \in Workers, WorkerStep(w)
      PROVE  (scanned' = scanned /\ failed' = failed) \/ ScanReturns(w) \/ FetchFails(w)
  BY <1>2 DEF WorkerStep, Take, RestOfPop, ObtainPage, Refresh, LoadHit, LoadMiss,
     Materialize, Abandon, Discovered, Retire, Advance, AdvanceDenied, Advanced, Evict,
     Finish, scanVars
<1>3. ASSUME NEW w \in Workers, NEW c \in Checks, CheckStep(w, c) \/ Discover(w, c)
      PROVE  scanned' = scanned /\ failed' = failed
  BY <1>3 DEF CheckStep, Launch, CheckReturns, Send, Discover, scanVars
<1>4. QED
  BY <1>1, <1>2, <1>3 DEF ScanNext

LEMMA NextAccepted ==
  ASSUME ScanInv, [ScanNext]_allVars
  PROVE  Accepted'
<1>0. TypeOK /\ Accepted /\ WorkersAligned /\ [Next]_vars
  BY ScanNextQueue DEF ScanInv, Outstanding
<1>1. CallsInRange'
  BY NextCallsInRange
<1>2. seen \subseteq seen'
  BY <1>0, QueueMoves DEF Grows, Gives, Keeps
<1>3. scanned' \subseteq seen'
  <2>1. CASE scanned' = scanned
    BY <1>0, <1>2, <2>1 DEF Accepted
  <2>2. ASSUME NEW w \in Workers, ScanReturns(w)
        PROVE  scanned' \subseteq seen'
    <3>1. pc[w] = "work"
      BY <1>0, <2>2 DEF WorkersAligned, AlignedAt, ScanReturns
    <3>2. QED
      BY <1>0, <1>2, <2>2, <3>1 DEF Accepted, ScanReturns
  <2>3. ASSUME NEW w \in Workers, FetchFails(w)
        PROVE  scanned' = scanned
    BY <2>3 DEF FetchFails
  <2>4. QED
    BY <2>1, <2>2, <2>3, RecordMoves
<1>4. ASSUME NEW k \in Keys, NEW n \in Tiers
      PROVE  /\ Waits(k, n)' => <<k, n>> \in seen'
             /\ <<k, n>> \in seen' => n <= LastTier
  <2>1. ASSUME NEW a \in Actors, Grows(a)
        PROVE  /\ Waits(k, n)' => <<k, n>> \in seen'
               /\ <<k, n>> \in seen' => n <= LastTier
    <3>1. call[a] # None
      BY <2>1, ConstantsAssumption DEF Grows
    <3>2. call[a].tier <= LastTier
      BY <1>0, <3>1 DEF Accepted, CallsInRange
    <3>3. QED
      BY <1>0, <2>1, <3>2 DEF Accepted, Grows
  <2>2. ASSUME NEW w \in Workers, Gives(w)
        PROVE  /\ Waits(k, n)' => <<k, n>> \in seen'
               /\ <<k, n>> \in seen' => n <= LastTier
    BY <1>0, <2>2 DEF Accepted, Gives
  <2>3. CASE Keeps
    BY <1>0, <2>3 DEF Accepted, Keeps, Waits
  <2>4. QED
    BY <1>0, <2>1, <2>2, <2>3, QueueMoves
<1>5. ASSUME NEW w \in Workers, pc'[w] = "work"
      PROVE  <<KeyAt(w)', TierAt(w)'>> \in seen'
  <2>1. CASE pc[w] = "work" /\ job'[w] = job[w]
    BY <1>0, <1>2, <2>1 DEF Accepted, KeyAt, TierAt
  <2>2. ASSUME NEW a \in Actors, Grows(a)
        PROVE  pc[w] = "work" /\ job'[w] = job[w]
    BY <1>5, <2>2 DEF Grows
  <2>3. ASSUME NEW v \in Workers, Gives(v), v # w
        PROVE  pc[w] = "work" /\ job'[w] = job[w]
    BY <1>0, <1>5, <2>3 DEF Gives, TypeOK
  <2>4. CASE Gives(w)
    <3>1. KeyAt(w)' \in Keys /\ TierAt(w)' \in Tiers
      BY <2>4, ConstantsAssumption DEF Gives, Job, KeyAt, TierAt
    <3>2. QED
      BY <1>0, <2>4, <3>1 DEF Accepted, Gives
  <2>5. QED
    BY <1>0, <1>5, <2>1, <2>2, <2>3, <2>4, QueueMoves
<1>6. QED
  BY <1>1, <1>3, <1>4, <1>5 DEF Accepted


-----------------------------------------------------------------------------
(* Every accepted key is walked through every tier.                         *)

Scanning  == {"refresh", "load", "fetch", "scan"}
Advancing == {"advance", "advancing"}

\* A worker at work keeps its place on its target's way, or takes one of the
\* steps that matter to it.
Stays(v) ==
  /\ pc'[v] = "work" /\ job'[v] = job[v]
  /\ stage[v] \in Scanning => stage'[v] \in Scanning
  /\ stage[v] \in Advancing => stage'[v] \in Advancing
  /\ stage[v] # "done" => stage'[v] # "done"

LEMMA WorkerMoves ==
  ASSUME ScanInv, [ScanNext]_allVars, NEW v \in Workers, pc[v] = "work"
  PROVE  \/ Stays(v)
         \/ FetchFails(v) \/ ScanReturns(v) \/ AdvanceDenied(v) \/ Advanced(v)
         \/ Evict(v) \/ Finish(v)
<1>0. /\ Typed /\ TypeOK /\ AlignedAt(v) /\ v \in Actors
      /\ stage[v] # "idle"
  BY DEF ScanInv, Outstanding, WorkersAligned, AlignedAt, Actors
<1>1. ASSUME Untouched(v)
      PROVE  Stays(v)
  BY <1>1 DEF Untouched, Stays
<1>2. CASE SourceStep
  BY <1>1, <1>2, SourceTouchesNoWorker
<1>3. ASSUME NEW w \in Workers, w # v,
             \/ WorkerStep(w)
             \/ \E c \in Checks : CheckStep(w, c) \/ Discover(w, c)
      PROVE  Stays(v)
  BY <1>1, <1>3, WorkersTouchThemselves
<1>4. ASSUME NEW c \in Checks, CheckStep(v, c) \/ Discover(v, c)
      PROVE  Stays(v)
  <2>1. pc' = pc /\ job' = job /\ stage' = stage
    BY <1>4 DEF CheckStep, Launch, CheckReturns, Send, Discover, PushBegin, vars, scanVars
  <2>2. QED
    BY <2>1 DEF Stays
<1>5. CASE Take(v) \/ RestOfPop(v)
  BY <1>5 DEF Take, RestOfPop, PopTake, PopWait, PopExit
<1>6. CASE Refresh(v) \/ LoadHit(v) \/ LoadMiss(v) \/ Materialize(v)
  <2>1. pc' = pc /\ job' = job
    BY <1>6 DEF Refresh, LoadHit, LoadMiss, Materialize, vars
  <2>2. stage[v] \in Scanning /\ stage'[v] \in Scanning
    BY <1>0, <1>6 DEF Refresh, LoadHit, LoadMiss, Materialize, BeginScan, Goto, Typed, Scanning
  <2>3. QED
    BY <2>1, <2>2 DEF Stays, Scanning, Advancing
<1>7. CASE Abandon(v)
  BY <1>1, <1>7 DEF Abandon, Stays, vars
<1>8. CASE Discovered(v)
  <2>1. job' = job /\ pc'[v] = "work"
    BY <1>0, <1>8, QueueLocals DEF Discovered
  <2>2. stage' = stage
    BY <1>8 DEF Discovered, scanVars
  <2>3. QED
    BY <2>1, <2>2 DEF Stays
<1>9. CASE Advance(v)
  BY <1>0, <1>9 DEF Advance, PushBegin, Goto, Typed, Stays, Scanning, Advancing
<1>10. CASE MainStep \/ CancelScan \/ UNCHANGED allVars
  BY <1>10 DEF MainStep, Join, OOBWait, Drain, Return, CancelScan, Cancel, Stays,
     vars, scanVars, allVars
<1>11. CASE WakeCancelled
  BY <1>0, <1>1, <1>11, QueueLocals DEF WakeCancelled, Untouched, scanVars
<1>12. ASSUME NEW w \in Workers, WorkerStep(w), w = v
       PROVE  \/ Stays(v)
              \/ FetchFails(v) \/ ScanReturns(v) \/ AdvanceDenied(v) \/ Advanced(v)
              \/ Evict(v) \/ Finish(v)
  BY <1>5, <1>6, <1>7, <1>8, <1>9, <1>12 DEF WorkerStep, ObtainPage, Retire
<1>13. QED
  BY <1>2, <1>3, <1>4, <1>10, <1>11, <1>12 DEF ScanNext

LEMMA OnlyTakeGives ==
  ASSUME ScanInv, [ScanNext]_allVars, NEW v \in Workers, pc[v] = "ready", pc'[v] = "work"
  PROVE  Take(v)
<1>0. /\ TypeOK /\ AlignedAt(v) /\ stage[v] = "idle"
  BY DEF ScanInv, Outstanding, WorkersAligned, AlignedAt
<1>1. ~Untouched(v)
  BY DEF Untouched
<1>2. ~SourceStep
  BY <1>1, SourceTouchesNoWorker
<1>3. ASSUME NEW w \in Workers,
             \/ WorkerStep(w)
             \/ \E c \in Checks : CheckStep(w, c) \/ Discover(w, c)
      PROVE  w = v
  BY <1>1, <1>3, WorkersTouchThemselves
<1>4. ASSUME NEW c \in Checks, CheckStep(v, c) \/ Discover(v, c)
      PROVE  pc' = pc
  BY <1>4 DEF CheckStep, Launch, CheckReturns, Send, Discover, PushBegin, vars
<1>5. ~RestOfPop(v)
  BY <1>0, QueueLocals DEF RestOfPop
<1>6. ASSUME ObtainPage(v) \/ Discovered(v) \/ ScanReturns(v) \/ Retire(v)
      PROVE  FALSE
  BY <1>0, <1>6 DEF ObtainPage, Refresh, LoadHit, LoadMiss, Materialize, FetchFails,
     Discovered, ScanReturns, Retire, Advance, AdvanceDenied, Advanced, Evict, Finish
<1>7. ASSUME Abandon(v) \/ MainStep \/ CancelScan \/ UNCHANGED allVars
      PROVE  pc' = pc
  BY <1>7 DEF Abandon, MainStep, Join, OOBWait, Drain, Return, CancelScan, Cancel, vars, allVars
<1>8. ~WakeCancelled
  BY <1>0, QueueLocals DEF WakeCancelled
<1>9. WorkerStep(v)
  BY <1>2, <1>3, <1>4, <1>7, <1>8 DEF ScanNext
<1>10. QED
  BY <1>5, <1>6, <1>7, <1>9 DEF WorkerStep


\* While a scan is not stopped, what waits still waits or is in hand.
LEMMA WaitsOn ==
  ASSUME ScanInv, [ScanNext]_allVars, NEW k \in Keys, NEW p \in Tiers, Waits(k, p)
  PROVE  Waits(k, p)' \/ InHand(k, p)'
<1>0. TypeOK /\ Typed /\ [Next]_vars
  BY ScanNextQueue DEF ScanInv, Outstanding
<1>1. ASSUME NEW a \in Actors, Grows(a)
      PROVE  Waits(k, p)'
  BY <1>1 DEF Grows
<1>2. CASE Keeps
  BY <1>2 DEF Keeps, Waits
<1>3. ASSUME NEW w \in Workers, Gives(w), ~Waits(k, p)'
      PROVE  InHand(k, p)'
  <2>1. pc[w] = "ready" /\ pc'[w] = "work"
    BY <1>0, <1>3 DEF Gives, TypeOK
  <2>2. Take(w)
    BY <2>1, OnlyTakeGives
  <2>3. stage'[w] \in {"refresh", "load"}
    BY <1>0, <2>2 DEF Take, Goto, Typed, Actors
  <2>4. k = KeyAt(w)' /\ p = TierAt(w)'
    BY <1>3 DEF Gives
  <2>5. At(w, k, p)'
    BY <2>1, <2>4 DEF At
  <2>6. QED
    BY <2>3, <2>5 DEF InHand
<1>4. QED
  BY <1>0, <1>1, <1>2, <1>3, QueueMoves

\* What is in hand stays in hand, or is scanned, or its page cannot be had.
LEMMA InHandOn ==
  ASSUME ScanInv, [ScanNext]_allVars, NEW k \in Keys, NEW p \in Tiers, InHand(k, p)
  PROVE  \/ InHand(k, p)'
         \/ <<k, p>> \in scanned' /\ (p < LastTier => Advances(k, p)')
         \/ k \in failed'
<1>1. PICK v \in Workers : At(v, k, p) /\ stage[v] \in Scanning
  BY DEF InHand, Scanning
<1>2. /\ pc[v] = "work" /\ KeyAt(v) = k /\ TierAt(v) = p /\ Typed
      /\ v \in Actors
  BY <1>1 DEF At, ScanInv, Actors
<1>3. CASE Stays(v)
  BY <1>1, <1>2, <1>3 DEF Stays, InHand, At, KeyAt, TierAt, Scanning
<1>4. CASE FetchFails(v)
  BY <1>2, <1>4 DEF FetchFails
<1>5. CASE ScanReturns(v)
  <2>1. <<k, p>> \in scanned'
    BY <1>2, <1>5 DEF ScanReturns
  <2>2. pc'[v] = "work" /\ job'[v] = job[v]
    BY <1>2, <1>5 DEF ScanReturns, vars
  <2>3. p < LastTier => stage'[v] = "advance"
    BY <1>2, <1>5 DEF ScanReturns, NextStage, Goto, Typed
  <2>4. At(v, k, p)'
    BY <1>2, <2>2 DEF At, KeyAt, TierAt
  <2>5. p < LastTier => Advances(k, p)'
    BY <2>3, <2>4 DEF Advances
  <2>6. QED
    BY <2>1, <2>5
<1>6. CASE AdvanceDenied(v) \/ Advanced(v) \/ Evict(v) \/ Finish(v)
  BY <1>1, <1>6 DEF AdvanceDenied, Advanced, Evict, Finish, Scanning
<1>7. QED
  BY <1>2, <1>3, <1>4, <1>5, <1>6, WorkerMoves

\* What is about to be pushed at the next tier gets there, or was there before:
\* only the duplicate test can refuse it, the key being no new one for the host.
LEMMA AdvancesOn ==
  ASSUME ScanInv, [ScanNext]_allVars, ~ctxDone', NEW k \in Keys, NEW p \in Tiers,
         Advances(k, p)
  PROVE  \/ Advances(k, p)'
         \/ p + 1 \in Tiers /\ <<k, p + 1>> \in seen' /\ Waits(k, p + 1)'
         \/ /\ p + 1 \in Tiers /\ <<k, p + 1>> \in seen
            /\ \A q \in Tiers : q # p /\ Advances(k, q) => Advances(k, q)'
<1>1. PICK v \in Workers : At(v, k, p) /\ stage[v] \in Advancing
  BY DEF Advances, Advancing
<1>2. /\ pc[v] = "work" /\ KeyAt(v) = k /\ TierAt(v) = p
      /\ Typed /\ TypeOK /\ AlignedAt(v) /\ v \in Actors
      /\ <<k, p>> \in seen /\ closer = "open" /\ job[v] \in Job
  BY <1>1 DEF At, ScanInv, Actors, Outstanding, WorkersAligned, WorkingHoldsJob, Accepted,
     SourceAligned
<1>3. CASE Stays(v)
  BY <1>1, <1>2, <1>3 DEF Stays, Advances, At, KeyAt, TierAt, Advancing
<1>4. CASE AdvanceDenied(v)
  BY <1>4 DEF AdvanceDenied, vars
<1>5. CASE Advanced(v)
  <2> DEFINE j == [target |-> job[v].target, tier |-> p + 1]
  <2>1. call[v] = j /\ p < LastTier
    BY <1>2, <1>5 DEF Advanced, AlignedAt
  <2>2. p + 1 \in Tiers
    BY <2>1, TierFacts DEF Tiers
  <2>3. KeyOf[call[v].target] = k /\ call[v].tier = p + 1
    BY <1>2, <2>1 DEF KeyAt
  <2>4. CASE PushAccept(v)
    <3>1. Grows(v)
      BY <1>2, <2>4, AcceptGrows
    <3>2. QED
      BY <2>2, <2>3, <3>1 DEF Grows
  <2>5. CASE PushRefuse(v)
    <3>1. Refused(call[v])
      BY <2>5 DEF PushRefuse
    <3>2. SeenAnyTier(k)
      BY <1>2 DEF SeenAnyTier
    <3>3. <<k, p + 1>> \in seen
      BY <1>2, <2>2, <2>3, <3>1, <3>2 DEF Refused, Closed
    <3>4. ASSUME NEW q \in Tiers, q # p, Advances(k, q)
          PROVE  Advances(k, q)'
      <4>1. PICK u \in Workers : At(u, k, q) /\ stage[u] \in Advancing
        BY <3>4 DEF Advances, Advancing
      <4>2. u # v
        BY <1>2, <3>4, <4>1 DEF At
      <4>3. Untouched(u)
        BY <1>5, <4>2, WorkersTouchThemselves DEF WorkerStep, Retire
      <4>4. At(u, k, q)' /\ stage'[u] \in Advancing
        BY <4>1, <4>3 DEF At, Untouched, KeyAt, TierAt
      <4>5. QED
        BY <4>4 DEF Advances, Advancing
    <3>5. QED
      BY <2>2, <3>3, <3>4
  <2>6. QED
    BY <1>5, <2>4, <2>5 DEF Advanced
<1>6. CASE FetchFails(v) \/ ScanReturns(v) \/ Evict(v) \/ Finish(v)
  BY <1>1, <1>6 DEF FetchFails, ScanReturns, Evict, Finish, Advancing
<1>7. QED
  BY <1>2, <1>3, <1>4, <1>5, <1>6, WorkerMoves


LEMMA RecordGrows ==
  ASSUME ScanInv, [ScanNext]_allVars
  PROVE  scanned \subseteq scanned' /\ failed \subseteq failed'
BY RecordMoves DEF ScanReturns, FetchFails

LEMMA OnItsWayOn ==
  ASSUME ScanInv, [ScanNext]_allVars, ~ctxDone, ~ctxDone',
         NEW k \in Keys, NEW n \in Tiers, <<k, n>> \in seen, NEW m \in n..LastTier
  PROVE  OnItsWay(k, n, m)'
<1>0. /\ n \in Nat /\ m \in Nat /\ n <= m /\ m <= LastTier
      /\ \A p \in n..m : p \in Tiers /\ p \in Nat
  BY TierFacts DEF Tiers
<1>1. CASE <<k, m>> \in scanned \/ k \in failed
  BY <1>1, RecordGrows DEF OnItsWay
<1>2. ASSUME NEW p \in n..m, Waits(k, p)
      PROVE  OnItsWay(k, n, m)'
  BY <1>0, <1>2, WaitsOn DEF OnItsWay
<1>3. ASSUME NEW p \in n..m, InHand(k, p)
      PROVE  OnItsWay(k, n, m)'
  <2>1. \/ InHand(k, p)'
        \/ <<k, p>> \in scanned' /\ (p < LastTier => Advances(k, p)')
        \/ k \in failed'
    BY <1>0, <1>3, InHandOn
  <2>2. p = m \/ (p < m /\ p < LastTier)
    BY <1>0, TierFacts
  <2>3. QED
    BY <2>1, <2>2 DEF OnItsWay
<1>4. ASSUME NEW p \in n..m, p < m, Advances(k, p)
      PROVE  OnItsWay(k, n, m)'
  <2>1. p + 1 \in n..m /\ m \in (p + 1)..LastTier
    BY <1>0, <1>4, TierFacts
  <2>2. CASE Advances(k, p)'
    BY <1>4, <2>2 DEF OnItsWay
  <2>3. CASE Waits(k, p + 1)'
    BY <2>1, <2>3 DEF OnItsWay
  <2>4. CASE /\ <<k, p + 1>> \in seen
             /\ \A q \in Tiers : q # p /\ Advances(k, q) => Advances(k, q)'
    <3>1. OnItsWay(k, p + 1, m)
      BY <1>0, <2>1, <2>4 DEF ScanInv, Walking
    <3>2. \A q \in (p + 1)..m : q \in n..m /\ q # p
      BY <1>0, <1>4, <2>1
    <3>3. ASSUME NEW q \in (p + 1)..m, q < m, Advances(k, q)
          PROVE  OnItsWay(k, n, m)'
      <4>1. Advances(k, q)'
        BY <1>0, <2>4, <3>2, <3>3
      <4>2. QED
        BY <3>2, <3>3, <4>1 DEF OnItsWay
    <3>4. QED
      BY <1>1, <1>2, <1>3, <3>1, <3>2, <3>3 DEF OnItsWay
  <2>5. QED
    BY <1>0, <1>4, <2>2, <2>3, <2>4, AdvancesOn
<1>5. OnItsWay(k, n, m)
  BY <1>0 DEF ScanInv, Walking
<1>6. QED
  BY <1>1, <1>2, <1>3, <1>4, <1>5 DEF OnItsWay

LEMMA CancelledForGood == ASSUME [Next]_vars, ~ctxDone' PROVE ~ctxDone
BY DEF Next, vars, PushBegin, Push, PushRefuse, PushAccept, Pop, PopTake, PopExit,
   PopWait, Done, SourceDone, CloseSet, CloseBroadcast, Cancel, CancelWaiting

LEMMA NextWalking ==
  ASSUME ScanInv, [ScanNext]_allVars
  PROVE  Walking'
<1> SUFFICES ASSUME ~ctxDone', NEW k \in Keys, NEW n \in Tiers, <<k, n>> \in seen',
                    NEW m \in n..LastTier
             PROVE  OnItsWay(k, n, m)'
  BY DEF Walking
<1>0. [Next]_vars /\ TypeOK
  BY ScanNextQueue DEF ScanInv, Outstanding
<1>1. ~ctxDone
  BY <1>0, CancelledForGood
<1>2. CASE <<k, n>> \in seen
  BY <1>1, <1>2, OnItsWayOn
<1>3. CASE <<k, n>> \notin seen
  <2>1. Waits(k, n)'
    BY <1>0, <1>3, QueueMoves DEF Grows, Gives, Keeps
  <2>2. n \in n..m
    BY TierFacts DEF Tiers
  <2>3. QED
    BY <2>1, <2>2 DEF OnItsWay
<1>4. QED
  BY <1>2, <1>3

LEMMA NextPromoted ==
  ASSUME ScanInv, [ScanNext]_allVars
  PROVE  Promoted'
<1> SUFFICES ASSUME ~ctxDone', NEW k \in Keys, NEW n \in Tiers, <<k, n>> \in scanned',
                    n < LastTier
             PROVE  <<k, n + 1>> \in seen' \/ Advances(k, n)'
  BY DEF Promoted
<1>0. [Next]_vars /\ TypeOK /\ Typed /\ WorkersAligned
  BY ScanNextQueue DEF ScanInv, Outstanding
<1>1. ~ctxDone
  BY <1>0, CancelledForGood
<1>2. CASE <<k, n>> \in scanned
  <2>1. <<k, n + 1>> \in seen \/ Advances(k, n)
    BY <1>1, <1>2 DEF ScanInv, Promoted
  <2>2. seen \subseteq seen'
    BY <1>0, QueueMoves DEF Grows, Gives, Keeps
  <2>3. QED
    BY <2>1, <2>2, AdvancesOn
<1>3. CASE <<k, n>> \notin scanned
  <2>1. PICK v \in Workers : ScanReturns(v)
    BY <1>3, RecordMoves DEF FetchFails
  <2>2. k = KeyAt(v) /\ n = TierAt(v)
    BY <1>3, <2>1 DEF ScanReturns
  <2>3. pc[v] = "work"
    BY <1>0, <2>1 DEF WorkersAligned, AlignedAt, ScanReturns
  <2>4. pc'[v] = "work" /\ job'[v] = job[v]
    BY <2>1, <2>3 DEF ScanReturns, vars
  <2>5. stage'[v] = "advance"
    BY <1>0, <2>1, <2>2 DEF ScanReturns, NextStage, Goto, Typed, Actors
  <2>6. At(v, k, n)'
    BY <2>2, <2>4 DEF At, KeyAt, TierAt
  <2>7. QED
    BY <2>5, <2>6 DEF Advances
<1>4. QED
  BY <1>2, <1>3


-----------------------------------------------------------------------------
(* Every page in the cache is somebody's to evict.                          *)

LEMMA PageMoves ==
  ASSUME [ScanNext]_allVars
  PROVE  \/ pageByKey' \subseteq pageByKey
         \/ \E t \in Crawled : Receive(t)
         \/ \E w \in Workers : Materialize(w)
<1>1. ASSUME SourceStep \/ MainStep \/ CancelScan \/ WakeCancelled \/ UNCHANGED allVars
      PROVE  pageByKey' \subseteq pageByKey \/ \E t \in Crawled : Receive(t)
  BY <1>1 DEF SourceStep, PushPage, PushPageDenied, PagePushed, EvictRefusedPage, EndOfPages,
     MainStep, Join, OOBWait, Drain, Return, CancelScan, WakeCancelled, scanVars, allVars
<1>2. ASSUME NEW w \in Workers, WorkerStep(w)
      PROVE  pageByKey' \subseteq pageByKey \/ Materialize(w)
  BY <1>2 DEF WorkerStep, Take, RestOfPop, ObtainPage, Refresh, LoadHit, LoadMiss,
     FetchFails, Abandon, Discovered, ScanReturns, Retire, Advance, AdvanceDenied, Advanced,
     Evict, Finish, scanVars
<1>3. ASSUME NEW w \in Workers, NEW c \in Checks, CheckStep(w, c) \/ Discover(w, c)
      PROVE  pageByKey' = pageByKey
  BY <1>3 DEF CheckStep, Launch, CheckReturns, Send, Discover, scanVars
<1>4. QED
  BY <1>1, <1>2, <1>3 DEF ScanNext

LEMMA SourceMovesItself ==
  ASSUME ScanInv, [ScanNext]_allVars
  PROVE  SourceStep \/ (stage'[Source] = stage[Source] /\ feeding' = feeding)
<1>0. Typed /\ Source \notin Workers /\ Source \in Actors
  BY ConstantsAssumption DEF ScanInv, Actors
<1>1. ASSUME NEW w \in Workers, WorkerStep(w)
      PROVE  stage'[Source] = stage[Source] /\ feeding' = feeding
  BY <1>0, <1>1 DEF WorkerStep, Take, RestOfPop, ObtainPage, Refresh, LoadHit, LoadMiss,
     Materialize, FetchFails, Abandon, Discovered, ScanReturns, Retire, Advance,
     AdvanceDenied, Advanced, Evict, Finish, BeginScan, Goto, scanVars, Typed
<1>2. ASSUME NEW w \in Workers, NEW c \in Checks, CheckStep(w, c) \/ Discover(w, c)
      PROVE  stage' = stage /\ feeding' = feeding
  BY <1>2 DEF CheckStep, Launch, CheckReturns, Send, Discover, scanVars
<1>3. ASSUME MainStep \/ CancelScan \/ WakeCancelled \/ UNCHANGED allVars
      PROVE  stage' = stage /\ feeding' = feeding
  BY <1>3 DEF MainStep, Join, OOBWait, Drain, Return, CancelScan, WakeCancelled, scanVars, allVars
<1>4. QED
  BY <1>1, <1>2, <1>3 DEF ScanNext

\* A worker that holds a key's page, and has not evicted it.
Holds(w, k) == pc[w] = "work" /\ KeyAt(w) = k /\ stage[w] # "done"

\* The source's page is evicted, or queued, or still the source's.
LEMMA SourceHoldsOn ==
  ASSUME ScanInv, [ScanNext]_allVars, NEW k \in Keys, SourceHolds(k), k \in pageByKey'
  PROVE  SourceHolds(k)' \/ \E n \in Tiers : Waits(k, n)'
<1>0. /\ Typed /\ TypeOK /\ SourceAligned /\ Source \in Actors
      /\ stage[Source] \in {"push", "pushing", "evict"} /\ KeyOf[feeding] = k
  BY DEF ScanInv, Outstanding, Actors, SourceHolds
<1>1. CASE stage'[Source] = stage[Source] /\ feeding' = feeding
  BY <1>0, <1>1 DEF SourceHolds
<1>2. ASSUME NEW t \in Crawled, Receive(t)
      PROVE  FALSE
  BY <1>0, <1>2 DEF Receive
<1>3. CASE PushPage \/ PushPageDenied
  BY <1>0, <1>3 DEF PushPage, PushPageDenied, Goto, Typed, SourceHolds
<1>4. CASE PagePushed
  <2>1. CASE PushAccept(Source)
    <3>1. Grows(Source)
      BY <1>0, <2>1, AcceptGrows
    <3>2. call[Source] = [target |-> feeding, tier |-> 1]
      BY <1>0, <1>4 DEF PagePushed, SourceAligned
    <3>3. 1 \in Tiers
      BY TierFacts DEF Tiers
    <3>4. Waits(k, 1)'
      BY <1>0, <3>1, <3>2, <3>3 DEF Grows
    <3>5. QED
      BY <3>3, <3>4
  <2>2. CASE PushRefuse(Source) /\ Goto(Source, "evict")
    BY <1>0, <1>4, <2>2 DEF PagePushed, Goto, Typed, SourceHolds
  <2>3. QED
    BY <1>4, <2>1, <2>2 DEF PagePushed
<1>5. CASE EvictRefusedPage
  BY <1>0, <1>5 DEF EvictRefusedPage
<1>6. CASE EndOfPages
  BY <1>0, <1>6 DEF EndOfPages
<1>7. QED
  BY <1>1, <1>2, <1>3, <1>4, <1>5, <1>6, SourceMovesItself DEF SourceStep

LEMMA HoldsOn ==
  ASSUME ScanInv, [ScanNext]_allVars, NEW k \in Keys, NEW v \in Workers, Holds(v, k),
         k \in pageByKey'
  PROVE  Holds(v, k)' \/ \E n \in Tiers : Waits(k, n)'
<1>0. /\ pc[v] = "work" /\ KeyAt(v) = k /\ stage[v] # "done"
      /\ Typed /\ TypeOK /\ v \in Actors /\ AlignedAt(v)
  BY DEF Holds, ScanInv, Outstanding, WorkersAligned, Actors
<1>1. CASE Stays(v)
  BY <1>0, <1>1 DEF Stays, Holds, KeyAt
<1>2. CASE FetchFails(v) \/ ScanReturns(v) \/ AdvanceDenied(v)
  <2>1. pc'[v] = "work" /\ job'[v] = job[v]
    BY <1>0, <1>2 DEF FetchFails, ScanReturns, AdvanceDenied, vars
  <2>2. stage'[v] \in {"advance", "evict"}
    BY <1>0, <1>2 DEF FetchFails, ScanReturns, AdvanceDenied, NextStage, Goto, Typed
  <2>3. QED
    BY <1>0, <2>1, <2>2 DEF Holds, KeyAt
<1>3. CASE Advanced(v)
  <2>1. CASE PushAccept(v)
    <3>1. Grows(v)
      BY <1>0, <2>1, AcceptGrows
    <3>2. KeyOf[call[v].target] = k
      BY <1>0, <1>3 DEF Advanced, AlignedAt, KeyAt
    <3>3. QED
      BY <3>1, <3>2 DEF Grows
  <2>2. CASE PushRefuse(v) /\ Goto(v, "evict")
    <3>1. pc' = pc /\ job' = job
      BY <2>2 DEF PushRefuse
    <3>2. stage'[v] = "evict"
      BY <1>0, <2>2 DEF Goto, Typed
    <3>3. QED
      BY <1>0, <3>1, <3>2 DEF Holds, KeyAt
  <2>3. QED
    BY <1>3, <2>1, <2>2 DEF Advanced
<1>4. CASE Evict(v)
  BY <1>0, <1>4 DEF Evict
<1>5. CASE Finish(v)
  BY <1>0, <1>5 DEF Finish
<1>6. QED
  BY <1>0, <1>1, <1>2, <1>3, <1>4, <1>5, WorkerMoves

LEMMA NextCached ==
  ASSUME ScanInv, [ScanNext]_allVars
  PROVE  Cached'
<1> DEFINE Safe(k) == \/ SourceHolds(k) \/ \E n \in Tiers : Waits(k, n)
                      \/ \E w \in Workers : Holds(w, k)
<1> SUFFICES ASSUME NEW k \in pageByKey' PROVE Safe(k)'
  BY DEF Cached, Holds
<1>0. /\ Typed /\ TypeOK /\ Source \in Actors /\ k \in Keys
      /\ \A w \in Workers : w \in Actors /\ AlignedAt(w)
  BY NextTyped DEF ScanInv, Outstanding, Actors, Typed, WorkersAligned
<1>1. CASE k \in pageByKey
  <2>1. Safe(k)
    BY <1>1 DEF ScanInv, Cached, Holds
  <2>2. CASE SourceHolds(k)
    BY <1>0, <2>2, SourceHoldsOn
  <2>3. ASSUME NEW n \in Tiers, Waits(k, n)
        PROVE  Safe(k)'
    <3>1. CASE InHand(k, n)'
      BY <3>1 DEF InHand, At, Holds
    <3>2. QED
      BY <1>0, <2>3, <3>1, WaitsOn
  <2>4. ASSUME NEW w \in Workers, Holds(w, k)
        PROVE  Safe(k)'
    BY <1>0, <2>4, HoldsOn
  <2>5. QED
    BY <2>1, <2>2, <2>3, <2>4
<1>2. ASSUME NEW t \in Crawled, Receive(t), k \notin pageByKey
      PROVE  SourceHolds(k)'
  BY <1>0, <1>2 DEF Receive, Goto, Typed, SourceHolds
<1>3. ASSUME NEW w \in Workers, Materialize(w), k \notin pageByKey
      PROVE  Holds(w, k)'
  <2>1. k = KeyAt(w) /\ pc' = pc /\ job' = job
    BY <1>3 DEF Materialize, vars
  <2>2. pc[w] = "work"
    BY <1>0, <1>3 DEF Materialize, AlignedAt
  <2>3. stage'[w] = "scan"
    BY <1>0, <1>3 DEF Materialize, BeginScan, Goto, Typed
  <2>4. QED
    BY <2>1, <2>2, <2>3 DEF Holds, KeyAt
<1>4. QED
  BY <1>1, <1>2, <1>3, PageMoves


-----------------------------------------------------------------------------
(* Findings, and the end of a scan.                                         *)

LEMMA SendMoves ==
  ASSUME [ScanNext]_allVars
  PROVE  \/ sending' = sending /\ owed' = owed
         \/ \E w \in Workers, c \in Checks : CheckReturns(w, c) \/ Send(w, c)
<1>1. ASSUME SourceStep \/ MainStep \/ CancelScan \/ WakeCancelled \/ UNCHANGED allVars
      PROVE  sending' = sending /\ owed' = owed
  BY <1>1 DEF SourceStep, PushPage, PushPageDenied, PagePushed, EvictRefusedPage, EndOfPages,
     Receive, MainStep, Join, OOBWait, Drain, Return, CancelScan, WakeCancelled, scanVars,
     allVars
<1>2. ASSUME NEW w \in Workers, WorkerStep(w)
      PROVE  sending' = sending /\ owed' = owed
  BY <1>2 DEF WorkerStep, Take, RestOfPop, ObtainPage, Refresh, LoadHit, LoadMiss,
     Materialize, FetchFails, Abandon, Discovered, ScanReturns, Retire, Advance,
     AdvanceDenied, Advanced, Evict, Finish, scanVars
<1>3. ASSUME NEW w \in Workers, NEW c \in Checks, Launch(w, c) \/ Discover(w, c)
      PROVE  sending' = sending /\ owed' = owed
  BY <1>3 DEF Launch, Discover, scanVars
<1>4. QED
  BY <1>1, <1>2, <1>3 DEF ScanNext, CheckStep

LEMMA FiniteSenders == IsFiniteSet(Senders)
<1>1. IsFiniteSet(Workers \X Checks)
  BY FS_Product, ConstantsAssumption, ScannerAssumption
<1>2. QED
  BY <1>1, FS_Subset DEF Senders

LEMMA NextFlushed ==
  ASSUME ScanInv, [ScanNext]_allVars
  PROVE  Flushed'
<1>0. Typed /\ Flushed /\ WorkersAligned
  BY DEF ScanInv
<1>1. CASE sending' = sending /\ owed' = owed
  BY <1>0, <1>1 DEF Flushed, Senders
<1>2. ASSUME NEW w \in Workers, NEW c \in Checks, CheckReturns(w, c), sending' # sending
      PROVE  Flushed'
  <2>1. sending' = [sending EXCEPT ![w] = @ \cup {c}] /\ owed' = owed + 1
    BY <1>2 DEF CheckReturns
  <2>2. c \notin sending[w]
    BY <1>0, <1>2 DEF WorkersAligned, AlignedAt, CheckReturns
  <2>3. <<w, c>> \notin Senders
    BY <2>2 DEF Senders
  <2>4. Senders' = Senders \cup {<<w, c>>}
    BY <1>0, <2>1 DEF Senders, Typed
  <2>5. Cardinality(Senders \cup {<<w, c>>}) = Cardinality(Senders) + 1
    BY <2>3, FiniteSenders, FS_AddElement
  <2>6. QED
    BY <1>0, <2>1, <2>4, <2>5 DEF Flushed
<1>3. ASSUME NEW w \in Workers, NEW c \in Checks, Send(w, c)
      PROVE  Flushed'
  <2>1. /\ c \in sending[w] /\ owed' = owed - 1
        /\ sending' = [sending EXCEPT ![w] = @ \ {c}]
    BY <1>3 DEF Send
  <2>2. <<w, c>> \in Senders
    BY <2>1 DEF Senders
  <2>3. Senders' = Senders \ {<<w, c>>}
    BY <1>0, <2>1 DEF Senders, Typed
  <2>4. Cardinality(Senders \ {<<w, c>>}) = Cardinality(Senders) - 1
    BY <2>2, FiniteSenders, FS_RemoveElement
  <2>5. QED
    BY <1>0, <2>1, <2>3, <2>4 DEF Flushed
<1>4. ASSUME NEW w \in Workers, NEW c \in Checks, CheckReturns(w, c), sending' = sending
      PROVE  owed' = owed
  <2>1. CASE c \in sending[w]
    BY <1>0, <1>4, <2>1 DEF WorkersAligned, AlignedAt, CheckReturns
  <2>2. CASE c \notin sending[w]
    <3>1. sending' # [sending EXCEPT ![w] = @ \cup {c}]
      BY <1>0, <1>4, <2>2 DEF Typed
    <3>2. QED
      BY <1>4, <3>1 DEF CheckReturns
  <2>3. QED
    BY <2>1, <2>2
<1>5. QED
  BY <1>1, <1>2, <1>3, <1>4, SendMoves

\* A worker that has left stays away.
LEMMA GoneForGood ==
  ASSUME TypeOK, [Next]_vars, NEW w \in Workers, pc[w] = "exit"
  PROVE  pc'[w] = "exit"
<1>0. TypeOK
  OBVIOUS
<1>1. ASSUME Signal \/ BroadcastAnd({}) \/ UNCHANGED pc
      PROVE  pc'[w] = "exit"
  BY <1>0, <1>1, WakingKeepsWork
<1>2. ASSUME NEW a \in Actors, Push(a)
      PROVE  pc'[w] = "exit"
  BY <1>1, <1>2 DEF Push, PushAccept, PushRefuse
<1>3. ASSUME NEW v \in Workers, Pop(v)
      PROVE  pc'[w] = "exit"
  BY <1>0, <1>3 DEF Pop, PopTake, PopWait, PopExit, TypeOK
<1>4. ASSUME NEW v \in Workers, Done(v)
      PROVE  pc'[w] = "exit"
  BY <1>0, <1>4 DEF Done, BroadcastAnd, Waiting, TypeOK
<1>5. CASE SourceDone \/ CloseSet \/ CloseBroadcast \/ Cancel \/ CancelWaiting \/ UNCHANGED vars
  BY <1>1, <1>5 DEF SourceDone, WakeIfIdle, CloseSet, CloseBroadcast, Cancel, CancelWaiting, vars
<1>6. ASSUME NEW a \in Actors, NEW j \in Job, PushBegin(a, j)
      PROVE  pc'[w] = "exit"
  BY <1>6 DEF PushBegin
<1>7. QED
  BY <1>2, <1>3, <1>4, <1>5, <1>6 DEF Next

LEMMA NextEnded ==
  ASSUME ScanInv, [ScanNext]_allVars
  PROVE  Ended'
<1>0. TypeOK /\ [Next]_vars /\ Ended
  BY ScanNextQueue DEF ScanInv, Outstanding
<1>1. main' = main \/ MainStep
  <2>1. ASSUME SourceStep \/ CancelScan \/ WakeCancelled \/ UNCHANGED allVars
        PROVE  main' = main
    BY <2>1 DEF SourceStep, PushPage, PushPageDenied, PagePushed, EvictRefusedPage, EndOfPages,
       Receive, CancelScan, WakeCancelled, scanVars, allVars
  <2>2. ASSUME NEW w \in Workers, WorkerStep(w)
        PROVE  main' = main
    BY <2>2 DEF WorkerStep, Take, RestOfPop, ObtainPage, Refresh, LoadHit, LoadMiss,
       Materialize, FetchFails, Abandon, Discovered, ScanReturns, Retire, Advance,
       AdvanceDenied, Advanced, Evict, Finish, scanVars
  <2>3. ASSUME NEW w \in Workers, NEW c \in Checks, CheckStep(w, c) \/ Discover(w, c)
        PROVE  main' = main
    BY <2>3 DEF CheckStep, Launch, CheckReturns, Send, Discover, scanVars
  <2>4. QED
    BY <2>1, <2>2, <2>3 DEF ScanNext
<1>2. ASSUME main' # "join"
      PROVE  \A w \in Workers : pc[w] = "exit"
  BY <1>0, <1>1, <1>2 DEF Ended, MainStep, Join, Joined, OOBWait, Drain, Return
<1>3. QED
  BY <1>0, <1>2, GoneForGood DEF Ended

-----------------------------------------------------------------------------
(* The invariant, and the theorems.                                         *)

LEMMA InitScanInv == ScanInit => ScanInv
<1> SUFFICES ASSUME ScanInit PROVE ScanInv
  OBVIOUS
<1>0. Init
  BY DEF ScanInit
<1>1. Outstanding /\ NothingLeftBehind
  BY <1>0, InitOutstanding, InitNothingLeft
<1>2. Typed /\ Ended
  BY DEF ScanInit, Typed, Ended, SourceStages
<1>3. SourceAligned /\ WorkersAligned
  BY <1>0, ConstantsAssumption DEF ScanInit, Init, SourceAligned, WorkersAligned, AlignedAt,
     SourceStages, WorkerStages, Actors
<1>4. \A k \in Keys, n \in Tiers : ~Waits(k, n)
  <2>1. DOMAIN <<>> = {}
    OBVIOUS
  <2>2. QED
    BY <1>0, <2>1 DEF Init, Waits
<1>5. Accepted
  BY <1>0, <1>4 DEF ScanInit, Init, Accepted, CallsInRange
<1>6. Walking /\ Promoted /\ Cached
  BY <1>0 DEF ScanInit, Init, Walking, Promoted, Cached
<1>7. Flushed
  <2>1. Senders = {}
    BY DEF ScanInit, Senders
  <2>2. QED
    BY <2>1, FS_EmptySet DEF Flushed, ScanInit
<1>8. QED
  BY <1>1, <1>2, <1>3, <1>5, <1>6, <1>7 DEF ScanInv

LEMMA NextScanInv == ScanInv /\ [ScanNext]_allVars => ScanInv'
<1> SUFFICES ASSUME ScanInv, [ScanNext]_allVars PROVE ScanInv'
  OBVIOUS
<1>1. [Next]_vars /\ Outstanding /\ NothingLeftBehind
  BY ScanNextQueue DEF ScanInv
<1>2. Outstanding' /\ NothingLeftBehind'
  BY <1>1, NextOutstanding, NextNothingLeft
<1>3. Typed' /\ SourceAligned' /\ WorkersAligned' /\ Accepted'
  BY NextTyped, NextSourceAligned, NextWorkersAligned, NextAccepted
<1>4. Walking' /\ Promoted' /\ Cached' /\ Flushed' /\ Ended'
  BY NextWalking, NextPromoted, NextCached, NextFlushed, NextEnded
<1>5. QED
  BY <1>2, <1>3, <1>4 DEF ScanInv

LEMMA ScanInvariant == ScanSpec => []ScanInv
BY InitScanInv, NextScanInv, PTL DEF ScanSpec

\* Every reachable state of a scan, queue included, has its declared type.
THEOREM ScanTypeCorrect == ScanSpec => []ScanTypeOK
<1>1. ScanInv => ScanTypeOK
  BY DEF ScanInv, Outstanding, Typed, ScanTypeOK
<1>2. QED
  BY <1>1, ScanInvariant, PTL

\* ScanAll uses the queue as the queue is meant to be used, so that every
\* theorem of WorklistProofs holds of the queue inside a scan.
THEOREM ScanObeysWorklist == ScanSpec => ObeysWorklist
<1>1. ScanInit => Init
  BY ScanInitQueue
<1>2. QED
  BY <1>1, InitScanInv, NextScanInv, ScanNextQueue, PTL DEF ScanSpec, Spec, ObeysWorklist

\* When the workers have left a scan that nobody stopped, every target accepted
\* at some tier has been through that tier and all later ones, except where no
\* page could be had.
THEOREM EveryTargetIsWalked == ScanSpec => []EveryTargetWalked
<1>1. ScanInv => EveryTargetWalked
  <2> SUFFICES ASSUME ScanInv, main # "join", ~ctxDone, NEW k \in Keys, NEW n \in Tiers,
                      <<k, n>> \in seen, NEW m \in n..LastTier
               PROVE  <<k, m>> \in scanned \/ k \in failed
    BY DEF EveryTargetWalked
  <2>1. \A w \in Workers : pc[w] = "exit"
    BY DEF ScanInv, Ended
  <2>2. \A p \in Tiers : items[p] = <<>>
    BY <2>1, ScannerAssumption DEF ScanInv, NothingLeftBehind, SourceAligned, Stopped, Closed
  <2>3. \A p \in n..m : p \in Tiers
    BY TierFacts DEF Tiers
  <2>4. ASSUME NEW p \in n..m
        PROVE  ~Waits(k, p) /\ ~InHand(k, p) /\ ~Advances(k, p)
    <3>1. DOMAIN <<>> = {}
      OBVIOUS
    <3>2. ~Waits(k, p)
      BY <2>2, <2>3, <3>1 DEF Waits
    <3>3. QED
      BY <2>1, <3>2 DEF InHand, Advances, At
  <2>5. OnItsWay(k, n, m)
    BY DEF ScanInv, Walking
  <2>6. QED
    BY <2>4, <2>5 DEF OnItsWay
<1>2. QED
  BY <1>1, ScanInvariant, PTL

\* When ScanAll returns no finding is unreceived and no check is left that
\* could send one, cancelled or not; a scan that ends by itself leaves no page
\* in the cache.
THEOREM NothingIsLeftOver == ScanSpec => []NothingLeftOver
<1>1. ScanInv => NothingLeftOver
  <2> SUFFICES ASSUME ScanInv, main # "join"
               PROVE  /\ owed = 0
                      /\ \A w \in Workers : running[w] = {} /\ sending[w] = {}
                      /\ ~ctxDone => pageByKey = {}
    BY DEF NothingLeftOver
  <2>1. \A w \in Workers : pc[w] = "exit"
    BY DEF ScanInv, Ended
  <2>2. \A w \in Workers : running[w] = {} /\ sending[w] = {}
    BY <2>1 DEF ScanInv, WorkersAligned, AlignedAt
  <2>3. Senders = {}
    BY <2>2 DEF Senders
  <2>4. owed = 0
    BY <2>3, FS_EmptySet DEF ScanInv, Flushed
  <2>5. ASSUME ~ctxDone
        PROVE  pageByKey = {}
    <3>1. sourceDone /\ \A n \in Tiers : items[n] = <<>>
      BY <2>1, <2>5, ScannerAssumption DEF ScanInv, NothingLeftBehind, SourceAligned, Stopped,
         Closed
    <3>2. stage[Source] = "idle"
      BY <3>1 DEF ScanInv, SourceAligned
    <3>3. \A k : ~SourceHolds(k)
      BY <3>2 DEF SourceHolds
    <3>4. \A k, n : n \in Tiers => ~Waits(k, n)
      <4>1. DOMAIN <<>> = {}
        OBVIOUS
      <4>2. QED
        BY <3>1, <4>1 DEF Waits
    <3>5. QED
      BY <2>1, <3>3, <3>4 DEF ScanInv, Cached
  <2>6. QED
    BY <2>2, <2>4, <2>5
<1>2. QED
  BY <1>1, ScanInvariant, PTL

\* When a worker is handed a target to detect on, every accepted target has
\* been through all the tiers below and is between no two of them.
THEOREM BarrierCovers == ScanSpec => BarrierCoversAccepted
<1> DEFINE Step == \A w \in Workers :
              stage[w] = "idle" /\ stage'[w] = "refresh" =>
                \A k \in Keys, n \in 1..(Deferred - 1) :
                  /\ ~Unwalked(k, n)
                  /\ <<k, n>> \in scanned => <<k, n + 1>> \in seen
<1>1. ScanInv /\ [ScanNext]_allVars => [Step]_allVars
  <2> SUFFICES ASSUME ScanInv, [ScanNext]_allVars, NEW w \in Workers,
                      stage[w] = "idle", stage'[w] = "refresh",
                      NEW k \in Keys, NEW n \in 1..(Deferred - 1)
               PROVE  /\ ~Unwalked(k, n)
                      /\ <<k, n>> \in scanned => <<k, n + 1>> \in seen
    OBVIOUS
  <2>0. /\ TypeOK /\ PendingIsOutstanding /\ WorkersAligned /\ Typed /\ w \in Actors
        /\ n \in Tiers /\ n \in Nat /\ n < NumTiers /\ NumTiers \in Tiers
    BY TierFacts DEF ScanInv, Outstanding, Actors, Tiers, Deferred
  <2>1. pc[w] # "work" /\ pc'[w] = "work"
    BY <2>0, NextWorkersAligned DEF WorkersAligned, AlignedAt
  <2>2. PICK v \in Workers : Gives(v)
    <3>1. [Next]_vars
      BY ScanNextQueue
    <3>2. ~\E a \in Actors : Grows(a)
      BY <2>1 DEF Grows
    <3>3. QED
      BY <2>0, <2>1, <3>1, <3>2, QueueMoves
  <2>3. v = w /\ pc[w] = "ready"
    BY <2>0, <2>1, <2>2 DEF Gives, TypeOK
  <2>4. Take(w)
    BY <2>1, <2>3, OnlyTakeGives
  <2>5. job'[w].tier = Deferred
    BY <2>0, <2>4 DEF Take, Goto, Typed
  <2>6. PopTake(w) /\ ~ctxDone
    BY <2>4 DEF Take, PopTake, Stopped
  <2>7. Dispatchable(NumTiers)
    BY <2>0, <2>5, <2>6 DEF PopTake, TypeOK, Deferred
  <2>8. pendingByTier[n] = 0
    BY <2>0, <2>7 DEF Dispatchable
  <2>9. items[n] = <<>> /\ Held(n) = {}
    <3>1. Len(items[n]) + Cardinality(Held(n)) = 0
      BY <2>0, <2>8 DEF PendingIsOutstanding
    <3>2. Cardinality(Held(n)) \in Nat /\ (Cardinality(Held(n)) = 0 <=> Held(n) = {})
      BY WorkerSets DEF Held
    <3>3. items[n] \in Seq(Targets)
      BY <2>0 DEF TypeOK
    <3>4. Len(items[n]) \in Nat /\ (Len(items[n]) = 0 => items[n] = <<>>)
      BY <3>3
    <3>5. QED
      BY <3>1, <3>2, <3>4
  <2>10. ~Waits(k, n) /\ ~InHand(k, n) /\ ~Advances(k, n)
    <3>1. DOMAIN <<>> = {}
      OBVIOUS
    <3>2. QED
      BY <2>9, <3>1 DEF Waits, InHand, Advances, At, Held, TierAt
  <2>11. n < LastTier
    <3>1. KeyAt(w)' \in Keys /\ TierAt(w)' = NumTiers
      BY <2>2, <2>3, <2>5, ConstantsAssumption DEF Gives, Job, KeyAt, TierAt, Deferred
    <3>2. Waits(KeyAt(w)', NumTiers)
      BY <2>2, <2>3, <3>1 DEF Gives
    <3>3. <<KeyAt(w)', NumTiers>> \in seen
      BY <2>0, <3>1, <3>2 DEF ScanInv, Accepted
    <3>4. NumTiers <= LastTier
      BY <2>0, <3>1, <3>3 DEF ScanInv, Accepted
    <3>5. QED
      BY <2>0, <3>4, TierFacts
  <2>12. ~Unwalked(k, n)
    <3>1. \A p \in n..n : p = n
      BY <2>0
    <3>2. n \in n..LastTier
      BY <2>0, <2>11, TierFacts
    <3>3. <<k, n>> \in seen => OnItsWay(k, n, n)
      BY <2>0, <2>6, <3>2 DEF ScanInv, Walking
    <3>4. QED
      BY <2>10, <3>1, <3>3 DEF OnItsWay, Unwalked
  <2>13. <<k, n>> \in scanned => <<k, n + 1>> \in seen
    BY <2>0, <2>6, <2>10, <2>11 DEF ScanInv, Promoted
  <2>14. QED
    BY <2>12, <2>13
<1>2. QED
  BY <1>1, ScanInvariant, PTL DEF ScanSpec, BarrierCoversAccepted


\* So the scan as a whole keeps what the queue promises: the orchestrator calls
\* it only in the ways its promise allows for.
THEOREM ScanKeepsPromise == ScanSpec => Promise!Spec
BY ScanObeysWorklist, KeepsPromise DEF ObeysWorklist

=============================================================================
