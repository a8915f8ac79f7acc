------------------------------ MODULE Worklist ------------------------------
(***************************************************************************)
(* The scanner's tiered work queue (internal/scanner/worklist.go) and the   *)
(* calls its clients make on it.                                            *)
(*                                                                          *)
(* The queue is a mutex-protected record with one condition variable.  One  *)
(* source (the reader of the crawler's pages channel) and a set of workers  *)
(* push targets at a tier; the workers pop.  A pop of tier n is allowed     *)
(* only when nothing of a lower tier is queued or in flight, and the queue  *)
(* is drained when the source is done and nothing at all is outstanding.    *)
(*                                                                          *)
(* What the mutex protects is one atomic step.  A Push is two steps,        *)
(* because it reads the context before it takes the mutex.  A popper that   *)
(* finds nothing moves to the condition variable's wait set in the step in  *)
(* which it releases the mutex (sync.Cond.Wait) and must be woken by a      *)
(* Signal or a Broadcast.                                                   *)
(***************************************************************************)
EXTENDS Integers, Sequences, FiniteSets

CONSTANTS
  Workers,     \* the worker goroutines of ScanAll
  Source,      \* the goroutine that feeds crawled pages
  Targets,     \* target.Target values
  Keys,        \* canonical keys: several targets may share one
  Hosts,       \* scheme://host prefixes
  NoHost,      \* Host() of a target whose URL has none
  KeyOf,       \* target -> canonical key
  HostOf,      \* key -> host
  InScope,     \* the targets that scopeAllows accepts
  NumTiers,    \* the bands of tierBands (five in the code)
  HostBudget,  \* budgetPerHost; zero: no cap
  Closable,    \* whether somebody may call Close (ScanAll does not)
  None

Tiers  == 1..NumTiers
Actors == Workers \cup {Source}
Job    == [target : Targets, tier : Tiers]

ASSUME ConstantsAssumption ==
  /\ IsFiniteSet(Workers)
  /\ Source \notin Workers
  /\ IsFiniteSet(Keys)
  /\ KeyOf \in [Targets -> Keys]
  /\ NoHost \notin Hosts
  /\ HostOf \in [Keys -> Hosts \cup {NoHost}]
  /\ InScope \subseteq Targets
  /\ NumTiers \in Nat \ {0}
  /\ HostBudget \in Nat
  /\ Closable \in BOOLEAN
  /\ None \notin Job

VARIABLES
  items,          \* per tier, the queued targets, oldest first
  seen,           \* the (key, tier) pairs ever accepted
  pendingByTier,  \* per tier, queued plus in flight
  hostCount,      \* per host, the unique keys accepted
  sourceDone,     \* SourceDone was called
  closer,         \* Close: "open", "closed" (before its broadcast), "done"
  ctxDone,        \* the scan's context is cancelled
  pc,             \* per worker: "ready" to take the mutex in Pop, "waiting"
                  \*   on the condition variable, at "work", or "exit"
  job,            \* per worker, what its last successful Pop returned
  call            \* per actor, the Push that has passed its context check

vars == <<items, seen, pendingByTier, hostCount, sourceDone, closer, ctxDone,
          pc, job, call>>

TypeOK ==
  /\ items \in [Tiers -> Seq(Targets)]
  /\ seen \subseteq Keys \X Tiers
  /\ pendingByTier \in [Tiers -> Nat]
  /\ hostCount \in [Hosts -> Nat]
  /\ sourceDone \in BOOLEAN
  /\ closer \in {"open", "closed", "done"}
  /\ ctxDone \in BOOLEAN
  /\ pc \in [Workers -> {"ready", "waiting", "work", "exit"}]
  /\ job \in [Workers -> Job \cup {None}]
  /\ call \in [Actors -> Job \cup {None}]

Init ==
  /\ items = [n \in Tiers |-> <<>>]
  /\ seen = {}
  /\ pendingByTier = [n \in Tiers |-> 0]
  /\ hostCount = [h \in Hosts |-> 0]
  /\ sourceDone = FALSE
  /\ closer = "open"
  /\ ctxDone = FALSE
  /\ pc = [w \in Workers |-> "ready"]
  /\ job = [w \in Workers |-> None]
  /\ call = [a \in Actors |-> None]

-----------------------------------------------------------------------------
(* The condition variable.                                                  *)

Waiting == {w \in Workers : pc[w] = "waiting"}
Ready   == {w \in Workers : pc[w] = "ready"}

\* Mutant: Push forgets its Signal.
NoSignal == UNCHANGED pc

Signal ==
  \/ Waiting = {} /\ UNCHANGED pc
  \/ \E w \in Waiting : pc' = [pc EXCEPT ![w] = "ready"]

\* Mutant: no broadcast; only the workers in S carry on.
WakeOnly(S) == pc' = [w \in Workers |-> IF w \in S THEN "ready" ELSE pc[w]]

\* Every waiter, and every worker in S, is ready to take the mutex.
BroadcastAnd(S) ==
  pc' = [w \in Workers |-> IF w \in Waiting \cup S THEN "ready" ELSE pc[w]]

-----------------------------------------------------------------------------
(* Push.                                                                    *)

Closed == closer # "open"

SeenAnyTier(k) == \E n \in Tiers : <<k, n>> \in seen

\* Mutant: one target too many.
OverBudgetByOne(k) ==
  /\ HostBudget > 0
  /\ HostOf[k] # NoHost
  /\ hostCount[HostOf[k]] > HostBudget

OverBudget(k) ==
  /\ HostBudget > 0
  /\ HostOf[k] # NoHost
  /\ hostCount[HostOf[k]] >= HostBudget

\* Mutant: no check for a duplicate.
RefusedOnBudget(j) ==
  LET k == KeyOf[j.target] IN Closed \/ (~SeenAnyTier(k) /\ OverBudget(k))

Refused(j) ==
  LET k == KeyOf[j.target] IN
  \/ Closed
  \/ <<k, j.tier>> \in seen
  \/ ~SeenAnyTier(k) /\ OverBudget(k)

\* The checks before the mutex.  A push they turn down changes nothing.
PushBegin(a, j) ==
  /\ call[a] = None
  /\ ~ctxDone
  /\ j.target \in InScope
  /\ call' = [call EXCEPT ![a] = j]
  /\ UNCHANGED <<items, seen, pendingByTier, hostCount, sourceDone, closer,
                 ctxDone, pc, job>>

PushRefuse(a) ==
  /\ call[a] # None
  /\ Refused(call[a])
  /\ call' = [call EXCEPT ![a] = None]
  /\ UNCHANGED <<items, seen, pendingByTier, hostCount, sourceDone, closer,
                 ctxDone, pc, job>>

CountHost(k) ==
  IF SeenAnyTier(k) \/ HostOf[k] = NoHost
  THEN UNCHANGED hostCount
  ELSE hostCount' = [hostCount EXCEPT ![HostOf[k]] = @ + 1]

\* Mutant: the target is queued and not counted.
EnqueueUncounted(j) ==
  /\ items' = [items EXCEPT ![j.tier] = Append(@, j.target)]
  /\ UNCHANGED pendingByTier

Enqueue(j) ==
  /\ items' = [items EXCEPT ![j.tier] = Append(@, j.target)]
  /\ pendingByTier' = [pendingByTier EXCEPT ![j.tier] = @ + 1]

PushAccept(a) ==
  LET j == call[a]
      k == KeyOf[j.target]
  IN  /\ j # None
      /\ ~Refused(j)
      /\ seen' = seen \cup {<<k, j.tier>>}
      /\ CountHost(k)
      /\ Enqueue(j)
      /\ Signal
      /\ call' = [call EXCEPT ![a] = None]
      /\ UNCHANGED <<sourceDone, closer, ctxDone, job>>

-----------------------------------------------------------------------------
(* Pop, Done, SourceDone, Close and the cancellation watcher.               *)

\* Mutant: the barrier looks at the queues and not at the work in flight.
DispatchableWhenDequeued(n) ==
  /\ items[n] # <<>>
  /\ \A m \in 1..(n - 1) : items[m] = <<>>

\* The tier loop of Pop stops at n.
Dispatchable(n) ==
  /\ items[n] # <<>>
  /\ \A m \in 1..(n - 1) : pendingByTier[m] = 0

\* Mutant: drained as soon as the queues are empty.
DrainedWhenDequeued == sourceDone /\ \A n \in Tiers : items[n] = <<>>

Drained == sourceDone /\ \A n \in Tiers : pendingByTier[n] = 0

Stopped == Closed \/ ctxDone

PopTake(w) ==
  /\ pc[w] = "ready"
  /\ ~Stopped
  /\ \E n \in Tiers :
       /\ Dispatchable(n)
       /\ items' = [items EXCEPT ![n] = Tail(@)]
       /\ job' = [job EXCEPT ![w] = [target |-> Head(items[n]), tier |-> n]]
  /\ pc' = [pc EXCEPT ![w] = "work"]
  /\ UNCHANGED <<seen, pendingByTier, hostCount, sourceDone, closer, ctxDone,
                 call>>

NothingDispatchable == \A n \in Tiers : ~Dispatchable(n)

PopExit(w) ==
  /\ pc[w] = "ready"
  /\ Stopped \/ (NothingDispatchable /\ Drained)
  /\ pc' = [pc EXCEPT ![w] = "exit"]
  /\ UNCHANGED <<items, seen, pendingByTier, hostCount, sourceDone, closer,
                 ctxDone, job, call>>

PopWait(w) ==
  /\ pc[w] = "ready"
  /\ ~Stopped
  /\ NothingDispatchable
  /\ ~Drained
  /\ pc' = [pc EXCEPT ![w] = "waiting"]
  /\ UNCHANGED <<items, seen, pendingByTier, hostCount, sourceDone, closer,
                 ctxDone, job, call>>

\* Mutant: nothing is counted down once the scan is stopped.
ReleaseUnlessStopped(n) ==
  pendingByTier' = IF Stopped THEN pendingByTier
                   ELSE [pendingByTier EXCEPT ![n] = @ - 1]

Release(n) == pendingByTier' = [pendingByTier EXCEPT ![n] = @ - 1]

Done(w) ==
  /\ pc[w] = "work"
  /\ call[w] = None
  /\ Release(job[w].tier)
  /\ job' = [job EXCEPT ![w] = None]
  /\ BroadcastAnd({w})
  /\ UNCHANGED <<items, seen, hostCount, sourceDone, closer, ctxDone, call>>

\* Mutant: the end of the source wakes nobody.
WakeNobody == UNCHANGED pc

WakeIfIdle ==
  IF \A n \in Tiers : pendingByTier[n] = 0
  THEN BroadcastAnd({}) ELSE UNCHANGED pc

SourceDone ==
  /\ ~sourceDone
  /\ call[Source] = None
  /\ sourceDone' = TRUE
  /\ WakeIfIdle
  /\ UNCHANGED <<items, seen, pendingByTier, hostCount, closer, ctxDone, job,
                 call>>

\* Close sets the flag under the mutex and broadcasts after releasing it.
CloseSet ==
  /\ Closable
  /\ closer = "open"
  /\ closer' = "closed"
  /\ UNCHANGED <<items, seen, pendingByTier, hostCount, sourceDone, ctxDone,
                 pc, job, call>>

CloseBroadcast ==
  /\ closer = "closed"
  /\ closer' = "done"
  /\ BroadcastAnd({})
  /\ UNCHANGED <<items, seen, pendingByTier, hostCount, sourceDone, ctxDone,
                 job, call>>

Cancel ==
  /\ ~ctxDone
  /\ ctxDone' = TRUE
  /\ UNCHANGED <<items, seen, pendingByTier, hostCount, sourceDone, closer,
                 pc, job, call>>

\* The watcher goroutine of a Pop in progress.
CancelWaiting ==
  /\ ctxDone
  /\ Waiting # {}
  /\ BroadcastAnd({})
  /\ UNCHANGED <<items, seen, pendingByTier, hostCount, sourceDone, closer,
                 ctxDone, job, call>>

-----------------------------------------------------------------------------
(* The clients: the source pushes until it is done, a worker pushes while   *)
(* it works on what it popped.                                              *)

MayPush(a) == IF a = Source THEN ~sourceDone ELSE pc[a] = "work"

Push(a) == PushRefuse(a) \/ PushAccept(a)
Pop(w)  == PopTake(w) \/ PopExit(w) \/ PopWait(w)

Next ==
  \/ \E a \in Actors, j \in Job : MayPush(a) /\ PushBegin(a, j)
  \/ \E a \in Actors : Push(a)
  \/ \E w \in Workers : Pop(w) \/ Done(w)
  \/ SourceDone
  \/ CloseSet
  \/ CloseBroadcast
  \/ Cancel
  \/ CancelWaiting

\* The mutex is granted to whoever asks; a watcher and a closer run to their
\* end.  A dispatch and the source may push (and be refused) any number of
\* times before they finish, but they finish: every check has a deadline and
\* the crawl is finite.
Fairness ==
  /\ \A a \in Actors : WF_vars(Push(a))
  /\ \A w \in Workers : WF_vars(Pop(w)) /\ SF_vars(Done(w))
  /\ SF_vars(SourceDone)
  /\ WF_vars(CloseBroadcast)
  /\ WF_vars(CancelWaiting)

Spec == Init /\ [][Next]_vars

FairSpec == Spec /\ Fairness

-----------------------------------------------------------------------------
(* Correctness.                                                             *)

Held(n) == {w \in Workers : pc[w] = "work" /\ job[w].tier = n}

\* The counter that the barrier and the drain test read is the work that is
\* really outstanding: a target is counted from the Push that accepts it to
\* the Done of the worker that popped it, whoever holds it in between.
PendingIsOutstanding ==
  \A n \in Tiers :
    pendingByTier[n] = Len(items[n]) + Cardinality(Held(n))

\* "Pop at tier N only returns when every lower tier has pendingByTier == 0
\* (queued AND in-flight)": when a worker is handed a tier, no queue holds,
\* and no other worker works on, anything of a lower tier.
LowerTiersIdle(n) ==
  \A m \in 1..(n - 1) : items[m] = <<>> /\ Held(m) = {}

CrossTargetBarrier ==
  [][\A w \in Workers :
       pc[w] = "ready" /\ pc'[w] = "work" => LowerTiersIdle(job'[w].tier)]_vars

\* The per-host budget caps unique targets, however many tiers each of them
\* is pushed at and by whom.
KeysOfHost(h) == {k \in Keys : HostOf[k] = h /\ SeenAnyTier(k)}

HostBudgetHolds ==
  HostBudget > 0 => \A h \in Hosts : Cardinality(KeysOfHost(h)) <= HostBudget

\* No lost wakeup.  While a worker sleeps on the condition variable, every
\* target that could be handed out has an awake worker coming for it: Push
\* signals one worker only, and a barrier may open on several targets at once.
WorkConserving ==
  Waiting # {} /\ ~Stopped =>
    \A n \in Tiers : Dispatchable(n) =>
      Len(items[n]) <= Cardinality(Ready)

\* Quiescence.  A worker that leaves a scan nobody stopped leaves nothing
\* behind: no target is queued, no other worker has one in hand (which could
\* push more), and the source has nothing more to feed.
NothingLeftBehind ==
  (\E w \in Workers : pc[w] = "exit") /\ ~Stopped =>
    /\ sourceDone
    /\ \A n \in Tiers : items[n] = <<>>
    /\ \A w \in Workers : pc[w] # "work"

\* Every target accepted at a tier is handed to a worker, unless the scan is
\* stopped first: no tier starves although lower tiers keep being fed.
Queued(t, n) == \E i \in DOMAIN items[n] : items[n][i] = t

EveryPushDispatched ==
  \A t \in Targets, n \in Tiers : Queued(t, n) ~> (~Queued(t, n) \/ Stopped)

\* Every worker returns from its last Pop, drained, closed or cancelled: none
\* sleeps for ever on the condition variable.
WorkersExit == <>(\A w \in Workers : pc[w] = "exit")

\* The parts that make the properties above inductive.  A worker has a job in
\* hand exactly while it works; a push past its context check belongs to an
\* actor that may push; a host's counter is its number of unique keys.
WorkingHoldsJob ==
  \A w \in Workers : IF pc[w] = "work" THEN job[w] \in Job ELSE job[w] = None

PushersActive == \A a \in Actors : call[a] # None => MayPush(a)

HostCountIsUnique ==
  \A h \in Hosts :
    /\ hostCount[h] = Cardinality(KeysOfHost(h))
    /\ HostBudget > 0 => hostCount[h] <= HostBudget

Outstanding ==
  TypeOK /\ PendingIsOutstanding /\ WorkingHoldsJob /\ PushersActive

\* The queue keeps the promise of TierQueue.
Promise == INSTANCE TierQueue WITH
  accepted <- seen,
  queued   <- {j \in Job : Queued(j.target, j.tier)},
  held     <- job,
  open     <- ~sourceDone,
  halted   <- Stopped,
  retired  <- {w \in Workers : pc[w] = "exit"}

ImplementsTierQueue == Promise!FairSpec
=============================================================================
