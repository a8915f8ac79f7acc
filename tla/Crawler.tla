------------------------------- MODULE Crawler -------------------------------
(***************************************************************************)
(* The crawl: Crawler.Crawl and process (internal/crawler/crawler.go).      *)
(*                                                                          *)
(* The main goroutine submits the seeds and the well-known spec paths.      *)
(* Each URL that submit accepts becomes an item: one that looks like an API *)
(* document by its path runs on a goroutine of its own, any other is        *)
(* offered on the work channel to a pool of workers.  Processing an item    *)
(* fetches it, emits one page, and submits what the page leads to.  The     *)
(* counter pending tells when nothing is left, which closes the work        *)
(* channel; when the workers have left, Crawl closes out.                   *)
(*                                                                          *)
(* The WaitGroup specsInFlight makes the page of an ordinary URL wait for   *)
(* the API documents in flight, so that the operations they declare for it  *)
(* are attached.  A Wait that is released by the count reaching zero and    *)
(* finds it raised again before it returns panics: that is the contract of  *)
(* sync.WaitGroup, which is outside this repository.                        *)
(*                                                                          *)
(* submit is one step: its caller holds a unit of pending throughout.  The  *)
(* buffer of the work channel is left out: an item in the buffer and an     *)
(* item whose goroutine is still blocked on it differ in nothing.           *)
(***************************************************************************)
EXTENDS Integers, Sequences, FiniteSets

CONSTANTS
  Workers,    \* the pool
  Urls,       \* canonical URLs
  Seeds,      \* the URLs the main goroutine submits, in order
  InScope,    \* http or https, and Scope.Allows
  SpecPath,   \* looksLikeSpec by the path alone
  Links,      \* url -> the links and forms of its HTML body
  Redirects,  \* url -> where its select-driven forms may redirect (Pollute)
  Documents,  \* url -> the operations of its API document (APIDiscovery)
  MaxDepth,   \* negative: no cap
  MaxPages,   \* zero: no cap
  None

ASSUME CrawlerAssumption ==
  /\ IsFiniteSet(Workers) /\ IsFiniteSet(Urls)
  /\ Workers # {}  \* New: none, or fewer, means eight
  /\ Workers \cap Urls = {} /\ None \notin Workers \cup Urls
  /\ Seeds \in Seq(Urls)
  /\ InScope \subseteq Urls /\ SpecPath \subseteq Urls
  /\ Links \in [Urls -> SUBSET Urls]
  /\ Redirects \in [Urls -> SUBSET Urls]
  /\ Documents \in [Urls -> SUBSET Urls]
  /\ \A u \in Urls : Documents[u] # {} => Links[u] \cup Redirects[u] = {}
  /\ MaxDepth \in Int /\ MaxPages \in Nat

\* The goroutine of an API document is named by its URL.
Routines == Workers \cup SpecPath

VARIABLES
  main,       \* Crawl: "seed", "join", "closed"
  seeds,      \* what is left to submit
  visited,    \* the canonical URLs ever accepted by the visited map
  depthOf,    \* the depth at which a URL was first submitted
  queued,     \* submissions counted against MaxPages
  pending,    \* submissions outstanding, and one for the seeding
  offered,    \* items on the work channel, or blocked on it
  workClosed, \* close(work)
  specCount,  \* the counter of specsInFlight
  at,         \* per goroutine, where it is in process
  item,       \* per goroutine, its URL
  todo,       \* per goroutine, what it has yet to submit
  recorded,   \* per goroutine, the operation recorded and not yet submitted
  ops,        \* per goroutine, the API documents whose operations it took
  covers,     \* per goroutine, the documents in flight when its Wait began
  specOps,    \* url -> the documents whose operations await its page
  declared,   \* url -> every document that ever recorded operations for it
  pages,      \* url -> how many pages were sent for it
  fetched,    \* the URLs whose page carries a whole body
  ctxDone,
  panicked    \* the process has died of a WaitGroup panic

flow == <<main, seeds, offered, workClosed, ctxDone, panicked>>
books == <<visited, depthOf, queued, pending, specCount>>
spec == <<specOps, declared>>
emission == <<pages, fetched>>
local == <<at, item, todo, recorded, ops, covers>>
vars == <<flow, books, spec, emission, local>>

Stages == {"idle", "fetch", "wait", "blocked", "woken", "take", "send",
           "follow", "release", "finish", "exit"}

TypeOK ==
  /\ main \in {"seed", "join", "closed"}
  /\ seeds \in Seq(Urls)
  /\ visited \subseteq InScope
  /\ depthOf \in [visited -> Nat]
  /\ queued \in Nat /\ pending \in Nat /\ specCount \in Nat
  /\ offered \subseteq visited \ SpecPath
  /\ workClosed \in BOOLEAN /\ ctxDone \in BOOLEAN /\ panicked \in BOOLEAN
  /\ at \in [Routines -> Stages]
  /\ item \in [Routines -> Urls \cup {None}]
  /\ todo \in [Routines -> SUBSET Urls]
  /\ recorded \in [Routines -> Urls \cup {None}]
  /\ ops \in [Routines -> SUBSET Urls]
  /\ covers \in [Routines -> SUBSET SpecPath]
  /\ specOps \in [Urls -> SUBSET Urls]
  /\ declared \in [Urls -> SUBSET Urls]
  /\ pages \in [Urls -> Nat]
  /\ fetched \subseteq Urls

Init ==
  /\ main = "seed" /\ seeds = Seeds
  /\ visited = {} /\ depthOf = [u \in {} |-> 0]
  /\ queued = 0 /\ pending = 1 /\ specCount = 0
  /\ offered = {} /\ workClosed = FALSE
  /\ at = [g \in Routines |-> "idle"]
  /\ item = [g \in Routines |-> None]
  /\ todo = [g \in Routines |-> {}]
  /\ recorded = [g \in Routines |-> None]
  /\ ops = [g \in Routines |-> {}]
  /\ covers = [g \in Routines |-> {}]
  /\ specOps = [u \in Urls |-> {}]
  /\ declared = [u \in Urls |-> {}]
  /\ pages = [u \in Urls |-> 0] /\ fetched = {}
  /\ ctxDone = FALSE /\ panicked = FALSE

Goto(g, s) == at' = [at EXCEPT ![g] = s]

-----------------------------------------------------------------------------
(* submit.                                                                  *)

AllowsDepth(d) == MaxDepth >= 0 => d <= MaxDepth

\* Over the cap the URL stays marked as visited, and nothing else happens.
\* The counter moves only while there is a cap.
Count(u) == queued' = IF MaxPages > 0 THEN queued + 1 ELSE queued

\* Mutant: the cap is one page too late.
OverCapByOne(q) == MaxPages > 0 /\ q > MaxPages + 1

OverCap(q) == MaxPages > 0 /\ q > MaxPages

Launch(u) ==
  /\ pending' = pending + 1
  /\ IF u \in SpecPath
     THEN /\ specCount' = specCount + 1
          /\ at' = [at EXCEPT ![u] = "fetch"]
          /\ item' = [item EXCEPT ![u] = u]
          /\ UNCHANGED offered
     ELSE /\ offered' = offered \cup {u}
          /\ UNCHANGED <<specCount, at, item>>

Submit(u, d) ==
  IF ~AllowsDepth(d) \/ u \notin InScope \/ u \in visited
  THEN UNCHANGED <<books, offered, at, item>>
  ELSE /\ visited' = visited \cup {u}
       /\ depthOf' = [v \in visited' |-> IF v = u THEN d ELSE depthOf[v]]
       /\ Count(u)
       /\ IF OverCap(queued')
          THEN UNCHANGED <<pending, specCount, offered, at, item>>
          ELSE Launch(u)

\* Mutant: the unit of whoever is still submitting is not waited for.
SettleEarly ==
  /\ pending' = pending - 1
  /\ workClosed' = (workClosed \/ pending' <= 1)

\* finish: whoever takes the last unit of pending closes the work channel.
Settle ==
  /\ pending' = pending - 1
  /\ workClosed' = (workClosed \/ pending' = 0)

-----------------------------------------------------------------------------
(* The main goroutine.                                                      *)

Seed ==
  /\ main = "seed" /\ seeds # <<>>
  /\ Submit(Head(seeds), 0)
  /\ seeds' = Tail(seeds)
  /\ UNCHANGED <<main, workClosed, todo, recorded, ops, covers, spec, emission,
                 ctxDone, panicked>>

Seeded ==
  /\ main = "seed" /\ seeds = <<>>
  /\ main' = "join"
  /\ Settle
  /\ UNCHANGED <<seeds, visited, depthOf, queued, specCount, offered, local,
                 spec, emission, ctxDone, panicked>>

CloseOut ==
  /\ main = "join"
  /\ \A w \in Workers : at[w] = "exit"
  /\ main' = "closed"
  /\ UNCHANGED <<seeds, offered, workClosed, ctxDone, panicked, books, local,
                 spec, emission>>

Cancel ==
  /\ ~ctxDone
  /\ ctxDone' = TRUE
  /\ UNCHANGED <<main, seeds, offered, workClosed, panicked, books, local, spec,
                 emission>>

-----------------------------------------------------------------------------
(* The work channel.                                                        *)

\* Mutant: the withdrawn item is not settled.
WithdrawUnsettled(u) ==
  /\ ctxDone /\ u \in offered
  /\ offered' = offered \ {u}
  /\ UNCHANGED <<pending, workClosed>>
  /\ UNCHANGED <<main, seeds, ctxDone, panicked, visited, depthOf, queued,
                 specCount, local, spec, emission>>

\* The goroutine that offers the item sees the cancellation first.
Withdraw(u) ==
  /\ ctxDone /\ u \in offered
  /\ offered' = offered \ {u}
  /\ Settle
  /\ UNCHANGED <<main, seeds, ctxDone, panicked, visited, depthOf, queued,
                 specCount, local, spec, emission>>

Receive(w, u) ==
  /\ at[w] = "idle" /\ u \in offered
  /\ offered' = offered \ {u}
  /\ item' = [item EXCEPT ![w] = u]
  /\ Goto(w, "fetch")
  /\ UNCHANGED <<main, seeds, workClosed, ctxDone, panicked, books, todo,
                 recorded, ops, covers, spec, emission>>

\* Mutant: a worker leaves as soon as it finds the channel empty.
LeaveWhenEmpty(w) ==
  /\ at[w] = "idle" /\ offered = {}
  /\ Goto(w, "exit")
  /\ UNCHANGED <<flow, books, item, todo, recorded, ops, covers, spec, emission>>

Leave(w) ==
  /\ at[w] = "idle" /\ workClosed /\ offered = {}
  /\ Goto(w, "exit")
  /\ UNCHANGED <<flow, books, item, todo, recorded, ops, covers, spec, emission>>

-----------------------------------------------------------------------------
(* process, up to the page.                                                 *)

\* The goroutine of an API document started after the cancellation.
Skip(g) ==
  /\ at[g] = "fetch" /\ g \in SpecPath /\ ctxDone
  /\ Goto(g, "release")
  /\ UNCHANGED <<flow, books, item, todo, recorded, ops, covers, spec, emission>>

\* With a body, todo is what the page leads to: the links and the API
\* operations are submitted, a form's redirect may fail to come back.
LeadsTo(u) == Links[u] \cup Redirects[u] \cup Documents[u]

Fetch(g) ==
  /\ at[g] = "fetch"
  /\ \/ fetched' = fetched \cup {item[g]}
     \/ UNCHANGED fetched
  /\ Goto(g, IF g \in SpecPath THEN "take" ELSE "wait")
  /\ UNCHANGED <<flow, books, item, todo, recorded, ops, covers, spec, pages>>

\* The API documents that specsInFlight counts.
InFlight == {s \in SpecPath : at[s] \notin {"idle", "finish", "exit"}}

\* Mutant: the page of an ordinary URL does not wait either.
WaitForNobody(g) ==
  /\ at[g] = "wait"
  /\ covers' = [covers EXCEPT ![g] = InFlight]
  /\ Goto(g, "take")
  /\ UNCHANGED <<flow, books, item, todo, recorded, ops, spec, emission>>

\* specsInFlight.Wait()
Wait(g) ==
  /\ at[g] = "wait"
  /\ covers' = [covers EXCEPT ![g] = InFlight]
  /\ Goto(g, IF specCount = 0 THEN "take" ELSE "blocked")
  /\ UNCHANGED <<flow, books, item, todo, recorded, ops, spec, emission>>

WaitReturns(g) ==
  /\ at[g] = "woken"
  /\ IF specCount = 0
     THEN Goto(g, "take") /\ UNCHANGED panicked
     ELSE panicked' = TRUE /\ UNCHANGED at
  /\ UNCHANGED <<main, seeds, offered, workClosed, ctxDone, books, item, todo,
                 recorded, ops, covers, spec, emission>>

TakeSpecOps(g) ==
  /\ at[g] = "take"
  /\ ops' = [ops EXCEPT ![g] = specOps[item[g]]]
  /\ specOps' = [specOps EXCEPT ![item[g]] = {}]
  /\ Goto(g, "send")
  /\ UNCHANGED <<flow, books, item, todo, recorded, covers, declared, emission>>

\* Where process returns: an API document's goroutine has its count to release.
Ending(g) == IF g \in SpecPath THEN "release" ELSE "finish"

Send(g) ==
  LET u == item[g]
      go == u \in fetched /\ AllowsDepth(depthOf[u] + 1)
  IN  /\ at[g] = "send"
      /\ pages' = [pages EXCEPT ![u] = @ + 1]
      /\ todo' = [todo EXCEPT ![g] = IF go THEN LeadsTo(u) ELSE {}]
      /\ Goto(g, IF go THEN "follow" ELSE Ending(g))
      /\ UNCHANGED <<flow, books, item, recorded, ops, covers, spec, fetched>>

AbandonSend(g) ==
  /\ at[g] = "send" /\ ctxDone
  /\ Goto(g, Ending(g))
  /\ UNCHANGED <<flow, books, item, todo, recorded, ops, covers, spec, emission>>

-----------------------------------------------------------------------------
(* process, after the page.                                                 *)

Deeper(g) == depthOf[item[g]] + 1

Follow(g, v) ==
  /\ at[g] = "follow"
  /\ v \in todo[g]
  /\ \/ v \in Links[item[g]]
     \/ v \in Redirects[item[g]] /\ todo[g] \cap Links[item[g]] = {}
  /\ Submit(v, Deeper(g))
  /\ todo' = [todo EXCEPT ![g] = @ \ {v}]
  /\ UNCHANGED <<main, seeds, workClosed, ctxDone, panicked, recorded, ops,
                 covers, spec, emission>>

\* A form whose submission fails, or that bounces back to itself.
NoRedirect(g, v) ==
  /\ at[g] = "follow"
  /\ v \in (todo[g] \cap Redirects[item[g]]) \ Links[item[g]]
  /\ todo[g] \cap Links[item[g]] = {}
  /\ todo' = [todo EXCEPT ![g] = @ \ {v}]
  /\ UNCHANGED <<flow, books, at, item, recorded, ops, covers, spec, emission>>

RecordSpecOps(g, v) ==
  /\ at[g] = "follow" /\ recorded[g] = None
  /\ v \in todo[g] \cap Documents[item[g]]
  /\ specOps' = [specOps EXCEPT ![v] = @ \cup {item[g]}]
  /\ declared' = [declared EXCEPT ![v] = @ \cup {item[g]}]
  /\ recorded' = [recorded EXCEPT ![g] = v]
  /\ UNCHANGED <<flow, books, at, item, todo, ops, covers, emission>>

SubmitOperation(g) ==
  /\ at[g] = "follow" /\ recorded[g] # None
  /\ Submit(recorded[g], Deeper(g))
  /\ todo' = [todo EXCEPT ![g] = @ \ {recorded[g]}]
  /\ recorded' = [recorded EXCEPT ![g] = None]
  /\ UNCHANGED <<main, seeds, workClosed, ctxDone, panicked, ops, covers, spec,
                 emission>>

Followed(g) ==
  /\ at[g] = "follow" /\ todo[g] = {}
  /\ Goto(g, Ending(g))
  /\ UNCHANGED <<flow, books, item, todo, recorded, ops, covers, spec, emission>>

\* specsInFlight.Done(): the count that reaches zero releases the waiters.
ReleaseSpec(g) ==
  /\ at[g] = "release"
  /\ specCount' = specCount - 1
  /\ at' = [h \in Routines |->
              IF h = g THEN "finish"
              ELSE IF specCount = 1 /\ at[h] = "blocked" THEN "woken" ELSE at[h]]
  /\ UNCHANGED <<flow, visited, depthOf, queued, pending, item, todo, recorded,
                 ops, covers, spec, emission>>

Finish(g) ==
  /\ at[g] = "finish"
  /\ Settle
  /\ Goto(g, IF g \in SpecPath THEN "exit" ELSE "idle")
  /\ item' = [item EXCEPT ![g] = None]
  /\ ops' = [ops EXCEPT ![g] = {}]
  /\ covers' = [covers EXCEPT ![g] = {}]
  /\ UNCHANGED <<main, seeds, offered, ctxDone, panicked, visited, depthOf,
                 queued, specCount, todo, recorded, spec, emission>>

-----------------------------------------------------------------------------
Process(g) ==
  \/ Skip(g) \/ Fetch(g) \/ Wait(g) \/ WaitReturns(g) \/ TakeSpecOps(g)
  \/ Send(g) \/ AbandonSend(g)
  \/ \E v \in Urls : Follow(g, v) \/ NoRedirect(g, v) \/ RecordSpecOps(g, v)
  \/ SubmitOperation(g) \/ Followed(g) \/ ReleaseSpec(g) \/ Finish(g)

Work(w) == Leave(w) \/ \E u \in Urls : Receive(w, u)

Next ==
  /\ ~panicked
  /\ \/ Seed \/ Seeded \/ CloseOut \/ Cancel
     \/ \E u \in Urls : Withdraw(u)
     \/ \E w \in Workers : Work(w)
     \/ \E g \in Routines : Process(g)

Spec == Init /\ [][Next]_vars

\* Every goroutine runs.  The scanner reads pages until the channel is closed
\* or the context is cancelled, which a blocked emit also sees.
Alive(A) == ~panicked /\ A

Fairness ==
  /\ WF_vars(Alive(Seed \/ Seeded \/ CloseOut))
  /\ WF_vars(Alive(\E u \in Urls : Withdraw(u)))
  /\ \A w \in Workers : WF_vars(Alive(Work(w)))
  /\ \A g \in Routines : WF_vars(Alive(Process(g)))

FairSpec == Spec /\ Fairness

-----------------------------------------------------------------------------
(* Correctness.                                                             *)

Busy == {g \in Routines : at[g] \notin {"idle", "exit"}}

\* Quiescence by counting is exact.  pending is the work outstanding and
\* specsInFlight the API documents being processed, whoever holds the item and
\* however it ends: an error, a page without links, a cancellation seen by the
\* goroutine that offers it.  So no goroutine can send on a closed channel: work
\* is closed only when nobody can submit any more, and out only when nobody can
\* emit.
QuiescenceIsExact ==
  /\ pending = Cardinality(offered) + Cardinality(Busy)
                 + (IF main = "seed" THEN 1 ELSE 0)
  /\ specCount = Cardinality(InFlight)
  /\ workClosed => main # "seed" /\ offered = {} /\ Busy = {}
  /\ main = "closed" => workClosed

\* "emitting one page.Page per unique URL", and never more than MaxPages.
EmissionIsBounded ==
  /\ \A u \in Urls : pages[u] <= 1
  /\ MaxPages > 0 => Cardinality({u \in Urls : pages[u] > 0}) <= MaxPages

\* "any SpecOps that would cover this URL are guaranteed to be visible": the
\* page of an ordinary URL carries the operations that every API document in
\* flight when its emission began has declared for it.
SpecOpsRideOnPage ==
  [][\A g \in Routines :
       at[g] = "send" /\ pages'[item[g]] > pages[item[g]] =>
         covers[g] \cap declared[item[g]] \subseteq ops[g]]_vars

\* Nothing that was found is forgotten: when an uncapped, uncancelled crawl
\* ends, every seed has its page, and so has every link and API operation of
\* a page whose body was read, except beyond the depth cap.
EveryLinkWalked ==
  main = "closed" /\ ~ctxDone /\ ~OverCap(queued) =>
    /\ \A i \in DOMAIN Seeds : Seeds[i] \in InScope => pages[Seeds[i]] = 1
    /\ \A u \in fetched, v \in InScope :
         v \in Links[u] \cup Documents[u] /\ AllowsDepth(depthOf[u] + 1) =>
           pages[v] = 1

\* The crawl does not hang, cancelled or not.
CrawlEnds == <>(main = "closed" \/ panicked)

-----------------------------------------------------------------------------
(* What a comment claims and the code does not keep.                        *)

\* crawler.go: "out is closed when crawling completes or ctx is canceled."
OutIsClosed == <>(main = "closed")
==============================================================================
