---------------------------- MODULE CrawlerProofs ----------------------------
(***************************************************************************)
(* Proofs about Crawler, for any site, any number of workers and any caps.  *)
(*                                                                          *)
(* A URL that was accepted is in one place: on the work channel, in the     *)
(* hand of one goroutine, or past its page (Shape, Once).  So the counters  *)
(* are exact (Counting).  Covered follows the operations of an API document *)
(* from the moment a page begins to wait for it; Walked follows what is to  *)
(* be submitted.                                                            *)
(***************************************************************************)
EXTENDS Crawler, FiniteSetTheorems, TLAPS

\* Where a goroutine's page is still to come.
BeforeTake == {"fetch", "wait", "blocked", "woken", "take"}
BeforeSend == BeforeTake \cup {"send"}

AtRest == {"idle", "exit"}

Shape ==
  /\ \A g \in Routines : item[g] = None <=> at[g] \in AtRest
  /\ \A g \in Routines : item[g] \in visited \cup {None}
  /\ \A g, h \in Routines : item[g] = item[h] /\ item[g] # None => g = h
  /\ \A g \in Routines : item[g] \notin offered
  /\ \A s \in SpecPath : /\ item[s] \in {None, s}
                         /\ at[s] # "idle" => s \in visited
                         /\ at[s] \notin {"wait", "blocked", "woken"}
  /\ \A w \in Workers : item[w] \notin SpecPath /\ at[w] # "release"

\* An operation that was recorded is yet to be submitted.
Recording ==
  \A g \in Routines :
    recorded[g] # None => at[g] = "follow" /\ recorded[g] \in todo[g] \cap Documents[item[g]]

Counting ==
  /\ pending = Cardinality(offered) + Cardinality(Busy)
                 + (IF main = "seed" THEN 1 ELSE 0)
  /\ specCount = Cardinality(InFlight)
  /\ workClosed => pending = 0
  /\ main = "closed" \/ (\E w \in Workers : at[w] = "exit") => workClosed
  /\ main = "closed" => \A w \in Workers : at[w] = "exit"

\* The URLs that passed the cap.
Launched ==
  {u \in visited : pages[u] > 0 \/ u \in offered \/ \E g \in Routines : item[g] = u}

Once ==
  /\ \A u \in Urls : pages[u] <= 1
  /\ \A u \in Urls : pages[u] > 0 => u \in visited \ offered
  /\ \A g \in Routines : at[g] \in BeforeSend => pages[item[g]] = 0
  /\ MaxPages > 0 => Cardinality(Launched) <= MaxPages /\ Cardinality(Launched) <= queued

\* Nobody has taken the operations that await a page before its goroutine does;
\* those that a page waited for have been declared by then.
Covered ==
  /\ \A u \in (Urls \ visited) \cup offered : specOps[u] = declared[u]
  /\ \A g \in Routines :
       /\ at[g] \in BeforeTake => specOps[item[g]] = declared[item[g]]
       /\ at[g] \in {"idle", "fetch"} \/ g \in SpecPath => covers[g] = {}
       /\ \A s \in covers[g] : at[s] # "idle"
       /\ at[g] \in {"take", "send"} => \A s \in covers[g] : at[s] \in {"finish", "exit"}
       /\ at[g] = "send" => covers[g] \cap declared[item[g]] \subseteq ops[g]

\* What a URL leads to and submit would accept.
Owed(u) == {v \in (Links[u] \cup Documents[u]) \cap InScope : AllowsDepth(depthOf[u] + 1)}

StillSubmitting(u, v) ==
  \E g \in Routines :
    /\ item[g] = u
    /\ at[g] \in BeforeSend \/ (at[g] = "follow" /\ v \in todo[g])

Walked ==
  ~ctxDone /\ ~OverCap(queued) =>
    /\ visited \subseteq Launched
    /\ \A i \in DOMAIN Seeds :
         Seeds[i] \in InScope =>
           Seeds[i] \in visited \/ (main = "seed" /\ \E j \in DOMAIN seeds : seeds[j] = Seeds[i])
    /\ \A u \in fetched : \A v \in Owed(u) : v \in visited \/ StillSubmitting(u, v)

\* A page once begun is sent: a goroutine past its page has sent it.
Sent ==
  ~ctxDone => \A g \in Routines : at[g] \in {"follow", "release", "finish"} => pages[item[g]] = 1

CrawlInv ==
  /\ TypeOK /\ fetched \subseteq visited
  /\ Shape /\ Recording /\ Counting /\ Once /\ Covered /\ Sent /\ Walked

-----------------------------------------------------------------------------
(* What kinds of steps there are.                                           *)

\* submit turns a URL down, and then it was seen, too deep or out of scope.
Refuses(u, d) ==
  /\ AllowsDepth(d) /\ u \in InScope => u \in visited
  /\ visited' = visited /\ depthOf' = depthOf /\ queued' = queued
  /\ pending' = pending /\ specCount' = specCount
  /\ offered' = offered /\ at' = at /\ item' = item

\* It marks a URL, and either leaves it at that or launches it.
Marks(u, d) ==
  /\ u \in InScope /\ u \notin visited
  /\ visited' = visited \cup {u}
  /\ depthOf' \in [visited' -> Nat] /\ depthOf'[u] = d
  /\ \A v \in visited : depthOf'[v] = depthOf[v]
  /\ Count(u)

LeavesAtThat(u) ==
  /\ OverCap(queued')
  /\ pending' = pending /\ specCount' = specCount
  /\ offered' = offered /\ at' = at /\ item' = item

LaunchesDocument(u) ==
  /\ ~OverCap(queued') /\ u \in SpecPath
  /\ pending' = pending + 1 /\ specCount' = specCount + 1
  /\ at' = [at EXCEPT ![u] = "fetch"] /\ item' = [item EXCEPT ![u] = u]
  /\ offered' = offered

LaunchesItem(u) ==
  /\ ~OverCap(queued') /\ u \notin SpecPath
  /\ pending' = pending + 1 /\ specCount' = specCount
  /\ offered' = offered \cup {u}
  /\ at' = at /\ item' = item

LEMMA SubmitKinds ==
  ASSUME TypeOK, NEW u \in Urls, NEW d \in Nat, Submit(u, d)
  PROVE  \/ Refuses(u, d)
         \/ Marks(u, d) /\ (LeavesAtThat(u) \/ LaunchesDocument(u) \/ LaunchesItem(u))
<1>1. CASE ~AllowsDepth(d) \/ u \notin InScope \/ u \in visited
  BY <1>1 DEF Submit, Refuses, books
<1>2. CASE ~(~AllowsDepth(d) \/ u \notin InScope \/ u \in visited)
  <2>1. /\ visited' = visited \cup {u}
        /\ depthOf' = [v \in visited' |-> IF v = u THEN d ELSE depthOf[v]]
        /\ Count(u)
        /\ IF OverCap(queued') THEN UNCHANGED <<pending, specCount, offered, at, item>>
                               ELSE Launch(u)
    BY <1>2 DEF Submit
  <2>2. Marks(u, d)
    BY <1>2, <2>1 DEF Marks, TypeOK
  <2>3. LeavesAtThat(u) \/ LaunchesDocument(u) \/ LaunchesItem(u)
    BY <2>1 DEF Launch, LeavesAtThat, LaunchesDocument, LaunchesItem
  <2>4. QED
    BY <2>2, <2>3
<1>3. QED
  BY <1>1, <1>2

\* Whoever submits is the main goroutine while it seeds, or one that follows.
Submits(u, d) ==
  /\ u \in Urls /\ d \in Nat /\ Submit(u, d)
  /\ main = "seed" \/ \E g \in Routines : at[g] = "follow"
  /\ main' = main /\ workClosed' = workClosed /\ ctxDone' = ctxDone /\ panicked' = panicked
  /\ ops' = ops /\ covers' = covers /\ specOps' = specOps /\ declared' = declared
  /\ pages' = pages /\ fetched' = fetched

\* A goroutine goes on through process, or stays where it is.
Turns(g) ==
  /\ \/ at' = at
     \/ \E s \in {"wait", "blocked", "take", "send", "follow", "release", "finish"} :
          /\ at' = [at EXCEPT ![g] = s]
          /\ at[g] \notin {"idle", "exit", "release", "finish"}
          /\ g \in SpecPath => s \notin {"finish", "wait", "blocked"}
          /\ g \notin SpecPath => s # "release"
          /\ s \in BeforeSend => at[g] \in BeforeTake
  /\ main' = main /\ seeds' = seeds /\ offered' = offered /\ workClosed' = workClosed
  /\ ctxDone' = ctxDone /\ visited' = visited /\ depthOf' = depthOf /\ queued' = queued
  /\ pending' = pending /\ specCount' = specCount /\ item' = item

LEMMA Sites ==
  /\ Workers \subseteq Routines /\ SpecPath \subseteq Routines
  /\ Workers \cap SpecPath = {}
  /\ None \notin Urls /\ None \notin Routines
BY CrawlerAssumption DEF Routines

LEMMA SeedSubmits ==
  ASSUME TypeOK, Seed
  PROVE  Submits(Head(seeds), 0)
<1>1. Head(seeds) \in Urls
  BY DEF Seed, TypeOK
<1>2. QED
  BY <1>1 DEF Seed, Submits, spec, emission

LEMMA FollowSubmits ==
  ASSUME TypeOK, Shape, NEW g \in Routines, NEW v \in Urls, Follow(g, v)
  PROVE  Submits(v, Deeper(g))
<1>1. item[g] \in visited
  BY DEF Follow, Shape, AtRest
<1>2. Deeper(g) \in Nat
  BY <1>1 DEF Deeper, TypeOK
<1>3. QED
  BY <1>2 DEF Follow, Submits, spec, emission

LEMMA OperationSubmits ==
  ASSUME TypeOK, Shape, NEW g \in Routines, SubmitOperation(g)
  PROVE  Submits(recorded[g], Deeper(g))
<1>1. item[g] \in visited
  BY DEF SubmitOperation, Shape, AtRest
<1>2. Deeper(g) \in Nat
  BY <1>1 DEF Deeper, TypeOK
<1>3. recorded[g] \in Urls
  BY DEF SubmitOperation, TypeOK
<1>4. QED
  BY <1>2, <1>3 DEF SubmitOperation, Submits, spec, emission

\* The steps of process that neither submit nor end it.
Proceeds(g) ==
  \/ Skip(g) \/ Fetch(g) \/ Wait(g) \/ WaitReturns(g) \/ TakeSpecOps(g)
  \/ Send(g) \/ AbandonSend(g)
  \/ (\E v \in Urls : NoRedirect(g, v) \/ RecordSpecOps(g, v)) \/ Followed(g)

LEMMA ProceedsTurns ==
  ASSUME Shape, NEW g \in Routines, Proceeds(g)
  PROVE  Turns(g)
<1> USE DEF Turns, flow, books, Goto, BeforeSend, BeforeTake
<1>1. CASE Skip(g)
  BY <1>1 DEF Skip
<1>2. CASE Fetch(g)
  BY <1>2 DEF Fetch
<1>3. CASE Wait(g)
  BY <1>3 DEF Wait, Shape
<1>4. CASE WaitReturns(g)
  BY <1>4 DEF WaitReturns
<1>5. CASE TakeSpecOps(g)
  BY <1>5 DEF TakeSpecOps
<1>6. CASE Send(g)
  BY <1>6 DEF Send, Ending
<1>7. CASE AbandonSend(g)
  BY <1>7 DEF AbandonSend, Ending
<1>8. CASE \E v \in Urls : NoRedirect(g, v) \/ RecordSpecOps(g, v)
  BY <1>8 DEF NoRedirect, RecordSpecOps
<1>9. CASE Followed(g)
  BY <1>9 DEF Followed, Ending
<1>10. QED
  BY <1>1, <1>2, <1>3, <1>4, <1>5, <1>6, <1>7, <1>8, <1>9 DEF Proceeds

LEMMA NextKinds ==
  ASSUME [Next]_vars
  PROVE  \/ Seed \/ Seeded \/ CloseOut \/ Cancel
         \/ \E u \in Urls : Withdraw(u)
         \/ \E w \in Workers : Leave(w) \/ \E u \in Urls : Receive(w, u)
         \/ \E g \in Routines : Proceeds(g)
         \/ \E g \in Routines, v \in Urls : Follow(g, v)
         \/ \E g \in Routines : SubmitOperation(g) \/ ReleaseSpec(g) \/ Finish(g)
         \/ UNCHANGED vars
BY DEF Next, Work, Process, Proceeds

-----------------------------------------------------------------------------
(* Sets of URLs and of goroutines.                                          *)

LEMMA SmallSets ==
  /\ \A S \in SUBSET (Urls \cup Routines) :
       IsFiniteSet(S) /\ Cardinality(S) \in Nat /\ (Cardinality(S) = 0 <=> S = {})
  /\ \A S \in SUBSET (Urls \cup Routines), x \in Urls \cup Routines :
       /\ x \notin S => Cardinality(S \cup {x}) = Cardinality(S) + 1
       /\ x \in S => Cardinality(S \ {x}) = Cardinality(S) - 1
  /\ \A S \in SUBSET (Urls \cup Routines) : \A T \in SUBSET S :
       Cardinality(T) <= Cardinality(S)
<1>1. IsFiniteSet(Urls \cup Routines)
  <2>1. Urls \cup Routines = Urls \cup Workers
    BY CrawlerAssumption DEF Routines
  <2>2. QED
    BY <2>1, CrawlerAssumption, FS_Union
<1>2. \A S \in SUBSET (Urls \cup Routines) : IsFiniteSet(S)
  BY <1>1, FS_Subset
<1>3. \A S \in SUBSET (Urls \cup Routines) :
        IsFiniteSet(S) /\ Cardinality(S) \in Nat /\ (Cardinality(S) = 0 <=> S = {})
  BY <1>2, FS_CardinalityType, FS_EmptySet
<1>4. ASSUME NEW S \in SUBSET (Urls \cup Routines), NEW x \in Urls \cup Routines
      PROVE  /\ x \notin S => Cardinality(S \cup {x}) = Cardinality(S) + 1
             /\ x \in S => Cardinality(S \ {x}) = Cardinality(S) - 1
  <2>1. x \notin S => Cardinality(S \cup {x}) = Cardinality(S) + 1
    BY <1>3, FS_AddElement
  <2>2. x \in S => Cardinality(S \ {x}) = Cardinality(S) - 1
    BY <1>3, FS_RemoveElement
  <2>3. QED
    BY <2>1, <2>2
<1>5. \A S \in SUBSET (Urls \cup Routines) : \A T \in SUBSET S :
        Cardinality(T) <= Cardinality(S)
  BY <1>2, FS_Subset
<1>6. QED
  BY <1>3, <1>4, <1>5

\* The three sets that the counters count.
LEMMA CountedSets ==
  ASSUME TypeOK
  PROVE  /\ offered \in SUBSET (Urls \cup Routines)
         /\ Busy \in SUBSET (Urls \cup Routines) /\ InFlight \in SUBSET (Urls \cup Routines)
         /\ Launched \in SUBSET (Urls \cup Routines)
         /\ {Cardinality(offered), Cardinality(Busy), Cardinality(InFlight)} \subseteq Nat
<1>1. /\ offered \in SUBSET (Urls \cup Routines) /\ Launched \in SUBSET (Urls \cup Routines)
      /\ Busy \in SUBSET (Urls \cup Routines) /\ InFlight \in SUBSET (Urls \cup Routines)
  BY CrawlerAssumption DEF TypeOK, Busy, InFlight, Launched, Routines
<1>2. QED
  BY <1>1, SmallSets

-----------------------------------------------------------------------------
(* The counters.                                                            *)

LEMMA InitCrawl == Init => CrawlInv
<1> SUFFICES ASSUME Init PROVE CrawlInv
  OBVIOUS
<1> USE CrawlerAssumption, Sites DEF Init
<1>1. TypeOK
  <2>1. depthOf \in [visited -> Nat]
    OBVIOUS
  <2>2. at \in [Routines -> Stages]
    BY DEF Stages
  <2>3. /\ item \in [Routines -> Urls \cup {None}] /\ recorded \in [Routines -> Urls \cup {None}]
        /\ todo \in [Routines -> SUBSET Urls] /\ ops \in [Routines -> SUBSET Urls]
        /\ covers \in [Routines -> SUBSET SpecPath]
    OBVIOUS
  <2>4. /\ specOps \in [Urls -> SUBSET Urls] /\ declared \in [Urls -> SUBSET Urls]
        /\ pages \in [Urls -> Nat]
    OBVIOUS
  <2>5. QED
    BY <2>1, <2>2, <2>3, <2>4 DEF TypeOK
<1>2. Busy = {} /\ InFlight = {} /\ Launched = {} /\ Cardinality({}) = 0
  BY FS_EmptySet DEF Busy, InFlight, Launched
<1>3. Counting
  BY <1>2 DEF Counting
<1>4. Shape
  BY DEF Shape, AtRest
<1>10. Recording
  BY DEF Recording
<1>5. Once
  BY <1>2 DEF Once, BeforeSend, BeforeTake
<1>6. Covered
  BY DEF Covered, BeforeTake
<1>7. Sent
  BY DEF Sent
<1>8. Walked
  BY <1>2 DEF Walked
<1>9. QED
  BY <1>1, <1>3, <1>4, <1>5, <1>6, <1>7, <1>8, <1>10 DEF CrawlInv

\* The invariant of the counters, once their sets are known.
LEMMA CountersMove ==
  ASSUME TypeOK, Counting
  PROVE  /\ workClosed => offered = {} /\ Busy = {} /\ main # "seed"
         /\ pending \in Nat /\ specCount \in Nat
         /\ offered # {} \/ Busy # {} \/ main = "seed" => pending > 0 /\ ~workClosed
<1>1. /\ Cardinality(offered) \in Nat /\ Cardinality(Busy) \in Nat
      /\ Cardinality(offered) = 0 => offered = {}
      /\ Cardinality(Busy) = 0 => Busy = {}
      /\ offered = {} => Cardinality(offered) = 0
      /\ Busy = {} => Cardinality(Busy) = 0
  BY CountedSets, SmallSets
<1>2. QED
  BY <1>1 DEF Counting, TypeOK

LEMMA SubmitsCounting ==
  ASSUME TypeOK, Shape, Counting, NEW u, NEW d, Submits(u, d)
  PROVE  Counting'
<1>1. u \in Urls /\ d \in Nat /\ main' = main /\ workClosed' = workClosed
  BY DEF Submits
<1>2. Busy # {} \/ main = "seed"
  BY DEF Submits, Busy
<1>3. ~workClosed
  BY <1>2, CountersMove
<1>4. /\ Cardinality(offered) \in Nat /\ Cardinality(Busy) \in Nat
      /\ Cardinality(InFlight) \in Nat /\ specCount \in Nat /\ pending \in Nat
  BY CountedSets DEF TypeOK
<1>5. CASE Refuses(u, d) \/ LeavesAtThat(u)
  <2>1. /\ pending' = pending /\ specCount' = specCount /\ offered' = offered /\ at' = at
    BY <1>5 DEF Refuses, LeavesAtThat
  <2>2. QED
    BY <1>1, <2>1 DEF Counting, Busy, InFlight
<1>6. CASE Marks(u, d) /\ LaunchesDocument(u)
  <2>1. u \in Routines /\ at[u] = "idle" /\ u \in SpecPath
    BY <1>6, Sites DEF Marks, LaunchesDocument, Shape
  <2>2. /\ pending' = pending + 1 /\ specCount' = specCount + 1 /\ offered' = offered
        /\ at' = [at EXCEPT ![u] = "fetch"]
    BY <1>6 DEF LaunchesDocument
  <2>3. Busy' = Busy \cup {u} /\ u \notin Busy
    BY <2>1, <2>2 DEF Busy, TypeOK
  <2>4. InFlight' = InFlight \cup {u} /\ u \notin InFlight
    BY <2>1, <2>2, Sites DEF InFlight, TypeOK
  <2>5. /\ Cardinality(Busy') = Cardinality(Busy) + 1
        /\ Cardinality(InFlight') = Cardinality(InFlight) + 1
    BY <2>1, <2>3, <2>4, CountedSets, SmallSets
  <2>6. \A w \in Workers : at'[w] = at[w]
    BY <2>1, <2>2, Sites DEF TypeOK
  <2>7. QED
    BY <1>1, <1>3, <1>4, <2>2, <2>5, <2>6 DEF Counting
<1>7. CASE Marks(u, d) /\ LaunchesItem(u)
  <2>1. /\ pending' = pending + 1 /\ specCount' = specCount /\ at' = at
        /\ offered' = offered \cup {u} /\ u \notin offered
    BY <1>7 DEF LaunchesItem, Marks, TypeOK
  <2>2. Cardinality(offered') = Cardinality(offered) + 1
    BY <1>1, <2>1, CountedSets, SmallSets
  <2>3. Busy' = Busy /\ InFlight' = InFlight
    BY <2>1 DEF Busy, InFlight
  <2>4. QED
    BY <1>1, <1>3, <1>4, <2>1, <2>2, <2>3 DEF Counting
<1>8. QED
  BY <1>1, <1>5, <1>6, <1>7, SubmitKinds DEF Submits

\* Settling takes one unit of pending, and closes the channel at the last.
LEMMA SettleCounting ==
  ASSUME TypeOK, Counting, Settle, specCount' = Cardinality(InFlight'),
         pending > 0,
         Cardinality(offered') + Cardinality(Busy') + (IF main' = "seed" THEN 1 ELSE 0)
           = Cardinality(offered) + Cardinality(Busy) + (IF main = "seed" THEN 1 ELSE 0) - 1,
         \A w \in Workers : at'[w] = "exit" <=> at[w] = "exit",
         main = "closed" <=> main' = "closed"
  PROVE  Counting'
<1>1. {Cardinality(offered), Cardinality(Busy), pending} \subseteq Nat
  BY CountedSets DEF TypeOK
<1>2. ~workClosed
  BY <1>1 DEF Counting
<1>3. pending' = pending - 1 /\ (workClosed' => pending' = 0)
  BY <1>2 DEF Settle
<1>4. ~(main' = "closed" \/ \E w \in Workers : at'[w] = "exit")
  BY <1>2 DEF Counting
<1>5. QED
  BY <1>1, <1>3, <1>4 DEF Counting

LEMMA NextCounting ==
  ASSUME TypeOK, Shape, Counting, [Next]_vars
  PROVE  Counting'
<1>0. /\ Cardinality(offered) \in Nat /\ Cardinality(Busy) \in Nat
      /\ Cardinality(InFlight) \in Nat /\ specCount \in Nat /\ pending \in Nat
      /\ specCount = Cardinality(InFlight)
  BY CountedSets DEF TypeOK, Counting
<1>1. ASSUME NEW u, NEW d, Submits(u, d) PROVE Counting'
  BY <1>1, SubmitsCounting
<1>2. CASE Seeded
  <2>1. /\ main = "seed" /\ main' = "join" /\ offered' = offered /\ at' = at
        /\ specCount' = specCount /\ Settle
    BY <1>2 DEF Seeded, local
  <2>2. Busy' = Busy /\ InFlight' = InFlight
    BY <2>1 DEF Busy, InFlight
  <2>3. pending > 0
    BY <2>1, CountersMove
  <2>4. QED
    BY <1>0, <2>1, <2>2, <2>3, SettleCounting
<1>3. CASE CloseOut
  <2>1. /\ main = "join" /\ main' = "closed" /\ \A w \in Workers : at[w] = "exit"
        /\ offered' = offered /\ at' = at /\ workClosed' = workClosed
        /\ pending' = pending /\ specCount' = specCount
    BY <1>3 DEF CloseOut, books, local
  <2>2. workClosed
    BY <2>1, CrawlerAssumption DEF Counting
  <2>3. QED
    BY <2>1, <2>2 DEF Counting, Busy, InFlight
<1>4. CASE Cancel \/ UNCHANGED vars
  <2>1. /\ main' = main /\ offered' = offered /\ at' = at /\ workClosed' = workClosed
        /\ pending' = pending /\ specCount' = specCount
    BY <1>4 DEF Cancel, vars, flow, books, local
  <2>2. QED
    BY <2>1 DEF Counting, Busy, InFlight
<1>5. ASSUME NEW u \in Urls, Withdraw(u) PROVE Counting'
  <2>1. /\ u \in offered /\ offered' = offered \ {u} /\ Settle
        /\ main' = main /\ at' = at /\ specCount' = specCount
    BY <1>5 DEF Withdraw, local
  <2>2. Cardinality(offered') = Cardinality(offered) - 1
    BY <2>1, CountedSets, SmallSets
  <2>3. Busy' = Busy /\ InFlight' = InFlight
    BY <2>1 DEF Busy, InFlight
  <2>4. pending > 0
    BY <2>1, CountersMove
  <2>5. QED
    BY <1>0, <2>1, <2>2, <2>3, <2>4, SettleCounting
<1>6. ASSUME NEW w \in Workers, Leave(w) PROVE Counting'
  <2>1. /\ at[w] = "idle" /\ workClosed /\ at' = [at EXCEPT ![w] = "exit"]
        /\ offered' = offered /\ main' = main /\ workClosed' = workClosed
        /\ pending' = pending /\ specCount' = specCount
    BY <1>6 DEF Leave, Goto, flow, books
  <2>2. Busy' = Busy /\ InFlight' = InFlight
    BY <2>1, Sites DEF Busy, InFlight, TypeOK
  <2>3. \A v \in Workers : at[v] = "exit" => at'[v] = "exit"
    BY <2>1, Sites DEF TypeOK
  <2>4. QED
    BY <2>1, <2>2, <2>3 DEF Counting
<1>7. ASSUME NEW w \in Workers, NEW u \in Urls, Receive(w, u) PROVE Counting'
  <2>1. /\ at[w] = "idle" /\ u \in offered /\ at' = [at EXCEPT ![w] = "fetch"]
        /\ offered' = offered \ {u} /\ main' = main /\ workClosed' = workClosed
        /\ pending' = pending /\ specCount' = specCount
    BY <1>7 DEF Receive, Goto, books
  <2>2. Cardinality(offered') = Cardinality(offered) - 1
    BY <2>1, CountedSets, SmallSets
  <2>3. Busy' = Busy \cup {w} /\ w \notin Busy /\ InFlight' = InFlight
    BY <2>1, Sites DEF Busy, InFlight, TypeOK
  <2>4. Cardinality(Busy') = Cardinality(Busy) + 1
    BY <2>3, CountedSets, SmallSets, Sites
  <2>5. ~workClosed
    BY <2>1, CountersMove
  <2>6. QED
    BY <1>0, <2>1, <2>2, <2>3, <2>4, <2>5 DEF Counting
<1>8. ASSUME NEW g \in Routines, Proceeds(g) PROVE Counting'
  <2>1. Turns(g)
    BY <1>8, ProceedsTurns
  <2>2. Busy' = Busy /\ InFlight' = InFlight
    <3>1. CASE at' = at
      BY <3>1 DEF Busy, InFlight
    <3>2. CASE at' # at
      <4>1. PICK s \in {"wait", "blocked", "take", "send", "follow", "release", "finish"} :
               /\ at' = [at EXCEPT ![g] = s]
               /\ at[g] \notin {"idle", "exit", "release", "finish"}
               /\ g \in SpecPath => s \notin {"finish", "wait", "blocked"}
        BY <2>1, <3>2 DEF Turns
      <4>2. QED
        BY <4>1, Sites DEF Busy, InFlight, TypeOK
    <3>3. QED
      BY <3>1, <3>2
  <2>3. \A w \in Workers : at'[w] = "exit" <=> at[w] = "exit"
    BY <2>1, Sites DEF Turns, TypeOK
  <2>4. QED
    BY <2>1, <2>2, <2>3 DEF Turns, Counting
<1>9. ASSUME NEW g \in Routines, ReleaseSpec(g) PROVE Counting'
  <2>1. /\ at[g] = "release" /\ specCount' = specCount - 1
        /\ offered' = offered /\ main' = main /\ workClosed' = workClosed /\ pending' = pending
    BY <1>9 DEF ReleaseSpec, flow
  <2>2. \A h \in Routines : at'[h] = IF h = g THEN "finish"
                                     ELSE IF specCount = 1 /\ at[h] = "blocked" THEN "woken"
                                     ELSE at[h]
    BY <1>9 DEF ReleaseSpec
  <2>3. g \in SpecPath
    BY <2>1 DEF Shape, Routines
  <2>4. Busy' = Busy
    BY <2>1, <2>2 DEF Busy
  <2>5. InFlight' = InFlight \ {g} /\ g \in InFlight
    BY <2>1, <2>2, <2>3, Sites DEF InFlight, Shape
  <2>6. Cardinality(InFlight') = Cardinality(InFlight) - 1
    BY <2>5, CountedSets, SmallSets
  <2>7. \A w \in Workers : at'[w] = "exit" <=> at[w] = "exit"
    BY <2>1, <2>2, Sites
  <2>8. QED
    BY <1>0, <2>1, <2>4, <2>6, <2>7 DEF Counting
<1>10. ASSUME NEW g \in Routines, Finish(g) PROVE Counting'
  <2>1. /\ at[g] = "finish" /\ Settle /\ main' = main /\ offered' = offered
        /\ specCount' = specCount
        /\ at' = [at EXCEPT ![g] = IF g \in SpecPath THEN "exit" ELSE "idle"]
    BY <1>10 DEF Finish, Goto
  <2>2. Busy' = Busy \ {g} /\ g \in Busy
    BY <2>1 DEF Busy, TypeOK
  <2>3. Cardinality(Busy') = Cardinality(Busy) - 1
    BY <2>2, CountedSets, SmallSets
  <2>4. InFlight' = InFlight
    BY <2>1, Sites DEF InFlight, TypeOK
  <2>5. pending > 0
    BY <2>2, CountersMove
  <2>6. \A w \in Workers : at'[w] = "exit" <=> at[w] = "exit"
    BY <2>1, Sites DEF TypeOK
  <2>7. QED
    BY <1>0, <2>1, <2>3, <2>4, <2>5, <2>6, SettleCounting
<1>11. QED
  BY <1>1, <1>2, <1>3, <1>4, <1>5, <1>6, <1>7, <1>8, <1>9, <1>10, NextKinds,
     SeedSubmits, FollowSubmits, OperationSubmits

-----------------------------------------------------------------------------
(* Types.                                                                   *)

LEMMA SubmitTypes ==
  ASSUME TypeOK, NEW u, NEW d, u \in Urls, d \in Nat, Submit(u, d)
  PROVE  /\ visited' \subseteq InScope /\ visited \subseteq visited'
         /\ depthOf' \in [visited' -> Nat]
         /\ queued' \in Nat /\ pending' \in Nat /\ specCount' \in Nat
         /\ offered' \subseteq visited' \ SpecPath
         /\ at' \in [Routines -> Stages]
         /\ item' \in [Routines -> Urls \cup {None}]
<1>1. CASE Refuses(u, d)
  BY <1>1 DEF Refuses, TypeOK
<1>2. CASE Marks(u, d) /\ (LeavesAtThat(u) \/ LaunchesDocument(u) \/ LaunchesItem(u))
  <2>1. /\ visited' \subseteq InScope /\ visited \subseteq visited'
        /\ depthOf' \in [visited' -> Nat] /\ u \in visited'
    BY <1>2 DEF Marks, TypeOK
  <2>2. queued' \in Nat
    BY <1>2 DEF Marks, Count, TypeOK
  <2>3. pending' \in Nat /\ specCount' \in Nat
    BY <1>2 DEF LeavesAtThat, LaunchesDocument, LaunchesItem, TypeOK
  <2>4. offered' \subseteq visited' \ SpecPath
    BY <1>2, <2>1 DEF LeavesAtThat, LaunchesDocument, LaunchesItem, TypeOK
  <2>5. at' \in [Routines -> Stages] /\ item' \in [Routines -> Urls \cup {None}]
    <3>1. \/ at' = at /\ item' = item
          \/ at' = [at EXCEPT ![u] = "fetch"] /\ item' = [item EXCEPT ![u] = u]
      BY <1>2 DEF LeavesAtThat, LaunchesDocument, LaunchesItem
    <3>2. "fetch" \in Stages
      BY DEF Stages
    <3>3. QED
      BY ZenonT(60), <3>1, <3>2 DEF TypeOK
  <2>6. QED
    BY <2>1, <2>2, <2>3, <2>4, <2>5
<1>3. QED
  BY <1>1, <1>2, SubmitKinds

LEMMA NextTypeOK ==
  ASSUME TypeOK, fetched \subseteq visited, Shape, Counting, [Next]_vars
  PROVE  TypeOK' /\ fetched' \subseteq visited'
<1> USE DEF TypeOK
<1>1. CASE Seed
  <2>1. Head(seeds) \in Urls /\ Submit(Head(seeds), 0) /\ Tail(seeds) \in Seq(Urls)
    BY <1>1 DEF Seed
  <2>2. /\ main' = main /\ seeds' = Tail(seeds) /\ workClosed' = workClosed
        /\ todo' = todo /\ recorded' = recorded /\ ops' = ops /\ covers' = covers
        /\ specOps' = specOps /\ declared' = declared /\ pages' = pages
        /\ fetched' = fetched /\ ctxDone' = ctxDone /\ panicked' = panicked
    BY <1>1 DEF Seed, spec, emission
  <2>3. QED
    BY <2>1, <2>2, SubmitTypes
<1>2. ASSUME NEW g \in Routines,
             (\E v \in Urls : Follow(g, v)) \/ SubmitOperation(g)
      PROVE  TypeOK' /\ fetched' \subseteq visited'
  <2>1. item[g] \in visited
    BY <1>2 DEF Follow, SubmitOperation, Shape, AtRest
  <2>2. Deeper(g) \in Nat
    BY <2>1 DEF Deeper
  <2>3. PICK v \in Urls : Submit(v, Deeper(g))
    BY <1>2 DEF Follow, SubmitOperation
  <2>4. /\ main' = main /\ seeds' = seeds /\ workClosed' = workClosed
        /\ ops' = ops /\ covers' = covers
        /\ specOps' = specOps /\ declared' = declared /\ pages' = pages
        /\ fetched' = fetched /\ ctxDone' = ctxDone /\ panicked' = panicked
    BY <1>2 DEF Follow, SubmitOperation, spec, emission
  <2>5. /\ todo' \in [Routines -> SUBSET Urls]
        /\ recorded' \in [Routines -> Urls \cup {None}]
    <3>1. CASE \E y \in Urls : Follow(g, y)
      BY <3>1 DEF Follow
    <3>2. CASE SubmitOperation(g)
      BY <3>2 DEF SubmitOperation
    <3>3. QED
      BY <1>2, <3>1, <3>2
  <2>6. QED
    BY <2>2, <2>3, <2>4, <2>5, SubmitTypes
<1>3. CASE Seeded \/ CloseOut \/ Cancel \/ UNCHANGED vars \/ \E u \in Urls : Withdraw(u)
  <2>1. /\ seeds' = seeds /\ visited' = visited /\ depthOf' = depthOf /\ queued' = queued
        /\ specCount' = specCount /\ at' = at /\ item' = item /\ todo' = todo
        /\ recorded' = recorded /\ ops' = ops /\ covers' = covers
        /\ specOps' = specOps /\ declared' = declared /\ pages' = pages
        /\ fetched' = fetched /\ panicked' = panicked
    BY <1>3 DEF Seeded, CloseOut, Cancel, Withdraw, vars, flow, books, spec, emission, local
  <2>2. main' \in {"seed", "join", "closed"} /\ offered' \subseteq offered
    BY <1>3 DEF Seeded, CloseOut, Cancel, Withdraw, vars, flow
  <2>3. pending' \in Nat
    <3>1. CASE pending' = pending
      BY <3>1
    <3>2. CASE pending' # pending
      <4>1. pending' = pending - 1 /\ (main = "seed" \/ offered # {})
        BY <1>3, <3>2 DEF Seeded, CloseOut, Cancel, Withdraw, Settle, vars, books
      <4>2. QED
        BY <4>1, CountersMove
    <3>3. QED
      BY <3>1, <3>2
  <2>4. workClosed' \in BOOLEAN /\ ctxDone' \in BOOLEAN
    <3>1. /\ ctxDone' = ctxDone \/ ctxDone' = TRUE
          /\ \/ workClosed' = workClosed
             \/ workClosed' = (workClosed \/ pending' = 0)
      BY <1>3 DEF Seeded, CloseOut, Cancel, Withdraw, Settle, vars, flow
    <3>2. QED
      BY <3>1
  <2>5. QED
    BY <2>1, <2>2, <2>3, <2>4
<1>4. ASSUME NEW w \in Workers, Leave(w) \/ \E u \in Urls : Receive(w, u)
      PROVE  TypeOK' /\ fetched' \subseteq visited'
  <2>1. /\ main' = main /\ seeds' = seeds /\ visited' = visited /\ depthOf' = depthOf
        /\ queued' = queued /\ pending' = pending /\ specCount' = specCount
        /\ workClosed' = workClosed /\ todo' = todo
        /\ recorded' = recorded /\ ops' = ops /\ covers' = covers
        /\ specOps' = specOps /\ declared' = declared /\ pages' = pages
        /\ fetched' = fetched /\ ctxDone' = ctxDone /\ panicked' = panicked
    BY <1>4 DEF Leave, Receive, flow, books, spec, emission
  <2>2. /\ offered' \subseteq offered
        /\ at' \in [Routines -> Stages] /\ item' \in [Routines -> Urls \cup {None}]
    <3>1. CASE Leave(w)
      BY <3>1, Sites DEF Leave, Goto, Stages, flow
    <3>2. CASE \E u \in Urls : Receive(w, u)
      BY <3>2, Sites DEF Receive, Goto, Stages
    <3>3. QED
      BY <1>4, <3>1, <3>2
  <2>3. QED
    BY <2>1, <2>2
<1>5. ASSUME NEW g \in Routines, Proceeds(g)
      PROVE  TypeOK' /\ fetched' \subseteq visited'
  <2>1. Turns(g)
    BY <1>5, ProceedsTurns
  <2>2. at' \in [Routines -> Stages]
    BY <2>1 DEF Turns, Stages
  <2>3. todo' \in [Routines -> SUBSET Urls]
    <3>1. CASE Send(g)
      <4>1. at[g] = "send" /\ item[g] \in Urls
        BY <3>1, Sites DEF Send, Shape, AtRest
      <4>2. LeadsTo(item[g]) \subseteq Urls
        BY <4>1, CrawlerAssumption DEF LeadsTo
      <4>3. QED
        BY <3>1, <4>2 DEF Send
    <3>2. CASE ~Send(g)
      BY <1>5, <3>2 DEF Proceeds, Skip, Fetch, Wait, WaitReturns, TakeSpecOps, AbandonSend,
                        NoRedirect, RecordSpecOps, Followed
    <3>3. QED
      BY <3>1, <3>2
  <2>4. recorded' \in [Routines -> Urls \cup {None}]
    <3>1. CASE \E v \in Urls : RecordSpecOps(g, v)
      BY <3>1 DEF RecordSpecOps
    <3>2. CASE ~\E v \in Urls : RecordSpecOps(g, v)
      BY <1>5, <3>2 DEF Proceeds, Skip, Fetch, Wait, WaitReturns, TakeSpecOps, Send,
                        AbandonSend, NoRedirect, Followed
    <3>3. QED
      BY <3>1, <3>2
  <2>5. covers' \in [Routines -> SUBSET SpecPath]
    <3>1. InFlight \subseteq SpecPath
      BY DEF InFlight
    <3>2. QED
      BY <1>5, <3>1 DEF Proceeds, Skip, Fetch, Wait, WaitReturns, TakeSpecOps, Send,
                        AbandonSend, NoRedirect, RecordSpecOps, Followed
  <2>6. at[g] \notin AtRest => item[g] \in Urls /\ item[g] \in visited
    BY Sites DEF Shape
  <2>7. ops' \in [Routines -> SUBSET Urls] /\ specOps' \in [Urls -> SUBSET Urls]
    <3>1. CASE TakeSpecOps(g)
      BY <2>6, <3>1 DEF TakeSpecOps, AtRest
    <3>2. CASE \E v \in Urls : RecordSpecOps(g, v)
      BY <2>6, <3>2 DEF RecordSpecOps, AtRest
    <3>3. CASE ~TakeSpecOps(g) /\ ~\E v \in Urls : RecordSpecOps(g, v)
      BY <1>5, <3>3 DEF Proceeds, Skip, Fetch, Wait, WaitReturns, Send, AbandonSend,
                        NoRedirect, Followed, spec
    <3>4. QED
      BY <3>1, <3>2, <3>3
  <2>8. declared' \in [Urls -> SUBSET Urls]
    <3>1. CASE \E v \in Urls : RecordSpecOps(g, v)
      BY <2>6, <3>1 DEF RecordSpecOps, AtRest
    <3>2. CASE ~\E v \in Urls : RecordSpecOps(g, v)
      BY <1>5, <3>2 DEF Proceeds, Skip, Fetch, Wait, WaitReturns, TakeSpecOps, Send,
                        AbandonSend, NoRedirect, Followed, spec
    <3>3. QED
      BY <3>1, <3>2
  <2>9. pages' \in [Urls -> Nat]
    <3>1. CASE Send(g)
      BY <2>6, <3>1 DEF Send, AtRest
    <3>2. CASE ~Send(g)
      BY <1>5, <3>2 DEF Proceeds, Skip, Fetch, Wait, WaitReturns, TakeSpecOps,
                        AbandonSend, NoRedirect, RecordSpecOps, Followed, emission
    <3>3. QED
      BY <3>1, <3>2
  <2>10. fetched' \subseteq visited /\ fetched' \subseteq Urls
    BY <1>5, <2>6, CrawlerAssumption
       DEF Proceeds, Skip, Fetch, Wait, WaitReturns, TakeSpecOps, Send,
           AbandonSend, NoRedirect, RecordSpecOps, Followed, emission, AtRest
  <2>11. panicked' \in BOOLEAN
    <3>1. panicked' = panicked \/ panicked' = TRUE
      BY <1>5 DEF Proceeds, Skip, Fetch, Wait, WaitReturns, TakeSpecOps, Send,
                  AbandonSend, NoRedirect, RecordSpecOps, Followed, flow
    <3>2. QED
      BY <3>1
  <2>12. QED
    BY <2>1, <2>2, <2>3, <2>4, <2>5, <2>7, <2>8, <2>9, <2>10, <2>11 DEF Turns
<1>6. ASSUME NEW g \in Routines, ReleaseSpec(g) PROVE TypeOK' /\ fetched' \subseteq visited'
  <2>1. /\ main' = main /\ seeds' = seeds /\ visited' = visited /\ depthOf' = depthOf
        /\ queued' = queued /\ pending' = pending /\ offered' = offered /\ item' = item
        /\ workClosed' = workClosed /\ todo' = todo
        /\ recorded' = recorded /\ ops' = ops /\ covers' = covers
        /\ specOps' = specOps /\ declared' = declared /\ pages' = pages
        /\ fetched' = fetched /\ ctxDone' = ctxDone /\ panicked' = panicked
    BY <1>6 DEF ReleaseSpec, flow, spec, emission
  <2>2. at' \in [Routines -> Stages]
    BY <1>6 DEF ReleaseSpec, Stages
  <2>3. specCount' \in Nat
    <3>1. g \in InFlight
      BY <1>6 DEF ReleaseSpec, Shape, InFlight, Routines
    <3>2. Cardinality(InFlight) # 0 /\ specCount = Cardinality(InFlight)
      BY <3>1, CountedSets, SmallSets DEF Counting
    <3>3. QED
      BY <1>6, <3>2 DEF ReleaseSpec
  <2>4. QED
    BY <2>1, <2>2, <2>3
<1>7. ASSUME NEW g \in Routines, Finish(g) PROVE TypeOK' /\ fetched' \subseteq visited'
  <2>1. /\ main' = main /\ seeds' = seeds /\ visited' = visited /\ depthOf' = depthOf
        /\ queued' = queued /\ specCount' = specCount /\ offered' = offered
        /\ todo' = todo /\ recorded' = recorded
        /\ specOps' = specOps /\ declared' = declared /\ pages' = pages
        /\ fetched' = fetched /\ ctxDone' = ctxDone /\ panicked' = panicked
    BY <1>7 DEF Finish, spec, emission
  <2>2. /\ at' \in [Routines -> Stages] /\ item' \in [Routines -> Urls \cup {None}]
        /\ ops' \in [Routines -> SUBSET Urls] /\ covers' \in [Routines -> SUBSET SpecPath]
    BY <1>7 DEF Finish, Goto, Stages
  <2>3. pending' \in Nat
    <3>1. Busy # {}
      BY <1>7 DEF Finish, Busy
    <3>2. QED
      BY <1>7, <3>1, CountersMove DEF Finish, Settle
  <2>4. workClosed' \in BOOLEAN
    BY <1>7 DEF Finish, Settle
  <2>5. QED
    BY <2>1, <2>2, <2>3, <2>4
<1>8. QED
  BY <1>1, <1>2, <1>3, <1>4, <1>5, <1>6, <1>7, NextKinds


-----------------------------------------------------------------------------
(* Where the items are.                                                     *)

LEMMA SubmitsShape ==
  ASSUME TypeOK, Shape, NEW u, NEW d, Submits(u, d)
  PROVE  Shape'
<1>1. CASE Refuses(u, d) \/ (Marks(u, d) /\ LeavesAtThat(u))
  <2>1. /\ visited \subseteq visited' /\ offered' = offered /\ at' = at /\ item' = item
    BY <1>1 DEF Refuses, Marks, LeavesAtThat
  <2>2. QED
    BY <2>1 DEF Shape
<1>2. CASE Marks(u, d) /\ LaunchesDocument(u)
  <2>1. /\ u \notin visited /\ visited' = visited \cup {u} /\ offered' = offered
        /\ u \in SpecPath /\ u \in Routines /\ u # None /\ u \notin offered
        /\ at' = [at EXCEPT ![u] = "fetch"] /\ item' = [item EXCEPT ![u] = u]
    BY <1>2, Sites, CrawlerAssumption DEF Marks, LaunchesDocument, TypeOK
  <2>2. \A g \in Routines : /\ at'[g] = IF g = u THEN "fetch" ELSE at[g]
                            /\ item'[g] = IF g = u THEN u ELSE item[g]
    BY <2>1 DEF TypeOK
  <2>3. QED
    BY <2>1, <2>2, Sites DEF Shape, AtRest
<1>3. CASE Marks(u, d) /\ LaunchesItem(u)
  <2>1. /\ u \notin visited /\ visited' = visited \cup {u} /\ u \notin SpecPath
        /\ offered' = offered \cup {u} /\ at' = at /\ item' = item /\ u # None
    BY <1>3, CrawlerAssumption DEF Marks, LaunchesItem
  <2>2. QED
    BY <2>1 DEF Shape
<1>4. QED
  BY <1>1, <1>2, <1>3, SubmitKinds DEF Submits

LEMMA NextShape ==
  ASSUME TypeOK, Shape, [Next]_vars
  PROVE  Shape'
<1>1. ASSUME NEW u, NEW d, Submits(u, d) PROVE Shape'
  BY <1>1, SubmitsShape
<1>2. CASE Seeded \/ CloseOut \/ Cancel \/ UNCHANGED vars \/ \E u \in Urls : Withdraw(u)
  <2>1. /\ visited' = visited /\ at' = at /\ item' = item /\ offered' \subseteq offered
    BY <1>2 DEF Seeded, CloseOut, Cancel, Withdraw, vars, flow, books, local
  <2>2. QED
    BY <2>1 DEF Shape
<1>3. ASSUME NEW w \in Workers, Leave(w) PROVE Shape'
  <2>1. /\ at[w] = "idle" /\ at' = [at EXCEPT ![w] = "exit"] /\ visited' = visited
        /\ offered' = offered /\ item' = item
    BY <1>3 DEF Leave, Goto, flow, books
  <2>2. \A g \in Routines : at'[g] = IF g = w THEN "exit" ELSE at[g]
    BY <2>1 DEF TypeOK
  <2>3. QED
    BY <2>1, <2>2, Sites DEF Shape, AtRest
<1>4. ASSUME NEW w \in Workers, NEW u \in Urls, Receive(w, u) PROVE Shape'
  <2>1. /\ at[w] = "idle" /\ u \in offered /\ u \in visited \ SpecPath /\ u # None
        /\ at' = [at EXCEPT ![w] = "fetch"] /\ item' = [item EXCEPT ![w] = u]
        /\ offered' = offered \ {u} /\ visited' = visited
    BY <1>4, CrawlerAssumption DEF Receive, Goto, books, TypeOK
  <2>2. \A g \in Routines : /\ at'[g] = IF g = w THEN "fetch" ELSE at[g]
                            /\ item'[g] = IF g = w THEN u ELSE item[g]
    BY <2>1 DEF TypeOK
  <2>3. QED
    BY <2>1, <2>2, Sites DEF Shape, AtRest
<1>5. ASSUME NEW g \in Routines, Turns(g) PROVE Shape'
  <2>1. CASE at' = at
    BY <1>5, <2>1 DEF Turns, Shape
  <2>2. CASE at' # at
    <3>1. PICK s \in {"wait", "blocked", "take", "send", "follow", "release", "finish"} :
             /\ at' = [at EXCEPT ![g] = s]
             /\ at[g] \notin {"idle", "exit", "release", "finish"}
             /\ g \in SpecPath => s \notin {"finish", "wait", "blocked"}
             /\ g \notin SpecPath => s # "release"
      BY <1>5, <2>2 DEF Turns
    <3>2. \A h \in Routines : at'[h] = IF h = g THEN s ELSE at[h]
      BY <3>1 DEF TypeOK
    <3>3. item' = item /\ visited' = visited /\ offered' = offered
      BY <1>5 DEF Turns
    <3>4. QED
      BY <3>1, <3>2, <3>3, Sites DEF Shape, AtRest
  <2>3. QED
    BY <2>1, <2>2
<1>6. ASSUME NEW g \in Routines, ReleaseSpec(g) PROVE Shape'
  <2>1. /\ at[g] = "release" /\ item' = item /\ visited' = visited /\ offered' = offered
    BY <1>6 DEF ReleaseSpec, flow
  <2>2. \A h \in Routines : at'[h] = IF h = g THEN "finish"
                                     ELSE IF specCount = 1 /\ at[h] = "blocked" THEN "woken"
                                     ELSE at[h]
    BY <1>6 DEF ReleaseSpec
  <2>3. QED
    BY <2>1, <2>2, Sites DEF Shape, AtRest
<1>7. ASSUME NEW g \in Routines, Finish(g) PROVE Shape'
  <2>1. /\ at[g] = "finish" /\ visited' = visited /\ offered' = offered
        /\ at' = [at EXCEPT ![g] = IF g \in SpecPath THEN "exit" ELSE "idle"]
        /\ item' = [item EXCEPT ![g] = None]
    BY <1>7 DEF Finish, Goto
  <2>2. \A h \in Routines : /\ at'[h] = IF h = g THEN IF g \in SpecPath THEN "exit" ELSE "idle"
                                        ELSE at[h]
                            /\ item'[h] = IF h = g THEN None ELSE item[h]
    BY <2>1 DEF TypeOK
  <2>3. None \notin offered /\ None \notin SpecPath
    BY CrawlerAssumption DEF TypeOK
  <2>4. QED
    BY <2>1, <2>2, <2>3, Sites DEF Shape, AtRest
<1>8. QED
  BY <1>1, <1>2, <1>3, <1>4, <1>5, <1>6, <1>7, NextKinds, ProceedsTurns,
     SeedSubmits, FollowSubmits, OperationSubmits


\* What a submission does to the goroutines and to the books.
LEMMA SubmitsPlaces ==
  ASSUME TypeOK, Shape, NEW u, NEW d, Submits(u, d)
  PROVE  /\ \A g \in Routines :
              \/ at'[g] = at[g] /\ item'[g] = item[g]
              \/ /\ g = u /\ u \in SpecPath \ visited
                 /\ at[g] = "idle" /\ at'[g] = "fetch" /\ item'[g] = u
         /\ visited \subseteq visited' /\ visited' \subseteq visited \cup {u}
         /\ offered \subseteq offered' /\ offered' \subseteq offered \cup ({u} \ visited)
         /\ \A v \in visited : depthOf'[v] = depthOf[v]
         /\ queued' >= queued
<1>1. CASE Refuses(u, d)
  BY <1>1 DEF Refuses, TypeOK
<1>2. CASE Marks(u, d) /\ (LeavesAtThat(u) \/ LaunchesDocument(u) \/ LaunchesItem(u))
  <2>1. /\ u \notin visited /\ visited' = visited \cup {u}
        /\ \A v \in visited : depthOf'[v] = depthOf[v]
    BY <1>2 DEF Marks
  <2>2. queued' >= queued
    BY <1>2 DEF Marks, Count, TypeOK
  <2>3. offered \subseteq offered' /\ offered' \subseteq offered \cup {u}
    BY <1>2 DEF LeavesAtThat, LaunchesDocument, LaunchesItem
  <2>4. \A g \in Routines :
          \/ at'[g] = at[g] /\ item'[g] = item[g]
          \/ /\ g = u /\ u \in SpecPath \ visited
             /\ at[g] = "idle" /\ at'[g] = "fetch" /\ item'[g] = u
    <3>1. CASE LaunchesDocument(u)
      <4>1. /\ u \in SpecPath /\ u \in Routines /\ at[u] = "idle"
            /\ at' = [at EXCEPT ![u] = "fetch"] /\ item' = [item EXCEPT ![u] = u]
        BY <2>1, <3>1, Sites DEF LaunchesDocument, Shape
      <4>2. QED
        BY <2>1, <4>1 DEF TypeOK
    <3>2. CASE LeavesAtThat(u) \/ LaunchesItem(u)
      BY <3>2 DEF LeavesAtThat, LaunchesItem
    <3>3. QED
      BY <1>2, <3>1, <3>2
  <2>5. QED
    BY <2>1, <2>2, <2>3, <2>4
<1>3. QED
  BY <1>1, <1>2, SubmitKinds DEF Submits

LEMMA NextRecording ==
  ASSUME TypeOK, Shape, Recording, [Next]_vars
  PROVE  Recording'
<1>1. CASE Seed
  <2>1. recorded' = recorded /\ todo' = todo
    BY <1>1 DEF Seed
  <2>2. QED
    BY <1>1, <2>1, SeedSubmits, SubmitsPlaces DEF Recording
<1>2. ASSUME NEW g \in Routines, NEW v \in Urls, Follow(g, v) PROVE Recording'
  <2>1. /\ recorded' = recorded /\ todo' = [todo EXCEPT ![g] = @ \ {v}]
        /\ v \in Links[item[g]] \cup Redirects[item[g]] /\ item[g] \in Urls
    BY <1>2, Sites DEF Follow, Shape, AtRest, TypeOK
  <2>2. recorded[g] = None
    BY <2>1, CrawlerAssumption DEF Recording
  <2>3. \A h \in Routines : h # g => todo'[h] = todo[h]
    BY <2>1 DEF TypeOK
  <2>4. QED
    BY <1>2, <2>1, <2>2, <2>3, FollowSubmits, SubmitsPlaces DEF Recording
<1>3. ASSUME NEW g \in Routines, SubmitOperation(g) PROVE Recording'
  <2>1. \A h \in Routines : /\ recorded'[h] = IF h = g THEN None ELSE recorded[h]
                            /\ h # g => todo'[h] = todo[h]
    BY <1>3 DEF SubmitOperation, TypeOK
  <2>2. QED
    BY <1>3, <2>1, OperationSubmits, SubmitsPlaces DEF Recording
<1>4. CASE Seeded \/ CloseOut \/ Cancel \/ UNCHANGED vars \/ \E u \in Urls : Withdraw(u)
  <2>1. /\ recorded' = recorded /\ at' = at /\ item' = item /\ todo' = todo
    BY <1>4 DEF Seeded, CloseOut, Cancel, Withdraw, vars, flow, books, local
  <2>2. QED
    BY <2>1 DEF Recording
<1>5. ASSUME NEW w \in Workers, Leave(w) \/ \E u \in Urls : Receive(w, u) PROVE Recording'
  <2>1. \A h \in Routines : h # w => at'[h] = at[h] /\ item'[h] = item[h]
    BY <1>5 DEF Leave, Receive, Goto, TypeOK
  <2>2. recorded' = recorded /\ todo' = todo /\ at[w] = "idle"
    BY <1>5 DEF Leave, Receive
  <2>3. QED
    BY <2>1, <2>2 DEF Recording
<1>6. ASSUME NEW g \in Routines, Proceeds(g) PROVE Recording'
  <2>1. \A h \in Routines : h # g => at'[h] = at[h] /\ item'[h] = item[h]
    BY <1>6, ProceedsTurns DEF Turns, TypeOK
  <2>2. item' = item
    BY <1>6, ProceedsTurns DEF Turns
  <2>3. CASE \E v \in Urls : RecordSpecOps(g, v)
    <3>1. PICK v \in Urls : RecordSpecOps(g, v)
      BY <2>3
    <3>2. /\ at' = at /\ todo' = todo /\ at[g] = "follow"
          /\ v \in todo[g] \cap Documents[item[g]] /\ recorded' = [recorded EXCEPT ![g] = v]
      BY <3>1 DEF RecordSpecOps
    <3>3. \A h \in Routines : recorded'[h] = IF h = g THEN v ELSE recorded[h]
      BY <3>2 DEF TypeOK
    <3>4. QED
      BY <2>2, <3>2, <3>3 DEF Recording
  <2>4. CASE \E v \in Urls : NoRedirect(g, v)
    <3>1. PICK v \in Urls : NoRedirect(g, v)
      BY <2>4
    <3>2. /\ at' = at /\ recorded' = recorded /\ todo' = [todo EXCEPT ![g] = @ \ {v}]
          /\ v \in Redirects[item[g]] /\ item[g] \in Urls
      BY <3>1, Sites DEF NoRedirect, Shape, AtRest, TypeOK
    <3>3. recorded[g] = None
      BY <3>2, CrawlerAssumption DEF Recording
    <3>4. \A h \in Routines : h # g => todo'[h] = todo[h]
      BY <3>2 DEF TypeOK
    <3>5. QED
      BY <2>2, <3>2, <3>3, <3>4 DEF Recording
  <2>5. CASE ~\E v \in Urls : NoRedirect(g, v) \/ RecordSpecOps(g, v)
    <3>1. recorded' = recorded /\ \A h \in Routines : h # g => todo'[h] = todo[h]
      BY <1>6, <2>5 DEF Proceeds, Skip, Fetch, Wait, WaitReturns, TakeSpecOps, Send,
                        AbandonSend, Followed, TypeOK
    <3>2. recorded[g] = None
      BY <1>6, <2>5 DEF Proceeds, Skip, Fetch, Wait, WaitReturns, TakeSpecOps, Send,
                        AbandonSend, Followed, Recording
    <3>3. QED
      BY <2>1, <3>1, <3>2 DEF Recording
  <2>6. QED
    BY <2>3, <2>4, <2>5
<1>7. ASSUME NEW g \in Routines, ReleaseSpec(g) \/ Finish(g) PROVE Recording'
  <2>1. recorded' = recorded /\ todo' = todo /\ at[g] # "follow"
    BY <1>7 DEF ReleaseSpec, Finish
  <2>2. \A h \in Routines : h # g /\ at[h] = "follow" => at'[h] = at[h] /\ item'[h] = item[h]
    BY <1>7 DEF ReleaseSpec, Finish, Goto, TypeOK
  <2>3. QED
    BY <2>1, <2>2 DEF Recording
<1>8. QED
  BY <1>1, <1>2, <1>3, <1>4, <1>5, <1>6, <1>7, NextKinds


-----------------------------------------------------------------------------
(* One page per URL, and no more URLs than the cap.                         *)

\* A page is sent by the goroutine that holds its URL.
LEMMA PagesMove ==
  ASSUME [Next]_vars
  PROVE  \/ pages' = pages
         \/ \E g \in Routines : /\ Send(g) /\ at[g] = "send"
                               /\ pages' = [pages EXCEPT ![item[g]] = @ + 1]
<1>1. \A g \in Routines :
        Send(g) => at[g] = "send" /\ pages' = [pages EXCEPT ![item[g]] = @ + 1]
  BY DEF Send
<1>2. pages' = pages \/ \E g \in Routines : Send(g)
  BY NextKinds
     DEF Seed, Seeded, CloseOut, Cancel, Withdraw, Leave, Receive, Proceeds, Skip, Fetch,
         Wait, WaitReturns, TakeSpecOps, AbandonSend, NoRedirect, RecordSpecOps, Followed,
         Follow, SubmitOperation, ReleaseSpec, Finish, vars, emission
<1>3. QED
  BY <1>1, <1>2

LEMMA SubmitsLaunched ==
  ASSUME TypeOK, Shape, Once, NEW u, NEW d, Submits(u, d)
  PROVE  \/ Launched' = Launched /\ (visited' = visited \/ OverCap(queued'))
         \/ /\ Launched' = Launched \cup {u} /\ u \notin Launched
            /\ visited' = visited \cup {u}
            /\ ~OverCap(queued') /\ Count(u)
<1>1. pages' = pages /\ u \in Urls
  BY DEF Submits
<1>2. CASE Refuses(u, d)
  BY <1>1, <1>2 DEF Refuses, Launched
<1>3. ASSUME Marks(u, d)
      PROVE  /\ u \notin visited /\ visited' = visited \cup {u} /\ Count(u)
             /\ pages[u] = 0 /\ u \notin offered /\ \A g \in Routines : item[g] # u
  BY <1>1, <1>3, CrawlerAssumption DEF Marks, Once, Shape, TypeOK
<1>4. CASE Marks(u, d) /\ LeavesAtThat(u)
  <2>1. offered' = offered /\ item' = item /\ OverCap(queued')
    BY <1>4 DEF LeavesAtThat
  <2>2. Launched' = Launched
    BY <1>1, <1>3, <1>4, <2>1 DEF Launched
  <2>3. QED
    BY <2>1, <2>2
<1>5. CASE Marks(u, d) /\ (LaunchesDocument(u) \/ LaunchesItem(u))
  <2>1. ~OverCap(queued')
    BY <1>5 DEF LaunchesDocument, LaunchesItem
  <2>2. u \notin Launched
    BY <1>3, <1>5 DEF Launched
  <2>3. Launched' = Launched \cup {u}
    <3>1. CASE LaunchesDocument(u)
      <4>1. /\ u \in Routines /\ item' = [item EXCEPT ![u] = u] /\ offered' = offered
            /\ item[u] = None
        BY <1>5, <1>3, <3>1, Sites DEF LaunchesDocument, Shape
      <4>2. /\ item'[u] = u /\ \A g \in Routines : g # u => item'[g] = item[g]
        BY <4>1 DEF TypeOK
      <4>3. \A v \in visited : (\E g \in Routines : item'[g] = v)
                                 <=> (\E g \in Routines : item[g] = v)
        BY <1>3, <1>5, <4>1, <4>2, CrawlerAssumption DEF TypeOK
      <4>4. QED
        BY <1>1, <1>3, <1>5, <4>1, <4>2, <4>3 DEF Launched
    <3>2. CASE LaunchesItem(u)
      BY <1>1, <1>3, <1>5, <3>2 DEF LaunchesItem, Launched
    <3>3. QED
      BY <1>5, <3>1, <3>2
  <2>4. QED
    BY <1>3, <1>5, <2>1, <2>2, <2>3
<1>6. QED
  BY <1>2, <1>4, <1>5, SubmitKinds DEF Submits

\* No other step adds to them.
LEMMA LaunchedShrinks ==
  ASSUME TypeOK, Shape, [Next]_vars
  PROVE  \/ \E u, d : Submits(u, d)
         \/ Launched' \subseteq Launched /\ visited' = visited /\ queued' = queued
<1>1. CASE Seeded \/ CloseOut \/ Cancel \/ UNCHANGED vars \/ \E u \in Urls : Withdraw(u)
  <2>1. /\ visited' = visited /\ queued' = queued /\ pages' = pages
        /\ item' = item /\ offered' \subseteq offered
    BY <1>1 DEF Seeded, CloseOut, Cancel, Withdraw, vars, flow, books, local, emission
  <2>2. QED
    BY <2>1 DEF Launched
<1>2. ASSUME NEW w \in Workers, Leave(w) \/ \E u \in Urls : Receive(w, u)
      PROVE  Launched' \subseteq Launched /\ visited' = visited /\ queued' = queued
  <2>1. visited' = visited /\ queued' = queued /\ pages' = pages /\ offered' \subseteq offered
    BY <1>2 DEF Leave, Receive, flow, books, emission
  <2>2. \A h \in Routines : item'[h] = item[h] \/ item'[h] \in offered
    BY <1>2 DEF Leave, Receive, TypeOK
  <2>3. QED
    BY <2>1, <2>2 DEF Launched
<1>3. ASSUME NEW g \in Routines, Proceeds(g)
      PROVE  Launched' \subseteq Launched /\ visited' = visited /\ queued' = queued
  <2>1. visited' = visited /\ queued' = queued /\ offered' = offered /\ item' = item
    BY <1>3, ProceedsTurns DEF Turns
  <2>2. \A u \in visited : pages'[u] > 0 => pages[u] > 0 \/ u = item[g]
    <3>1. CASE Send(g)
      BY <3>1 DEF Send, TypeOK
    <3>2. CASE ~Send(g)
      BY <1>3, <3>2 DEF Proceeds, Skip, Fetch, Wait, WaitReturns, TakeSpecOps,
                        AbandonSend, NoRedirect, RecordSpecOps, Followed, emission
    <3>3. QED
      BY <3>1, <3>2
  <2>3. QED
    BY <2>1, <2>2 DEF Launched
<1>4. ASSUME NEW g \in Routines, ReleaseSpec(g) \/ Finish(g)
      PROVE  Launched' \subseteq Launched /\ visited' = visited /\ queued' = queued
  <2>1. visited' = visited /\ queued' = queued /\ pages' = pages /\ offered' = offered
    BY <1>4 DEF ReleaseSpec, Finish, flow, emission
  <2>2. \A h \in Routines : item'[h] = item[h] \/ item'[h] = None
    BY <1>4 DEF ReleaseSpec, Finish, TypeOK
  <2>3. None \notin visited
    BY CrawlerAssumption DEF TypeOK
  <2>4. QED
    BY <2>1, <2>2, <2>3 DEF Launched
<1>5. QED
  BY <1>1, <1>2, <1>3, <1>4, NextKinds, SeedSubmits, FollowSubmits, OperationSubmits

\* A goroutine before its page got its item with this step, or was there before.
LEMMA BeforeItsPage ==
  ASSUME TypeOK, Shape, [Next]_vars, NEW g \in Routines, at'[g] \in BeforeSend
  PROVE  \/ /\ at[g] \in BeforeSend /\ item'[g] = item[g] /\ ~Send(g)
            /\ at'[g] \in BeforeTake => at[g] \in BeforeTake
         \/ /\ at[g] = "idle" /\ at'[g] = "fetch"
            /\ item'[g] \in (Urls \ visited) \cup offered
<1> USE DEF BeforeSend, BeforeTake
<1>1. ASSUME NEW u, NEW d, Submits(u, d)
      PROVE  \/ /\ at[g] \in BeforeSend /\ item'[g] = item[g] /\ pages' = pages
                /\ at'[g] \in BeforeTake => at[g] \in BeforeTake
             \/ /\ at[g] = "idle" /\ at'[g] = "fetch"
                /\ item'[g] \in (Urls \ visited) \cup offered
  BY <1>1, SubmitsPlaces DEF Submits
<1>2. ASSUME Seeded \/ CloseOut \/ Cancel \/ UNCHANGED vars \/ \E u \in Urls : Withdraw(u)
      PROVE  /\ at[g] \in BeforeSend /\ item'[g] = item[g] /\ pages' = pages
             /\ at'[g] \in BeforeTake => at[g] \in BeforeTake
  BY <1>2 DEF Seeded, CloseOut, Cancel, Withdraw, vars, local, emission
<1>3. ASSUME NEW w \in Workers, Leave(w) \/ \E u \in Urls : Receive(w, u)
      PROVE  \/ /\ at[g] \in BeforeSend /\ item'[g] = item[g] /\ pages' = pages
                /\ at'[g] \in BeforeTake => at[g] \in BeforeTake
             \/ /\ at[g] = "idle" /\ at'[g] = "fetch"
                /\ item'[g] \in (Urls \ visited) \cup offered
  BY <1>3, Sites DEF Leave, Receive, Goto, emission, TypeOK
<1>4. ASSUME NEW h \in Routines, Proceeds(h)
      PROVE  /\ at[g] \in BeforeSend /\ item'[g] = item[g] /\ ~Send(g)
             /\ at'[g] \in BeforeTake => at[g] \in BeforeTake
  BY ZenonT(60), <1>4, ProceedsTurns DEF Turns, TypeOK, Send, Ending, Goto
<1>5. ASSUME NEW h \in Routines, ReleaseSpec(h) \/ Finish(h)
      PROVE  /\ at[g] \in BeforeSend /\ item'[g] = item[g] /\ pages' = pages
             /\ at'[g] \in BeforeTake => at[g] \in BeforeTake
  BY <1>5 DEF ReleaseSpec, Finish, Goto, TypeOK, emission
<1>6. pages' = pages => ~Send(g)
  BY SMTT(30), Sites DEF Send, Shape, TypeOK, AtRest
<1>7. QED
  BY <1>1, <1>2, <1>3, <1>4, <1>5, <1>6, NextKinds,
     SeedSubmits, FollowSubmits, OperationSubmits

LEMMA NextOnce ==
  ASSUME TypeOK, Shape, Once, [Next]_vars
  PROVE  Once'
<1>1. \A u \in Urls : pages'[u] <= 1
  <2>1. ASSUME NEW g \in Routines, at[g] = "send" PROVE pages[item[g]] = 0
    BY <2>1 DEF Once, BeforeSend
  <2>2. ASSUME NEW g \in Routines, at[g] = "send", NEW u \in Urls,
               pages' = [pages EXCEPT ![item[g]] = @ + 1]
        PROVE  pages'[u] <= 1
    <3>1. pages'[u] = IF u = item[g] THEN pages[u] + 1 ELSE pages[u]
      BY <2>2 DEF TypeOK
    <3>2. QED
      BY <2>1, <2>2, <3>1 DEF Once, TypeOK
  <2>3. QED
    BY <2>2, PagesMove DEF Once
<1>2. visited \subseteq visited' /\ offered' \subseteq offered \cup (visited' \ visited)
  <2>1. ASSUME NEW u, NEW d, Submits(u, d)
        PROVE  visited \subseteq visited' /\ offered' \subseteq offered \cup (visited' \ visited)
    BY <2>1, SubmitsPlaces, SubmitTypes DEF Submits
  <2>2. QED
    BY <2>1, NextKinds, ProceedsTurns, SeedSubmits, FollowSubmits, OperationSubmits
       DEF Seeded, CloseOut, Cancel, Withdraw, Leave, Receive, Turns, ReleaseSpec, Finish,
           flow, books, vars
<1>3. \A u \in Urls : pages'[u] > 0 => u \in visited' \ offered'
  <2>1. CASE pages' = pages
    BY <1>2, <2>1 DEF Once
  <2>2. ASSUME NEW g \in Routines, Send(g)
        PROVE  \A u \in Urls : pages'[u] > 0 => u \in visited' \ offered'
    <3>1. item[g] \in visited \ offered
      BY <2>2 DEF Send, Shape, AtRest
    <3>2. \A u \in Urls : pages'[u] > 0 => pages[u] > 0 \/ u = item[g]
      BY <2>2 DEF Send, TypeOK
    <3>3. QED
      BY <1>2, <3>1, <3>2 DEF Once
  <2>3. QED
    BY <2>1, <2>2, PagesMove
<1>4. ASSUME NEW g \in Routines, at'[g] \in BeforeSend PROVE pages'[item'[g]] = 0
  <2>1. CASE at[g] = "idle" /\ item'[g] \in (Urls \ visited) \cup offered
    <3>1. item'[g] \in Urls /\ pages[item'[g]] = 0
      BY <2>1, CrawlerAssumption DEF Once, TypeOK
    <3>2. \A h \in Routines : Send(h) => item[h] # item'[g]
      BY <2>1 DEF Send, Shape, AtRest
    <3>3. QED
      BY <3>1, <3>2, PagesMove DEF TypeOK
  <2>2. CASE at[g] \in BeforeSend /\ item'[g] = item[g] /\ ~Send(g)
    <3>1. pages[item[g]] = 0 /\ item[g] # None
      BY <2>2 DEF Once, Shape, AtRest, BeforeSend, BeforeTake
    <3>2. \A h \in Routines : Send(h) => item[h] # item[g]
      BY <2>2, <3>1 DEF Shape
    <3>3. item[g] \in Urls
      BY <3>1 DEF TypeOK
    <3>4. QED
      BY <2>2, <3>1, <3>2, <3>3, PagesMove DEF TypeOK
  <2>3. QED
    BY <1>4, <2>1, <2>2, BeforeItsPage
<1>5. MaxPages > 0 => Cardinality(Launched') <= MaxPages /\ Cardinality(Launched') <= queued'
  <2>1. Launched \in SUBSET (Urls \cup Routines) /\ Cardinality(Launched) \in Nat
    BY CountedSets, SmallSets
  <2>2. ASSUME NEW u, NEW d, Submits(u, d)
        PROVE  MaxPages > 0 => /\ Cardinality(Launched') <= MaxPages
                               /\ Cardinality(Launched') <= queued'
    <3>1. CASE Launched' = Launched
      <4>1. queued' >= queued /\ queued' \in Nat
        BY <2>2, SubmitsPlaces, SubmitTypes DEF Submits
      <4>2. QED
        BY <2>1, <3>1, <4>1, CrawlerAssumption DEF Once, TypeOK
    <3>2. CASE /\ Launched' = Launched \cup {u} /\ u \notin Launched
               /\ ~OverCap(queued') /\ Count(u)
      <4>1. Cardinality(Launched') = Cardinality(Launched) + 1
        BY <2>1, <2>2, <3>2, SmallSets DEF Submits
      <4>2. QED
        BY <2>1, <3>2, <4>1, CrawlerAssumption DEF Once, TypeOK, OverCap, Count
    <3>3. QED
      BY <2>2, <3>1, <3>2, SubmitsLaunched
  <2>3. CASE Launched' \subseteq Launched /\ queued' = queued
    <3>1. Cardinality(Launched') <= Cardinality(Launched) /\ Cardinality(Launched') \in Nat
      BY <2>1, <2>3, SmallSets
    <3>2. QED
      BY <2>1, <2>3, <3>1, CrawlerAssumption DEF Once, TypeOK
  <2>4. QED
    BY <2>2, <2>3, LaunchedShrinks
<1>6. QED
  BY <1>1, <1>3, <1>4, <1>5 DEF Once


-----------------------------------------------------------------------------
(* The operations a page waits for.                                         *)

\* The goroutine of an API document runs once.
LEMMA DocumentsMove ==
  ASSUME TypeOK, Shape, [Next]_vars, NEW s \in SpecPath
  PROVE  /\ at[s] # "idle" => at'[s] # "idle"
         /\ at[s] \in {"finish", "exit"} => at'[s] \in {"finish", "exit"}
<1> USE Sites
<1>1. ASSUME NEW u, NEW d, Submits(u, d)
      PROVE  /\ at[s] # "idle" => at'[s] # "idle"
             /\ at[s] \in {"finish", "exit"} => at'[s] \in {"finish", "exit"}
  BY <1>1, SubmitsPlaces
<1>2. CASE Seeded \/ CloseOut \/ Cancel \/ UNCHANGED vars \/ \E u \in Urls : Withdraw(u)
  BY <1>2 DEF Seeded, CloseOut, Cancel, Withdraw, vars, local
<1>3. CASE \E w \in Workers : Leave(w) \/ \E u \in Urls : Receive(w, u)
  BY <1>3 DEF Leave, Receive, Goto, TypeOK
<1>4. CASE \E g \in Routines : Proceeds(g)
  BY <1>4, ProceedsTurns DEF Turns, TypeOK
<1>5. CASE \E g \in Routines : ReleaseSpec(g) \/ Finish(g)
  BY <1>5 DEF ReleaseSpec, Finish, Goto, TypeOK
<1>6. QED
  BY <1>1, <1>2, <1>3, <1>4, <1>5, NextKinds, SeedSubmits, FollowSubmits, OperationSubmits

\* A page comes to be taken with what it waited for, and only when nothing is
\* in flight.
Keeps(g) ==
  /\ covers'[g] = covers[g]
  /\ at'[g] \in {"idle", "fetch"} => at[g] \in {"idle", "fetch"}
  /\ at'[g] \in {"take", "send"} =>
       at[g] \in {"take", "send"} \/ g \in SpecPath \/ specCount = 0

Begins(g) ==
  /\ at[g] = "wait" /\ covers'[g] = InFlight /\ at'[g] \in {"take", "blocked"}
  /\ at'[g] = "take" => specCount = 0

LEMMA CoversMove ==
  ASSUME TypeOK, Shape, [Next]_vars, NEW g \in Routines
  PROVE  Keeps(g) \/ Begins(g) \/ covers'[g] = {}
<1> USE Sites
<1>1. ASSUME NEW u, NEW d, Submits(u, d) PROVE Keeps(g)
  BY <1>1, SubmitsPlaces DEF Submits, Keeps
<1>2. CASE Seeded \/ CloseOut \/ Cancel \/ UNCHANGED vars \/ \E u \in Urls : Withdraw(u)
  BY <1>2 DEF Seeded, CloseOut, Cancel, Withdraw, vars, local, Keeps
<1>3. CASE \E w \in Workers : Leave(w) \/ \E u \in Urls : Receive(w, u)
  BY <1>3 DEF Leave, Receive, Goto, TypeOK, Keeps
<1>4. ASSUME NEW h \in Routines, Proceeds(h) PROVE Keeps(g) \/ Begins(g)
  <2>1. CASE h # g
    <3>1. at'[g] = at[g]
      BY <1>4, <2>1, ProceedsTurns DEF Turns, TypeOK
    <3>2. covers'[g] = covers[g]
      BY <1>4, <2>1 DEF Proceeds, Skip, Fetch, Wait, WaitReturns, TakeSpecOps, Send,
                        AbandonSend, NoRedirect, RecordSpecOps, Followed, TypeOK
    <3>3. QED
      BY <3>1, <3>2 DEF Keeps
  <2>2. CASE h = g /\ Wait(g)
    BY <2>2 DEF Wait, Goto, TypeOK, Begins
  <2>3. CASE h = g /\ ~Wait(g)
    <3>1. covers' = covers
      BY <1>4, <2>3 DEF Proceeds, Skip, Fetch, WaitReturns, TakeSpecOps, Send,
                        AbandonSend, NoRedirect, RecordSpecOps, Followed
    <3>2. at'[g] \in {"idle", "fetch"} => at[g] \in {"idle", "fetch"}
      BY <1>4, ProceedsTurns, <2>3 DEF Turns, TypeOK
    <3>3. at'[g] \in {"take", "send"} => at[g] = "take" \/ g \in SpecPath \/ specCount = 0
      BY <1>4, <2>3 DEF Proceeds, Skip, Fetch, WaitReturns, TakeSpecOps, Send, Ending,
                        AbandonSend, NoRedirect, RecordSpecOps, Followed, Goto, TypeOK
    <3>4. QED
      BY <3>1, <3>2, <3>3 DEF Keeps
  <2>4. QED
    BY <2>1, <2>2, <2>3
<1>5. CASE \E h \in Routines : ReleaseSpec(h)
  BY <1>5 DEF ReleaseSpec, Keeps
<1>6. CASE \E h \in Routines : Finish(h)
  BY <1>6 DEF Finish, Goto, TypeOK, Keeps
<1>7. QED
  BY <1>1, <1>2, <1>3, <1>4, <1>5, <1>6, NextKinds, SeedSubmits, FollowSubmits, OperationSubmits

\* Operations are recorded by a goroutine that follows its document, and taken
\* by the one that holds the page.
LEMMA OpsMove ==
  ASSUME TypeOK, Shape, [Next]_vars
  PROVE  \/ /\ specOps' = specOps /\ declared' = declared
            /\ \A g \in Routines : ops'[g] = ops[g] \/ at[g] = "finish"
         \/ \E g \in Routines, v \in Urls :
              /\ at[g] = "follow" /\ at' = at /\ ops' = ops /\ item[g] \in Urls
              /\ specOps' = [specOps EXCEPT ![v] = @ \cup {item[g]}]
              /\ declared' = [declared EXCEPT ![v] = @ \cup {item[g]}]
         \/ \E g \in Routines :
              /\ at[g] = "take" /\ at' = [at EXCEPT ![g] = "send"] /\ item[g] \in Urls
              /\ ops' = [ops EXCEPT ![g] = specOps[item[g]]]
              /\ specOps' = [specOps EXCEPT ![item[g]] = {}]
              /\ declared' = declared
<1>1. \A g \in Routines : at[g] \in {"take", "follow"} => item[g] \in Urls
  BY DEF Shape, AtRest, TypeOK
<1>2. \A g \in Routines, v \in Urls :
        RecordSpecOps(g, v) =>
          /\ at[g] = "follow" /\ at' = at /\ ops' = ops /\ item[g] \in Urls
          /\ specOps' = [specOps EXCEPT ![v] = @ \cup {item[g]}]
          /\ declared' = [declared EXCEPT ![v] = @ \cup {item[g]}]
  BY <1>1 DEF RecordSpecOps
<1>3. \A g \in Routines :
        TakeSpecOps(g) =>
          /\ at[g] = "take" /\ at' = [at EXCEPT ![g] = "send"] /\ item[g] \in Urls
          /\ ops' = [ops EXCEPT ![g] = specOps[item[g]]]
          /\ specOps' = [specOps EXCEPT ![item[g]] = {}]
          /\ declared' = declared
  BY <1>1 DEF TakeSpecOps, Goto
<1>4. ASSUME /\ \A g \in Routines : ~TakeSpecOps(g)
             /\ \A g \in Routines, v \in Urls : ~RecordSpecOps(g, v)
      PROVE  specOps' = specOps /\ declared' = declared
  BY <1>4, NextKinds
     DEF Seed, Seeded, CloseOut, Cancel, Withdraw, Leave, Receive, Proceeds, Skip, Fetch,
         Wait, WaitReturns, Send, AbandonSend, NoRedirect, Followed,
         Follow, SubmitOperation, ReleaseSpec, Finish, vars, spec
<1>5. ASSUME /\ \A g \in Routines : ~TakeSpecOps(g)
             /\ \A g \in Routines, v \in Urls : ~RecordSpecOps(g, v)
      PROVE  ops' = ops \/ \E g \in Routines : at[g] = "finish" /\ ops' = [ops EXCEPT ![g] = {}]
  BY <1>5, NextKinds
     DEF Seed, Seeded, CloseOut, Cancel, Withdraw, Leave, Receive, Proceeds, Skip, Fetch,
         Wait, WaitReturns, Send, AbandonSend, NoRedirect, Followed,
         Follow, SubmitOperation, ReleaseSpec, Finish, vars, local
<1>6. ASSUME /\ \A g \in Routines : ~TakeSpecOps(g)
             /\ \A g \in Routines, v \in Urls : ~RecordSpecOps(g, v)
      PROVE  \A g \in Routines : ops'[g] = ops[g] \/ at[g] = "finish"
  BY <1>6, <1>5 DEF TypeOK
<1>7. QED
  BY <1>2, <1>3, <1>4, <1>6

LEMMA PageIsTaken ==
  ASSUME TypeOK, Shape, [Next]_vars, NEW g \in Routines, at'[g] = "send", at[g] # "send"
  PROVE  /\ at[g] = "take" /\ item' = item /\ ops'[g] = specOps[item[g]]
         /\ declared' = declared
<1> USE Sites
<1>1. ASSUME NEW u, NEW d, Submits(u, d) PROVE FALSE
  BY <1>1, SubmitsPlaces
<1>2. ~(Seeded \/ CloseOut \/ Cancel \/ UNCHANGED vars \/ \E u \in Urls : Withdraw(u))
  BY DEF Seeded, CloseOut, Cancel, Withdraw, vars, local
<1>3. ~\E w \in Workers : Leave(w) \/ \E u \in Urls : Receive(w, u)
  BY DEF Leave, Receive, Goto, TypeOK
<1>4. ~\E h \in Routines : ReleaseSpec(h) \/ Finish(h)
  BY DEF ReleaseSpec, Finish, Goto, TypeOK
<1>5. PICK h \in Routines : Proceeds(h)
  BY <1>1, <1>2, <1>3, <1>4, NextKinds, SeedSubmits, FollowSubmits, OperationSubmits
<1>6. h = g
  BY SMTT(30), <1>5, ProceedsTurns DEF Turns, TypeOK
<1>7. TakeSpecOps(g)
  BY <1>5, <1>6 DEF Proceeds, Skip, Fetch, Wait, WaitReturns, Send, AbandonSend, NoRedirect,
                    RecordSpecOps, Followed, Goto, Ending, TypeOK
<1>8. QED
  BY <1>7 DEF TakeSpecOps, spec, TypeOK

LEMMA NextCovered ==
  ASSUME TypeOK, fetched \subseteq visited, Shape, Counting, Covered, [Next]_vars
  PROVE  Covered'
<1>0. visited \subseteq visited' /\ offered' \subseteq offered \cup (visited' \ visited)
  <2>1. ASSUME NEW u, NEW d, Submits(u, d)
        PROVE  visited \subseteq visited' /\ offered' \subseteq offered \cup (visited' \ visited)
    BY <2>1, SubmitsPlaces, SubmitTypes DEF Submits
  <2>2. QED
    BY <2>1, NextKinds, ProceedsTurns, SeedSubmits, FollowSubmits, OperationSubmits
       DEF Seeded, CloseOut, Cancel, Withdraw, Leave, Receive, Turns, ReleaseSpec, Finish,
           flow, books, vars
<1>1. \A u \in Urls :
        \/ specOps[u] = declared[u] => specOps'[u] = declared'[u]
        \/ \E g \in Routines : at[g] = "take" /\ item[g] = u /\ at' = [at EXCEPT ![g] = "send"]
  <2>1. ASSUME NEW g \in Routines, NEW v \in Urls, item[g] \in Urls,
               specOps' = [specOps EXCEPT ![v] = @ \cup {item[g]}],
               declared' = [declared EXCEPT ![v] = @ \cup {item[g]}]
        PROVE  \A u \in Urls : specOps[u] = declared[u] => specOps'[u] = declared'[u]
    BY <2>1 DEF TypeOK
  <2>2. ASSUME NEW g \in Routines, at[g] = "take", at' = [at EXCEPT ![g] = "send"],
               specOps' = [specOps EXCEPT ![item[g]] = {}], declared' = declared
        PROVE  \A u \in Urls : item[g] = u \/ (specOps'[u] = specOps[u] /\ declared'[u] = declared[u])
    BY <2>2 DEF TypeOK
  <2>3. QED
    BY <2>1, <2>2, OpsMove
<1>2. ASSUME NEW u \in (Urls \ visited') \cup offered' PROVE specOps'[u] = declared'[u]
  <2>1. u \in Urls /\ u \in (Urls \ visited) \cup offered
    <3>1. visited' \subseteq Urls /\ offered \subseteq Urls
      BY NextTypeOK, CrawlerAssumption DEF TypeOK
    <3>2. QED
      BY <1>0, <1>2, <3>1
  <2>2. \A g \in Routines : item[g] # u
    BY <2>1, CrawlerAssumption DEF Shape, TypeOK
  <2>3. QED
    BY <1>1, <2>1, <2>2 DEF Covered
<1>3. InFlight \subseteq SpecPath /\ (specCount = 0 => InFlight = {})
  BY CountedSets, SmallSets DEF InFlight, Counting
<1>4. ASSUME NEW g \in Routines
      PROVE  /\ at'[g] \in BeforeTake => specOps'[item'[g]] = declared'[item'[g]]
             /\ at'[g] \in {"idle", "fetch"} \/ g \in SpecPath => covers'[g] = {}
             /\ \A s \in covers'[g] : at'[s] # "idle"
             /\ at'[g] \in {"take", "send"} =>
                  \A s \in covers'[g] : at'[s] \in {"finish", "exit"}
             /\ at'[g] = "send" => covers'[g] \cap declared'[item'[g]] \subseteq ops'[g]
  <2>1. at'[g] \in BeforeTake => specOps'[item'[g]] = declared'[item'[g]]
    <3> SUFFICES ASSUME at'[g] \in BeforeTake PROVE specOps'[item'[g]] = declared'[item'[g]]
      OBVIOUS
    <3>1. CASE at[g] = "idle" /\ item'[g] \in (Urls \ visited) \cup offered
      <4>1. item'[g] \in Urls /\ specOps[item'[g]] = declared[item'[g]]
        BY <3>1, CrawlerAssumption DEF Covered, TypeOK
      <4>2. \A h \in Routines : item[h] # item'[g]
        BY <3>1, CrawlerAssumption DEF Shape, TypeOK
      <4>3. QED
        BY <1>1, <4>1, <4>2
    <3>2. CASE at[g] \in BeforeTake /\ item'[g] = item[g]
      <4>1. item[g] # None /\ item[g] \in Urls
        BY <3>2 DEF Shape, AtRest, BeforeSend, BeforeTake, TypeOK
      <4>2. at[g] \in BeforeTake
        BY <3>2
      <4>3. \A h \in Routines : item[h] = item[g] => h = g
        BY <4>1 DEF Shape
      <4>4. at' # [at EXCEPT ![g] = "send"]
        BY DEF BeforeTake, TypeOK
      <4>5. QED
        BY <1>1, <3>2, <4>1, <4>2, <4>3, <4>4 DEF Covered
    <3>3. QED
      BY <3>1, <3>2, BeforeItsPage DEF BeforeSend
  <2>2. at'[g] \in {"idle", "fetch"} \/ g \in SpecPath => covers'[g] = {}
    BY CoversMove DEF Keeps, Begins, Covered, Shape
  <2>7. covers'[g] \subseteq SpecPath /\ \A s \in covers'[g] : at[s] # "idle"
    <3>1. covers[g] \subseteq SpecPath /\ \A s \in covers[g] : at[s] # "idle"
      BY DEF Covered, TypeOK
    <3>2. \A s \in InFlight : s \in SpecPath /\ at[s] # "idle"
      BY DEF InFlight
    <3>3. covers'[g] = covers[g] \/ covers'[g] = InFlight \/ covers'[g] = {}
      BY CoversMove DEF Keeps, Begins
    <3>4. QED
      BY <3>1, <3>2, <3>3
  <2>3. \A s \in covers'[g] : at'[s] # "idle"
    BY <2>7, DocumentsMove
  <2>4. at'[g] \in {"take", "send"} => \A s \in covers'[g] : at'[s] \in {"finish", "exit"}
    <3> SUFFICES ASSUME at'[g] \in {"take", "send"}, NEW s \in covers'[g]
                 PROVE  at'[s] \in {"finish", "exit"}
      OBVIOUS
    <3>1. s \in SpecPath /\ at[s] # "idle"
      BY <2>7
    <3>2. g \notin SpecPath
      BY <2>2
    <3>3. at[s] \in {"finish", "exit"}
      BY <1>3, <3>1, <3>2, CoversMove DEF Keeps, Begins, Covered, InFlight
    <3>4. QED
      BY <3>1, <3>3, DocumentsMove
  <2>5. at'[g] = "send" => covers'[g] \cap declared'[item'[g]] \subseteq ops'[g]
    <3> SUFFICES ASSUME at'[g] = "send"
                 PROVE  covers'[g] \cap declared'[item'[g]] \subseteq ops'[g]
      OBVIOUS
    <3>1. CASE at[g] = "send"
      <4>1. item'[g] = item[g] /\ item[g] \in Urls
        BY <3>1, BeforeItsPage DEF BeforeSend, Shape, AtRest, TypeOK
      <4>2. covers'[g] \subseteq covers[g]
        BY <3>1, CoversMove DEF Keeps, Begins
      <4>3. covers[g] \cap declared[item[g]] \subseteq ops[g]
        BY <3>1 DEF Covered
      <4>4. ops'[g] = ops[g]
        BY <3>1, OpsMove DEF TypeOK
      <4>5. \A h \in Routines : at[h] = "follow" => item[h] \notin covers[g]
        <5>1. \A s \in covers[g] : s \in SpecPath /\ at[s] \in {"finish", "exit"}
          BY <3>1 DEF Covered, TypeOK
        <5>2. ASSUME NEW h \in Routines, at[h] = "follow", item[h] \in SpecPath
              PROVE  item[h] = h
          BY <5>2, Sites DEF Shape, Routines, AtRest
        <5>3. QED
          BY <5>1, <5>2
      <4>6. covers[g] \cap declared'[item[g]] \subseteq declared[item[g]]
        <5>1. ASSUME NEW h \in Routines, NEW v \in Urls, at[h] = "follow",
                     declared' = [declared EXCEPT ![v] = @ \cup {item[h]}]
              PROVE  declared'[item[g]] \subseteq declared[item[g]] \cup {item[h]}
          BY <4>1, <5>1 DEF TypeOK
        <5>2. declared' = declared \/ \E h \in Routines, v \in Urls :
                at[h] = "follow" /\ declared' = [declared EXCEPT ![v] = @ \cup {item[h]}]
          BY OpsMove
        <5>3. QED
          BY <4>5, <5>1, <5>2
      <4>7. QED
        BY <4>1, <4>2, <4>3, <4>4, <4>6
    <3>2. CASE at[g] # "send"
      <4>1. /\ at[g] = "take" /\ item' = item /\ ops'[g] = specOps[item[g]]
            /\ declared' = declared
        BY <3>2, PageIsTaken
      <4>2. specOps[item[g]] = declared[item[g]]
        BY <4>1 DEF Covered, BeforeTake
      <4>3. QED
        BY <4>1, <4>2
    <3>3. QED
      BY <3>1, <3>2
  <2>6. QED
    BY <2>1, <2>2, <2>3, <2>4, <2>5
<1>5. QED
  BY <1>2, <1>4 DEF Covered


-----------------------------------------------------------------------------
(* Nothing is forgotten while the crawl goes on.                            *)

\* A goroutine past its page was there before, or sends the page now.
LEMMA PastItsPage ==
  ASSUME TypeOK, Shape, ~ctxDone, [Next]_vars,
         NEW g \in Routines, at'[g] \in {"follow", "release", "finish"}
  PROVE  item'[g] = item[g] /\ (at[g] \in {"follow", "release", "finish"} \/ Send(g))
<1>1. ASSUME NEW u, NEW d, Submits(u, d)
      PROVE  item'[g] = item[g] /\ at[g] \in {"follow", "release", "finish"}
  BY <1>1, SubmitsPlaces
<1>2. ASSUME Seeded \/ CloseOut \/ Cancel \/ UNCHANGED vars \/ \E u \in Urls : Withdraw(u)
      PROVE  item'[g] = item[g] /\ at[g] \in {"follow", "release", "finish"}
  BY <1>2 DEF Seeded, CloseOut, Cancel, Withdraw, vars, local
<1>3. ASSUME NEW w \in Workers, Leave(w) \/ \E u \in Urls : Receive(w, u)
      PROVE  item'[g] = item[g] /\ at[g] \in {"follow", "release", "finish"}
  BY <1>3, Sites DEF Leave, Receive, Goto, TypeOK
<1>4. ASSUME NEW h \in Routines, Proceeds(h), h # g
      PROVE  item'[g] = item[g] /\ at[g] \in {"follow", "release", "finish"}
  <2>1. at'[g] = at[g] /\ item' = item
    BY <1>4, ProceedsTurns DEF Turns, TypeOK
  <2>2. QED
    BY <2>1
<1>5. ASSUME Proceeds(g), ~Send(g)
      PROVE  item'[g] = item[g] /\ at[g] \in {"follow", "release", "finish"}
  <2>1. item' = item
    BY <1>5, ProceedsTurns DEF Turns
  <2>2. at[g] \in {"follow", "release", "finish"}
    BY <1>5 DEF Proceeds, Skip, Fetch, Wait, WaitReturns, TakeSpecOps,
                AbandonSend, NoRedirect, RecordSpecOps, Followed, Goto, TypeOK
  <2>3. QED
    BY <2>1, <2>2
<1>6. ASSUME Send(g) PROVE item'[g] = item[g]
  BY <1>6 DEF Send
<1>7. ASSUME NEW h \in Routines, ReleaseSpec(h) \/ Finish(h)
      PROVE  item'[g] = item[g] /\ at[g] \in {"follow", "release", "finish"}
  BY <1>7 DEF ReleaseSpec, Finish, Goto, TypeOK
<1>8. QED
  BY <1>1, <1>2, <1>3, <1>4, <1>5, <1>6, <1>7, NextKinds,
     SeedSubmits, FollowSubmits, OperationSubmits

LEMMA ContextStays ==
  ASSUME [Next]_vars
  PROVE  ctxDone' = ctxDone \/ ctxDone'
BY NextKinds
   DEF Seed, Seeded, CloseOut, Cancel, Withdraw, Leave, Receive, Proceeds, Skip, Fetch,
       Wait, WaitReturns, TakeSpecOps, Send, AbandonSend, NoRedirect, RecordSpecOps, Followed,
       Follow, SubmitOperation, ReleaseSpec, Finish, vars, flow

LEMMA NextSent ==
  ASSUME TypeOK, Shape, Once, Sent, [Next]_vars
  PROVE  Sent'
<1> SUFFICES ASSUME ~ctxDone', NEW g \in Routines,
                    at'[g] \in {"follow", "release", "finish"}
             PROVE  pages'[item'[g]] = 1
  BY DEF Sent
<1>1. ~ctxDone
  BY ContextStays
<1>2. item'[g] = item[g] /\ (at[g] \in {"follow", "release", "finish"} \/ Send(g))
  BY <1>1, PastItsPage
<1>3. item[g] \in Urls
  BY <1>2 DEF Shape, AtRest, Send, TypeOK
<1>4. CASE at[g] \in {"follow", "release", "finish"}
  <2>1. pages[item[g]] = 1
    BY <1>1, <1>4 DEF Sent
  <2>2. pages'[item[g]] = 1
    <3>1. ASSUME NEW h \in Routines, at[h] = "send" PROVE item[h] # item[g]
      BY <1>3, <1>4, <3>1, CrawlerAssumption DEF Shape
    <3>2. QED
      BY <1>3, <2>1, <3>1, PagesMove DEF TypeOK
  <2>3. QED
    BY <1>2, <2>2
<1>5. CASE Send(g)
  <2>1. pages[item[g]] = 0 /\ pages' = [pages EXCEPT ![item[g]] = @ + 1]
    BY <1>5 DEF Send, Once, BeforeSend
  <2>2. QED
    BY <1>2, <1>3, <2>1 DEF TypeOK
<1>6. QED
  BY <1>2, <1>4, <1>5

\* Not cancelled, no URL that was launched gets lost.
LEMMA LaunchedStays ==
  ASSUME TypeOK, Shape, Once, Sent, ~ctxDone, [Next]_vars
  PROVE  \/ \E u, d : Submits(u, d)
         \/ Launched \subseteq Launched' /\ visited' = visited
<1> USE Sites
<1>1. CASE Seeded \/ CloseOut \/ Cancel \/ UNCHANGED vars \/ \E u \in Urls : Withdraw(u)
  <2>1. /\ visited' = visited /\ pages' = pages /\ item' = item /\ offered' = offered
    BY <1>1 DEF Seeded, CloseOut, Cancel, Withdraw, vars, flow, books, local, emission
  <2>2. QED
    BY <2>1 DEF Launched
<1>2. ASSUME NEW w \in Workers, Leave(w) \/ \E u \in Urls : Receive(w, u)
      PROVE  Launched \subseteq Launched' /\ visited' = visited
  <2>1. CASE Leave(w)
    BY <2>1 DEF Leave, flow, books, emission, Launched
  <2>2. CASE \E u \in Urls : Receive(w, u)
    <3>1. PICK u \in Urls : /\ at[w] = "idle" /\ offered' = offered \ {u}
                            /\ item' = [item EXCEPT ![w] = u]
                            /\ pages' = pages /\ visited' = visited
      BY <2>2 DEF Receive, books, emission
    <3>2. /\ item'[w] = u /\ item[w] = None
          /\ \A h \in Routines : h # w => item'[h] = item[h]
      BY <3>1 DEF Shape, AtRest, TypeOK
    <3>3. None \notin visited
      BY CrawlerAssumption DEF TypeOK
    <3>4. QED
      BY <3>1, <3>2, <3>3 DEF Launched
  <2>3. QED
    BY <1>2, <2>1, <2>2
<1>3. ASSUME NEW g \in Routines, Proceeds(g) \/ ReleaseSpec(g)
      PROVE  Launched \subseteq Launched' /\ visited' = visited
  <2>1. visited' = visited /\ offered' = offered /\ item' = item
    BY <1>3, ProceedsTurns DEF Turns, ReleaseSpec, flow
  <2>2. \A u \in visited : pages[u] > 0 => pages'[u] > 0
    <3>1. \A u \in visited : u \in Urls /\ pages[u] \in Nat
      BY CrawlerAssumption DEF TypeOK
    <3>2. ASSUME NEW h \in Routines, NEW u \in visited,
                 pages' = [pages EXCEPT ![item[h]] = @ + 1]
          PROVE  pages'[u] = pages[u] \/ pages'[u] = pages[u] + 1
      BY <3>1, <3>2 DEF TypeOK
    <3>3. QED
      BY <3>1, <3>2, PagesMove
  <2>3. QED
    BY <2>1, <2>2 DEF Launched
<1>4. ASSUME NEW g \in Routines, Finish(g)
      PROVE  Launched \subseteq Launched' /\ visited' = visited
  <2>1. /\ at[g] = "finish" /\ visited' = visited /\ offered' = offered /\ pages' = pages
        /\ \A h \in Routines : h # g => item'[h] = item[h]
    BY <1>4 DEF Finish, emission, TypeOK
  <2>2. pages[item[g]] > 0
    BY <2>1 DEF Sent
  <2>3. QED
    BY <2>1, <2>2 DEF Launched
<1>5. QED
  BY <1>1, <1>2, <1>3, <1>4, NextKinds, SeedSubmits, FollowSubmits, OperationSubmits

\* What submit is given, and would accept, is visited from then on.
LEMMA SubmitVisits ==
  ASSUME TypeOK, NEW u \in Urls, NEW d \in Nat, Submit(u, d), AllowsDepth(d), u \in InScope
  PROVE  u \in visited'
BY SubmitKinds DEF Refuses, Marks

\* A goroutine that owes a submission makes it, or still owes it.
LEMMA OwedStays ==
  ASSUME TypeOK, Shape, ~ctxDone, [Next]_vars, NEW g \in Routines, NEW v \in Owed(item[g]),
         item[g] \in fetched,
         at[g] \in BeforeSend \/ (at[g] = "follow" /\ v \in todo[g])
  PROVE  \/ v \in visited'
         \/ /\ item'[g] = item[g]
            /\ at'[g] \in BeforeSend \/ (at'[g] = "follow" /\ v \in todo'[g])
<1> DEFINE Still == /\ item'[g] = item[g]
                    /\ at'[g] \in BeforeSend \/ (at'[g] = "follow" /\ v \in todo'[g])
<1> USE Sites
<1>0. /\ v \in InScope /\ v \in Urls /\ item[g] \in Urls /\ item[g] \in visited
      /\ v \in Links[item[g]] \cup Documents[item[g]]
      /\ AllowsDepth(depthOf[item[g]] + 1) /\ depthOf[item[g]] + 1 \in Nat
      /\ at[g] \notin {"idle", "exit", "release", "finish"}
  BY CrawlerAssumption DEF Owed, Shape, TypeOK, AtRest, BeforeSend, BeforeTake
<1>1. ASSUME NEW u, NEW d, Submits(u, d), todo'[g] = todo[g] PROVE Still
  BY <1>1, <1>0, SubmitsPlaces
<1>2. ASSUME NEW h \in Routines, NEW u \in Urls, Follow(h, u) PROVE Still \/ v \in visited'
  <2>1. Submits(u, Deeper(h)) /\ Submit(u, Deeper(h)) /\ todo' = [todo EXCEPT ![h] = @ \ {u}]
    BY <1>2, FollowSubmits DEF Follow
  <2>2. CASE h = g /\ u = v
    BY <1>0, <2>1, <2>2, SubmitVisits DEF Deeper
  <2>3. CASE ~(h = g /\ u = v)
    <3>1. v \in todo[g] => v \in todo'[g]
      BY <2>1, <2>3 DEF TypeOK
    <3>2. QED
      BY <1>0, <2>1, <3>1, SubmitsPlaces
  <2>4. QED
    BY <2>2, <2>3
<1>3. ASSUME NEW h \in Routines, SubmitOperation(h) PROVE Still \/ v \in visited'
  <2>1. /\ Submits(recorded[h], Deeper(h)) /\ Submit(recorded[h], Deeper(h))
        /\ todo' = [todo EXCEPT ![h] = @ \ {recorded[h]}]
    BY <1>3, OperationSubmits DEF SubmitOperation
  <2>2. CASE h = g /\ recorded[h] = v
    BY <1>0, <2>1, <2>2, SubmitVisits DEF Deeper
  <2>3. CASE ~(h = g /\ recorded[h] = v)
    <3>1. v \in todo[g] => v \in todo'[g]
      BY <2>1, <2>3 DEF TypeOK
    <3>2. QED
      BY <1>0, <2>1, <3>1, SubmitsPlaces
  <2>4. QED
    BY <2>2, <2>3
<1>4. ASSUME Seeded \/ CloseOut \/ Cancel \/ UNCHANGED vars \/ \E u \in Urls : Withdraw(u)
      PROVE  Still
  BY <1>4 DEF Seeded, CloseOut, Cancel, Withdraw, vars, local
<1>5. ASSUME NEW w \in Workers, Leave(w) \/ \E u \in Urls : Receive(w, u) PROVE Still
  BY SMTT(30), <1>0, <1>5 DEF Leave, Receive, Goto, TypeOK
<1>6. ASSUME NEW h \in Routines, Proceeds(h), h # g PROVE Still
  <2>1. at'[g] = at[g] /\ item' = item
    BY SMTT(30), <1>6, ProceedsTurns DEF Turns, TypeOK
  <2>2. todo'[g] = todo[g]
    BY <1>6 DEF Proceeds, Skip, Fetch, Wait, WaitReturns, TakeSpecOps, Send,
                AbandonSend, NoRedirect, RecordSpecOps, Followed, TypeOK
  <2>3. QED
    BY <2>1, <2>2
<1>7. ASSUME Proceeds(g) PROVE Still
  <2>1. item' = item
    BY <1>7, ProceedsTurns DEF Turns
  <2>2. CASE Send(g)
    <3>1. at'[g] = "follow" /\ todo'[g] = LeadsTo(item[g])
      BY <1>0, <2>2 DEF Send, Goto, TypeOK
    <3>2. QED
      BY <1>0, <2>1, <3>1 DEF LeadsTo
  <2>3. CASE \E u \in Urls : NoRedirect(g, u)
    <3>1. PICK u \in Urls : NoRedirect(g, u)
      BY <2>3
    <3>2. u # v
      BY <1>0, <3>1, CrawlerAssumption DEF NoRedirect
    <3>3. at' = at /\ at[g] = "follow" /\ todo' = [todo EXCEPT ![g] = @ \ {u}]
      BY <3>1 DEF NoRedirect
    <3>4. QED
      BY <2>1, <3>2, <3>3 DEF TypeOK, BeforeSend, BeforeTake
  <2>4. CASE Fetch(g) \/ Wait(g) \/ WaitReturns(g) \/ TakeSpecOps(g)
    BY <2>1, <2>4 DEF Fetch, Wait, WaitReturns, TakeSpecOps, Goto, TypeOK, BeforeSend, BeforeTake
  <2>5. CASE \E u \in Urls : RecordSpecOps(g, u)
    BY <2>1, <2>5 DEF RecordSpecOps
  <2>6. CASE Skip(g) \/ AbandonSend(g) \/ Followed(g)
    BY <2>6 DEF Skip, AbandonSend, Followed, BeforeSend, BeforeTake
  <2>7. QED
    BY <1>7, <2>2, <2>3, <2>4, <2>5, <2>6 DEF Proceeds
<1>8. ASSUME NEW h \in Routines, ReleaseSpec(h) \/ Finish(h) PROVE Still
  BY <1>0, <1>8 DEF ReleaseSpec, Finish, Goto, TypeOK, BeforeSend, BeforeTake
<1>9. Seed => todo'[g] = todo[g]
  BY DEF Seed
<1>10. QED
  BY <1>1, <1>2, <1>3, <1>4, <1>5, <1>6, <1>7, <1>8, <1>9, NextKinds, SeedSubmits


\* The seeds still to be submitted are the last of the seeds.
LEMMA NextSeeds ==
  ASSUME TypeOK, [Next]_vars, NEW u \in InScope,
         u \in visited \/ (main = "seed" /\ \E j \in DOMAIN seeds : seeds[j] = u)
  PROVE  u \in visited' \/ (main' = "seed" /\ \E j \in DOMAIN seeds' : seeds'[j] = u)
<1>1. visited \subseteq visited'
  <2>1. ASSUME NEW g \in Routines, NEW v \in Urls, Follow(g, v) PROVE visited \subseteq visited'
    BY <2>1 DEF Follow, Submit, books
  <2>2. ASSUME NEW g \in Routines, SubmitOperation(g) PROVE visited \subseteq visited'
    BY <2>2 DEF SubmitOperation, Submit, books
  <2>3. CASE Seed
    BY <2>3 DEF Seed, Submit, books
  <2>4. ASSUME NEW g \in Routines, Proceeds(g) PROVE visited' = visited
    BY <2>4 DEF Proceeds, Skip, Fetch, Wait, WaitReturns, TakeSpecOps, Send,
                AbandonSend, NoRedirect, RecordSpecOps, Followed, books
  <2>5. QED
    BY <2>1, <2>2, <2>3, <2>4, NextKinds
       DEF Seeded, CloseOut, Cancel, Withdraw, Leave, Receive, ReleaseSpec, Finish,
           books, vars
<1>2. CASE Seed
  <2>1. Submit(Head(seeds), 0) /\ seeds' = Tail(seeds) /\ seeds # <<>> /\ main' = main
    BY <1>2 DEF Seed
  <2>2. CASE u = Head(seeds)
    <3>1. AllowsDepth(0)
      BY CrawlerAssumption DEF AllowsDepth
    <3>2. u \in visited'
      BY <2>1, <2>2, <3>1, SubmitVisits, CrawlerAssumption
    <3>3. QED
      BY <3>2
  <2>3. CASE u # Head(seeds) /\ u \notin visited
    <3>1. PICK j \in DOMAIN seeds : seeds[j] = u
      BY <2>3
    <3>2. j # 1 /\ j \in 1..Len(seeds)
      BY <2>1, <2>3, <3>1 DEF TypeOK
    <3>3. j - 1 \in DOMAIN Tail(seeds) /\ Tail(seeds)[j - 1] = u
      BY <2>1, <3>1, <3>2 DEF TypeOK
    <3>4. QED
      BY <2>1, <2>3, <3>3
  <2>4. QED
    BY <1>1, <2>2, <2>3
<1>3. CASE Seeded
  <2>1. visited' = visited /\ seeds = <<>>
    BY <1>3 DEF Seeded
  <2>2. DOMAIN seeds = {}
    BY <2>1
  <2>3. QED
    BY <2>1, <2>2
<1>4. ASSUME ~Seed, ~Seeded PROVE (main' = main /\ seeds' = seeds) \/ main # "seed"
  BY ZenonT(60), <1>4, NextKinds
     DEF CloseOut, Cancel, Withdraw, Leave, Receive, Proceeds, Skip, Fetch,
         Wait, WaitReturns, TakeSpecOps, Send, AbandonSend, NoRedirect, RecordSpecOps,
         Followed, Follow, SubmitOperation, ReleaseSpec, Finish, vars, flow
<1>5. QED
  BY <1>1, <1>2, <1>3, <1>4

\* A body is read before the page is sent.
LEMMA FetchedMove ==
  ASSUME [Next]_vars
  PROVE  \/ fetched' = fetched
         \/ \E g \in Routines : Fetch(g) /\ fetched' = fetched \cup {item[g]}
<1>1. ASSUME \A g \in Routines : ~Fetch(g) PROVE fetched' = fetched
  BY <1>1, NextKinds
     DEF Seed, Seeded, CloseOut, Cancel, Withdraw, Leave, Receive, Proceeds, Skip,
         Wait, WaitReturns, TakeSpecOps, Send, AbandonSend, NoRedirect, RecordSpecOps,
         Followed, Follow, SubmitOperation, ReleaseSpec, Finish, vars, emission
<1>2. QED
  BY <1>1 DEF Fetch

LEMMA BooksMove ==
  ASSUME TypeOK, Shape, [Next]_vars
  PROVE  /\ visited \subseteq visited' /\ queued' >= queued
         /\ \A u \in visited : depthOf'[u] = depthOf[u]
<1>1. ASSUME NEW u, NEW d, Submits(u, d)
      PROVE  /\ visited \subseteq visited' /\ queued' >= queued
             /\ \A x \in visited : depthOf'[x] = depthOf[x]
  BY <1>1, SubmitsPlaces
<1>2. CASE visited' = visited /\ queued' = queued /\ depthOf' = depthOf
  BY <1>2 DEF TypeOK
<1>3. QED
  BY <1>1, <1>2, NextKinds, ProceedsTurns, SeedSubmits, FollowSubmits, OperationSubmits
     DEF Seeded, CloseOut, Cancel, Withdraw, Leave, Receive, Turns, ReleaseSpec, Finish,
         flow, books, vars

LEMMA NextWalked ==
  ASSUME TypeOK, fetched \subseteq visited, Shape, Counting, Once, Sent, Walked, [Next]_vars
  PROVE  Walked'
<1> SUFFICES ASSUME ~ctxDone', ~OverCap(queued')
             PROVE  /\ visited' \subseteq Launched'
                    /\ \A i \in DOMAIN Seeds :
                         Seeds[i] \in InScope =>
                           \/ Seeds[i] \in visited'
                           \/ main' = "seed" /\ \E j \in DOMAIN seeds' : seeds'[j] = Seeds[i]
                    /\ \A u \in fetched' : \A v \in Owed(u)' :
                         v \in visited' \/ StillSubmitting(u, v)'
  BY DEF Walked
<1>1. ~ctxDone
  BY ContextStays
<1>2. ~OverCap(queued)
  <2>1. queued' >= queued /\ queued \in Nat /\ queued' \in Nat
    BY BooksMove, NextTypeOK DEF TypeOK
  <2>2. QED
    BY <2>1, CrawlerAssumption DEF OverCap
<1>3. /\ visited \subseteq Launched
      /\ \A i \in DOMAIN Seeds :
           Seeds[i] \in InScope =>
             Seeds[i] \in visited \/ (main = "seed" /\ \E j \in DOMAIN seeds : seeds[j] = Seeds[i])
      /\ \A u \in fetched : \A v \in Owed(u) : v \in visited \/ StillSubmitting(u, v)
  BY <1>1, <1>2 DEF Walked
<1>4. visited' \subseteq Launched'
  BY <1>1, <1>3, LaunchedStays, SubmitsLaunched
<1>5. ASSUME NEW i \in DOMAIN Seeds, Seeds[i] \in InScope
      PROVE  \/ Seeds[i] \in visited'
             \/ main' = "seed" /\ \E j \in DOMAIN seeds' : seeds'[j] = Seeds[i]
  BY <1>3, <1>5, NextSeeds
<1>6. ASSUME NEW u \in fetched', NEW v \in Owed(u)'
      PROVE  v \in visited' \/ StillSubmitting(u, v)'
  <2>1. CASE u \in fetched
    <3>1. v \in Owed(u)
      BY <1>6, <2>1, BooksMove DEF Owed
    <3>2. CASE v \in visited
      BY <3>2, BooksMove
    <3>3. CASE StillSubmitting(u, v)
      <4>1. PICK g \in Routines : /\ item[g] = u
                                  /\ at[g] \in BeforeSend \/ (at[g] = "follow" /\ v \in todo[g])
        BY <3>3 DEF StillSubmitting
      <4>2. \/ v \in visited'
            \/ /\ item'[g] = item[g]
               /\ at'[g] \in BeforeSend \/ (at'[g] = "follow" /\ v \in todo'[g])
        BY <1>1, <2>1, <3>1, <4>1, OwedStays
      <4>3. QED
        BY <4>1, <4>2 DEF StillSubmitting
    <3>4. QED
      BY <1>3, <2>1, <3>1, <3>2, <3>3
  <2>2. CASE u \notin fetched
    <3>1. PICK g \in Routines : Fetch(g) /\ item[g] = u
      BY <2>2, FetchedMove
    <3>2. item' = item /\ at'[g] \in BeforeSend
      BY <3>1 DEF Fetch, Goto, TypeOK, BeforeSend, BeforeTake
    <3>3. QED
      BY <3>1, <3>2 DEF StillSubmitting
  <2>3. QED
    BY <2>1, <2>2
<1>7. QED
  BY <1>4, <1>5, <1>6


-----------------------------------------------------------------------------
(* The theorems.                                                            *)

LEMMA NextCrawl == CrawlInv /\ [Next]_vars => CrawlInv'
BY NextTypeOK, NextShape, NextRecording, NextCounting, NextOnce, NextCovered, NextSent,
   NextWalked DEF CrawlInv

LEMMA CrawlInvHolds == Spec => []CrawlInv
BY InitCrawl, NextCrawl, PTL DEF Spec

\* Every variable of a crawl keeps its type: counters that do not go below
\* zero, a channel that holds accepted URLs only.
THEOREM CrawlerTypeCorrect == Spec => []TypeOK
<1>1. CrawlInv => TypeOK
  BY DEF CrawlInv
<1>2. QED
  BY <1>1, CrawlInvHolds, PTL

\* Both counters are exact in any crawl, and a channel that is closed has
\* nobody left to send on it.
THEOREM QuiescenceHolds == Spec => []QuiescenceIsExact
<1>1. CrawlInv => QuiescenceIsExact
  <2> SUFFICES ASSUME CrawlInv PROVE QuiescenceIsExact
    OBVIOUS
  <2>1. workClosed => main # "seed" /\ offered = {} /\ Busy = {}
    BY CountersMove DEF CrawlInv
  <2>2. QED
    BY <2>1 DEF CrawlInv, Counting, QuiescenceIsExact
<1>2. QED
  BY <1>1, CrawlInvHolds, PTL

\* No URL is emitted twice, and no more than MaxPages are emitted at all.
THEOREM EmissionHolds == Spec => []EmissionIsBounded
<1>1. CrawlInv => EmissionIsBounded
  <2> SUFFICES ASSUME CrawlInv PROVE EmissionIsBounded
    OBVIOUS
  <2>1. \A u \in Urls : pages[u] <= 1
    BY DEF CrawlInv, Once
  <2>2. MaxPages > 0 => Cardinality({u \in Urls : pages[u] > 0}) <= MaxPages
    <3>1. {u \in Urls : pages[u] > 0} \in SUBSET Launched
      BY DEF CrawlInv, Once, Launched
    <3>2. /\ Cardinality({u \in Urls : pages[u] > 0}) <= Cardinality(Launched)
          /\ Cardinality(Launched) \in Nat
      BY <3>1, CountedSets, SmallSets DEF CrawlInv
    <3>3. {u \in Urls : pages[u] > 0} \in SUBSET (Urls \cup Routines)
      OBVIOUS
    <3>4. Cardinality({u \in Urls : pages[u] > 0}) \in Nat
      BY <3>3, SmallSets
    <3>5. QED
      BY <3>2, <3>4, CrawlerAssumption DEF CrawlInv, Once
  <2>3. QED
    BY <2>1, <2>2 DEF EmissionIsBounded
<1>2. QED
  BY <1>1, CrawlInvHolds, PTL

\* When a crawl ends uncapped and uncancelled, whatever the links, redirects
\* and API documents of the site, every seed and every link within the depth
\* has its page.
THEOREM EveryLinkIsWalked == Spec => []EveryLinkWalked
<1>1. CrawlInv => EveryLinkWalked
  <2> SUFFICES ASSUME CrawlInv, main = "closed", ~ctxDone, ~OverCap(queued)
               PROVE  /\ \A i \in DOMAIN Seeds : Seeds[i] \in InScope => pages[Seeds[i]] = 1
                      /\ \A u \in fetched, v \in InScope :
                           v \in Links[u] \cup Documents[u] /\ AllowsDepth(depthOf[u] + 1) =>
                             pages[v] = 1
    BY DEF EveryLinkWalked
  <2>1. offered = {} /\ Busy = {}
    BY CountersMove DEF CrawlInv, Counting
  <2>2. \A g \in Routines : at[g] \in AtRest /\ item[g] = None
    BY <2>1 DEF Busy, AtRest, CrawlInv, Shape
  <2>3. \A u \in visited : pages[u] = 1
    <3> SUFFICES ASSUME NEW u \in visited PROVE pages[u] = 1
      OBVIOUS
    <3>1. u \in Urls /\ u # None
      BY CrawlerAssumption DEF CrawlInv, TypeOK
    <3>2. u \in Launched
      BY DEF CrawlInv, Walked
    <3>3. pages[u] > 0
      BY <2>1, <2>2, <3>1, <3>2 DEF Launched
    <3>4. QED
      BY <3>1, <3>3 DEF CrawlInv, Once, TypeOK
  <2>4. ASSUME NEW i \in DOMAIN Seeds, Seeds[i] \in InScope PROVE pages[Seeds[i]] = 1
    BY <2>3, <2>4 DEF CrawlInv, Walked
  <2>5. ASSUME NEW u \in fetched, NEW v \in InScope,
               v \in Links[u] \cup Documents[u], AllowsDepth(depthOf[u] + 1)
        PROVE  pages[v] = 1
    <3>1. v \in Owed(u)
      BY <2>5 DEF Owed
    <3>2. ~StillSubmitting(u, v)
      BY <2>2 DEF StillSubmitting, AtRest, BeforeSend, BeforeTake
    <3>3. v \in visited
      BY <3>1, <3>2 DEF CrawlInv, Walked
    <3>4. QED
      BY <2>3, <3>3
  <2>6. QED
    BY <2>4, <2>5
<1>2. QED
  BY <1>1, CrawlInvHolds, PTL

\* The page that is sent carries what every API document in flight when its
\* emission began has declared for it: the Wait and the order of recording
\* before submitting are enough, whoever else submits in between.
THEOREM SpecOpsRide == Spec => SpecOpsRideOnPage
<1>1. CrawlInv =>
        \A g \in Routines :
          at[g] = "send" /\ pages'[item[g]] > pages[item[g]] =>
            covers[g] \cap declared[item[g]] \subseteq ops[g]
  BY DEF CrawlInv, Covered
<1>2. QED
  BY <1>1, CrawlInvHolds, PTL DEF SpecOpsRideOnPage


=============================================================================
