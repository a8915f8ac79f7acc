----------------------------- MODULE ProxyPool -----------------------------
(***************************************************************************)
(* The proxy pool, internal/proxy: the list of proxies is put together     *)
(* from flags, a file and scraped sources; then requests go through it at  *)
(* the same time, each through the proxy with the best record or, now and  *)
(* then, through any.  The counters of a proxy are atomics of their own:   *)
(* nothing orders the two that Record raises with the two that score       *)
(* loads.                                                                  *)
(***************************************************************************)
EXTENDS Integers, Sequences, FiniteSets, SequencesExt

CONSTANTS Lines,        \* what a user may write: see LineOf
          LineOf(_),    \* a line: [kind |-> "proxy" | "comment" | "broken", url |-> its proxy]
          Manuals,      \* what flags and file may give: sequences of lines
          Sources,      \* scraped sources
          Listed,       \* what a source lists: [Sources -> Seq(urls)]
          Trips         \* requests made through the pool

ASSUME ProxyPoolAssumption ==
    /\ Manuals \subseteq Seq(Lines)
    /\ \A l \in Lines : LineOf(l).kind \in {"proxy", "comment", "broken"}
    /\ DOMAIN Listed = Sources
    /\ \A s \in Sources : Listed[s] \in Seq(Range(Listed[s]))

VARIABLES pool,         \* "loading", "scraping", "ready", "refused"
          entries,      \* the proxies, in the order of the pool
          scraped,      \* what the sources that have answered list
          waiting,      \* the sources that have not
          count,        \* the counters of each proxy
          trip          \* where each request is

poolVars == <<pool, entries, scraped, waiting, count, trip>>

Outcomes == {"successes", "blocks", "errors"}
NoCount == [requests |-> 0, successes |-> 0, blocks |-> 0, errors |-> 0]
Idle == [at |-> "idle"]

PoolInit ==
    /\ pool = "loading"
    /\ entries = <<>> /\ scraped = <<>> /\ waiting = {}
    /\ count = <<>>
    /\ trip = [t \in Trips |-> Idle]
-----------------------------------------------------------------------------
(* The list                                                                *)

\* What is listed of the urls at these places, after each of the first n: the
\* urls in their order, each at its first place.
Firsts(urls, places) ==
    LET out[n \in Nat] ==
            IF n = 0 THEN <<>>
            ELSE IF n \notin places \/ Contains(out[n - 1], urls[n]) THEN out[n - 1]
            ELSE Append(out[n - 1], urls[n])
    IN out

Deduped(urls) == Firsts(urls, DOMAIN urls)[Len(urls)]

\* NewSmartPool: an entry per proxy, all counters at zero.
Stock(urls) ==
    /\ pool' = "ready"
    /\ entries' = urls
    /\ count' = [i \in 1..Len(urls) |-> NoCount]

\* Load: blank and commented lines are skipped, a line that is no proxy is an
\* error that ends the run.
Read(lines) == {i \in DOMAIN lines : LineOf(lines[i]).kind # "comment"}
Refused(lines) == \E i \in DOMAIN lines : LineOf(lines[i]).kind = "broken"
Urls(lines) == Firsts([i \in DOMAIN lines |-> LineOf(lines[i]).url], Read(lines))[Len(lines)]

\* loadProxies, up to the scraping, which a flag asks for.
LoadProxies ==
    /\ pool = "loading"
    /\ \E lines \in Manuals :
          \/ /\ Refused(lines)
             /\ pool' = "refused" /\ UNCHANGED <<entries, count, waiting>>
          \/ /\ ~Refused(lines)
             /\ Stock(Urls(lines)) /\ UNCHANGED waiting
          \/ /\ ~Refused(lines)
             /\ pool' = "scraping" /\ entries' = Urls(lines) /\ waiting' = Sources
             /\ UNCHANGED count
    /\ UNCHANGED <<scraped, trip>>

\* Scrape: the sources are fetched concurrently; one that fails is reported
\* and left out.
SourceAnswers(s) ==
    /\ pool = "scraping" /\ s \in waiting
    /\ waiting' = waiting \ {s}
    /\ \/ scraped' = Deduped(scraped \o Listed[s])
       \/ UNCHANGED scraped
    /\ UNCHANGED <<pool, entries, count, trip>>

\* loadProxies: the given ones first, then what was scraped and is new.
MergeProxies ==
    /\ pool = "scraping" /\ waiting = {}
    /\ Stock(Deduped(entries \o scraped))
    /\ UNCHANGED <<scraped, waiting, trip>>
-----------------------------------------------------------------------------
(* A request                                                               *)

Entries == DOMAIN entries

\* A success rate smoothed by Laplace, as a fraction.
Score(n, s) == <<s + 1, n + 2>>
Better(x, y) == x[1] * y[2] > y[1] * x[2]
ScoreOf(i) == Score(count[i].requests, count[i].successes)

\* next: the only entry; an entry at random; or the first of the best, whose
\* scores are read one after the other.
SendThrough(t, i, calm) ==
    trip' = [trip EXCEPT ![t] = [at |-> "sent", entry |-> i, calm |-> calm]]

Select(t) ==
    /\ pool = "ready" /\ trip[t].at = "idle" /\ Entries # {}
    /\ \/ Len(entries) = 1 /\ SendThrough(t, 1, FALSE)
       \/ Len(entries) > 1 /\ \E i \in Entries : SendThrough(t, i, FALSE)
       \/ /\ Len(entries) > 1
          /\ trip' = [trip EXCEPT ![t] = [at |-> "scoring", next |-> 1, best |-> 0,
                                          score |-> <<0, 1>>, n |-> -1, calm |-> TRUE]]
    /\ UNCHANGED <<pool, entries, scraped, waiting, count>>

\* score: the first of the two loads.
LoadRequests(t) ==
    /\ trip[t].at = "scoring" /\ trip[t].n = -1 /\ trip[t].next \in Entries
    /\ trip' = [trip EXCEPT ![t].n = count[trip[t].next].requests]
    /\ UNCHANGED <<pool, entries, scraped, waiting, count>>

\* The score to beat stays that of the first entry.
BestScoreIsForgotten(t) ==
    LET i == trip[t].next
        s == Score(trip[t].n, count[i].successes)
    IN /\ trip[t].at = "scoring" /\ trip[t].n >= 0
       /\ trip' = [trip EXCEPT ![t] =
              [@ EXCEPT !.next = i + 1, !.n = -1,
                        !.best = IF i = 1 \/ Better(s, trip[t].score) THEN i ELSE @,
                        !.score = IF i = 1 THEN s ELSE @]]
       /\ UNCHANGED <<pool, entries, scraped, waiting, count>>

\* The second load, and the comparison with the best so far.
LoadSuccesses(t) ==
    LET i == trip[t].next
        s == Score(trip[t].n, count[i].successes)
    IN /\ trip[t].at = "scoring" /\ trip[t].n >= 0
       /\ trip' = [trip EXCEPT ![t] = IF i = 1 \/ Better(s, @.score)
                      THEN [@ EXCEPT !.next = i + 1, !.n = -1, !.best = i, !.score = s]
                      ELSE [@ EXCEPT !.next = i + 1, !.n = -1]]
       /\ UNCHANGED <<pool, entries, scraped, waiting, count>>

Choose(t) ==
    /\ trip[t].at = "scoring" /\ trip[t].next \notin Entries
    /\ SendThrough(t, trip[t].best, trip[t].calm)
    /\ UNCHANGED <<pool, entries, scraped, waiting, count>>

\* An empty pool: the request goes out directly, and nothing is recorded.
GoDirect(t) ==
    /\ pool = "ready" /\ trip[t].at = "idle" /\ Entries = {}
    /\ trip' = [trip EXCEPT ![t] = [at |-> "done", entry |-> 0]]
    /\ UNCHANGED <<pool, entries, scraped, waiting, count>>

\* classify: a refusal by the target is a block, a failure of proxy or network
\* an error; a caller that gave up says nothing against the proxy.
Results == {"ok", "refused", "gateway", "unreachable", "deadline", "cancelled"}
OutcomeOf(r) ==
    CASE r \in {"ok", "cancelled"} -> "successes"
      [] r = "refused" -> "blocks"
      [] r \in {"gateway", "unreachable", "deadline"} -> "errors"

\* Record raises the requests first and the outcome's counter after it.  A
\* counter that moves disturbs whoever is reading scores.
Disturb(ts) == [t \in DOMAIN ts |-> IF ts[t].at = "scoring" THEN [ts[t] EXCEPT !.calm = FALSE] ELSE ts[t]]

RecordRequest(t) ==
    /\ trip[t].at = "sent"
    /\ \E r \in Results :
          trip' = Disturb([trip EXCEPT ![t] = [at |-> "recording", entry |-> @.entry, result |-> r]])
    /\ count' = [count EXCEPT ![trip[t].entry].requests = @ + 1]
    /\ UNCHANGED <<pool, entries, scraped, waiting>>

RecordOutcome(t) ==
    /\ trip[t].at = "recording"
    /\ count' = [count EXCEPT ![trip[t].entry][OutcomeOf(trip[t].result)] = @ + 1]
    /\ trip' = Disturb([trip EXCEPT ![t].at = "done"])
    /\ UNCHANGED <<pool, entries, scraped, waiting>>

PoolNext ==
    \/ LoadProxies \/ MergeProxies
    \/ \E s \in Sources : SourceAnswers(s)
    \/ \E t \in Trips :
          \/ Select(t) \/ LoadRequests(t) \/ LoadSuccesses(t) \/ Choose(t) \/ GoDirect(t)
          \/ RecordRequest(t) \/ RecordOutcome(t)

PoolSpec == PoolInit /\ [][PoolNext]_poolVars
-----------------------------------------------------------------------------
(* Properties                                                              *)

Recorded(i) == {t \in Trips : trip[t].at \in {"recording", "done"} /\ trip[t].entry = i}
Midway == {t \in Trips : trip[t].at = "recording"}

\* A request that chooses by merit while no outcome is being recorded goes
\* through a proxy that no other beats.  (When one is, a score mixes counters
\* of two moments, and may favour a proxy that has just answered.)  And what
\* the summary prints adds up once the requests are over: no proxy is listed
\* twice, each request counts for the proxy it went through, with one outcome.
PoolIsHonest ==
    [][ /\ \A t \in Trips :
              trip[t].at = "scoring" /\ trip'[t].at = "sent" /\ trip[t].calm /\ Midway = {} =>
                 \A i \in Entries : ~Better(ScoreOf(i), ScoreOf(trip'[t].entry))
        /\ pool' = "ready" /\ Midway' = {} => \A i \in Entries' :
              LET c == count'[i] IN
              /\ c.requests = Cardinality(Recorded(i)')
              /\ c.requests = c.successes + c.blocks + c.errors
              /\ \A j \in Entries' \ {i} : entries'[i] # entries'[j]
      ]_poolVars
=============================================================================
