------------------------------ MODULE RaceProbe ------------------------------
(***************************************************************************)
(* The race-condition check (lua_engine/checks/concurrency,                *)
(* checks/concurrency/race_condition.lua): one request alone, then a burst *)
(* of the same request over several connections that all hold back their   *)
(* last byte at a barrier; answers that differ are the finding.            *)
(*                                                                         *)
(* Runs of the check on several pages share the set of targets that were   *)
(* taken.  A URL is its rank among all URLs; a form and an operation are   *)
(* [method, url, fields], fields being the body.  What stands behind a URL *)
(* answers every duplicate alike ("steady"), serves the first and refuses  *)
(* the others ("oneshot"), or lets the others through or not ("racy").     *)
(***************************************************************************)
EXTENDS Naturals, FiniteSets, Sequences

CONSTANTS
    RacePages,          \* pages the check runs on at the same time
    RaceForms(_),       \* the forms and operations of a page
    Sensitive(_),       \* looksRaceSensitivePath and the scope, of a URL
    Conns,              \* the connections of a burst
    TargetsPerPage      \* raceTargetsPerPage
ASSUME RaceAssumption == IsFiniteSet(Conns) /\ TargetsPerPage \in Nat

VARIABLES
    race,               \* per page, the run of the check on it
    taken,              \* the keys in RaceCondition.seen
    behind,             \* per URL, what stands behind it
    served,             \* the URLs whose one shot is gone
    raced               \* the targets reported

raceVars == <<race, taken, behind, served, raced>>

\* raceMethodIsStateChange, in the order in which targets are sorted.
ChangingMethods == <<"DELETE", "PATCH", "POST", "PUT">>
MethodRank(m) == CHOOSE i \in DOMAIN ChangingMethods : ChangingMethods[i] = m

\* collectTargets: a target is its own key.
Candidates(p) ==
    { f \in RaceForms(p) : /\ \E i \in DOMAIN ChangingMethods : ChangingMethods[i] = f.method
                           /\ Sensitive(f.url) }
Foremost(targets) ==
    { t \in targets : \A u \in targets : \/ t.url < u.url
                                         \/ t.url = u.url /\ MethodRank(t.method) <= MethodRank(u.method) }

NoTarget == [method |-> "", url |-> 0, fields |-> {}]
Silent == [c \in Conns |-> 0]
Unused == [c \in Conns |-> "unused"]

Unbegun(todo) ==
    [at |-> "choosing", todo |-> todo, target |-> NoTarget, probed |-> 0,
     conn |-> Unused, status |-> Silent, signals |-> 0, survivors |-> 0, failed |-> 0,
     open |-> FALSE, early |-> FALSE, facts |-> {}, cut |-> FALSE]
RaceInit ==
    /\ race = [p \in RacePages |-> Unbegun(Candidates(p))]
    /\ behind \in [{ f.url : f \in UNION { Candidates(p) : p \in RacePages } } -> {"steady", "oneshot", "racy"}]
    /\ taken = {} /\ served = {} /\ raced = {}

\* What the server says to one complete request: a status, 0 for one that cannot be read.
Answers(url) ==
    CASE behind[url] = "steady"  -> {200}
      [] behind[url] = "oneshot" -> IF url \in served THEN {409} ELSE {200}
      [] behind[url] = "racy"    -> {0, 200, 409}

\* The next target that nobody took, within the limit of the page.
SeenOnThisPage(p, t) == FALSE
Seen(p, t) == t \in taken
Choose(p) ==
    /\ race[p].at = "choosing" /\ ~race[p].cut
    /\ race[p].todo # {} /\ race[p].probed < TargetsPerPage
    /\ \E t \in Foremost(race[p].todo) :
           IF Seen(p, t)
           THEN race' = [race EXCEPT ![p].todo = @ \ {t}] /\ UNCHANGED taken
           ELSE /\ taken' = taken \cup {t}
                /\ race' = [race EXCEPT ![p].todo = @ \ {t}, ![p].probed = @ + 1,
                                        ![p].target = t, ![p].at = "alone"]
    /\ UNCHANGED <<behind, served, raced>>

\* sendOne: the request that must be answered before the burst, and the dialling.
BurstAtOnce(p) ==
    /\ race[p].at = "alone"
    /\ race' = [race EXCEPT ![p].at = "burst", ![p].conn = [c \in Conns |-> "dialing"]]
    /\ UNCHANGED <<taken, behind, served, raced>>
SendOne(p) ==
    /\ race[p].at = "alone"
    /\ \/ /\ race' = [race EXCEPT ![p].at = "burst", ![p].conn = [c \in Conns |-> "dialing"]]
          /\ served' = served \cup {race[p].target.url}
       \/ race' = [race EXCEPT ![p].at = "choosing"] /\ served' \in {served, served \cup {race[p].target.url}}
    /\ UNCHANGED <<taken, behind, raced>>

\* A connection holds its last byte, or drops out before it could.
Hold(p, c) ==
    /\ race[p].conn[c] = "dialing"
    /\ \/ race' = [race EXCEPT ![p].conn[c] = "holding", ![p].signals = @ + 1]
       \/ race' = [race EXCEPT ![p].conn[c] = "out", ![p].failed = @ + 1]
    /\ UNCHANGED <<taken, behind, served, raced>>

\* The collector: it looks at the failures only when a connection reports.
EnoughButOne(n) == n + 1 >= Cardinality(Conns)
Enough(n) == n >= Cardinality(Conns)
Collect(p) ==
    /\ race[p].at = "burst" /\ ~race[p].open /\ race[p].signals > 0
    /\ race' = [race EXCEPT ![p].signals = @ - 1, ![p].survivors = @ + 1,
                            ![p].open = Enough(race[p].survivors + 1 + race[p].failed)]
    /\ UNCHANGED <<taken, behind, served, raced>>

\* raceBarrierTimeout, or the end of the context.
GiveUp(p) ==
    /\ race[p].at = "burst" /\ ~race[p].open
    /\ race' = [race EXCEPT ![p].open = TRUE, ![p].early = TRUE]
    /\ UNCHANGED <<taken, behind, served, raced>>

LastByte(p, c) ==
    /\ race[p].open /\ race[p].conn[c] = "holding"
    /\ race' = [race EXCEPT ![p].conn[c] = "sent"]
    /\ UNCHANGED <<taken, behind, served, raced>>

\* The head of the answer, or an error instead of it.
Answer(p, c) ==
    /\ race[p].conn[c] = "sent"
    /\ \/ \E s \in Answers(race[p].target.url) :
              /\ race' = [race EXCEPT ![p].conn[c] = "answered", ![p].status[c] = s]
              /\ served' = served \cup {race[p].target.url}
       \/ race' = [race EXCEPT ![p].conn[c] = "out"] /\ served' \in {served, served \cup {race[p].target.url}}
    /\ UNCHANGED <<taken, behind, raced>>

\* wg.Wait, and the fact; what the burst kept is gone with it.
BurstEnds(p) ==
    /\ race[p].at = "burst" /\ race[p].open
    /\ \A c \in Conns : race[p].conn[c] \in {"out", "answered"}
    /\ race' = [race EXCEPT ![p] =
           [Unbegun(race[p].todo) EXCEPT !.probed = race[p].probed, !.cut = race[p].cut,
                                 !.facts = race[p].facts \cup {[target |-> race[p].target, conn |-> race[p].conn,
                                                               status |-> race[p].status]}]]
    /\ UNCHANGED <<taken, behind, served, raced>>

\* evaluate_fact
Complete(fact) == { c \in Conns : fact.conn[c] = "answered" /\ fact.status[c] > 0 }
Statuses(fact) == { fact.status[c] : c \in Complete(fact) }
SilenceCounts(fact) ==
    Cardinality({ fact.status[c] : c \in Conns }) >= 2 /\ 200 \in { fact.status[c] : c \in Conns }
Varies(fact) ==
    /\ Cardinality(Complete(fact)) >= 2 /\ Cardinality(Statuses(fact)) >= 2
    /\ \E s \in Statuses(fact) : s \in 200 .. 299

\* A script whose context has ended reports nothing.
ReportRaces(p) ==
    /\ race[p].at = "choosing"
    /\ race[p].cut \/ race[p].todo = {} \/ race[p].probed >= TargetsPerPage
    /\ race' = [race EXCEPT ![p] = [Unbegun({}) EXCEPT !.at = "over", !.cut = race[p].cut,
                                                       !.facts = IF race[p].cut THEN {} ELSE race[p].facts]]
    /\ raced' = IF race[p].cut THEN raced
                ELSE raced \cup { f.target : f \in { g \in race[p].facts : Varies(g) } }
    /\ UNCHANGED <<taken, behind, served>>

CutShort(p) ==
    /\ race[p].at # "over" /\ ~race[p].cut
    /\ race' = [race EXCEPT ![p].cut = TRUE]
    /\ UNCHANGED <<taken, behind, served, raced>>

RaceStep(p) ==
    \/ Choose(p) \/ SendOne(p) \/ Collect(p) \/ GiveUp(p) \/ BurstEnds(p) \/ ReportRaces(p)
    \/ \E c \in Conns : Hold(p, c) \/ LastByte(p, c) \/ Answer(p, c)
RaceNext == \E p \in RacePages : RaceStep(p) \/ CutShort(p)
-----------------------------------------------------------------------------
Probed(p) == { f.target : f \in race[p].facts } \cup (IF race[p].at = "burst" THEN {race[p].target} ELSE {})

\* Two pages never burst one target, a page contributes three at most, and the
\* barrier does its work: while anybody still dials, nobody's last byte is out,
\* unless the time or the context ran out (probeSinglePacketH1).
RaceKeepsBounds ==
    /\ \A p, q \in RacePages : p # q => Probed(p) \cap Probed(q) = {}
    /\ \A p \in RacePages :
           /\ Cardinality(Probed(p)) <= TargetsPerPage
           /\ (\E c \in Conns : race[p].conn[c] = "dialing")
              => race[p].early \/ \A c \in Conns : race[p].conn[c] \in {"dialing", "holding", "out"}

\* What answers every duplicate alike is not reported, and neither is what serves
\* only once: the request sent alone has spent that before the burst
\* (race_condition.go:46).
RaceEarned == \A t \in raced : behind[t.url] = "racy"

\* A run that was not cut short reports each burst in which two answers differ and
\* one is a success, whatever became of the other connections.
RaceFound ==
    \A p \in RacePages : race[p].at = "over" /\ ~race[p].cut =>
        \A f \in race[p].facts :
            (\E c, d \in Conns : /\ f.conn[c] = "answered" /\ f.conn[d] = "answered"
                                 /\ f.status[c] = 200 /\ f.status[d] \notin {0, 200})
            => f.target \in raced
=============================================================================
