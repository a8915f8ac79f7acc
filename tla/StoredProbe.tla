---------------------------- MODULE StoredProbe ----------------------------
(***************************************************************************)
(* The stored-xss check (lua_engine/checks/xss/api_stored_xss.go,          *)
(* checks/xss/stored_xss.lua): Plant puts payloads, each with a token of   *)
(* its own, into every input once; Detect looks for the tokens in the      *)
(* pages the scan fetches later.                                           *)
(*                                                                         *)
(* All runs share one state: which inputs were planted, which token stands *)
(* for which payload, which inputs were reported.  A token is the page,    *)
(* the input and the number of the payload.  The server keeps what it is   *)
(* sent, shows the contents of an input on some pages, and leaves some     *)
(* payloads as they are.                                                   *)
(***************************************************************************)
EXTENDS Naturals, FiniteSets, Sequences

CONSTANTS
    FormPages,          \* pages with inputs
    SinksOn(_),         \* the inputs of such a page
    SinkAllowed(_),     \* scope
    PlantPayloads,      \* numbers of the payloads
    ViewPages,          \* pages that show what was stored
    ShownOn(_),         \* the pages that show the contents of an input
    AnswerRefs(_),      \* what the answer to a plant refers to: [web, host, page]
    PlantHost,          \* the host of every input
    Crawled             \* the view pages the crawler finds

VARIABLES
    plant,              \* per form page: [at, todo, sink, next]
    detect,             \* per view page: [at, body, look, due, found, cut]
    plantedSinks, canaries, detectFired,    \* StoredXSSState
    kept,               \* the tokens the server stored
    intact,             \* per input, the payloads that survive to the page
    laterPages,         \* the view pages known to the scan
    storedFound         \* the findings, as pairs of an input and the page

storedVars == <<plant, detect, plantedSinks, canaries, detectFired, kept, intact, laterPages, storedFound>>

AllSinks == UNION { SinksOn(p) : p \in FormPages }
NoSink == ""

StoredInit ==
    /\ plant = [p \in FormPages |-> [at |-> "choosing", todo |-> SinksOn(p), sink |-> NoSink, left |-> {}]]
    /\ detect = [v \in ViewPages |-> [at |-> "waiting", look |-> {}, due |-> {},
                                      found |-> {}, cut |-> FALSE]]
    /\ plantedSinks = {} /\ canaries = {} /\ detectFired = {} /\ kept = {} /\ storedFound = {}
    /\ intact \in [{ s \in AllSinks : SinkAllowed(s) } -> SUBSET PlantPayloads]
    /\ laterPages = Crawled

\* PlantOnce: the test and the mark are one step under the mutex.
PlantEveryTime(p, s) == UNCHANGED plantedSinks
PlantOnce(p, s) == s \notin plantedSinks /\ plantedSinks' = plantedSinks \cup {s}
ChooseSink(p) ==
    /\ plant[p].at = "choosing"
    /\ \E s \in plant[p].todo :
           \/ /\ SinkAllowed(s) /\ PlantOnce(p, s)
              /\ plant' = [plant EXCEPT ![p].todo = @ \ {s}, ![p].at = "planting",
                                        ![p].sink = s, ![p].left = PlantPayloads]
           \/ /\ ~SinkAllowed(s) \/ s \in plantedSinks
              /\ plant' = [plant EXCEPT ![p].todo = @ \ {s}] /\ UNCHANGED plantedSinks
    /\ UNCHANGED <<detect, canaries, detectFired, kept, intact, laterPages, storedFound>>

\* harvestPlantResponseURLs: discovered for the last tier.
Harvested(s) == { r.page : r \in { q \in AnswerRefs(s) : q.web /\ q.host = PlantHost } }

\* One payload.  It may arrive although the answer does not, and then its token is
\* never recorded.
SendPayload(p) ==
    /\ plant[p].at = "planting" /\ plant[p].left # {}
    /\ LET i == CHOOSE n \in plant[p].left : \A m \in plant[p].left : n <= m
           token == <<p, plant[p].sink, i>>
           after == [plant EXCEPT ![p].left = @ \ {i}]
       IN  /\ plant' = after
           /\ \/ /\ kept' = kept \cup {token}
                 /\ canaries' = canaries \cup {token}
                 /\ laterPages' = laterPages \cup Harvested(plant[p].sink)
              \/ kept' \in {kept, kept \cup {token}} /\ UNCHANGED <<canaries, laterPages>>
    /\ UNCHANGED <<detect, plantedSinks, detectFired, intact, storedFound>>

SinkPlanted(p) ==
    /\ plant[p].at = "planting" /\ plant[p].left = {}
    /\ plant' = [plant EXCEPT ![p].at = "choosing", ![p].sink = NoSink]
    /\ UNCHANGED <<detect, plantedSinks, canaries, detectFired, kept, intact, laterPages, storedFound>>

\* The run ends, or its context does.
PlantReturns(p) ==
    /\ plant[p].at # "over"
    /\ plant' = [plant EXCEPT ![p] = [at |-> "over", todo |-> {}, sink |-> NoSink, left |-> {}]]
    /\ UNCHANGED <<detect, plantedSinks, canaries, detectFired, kept, intact, laterPages, storedFound>>

\* The body of a page as it is fetched; due is what a run that begins now has to report.
Body(v) == { t \in kept : v \in ShownOn(t[2]) }
Intact(t) == t[3] \in intact[t[2]]
BeginDetect(v) ==
    /\ detect[v].at = "waiting" /\ v \in laterPages
    /\ detect' = [detect EXCEPT ![v].at = "looking", ![v].look = Body(v),
                     ![v].due = { t[2] : t \in { u \in Body(v) \cap canaries : Intact(u) } }]
    /\ UNCHANGED <<plant, plantedSinks, canaries, detectFired, kept, intact, laterPages, storedFound>>

\* One token of the page: known, not of an input that this run has settled, intact,
\* and the first to be reported for its input.
AnyTrace(t) == TRUE
RoundTripped(t) == Intact(t)
LookAt(v) ==
    /\ detect[v].at = "looking" /\ ~detect[v].cut
    /\ \E t \in detect[v].look :
           LET fires == t \in canaries /\ RoundTripped(t) /\ t[2] \notin detectFired
           IN  /\ detect' = [detect EXCEPT ![v].look = @ \ {t},
                                ![v].found = IF fires THEN @ \cup { <<t[2], v>> } ELSE @]
               /\ detectFired' = IF fires THEN detectFired \cup {t[2]} ELSE detectFired
    /\ UNCHANGED <<plant, plantedSinks, canaries, kept, intact, laterPages, storedFound>>

\* A run whose context has ended reports nothing, and what it fired stays fired.
DetectReturns(v) ==
    /\ detect[v].at = "looking" /\ (detect[v].look = {} \/ detect[v].cut)
    /\ detect' = [detect EXCEPT ![v].at = "over", ![v].look = {}, ![v].found = {}]
    /\ storedFound' = IF detect[v].cut THEN storedFound ELSE storedFound \cup detect[v].found
    /\ UNCHANGED <<plant, plantedSinks, canaries, detectFired, kept, intact, laterPages>>

CutDetect(v) ==
    /\ detect[v].at = "looking" /\ ~detect[v].cut
    /\ detect' = [detect EXCEPT ![v].cut = TRUE]
    /\ UNCHANGED <<plant, plantedSinks, canaries, detectFired, kept, intact, laterPages, storedFound>>

StoredNext ==
    \/ \E p \in FormPages : ChooseSink(p) \/ SendPayload(p) \/ SinkPlanted(p) \/ PlantReturns(p)
    \/ \E v \in ViewPages : BeginDetect(v) \/ LookAt(v) \/ DetectReturns(v) \/ CutDetect(v)
-----------------------------------------------------------------------------
\* No input is planted by two runs, and none outside the scope; no page elsewhere is
\* looked at because an answer pointed to it.
StoredKeepsBounds ==
    /\ \A t, u \in kept : t[2] = u[2] => t[1] = u[1]
    /\ \A t \in kept : SinkAllowed(t[2])
    /\ laterPages \ Crawled \subseteq UNION { Harvested(s) : s \in { t[2] : t \in kept } }

\* An input is reported at most once, whichever pages show it, and only where one of
\* its payloads came through as it was sent (detect_fire_once).
StoredEarned ==
    \A f \in storedFound :
        /\ \A g \in storedFound : g[1] = f[1] => g = f
        /\ f[2] \in ShownOn(f[1]) /\ intact[f[1]] # {}

\* Once the runs that looked at a page are over, whatever it showed intact of a
\* recorded token is reported, unless a run was cut short.
StoredFound ==
    (\A v \in ViewPages : detect[v].at # "looking" /\ ~detect[v].cut) =>
        \A v \in ViewPages : detect[v].at = "over" =>
            \A s \in detect[v].due : \E f \in storedFound : f[1] = s
=============================================================================
