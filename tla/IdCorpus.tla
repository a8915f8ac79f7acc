------------------------------ MODULE IdCorpus ------------------------------
(***************************************************************************)
(* The idor check (checks/access/idor.lua, lua_engine/checks/access/       *)
(* idor_*.go, api_idor.go): identifiers seen on the pages of the scan go   *)
(* into one corpus; each identifier of a page is exchanged for others of   *)
(* its family, and the answer is judged beside that to the identifier      *)
(* itself and that to an identifier nobody has.                            *)
(*                                                                         *)
(* A value is [families, shape, key, n]: the built-in patterns it matches, *)
(* its character classes, and its text in lower case, or n for a number.   *)
(* An input is [name, loc, value]; the segments of a path come after the   *)
(* other inputs, with "path" as their loc.                                 *)
(***************************************************************************)
EXTENDS Integers, FiniteSets, Sequences, SequencesExt

CONSTANTS
    IdPages,            \* pages the check runs on at the same time
    IdInputs(_),        \* their inputs, in order
    NameOrder,          \* all names, in alphabetical order
    DeniedNames,        \* PARAM_DENYLIST
    AccountNames,       \* usernameParamHints
    AppsBehind(_),      \* what the program behind an input may do
    RecordsOnServer,    \* the identifiers that somebody has
    Personal,           \* those whose record shows personal data
    Renderings(_),      \* the values of a shape
    ParamCap, PatternCap, ShapeCap,     \* corpusParamCap, corpusPatternCap, corpusShapeCap
    SinksPerPage        \* MAX_SINKS_PER_PAGE
ASSUME IdAssumption ==
    /\ {ParamCap, PatternCap, ShapeCap} \subseteq Nat \ {0}
    /\ \A p \in IdPages : IdInputs(p) \in Seq(Range(IdInputs(p)))

VARIABLES
    corpus,             \* Corpus
    ids,                \* per page, the run of the check on it
    app,                \* per input name, what the program behind it does
    ingested,           \* the pages that went into the corpus
    exposed             \* the findings

idVars == <<corpus, ids, app, ingested, exposed>>

Want == 3               \* MAX_TAMPERED_PROBES
LearnSamples == 3       \* learnMinSamples
LearnParams == 2        \* learnMinDistinctParams

\* The precedence of the patterns; "learned" stands for every learned one.
Precedence == [numeric |-> 100, uuid |-> 90, mongoid |-> 80, email |-> 70, hex |-> 60,
               username |-> 50, slug |-> 40, learned |-> 30, base64ish |-> 10, none |-> 0]
PathFamilies == {"numeric", "uuid", "mongoid", "hex"}

\* classifyValue
Classify(name, v, learned) ==
    LET fits == { f \in v.families : f = "username" => name \in AccountNames }
                \cup (IF v.shape \in learned THEN {"learned"} ELSE {})
    IN  IF fits = {} THEN "none"
        ELSE CHOOSE f \in fits : \A g \in fits : Precedence[f] >= Precedence[g]
-----------------------------------------------------------------------------
(* The corpus                                                              *)

NoCorpus == [params |-> <<>>, patterns |-> <<>>, shapes |-> <<>>, count |-> <<>>, sources |-> <<>>,
             learned |-> {}]

At(map, key, default) == IF key \in DOMAIN map THEN map[key] ELSE default
Put(map, key, value) == [k \in DOMAIN map \cup {key} |-> IF k = key THEN value ELSE map[k]]

\* ringBuf.push
Push(ring, v, cap) ==
    IF Contains(ring, v) THEN ring
    ELSE Append(IF Len(ring) >= cap THEN Tail(ring) ELSE ring, v)
PushAt(map, key, v, cap) == Put(map, key, Push(At(map, key, <<>>), v, cap))

PatternKey(family, v) == <<family, IF family = "learned" THEN v.shape ELSE <<>> >>

\* ingestLocked: a value of a built-in family teaches no shape, and a shape is
\* learned once, from enough samples of enough names.
Promotes(c, shape) == /\ c.count[shape] >= LearnSamples
                      /\ Cardinality(c.sources[shape]) >= LearnParams
Ingest(c, name, v) ==
    LET family == Classify(name, v, c.learned)
        kept == [c EXCEPT !.params = PushAt(@, name, v, ParamCap),
                          !.patterns = IF family = "none" THEN @
                                       ELSE PushAt(@, PatternKey(family, v), v, PatternCap)]
        grown == [kept EXCEPT !.count = Put(@, v.shape, At(@, v.shape, 0) + 1),
                              !.sources = Put(@, v.shape, At(@, v.shape, {}) \cup {name}),
                              !.shapes = PushAt(@, v.shape, v, ShapeCap)]
    IN  IF family \notin {"none", "learned"} THEN kept
        ELSE IF Promotes(grown, v.shape) THEN [grown EXCEPT !.learned = @ \cup {v.shape}]
        ELSE grown

CorpusName(in) == IF in.loc = "path" THEN "__path__" ELSE in.name

\* Pattern.Generate, but for what a learned shape has to make up.  Families that
\* compare in lower case have one value per key.
Folding == {"uuid", "mongoid", "hex", "email", "username"}
Same(family, a, b) == IF family \in Folding THEN a.key = b.key ELSE a = b
Distinct(family, seed, values) ==
    FoldLeft(LAMBDA got, v : IF \E w \in Range(got) \cup {seed} : Same(family, w, v) THEN got ELSE Append(got, v),
             <<>>, values)

Of(family, seed, key) == [families |-> {family}, shape |-> seed.shape, key |-> key, n |-> 0]
Number(n) == [families |-> {"numeric"}, shape |-> <<"9">>, key |-> "", n |-> n]
Near(n) == SelectSeq(<<n - 1, n + 1, 1, 0, n - 10, n + 10, 999999999>>, LAMBDA k : k >= 0)
Numbers(n) == [i \in DOMAIN Near(n) |-> Number(Near(n)[i])]

Known(c, family, seed) ==
    LET ring == IF family = "learned" THEN At(c.shapes, seed.shape, <<>>)
                ELSE At(c.patterns, PatternKey(family, seed), <<>>)
        fit == IF family = "hex" THEN SelectSeq(ring, LAMBDA v : Len(v.shape) = Len(seed.shape)) ELSE ring
        usual == CASE family = "username" -> <<Of(family, seed, "admin"), Of(family, seed, "root"), Of(family, seed, "test")>>
                   [] family = "slug" -> <<Of(family, seed, "admin"), Of(family, seed, "test"), Of(family, seed, "root")>>
                   [] OTHER -> <<>>
    IN  Distinct(family, seed, (IF family = "numeric" THEN Numbers(seed.n) ELSE <<>>) \o fit \o usual)

\* What is added when the corpus has too little.
MadeUp(family, seed) ==
    CASE family \in {"uuid", "mongoid"} -> <<Of(family, seed, "zero"), Of(family, seed, "random"), Of(family, seed, "random")>>
      [] family \in {"hex", "base64ish"} -> [i \in 1 .. Want |-> Of(family, seed, "random")]
      [] family = "email" -> <<Of(family, seed, "admin")>>
      [] OTHER -> <<>>

\* controlPayloadFor
Controls(family, seed) ==
    CASE family \in {"uuid", "mongoid", "hex"} -> {Of(family, seed, "zero")}
      [] family = "base64ish" -> {Of(family, seed, "random")}
      [] family = "learned" -> Renderings(seed.shape)
      [] OTHER -> {Of(family, seed, "nobody")}
-----------------------------------------------------------------------------
(* The program behind an input                                             *)

\* Whether it answers with success, and what it shows.
Show(ok, what) == [ok |-> ok, body |-> what]
Serves(kind, own, v) ==
    CASE kind = "ignores" -> Show(TRUE, "page")
      [] kind = "echoes"  -> Show(TRUE, v)
      [] kind = "enforces" -> Show(v = own, v)
      [] kind = "exposes" -> Show(v \in RecordsOnServer, v)
      [] kind = "lenient" -> Show(TRUE, IF v \in RecordsOnServer THEN v ELSE [own EXCEPT !.key = "none"])
      [] kind = "generic" -> Show(TRUE, IF v = own THEN v ELSE [own EXCEPT !.key = "none"])

\* idorJudge: "" is no verdict.
ControlAside(base, tampered, control) == FALSE
ControlLikeOthers(base, tampered, control) == control.ok /\ control.body \in {base.body, tampered.body}
Verdict(base, tampered, control) ==
    IF ~base.ok \/ ~tampered.ok \/ tampered.body = base.body \/ ControlLikeOthers(base, tampered, control) THEN ""
    ELSE IF control.ok THEN "low"
    ELSE IF tampered.body \in Personal THEN "high" ELSE "medium"
-----------------------------------------------------------------------------
(* A run                                                                   *)

NoInput == [name |-> "", loc |-> "", value |-> Number(0)]
Names == { in.name : in \in UNION { Range(IdInputs(p)) : p \in IdPages } }
ASSUME AppAssumption ==
    \A n \in Names : AppsBehind(n) \subseteq {"ignores", "echoes", "enforces", "exposes", "lenient", "generic"}

NoRun == [at |-> "ingesting", read |-> 0, todo |-> {}, probed |-> 0, in |-> NoInput, family |-> "none",
          control |-> Number(0), payloads |-> <<>>, tried |-> {}, due |-> {}, got |-> {}, clean |-> TRUE]

IdInit ==
    /\ corpus = NoCorpus /\ ingested = {} /\ exposed = {}
    /\ app \in { f \in [Names -> UNION { AppsBehind(n) : n \in Names }] : \A n \in Names : f[n] \in AppsBehind(n) }
    /\ ids = [p \in IdPages |-> NoRun]

IngestPage(p) ==
    /\ ids[p].at = "ingesting"
    /\ corpus' = FoldLeft(LAMBDA c, in : Ingest(c, CorpusName(in), in.value), corpus, IdInputs(p))
    /\ ids' = [ids EXCEPT ![p].at = "collecting"]
    /\ ingested' = ingested \cup {p}
    /\ UNCHANGED <<app, exposed>>

\* candidate_for and path_sinks: every value is classified under the lock again.
Collect1(p) ==
    /\ ids[p].at = "collecting"
    /\ IF ids[p].read = Len(IdInputs(p))
       THEN ids' = [ids EXCEPT ![p].at = "choosing"]
       ELSE LET in == IdInputs(p)[ids[p].read + 1]
                family == Classify(CorpusName(in), in.value, corpus.learned)
                wanted == IF in.loc = "path" THEN family \in PathFamilies
                          ELSE in.loc \notin {"header", "cookie"} /\ in.name \notin DeniedNames /\ family # "none"
            IN  ids' = [ids EXCEPT ![p].read = @ + 1,
                                   ![p].todo = IF wanted THEN @ \cup { [in |-> in, family |-> family] } ELSE @]
    /\ UNCHANGED <<corpus, app, ingested, exposed>>

NameRank(n) == CHOOSE i \in DOMAIN NameOrder : NameOrder[i] = n
Leading(todo) ==
    { c \in todo : \A d \in todo :
        \/ Precedence[c.family] > Precedence[d.family]
        \/ Precedence[c.family] = Precedence[d.family] /\ NameRank(c.in.name) <= NameRank(d.in.name) }

\* The baseline and the control of the next candidate; an error ends the candidate.
Control(p) ==
    /\ ids[p].at = "choosing" /\ ids[p].todo # {} /\ ids[p].probed < SinksPerPage
    /\ \E c \in Leading(ids[p].todo) :
           LET base == Serves(app[c.in.name], c.in.value, c.in.value)
               next == [ids EXCEPT ![p].todo = @ \ {c}, ![p].probed = @ + 1]
           IN  \/ \E control \in Controls(c.family, c.in.value) :
                     ids' = [next EXCEPT ![p].at = IF base.ok THEN "generating" ELSE "choosing",
                                         ![p].in = c.in, ![p].family = c.family, ![p].control = control]
               \/ ids' = [next EXCEPT ![p].clean = FALSE]
    /\ UNCHANGED <<corpus, app, ingested, exposed>>

\* The records of other pages that this candidate must be tried with.
Familiar(p, family) ==
    { in.value : in \in { i \in UNION { Range(IdInputs(q)) : q \in ingested } :
                             Classify(CorpusName(i), i.value, {}) = family } }
Due(p) ==
    LET others == Familiar(p, ids[p].family) \ {ids[p].in.value}
    IN  IF /\ ids[p].family \in {"uuid", "mongoid", "email", "slug"}
           /\ Cardinality(others) <= Want /\ Cardinality(others) < PatternCap
        THEN others \cap RecordsOnServer ELSE {}

Generate(p) ==
    /\ ids[p].at = "generating"
    /\ LET known == Known(corpus, ids[p].family, ids[p].in.value)
           all == known \o MadeUp(ids[p].family, ids[p].in.value)
           out == SubSeq(all, 1, IF Len(all) < Want THEN Len(all) ELSE Want)
           short == ids[p].family = "learned" /\ Len(out) < Want
       IN  ids' = [ids EXCEPT ![p].at = IF short THEN "rendering" ELSE "probing",
                              ![p].payloads = out, ![p].due = Due(p)]
    /\ UNCHANGED <<corpus, app, ingested, exposed>>

\* renderShape, until there are enough: a value it has already does not count.
RenderOne(p) ==
    /\ ids[p].at = "rendering"
    /\ \E v \in Renderings(ids[p].in.value.shape) \ (Range(ids[p].payloads) \cup {ids[p].in.value}) :
           LET out == Append(ids[p].payloads, v)
           IN  ids' = [ids EXCEPT ![p].payloads = out, ![p].at = IF Len(out) < Want THEN @ ELSE "probing"]
    /\ UNCHANGED <<corpus, app, ingested, exposed>>

Settle(run) ==
    [run EXCEPT !.at = "choosing", !.payloads = <<>>, !.due = {}, !.in = NoInput, !.family = "none", !.control = Number(0),
                !.tried = @ \cup { [in |-> run.in, due |-> run.due \ {run.control}] }]

Tamper(p) ==
    /\ ids[p].at = "probing"
    /\ LET in == ids[p].in
           v == Head(ids[p].payloads)
           kind == app[in.name]
           verdict == Verdict(Serves(kind, in.value, in.value), Serves(kind, in.value, v),
                              Serves(kind, in.value, ids[p].control))
           rest == [ids EXCEPT ![p].payloads = Tail(@)]
       IN  IF ids[p].payloads = <<>> THEN ids' = [ids EXCEPT ![p] = Settle(@)]
           ELSE \/ v \in {in.value, ids[p].control} /\ ids' = rest
                \/ /\ v \notin {in.value, ids[p].control}
                   /\ \/ verdict = "" /\ ids' = rest
                      \/ ids' = [rest EXCEPT ![p].clean = FALSE]
                      \/ /\ verdict # ""
                         /\ ids' = [ids EXCEPT ![p] = [Settle(ids[p]) EXCEPT !.got = @ \cup
                                         { [page |-> p, in |-> in, by |-> v, how |-> verdict] }]]
    /\ UNCHANGED <<corpus, app, ingested, exposed>>

IdReturns(p) ==
    /\ ids[p].at = "choosing" /\ (ids[p].todo = {} \/ ids[p].probed >= SinksPerPage)
    /\ ids' = [ids EXCEPT ![p] = [NoRun EXCEPT !.at = "over", !.tried = ids[p].tried, !.clean = ids[p].clean]]
    /\ exposed' = exposed \cup ids[p].got
    /\ UNCHANGED <<corpus, app, ingested>>

\* The context ends: nothing is reported.  renderShape does not look at it.
CutIds(p) ==
    /\ ids[p].at \notin {"rendering", "over"}
    /\ ids' = [ids EXCEPT ![p] = [NoRun EXCEPT !.at = "over", !.clean = FALSE]]
    /\ UNCHANGED <<corpus, app, ingested, exposed>>

IdStep(p) ==
    IngestPage(p) \/ Collect1(p) \/ Control(p) \/ Generate(p) \/ RenderOne(p) \/ Tamper(p) \/ IdReturns(p)
IdNext == \E p \in IdPages : IdStep(p) \/ CutIds(p)
-----------------------------------------------------------------------------
RingKept(ring, cap) == Len(ring) <= cap /\ Cardinality(Range(ring)) = Len(ring)

\* The corpus stays within its bounds whatever is ingested, no ring repeats a value,
\* and a shape is learned only from three samples under two names, of values that no
\* built-in pattern claims (idor_corpus.go:92).
CorpusKeepsBounds ==
    /\ \A n \in DOMAIN corpus.params : RingKept(corpus.params[n], ParamCap)
    /\ \A f \in DOMAIN corpus.patterns : RingKept(corpus.patterns[f], PatternCap)
    /\ \A s \in DOMAIN corpus.shapes : RingKept(corpus.shapes[s], ShapeCap)
    /\ \A s \in corpus.learned : Cardinality(corpus.sources[s]) >= 2 /\ corpus.count[s] >= 3

\* What enforces ownership, ignores the identifier or has one page for all others is
\* not reported; with medium or high confidence, only a record of somebody else that
\* was really handed out (idor_oracle.go:55).
IdorEarned ==
    \A f \in exposed :
        /\ app[f.in.name] \in {"exposes", "lenient", "echoes"}
        /\ f.how # "low" => app[f.in.name] = "exposes" /\ f.by \in RecordsOnServer \ {f.in.value}
        /\ f.how = "high" => f.by \in Personal

\* An input that hands out every record is reported if another page had shown the
\* identifier of one before, unless a request failed.
IdorFound ==
    \A p \in IdPages : ids[p].at = "over" /\ ids[p].clean =>
        \A t \in ids[p].tried :
            app[t.in.name] = "exposes" /\ t.due # {} => \E f \in exposed : f.page = p /\ f.in = t.in
=============================================================================
