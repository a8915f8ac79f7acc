----------------------------- MODULE Documents -----------------------------
(***************************************************************************)
(* From a document to the inputs that can be probed: the crawler's readers *)
(* of HTML and of API descriptions (internal/crawler: extract.go,          *)
(* openapi.go), the sinks of a page and the request that puts a payload    *)
(* into one of them (internal/lua_engine/sink.go).                         *)
(*                                                                         *)
(* HTML is the sequence of the tokens the tokenizer yields:                *)
(*   [kind, tag, refs, name, type, method, value]                          *)
(* kind is "start", "end" or "text"; refs is what the tag refers to, in    *)
(* order (href or src, the candidates of srcset, the target of a refresh,  *)
(* the action of a form); value is <<>> when there is none, a text its     *)
(* word.  A reference is a URL whose empty parts are missing.              *)
(***************************************************************************)
EXTENDS Surface, TLC

CONSTANTS
    Documents,      \* what a response may hold: [html, url, doc] or [html, url, spec]
    Payload         \* what a check puts into an input

VARIABLES
    reading,        \* the document
    state,          \* "fetched", "read", "listed" or "crashed"
    found,          \* [links, forms, ops]
    sinks,          \* the inputs of the page
    sent            \* the inputs probed so far, each with its request

inputVars == <<reading, state, found, sinks, sent>>

Absent == Spelled(<<>>)

\* url.ResolveReference, on absolute paths.
Against(base, ref) ==
    CASE ref.scheme # "" -> ref
      [] ref.scheme = "" /\ ref.host # Absent -> [ref EXCEPT !.scheme = base.scheme]
      [] ref.scheme = "" /\ ref.host = Absent /\ ref.path # <<>> ->
            [base EXCEPT !.path = ref.path, !.query = ref.query, !.fragment = ref.fragment]
      [] OTHER -> [base EXCEPT !.query = IF ref.query = <<>> THEN @ ELSE ref.query,
                               !.fragment = ref.fragment]
Unmarked(u) == [u EXCEPT !.fragment = ""]
NoUrl == Url("", Absent, 0, <<>>)
-----------------------------------------------------------------------------
(* HTML                                                                    *)

Linking == {"a", "link", "area", "iframe", "frame", "script", "embed", "track",
            "img", "source", "audio", "video", "meta"}

\* findBaseHref: the first <base> that leads somewhere on the web, wherever it is.
BaseOf(page, doc) ==
    LET Leads(tok) == /\ tok.kind = "start" /\ tok.tag = "base" /\ tok.refs # <<>>
                      /\ Web(Against(page, Head(tok.refs)))
        leading == SelectSeq(doc, Leads)
    IN  IF leading = <<>> THEN page ELSE Against(page, Head(Head(leading).refs))

\* What the walk over the tokens carries.  current is the open form, if any; sel
\* and opt are places in the inputs of the current form and in the options of
\* that input, 0 for none; ok is FALSE once a place is out of range: the program
\* panics there.
Fresh == [links |-> <<>>, forms |-> <<>>, current |-> <<>>, area |-> <<>>,
          sel |-> 0, opt |-> 0, text |-> <<>>, areaText |-> <<>>, ok |-> TRUE]

\* addRaw: resolved, on the web, without fragment, once.
AddLink(p, base, ref) ==
    LET u == Unmarked(Against(base, ref))
    IN  IF Web(u) /\ ~Contains(p.links, u) THEN [p EXCEPT !.links = Append(@, u)] ELSE p

\* newForm: an action that leads nowhere leaves the form without one, a missing
\* action posts to the page, and every method but POST is GET.
NewForm(base, tok) ==
    LET target == IF tok.refs = <<>> THEN Unmarked(base) ELSE Unmarked(Against(base, Head(tok.refs)))
    IN  [method |-> IF tok.method = "POST" THEN "POST" ELSE "GET",
         action |-> IF tok.refs = <<>> \/ Web(target) THEN target ELSE NoUrl,
         inputs |-> <<>>]

Input(name, type, value) == [name |-> name, type |-> type, value |-> value, options |-> <<>>]

AddInput(p, input) ==
    IF p.current = <<>> \/ input.name = "" THEN p
    ELSE [p EXCEPT !.current[1].inputs = Append(@, input)]

\* A form that opens inside another closes it; the select of the outer one stays.
NestedFormIsLost(p, base, tok) == [p EXCEPT !.current = <<NewForm(base, tok)>>]
OpenForm(p, base, tok) ==
    [p EXCEPT !.forms = @ \o p.current, !.current = <<NewForm(base, tok)>>]

CloseForm(p) ==
    [p EXCEPT !.forms = @ \o p.current, !.current = <<>>, !.sel = 0, !.opt = 0, !.text = <<>>]

OpenSelect(p, tok) ==
    LET q == AddInput(p, Input(tok.name, "select", tok.value))
    IN  IF q = p THEN p ELSE [q EXCEPT !.sel = Len(q.current[1].inputs)]

OpenOption(p, tok) ==
    IF p.current = <<>> \/ p.sel = 0 THEN p
    ELSE IF p.sel > Len(p.current[1].inputs) THEN [p EXCEPT !.ok = FALSE]
    ELSE LET q == [p EXCEPT !.current[1].inputs[p.sel].options = Append(@, tok.value)]
         IN  IF tok.value # <<>> THEN q
             ELSE [q EXCEPT !.opt = Len(q.current[1].inputs[q.sel].options), !.text = <<>>]

CloseOption(p) ==
    LET filled == p.current # <<>> /\ p.sel > 0 /\ p.opt > 0
        q == [p EXCEPT !.opt = 0, !.text = <<>>]
    IN  IF ~filled THEN q
        ELSE IF p.sel > Len(p.current[1].inputs) THEN [p EXCEPT !.ok = FALSE]
        ELSE IF p.opt > Len(p.current[1].inputs[p.sel].options) THEN [p EXCEPT !.ok = FALSE]
        ELSE [q EXCEPT !.current[1].inputs[p.sel].options[p.opt] = p.text]

OpenArea(p, tok) ==
    IF p.current = <<>> THEN p ELSE [p EXCEPT !.area = <<tok.name>>, !.areaText = <<>>]

CloseArea(p) ==
    LET q == [p EXCEPT !.area = <<>>, !.areaText = <<>>]
    IN  IF p.area = <<>> THEN q ELSE AddInput(q, Input(p.area[1], "textarea", p.areaText))

TypeOr(tok, default) == IF tok.type = "" THEN default ELSE tok.type

Started(p, base, tok) ==
    CASE tok.tag \in Linking   -> FoldLeft(LAMBDA q, r : AddLink(q, base, r), p, tok.refs)
      [] tok.tag = "form"      -> OpenForm(p, base, tok)
      [] tok.tag = "input"     -> AddInput(p, Input(tok.name, TypeOr(tok, "text"), tok.value))
      [] tok.tag = "button"    -> AddInput(p, Input(tok.name, TypeOr(tok, "submit"), tok.value))
      [] tok.tag = "select"    -> OpenSelect(p, tok)
      [] tok.tag = "option"    -> OpenOption(p, tok)
      [] tok.tag = "textarea"  -> OpenArea(p, tok)
      [] OTHER -> p

Ended(p, tok) ==
    CASE tok.tag = "form"     -> CloseForm(p)
      [] tok.tag = "select"   -> [p EXCEPT !.sel = 0, !.opt = 0, !.text = <<>>]
      [] tok.tag = "option"   -> CloseOption(p)
      [] tok.tag = "textarea" -> CloseArea(p)
      [] OTHER -> p

Worded(p, tok) ==
    [p EXCEPT !.areaText = IF p.area = <<>> THEN @ ELSE @ \o tok.value,
              !.text = IF p.opt = 0 THEN @ ELSE @ \o tok.value]

Consume(p, base, tok) ==
    IF ~p.ok THEN p
    ELSE CASE tok.kind = "start" -> Started(p, base, tok)
           [] tok.kind = "end"   -> Ended(p, tok)
           [] tok.kind = "text"  -> Worded(p, tok)

\* extractAll: a form that is never closed counts.
Extract(page, doc) ==
    LET base == BaseOf(page, doc)
        p == FoldLeft(LAMBDA q, tok : Consume(q, base, tok), Fresh, doc)
    IN  [links |-> p.links, forms |-> p.forms \o p.current, ok |-> p.ok]
-----------------------------------------------------------------------------
(* API descriptions                                                        *)
(*                                                                         *)
(* [syntax, typed, servers, host, basePath, schemes, order, items, lines]: *)
(* order is the order in which a map happens to be walked, items gives the *)
(* parameters and operations of each path; of YAML there are only lines,   *)
(* [indent, top, path].  typed says that every example is a string.        *)

Methods == <<"GET", "POST", "PUT", "DELETE", "PATCH", "HEAD", "OPTIONS">>

Filled(path) == [i \in DOMAIN path |-> IF path[i].hole THEN Lit("1") ELSE path[i]]
FilledBut(path, name) ==
    [i \in DOMAIN path |-> IF path[i].hole /\ path[i].text # name THEN Lit("1") ELSE path[i]]

\* joinPath
Join(base, path) ==
    (IF base # <<>> /\ Last(base) = Lit("") THEN Front(base) ELSE base) \o path

\* mergeParams: what the operation says of a parameter hides what its path says;
\* a body stands for the fields of its schema.
Fields(param) ==
    IF param.in = "body" THEN [i \in DOMAIN param.fields |-> [in |-> "body", name |-> param.fields[i]]]
    ELSE <<[in |-> param.in, name |-> param.name]>>
MergeParams(itemLevel, opLevel) ==
    LET AddField(out, f) ==
            IF f.in = "" \/ f.name = "" \/ Contains(out, f) THEN out ELSE Append(out, f)
    IN  FoldLeft(AddField, <<>>, FlattenSeq([i \in DOMAIN (opLevel \o itemLevel) |->
                                                Fields((opLevel \o itemLevel)[i])]))

\* pathItemOperations, in the order of Methods; ops is a function of the method.
OperationsOf(item) ==
    LET declared == SelectSeq(Methods, LAMBDA m : m \in DOMAIN item.ops)
    IN  [i \in DOMAIN declared |->
            [method |-> declared[i],
             params |-> MergeParams(item.params, item.ops[declared[i]].params)
                        \o item.ops[declared[i]].body]]

\* collectJSONServers, extractYAMLServers
ServersOf(spec) ==
    IF spec.servers # <<>> THEN spec.servers
    ELSE IF spec.host = Absent THEN <<>>
    ELSE LET schemes == IF spec.schemes = <<>> THEN <<"https">> ELSE spec.schemes
         IN  [i \in DOMAIN schemes |-> Url(schemes[i], spec.host, 0, spec.basePath)]

\* extractYAMLPaths: the children of a "paths" that stands at the margin.
YamlPaths(lines) ==
    LET Walk(w, line) ==
            CASE ~w.inside ->
                    IF line.indent = 0 /\ line.top = "paths"
                    THEN [w EXCEPT !.inside = TRUE, !.child = -1] ELSE w
              [] w.inside /\ line.indent = 0 -> [w EXCEPT !.inside = FALSE]
              [] OTHER ->
                    LET child == IF w.child = -1 THEN line.indent ELSE w.child
                        new == line.indent = child /\ line.path # <<>> /\ ~Contains(w.out, line.path)
                    IN  [w EXCEPT !.child = child, !.out = IF new THEN Append(@, line.path) ELSE @]
    IN  FoldLeft(Walk, [inside |-> FALSE, child |-> -1, out |-> <<>>], lines).out

\* extractAPIOperations: an example of another type makes json.Unmarshal fail, and
\* what failed is not YAML either.
PathsOf(spec) ==
    CASE spec.syntax = "json" -> IF spec.typed THEN spec.order ELSE <<>>
      [] spec.syntax = "yaml" -> YamlPaths(spec.lines)
      [] OTHER -> <<>>

AddOperation(out, op) ==
    IF \E i \in DOMAIN out : out[i].method = op.method /\ out[i].url = op.url
    THEN out ELSE Append(out, op)

\* combineServersAndOperations: each server with each path and method, once for
\* each method and URL.
Operations(spec, at) ==
    LET origin == [at EXCEPT !.path = <<>>, !.query = <<>>, !.fragment = ""]
        servers == IF ServersOf(spec) = <<>> THEN <<origin>> ELSE ServersOf(spec)
        OfPath(base, path) ==
            LET ops == IF spec.syntax = "json" THEN OperationsOf(spec.items[path]) ELSE <<>>
                some == IF ops = <<>> THEN <<[method |-> "GET", params |-> <<>>]>> ELSE ops
            IN  [i \in DOMAIN some |->
                    some[i] @@ [url |-> [base EXCEPT !.path = Filled(Join(@, path)),
                                                     !.query = <<>>, !.fragment = ""],
                                tpl |-> Url(base.scheme, base.host, base.port, Join(base.path, path))]]
        OfServer(server) ==
            FlattenSeq([i \in DOMAIN PathsOf(spec) |->
                           OfPath(Against(at, server), PathsOf(spec)[i])])
    IN  FoldLeft(AddOperation, <<>>, FlattenSeq([i \in DOMAIN servers |-> OfServer(servers[i])]))
-----------------------------------------------------------------------------
(* Inputs                                                                  *)

\* specInToLoc
Locations == "query" :> "query" @@ "path" :> "path" @@ "header" :> "header"
             @@ "cookie" :> "cookie" @@ "body" :> "json" @@ "formData" :> "form"

Sink(method, url, loc, name) == [method |-> method, url |-> url, loc |-> loc, name |-> name]

KnownByName(out, s) ==
    IF \E i \in DOMAIN out : out[i].name = s.name /\ out[i].url = s.url THEN out ELSE Append(out, s)
AddSink(out, s) == IF s.name = "" \/ s.url = NoUrl \/ Contains(out, s) THEN out ELSE Append(out, s)

\* SinksFor, before it sorts: the query of the page, then its forms, then its
\* operations.
SinksFor(page) ==
    LET OfQuery == [i \in DOMAIN SetToSeq(DOMAIN page.url.query) |->
                        Sink("GET", page.url, "query", SetToSeq(DOMAIN page.url.query)[i])]
        OfForm(f) == [i \in DOMAIN f.inputs |->
            Sink(f.method, f.action, IF f.method = "POST" THEN "form" ELSE "query", f.inputs[i].name)]
        Known(op) == SelectSeq(op.params, LAMBDA prm : prm.in \in DOMAIN Locations)
        OfOperation(op) == [i \in DOMAIN Known(op) |->
            LET prm == Known(op)[i]
                loc == Locations[prm.in]
            IN  Sink(op.method, IF loc = "path" THEN [op.tpl EXCEPT !.path = FilledBut(@, prm.name)]
                                               ELSE op.url, loc, prm.name)]
    IN  FoldLeft(AddSink, <<>>,
            OfQuery \o FlattenSeq([i \in DOMAIN page.forms |-> OfForm(page.forms[i])])
                    \o FlattenSeq([i \in DOMAIN page.ops |-> OfOperation(page.ops[i])]))

\* MutateRequest, as [method, url, fields]; fields are those of the header, the
\* cookie or the body that loc names.  A path without the hole is an error.
Mutated(s, payload) ==
    LET bare == [method |-> s.method, url |-> s.url, loc |-> s.loc, fields |-> <<>>]
        holes == { i \in DOMAIN s.url.path : s.url.path[i] = Hole(s.name) }
    IN  CASE s.loc = "query" -> <<[bare EXCEPT !.url.query = s.name :> payload @@ @]>>
          [] s.loc = "path" /\ holes # {} ->
                <<[bare EXCEPT !.url.path[Min(holes)] = Lit(payload)]>>
          [] s.loc = "path" /\ holes = {} -> <<>>
          [] OTHER -> <<[bare EXCEPT !.fields = s.name :> payload]>>
-----------------------------------------------------------------------------
(* From the response to the probes                                         *)

InputInit ==
    /\ reading \in Documents /\ state = "fetched"
    /\ found = [links |-> <<>>, forms |-> <<>>, ops |-> <<>>] /\ sinks = <<>> /\ sent = <<>>

\* process reads a page; a panic in it ends the program.
ReadPage ==
    /\ state = "fetched" /\ reading.html
    /\ LET page == Extract(reading.url, reading.doc)
       IN  /\ state' = IF page.ok THEN "read" ELSE "crashed"
           /\ found' = [found EXCEPT !.links = page.links, !.forms = page.forms]
    /\ UNCHANGED <<reading, sinks, sent>>

ReadSpec ==
    /\ state = "fetched" /\ ~reading.html
    /\ state' = "read" /\ found' = [found EXCEPT !.ops = Operations(reading.spec, reading.url)]
    /\ UNCHANGED <<reading, sinks, sent>>

ListInputs ==
    /\ state = "read" /\ state' = "listed"
    /\ sinks' = SinksFor([url |-> reading.url, forms |-> found.forms, ops |-> found.ops])
    /\ UNCHANGED <<reading, found, sent>>

\* A check goes through the sinks one after the other.
Probe ==
    /\ state = "listed" /\ Len(sent) < Len(sinks)
    /\ LET s == sinks[Len(sent) + 1]
       IN  sent' = Append(sent, [sink |-> s, request |-> Mutated(s, Payload)])
    /\ UNCHANGED <<reading, state, found, sinks>>

InputNext == ReadPage \/ ReadSpec \/ ListInputs \/ Probe
-----------------------------------------------------------------------------
IsTag(tok, kind, tag) == tok.kind = kind /\ tok.tag = tag
Between(doc, i, j, kind, tag) == \E k \in i + 1 .. j - 1 : IsTag(doc[k], kind, tag)
Starts(doc, tag) == { i \in DOMAIN doc : IsTag(doc[i], "start", tag) }

\* The token that opens the element that encloses token i, 0 for none: the nearest
\* one before it, unless it was closed in between; the end of a form ends its selects.
Enclosing(doc, i, tag) ==
    LET before == { j \in Starts(doc, tag) : j < i }
    IN  IF before = {} \/ \E closer \in {tag, IF tag = "select" THEN "form" ELSE tag} :
                               Between(doc, Max(before), i, "end", closer)
        THEN 0 ELSE Max(before)

\* The named controls of the form that opens at f; a text area counts when it ends.
ControlsOf(doc, f) ==
    { i \in DOMAIN doc : /\ doc[i].kind = "start" /\ doc[i].name # "" /\ Enclosing(doc, i, "form") = f
                         /\ \/ doc[i].tag \in {"input", "button", "select"}
                            \/ doc[i].tag = "textarea"
                               /\ \E k \in i + 1 .. Len(doc) : IsTag(doc[k], "end", "textarea") }

\* Selects that hold options only, and options that are closed.
Nested(doc) ==
    /\ \A i \in Starts(doc, "form") \cup Starts(doc, "select") \cup Starts(doc, "input") :
           Enclosing(doc, i, "select") = 0
    /\ \A i \in Starts(doc, "option") : Enclosing(doc, i, "option") = 0

OptionsOf(doc, s) ==
    LET mine == SetToSortSeq({ i \in Starts(doc, "option") : Enclosing(doc, i, "select") = s }, <)
        End(i) == { k \in i + 1 .. Len(doc) : doc[k].kind # "text" }
        Said(i) == IF doc[i].value # <<>> THEN doc[i].value
                   ELSE IF End(i) = {} \/ ~IsTag(doc[Min(End(i))], "end", "option") THEN <<>>
                   ELSE FlattenSeq([n \in 1 .. Min(End(i)) - i - 1 |-> doc[i + n].value])
    IN  [n \in DOMAIN mine |-> Said(mine[n])]

FormIsWhole(doc, f, form) ==
    LET controls == ControlsOf(doc, f)
    IN  /\ Len(form.inputs) = Cardinality(controls)
        /\ { form.inputs[n].name : n \in DOMAIN form.inputs } = { doc[i].name : i \in controls }
        /\ Nested(doc) => \A i \in controls \cap Starts(doc, "select") :
               \E n \in DOMAIN form.inputs : /\ form.inputs[n].name = doc[i].name
                                            /\ form.inputs[n].options = OptionsOf(doc, i)

\* What a description documents, as pairs of a method and a path, and what it says
\* of the parameters of one of them.
Documented(spec) ==
    UNION { IF spec.items[p].ops = <<>> THEN { <<"GET", p>> }
            ELSE { <<m, p>> : m \in DOMAIN spec.items[p].ops } : p \in DOMAIN spec.items }
Inputs(spec, m, p) ==
    LET item == spec.items[p]
        said == IF m \in DOMAIN item.ops THEN item.params \o item.ops[m].params ELSE <<>>
    IN  UNION { Range(Fields(said[i])) : i \in DOMAIN said }
        \cup (IF m \in DOMAIN item.ops THEN Range(item.ops[m].body) ELSE {})

SpecIsWhole(spec, at, ops) ==
    LET servers == IF ServersOf(spec) = <<>> THEN { [at EXCEPT !.path = <<>>] }
                   ELSE { Against(at, s) : s \in Range(ServersOf(spec)) }
        Reached(s, p) == Unmarked([s EXCEPT !.path = Filled(Join(@, p)), !.query = <<>>])
    IN  /\ { <<op.method, op.url>> : op \in Range(ops) }
            = { <<d[1], Reached(s, d[2])>> : d \in Documented(spec), s \in servers }
        /\ \A op \in Range(ops) : \E d \in Documented(spec), s \in servers :
               /\ op.method = d[1] /\ op.url = Reached(s, d[2])
               /\ Range(op.params) = Inputs(spec, d[1], d[2])
               /\ Len(op.params) = Cardinality(Range(op.params))

\* Every form of a page is read, nested in another, left open or not, with each of
\* its named controls once and, where options are closed, the options of its
\* selects; every link of the page is found against the base of the document,
\* wherever the base stands; and every operation a description documents is found
\* on each of its servers, with each of its inputs once (extractAll,
\* extractAPIOperations).
PagesAreReadWhole ==
    state \in {"read", "listed"} =>
        IF reading.html
        THEN LET forms == SetToSortSeq(Starts(reading.doc, "form"), <)
                 refs == UNION { Range(reading.doc[i].refs) :
                                   i \in UNION { Starts(reading.doc, t) : t \in Linking } }
             IN  /\ Len(found.forms) = Len(forms)
                 /\ \A n \in DOMAIN forms : FormIsWhole(reading.doc, forms[n], found.forms[n])
                 /\ Range(found.links) = { u \in
                        { Unmarked(Against(BaseOf(reading.url, reading.doc), r)) : r \in refs } : Web(u) }
        ELSE reading.spec.syntax = "json" /\ reading.spec.typed
             => SpecIsWhole(reading.spec, reading.url, found.ops)

\* Where a request carries the payload.
Carries(request) ==
    { <<"query", n>> : n \in { m \in DOMAIN request.url.query : request.url.query[m] = Payload } }
    \cup { <<"path", i>> : i \in { j \in DOMAIN request.url.path : request.url.path[j] = Lit(Payload) } }
    \cup { <<request.loc, n>> : n \in DOMAIN request.fields }

\* Every named input of a page, its forms and its documented operations is a sink,
\* once; the request for it carries the payload in that input and nowhere else,
\* and no two inputs are probed by one request.  Only a path parameter that its
\* template does not have is left out (SinksFor, MutateRequest).
EveryInputIsProbed ==
    state = "listed" =>
        /\ \A n \in DOMAIN reading.url.query : Contains(sinks, Sink("GET", reading.url, "query", n))
        /\ \A f \in Range(found.forms) : \A in \in Range(f.inputs) :
               f.action # NoUrl => \E s \in Range(sinks) :
                   s.method = f.method /\ s.url = f.action /\ s.name = in.name
        /\ \A op \in Range(found.ops) : \A prm \in Range(op.params) : \E s \in Range(sinks) :
               /\ s.method = op.method /\ s.name = prm.name
               /\ prm.in = "path" \/ s.url = op.url
        /\ \A pair \in Range(sent) :
               IF pair.request = <<>> THEN Hole(pair.sink.name) \notin Range(pair.sink.url.path)
               ELSE /\ Cardinality(Carries(pair.request[1])) = 1
                    /\ \A c \in Carries(pair.request[1]) : c[1] = pair.sink.loc
                    /\ \A other \in Range(sent) : other.request = pair.request => other.sink = pair.sink

\* From a page to its requests nothing gets lost: what is on it is read, and each input
\* that was read is probed by a request of its own.
PagesAreProbedWhole == PagesAreReadWhole /\ EveryInputIsProbed

\* extract.go says of selectIdx that it "points into current.Inputs at the active
\* <select>": no token sequence leads it elsewhere, and no page stops the program.
ReadingNeverPanics == state # "crashed"
=============================================================================
