--------------------------- MODULE ReflectionProbe ---------------------------
(***************************************************************************)
(* The reflected-xss check: a canary shows where an input comes back, the  *)
(* place says which payloads break out of it, and one that comes back as   *)
(* it was sent is reported (checks/xss/reflected_xss.lua,                  *)
(* lua_engine/reflection.go, lua_engine/checks/xss/reflected_xss*.go).     *)
(* Where the canary is, and what a payload does there, is compared with    *)
(* what a browser makes of the same page.                                  *)
(*                                                                         *)
(* A page is a sequence of lexemes.  "<t" and "<script" begin a tag, "x="  *)
(* is an attribute that runs nothing and "on=" one that does, each with a  *)
(* space before it, "q" and "a" are the quotation mark and the apostrophe, *)
(* "alert" is a call, "\\" a backslash, "nl" the end of a line.  SLOT and  *)
(* SAFE are where the input comes back, the latter with every lexeme but   *)
(* words encoded.  An input is [loc, name, allowed, page, encodes, header, *)
(* html]: encodes are the lexemes that SLOT encodes, header whether the    *)
(* input also comes back in a header, html the type of the answer.         *)
(***************************************************************************)
EXTENDS Naturals, FiniteSets, Sequences, SequencesExt

CONSTANTS
    ReflectedPages,     \* what may be behind a page: [inputs, aggressive]
    ReflectionLosses    \* bound: how many requests fail

VARIABLES
    behindPage,         \* what is behind it
    probing,            \* the run on the page
    reflected           \* the findings: [input, payload]

reflectionVars == <<behindPage, probing, reflected>>

Echo(input, sent) ==
    FlattenSeq([i \in DOMAIN input.page |->
        CASE input.page[i] = "SLOT" -> [j \in DOMAIN sent |-> IF sent[j] \in input.encodes THEN "w" ELSE sent[j]]
          [] input.page[i] = "SAFE" -> [j \in DOMAIN sent |-> IF sent[j] = "CANARY" THEN "CANARY" ELSE "w"]
          [] OTHER -> <<input.page[i]>>])
-----------------------------------------------------------------------------
(* FindReflections                                                         *)

Angles == {">", "-->"}
Opens == {"<t", "<svg", "<img", "</t", "</script", "<textarea", "</textarea"}

\* context(): the name of a state of the scanner.
Context(st) ==
    CASE st = "text" -> "html-text" [] st = "tag" -> "attr-unquoted" [] st = "dq" -> "attr-double-quoted"
      [] st = "sq" -> "attr-single-quoted" [] st = "comment" -> "html-comment" [] st = "script" -> "script-text"
      [] st = "jdq" -> "script-string-double" [] st = "jsq" -> "script-string-single"

\* A quotation mark behind a backslash does not end a string.
NeverEscapes(lexeme) == FALSE
Escapes(lexeme) == lexeme = "\\"

\* stepState.  To the ">" that ends it a tag of a script is jumped over; in a string of
\* a script the byte after a backslash is.
StepState(s, lexeme) ==
    LET To(st) == [s EXCEPT !.st = st]
        Jump(st) == [s EXCEPT !.st = st, !.jump = TRUE]
    IN  CASE s.jump -> IF lexeme \in Angles THEN [s EXCEPT !.jump = FALSE] ELSE s
          [] s.skip -> [s EXCEPT !.skip = FALSE]
          [] OTHER ->
             CASE s.st = "text" /\ lexeme = "<!--"                   -> To("comment")
               [] s.st = "text" /\ lexeme = "<script"                -> Jump("script")
               [] s.st = "text" /\ lexeme \in Opens                  -> To("tag")
               [] s.st = "tag" /\ lexeme \in Angles                  -> To("text")
               [] s.st = "tag" /\ lexeme = "q"                       -> To("dq")
               [] s.st = "tag" /\ lexeme = "a"                       -> To("sq")
               [] s.st = "dq" /\ lexeme = "q"                        -> To("tag")
               [] s.st = "sq" /\ lexeme = "a"                        -> To("tag")
               [] s.st = "comment" /\ lexeme = "-->"                 -> To("text")
               [] s.st = "script" /\ lexeme = "q"                    -> To("jdq")
               [] s.st = "script" /\ lexeme = "a"                    -> To("jsq")
               [] s.st = "script" /\ lexeme = "</script"             -> Jump("text")
               [] s.st \in {"jdq", "jsq"} /\ Escapes(lexeme)         -> [s EXCEPT !.skip = TRUE]
               [] s.st = "jdq" /\ lexeme = "q"                       -> To("script")
               [] s.st = "jsq" /\ lexeme = "a"                       -> To("script")
               [] OTHER -> s

\* The contexts of the canary in the order of the page.
FindReflections(body) ==
    LET Take(s, lexeme) ==
            IF lexeme = "CANARY" /\ ~s.jump /\ ~s.skip THEN [s EXCEPT !.hits = Append(@, Context(s.st))]
            ELSE StepState(s, lexeme)
    IN  FoldLeft(Take, [st |-> "text", jump |-> FALSE, skip |-> FALSE, hits |-> <<>>], body).hits
-----------------------------------------------------------------------------
(* The payloads                                                            *)

Svg == <<"<svg", "on=", "alert", "q", "w", "q", ">">>
Alert == <<"alert", "q", "w", "q", ";", "//">>
PayloadNamed(name) ==
    CASE name = "html-svg-onload"        -> Svg
      [] name = "html-img-onerror"       -> <<"<img", "x=", "w">> \o Tail(Svg)
      [] name = "attr-double-break"      -> <<"q", ">">> \o Svg
      [] name = "attr-single-break"      -> <<"a", ">">> \o Svg
      [] name = "attr-unquoted-break"    -> <<">">> \o Svg
      [] name = "js-string-double-break" -> <<"q", ";">> \o Alert
      [] name = "js-string-single-break" -> <<"a", ";">> \o Alert
      [] name = "js-bare-break"          -> <<";">> \o Alert
Catalog == <<"html-svg-onload", "html-img-onerror", "attr-double-break", "attr-single-break", "attr-unquoted-break",
             "js-string-double-break", "js-string-single-break", "js-bare-break">>

BreaksOut(context) ==
    CASE context = "html-text"            -> <<"html-svg-onload", "html-img-onerror">>
      [] context = "attr-unquoted"        -> <<"attr-unquoted-break">>
      [] context = "attr-double-quoted"   -> <<"attr-double-break">>
      [] context = "attr-single-quoted"   -> <<"attr-single-break">>
      [] context = "script-text"          -> <<"js-bare-break">>
      [] context = "script-string-double" -> <<"js-string-double-break">>
      [] context = "script-string-single" -> <<"js-string-single-break">>
      [] OTHER                            -> <<>>
Once(names) == FoldLeft(LAMBDA out, n : IF n \in ToSet(out) THEN out ELSE Append(out, n), <<>>, names)
FirstContext(contexts) == IF contexts = <<>> THEN <<>> ELSE BreaksOut(contexts[1])
SelectByContext(contexts) == Once(FlattenSeq([i \in DOMAIN contexts |-> BreaksOut(contexts[i])]))

\* payloadsForContexts: the rest of the catalogue too at the aggressive level.
PayloadsForContexts(contexts) ==
    Once(SelectByContext(contexts) \o (IF behindPage.aggressive THEN Catalog ELSE <<>>))
-----------------------------------------------------------------------------
(* A run                                                                   *)

Begin == [i |-> 1, todo |-> <<>>, asked |-> FALSE, lost |-> 0]
ReflectionInit ==
    /\ behindPage \in ReflectedPages
    /\ probing = Begin /\ reflected = {}

EchoedInputs == behindPage.inputs
Current == EchoedInputs[probing.i]
NextInput == [probing EXCEPT !.i = @ + 1, !.todo = <<>>, !.asked = FALSE]

\* An input out of scope is passed over.  The canary: headers first, then the body.
SendCanary ==
    LET contexts == (IF Current.header THEN <<"header-value">> ELSE <<>>) \o FindReflections(Echo(Current, <<"CANARY">>))
        names == PayloadsForContexts(contexts)
    IN  /\ probing.i <= Len(EchoedInputs) /\ ~probing.asked
        /\ probing' = IF ~Current.allowed \/ contexts = <<>> \/ names = <<>> THEN NextInput
                      ELSE [probing EXCEPT !.todo = names, !.asked = TRUE]
        /\ UNCHANGED <<behindPage, reflected>>

\* string.find(body2, rendered): in one piece, wherever it comes back.
AnyEcho(payload) == \E x \in ToSet(payload) : x \notin Current.encodes
ComesBack(payload) ==
    "SLOT" \in ToSet(Current.page) /\ ToSet(payload) \cap Current.encodes = {}

\* The first payload that comes back whole ends the input; one finding for a name in a
\* location, whatever the URL.
TryPayload ==
    LET name == Head(probing.todo)
        known == \E f \in reflected : f.input.loc = Current.loc /\ f.input.name = Current.name
    IN  /\ probing.i <= Len(EchoedInputs) /\ probing.asked
        /\ IF ComesBack(PayloadNamed(name))
           THEN /\ probing' = NextInput
                /\ reflected' = IF known THEN reflected ELSE reflected \cup { [input |-> Current, payload |-> name] }
           ELSE /\ probing' = IF Len(probing.todo) = 1 THEN NextInput ELSE [probing EXCEPT !.todo = Tail(@)]
                /\ UNCHANGED reflected
        /\ UNCHANGED behindPage

\* A request that fails ends the input; the run goes on with the next.
LoseReflection ==
    /\ probing.i <= Len(EchoedInputs) /\ Current.allowed /\ probing.lost < ReflectionLosses
    /\ probing' = [NextInput EXCEPT !.lost = @ + 1]
    /\ UNCHANGED <<behindPage, reflected>>

ReflectionNext == SendCanary \/ TryPayload \/ LoseReflection
-----------------------------------------------------------------------------
(* A browser                                                               *)

\* st is where it is, elem the tag it is in, fires that the attribute runs its value,
\* hit that it holds a call, armed that the script does, dead that the script does not
\* parse; runs that a call has run.  odd marks what the scanner above does not follow:
\* a quotation mark that delimits nothing, a comment that ends at once or begins with the
\* input, a text area, a script that does not parse or whose tag has the input, a comment
\* in a script, the input behind a backslash.
Script == {"code", "jdq", "jsq", "line"}
Odd(b) == [b EXCEPT !.odd = TRUE]
OpenTag(b, x) ==
    [b EXCEPT !.st = "tag", !.hit = FALSE, !.fires = FALSE, !.elem = x, !.odd = @ \/ x = "<textarea"]
CloseTag(b) ==
    [b EXCEPT !.runs = @ \/ (b.hit /\ b.elem \in {"<t", "<svg", "<img"}),
              !.st = CASE b.elem = "<script" -> "code" [] b.elem = "<textarea" -> "area" [] OTHER -> "data",
              !.armed = FALSE, !.dead = FALSE]
CloseScript(b) ==
    OpenTag([b EXCEPT !.runs = @ \/ (b.armed /\ ~b.dead /\ b.st \in {"code", "line"}),
                      !.odd = @ \/ b.dead \/ b.st \in {"jdq", "jsq"}], "</script")

InTag(b, x) ==
    CASE x \in Angles /\ b.st \notin {"dq", "sq"} -> CloseTag(b)
      [] b.st = "tag" /\ x \in {"q", "a"}         -> Odd(b)
      [] b.st \in {"tag", "unq"} /\ x \in {"x=", "on="} -> [b EXCEPT !.st = "value", !.fires = x = "on="]
      [] b.st = "value" /\ x = "q"                -> [b EXCEPT !.st = "dq"]
      [] b.st = "value" /\ x = "a"                -> [b EXCEPT !.st = "sq"]
      [] b.st = "value" /\ x \notin {"q", "a", "nl"} -> [b EXCEPT !.st = "unq", !.hit = @ \/ (b.fires /\ x = "alert")]
      [] b.st = "unq" /\ x \in {"q", "a"}         -> Odd(b)
      [] b.st = "unq" /\ x = "nl"                 -> [b EXCEPT !.st = "tag"]
      [] (b.st = "dq" /\ x = "q") \/ (b.st = "sq" /\ x = "a") -> [b EXCEPT !.st = "tag"]
      [] OTHER -> [b EXCEPT !.odd = @ \/ (b.elem \in {"<script", "</script"} /\ x \in Angles)]
InScript(b, x) ==
    CASE x = "</script"                  -> CloseScript(b)
      [] b.esc                           -> [b EXCEPT !.esc = FALSE]
      [] b.st = "code" /\ x = "q"        -> [b EXCEPT !.st = "jdq"]
      [] b.st = "code" /\ x = "a"        -> [b EXCEPT !.st = "jsq"]
      [] b.st = "code" /\ x = "alert"    -> [b EXCEPT !.armed = TRUE]
      [] b.st = "code" /\ x \in {"//", "<!--"} -> [Odd(b) EXCEPT !.st = "line"]
      [] b.st = "code" /\ x = "\\"       -> [b EXCEPT !.dead = TRUE]
      [] b.st = "line" /\ x = "nl"       -> [b EXCEPT !.st = "code"]
      [] b.st \in {"jdq", "jsq"} /\ x = "\\" -> [b EXCEPT !.esc = TRUE]
      [] b.st \in {"jdq", "jsq"} /\ x = "nl" -> [b EXCEPT !.dead = TRUE, !.st = "code"]
      [] (b.st = "jdq" /\ x = "q") \/ (b.st = "jsq" /\ x = "a") -> [b EXCEPT !.st = "code"]
      [] OTHER -> b
BrowserStep(b, x) ==
    CASE b.st = "data" -> CASE x = "<!--" -> [b EXCEPT !.st = "begun"]
                            [] x \in Opens \cup {"<script"} -> OpenTag(b, x)
                            [] OTHER -> b
      [] b.st \in {"tag", "value", "dq", "sq", "unq"} -> InTag(b, x)
      [] b.st = "begun"   -> IF x = ">" THEN [Odd(b) EXCEPT !.st = "data"]
                             ELSE [b EXCEPT !.st = IF x = "-->" THEN "data" ELSE "comment"]
      [] b.st = "comment" -> IF x = "-->" THEN [b EXCEPT !.st = "data"] ELSE b
      [] b.st = "area"    -> IF x = "</textarea" THEN OpenTag(b, x) ELSE b
      [] b.st \in Script  -> InScript(b, x)

PlaceOf(b) ==
    CASE b.st = "data" -> "html-text" [] b.st \in {"tag", "value", "unq"} -> "attr-unquoted"
      [] b.st = "dq" -> "attr-double-quoted" [] b.st = "sq" -> "attr-single-quoted"
      [] b.st \in {"begun", "comment"} -> "html-comment" [] b.st = "code" -> "script-text"
      [] b.st = "jdq" -> "script-string-double" [] b.st = "jsq" -> "script-string-single"
      [] OTHER -> "elsewhere"
Parsed(body) ==
    LET Take(b, x) ==
            IF x # "CANARY" THEN BrowserStep(b, x)
            ELSE [BrowserStep(b, "w") EXCEPT !.places = Append(@, PlaceOf(b)),
                      !.odd = @ \/ b.esc \/ b.st = "begun" \/ (b.elem \in {"<script", "</script"} /\ PlaceOf(b) \in
                                                {"attr-unquoted", "attr-double-quoted", "attr-single-quoted"})]
    IN  FoldLeft(Take, [st |-> "data", elem |-> "", fires |-> FALSE, hit |-> FALSE, armed |-> FALSE, dead |-> FALSE,
                        esc |-> FALSE, runs |-> FALSE, odd |-> FALSE, places |-> <<>>], body)
Ordinary(body) == LET b == Parsed(body) IN ~b.odd /\ b.st \notin Script
Runs(input, payload) == Parsed(Echo(input, payload)).runs
-----------------------------------------------------------------------------
\* On an ordinary page the scanner sees each place the input comes back at, and takes it
\* for what it is.
PlacesAreRight ==
    \A i \in DOMAIN EchoedInputs :
        LET body == Echo(EchoedInputs[i], <<"CANARY">>) IN
        probing = Begin /\ Ordinary(body) => FindReflections(body) = Parsed(body).places

\* What is reported below the aggressive level, of an ordinary HTML page where the input
\* comes back in one place, runs in a browser.
ReflectionEarned ==
    \A f \in reflected :
        /\ f.input.allowed
        /\ f.input.html /\ ~behindPage.aggressive /\ Ordinary(Echo(f.input, <<"CANARY">>))
           /\ Len(SelectSeq(f.input.page, LAMBDA x : x \in {"SLOT", "SAFE"})) = 1
           => Runs(f.input, PayloadNamed(f.payload))

\* An ordinary page on which a payload of the catalogue comes back whole and runs is
\* reported by a run that loses no request, once for a name in a location.
ReflectionFound ==
    probing.i > Len(EchoedInputs) /\ probing.lost = 0 =>
        \A i \in DOMAIN EchoedInputs :
            LET input == EchoedInputs[i] IN
            /\ input.allowed /\ Ordinary(Echo(input, <<"CANARY">>))
            /\ \E n \in ToSet(Catalog) : ToSet(PayloadNamed(n)) \cap input.encodes = {} /\ Runs(input, PayloadNamed(n))
            => Cardinality({ f \in reflected : f.input.loc = input.loc /\ f.input.name = input.name }) = 1
=============================================================================
