------------------------------ MODULE MCChecks ------------------------------
(***************************************************************************)
(* Pages, API descriptions and verdicts on small instances.  They share    *)
(* nothing but the scan around them, so a behaviour is an episode of one   *)
(* of them while the others stay as they began.                            *)
(***************************************************************************)
EXTENDS Documents, RaceProbe, FramingProbe, StoredProbe, IdCorpus, TokenProbe, TakeoverProbe, PathSweep,
        CacheProbe, BlindProbe, PolicyProbe, WellKnown, ReflectionProbe, FormTargets

CONSTANT Episodes
VARIABLE episode

MCRegistrable(labels) == labels

Tok(kind, tag) == [kind |-> kind, tag |-> tag, refs |-> <<>>, name |-> "", type |-> "",
                   method |-> "", value |-> <<>>]
Start(tag) == Tok("start", tag)
Named(tag, name) == [Start(tag) EXCEPT !.name = name]
Word == [Tok("text", "") EXCEPT !.value = <<"word">>]
Alphabet ==
    { Start("form"), Tok("end", "form"), Named("input", "q"), Named("select", "s"), Tok("end", "select"),
      Start("option"), [Start("option") EXCEPT !.value = <<"v">>], Tok("end", "option"), Word }
Pages == UNION { [1 .. n -> Alphabet] : n \in 0 .. 4 }

Host(name) == Spelled(<<name, "test">>)
Ref(path) == [Url("", Absent, 0, <<Lit(path)>>) EXCEPT !.fragment = "top"]
To(tag, refs) == [Start(tag) EXCEPT !.refs = refs]
Post == [To("form", <<Ref("save")>>) EXCEPT !.method = "POST"]
LinkedPages == {
    <<To("a", <<Ref("x"), Ref("y")>>), To("base", <<Url("ftp", Host("f"), 0, Root)>>),
      To("base", <<Url("https", Host("cdn"), 0, Root)>>), To("img", <<Ref("x"), Url("mailto", Host("m"), 0, Root)>>),
      To("base", <<Ref("late")>>), Start("form")>>,
    <<Post, Named("select", "s"), Start("option"), Word, Tok("end", "option"),
      [Start("option") EXCEPT !.value = <<"v">>], Tok("end", "option"), Tok("end", "select"),
      Named("textarea", "t"), Word, Tok("end", "textarea"), Named("button", "b"), Tok("end", "form"),
      Named("input", "stray"), Start("form"), Named("input", "q"), Named("textarea", "open"), Word>>,
    <<[Post EXCEPT !.refs = <<Url("javascript", Host("v"), 0, Root)>>], Named("input", "q"),
      To("meta", <<Ref("next")>>), To("form", <<Ref("save")>>), Named("input", "q"), Named("input", "q")>> }

P(in, name) == [in |-> in, name |-> name, fields |-> <<>>]
InBody(fields) == [in |-> "body", name |-> "user", fields |-> fields]
Op(params, body) == [params |-> params, body |-> body]
Users == <<Lit("users"), Hole("id")>>
User1 == <<Lit("users"), Lit("1")>>
Items ==
    Users :> [params |-> <<P("path", "id"), P("query", "v")>>,
              ops |-> "GET" :> Op(<<P("query", "v"), P("header", "h")>>, <<>>)
                      @@ "PUT" :> Op(<<InBody(<<"name", "mail">>), P("cookie", "c")>>, <<>>)]
    @@ User1 :> [params |-> <<>>, ops |-> "GET" :> Op(<<P("path", "gone")>>, <<>>)
                      @@ "POST" :> Op(<<>>, <<[in |-> "body", name |-> "name"], [in |-> "formData", name |-> "f"]>>)]
    @@ <<Lit("ping")>> :> [params |-> <<P("query", "v")>>, ops |-> <<>>]
Line(indent, top, path) == [indent |-> indent, top |-> top, path |-> path]
Described ==
    [syntax |-> "json", typed |-> TRUE, servers |-> <<>>, host |-> Absent, basePath |-> <<>>, schemes |-> <<>>,
     order |-> <<>>, items |-> Items, lines |-> <<>>]
Specs ==
    { [Described EXCEPT !.order = o, !.servers = s, !.host = h, !.typed = t, !.basePath = <<Lit("v1"), Lit("")>>,
                        !.schemes = c] :
        o \in { <<Users, User1, <<Lit("ping")>> >>, << <<Lit("ping")>>, User1, Users>> },
        s \in { <<>>, <<Ref("api"), Url("https", Host("api"), 0, Root)>> },
        h \in {Absent, Host("old")}, t \in BOOLEAN, c \in { <<>>, <<"http", "https">> } }
    \cup { [Described EXCEPT !.syntax = "yaml", !.lines =
                <<Line(2, "paths", <<>>), Line(0, "info", <<>>), Line(0, "paths", <<>>), Line(2, "", Users),
                  Line(4, "get", <<>>), Line(4, "", User1), Line(2, "", User1), Line(2, "", Users),
                  Line(0, "components", <<>>), Line(2, "", <<Lit("ping")>>)>>] }

Here == [Url("https", Host("shop"), 8443, <<Lit("dir")>>) EXCEPT !.query = "q" :> "1" @@ "id" :> "7"]
MCDocuments ==
    { [html |-> TRUE, url |-> Here, doc |-> d] : d \in Pages \cup LinkedPages }
    \cup { [html |-> FALSE, url |-> Here, spec |-> s] : s \in Specs }

-----------------------------------------------------------------------------
\* Two pages share a form; an operation of one of them is out of scope.
Target(method, url, fields) == [method |-> method, url |-> url, fields |-> fields]
MCRaceForms(p) ==
    { Target("POST", 1, {"a"}), Target("GET", 1, {}) }
    \cup (IF p = "p1" THEN { Target("DELETE", 3, {}) } ELSE { Target("PUT", 1, {}) })
MCSensitive(url) == url # 3

\* Front and back ends that disagree, that agree, and slow ones that agree.
MCChains ==
    { [front |-> c[1], back |-> c[2], h2 |-> c[3], pace |-> c[4]] :
        c \in { <<"length", "chunked", "none", 1>>, <<"chunked", "length", "refuses", 12>>,
                <<"chunked", "chunked", "passes", 1>>, <<"length", "length", "none", 1>>,
                <<"chunked", "chunked", "none", 18>> } }

\* A sink on both pages and one out of scope; values show on the page of the crawl
\* and on one that only the answer to the plant names.
MCSinksOn(p) == IF p = "p1" THEN {"a"} ELSE {"a", "c"}
MCSinkAllowed(s) == s # "c"
MCShownOn(s) == {"v1", "v2"}
MCAnswerRefs(s) == { [web |-> TRUE, host |-> "h", page |-> "v2"], [web |-> TRUE, host |-> "x", page |-> "v3"],
                     [web |-> FALSE, host |-> "h", page |-> "v3"] }

\* Identifiers of a family and of a shape, a path segment, and a name that is denied.
Uuid(key) == [families |-> {"uuid", "base64ish"}, shape |-> <<"9", "a">>, key |-> key, n |-> 0]
Slug(key) == [families |-> {}, shape |-> <<"A", "-">>, key |-> key, n |-> 0]
Given(name, loc, value) == [name |-> name, loc |-> loc, value |-> value]
MCIdInputs(p) ==
    IF p = "p1" THEN << Given("code", "query", Slug("a")), Given("id", "query", Uuid("one")),
                        Given("ref", "query", Slug("b")), Given("seg1", "path", Uuid("three")) >>
    ELSE << Given("id", "query", Uuid("two")), Given("page", "query", Number(2)),
            Given("code", "form", Slug("c")), Given("sid", "cookie", Number(3)) >>
MCNameOrder == <<"code", "id", "page", "ref", "seg1", "sid">>
MCRecords == { Uuid("one"), Uuid("two"), Uuid("three"), Number(2), Number(3), Slug("a"), Slug("d") }
MCPersonal == { Uuid("two") }
MCRenderings(shape) == { Slug(k) : k \in {"a", "c", "d"} }
MCAppsBehind(name) ==
    CASE name = "id" -> {"enforces", "exposes", "lenient", "ignores", "generic", "echoes"}
      [] name = "code" -> {"lenient"}
      [] OTHER -> {"ignores"}

\* A value that consists of separators has one rendering, itself.
Dash == [families |-> {}, shape |-> <<"-">>, key |-> "-", n |-> 0]
DashInputs(p) == IF p = "p1" THEN << Given("code", "query", Dash), Given("ref", "query", Dash) >>
                 ELSE << Given("code", "query", Dash) >>
DashNameOrder == <<"code", "ref">>
DashRecords == { Dash }
DashPersonal == {}
DashRenderings(shape) == { Dash }
DashAppsBehind(name) == {"exposes"}

\* Two tokens on both pages, of which one page does not read the second, and one that
\* does not parse.
Token(id, alg, jku) ==
    [id |-> id, parses |-> TRUE, alg |-> alg, signed |-> TRUE, jku |-> jku, x5u |-> "", kidIsUrl |-> FALSE]
Via(token, via) == [token |-> token, via |-> via]
MCTokensOn(p) ==
    IF p = "p1" THEN << Via(Token("h", "HS256", ""), "bearer"), Via(Token("r", "RS256", "/deep"), "bearer") >>
    ELSE << Via(Token("h", "HS256", ""), "cookie"), Via([Token("x", "HS512", "") EXCEPT !.parses = FALSE], "header"),
            Via(Token("r", "RS256", "/deep"), "header") >>
MCPageReads(p) == IF p = "p1" THEN {"bearer"} ELSE {"cookie"}
Sound == [unchecked |-> FALSE, nones |-> {}, hmacs |-> {"HS256"}, key |-> [name |-> "strong", enc |-> 0],
          kid |-> "opaque", lax |-> FALSE, fetches |-> {}]
MCValidators ==
    { Sound, [Sound EXCEPT !.nones = {"NONE"}], [Sound EXCEPT !.key = Empty],
      [Sound EXCEPT !.key = Listed, !.lax = TRUE], [Sound EXCEPT !.kid = "file"],
      [Sound EXCEPT !.kid = "noisy", !.fetches = {"x5u"}], [Sound EXCEPT !.key = [name |-> "k2", enc |-> 2]] }
Key(kty, kid) == [kty |-> kty, kid |-> kid]
MCKeyDoc(url) ==
    CASE url = "/openid" -> [keys |-> <<>>, uri |-> "/keys"]
      [] url = "/keys" -> [keys |-> << Key("EC", "k1"), Key("oct", "k0") >>, uri |-> "far"]
      [] url = "/jwks" -> [keys |-> << Key("RSA", "k2") >>, uri |-> ""]
      [] OTHER -> [keys |-> <<>>, uri |-> "far"]
MCDiscoveryPaths == <<"/jwks", "/openid">>
MCSameOrigin(url) == url # "far"

\* A host on two pages, one out of scope, and a provider's own.
OldShop == <<"old", "shop", "test">>
MCHostOfPage(p) ==
    CASE p \in {"p1", "p2"} -> OldShop [] p = "p3" -> <<"far", "test">> [] p = "p4" -> <<"u", "hub", "io">>
MCRootInScope(host) == host # <<"far", "test">>
Provider(name, suffix, exact, statuses, body, headers) ==
    [name |-> name, suffixes |-> { [labels |-> suffix, exact |-> exact] }, statuses |-> statuses,
     bodies |-> {body}, headers |-> headers]
MCProviders == << Provider("hub", <<"hub", "io">>, FALSE, {404}, "no hub site", {"hub-id"}),
                  Provider("blog", <<"domains", "blog">>, TRUE, {}, "nothing here", {}) >>
Own == [cname |-> <<>>, gone |-> FALSE, status |-> 200, body |-> "app", headers |-> {}, away |-> FALSE, freed |-> ""]
Freed == [Own EXCEPT !.status = 404, !.body = "no hub site", !.freed = "hub"]
Dangling == [Freed EXCEPT !.cname = <<"u", "hub", "io">>]
MCEdges(host) ==
    IF host # OldShop THEN {Dangling}
    ELSE { Own, Dangling, [Freed EXCEPT !.headers = {"hub-id"}], Freed, [Freed EXCEPT !.freed = ""],
           [Own EXCEPT !.cname = <<"u", "hub", "io">>, !.headers = {"hub-id"}],
           [Own EXCEPT !.cname = <<"x", "domains", "blog">>, !.gone = TRUE],
           [Own EXCEPT !.cname = <<"domains", "blog">>, !.gone = TRUE, !.freed = "blog"],
           [Own EXCEPT !.cname = <<"domains", "blog">>, !.body = "nothing here", !.freed = "blog"],
           [Dangling EXCEPT !.away = TRUE], [Own EXCEPT !.cname = OldShop, !.gone = TRUE],
           [Freed EXCEPT !.status = 200, !.freed = "", !.headers = {"hub-id"}] }

\* A host on two pages: one that keeps to 404, catch-all pages, redirects and refusals.
MCRootOfPage(p) == [scheme |-> "https", host |-> <<"www", "shop">>]
MCPathInScope(path) == path # <<"git", "config">>
Entry(path, marker, stacks) ==
    [path |-> path, marker |-> marker, types |-> {}, aggressive |-> FALSE, stacks |-> stacks, emit |-> path = <<"admin">>]
MCCatalogue == << Entry(<<"git", "HEAD">>, "ref", <<>>), Entry(<<"git", "config">>, "", <<>>), Entry(<<"admin">>, "", <<>>),
                  [Entry(<<"debug">>, "", <<>>) EXCEPT !.aggressive = TRUE],
                  Entry(<<"web.config">>, "", "server" :> {"iis"}), Entry(<<"wp">>, "", "cms" :> {"wordpress"}) >>
MCFollowUps == << [triggers |-> {<<"git", "HEAD">>, <<"git", "config">>},
                   entries |-> << Entry(<<"git", "index">>, "DIRC", <<>>), Entry(<<"wp">>, "", <<>>) >>],
                  [triggers |-> {<<"admin">>},
                   entries |-> << Entry(<<"git", "index">>, "DIRC", <<>>), Entry(<<"iis">>, "", "server" :> {"iis"}) >>] >>
MCStack == "server" :> "apache" @@ "cms" :> ""
Reply(status, body, size, type, shows) ==
    [status |-> status, body |-> body, size |-> size, type |-> type, location |-> "", shows |-> shows]
Login == [Reply(302, "", 0, "", {}) EXCEPT !.location = "/login"]
NotFound == Reply(404, "no", 90, "html", {})
Shell(body, size) == Reply(200, body, size, "html", {})
Leaky == <<"git", "HEAD">> :> Reply(200, "head", 40, "", {"ref"}) @@ <<"git", "index">> :> Reply(200, "idx", 400, "binary", {"DIRC"})
         @@ <<"admin">> :> Shell("console", 1100) @@ <<"shop", "zip">> :> Reply(200, "zip", 5000, "zip", {})
MCSites == { [served |-> Leaky, missing |-> {NotFound}],
             [served |-> Leaky, missing |-> {Shell("shell1", 900), Shell("shell2", 950)}],
             [served |-> <<"shop", "bak">> :> Shell("bak", 100), missing |-> {Login}],
             [served |-> <<>>, missing |-> {Reply(403, "denied", 20, "html", {})}],
             [served |-> <<"admin">> :> Login, missing |-> {NotFound, Shell("shell1", 900)}] }

\* Two pages on one path, and one out of scope.
MCAddress(p) ==
    LET at(path, query, auth) == [path |-> path, query |-> query, auth |-> auth, suffixed |-> FALSE, allowed |-> p # "p4"]
    IN  CASE p = "p1" -> at(<<"account">>, "", TRUE) [] p = "p2" -> at(<<"account">>, "v", TRUE) [] OTHER -> at(<<"blog">>, "", FALSE)
Html(len, mid, tail) == [status |-> 200, len |-> len, head |-> "shell", mid |-> mid, tail |-> tail,
                         shows |-> {}, echoes |-> {}, html |-> TRUE]
Unmoved == [page |-> {Html(1000, "me", "t1")}, suffix |-> {Html(1010, "lost", "t1"), Html(1000, "lost", "t1")}, samePage |-> FALSE,
            reflects |-> {}, links |-> {}, routes |-> {}, strict |-> FALSE, vary |-> {}, private |-> FALSE,
            hints |-> "always", keysQuery |-> TRUE, stores |-> TRUE]
Echoing == [Unmoved EXCEPT !.reflects = {"x-forwarded-host", "x-forwarded-scheme"}, !.links = {"x-forwarded-proto"},
                           !.vary = {"x-forwarded-proto"}]
MCCachedSites == {
    Unmoved, Echoing, [Echoing EXCEPT !.keysQuery = FALSE, !.links = {}],
    [Unmoved EXCEPT !.page = {[Html(1000, "me", "t1") EXCEPT !.shows = {"host"}]}],
    [Echoing EXCEPT !.hints = "hits", !.samePage = TRUE, !.suffix = {Html(1000, "me", "t1"), Html(1020, "me", "t2")}],
    [Unmoved EXCEPT !.routes = {"x-original-url"}, !.strict = TRUE, !.stores = FALSE, !.private = TRUE],
    [Echoing EXCEPT !.vary = {"*"}, !.samePage = TRUE, !.page = {Html(1000, "me", "t1"), Html(1000, "me", "t2")},
                    !.suffix = {Html(1000, "me", "t1"), Html(1000, "me", "t2")}] }

\* A sink that both pages share, one in a form and one out of scope.
MCDelays == <<2, 50>>
In(url, loc) == [url |-> url, loc |-> loc, name |-> "q"]
MCBlindSinks(p) == IF p = "p1" THEN << In(1, "query"), In(2, "form"), In(3, "query") >> ELSE << In(1, "query") >>
MCSinkInScope(url) == url # 3
Text(text, len) == [text |-> text, len |-> len]
Rows(rows, len) == [status |-> 200, body |-> << Text("head", 600), Text(rows, len), Text("foot", 100) >>]
Inert == [sleeps |-> {}, branches |-> {}, fails |-> {}, fetches |-> {}, page |-> {Rows("rows", 300)}, other |-> {Rows("none", 20)},
          blocks |-> FALSE, echo |-> "none", errors |-> FALSE, cached |-> FALSE]
MCBehaviours(s) ==
    IF s.url = 3 THEN {Inert}
    ELSE IF s.loc = "form"
    THEN { [Inert EXCEPT !.fetches = {1}, !.sleeps = {1}, !.branches = {1}, !.other = {[Rows("rows", 300) EXCEPT !.status = 500]}] }
    ELSE { Inert, [Inert EXCEPT !.sleeps = {2}, !.fails = {2}], [Inert EXCEPT !.sleeps = {1}, !.cached = TRUE, !.fetches = {2}],
           [Inert EXCEPT !.branches = {2}, !.echo = "raw", !.cached = TRUE], [Inert EXCEPT !.branches = {1}, !.echo = "encoded"],
           [Inert EXCEPT !.page = {Rows("rows", 300), Rows("ads", 300)}],
           [Inert EXCEPT !.echo = "raw", !.errors = TRUE, !.blocks = TRUE] }

\* Policies that a browser and the check read alike, and those they do not; a page out
\* of scope.
Source(kind, name) == [kind |-> kind, name |-> name, n |-> 0, host |-> <<>>, sub |-> FALSE, bound |-> FALSE]
Says(name) == Source("keyword", name)
Nonce == Source("nonce", "")
From(labels) == [Source("host", "") EXCEPT !.host = labels]
Dir(name, sources) == [name |-> name, sources |-> sources]
Closed == << Dir("base-uri", {Says("self")}), Dir("object-src", {Says("none")}) >>
Drawn(drawn, policies) ==
    [policies |-> policies, monitors |-> <<>>, drawn |-> drawn, coarse |-> FALSE, lapses |-> FALSE, relative |-> TRUE]
MCJsonpHosts == << <<"api", "cdn">>, <<"cdn">> >>
MCPolicyAllowed(p) == p # "p3"
MCPolicyDocuments(p) ==
    CASE p = "p1" ->
           { Drawn("anew", << <<Dir("script-src", {Nonce}), Dir("script-src", {Source("any", "")})>> \o Closed >>),
             Drawn("never", << <<Dir("script-src", {Says("self")}), Dir("style-src", {Nonce})>> \o Closed >>),
             [Drawn("anew", << <<Dir("script-src", {Nonce, Says("unsafe-inline")})>> \o Closed >>) EXCEPT !.coarse = TRUE],
             Drawn("rarely", << <<Dir("script-src", {Nonce, Says("strict-dynamic"), From(<<"cdn">>)}),
                                  Dir("default-src", {Source("any", "")})>> >>),
             [Drawn("never", << <<Dir("script-src", {Nonce}), Dir("style-src", {Source("any", "")})>> \o Closed >>)
                 EXCEPT !.lapses = TRUE],
             Drawn("anew", << <<Dir("default-src", {Says("unsafe-inline"), [From(<<"cdn">>) EXCEPT !.sub = TRUE]}),
                                Dir("base-uri", {Source("scheme", "data:")})>>, Closed >>) }
      [] p = "p2" ->
           { Drawn("anew", << <<Dir("default-src", {Source("scheme", "https:"), Says("unsafe-eval")}),
                                Dir("base-uri", {Source("any", "")}), Dir("form-action", {Source("any", "")}),
                                Dir("frame-ancestors", {Source("any", "")})>> >>),
             [Drawn("anew", <<>>) EXCEPT !.monitors = << <<Dir("script-src", {Says("unsafe-inline")})>> >>],
             Drawn("anew", << <<Dir("style-src", {Says("unsafe-inline")}), Dir("object-src", {Source("any", "")})>> >>),
             Drawn("anew", << <<Dir("script-src", {From(<<"api", "cdn">>), [From(<<"cdn">>) EXCEPT !.bound = TRUE]})>> \o Closed >>) }
      [] OTHER -> { Drawn("never", <<Closed>>) }
MCEndpoints(h) == IF h = <<"cdn">> THEN {"calls", "down"} ELSE {"calls", "mentions"}

\* Two pages of one host and one of another; a path out of scope, a mirror further on.
MCAuditHost(p) == IF p = "p3" THEN "idp" ELSE "shop"
MCAuditAllowed(h, path) == path # "/swagger.json"
MCKnownPaths(kind) ==
    IF kind = "openapi" THEN <<"/openapi.json", "/swagger.json", "/v3/api-docs">> ELSE <<"/openid", "/oauth">>
Call(method, path, security) == [method |-> method, path |-> path, security |-> security]
Description ==
    [status |-> 200, marked |-> TRUE, json |-> TRUE, holds |-> {"credentials"}, schemes |-> TRUE, security |-> {{"key"}},
     ops |-> { Call("GET", "/users", <<>>), Call("POST", "/users", << {{"key"}, {"key", "oauth"}} >>),
               Call("GET", "/health", << {} >>), Call("GET", "/login", << {{}} >>), Call("PUT", "/cart", << {{}, {"key"}} >>),
               Call("TRACE", "/users", << {} >>) }]
Unsecured == [Description EXCEPT !.security = {}, !.holds = {}]
Metadata ==
    [status |-> 200, json |-> TRUE, issuer |-> TRUE, algs |-> {"rs256"}, auth |-> {"none", "basic"}, pkce |-> {"s256", "plain"},
     types |-> {{"code"}, {"code", "id_token", "token"}}, plain |-> {}]
Careless == [Metadata EXCEPT !.algs = {"none", "hs256"}, !.auth = {"none"}, !.pkce = {"plain"},
                             !.types = {{"code"}, {"token", "id_token"}}, !.plain = {"token_endpoint"}]
MCPublished(kind, h) ==
    IF kind = "openapi"
    THEN IF h = "idp" THEN { "/openapi.json" :> Description, "/openapi.json" :> [Description EXCEPT !.json = FALSE] }
         ELSE { "/openapi.json" :> Description @@ "/v3/api-docs" :> Unsecured,
                "/openapi.json" :> [Description EXCEPT !.marked = FALSE] @@ "/swagger.json" :> Description
                    @@ "/v3/api-docs" :> Unsecured,
                "/openapi.json" :> [Description EXCEPT !.status = 403] @@ "/v3/api-docs" :> [Unsecured EXCEPT !.schemes = FALSE] }
    ELSE IF h = "shop" THEN { <<>>, "/oauth" :> Metadata }
         ELSE { "/openid" :> Careless @@ "/oauth" :> Metadata, "/openid" :> [Careless EXCEPT !.issuer = FALSE] @@ "/oauth" :> Metadata,
                "/openid" :> [Metadata EXCEPT !.pkce = {}] }

\* Every beginning of a page of up to three lexemes before the input and some ends after
\* it; longer ones, inputs that share a name, encode, come back twice or in a header.
Reflects(page) ==
    [loc |-> "query", name |-> "q", allowed |-> TRUE, page |-> page, encodes |-> {}, header |-> FALSE, html |-> TRUE]
Lone(input) == [inputs |-> <<input>>, aggressive |-> FALSE]
Before == UNION { [1 .. n -> {"w", "<t", "x=", "q", "a", ">", "<!--", "<script", "\\"}] : n \in 0 .. 3 }
Afterwards == { <<>>, <<"q", ">">>, <<"a", "-->">>, <<"nl", "</script", ">">>, <<"q", ";", "</script", ">">> }
InScriptBody(string) == <<"<script", ">", "w">> \o string \o <<";", "nl", "w", "</script", "x=", "w", ">", "w">>
Comments == <<"<!--", "SLOT", "-->", "SAFE">>
MCReflectedPages ==
    { Lone(Reflects(b \o <<"SLOT">> \o a)) : b \in Before, a \in Afterwards }
    \cup { Lone(Reflects(InScriptBody(s))) :
             s \in { <<"q", "SLOT", "q">>, <<"a", "q", "SLOT", "a">>, <<"q", "\\", "q", "SLOT", "q">>, <<"SLOT", "a", "w", "a">>,
                     <<"q", "\\", "SLOT", "q">>, <<"//", "SLOT">>, <<"q", "nl", "SLOT">> } }
    \cup { Lone([Reflects(<<"<t", "x=", "w", ">", "SLOT">>) EXCEPT !.encodes = e, !.header = h]) :
             e \in { {}, {"<svg", "<img"} }, h \in BOOLEAN }
    \cup { [inputs |-> << [Reflects(<<"<t", "x=", "q", "SAFE", "q", ">", "SLOT">>) EXCEPT !.encodes = e, !.header = TRUE],
                          [Reflects(Comments) EXCEPT !.loc = "form"], Reflects(<<"SLOT">>),
                          [Reflects(<<"w">>) EXCEPT !.name = "none", !.header = TRUE],
                          [Reflects(<<"SLOT">>) EXCEPT !.name = "out", !.allowed = FALSE],
                          [Reflects(<<"<textarea", ">", "SLOT", "</textarea", ">">>) EXCEPT !.name = "area", !.html = FALSE] >>,
            aggressive |-> level] : e \in { {}, {"q", "a"}, {"<svg", "<img", ">"} }, level \in BOOLEAN }

\* Every page of up to three tags, with and without a form before them, and pages with what the
\* walk reads in another way.
Nowhither == [kind |-> "absent", scheme |-> "", host |-> ""]
Full(scheme, host) == [kind |-> "full", scheme |-> scheme, host |-> host]
OfKind(kind) == [Nowhither EXCEPT !.kind = kind]
Tag(tag, ref) ==
    [tag |-> tag, end |-> FALSE, ref |-> ref, method |-> "", type |-> "", name |-> "", owner |-> FALSE]
Close(tag) == [Tag(tag, Nowhither) EXCEPT !.end = TRUE]
Secret == [Tag("input", Nowhither) EXCEPT !.type = "password", !.name = "p"]
Unsafe == Full("http", "far")
MCFormTags ==
    { Tag("base", Unsafe), Tag("form", OfKind("path")), Tag("form", Unsafe), Close("form"), Secret,
      [Tag("input", OfKind("path")) EXCEPT !.type = "submit", !.name = "go"], [Tag("button", Unsafe) EXCEPT !.type = "button"],
      [Tag("button", [OfKind("net") EXCEPT !.host = "near"]) EXCEPT !.method = "POST"], [Tag("textarea", Nowhither) EXCEPT !.name = "card"] }
MCFormDocuments ==
    { [https |-> TRUE, html |-> TRUE, tags |-> first \o tags] :
        first \in { <<>>, <<[Tag("form", OfKind("path")) EXCEPT !.method = "POST"]>> },
        tags \in UNION { [1 .. n -> MCFormTags] : n \in 0 .. 3 } }
    \cup { [https |-> h, html |-> ~h, tags |-> <<Tag("form", Unsafe)>>] : h \in BOOLEAN }
    \cup { [https |-> TRUE, html |-> TRUE, tags |-> <<Tag("form", OfKind("fragment")), [Secret EXCEPT !.owner = TRUE], Close("form"),
            Tag("form", OfKind("empty")), Tag("button", OfKind("script")), [Tag("button", Unsafe) EXCEPT !.type = "fancy"], Tag("base", OfKind("empty")), Secret>>] }
-----------------------------------------------------------------------------
allVars == <<episode, inputVars, raceVars, framingVars, storedVars, idVars, tokenVars, takeoverVars, sweepVars,
             cacheVars, blindVars, policyVars, knownVars, reflectionVars, formVars>>

Init ==
    /\ episode \in Episodes
    /\ episode = "pages"    \/ reading = [html |-> TRUE, url |-> Here, doc |-> <<>>]
    /\ episode = "race"     \/ behind = [url \in { f.url : f \in UNION { Candidates(p) : p \in RacePages } } |-> "steady"]
    /\ episode = "framing"  \/ chain = CHOOSE c \in Chains : TRUE
    /\ episode = "stored"   \/ intact = [s \in { s \in AllSinks : SinkAllowed(s) } |-> {}]
    /\ episode = "idor"     \/ app = [n \in Names |-> CHOOSE a \in AppsBehind(n) : TRUE]
    /\ episode = "token"    \/ site = CHOOSE v \in Validators : TRUE
    /\ episode = "takeover" \/ edge = [h \in Hosts |-> CHOOSE e \in Edges(h) : TRUE]
    /\ episode = "sweep"    \/ standing = [r \in Roots |-> CHOOSE s \in Sites : TRUE]
    /\ episode = "cache"    \/ origin = Unmoved
    /\ episode = "blind"    \/ (check = "time" /\ sink = [s \in AllBlindSinks |-> CHOOSE b \in Behaviours(s) : TRUE])
    /\ episode = "policy"   \/ (shown = [p \in PolicyPages |-> CHOOSE d \in PolicyDocuments(p) : TRUE]
                               /\ endpoint = [h \in ToSet(JsonpHosts) |-> CHOOSE e \in Endpoints(h) : TRUE])
    /\ episode = "known"    \/ (auditing = "openapi"
                               /\ published = [h \in AuditHosts |-> CHOOSE d \in Published("openapi", h) : TRUE])
    /\ episode = "reflection" \/ behindPage = Lone(Reflects(<<"SLOT">>))
    /\ episode = "forms"    \/ formPage = [https |-> FALSE, html |-> TRUE, tags |-> <<Tag("form", Unsafe)>>]
    /\ RaceInit /\ FramingInit /\ StoredInit /\ IdInit /\ TokenInit /\ TakeoverInit /\ SweepInit
    /\ CacheInit /\ BlindInit /\ PolicyInit /\ KnownInit /\ FormInit /\ ReflectionInit /\ InputInit

Parsing == episode = "pages" /\ InputNext
      /\ UNCHANGED <<raceVars, framingVars, storedVars, idVars, tokenVars, takeoverVars, sweepVars, cacheVars, blindVars,
                     policyVars, knownVars, reflectionVars, formVars>>
Racing == episode = "race" /\ RaceNext
      /\ UNCHANGED <<inputVars, framingVars, storedVars, idVars, tokenVars, takeoverVars, sweepVars, cacheVars, blindVars,
                     policyVars, knownVars, reflectionVars, formVars>>
Framing == episode = "framing" /\ FramingNext
      /\ UNCHANGED <<inputVars, raceVars, storedVars, idVars, tokenVars, takeoverVars, sweepVars, cacheVars, blindVars,
                     policyVars, knownVars, reflectionVars, formVars>>
Planting == episode = "stored" /\ StoredNext
      /\ UNCHANGED <<inputVars, raceVars, framingVars, idVars, tokenVars, takeoverVars, sweepVars, cacheVars, blindVars,
                     policyVars, knownVars, reflectionVars, formVars>>
Swapping == episode = "idor" /\ IdNext
      /\ UNCHANGED <<inputVars, raceVars, framingVars, storedVars, tokenVars, takeoverVars, sweepVars, cacheVars, blindVars,
                     policyVars, knownVars, reflectionVars, formVars>>
Forging == episode = "token" /\ TokenNext
      /\ UNCHANGED <<inputVars, raceVars, framingVars, storedVars, idVars, takeoverVars, sweepVars, cacheVars, blindVars,
                     policyVars, knownVars, reflectionVars, formVars>>
Resolving == episode = "takeover" /\ TakeoverNext
      /\ UNCHANGED <<inputVars, raceVars, framingVars, storedVars, idVars, tokenVars, sweepVars, cacheVars, blindVars,
                     policyVars, knownVars, reflectionVars, formVars>>
Sweeping == episode = "sweep" /\ SweepNext
      /\ UNCHANGED <<inputVars, raceVars, framingVars, storedVars, idVars, tokenVars, takeoverVars, cacheVars, blindVars,
                     policyVars, knownVars, reflectionVars, formVars>>
Caching == episode = "cache" /\ CacheNext
      /\ UNCHANGED <<inputVars, raceVars, framingVars, storedVars, idVars, tokenVars, takeoverVars, sweepVars, blindVars,
                     policyVars, knownVars, reflectionVars, formVars>>
Inferring == episode = "blind" /\ BlindNext
      /\ UNCHANGED <<inputVars, raceVars, framingVars, storedVars, idVars, tokenVars, takeoverVars, sweepVars, cacheVars,
                     policyVars, knownVars, reflectionVars, formVars>>
Auditing == episode = "policy" /\ PolicyNext
      /\ UNCHANGED <<inputVars, raceVars, framingVars, storedVars, idVars, tokenVars, takeoverVars, sweepVars, cacheVars,
                     blindVars, knownVars, reflectionVars, formVars>>
Consulting == episode = "known" /\ KnownNext
      /\ UNCHANGED <<inputVars, raceVars, framingVars, storedVars, idVars, tokenVars, takeoverVars, sweepVars, cacheVars,
                     blindVars, policyVars, reflectionVars, formVars>>
Reflecting == episode = "reflection" /\ ReflectionNext
      /\ UNCHANGED <<inputVars, raceVars, framingVars, storedVars, idVars, tokenVars, takeoverVars, sweepVars, cacheVars,
                     blindVars, policyVars, knownVars, formVars>>
Submitting == episode = "forms" /\ FormNext
      /\ UNCHANGED <<inputVars, raceVars, framingVars, storedVars, idVars, tokenVars, takeoverVars, sweepVars, cacheVars,
                     blindVars, policyVars, knownVars, reflectionVars>>
Next ==
    /\ UNCHANGED episode
    /\ \/ Parsing \/ Racing \/ Framing \/ Planting \/ Swapping \/ Forging \/ Resolving \/ Sweeping \/ Caching \/ Inferring
       \/ Auditing \/ Consulting \/ Reflecting \/ Submitting

Spec == Init /\ [][Next]_allVars
-----------------------------------------------------------------------------
\* A check that is not the one of the behaviour stays as it began.
During(e, part) == episode = e => part

\* What no check may do on its way: burst one target from two pages, let a last byte go
\* early, plant twice in one sink, let the corpus outgrow its caps, probe one token from
\* two pages, leave the scope, sweep or walk one host twice, or poison what a cache serves.
ProbesKeepBounds ==
    /\ During("race", RaceKeepsBounds) /\ During("stored", StoredKeepsBounds) /\ During("idor", CorpusKeepsBounds)
    /\ During("token", TokenKeepsBounds) /\ During("takeover", TakeoverKeepsBounds) /\ During("sweep", SweepKeepsBounds)
    /\ During("cache", CacheKeepsBounds) /\ During("blind", BlindKeepsBounds) /\ During("known", KnownKeepsBounds)

\* What a check reports is so of the server behind it: a resource that answers some of the
\* requests sent at once and not the others, and never one that is spent by the first
\* (race-condition), an input whose payload comes through as it was sent, once
\* (stored-xss), an identifier that is not looked at whose it is (idor), a path that is
\* served, where all missing ones look alike (content-discovery), what a document in scope
\* says (the well-known documents).
ReportsHaveGrounds ==
    /\ During("race", RaceEarned) /\ During("stored", StoredEarned) /\ During("idor", IdorEarned)
    /\ During("sweep", SweepEarned) /\ During("known", KnownEarned)

\* The same of the checks whose evidence is the data of the answers or the honesty of what
\* answers: of each, its part says how far this goes.
FindingsAreEarned ==
    /\ During("framing", SmugglingEarned) /\ During("token", TokenEarned) /\ During("takeover", TakeoverEarned)
    /\ During("cache", PoisonEarned) /\ During("blind", BlindEarned) /\ During("policy", PolicyEarned)
    /\ During("reflection", PlacesAreRight) /\ During("reflection", ReflectionEarned)
    /\ During("forms", FormsEarned)

\* What is there and within a check's reach is reported by a run that nothing
\* disturbed: of each check, its part names the disturbances.
FlawsAreFound ==
    /\ During("race", RaceFound) /\ During("framing", SmugglingFound) /\ During("stored", StoredFound)
    /\ During("idor", IdorFound) /\ During("token", TokenFound) /\ During("takeover", TakeoverFound)
    /\ During("sweep", SweepFound) /\ During("cache", PoisonFound) /\ During("blind", BlindsFound)
    /\ During("policy", PolicyFound) /\ During("known", KnownFound) /\ During("reflection", ReflectionFound)
    /\ During("forms", FormsFound)

\* Beyond the reports that have their grounds, a check says of a server neither what is
\* not so nor, undisturbed, less than is so and within its reach.
VerdictsAreRight == FindingsAreEarned /\ FlawsAreFound

\* The pages go on by themselves; what they wait for is the server, whose answers and
\* errors both let them.
HangSpec == Spec /\ \A p \in IdPages : WF_idVars(IdStep(p))

\* Generate "may return fewer than want when the family has no further variants worth
\* probing - the IDOR check tolerates a short return" (idor_patterns.go:20-23), so a run
\* does not stay in it.
RenderingEnds == \A p \in IdPages : ids[p].at = "rendering" ~> ids[p].at # "rendering"
=============================================================================
