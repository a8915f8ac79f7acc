----------------------------- MODULE CacheProbe -----------------------------
(***************************************************************************)
(* The cache-poisoning check (checks/smuggling/cache_poisoning.lua,        *)
(* lua_engine/checks/smuggling/cache_poisoning*.go) and what it must not   *)
(* do: leave in a shared cache what a visitor of the site could be served. *)
(*                                                                         *)
(* An answer is [status, len, head, mid, tail, shows, echoes, html]: the   *)
(* body as its length and the contents of three regions, the canaries in   *)
(* the body and those in the headers the check looks at.  A site is the    *)
(* application and the cache before it: the answers it may give on a page  *)
(* and on its path with the suffix, the headers it puts into the body or   *)
(* into an address, those it routes by, whether it minds an unknown        *)
(* parameter, its Vary, its Cache-Control, when it hints at a cache, and   *)
(* whether the cache tells queries apart and stores pages.                 *)
(***************************************************************************)
EXTENDS Naturals, FiniteSets, Sequences

CONSTANTS
    CachedPages,        \* pages the check runs on at the same time
    Address(_),         \* of a page: [path, query, auth, suffixed, allowed]
    Boldly,             \* whether the scan runs at the aggressive level
    CachedSites,        \* the sites that may stand behind them
    LostAnswers,        \* bound: how many answers fail to come
    Expiries            \* bound: how often an entry of the cache ages
ASSUME CacheAssumption ==       \* no page of a site has the name of the suffix
    /\ \A p, q \in CachedPages : Address(q).path # Append(Address(p).path, "css")
    /\ \A site \in CachedSites : \A a \in site.page : {"shows", "echoes"} \subseteq DOMAIN a

VARIABLES
    poison,             \* per page, the run of the check on it
    shelf,              \* what the shared cache holds: [key, answer]
    origin,             \* the site
    tainted,            \* the canaries a visitor was served
    lost,               \* how many answers failed to come
    expired,            \* how often the cache forgot a page
    poisonFound         \* the findings: [page, kind, severity]

cacheVars == <<poison, shelf, origin, tainted, lost, expired, poisonFound>>
-----------------------------------------------------------------------------
(* The probes and what their answers say                                   *)

\* CachePoisonHeaderProbesLua: two headers each share the canary of their value.
HeaderProbe(header, canary, rewrites) == [header |-> header, canary |-> canary, rewrites |-> rewrites]
HeaderProbes ==
    << HeaderProbe("x-forwarded-host", "host", FALSE), HeaderProbe("x-forwarded-scheme", "scheme", FALSE),
       HeaderProbe("x-forwarded-proto", "scheme", FALSE), HeaderProbe("x-original-url", "path", TRUE),
       HeaderProbe("x-rewrite-url", "path", TRUE) >>

\* CachePoisonFindReflection: a canary the page shows anyway proves nothing.
ReflectsAtAll(canary, a, base) == canary \in a.shows \cup a.echoes
FindReflection(canary, a, base) == canary \notin base.shows /\ canary \in a.shows \cup a.echoes

\* CachePoisonResponseDiverged: another status, or a length a quarter off.
Longer(a, b) == IF a.len < b.len THEN b.len ELSE a.len
Shorter(a, b) == IF a.len < b.len THEN a.len ELSE b.len
ResponseDiverged(a, base) ==
    \/ a.status # base.status
    \/ a.len > 0 /\ base.len > 0 /\ Longer(a, base) - Shorter(a, base) > Longer(a, base) \div 4

\* bodiesMatch: of one length the bodies must be equal; else their beginnings must,
\* and where the shorter one has a middle of its own, that.
HeadsMatch(a, base) ==
    a.len > 0 /\ base.len > 0 /\ Longer(a, base) - Shorter(a, base) <= Longer(a, base) \div 20 /\ a.head = base.head
Texts(a) == <<a.head, a.mid, a.tail, a.shows>>
BodiesMatch(a, base) ==
    /\ a.len > 0 /\ base.len > 0
    /\ IF a.len = base.len THEN Texts(a) = Texts(base)
       ELSE /\ Longer(a, base) - Shorter(a, base) <= Longer(a, base) \div 20
            /\ a.head = base.head
            /\ Shorter(a, base) \div 2 >= 384 => a.mid = base.mid

\* vary_keyed, CachePoisonParseVary
AnyVary(site, header) == site.vary # {}
VaryKeyed(site, header) == site.vary \cap {"*", header} # {}
-----------------------------------------------------------------------------
(* The site                                                                *)

Nothing == ""
\* The application on a request with one extra header, or none, and with or without
\* the extra parameter.
AppAnswers(p, header, extra) ==
    LET i == CHOOSE n \in DOMAIN HeaderProbes : HeaderProbes[n].header = header
        canary == IF header = Nothing THEN {} ELSE {HeaderProbes[i].canary}
        Marked(a) == [a EXCEPT !.shows = @ \cup (IF header \in origin.reflects THEN canary ELSE {}),
                               !.echoes = @ \cup (IF header \in origin.links THEN canary ELSE {})]
        Astray(a) == [a EXCEPT !.status = 404]
    IN  { IF header \in origin.routes \/ (extra /\ origin.strict) THEN Astray(Marked(a)) ELSE Marked(a) : a \in origin.page }

\* What a request finds in the cache, and the cache after an answer of the application.
OnShelf(key) == { s.answer : s \in { e \in shelf : e.key = key } }
Exchange(key, fresh, storable, a) ==
    IF OnShelf(key) # {} THEN a \in OnShelf(key) /\ UNCHANGED shelf
    ELSE a \in fresh /\ shelf' = IF storable THEN shelf \cup { [key |-> key, answer |-> a] } ELSE shelf

Stores == origin.stores /\ ~origin.private /\ "*" \notin origin.vary
ShelfKey(p, query, header) ==
    [path |-> Address(p).path, query |-> IF origin.keysQuery THEN query ELSE <<>>,
     by |-> IF header \in origin.vary THEN header ELSE Nothing]

\* cachePoisonProbeURL: the page's own query and a parameter that is never used again.
\* The nonce is random; the page and the header stand for it.
SameUrl(p, header) == <<Address(p).query>>
ProbeUrl(p, header) == <<Address(p).query, p, header>>
PageKey(p) == ShelfKey(p, <<Address(p).query>>, Nothing)
ProbeKey(p, header) == ShelfKey(p, ProbeUrl(p, header), header)
SuffixKey(p) == [path |-> Append(Address(p).path, "css"), query |-> IF origin.keysQuery THEN <<Address(p).query>> ELSE <<>>, by |-> Nothing]

CachesHint(hit) == origin.hints = "always" \/ (origin.hints = "hits" /\ hit)
-----------------------------------------------------------------------------
(* A run                                                                   *)

NoAnswer == [status |-> 0, len |-> 0, head |-> "", mid |-> "", tail |-> "", shows |-> {}, echoes |-> {}, html |-> FALSE]
CacheInit ==
    /\ poison = [p \in CachedPages |-> [at |-> "reading", base |-> NoAnswer, hinted |-> FALSE, todo |-> <<>>,
                                        found |-> {}, failed |-> FALSE]]
    /\ shelf = {} /\ tainted = {} /\ lost = 0 /\ expired = 0 /\ poisonFound = {}
    /\ origin \in CachedSites

LeaveAlone(p) ==
    /\ poison[p].at = "reading" /\ ~Address(p).allowed
    /\ poison' = [poison EXCEPT ![p].at = "over"]
    /\ UNCHANGED <<shelf, origin, tainted, lost, expired, poisonFound>>

\* An answer that does not come, and the end of the context, which ends the run.
Lost == lost < LostAnswers /\ lost' = lost + 1
CutPoison(p) ==
    /\ poison[p].at # "over" /\ Lost
    /\ poison' = [poison EXCEPT ![p].at = "over", ![p].failed = TRUE]
    /\ UNCHANGED <<shelf, origin, tainted, expired, poisonFound>>

\* The page itself; an error ends the run, and so does a status below 200 or above 399.
ReadBaseline(p) ==
    /\ poison[p].at = "reading"
    /\ Address(p).allowed
    /\ \E a \in OnShelf(PageKey(p)) \cup origin.page :
           LET hinted == CachesHint(OnShelf(PageKey(p)) # {}) IN
           /\ Exchange(PageKey(p), AppAnswers(p, Nothing, FALSE), Stores, a)
           /\ poison' = IF a.status \in 200 .. 399
                        THEN [poison EXCEPT ![p].at = "probing", ![p].base = a, ![p].hinted = hinted,
                                            ![p].todo = IF hinted THEN HeaderProbes ELSE <<>>]
                        ELSE [poison EXCEPT ![p].at = "over"]
    /\ UNCHANGED <<origin, tainted, lost, expired, poisonFound>>

\* probe_unkeyed_header: an error is noted and the next header tried.
ProbeHeader(p) ==
    LET probe == Head(poison[p].todo)
        rest == [poison EXCEPT ![p].todo = Tail(@)]
        key == ProbeKey(p, probe.header)
        fresh == AppAnswers(p, probe.header, TRUE)
        base == poison[p].base
        Tells(a) == FindReflection(probe.canary, a, base) \/ (probe.rewrites /\ ResponseDiverged(a, base))
    IN  /\ poison[p].at = "probing" /\ poison[p].todo # <<>>
        /\ \/ Lost /\ poison' = [rest EXCEPT ![p].failed = TRUE] /\ UNCHANGED shelf
           \/ \E a \in OnShelf(key) \cup fresh :
                  /\ UNCHANGED lost
                  /\ Exchange(key, fresh, Stores, a)
                  /\ poison' = IF Tells(a) /\ ~VaryKeyed(origin, probe.header)
                               THEN [rest EXCEPT ![p].found = @ \cup {[kind |-> probe.header, severity |-> "high"]}]
                               ELSE rest
        /\ UNCHANGED <<origin, tainted, expired, poisonFound>>

\* probe_cache_deception, on paths that look like an account's or at the aggressive
\* level.  The cache goes by the suffix and stores what it is told not to.
Deceives(p) == (Address(p).auth \/ Boldly) /\ poison[p].base.html /\ ~Address(p).suffixed
DeceptionOf(a, base) ==
    IF a.status = 200 /\ a.html /\ BodiesMatch(a, base)
    THEN { [kind |-> "deception", severity |-> IF origin.private THEN "medium" ELSE "high"] } ELSE {}
ProbeSuffix(p) ==
    /\ poison[p].at = "probing" /\ poison[p].todo = <<>> /\ Deceives(p)
    /\ \/ Lost /\ poison' = [poison EXCEPT ![p].at = "reporting", ![p].failed = TRUE] /\ UNCHANGED shelf
       \/ \E a \in OnShelf(SuffixKey(p)) \cup origin.suffix :
              /\ UNCHANGED lost
              /\ Exchange(SuffixKey(p), origin.suffix, origin.stores, a)
              /\ poison' = [poison EXCEPT ![p].at = "reporting", ![p].found = @ \cup DeceptionOf(a, poison[p].base)]
    /\ UNCHANGED <<origin, tainted, expired, poisonFound>>
SkipSuffix(p) ==
    /\ poison[p].at = "probing" /\ poison[p].todo = <<>> /\ ~Deceives(p)
    /\ poison' = [poison EXCEPT ![p].at = "reporting"]
    /\ UNCHANGED <<shelf, origin, tainted, lost, expired, poisonFound>>

\* What was found is returned although some probes failed.
ReturnFindings(p) ==
    /\ poison[p].at = "reporting"
    /\ poison' = [poison EXCEPT ![p].at = "over"]
    /\ poisonFound' = poisonFound \cup { [page |-> p, kind |-> f.kind, severity |-> f.severity] : f \in poison[p].found }
    /\ UNCHANGED <<shelf, origin, tainted, lost, expired>>

\* Somebody else asks for the page.
Visit(p) ==
    /\ \E a \in OnShelf(PageKey(p)) \cup origin.page :
           /\ Exchange(PageKey(p), AppAnswers(p, Nothing, FALSE), Stores, a)
           /\ tainted' = tainted \cup (a.shows \cup a.echoes)
    /\ UNCHANGED <<poison, origin, lost, expired, poisonFound>>

\* What the cache keeps of a page ages.
Expire(p) ==
    /\ expired < Expiries /\ OnShelf(PageKey(p)) # {}
    /\ expired' = expired + 1
    /\ shelf' = { e \in shelf : e.key # PageKey(p) }
    /\ UNCHANGED <<poison, origin, tainted, lost, poisonFound>>

CacheStep(p) == LeaveAlone(p) \/ ReadBaseline(p) \/ ProbeHeader(p) \/ ProbeSuffix(p) \/ SkipSuffix(p) \/ ReturnFindings(p)
CacheNext == \E p \in CachedPages : CacheStep(p) \/ Expire(p) \/ CutPoison(p) \/ Visit(p)
-----------------------------------------------------------------------------
\* Where the cache tells queries apart, no visitor is served a canary that the site does
\* not show by itself; and only the paths of accounts are asked for with the suffix
\* (cachePoisonProbeURL, isAuthLikelyPath).
CacheKeepsBounds ==
    /\ origin.keysQuery => tainted \subseteq UNION { a.shows \cup a.echoes : a \in origin.page }
    /\ \A e \in shelf : \A p \in CachedPages : e.key = SuffixKey(p) =>
           \E q \in CachedPages : SuffixKey(q) = e.key /\ (Address(q).auth \/ Boldly)

\* A header that is reported reaches the answer and is not in Vary, or another one with
\* its canary does and the cache takes both for one; a header that routes is told apart
\* only on a site that does not mind an unknown parameter.  A page with the suffix is
\* the page where both are long enough to compare their middles.
Reaches(header) == header \in origin.reflects \cup origin.links \cup origin.routes
PoisonEarned ==
    \A f \in poisonFound :
        IF f.kind = "deception"
        THEN (\A a \in origin.page : a.len >= 900) => origin.samePage
        ELSE /\ f.kind \notin origin.vary
             /\ \/ Reaches(f.kind) \/ origin.strict
                \/ ~origin.keysQuery /\ \E i, j \in DOMAIN HeaderProbes :
                       /\ HeaderProbes[i].header = f.kind /\ HeaderProbes[j].canary = HeaderProbes[i].canary
                       /\ Reaches(HeaderProbes[j].header)

\* A run without an error reports each header that reaches the answer, where the page it
\* read hinted at a cache and did not show the canary and the cache tells queries apart;
\* and a page that the suffix does not change, unless two readings of it differ but not
\* in length.
Comparable == \A a \in origin.page, b \in origin.suffix : a.len = b.len => Texts(a) = Texts(b)
PoisonFound ==
    \A p \in CachedPages : poison[p].at = "over" /\ ~poison[p].failed /\ poison[p].base # NoAnswer =>
        /\ \A i \in DOMAIN HeaderProbes : LET probe == HeaderProbes[i] IN
               /\ poison[p].hinted /\ origin.keysQuery /\ probe.canary \notin poison[p].base.shows
               /\ origin.vary \cap {"*", probe.header} = {}
               /\ probe.header \in origin.reflects \cup origin.links
               => \E f \in poisonFound : f.page = p /\ f.kind = probe.header
        /\ Deceives(p) /\ origin.samePage /\ Comparable => \E f \in poisonFound : f.page = p /\ f.kind = "deception"
=============================================================================
