----------------------------- MODULE TokenProbe -----------------------------
(***************************************************************************)
(* The jwt-vulns check (checks/crypto/jwt_vulns.lua,                       *)
(* lua_engine/checks/crypto/jwt*.go): every token that a page shows is     *)
(* probed once in the scan, with forgeries that a sound validator refuses. *)
(*                                                                         *)
(* A token is [id, parses, alg, signed, jku, x5u, kidIsUrl]; a page shows  *)
(* tokens, each with the way a forgery goes back: "cookie", "header" or    *)
(* "bearer" for one seen in a body.  A key is [name, enc], enc numbering   *)
(* the encodings of a public key and 0 for a secret.                       *)
(*                                                                         *)
(* What validates them is [unchecked, nones, hmacs, key, kid, lax,         *)
(* fetches]: it checks no signature at all; the spellings of "none" and    *)
(* the HMAC algorithms that it lets pass; its key; what it makes of kid    *)
(* ("opaque", "file", "query", or "noisy" for a query whose errors show);  *)
(* whether it ignores crit; the headers whose key it would fetch.          *)
(***************************************************************************)
EXTENDS Naturals, FiniteSets, Sequences, SequencesExt

CONSTANTS
    TokenPages,         \* pages the check runs on at the same time
    TokensOn(_),        \* the tokens of a page in their order: [token, via]
    PageReads(_),       \* the ways in which a page takes a token
    Validators,         \* what may stand behind the site
    Listener,           \* whether --oob is on
    KeyDoc(_),          \* what a URL answers: [keys, uri]
    DiscoveryPaths,     \* algConfusionDiscoveryPaths, on the host of the pages
    SameOrigin(_),      \* whether a URL is of that host
    ForgeryLimit        \* algConfusionMaxProbes

VARIABLES
    jwt,                \* per page, the run of the check on it
    tokensProbed,       \* JWTVulns.probed
    site,               \* the validator
    lured, called,      \* the canaries sent, and those that were called: [token, field]
    forged              \* the findings: [token, kind, page]

tokenVars == <<jwt, tokensProbed, site, lured, called, forged>>

Hmacs == {"HS256", "HS384", "HS512"}
Asymmetric == {"RS256", "RS384", "RS512", "PS256", "PS384", "PS512", "ES256", "ES384", "ES512"}
Empty == [name |-> "empty", enc |-> 0]
Listed == [name |-> "listed", enc |-> 0]
WeakKeys == {Empty, Listed}             \* weakHS256Secrets
-----------------------------------------------------------------------------
(* Forgeries                                                               *)

Forgery(alg, by, kid, crit) == [alg |-> alg, by |-> by, kid |-> kid, crit |-> crit]
Unsigned == [name |-> "unsigned", enc |-> 0]

\* probeAlgNone, probeKidTraversal and probeKidSQLi
NoneForgeries == << Forgery("none", Unsigned, "", FALSE), Forgery("None", Unsigned, "", FALSE),
                    Forgery("NONE", Unsigned, "", FALSE), Forgery("nOnE", Unsigned, "", FALSE) >>
PathForgeries == << Forgery("HS256", Empty, "null", FALSE), Forgery("HS256", Empty, "climb", FALSE) >>
SqlForgeries == << Forgery("HS256", Empty, "or", FALSE), Forgery("HS256", Empty, "stacked", FALSE),
                   Forgery("HS256", Empty, "union", FALSE) >>

\* publicKeyVariantsFor and probeAlgConfusion: each encoding of each key under each
\* algorithm, up to the limit.
Encodings(key) == CASE key.kty = "RSA" -> 9 [] key.kty = "EC" -> 6 [] OTHER -> 0
ConfusedForgeries(keys) ==
    LET Tries(key) == [i \in 1 .. 3 * Encodings(key) |->
                          Forgery(<<"HS256", "HS384", "HS512">>[((i - 1) % 3) + 1],
                                  [name |-> key.kid, enc |-> ((i - 1) \div 3) + 1], "own", FALSE)]
        all == FlattenSeq([k \in DOMAIN keys |-> Tries(keys[k])])
    IN  SubSeq(all, 1, IF Len(all) < ForgeryLimit THEN Len(all) ELSE ForgeryLimit)

\* probeCritAbuse: only with a way to sign that this validator is known to take.
CritForgeries(weak, none) ==
    (IF weak THEN << Forgery("HS256", site.key, "own", TRUE) >> ELSE <<>>)
    \o (IF none THEN << Forgery("none", Unsigned, "", TRUE) >> ELSE <<>>)

\* The parts of probeToken in order; one that has a hit is left.
Parts == <<"alg-none", "kid-traversal", "kid-sqli", "alg-confusion", "crit-abuse">>
SymmetricAlg(token) == token.alg = "" \/ token.alg \in Hmacs
Forgeries(kind, token, keys, weak, none) ==
    CASE kind = "alg-none" -> NoneForgeries
      [] kind = "kid-traversal" -> IF SymmetricAlg(token) THEN PathForgeries ELSE <<>>
      [] kind = "kid-sqli" -> IF SymmetricAlg(token) THEN SqlForgeries ELSE <<>>
      [] kind = "alg-confusion" -> IF token.alg \in Asymmetric THEN ConfusedForgeries(keys) ELSE <<>>
      [] kind = "crit-abuse" -> CritForgeries(weak, none)

\* What the validator makes of one.
KeyFor(f) ==
    IF \/ f.kid \in {"null", "climb"} /\ site.kid = "file"
       \/ f.kid = "union" /\ site.kid \in {"query", "noisy"}
    THEN Empty ELSE site.key
Passes(f) ==
    /\ f.crit => site.lax
    /\ \/ site.unchecked
       \/ f.by = Unsigned /\ f.alg \in site.nones
       \/ f.alg \in site.hmacs /\ f.by = KeyFor(f)
Complains(f) == f.kid = "stacked" /\ site.kid = "noisy"

\* looksAccepted, or the error patterns that probeKidSQLi looks for.
AnyAnswer(f) == TRUE
Hit(f) == Passes(f) \/ Complains(f)
-----------------------------------------------------------------------------
(* A run                                                                   *)

NoToken == [id |-> "", parses |-> FALSE, alg |-> "", signed |-> FALSE, jku |-> "", x5u |-> "", kidIsUrl |-> FALSE]

BetweenTokens(todo, got, told, clean) ==
    [at |-> "taking", todo |-> todo, token |-> NoToken, via |-> "", field |-> "jku", weak |-> FALSE, none |-> FALSE,
     urls |-> <<>>, asked |-> {}, keys |-> <<>>, part |-> 1, next |-> 1, got |-> got, told |-> told, clean |-> clean]
PutDown(run) == BetweenTokens(run.todo, run.got, run.told, run.clean)

TokenInit ==
    /\ jwt = [p \in TokenPages |-> BetweenTokens(TokensOn(p), {}, {}, TRUE)]
    /\ tokensProbed = {} /\ lured = {} /\ called = {} /\ forged = {}
    /\ site \in Validators

Kept == UNCHANGED <<site, lured, called, forged>>

\* tryWeakHMACSecret and the advisories
Weak(token) == token.alg \in Hmacs /\ token.signed /\ site.key \in WeakKeys
Offline(p, token) ==
    { [token |-> token.id, kind |-> k, page |-> p] :
        k \in (IF Weak(token) THEN {"weak-secret"} ELSE {})
              \cup (IF token.jku # "" \/ token.x5u # "" THEN {"key-url"} ELSE {})
              \cup (IF token.kidIsUrl THEN {"kid-as-url"} ELSE {}) }

\* The next token of the page, unless a run has taken it: the test and the mark are
\* one step under the mutex, and come before anything is sent.
TakenHere(p, id) == FALSE
Taken(p, id) == id \in tokensProbed
TakeToken(p) ==
    /\ jwt[p].at = "taking" /\ jwt[p].todo # <<>>
    /\ LET shown == Head(jwt[p].todo)
           token == shown.token
           rest == [jwt EXCEPT ![p].todo = Tail(@)]
       IN  IF Taken(p, token.id) THEN jwt' = rest /\ UNCHANGED tokensProbed
           ELSE /\ tokensProbed' = tokensProbed \cup {token.id}
                /\ IF ~token.parses THEN jwt' = rest
                   ELSE jwt' = [rest EXCEPT ![p].at = IF Listener THEN "luring" ELSE "asking",
                                            ![p].token = token, ![p].via = shown.via, ![p].field = "jku",
                                            ![p].weak = Weak(token), ![p].none = FALSE, ![p].keys = <<>>,
                                            ![p].got = @ \cup Offline(p, token)]
    /\ Kept

\* probeOOBKeyURL: the canary is registered before it is sent; an error ends the pair.
Lure(p) ==
    /\ jwt[p].at = "luring"
    /\ lured' = lured \cup { [token |-> jwt[p].token.id, field |-> jwt[p].field] }
    /\ \/ jwt' = [jwt EXCEPT ![p].at = IF jwt[p].field = "jku" THEN "luring" ELSE "asking", ![p].field = "x5u"]
       \/ jwt' = [jwt EXCEPT ![p].at = "asking", ![p].clean = FALSE]
    /\ UNCHANGED <<tokensProbed, site, called, forged>>

\* The validator calls a canary, at any time after it was sent.
CanaryCalled ==
    /\ \E c \in lured \ called : c.field \in site.fetches /\ called' = called \cup {c}
    /\ UNCHANGED <<jwt, tokensProbed, site, lured, forged>>

\* buildOracle: the token as it was, and none.  Only a page that tells them apart goes on.
AskPage(p) ==
    /\ jwt[p].at = "asking"
    /\ \/ /\ jwt[p].via \in PageReads(p)
          /\ jwt' = [jwt EXCEPT ![p].at = "forging", ![p].told = @ \cup {jwt[p].token}]
       \/ jwt[p].via \notin PageReads(p) /\ jwt' = [jwt EXCEPT ![p] = PutDown(@)]
       \/ jwt' = [jwt EXCEPT ![p] = [PutDown(@) EXCEPT !.clean = FALSE]]
    /\ UNCHANGED tokensProbed /\ Kept

Plan(run) == Forgeries(Parts[run.part], run.token, run.keys, run.weak, run.none)

\* One forgery: a hit ends its part, and an error is a miss.
Forge(p) ==
    /\ jwt[p].at = "forging" /\ jwt[p].next <= Len(Plan(jwt[p]))
    /\ LET f == Plan(jwt[p])[jwt[p].next]
           kind == Parts[jwt[p].part]
           goOn == [jwt EXCEPT ![p].next = @ + 1]
       IN  \/ /\ Hit(f)
              /\ jwt' = [jwt EXCEPT ![p].next = Len(Plan(jwt[p])) + 1,
                                    ![p].none = @ \/ kind = "alg-none",
                                    ![p].got = @ \cup { [token |-> jwt[p].token.id, kind |-> kind, page |-> p] }]
           \/ ~Hit(f) /\ jwt' = goOn
           \/ jwt' = [goOn EXCEPT ![p].clean = FALSE]
    /\ UNCHANGED tokensProbed /\ Kept

\* On to the next part; before the confusion of algorithms the keys are fetched.
KeyUrls(token) ==
    SelectSeq(<<token.jku, token.x5u>>, LAMBDA u : u # "") \o DiscoveryPaths
NextPart(p) ==
    /\ jwt[p].at = "forging" /\ jwt[p].next > Len(Plan(jwt[p]))
    /\ jwt' = IF jwt[p].part = Len(Parts) THEN [jwt EXCEPT ![p] = PutDown(@)]
              ELSE [jwt EXCEPT ![p].part = @ + 1, ![p].next = 1,
                               ![p].at = IF Parts[jwt[p].part + 1] = "alg-confusion" /\ jwt[p].token.alg \in Asymmetric
                                         THEN "fetching" ELSE @,
                               ![p].urls = KeyUrls(jwt[p].token), ![p].asked = {}]
    /\ UNCHANGED tokensProbed /\ Kept

\* tryFetch: a URL of the host, once; a document without keys leads one step further.
Usable(keys) == SelectSeq(keys, LAMBDA k : Encodings(k) > 0)
Follow(url, asked) == url # "" /\ url \notin asked /\ SameOrigin(url)
FetchKeys(p) ==
    /\ jwt[p].at = "fetching" /\ jwt[p].urls # <<>>
    /\ LET url == Head(jwt[p].urls)
           doc == KeyDoc(url)
           on == IF Usable(doc.keys) = <<>> THEN doc.uri ELSE ""
           rest == [jwt EXCEPT ![p].urls = Tail(@)]
           once == [rest EXCEPT ![p].asked = @ \cup {url}]
       IN  IF ~Follow(url, jwt[p].asked) THEN jwt' = rest
           ELSE \/ jwt' = [once EXCEPT ![p].clean = FALSE]
                \/ /\ ~Follow(on, once[p].asked)
                   /\ jwt' = [once EXCEPT ![p].keys = @ \o Usable(doc.keys)]
                \/ /\ Follow(on, once[p].asked)
                   /\ jwt' = [once EXCEPT ![p].asked = @ \cup {on}, ![p].keys = @ \o Usable(KeyDoc(on).keys)]
    /\ UNCHANGED tokensProbed /\ Kept
KeysFetched(p) ==
    /\ jwt[p].at = "fetching" /\ jwt[p].urls = <<>>
    /\ jwt' = [jwt EXCEPT ![p].at = "forging"]
    /\ UNCHANGED tokensProbed /\ Kept

TokenReturns(p) ==
    /\ jwt[p].at = "taking" /\ jwt[p].todo = <<>>
    /\ jwt' = [jwt EXCEPT ![p] = [PutDown(@) EXCEPT !.at = "over", !.got = {}]]
    /\ forged' = forged \cup jwt[p].got
    /\ UNCHANGED <<tokensProbed, site, lured, called>>
CutTokens(p) ==
    /\ jwt[p].at # "over"
    /\ jwt' = [jwt EXCEPT ![p] = [BetweenTokens(<<>>, {}, @.told, FALSE) EXCEPT !.at = "over"]]
    /\ UNCHANGED tokensProbed /\ Kept

\* DrainFacts, once all runs are over: one fact per canary that was called.
DrainTokens ==
    /\ Listener /\ \A p \in TokenPages : jwt[p].at = "over"
    /\ forged' = forged \cup { [token |-> c.token, kind |-> "fetches-" \o c.field, page |-> ""] : c \in called }
    /\ UNCHANGED <<jwt, tokensProbed, site, lured, called>>

TokenStep(p) ==
    TakeToken(p) \/ Lure(p) \/ AskPage(p) \/ Forge(p) \/ NextPart(p) \/ FetchKeys(p) \/ KeysFetched(p) \/ TokenReturns(p)
TokenNext == (\E p \in TokenPages : TokenStep(p) \/ CutTokens(p)) \/ CanaryCalled \/ DrainTokens
-----------------------------------------------------------------------------
\* No token is probed by two runs, and keys are asked of the host alone, whatever a
\* token or a document points to (sameOriginURL).
TokenKeepsBounds ==
    /\ \A p, q \in TokenPages : p # q => jwt[p].told \cap jwt[q].told = {}
    /\ \A p \in TokenPages : \A u \in jwt[p].asked : SameOrigin(u)

\* A finding of a forgery names something the validator does wrong.  Besides the flaw
\* itself, a validator that checks nothing and one whose secret is the empty string
\* let the forgeries for kid pass, too.
Blamed(kind) ==
    CASE kind = "alg-none" -> site.nones # {}
      [] kind = "kid-traversal" -> site.kid = "file" \/ site.key = Empty
      [] kind = "kid-sqli" -> site.kid \in {"query", "noisy"} \/ site.key = Empty
      [] kind = "alg-confusion" -> site.key.enc > 0
      [] kind = "crit-abuse" -> site.lax
      [] kind = "weak-secret" -> site.key \in WeakKeys
      [] kind = "fetches-jku" -> "jku" \in site.fetches
      [] kind = "fetches-x5u" -> "x5u" \in site.fetches
      [] OTHER -> TRUE
TokenEarned == \A f \in forged : site.unchecked \/ Blamed(f.kind)

\* On a page that told the token apart, a run without errors reports what the
\* validator lets pass.
Owed(token) ==
    { k \in {"alg-none", "kid-traversal", "kid-sqli"} :
        \E i \in DOMAIN Forgeries(k, token, <<>>, FALSE, FALSE) : Hit(Forgeries(k, token, <<>>, FALSE, FALSE)[i]) }
    \cup (IF site.lax /\ "HS256" \in site.hmacs /\ Weak(token) THEN {"crit-abuse"} ELSE {})
TokenFound ==
    \A p \in TokenPages : jwt[p].at = "over" /\ jwt[p].clean =>
        \A token \in jwt[p].told : \A k \in Owed(token) :
            [token |-> token.id, kind |-> k, page |-> p] \in forged
=============================================================================
