----------------------------- MODULE MCServices -----------------------------
(***************************************************************************)
(* What the scanner stands on, each on its own: the stack detector and the *)
(* proxy pool share nothing, so a behaviour is an episode of one of them   *)
(* while the others stay as they began.                                    *)
(***************************************************************************)
EXTENDS Fingerprint, ProxyPool, Setup

VARIABLE episode

MCSiteOf(a) == "h1"
MCSnapshot(a) == a = "a1"

\* An answer that tells nothing, one that names the CMS and its version, one of
\* another product, and headers and cookies that name three frameworks and no version.
Say(shown, cookies, versions, html) ==
    LET signs == shown \cup { cookies[i] : i \in DOMAIN cookies }
    IN  [signs |-> signs, cookies |-> cookies, html |-> html,
         version |-> [s \in signs |-> IF s \in DOMAIN versions THEN versions[s] ELSE <<>>]]
MCAnswers == {
    Say({"nginx"}, <<>>, "nginx" :> <<1, 20>>, TRUE),
    Say({"generator:wordpress"}, <<>>, "generator:wordpress" :> <<6, 4, 1>>, TRUE),
    Say({"generator:drupal"}, <<"_session_id">>, "generator:drupal" :> <<6, 10>>, TRUE),
    Say({"express", "wp-content-path"}, <<"sessionid", "connect.sid", "ci_session">>, <<>>, FALSE) }
NoGate == [f \in Fields |-> {}]
MCGates == { [NoGate EXCEPT !["cms"] = {"wordpress"}],
             [NoGate EXCEPT !["language"] = {"php", "python"}, !["cms"] = {"drupal", "wordpress"}] }
MCPatched == <<6, 4>>

MCLineOf(l) == CASE l = "# office" -> [kind |-> "comment", url |-> ""]
                 [] l = "ftp://x" -> [kind |-> "broken", url |-> ""]
                 [] OTHER -> [kind |-> "proxy", url |-> l]
MCLines == {"# office", "ftp://x", "p1", "p2", "p3"}
MCManuals == {<<>>, <<"# office", "p1", "p2", "p1">>, <<"p3">>, <<"p1", "ftp://x">>}
MCListed == [s1 |-> <<"p2", "p2">>, s2 |-> <<"p3", "p1">>]

MCRegistrable(labels) ==
    IF Len(labels) < 2 THEN <<>> ELSE SubSeq(labels, Len(labels) - 1, Len(labels))
Shop == Spelled(<<"shop", "test">>)
MCSeedOf(t) ==
    CASE t = "https://shop.test" -> Url("https", Shop, 0, <<>>)
      [] t = "https://SHOP.test:8443/a" -> Url("https", [Shop EXCEPT !.upper = TRUE], 8443, <<Lit("a")>>)
      [] t = "ftp://files.test" -> Url("ftp", Spelled(<<"files", "test">>), 0, Root)
      [] t = "http://blog.test" -> Url("http", Spelled(<<"blog", "test">>), 0, Root)
MCAddresses == { MCSeedOf("https://shop.test"), Url("https", Spelled(<<"api", "shop", "test">>), 0, Root),
                 MCSeedOf("http://blog.test"), Url("http", Spelled(<<"api", "blog", "test">>), 0, Root),
                 Url("http", Shop, 8080, Root) }

\* Command lines and files that meet in the same options.
MCInvocations ==
    { [cli |-> c, args |-> a] :
        c \in { "config" :> "h.yaml",
                "config" :> "h.yaml" @@ "profile" :> "staging" @@ "mode" :> "aggressive"
                    @@ "auth-bearer" :> "t" @@ "oob" :> TRUE @@ "oob-host" :> "cb",
                "url" :> <<"https://shop.test">> @@ "cookie" :> <<"sid">> @@ "output" :> "report.json"
                    @@ "js" :> TRUE @@ "fail-on" :> "none",
                "url" :> <<"https://SHOP.test:8443/a", "ftp://files.test">> @@ "profile" :> "other"
                    @@ "config" :> "h.yaml" @@ "disable" :> << {"xss", "xsss"}, {"typo"} >> @@ "oob" :> TRUE },
        a \in { <<>>, <<"http://blog.test">> } }
MCFiles ==
    { [documents |-> 1, base |-> b, profiles |-> p] :
        b \in { <<>>,
                "url" :> <<"https://shop.test">> @@ "output" :> "report.json" @@ "js.enabled" :> TRUE
                    @@ "baseline.path" :> "report.json" @@ "auth.cookies_file" :> "jar"
                    @@ "oob.host" :> "cb.test"
                    @@ "checks.settings" :> ("xss" :> ("depth" :> 1 @@ "wide" :> 1)),
                "url" :> <<"https://shop.test">> @@ "format" :> "pdff" @@ "output" :> "report.json",
                "urls" :> <<"https://shop.test">> },
        p \in { "staging" :> ("mode" :> "default" @@ "url" :> <<"http://blog.test">> @@ "auth.cookies" :> <<"role">>
                              @@ "checks.settings" :> ("xss" :> ("depth" :> 2) @@ "none" :> <<>>)),
                "staging" :> ("checks.pollute" :> TRUE @@ "js.enabled" :> FALSE @@ "checks.enable" :> << {"smuggling", "headers"} >>)
                    @@ "other" :> ("scope.ports" :> [low |-> 90, high |-> 80]),
                "staging" :> ("auth.basic" :> "u:p")
                    @@ "other" :> ("mode" :> "default" @@ "ca_file" :> "ca.pem" @@ "urls_file" :> <<"http://blog.test">>),
                "staging" :> ("fail_on" :> "hihg")
                    @@ "other" :> ("session.check_url" :> "https://shop.test/me" @@ "session.every" :> 0),
                "staging" :> ("csrf.token_source" :> "https://shop.test/form" @@ "csrf.inject" :> "body")
                    @@ "other" :> ("log_level" :> "loud"),
                "staging" :> ("scope.path_exclude" :> {"[a-"} @@ "session.pattern" :> "[a-")
                    @@ "other" :> ("auth.basic" :> "nocolon") } }
    \cup { [documents |-> 2, base |-> <<>>, profiles |-> <<>>] }
Module(name, level) == "name" :> name @@ "level" :> level
MCBuild == { Module("headers", "passive") @@ "tier" :> "passive" @@ "scope" :> "host",
             Module("xss", "default") @@ "consumes" :> {"param"},
             Module("smuggling", "default") @@ "pollute" :> "true" @@ "budget_seconds" :> 90,
             Module("brute", "aggressive") @@ "applies_to" :> ("cms" :> {"wordpress"}) }
MCBuilds == { MCBuild, MCBuild \cup { Module("typo", "passive") @@ "tier" :> "pasive" } }
MCMalformed == {"pdff", "nocolon", "loud", "[a-"}
MCCookieLines == { [name |-> "tok", domain |-> <<"blog", "test">>, secure |-> FALSE],
                   [name |-> "key", domain |-> <<"shop", "test">>, secure |-> TRUE],
                   [name |-> "id", domain |-> <<>>, secure |-> FALSE] }

allVars == <<episode, detectVars, poolVars, setupVars>>

SetupIdle ==
    /\ stage = "exited" /\ exit = 0 /\ held = <<>> /\ run = <<>> /\ options = Default
    /\ broken = {} /\ disk = "old" /\ compared = "" /\ jar = {}

Init ==
    /\ DetectInit /\ PoolInit
    /\ \/ episode \in {"detect", "proxies"} /\ SetupIdle
       \/ episode = "setup" /\ SetupInit

Next ==
    /\ UNCHANGED episode
    /\ \/ episode = "detect" /\ DetectNext /\ UNCHANGED <<poolVars, setupVars>>
       \/ episode = "proxies" /\ PoolNext /\ UNCHANGED <<detectVars, setupVars>>
       \/ episode = "setup" /\ SetupNext /\ UNCHANGED <<detectVars, poolVars>>

Spec == Init /\ [][Next]_allVars
=============================================================================
