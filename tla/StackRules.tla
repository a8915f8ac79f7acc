----------------------------- MODULE StackRules -----------------------------
(***************************************************************************)
(* The rules by which a response tells what a host runs:                   *)
(* internal/fingerprint/rules.go, in the order of its tables.              *)
(*                                                                         *)
(* A rule is named by the sign it looks for.  It overwrites some fields of *)
(* the stack (hard), fills others while they are unknown (soft), acts only *)
(* while the framework is unknown (guarded), and may read a version for a  *)
(* field from the text that matched.  A cookie has the name of one rule at *)
(* most.                                                                   *)
(***************************************************************************)
EXTENDS Sequences

Fields == {"server", "language", "framework", "cms", "cdn", "waf"}

Nothing == <<>>

Rule(sign, hard, soft, ver) ==
    [sign |-> sign, hard |-> hard, soft |-> soft, ver |-> ver, guarded |-> FALSE]
Sign(sign, hard) == Rule(sign, hard, Nothing, "")
Versioned(sign, hard, ver) == Rule(sign, hard, Nothing, ver)

HeaderRules == <<
    Versioned("nginx", [server |-> "nginx"], "server"),
    Versioned("openresty", [server |-> "openresty"], "server"),
    Versioned("apache", [server |-> "apache"], "server"),
    Versioned("caddy", [server |-> "caddy"], "server"),
    Versioned("litespeed", [server |-> "litespeed"], "server"),
    Versioned("microsoft-iis", [server |-> "iis", language |-> "dotnet"], "server"),
    Sign("server:cloudflare", [cdn |-> "cloudflare", waf |-> "cloudflare"]),
    Sign("akamaighost", [cdn |-> "akamai"]),
    Sign("ecs", [cdn |-> "edgecast"]),
    Versioned("php", [language |-> "php"], "language"),
    Versioned("asp.net", [language |-> "dotnet", framework |-> "asp.net"], "framework"),
    Versioned("express", [language |-> "node", framework |-> "express"], "framework"),
    Versioned("next.js", [language |-> "node", framework |-> "nextjs"], "framework"),
    Versioned("nuxt", [language |-> "node", framework |-> "nuxt"], "framework"),
    Sign("servlet", [language |-> "java"]),
    Versioned("django", [language |-> "python", framework |-> "django"], "framework"),
    Versioned("x-aspnet-version", [language |-> "dotnet", framework |-> "asp.net"], "framework"),
    Versioned("x-aspnetmvc-version", [language |-> "dotnet", framework |-> "asp.net-mvc"], "framework"),
    Rule("x-runtime", Nothing, [language |-> "ruby", framework |-> "rails"], ""),
    Sign("x-rack-cache", [language |-> "ruby", framework |-> "rails"]),
    Sign("x-drupal-cache", [cms |-> "drupal", language |-> "php"]),
    Sign("x-generator:drupal", [cms |-> "drupal", language |-> "php"]),
    Rule("cf-ray", [cdn |-> "cloudflare"], [waf |-> "cloudflare"], ""),
    Sign("cf-cache-status", [cdn |-> "cloudflare"]),
    Sign("x-sucuri", [waf |-> "sucuri"]),
    Sign("incapsula", [waf |-> "incapsula"]),
    Sign("cloudfront", [cdn |-> "cloudfront"]),
    Sign("fastly", [cdn |-> "fastly"]),
    Sign("x-akamai-transformed", [cdn |-> "akamai"]),
    Rule("x-amzn-trace-id", Nothing, [cdn |-> "aws"], "") >>

CookieRules == <<
    Sign("PHPSESSID", [language |-> "php"]),
    Sign("JSESSIONID", [language |-> "java"]),
    Sign("ASP.NET_SessionId", [language |-> "dotnet"]),
    Sign("ASPSESSIONID", [language |-> "dotnet"]),
    Sign("laravel_session", [language |-> "php", framework |-> "laravel"]),
    Sign("XSRF-TOKEN", Nothing),
    Sign("ci_session", [language |-> "php", framework |-> "codeigniter"]),
    Sign("_rails_session", [language |-> "ruby", framework |-> "rails"]),
    [Sign("_session_id", [framework |-> "rails", language |-> "ruby"]) EXCEPT !.guarded = TRUE],
    Sign("connect.sid", [language |-> "node", framework |-> "express"]),
    [Sign("sessionid", [language |-> "python", framework |-> "django"]) EXCEPT !.guarded = TRUE],
    Sign("wordpress_logged_in_", [cms |-> "wordpress", language |-> "php"]),
    Sign("wp-settings-", [cms |-> "wordpress", language |-> "php"]),
    Sign("MoodleSession", [cms |-> "moodle", language |-> "php"]) >>

Generator(cms, language) ==
    Versioned("generator:" \o cms, [cms |-> cms, language |-> language], "cms")

BodyRules == <<
    Generator("wordpress", "php"), Generator("drupal", "php"), Generator("joomla", "php"),
    Generator("ghost", "node"), Generator("magento", "php"),
    Sign("wp-content-path", [cms |-> "wordpress", language |-> "php"]),
    Sign("next", [language |-> "node", framework |-> "nextjs"]),
    Sign("nuxt-data", [language |-> "node", framework |-> "nuxt"]),
    Rule("react", Nothing, [framework |-> "react", language |-> "node"], ""),
    Sign("csrf-meta", Nothing) >>
=============================================================================
