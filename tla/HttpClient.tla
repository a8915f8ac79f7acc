------------------------------ MODULE HttpClient ------------------------------
(***************************************************************************)
(* The shared HTTP client (internal/httpclient): Do and DoNoFollow, which    *)
(* are doWith with two ways to send; the scan-wide Budget; the per-host      *)
(* limiter; and the two request middlewares, SessionSentinel and             *)
(* CSRFTokenSource.                                                         *)
(*                                                                          *)
(* Requests are issued concurrently, each with a context of its own that may *)
(* end at any moment, and that ends at last if it has a deadline.  A request *)
(* goes once through the middlewares, then round the retry loop: a slot of   *)
(* the budget, the host's limiter, the send, and on a transport error or a   *)
(* pushback (429, 503) a sleep and another attempt.  The middlewares' own    *)
(* requests go out through ProbeClient, which is under neither the budget    *)
(* nor the limiter and follows redirects.  How long anything takes is left   *)
(* out; a rate is an integer number of units, the floor being MinRate.       *)
(***************************************************************************)
EXTENDS Integers, FiniteSets

CONSTANTS
  Requests,    \* the calls of Do and DoNoFollow
  Idempotent,  \* canRetry: GET, HEAD, OPTIONS
  Mutating,    \* the requests whose method wants a CSRF token
  Follows,     \* Do; the others are DoNoFollow
  Deadlined,   \* their context has a deadline: the requests of the checks
  FormBody,    \* their body is application/x-www-form-urlencoded
  Hosts, HostOf,
  MaxRequests, \* the budget's count cap; 0: off
  MaxRetries,
  Every,       \* the sentinel's period; 0: no sentinel
  Csrf,        \* whether the CSRF middleware is installed
  Mode,        \* CSRFTokenSource.Mode: where the token is put
  MaxHops,     \* the redirects that net/http follows at most (external)
  Rate,        \* the configured rate of every host
  MinRate      \* the floor of Penalize

ASSUME HttpAssumption ==
  /\ IsFiniteSet(Requests)
  /\ Idempotent \subseteq Requests /\ Mutating \subseteq Requests \ Idempotent
  /\ Follows \subseteq Requests /\ Deadlined \subseteq Requests
  /\ FormBody \subseteq Requests
  /\ HostOf \in [Requests -> Hosts]
  /\ MaxRequests \in Nat /\ MaxRetries \in Nat /\ Every \in Nat /\ MaxHops \in Nat
  /\ Csrf \in BOOLEAN /\ Mode \in {"auto", "form", "header"}
  /\ Rate \in Nat \ {0} /\ MinRate \in Nat \ {0}

VARIABLES
  at,         \* per request, where it is in doWith
  attempt,    \* per request, the attempt it is at, from 0
  outcome,    \* per request, how doWith returned
  expired,    \* the requests whose context has ended
  used,       \* Budget.used
  exhausted,  \* Budget.exhaustedAt is set
  count,      \* SessionSentinel.count
  lost,       \* SessionSentinel.lost
  token,      \* CSRFTokenSource: not asked for, being fetched, or what came of it
  carried,    \* the requests that the token was put into
  rate,       \* per host, its limiter's rate
  applied,    \* per request, how often it left with its own method and body
  sends,      \* the sends of all of them together
  probes,     \* liveness probes begun
  wire        \* every request given to the transport, whoever asked for it

vars == <<at, attempt, outcome, expired, used, exhausted, count, lost, token,
          carried, rate, applied, sends, probes, wire>>

Stages == {"session", "probe", "csrf", "token", "budget", "global",
           "claim", "host", "send", "failed", "pushed", "done"}
Outcomes == {"none", "response", "error", "exhausted", "lost", "csrf"}

\* The token was found: it goes into a form field or a header, or it has no
\* value and goes nowhere.
Fetched == {"empty", "form", "header"}

TypeOK ==
  /\ at \in [Requests -> Stages]
  /\ attempt \in [Requests -> 0..MaxRetries]
  /\ outcome \in [Requests -> Outcomes]
  /\ expired \subseteq Requests
  /\ used \in Nat /\ exhausted \in BOOLEAN
  /\ count \in Nat /\ lost \in BOOLEAN
  /\ token \in {"unset", "fetching", "failed"} \cup Fetched
  /\ carried \subseteq Requests
  /\ rate \in [Hosts -> Nat]
  /\ applied \in [Requests -> Nat] /\ sends \in Nat
  /\ probes \in Nat /\ wire \in Nat

Init ==
  /\ at = [r \in Requests |-> IF Every > 0 THEN "session" ELSE "csrf"]
  /\ attempt = [r \in Requests |-> 0]
  /\ outcome = [r \in Requests |-> "none"]
  /\ expired = {}
  /\ used = 0 /\ exhausted = FALSE
  /\ count = 0 /\ lost = FALSE
  /\ token = "unset" /\ carried = {}
  /\ rate = [h \in Hosts |-> Rate]
  /\ applied = [r \in Requests |-> 0] /\ sends = 0
  /\ probes = 0 /\ wire = 0

Goto(r, s) == at' = [at EXCEPT ![r] = s] /\ UNCHANGED outcome

Answer(r, o) ==
  /\ at' = [at EXCEPT ![r] = "done"]
  /\ outcome' = [outcome EXCEPT ![r] = o]

Expire(r) ==
  /\ at[r] # "done" /\ r \notin expired
  /\ expired' = expired \cup {r}
  /\ UNCHANGED <<at, attempt, outcome, used, exhausted, count, lost, token,
                 carried, rate, applied, sends, probes, wire>>

-----------------------------------------------------------------------------
(* The middlewares.                                                         *)

\* Mutant: the first request is not probed.
DueLate(n) == n % Every = 0

Due(n) == (n - 1) % Every = 0

\* SessionSentinel.Before, under the mutex: the latch, then the counter.
SessionCount(r) ==
  /\ at[r] = "session"
  /\ IF lost
     THEN Answer(r, "lost") /\ UNCHANGED <<count, probes>>
     ELSE /\ count' = count + 1
          /\ IF Due(count')
             THEN Goto(r, "probe") /\ probes' = probes + 1
             ELSE Goto(r, "csrf") /\ UNCHANGED probes
  /\ UNCHANGED <<attempt, expired, used, exhausted, lost, token, carried,
                 rate, applied, sends, wire>>

\* The probe runs outside the mutex and under the request's own context, and
\* follows redirects; nothing leaves when no connection is had.
SessionProbe(r) ==
  /\ at[r] = "probe"
  /\ \E n \in 0..(1 + MaxHops) : wire' = wire + n
  /\ \/ r \notin expired /\ wire' > wire /\ Goto(r, "csrf") /\ UNCHANGED lost
     \/ lost' = TRUE /\ Answer(r, "lost")
  /\ UNCHANGED <<attempt, expired, used, exhausted, count, token, carried,
                 rate, applied, sends, probes>>

\* CSRFTokenSource.Before: sync.Once runs one fetch, and whoever comes
\* meanwhile waits for it to end.
Wants(r) == Csrf /\ r \in Mutating

CsrfBegin(r) ==
  /\ at[r] = "csrf" /\ Wants(r)
  /\ token = "unset"
  /\ token' = "fetching"
  /\ Goto(r, "token")
  /\ UNCHANGED <<attempt, expired, used, exhausted, count, lost, carried, rate,
                 applied, sends, probes, wire>>

\* Where a token of this kind is put.
Placed(kind) ==
  IF Mode # "auto" THEN Mode ELSE IF kind = "meta" THEN "header" ELSE "form"

\* The page has a hidden input or a meta tag, maybe without a value; or it has
\* neither, or cannot be had.
CsrfFetch(r) ==
  /\ at[r] = "token"
  /\ \E n \in 0..(1 + MaxHops) : wire' = wire + n
  /\ \/ /\ r \notin expired /\ wire' > wire
        /\ \E kind \in {"input", "meta"} : token' \in {"empty", Placed(kind)}
     \/ token' = "failed"
  /\ Goto(r, "csrf")
  /\ UNCHANGED <<attempt, expired, used, exhausted, count, lost, carried, rate,
                 applied, sends, probes>>

\* Whether the token, as it was found, goes into this request: a form field
\* needs a form's body.
Carries(r) == token = "header" \/ (token = "form" /\ r \in FormBody)

\* Mutant: whoever does not run the fetch itself does not wait for it.
CsrfPassUnchecked(r) ==
  /\ at[r] = "csrf"
  /\ Wants(r) => token \in Fetched \cup {"fetching"}
  /\ carried' = IF Wants(r) /\ Carries(r) THEN carried \cup {r} ELSE carried
  /\ Goto(r, "budget")
  /\ UNCHANGED <<attempt, expired, used, exhausted, count, lost, token, rate,
                 applied, sends, probes, wire>>

\* The request goes on, with the token if it can carry it.
CsrfPass(r) ==
  /\ at[r] = "csrf"
  /\ Wants(r) => token \in Fetched
  /\ carried' = IF Wants(r) /\ Carries(r) THEN carried \cup {r} ELSE carried
  /\ Goto(r, "budget")
  /\ UNCHANGED <<attempt, expired, used, exhausted, count, lost, token, rate,
                 applied, sends, probes, wire>>

\* There is no token, or the form that it should go into cannot be read.
CsrfFail(r) ==
  /\ at[r] = "csrf" /\ Wants(r)
  /\ token = "failed" \/ (token = "form" /\ r \in FormBody)
  /\ Answer(r, "csrf")
  /\ UNCHANGED <<attempt, expired, used, exhausted, count, lost, token, carried,
                 rate, applied, sends, probes, wire>>

-----------------------------------------------------------------------------
(* Budget.Wait and HostLimiter.Wait.                                        *)

Exhaust(r) ==
  /\ exhausted' = TRUE
  /\ Answer(r, "exhausted")

\* The first look at the counter.
BudgetLook(r) ==
  /\ at[r] = "budget"
  /\ IF MaxRequests > 0 /\ used >= MaxRequests
     THEN Exhaust(r)
     ELSE Goto(r, "global") /\ UNCHANGED exhausted
  /\ UNCHANGED <<attempt, expired, used, count, lost, token, carried, rate,
                 applied, sends, probes, wire>>

\* A rate limiter lets the request through, or its context has ended or would
\* end first, by its deadline.  A rate of nought lets nobody through.
RateWait(r) ==
  /\ at[r] \in {"global", "host"}
  /\ \/ /\ r \notin expired
        /\ \/ at[r] = "global" /\ Goto(r, "claim")
           \/ at[r] = "host" /\ rate[HostOf[r]] > 0 /\ Goto(r, "send")
     \/ r \in expired \cup Deadlined /\ Answer(r, "error")
  /\ UNCHANGED <<attempt, expired, used, exhausted, count, lost, token,
                 carried, rate, applied, sends, probes, wire>>

\* Mutant: the counter is not looked at again after the rate wait.
BudgetClaimBlindly(r) ==
  /\ at[r] = "claim"
  /\ used' = used + 1
  /\ Goto(r, "host")
  /\ UNCHANGED <<attempt, expired, exhausted, count, lost, token, carried,
                 rate, applied, sends, probes, wire>>

\* The second look and the increment are one compare-and-swap.
BudgetClaim(r) ==
  /\ at[r] = "claim"
  /\ IF MaxRequests > 0 /\ used >= MaxRequests
     THEN Exhaust(r) /\ UNCHANGED used
     ELSE used' = used + 1 /\ Goto(r, "host") /\ UNCHANGED exhausted
  /\ UNCHANGED <<attempt, expired, count, lost, token, carried, rate,
                 applied, sends, probes, wire>>

-----------------------------------------------------------------------------
(* The send, and what follows from its result.                              *)

\* Mutant: halved without regard to the floor.
HalvedWithoutFloor(n) == n \div 2

Halved(n) == IF n \div 2 < MinRate THEN MinRate ELSE n \div 2

\* Mutant: any method is retried.
LastAttemptOfAny(r) == attempt[r] = MaxRetries

LastAttempt(r) == r \in Idempotent => attempt[r] = MaxRetries

\* How many requests one send comes to.
Reach(r) == IF r \in Follows THEN 1 + MaxHops ELSE 1

\* Of the n requests that leave, the redirects followed, the first has the
\* method and the body of r, and so have those that a 307 or a 308 asks for.
\* What comes of it: a response that is no pushback; a pushback, which slows the
\* host down whether or not an attempt is left; a transport error, which does
\* not, and which is all that a request whose context has ended can get.
Send(r) ==
  LET h == HostOf[r] IN
  /\ at[r] = "send"
  /\ sends' = sends + 1
  /\ \E n \in 0..Reach(r), k \in 0..Reach(r) :
       /\ k <= n /\ (k = 0 <=> n = 0)
       /\ wire' = wire + n
       /\ applied' = [applied EXCEPT ![r] = @ + k]
  /\ \/ /\ r \notin expired /\ wire' > wire /\ Answer(r, "response")
        /\ UNCHANGED rate
     \/ /\ r \notin expired /\ wire' > wire
        /\ rate' = [rate EXCEPT ![h] = Halved(@)]
        /\ IF LastAttempt(r) THEN Answer(r, "response") ELSE Goto(r, "pushed")
     \/ /\ IF r \in expired \/ LastAttempt(r)
           THEN Answer(r, "error") ELSE Goto(r, "failed")
        /\ UNCHANGED rate
  /\ UNCHANGED <<attempt, expired, used, exhausted, count, lost, token, carried,
                 probes>>

\* Mutant: the budget is asked once per request and not once per attempt.
RetryUnpaid(r) ==
  /\ at[r] \in {"failed", "pushed"} /\ r \notin expired
  /\ attempt' = [attempt EXCEPT ![r] = @ + 1]
  /\ Goto(r, "host")
  /\ UNCHANGED <<expired, used, exhausted, count, lost, token, carried,
                 rate, applied, sends, probes, wire>>

\* The sleep ends, and the body is rewound for another attempt.
Retry(r) ==
  /\ at[r] \in {"failed", "pushed"} /\ r \notin expired
  /\ attempt' = [attempt EXCEPT ![r] = @ + 1]
  /\ Goto(r, "budget")
  /\ UNCHANGED <<expired, used, exhausted, count, lost, token, carried,
                 rate, applied, sends, probes, wire>>

\* The sleep is cut short by the context, or the body cannot be rewound.
GiveUp(r) ==
  /\ at[r] \in {"failed", "pushed"}
  /\ \/ r \in expired /\ Answer(r, "error")
     \/ Answer(r, IF at[r] = "pushed" THEN "response" ELSE "error")
  /\ UNCHANGED <<attempt, expired, used, exhausted, count, lost, token,
                 carried, rate, applied, sends, probes, wire>>

-----------------------------------------------------------------------------
Step(r) ==
  \/ SessionCount(r) \/ SessionProbe(r)
  \/ CsrfBegin(r) \/ CsrfFetch(r) \/ CsrfPass(r) \/ CsrfFail(r)
  \/ BudgetLook(r) \/ RateWait(r) \/ BudgetClaim(r)
  \/ Send(r) \/ Retry(r) \/ GiveUp(r)

Next == \E r \in Requests : Step(r) \/ Expire(r)

Spec == Init /\ [][Next]_vars

\* The client's timeout ends every send of Do, every probe and the fetch of the
\* token, but no send of DoNoFollow ("Per-request Timeout enforcement is NOT
\* replicated"): that one ends when the server answers, which is assumed of
\* nobody, or with its context, which ends at last if it has a deadline.  A
\* sleep ends within its cap, and a limiter with a positive rate lets everybody
\* through.
Prompt(r) == Step(r) /\ (at[r] = "send" => r \in Follows \cup expired)

FairSpec ==
  /\ Spec
  /\ \A r \in Requests : WF_vars(Prompt(r))
  /\ \A r \in Deadlined : WF_vars(Expire(r))

-----------------------------------------------------------------------------
(* Correctness.                                                             *)

\* The requests that hold a slot of the budget and have not been sent yet.
Holding == {r \in Requests : at[r] \in {"host", "send"}}

\* The quota on attempts is hard: however many requests look at the counter
\* before any of them takes a slot (Budget.Wait's look, the wait for the global
\* rate, then the compare-and-swap), the slots taken never pass the cap; the
\* report says "exhausted" only when they have all been taken; every attempt is
\* paid for, a retry like the first (doWith: "Retries count against the budget
\* too").  The quota is not one on requests: an attempt, a probe of the sentinel
\* and the one fetch of the token may each come to 1 + MaxHops of them.
BudgetIsHard ==
  /\ MaxRequests > 0 => used <= MaxRequests /\ (exhausted => used = MaxRequests)
  /\ sends + Cardinality(Holding) <= used
  /\ wire <= (used + probes + 1) * (1 + MaxHops)

\* A request that changes the target's state is attempted once, whatever the
\* answer, the transport or the context do (canRetry and the bound of doWith's
\* loop; any other 1 + MaxRetries times): it leaves with its method and body
\* once, and again only where the call follows a redirect that asks for it.
\* None leaves before the fetch of the token is over and was good: those that
\* met it while it was running waited for it (CSRFTokenSource.Before:
\* sync.Once).  And each leaves with the token, unless that has no value or
\* belongs into a form and the request has none.
MutationsAreSafe ==
  /\ \A r \in Requests :
       applied[r] <= (IF r \in Idempotent THEN 1 + MaxRetries ELSE 1) * Reach(r)
  /\ \A r \in Requests : Wants(r) /\ applied[r] > 0 =>
       token \in Fetched /\ (Carries(r) => r \in carried)

\* However the workers interleave, a probe is begun for every Every requests
\* that get past the sentinel, the first of them included
\* (SessionSentinel.Before: the counter is read once per request).
Passed == {r \in Requests : at[r] \notin {"session", "probe"} /\ outcome[r] # "lost"}

SessionIsWatched ==
  Every > 0 => Cardinality(Passed) <= Every * probes

\* Every call that follows redirects, or whose context has a deadline or has
\* ended, returns, through probes, waits, retries and pushbacks: a host that
\* keeps pushing back slows the client down and never stalls it (HostLimiter:
\* "a noisy host can slow us down but never quite stall us out"), and a call
\* that nothing ends, DoNoFollow without a deadline, holds up no other.
EveryRequestEnds ==
  \A r \in Requests : (r \in Follows \cup Deadlined \cup expired) ~> (at[r] = "done")
=============================================================================
