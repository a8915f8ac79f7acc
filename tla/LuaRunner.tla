----------------------------- MODULE LuaRunner -----------------------------
(***************************************************************************)
(* How the engine runs one check on one page: internal/lua_engine/check.go *)
(* and two_phase.go, with the bindings through which a script acts         *)
(* (api_client.go, api_oob.go, api_browser.go, ctx.go), and the deadline   *)
(* and the error handler that scanner.go and cli/scan.go put around it.    *)
(*                                                                         *)
(* A dispatch borrows a virtual machine from the check's pool, binds the   *)
(* environment of the dispatch to it, and calls the script.  The script    *)
(* does what it likes: it sends requests and reads, closes or forgets the  *)
(* responses, registers canaries, visits pages in the browser, and in the  *)
(* end returns or fails.  Its context may end at any moment, by the        *)
(* deadline of the check or with the scan; then what blocks returns, and   *)
(* the machine stops at its next instruction.  A machine that a failed     *)
(* call left in an unknown state must not be used again.                   *)
(*                                                                         *)
(* Once every dispatch has returned and the grace period is over, the      *)
(* scanner drains the checks one after the other: a drain is a dispatch    *)
(* too, of the entry "drain", which reads the canaries of its check and    *)
(* reports those that were contacted.                                      *)
(***************************************************************************)
EXTENDS OobServer, BrowserPool, Integers, Functions

CONSTANTS Dispatches,  \* one check on one page each, and one drain per check
          VMs,         \* the virtual machines that may be built
          NoVM,        \* not a machine
          NoDispatch,  \* not a dispatch: the environment of a fresh machine
          MaxConns,    \* MaxConnsPerHost of the transport
          MaxOps       \* bound: binding calls of one script

CONSTANTS CheckOf(_),  \* the check of a dispatch
          Entry(_),    \* "run", "plant", "detect" or "drain"
          Pollutes(_)  \* whether its requests change the server (proto-pollution)

ASSUME RunnerAssumption ==
    /\ NoVM \notin VMs /\ NoDispatch \notin Dispatches
    /\ MaxConns \in Nat \ {0} /\ MaxOps \in Nat
    /\ Visitors = Dispatches
    /\ \A d \in Dispatches :
          /\ CheckOf(d) \in OobChecks
          /\ Entry(d) \in {"run", "plant", "detect", "drain"}
          /\ Pollutes(d) \in BOOLEAN
    \* runOOBDrain drains every check once.
    /\ \A d, e \in Dispatches :
          Entry(d) = "drain" /\ Entry(e) = "drain" /\ CheckOf(d) = CheckOf(e) => d = e

VARIABLES pool,        \* idle machines of each check
          torn,        \* machines a failed call left in an unknown state
          vm,          \* the machine a dispatch runs in
          env,         \* the environment bound to a machine
          stage,       \* where a dispatch is
          ops,         \* binding calls made so far
          resp,        \* the response in the script's hand
          held,        \* connections the dispatch keeps
          expired,     \* dispatches whose deadline has passed
          cancelled,   \* the scan's context has ended
          cause,       \* what made a dispatch fail
          counted,     \* whether the error handler counted it
          todo,        \* of a drain: canaries still to look at
          reported,    \* canaries reported by a drain
          early,       \* canaries contacted before the first drain began
          gadget       \* what the dispatch has left on the server

runnerVars == <<pool, torn, vm, env, stage, ops, resp, held, expired,
                cancelled, cause, counted, todo, reported, early, gadget>>
vars == <<runnerVars, oobVars, tabVars>>

Scans  == {d \in Dispatches : Entry(d) # "drain"}
Drains == Dispatches \ Scans

Stages == {"idle", "running", "dialing", "detached", "queueing", "visiting", "returned"}
Responses == {"none", "short", "long", "capped"}
Causes == {"none", "ceiling", "fault"}
Gadgets == {"none", "installed", "overwritten", "tried"}

TypeOK ==
    /\ OobTypeOK /\ TabTypeOK
    /\ pool \in [OobChecks -> SUBSET VMs]
    /\ torn \subseteq VMs
    /\ vm \in [Dispatches -> VMs \cup {NoVM}]
    /\ env \in [VMs -> Dispatches \cup {NoDispatch}]
    /\ stage \in [Dispatches -> Stages]
    /\ ops \in [Dispatches -> 0..MaxOps]
    /\ resp \in [Dispatches -> Responses]
    /\ held \in [Dispatches -> Nat]
    /\ expired \subseteq Dispatches
    /\ cancelled \in BOOLEAN
    /\ cause \in [Dispatches -> Causes]
    /\ counted \in [Dispatches -> BOOLEAN]
    /\ todo \in [Dispatches -> SUBSET Tokens]
    /\ reported \subseteq Tokens
    /\ early \subseteq Tokens
    /\ gadget \in [Dispatches -> Gadgets]

Init ==
    /\ OobInit /\ TabInit
    /\ pool = [c \in OobChecks |-> {}]
    /\ torn = {}
    /\ vm = [d \in Dispatches |-> NoVM]
    /\ env = [v \in VMs |-> NoDispatch]
    /\ stage = [d \in Dispatches |-> "idle"]
    /\ ops = [d \in Dispatches |-> 0]
    /\ resp = [d \in Dispatches |-> "none"]
    /\ held = [d \in Dispatches |-> 0]
    /\ expired = {}
    /\ cancelled = FALSE
    /\ cause = [d \in Dispatches |-> "none"]
    /\ counted = [d \in Dispatches |-> FALSE]
    /\ todo = [d \in Dispatches |-> {}]
    /\ reported = {}
    /\ early = {}
    /\ gadget = [d \in Dispatches |-> "none"]
-----------------------------------------------------------------------------
(* The pool and the environment                                            *)

Busy == {vm[d] : d \in Dispatches} \ {NoVM}
Pooled == UNION {pool[c] : c \in OobChecks}
ContextEnded(d) == cancelled \/ d \in expired

\* borrow: an idle machine of the check, or a new one, in which the module is
\* instantiated.  sync.Pool may have dropped the idle ones.
Take(c, v) ==
    \/ v \in pool[c] /\ pool' = [pool EXCEPT ![c] = @ \ {v}] /\ UNCHANGED torn
    \/ v \notin Pooled \cup Busy /\ torn' = torn \ {v} /\ UNCHANGED pool

\* A machine is put back whatever the call did to it.
ReleaseAlways(d, keep) ==
    pool' = [pool EXCEPT ![CheckOf(d)] = @ \cup {vm[d]}]

\* release: back to the pool, or closed when the call may have torn it.  The
\* name of a closed machine is free for a new one.
Release(d, keep) ==
    pool' = IF keep THEN [pool EXCEPT ![CheckOf(d)] = @ \cup {vm[d]}] ELSE pool

\* The environment stays what it was when the machine was first used.
BindOnce(d, v) ==
    env' = [env EXCEPT ![v] = IF @ = NoDispatch THEN d ELSE @]

\* setEnv: every binding looks up the environment through the machine.
Bind(d, v) == env' = [env EXCEPT ![v] = d]

\* The scanner starts a drain when the checks are done, unless the scan's
\* context has ended, and the drains one after the other.
MayStart(d) ==
    \/ d \in Scans
    \/ /\ \A s \in Scans : stage[s] = "returned"
       /\ \A e \in Drains : stage[e] \in {"idle", "returned"}
       /\ ~cancelled /\ listening

\* Run, Plant, Detect and Drain begin: borrow, bind, call.  What a drain asks
\* for first is the registrations of its check.
Begin(d) ==
    /\ stage[d] = "idle" /\ MayStart(d)
    /\ \E v \in VMs :
          /\ Take(CheckOf(d), v)
          /\ vm' = [vm EXCEPT ![d] = v]
          /\ Bind(d, v)
    /\ stage' = [stage EXCEPT ![d] = "running"]
    /\ todo' = IF d \in Drains THEN [todo EXCEPT ![d] = Registrations(CheckOf(d))] ELSE todo
    /\ early' = IF d \in Drains /\ \A e \in Drains : stage[e] = "idle"
                THEN {t \in Tokens : owner[t] # NoCheck /\ hits[t] > 0} ELSE early
    /\ UNCHANGED <<ops, resp, held, expired, cancelled, cause, counted, reported, gadget, oobVars, tabVars>>
-----------------------------------------------------------------------------
(* What a script does.  Once its context has ended it does nothing more:   *)
(* the interpreter looks at the context before every instruction.          *)

Acting(d) == stage[d] = "running" /\ ~ContextEnded(d) /\ d \in Scans

Op(d) == ops[d] < MaxOps /\ ops' = [ops EXCEPT ![d] = @ + 1]

ConnsInUse == FoldFunction(+, 0, held)

\* client:get, client:do, client:fetch: the transport has to find a connection
\* to the host.  The response that the script held before, if it neither
\* closed it nor read it to its end, keeps its own.
Request(d) ==
    /\ Acting(d) /\ Op(d)
    /\ stage' = [stage EXCEPT ![d] = "dialing"]
    /\ resp' = [resp EXCEPT ![d] = "none"]
    /\ UNCHANGED <<pool, torn, vm, env, held, expired, cancelled, cause, counted, todo, reported, early, gadget, oobVars, tabVars>>

\* A connection is free: the request goes out and is answered, by a body that
\* fits the cap the script reads it with, or by a longer one.
Answered(d, body) ==
    /\ stage[d] = "dialing"
    /\ ConnsInUse < MaxConns
    /\ held' = [held EXCEPT ![d] = @ + 1]
    /\ resp' = [resp EXCEPT ![d] = body]
    /\ stage' = [stage EXCEPT ![d] = "running"]
    /\ gadget' = IF Pollutes(d) THEN [gadget EXCEPT ![d] = "installed"] ELSE gadget
    /\ UNCHANGED <<pool, torn, vm, env, ops, expired, cancelled, cause, counted, todo, reported, early, oobVars, tabVars>>

\* The request was built with a context of its own, which nothing ends.
DialIgnoresContext(d) == d \in Dispatches /\ FALSE

\* The context ends while the request waits, or while it is under way.
DialAborted(d) ==
    /\ stage[d] = "dialing" /\ ContextEnded(d)
    /\ stage' = [stage EXCEPT ![d] = "running"]
    /\ UNCHANGED <<pool, torn, vm, env, ops, resp, held, expired, cancelled, cause, counted, todo, reported, early, gadget, oobVars, tabVars>>

\* client:do_detached, which proto-pollution calls before it returns: a request
\* that overwrites what the last one left on the server, with a context that
\* the end of the dispatch's own does not end, and a deadline.
Detach(d) ==
    /\ Acting(d) /\ gadget[d] = "installed"
    /\ stage' = [stage EXCEPT ![d] = "detached"]
    /\ UNCHANGED <<pool, torn, vm, env, ops, resp, held, expired, cancelled, cause, counted, todo, reported, early, gadget, oobVars, tabVars>>

\* It is answered, or fails, at its deadline at the latest.  The context ends
\* with the call, and with it the connection is free again.
DetachedEnds(d, ok) ==
    /\ stage[d] = "detached"
    /\ ok => ConnsInUse < MaxConns
    /\ gadget' = [gadget EXCEPT ![d] = IF ok THEN "overwritten" ELSE "tried"]
    /\ stage' = [stage EXCEPT ![d] = "running"]
    /\ UNCHANGED <<pool, torn, vm, env, ops, resp, held, expired, cancelled, cause, counted, todo, reported, early, oobVars, tabVars>>

\* response:read_body_capped: a body read to its end gives its connection
\* back.  A longer one keeps it, and yet the response now counts as closed.
ReadCapped(d) ==
    /\ Acting(d) /\ resp[d] \in {"short", "long"}
    /\ held' = [held EXCEPT ![d] = IF resp[d] = "short" THEN @ - 1 ELSE @]
    /\ resp' = [resp EXCEPT ![d] = IF @ = "short" THEN "none" ELSE "capped"]
    /\ UNCHANGED <<pool, torn, vm, env, stage, ops, expired, cancelled, cause, counted, todo, reported, early, gadget, oobVars, tabVars>>

\* response:close: closes the body, unless the response counts as closed.
CloseResponse(d) ==
    /\ Acting(d) /\ resp[d] # "none"
    /\ held' = [held EXCEPT ![d] = IF resp[d] = "capped" THEN @ ELSE @ - 1]
    /\ resp' = [resp EXCEPT ![d] = "none"]
    /\ UNCHANGED <<pool, torn, vm, env, stage, ops, expired, cancelled, cause, counted, todo, reported, early, gadget, oobVars, tabVars>>

\* oob:register and oob:register_asset, in the name of the check to which the
\* environment of the machine belongs.
RegisterCanary(d) ==
    /\ Acting(d) /\ Op(d)
    /\ \E t \in Tokens, asset \in BOOLEAN : Register(CheckOf(env[vm[d]]), t, asset)
    /\ UNCHANGED <<pool, torn, vm, env, stage, resp, held, expired, cancelled, cause, counted, todo, reported, early, gadget, tabVars>>

\* browser:visit, up to the wait for a slot.
Visit(d) ==
    /\ Acting(d) /\ Op(d)
    /\ stage' = [stage EXCEPT ![d] = "queueing"]
    /\ UNCHANGED <<pool, torn, vm, env, resp, held, expired, cancelled, cause, counted, todo, reported, early, gadget, oobVars, tabVars>>

SlotGranted(d) ==
    /\ stage[d] = "queueing"
    /\ OpenTab(d)
    /\ stage' = [stage EXCEPT ![d] = "visiting"]
    /\ UNCHANGED <<pool, torn, vm, env, ops, resp, held, expired, cancelled, cause, counted, todo, reported, early, gadget, oobVars>>

SlotAborted(d) ==
    /\ stage[d] = "queueing" /\ ContextEnded(d)
    /\ stage' = [stage EXCEPT ![d] = "running"]
    /\ UNCHANGED <<pool, torn, vm, env, ops, resp, held, expired, cancelled, cause, counted, todo, reported, early, gadget, oobVars, tabVars>>

PageCalls(d, call) ==
    /\ stage[d] = "visiting"
    /\ BindingCalled(d, call)
    /\ UNCHANGED <<runnerVars, oobVars>>

VisitReturns(d) ==
    /\ stage[d] = "visiting"
    /\ CloseTab(d)
    /\ stage' = [stage EXCEPT ![d] = "running"]
    /\ UNCHANGED <<pool, torn, vm, env, ops, resp, held, expired, cancelled, cause, counted, todo, reported, early, gadget, oobVars>>

\* check.drain looks at the next canary: one finding if it was contacted,
\* however often.
LookAtCanary(d) ==
    /\ stage[d] = "running" /\ d \in Drains /\ ~ContextEnded(d)
    /\ \E t \in todo[d] :
          /\ todo' = [todo EXCEPT ![d] = @ \ {t}]
          /\ reported' = IF Hits(t) > 0 THEN reported \cup {t} ELSE reported
    /\ UNCHANGED <<pool, torn, vm, env, stage, ops, resp, held, expired, cancelled, cause, counted, early, gadget, oobVars, tabVars>>
-----------------------------------------------------------------------------
(* How a dispatch ends                                                     *)

\* The end of runCheck: its context is cancelled, which closes every
\* connection a body of this dispatch still keeps.
Leave(d, keep) ==
    /\ Release(d, keep)
    /\ vm' = [vm EXCEPT ![d] = NoVM]
    /\ held' = [held EXCEPT ![d] = 0]
    /\ resp' = [resp EXCEPT ![d] = "none"]
    /\ stage' = [stage EXCEPT ![d] = "returned"]
    /\ ops' = [ops EXCEPT ![d] = 0]
    /\ expired' = expired \ {d}
    /\ UNCHANGED <<env, cancelled, todo, early, gadget, oobVars, tabVars>>

\* The script returns its findings, or has none.
Returns(d) ==
    /\ stage[d] = "running" /\ ~ContextEnded(d)
    /\ d \in Drains => todo[d] = {}
    /\ gadget[d] # "installed"
    /\ Leave(d, TRUE)
    /\ UNCHANGED <<torn, cause, counted, reported>>

\* The script returns an error, which is text: of a binding that failed, of a
\* budget that is exhausted, of a page that was not fetched; or what it returns
\* is no table of findings.  The machine is sound.  The handler is given an
\* error without a type, and counts it.
ReturnsError(d) ==
    /\ stage[d] = "running" /\ ~ContextEnded(d) /\ d \in Scans
    /\ gadget[d] # "installed"
    /\ \E why \in {"ceiling", "fault"} : cause' = [cause EXCEPT ![d] = why]
    /\ counted' = [counted EXCEPT ![d] = TRUE]
    /\ Leave(d, TRUE)
    /\ UNCHANGED <<torn, reported>>

\* The call of the script fails, by an error it raises, by a panic of a
\* binding, or because the context has ended.  Run and Drain put the
\* context's own error into what they report; Plant and Detect do not.
\* The findings are lost, of a drain too.
Fails(d) ==
    /\ stage[d] = "running"
    /\ torn' = torn \cup {vm[d]}
    /\ cause' = [cause EXCEPT ![d] = IF ContextEnded(d) THEN "ceiling" ELSE "fault"]
    /\ counted' = [counted EXCEPT ![d] = ~(ContextEnded(d) /\ Entry(d) \in {"run", "drain"})]
    /\ reported' = IF d \in Drains THEN reported \ Registrations(CheckOf(d)) ELSE reported
    /\ Leave(d, FALSE)

\* The deadline of a check; a drain has none of its own.
Expire(d) ==
    /\ d \in Scans \ expired /\ stage[d] \notin {"idle", "returned"}
    /\ expired' = expired \cup {d}
    /\ UNCHANGED <<pool, torn, vm, env, stage, ops, resp, held, cancelled, cause, counted, todo, reported, early, gadget, oobVars, tabVars>>

Cancel ==
    /\ ~cancelled
    /\ cancelled' = TRUE
    /\ UNCHANGED <<pool, torn, vm, env, stage, ops, resp, held, expired, cause, counted, todo, reported, early, gadget, oobVars, tabVars>>

\* Somebody follows a canary's URL.
Contact ==
    /\ \E t \in Tokens : Callback(t)
    /\ UNCHANGED <<runnerVars, tabVars>>

\* The scan is over; runScan stops the listener.
StopListener ==
    /\ \A d \in Scans : stage[d] = "returned"
    /\ cancelled \/ \A d \in Drains : stage[d] = "returned"
    /\ \A d \in Drains : stage[d] \in {"idle", "returned"}
    /\ Stop
    /\ UNCHANGED <<runnerVars, tabVars>>

Next ==
    \/ \E d \in Dispatches :
          \/ Begin(d)
          \/ Request(d) \/ (\E body \in {"short", "long"} : Answered(d, body)) \/ DialAborted(d)
          \/ Detach(d) \/ (\E ok \in BOOLEAN : DetachedEnds(d, ok))
          \/ ReadCapped(d) \/ CloseResponse(d)
          \/ RegisterCanary(d)
          \/ Visit(d) \/ SlotGranted(d) \/ SlotAborted(d)
          \/ (\E call \in {"own", "other"} : PageCalls(d, call)) \/ VisitReturns(d)
          \/ LookAtCanary(d)
          \/ Returns(d) \/ ReturnsError(d) \/ Fails(d)
          \/ Expire(d)
    \/ Cancel \/ Contact \/ StopListener

\* The scanner starts every check it dispatched; the timer of a deadline goes
\* off; what blocks returns once its context has ended, a visit also by its
\* settle time; the interpreter notices that the context has ended.  Of a
\* script nothing is assumed but that a drain, which has no deadline, walks
\* through its canaries and returns.
Fairness ==
    \A d \in Dispatches :
        /\ WF_vars(Begin(d))
        /\ WF_vars(Expire(d))
        /\ WF_vars(DialAborted(d))
        /\ WF_vars(DetachedEnds(d, FALSE))
        /\ WF_vars(SlotAborted(d))
        /\ WF_vars(VisitReturns(d))
        /\ WF_vars(ContextEnded(d) /\ Fails(d))
        /\ d \in Drains => WF_vars(LookAtCanary(d)) /\ WF_vars(Returns(d))

Spec == Init /\ [][Next]_vars
FairSpec == Spec /\ Fairness
-----------------------------------------------------------------------------
(* Properties                                                              *)

\* One machine, one dispatch, and never a torn one: what a binding looks up
\* through the machine is the environment of the dispatch that runs in it, no
\* machine is idle in a pool and busy at once, and one that a failed call left
\* in an unknown state is not used again.  Interpreters are not safe for
\* concurrent use, and the pool is shared by all workers (check.go:527).
RunOwnsItsVM ==
    /\ \A d \in Dispatches : vm[d] # NoVM =>
          /\ env[vm[d]] = d
          /\ vm[d] \notin Pooled \cup torn
          /\ \A e \in Dispatches \ {d} : vm[e] # vm[d]
    /\ Pooled \cap torn = {}
    /\ \A c1, c2 \in OobChecks : c1 # c2 => pool[c1] \cap pool[c2] = {}

\* However its dispatches ended, in the middle of a visit or with responses
\* that the script neither read to their end nor closed, nothing of what they
\* shared is lost: all connections, slots and machines are free when they have
\* returned, and only those who still run hold any.
NothingHeldAfterwards ==
    \A d \in Dispatches : stage[d] \in {"idle", "returned"} =>
        held[d] = 0 /\ d \notin slots /\ vm[d] = NoVM

\* When the listener stops after a scan that was not cancelled, every canary
\* contacted before the first drain has been reported, unless the drain of its
\* check failed; whatever was reported is a canary that was contacted; and a
\* dispatch that failed by a fault was counted, so that a scan of broken checks
\* does not pass for a clean one.
NothingGoesUnreported ==
    /\ ~listening /\ ~cancelled =>
        /\ \A t \in early :
              (\E d \in Drains : CheckOf(d) = owner[t] /\ cause[d] = "none") => t \in reported
        /\ \A t \in reported : hits[t] > 0 /\ owner[t] # NoCheck
    /\ \A d \in Dispatches : cause[d] = "fault" => counted[d]

\* Every dispatch that begins returns, also when its script forgets responses
\* until no connection is left for the others and itself, never stops, or waits
\* for a slot of the browser: that is what the deadline is for.
EveryDispatchReturns ==
    \A d \in Dispatches : (stage[d] # "idle") ~> (stage[d] = "returned")
=============================================================================
