-------------------------- MODULE LuaRunnerProofs --------------------------
(***************************************************************************)
(* Proofs about LuaRunner, for any number of dispatches, checks, machines, *)
(* canaries, connections and browser slots, and any script.                *)
(*                                                                         *)
(* Machines: a machine is in exactly one place, with a dispatch that is    *)
(* under way, idle in one pool, or torn.  Hands: what a dispatch may hold  *)
(* at each stage.  Canaries: where a canary that was contacted before the  *)
(* drains stands while the drain of its check walks through its list.      *)
(***************************************************************************)
EXTENDS LuaRunner, TLAPS

AtRest == {"idle", "returned"}

Machines ==
    /\ \A d \in Dispatches : vm[d] = NoVM <=> stage[d] \in AtRest
    /\ \A d \in Dispatches : vm[d] # NoVM => env[vm[d]] = d
    /\ \A d \in Dispatches, c \in OobChecks : vm[d] \notin pool[c]
    /\ \A d \in Dispatches : vm[d] \notin torn
    /\ \A c \in OobChecks : pool[c] \cap torn = {}
    /\ \A c1, c2 \in OobChecks : c1 # c2 => pool[c1] \cap pool[c2] = {}

Hands ==
    /\ \A d \in Dispatches : stage[d] \in AtRest => held[d] = 0
    /\ \A d \in Dispatches : resp[d] \in {"short", "long"} => held[d] >= 1
    /\ \A d \in Dispatches : d \in slots <=> stage[d] = "visiting"

\* The list that a drain works on, and the machines' names, are the listener's.
Indexed ==
    /\ \A c \in OobChecks, t \in Tokens : t \in byCheck[c] <=> owner[t] = c
    /\ \A d \in Drains : todo[d] \subseteq byCheck[CheckOf(d)]

Contacted(t) == hits[t] > 0 /\ owner[t] # NoCheck

\* What a drain has still to report of the canaries contacted before it.
Accounted(d, t) ==
    /\ stage[d] = "running" => t \in todo[d] \cup reported
    /\ stage[d] = "returned" /\ cause[d] = "none" => t \in reported

Canaries ==
    /\ \A t \in early \cup reported : Contacted(t)
    /\ \A d \in Drains : stage[d] \in {"idle", "running", "returned"}
    /\ \A d \in Dispatches : cause[d] # "none" => stage[d] = "returned"
    /\ \A d \in Drains, t \in early : owner[t] = CheckOf(d) => Accounted(d, t)
    /\ ~listening /\ ~cancelled => \A d \in Drains : stage[d] = "returned"
    /\ \A d \in Dispatches : cause[d] = "fault" => counted[d]

RunnerInv == TypeOK /\ Machines /\ Hands /\ Indexed /\ Canaries

-----------------------------------------------------------------------------
(* What kinds of steps there are.                                          *)

\* The stages of a dispatch under way.
UnderWay == Stages \ AtRest

\* A dispatch under way goes on to another stage, or nobody moves; either way
\* no machine, no canary's report and no verdict is touched.
Continues ==
    /\ \/ stage' = stage
       \/ \E d \in Dispatches, s \in UnderWay :
             stage[d] \in UnderWay /\ d \in Scans /\ stage' = [stage EXCEPT ![d] = s]
    /\ pool' = pool /\ torn' = torn /\ vm' = vm /\ env' = env
    /\ cause' = cause /\ counted' = counted /\ early' = early

\* A script acts, or what it waited for has come; a drain takes no such step.
ScriptStep(d) ==
    \/ Request(d) \/ (\E body \in {"short", "long"} : Answered(d, body)) \/ DialAborted(d)
    \/ Detach(d) \/ (\E ok \in BOOLEAN : DetachedEnds(d, ok))
    \/ ReadCapped(d) \/ CloseResponse(d) \/ RegisterCanary(d)
    \/ Visit(d) \/ SlotGranted(d) \/ SlotAborted(d)
    \/ (\E call \in {"own", "other"} : PageCalls(d, call)) \/ VisitReturns(d)

LEMMA NextKinds ==
  ASSUME [Next]_vars
  PROVE  \/ \E d \in Dispatches : Begin(d)
         \/ \E d \in Dispatches : ScriptStep(d)
         \/ \E d \in Dispatches : LookAtCanary(d)
         \/ \E d \in Dispatches : Returns(d) \/ ReturnsError(d) \/ Fails(d)
         \/ \E d \in Dispatches : Expire(d)
         \/ Cancel \/ Contact \/ StopListener
         \/ UNCHANGED vars
BY DEF Next, ScriptStep

LEMMA ScriptContinues ==
  ASSUME TypeOK, Canaries, NEW d \in Dispatches, ScriptStep(d)
  PROVE  Continues /\ todo' = todo /\ reported' = reported /\ cancelled' = cancelled
<1> USE DEF Continues, UnderWay, AtRest, Stages, Acting, Scans, Drains, Canaries,
            runnerVars
<1>1. CASE Request(d)
  BY <1>1 DEF Request
<1>2. CASE \E body \in {"short", "long"} : Answered(d, body)
  BY <1>2 DEF Answered
<1>3. CASE DialAborted(d)
  BY <1>3 DEF DialAborted
<1>4. CASE Detach(d)
  BY <1>4 DEF Detach
<1>5. CASE \E ok \in BOOLEAN : DetachedEnds(d, ok)
  BY <1>5 DEF DetachedEnds
<1>6. CASE ReadCapped(d)
  BY <1>6 DEF ReadCapped
<1>7. CASE CloseResponse(d)
  BY <1>7 DEF CloseResponse
<1>8. CASE RegisterCanary(d)
  BY <1>8 DEF RegisterCanary
<1>9. CASE Visit(d)
  BY <1>9 DEF Visit
<1>10. CASE SlotGranted(d)
  BY <1>10 DEF SlotGranted
<1>11. CASE SlotAborted(d)
  BY <1>11 DEF SlotAborted
<1>12. CASE \E call \in {"own", "other"} : PageCalls(d, call)
  BY <1>12 DEF PageCalls
<1>13. CASE VisitReturns(d)
  BY <1>13 DEF VisitReturns
<1>14. QED
  BY <1>1, <1>2, <1>3, <1>4, <1>5, <1>6, <1>7, <1>8, <1>9, <1>10, <1>11, <1>12, <1>13
     DEF ScriptStep

-----------------------------------------------------------------------------
(* Types.                                                                  *)

LEMMA InitRunner == Init => RunnerInv
<1> SUFFICES ASSUME Init PROVE RunnerInv
  OBVIOUS
<1> USE RunnerAssumption, OobAssumption DEF Init, OobInit, TabInit
<1>1. OobTypeOK
  BY DEF OobTypeOK
<1>2. TabTypeOK
  BY DEF TabTypeOK, Calls
<1>3. /\ pool \in [OobChecks -> SUBSET VMs] /\ torn \subseteq VMs
      /\ vm \in [Dispatches -> VMs \cup {NoVM}]
      /\ env \in [VMs -> Dispatches \cup {NoDispatch}]
  OBVIOUS
<1>4. /\ stage \in [Dispatches -> Stages] /\ resp \in [Dispatches -> Responses]
      /\ cause \in [Dispatches -> Causes] /\ gadget \in [Dispatches -> Gadgets]
  BY DEF Stages, Responses, Causes, Gadgets
<1>5. ops \in [Dispatches -> 0..MaxOps] /\ held \in [Dispatches -> Nat]
  OBVIOUS
<1>6. counted \in [Dispatches -> BOOLEAN] /\ todo \in [Dispatches -> SUBSET Tokens]
  OBVIOUS
<1>7. expired \subseteq Dispatches /\ reported \subseteq Tokens /\ early \subseteq Tokens
  OBVIOUS
<1>8. TypeOK
  BY <1>1, <1>2, <1>3, <1>4, <1>5, <1>6, <1>7, Zenon DEF TypeOK
<1>9. Machines
  BY DEF Machines, AtRest
<1>10. Hands
  BY DEF Hands, AtRest
<1>11. Indexed
  BY DEF Indexed, Drains
<1>12. Canaries
  <2>1. \A d \in Dispatches : stage[d] = "idle" /\ cause[d] = "none"
    OBVIOUS
  <2>2. early = {} /\ reported = {} /\ listening
    OBVIOUS
  <2>3. QED
    BY <2>1, <2>2 DEF Canaries, Accounted, Drains
<1>13. QED
  BY <1>8, <1>9, <1>10, <1>11, <1>12 DEF RunnerInv

\* The variables of the runner that a script's steps change.
LEMMA ScriptTypes ==
  ASSUME TypeOK, Hands, NEW d \in Dispatches, ScriptStep(d)
  PROVE  /\ ops' \in [Dispatches -> 0..MaxOps] /\ held' \in [Dispatches -> Nat]
         /\ resp' \in [Dispatches -> Responses] /\ gadget' \in [Dispatches -> Gadgets]
         /\ expired' = expired
<1> USE RunnerAssumption DEF TypeOK, Responses, Gadgets, Op, Hands, runnerVars
<1>1. CASE Request(d)
  BY <1>1 DEF Request
<1>2. CASE \E body \in {"short", "long"} : Answered(d, body)
  BY <1>2 DEF Answered
<1>3. CASE DialAborted(d)
  BY <1>3 DEF DialAborted
<1>4. CASE Detach(d)
  BY <1>4 DEF Detach
<1>5. CASE \E ok \in BOOLEAN : DetachedEnds(d, ok)
  BY <1>5 DEF DetachedEnds
<1>6. CASE ReadCapped(d)
  BY <1>6 DEF ReadCapped
<1>7. CASE CloseResponse(d)
  BY <1>7 DEF CloseResponse
<1>8. CASE RegisterCanary(d)
  BY <1>8 DEF RegisterCanary
<1>9. CASE Visit(d)
  BY <1>9 DEF Visit
<1>10. CASE SlotGranted(d)
  BY <1>10 DEF SlotGranted
<1>11. CASE SlotAborted(d)
  BY <1>11 DEF SlotAborted
<1>12. CASE \E call \in {"own", "other"} : PageCalls(d, call)
  BY <1>12 DEF PageCalls
<1>13. CASE VisitReturns(d)
  BY <1>13 DEF VisitReturns
<1>14. QED
  BY <1>1, <1>2, <1>3, <1>4, <1>5, <1>6, <1>7, <1>8, <1>9, <1>10, <1>11, <1>12, <1>13
     DEF ScriptStep

\* The listener's and the browser's variables, whatever the step.
LEMMA ServiceTypes ==
  ASSUME TypeOK, Machines, [Next]_vars
  PROVE  OobTypeOK' /\ TabTypeOK'
<1>0. OobTypeOK /\ TabTypeOK
  BY DEF TypeOK
<1>1. CASE UNCHANGED oobVars /\ UNCHANGED tabVars
  BY <1>0, <1>1 DEF oobVars, tabVars, OobTypeOK, TabTypeOK
<1>2. ASSUME NEW d \in Dispatches, RegisterCanary(d)
      PROVE  OobTypeOK' /\ TabTypeOK'
  <2>1. stage[d] = "running" /\ vm[d] # NoVM
    BY <1>2 DEF RegisterCanary, Acting, Machines, AtRest
  <2>2. CheckOf(env[vm[d]]) \in OobChecks
    BY <2>1, RunnerAssumption DEF Machines
  <2>3. PICK t \in Tokens, asset \in BOOLEAN : Register(CheckOf(env[vm[d]]), t, asset)
    BY <1>2 DEF RegisterCanary
  <2>4. OobTypeOK'
    BY <1>0, <2>2, <2>3 DEF Register, OobTypeOK
  <2>5. TabTypeOK'
    BY <1>0, <1>2 DEF RegisterCanary, tabVars, TabTypeOK
  <2>6. QED
    BY <2>4, <2>5
<1>3. ASSUME NEW d \in Dispatches,
             SlotGranted(d) \/ VisitReturns(d) \/ \E call \in {"own", "other"} : PageCalls(d, call)
      PROVE  OobTypeOK' /\ TabTypeOK'
  <2>1. UNCHANGED oobVars
    BY <1>3 DEF SlotGranted, VisitReturns, PageCalls
  <2>2. OpenTab(d) \/ CloseTab(d) \/ \E call \in {"own", "other"} : BindingCalled(d, call)
    BY <1>3 DEF SlotGranted, VisitReturns, PageCalls
  <2>3. TabTypeOK'
    BY <1>0, <2>2, RunnerAssumption
       DEF OpenTab, CloseTab, BindingCalled, TabTypeOK, Calls
  <2>4. QED
    BY <1>0, <2>1, <2>3 DEF oobVars, OobTypeOK
<1>4. CASE Contact
  <2>1. PICK t \in Tokens : Callback(t)
    BY <1>4 DEF Contact
  <2>2. OobTypeOK'
    BY <1>0, <2>1, OobAssumption DEF Callback, OobTypeOK
  <2>3. QED
    BY <1>0, <1>4, <2>2 DEF Contact, tabVars, TabTypeOK
<1>5. CASE StopListener
  <2>1. OobTypeOK'
    BY <1>0, <1>5, Zenon DEF StopListener, Stop, OobTypeOK
  <2>2. QED
    BY <1>0, <1>5, <2>1 DEF StopListener, tabVars, TabTypeOK
<1>6. CASE UNCHANGED vars
  BY <1>6, <1>1 DEF vars
<1>7. QED
  BY ZenonT(60), <1>1, <1>2, <1>3, <1>4, <1>5, <1>6
     DEF Next, Begin, Request, Answered, DialAborted, Detach, DetachedEnds, ReadCapped,
         CloseResponse, Visit, SlotAborted, LookAtCanary, Returns, ReturnsError, Fails,
         Leave, Expire, Cancel

\* The machine that a dispatch borrows, and the one that it leaves.
LEMMA BeginTakes ==
  ASSUME TypeOK, NEW d \in Dispatches, Begin(d)
  PROVE  \E v \in VMs :
            /\ vm' = [vm EXCEPT ![d] = v] /\ env' = [env EXCEPT ![v] = d]
            /\ \/ /\ v \in pool[CheckOf(d)]
                  /\ pool' = [pool EXCEPT ![CheckOf(d)] = @ \ {v}] /\ torn' = torn
               \/ /\ \A c \in OobChecks : v \notin pool[c]
                  /\ \A e \in Dispatches : vm[e] # v
                  /\ pool' = pool /\ torn' = torn \ {v}
<1>1. PICK v \in VMs : /\ Take(CheckOf(d), v)
                       /\ vm' = [vm EXCEPT ![d] = v] /\ env' = [env EXCEPT ![v] = d]
  BY DEF Begin, Bind
<1>2. v # NoVM
  BY <1>1, RunnerAssumption
<1>3. v \notin Pooled \cup Busy =>
        (\A c \in OobChecks : v \notin pool[c]) /\ \A e \in Dispatches : vm[e] # v
  BY <1>2 DEF Pooled, Busy
<1>4. QED
  BY <1>1, <1>3 DEF Take

LEMMA LeaveGives ==
  ASSUME TypeOK, NEW d \in Dispatches, Returns(d) \/ ReturnsError(d) \/ Fails(d)
  PROVE  /\ stage[d] = "running" /\ stage' = [stage EXCEPT ![d] = "returned"]
         /\ vm' = [vm EXCEPT ![d] = NoVM] /\ env' = env
         /\ held' = [held EXCEPT ![d] = 0] /\ resp' = [resp EXCEPT ![d] = "none"]
         /\ ops' = [ops EXCEPT ![d] = 0] /\ expired' = expired \ {d}
         /\ cancelled' = cancelled /\ todo' = todo /\ early' = early /\ gadget' = gadget
         /\ UNCHANGED <<oobVars, tabVars>>
         /\ \/ pool' = [pool EXCEPT ![CheckOf(d)] = @ \cup {vm[d]}] /\ torn' = torn
            \/ pool' = pool /\ torn' = torn \cup {vm[d]}
BY DEF Returns, ReturnsError, Fails, Leave, Release

LEMMA NextTypeOK ==
  ASSUME TypeOK, Machines, Hands, Indexed, Canaries, [Next]_vars
  PROVE  TypeOK'
<1>0. OobTypeOK' /\ TabTypeOK'
  BY ServiceTypes
<1>1. ASSUME NEW d \in Dispatches, Begin(d)
      PROVE  TypeOK'
  <2> USE DEF TypeOK
  <2>1. PICK v \in VMs :
           /\ vm' = [vm EXCEPT ![d] = v] /\ env' = [env EXCEPT ![v] = d]
           /\ \/ pool' = [pool EXCEPT ![CheckOf(d)] = @ \ {v}] /\ torn' = torn
              \/ pool' = pool /\ torn' = torn \ {v}
    BY <1>1, BeginTakes
  <2>2. vm' \in [Dispatches -> VMs \cup {NoVM}] /\ env' \in [VMs -> Dispatches \cup {NoDispatch}]
    BY <2>1
  <2>3. pool' \in [OobChecks -> SUBSET VMs] /\ torn' \subseteq VMs
    BY <2>1, RunnerAssumption
  <2>4. todo' \in [Dispatches -> SUBSET Tokens]
    BY <1>1, RunnerAssumption DEF Begin, Registrations, OobTypeOK
  <2>5. early' \subseteq Tokens /\ stage' \in [Dispatches -> Stages]
    BY <1>1 DEF Begin, Stages
  <2>6. UNCHANGED <<ops, resp, held, expired, cancelled, cause, counted, reported, gadget>>
    BY <1>1 DEF Begin
  <2>7. QED
    BY <1>0, <2>2, <2>3, <2>4, <2>5, <2>6
<1>2. ASSUME NEW d \in Dispatches, ScriptStep(d)
      PROVE  TypeOK'
  <2>1. /\ Continues /\ todo' = todo /\ reported' = reported /\ cancelled' = cancelled
    BY <1>2, ScriptContinues
  <2>2. stage' \in [Dispatches -> Stages]
    BY <2>1 DEF Continues, UnderWay, TypeOK
  <2>3. QED
    BY <1>0, <1>2, <2>1, <2>2, ScriptTypes DEF Continues, TypeOK
<1>3. ASSUME NEW d \in Dispatches, LookAtCanary(d)
      PROVE  TypeOK'
  <2> USE DEF TypeOK
  <2>1. todo' \in [Dispatches -> SUBSET Tokens] /\ reported' \subseteq Tokens
    BY <1>3 DEF LookAtCanary
  <2>2. UNCHANGED <<pool, torn, vm, env, stage, ops, resp, held, expired, cancelled,
                    cause, counted, early, gadget>>
    BY <1>3 DEF LookAtCanary
  <2>3. QED
    BY <1>0, <2>1, <2>2
<1>4. ASSUME NEW d \in Dispatches, Returns(d) \/ ReturnsError(d) \/ Fails(d)
      PROVE  TypeOK'
  <2>1. /\ stage' \in [Dispatches -> Stages] /\ vm' \in [Dispatches -> VMs \cup {NoVM}]
        /\ held' \in [Dispatches -> Nat] /\ resp' \in [Dispatches -> Responses]
        /\ ops' \in [Dispatches -> 0..MaxOps] /\ expired' \subseteq Dispatches
    BY <1>4, LeaveGives, RunnerAssumption DEF TypeOK, Stages, Responses
  <2>2. vm[d] \in VMs
    BY <1>4, LeaveGives DEF Machines, AtRest, TypeOK
  <2>3. pool' \in [OobChecks -> SUBSET VMs] /\ torn' \subseteq VMs
    BY <1>4, <2>2, LeaveGives, RunnerAssumption DEF TypeOK
  <2>4. cause' \in [Dispatches -> Causes] /\ reported' \subseteq Tokens
    BY <1>4 DEF Returns, ReturnsError, Fails, TypeOK, Causes
  <2>5. counted' \in [Dispatches -> BOOLEAN]
    BY <1>4 DEF Returns, ReturnsError, Fails, TypeOK
  <2>6. env' = env /\ cancelled' = cancelled /\ todo' = todo /\ early' = early /\ gadget' = gadget
    BY <1>4, LeaveGives
  <2>7. QED
    BY <1>0, <2>1, <2>3, <2>4, <2>5, <2>6 DEF TypeOK
<1>5. ASSUME NEW d \in Dispatches, Expire(d)
      PROVE  TypeOK'
  BY <1>0, <1>5 DEF Expire, TypeOK
<1>6. CASE Cancel \/ Contact \/ StopListener \/ UNCHANGED vars
  <2>1. cancelled' \in BOOLEAN
    BY <1>6 DEF Cancel, Contact, StopListener, vars, runnerVars, TypeOK
  <2>2. UNCHANGED <<pool, torn, vm, env, stage, ops, resp, held, expired, cause, counted,
                    todo, reported, early, gadget>>
    BY <1>6 DEF Cancel, Contact, StopListener, vars, runnerVars
  <2>3. QED
    BY <1>0, <2>1, <2>2 DEF TypeOK
<1>7. QED
  BY <1>1, <1>2, <1>3, <1>4, <1>5, <1>6, NextKinds

-----------------------------------------------------------------------------
(* Machines, hands, canaries.                                              *)

\* Steps that move no machine keep dispatches under way, or at rest.
LEMMA ContinuesKeeps ==
  ASSUME TypeOK, Machines, Continues
  PROVE  /\ Machines'
         /\ \A d \in Dispatches : stage'[d] \in AtRest <=> stage[d] \in AtRest
         /\ \A d \in Dispatches : stage[d] \in AtRest => stage'[d] = stage[d]
         /\ \A d \in Drains : stage'[d] = stage[d]
<1>1. \A d \in Dispatches :
        stage'[d] = stage[d] \/ (stage[d] \in UnderWay /\ stage'[d] \in UnderWay /\ d \in Scans)
  BY DEF Continues, TypeOK
<1>2. \A d \in Dispatches : stage'[d] \in AtRest <=> stage[d] \in AtRest
  BY <1>1 DEF UnderWay
<1>3. \A d \in Dispatches : stage[d] \in AtRest => stage'[d] = stage[d]
  BY <1>1 DEF UnderWay
<1>4. \A d \in Drains : stage'[d] = stage[d]
  BY <1>1 DEF Drains
<1>5. Machines'
  BY <1>2 DEF Machines, Continues
<1>6. QED
  BY <1>2, <1>3, <1>4, <1>5

LEMMA OthersContinue ==
  ASSUME [Next]_vars
  PROVE  \/ \E d \in Dispatches :
               Begin(d) \/ ScriptStep(d) \/ Returns(d) \/ ReturnsError(d) \/ Fails(d)
         \/ Continues
BY NextKinds
   DEF LookAtCanary, Expire, Cancel, Contact, StopListener, vars, runnerVars, Continues

LEMMA NextMachines ==
  ASSUME TypeOK, Machines, Canaries, [Next]_vars
  PROVE  Machines'
<1>1. ASSUME NEW d \in Dispatches, Begin(d)
      PROVE  Machines'
  <2>1. PICK v \in VMs :
            /\ vm' = [vm EXCEPT ![d] = v] /\ env' = [env EXCEPT ![v] = d]
            /\ \/ /\ v \in pool[CheckOf(d)]
                  /\ pool' = [pool EXCEPT ![CheckOf(d)] = @ \ {v}] /\ torn' = torn
               \/ /\ \A c \in OobChecks : v \notin pool[c]
                  /\ \A e \in Dispatches : vm[e] # v
                  /\ pool' = pool /\ torn' = torn \ {v}
    BY <1>1, BeginTakes
  <2>2. v # NoVM /\ CheckOf(d) \in OobChecks
    BY RunnerAssumption
  <2>3. \A e \in Dispatches : vm[e] # v
    BY <2>1, <2>2 DEF Machines
  <2>4. vm'[d] = v /\ env'[v] = d /\ \A e \in Dispatches \ {d} : vm'[e] = vm[e]
    BY <2>1 DEF TypeOK
  <2>5. \A e \in Dispatches \ {d} : vm[e] # NoVM => env'[vm[e]] = env[vm[e]]
    BY <2>1, <2>3 DEF TypeOK
  <2>6. stage'[d] = "running" /\ \A e \in Dispatches \ {d} : stage'[e] = stage[e]
    BY <1>1 DEF Begin, TypeOK
  <2>7. \A c \in OobChecks : pool'[c] = pool[c] \ {v}
    BY <2>1, <2>2 DEF TypeOK, Machines
  <2>8. v \notin torn' /\ torn' \subseteq torn
    BY <2>1, <2>2 DEF Machines
  <2>9. QED
    BY <2>2, <2>3, <2>4, <2>5, <2>6, <2>7, <2>8 DEF Machines, AtRest
<1>2. ASSUME NEW d \in Dispatches, Returns(d) \/ ReturnsError(d) \/ Fails(d)
      PROVE  Machines'
  <2>1. /\ stage[d] = "running" /\ stage' = [stage EXCEPT ![d] = "returned"]
        /\ vm' = [vm EXCEPT ![d] = NoVM] /\ env' = env
        /\ \/ pool' = [pool EXCEPT ![CheckOf(d)] = @ \cup {vm[d]}] /\ torn' = torn
           \/ pool' = pool /\ torn' = torn \cup {vm[d]}
    BY <1>2, LeaveGives
  <2>2. vm[d] # NoVM /\ vm[d] \in VMs /\ CheckOf(d) \in OobChecks
    BY <2>1, RunnerAssumption DEF Machines, AtRest, TypeOK
  <2>3. vm'[d] = NoVM /\ \A e \in Dispatches \ {d} : vm'[e] = vm[e] /\ stage'[e] = stage[e]
    BY <2>1 DEF TypeOK
  <2>4. \A e \in Dispatches \ {d} : vm[e] # vm[d]
    BY <2>2 DEF Machines
  <2>5. NoVM \notin torn' /\ \A c \in OobChecks : NoVM \notin pool'[c]
    BY <2>1, <2>2, RunnerAssumption DEF TypeOK
  <2>6. stage'[d] = "returned"
    BY <2>1 DEF TypeOK
  <2>7. CASE pool' = pool /\ torn' = torn \cup {vm[d]}
    BY <2>1, <2>2, <2>3, <2>4, <2>5, <2>6, <2>7 DEF Machines, AtRest
  <2>8. CASE pool' = [pool EXCEPT ![CheckOf(d)] = @ \cup {vm[d]}] /\ torn' = torn
    <3>1. \A c \in OobChecks :
             pool'[c] = IF c = CheckOf(d) THEN pool[c] \cup {vm[d]} ELSE pool[c]
      BY <2>2, <2>8 DEF TypeOK
    <3>2. QED
      BY <2>1, <2>2, <2>3, <2>4, <2>5, <2>6, <2>8, <3>1 DEF Machines, AtRest
  <2>9. QED
    BY <2>1, <2>7, <2>8
<1>3. QED
  BY <1>1, <1>2, OthersContinue, ScriptContinues, ContinuesKeeps

LEMMA NextHands ==
  ASSUME TypeOK, Machines, Hands, Canaries, [Next]_vars
  PROVE  Hands'
<1>1. ASSUME NEW d \in Dispatches, Begin(d)
      PROVE  Hands'
  <2>1. /\ stage[d] = "idle" /\ stage' = [stage EXCEPT ![d] = "running"]
        /\ held' = held /\ resp' = resp /\ slots' = slots
    BY <1>1 DEF Begin, tabVars
  <2>2. QED
    BY <2>1 DEF Hands, AtRest, TypeOK
<1>2. ASSUME NEW d \in Dispatches, ScriptStep(d)
      PROVE  Hands'
  <2> USE DEF Hands, TypeOK, AtRest, Acting
  <2>1. CASE Request(d)
    BY <2>1 DEF Request, tabVars
  <2>2. CASE \E body \in {"short", "long"} : Answered(d, body)
    BY <2>2 DEF Answered, tabVars
  <2>3. CASE DialAborted(d)
    BY <2>3 DEF DialAborted, tabVars
  <2>4. CASE Detach(d)
    BY <2>4 DEF Detach, tabVars
  <2>5. CASE \E ok \in BOOLEAN : DetachedEnds(d, ok)
    BY <2>5 DEF DetachedEnds, tabVars
  <2>6. CASE ReadCapped(d)
    BY <2>6 DEF ReadCapped, tabVars
  <2>7. CASE CloseResponse(d)
    BY <2>7 DEF CloseResponse, tabVars
  <2>8. CASE RegisterCanary(d)
    BY <2>8 DEF RegisterCanary, tabVars
  <2>9. CASE Visit(d)
    BY <2>9 DEF Visit, tabVars
  <2>10. CASE SlotGranted(d)
    BY <2>10 DEF SlotGranted, OpenTab, tabVars
  <2>11. CASE SlotAborted(d)
    BY <2>11 DEF SlotAborted, tabVars
  <2>12. CASE \E call \in {"own", "other"} : PageCalls(d, call)
    BY <2>12 DEF PageCalls, BindingCalled, runnerVars
  <2>13. CASE VisitReturns(d)
    BY <2>13 DEF VisitReturns, CloseTab
  <2>14. QED
    BY <1>2, <2>1, <2>2, <2>3, <2>4, <2>5, <2>6, <2>7, <2>8, <2>9, <2>10, <2>11, <2>12, <2>13
       DEF ScriptStep
<1>3. ASSUME NEW d \in Dispatches, Returns(d) \/ ReturnsError(d) \/ Fails(d)
      PROVE  Hands'
  <2>1. /\ stage[d] = "running" /\ stage' = [stage EXCEPT ![d] = "returned"]
        /\ held' = [held EXCEPT ![d] = 0] /\ resp' = [resp EXCEPT ![d] = "none"]
        /\ slots' = slots
    BY <1>3, LeaveGives DEF tabVars
  <2>2. QED
    BY <2>1 DEF Hands, AtRest, TypeOK
<1>4. ASSUME NEW d \in Dispatches, LookAtCanary(d) \/ Expire(d)
      PROVE  Hands'
  BY <1>4 DEF LookAtCanary, Expire, Hands, tabVars
<1>5. CASE Cancel \/ Contact \/ StopListener \/ UNCHANGED vars
  BY <1>5 DEF Cancel, Contact, StopListener, vars, runnerVars, tabVars, Hands
<1>6. QED
  BY <1>1, <1>2, <1>3, <1>4, <1>5, NextKinds

\* A canary once contacted keeps its owner and its hits; the index only grows.
LEMMA CanariesStay ==
  ASSUME TypeOK, Machines, [Next]_vars
  PROVE  /\ \A t \in Tokens : Contacted(t) => Contacted(t)' /\ owner'[t] = owner[t]
         /\ \A c \in OobChecks : byCheck[c] \subseteq byCheck'[c]
         /\ (\A c \in OobChecks, t \in Tokens : t \in byCheck[c] <=> owner[t] = c)
            => (\A c \in OobChecks, t \in Tokens : t \in byCheck'[c] <=> owner'[t] = c)
<1> USE DEF TypeOK, OobTypeOK
<1>1. CASE UNCHANGED <<owner, byCheck, hits>>
  BY <1>1 DEF Contacted
<1>2. ASSUME NEW d \in Dispatches, RegisterCanary(d)
      PROVE  /\ \A t \in Tokens : Contacted(t) => Contacted(t)' /\ owner'[t] = owner[t]
             /\ \A c \in OobChecks : byCheck[c] \subseteq byCheck'[c]
             /\ (\A c \in OobChecks, t \in Tokens : t \in byCheck[c] <=> owner[t] = c)
                => (\A c \in OobChecks, t \in Tokens : t \in byCheck'[c] <=> owner'[t] = c)
  <2>1. stage[d] = "running" /\ vm[d] # NoVM
    BY <1>2 DEF RegisterCanary, Acting, Machines, AtRest
  <2>2. CheckOf(env[vm[d]]) \in OobChecks
    BY <2>1, RunnerAssumption DEF Machines
  <2>3. PICK t \in Tokens, asset \in BOOLEAN : Register(CheckOf(env[vm[d]]), t, asset)
    BY <1>2 DEF RegisterCanary
  <2> DEFINE c == CheckOf(env[vm[d]])
  <2>4. /\ owner[t] = NoCheck /\ hits' = hits
        /\ owner' = [owner EXCEPT ![t] = c] /\ byCheck' = [byCheck EXCEPT ![c] = @ \cup {t}]
    BY <2>3 DEF Register
  <2>5. c \in OobChecks /\ NoCheck \notin OobChecks
    BY <2>2, OobAssumption
  <2> HIDE DEF c
  <2>6. \A u \in Tokens : owner'[u] = IF u = t THEN c ELSE owner[u]
    BY <2>4
  <2>7. \A k \in OobChecks : byCheck'[k] = IF k = c THEN byCheck[k] \cup {t} ELSE byCheck[k]
    BY <2>4
  <2>8. QED
    BY <2>4, <2>5, <2>6, <2>7 DEF Contacted
<1>3. CASE Contact
  <2>1. PICK u \in Tokens : Callback(u)
    BY <1>3 DEF Contact
  <2>2. \A t \in Tokens : hits[t] > 0 => hits'[t] > 0
    BY <2>1, OobAssumption DEF Callback
  <2>3. owner' = owner /\ byCheck' = byCheck
    BY <2>1 DEF Callback
  <2>4. QED
    BY <2>2, <2>3 DEF Contacted
<1>4. CASE UNCHANGED oobVars \/ StopListener \/ UNCHANGED vars
  BY <1>1, <1>4 DEF oobVars, vars, StopListener, Stop
<1>5. QED
  BY ZenonT(60), <1>2, <1>3, <1>4
     DEF Next, Begin, Request, Answered, DialAborted, Detach, DetachedEnds, ReadCapped,
         CloseResponse, Visit, SlotGranted, SlotAborted, PageCalls, VisitReturns,
         LookAtCanary, Returns, ReturnsError, Fails, Leave, Expire, Cancel

LEMMA NextIndexed ==
  ASSUME TypeOK, Machines, Canaries, Indexed, [Next]_vars
  PROVE  Indexed'
<1>1. /\ \A c \in OobChecks : byCheck[c] \subseteq byCheck'[c]
      /\ \A c \in OobChecks, t \in Tokens : t \in byCheck'[c] <=> owner'[t] = c
  BY CanariesStay DEF Indexed
<1>2. \A d \in Drains : todo'[d] \subseteq byCheck'[CheckOf(d)]
  <2>1. \A d \in Drains : d \in Dispatches /\ CheckOf(d) \in OobChecks
    BY RunnerAssumption DEF Drains
  <2>2. \A d \in Drains : todo[d] \subseteq byCheck'[CheckOf(d)]
    BY <1>1, <2>1 DEF Indexed
  <2>3. ASSUME NEW d \in Dispatches, Begin(d)
        PROVE  \A e \in Drains : todo'[e] \subseteq byCheck'[CheckOf(e)]
    <3>1. \A e \in Drains : todo'[e] = todo[e] \/ todo'[e] = byCheck[CheckOf(e)]
      BY <2>3 DEF Begin, Registrations, Drains, TypeOK
    <3>2. QED
      BY <1>1, <2>1, <2>2, <3>1
  <2>4. ASSUME NEW d \in Dispatches, LookAtCanary(d)
        PROVE  \A e \in Drains : todo'[e] \subseteq byCheck'[CheckOf(e)]
    <3>1. \A e \in Dispatches : todo'[e] \subseteq todo[e]
      BY <2>4 DEF LookAtCanary, TypeOK
    <3>2. QED
      BY <2>1, <2>2, <3>1
  <2>5. CASE todo' = todo
    BY <2>2, <2>5
  <2>6. QED
    BY <2>3, <2>4, <2>5, NextKinds, ScriptContinues, LeaveGives
       DEF Expire, Cancel, Contact, StopListener, vars, runnerVars
<1>3. QED
  BY <1>1, <1>2 DEF Indexed

LEMMA NextCanaries ==
  ASSUME TypeOK, Machines, Indexed, Canaries, [Next]_vars
  PROVE  Canaries'
<1>0. /\ \A t \in Tokens : Contacted(t) => Contacted(t)' /\ owner'[t] = owner[t]
      /\ early \subseteq Tokens /\ reported \subseteq Tokens
      /\ \A t \in early \cup reported : Contacted(t)' /\ owner'[t] = owner[t]
      /\ \A d \in Drains : d \in Dispatches /\ CheckOf(d) \in OobChecks
  BY CanariesStay, RunnerAssumption DEF TypeOK, Canaries, Drains
\* Steps that no drain notices.
<1>1. ASSUME Continues, todo' = todo, reported' = reported, (cancelled => cancelled'),
             listening' = listening
      PROVE  Canaries'
  <2>1. /\ \A d \in Drains : stage'[d] = stage[d]
        /\ \A d \in Dispatches : stage[d] = "returned" => stage'[d] = "returned"
    BY <1>1, ContinuesKeeps DEF AtRest
  <2>2. early' = early /\ cause' = cause /\ counted' = counted
    BY <1>1 DEF Continues
  <2>3. \A d \in Drains, t \in early' : owner'[t] = CheckOf(d) => Accounted(d, t)'
    BY <1>0, <1>1, <2>1, <2>2 DEF Canaries, Accounted
  <2>4. \A t \in early' \cup reported' : Contacted(t)'
    BY <1>0, <1>1, <2>2
  <2>5. ~listening' /\ ~cancelled' => \A d \in Drains : stage'[d] = "returned"
    BY <1>1, <2>1 DEF Canaries
  <2>6. QED
    BY <2>1, <2>2, <2>3, <2>4, <2>5 DEF Canaries
<1>2. ASSUME NEW d \in Dispatches, Begin(d)
      PROVE  Canaries'
  <2>1. /\ stage[d] = "idle" /\ stage' = [stage EXCEPT ![d] = "running"]
        /\ cause' = cause /\ counted' = counted /\ reported' = reported
        /\ cancelled' = cancelled /\ listening' = listening
        /\ owner' = owner /\ hits' = hits
    BY <1>2 DEF Begin, oobVars
  <2>2. stage'[d] = "running" /\ \A e \in Dispatches \ {d} : stage'[e] = stage[e]
    BY <2>1 DEF TypeOK
  <2>3. \A e \in Drains : todo'[e] = IF e = d THEN byCheck[CheckOf(e)] ELSE todo[e]
    BY <1>2 DEF Begin, Registrations, Drains, TypeOK
  <2>4. \A t \in early' : t \in Tokens /\ Contacted(t)
    BY <1>0, <1>2 DEF Begin, Canaries, Contacted
  <2>5. early' = early \/ \A e \in Drains : stage[e] = "idle"
    BY <1>2 DEF Begin
  <2>6. ASSUME NEW e \in Drains, NEW t \in early', owner'[t] = CheckOf(e)
        PROVE  Accounted(e, t)'
    <3>1. CASE e = d
      <4>1. t \in byCheck[CheckOf(e)]
        BY <1>0, <2>1, <2>4, <2>6 DEF Indexed
      <4>2. QED
        BY <2>2, <2>3, <3>1, <4>1 DEF Accounted
    <3>2. CASE e # d /\ stage[e] = "idle"
      BY <1>0, <2>2, <3>2 DEF Accounted
    <3>3. CASE e # d /\ stage[e] # "idle"
      BY <1>0, <2>1, <2>2, <2>3, <2>5, <2>6, <3>3 DEF Accounted, Canaries
    <3>4. QED
      BY <3>1, <3>2, <3>3
  <2>7. listening \/ cancelled \/ d \in Scans
    BY <1>2 DEF Begin, MayStart
  <2>8. ~listening' /\ ~cancelled' => \A e \in Drains : stage'[e] = "returned"
    BY <1>0, <2>1, <2>2, <2>7 DEF Canaries, Drains
  <2>9. \A t \in early' \cup reported' : Contacted(t)'
    BY <1>0, <2>1, <2>4 DEF Contacted
  <2>10. \A e \in Drains : stage'[e] \in {"idle", "running", "returned"}
    BY <1>0, <2>2 DEF Canaries
  <2>11. /\ \A e \in Dispatches : cause'[e] # "none" => stage'[e] = "returned"
         /\ \A e \in Dispatches : cause'[e] = "fault" => counted'[e]
    BY <2>1, <2>2 DEF Canaries
  <2>12. QED
    BY <2>6, <2>8, <2>9, <2>10, <2>11 DEF Canaries
<1>3. ASSUME NEW d \in Dispatches, LookAtCanary(d)
      PROVE  Canaries'
  <2>1. PICK t \in todo[d] :
           /\ todo' = [todo EXCEPT ![d] = @ \ {t}]
           /\ reported' = IF hits[t] > 0 THEN reported \cup {t} ELSE reported
    BY <1>3 DEF LookAtCanary, Hits
  <2>2. /\ stage[d] = "running" /\ d \in Drains
        /\ stage' = stage /\ cause' = cause /\ counted' = counted /\ early' = early
        /\ owner' = owner /\ hits' = hits /\ cancelled' = cancelled /\ listening' = listening
    BY <1>3 DEF LookAtCanary, oobVars
  <2>3. t \in Tokens /\ owner[t] = CheckOf(d) /\ owner[t] # NoCheck
    BY <1>0, <2>2, OobAssumption DEF Indexed, TypeOK, OobTypeOK
  <2>4. \A u \in early' \cup reported' : Contacted(u)'
    BY <2>1, <2>2, <2>3 DEF Canaries, Contacted
  <2>5. \A u \in early : u = t => u \in reported'
    BY <2>1 DEF Canaries, Contacted
  <2>6. \A e \in Dispatches : todo'[e] = IF e = d THEN todo[e] \ {t} ELSE todo[e]
    BY <2>1 DEF TypeOK
  <2>7. \A e \in Drains, u \in early : owner[u] = CheckOf(e) => Accounted(e, u)'
    BY <1>0, <2>1, <2>2, <2>5, <2>6 DEF Accounted, Canaries
  <2>8. QED
    BY <2>2, <2>4, <2>7 DEF Canaries
<1>4. ASSUME NEW d \in Dispatches, Returns(d) \/ ReturnsError(d) \/ Fails(d)
      PROVE  Canaries'
  <2>1. /\ stage[d] = "running" /\ stage' = [stage EXCEPT ![d] = "returned"]
        /\ cancelled' = cancelled /\ todo' = todo /\ early' = early
        /\ UNCHANGED <<oobVars, tabVars>>
    BY <1>4, LeaveGives
  <2>2. /\ owner' = owner /\ hits' = hits /\ listening' = listening
        /\ stage'[d] = "returned" /\ \A e \in Dispatches \ {d} : stage'[e] = stage[e]
    BY <2>1 DEF oobVars, TypeOK
  <2>3. /\ \A e \in Dispatches \ {d} : cause'[e] = cause[e] /\ counted'[e] = counted[e]
        /\ cause'[d] = "fault" => counted'[d]
    BY <1>4, <2>1 DEF Returns, ReturnsError, Fails, Canaries, TypeOK
  <2>4. \A t \in early' \cup reported' : Contacted(t)'
    <3>1. reported' \subseteq reported
      BY <1>4 DEF Returns, ReturnsError, Fails
    <3>2. QED
      BY <1>0, <2>1, <3>1
  <2>5. ASSUME NEW e \in Drains, NEW t \in early, owner[t] = CheckOf(e)
        PROVE  Accounted(e, t)'
    <3>0. Accounted(e, t) /\ t \in Tokens /\ e \in Dispatches
      BY <1>0, <2>5 DEF Canaries
    <3>1. CASE e = d /\ Returns(d)
      <4>1. todo[d] = {} /\ reported' = reported
        BY <2>5, <3>1 DEF Returns
      <4>2. QED
        BY <2>1, <2>2, <3>0, <3>1, <4>1 DEF Accounted
    <3>2. CASE e = d /\ ~Returns(d)
      <4>1. Fails(d)
        BY <1>4, <2>5, <3>2 DEF ReturnsError, Scans, Drains
      <4>2. cause'[d] # "none"
        BY <4>1 DEF Fails, TypeOK
      <4>3. QED
        BY <2>2, <3>2, <4>2 DEF Accounted
    <3>3. CASE e # d
      <4>1. t \in reported => t \in reported'
        <5>1. CASE d \in Drains
          <6>1. CheckOf(d) # CheckOf(e) /\ CheckOf(d) \in OobChecks
            BY <3>0, <3>3, <5>1, RunnerAssumption DEF Drains, Scans
          <6>2. t \notin byCheck[CheckOf(d)]
            BY <2>5, <3>0, <6>1 DEF Indexed
          <6>3. QED
            BY <1>4, <6>2 DEF Returns, ReturnsError, Fails, Registrations
        <5>2. CASE d \notin Drains
          BY <1>4, <5>2 DEF Returns, ReturnsError, Fails
        <5>3. QED
          BY <5>1, <5>2
      <4>2. QED
        BY <2>1, <2>2, <2>3, <3>0, <3>3, <4>1 DEF Accounted
    <3>4. QED
      BY <3>1, <3>2, <3>3
  <2>6. ~listening' /\ ~cancelled' => \A e \in Drains : stage'[e] = "returned"
    BY <1>0, <2>1, <2>2 DEF Canaries
  <2>7. \A e \in Drains : stage'[e] \in {"idle", "running", "returned"}
    BY <1>0, <2>2 DEF Canaries
  <2>8. /\ \A e \in Dispatches : cause'[e] # "none" => stage'[e] = "returned"
        /\ \A e \in Dispatches : cause'[e] = "fault" => counted'[e]
    BY <2>2, <2>3 DEF Canaries
  <2>9. QED
    BY <2>1, <2>2, <2>4, <2>5, <2>6, <2>7, <2>8 DEF Canaries
<1>5. CASE StopListener
  <2>1. /\ UNCHANGED <<stage, cause, counted, early, todo, reported, cancelled, owner, hits>>
        /\ cancelled \/ \A d \in Drains : stage[d] = "returned"
    BY <1>5 DEF StopListener, Stop, runnerVars
  <2>2. QED
    BY <2>1 DEF Canaries, Accounted, Contacted
<1>6. ASSUME NEW d \in Dispatches, ScriptStep(d)
      PROVE  Canaries'
  <2>1. listening' = listening
    BY <1>6 DEF ScriptStep, Request, Answered, DialAborted, Detach, DetachedEnds, ReadCapped,
         CloseResponse, RegisterCanary, Register, Visit, SlotGranted, SlotAborted, PageCalls,
         VisitReturns, oobVars
  <2>2. QED
    BY <1>1, <1>6, <2>1, ScriptContinues
<1>7. CASE Cancel \/ Contact \/ UNCHANGED vars \/ \E d \in Dispatches : Expire(d)
  <2>1. Continues /\ todo' = todo /\ reported' = reported /\ (cancelled => cancelled')
    BY <1>7 DEF Cancel, Contact, Expire, vars, runnerVars, Continues
  <2>2. listening' = listening
    BY <1>7 DEF Cancel, Contact, Callback, Expire, vars, oobVars
  <2>3. QED
    BY <1>1, <2>1, <2>2
<1>8. QED
  BY <1>2, <1>3, <1>4, <1>5, <1>6, <1>7, NextKinds

-----------------------------------------------------------------------------
(* The theorems.                                                           *)

LEMMA NextRunner == RunnerInv /\ [Next]_vars => RunnerInv'
BY NextTypeOK, NextMachines, NextHands, NextIndexed, NextCanaries DEF RunnerInv

\* Every variable of the runner, the listener and the browser pool keeps its
\* type; in particular no dispatch ever gives back more connections than it has.
THEOREM RunnerTypeCorrect == Spec => []TypeOK
<1>1. RunnerInv => TypeOK
  BY DEF RunnerInv
<1>2. QED
  BY InitRunner, NextRunner, <1>1, PTL DEF Spec

\* No machine is in two places, none that a failed call tore is used again, and
\* what a binding looks up through its machine is its own dispatch's.
THEOREM MachinesHold == Spec => []RunOwnsItsVM
<1>1. RunnerInv => RunOwnsItsVM
  <2> SUFFICES ASSUME TypeOK, Machines PROVE RunOwnsItsVM
    BY DEF RunnerInv
  <2>1. ASSUME NEW d \in Dispatches, vm[d] # NoVM
        PROVE  /\ env[vm[d]] = d /\ vm[d] \notin Pooled \cup torn
               /\ \A e \in Dispatches \ {d} : vm[e] # vm[d]
    BY <2>1 DEF Machines, Pooled
  <2>2. Pooled \cap torn = {}
    BY DEF Machines, Pooled
  <2>3. QED
    BY <2>1, <2>2 DEF Machines, RunOwnsItsVM
<1>2. QED
  BY InitRunner, NextRunner, <1>1, PTL DEF Spec

\* A dispatch that is at rest holds no connection, no slot and no machine,
\* however its script ended and whatever it forgot to close.
THEOREM NothingIsHeld == Spec => []NothingHeldAfterwards
<1>1. RunnerInv => NothingHeldAfterwards
  BY DEF RunnerInv, Machines, Hands, AtRest, NothingHeldAfterwards
<1>2. QED
  BY InitRunner, NextRunner, <1>1, PTL DEF Spec

\* Every canary contacted before the drains is reported unless the drain of its
\* check failed, no other is, and every fault is counted.
THEOREM CanariesAreReported == Spec => []NothingGoesUnreported
<1>1. RunnerInv => NothingGoesUnreported
  <2> SUFFICES ASSUME TypeOK, Canaries PROVE NothingGoesUnreported
    BY DEF RunnerInv
  <2>1. ASSUME ~listening, ~cancelled, NEW t \in early, NEW d \in Drains,
               CheckOf(d) = owner[t], cause[d] = "none"
        PROVE  t \in reported
    BY <2>1 DEF Canaries, Accounted
  <2>2. \A t \in reported : hits[t] > 0 /\ owner[t] # NoCheck
    BY DEF Canaries, Contacted
  <2>3. QED
    BY <2>1, <2>2 DEF Canaries, NothingGoesUnreported
<1>2. QED
  BY InitRunner, NextRunner, <1>1, PTL DEF Spec

=============================================================================
