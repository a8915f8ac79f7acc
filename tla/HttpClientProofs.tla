-------------------------- MODULE HttpClientProofs --------------------------
(***************************************************************************)
(* Proofs about HttpClient, for any set of requests and hosts and every      *)
(* budget, retry bound, sentinel period and redirect bound.                  *)
(*                                                                          *)
(* Four accounts make the inductive invariant.  Slots: what was sent, plus   *)
(* the requests between the budget and the wire, is never more than was      *)
(* paid for.  Wires: whatever reached the transport was somebody's send,     *)
(* probe or fetch, each with its redirects.  Attempts: a request that is     *)
(* before its send has been sent at most as often as it was retried, and a   *)
(* request that may not be retried stays at attempt nought.  Watch: every    *)
(* request past the sentinel's counter has been counted, and the counter     *)
(* never outruns the probes.                                                *)
(***************************************************************************)
EXTENDS HttpClient, FiniteSetTheorems, TLAPS

BeforeSend == {"session", "probe", "csrf", "token", "budget",
               "global", "claim", "host", "send"}

\* The stages between the CSRF middleware and the answer.
PastCsrf == {"budget", "global", "claim", "host", "send", "failed", "pushed"}

\* A probe is begun when it is counted, and leaves a step later.
Probing == {r \in Requests : at[r] = "probe"}

\* The requests that the sentinel counted and did not lose.
Counted == {r \in Requests : at[r] # "session" /\ outcome[r] # "lost"}

Fetches == IF token \in Fetched \cup {"failed"} THEN 1 ELSE 0

Slots ==
  /\ MaxRequests > 0 => used <= MaxRequests /\ (exhausted => used = MaxRequests)
  /\ sends + Cardinality(Holding) <= used

Wires ==
  wire + Cardinality(Probing) * (1 + MaxHops) <= (sends + probes + Fetches) * (1 + MaxHops)

\* The fetch of the token belongs to one request.
OneFetch ==
  /\ \A r \in Requests : at[r] = "token" => token = "fetching"
  /\ \A r, q \in Requests : at[r] = "token" /\ at[q] = "token" => r = q

Attempts ==
  \A r \in Requests :
    /\ applied[r] <= (attempt[r] + (IF at[r] \in BeforeSend THEN 0 ELSE 1)) * Reach(r)
    /\ r \notin Idempotent => attempt[r] = 0
    /\ at[r] \in {"failed", "pushed"} => r \in Idempotent /\ attempt[r] < MaxRetries

Tokens ==
  \A r \in Requests : Wants(r) /\ (at[r] \in PastCsrf \/ applied[r] > 0) =>
    token \in Fetched /\ (Carries(r) => r \in carried)

LostIsFinal == \A r \in Requests : outcome[r] = "lost" => at[r] = "done"

Watch ==
  Every > 0 => Cardinality(Counted) <= count /\ count <= Every * probes

ClientInv ==
  TypeOK /\ Slots /\ Wires /\ OneFetch /\ Attempts /\ Tokens /\ LostIsFinal /\ Watch

-----------------------------------------------------------------------------
(* Sets of requests, and products.                                          *)

LEMMA RequestSets ==
  ASSUME NEW S \in SUBSET Requests
  PROVE  /\ IsFiniteSet(S)
         /\ Cardinality(S) \in Nat
         /\ S = {} => Cardinality(S) = 0
         /\ \A T \in SUBSET S : Cardinality(T) <= Cardinality(S)
<1>1. IsFiniteSet(S)
  BY FS_Subset, HttpAssumption
<1>2. QED
  BY <1>1, FS_CardinalityType, FS_EmptySet, FS_Subset

LEMMA OneRequestMore ==
  ASSUME NEW S \in SUBSET Requests, NEW r \in Requests
  PROVE  /\ r \notin S => Cardinality(S \cup {r}) = Cardinality(S) + 1
         /\ r \in S => Cardinality(S \ {r}) = Cardinality(S) - 1
         /\ Cardinality(S \cup {r}) <= Cardinality(S) + 1
<1>1. IsFiniteSet(S) /\ Cardinality(S) \in Nat
  BY RequestSets
<1>2. r \notin S => Cardinality(S \cup {r}) = Cardinality(S) + 1
  BY <1>1, FS_AddElement
<1>3. r \in S => Cardinality(S \ {r}) = Cardinality(S) - 1
  BY <1>1, FS_RemoveElement
<1>4. r \in S => S \cup {r} = S
  OBVIOUS
<1>5. QED
  BY <1>1, <1>2, <1>3, <1>4

LEMMA Products ==
  ASSUME NEW a \in Nat, NEW b \in Nat, NEW c \in Nat
  PROVE  /\ a * c \in Nat
         /\ (a + 1) * c = a * c + c
         /\ a <= b => a * c <= b * c
<1>1. a * c \in Nat /\ (a + 1) * c = a * c + c
  OBVIOUS
<1>2. ASSUME a <= b PROVE a * c <= b * c
  <2>1. PICK d \in Nat : b = a + d
    <3>1. b - a \in Nat /\ b = a + (b - a)
      BY <1>2
    <3>2. QED
      BY <3>1
  <2>2. b * c = a * c + d * c /\ d * c \in Nat
    BY <2>1
  <2>3. QED
    BY <2>2, <1>1
<1>3. QED
  BY <1>1, <1>2

\* What keeps the account of the wire: p owed and q paid for, each worth c.
LEMMA Account ==
  ASSUME NEW w \in Nat, NEW p \in Nat, NEW q \in Nat, NEW c \in Nat,
         NEW w2 \in Nat, NEW p2 \in Nat, NEW q2 \in Nat,
         w + p * c <= q * c,
         \/ p2 <= p /\ q2 = q /\ w2 = w
         \/ p2 <= p + 1 /\ q2 = q + 1 /\ w2 = w
         \/ p = p2 + 1 /\ q2 = q /\ w2 <= w + c
         \/ p2 <= p /\ q2 = q + 1 /\ w2 <= w + c
  PROVE  w2 + p2 * c <= q2 * c
<1>1. /\ p * c \in Nat /\ q * c \in Nat /\ p2 * c \in Nat
      /\ (p + 1) * c = p * c + c /\ (q + 1) * c = q * c + c
      /\ (p2 + 1) * c = p2 * c + c
  BY Products
<1>2. CASE p2 <= p
  <2>1. p2 * c <= p * c
    BY <1>2, Products
  <2>2. CASE q2 = q /\ w2 = w
    BY <1>1, <2>1, <2>2
  <2>3. CASE q2 = q + 1 /\ w2 <= w + c
    <3>1. q2 * c = q * c + c
      BY <1>1, <2>3
    <3>2. QED
      BY <1>1, <2>1, <2>3, <3>1
  <2>4. CASE p = p2 + 1 /\ q2 = q /\ w2 <= w + c
    <3>1. p * c = p2 * c + c /\ q2 * c = q * c
      BY <1>1, <2>4
    <3>2. QED
      BY <1>1, <2>4, <3>1
  <2>5. CASE q2 = q + 1 /\ w2 = w
    <3>1. q2 * c = q * c + c
      BY <1>1, <2>5
    <3>2. QED
      BY <1>1, <2>1, <2>5, <3>1
  <2>6. QED
    BY <2>2, <2>3, <2>4, <2>5
<1>3. CASE ~(p2 <= p)
  <2>1. p2 <= p + 1 /\ q2 = q + 1 /\ w2 = w
    BY <1>3
  <2>2. p2 * c <= (p + 1) * c /\ q2 * c = q * c + c
    BY <1>1, <2>1, Products
  <2>3. QED
    BY <1>1, <2>1, <2>2
<1>4. QED
  BY <1>2, <1>3

LEMMA Reaches == \A r \in Requests : Reach(r) \in Nat \ {0} /\ Reach(r) <= 1 + MaxHops
BY HttpAssumption DEF Reach

\* A multiple of the period is where the sentinel probes.
LEMMA Multiples ==
  ASSUME NEW e \in Nat \ {0}, NEW k \in Nat
  PROVE  (e * k) % e = 0
OBVIOUS

-----------------------------------------------------------------------------
(* The invariant is inductive: one lemma per account.                       *)

LEMMA InitClient == Init => ClientInv
<1> SUFFICES ASSUME Init PROVE ClientInv
  OBVIOUS
<1> USE HttpAssumption DEF Init
<1>1. TypeOK
  <2>1. at \in [Requests -> Stages] /\ outcome \in [Requests -> Outcomes]
    BY DEF Stages, Outcomes
  <2>2. attempt \in [Requests -> 0..MaxRetries]
    OBVIOUS
  <2>3. rate \in [Hosts -> Nat] /\ applied \in [Requests -> Nat]
    OBVIOUS
  <2>4. QED
    BY <2>1, <2>2, <2>3 DEF TypeOK
<1>2. Holding = {} /\ Probing = {} /\ (Every > 0 => Counted = {})
  BY DEF Holding, Probing, Counted
<1>3. Cardinality({}) = 0
  BY FS_EmptySet
<1>4. Slots
  BY <1>2, <1>3 DEF Slots
<1>5. Wires
  <2>1. Fetches = 0
    BY DEF Fetches, Fetched
  <2>2. 0 * (1 + MaxHops) = 0
    OBVIOUS
  <2>3. QED
    BY <1>2, <1>3, <2>1, <2>2 DEF Wires
<1>6. Watch
  BY <1>2, <1>3 DEF Watch
<1>7. OneFetch /\ Attempts /\ LostIsFinal
  <2>1. OneFetch /\ LostIsFinal
    BY DEF OneFetch, LostIsFinal
  <2>2. \A r \in Requests : 0 * Reach(r) = 0
    BY Reaches
  <2>3. QED
    BY <2>1, <2>2 DEF Attempts, BeforeSend
<1>8. Tokens
  BY DEF Tokens, PastCsrf
<1>9. QED
  BY <1>1, <1>4, <1>5, <1>6, <1>7, <1>8 DEF ClientInv

\* A send ends in an answer or, when an attempt is left, in a sleep.
LEMMA SendEnds ==
  ASSUME NEW r \in Requests, Send(r)
  PROVE  /\ at[r] = "send"
         /\ \/ Answer(r, "response") \/ Answer(r, "error")
            \/ ~LastAttempt(r) /\ (Goto(r, "pushed") \/ Goto(r, "failed"))
         /\ \E n, k \in 0..Reach(r) :
              wire' = wire + n /\ applied' = [applied EXCEPT ![r] = @ + k]
BY DEF Send

\* The fetch of the token ends, well or not.
LEMMA FetchedToken ==
  ASSUME NEW r \in Requests, CsrfFetch(r)
  PROVE  token' \in {"failed"} \cup Fetched
<1>1. \A kind \in {"input", "meta"} : Placed(kind) \in Fetched
  BY HttpAssumption DEF Placed, Fetched
<1>2. QED
  BY <1>1 DEF CsrfFetch, Fetched

\* Every step of a request moves it to a stage or answers it.
LEMMA StepMoves ==
  ASSUME NEW r \in Requests, Step(r)
  PROVE  \/ \E s \in Stages : Goto(r, s)
         \/ \E o \in Outcomes : Answer(r, o)
<1> USE DEF Stages, Outcomes
<1>2. CASE SessionCount(r)
  BY <1>2 DEF SessionCount
<1>3. CASE SessionProbe(r)
  BY <1>3 DEF SessionProbe
<1>4. CASE CsrfBegin(r)
  BY <1>4 DEF CsrfBegin
<1>5. CASE CsrfFetch(r)
  BY <1>5 DEF CsrfFetch
<1>6. CASE CsrfPass(r)
  BY <1>6 DEF CsrfPass
<1>7. CASE CsrfFail(r)
  BY <1>7 DEF CsrfFail
<1>8. CASE BudgetLook(r)
  BY <1>8 DEF BudgetLook, Exhaust
<1>9. CASE RateWait(r)
  BY <1>9 DEF RateWait
<1>10. CASE BudgetClaim(r)
  BY <1>10 DEF BudgetClaim, Exhaust
<1>11. CASE Send(r)
  BY <1>11, SendEnds
<1>12. CASE Retry(r)
  BY <1>12 DEF Retry
<1>13. CASE GiveUp(r)
  BY <1>13 DEF GiveUp
<1>14. QED
  BY <1>2, <1>3, <1>4, <1>5, <1>6, <1>7, <1>8, <1>9, <1>10, <1>11, <1>12, <1>13
     DEF Step

LEMMA NextTypeOK ==
  ASSUME TypeOK, Attempts, [Next]_vars
  PROVE  TypeOK'
<1> USE HttpAssumption
<1>1. ASSUME NEW r \in Requests, Step(r)
      PROVE  TypeOK'
  <2> USE DEF TypeOK
  <2>0. at' \in [Requests -> Stages] /\ outcome' \in [Requests -> Outcomes]
    BY <1>1, StepMoves DEF Goto, Answer, Stages
  <2>2. CASE SessionCount(r)
    BY <2>0, <2>2 DEF SessionCount
  <2>3. CASE SessionProbe(r)
    <3>1. wire' \in Nat
      BY <2>3 DEF SessionProbe
    <3>2. lost' \in BOOLEAN
      BY <2>3, Zenon DEF SessionProbe
    <3>3. UNCHANGED <<attempt, expired, used, exhausted, count, token, carried, rate,
                      applied, sends, probes>>
      BY <2>3 DEF SessionProbe
    <3>4. QED
      BY <2>0, <3>1, <3>2, <3>3
  <2>4. CASE CsrfBegin(r)
    BY <2>0, <2>4 DEF CsrfBegin
  <2>5. CASE CsrfFetch(r)
    <3>1. wire' \in Nat
      BY <2>5 DEF CsrfFetch
    <3>2. token' \in {"failed"} \cup Fetched
      BY <2>5, FetchedToken
    <3>3. UNCHANGED <<attempt, expired, used, exhausted, count, lost, carried, rate,
                      applied, sends, probes>>
      BY <2>5 DEF CsrfFetch
    <3>4. QED
      BY <2>0, <3>1, <3>2, <3>3
  <2>6. CASE CsrfPass(r)
    <3>1. carried' \subseteq Requests
      BY <2>6 DEF CsrfPass
    <3>2. UNCHANGED <<attempt, expired, used, exhausted, count, lost, token, rate,
                      applied, sends, probes, wire>>
      BY <2>6 DEF CsrfPass
    <3>3. QED
      BY <2>0, <3>1, <3>2
  <2>7. CASE CsrfFail(r)
    BY <2>0, <2>7 DEF CsrfFail
  <2>8. CASE BudgetLook(r)
    BY <2>0, <2>8 DEF BudgetLook, Exhaust
  <2>9. CASE RateWait(r)
    BY <2>0, <2>9 DEF RateWait
  <2>10. CASE BudgetClaim(r)
    <3>1. used' \in Nat
      BY <2>10 DEF BudgetClaim
    <3>2. exhausted' \in BOOLEAN
      BY <2>10, Zenon DEF BudgetClaim, Exhaust
    <3>3. UNCHANGED <<attempt, expired, count, lost, token, carried, rate, applied,
                      sends, probes, wire>>
      BY <2>10 DEF BudgetClaim
    <3>4. QED
      BY <2>0, <3>1, <3>2, <3>3
  <2>11. CASE Send(r)
    <3>1. \A n \in Nat : Halved(n) \in Nat
      BY DEF Halved
    <3>2. rate' \in [Hosts -> Nat]
      BY <2>11, <3>1 DEF Send
    <3>3. wire' \in Nat /\ applied' \in [Requests -> Nat]
      BY <2>11, SendEnds, Reaches
    <3>4. sends' \in Nat
      BY <2>11 DEF Send
    <3>5. UNCHANGED <<attempt, expired, used, exhausted, count, lost, token, carried,
                      probes>>
      BY <2>11 DEF Send
    <3>6. QED
      BY <2>0, <3>2, <3>3, <3>4, <3>5
  <2>12. CASE Retry(r)
    BY <2>0, <2>12 DEF Retry, Attempts
  <2>13. CASE GiveUp(r)
    BY <2>0, <2>13 DEF GiveUp
  <2>14. QED
    BY <1>1, <2>2, <2>3, <2>4, <2>5, <2>6, <2>7, <2>8, <2>9, <2>10, <2>11, <2>12, <2>13
       DEF Step
<1>2. ASSUME NEW r \in Requests, Expire(r)
      PROVE  TypeOK'
  BY <1>2 DEF Expire, TypeOK
<1>3. CASE UNCHANGED vars
  BY <1>3 DEF vars, TypeOK
<1>4. QED
  BY <1>1, <1>2, <1>3 DEF Next

LEMMA NextSlots ==
  ASSUME TypeOK, Slots, [Next]_vars
  PROVE  Slots'
<1>0. Cardinality(Holding) \in Nat /\ used \in Nat /\ sends \in Nat
  BY RequestSets DEF Holding, TypeOK
\* What neither pays, nor sends, nor brings a request to the limiter.
<1>1. ASSUME Holding' \subseteq Holding, used' = used /\ sends' = sends,
             exhausted' = exhausted \/ (MaxRequests > 0 /\ used >= MaxRequests)
      PROVE  Slots'
  <2>1. Cardinality(Holding') <= Cardinality(Holding) /\ Cardinality(Holding') \in Nat
    BY <1>1, RequestSets DEF Holding
  <2>2. sends' + Cardinality(Holding') <= used'
    BY <1>0, <1>1, <2>1 DEF Slots
  <2>3. MaxRequests > 0 => used' <= MaxRequests /\ (exhausted' => used' = MaxRequests)
    BY <1>0, <1>1, HttpAssumption DEF Slots
  <2>4. QED
    BY <2>2, <2>3 DEF Slots
<1>2. ASSUME NEW r \in Requests, Step(r)
      PROVE  Slots'
  <2>1. CASE SessionCount(r) \/ SessionProbe(r)
    <3>1. Holding' \subseteq Holding /\ used' = used /\ sends' = sends /\ exhausted' = exhausted
      BY <2>1 DEF SessionCount, SessionProbe,
             Goto, Answer, Holding, TypeOK
    <3>2. QED
      BY <3>1, <1>1
  <2>2. CASE CsrfBegin(r) \/ CsrfFetch(r) \/ CsrfPass(r) \/ CsrfFail(r)
    <3>1. Holding' \subseteq Holding /\ used' = used /\ sends' = sends /\ exhausted' = exhausted
      BY <2>2 DEF CsrfBegin, CsrfFetch, CsrfPass, CsrfFail,
             Goto, Answer, Holding, TypeOK
    <3>2. QED
      BY <3>1, <1>1
  <2>3. CASE BudgetLook(r)
    <3>1. Holding' \subseteq Holding /\ used' = used /\ sends' = sends
      BY <2>3 DEF BudgetLook, Exhaust,
             Goto, Answer, Holding, TypeOK
    <3>2. exhausted' = exhausted \/ (MaxRequests > 0 /\ used >= MaxRequests)
      BY <2>3 DEF BudgetLook
    <3>3. QED
      BY <3>1, <3>2, <1>1
  <2>4. CASE RateWait(r)
    <3>1. Holding' \subseteq Holding
      BY <2>4 DEF RateWait,
             Goto, Answer, Holding, TypeOK
    <3>2. used' = used /\ sends' = sends /\ exhausted' = exhausted
      BY <2>4 DEF RateWait
    <3>3. QED
      BY <3>1, <3>2, <1>1
  <2>5. CASE BudgetClaim(r)
    <3>1. CASE MaxRequests > 0 /\ used >= MaxRequests
      <4>1. Holding' \subseteq Holding /\ used' = used /\ sends' = sends
        BY <2>5, <3>1 DEF BudgetClaim, Exhaust, Answer, Holding, TypeOK
      <4>2. QED
        BY <3>1, <4>1, <1>1
    <3>2. CASE ~(MaxRequests > 0 /\ used >= MaxRequests)
      <4>1. used' = used + 1 /\ UNCHANGED <<sends, exhausted>>
        BY <2>5, <3>2 DEF BudgetClaim
      <4>2. Holding' = Holding \cup {r} /\ r \notin Holding
        BY <2>5, <3>2 DEF BudgetClaim, Goto, Holding, TypeOK
      <4>3. Cardinality(Holding') = Cardinality(Holding) + 1
        BY <4>2, OneRequestMore DEF Holding
      <4>4. MaxRequests > 0 => used' <= MaxRequests /\ ~exhausted
        BY <1>0, <4>1, <3>2, HttpAssumption DEF Slots
      <4>5. QED
        BY <1>0, <4>1, <4>3, <4>4 DEF Slots
    <3>3. QED
      BY <3>1, <3>2
  <2>6. CASE Send(r)
    <3>1. at[r] = "send" /\ at'[r] \in {"done", "failed", "pushed"}
      BY <2>6, SendEnds DEF Goto, Answer, TypeOK
    <3>2. \A q \in Requests \ {r} : at'[q] = at[q]
      BY <2>6, SendEnds DEF Goto, Answer, TypeOK
    <3>3. Holding' = Holding \ {r} /\ r \in Holding
      BY <3>1, <3>2 DEF Holding
    <3>4. Cardinality(Holding') = Cardinality(Holding) - 1
      BY <3>3, OneRequestMore DEF Holding
    <3>5. sends' = sends + 1 /\ UNCHANGED <<used, exhausted>>
      BY <2>6 DEF Send
    <3>6. sends' + Cardinality(Holding') <= used'
      BY <1>0, <3>4, <3>5 DEF Slots
    <3>7. QED
      BY <3>5, <3>6 DEF Slots
  <2>7. CASE Retry(r) \/ GiveUp(r)
    <3>1. Holding' \subseteq Holding
      BY <2>7 DEF Retry, GiveUp,
             Goto, Answer, Holding, TypeOK
    <3>2. used' = used /\ sends' = sends /\ exhausted' = exhausted
      BY <2>7 DEF Retry, GiveUp
    <3>3. QED
      BY <3>1, <3>2, <1>1
  <2>8. QED
    BY <1>2, <2>1, <2>2, <2>3, <2>4, <2>5, <2>6, <2>7 DEF Step
<1>3. CASE UNCHANGED vars \/ \E r \in Requests : Expire(r)
  <2>1. Holding' \subseteq Holding /\ used' = used /\ sends' = sends /\ exhausted' = exhausted
    BY <1>3 DEF Expire, vars, Holding
  <2>2. QED
    BY <2>1, <1>1
<1>4. QED
  BY <1>2, <1>3 DEF Next

LEMMA NextWires ==
  ASSUME TypeOK, OneFetch, Wires, [Next]_vars
  PROVE  Wires'
<1> DEFINE hops == 1 + MaxHops
           paid == sends + probes + Fetches
<1>0. /\ Cardinality(Probing) \in Nat /\ Fetches \in 0..1
      /\ {wire, sends, probes} \subseteq Nat /\ hops \in Nat
      /\ paid \in Nat
  BY RequestSets, HttpAssumption DEF Probing, Fetches, TypeOK
\* What sends nothing and fetches nothing may only end a probe.
<1>1. ASSUME Probing' \subseteq Probing, Fetches' = Fetches,
             wire' = wire, sends' = sends, probes' = probes
      PROVE  Wires'
  <2>1. Cardinality(Probing') <= Cardinality(Probing) /\ Cardinality(Probing') \in Nat
    BY <1>1, RequestSets DEF Probing
  <2>2. wire + Cardinality(Probing') * hops <= paid * hops
    BY <1>0, <2>1, Account DEF Wires
  <2>3. QED
    BY <1>1, <2>2 DEF Wires
<1>2. ASSUME NEW r \in Requests, Step(r)
      PROVE  Wires'
  <2>1. CASE CsrfPass(r) \/ CsrfFail(r) \/ BudgetLook(r) \/ RateWait(r)
    <3>1. (\E s \in Stages \ {"probe"} : Goto(r, s)) \/ \E o \in Outcomes : Answer(r, o)
      BY <2>1 DEF CsrfPass, CsrfFail, BudgetLook, Exhaust, RateWait, Stages, Outcomes
    <3>2. Probing' \subseteq Probing
      BY <3>1 DEF Goto, Answer, Probing, TypeOK
    <3>3. token' = token /\ wire' = wire /\ sends' = sends /\ probes' = probes
      BY <2>1 DEF CsrfPass, CsrfFail, BudgetLook, RateWait
    <3>4. QED
      BY <3>2, <3>3, <1>1 DEF Fetches
  <2>2. CASE CsrfBegin(r) \/ BudgetClaim(r) \/ Retry(r) \/ GiveUp(r)
    <3>1. (\E s \in Stages \ {"probe"} : Goto(r, s)) \/ \E o \in Outcomes : Answer(r, o)
      BY <2>2 DEF CsrfBegin, BudgetClaim, Exhaust, Retry, GiveUp, Stages, Outcomes
    <3>2. Probing' \subseteq Probing
      BY <3>1 DEF Goto, Answer, Probing, TypeOK
    <3>3. Fetches' = Fetches /\ wire' = wire /\ sends' = sends /\ probes' = probes
      BY <2>2 DEF CsrfBegin, BudgetClaim, Retry, GiveUp, Fetches, Fetched
    <3>4. QED
      BY <3>2, <3>3, <1>1
  <2>3. CASE SessionCount(r)
    <3>1. token' = token /\ wire' = wire /\ sends' = sends
      BY <2>3 DEF SessionCount
    <3>2. CASE Goto(r, "probe") /\ probes' = probes + 1
      <4>1. Probing' = Probing \cup {r}
        BY <3>2 DEF Goto, Probing, TypeOK
      <4>2. Cardinality(Probing') <= Cardinality(Probing) + 1 /\ Cardinality(Probing') \in Nat
        BY <4>1, OneRequestMore, RequestSets DEF Probing
      <4>3. wire + Cardinality(Probing') * hops <= (paid + 1) * hops
        BY <1>0, <4>2, Account DEF Wires
      <4>4. QED
        <5>1. Fetches' = Fetches /\ paid' = paid + 1
          BY <1>0, <3>1, <3>2 DEF Fetches
        <5>2. QED
          BY <3>1, <4>3, <5>1 DEF Wires
    <3>3. CASE (Goto(r, "csrf") \/ Answer(r, "lost")) /\ probes' = probes
      <4>1. Probing' \subseteq Probing
        BY <3>3 DEF Goto, Answer, Probing, TypeOK
      <4>2. QED
        BY <3>1, <3>3, <4>1, <1>1 DEF Fetches
    <3>4. QED
      BY <2>3, <3>2, <3>3 DEF SessionCount
  <2>4. CASE SessionProbe(r)
    <3>1. /\ wire' \in Nat /\ wire' <= wire + hops
          /\ sends' = sends /\ probes' = probes /\ token' = token
      BY <1>0, <2>4 DEF SessionProbe
    <3>2. Goto(r, "csrf") \/ Answer(r, "lost")
      BY <2>4 DEF SessionProbe
    <3>3. Probing' = Probing \ {r} /\ r \in Probing
      BY <2>4, <3>2 DEF SessionProbe, Goto, Answer, Probing, TypeOK
    <3>4. Cardinality(Probing) = Cardinality(Probing') + 1 /\ Cardinality(Probing') \in Nat
      BY <1>0, <3>3, OneRequestMore, RequestSets DEF Probing
    <3>5. wire' + Cardinality(Probing') * hops <= paid * hops
      BY <1>0, <3>1, <3>4, Account DEF Wires
    <3>6. QED
      BY <3>1, <3>5 DEF Wires, Fetches
  <2>5. CASE CsrfFetch(r)
    <3>1. wire' \in Nat /\ wire' <= wire + hops /\ sends' = sends /\ probes' = probes
      BY <1>0, <2>5 DEF CsrfFetch
    <3>2. Fetches = 0 /\ Fetches' = 1
      <4>1. token = "fetching"
        BY <2>5 DEF CsrfFetch, OneFetch
      <4>2. QED
        BY <2>5, <4>1, FetchedToken DEF Fetches, Fetched
    <3>3. Probing' \subseteq Probing
      BY <2>5 DEF CsrfFetch, Goto, Probing, TypeOK
    <3>4. Cardinality(Probing') <= Cardinality(Probing) /\ Cardinality(Probing') \in Nat
      BY <3>3, RequestSets DEF Probing
    <3>5. wire' + Cardinality(Probing') * hops <= (paid + 1) * hops
      BY <1>0, <3>1, <3>4, Account DEF Wires
    <3>6. paid' = paid + 1
      BY <1>0, <3>1, <3>2
    <3>7. QED
      BY <3>5, <3>6 DEF Wires
  <2>6. CASE Send(r)
    <3>1. sends' = sends + 1 /\ probes' = probes /\ token' = token
      BY <2>6 DEF Send
    <3>2. wire' \in Nat /\ wire' <= wire + hops
      BY <1>0, <2>6, SendEnds, Reaches
    <3>3. Probing' \subseteq Probing
      BY <2>6, SendEnds DEF Goto, Answer, Probing, TypeOK
    <3>4. Cardinality(Probing') <= Cardinality(Probing) /\ Cardinality(Probing') \in Nat
      BY <3>3, RequestSets DEF Probing
    <3>5. wire' + Cardinality(Probing') * hops <= (paid + 1) * hops
      BY <1>0, <3>2, <3>4, Account DEF Wires
    <3>6. Fetches' = Fetches /\ paid' = paid + 1
      BY <1>0, <3>1 DEF Fetches
    <3>7. QED
      BY <3>5, <3>6 DEF Wires
  <2>7. QED
    BY <1>2, <2>1, <2>2, <2>3, <2>4, <2>5, <2>6 DEF Step
<1>3. CASE UNCHANGED vars \/ \E r \in Requests : Expire(r)
  <2>1. Probing' \subseteq Probing /\ Fetches' = Fetches
    BY <1>3 DEF Expire, vars, Probing, Fetches
  <2>2. wire' = wire /\ sends' = sends /\ probes' = probes
    BY <1>3 DEF Expire, vars
  <2>3. QED
    BY <2>1, <2>2, <1>1
<1>4. QED
  BY <1>2, <1>3 DEF Next

LEMMA NextOneFetch ==
  ASSUME TypeOK, OneFetch, [Next]_vars
  PROVE  OneFetch'
<1>1. ASSUME NEW r \in Requests, Step(r)
      PROVE  OneFetch'
  <2>1. CASE CsrfBegin(r)
    BY <2>1 DEF CsrfBegin, Goto, OneFetch, TypeOK
  <2>2. CASE CsrfFetch(r)
    BY <2>2 DEF CsrfFetch, Goto, OneFetch, TypeOK
  <2>3. CASE ~CsrfBegin(r) /\ ~CsrfFetch(r)
    <3>1. (\E s \in Stages \ {"token"} : Goto(r, s)) \/ \E o \in Outcomes : Answer(r, o)
      <4> USE DEF Stages, Outcomes
      <4>1. CASE SessionCount(r) \/ SessionProbe(r)
        BY <4>1 DEF SessionCount, SessionProbe
      <4>2. CASE CsrfPass(r) \/ CsrfFail(r) \/ BudgetLook(r) \/ RateWait(r)
        BY <4>2 DEF CsrfPass, CsrfFail, BudgetLook, Exhaust, RateWait
      <4>3. CASE BudgetClaim(r) \/ Retry(r) \/ GiveUp(r)
        BY <4>3 DEF BudgetClaim, Exhaust, Retry, GiveUp
      <4>4. CASE Send(r)
        BY <4>4, SendEnds
      <4>5. QED
        BY <1>1, <2>3, <4>1, <4>2, <4>3, <4>4 DEF Step
    <3>2. token' = token
      BY <1>1, <2>3 DEF Step, SessionCount, SessionProbe, CsrfPass, CsrfFail,
                        BudgetLook, RateWait, BudgetClaim, Send, Retry, GiveUp
    <3>3. \A q \in Requests : at'[q] = "token" => at[q] = "token"
      BY <3>1 DEF Goto, Answer, TypeOK
    <3>4. QED
      BY <3>2, <3>3 DEF OneFetch
  <2>4. QED
    BY <2>1, <2>2, <2>3
<1>2. CASE UNCHANGED vars \/ \E r \in Requests : Expire(r)
  BY <1>2 DEF Expire, vars, OneFetch
<1>3. QED
  BY <1>1, <1>2 DEF Next

LEMMA NextAttempts ==
  ASSUME TypeOK, Attempts, [Next]_vars
  PROVE  Attempts'
\* A move that sends nothing keeps the account if it stays on its side.
<1>1. ASSUME NEW r \in Requests,
             \/ \E s \in Stages \ {"failed", "pushed"} : Goto(r, s) /\ at[r] \in BeforeSend
             \/ \E o \in Outcomes : Answer(r, o),
             applied' = applied, attempt' = attempt
      PROVE  Attempts'
  <2> SUFFICES ASSUME NEW q \in Requests
               PROVE  /\ applied[q] <= (attempt[q] + (IF at'[q] \in BeforeSend THEN 0 ELSE 1)) * Reach(q)
                      /\ at'[q] \in {"failed", "pushed"} =>
                           at'[q] = at[q] /\ q # r
    BY <1>1 DEF Attempts
  <2>1. applied[q] \in Nat /\ attempt[q] \in Nat /\ Reach(q) \in Nat
    BY HttpAssumption, Reaches DEF TypeOK
  <2>2. applied[q] <= (attempt[q] + (IF at[q] \in BeforeSend THEN 0 ELSE 1)) * Reach(q)
    BY DEF Attempts
  <2>3. CASE q # r
    BY <1>1, <2>2, <2>3 DEF Goto, Answer, TypeOK
  <2>4. CASE q = r
    <3>1. at'[q] \notin {"failed", "pushed"}
      BY <1>1, <2>4 DEF Goto, Answer, TypeOK
    <3>2. at'[q] \in BeforeSend => at[q] \in BeforeSend
      BY <1>1, <2>4 DEF Goto, Answer, TypeOK, BeforeSend
    <3>3. /\ attempt[q] * Reach(q) \in Nat /\ attempt[q] + 0 = attempt[q]
          /\ (attempt[q] + 1) * Reach(q) = attempt[q] * Reach(q) + Reach(q)
      BY <2>1, Products
    <3>4. CASE at'[q] \in BeforeSend
      BY <2>2, <3>1, <3>2, <3>4
    <3>5. CASE at'[q] \notin BeforeSend
      <4>1. applied[q] <= (attempt[q] + 1) * Reach(q)
        BY <2>1, <2>2, <3>3
      <4>2. QED
        BY <3>1, <3>5, <4>1
    <3>6. QED
      BY <3>4, <3>5
  <2>5. QED
    BY <2>3, <2>4
<1>2. ASSUME NEW r \in Requests, Step(r)
      PROVE  Attempts'
  <2> USE DEF Stages, Outcomes, BeforeSend
  <2>1. CASE SessionCount(r) \/ SessionProbe(r)
    BY <2>1, <1>1 DEF SessionCount, SessionProbe
  <2>2. CASE CsrfBegin(r) \/ CsrfFetch(r) \/ CsrfPass(r) \/ CsrfFail(r)
    BY <2>2, <1>1 DEF CsrfBegin, CsrfFetch, CsrfPass, CsrfFail
  <2>3. CASE BudgetLook(r) \/ RateWait(r) \/ BudgetClaim(r)
    BY <2>3, <1>1 DEF BudgetLook, RateWait, BudgetClaim, Exhaust
  <2>4. CASE GiveUp(r)
    BY <2>4, <1>1 DEF GiveUp
  <2>5. CASE Send(r)
    <3>1. at[r] = "send" /\ attempt' = attempt
      BY <2>5 DEF Send
    <3>2. PICK k \in 0..Reach(r) : applied' = [applied EXCEPT ![r] = @ + k]
      BY <2>5, SendEnds
    <3>3. at'[r] \in {"done", "failed", "pushed"}
      BY <2>5, SendEnds DEF Goto, Answer, TypeOK
    <3>4. at'[r] # "done" => ~LastAttempt(r)
      BY <2>5, SendEnds DEF Goto, Answer, TypeOK
    <3>5. at'[r] # "done" => r \in Idempotent /\ attempt[r] < MaxRetries
      <4>1. attempt[r] \in 0..MaxRetries
        BY DEF TypeOK
      <4>2. QED
        BY <3>4, <4>1, HttpAssumption DEF LastAttempt
    <3>6. \A q \in Requests \ {r} : at'[q] = at[q] /\ applied'[q] = applied[q]
      BY <2>5, <3>2, SendEnds DEF Goto, Answer, TypeOK
    <3>7. applied'[r] <= (attempt[r] + 1) * Reach(r)
      <4>1. /\ attempt[r] \in Nat /\ Reach(r) \in Nat /\ applied[r] \in Nat
            /\ attempt[r] + 0 = attempt[r]
        BY HttpAssumption, Reaches DEF TypeOK
      <4>2. applied[r] <= attempt[r] * Reach(r)
        BY <3>1, <4>1 DEF Attempts
      <4>3. attempt[r] * Reach(r) \in Nat
            /\ (attempt[r] + 1) * Reach(r) = attempt[r] * Reach(r) + Reach(r)
        BY <4>1, Products
      <4>4. applied'[r] = applied[r] + k
        BY <3>2 DEF TypeOK
      <4>5. QED
        BY <4>1, <4>2, <4>3, <4>4
    <3>8. at'[r] \notin BeforeSend
      BY <3>3
    <3>9. ASSUME NEW q \in Requests
          PROVE  /\ applied'[q] <= (attempt[q] + (IF at'[q] \in BeforeSend THEN 0 ELSE 1)) * Reach(q)
                 /\ q \notin Idempotent => attempt[q] = 0
                 /\ at'[q] \in {"failed", "pushed"} => q \in Idempotent /\ attempt[q] < MaxRetries
      <4>1. CASE q = r
        BY <3>5, <3>7, <3>8, <4>1 DEF Attempts
      <4>2. CASE q # r
        BY <3>6, <4>2 DEF Attempts
      <4>3. QED
        BY <4>1, <4>2
    <3>10. QED
      BY <3>1, <3>9 DEF Attempts
  <2>6. CASE Retry(r)
    <3>1. /\ at[r] \in {"failed", "pushed"} /\ applied' = applied
          /\ attempt' = [attempt EXCEPT ![r] = @ + 1]
          /\ at' = [at EXCEPT ![r] = "budget"]
      BY <2>6 DEF Retry, Goto
    <3>2. /\ applied[r] <= (attempt[r] + 1) * Reach(r)
          /\ r \in Idempotent /\ attempt[r] < MaxRetries
      BY <3>1 DEF Attempts
    <3>3. at'[r] = "budget" /\ attempt'[r] = attempt[r] + 1
      BY <3>1 DEF TypeOK
    <3>4. \A q \in Requests \ {r} : at'[q] = at[q] /\ attempt'[q] = attempt[q]
      BY <3>1 DEF TypeOK
    <3>5. attempt'[r] + 0 = attempt[r] + 1
      BY <3>3, HttpAssumption DEF TypeOK
    <3>6. ASSUME NEW q \in Requests
          PROVE  /\ applied[q] <= (attempt'[q] + (IF at'[q] \in BeforeSend THEN 0 ELSE 1)) * Reach(q)
                 /\ q \notin Idempotent => attempt'[q] = 0
                 /\ at'[q] \in {"failed", "pushed"} => q \in Idempotent /\ attempt'[q] < MaxRetries
      <4>1. CASE q = r
        BY <3>2, <3>3, <3>5, <4>1
      <4>2. CASE q # r
        BY <3>4, <4>2 DEF Attempts
      <4>3. QED
        BY <4>1, <4>2
    <3>7. QED
      BY <3>1, <3>6 DEF Attempts
  <2>7. QED
    BY <1>2, <2>1, <2>2, <2>3, <2>4, <2>5, <2>6 DEF Step
<1>3. CASE UNCHANGED vars \/ \E r \in Requests : Expire(r)
  BY <1>3 DEF Expire, vars, Attempts
<1>4. QED
  BY <1>2, <1>3 DEF Next

LEMMA NextTokens ==
  ASSUME TypeOK, OneFetch, Tokens, [Next]_vars
  PROVE  Tokens'
<1> SUFFICES ASSUME NEW q \in Requests, Wants(q), at'[q] \in PastCsrf \/ applied'[q] > 0
             PROVE  token' \in Fetched /\ (Carries(q)' => q \in carried')
  BY DEF Tokens, Wants
<1>1. ASSUME NEW r \in Requests, Step(r)
      PROVE  token' \in Fetched /\ (Carries(q)' => q \in carried')
  \* A token that was fetched stays: nobody fetches it again.
  <2>1. token \in Fetched => token' = token
    BY <1>1 DEF Step, SessionCount, SessionProbe, CsrfBegin, CsrfFetch, CsrfPass,
                CsrfFail, BudgetLook, RateWait, BudgetClaim, Send, Retry, GiveUp, OneFetch, Fetched
  <2>2. carried \subseteq carried'
    BY <1>1 DEF Step, SessionCount, SessionProbe, CsrfBegin, CsrfFetch, CsrfPass,
                CsrfFail, BudgetLook, RateWait, BudgetClaim, Send, Retry, GiveUp
  <2>3. CASE at[q] \in PastCsrf \/ applied[q] > 0
    BY <2>1, <2>2, <2>3 DEF Tokens, Carries
  <2>4. CASE at[q] \notin PastCsrf /\ ~(applied[q] > 0)
    <3>1. CASE q # r
      <4>1. at'[q] = at[q]
        BY <1>1, <3>1, StepMoves DEF Goto, Answer, TypeOK
      <4>2. applied'[q] = applied[q]
        <5>1. CASE Send(r)
          BY <3>1, <5>1, SendEnds DEF TypeOK
        <5>2. CASE ~Send(r)
          BY <1>1, <5>2 DEF Step, SessionCount, SessionProbe, CsrfBegin, CsrfFetch,
             CsrfPass, CsrfFail, BudgetLook, RateWait, BudgetClaim, Retry, GiveUp
        <5>3. QED
          BY <5>1, <5>2
      <4>3. QED
        BY <2>4, <4>1, <4>2
    <3>2. CASE q = r
      <4>1. CASE CsrfPass(r)
        BY <4>1, <3>2 DEF CsrfPass, Carries
      <4>2. CASE at[r] \in {"budget", "global", "claim", "host", "send", "failed", "pushed"}
        BY <2>4, <3>2, <4>2 DEF PastCsrf
      <4>3. CASE SessionCount(r) \/ SessionProbe(r) \/ CsrfBegin(r)
                 \/ CsrfFetch(r) \/ CsrfFail(r)
        <5>1. at'[r] \notin PastCsrf
          BY <4>3 DEF SessionCount, SessionProbe, CsrfBegin, CsrfFetch, CsrfFail,
                      Goto, Answer, TypeOK, PastCsrf
        <5>2. applied' = applied
          BY <4>3 DEF SessionCount, SessionProbe, CsrfBegin, CsrfFetch, CsrfFail
        <5>3. QED
          BY <2>4, <3>2, <5>1, <5>2
      <4>4. QED
        BY <1>1, <4>1, <4>2, <4>3
           DEF Step, BudgetLook, RateWait, BudgetClaim, Send, Retry, GiveUp
    <3>3. QED
      BY <3>1, <3>2
  <2>5. QED
    BY <2>3, <2>4
<1>2. CASE UNCHANGED vars \/ \E r \in Requests : Expire(r)
  BY <1>2 DEF Expire, vars, Tokens, Carries
<1>3. QED
  BY <1>1, <1>2 DEF Next

LEMMA DoneIsFinal ==
  ASSUME NEW r \in Requests, Step(r)
  PROVE  at[r] # "done"
BY DEF Step, SessionCount, SessionProbe, CsrfBegin, CsrfFetch, CsrfPass, CsrfFail,
       BudgetLook, RateWait, BudgetClaim, Send, Retry, GiveUp

LEMMA NextLostIsFinal ==
  ASSUME TypeOK, LostIsFinal, [Next]_vars
  PROVE  LostIsFinal'
<1>1. ASSUME NEW r \in Requests, Step(r)
      PROVE  LostIsFinal'
  BY <1>1, StepMoves, DoneIsFinal DEF LostIsFinal, Goto, Answer, TypeOK
<1>2. CASE UNCHANGED vars \/ \E r \in Requests : Expire(r)
  BY <1>2 DEF Expire, vars, LostIsFinal
<1>3. QED
  BY <1>1, <1>2 DEF Next

LEMMA NextWatch ==
  ASSUME TypeOK, LostIsFinal, Watch, [Next]_vars
  PROVE  Watch'
<1> SUFFICES ASSUME Every > 0
             PROVE  Cardinality(Counted') <= count' /\ count' <= Every * probes'
  BY DEF Watch
<1>0. /\ Cardinality(Counted) \in Nat /\ Cardinality(Counted) <= count
      /\ count <= Every * probes
      /\ count \in Nat /\ probes \in Nat /\ Every \in Nat \ {0}
  BY RequestSets, HttpAssumption DEF Counted, Watch, TypeOK
\* A request that is neither counted nor on its way to the counter's far side.
<1>1. ASSUME Counted' \subseteq Counted, count' = count, probes' = probes
      PROVE  Cardinality(Counted') <= count' /\ count' <= Every * probes'
  <2>1. Cardinality(Counted') <= Cardinality(Counted) /\ Cardinality(Counted') \in Nat
    BY <1>1, RequestSets DEF Counted
  <2>2. QED
    BY <1>0, <1>1, <2>1
<1>2. ASSUME NEW r \in Requests, Step(r)
      PROVE  Cardinality(Counted') <= count' /\ count' <= Every * probes'
  <2>1. CASE SessionCount(r) /\ ~lost
    <3>1. count' = count + 1
      BY <2>1 DEF SessionCount
    <3>2. \/ Due(count + 1) /\ probes' = probes + 1
          \/ ~Due(count + 1) /\ probes' = probes
      BY <2>1, <3>1 DEF SessionCount
    <3>3. Counted' \subseteq Counted \cup {r}
      BY <2>1 DEF SessionCount, Goto, Counted, TypeOK
    <3>4. Cardinality(Counted') <= Cardinality(Counted) + 1
      <4>1. Cardinality(Counted \cup {r}) <= Cardinality(Counted) + 1
        BY OneRequestMore DEF Counted
      <4>2. Cardinality(Counted') <= Cardinality(Counted \cup {r})
        BY <3>3, RequestSets DEF Counted
      <4>3. Cardinality(Counted') \in Nat /\ Cardinality(Counted \cup {r}) \in Nat
        BY RequestSets DEF Counted
      <4>4. QED
        BY <1>0, <4>1, <4>2, <4>3
    <3>5. count + 1 <= Every * probes'
      <4>1. CASE Due(count + 1)
        <5>1. (probes + 1) * Every = probes * Every + Every
          BY <1>0, Products
        <5>2. QED
          BY <1>0, <3>2, <4>1, <5>1
      <4>2. CASE ~Due(count + 1)
        <5>1. count % Every # 0
          BY <1>0, <4>2 DEF Due
        <5>2. count # Every * probes
          BY <1>0, <5>1, Multiples
        <5>3. Every * probes \in Nat
          BY <1>0
        <5>4. QED
          BY <1>0, <3>2, <4>2, <5>2, <5>3
      <4>3. QED
        BY <4>1, <4>2
    <3>6. QED
      BY <1>0, <3>1, <3>4, <3>5, RequestSets DEF Counted
  <2>2. CASE SessionCount(r) /\ lost
    <3>1. Counted' \subseteq Counted
      BY <1>0, <2>2 DEF SessionCount, Goto, Answer, Counted, TypeOK
    <3>2. count' = count /\ probes' = probes
      BY <2>2 DEF SessionCount
    <3>3. QED
      BY <3>1, <3>2, <1>1
  <2>3. CASE ~SessionCount(r)
    <3>1. at[r] # "session"
      BY <1>2, <2>3 DEF Step, SessionProbe, CsrfBegin, CsrfFetch, CsrfPass, CsrfFail,
                        BudgetLook, RateWait, BudgetClaim, Send, Retry, GiveUp
    <3>2. Counted' \subseteq Counted
      <4>1. r \in Counted
        BY <1>2, <3>1, DoneIsFinal DEF Counted, LostIsFinal
      <4>2. QED
        BY <1>2, <4>1, StepMoves DEF Goto, Answer, Counted, TypeOK
    <3>3. count' = count /\ probes' = probes
      BY <1>2, <2>3 DEF Step, SessionProbe, CsrfBegin, CsrfFetch, CsrfPass, CsrfFail,
                        BudgetLook, RateWait, BudgetClaim, Send, Retry, GiveUp
    <3>4. QED
      BY <3>2, <3>3, <1>1
  <2>4. QED
    BY <1>2, <2>1, <2>2, <2>3
<1>3. CASE UNCHANGED vars \/ \E r \in Requests : Expire(r)
  <2>1. Counted' \subseteq Counted /\ count' = count /\ probes' = probes
    BY <1>3 DEF Expire, vars, Counted
  <2>2. QED
    BY <2>1, <1>1
<1>4. QED
  BY <1>2, <1>3 DEF Next

-----------------------------------------------------------------------------
(* The theorems.                                                            *)

LEMMA NextClient == ClientInv /\ [Next]_vars => ClientInv'
BY NextTypeOK, NextSlots, NextWires, NextOneFetch, NextAttempts, NextTokens,
   NextLostIsFinal, NextWatch DEF ClientInv

\* Every variable of the client keeps its type, whatever the requests meet.
THEOREM ClientTypeCorrect == Spec => []TypeOK
<1>1. ClientInv => TypeOK
  BY DEF ClientInv
<1>2. QED
  BY InitClient, NextClient, <1>1, PTL DEF Spec

\* The budget caps attempts exactly as BudgetIsHard says: a request looks at the
\* counter long before it takes its slot, yet no interleaving of any number of
\* requests passes the cap.  What reaches the transport is bounded through the
\* attempts, the probes and the one fetch, with the redirects each may follow.
THEOREM BudgetHolds == Spec => []BudgetIsHard
<1>1. ClientInv => BudgetIsHard
  <2> SUFFICES ASSUME ClientInv PROVE BudgetIsHard
    OBVIOUS
  <2>1. TypeOK /\ Slots /\ Wires
    BY DEF ClientInv
  <2>2. /\ Cardinality(Probing) \in Nat /\ Cardinality(Holding) \in Nat
        /\ Fetches \in 0..1
    BY <2>1, RequestSets DEF Probing, Holding, Fetches, TypeOK
  <2>3. /\ sends <= used /\ {sends, used, probes, wire} \subseteq Nat
        /\ 1 + MaxHops \in Nat
    BY <2>1, <2>2, HttpAssumption DEF Slots, TypeOK
  <2>4. (sends + probes + Fetches) * (1 + MaxHops) <= (used + probes + 1) * (1 + MaxHops)
    BY <2>2, <2>3, Products
  <2>5. /\ Cardinality(Probing) * (1 + MaxHops) \in Nat
        /\ (sends + probes + Fetches) * (1 + MaxHops) \in Nat
        /\ (used + probes + 1) * (1 + MaxHops) \in Nat
    BY <2>2, <2>3, Products
  <2>6. wire <= (used + probes + 1) * (1 + MaxHops)
    BY <2>1, <2>3, <2>4, <2>5 DEF Wires
  <2>7. QED
    BY <2>1, <2>6 DEF Slots, BudgetIsHard
<1>2. QED
  BY InitClient, NextClient, <1>1, PTL DEF Spec

\* A request that changes the target is attempted once, its repeats are the
\* redirects that its call follows, and it leaves neither before the token is
\* known nor without it where it can carry it, whatever the retries, the
\* pushbacks and the contexts do.
THEOREM MutationsHold == Spec => []MutationsAreSafe
<1>1. ClientInv => MutationsAreSafe
  <2> SUFFICES ASSUME ClientInv PROVE MutationsAreSafe
    OBVIOUS
  <2>1. TypeOK /\ Attempts /\ Tokens
    BY DEF ClientInv
  <2>2. ASSUME NEW r \in Requests
        PROVE  applied[r] <= (IF r \in Idempotent THEN 1 + MaxRetries ELSE 1) * Reach(r)
    <3>1. /\ applied[r] \in Nat /\ attempt[r] \in 0..MaxRetries /\ attempt[r] \in Nat
          /\ Reach(r) \in Nat /\ attempt[r] + 0 = attempt[r]
      BY <2>1, HttpAssumption, Reaches DEF TypeOK
    <3>2. /\ attempt[r] * Reach(r) \in Nat
          /\ (attempt[r] + 1) * Reach(r) = attempt[r] * Reach(r) + Reach(r)
      BY <3>1, Products
    <3>3. applied[r] <= (attempt[r] + 1) * Reach(r) /\ (r \notin Idempotent => attempt[r] = 0)
      BY <2>1, <3>1, <3>2 DEF Attempts
    <3>4. CASE r \notin Idempotent
      BY <3>3, <3>4
    <3>5. CASE r \in Idempotent
      <4>1. attempt[r] + 1 <= 1 + MaxRetries /\ {attempt[r] + 1, 1 + MaxRetries} \subseteq Nat
        BY <3>1, HttpAssumption
      <4>2. /\ (attempt[r] + 1) * Reach(r) <= (1 + MaxRetries) * Reach(r)
            /\ (attempt[r] + 1) * Reach(r) \in Nat /\ (1 + MaxRetries) * Reach(r) \in Nat
        BY <3>1, <4>1, Products
      <4>3. QED
        BY <3>1, <3>3, <3>5, <4>2
    <3>6. QED
      BY <3>4, <3>5
  <2>3. QED
    BY <2>1, <2>2 DEF Tokens, MutationsAreSafe
<1>2. QED
  BY InitClient, NextClient, <1>1, PTL DEF Spec

\* The sentinel probes once for every period of requests that pass it, however
\* the requests interleave between the counter and the probe.
THEOREM SessionHolds == Spec => []SessionIsWatched
<1>1. ClientInv => SessionIsWatched
  <2> SUFFICES ASSUME ClientInv, Every > 0
               PROVE  Cardinality(Passed) <= Every * probes
    BY DEF SessionIsWatched
  <2>1. TypeOK /\ Watch
    BY DEF ClientInv
  <2>2. Passed \subseteq Counted
    BY DEF Passed, Counted
  <2>3. /\ Cardinality(Passed) <= Cardinality(Counted)
        /\ Cardinality(Passed) \in Nat /\ Cardinality(Counted) \in Nat
    BY <2>2, RequestSets DEF Counted
  <2>4. Every * probes \in Nat /\ count \in Nat
    BY <2>1, HttpAssumption, Products DEF TypeOK
  <2>5. QED
    BY <2>1, <2>3, <2>4 DEF Watch
<1>2. QED
  BY InitClient, NextClient, <1>1, PTL DEF Spec

\* A limiter's rate never falls to nought, so the host limiter slows requests
\* down and stops none (HostLimiter.Penalize: the floor of the rate).
THEOREM NoHostStalls == Spec => [](\A h \in Hosts : rate[h] > 0)
<1> DEFINE Moving == \A h \in Hosts : rate[h] > 0
<1>1. Init => Moving
  BY HttpAssumption DEF Init
<1>2. TypeOK /\ Moving /\ [Next]_vars => Moving'
  <2> SUFFICES ASSUME TypeOK, Moving, [Next]_vars PROVE Moving'
    OBVIOUS
  <2>1. ASSUME NEW r \in Requests, Send(r) PROVE Moving'
    <3>1. \A n \in Nat : n > 0 => Halved(n) > 0
      BY HttpAssumption DEF Halved
    <3>2. rate' = rate \/ rate' = [rate EXCEPT ![HostOf[r]] = Halved(@)]
      BY <2>1 DEF Send
    <3>3. HostOf[r] \in Hosts
      BY HttpAssumption
    <3>4. QED
      BY <3>1, <3>2, <3>3 DEF TypeOK
  <2>2. ASSUME NEW r \in Requests, Step(r), ~Send(r) PROVE rate' = rate
    BY <2>2 DEF Step, SessionCount, SessionProbe, CsrfBegin, CsrfFetch, CsrfPass,
                CsrfFail, BudgetLook, RateWait, BudgetClaim, Retry, GiveUp
  <2>3. QED
    BY <2>1, <2>2 DEF Next, Expire, vars
<1>3. QED
  BY <1>1, <1>2, ClientTypeCorrect, PTL DEF Spec

=============================================================================
