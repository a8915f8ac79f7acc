----------------------------- MODULE OobServer -----------------------------
(***************************************************************************)
(* The in-process callback listener, internal/oob/builtin.go.  A check     *)
(* mints a canary with Register or RegisterAsset and plants its URL in a   *)
(* probe; whatever fetches that URL, at any later time and any number of   *)
(* times, lands in handle and is recorded as a hit under the canary's      *)
(* token.  After the checks have run, Drain asks for the registrations of  *)
(* one check and for the hits of each of their tokens.                     *)
(*                                                                         *)
(* Every operation is one critical section of the server's mutex and one   *)
(* action here.  Tokens are 128 random bits: a fresh one is a token that   *)
(* was never minted.  A request whose path begins with no known token is   *)
(* recorded under what it does begin with; that is a hit on a token nobody *)
(* has minted (yet).                                                       *)
(***************************************************************************)
EXTENDS Naturals

CONSTANTS Tokens,      \* what a path may begin with
          OobChecks,   \* the checks that register canaries
          NoCheck,     \* not a check: the owner of a token nobody minted
          MaxHits      \* bound: callbacks recorded per token

ASSUME OobAssumption == NoCheck \notin OobChecks /\ MaxHits \in Nat \ {0}

VARIABLES owner,       \* regs: the check a token was minted for
          byCheck,     \* the tokens minted by each check
          assets,      \* tokens for which the listener serves a body
          hits,        \* callbacks recorded under each token
          listening    \* between Start and Stop

oobVars == <<owner, byCheck, assets, hits, listening>>

OobTypeOK ==
    /\ owner \in [Tokens -> OobChecks \cup {NoCheck}]
    /\ byCheck \in [OobChecks -> SUBSET Tokens]
    /\ assets \subseteq Tokens
    /\ hits \in [Tokens -> 0..MaxHits]
    /\ listening \in BOOLEAN

\* NewBuiltin, then Start, which returns once the socket is bound.
OobInit ==
    /\ owner = [t \in Tokens |-> NoCheck]
    /\ byCheck = [c \in OobChecks |-> {}]
    /\ assets = {}
    /\ hits = [t \in Tokens |-> 0]
    /\ listening = TRUE

\* RegisterAsset files the body and forgets to index the token under its check.
AssetIsNotIndexed(c, t, asset) ==
    /\ owner[t] = NoCheck
    /\ hits[t] = 0
    /\ owner' = [owner EXCEPT ![t] = c]
    /\ byCheck' = [byCheck EXCEPT ![c] = IF asset THEN @ ELSE @ \cup {t}]
    /\ assets' = IF asset THEN assets \cup {t} ELSE assets
    /\ UNCHANGED <<hits, listening>>

\* register: mint a token, index it under the check, and keep the body that
\* RegisterAsset asks the listener to serve.
Register(c, t, asset) ==
    /\ owner[t] = NoCheck
    /\ hits[t] = 0                     \* nobody can have guessed it
    /\ owner' = [owner EXCEPT ![t] = c]
    /\ byCheck' = [byCheck EXCEPT ![c] = @ \cup {t}]
    /\ assets' = IF asset THEN assets \cup {t} ELSE assets
    /\ UNCHANGED <<hits, listening>>

\* Registrations and Hits: copies taken under the read lock.
Registrations(c) == byCheck[c]
Hits(t) == hits[t]

\* handle: record the request, whatever its path begins with.
Callback(t) ==
    /\ listening
    /\ hits[t] < MaxHits
    /\ hits' = [hits EXCEPT ![t] = @ + 1]
    /\ UNCHANGED <<owner, byCheck, assets, listening>>

\* Stop, which runScan defers: no request is accepted any more.
Stop ==
    /\ listening
    /\ listening' = FALSE
    /\ UNCHANGED <<owner, byCheck, assets, hits>>
=============================================================================
