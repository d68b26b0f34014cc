---------------------------- MODULE UpstreamAuth ----------------------------
(***************************************************************************)
(* upstream_pull_request: a request to the upstream registry with the      *)
(* bearer token that is cached for its registry and scope (one key here).  *)
(* A 401 with a Bearer challenge is answered by fetching a new token,      *)
(* which is cached and used for the next attempt; there are three.         *)
(*                                                                         *)
(* Requests share the cache entry and hold no lock between their lookup,   *)
(* their sends and their updates of it.  The registry is external: it      *)
(* hands out tokens, accepts a token until it expires, and may accept      *)
(* everybody ("open": anonymous or Basic) or nobody ("closed").            *)
(***************************************************************************)
EXTENDS Naturals

CONSTANTS
  Reqs,        \* client requests
  MaxTokens    \* bound on the tokens the registry hands out

ASSUME MaxTokensAssumption == MaxTokens \in Nat \ {0}

VARIABLES
  tokens,      \* State::tokens at the requests' key
  issued,      \* the registry: tokens 1 .. issued were handed out
  valid,       \* the registry: tokens that have not expired
  policy,      \* the registry: whom it accepts; never changes
  calls,       \* the local variables of each upstream_pull_request
  refused,     \* history: every token the registry has refused to a call
  selfRefused  \* history: those last refused to the very call that fetched them

authVars == <<tokens, issued, valid, policy, calls, refused, selfRefused>>

NoToken == 0
Tokens  == 1 .. MaxTokens

\* for attempt in 0..3u32
Attempts == 3

\* "sending" awaits the response, "fetching" awaits fetch_token, "storing" has
\* a fresh token that is not in the cache yet; the others are results.
\* `expired` is history: how many tokens fetched by this very call were no
\* longer valid when it used them.
CallPc == {"idle", "sending", "fetching", "storing", "ok", "unauthorized", "error", "budget"}
Call   == [pc : CallPc, token : {NoToken} \cup Tokens, hadCached : BOOLEAN,
           fresh : {NoToken} \cup Tokens, attempt : 0 .. Attempts, expired : 0 .. Attempts]

NoCall == [pc |-> "idle", token |-> NoToken, hadCached |-> FALSE, fresh |-> NoToken,
           attempt |-> 0, expired |-> 0]

\* A token of an earlier request may be in the cache, expired or not.
AuthInit ==
  /\ issued \in {0, 1}
  /\ tokens \in {NoToken} \cup (1 .. issued)
  /\ valid \in SUBSET (1 .. issued)
  /\ policy \in {"open", "token", "closed"}
  /\ policy = "open" => issued = 0
  /\ calls = [r \in Reqs |-> NoCall]
  /\ refused = {}
  /\ selfRefused = {}

Goto(r, pc) == calls' = [calls EXCEPT ![r].pc = pc]

Accepts(t) == policy = "open" \/ (policy = "token" /\ t \in valid)

\* The lookup of the cached token, up to the first send.
CallStart(r) ==
  /\ calls[r].pc \in {"idle", "ok"}
  /\ calls' = [calls EXCEPT ![r] =
       [NoCall EXCEPT !.pc = "sending", !.token = tokens, !.hadCached = tokens # NoToken]]
  /\ UNCHANGED <<tokens, issued, valid, policy, refused, selfRefused>>

\* The caller has the result; the locals are gone.
CallReturns(r) ==
  /\ calls' = [calls EXCEPT ![r] = NoCall]
  /\ UNCHANGED <<tokens, issued, valid, policy, refused, selfRefused>>

\* Any answer but a 401.
SendAccepted(r) ==
  /\ calls[r].pc = "sending"
  /\ Accepts(calls[r].token)
  /\ Goto(r, "ok")
  /\ UNCHANGED <<tokens, issued, valid, policy, refused, selfRefused>>

\* The send itself fails.
SendFails(r) ==
  /\ calls[r].pc = "sending"
  /\ Goto(r, "error")
  /\ UNCHANGED <<tokens, issued, valid, policy, refused, selfRefused>>

\* A call fetches the token of every attempt but the first.
FoundInCache(c) == c.attempt = 0

RecordRefusal(c) ==
  /\ refused' = refused \cup ({c.token} \ {NoToken})
  /\ selfRefused' = IF FoundInCache(c) THEN selfRefused \ {c.token} ELSE selfRefused \cup {c.token}

EvictNothing(r) ==
  /\ tokens' = tokens
  /\ RecordRefusal(calls[r])

\* The token came from the cache: its key is removed, whatever it holds now.
\* A token this call fetched and stored itself stays.
EvictCached(r) ==
  /\ tokens' = IF calls[r].hadCached THEN NoToken ELSE tokens
  /\ RecordRefusal(calls[r])

\* A 401 with a Bearer challenge.
SendRefused(r) ==
  /\ calls[r].pc = "sending"
  /\ ~Accepts(calls[r].token)
  /\ EvictCached(r)
  /\ calls' = [calls EXCEPT ![r].pc = "fetching", ![r].hadCached = FALSE,
       ![r].expired = IF calls[r].token # NoToken /\ ~calls[r].hadCached /\ policy = "token"
                      THEN @ + 1 ELSE @]
  /\ UNCHANGED <<issued, valid, policy>>

\* A 401 with no challenge, or with one that parse_bearer_challenge rejects.
SendUnauthorized(r) ==
  /\ calls[r].pc = "sending"
  /\ policy = "closed"
  /\ EvictCached(r)
  /\ calls' = [calls EXCEPT ![r].pc = "unauthorized", ![r].hadCached = FALSE]
  /\ UNCHANGED <<issued, valid, policy>>

\* fetch_token: the registry hands out a token, which is on its way.
TokenIssued(r) ==
  /\ calls[r].pc = "fetching"
  /\ issued < MaxTokens
  /\ issued' = issued + 1
  /\ valid' = valid \cup {issued'}
  /\ calls' = [calls EXCEPT ![r].pc = "storing", ![r].fresh = issued']
  /\ UNCHANGED <<tokens, policy, refused, selfRefused>>

\* The token endpoint fails or answers without a token.
TokenFails(r) ==
  /\ calls[r].pc = "fetching"
  /\ Goto(r, "error")
  /\ UNCHANGED <<tokens, issued, valid, policy, refused, selfRefused>>

NextAttempt(r) == IF calls[r].attempt + 1 < Attempts THEN "sending" ELSE "budget"

TokenStoredNotUsed(r) ==
  /\ calls[r].pc = "storing"
  /\ tokens' = calls[r].fresh
  /\ calls' = [calls EXCEPT ![r].pc = NextAttempt(r), ![r].attempt = @ + 1, ![r].fresh = NoToken]
  /\ UNCHANGED <<issued, valid, policy, refused, selfRefused>>

\* tokens.insert and the next round of the loop.  After the last round the
\* token stays in the cache although this request gives up.
TokenStored(r) ==
  /\ calls[r].pc = "storing"
  /\ tokens' = calls[r].fresh
  /\ calls' = [calls EXCEPT ![r].pc = NextAttempt(r), ![r].attempt = @ + 1,
                            ![r].token = calls[r].fresh, ![r].fresh = NoToken]
  /\ UNCHANGED <<issued, valid, policy, refused, selfRefused>>

\* A token expires, as long as some request can still notice.
Expire(t) ==
  /\ t \in valid
  /\ \E r \in Reqs : calls[r].pc \in {"sending", "storing"} /\ t \in {calls[r].token, calls[r].fresh}
  /\ valid' = valid \ {t}
  /\ UNCHANGED <<tokens, issued, policy, calls, refused, selfRefused>>

CallStep(r) ==
  \/ SendAccepted(r) \/ SendFails(r) \/ SendRefused(r) \/ SendUnauthorized(r)
  \/ TokenIssued(r) \/ TokenFails(r) \/ TokenStored(r)

-----------------------------------------------------------------------------
\* The type of the token cache, of the registry and of the requests' locals.
AuthTypeOK ==
  /\ tokens \in {NoToken} \cup Tokens
  /\ issued \in 0 .. MaxTokens
  /\ valid \in SUBSET (1 .. issued)
  /\ policy \in {"open", "token", "closed"}
  /\ calls \in [Reqs -> Call]
  /\ refused \in SUBSET Tokens /\ selfRefused \in SUBSET Tokens

\* A token that the registry refused to a request does not stay in, or come
\* back into, the cache, whichever request removes, fetches and stores in
\* between and in whatever order.  The exception: one refused to the very call
\* that fetched it is left there (docker.rs evicts `if had_cached` only), until
\* another token replaces it or the next request to start with it is refused.
OnlySelfRefusedTokenStays == tokens \in refused => tokens \in selfRefused

\* A request gives up with "exceeded auth retry budget" only when two tokens
\* fetched for that very request expired before it could use them (or the
\* registry accepts nobody): neither a stale cached token nor what other
\* requests do to the cache uses up its attempts.
BudgetNeedsExpiry ==
  \A r \in Reqs : calls[r].pc = "budget" /\ policy = "token" =>
    calls[r].expired = 2

-----------------------------------------------------------------------------
(***************************************************************************)
(* The inductive invariant: a token on its way into the cache is nobody    *)
(* else's, and the attempts of a call are accounted for.                   *)
(***************************************************************************)
TokensHandedOut ==
  /\ tokens \in {NoToken} \cup (1 .. issued)
  /\ refused \subseteq 1 .. issued
  /\ \A r \in Reqs : calls[r].token \in {NoToken} \cup (1 .. issued)

\* Only the call that fetched a token has seen it before it is stored.
FreshIsUnseen ==
  \A r \in Reqs : calls[r].pc = "storing" =>
    /\ calls[r].fresh \in (1 .. issued) \ (refused \cup {tokens})
    /\ \A q \in Reqs : calls[q].token # calls[r].fresh
    /\ \A q \in Reqs \ {r} : calls[q].pc = "storing" => calls[q].fresh # calls[r].fresh

\* Of n fetched tokens that were used up, all had expired.
AllExpired(c, n) == c.expired = IF policy = "token" THEN n ELSE 0

\* Every attempt after the first uses a token this call fetched; the first
\* is free: it uses the cached token, or none.
AttemptsAccounted ==
  \A r \in Reqs : LET c == calls[r] IN
    /\ c.pc \in {"sending", "fetching", "storing"} => c.attempt < Attempts
    /\ c.pc = "sending" /\ c.attempt = 0 =>
         c.hadCached = (c.token # NoToken) /\ AllExpired(c, 0)
    /\ c.pc = "sending" /\ c.attempt > 0 =>
         ~c.hadCached /\ c.token # NoToken /\ AllExpired(c, c.attempt - 1)
    /\ c.pc \in {"fetching", "storing"} => ~c.hadCached /\ AllExpired(c, c.attempt)
    /\ c.pc = "budget" => AllExpired(c, Attempts - 1)

AuthInv ==
  /\ AuthTypeOK
  /\ TokensHandedOut
  /\ FreshIsUnseen
  /\ AttemptsAccounted
  /\ OnlySelfRefusedTokenStays
=============================================================================
