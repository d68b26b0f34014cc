------------------------------ MODULE PullProofs ------------------------------
(***************************************************************************)
(* The invariants of Pull, proved for every set of requests and manifests, *)
(* every number of tokens and chunks and every channel capacity.           *)
(*                                                                         *)
(* The three parts of the state are changed by different actions, so the   *)
(* invariant is three invariants: AuthInv (the token cache and the calls), *)
(* FillInv (the fills and their channels) and the part about pulls.  Each  *)
(* action of UpstreamAuth and of BlobFill preserves its own part; an action*)
(* of Pull is an action of one or both of them with a step of the request. *)
(***************************************************************************)
EXTENDS Pull, TLAPS

-----------------------------------------------------------------------------
(***************************************************************************)
(* upstream_pull_request and the token cache.                              *)
(***************************************************************************)
\* What AuthTypeOK says of a call.
LEMMA CallFacts ==
  ASSUME AuthTypeOK, NEW r \in Reqs
  PROVE  /\ calls[r].pc \in CallPc /\ calls[r].hadCached \in BOOLEAN
         /\ calls[r].token \in {NoToken} \cup Tokens /\ calls[r].fresh \in {NoToken} \cup Tokens
         /\ calls[r].attempt \in 0 .. Attempts /\ calls[r].expired \in 0 .. Attempts
BY DEF AuthTypeOK, Call

\* Nothing of a call changes while other parts of the system move.
LEMMA AuthStutter ==
  ASSUME AuthInv, UNCHANGED authVars
  PROVE  AuthInv'
BY DEF AuthInv, authVars, AuthTypeOK, TokensHandedOut, FreshIsUnseen, AttemptsAccounted,
       AllExpired, OnlySelfRefusedTokenStays

\* A call starts with what the cache holds.
LEMMA CallStartAuth ==
  ASSUME AuthInv, NEW r \in Reqs, CallStart(r)
  PROVE  AuthInv'
<1>1. AuthTypeOK'
  <2>1. NoCall \in Call
    BY DEF NoCall, Call, CallPc, Attempts, NoToken
  <2>2. [NoCall EXCEPT !.pc = "sending", !.token = tokens, !.hadCached = tokens # NoToken] \in Call
    BY <2>1 DEF AuthInv, AuthTypeOK, Call, CallPc
  <2>3. calls' \in [Reqs -> Call]
    BY <2>2 DEF CallStart, AuthInv, AuthTypeOK
  <2> QED
    BY <2>3 DEF CallStart, AuthInv, AuthTypeOK
<1>2. TokensHandedOut'
  BY CallFacts
     DEF CallStart, AuthInv, AuthTypeOK, TokensHandedOut, FreshIsUnseen, AttemptsAccounted,
         NoCall, NoToken, Tokens
<1>3. FreshIsUnseen'
  BY CallFacts
     DEF CallStart, AuthInv, AuthTypeOK, TokensHandedOut, FreshIsUnseen, AttemptsAccounted,
         NoCall, NoToken, Tokens
<1>4. AttemptsAccounted'
  BY CallFacts
     DEF CallStart, AuthInv, AuthTypeOK, AttemptsAccounted, AllExpired, NoCall, NoToken,
         Attempts, CallPc
<1>5. OnlySelfRefusedTokenStays'
  BY CallFacts
     DEF CallStart, AuthInv, AuthTypeOK, OnlySelfRefusedTokenStays, FreshIsUnseen,
         TokensHandedOut, NoToken
<1> QED
  BY <1>1, <1>2, <1>3, <1>4, <1>5 DEF AuthInv

\* A call returns.
LEMMA CallReturnsAuth ==
  ASSUME AuthInv, NEW r \in Reqs, CallReturns(r)
  PROVE  AuthInv'
<1>1. AuthTypeOK'
  BY CallFacts, MaxTokensAssumption
     DEF CallReturns, AuthInv, AuthTypeOK, TokensHandedOut, FreshIsUnseen, AttemptsAccounted,
         AllExpired, Call, CallPc, NoCall, NoToken, Tokens, Attempts
<1>2. TokensHandedOut'
  BY CallFacts
     DEF CallReturns, AuthInv, AuthTypeOK, TokensHandedOut, FreshIsUnseen, AttemptsAccounted,
         NoCall, NoToken, Tokens
<1>3. FreshIsUnseen'
  BY CallFacts
     DEF CallReturns, AuthInv, AuthTypeOK, TokensHandedOut, FreshIsUnseen, AttemptsAccounted,
         NoCall, NoToken, Tokens
<1>4. AttemptsAccounted'
  BY CallFacts
     DEF CallReturns, AuthInv, AuthTypeOK, AttemptsAccounted, AllExpired, NoCall, NoToken,
         Attempts, CallPc
<1>5. OnlySelfRefusedTokenStays'
  BY CallFacts
     DEF CallReturns, AuthInv, AuthTypeOK, OnlySelfRefusedTokenStays, FreshIsUnseen,
         TokensHandedOut, NoToken
<1> QED
  BY <1>1, <1>2, <1>3, <1>4, <1>5 DEF AuthInv

\* The registry accepts the token.
LEMMA SendAcceptedAuth ==
  ASSUME AuthInv, NEW r \in Reqs, SendAccepted(r)
  PROVE  AuthInv'
<1>1. AuthTypeOK'
  BY CallFacts, MaxTokensAssumption
     DEF SendAccepted, Goto, AuthInv, AuthTypeOK, TokensHandedOut, FreshIsUnseen,
         AttemptsAccounted,
         AllExpired, Call, CallPc, NoCall, NoToken, Tokens, Attempts
<1>2. TokensHandedOut'
  BY CallFacts
     DEF SendAccepted, Goto, AuthInv, AuthTypeOK, TokensHandedOut, FreshIsUnseen,
         AttemptsAccounted,
         NoCall, NoToken, Tokens
<1>3. FreshIsUnseen'
  BY CallFacts
     DEF SendAccepted, Goto, AuthInv, AuthTypeOK, TokensHandedOut, FreshIsUnseen,
         AttemptsAccounted,
         NoCall, NoToken, Tokens
<1>4. AttemptsAccounted'
  BY CallFacts
     DEF SendAccepted, Goto, AuthInv, AuthTypeOK, AttemptsAccounted, AllExpired, NoCall,
         NoToken,
         Attempts, CallPc
<1>5. OnlySelfRefusedTokenStays'
  BY CallFacts
     DEF SendAccepted, Goto, AuthInv, AuthTypeOK, OnlySelfRefusedTokenStays, FreshIsUnseen,
         TokensHandedOut, NoToken
<1> QED
  BY <1>1, <1>2, <1>3, <1>4, <1>5 DEF AuthInv

\* The send fails.
LEMMA SendFailsAuth ==
  ASSUME AuthInv, NEW r \in Reqs, SendFails(r)
  PROVE  AuthInv'
<1>1. AuthTypeOK'
  BY CallFacts, MaxTokensAssumption
     DEF SendFails, Goto, AuthInv, AuthTypeOK, TokensHandedOut, FreshIsUnseen,
         AttemptsAccounted,
         AllExpired, Call, CallPc, NoCall, NoToken, Tokens, Attempts
<1>2. TokensHandedOut'
  BY CallFacts
     DEF SendFails, Goto, AuthInv, AuthTypeOK, TokensHandedOut, FreshIsUnseen,
         AttemptsAccounted,
         NoCall, NoToken, Tokens
<1>3. FreshIsUnseen'
  BY CallFacts
     DEF SendFails, Goto, AuthInv, AuthTypeOK, TokensHandedOut, FreshIsUnseen,
         AttemptsAccounted,
         NoCall, NoToken, Tokens
<1>4. AttemptsAccounted'
  BY CallFacts
     DEF SendFails, Goto, AuthInv, AuthTypeOK, AttemptsAccounted, AllExpired, NoCall, NoToken,
         Attempts, CallPc
<1>5. OnlySelfRefusedTokenStays'
  BY CallFacts
     DEF SendFails, Goto, AuthInv, AuthTypeOK, OnlySelfRefusedTokenStays, FreshIsUnseen,
         TokensHandedOut, NoToken
<1> QED
  BY <1>1, <1>2, <1>3, <1>4, <1>5 DEF AuthInv

\* A refused token leaves the cache; a fetched one counts as expired.
LEMMA SendRefusedAuth ==
  ASSUME AuthInv, NEW r \in Reqs, SendRefused(r)
  PROVE  AuthInv'
<1>1. AuthTypeOK'
  <2>1. /\ calls[r].token \in {NoToken} \cup Tokens
        /\ calls[r].attempt # 0 => calls[r].token \in Tokens
    BY CallFacts DEF SendRefused, AuthInv, AttemptsAccounted, Attempts
  <2>2. calls[r].expired + 1 \in 0 .. Attempts
    BY CallFacts DEF SendRefused, AuthInv, AttemptsAccounted, AllExpired, Attempts
  <2>3. calls' \in [Reqs -> Call]
    <3> DEFINE n == IF calls[r].token # NoToken /\ ~calls[r].hadCached /\ policy = "token"
                    THEN calls[r].expired + 1 ELSE calls[r].expired
    <3>1. n \in 0 .. Attempts
      BY <2>2, CallFacts DEF AuthInv
    <3>2. calls' = [calls EXCEPT ![r] =
            [calls[r] EXCEPT !.pc = "fetching", !.hadCached = FALSE, !.expired = n]]
      BY DEF SendRefused
    <3>3. calls[r] \in Call
      BY DEF AuthInv, AuthTypeOK
    <3> HIDE DEF n
    <3>4. [calls[r] EXCEPT !.pc = "fetching", !.hadCached = FALSE, !.expired = n] \in Call
      BY <3>1, <3>3 DEF Call, CallPc
    <3> QED
      BY <3>2, <3>4 DEF AuthInv, AuthTypeOK
  <2>4. /\ refused' \in SUBSET Tokens /\ selfRefused' \in SUBSET Tokens
        /\ tokens' \in {NoToken} \cup Tokens
    BY <2>1 DEF SendRefused, EvictCached, RecordRefusal, FoundInCache, AuthInv, AuthTypeOK
  <2> QED
    BY <2>3, <2>4 DEF SendRefused, AuthInv, AuthTypeOK
<1>2. TokensHandedOut'
  BY CallFacts
     DEF SendRefused, EvictCached, RecordRefusal, FoundInCache, Accepts, AuthInv, AuthTypeOK, TokensHandedOut,
         FreshIsUnseen, AttemptsAccounted,
         NoCall, NoToken, Tokens
<1>3. FreshIsUnseen'
  BY CallFacts
     DEF SendRefused, EvictCached, RecordRefusal, FoundInCache, Accepts, AuthInv, AuthTypeOK, TokensHandedOut,
         FreshIsUnseen, AttemptsAccounted,
         NoCall, NoToken, Tokens
<1>4. AttemptsAccounted'
  BY CallFacts
     DEF SendRefused, EvictCached, RecordRefusal, FoundInCache, Accepts, AuthInv, AuthTypeOK, AttemptsAccounted,
         AllExpired, NoCall, NoToken,
         Attempts, CallPc
<1>5. OnlySelfRefusedTokenStays'
  BY CallFacts
     DEF SendRefused, EvictCached, RecordRefusal, FoundInCache, Accepts, AuthInv, AuthTypeOK, OnlySelfRefusedTokenStays,
         TokensHandedOut,
         AttemptsAccounted, NoToken
<1> QED
  BY <1>1, <1>2, <1>3, <1>4, <1>5 DEF AuthInv

\* A refused token leaves the cache although there is no challenge.
LEMMA SendUnauthorizedAuth ==
  ASSUME AuthInv, NEW r \in Reqs, SendUnauthorized(r)
  PROVE  AuthInv'
<1>1. AuthTypeOK'
  <2>1. /\ calls[r].token \in {NoToken} \cup Tokens
        /\ calls[r].attempt # 0 => calls[r].token \in Tokens
    BY CallFacts DEF SendUnauthorized, AuthInv, AttemptsAccounted, Attempts
  <2>2. calls' \in [Reqs -> Call]
    <3>1. calls' = [calls EXCEPT ![r] =
            [calls[r] EXCEPT !.pc = "unauthorized", !.hadCached = FALSE]]
      BY DEF SendUnauthorized
    <3>2. calls[r] \in Call
      BY DEF AuthInv, AuthTypeOK
    <3>3. [calls[r] EXCEPT !.pc = "unauthorized", !.hadCached = FALSE] \in Call
      BY <3>2 DEF Call, CallPc
    <3> QED
      BY <3>1, <3>3 DEF AuthInv, AuthTypeOK
  <2>3. /\ refused' \in SUBSET Tokens /\ selfRefused' \in SUBSET Tokens
        /\ tokens' \in {NoToken} \cup Tokens
    BY <2>1 DEF SendUnauthorized, EvictCached, RecordRefusal, FoundInCache, AuthInv, AuthTypeOK
  <2> QED
    BY <2>2, <2>3 DEF SendUnauthorized, AuthInv, AuthTypeOK
<1>2. TokensHandedOut'
  BY CallFacts
     DEF SendUnauthorized, EvictCached, RecordRefusal, FoundInCache, AuthInv, AuthTypeOK, TokensHandedOut, FreshIsUnseen,
         AttemptsAccounted,
         NoCall, NoToken, Tokens
<1>3. FreshIsUnseen'
  BY CallFacts
     DEF SendUnauthorized, EvictCached, RecordRefusal, FoundInCache, AuthInv, AuthTypeOK, TokensHandedOut, FreshIsUnseen,
         AttemptsAccounted,
         NoCall, NoToken, Tokens
<1>4. AttemptsAccounted'
  BY CallFacts
     DEF SendUnauthorized, EvictCached, RecordRefusal, FoundInCache, AuthInv, AuthTypeOK, AttemptsAccounted, AllExpired,
         NoCall, NoToken,
         Attempts, CallPc
<1>5. OnlySelfRefusedTokenStays'
  BY CallFacts
     DEF SendUnauthorized, EvictCached, RecordRefusal, FoundInCache, AuthInv, AuthTypeOK, OnlySelfRefusedTokenStays,
         TokensHandedOut,
         AttemptsAccounted, NoToken
<1> QED
  BY <1>1, <1>2, <1>3, <1>4, <1>5 DEF AuthInv

\* The registry hands out a token nobody has seen.
LEMMA TokenIssuedAuth ==
  ASSUME AuthInv, NEW r \in Reqs, TokenIssued(r)
  PROVE  AuthInv'
<1>1. AuthTypeOK'
  <2>1. issued' \in 0 .. MaxTokens /\ issued' \in Tokens
    BY MaxTokensAssumption DEF TokenIssued, AuthInv, AuthTypeOK, Tokens
  <2>2. calls' \in [Reqs -> Call]
    <3>1. calls' = [calls EXCEPT ![r] = [calls[r] EXCEPT !.pc = "storing", !.fresh = issued']]
      BY DEF TokenIssued
    <3>2. calls[r] \in Call
      BY DEF AuthInv, AuthTypeOK
    <3>3. [calls[r] EXCEPT !.pc = "storing", !.fresh = issued'] \in Call
      BY <2>1, <3>2 DEF Call, CallPc
    <3> QED
      BY <3>1, <3>3 DEF AuthInv, AuthTypeOK
  <2>3. valid' \in SUBSET (1 .. issued')
    BY <2>1, MaxTokensAssumption DEF TokenIssued, AuthInv, AuthTypeOK
  <2> QED
    BY <2>1, <2>2, <2>3 DEF TokenIssued, AuthInv, AuthTypeOK
<1>2. TokensHandedOut'
  BY CallFacts
     DEF TokenIssued, AuthInv, AuthTypeOK, TokensHandedOut, FreshIsUnseen, AttemptsAccounted,
         NoCall, NoToken, Tokens
<1>3. FreshIsUnseen'
  BY CallFacts
     DEF TokenIssued, AuthInv, AuthTypeOK, TokensHandedOut, FreshIsUnseen, AttemptsAccounted,
         NoCall, NoToken, Tokens
<1>4. AttemptsAccounted'
  BY CallFacts
     DEF TokenIssued, AuthInv, AuthTypeOK, AttemptsAccounted, AllExpired, NoCall, NoToken,
         Attempts, CallPc
<1>5. OnlySelfRefusedTokenStays'
  BY CallFacts
     DEF TokenIssued, AuthInv, AuthTypeOK, OnlySelfRefusedTokenStays, FreshIsUnseen,
         TokensHandedOut, NoToken
<1> QED
  BY <1>1, <1>2, <1>3, <1>4, <1>5 DEF AuthInv

\* The token endpoint fails.
LEMMA TokenFailsAuth ==
  ASSUME AuthInv, NEW r \in Reqs, TokenFails(r)
  PROVE  AuthInv'
<1>1. AuthTypeOK'
  BY CallFacts, MaxTokensAssumption
     DEF TokenFails, Goto, AuthInv, AuthTypeOK, TokensHandedOut, FreshIsUnseen,
         AttemptsAccounted,
         AllExpired, Call, CallPc, NoCall, NoToken, Tokens, Attempts
<1>2. TokensHandedOut'
  BY CallFacts
     DEF TokenFails, Goto, AuthInv, AuthTypeOK, TokensHandedOut, FreshIsUnseen,
         AttemptsAccounted,
         NoCall, NoToken, Tokens
<1>3. FreshIsUnseen'
  BY CallFacts
     DEF TokenFails, Goto, AuthInv, AuthTypeOK, TokensHandedOut, FreshIsUnseen,
         AttemptsAccounted,
         NoCall, NoToken, Tokens
<1>4. AttemptsAccounted'
  BY CallFacts
     DEF TokenFails, Goto, AuthInv, AuthTypeOK, AttemptsAccounted, AllExpired, NoCall, NoToken,
         Attempts, CallPc
<1>5. OnlySelfRefusedTokenStays'
  BY CallFacts
     DEF TokenFails, Goto, AuthInv, AuthTypeOK, OnlySelfRefusedTokenStays, FreshIsUnseen,
         TokensHandedOut, NoToken
<1> QED
  BY <1>1, <1>2, <1>3, <1>4, <1>5 DEF AuthInv

\* The fetched token is stored and used for the next attempt.
LEMMA TokenStoredAuth ==
  ASSUME AuthInv, NEW r \in Reqs, TokenStored(r)
  PROVE  AuthInv'
<1>1. AuthTypeOK'
  BY CallFacts, MaxTokensAssumption
     DEF TokenStored, NextAttempt, AuthInv, AuthTypeOK, TokensHandedOut, FreshIsUnseen,
         AttemptsAccounted,
         AllExpired, Call, CallPc, NoCall, NoToken, Tokens, Attempts
<1>2. TokensHandedOut'
  BY CallFacts
     DEF TokenStored, NextAttempt, AuthInv, AuthTypeOK, TokensHandedOut, FreshIsUnseen,
         AttemptsAccounted,
         NoCall, NoToken, Tokens
<1>3. FreshIsUnseen'
  BY CallFacts
     DEF TokenStored, NextAttempt, AuthInv, AuthTypeOK, TokensHandedOut, FreshIsUnseen,
         AttemptsAccounted,
         NoCall, NoToken, Tokens
<1>4. AttemptsAccounted'
  <2>1. /\ calls[r].attempt \in 0 .. Attempts - 1 /\ calls[r].fresh # NoToken
        /\ ~calls[r].hadCached /\ AllExpired(calls[r], calls[r].attempt)
    BY CallFacts DEF TokenStored, AuthInv, AttemptsAccounted, FreshIsUnseen, Attempts, NoToken, AuthTypeOK
  <2>2. /\ calls'[r].pc = NextAttempt(r) /\ calls'[r].attempt = calls[r].attempt + 1
        /\ calls'[r].token = calls[r].fresh /\ calls'[r].hadCached = calls[r].hadCached
        /\ calls'[r].expired = calls[r].expired
    BY DEF TokenStored, AuthInv, AuthTypeOK, Call
  <2>3. policy' = policy /\ \A q \in Reqs \ {r} : calls'[q] = calls[q]
    BY DEF TokenStored, AuthInv, AuthTypeOK
  <2> QED
    BY <2>1, <2>2, <2>3, CallFacts
       DEF AuthInv, AttemptsAccounted, AllExpired, NextAttempt, Attempts
<1>5. OnlySelfRefusedTokenStays'
  BY CallFacts
     DEF TokenStored, NextAttempt, AuthInv, AuthTypeOK, OnlySelfRefusedTokenStays, FreshIsUnseen,
         TokensHandedOut, NoToken
<1> QED
  BY <1>1, <1>2, <1>3, <1>4, <1>5 DEF AuthInv

\* A token expires at the registry.
LEMMA ExpireAuth ==
  ASSUME AuthInv, NEW t \in valid, Expire(t)
  PROVE  AuthInv'
<1>1. AuthTypeOK'
  BY CallFacts, MaxTokensAssumption
     DEF Expire, AuthInv, AuthTypeOK, TokensHandedOut, FreshIsUnseen, AttemptsAccounted,
         AllExpired, Call, CallPc, NoCall, NoToken, Tokens, Attempts
<1>2. TokensHandedOut'
  BY CallFacts
     DEF Expire, AuthInv, AuthTypeOK, TokensHandedOut, FreshIsUnseen, AttemptsAccounted,
         NoCall, NoToken, Tokens
<1>3. FreshIsUnseen'
  BY CallFacts
     DEF Expire, AuthInv, AuthTypeOK, TokensHandedOut, FreshIsUnseen, AttemptsAccounted,
         NoCall, NoToken, Tokens
<1>4. AttemptsAccounted'
  BY CallFacts
     DEF Expire, AuthInv, AuthTypeOK, AttemptsAccounted, AllExpired, NoCall, NoToken,
         Attempts, CallPc
<1>5. OnlySelfRefusedTokenStays'
  BY CallFacts
     DEF Expire, AuthInv, AuthTypeOK, OnlySelfRefusedTokenStays, FreshIsUnseen,
         TokensHandedOut, NoToken
<1> QED
  BY <1>1, <1>2, <1>3, <1>4, <1>5 DEF AuthInv

\* Every step of a call preserves the invariant of the token cache.
LEMMA CallStepAuth ==
  ASSUME AuthInv, NEW r \in Reqs, CallStep(r)
  PROVE  AuthInv'
BY SendAcceptedAuth, SendFailsAuth, SendRefusedAuth, SendUnauthorizedAuth,
   TokenIssuedAuth, TokenFailsAuth, TokenStoredAuth DEF CallStep

-----------------------------------------------------------------------------
(***************************************************************************)
(* spawn_blob_fill, its channel and its client.                            *)
(***************************************************************************)
\* What FillTypeOK says of a fill and its client.
LEMMA FillFacts ==
  ASSUME FillTypeOK, NEW r \in Fetches
  PROVE  /\ fills[r] \in Fill /\ clients[r] \in Client
         /\ fills[r].pc \in {"none", "reading", "sending", "failing", "ended", "done", "failed"}
         /\ fills[r].buf \in Bytes /\ fills[r].buf.len \in 0 .. Chunks
         /\ fills[r].clientAlive \in BOOLEAN /\ fills[r].err \in BOOLEAN /\ fills[r].open \in BOOLEAN
         /\ fills[r].queue \in 0 .. Capacity
         /\ clients[r].pc \in {"none", "reading", "gone", "eof", "broken"}
         /\ clients[r].received \in 0 .. Chunks
BY DEF FillTypeOK, Fill, Client, Bytes

\* Nothing of a fill changes while other parts of the system move.
LEMMA FillStutter ==
  ASSUME FillInv, UNCHANGED fillVars
  PROVE  FillInv'
BY DEF FillInv, fillVars, FillTypeOK, NothingIsLost, BeingSent, ChannelInStep

\* A fill starts with an empty channel and a client that reads.
LEMMA FillStartFill ==
  ASSUME FillInv, NEW r \in Fetches, FillStart(r)
  PROVE  FillInv'
<1>1. FillTypeOK'
  <2>1. /\ fills' = [fills EXCEPT ![r] = [fills[r] EXCEPT !.pc = "reading"]]
        /\ clients' = [clients EXCEPT ![r] = [clients[r] EXCEPT !.pc = "reading"]]
    BY DEF FillStart
  <2>2. [fills[r] EXCEPT !.pc = "reading"] \in Fill
    BY FillFacts DEF FillInv, Fill
  <2>3. [clients[r] EXCEPT !.pc = "reading"] \in Client
    BY FillFacts DEF FillInv, Client
  <2> QED
    BY <2>1, <2>2, <2>3 DEF FillStart, FillInv, FillTypeOK
<1>2. NothingIsLost'
  BY FillFacts, ChunksAssumption, CapacityAssumption
     DEF FillStart, NoFill, NoClient, Nothing, FillInv, FillTypeOK, NothingIsLost,
         BeingSent, ChannelInStep, Fill, Client, Bytes
<1>3. ChannelInStep'
  BY FillFacts
     DEF FillStart, NoFill, NoClient, Nothing, FillInv, FillTypeOK, ChannelInStep, Fill,
         Client, Bytes
<1> QED
  BY <1>1, <1>2, <1>3 DEF FillInv

\* A chunk is read into the buffer.
LEMMA FillChunkFill ==
  ASSUME FillInv, NEW r \in Fetches, FillChunk(r)
  PROVE  FillInv'
<1>1. FillTypeOK'
  <2> DEFINE pc == IF fills[r].clientAlive THEN "sending" ELSE "reading"
             buf == [fills[r].buf EXCEPT !.len = fills[r].buf.len + 1]
  <2>1. fills' = [fills EXCEPT ![r] = [fills[r] EXCEPT !.buf = buf, !.pc = pc]]
    BY DEF FillChunk
  <2>2. buf \in Bytes
    BY FillFacts, ChunksAssumption DEF FillChunk, FillInv, Bytes
  <2>3. pc \in {"sending", "reading"}
    OBVIOUS
  <2> HIDE DEF buf, pc
  <2>4. [fills[r] EXCEPT !.buf = buf, !.pc = pc] \in Fill
    BY <2>2, <2>3, FillFacts DEF FillInv, Fill
  <2>5. fills' \in [Fetches -> Fill]
    BY <2>1, <2>4 DEF FillInv, FillTypeOK
  <2> QED
    BY <2>5 DEF FillChunk, FillInv, FillTypeOK
<1>2. NothingIsLost'
  BY FillFacts, ChunksAssumption, CapacityAssumption
     DEF FillChunk, FillInv, FillTypeOK, NothingIsLost, BeingSent, ChannelInStep, Fill,
         Client, Bytes
<1>3. ChannelInStep'
  BY FillFacts
     DEF FillChunk, FillInv, FillTypeOK, ChannelInStep, Fill, Client, Bytes
<1> QED
  BY <1>1, <1>2, <1>3 DEF FillInv

\* A chunk is sent, or the client turns out to be gone.
LEMMA SendChunkFill ==
  ASSUME FillInv, NEW r \in Fetches, SendChunk(r)
  PROVE  FillInv'
<1>1. FillTypeOK'
  <2>1. CASE ~ReceiverGone(r)
    <3>1. fills' = [fills EXCEPT ![r] = [fills[r] EXCEPT !.queue = fills[r].queue + 1, !.pc = "reading"]]
      BY <2>1 DEF SendChunk
    <3>2. fills[r].queue + 1 \in 0 .. Capacity
      BY <2>1, FillFacts, CapacityAssumption DEF SendChunk, FillInv
    <3>3. [fills[r] EXCEPT !.queue = fills[r].queue + 1, !.pc = "reading"] \in Fill
      BY <3>2, FillFacts DEF FillInv, Fill
    <3>4. fills' \in [Fetches -> Fill]
      BY <3>1, <3>3 DEF FillInv, FillTypeOK
    <3> QED
      BY <3>4 DEF SendChunk, FillInv, FillTypeOK
  <2>2. CASE ReceiverGone(r)
    <3>1. fills' = [fills EXCEPT ![r] = [fills[r] EXCEPT !.clientAlive = FALSE, !.pc = "reading"]]
      BY <2>2 DEF SendChunk
    <3>2. [fills[r] EXCEPT !.clientAlive = FALSE, !.pc = "reading"] \in Fill
      BY FillFacts DEF FillInv, Fill
    <3>3. fills' \in [Fetches -> Fill]
      BY <3>1, <3>2 DEF FillInv, FillTypeOK
    <3> QED
      BY <3>3 DEF SendChunk, FillInv, FillTypeOK
  <2> QED
    BY <2>1, <2>2
<1>2. NothingIsLost'
  <2>1. \A q \in Fetches \ {r} : fills'[q] = fills[q]
    BY DEF SendChunk, FillInv, FillTypeOK
  <2>2. fills'[r].buf = fills[r].buf /\ fills'[r].pc = "reading" /\ clients' = clients
    BY FillFacts DEF SendChunk, FillInv, FillTypeOK, Fill
  <2>3. clients[r].pc # "gone" => fills'[r].queue = fills[r].queue + 1
    BY FillFacts DEF SendChunk, ReceiverGone, FillInv, FillTypeOK, Fill
  <2> QED
    BY <2>1, <2>2, <2>3, FillFacts, ChunksAssumption, CapacityAssumption
       DEF SendChunk, FillInv, NothingIsLost, BeingSent
<1>3. ChannelInStep'
  BY FillFacts
     DEF SendChunk, ReceiverGone, FillInv, FillTypeOK, ChannelInStep, Fill, Client, Bytes
<1> QED
  BY <1>1, <1>2, <1>3 DEF FillInv

\* Upstream fails.
LEMMA StreamErrorFill ==
  ASSUME FillInv, NEW r \in Fetches, StreamError(r)
  PROVE  FillInv'
<1>1. FillTypeOK'
  <2>1. PICK p \in {"failing", "failed"} : fills' = [fills EXCEPT ![r] = [fills[r] EXCEPT !.pc = p]]
    BY DEF StreamError
  <2>2. [fills[r] EXCEPT !.pc = p] \in Fill
    BY FillFacts DEF FillInv, Fill
  <2> QED
    BY <2>1, <2>2 DEF StreamError, FillInv, FillTypeOK
<1>2. NothingIsLost'
  BY FillFacts, ChunksAssumption, CapacityAssumption
     DEF StreamError, FillInv, FillTypeOK, NothingIsLost, BeingSent, ChannelInStep, Fill,
         Client, Bytes
<1>3. ChannelInStep'
  BY FillFacts
     DEF StreamError, FillInv, FillTypeOK, ChannelInStep, Fill, Client, Bytes
<1> QED
  BY <1>1, <1>2, <1>3 DEF FillInv

\* The error is sent to a client that is there.
LEMMA SendErrorFill ==
  ASSUME FillInv, NEW r \in Fetches, SendError(r)
  PROVE  FillInv'
<1>1. FillTypeOK'
  <2>1. [fills[r] EXCEPT !.pc = "failed", !.err = ~ReceiverGone(r), !.open = FALSE] \in Fill
    <3>1. fills[r] \in Fill
      BY FillFacts DEF FillInv
    <3> QED
      BY <3>1 DEF Fill, ReceiverGone
  <2>2. fills' = [fills EXCEPT ![r] =
          [fills[r] EXCEPT !.pc = "failed", !.err = ~ReceiverGone(r), !.open = FALSE]]
    BY DEF SendError
  <2>3. fills' \in [Fetches -> Fill]
    BY <2>1, <2>2 DEF FillInv, FillTypeOK
  <2> QED
    BY <2>3 DEF SendError, FillInv, FillTypeOK
<1>2. NothingIsLost'
  <2>1. \A q \in Fetches \ {r} : fills'[q] = fills[q]
    BY DEF SendError, FillInv, FillTypeOK
  <2>2. fills'[r].buf = fills[r].buf /\ fills'[r].queue = fills[r].queue /\ fills'[r].pc = "failed"
    BY FillFacts DEF SendError, FillInv, FillTypeOK, Fill
  <2>3. fills[r].pc = "failing" /\ clients' = clients
    BY DEF SendError
  <2> QED
    BY <2>1, <2>2, <2>3, FillFacts DEF FillInv, NothingIsLost, BeingSent
<1>3. ChannelInStep'
  BY FillFacts
     DEF SendError, ReceiverGone, FillInv, FillTypeOK, ChannelInStep, Fill, Client, Bytes
<1> QED
  BY <1>1, <1>2, <1>3 DEF FillInv

\* Upstream ends and the sender is dropped.
LEMMA StreamEndFill ==
  ASSUME FillInv, NEW r \in Fetches, StreamEnd(r)
  PROVE  FillInv'
<1>1. FillTypeOK'
  <2>1. PICK right \in BOOLEAN :
          fills' = [fills EXCEPT ![r].pc = "ended", ![r].open = FALSE, ![r].buf.right = right]
    BY DEF StreamEnd
  <2> DEFINE buf == [fills[r].buf EXCEPT !.right = right]
  <2>2. fills' = [fills EXCEPT ![r] = [fills[r] EXCEPT !.pc = "ended", !.open = FALSE, !.buf = buf]]
    BY <2>1
  <2>3. buf \in Bytes
    BY FillFacts DEF FillInv, Bytes
  <2> HIDE DEF buf
  <2>4. [fills[r] EXCEPT !.pc = "ended", !.open = FALSE, !.buf = buf] \in Fill
    BY <2>3, FillFacts DEF FillInv, Fill
  <2> QED
    BY <2>2, <2>4 DEF StreamEnd, FillInv, FillTypeOK
<1>2. NothingIsLost'
  BY FillFacts, ChunksAssumption, CapacityAssumption
     DEF StreamEnd, FillInv, FillTypeOK, NothingIsLost, BeingSent, ChannelInStep, Fill,
         Client, Bytes
<1>3. ChannelInStep'
  BY FillFacts
     DEF StreamEnd, FillInv, FillTypeOK, ChannelInStep, Fill, Client, Bytes
<1> QED
  BY <1>1, <1>2, <1>3 DEF FillInv

\* A body with the right digest is cached.
LEMMA VerifyAndInsertFill ==
  ASSUME FillInv, NEW r \in Fetches, VerifyAndInsert(r)
  PROVE  FillInv'
<1>1. FillTypeOK'
  <2>1. fills' = [fills EXCEPT ![r] = [fills[r] EXCEPT !.pc = "done"]]
    BY DEF VerifyAndInsert
  <2>2. [fills[r] EXCEPT !.pc = "done"] \in Fill
    BY FillFacts DEF FillInv, Fill
  <2>3. cached' \in Bytes
    BY FillFacts DEF VerifyAndInsert, FillInv, FillTypeOK
  <2> QED
    BY <2>1, <2>2, <2>3 DEF VerifyAndInsert, FillInv, FillTypeOK
<1>2. NothingIsLost'
  BY FillFacts, ChunksAssumption, CapacityAssumption
     DEF VerifyAndInsert, FillInv, FillTypeOK, NothingIsLost, BeingSent, ChannelInStep,
         Fill, Client, Bytes
<1>3. ChannelInStep'
  BY FillFacts
     DEF VerifyAndInsert, FillInv, FillTypeOK, ChannelInStep, Fill, Client, Bytes
<1> QED
  BY <1>1, <1>2, <1>3 DEF FillInv

\* The client takes a chunk out of the channel.
LEMMA ClientChunkFill ==
  ASSUME FillInv, NEW r \in Fetches, ClientChunk(r)
  PROVE  FillInv'
<1>1. FillTypeOK'
  <2>1. /\ fills' = [fills EXCEPT ![r] = [fills[r] EXCEPT !.queue = fills[r].queue - 1]]
        /\ clients' = [clients EXCEPT ![r] = [clients[r] EXCEPT !.received = clients[r].received + 1]]
    BY DEF ClientChunk
  <2>2. /\ fills[r].queue - 1 \in 0 .. Capacity
        /\ clients[r].received + 1 \in 0 .. Chunks
    BY FillFacts, ChunksAssumption, CapacityAssumption
       DEF ClientChunk, FillInv, NothingIsLost, BeingSent
  <2>3. [fills[r] EXCEPT !.queue = fills[r].queue - 1] \in Fill
    BY <2>2, FillFacts DEF FillInv, Fill
  <2>4. [clients[r] EXCEPT !.received = clients[r].received + 1] \in Client
    BY <2>2, FillFacts DEF FillInv, Client
  <2>5. fills' \in [Fetches -> Fill] /\ clients' \in [Fetches -> Client]
    BY <2>1, <2>3, <2>4 DEF FillInv, FillTypeOK
  <2> QED
    BY <2>5 DEF ClientChunk, FillInv, FillTypeOK
<1>2. NothingIsLost'
  <2>1. \A q \in Fetches \ {r} : fills'[q] = fills[q] /\ clients'[q] = clients[q]
    BY DEF ClientChunk, FillInv, FillTypeOK
  <2>2. /\ fills'[r].buf = fills[r].buf /\ fills'[r].pc = fills[r].pc
        /\ fills'[r].queue = fills[r].queue - 1
        /\ clients'[r].pc = clients[r].pc /\ clients'[r].received = clients[r].received + 1
    BY FillFacts DEF ClientChunk, FillInv, FillTypeOK, Fill, Client
  <2> QED
    BY <2>1, <2>2, FillFacts, ChunksAssumption, CapacityAssumption
       DEF ClientChunk, FillInv, NothingIsLost, BeingSent
<1>3. ChannelInStep'
  BY FillFacts
     DEF ClientChunk, FillInv, FillTypeOK, ChannelInStep, Fill, Client, Bytes
<1> QED
  BY <1>1, <1>2, <1>3 DEF FillInv

\* The client meets the end of the channel, or the error.
LEMMA ClientEndFill ==
  ASSUME FillInv, NEW r \in Fetches, ClientEnd(r)
  PROVE  FillInv'
<1>1. FillTypeOK'
  BY FillFacts, ChunksAssumption, CapacityAssumption
     DEF ClientEnd, FillInv, FillTypeOK, NothingIsLost, BeingSent, Fill, Client, Bytes
<1>2. NothingIsLost'
  BY FillFacts, ChunksAssumption, CapacityAssumption
     DEF ClientEnd, FillInv, FillTypeOK, NothingIsLost, BeingSent, ChannelInStep, Fill,
         Client, Bytes
<1>3. ChannelInStep'
  BY FillFacts
     DEF ClientEnd, FillInv, FillTypeOK, ChannelInStep, Fill, Client, Bytes
<1> QED
  BY <1>1, <1>2, <1>3 DEF FillInv

\* The client goes away.
LEMMA ClientGoneFill ==
  ASSUME FillInv, NEW r \in Fetches, ClientGone(r)
  PROVE  FillInv'
<1>1. FillTypeOK'
  <2>1. /\ fills' = [fills EXCEPT ![r] = [fills[r] EXCEPT !.queue = 0]]
        /\ clients' = [clients EXCEPT ![r] = [clients[r] EXCEPT !.pc = "gone"]]
    BY DEF ClientGone
  <2>2. [fills[r] EXCEPT !.queue = 0] \in Fill
    BY FillFacts, CapacityAssumption DEF FillInv, Fill
  <2>3. [clients[r] EXCEPT !.pc = "gone"] \in Client
    BY FillFacts DEF FillInv, Client
  <2>4. fills' \in [Fetches -> Fill] /\ clients' \in [Fetches -> Client]
    BY <2>1, <2>2, <2>3 DEF FillInv, FillTypeOK
  <2> QED
    BY <2>4 DEF ClientGone, FillInv, FillTypeOK
<1>2. NothingIsLost'
  BY FillFacts, ChunksAssumption, CapacityAssumption
     DEF ClientGone, FillInv, FillTypeOK, NothingIsLost, BeingSent, ChannelInStep, Fill,
         Client, Bytes
<1>3. ChannelInStep'
  BY FillFacts
     DEF ClientGone, FillInv, FillTypeOK, ChannelInStep, Fill, Client, Bytes
<1> QED
  BY <1>1, <1>2, <1>3 DEF FillInv

\* Every step of a fill or of its client preserves the invariant of fills.
LEMMA FillStepFill ==
  ASSUME FillInv, NEW r \in Fetches, FillStep(r) \/ ClientStep(r)
  PROVE  FillInv'
BY FillChunkFill, SendChunkFill, StreamErrorFill, SendErrorFill, StreamEndFill,
   VerifyAndInsertFill, ClientChunkFill, ClientEndFill, ClientGoneFill
   DEF FillStep, UpstreamStep, TaskStep, ClientStep

-----------------------------------------------------------------------------
(***************************************************************************)
(* Pulls.                                                                  *)
(***************************************************************************)
\* The part of the invariant that is about upTag, manifests, pulls, tagSeen.
PullTypeOK ==
  /\ upTag \in Manifests
  /\ manifests \in [Manifests -> Manifests \cup {NoBody}]
  /\ pulls \in [Reqs -> [kind : Kinds, pc : PullPc, digest : Manifests \cup {Unresolved}]]
  /\ tagSeen \in [Reqs -> SUBSET Manifests]

PullInv == PullTypeOK /\ TagIsWatched /\ TagAnswerIsCurrent

\* The parts make up the whole.
LEMMA PartsOfIInv == IInv <=> AuthInv /\ FillInv /\ PullInv
BY DEF IInv, PullInv, PullTypeOK, TypeOK, AuthInv, FillInv

\* Nothing of a pull changes while tokens are fetched and fills run.
LEMMA PullStutter ==
  ASSUME PullInv, UNCHANGED pullVars
  PROVE  PullInv'
BY DEF PullInv, pullVars, PullTypeOK, TagIsWatched, TagAnswerIsCurrent

\* What a lookup leaves behind.
LEMMA LookupFacts ==
  ASSUME PullInv, NEW r \in Reqs, NEW m \in Manifests, Lookup(r, m)
  PROVE  /\ pulls' \in [Reqs -> [kind : Kinds, pc : PullPc, digest : Manifests \cup {Unresolved}]]
         /\ \A q \in Reqs \ {r} : pulls'[q] = pulls[q]
         /\ pulls'[r].kind = pulls[r].kind /\ pulls'[r].digest = m
         /\ pulls'[r].pc \in {"replied", "getting"}
<1>1. PICK p \in {"replied", "getting"} :
        pulls' = [pulls EXCEPT ![r] = [pulls[r] EXCEPT !.pc = p, !.digest = m]]
  BY DEF Lookup
<1>2. pulls[r] \in [kind : Kinds, pc : PullPc, digest : Manifests \cup {Unresolved}]
  BY DEF PullInv, PullTypeOK
<1>3. [pulls[r] EXCEPT !.pc = p, !.digest = m]
        \in [kind : Kinds, pc : PullPc, digest : Manifests \cup {Unresolved}]
  BY <1>2 DEF PullPc
<1>4. /\ [pulls[r] EXCEPT !.pc = p, !.digest = m].kind = pulls[r].kind
      /\ [pulls[r] EXCEPT !.pc = p, !.digest = m].digest = m
      /\ [pulls[r] EXCEPT !.pc = p, !.digest = m].pc = p
  BY <1>2
<1> QED
  BY <1>1, <1>3, <1>4 DEF PullInv, PullTypeOK

\* A tag request begins to watch the tag.
LEMMA StartTagPull ==
  ASSUME PullInv, NEW r \in Reqs, StartTag(r)
  PROVE  PullInv'
<1>1. PullTypeOK'
  BY DEF StartTag, Now, PullInv, PullTypeOK, TagIsWatched, Kinds, PullPc
<1>2. TagIsWatched'
  BY DEF StartTag, Now, PullInv, PullTypeOK, TagIsWatched
<1>3. TagAnswerIsCurrent'
  BY DEF StartTag, Now, PullInv, PullTypeOK, TagIsWatched, TagAnswerIsCurrent
<1> QED
  BY <1>1, <1>2, <1>3 DEF PullInv

\* A request by digest is answered from the cache or asks upstream.
LEMMA StartDigestPull ==
  ASSUME PullInv, NEW r \in Reqs, NEW m \in Manifests, StartDigest(r, m)
  PROVE  PullInv'
<1>1. PullTypeOK'
  BY LookupFacts DEF StartDigest, PullInv, PullTypeOK
<1>2. /\ \A q \in Reqs \ {r} : pulls'[q] = pulls[q]
      /\ pulls'[r].kind = pulls[r].kind /\ pulls'[r].digest = m
      /\ pulls'[r].pc \in {"replied", "getting"}
  BY LookupFacts DEF StartDigest, PullInv, PullTypeOK
<1>3. TagIsWatched' /\ TagAnswerIsCurrent'
  BY <1>2 DEF StartDigest, PullInv, PullTypeOK, TagIsWatched, TagAnswerIsCurrent
<1> QED
  BY <1>1, <1>2, <1>3 DEF PullInv

\* The HEAD response resolves the tag to what it is at that moment.
LEMMA ResolvedPull ==
  ASSUME PullInv, NEW r \in Reqs, Resolved(r)
  PROVE  PullInv'
<1>1. PullTypeOK'
  BY LookupFacts DEF Resolved, PullInv, PullTypeOK
<1>2. /\ \A q \in Reqs \ {r} : pulls'[q] = pulls[q]
      /\ pulls'[r].kind = pulls[r].kind /\ pulls'[r].digest = upTag
      /\ pulls'[r].pc \in {"replied", "getting"}
  BY LookupFacts DEF Resolved, PullInv, PullTypeOK
<1>3. TagIsWatched' /\ TagAnswerIsCurrent'
  BY <1>2 DEF Resolved, PullInv, PullTypeOK, TagIsWatched, TagAnswerIsCurrent
<1> QED
  BY <1>1, <1>2, <1>3 DEF PullInv

\* The manifest is stored under the digest it was requested by.
LEMMA GotManifestPull ==
  ASSUME PullInv, NEW r \in Reqs, GotManifest(r)
  PROVE  PullInv'
<1>1. PullTypeOK'
  BY DEF GotManifest, Now, PullInv, PullTypeOK, TagIsWatched, Kinds, PullPc
<1>2. TagIsWatched'
  BY DEF GotManifest, Now, PullInv, PullTypeOK, TagIsWatched
<1>3. TagAnswerIsCurrent'
  BY DEF GotManifest, Now, PullInv, PullTypeOK, TagIsWatched, TagAnswerIsCurrent
<1> QED
  BY <1>1, <1>2, <1>3 DEF PullInv

\* A blob request is answered from the cache or asks upstream.
LEMMA StartBlobPull ==
  ASSUME PullInv, NEW r \in Reqs, StartBlob(r)
  PROVE  PullInv'
<1>1. PullTypeOK'
  <2>1. PICK p \in {"replied", "fetching"} : Now(r, p)
    BY DEF StartBlob
  <2>2. pulls' \in [Reqs -> [kind : Kinds, pc : PullPc, digest : Manifests \cup {Unresolved}]]
    BY <2>1 DEF Now, PullInv, PullTypeOK, PullPc
  <2> QED
    BY <2>2 DEF StartBlob, PullInv, PullTypeOK
<1>2. TagIsWatched'
  BY DEF StartBlob, Now, PullInv, PullTypeOK, TagIsWatched
<1>3. TagAnswerIsCurrent'
  BY DEF StartBlob, Now, PullInv, PullTypeOK, TagIsWatched, TagAnswerIsCurrent
<1> QED
  BY <1>1, <1>2, <1>3 DEF PullInv

\* A blob response is handed to its fill.
LEMMA GotBlobPull ==
  ASSUME PullInv, NEW r \in Reqs, GotBlob(r)
  PROVE  PullInv'
<1>1. PullTypeOK'
  BY DEF GotBlob, Now, PullInv, PullTypeOK, TagIsWatched, Kinds, PullPc
<1>2. TagIsWatched'
  BY DEF GotBlob, Now, PullInv, PullTypeOK, TagIsWatched
<1>3. TagAnswerIsCurrent'
  BY DEF GotBlob, Now, PullInv, PullTypeOK, TagIsWatched, TagAnswerIsCurrent
<1> QED
  BY <1>1, <1>2, <1>3 DEF PullInv

\* A request fails.
LEMMA PullFailsPull ==
  ASSUME PullInv, NEW r \in Reqs, PullFails(r)
  PROVE  PullInv'
<1>1. PullTypeOK'
  BY DEF PullFails, Now, PullInv, PullTypeOK, TagIsWatched, Kinds, PullPc
<1>2. TagIsWatched'
  BY DEF PullFails, Now, PullInv, PullTypeOK, TagIsWatched
<1>3. TagAnswerIsCurrent'
  BY DEF PullFails, Now, PullInv, PullTypeOK, TagIsWatched, TagAnswerIsCurrent
<1> QED
  BY <1>1, <1>2, <1>3 DEF PullInv

\* The tag moves; every request that is watching it notices.
LEMMA MoveTagPull ==
  ASSUME PullInv, NEW m \in Manifests, MoveTag(m)
  PROVE  PullInv'
<1>1. PullTypeOK'
  BY DEF MoveTag, PullInv, PullTypeOK, TagIsWatched, Kinds, PullPc
<1>2. TagIsWatched'
  BY DEF MoveTag, PullInv, PullTypeOK, TagIsWatched
<1>3. TagAnswerIsCurrent'
  BY DEF MoveTag, PullInv, PullTypeOK, TagIsWatched, TagAnswerIsCurrent
<1> QED
  BY <1>1, <1>2, <1>3 DEF PullInv

\* A step of a request keeps the calls and the fills in order.
LEMMA PullStepParts ==
  ASSUME AuthInv, FillInv, NEW r \in Reqs, PullStep(r)
  PROVE  AuthInv' /\ FillInv'
<1>1. AuthInv'
  BY CallStartAuth, CallReturnsAuth, AuthStutter
     DEF PullStep, StartTag, StartBlob, StartDigest, Resolved, Lookup, GotManifest, GotBlob,
         PullFails
<1>2. FillInv'
  BY FillStartFill, FillStutter, FetchesAssumption
     DEF PullStep, StartTag, StartBlob, StartDigest, Resolved, GotManifest, GotBlob, PullFails
<1> QED
  BY <1>1, <1>2

\* A step of a request preserves the invariant of the pulls.
LEMMA PullStepPull ==
  ASSUME PullInv, NEW r \in Reqs, PullStep(r)
  PROVE  PullInv'
BY StartTagPull, StartDigestPull, ResolvedPull, GotManifestPull, StartBlobPull, GotBlobPull,
   PullFailsPull DEF PullStep

-----------------------------------------------------------------------------
(***************************************************************************)
(* The invariant and the theorems.                                         *)
(***************************************************************************)
\* No request has been made; a token of an earlier one may be cached.
LEMMA InitIInv == Init => IInv
<1> SUFFICES ASSUME Init PROVE AuthInv /\ FillInv /\ PullInv
  BY PartsOfIInv
<1>1. AuthTypeOK
  BY MaxTokensAssumption
     DEF Init, AuthInit, AuthTypeOK, NoCall, Call, CallPc, Attempts, NoToken, Tokens
<1>2. TokensHandedOut /\ FreshIsUnseen /\ AttemptsAccounted /\ OnlySelfRefusedTokenStays
  BY DEF Init, AuthInit, TokensHandedOut, FreshIsUnseen, AttemptsAccounted,
         OnlySelfRefusedTokenStays, NoCall
<1>3. FillTypeOK
  BY CapacityAssumption, ChunksAssumption
     DEF Init, FillInit, FillTypeOK, NoFill, NoClient, Nothing, Fill, Client, Bytes
<1>4. NothingIsLost /\ ChannelInStep
  BY DEF Init, FillInit, NothingIsLost, ChannelInStep, NoFill, NoClient
<1>5. PullTypeOK
  <2>1. PICK mix \in Mixes :
          pulls = [r \in Reqs |-> [kind |-> mix[r], pc |-> "idle", digest |-> Unresolved]]
    BY DEF Init
  <2>2. \A r \in Reqs : mix[r] \in Kinds
    BY MixesAssumption
  <2> QED
    BY <2>1, <2>2 DEF Init, PullTypeOK, PullPc
<1>6. TagIsWatched /\ TagAnswerIsCurrent
  BY DEF Init, TagIsWatched, TagAnswerIsCurrent
<1> QED
  BY <1>1, <1>2, <1>3, <1>4, <1>5, <1>6 DEF AuthInv, FillInv, PullInv

\* Every step of every request, call, fill, client and of the registry
\* preserves the invariant.
LEMMA NextIInv == IInv /\ [Next]_vars => IInv'
<1> SUFFICES ASSUME AuthInv, FillInv, PullInv, [Next]_vars
             PROVE  AuthInv' /\ FillInv' /\ PullInv'
  <2>1. IInv' <=> AuthInv' /\ FillInv' /\ PullInv'
    BY PartsOfIInv, PTL
  <2> QED
    BY <2>1, PartsOfIInv
<1>1. CASE \E r \in Reqs : PullStep(r)
  BY <1>1, PullStepParts, PullStepPull
<1>2. CASE \E r \in Reqs : CallStep(r) /\ UNCHANGED <<fillVars, pullVars>>
  BY <1>2, CallStepAuth, FillStutter, PullStutter
<1>3. CASE \E r \in Reqs : (FillStep(r) \/ ClientStep(r)) /\ UNCHANGED <<authVars, pullVars>>
  BY <1>3, FillStepFill, AuthStutter, PullStutter, FetchesAssumption
<1>4. CASE \E t \in valid : Expire(t) /\ UNCHANGED <<fillVars, pullVars>>
  BY <1>4, ExpireAuth, FillStutter, PullStutter
<1>5. CASE \E m \in Manifests : MoveTag(m)
  BY <1>5, MoveTagPull, AuthStutter, FillStutter DEF MoveTag
<1>6. CASE UNCHANGED vars
  BY <1>6, AuthStutter, FillStutter, PullStutter DEF vars
<1> QED
  BY <1>1, <1>2, <1>3, <1>4, <1>5, <1>6 DEF Next

\* The inductive invariant holds in every behaviour.
THEOREM PullInvariant == Spec => []IInv
BY InitIInv, NextIInv, PTL DEF Spec

\* Every state of the requests, their calls, their fills and the caches is
\* well typed; no channel holds more than its capacity.
THEOREM PullTypeCorrect == Spec => []TypeOK
<1>1. IInv => TypeOK
  BY DEF IInv
<1> QED
  BY <1>1, PullInvariant, PTL

\* upstream_pull_request (docker.rs): however the requests' removals, fetches
\* and stores of the token cache interleave, a token that was refused is in the
\* cache only if the call it was last refused to had fetched it.
THEOREM RefusedTokensStayOut == Spec => []OnlySelfRefusedTokenStays
<1>1. IInv => OnlySelfRefusedTokenStays
  BY DEF IInv, AuthInv
<1> QED
  BY <1>1, PullInvariant, PTL

\* upstream_pull_request gives up on its retry budget only after two tokens
\* fetched for that very request expired before it used them.
THEOREM BudgetIsNotWasted == Spec => []BudgetNeedsExpiry
<1>1. IInv => BudgetNeedsExpiry
  BY DEF IInv, AuthInv, AttemptsAccounted, AllExpired, Attempts, BudgetNeedsExpiry
<1> QED
  BY <1>1, PullInvariant, PTL

\* A client of spawn_blob_fill that sees the end of the body has received
\* every chunk, and upstream had ended without an error.
THEOREM EofIsTheEnd == Spec => []EofMeansEverything
<1>1. IInv => EofMeansEverything
  BY FillFacts, CapacityAssumption, ChunksAssumption
     DEF IInv, FillInv, NothingIsLost, BeingSent, ChannelInStep, EofMeansEverything
<1> QED
  BY <1>1, PullInvariant, PTL

\* get_head_manifest answers a request for a tag with a digest the tag had
\* upstream during that request.
THEOREM TagAnswersAreCurrent == Spec => []TagAnswerIsCurrent
<1>1. IInv => TagAnswerIsCurrent
  BY DEF IInv
<1> QED
  BY <1>1, PullInvariant, PTL
=============================================================================
