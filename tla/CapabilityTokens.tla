-------------------------- MODULE CapabilityTokens --------------------------
(***************************************************************************)
(* Issuing capability tokens (src/services/token-service) and admitting    *)
(* calls with them at the registry (src/services/registry/src/auth.ts,     *)
(* key-resolver.ts), both through src/libs/authorizer.  The token service  *)
(* answers requests that are concurrent with each other, with edits of the *)
(* policies table and with the clock; a request stops at every await.  The *)
(* registry's container shares one fetch of the verification key among the *)
(* calls that arrive while it is cold.                                     *)
(***************************************************************************)
EXTENDS Scopes, FiniteSets

CONSTANTS
  Requests, Calls,       \* slots for POST /tokens requests; calls of registry routes
  Principals,
  ScopeSets,             \* the scope lists requests ask for, as sets of texts
  Policies,              \* the allowedScopes an administrator may store
  NoPolicy, Corrupt,     \* no policy document; one that fails its schema
  Ttls, NoTtl,           \* requested lifetimes; none requested
  MaxTtl,                \* MAX_TTL_SECONDS
  ConfiguredMax,         \* MAX_TOKEN_TTL_SECONDS of the deployment
  DefaultTtl,            \* DEFAULT_TOKEN_TTL_SECONDS of the deployment
  Tolerance,             \* clock tolerance of both verifiers
  MaxScopes,             \* MAX_SCOPES_PER_TOKEN
  Needs,                 \* the scopes the registry's routes require
  NoToken, Unreadable, Forged,   \* no token, no JWT at all, a JWT of no issue
  Horizon, MaxEdits,     \* bounds: the clock, edits of the policies table,
  MaxTokens, MaxWork     \* tokens signed, tokens and calls together

\* What loadConfig accepts at cold start.
ConfigIsAccepted ==
  /\ DefaultTtl \in 1..MaxTtl
  /\ ConfiguredMax \in 1..MaxTtl
  /\ DefaultTtl <= ConfiguredMax

ASSUME TokenAssumption ==
  /\ ConfigIsAccepted
  /\ MaxTtl \in Nat /\ Tolerance \in Nat /\ Horizon \in Nat
  /\ MaxScopes \in Nat /\ MaxEdits \in Nat /\ MaxTokens \in Nat /\ MaxWork \in Nat
  /\ Ttls \subseteq Nat /\ NoTtl \notin Nat
  /\ {NoToken, Unreadable, Forged} \cap Nat = {}
  /\ {NoPolicy, Corrupt} \cap Policies = {}

VARIABLES
  now,       \* seconds, one clock for every host
  policies,  \* the policies table
  edits,     \* edits made to it
  tokens,    \* the tokens signed so far, a token's index being its jti
  req,       \* token requests
  signerKey, \* the token service's container holds the verification key
  call,      \* registry calls
  key,       \* the registry's container holds it: `cached`
  fetch      \* its fetch is outstanding: `inFlight`

vars == <<now, policies, edits, tokens, req, signerKey, call, key, fetch>>

Presented == DOMAIN tokens \cup {NoToken, Unreadable, Forged}

Idle == [pc |-> "idle", who |-> "nobody", scopes |-> {}, ttl |-> 0, parent |-> NoToken,
         allowed |-> {}, at |-> 0]
IdleCall == [pc |-> "idle", token |-> NoToken, need |-> <<>>, at |-> 0, answer |-> "none"]

Init ==
  /\ now = 0 /\ edits = 0
  /\ policies \in [Principals -> Policies \cup {NoPolicy}]
  /\ tokens = <<>>
  /\ req = [r \in Requests |-> Idle]
  /\ signerKey = FALSE
  /\ call = [c \in Calls |-> IdleCall]
  /\ key = FALSE /\ fetch = FALSE

\* The bound on the whole: long chains with few calls, many calls on short ones.
Work == Len(tokens) + 2 * Cardinality({c \in Calls : call[c].pc # "idle"})
RoomForToken == Len(tokens) < MaxTokens /\ Work + 1 <= MaxWork
RoomForCall == Work + 2 <= MaxWork

-----------------------------------------------------------------------------
(* The environment *)

Tick ==
  /\ now < Horizon
  /\ now' = now + 1
  /\ UNCHANGED <<policies, edits, tokens, req, signerKey, call, key, fetch>>

\* An administrator stores, breaks or removes a policy document.
EditPolicy(p, doc) ==
  /\ edits < MaxEdits
  /\ policies' = [policies EXCEPT ![p] = doc]
  /\ edits' = edits + 1
  /\ UNCHANGED <<now, tokens, req, signerKey, call, key, fetch>>

-----------------------------------------------------------------------------
(* The token service *)

\* The request is answered; its slot may carry another one.
Respond(r) == req' = [req EXCEPT ![r] = Idle]
Refuse(r, code) == code # "none" /\ Respond(r)

\* Mutant: no ceiling on the lifetime asked for.
DefectsNoCeiling(scopes, ttl) ==
  IF Cardinality(scopes) \notin 1..MaxScopes \/ ttl = 0 THEN {"INVALID_REQUEST"}
  ELSE IF \E s \in scopes : ~IsValidScope(s) THEN {"INVALID_SCOPE"}
  ELSE {}

\* parseIssueTokenRequest: the schema, then the grammar, then the ceiling.
Defects(scopes, ttl) ==
  IF Cardinality(scopes) \notin 1..MaxScopes \/ ttl = 0 THEN {"INVALID_REQUEST"}
  ELSE IF \E s \in scopes : ~IsValidScope(s) THEN {"INVALID_SCOPE"}
  ELSE IF ttl # NoTtl /\ ttl > MaxTtl THEN {"INVALID_TTL"}
  ELSE {}

ParseIssueTokenRequest(r, who, scopes, ttl, parent) ==
  /\ req[r].pc = "idle" /\ RoomForToken
  /\ \/ \E code \in Defects(scopes, ttl) : Refuse(r, code)
     \/ /\ Defects(scopes, ttl) = {}
        /\ req' = [req EXCEPT ![r] =
              [pc |-> "policy", who |-> who, scopes |-> scopes, parent |-> parent,
               ttl |-> IF ttl = NoTtl THEN DefaultTtl ELSE ttl, allowed |-> {}, at |-> 0]]
  /\ UNCHANGED <<now, policies, edits, tokens, signerKey, call, key, fetch>>

\* enforcePolicy, on a consistent read of the table.
PolicyRefusals(doc, scopes) ==
  IF doc = NoPolicy THEN {"POLICY_NOT_FOUND"}
  ELSE IF doc = Corrupt THEN {"POLICY_INVALID"}
  ELSE IF ~IsScopeSubset(scopes, doc) THEN {"SCOPE_NOT_ALLOWED"}
  ELSE {}

\* Where a request goes that its policy allows: with a parent token, into
\* verifyToken, whose clock is read here, before the key is awaited.
AfterPolicy(r) ==
  LET q == req[r] IN
  CASE q.parent = NoToken    -> {"stamp"}
    [] q.parent = Unreadable -> {}
    [] OTHER                 -> {IF signerKey THEN "verify" ELSE "fetch"}

EnforcePolicy(r) ==
  /\ req[r].pc = "policy"
  /\ LET doc == policies[req[r].who] IN
     \/ \E code \in PolicyRefusals(doc, req[r].scopes) : Refuse(r, code)
     \/ /\ PolicyRefusals(doc, req[r].scopes) = {}
        /\ \/ AfterPolicy(r) = {} /\ Refuse(r, "INVALID_PARENT_TOKEN")
           \/ \E pc \in AfterPolicy(r) :
                 req' = [req EXCEPT ![r].pc = pc, ![r].allowed = doc,
                                    ![r].at = IF pc = "stamp" THEN 0 ELSE now]
  /\ UNCHANGED <<now, policies, edits, tokens, signerKey, call, key, fetch>>

\* The policies table, or KMS when it signs, fails the request: 500.
IssueFails(r) ==
  /\ req[r].pc \in {"policy", "sign"}
  /\ Refuse(r, "INTERNAL_ERROR")
  /\ UNCHANGED <<now, policies, edits, tokens, signerKey, call, key, fetch>>

\* verifyToken finds the token genuine and live at the given time.
Verifies(token, at) ==
  /\ token \in DOMAIN tokens
  /\ tokens[token].exp > at - Tolerance

\* Mutant: one scope of the parent's is enough.
AttenuationByAnyScope(q) ==
  IF ~Verifies(q.parent, q.at) THEN {"INVALID_PARENT_TOKEN"}
  ELSE IF \A s \in q.scopes : ~CoveredBy(s, tokens[q.parent].scopes) THEN {"ATTENUATION_VIOLATION"}
  ELSE {}

\* enforceAttenuation, from the verified parent on.
AttenuationRefusals(q) ==
  IF ~Verifies(q.parent, q.at) THEN {"INVALID_PARENT_TOKEN"}
  ELSE IF ~IsScopeSubset(q.scopes, tokens[q.parent].scopes) THEN {"ATTENUATION_VIOLATION"}
  ELSE {}

Attenuate(r) ==
  \/ \E code \in AttenuationRefusals(req[r]) : Refuse(r, code)
  \/ /\ AttenuationRefusals(req[r]) = {}
     /\ req' = [req EXCEPT ![r].pc = "stamp", ![r].at = 0]

\* getPublicKey: the container's key if there is one when the request asks,
\* else a fetch of the request's own that fills the container.
EnforceAttenuation(r) ==
  /\ \/ req[r].pc = "verify" /\ UNCHANGED signerKey
     \/ req[r].pc = "fetch" /\ signerKey' = TRUE
  /\ Attenuate(r)
  /\ UNCHANGED <<now, policies, edits, tokens, call, key, fetch>>

\* KMS fails: the error is the parent token's, and nothing is cached.
ParentKeyFails(r) ==
  /\ req[r].pc = "fetch"
  /\ Refuse(r, "INVALID_PARENT_TOKEN")
  /\ UNCHANGED <<now, policies, edits, tokens, signerKey, call, key, fetch>>

\* The claims are stamped with a clock read after every await but the last,
\* and sent to KMS to sign.
Stamp(r) ==
  /\ req[r].pc = "stamp"
  /\ req' = [req EXCEPT ![r].pc = "sign", ![r].at = now]
  /\ UNCHANGED <<now, policies, edits, tokens, signerKey, call, key, fetch>>

\* The claims a verifier decides on, with two fields of history: the tokens
\* this one descends from, and the policy its request was held against.
Claims(q) ==
  [scopes |-> q.scopes, iat |-> q.at, exp |-> q.at + q.ttl,
   line |-> IF q.parent = NoToken THEN {} ELSE {q.parent} \cup tokens[q.parent].line,
   allowed |-> q.allowed]

Signed(r) ==
  /\ req[r].pc = "sign" /\ RoomForToken
  /\ tokens' = Append(tokens, Claims(req[r]))
  /\ Respond(r)
  /\ UNCHANGED <<now, policies, edits, signerKey, call, key, fetch>>

-----------------------------------------------------------------------------
(* The registry *)

Answer(c, answer) == [call[c] EXCEPT !.pc = "done", !.answer = answer]

\* authenticate, up to the verification key: a call without a readable token
\* is answered at once, the others take the key, join the fetch or start it.
Authenticate(c, token, need) ==
  /\ call[c].pc = "idle" /\ RoomForCall
  /\ \/ /\ token \in {NoToken, Unreadable}
        /\ call' = [call EXCEPT ![c] = Answer(c, "401")]
        /\ UNCHANGED fetch
     \/ /\ token \notin {NoToken, Unreadable}
        /\ call' = [call EXCEPT ![c] =
              [pc |-> IF key THEN "verify" ELSE "wait", token |-> token, need |-> need,
               at |-> 0, answer |-> "none"]]
        /\ fetch' = (fetch \/ ~key)
  /\ UNCHANGED <<now, policies, edits, tokens, req, signerKey, key>>

\* The fetch settles: `cached` is set, `inFlight` cleared, and every call
\* that joined it goes on, before any other event is handled.
FetchSucceeds ==
  /\ fetch
  /\ key' = TRUE /\ fetch' = FALSE
  /\ call' = [c \in Calls |->
        IF call[c].pc = "wait" THEN [call[c] EXCEPT !.pc = "verify"] ELSE call[c]]
  /\ UNCHANGED <<now, policies, edits, tokens, req, signerKey>>

\* Mutant: the failed fetch is kept.
FetchFailsForGood ==
  /\ fetch
  /\ call' = [c \in Calls |-> IF call[c].pc = "wait" THEN Answer(c, "500") ELSE call[c]]
  /\ UNCHANGED <<now, policies, edits, tokens, req, signerKey, key, fetch>>

\* KEY_RESOLUTION_FAILED is the platform's failure: 500, never 401.
FetchFails ==
  /\ fetch
  /\ fetch' = FALSE
  /\ call' = [c \in Calls |-> IF call[c].pc = "wait" THEN Answer(c, "500") ELSE call[c]]
  /\ UNCHANGED <<now, policies, edits, tokens, req, signerKey, key>>

\* Signature and timestamps, then requireScope of the route.
VerifyAndRequire(c) ==
  /\ call[c].pc = "verify"
  /\ LET t == call[c].token
         answer == IF ~Verifies(t, now) THEN "401"
                   ELSE IF CoveredBy(call[c].need, tokens[t].scopes) THEN "admitted"
                   ELSE "403"
     IN call' = [call EXCEPT ![c] = [Answer(c, answer) EXCEPT !.at = now]]
  /\ UNCHANGED <<now, policies, edits, tokens, req, signerKey, key, fetch>>

-----------------------------------------------------------------------------
RequestNext(r) ==
  \/ \E who \in Principals, scopes \in ScopeSets, ttl \in Ttls \cup {NoTtl}, parent \in Presented :
        ParseIssueTokenRequest(r, who, scopes, ttl, parent)
  \/ EnforcePolicy(r) \/ IssueFails(r) \/ EnforceAttenuation(r) \/ ParentKeyFails(r)
  \/ Stamp(r) \/ Signed(r)

CallNext(c) ==
  \/ \E token \in Presented, need \in Needs : Authenticate(c, token, need)
  \/ VerifyAndRequire(c)

Next ==
  \/ Tick
  \/ \E p \in Principals, doc \in Policies \cup {NoPolicy, Corrupt} : EditPolicy(p, doc)
  \/ \E r \in Requests : RequestNext(r)
  \/ \E c \in Calls : CallNext(c)
  \/ FetchSucceeds \/ FetchFails

Spec == Init /\ [][Next]_vars

-----------------------------------------------------------------------------
(* Properties *)

Token == [scopes : ScopeSets, iat : Nat, exp : Nat, line : SUBSET Nat, allowed : Policies]

Shown == Nat \cup {NoToken, Unreadable, Forged}

Request ==
  [pc : {"idle", "policy", "verify", "fetch", "stamp", "sign"},
   who : Principals \cup {"nobody"}, scopes : ScopeSets \cup {{}}, ttl : 0..MaxTtl,
   parent : Shown, allowed : Policies \cup {{}}, at : Nat]

RegistryCall ==
  [pc : {"idle", "wait", "verify", "done"}, token : Shown, need : Needs \cup {<<>>},
   at : Nat, answer : {"none", "admitted", "401", "403", "500"}]

\* Type invariant.  What is signed lives at most MAX_TTL_SECONDS and carries
\* well-formed scopes; a token descends from earlier tokens only.
TypeOK ==
  /\ now \in Nat /\ edits \in Nat
  /\ policies \in [Principals -> Policies \cup {NoPolicy, Corrupt}]
  /\ tokens \in Seq(Token)
  /\ \A t \in 1..Len(tokens) :
        /\ tokens[t].exp - tokens[t].iat \in 1..MaxTtl
        /\ \A s \in tokens[t].scopes : IsValidScope(s)
        /\ tokens[t].line \subseteq 1..(t - 1)
  /\ req \in [Requests -> Request]
  /\ call \in [Calls -> RegistryCall]
  /\ signerKey \in BOOLEAN /\ key \in BOOLEAN /\ fetch \in BOOLEAN

\* Delegation only narrows, however long the chain: a token never grants a
\* scope that some ancestor, not only its parent, did not grant (handler.ts
\* compares a request with its parent alone; the rest is the matching rules).
ChainNeverWidens ==
  \A t \in DOMAIN tokens : \A a \in tokens[t].line :
     IsScopeSubset(tokens[t].scopes, tokens[a].scopes)

\* Link a of a chain stands for a scope: by the scopes it was issued with,
\* and by the policy of its principal as it was when the link was requested.
Entitles(need, a) == CoveredBy(need, tokens[a].scopes) /\ CoveredBy(need, tokens[a].allowed)

\* A call the registry admits presented a token the service signed, less
\* than the tolerance past its expiry, which is at most the built-in ceiling
\* past its stamp; and every link of the token's chain, not the token alone,
\* entitles to what the route requires.
AdmittedIsEntitled ==
  \A c \in Calls : call[c].answer = "admitted" =>
     LET t == call[c].token IN
     /\ t \in DOMAIN tokens
     /\ call[c].at < tokens[t].exp + Tolerance
     /\ tokens[t].exp <= tokens[t].iat + MaxTtl
     /\ \A a \in {t} \cup tokens[t].line : Entitles(call[c].need, a)

\* A cold container: the key is fetched once at a time and never again once
\* it is held, a waiting call always has a fetch to wait for (a failed one is
\* not joined by later calls), and a call is blamed with 401 only when the
\* token it presented cannot be verified, whatever happened to the key.
ColdStartIsFair ==
  /\ fetch <=> \E c \in Calls : call[c].pc = "wait"
  /\ ~(key /\ fetch)
  /\ \A c \in Calls : call[c].answer = "401" => ~Verifies(call[c].token, now)

\* What src/infra/lib/primitives/secrets/token-service-stack.ts:40 says of
\* maxTokenTtlSeconds ("Hard ceiling on token TTL"): no token outlives it.
ConfiguredCeilingHolds ==
  \A t \in DOMAIN tokens : tokens[t].exp - tokens[t].iat <= ConfiguredMax
=============================================================================
