----------------------- MODULE CapabilityTokensProofs -----------------------
(***************************************************************************)
(* Proofs about the matching rules of the scope grammar and about the      *)
(* chains of tokens they are used on, for any principals, policies, scope  *)
(* lists, requests and calls.                                              *)
(***************************************************************************)
EXTENDS CapabilityTokens, TLAPS

\* scopeCovers composes: what a middle scope covers, a scope covering it
\* covers too.
THEOREM CoversTransitive ==
  ASSUME NEW a, NEW b, NEW c, ScopeCovers(a, b), ScopeCovers(b, c)
  PROVE  ScopeCovers(a, c)
<1>1. a.primitive = c.primitive /\ a.verb = c.verb
  BY DEF ScopeCovers
<1>2. CASE a.resource = Whole
  BY <1>1, <1>2 DEF ScopeCovers
<1>3. CASE a.resource # Whole
  <2>1. /\ b.resource # Whole /\ Len(a.resource) = Len(b.resource)
        /\ \A i \in 1..Len(a.resource) : a.resource[i] \in {WildcardSegment, b.resource[i]}
    BY <1>3 DEF ScopeCovers
  <2>2. /\ c.resource # Whole /\ Len(b.resource) = Len(c.resource)
        /\ \A i \in 1..Len(b.resource) : b.resource[i] \in {WildcardSegment, c.resource[i]}
    BY <2>1 DEF ScopeCovers
  <2>3. \A i \in 1..Len(a.resource) : a.resource[i] \in {WildcardSegment, c.resource[i]}
    BY <2>1, <2>2
  <2> QED BY <1>1, <2>1, <2>2, <2>3 DEF ScopeCovers
<1> QED BY <1>2, <1>3

\* Whatever a token's scopes cover, any grant those scopes are a subset of
\* covers: the subset check of policies and of attenuation is sound for
\* every later check against the narrower list.
THEOREM SubsetCarriesCover ==
  ASSUME NEW x, NEW S, NEW G, CoveredBy(x, S), IsScopeSubset(S, G)
  PROVE  CoveredBy(x, G)
<1>1. PICK s \in S : ScopeCovers(ParseScope(s), ParseScope(x))
  BY DEF CoveredBy
<1>2. PICK g \in G : ScopeCovers(ParseScope(g), ParseScope(s))
  BY DEF IsScopeSubset, CoveredBy
<1>3. ScopeCovers(ParseScope(g), ParseScope(x))
  BY <1>1, <1>2, CoversTransitive
<1> QED BY <1>3 DEF CoveredBy

\* isScopeSubset composes along a chain of any length.
LEMMA SubsetTransitive ==
  ASSUME NEW R, NEW S, NEW G, IsScopeSubset(R, S), IsScopeSubset(S, G)
  PROVE  IsScopeSubset(R, G)
<1> SUFFICES ASSUME NEW x \in R PROVE CoveredBy(x, G)
  BY DEF IsScopeSubset
<1>1. CoveredBy(x, S)
  BY DEF IsScopeSubset
<1> QED BY <1>1, SubsetCarriesCover

-----------------------------------------------------------------------------
(* The inductive invariant *)

\* A request in flight carries what each check it passed established.
RequestOK(r) ==
  LET q == req[r] IN
  /\ q.pc # "idle" =>
       /\ q.who \in Principals /\ q.scopes \in ScopeSets /\ q.ttl \in 1..MaxTtl
       /\ \A s \in q.scopes : IsValidScope(s)
       /\ q.parent \in Presented
  /\ q.pc \in {"verify", "fetch", "stamp", "sign"} =>
       /\ q.allowed \in Policies
       /\ IsScopeSubset(q.scopes, q.allowed)
  /\ q.pc \in {"verify", "fetch"} => q.parent # NoToken
  /\ q.pc \in {"stamp", "sign"} =>
       \/ q.parent = NoToken
       \/ /\ q.parent \in DOMAIN tokens
          /\ IsScopeSubset(q.scopes, tokens[q.parent].scopes)

WithinPolicy == \A t \in DOMAIN tokens : IsScopeSubset(tokens[t].scopes, tokens[t].allowed)

IInv ==
  /\ TypeOK
  /\ \A r \in Requests : RequestOK(r)
  /\ WithinPolicy
  /\ ChainNeverWidens
  /\ AdmittedIsEntitled

LEMMA InitIInv == Init => IInv
<1> SUFFICES ASSUME Init PROVE IInv
  OBVIOUS
<1> USE TokenAssumption DEF Init
<1>1. TypeOK
  <2>1. Idle \in Request
    BY DEF Idle, Request, Shown
  <2>3. IdleCall \in RegistryCall
    BY DEF IdleCall, RegistryCall, Shown
  <2>2. tokens \in Seq(Token) /\ 1..Len(tokens) = {}
    OBVIOUS
  <2>4. policies \in [Principals -> Policies \cup {NoPolicy, Corrupt}]
    OBVIOUS
  <2>5. req \in [Requests -> Request] /\ call \in [Calls -> RegistryCall]
    BY <2>1, <2>3
  <2>6. now \in Nat /\ edits \in Nat /\ signerKey \in BOOLEAN /\ key \in BOOLEAN /\ fetch \in BOOLEAN
    OBVIOUS
  <2> HIDE DEF Init
  <2> QED BY <2>2, <2>4, <2>5, <2>6 DEF TypeOK
<1>2. \A r \in Requests : RequestOK(r)
  BY DEF RequestOK, Idle
<1>3. WithinPolicy /\ ChainNeverWidens
  BY DEF WithinPolicy, ChainNeverWidens
<1>4. AdmittedIsEntitled
  BY DEF AdmittedIsEntitled, IdleCall
<1> QED BY <1>1, <1>2, <1>3, <1>4 DEF IInv

-----------------------------------------------------------------------------
(* The steps of one request leave the tokens and the calls alone, except   *)
(* the one that signs.                                                     *)

\* A step that changes neither the tokens nor the calls keeps all but the
\* types and what it says of its own request.
LEMMA RequestStep ==
  ASSUME IInv, NEW r \in Requests, NEW q \in Request,
         req' = [req EXCEPT ![r] = q], UNCHANGED <<now, policies, edits, tokens, call, key, fetch>>,
         signerKey' \in BOOLEAN, RequestOK(r)'
  PROVE  IInv'
<1> USE DEF IInv
<1>1. TypeOK'
  BY DEF TypeOK
<1>2. ASSUME NEW o \in Requests, o # r PROVE RequestOK(o)'
  BY <1>2 DEF RequestOK, TypeOK, Presented
<1>3. (WithinPolicy /\ ChainNeverWidens /\ AdmittedIsEntitled)'
  BY DEF WithinPolicy, ChainNeverWidens, AdmittedIsEntitled, Entitles
<1> QED BY <1>1, <1>2, <1>3

\* The answers leave a request idle.
LEMMA RespondStep ==
  ASSUME IInv, NEW r \in Requests, Respond(r),
         UNCHANGED <<now, policies, edits, tokens, call, key, fetch>>, signerKey' \in BOOLEAN
  PROVE  IInv'
<1>1. Idle \in Request
  BY TokenAssumption DEF Idle, Request, Shown
<1>2. RequestOK(r)'
  BY DEF RequestOK, Respond, Idle, IInv, TypeOK
<1> QED BY <1>1, <1>2, RequestStep DEF Respond

LEMMA ParseStep ==
  ASSUME IInv, NEW r \in Requests, NEW who \in Principals, NEW scopes \in ScopeSets,
         NEW ttl \in Ttls \cup {NoTtl}, NEW parent \in Presented,
         ParseIssueTokenRequest(r, who, scopes, ttl, parent)
  PROVE  IInv'
<1> USE DEF ParseIssueTokenRequest
<1>1. CASE Respond(r)
  BY <1>1, RespondStep DEF IInv, TypeOK
<1>2. CASE ~Respond(r)
  <2> DEFINE life == IF ttl = NoTtl THEN DefaultTtl ELSE ttl
             q == [pc |-> "policy", who |-> who, scopes |-> scopes, parent |-> parent,
                   ttl |-> life, allowed |-> {}, at |-> 0]
  <2>1. Defects(scopes, ttl) = {} /\ req' = [req EXCEPT ![r] = q]
    BY <1>2 DEF Refuse
  <2>2. /\ \A s \in scopes : IsValidScope(s)
        /\ ttl # 0 /\ (ttl = NoTtl \/ ttl <= MaxTtl)
    BY <2>1, TokenAssumption DEF Defects
  <2>3. life \in 1..MaxTtl
    <3>1. CASE ttl = NoTtl
      BY <3>1, TokenAssumption DEF ConfigIsAccepted
    <3>2. CASE ttl # NoTtl
      <4>1. ttl \in Nat /\ MaxTtl \in Nat
        BY <3>2, TokenAssumption
      <4>2. ttl # 0 /\ ttl <= MaxTtl
        BY <2>2, <3>2
      <4> QED BY <3>2, <4>1, <4>2
    <3> QED BY <3>1, <3>2
  <2>4. parent \in Shown
    BY DEF Presented, Shown, IInv, TypeOK
  <2>8. life \in 0..MaxTtl
    BY <2>3, TokenAssumption
  <2>5. q \in Request
    <3> HIDE DEF life
    <3> QED BY <2>4, <2>8 DEF Request
  <2>6. RequestOK(r)'
    BY <2>1, <2>2, <2>3 DEF RequestOK, IInv, TypeOK, Presented
  <2> QED BY <2>1, <2>5, <2>6, RequestStep DEF IInv, TypeOK
<1> QED BY <1>1, <1>2

LEMMA PolicyStep ==
  ASSUME IInv, NEW r \in Requests, EnforcePolicy(r)
  PROVE  IInv'
<1> USE DEF EnforcePolicy
<1>1. CASE Respond(r)
  BY <1>1, RespondStep DEF IInv, TypeOK
<1>2. CASE ~Respond(r)
  <2> DEFINE doc == policies[req[r].who]
  <2>1. PICK pc \in AfterPolicy(r) :
          req' = [req EXCEPT ![r].pc = pc, ![r].allowed = doc,
                             ![r].at = IF pc = "stamp" THEN 0 ELSE now]
    BY <1>2 DEF Refuse
  <2> DEFINE q == [req[r] EXCEPT !.pc = pc, !.allowed = doc, !.at = IF pc = "stamp" THEN 0 ELSE now]
  <2>2. PolicyRefusals(doc, req[r].scopes) = {}
    BY <1>2 DEF Refuse
  <2>3. req[r] \in Request /\ RequestOK(r) /\ req[r].pc = "policy"
    BY DEF IInv, TypeOK
  <2>4. doc \in Policies /\ IsScopeSubset(req[r].scopes, doc)
    <3>1. doc # NoPolicy /\ doc # Corrupt /\ IsScopeSubset(req[r].scopes, doc)
      BY <2>2 DEF PolicyRefusals
    <3>2. req[r].who \in Principals
      BY <2>3 DEF RequestOK
    <3> QED BY <3>1, <3>2 DEF IInv, TypeOK
  <2>5. /\ pc \in {"stamp", "verify", "fetch"}
        /\ pc = "stamp" => req[r].parent = NoToken
        /\ pc # "stamp" => req[r].parent # NoToken
    BY <2>1 DEF AfterPolicy
  <2>6. req' = [req EXCEPT ![r] = q]
    BY <2>1, <2>3 DEF IInv, TypeOK, Request
  <2>7. q \in Request
    BY <2>3, <2>4, <2>5 DEF Request, IInv, TypeOK
  <2>8. RequestOK(r)'
    <3>1. /\ q.pc = pc /\ q.who = req[r].who /\ q.scopes = req[r].scopes /\ q.parent = req[r].parent
          /\ q.ttl = req[r].ttl /\ q.allowed = doc
      BY <2>3 DEF Request
    <3>2. req'[r] = q /\ Presented' = Presented
      BY <2>3, <2>6 DEF IInv, TypeOK, Presented
    <3> HIDE DEF q
    <3> QED BY <2>3, <2>4, <2>5, <3>1, <3>2 DEF RequestOK
  <2>9. UNCHANGED <<now, policies, edits, tokens, call, key, fetch>> /\ signerKey' \in BOOLEAN
    BY <1>2 DEF Refuse, IInv, TypeOK
  <2> HIDE DEF q
  <2> QED BY <2>6, <2>7, <2>8, <2>9, RequestStep
<1> QED BY <1>1, <1>2

LEMMA AttenuateStep ==
  ASSUME IInv, NEW r \in Requests, EnforceAttenuation(r)
  PROVE  IInv'
<1> USE DEF EnforceAttenuation
<1>0. signerKey' \in BOOLEAN
  BY DEF IInv, TypeOK
<1>1. CASE Respond(r)
  BY <1>0, <1>1, RespondStep
<1>2. CASE ~Respond(r)
  <2> DEFINE q == [req[r] EXCEPT !.pc = "stamp", !.at = 0]
  <2>1. /\ AttenuationRefusals(req[r]) = {}
        /\ req' = [req EXCEPT ![r].pc = "stamp", ![r].at = 0]
    BY <1>2 DEF Attenuate, Refuse
  <2>2. /\ req[r].parent \in DOMAIN tokens
        /\ IsScopeSubset(req[r].scopes, tokens[req[r].parent].scopes)
    BY <2>1 DEF AttenuationRefusals, Verifies
  <2>3. req[r] \in Request /\ RequestOK(r) /\ req[r].pc \in {"verify", "fetch"}
    BY DEF IInv, TypeOK
  <2>4. req' = [req EXCEPT ![r] = q]
    BY <2>1, <2>3 DEF IInv, TypeOK, Request
  <2>5. q \in Request
    BY <2>3 DEF Request
  <2>6. RequestOK(r)'
    BY <2>2, <2>3, <2>4, <2>5 DEF RequestOK, Request, IInv, TypeOK, Presented
  <2> QED BY <1>0, <2>4, <2>5, <2>6, RequestStep
<1> QED BY <1>1, <1>2

LEMMA StampStep ==
  ASSUME IInv, NEW r \in Requests, Stamp(r)
  PROVE  IInv'
<1> DEFINE q == [req[r] EXCEPT !.pc = "sign", !.at = now]
<1>1. req[r] \in Request /\ RequestOK(r) /\ req[r].pc = "stamp" /\ now \in Nat
  BY DEF Stamp, IInv, TypeOK
<1>2. req' = [req EXCEPT ![r] = q]
  BY <1>1 DEF Stamp, IInv, TypeOK, Request
<1>3. q \in Request
  BY <1>1 DEF Request
<1>4. RequestOK(r)'
  BY <1>1, <1>2, <1>3 DEF Stamp, RequestOK, Request, IInv, TypeOK, Presented
<1> QED BY <1>2, <1>3, <1>4, RequestStep DEF Stamp, IInv, TypeOK

-----------------------------------------------------------------------------
(* The step that signs: the new token is the only one whose links are new, *)
(* and its ancestors are its parent and its parent's.                      *)

LEMMA SignStep ==
  ASSUME IInv, NEW r \in Requests, Signed(r)
  PROVE  IInv'
<1> DEFINE q == req[r]
           n == Len(tokens)
           new == Claims(q)
<1>1. /\ q \in Request /\ RequestOK(r) /\ q.pc = "sign"
      /\ tokens \in Seq(Token) /\ n \in Nat
  BY DEF Signed, IInv, TypeOK
<1>2. /\ q.scopes \in ScopeSets /\ q.ttl \in 1..MaxTtl /\ q.allowed \in Policies /\ q.at \in Nat
      /\ \A s \in q.scopes : IsValidScope(s)
      /\ IsScopeSubset(q.scopes, q.allowed)
      /\ \/ q.parent = NoToken
         \/ q.parent \in 1..n /\ IsScopeSubset(q.scopes, tokens[q.parent].scopes)
  BY <1>1 DEF RequestOK, Request
<1>3. NoToken \notin Nat /\ MaxTtl \in Nat
  BY TokenAssumption
<1>4. new.line \subseteq 1..n
  <2>1. CASE q.parent = NoToken
    BY <2>1 DEF Claims
  <2>2. CASE q.parent \in 1..n
    <3>1. tokens[q.parent].line \subseteq 1..(q.parent - 1)
      BY <2>2 DEF IInv, TypeOK
    <3>2. 1..(q.parent - 1) \subseteq 1..n
      BY <1>1, <2>2
    <3>3. new.line = {q.parent} \cup tokens[q.parent].line
      BY <1>3, <2>2 DEF Claims
    <3> QED BY <2>2, <3>1, <3>2, <3>3
  <2> QED BY <1>2, <2>1, <2>2
<1>5. new \in Token /\ new.exp - new.iat \in 1..MaxTtl /\ new.scopes = q.scopes /\ new.allowed = q.allowed
  <2>1. new.line \in SUBSET Nat
    BY <1>4
  <2>2. q.at + q.ttl \in Nat /\ (q.at + q.ttl) - q.at \in 1..MaxTtl
    BY <1>2, <1>3
  <2>3. /\ new.iat = q.at /\ new.exp = q.at + q.ttl
        /\ new.scopes = q.scopes /\ new.allowed = q.allowed
        /\ new = [scopes |-> q.scopes, iat |-> q.at, exp |-> q.at + q.ttl, line |-> new.line,
                  allowed |-> q.allowed]
    BY DEF Claims
  <2> HIDE DEF new
  <2> QED BY <1>2, <2>1, <2>2, <2>3 DEF Token
<1>6. \A a \in new.line : IsScopeSubset(new.scopes, tokens[a].scopes)
  <2> SUFFICES ASSUME NEW a \in new.line PROVE IsScopeSubset(q.scopes, tokens[a].scopes)
    BY <1>5
  <2>1. q.parent \in 1..n /\ IsScopeSubset(q.scopes, tokens[q.parent].scopes)
    BY <1>2 DEF Claims
  <2>2. CASE a = q.parent
    BY <2>1, <2>2
  <2>3. CASE a # q.parent
    <3>1. a \in tokens[q.parent].line
      BY <1>3, <2>1, <2>3 DEF Claims
    <3>2. IsScopeSubset(tokens[q.parent].scopes, tokens[a].scopes)
      BY <1>1, <2>1, <3>1 DEF IInv, ChainNeverWidens
    <3> QED BY <2>1, <3>2, SubsetTransitive
  <2> QED BY <2>2, <2>3
<1> HIDE DEF new, q
<1>7. /\ tokens' = Append(tokens, new) /\ tokens' \in Seq(Token) /\ Len(tokens') = n + 1
      /\ \A t \in 1..n : tokens'[t] = tokens[t]
      /\ tokens'[n + 1] = new
      /\ 1..(n + 1) = 1..n \cup {n + 1}
      /\ DOMAIN tokens' = 1..(n + 1) /\ DOMAIN tokens = 1..n
  BY <1>1, <1>5 DEF Signed, new, q
<1>8. Idle \in Request
  BY TokenAssumption DEF Idle, Request, Shown
<1>9. TypeOK'
  <2>1. \A t \in 1..(n + 1) :
           /\ tokens'[t].exp - tokens'[t].iat \in 1..MaxTtl
           /\ \A s \in tokens'[t].scopes : IsValidScope(s)
           /\ tokens'[t].line \subseteq 1..(t - 1)
    <3> SUFFICES ASSUME NEW t \in 1..(n + 1)
                 PROVE  /\ tokens'[t].exp - tokens'[t].iat \in 1..MaxTtl
                        /\ \A s \in tokens'[t].scopes : IsValidScope(s)
                        /\ tokens'[t].line \subseteq 1..(t - 1)
      OBVIOUS
    <3>1. CASE t \in 1..n
      BY <1>7, <3>1 DEF IInv, TypeOK
    <3>2. CASE t = n + 1
      <4>1. t - 1 = n
        BY <1>1, <3>2
      <4> QED BY <1>2, <1>4, <1>5, <1>7, <3>2, <4>1
    <3> QED BY <1>7, <3>1, <3>2
  <2>2. req' \in [Requests -> Request]
    BY <1>8 DEF Signed, Respond, IInv, TypeOK
  <2> QED BY <1>7, <2>1, <2>2 DEF Signed, IInv, TypeOK
<1>10. ASSUME NEW o \in Requests PROVE RequestOK(o)'
  <2>1. CASE o = r
    BY <2>1 DEF Signed, Respond, RequestOK, Idle, IInv, TypeOK
  <2>2. CASE o # r
    <3>1. req'[o] = req[o] /\ RequestOK(o)
      BY <2>2 DEF Signed, Respond, IInv, TypeOK
    <3> QED BY <1>7, <3>1 DEF RequestOK, Presented
  <2> QED BY <2>1, <2>2
<1>11. WithinPolicy'
  BY <1>2, <1>5, <1>7 DEF IInv, WithinPolicy, q
<1>12. ChainNeverWidens'
  <2> SUFFICES ASSUME NEW t \in 1..(n + 1), NEW a \in tokens'[t].line
               PROVE  IsScopeSubset(tokens'[t].scopes, tokens'[a].scopes)
    BY <1>7 DEF ChainNeverWidens
  <2>1. CASE t \in 1..n
    <3>1. a \in 1..(t - 1) /\ a \in 1..n
      BY <1>1, <1>7, <2>1 DEF IInv, TypeOK
    <3> QED BY <1>7, <2>1, <3>1 DEF IInv, ChainNeverWidens
  <2>2. CASE t = n + 1
    BY <1>4, <1>6, <1>7, <2>2
  <2> QED BY <1>7, <2>1, <2>2
<1>13. AdmittedIsEntitled'
  <2> SUFFICES ASSUME NEW c \in Calls, call[c].answer = "admitted"
               PROVE  LET t == call[c].token IN
                      /\ t \in 1..(n + 1)
                      /\ call[c].at < tokens'[t].exp + Tolerance
                      /\ tokens'[t].exp <= tokens'[t].iat + MaxTtl
                      /\ \A a \in {t} \cup tokens'[t].line :
                            /\ CoveredBy(call[c].need, tokens'[a].scopes)
                            /\ CoveredBy(call[c].need, tokens'[a].allowed)
    BY <1>7 DEF AdmittedIsEntitled, Signed, Entitles
  <2> DEFINE t == call[c].token
  <2>1. /\ t \in 1..n
        /\ call[c].at < tokens[t].exp + Tolerance
        /\ tokens[t].exp <= tokens[t].iat + MaxTtl
        /\ \A a \in {t} \cup tokens[t].line : Entitles(call[c].need, a)
    BY <1>7 DEF IInv, AdmittedIsEntitled
  <2>2. tokens[t].line \subseteq 1..n
    BY <1>1, <2>1 DEF IInv, TypeOK
  <2>3. t \in 1..(n + 1) /\ tokens'[t] = tokens[t]
    BY <1>7, <2>1
  <2>4. ASSUME NEW a \in {t} \cup tokens'[t].line
        PROVE  CoveredBy(call[c].need, tokens'[a].scopes) /\ CoveredBy(call[c].need, tokens'[a].allowed)
    <3>1. a \in 1..n /\ Entitles(call[c].need, a)
      BY <2>1, <2>2, <2>3, <2>4
    <3> QED BY <1>7, <3>1 DEF Entitles
  <2> QED BY <2>1, <2>3, <2>4
<1> QED BY <1>9, <1>10, <1>11, <1>12, <1>13 DEF IInv

-----------------------------------------------------------------------------
(* The registry's steps and the environment's leave the tokens alone. *)

\* No signed token outlives its stamp by more than the ceiling.
LEMMA LifetimeIsBounded ==
  ASSUME IInv, NEW t \in DOMAIN tokens
  PROVE  /\ tokens[t].exp \in Nat /\ tokens[t].iat \in Nat
         /\ tokens[t].exp <= tokens[t].iat + MaxTtl
<1>1. tokens \in Seq(Token) /\ t \in 1..Len(tokens) /\ MaxTtl \in Nat
  BY TokenAssumption DEF IInv, TypeOK
<1>2. tokens[t] \in Token
  BY <1>1
<1>3. tokens[t].exp \in Nat /\ tokens[t].iat \in Nat
  BY <1>2 DEF Token
<1>4. tokens[t].exp - tokens[t].iat \in 1..MaxTtl
  BY <1>1 DEF IInv, TypeOK
<1> QED BY <1>1, <1>3, <1>4

\* A step of calls, the clock and the table keeps the invariant if what it
\* admits is entitled.
LEMMA CallStep ==
  ASSUME IInv, call' \in [Calls -> RegistryCall], UNCHANGED <<now, policies, edits, tokens, req, signerKey>>,
         key' \in BOOLEAN, fetch' \in BOOLEAN,
         \A c \in Calls : call'[c].answer = "admitted" =>
            \/ /\ call[c].answer = "admitted" /\ call'[c].token = call[c].token
               /\ call'[c].need = call[c].need /\ call'[c].at = call[c].at
            \/ LET t == call'[c].token IN
               /\ t \in DOMAIN tokens
               /\ call'[c].at < tokens[t].exp + Tolerance
               /\ CoveredBy(call'[c].need, tokens[t].scopes)
  PROVE  IInv'
<1>1. TypeOK'
  BY DEF IInv, TypeOK
<1>2. \A r \in Requests : RequestOK(r)'
  BY DEF IInv, RequestOK, Presented
<1>3. (WithinPolicy /\ ChainNeverWidens)'
  BY DEF IInv, WithinPolicy, ChainNeverWidens
<1>4. AdmittedIsEntitled'
  <2> SUFFICES ASSUME NEW c \in Calls, call'[c].answer = "admitted"
               PROVE  LET t == call'[c].token IN
                      /\ t \in DOMAIN tokens
                      /\ call'[c].at < tokens[t].exp + Tolerance
                      /\ tokens[t].exp <= tokens[t].iat + MaxTtl
                      /\ \A a \in {t} \cup tokens[t].line : Entitles(call'[c].need, a)
    BY DEF AdmittedIsEntitled, Entitles
  <2> DEFINE t == call'[c].token
  <2>1. CASE /\ call[c].answer = "admitted" /\ call'[c].token = call[c].token
             /\ call'[c].need = call[c].need /\ call'[c].at = call[c].at
    BY <2>1 DEF IInv, AdmittedIsEntitled
  <2>2. CASE /\ t \in DOMAIN tokens
             /\ call'[c].at < tokens[t].exp + Tolerance
             /\ CoveredBy(call'[c].need, tokens[t].scopes)
    <3>0. tokens[t].exp <= tokens[t].iat + MaxTtl
      BY <2>2, LifetimeIsBounded
    <3> SUFFICES ASSUME NEW a \in {t} \cup tokens[t].line
                 PROVE  Entitles(call'[c].need, a)
      BY <2>2, <3>0
    <3>1. CoveredBy(call'[c].need, tokens[a].scopes)
      <4>1. CASE a = t
        BY <2>2, <4>1
      <4>2. CASE a \in tokens[t].line
        BY <2>2, <4>2, SubsetCarriesCover DEF IInv, ChainNeverWidens
      <4> QED BY <4>1, <4>2
    <3>2. a \in DOMAIN tokens
      BY <2>2 DEF IInv, TypeOK
    <3>3. CoveredBy(call'[c].need, tokens[a].allowed)
      BY <3>1, <3>2, SubsetCarriesCover DEF IInv, WithinPolicy
    <3> QED BY <3>1, <3>3 DEF Entitles
  <2> QED BY <2>1, <2>2
<1> QED BY <1>1, <1>2, <1>3, <1>4 DEF IInv

LEMMA RegistryStep ==
  ASSUME IInv,
         \/ \E c \in Calls : CallNext(c)
         \/ FetchSucceeds \/ FetchFails
  PROVE  IInv'
<1>1. ASSUME NEW c \in Calls, NEW token \in Presented, NEW need \in Needs, Authenticate(c, token, need)
      PROVE  IInv'
  <2>0. token \in Shown
    BY DEF Presented, Shown, IInv, TypeOK
  <2>1. call' \in [Calls -> RegistryCall] /\ call'[c].answer # "admitted"
    <3>1. call \in [Calls -> RegistryCall] /\ call[c] \in RegistryCall
      BY DEF IInv, TypeOK
    <3>2. CASE call' = [call EXCEPT ![c] = Answer(c, "401")]
      BY <3>1, <3>2 DEF Answer, RegistryCall
    <3>3. CASE call' = [call EXCEPT ![c] =
                          [pc |-> IF key THEN "verify" ELSE "wait", token |-> token, need |-> need,
                           at |-> 0, answer |-> "none"]]
      BY <2>0, <3>1, <3>3 DEF RegistryCall
    <3> QED BY <1>1, <3>2, <3>3 DEF Authenticate
  <2>2. \A o \in Calls \ {c} : call'[o] = call[o]
    BY <1>1 DEF Authenticate, IInv, TypeOK
  <2> QED BY <1>1, <2>1, <2>2, CallStep DEF Authenticate, IInv, TypeOK
<1>2. ASSUME NEW c \in Calls, VerifyAndRequire(c) PROVE IInv'
  <2> DEFINE t == call[c].token
             answer == IF ~Verifies(t, now) THEN "401"
                       ELSE IF CoveredBy(call[c].need, tokens[t].scopes) THEN "admitted" ELSE "403"
  <2>1. /\ call[c] \in RegistryCall /\ call \in [Calls -> RegistryCall] /\ now \in Nat
        /\ call' = [call EXCEPT ![c] = [Answer(c, answer) EXCEPT !.at = now]]
    BY <1>2 DEF VerifyAndRequire, IInv, TypeOK
  <2>2. /\ call' \in [Calls -> RegistryCall]
        /\ call'[c].answer = answer /\ call'[c].at = now
        /\ call'[c].token = t /\ call'[c].need = call[c].need
    BY <2>1 DEF Answer, RegistryCall
  <2>3. \A o \in Calls \ {c} : call'[o] = call[o]
    BY <2>1
  <2>4. answer = "admitted" => /\ t \in DOMAIN tokens /\ tokens[t].exp > now - Tolerance
                               /\ CoveredBy(call[c].need, tokens[t].scopes)
    BY DEF Verifies
  <2>5. t \in DOMAIN tokens /\ tokens[t].exp > now - Tolerance => now < tokens[t].exp + Tolerance
    <3> SUFFICES ASSUME t \in DOMAIN tokens, tokens[t].exp > now - Tolerance
                 PROVE  now < tokens[t].exp + Tolerance
      OBVIOUS
    <3>1. tokens[t].exp \in Nat /\ Tolerance \in Nat
      BY LifetimeIsBounded, TokenAssumption
    <3> QED BY <2>1, <3>1
  <2> HIDE DEF answer
  <2> QED BY <1>2, <2>2, <2>3, <2>4, <2>5, CallStep DEF VerifyAndRequire, IInv, TypeOK
<1>3. ASSUME FetchSucceeds PROVE IInv'
  <2> DEFINE Kept(c) == /\ call[c].answer = "admitted" /\ call'[c].token = call[c].token
                        /\ call'[c].need = call[c].need /\ call'[c].at = call[c].at
  <2>1. /\ call' \in [Calls -> RegistryCall]
        /\ \A c \in Calls : call'[c].answer = "admitted" => Kept(c)
    <3> DEFINE On(k) == [k EXCEPT !.pc = "verify"]
    <3>1. \A k \in RegistryCall :
             /\ On(k) \in RegistryCall /\ On(k).answer = k.answer /\ On(k).token = k.token
             /\ On(k).need = k.need /\ On(k).at = k.at
      BY DEF RegistryCall
    <3>2. call' = [c \in Calls |-> IF call[c].pc = "wait" THEN On(call[c]) ELSE call[c]]
      BY <1>3 DEF FetchSucceeds
    <3>3. \A c \in Calls : call[c] \in RegistryCall
      BY DEF IInv, TypeOK
    <3> HIDE DEF On
    <3> QED BY <3>1, <3>2, <3>3
  <2>2. UNCHANGED <<now, policies, edits, tokens, req, signerKey>> /\ key' \in BOOLEAN /\ fetch' \in BOOLEAN
    BY <1>3 DEF FetchSucceeds
  <2> QED BY <2>1, <2>2, CallStep
<1>4. ASSUME FetchFails PROVE IInv'
  <2> DEFINE Kept(c) == /\ call[c].answer = "admitted" /\ call'[c].token = call[c].token
                        /\ call'[c].need = call[c].need /\ call'[c].at = call[c].at
  <2>1. /\ call' \in [Calls -> RegistryCall]
        /\ \A c \in Calls : call'[c].answer = "admitted" => Kept(c)
    <3>1. \A c \in Calls : call[c] \in RegistryCall
      BY DEF IInv, TypeOK
    <3>2. \A c \in Calls : Answer(c, "500") \in RegistryCall /\ Answer(c, "500").answer = "500"
      BY <3>1 DEF Answer, RegistryCall
    <3>3. call' = [c \in Calls |-> IF call[c].pc = "wait" THEN Answer(c, "500") ELSE call[c]]
      BY <1>4 DEF FetchFails
    <3> QED BY <3>1, <3>2, <3>3
  <2>2. UNCHANGED <<now, policies, edits, tokens, req, signerKey>> /\ key' \in BOOLEAN /\ fetch' \in BOOLEAN
    BY <1>4 DEF FetchFails, IInv, TypeOK
  <2> QED BY <2>1, <2>2, CallStep
<1> QED BY <1>1, <1>2, <1>3, <1>4 DEF CallNext

LEMMA NextIInv == IInv /\ [Next]_vars => IInv'
<1> SUFFICES ASSUME IInv, [Next]_vars PROVE IInv'
  OBVIOUS
<1>1. CASE Tick
  <2>1. TypeOK' /\ (\A r \in Requests : RequestOK(r))'
    BY <1>1 DEF Tick, IInv, TypeOK, RequestOK, Presented
  <2> QED BY <1>1, <2>1 DEF Tick, IInv, WithinPolicy, ChainNeverWidens, AdmittedIsEntitled, Entitles
<1>2. ASSUME NEW p \in Principals, NEW doc \in Policies \cup {NoPolicy, Corrupt}, EditPolicy(p, doc)
      PROVE  IInv'
  <2>1. TypeOK' /\ (\A r \in Requests : RequestOK(r))'
    BY <1>2 DEF EditPolicy, IInv, TypeOK, RequestOK, Presented
  <2> QED BY <1>2, <2>1 DEF EditPolicy, IInv, WithinPolicy, ChainNeverWidens, AdmittedIsEntitled, Entitles
<1>3. ASSUME NEW r \in Requests, RequestNext(r) PROVE IInv'
  <2>1. ASSUME IssueFails(r) \/ ParentKeyFails(r) PROVE IInv'
    BY <2>1, RespondStep DEF IssueFails, ParentKeyFails, Refuse, IInv, TypeOK
  <2> QED BY <1>3, <2>1, ParseStep, PolicyStep, AttenuateStep, StampStep, SignStep DEF RequestNext
<1>4. CASE UNCHANGED vars
  <2>1. TypeOK' /\ (\A r \in Requests : RequestOK(r))'
    BY <1>4 DEF vars, IInv, TypeOK, RequestOK, Presented
  <2> QED BY <1>4, <2>1 DEF vars, IInv, WithinPolicy, ChainNeverWidens, AdmittedIsEntitled, Entitles
<1> QED BY <1>1, <1>2, <1>3, <1>4, RegistryStep DEF Next

\* The inductive invariant holds in every reachable state.
THEOREM Invariance == Spec => []IInv
BY InitIInv, NextIInv, PTL DEF Spec

\* Along a chain of any length, through any interleaving of requests and of
\* edits of the policies, no token grants what an ancestor did not.
THEOREM ChainsNeverWiden == Spec => []ChainNeverWidens
<1>1. IInv => ChainNeverWidens
  BY DEF IInv
<1> QED BY <1>1, Invariance, PTL

\* An admitted call presented a signed token that had not expired beyond the
\* tolerance, and every link of its chain, by its scopes and by the policy of
\* its principal, entitles to what the route requires.
THEOREM AdmissionsAreEntitled == Spec => []AdmittedIsEntitled
<1>1. IInv => AdmittedIsEntitled
  BY DEF IInv
<1> QED BY <1>1, Invariance, PTL

\* What the service signs lives at most the built-in ceiling, carries
\* well-formed scopes and descends from earlier tokens only.
THEOREM TypeCorrect == Spec => []TypeOK
<1>1. IInv => TypeOK
  BY DEF IInv
<1> QED BY <1>1, Invariance, PTL

-----------------------------------------------------------------------------
(* The shared fetch of the key.  That a token refused with 401 verifies at *)
(* no later time needs that calls present only what exists: an index that  *)
(* is no token yet would become one.                                       *)

ShownExists ==
  \A c \in Calls :
    /\ call[c].token \in Presented
    /\ call[c].pc = "idle" => call[c].token = NoToken

ColdInv == ColdStartIsFair /\ ShownExists

LEMMA InitColdInv == Init => ColdInv
BY TokenAssumption DEF Init, ColdInv, ColdStartIsFair, ShownExists, IdleCall, Presented

\* Tokens are never taken back or changed.
TokensGrow ==
  \/ tokens' = tokens
  \/ \E new \in Token : tokens' = Append(tokens, new)

\* A refusal stays deserved: time runs forward, and what is signed later is
\* none of the tokens presented.
LEMMA RefusalsStand ==
  ASSUME IInv, NEW t \in Presented, ~Verifies(t, now), now' \in {now, now + 1}, TokensGrow
  PROVE  ~Verifies(t, now)'
<1>1. tokens \in Seq(Token) /\ now \in Nat /\ Tolerance \in Nat
  BY TokenAssumption DEF IInv, TypeOK
<1>2. CASE t \in DOMAIN tokens
  <2>1. t \in DOMAIN tokens' /\ tokens'[t] = tokens[t]
    BY <1>1, <1>2 DEF TokensGrow
  <2>2. tokens[t].exp \in Nat
    <3>1. tokens[t] \in Token
      BY <1>1, <1>2
    <3> QED BY <3>1 DEF Token
  <2>3. tokens[t].exp <= now - Tolerance
    BY <1>1, <1>2, <2>2 DEF Verifies
  <2>4. ~(tokens[t].exp > now' - Tolerance)
    BY <1>1, <2>2, <2>3
  <2> QED BY <2>1, <2>4 DEF Verifies
<1>3. CASE t \notin DOMAIN tokens
  <2>1. t \notin Nat
    BY <1>3, TokenAssumption DEF Presented
  <2>2. DOMAIN tokens' \subseteq Nat
    BY <1>1 DEF TokensGrow
  <2> QED BY <2>1, <2>2 DEF Verifies
<1> QED BY <1>2, <1>3

\* Whatever leaves the registry alone.
LEMMA ElsewhereStep ==
  ASSUME IInv, ColdInv, UNCHANGED <<call, key, fetch>>, now' \in {now, now + 1}, TokensGrow
  PROVE  ColdInv'
<1>1. ASSUME NEW c \in Calls, call[c].answer = "401" PROVE ~Verifies(call[c].token, now)'
  BY <1>1, RefusalsStand DEF ColdInv, ColdStartIsFair, ShownExists
<1>2. Presented \subseteq Presented'
  <2>1. tokens \in Seq(Token)
    BY DEF IInv, TypeOK
  <2> QED BY <2>1 DEF TokensGrow, Presented
<1> QED BY <1>1, <1>2 DEF ColdInv, ColdStartIsFair, ShownExists

LEMMA AuthenticateCold ==
  ASSUME IInv, ColdInv, NEW c \in Calls, NEW token \in Presented, NEW need \in Needs,
         Authenticate(c, token, need)
  PROVE  ColdInv'
<1> USE DEF Authenticate
<1>1. call \in [Calls -> RegistryCall] /\ call[c] \in RegistryCall /\ key \in BOOLEAN /\ fetch \in BOOLEAN
  BY DEF IInv, TypeOK
<1>2. /\ \A o \in Calls \ {c} : call'[o] = call[o]
      /\ Presented' = Presented /\ key' = key /\ now' = now /\ tokens' = tokens
      /\ call[c].pc = "idle" /\ call[c].token = NoToken
  BY <1>1 DEF Presented, ColdInv, ShownExists
<1>3. CASE token \in {NoToken, Unreadable}
  <2>1. call'[c].pc = "done" /\ call'[c].token = NoToken /\ fetch' = fetch
    <3> DEFINE k == Answer(c, "401")
    <3>1. k.pc = "done" /\ k.token = call[c].token
      BY <1>1 DEF Answer, RegistryCall
    <3> HIDE DEF k
    <3>2. call' = [call EXCEPT ![c] = k] /\ fetch' = fetch
      BY <1>3 DEF k
    <3> QED BY <1>1, <1>2, <3>1, <3>2
  <2>2. ~Verifies(NoToken, now)
    <3>1. tokens \in Seq(Token)
      BY DEF IInv, TypeOK
    <3>2. NoToken \notin Nat
      BY TokenAssumption
    <3>3. NoToken \notin DOMAIN tokens
      BY <3>1, <3>2
    <3> QED BY <3>3 DEF Verifies
  <2> QED BY <1>2, <2>1, <2>2 DEF ColdInv, ColdStartIsFair, ShownExists, Presented, Verifies
<1>4. CASE token \notin {NoToken, Unreadable}
  <2>1. /\ call'[c].pc = IF key THEN "verify" ELSE "wait"
        /\ call'[c].token = token /\ call'[c].answer = "none"
        /\ fetch' = (fetch \/ ~key)
    <3> DEFINE k == [pc |-> IF key THEN "verify" ELSE "wait", token |-> token, need |-> need,
                     at |-> 0, answer |-> "none"]
    <3>1. call' = [call EXCEPT ![c] = k] /\ fetch' = (fetch \/ ~key)
      BY <1>4
    <3>2. k.pc = (IF key THEN "verify" ELSE "wait") /\ k.token = token /\ k.answer = "none"
      OBVIOUS
    <3> HIDE DEF k
    <3> QED BY <1>1, <3>1, <3>2
  <2>2. fetch' <=> \E o \in Calls : call'[o].pc = "wait"
    BY <1>2, <2>1 DEF ColdInv, ColdStartIsFair
  <2> QED BY <1>2, <2>1, <2>2 DEF ColdInv, ColdStartIsFair, ShownExists, Verifies
<1> QED BY <1>3, <1>4

LEMMA VerifyCold ==
  ASSUME IInv, ColdInv, NEW c \in Calls, VerifyAndRequire(c)
  PROVE  ColdInv'
<1> DEFINE t == call[c].token
           answer == IF ~Verifies(t, now) THEN "401"
                     ELSE IF CoveredBy(call[c].need, tokens[t].scopes) THEN "admitted" ELSE "403"
<1>1. /\ call \in [Calls -> RegistryCall] /\ call[c] \in RegistryCall /\ call[c].pc = "verify"
      /\ call' = [call EXCEPT ![c] = [Answer(c, answer) EXCEPT !.at = now]]
  BY DEF VerifyAndRequire, IInv, TypeOK
<1>2. /\ call'[c].pc = "done" /\ call'[c].token = t /\ call'[c].answer = answer
      /\ \A o \in Calls \ {c} : call'[o] = call[o]
  BY <1>1 DEF Answer, RegistryCall
<1>3. UNCHANGED <<now, tokens, key, fetch>> /\ Presented' = Presented
  BY DEF VerifyAndRequire, Presented
<1>4. answer = "401" => ~Verifies(t, now)
  OBVIOUS
<1> HIDE DEF answer
<1> QED BY <1>1, <1>2, <1>3, <1>4 DEF ColdInv, ColdStartIsFair, ShownExists, Verifies

\* The fetch settles: all that waited go on or are answered 500.
LEMMA FetchCold ==
  ASSUME IInv, ColdInv, FetchSucceeds \/ FetchFails
  PROVE  ColdInv'
<1>1. call \in [Calls -> RegistryCall] /\ (\A c \in Calls : call[c] \in RegistryCall)
  BY DEF IInv, TypeOK
<1>2. UNCHANGED <<now, tokens>> /\ Presented' = Presented /\ ~fetch'
  BY DEF FetchSucceeds, FetchFails, Presented
<1>3. ASSUME NEW c \in Calls
      PROVE  /\ call'[c].pc # "wait" /\ call'[c].token = call[c].token
             /\ call'[c].answer \in {call[c].answer, "500"}
             /\ call'[c].pc = "idle" => call[c].pc = "idle"
  <2>0. call[c] \in RegistryCall
    BY <1>1, <1>3
  <2>1. CASE call[c].pc = "wait"
    <3>1. \/ call'[c] = [call[c] EXCEPT !.pc = "verify"]
          \/ call'[c] = [call[c] EXCEPT !.pc = "done", !.answer = "500"]
      BY <1>3, <2>1 DEF FetchSucceeds, FetchFails, Answer
    <3> QED BY <2>0, <2>1, <3>1 DEF RegistryCall
  <2>2. CASE call[c].pc # "wait"
    <3>1. call'[c] = call[c]
      BY <1>3, <2>2 DEF FetchSucceeds, FetchFails
    <3> QED BY <2>2, <3>1
  <2> QED BY <2>1, <2>2
<1> QED BY <1>2, <1>3 DEF ColdInv, ColdStartIsFair, ShownExists, Verifies

LEMMA NextColdInv == IInv /\ ColdInv /\ [Next]_vars => ColdInv'
<1> SUFFICES ASSUME IInv, ColdInv, [Next]_vars PROVE ColdInv'
  OBVIOUS
<1>0. now \in Nat
  BY DEF IInv, TypeOK
<1>1. CASE \/ Tick \/ UNCHANGED vars
           \/ \E p \in Principals, doc \in Policies \cup {NoPolicy, Corrupt} : EditPolicy(p, doc)
  BY <1>0, <1>1, ElsewhereStep DEF Tick, EditPolicy, vars, TokensGrow
<1>2. ASSUME NEW r \in Requests, RequestNext(r) PROVE ColdInv'
  <2>1. CASE Signed(r)
    <3>1. Claims(req[r]) \in Token
      <4>1. tokens \in Seq(Token) /\ tokens' \in Seq(Token)
        BY <2>1, SignStep DEF IInv, TypeOK
      <4>2. tokens' = Append(tokens, Claims(req[r]))
        BY <2>1 DEF Signed
      <4>3. Len(tokens) + 1 \in DOMAIN tokens' /\ tokens'[Len(tokens) + 1] = Claims(req[r])
        BY <4>1, <4>2
      <4> QED BY <4>1, <4>3
    <3> QED BY <2>1, <3>1, ElsewhereStep DEF Signed, TokensGrow
  <2>2. CASE ~Signed(r)
    <3>1. UNCHANGED <<now, tokens, call, key, fetch>>
      BY <1>2, <2>2 DEF RequestNext, ParseIssueTokenRequest, EnforcePolicy, IssueFails,
           EnforceAttenuation, ParentKeyFails, Stamp
    <3> QED BY <3>1, ElsewhereStep DEF TokensGrow
  <2> QED BY <2>1, <2>2
<1>3. ASSUME NEW c \in Calls, CallNext(c) PROVE ColdInv'
  BY <1>3, AuthenticateCold, VerifyCold DEF CallNext
<1>4. CASE FetchSucceeds \/ FetchFails
  BY <1>4, FetchCold
<1> QED BY <1>1, <1>2, <1>3, <1>4 DEF Next

\* A cold container fetches the key once at a time, leaves nobody waiting for
\* a fetch that is over, and blames only tokens that do not verify.
THEOREM ColdStartsAreFair == Spec => []ColdStartIsFair
<1>1. Init => ColdInv
  BY InitColdInv
<1>2. ColdInv => ColdStartIsFair
  BY DEF ColdInv
<1> QED BY <1>1, <1>2, NextColdInv, Invariance, PTL DEF Spec
=============================================================================
