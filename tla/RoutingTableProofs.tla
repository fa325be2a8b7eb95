------------------------- MODULE RoutingTableProofs -------------------------
(***************************************************************************)
(* Proofs about RoutingTable, for any calls, hostnames and targets and any *)
(* number of resends.  The argument is one inductive invariant, IInv.  The *)
(* store accepts a request only on the current ETag, so what matters of a  *)
(* request still on its way is how old the ETag is that it carries: no     *)
(* older than the start of its call, no younger than the start of any call *)
(* begun after its own had ended.                                          *)
(***************************************************************************)
EXTENDS RoutingTable, FiniteSetTheorems, TLAPS

Took == {c \in Calls : call[c].took}

\* A call that has had its effect and can have none any more.
Spent(c) ==
  /\ call[c].took /\ call[c].pc \in {"write", "done"}
  /\ call[c].pc = "write" => call[c].tries = 2 /\ call[c].ifMatch < etag
  /\ \A m \in net : m.call = c => m.ifMatch < etag

SpentCalls == {c \in Calls : Spent(c)}

\* A call makes at most two changes, since it fetches the ETag at most twice.
ChangesAreCounted ==
  IsFiniteSet(Took) /\ etag <= Cardinality(Took) + Cardinality(SpentCalls)

\* An entry is what the put that made it asked for.
EntriesAreOwned ==
  \A k \in Keys : entries[k] = Empty \/
     LET c == entries[k].by IN
     /\ entries[k] = [target |-> call[c].target, by |-> c] /\ c \in Calls
     /\ call[c].op = "put" /\ call[c].key = k /\ IsValidTarget(call[c].target)

\* The write just sent can have no further effect.
NothingToDo(c) ==
  call[c].ifMatch < etag \/ (call[c].op = "delete" /\ entries[call[c].key] = Empty)

CallOK(c) ==
  LET k == call[c] IN
  /\ k.pc = "idle" => k = Idle
  /\ k.op # "none" =>
        k.key \in Keys /\ (k.op = "put" => k.target \in Targets /\ IsValidTarget(k.target))
  /\ k.took => k.op # "none"
  /\ k.pc \in {"describe", "write"} => k.op # "none" /\ k.answer = "none"
  /\ k.start <= etag /\ k.before \subseteq Ended \ {c}
  /\ k.pc = "describe" =>
        /\ k.tries \in 0..1 /\ k.sends <= k.tries + MaxResends
        /\ IF k.tries = 0 THEN ~k.took ELSE k.start < etag
  /\ k.pc = "write" =>
        /\ k.tries \in 1..2 /\ k.sends \in 1..(k.tries + MaxResends)
        /\ k.start <= k.ifMatch /\ k.ifMatch <= etag
        /\ k.tries = 2 => k.start < k.ifMatch
        /\ k.tries = 1 /\ k.took => NothingToDo(c)
  /\ k.op = "put" /\ k.took => k.start < etag /\ entries[k.key].by \notin k.before
  /\ k.answer = "ok" /\ k.op # "none" => k.took
  /\ k.answer = "ROUTE_CONFLICT" => etag >= k.start + 2
  /\ k.answer \in {"INVALID_HOSTNAME", "INVALID_TARGET"} => k.op = "none"

MessageOK(m) ==
  LET k == call[m.call] IN
  /\ k.pc # "idle" /\ k.op # "none"
  /\ k.start <= m.ifMatch /\ m.ifMatch <= etag
  /\ k.pc = "describe" => k.tries = 1 /\ m.ifMatch < etag
  /\ k.pc = "write" /\ k.tries = 1 => m.ifMatch = k.ifMatch
  /\ \A c \in Calls : m.call \in call[c].before => m.ifMatch <= call[c].start

Typed ==
  /\ entries \in [Keys -> Entry] /\ etag \in Nat
  /\ net \subseteq [call : Calls, send : 1..(2 + MaxResends), ifMatch : Nat]
  /\ call \in [Calls -> CallType]

IInv ==
  /\ Typed /\ ChangesAreCounted /\ EntriesAreOwned
  /\ \A c \in Calls : CallOK(c)
  /\ \A m \in net : MessageOK(m)
-----------------------------------------------------------------------------
(* The steps, field by field *)

\* A hostname that passes validation is a key once it is normalized.
LEMMA AcceptedIsKey ==
  ASSUME NEW op, NEW raw \in Hosts, NEW target, Refusal(op, raw, target) = "none"
  PROVE  NormalizeHostname(raw) \in Keys /\ (op = "put" => IsValidTarget(target))
BY DEF Refusal, Keys

Moves(c) ==
  /\ c \in Calls /\ call' \in [Calls -> CallType]
  /\ \A d \in Calls \ {c} : call'[d] = call[d]

\* Nobody but c moves, and what c fixed when it began stays.
Stays(c) ==
  /\ Moves(c)
  /\ call'[c].op = call[c].op /\ call'[c].key = call[c].key
  /\ call'[c].target = call[c].target
  /\ call'[c].start = call[c].start /\ call'[c].before = call[c].before

\* Settling a call touches neither its request nor its history.
LEMMA SettledFields ==
  ASSUME NEW c \in Calls, call[c] \in CallType,
         NEW answer \in {"ok", "ROUTE_CONFLICT", "KVS_ERROR"}
  PROVE  LET s == Settled(c, answer) IN
         /\ s \in CallType
         /\ s.op = call[c].op /\ s.key = call[c].key /\ s.target = call[c].target
         /\ s.start = call[c].start /\ s.before = call[c].before /\ s.took = call[c].took
         /\ s.pc = "done" /\ s.answer = answer
<1> DEFINE s == Settled(c, answer)
<1>1. s = [call[c] EXCEPT !.pc = "done", !.answer = answer, !.tries = 0, !.sends = 0, !.ifMatch = 0]
  BY DEF Settled
<1>2. 0 \in 0..(2 + MaxResends) /\ 0 \in 0..2 /\ 0 \in Nat
  BY RoutingAssumption
<1> HIDE DEF s
<1>3. s \in CallType
  BY <1>1, <1>2 DEF CallType
<1>4. /\ s.op = call[c].op /\ s.key = call[c].key /\ s.target = call[c].target
      /\ s.start = call[c].start /\ s.before = call[c].before /\ s.took = call[c].took
      /\ s.pc = "done" /\ s.answer = answer
  BY <1>1 DEF CallType
<1> QED BY <1>3, <1>4 DEF s

\* What serving a request does to its call: nothing but took when the answer
\* is lost, else the call ends or goes for the ETag once more.
Unheard(c) ==
  /\ call'[c].pc = call[c].pc /\ call'[c].answer = call[c].answer
  /\ call'[c].tries = call[c].tries /\ call'[c].sends = call[c].sends
  /\ call'[c].ifMatch = call[c].ifMatch

Finished(c, outcome) ==
  /\ call[c].pc = "write" /\ call'[c].pc = "done"
  /\ outcome = "conflict" => call[c].tries # 1
  /\ call'[c].answer = IF outcome = "conflict" THEN "ROUTE_CONFLICT" ELSE "ok"

Retrying(c, outcome) ==
  /\ call[c].pc = "write" /\ call[c].tries = 1 /\ outcome = "conflict"
  /\ call'[c].pc = "describe" /\ call'[c].answer = call[c].answer
  /\ call'[c].tries = 1 /\ call'[c].sends = call[c].sends

\* Serving, with the outcome named.
Served(m, outcome) ==
  LET c == m.call IN
  /\ outcome \in Outcomes(m) /\ m \in net /\ net' = net \ {m}
  /\ Stays(c)
  /\ call'[c].took = (call[c].took \/ outcome # "conflict")
  /\ \/ Unheard(c)
     \/ (Finished(c, outcome) \/ Retrying(c, outcome)) /\ m.ifMatch = call[c].ifMatch
  /\ \/ /\ outcome = "applied" /\ etag' = etag + 1
        /\ entries' = [entries EXCEPT ![call[c].key] = Write(c)]
     \/ outcome # "applied" /\ UNCHANGED <<entries, etag>>

LEMMA ServeIsServed ==
  ASSUME Typed, NEW m \in net, Serve(m)
  PROVE  \E outcome \in Outcomes(m) : Served(m, outcome)
<1> DEFINE c == m.call
<1>1. /\ call \in [Calls -> CallType] /\ c \in Calls /\ call[c] \in CallType
  BY DEF Typed
<1>2. PICK outcome \in Outcomes(m), heard \in BOOLEAN :
         /\ heard => Awaits(c, m)
         /\ net' = net \ {m}
         /\ LET after == IF heard THEN AfterOutcome(c, outcome) ELSE call[c]
            IN call' = [call EXCEPT ![c] = [after EXCEPT !.took = @ \/ outcome # "conflict"]]
         /\ IF outcome = "applied"
            THEN /\ entries' = [entries EXCEPT ![call[c].key] = Write(c)]
                 /\ etag' = etag + 1
            ELSE UNCHANGED <<entries, etag>>
  BY DEF Serve
<1> DEFINE after == IF heard THEN AfterOutcome(c, outcome) ELSE call[c]
<1>3. /\ after \in CallType
      /\ after.op = call[c].op /\ after.key = call[c].key /\ after.target = call[c].target
      /\ after.start = call[c].start /\ after.before = call[c].before /\ after.took = call[c].took
      /\ \/ after = call[c]
         \/ /\ call[c].pc = "write" /\ m = Message(c)
            /\ \/ /\ after.pc = "done" /\ (outcome = "conflict" => call[c].tries # 1)
                  /\ after.answer = IF outcome = "conflict" THEN "ROUTE_CONFLICT" ELSE "ok"
               \/ /\ outcome = "conflict" /\ call[c].tries = 1 /\ after.pc = "describe"
                  /\ after.answer = call[c].answer /\ after.tries = 1
                  /\ after.sends = call[c].sends
  <2>1. CASE ~heard
    BY <1>1, <2>1
  <2>2. CASE heard /\ outcome # "conflict"
    <3>1. after = Settled(c, "ok")
      BY <2>2 DEF AfterOutcome
    <3> QED BY <1>1, <1>2, <2>2, <3>1, SettledFields DEF Awaits
  <2>3. CASE heard /\ outcome = "conflict" /\ call[c].tries = 1
    <3>1. after = [call[c] EXCEPT !.pc = "describe"]
      BY <2>3 DEF AfterOutcome
    <3> QED BY <1>1, <1>2, <2>3, <3>1 DEF Awaits, CallType
  <2>4. CASE heard /\ outcome = "conflict" /\ call[c].tries # 1
    <3>1. after = Settled(c, "ROUTE_CONFLICT")
      BY <2>4 DEF AfterOutcome
    <3> QED BY <1>1, <1>2, <2>4, <3>1, SettledFields DEF Awaits
  <2> QED BY <2>1, <2>2, <2>3, <2>4
<1> DEFINE new == [after EXCEPT !.took = @ \/ outcome # "conflict"]
<1>4. /\ new \in CallType
      /\ new.op = after.op /\ new.key = after.key /\ new.target = after.target
      /\ new.start = after.start /\ new.before = after.before
      /\ new.took = (after.took \/ outcome # "conflict")
      /\ new.pc = after.pc /\ new.answer = after.answer /\ new.tries = after.tries
      /\ new.sends = after.sends /\ new.ifMatch = after.ifMatch
  <2> HIDE DEF after
  <2> QED BY <1>3 DEF CallType
<1>5. call' = [call EXCEPT ![c] = new]
  BY <1>2
<1> HIDE DEF new, after
<1>6. Stays(c) /\ call'[c] = new
  BY <1>1, <1>3, <1>4, <1>5 DEF Stays, Moves
<1>7. \/ Unheard(c)
      \/ (Finished(c, outcome) \/ Retrying(c, outcome)) /\ m.ifMatch = call[c].ifMatch
  BY <1>3, <1>4, <1>6 DEF Unheard, Finished, Retrying, Message
<1>8. call'[c].took = (call[c].took \/ outcome # "conflict")
  BY <1>3, <1>4, <1>6
<1>9. \/ /\ outcome = "applied" /\ etag' = etag + 1
         /\ entries' = [entries EXCEPT ![call[c].key] = Write(c)]
      \/ outcome # "applied" /\ UNCHANGED <<entries, etag>>
  BY <1>2
<1>10. outcome \in Outcomes(m) /\ m \in net /\ net' = net \ {m}
  BY <1>2
<1> QED BY <1>6, <1>7, <1>8, <1>9, <1>10 DEF Served
-----------------------------------------------------------------------------
(* Steps that leave the store alone *)

\* The bound on the ETag survives a step that adds at most one change: the
\* first of its call, or the one that spends it.
LEMMA CountStep ==
  ASSUME NEW T, NEW S, NEW T2, NEW S2, NEW n \in Nat, NEW n2 \in Nat,
         IsFiniteSet(T), S \subseteq S2, S \subseteq T, S2 \subseteq T2,
         n <= Cardinality(T) + Cardinality(S),
         \/ T2 = T /\ n2 = n
         \/ \E c : T2 = T \cup {c} /\ n2 <= n + 1 /\ (c \in T => n2 = n \/ c \in S2 \ S)
  PROVE  IsFiniteSet(T2) /\ n2 <= Cardinality(T2) + Cardinality(S2)
<1>1. IsFiniteSet(T2)
  BY FS_AddElement
<1>2. IsFiniteSet(S) /\ IsFiniteSet(S2)
  BY <1>1, FS_Subset
<1>3. /\ Cardinality(T) \in Nat /\ Cardinality(T2) \in Nat
      /\ Cardinality(S) \in Nat /\ Cardinality(S2) \in Nat
  BY <1>1, <1>2, FS_CardinalityType
<1>4. Cardinality(S) <= Cardinality(S2)
  BY <1>2, FS_Subset
<1>5. CASE T2 = T /\ n2 = n
  BY <1>1, <1>3, <1>4, <1>5
<1>6. ASSUME NEW c, T2 = T \cup {c}, n2 <= n + 1, c \in T => n2 = n \/ c \in S2 \ S
      PROVE  n2 <= Cardinality(T2) + Cardinality(S2)
  <2>1. CASE c \notin T
    <3>1. Cardinality(T2) = Cardinality(T) + 1
      BY <1>6, <2>1, FS_AddElement
    <3> QED BY <1>3, <1>4, <1>6, <3>1
  <2>2. CASE c \in T /\ n2 = n
    <3>1. T2 = T
      BY <1>6, <2>2
    <3> QED BY <1>3, <1>4, <2>2, <3>1
  <2>3. CASE c \in T /\ c \in S2 \ S
    <3>1. T2 = T
      BY <1>6, <2>3
    <3>2. Cardinality(S \cup {c}) = Cardinality(S) + 1
      BY <1>2, <2>3, FS_AddElement
    <3>3. Cardinality(S \cup {c}) <= Cardinality(S2)
      <4>1. S \cup {c} \in SUBSET S2
        BY <2>3
      <4> QED BY <1>2, <4>1, FS_Subset
    <3>4. Cardinality(S) + 1 <= Cardinality(S2) /\ n2 <= n + 1 /\ T2 = T
      BY <1>6, <3>1, <3>2, <3>3
    <3> QED BY <1>3, <3>4
  <2> QED BY <1>6, <2>1, <2>2, <2>3
<1> QED BY <1>1, <1>5, <1>6

\* A step of one call that only it and its messages are changed by keeps
\* the invariant if its own part of it holds.
LEMMA QuietStep ==
  ASSUME IInv, NEW c \in Calls, Moves(c), UNCHANGED <<entries, etag>>,
         call[c].pc # "done",
         Stays(c) \/ (call[c].pc = "idle" /\ (call'[c].before = {} \/ call'[c].start = etag)),
         call'[c].took = call[c].took,
         net \subseteq net',
         net' \subseteq [call : Calls, send : 1..(2 + MaxResends), ifMatch : Nat],
         \A m \in net' : m \in net \/ m.call = c,
         \A m \in net' : m.call = c => MessageOK(m)',
         CallOK(c)', Spent(c) => Spent(c)'
  PROVE  IInv'
<1>1. Typed'
  BY DEF IInv, Typed, Moves
<1>2. ASSUME NEW d \in Calls, d # c PROVE CallOK(d)'
  <2>1. CallOK(d) /\ call'[d] = call[d] /\ entries' = entries /\ etag' = etag
    BY <1>2 DEF IInv, Moves
  <2>2. Ended \subseteq Ended'
    BY DEF Ended, Moves
  <2>3. call[d].before \subseteq Ended' \ {d}
    BY <2>1, <2>2 DEF CallOK
  <2> QED BY <2>1, <2>3 DEF CallOK, NothingToDo
<1>3. EntriesAreOwned'
  <2>1. \A k \in Keys : entries[k] = Empty \/
           (LET d == entries[k].by IN
            /\ entries[k] = [target |-> call[d].target, by |-> d] /\ d \in Calls
            /\ call[d].op = "put" /\ call[d].key = k /\ IsValidTarget(call[d].target))
    BY DEF IInv, EntriesAreOwned
  <2>2. call[c].pc = "idle" => call[c].op = "none"
    BY DEF IInv, CallOK, Idle
  <2>3. \A d \in Calls : call[d].op = "put" =>
           /\ call'[d].op = call[d].op /\ call'[d].key = call[d].key
           /\ call'[d].target = call[d].target
    BY <2>2 DEF Moves, Stays
  <2>4. ASSUME NEW k \in Keys, entries[k] # Empty
        PROVE  LET d == entries[k].by IN
               /\ entries[k] = [target |-> call'[d].target, by |-> d] /\ d \in Calls
               /\ call'[d].op = "put" /\ call'[d].key = k /\ IsValidTarget(call'[d].target)
    BY <2>1, <2>3, <2>4
  <2> QED BY <2>4 DEF EntriesAreOwned
<1>4. ASSUME NEW m \in net' PROVE MessageOK(m)'
  <2>1. CASE m.call = c
    BY <2>1
  <2>2. CASE m.call # c
    <3>1. m \in net /\ MessageOK(m)
      BY <2>2 DEF IInv
    <3>2. call'[m.call] = call[m.call]
      BY <2>2, <3>1 DEF IInv, Typed, Moves
    <3>3. ASSUME NEW d \in Calls, m.call \in call'[d].before PROVE m.ifMatch <= call'[d].start
      <4>1. CASE d # c \/ Stays(c)
        BY <3>1, <3>3, <4>1 DEF MessageOK, Moves, Stays
      <4>2. CASE d = c /\ call'[c].start = etag
        BY <3>1, <4>2 DEF MessageOK
      <4> QED BY <3>3, <4>1, <4>2
    <3> QED BY <3>1, <3>2, <3>3 DEF MessageOK
  <2> QED BY <2>1, <2>2
<1>5. ChangesAreCounted'
  <2>1. Took' = Took
    BY DEF Took, Moves
  <2>2. ASSUME NEW d \in Calls, Spent(d) PROVE Spent(d)'
    <3>1. CASE d # c
      BY <2>2, <3>1 DEF Spent, Moves
    <3> QED BY <2>2, <3>1
  <2>3. SpentCalls \subseteq SpentCalls'
    BY <2>2 DEF SpentCalls
  <2>4. SpentCalls \subseteq Took /\ SpentCalls' \subseteq Took'
    BY DEF SpentCalls, Took, Spent
  <2>5. etag \in Nat /\ etag' = etag
    BY DEF IInv, Typed
  <2> HIDE DEF Took, SpentCalls
  <2> QED BY <2>1, <2>3, <2>4, <2>5, CountStep DEF IInv, ChangesAreCounted
<1> QED BY <1>1, <1>2, <1>3, <1>4, <1>5 DEF IInv
-----------------------------------------------------------------------------
(* The actions *)

LEMMA IdleFields ==
  /\ Idle \in CallType
  /\ Idle.pc = "idle" /\ Idle.op = "none" /\ Idle.key = NoRoute /\ Idle.target = NoRoute
  /\ Idle.tries = 0 /\ Idle.sends = 0 /\ Idle.ifMatch = 0 /\ Idle.start = 0
  /\ Idle.before = {} /\ Idle.took = FALSE /\ Idle.answer = "none"
<1>1. 0 \in 0..(2 + MaxResends)
  BY RoutingAssumption
<1> QED BY <1>1 DEF Idle, CallType

LEMMA InitIInv == Init => IInv
<1> SUFFICES ASSUME Init PROVE IInv
  OBVIOUS
<1>1. Idle \in CallType
  BY IdleFields
<1>2. \A c \in Calls : call[c] = Idle
  BY DEF Init
<1>3. Typed
  BY <1>1 DEF Init, Typed, Entry
<1>4. Took = {} /\ SpentCalls = {} /\ etag = 0
  BY <1>2, IdleFields DEF Took, SpentCalls, Spent, Init
<1>5. ChangesAreCounted
  BY <1>4, FS_EmptySet DEF ChangesAreCounted
<1>6. EntriesAreOwned
  BY DEF EntriesAreOwned, Init
<1>7. ASSUME NEW c \in Calls PROVE CallOK(c)
  BY <1>2, <1>4, IdleFields DEF CallOK
<1> QED BY <1>3, <1>5, <1>6, <1>7 DEF IInv, Init

\* A call that ends where it begins: a refusal, or a get.
LEMMA AtOnce ==
  ASSUME IInv, NEW c \in Calls, call[c].pc = "idle", UNCHANGED <<entries, etag, net>>,
         NEW k \in CallType, k.pc = "done", k.op = "none", k.start = 0, k.before = {}, k.took = FALSE,
         k.answer \in {"ok", "KVS_ERROR", "INVALID_HOSTNAME", "INVALID_TARGET"},
         call' = [call EXCEPT ![c] = k]
  PROVE  IInv'
<1>1. Moves(c) /\ call'[c] = k
  BY DEF Moves, IInv, Typed
<1>2. call[c].took = FALSE /\ etag \in Nat
  BY IdleFields DEF IInv, Typed, CallOK
<1>3. \A m \in net : m.call # c
  BY DEF IInv, MessageOK
<1>4. CallOK(c)'
  <2>1. etag' \in Nat
    BY <1>2
  <2> QED BY <1>1, <2>1 DEF CallOK
<1>5. ~Spent(c)
  BY <1>2 DEF Spent
<1>6. net' \subseteq [call : Calls, send : 1..(2 + MaxResends), ifMatch : Nat]
  BY DEF IInv, Typed
<1> QED BY <1>1, <1>2, <1>3, <1>4, <1>5, <1>6, QuietStep

LEMMA BeginIInv ==
  ASSUME IInv, NEW c \in Calls, NEW op \in {"put", "delete"}, NEW raw \in Hosts,
         NEW target \in Targets \cup {NoRoute}, op = "put" => target \in Targets,
         Begin(c, op, raw, target)
  PROVE  IInv'
<1> DEFINE refusal == Refusal(op, raw, target)
<1>1. CASE refusal # "none"
  <2>1. /\ call[c].pc = "idle" /\ UNCHANGED <<entries, etag, net>>
        /\ call' = [call EXCEPT ![c] = [Idle EXCEPT !.pc = "done", !.answer = refusal]]
    BY <1>1 DEF Begin
  <2>2. refusal \in {"INVALID_HOSTNAME", "INVALID_TARGET"}
    BY <1>1 DEF Refusal
  <2> HIDE DEF refusal
  <2> DEFINE k == [Idle EXCEPT !.pc = "done", !.answer = refusal]
  <2>3. /\ k \in CallType /\ k.pc = "done" /\ k.answer = refusal /\ k.op = "none"
        /\ k.start = 0 /\ k.before = {} /\ k.took = FALSE
    BY <2>2, IdleFields DEF CallType
  <2> HIDE DEF k
  <2>4. call' = [call EXCEPT ![c] = k]
    BY <2>1 DEF k
  <2> QED BY <2>1, <2>2, <2>3, <2>4, AtOnce
<1>2. CASE refusal = "none"
  <2> DEFINE k == [Idle EXCEPT !.pc = "describe", !.op = op, !.target = target,
                     !.key = NormalizeHostname(raw), !.start = etag, !.before = Ended]
  <2>1. call[c].pc = "idle" /\ UNCHANGED <<entries, etag, net>> /\ call' = [call EXCEPT ![c] = k]
    BY <1>2 DEF Begin
  <2>2. NormalizeHostname(raw) \in Keys /\ (op = "put" => IsValidTarget(target))
    BY <1>2, AcceptedIsKey
  <2>3. etag \in Nat /\ Ended \subseteq Calls /\ call \in [Calls -> CallType]
    BY DEF IInv, Typed, Ended
  <2>4. /\ k \in CallType /\ k.pc = "describe" /\ k.answer = "none" /\ k.op = op
        /\ k.key = NormalizeHostname(raw) /\ k.target = target /\ k.tries = 0 /\ k.sends = 0
        /\ k.start = etag /\ k.before = Ended /\ k.took = FALSE
    <3> HIDE DEF Ended, NormalizeHostname
    <3>1. NormalizeHostname(raw) \in {NormalizeHostname(r) : r \in Hosts} \cup {NoRoute}
      OBVIOUS
    <3> QED BY <2>3, <3>1, IdleFields DEF CallType
  <2> HIDE DEF k
  <2>5. Moves(c) /\ call'[c] = k
    BY <2>1, <2>3, <2>4 DEF Moves
  <2>6. call[c] = Idle /\ call[c].took = FALSE
    BY <2>1, IdleFields DEF IInv, CallOK
  <2>7. \A m \in net : m.call # c
    BY <2>1 DEF IInv, MessageOK
  <2>8. Ended \subseteq Ended' \ {c}
    BY <2>1, <2>5 DEF Ended, Moves
  <2>9. CallOK(c)'
    BY <2>1, <2>2, <2>3, <2>4, <2>5, <2>8, RoutingAssumption DEF CallOK
  <2>10. ~Spent(c)
    BY <2>6 DEF Spent
  <2>11. net' \subseteq [call : Calls, send : 1..(2 + MaxResends), ifMatch : Nat]
    BY <2>1 DEF IInv, Typed
  <2> QED BY <2>1, <2>4, <2>5, <2>6, <2>7, <2>9, <2>10, <2>11, QuietStep
<1> QED BY <1>1, <1>2

LEMMA GetRouteIInv ==
  ASSUME IInv, NEW c \in Calls, NEW raw \in Hosts, GetRoute(c, raw)
  PROVE  IInv'
<1> DEFINE key == NormalizeHostname(raw)
           refusal == Refusal("get", raw, NoRoute)
<1>1. PICK answer \in IF refusal = "none" THEN {"ok", "KVS_ERROR"} ELSE {refusal} :
         call' = [call EXCEPT ![c] =
           [Idle EXCEPT !.pc = "done", !.answer = answer,
                        !.target = IF answer = "ok" THEN entries[key].target ELSE NoRoute]]
  BY DEF GetRoute
<1>2. refusal \in {"none", "INVALID_HOSTNAME"}
  BY DEF Refusal
<1>3. answer \in {"ok", "KVS_ERROR", "INVALID_HOSTNAME", "INVALID_TARGET"}
  BY <1>1, <1>2
<1>4. answer = "ok" => key \in Keys
  BY <1>1, <1>2, AcceptedIsKey
<1>5. answer = "ok" => entries[key].target \in Targets \cup {NoRoute}
  BY <1>4 DEF IInv, Typed, Entry, Empty
<1> DEFINE target == IF answer = "ok" THEN entries[key].target ELSE NoRoute
<1>6. target \in Targets \cup {NoRoute}
  BY <1>5
<1>7. call[c].pc = "idle" /\ UNCHANGED <<entries, etag, net>>
  BY DEF GetRoute
<1> DEFINE k == [Idle EXCEPT !.pc = "done", !.answer = answer, !.target = target]
<1>8. call' = [call EXCEPT ![c] = k]
  BY <1>1
<1> HIDE DEF target, key, refusal
<1>9. /\ k \in CallType /\ k.pc = "done" /\ k.answer = answer /\ k.op = "none"
      /\ k.start = 0 /\ k.before = {} /\ k.took = FALSE
  BY <1>3, <1>6, IdleFields DEF CallType
<1> HIDE DEF k
<1> QED BY <1>3, <1>7, <1>8, <1>9, AtOnce
\* A call under way is in nobody's past.
LEMMA NotInBefore ==
  ASSUME IInv, NEW c \in Calls, call[c].pc # "done", NEW d \in Calls
  PROVE  c \notin call[d].before
BY DEF IInv, CallOK, Ended

LEMMA FetchEtagIInv ==
  ASSUME IInv, NEW c \in Calls, FetchEtag(c)
  PROVE  IInv'
<1>1. /\ call[c].pc = "describe" /\ call[c] \in CallType /\ CallOK(c) /\ etag \in Nat
      /\ call \in [Calls -> CallType] /\ UNCHANGED <<entries, etag>>
  BY DEF FetchEtag, IInv, Typed
<1> DEFINE k == [call[c] EXCEPT !.pc = "write", !.ifMatch = etag, !.tries = @ + 1, !.sends = @ + 1]
<1>2. /\ k \in CallType /\ k.pc = "write" /\ k.ifMatch = etag
      /\ k.tries = call[c].tries + 1 /\ k.sends = call[c].sends + 1
      /\ k.op = call[c].op /\ k.key = call[c].key /\ k.target = call[c].target
      /\ k.start = call[c].start /\ k.before = call[c].before /\ k.took = call[c].took
      /\ k.answer = call[c].answer
  <2>1. /\ call[c].tries + 1 \in 0..2 /\ call[c].sends + 1 \in 0..(2 + MaxResends)
        /\ call[c].tries \in Nat /\ call[c].sends \in Nat
    BY <1>1, RoutingAssumption DEF CallOK, CallType
  <2> QED BY <1>1, <2>1 DEF CallType
<1>3. call' = [call EXCEPT ![c] = k]
  BY DEF FetchEtag
<1> HIDE DEF k
<1>4. Moves(c) /\ Stays(c) /\ call'[c] = k
  BY <1>1, <1>2, <1>3 DEF Moves, Stays
<1> DEFINE sent == [call |-> c, send |-> k.sends, ifMatch |-> etag]
<1>5. net' = net \cup {sent}
  BY <1>2, <1>4 DEF FetchEtag, Message
<1>6. k.tries \in 1..2 /\ k.sends \in 1..(k.tries + MaxResends)
  BY <1>1, <1>2, RoutingAssumption DEF CallOK, CallType
<1>7. sent \in [call : Calls, send : 1..(2 + MaxResends), ifMatch : Nat]
  BY <1>1, <1>6, RoutingAssumption
<1>8. CallOK(c)'
  <2>1. call[c].start <= etag /\ (k.tries = 2 => call[c].start < etag) /\ (k.tries = 1 => ~k.took)
    BY <1>1, <1>2 DEF CallOK, CallType
  <2>2. Ended \subseteq Ended'
    BY <1>1, <1>4 DEF Ended, Moves
  <2> QED BY <1>1, <1>2, <1>4, <1>6, <2>1, <2>2 DEF CallOK
<1>9. ASSUME NEW m \in net', m.call = c PROVE MessageOK(m)'
  <2>1. ASSUME NEW d \in Calls PROVE c \notin call'[d].before
    BY <1>1, <1>2, <1>4, NotInBefore DEF Moves
  <2>2. CASE m = sent
    BY <1>1, <1>2, <1>4, <2>1, <2>2 DEF CallOK, MessageOK
  <2>3. CASE m \in net
    <3>1. MessageOK(m) /\ call[c].tries = 1
      BY <1>1, <1>9, <2>3 DEF IInv, MessageOK
    <3> QED BY <1>1, <1>2, <1>4, <1>9, <2>1, <3>1 DEF MessageOK
  <2> QED BY <1>5, <2>2, <2>3
<1>10. ~Spent(c)
  BY <1>1 DEF Spent
<1>11. net' \subseteq [call : Calls, send : 1..(2 + MaxResends), ifMatch : Nat]
  BY <1>5, <1>7 DEF IInv, Typed
<1> QED BY <1>1, <1>2, <1>4, <1>5, <1>8, <1>9, <1>10, <1>11, QuietStep

LEMMA ResendIInv ==
  ASSUME IInv, NEW c \in Calls, Resend(c)
  PROVE  IInv'
<1>1. /\ call[c].pc = "write" /\ call[c] \in CallType /\ CallOK(c) /\ etag \in Nat
      /\ call \in [Calls -> CallType] /\ UNCHANGED <<entries, etag>>
      /\ call[c].sends < call[c].tries + MaxResends
  BY DEF Resend, IInv, Typed
<1> DEFINE k == [call[c] EXCEPT !.sends = @ + 1]
<1>2. /\ k \in CallType /\ k.pc = "write" /\ k.sends = call[c].sends + 1
      /\ k.tries = call[c].tries /\ k.ifMatch = call[c].ifMatch
      /\ k.op = call[c].op /\ k.key = call[c].key /\ k.target = call[c].target
      /\ k.start = call[c].start /\ k.before = call[c].before /\ k.took = call[c].took
      /\ k.answer = call[c].answer
  <2>1. call[c].sends + 1 \in 0..(2 + MaxResends)
    BY <1>1, RoutingAssumption DEF CallOK, CallType
  <2> QED BY <1>1, <2>1 DEF CallType
<1>3. call' = [call EXCEPT ![c] = k]
  BY DEF Resend
<1> HIDE DEF k
<1>4. Moves(c) /\ Stays(c) /\ call'[c] = k
  BY <1>1, <1>2, <1>3 DEF Moves, Stays
<1> DEFINE sent == [call |-> c, send |-> k.sends, ifMatch |-> k.ifMatch]
<1>5. net' = net \cup {sent}
  BY <1>2, <1>4 DEF Resend, Message
<1>6. k.tries \in 1..2 /\ k.sends \in 1..(k.tries + MaxResends)
  BY <1>1, <1>2, RoutingAssumption DEF CallOK, CallType
<1>7. sent \in [call : Calls, send : 1..(2 + MaxResends), ifMatch : Nat]
  BY <1>2, <1>6, RoutingAssumption DEF CallType
<1>8. CallOK(c)'
  <2>1. Ended \subseteq Ended'
    BY <1>1, <1>4 DEF Ended, Moves
  <2>2. k.tries = 1 /\ k.took => NothingToDo(c)'
    BY <1>1, <1>2, <1>4 DEF CallOK, NothingToDo
  <2> QED BY <1>1, <1>2, <1>4, <1>6, <2>1, <2>2 DEF CallOK
<1>9. ASSUME NEW m \in net', m.call = c PROVE MessageOK(m)'
  <2>1. ASSUME NEW d \in Calls PROVE c \notin call'[d].before
    BY <1>1, <1>2, <1>4, NotInBefore DEF Moves
  <2>2. CASE m = sent
    BY <1>1, <1>2, <1>4, <2>1, <2>2 DEF CallOK, MessageOK
  <2>3. CASE m \in net
    <3>1. MessageOK(m)
      BY <2>3 DEF IInv
    <3> QED BY <1>1, <1>2, <1>4, <1>9, <2>1, <3>1 DEF MessageOK
  <2> QED BY <1>5, <2>2, <2>3
<1>10. Spent(c) => Spent(c)'
  <2> SUFFICES ASSUME Spent(c) PROVE Spent(c)'
    OBVIOUS
  <2>1. ASSUME NEW m \in net', m.call = c PROVE m.ifMatch < etag
    BY <1>1, <1>2, <1>5, <2>1 DEF Spent
  <2> QED BY <1>1, <1>2, <1>4, <2>1 DEF Spent
<1>11. net' \subseteq [call : Calls, send : 1..(2 + MaxResends), ifMatch : Nat]
  BY <1>5, <1>7 DEF IInv, Typed
<1> QED BY <1>1, <1>2, <1>4, <1>5, <1>8, <1>9, <1>10, <1>11, QuietStep

LEMMA StoreFailsIInv ==
  ASSUME IInv, NEW c \in Calls, StoreFails(c)
  PROVE  IInv'
<1>1. /\ call[c].pc \in {"describe", "write"} /\ call[c] \in CallType /\ CallOK(c) /\ etag \in Nat
      /\ call \in [Calls -> CallType] /\ UNCHANGED <<entries, etag, net>>
  BY DEF StoreFails, IInv, Typed
<1> DEFINE k == Settled(c, "KVS_ERROR")
<1>2. /\ k \in CallType /\ k.pc = "done" /\ k.answer = "KVS_ERROR"
      /\ k.op = call[c].op /\ k.key = call[c].key /\ k.target = call[c].target
      /\ k.start = call[c].start /\ k.before = call[c].before /\ k.took = call[c].took
  BY <1>1, SettledFields
<1>3. call' = [call EXCEPT ![c] = k]
  BY DEF StoreFails
<1> HIDE DEF k
<1>4. Moves(c) /\ Stays(c) /\ call'[c] = k
  BY <1>1, <1>2, <1>3 DEF Moves, Stays
<1>5. CallOK(c)'
  <2>1. Ended \subseteq Ended'
    BY <1>1, <1>4 DEF Ended, Moves
  <2> QED BY <1>1, <1>2, <1>4, <2>1 DEF CallOK
<1>6. ASSUME NEW m \in net', m.call = c PROVE MessageOK(m)'
  <2>1. ASSUME NEW d \in Calls PROVE c \notin call'[d].before
    BY <1>1, <1>2, <1>4, NotInBefore DEF Moves
  <2>2. MessageOK(m)
    BY <1>1, <1>6 DEF IInv
  <2> QED BY <1>1, <1>2, <1>4, <1>6, <2>1, <2>2 DEF MessageOK
<1>7. Spent(c) => Spent(c)'
  BY <1>1, <1>2, <1>4 DEF Spent
<1>8. net' \subseteq [call : Calls, send : 1..(2 + MaxResends), ifMatch : Nat]
  BY <1>1 DEF IInv, Typed
<1> QED BY <1>1, <1>2, <1>4, <1>5, <1>6, <1>7, <1>8, QuietStep
-----------------------------------------------------------------------------
(* Serving a request *)

\* What the store's outcome says of the moment it was served.
LEMMA OutcomeMeans ==
  ASSUME IInv, NEW m, NEW outcome, Served(m, outcome)
  PROVE  LET c == m.call IN
         /\ c \in Calls /\ call[c] \in CallType /\ CallOK(c) /\ MessageOK(m)
         /\ outcome \in {"applied", "conflict", "absent"}
         /\ outcome = "applied" =>
               m.ifMatch = etag /\ ~(call[c].op = "delete" /\ entries[call[c].key] = Empty)
         /\ outcome = "conflict" => m.ifMatch # etag
         /\ outcome = "absent" => call[c].op = "delete" /\ entries[call[c].key] = Empty
         /\ etag \in Nat /\ etag' = IF outcome = "applied" THEN etag + 1 ELSE etag
         /\ m \in net /\ m.ifMatch \in Nat /\ net' = net \ {m}
         /\ Ended \subseteq Ended'
<1> DEFINE c == m.call
<1>1. m \in net /\ net' = net \ {m} /\ c \in Calls /\ m.ifMatch \in Nat
  BY DEF Served, IInv, Typed
<1>2. call[c] \in CallType /\ CallOK(c) /\ MessageOK(m) /\ etag \in Nat
  BY <1>1 DEF IInv, Typed
<1>3. /\ outcome \in {"applied", "conflict", "absent"}
      /\ outcome = "applied" =>
            m.ifMatch = etag /\ ~(call[c].op = "delete" /\ entries[call[c].key] = Empty)
      /\ outcome = "conflict" => m.ifMatch # etag
      /\ outcome = "absent" => call[c].op = "delete" /\ entries[call[c].key] = Empty
  BY DEF Served, Outcomes, Matches
<1>4. etag' = IF outcome = "applied" THEN etag + 1 ELSE etag
  BY DEF Served
<1>5. call[c].pc = "done" => call'[c].pc = "done"
  BY DEF Served, Unheard, Finished, Retrying
<1>6. Ended \subseteq Ended'
  BY <1>5 DEF Ended, Served, Stays, Moves
<1> QED BY <1>1, <1>2, <1>3, <1>4, <1>6

LEMMA ServeOwnCall ==
  ASSUME IInv, NEW m, NEW outcome, Served(m, outcome)
  PROVE  CallOK(m.call)'
<1> DEFINE c == m.call
<1>1. /\ c \in Calls /\ call[c] \in CallType /\ CallOK(c) /\ MessageOK(m)
      /\ outcome \in {"applied", "conflict", "absent"}
      /\ outcome = "applied" => m.ifMatch = etag
      /\ outcome = "conflict" => m.ifMatch # etag
      /\ outcome = "absent" => call[c].op = "delete" /\ entries[call[c].key] = Empty
      /\ etag \in Nat /\ etag' = (IF outcome = "applied" THEN etag + 1 ELSE etag)
      /\ m.ifMatch \in Nat /\ Ended \subseteq Ended'
  BY OutcomeMeans
<1>2. /\ call'[c].op = call[c].op /\ call'[c].key = call[c].key
      /\ call'[c].target = call[c].target
      /\ call'[c].start = call[c].start /\ call'[c].before = call[c].before
      /\ call'[c].took = (call[c].took \/ outcome # "conflict")
      /\ \/ Unheard(c)
         \/ (Finished(c, outcome) \/ Retrying(c, outcome)) /\ m.ifMatch = call[c].ifMatch
  BY DEF Served, Stays
<1>3. /\ call[c].pc # "idle" /\ call[c].op # "none"
      /\ call[c].start <= m.ifMatch /\ m.ifMatch <= etag
      /\ call[c].pc = "describe" => call[c].tries = 1 /\ m.ifMatch < etag
      /\ call[c].pc = "write" /\ call[c].tries = 1 => m.ifMatch = call[c].ifMatch
  BY <1>1 DEF MessageOK
<1>4. /\ call[c].key \in Keys
      /\ call[c].op = "put" => call[c].target \in Targets /\ IsValidTarget(call[c].target)
      /\ call[c].before \subseteq Ended \ {c}
      /\ call[c].start \in Nat /\ call[c].ifMatch \in Nat
  BY <1>1, <1>3 DEF CallOK, CallType
<1>5. call[c].op = "put" /\ call'[c].took =>
        call[c].start < etag' /\ entries'[call[c].key].by \notin call[c].before
  <2> SUFFICES ASSUME call[c].op = "put", call'[c].took
               PROVE  call[c].start < etag' /\ entries'[call[c].key].by \notin call[c].before
    OBVIOUS
  <2>1. CASE outcome = "applied"
    <3>1. entries' = [entries EXCEPT ![call[c].key] = [target |-> call[c].target, by |-> c]]
      BY <2>1 DEF Served, Write
    <3>2. entries'[call[c].key].by = c
      BY <1>4, <3>1 DEF IInv, Typed
    <3> QED BY <1>1, <1>3, <1>4, <2>1, <3>2
  <2>2. CASE outcome = "conflict"
    <3>1. call[c].took /\ entries' = entries /\ etag' = etag
      BY <1>2, <2>2 DEF Served
    <3> QED BY <1>1, <3>1 DEF CallOK
  <2> QED BY <1>1, <2>1, <2>2
<1>6. CASE Unheard(c)
  <2>1. /\ call'[c].pc = call[c].pc /\ call'[c].answer = call[c].answer
        /\ call'[c].tries = call[c].tries /\ call'[c].sends = call[c].sends
        /\ call'[c].ifMatch = call[c].ifMatch
    BY <1>6 DEF Unheard
  <2>2. call[c].pc = "write" /\ call[c].tries = 1 /\ call'[c].took => NothingToDo(c)'
    <3> SUFFICES ASSUME call[c].pc = "write", call[c].tries = 1, call'[c].took
                 PROVE  NothingToDo(c)'
      OBVIOUS
    <3>1. CASE outcome = "applied"
      BY <1>1, <1>3, <2>1, <3>1 DEF NothingToDo
    <3>2. CASE outcome = "absent"
      BY <1>1, <1>2, <3>2 DEF NothingToDo, Served
    <3>3. CASE outcome = "conflict"
      <4>1. call[c].took /\ entries' = entries /\ etag' = etag
        BY <1>2, <3>3 DEF Served
      <4> QED BY <1>1, <1>2, <2>1, <4>1 DEF CallOK, NothingToDo
    <3> QED BY <1>1, <3>1, <3>2, <3>3
  <2>3. call[c].pc = "describe" => call[c].start < etag'
    BY <1>1, <1>3, <1>4
  <2>4. call[c].pc = "write" => call[c].start <= call[c].ifMatch /\ call[c].ifMatch <= etag'
    BY <1>1, <1>4 DEF CallOK
  <2>5. call[c].start <= etag' /\ (call[c].answer = "ROUTE_CONFLICT" => etag' >= call[c].start + 2)
    BY <1>1, <1>4 DEF CallOK
  <2>6. call[c].answer = "ok" => call'[c].took
    BY <1>1, <1>2, <1>3 DEF CallOK
  <2> QED BY <1>1, <1>2, <1>3, <1>4, <1>5, <2>1, <2>2, <2>3, <2>4, <2>5, <2>6 DEF CallOK
<1>7. CASE Finished(c, outcome) /\ m.ifMatch = call[c].ifMatch
  <2>1. /\ call[c].pc = "write" /\ call'[c].pc = "done"
        /\ outcome = "conflict" => call[c].tries # 1
        /\ call'[c].answer = IF outcome = "conflict" THEN "ROUTE_CONFLICT" ELSE "ok"
    BY <1>7 DEF Finished
  <2>2. outcome = "conflict" => etag' >= call[c].start + 2
    BY <1>1, <1>3, <1>4, <1>7, <2>1 DEF CallOK
  <2>3. call[c].start <= etag'
    BY <1>1, <1>4 DEF CallOK
  <2> QED BY <1>1, <1>2, <1>3, <1>4, <1>5, <2>1, <2>2, <2>3 DEF CallOK
<1>8. CASE Retrying(c, outcome) /\ m.ifMatch = call[c].ifMatch
  <2>1. /\ call[c].pc = "write" /\ call[c].tries = 1 /\ outcome = "conflict"
        /\ call'[c].pc = "describe" /\ call'[c].answer = call[c].answer
        /\ call'[c].tries = 1 /\ call'[c].sends = call[c].sends
    BY <1>8 DEF Retrying
  <2>2. /\ call[c].start < etag' /\ call[c].answer = "none"
        /\ call[c].sends <= 1 + MaxResends
    BY <1>1, <1>3, <1>4, <2>1, RoutingAssumption DEF CallOK
  <2> QED BY <1>1, <1>2, <1>3, <1>4, <1>5, <2>1, <2>2 DEF CallOK
<1> QED BY <1>2, <1>6, <1>7, <1>8
\* A write of an earlier moment cannot pass, so what others relied on stays.
LEMMA ServeOtherCalls ==
  ASSUME IInv, NEW m, NEW outcome, Served(m, outcome), NEW d \in Calls, d # m.call
  PROVE  CallOK(d)'
<1> DEFINE c == m.call
<1>1. /\ c \in Calls /\ MessageOK(m) /\ CallOK(c)
      /\ outcome \in {"applied", "conflict", "absent"}
      /\ outcome = "applied" => m.ifMatch = etag
      /\ etag \in Nat /\ etag' = (IF outcome = "applied" THEN etag + 1 ELSE etag)
      /\ Ended \subseteq Ended'
  BY OutcomeMeans
<1>2. /\ CallOK(d) /\ call[d] \in CallType /\ call'[d] = call[d]
      /\ call[d].start \in Nat /\ call[d].ifMatch \in Nat
  BY DEF IInv, Typed, Served, Stays, Moves, CallType
<1>3. call[d].op = "put" /\ call[d].took => entries'[call[d].key].by \notin call[d].before
  <2> SUFFICES ASSUME call[d].op = "put", call[d].took
               PROVE  entries'[call[d].key].by \notin call[d].before
    OBVIOUS
  <2>1. /\ call[d].key \in Keys /\ call[d].start < etag
        /\ entries[call[d].key].by \notin call[d].before /\ call[d].before \subseteq Calls
    BY <1>2 DEF CallOK, Ended
  <2>2. CASE outcome = "applied" /\ call[c].key = call[d].key
    <3>1. entries'[call[d].key] = Write(c)
      BY <2>1, <2>2 DEF Served, IInv, Typed
    <3>2. c \notin call[d].before
      BY <1>1, <1>2, <2>1, <2>2 DEF MessageOK
    <3>3. NoRoute \notin call[d].before
      BY <2>1, RoutingAssumption
    <3> QED BY <3>1, <3>2, <3>3 DEF Write, Empty
  <2>3. CASE outcome # "applied" \/ call[c].key # call[d].key
    <3>1. entries'[call[d].key] = entries[call[d].key]
      BY <2>1, <2>3 DEF Served, IInv, Typed
    <3> QED BY <2>1, <3>1
  <2> QED BY <2>2, <2>3
<1>4. call[d].pc = "write" /\ call[d].tries = 1 /\ call[d].took => NothingToDo(d)'
  <2> SUFFICES ASSUME call[d].pc = "write", call[d].tries = 1, call[d].took
               PROVE  NothingToDo(d)'
    OBVIOUS
  <2>1. NothingToDo(d) /\ call[d].ifMatch <= etag
    BY <1>2 DEF CallOK
  <2>2. CASE outcome = "applied"
    BY <1>1, <1>2, <2>1, <2>2 DEF NothingToDo
  <2>3. CASE outcome # "applied"
    BY <1>1, <1>2, <2>1, <2>3 DEF NothingToDo, Served
  <2> QED BY <2>2, <2>3
<1>5. /\ call[d].start <= etag'
      /\ call[d].answer = "ROUTE_CONFLICT" => etag' >= call[d].start + 2
      /\ call[d].start < etag => call[d].start < etag'
      /\ call[d].ifMatch <= etag => call[d].ifMatch <= etag'
  BY <1>1, <1>2 DEF CallOK
<1>6. call[d].before \subseteq Ended' \ {d}
  BY <1>1, <1>2 DEF CallOK
<1> QED BY <1>2, <1>3, <1>4, <1>5, <1>6 DEF CallOK

LEMMA ServeMessages ==
  ASSUME IInv, NEW m, NEW outcome, Served(m, outcome), NEW n \in net'
  PROVE  MessageOK(n)'
<1> DEFINE c == m.call
<1>1. /\ c \in Calls /\ MessageOK(m)
      /\ outcome \in {"applied", "conflict", "absent"}
      /\ outcome = "conflict" => m.ifMatch # etag
      /\ etag \in Nat /\ etag' = (IF outcome = "applied" THEN etag + 1 ELSE etag)
      /\ m.ifMatch \in Nat /\ net' = net \ {m}
  BY OutcomeMeans
<1>2. n \in net /\ MessageOK(n) /\ n.call \in Calls /\ n.ifMatch \in Nat
  BY <1>1 DEF IInv, Typed
<1>3. /\ call'[n.call].start = call[n.call].start /\ call'[n.call].op = call[n.call].op
      /\ \A e \in Calls : call'[e].before = call[e].before /\ call'[e].start = call[e].start
  BY <1>2 DEF Served, Stays, Moves
<1>4. /\ call[n.call].pc # "idle" /\ call[n.call].op # "none"
      /\ call[n.call].start <= n.ifMatch /\ n.ifMatch <= etag' /\ (n.ifMatch < etag => n.ifMatch < etag')
      /\ \A e \in Calls : n.call \in call[e].before => n.ifMatch <= call[e].start
  BY <1>1, <1>2 DEF MessageOK
<1>5. /\ call'[n.call].pc # "idle"
      /\ call'[n.call].pc = "describe" => call'[n.call].tries = 1 /\ n.ifMatch < etag'
      /\ call'[n.call].pc = "write" /\ call'[n.call].tries = 1 => n.ifMatch = call'[n.call].ifMatch
  <2>1. CASE n.call # c \/ Unheard(c)
    <3>1. /\ call'[n.call].pc = call[n.call].pc /\ call'[n.call].tries = call[n.call].tries
          /\ call'[n.call].ifMatch = call[n.call].ifMatch
      BY <1>2, <2>1 DEF Served, Stays, Moves, Unheard
    <3> QED BY <1>2, <1>4, <3>1 DEF MessageOK
  <2>2. CASE n.call = c /\ Finished(c, outcome)
    BY <2>2 DEF Finished
  <2>3. CASE n.call = c /\ Retrying(c, outcome) /\ m.ifMatch = call[c].ifMatch
    <3>1. n.ifMatch = m.ifMatch
      BY <1>2, <2>3 DEF MessageOK, Retrying
    <3>2. m.ifMatch < etag'
      BY <1>1, <2>3 DEF MessageOK, Retrying
    <3> QED BY <2>3, <3>1, <3>2 DEF Retrying
  <2> QED BY <2>1, <2>2, <2>3 DEF Served
<1> QED BY <1>3, <1>4, <1>5 DEF MessageOK

\* What is written is a route its call asked for.
LEMMA ServeEntries ==
  ASSUME IInv, NEW m, NEW outcome, Served(m, outcome)
  PROVE  Typed' /\ EntriesAreOwned'
<1> DEFINE c == m.call
<1>1. /\ c \in Calls /\ call[c] \in CallType /\ CallOK(c) /\ MessageOK(m)
      /\ outcome \in {"applied", "conflict", "absent"}
      /\ etag \in Nat /\ etag' = (IF outcome = "applied" THEN etag + 1 ELSE etag)
      /\ net' = net \ {m}
  BY OutcomeMeans
<1>2. \A d \in Calls : /\ call'[d].op = call[d].op /\ call'[d].key = call[d].key
                       /\ call'[d].target = call[d].target
  BY DEF Served, Stays, Moves
<1>3. /\ call[c].key \in Keys /\ call[c].op \in {"put", "delete"}
      /\ call[c].op = "put" => call[c].target \in Targets /\ IsValidTarget(call[c].target)
  BY <1>1 DEF CallOK, MessageOK, CallType
<1>4. entries \in [Keys -> Entry] /\ entries' \in [Keys -> Entry]
  <2>1. Write(c) \in Entry
    BY <1>1, <1>3 DEF Write, Entry
  <2> QED BY <2>1 DEF IInv, Typed, Served
<1>5. Typed'
  BY <1>1, <1>4 DEF IInv, Typed, Served, Stays, Moves
<1>6. ASSUME NEW k \in Keys, entries'[k] # Empty
      PROVE  LET d == entries'[k].by IN
             /\ entries'[k] = [target |-> call'[d].target, by |-> d] /\ d \in Calls
             /\ call'[d].op = "put" /\ call'[d].key = k /\ IsValidTarget(call'[d].target)
  <2>1. CASE outcome = "applied" /\ k = call[c].key
    <3>1. entries'[k] = Write(c)
      BY <1>4, <2>1 DEF Served
    <3>2. entries'[k] = [target |-> call[c].target, by |-> c] /\ call[c].op = "put"
      BY <1>3, <1>6, <3>1 DEF Write
    <3>3. entries'[k].by = c
      BY <3>2
    <3> QED BY <1>1, <1>2, <1>3, <2>1, <3>2, <3>3
  <2>2. CASE outcome # "applied" \/ k # call[c].key
    <3>1. entries'[k] = entries[k]
      BY <1>4, <2>2 DEF Served
    <3> DEFINE d == entries[k].by
    <3>2. /\ entries[k] = [target |-> call[d].target, by |-> d] /\ d \in Calls
          /\ call[d].op = "put" /\ call[d].key = k /\ IsValidTarget(call[d].target)
      BY <1>6, <3>1 DEF IInv, EntriesAreOwned
    <3>3. call'[d].op = call[d].op /\ call'[d].key = call[d].key /\ call'[d].target = call[d].target
      BY <1>2, <3>2
    <3> QED BY <3>1, <3>2, <3>3
  <2> QED BY <2>1, <2>2
<1> QED BY <1>5, <1>6 DEF EntriesAreOwned

\* A call's second change spends it.
LEMMA ServeCount ==
  ASSUME IInv, NEW m, NEW outcome, Served(m, outcome)
  PROVE  ChangesAreCounted'
<1> DEFINE c == m.call
<1>1. /\ c \in Calls /\ call[c] \in CallType /\ CallOK(c) /\ MessageOK(m)
      /\ outcome \in {"applied", "conflict", "absent"}
      /\ outcome = "applied" =>
            m.ifMatch = etag /\ ~(call[c].op = "delete" /\ entries[call[c].key] = Empty)
      /\ etag \in Nat /\ etag' = (IF outcome = "applied" THEN etag + 1 ELSE etag)
      /\ m \in net /\ m.ifMatch \in Nat /\ net' = net \ {m}
  BY OutcomeMeans
<1>2. call'[c].took <=> call[c].took \/ outcome # "conflict"
  BY DEF Served
<1>3. Took' = IF outcome = "conflict" THEN Took ELSE Took \cup {c}
  BY <1>1, <1>2 DEF Took, Served, Stays, Moves
<1>4. ASSUME NEW d \in SpentCalls PROVE d \in SpentCalls'
  <2>1. d \in Calls /\ Spent(d) /\ call[d] \in CallType
    BY DEF SpentCalls, IInv, Typed
  <2>2. \A n \in net' : n.call = d => n.ifMatch < etag'
    BY <1>1, <2>1 DEF Spent, IInv, Typed
  <2>3. call[d].pc = "write" => call[d].tries = 2 /\ call[d].ifMatch < etag'
    BY <1>1, <2>1 DEF Spent, CallType
  <2>4. CASE d # c
    BY <2>1, <2>2, <2>3, <2>4 DEF Spent, SpentCalls, Served, Stays, Moves
  <2>5. CASE d = c
    <3>1. Unheard(c) \/ Finished(c, outcome)
      BY <2>1, <2>3, <2>5 DEF Served, Retrying
    <3> QED BY <1>2, <2>1, <2>2, <2>3, <2>5, <3>1 DEF Spent, SpentCalls, Unheard, Finished
  <2> QED BY <2>4, <2>5
<1>5. ASSUME outcome = "applied", c \in Took PROVE c \in SpentCalls' \ SpentCalls
  <2>1. c \notin SpentCalls
    BY <1>1, <1>5 DEF SpentCalls, Spent
  <2>2. call[c].took /\ m.ifMatch = etag /\ etag' = etag + 1
    BY <1>1, <1>5 DEF Took
  <2>3. call[c].pc \in {"write", "done"}
    BY <1>1, <2>2 DEF MessageOK, CallType
  <2>4. call[c].pc = "write" => call[c].tries = 2 /\ call[c].ifMatch <= etag
    <3>1. call[c].pc = "write" => call[c].tries \in 1..2 /\ call[c].ifMatch <= etag
      BY <1>1 DEF CallOK
    <3>2. ~(call[c].pc = "write" /\ call[c].tries = 1)
      <4> SUFFICES ASSUME call[c].pc = "write", call[c].tries = 1 PROVE FALSE
        OBVIOUS
      <4>1. NothingToDo(c) /\ m.ifMatch = call[c].ifMatch
        BY <1>1, <2>2 DEF CallOK, MessageOK
      <4> QED BY <1>1, <1>5, <2>2, <4>1 DEF NothingToDo
    <3> QED BY <3>1, <3>2
  <2>5. ASSUME NEW n \in net', n.call = c PROVE n.ifMatch < etag'
    <3>1. MessageOK(n) /\ n.ifMatch \in Nat
      BY <1>1 DEF IInv, Typed
    <3> QED BY <1>1, <2>2, <3>1 DEF MessageOK
  <2>6. call[c].ifMatch \in Nat
    BY <1>1 DEF CallType
  <2>7. Unheard(c) \/ Finished(c, outcome)
    BY <1>5 DEF Served, Retrying
  <2>8. Spent(c)'
    BY <1>1, <1>2, <1>5, <2>2, <2>3, <2>4, <2>5, <2>6, <2>7 DEF Spent, Unheard, Finished
  <2> QED BY <1>1, <2>1, <2>8 DEF SpentCalls
<1>6. SpentCalls \subseteq Took /\ SpentCalls' \subseteq Took'
  BY DEF SpentCalls, Took, Spent
<1>7. /\ IsFiniteSet(Took) /\ etag <= Cardinality(Took) + Cardinality(SpentCalls)
      /\ etag' \in Nat
  BY <1>1 DEF IInv, ChangesAreCounted
<1>8. \/ Took' = Took /\ etag' = etag
      \/ Took' = Took \cup {c} /\ etag' <= etag + 1
         /\ (c \in Took => etag' = etag \/ c \in SpentCalls' \ SpentCalls)
  <2>1. CASE outcome = "conflict"
    BY <1>1, <1>3, <2>1
  <2>2. CASE outcome # "conflict"
    BY <1>1, <1>3, <1>5, <2>2
  <2> QED BY <2>1, <2>2
<1> HIDE DEF Took, SpentCalls
<1> QED BY <1>1, <1>4, <1>6, <1>7, <1>8, CountStep DEF ChangesAreCounted
-----------------------------------------------------------------------------
(* The theorems *)

LEMMA NextIInv == IInv /\ [Next]_vars => IInv'
<1> SUFFICES ASSUME IInv, [Next]_vars PROVE IInv'
  OBVIOUS
<1>1. ASSUME NEW c \in Calls, CallNext(c) PROVE IInv'
  <2>1. ASSUME NEW raw \in Hosts, NEW target \in Targets, Begin(c, "put", raw, target) PROVE IInv'
    BY <2>1, BeginIInv
  <2>2. ASSUME NEW raw \in Hosts, Begin(c, "delete", raw, NoRoute) PROVE IInv'
    BY <2>2, BeginIInv
  <2>3. ASSUME NEW raw \in Hosts, GetRoute(c, raw) PROVE IInv'
    BY <2>3, GetRouteIInv
  <2>4. CASE FetchEtag(c) \/ Resend(c) \/ StoreFails(c)
    BY <2>4, FetchEtagIInv, ResendIInv, StoreFailsIInv
  <2> QED BY <1>1, <2>1, <2>2, <2>3, <2>4 DEF CallNext
<1>2. ASSUME NEW m \in net, Serve(m) PROVE IInv'
  <2>1. PICK outcome : Served(m, outcome)
    BY <1>2, ServeIsServed DEF IInv
  <2>2. \A c \in Calls : CallOK(c)'
    BY <2>1, ServeOwnCall, ServeOtherCalls
  <2>3. \A n \in net' : MessageOK(n)'
    BY <2>1, ServeMessages
  <2> QED BY <2>1, <2>2, <2>3, ServeEntries, ServeCount DEF IInv
<1>3. CASE UNCHANGED vars
  <2>1. Typed' /\ ChangesAreCounted' /\ EntriesAreOwned'
    BY <1>3 DEF vars, IInv, Typed, ChangesAreCounted, Took, SpentCalls, Spent, EntriesAreOwned, Ended
  <2>2. \A c \in Calls : CallOK(c)'
    BY <1>3 DEF vars, IInv, CallOK, NothingToDo, Ended, Spent
  <2>3. \A m \in net' : MessageOK(m)'
    BY <1>3 DEF vars, IInv, MessageOK, NothingToDo, Ended, Spent
  <2> QED BY <2>1, <2>2, <2>3 DEF IInv
<1> QED BY <1>1, <1>2, <1>3 DEF Next

THEOREM Invariance == Spec => []IInv
BY InitIInv, NextIInv, PTL DEF Spec

\* Only valid routes are ever stored, and no call changes the store more than
\* twice, however often its requests are sent and however late they arrive.
THEOREM TypeCorrect == Spec => []TypeOK
<1>1. IInv => TypeOK
  <2> SUFFICES ASSUME IInv PROVE TypeOK
    OBVIOUS
  <2>1. ASSUME NEW k \in Keys, entries[k] # Empty PROVE IsValidTarget(entries[k].target)
    <3> DEFINE c == entries[k].by
    <3>1. entries[k] = [target |-> call[c].target, by |-> c] /\ IsValidTarget(call[c].target)
      BY <2>1 DEF IInv, EntriesAreOwned
    <3>2. entries[k].target = call[c].target
      BY <3>1
    <3> QED BY <3>1, <3>2
  <2>2. SpentCalls \in SUBSET Took
    BY DEF SpentCalls, Took, Spent
  <2>3. IsFiniteSet(SpentCalls) /\ Cardinality(SpentCalls) <= Cardinality(Took)
    BY <2>2, FS_Subset DEF IInv, ChangesAreCounted
  <2>4. Cardinality(Took) \in Nat /\ Cardinality(SpentCalls) \in Nat
    BY <2>3, FS_CardinalityType DEF IInv, ChangesAreCounted
  <2>5. etag \in 0..(2 * Cardinality(Took))
    BY <2>3, <2>4 DEF IInv, ChangesAreCounted, Typed
  <2> QED BY <2>1, <2>5 DEF TypeOK, Took, IInv, Typed
<1> QED BY <1>1, Invariance, PTL

\* Success means the write has had its effect, ROUTE_CONFLICT that the store
\* changed twice meanwhile, a validation error that nothing was or will be
\* written.
THEOREM TrueAnswers == Spec => []AnswersAreTrue
<1>1. IInv => AnswersAreTrue
  BY DEF IInv, AnswersAreTrue, CallOK, MessageOK
<1> QED BY <1>1, Invariance, PTL

\* A put that has succeeded is never undone by a call that had ended before
\* it began, not even by a request of that call still on its way.
THEOREM NewestPutStays == Spec => []NewestPutWins
<1>1. IInv => NewestPutWins
  BY DEF IInv, NewestPutWins, CallOK
<1> QED BY <1>1, Invariance, PTL

\* The two normalizations meet: on a host without a port they are the same,
\* and the edge's takes the port away.
LEMMA NormalizationsAgree ==
  ASSUME NEW raw \in Hosts
  PROVE  NormalizeHost([raw EXCEPT !.padded = FALSE])
           = [NormalizeHostname(raw) EXCEPT !.port = FALSE]
<1>1. \A n, c, p, q : LET r == [name |-> n, cased |-> c, padded |-> p, port |-> q] IN
        NormalizeHost([r EXCEPT !.padded = FALSE]) = [NormalizeHostname(r) EXCEPT !.port = FALSE]
  BY DEF NormalizeHost, NormalizeHostname
<1> QED BY <1>1, RoutingAssumption

\* The edge sends a viewer only where a put for the very host said, and finds
\* the library's entry under every spelling of the host.
THEOREM EdgeIsRouted == Spec => []EdgeFollowsRoutes
<1>1. IInv => EdgeFollowsRoutes
  <2> SUFFICES ASSUME IInv, NEW raw \in Hosts
               PROVE  LET served == RouteRequest([raw EXCEPT !.padded = FALSE], entries)
                          key == [NormalizeHostname(raw) EXCEPT !.port = FALSE] IN
                      /\ served # NoRoute =>
                            \E c \in Calls : /\ call[c].op = "put" /\ call[c].key = key
                                             /\ call[c].target = served
                      /\ key \in Keys => served = entries[key].target
    BY DEF EdgeFollowsRoutes
  <2> DEFINE served == RouteRequest([raw EXCEPT !.padded = FALSE], entries)
             key == [NormalizeHostname(raw) EXCEPT !.port = FALSE]
  <2>1. served = IF key \in Keys THEN entries[key].target ELSE NoRoute
    BY NormalizationsAgree DEF RouteRequest, IInv, Typed
  <2> HIDE DEF served, key
  <2>2. ASSUME served # NoRoute
        PROVE  \E c \in Calls : /\ call[c].op = "put" /\ call[c].key = key
                                /\ call[c].target = served
    <3>1. key \in Keys /\ served = entries[key].target /\ entries[key] # Empty
      BY <2>1, <2>2 DEF Empty
    <3> DEFINE c == entries[key].by
    <3>2. /\ entries[key] = [target |-> call[c].target, by |-> c] /\ c \in Calls
          /\ call[c].op = "put" /\ call[c].key = key
      BY <3>1 DEF IInv, EntriesAreOwned
    <3>3. entries[key].target = call[c].target
      BY <3>2
    <3> QED BY <3>1, <3>2, <3>3
  <2> QED BY <2>1, <2>2 DEF served, key
<1> QED BY <1>1, Invariance, PTL
=============================================================================
