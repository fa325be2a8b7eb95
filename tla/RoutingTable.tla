---------------------------- MODULE RoutingTable ----------------------------
(***************************************************************************)
(* The routing table (src/libs/routing): calls that put, delete and get    *)
(* the route of a hostname in one CloudFront KeyValueStore, and the        *)
(* viewer-request function that reads a replica of it                      *)
(* (src/infra/lib/primitives/network/function).                            *)
(*                                                                         *)
(* A write is conditional on the ETag of the whole store, which every      *)
(* write of any hostname changes.  The client sends a request again when   *)
(* no answer arrives, and the earlier one may still be on its way.         *)
(*                                                                         *)
(* A hostname is its sequence of DNS labels with what normalization takes  *)
(* away: upper case, blanks around it, a port.                             *)
(***************************************************************************)
EXTENDS Naturals, Sequences, FiniteSets

CONSTANTS
  Calls,      \* calls of the library, each made once
  Hosts,      \* hostnames as callers spell them
  Targets,    \* targets callers pass
  Labels,     \* well-formed lowercase DNS labels
  MaxResends, \* the client sends the requests of one call again at most so often
  NoRoute

MinHostnameLabels == 2
MinTargetLabels == 1

ASSUME RoutingAssumption ==
  /\ MaxResends \in Nat
  /\ NoRoute \notin Targets \cup Calls
  /\ \A raw \in Hosts :
        raw = [name |-> raw.name, cased |-> raw.cased, padded |-> raw.padded, port |-> raw.port]

VARIABLES
  entries,  \* the store: the key's target and the call that wrote it
  etag,     \* of the whole store
  net,      \* conditional writes on their way to it
  call

vars == <<entries, etag, net, call>>

-----------------------------------------------------------------------------
(* Hostnames and targets *)

\* normalizeHostname: trim and lower case, a port stays.
NormalizeHostname(raw) == [raw EXCEPT !.cased = FALSE, !.padded = FALSE]

\* validateDnsName, of a name's labels.
IsDnsName(name, minLabels) ==
  /\ Len(name) >= minLabels
  /\ \A i \in 1..Len(name) : name[i] \in Labels

\* assertValidHostname: ":" is no character of a label.
IsValidHostname(host) == ~host.port /\ IsDnsName(host.name, MinHostnameLabels)

IsValidTarget(target) ==
  CASE target.form = "url"  -> target.scheme \in {"http", "https"} /\ ~target.credentials
    [] target.form = "pair" -> target.portOk /\ IsDnsName(target.name, MinTargetLabels)
    [] OTHER                -> FALSE    \* empty, overlong, or with blanks

\* normalizeHost of the edge: lower case, and the port goes.
NormalizeHost(header) == [header EXCEPT !.cased = FALSE, !.port = FALSE]

Keys == {key \in {NormalizeHostname(raw) : raw \in Hosts} : IsValidHostname(key)}

-----------------------------------------------------------------------------
Idle == [pc |-> "idle", op |-> "none", key |-> NoRoute, target |-> NoRoute,
         tries |-> 0, sends |-> 0, ifMatch |-> 0,
         start |-> 0, before |-> {}, took |-> FALSE, answer |-> "none"]

Empty == [target |-> NoRoute, by |-> NoRoute]

Init ==
  /\ entries = [k \in Keys |-> Empty] /\ etag = 0
  /\ net = {}
  /\ call = [c \in Calls |-> Idle]

Ended == {c \in Calls : call[c].pc = "done"}

\* The call returns or throws; what it waited for may still happen.
Settled(c, answer) ==
  [call[c] EXCEPT !.pc = "done", !.answer = answer, !.tries = 0, !.sends = 0, !.ifMatch = 0]

\* Mutant: only the hostname is validated.
RefusalOfHost(op, raw, target) ==
  IF IsValidHostname(NormalizeHostname(raw)) THEN "none" ELSE "INVALID_HOSTNAME"

Refusal(op, raw, target) ==
  IF ~IsValidHostname(NormalizeHostname(raw)) THEN "INVALID_HOSTNAME"
  ELSE IF op = "put" /\ ~IsValidTarget(target) THEN "INVALID_TARGET"
  ELSE "none"

\* putRoute and deleteRoute up to their first call of the store.
Begin(c, op, raw, target) ==
  /\ call[c].pc = "idle"
  /\ LET refusal == Refusal(op, raw, target) IN
     call' = [call EXCEPT ![c] =
        IF refusal # "none" THEN [Idle EXCEPT !.pc = "done", !.answer = refusal]
        ELSE [Idle EXCEPT !.pc = "describe", !.op = op, !.target = target,
                          !.key = NormalizeHostname(raw), !.start = etag, !.before = Ended]]
  /\ UNCHANGED <<entries, etag, net>>

\* getRoute: one read, null being NoRoute.
GetRoute(c, raw) ==
  /\ call[c].pc = "idle"
  /\ LET key == NormalizeHostname(raw)
         refusal == Refusal("get", raw, NoRoute) IN
     \E answer \in IF refusal = "none" THEN {"ok", "KVS_ERROR"} ELSE {refusal} :
        call' = [call EXCEPT ![c] =
           [Idle EXCEPT !.pc = "done", !.answer = answer,
                        !.target = IF answer = "ok" THEN entries[key].target ELSE NoRoute]]
  /\ UNCHANGED <<entries, etag, net>>

\* The latest request of a call.
Message(c) == [call |-> c, send |-> call[c].sends, ifMatch |-> call[c].ifMatch]

\* fetchEtag, then the write is sent with what it returned.
FetchEtag(c) ==
  /\ call[c].pc = "describe"
  /\ call' = [call EXCEPT ![c].pc = "write", ![c].ifMatch = etag,
                          ![c].tries = @ + 1, ![c].sends = @ + 1]
  /\ net' = net \cup {Message(c)'}
  /\ UNCHANGED <<entries, etag>>

\* No answer in time: the client sends the request again.
Resend(c) ==
  /\ call[c].pc = "write" /\ call[c].sends < call[c].tries + MaxResends
  /\ call' = [call EXCEPT ![c].sends = @ + 1]
  /\ net' = net \cup {Message(c)'}
  /\ UNCHANGED <<entries, etag>>

\* toKvsError: whatever the store has done, or will do.
StoreFails(c) ==
  /\ call[c].pc \in {"describe", "write"}
  /\ call' = [call EXCEPT ![c] = Settled(c, "KVS_ERROR")]
  /\ UNCHANGED <<entries, etag, net>>

-----------------------------------------------------------------------------
(* The store, and the answers it gives *)

Matches(m) == m.ifMatch = etag

\* A put overwrites, a delete needs an entry.  Of a delete that fails on
\* both counts either may be reported.
Outcomes(m) ==
  LET absent == call[m.call].op = "delete" /\ entries[call[m.call].key] = Empty IN
  (IF absent THEN {"absent"} ELSE {}) \cup
  (IF ~Matches(m) THEN {"conflict"} ELSE IF absent THEN {} ELSE {"applied"})

Write(c) ==
  IF call[c].op = "delete" THEN Empty ELSE [target |-> call[c].target, by |-> c]

\* Mutant: a second conflict is taken for a success.
ConflictIsEnough(c, outcome) ==
  CASE outcome # "conflict" -> Settled(c, "ok")
    [] outcome = "conflict" /\ call[c].tries = 1 -> [call[c] EXCEPT !.pc = "describe"]
    [] OTHER -> Settled(c, "ok")

\* Mutant: a conflict is swallowed, as a missing entry is.
ConflictSwallowed(c, outcome) == Settled(c, "ok")

\* A conflict is retried once, a delete of nothing is a success.
AfterOutcome(c, outcome) ==
  CASE outcome # "conflict" -> Settled(c, "ok")
    [] outcome = "conflict" /\ call[c].tries = 1 -> [call[c] EXCEPT !.pc = "describe"]
    [] OTHER -> Settled(c, "ROUTE_CONFLICT")

Awaits(c, m) == call[c].pc = "write" /\ m = Message(c)

\* A request reaches the store; the answer reaches a call that still waits
\* for it, or is lost.  took is history: the write has had its effect.
Serve(m) ==
  \E outcome \in Outcomes(m), heard \in BOOLEAN :
     /\ heard => Awaits(m.call, m)
     /\ net' = net \ {m}
     /\ LET c == m.call
            after == IF heard THEN AfterOutcome(c, outcome) ELSE call[c]
        IN call' = [call EXCEPT ![c] = [after EXCEPT !.took = @ \/ outcome # "conflict"]]
     /\ IF outcome = "applied"
        THEN /\ entries' = [entries EXCEPT ![call[m.call].key] = Write(m.call)]
             /\ etag' = etag + 1
        ELSE UNCHANGED <<entries, etag>>

-----------------------------------------------------------------------------
(* The edge reads a replica, which is the table of some earlier moment. *)

\* Mutant: the edge normalizes as the library does.
RouteRequestPort(header, table) ==
  LET host == NormalizeHostname(header) IN
  IF host \in DOMAIN table THEN table[host].target ELSE NoRoute

\* routeRequest: the target that a viewer's request is given, NoRoute for the
\* 404.  A lookup that throws is a lookup of nothing.
RouteRequest(header, table) ==
  LET host == NormalizeHost(header) IN
  IF host \in DOMAIN table THEN table[host].target ELSE NoRoute

-----------------------------------------------------------------------------
CallNext(c) ==
  \/ \E raw \in Hosts, target \in Targets : Begin(c, "put", raw, target)
  \/ \E raw \in Hosts : Begin(c, "delete", raw, NoRoute) \/ GetRoute(c, raw)
  \/ FetchEtag(c) \/ Resend(c) \/ StoreFails(c)

Next ==
  \/ \E c \in Calls : CallNext(c)
  \/ \E m \in net : Serve(m)

Spec == Init /\ [][Next]_vars

-----------------------------------------------------------------------------
(* Properties *)

Entry == [target : Targets, by : Calls] \cup {Empty}

CallType ==
  [pc : {"idle", "describe", "write", "done"},
   op : {"none", "put", "delete"},
   key : {NormalizeHostname(raw) : raw \in Hosts} \cup {NoRoute},
   target : Targets \cup {NoRoute}, tries : 0..2, sends : 0..(2 + MaxResends),
   ifMatch : Nat, start : Nat, before : SUBSET Calls, took : BOOLEAN,
   answer : {"none", "ok", "INVALID_HOSTNAME", "INVALID_TARGET", "ROUTE_CONFLICT", "KVS_ERROR"}]

\* Type invariant.  Nothing but valid routes is ever stored, and no call
\* changes the store more than twice, whatever is sent again.
TypeOK ==
  /\ entries \in [Keys -> Entry]
  /\ \A k \in Keys : entries[k] = Empty \/ IsValidTarget(entries[k].target)
  /\ etag \in 0..(2 * Cardinality({c \in Calls : call[c].took}))
  /\ net \subseteq [call : Calls, send : 1..(2 + MaxResends), ifMatch : Nat]
  /\ call \in [Calls -> CallType]

\* The answers of putRoute and deleteRoute mean what they say: success, that
\* the write has had its effect; ROUTE_CONFLICT, that the store was changed
\* twice while the call was under way; a validation error, that nothing was
\* or will be written.
AnswersAreTrue ==
  \A c \in Calls :
     /\ call[c].answer = "ok" /\ call[c].op # "none" => call[c].took
     /\ call[c].answer = "ROUTE_CONFLICT" => etag >= call[c].start + 2
     /\ call[c].answer \in {"INVALID_HOSTNAME", "INVALID_TARGET"} =>
           ~call[c].took /\ \A m \in net : m.call # c

\* Promotions and rollbacks in sequence: once a put has succeeded, a write
\* of a call that had ended before the put began never replaces it, be it a
\* request of that call still on its way (a no-op delete gives no such
\* protection: it leaves the ETag as it is).
NewestPutWins ==
  \A c \in Calls :
     call[c].op = "put" /\ call[c].answer = "ok" =>
        entries[call[c].key].by \notin call[c].before

\* The edge, however old its replica, sends a viewer only where a put for the
\* very host said (calls are never forgotten), and it finds the library's
\* entry under every spelling of a host that the library accepts, whatever
\* the port.
EdgeFollowsRoutes ==
  \A raw \in Hosts :
     LET served == RouteRequest([raw EXCEPT !.padded = FALSE], entries)
         key == [NormalizeHostname(raw) EXCEPT !.port = FALSE] IN
     /\ served # NoRoute =>
           \E c \in Calls : call[c].op = "put" /\ call[c].key = key /\ call[c].target = served
     /\ key \in Keys => served = entries[key].target
=============================================================================
