-------------------------- MODULE VentureRegistry --------------------------
(***************************************************************************)
(* The venture registry service (services/registry): Lambda invocations    *)
(* that serve POST/GET/PUT/DELETE /ventures over one DynamoDB table with   *)
(* optimistic concurrency, then publish one bus event per committed        *)
(* mutation.  Each member of Requests is one invocation; an invocation     *)
(* interleaves with the others at every await (read, conditional write,    *)
(* publish) and may die at any of them.                                    *)
(***************************************************************************)
EXTENDS Naturals

CONSTANTS
  Ventures,     \* venture ids
  Owners,       \* principals (the verified token's sub)
  Manifests,    \* schema-valid manifests, told apart only by identity
  Requests,     \* handler invocations, each used once
  MaxVersion,   \* bound on the versions a client asks for
  None

ASSUME NoneIsNothing == None \notin Owners \union Manifests
ASSUME MaxVersionIsPositive == MaxVersion \in Nat \ {0}

VARIABLES
  table,    \* [Ventures -> row], strongly consistent under its key
  index,    \* the ownerId GSI: a lagging copy of table
  pc,       \* [Requests -> the await the invocation is at]
  call,     \* [Requests -> what the request asks for]
  base,     \* [Requests -> `existing`, the row the handler has read]
  seen,     \* [Requests -> the rows in the response body of a read]
  answer,   \* [Requests -> the outcome of the invocation]
  bus,      \* set of events on the platform bus
  commits   \* history: set of committed writes

local == <<pc, call, base, seen, answer>>
vars == <<table, index, pc, call, base, seen, answer, bus, commits>>

----------------------------------------------------------------------------

Row == [ventureId : Ventures, ownerId : Owners \union {None},
        status : {"absent", "active", "deleted"}, version : Nat,
        manifest : Manifests \union {None}]

\* findById's null: no item under the key.
NoRow(v) == [ventureId |-> v, ownerId |-> None, status |-> "absent",
             version |-> 0, manifest |-> None]

Call == [op : {"none", "create", "update", "delete", "get", "list"},
         venture : Ventures \union {None}, sub : Owners \union {None},
         expected : Nat, manifest : Manifests \union {None}]

NoCall == [op |-> "none", venture |-> None, sub |-> None, expected |-> 0,
           manifest |-> None]

Event == [type : {"venture.created", "venture.manifest_updated", "venture.deleted"},
          ventureId : Ventures, ownerId : Owners \union {None}, version : Nat,
          manifest : Manifests \union {None}]

Awaits == {"idle", "get", "list", "read", "put", "publish", "done"}

Answers ==
  { "none", "lost",                                    \* no answer (yet, or ever)
    "ok", "created", "okNoOp", "okWithWarning",        \* 2xx
    "denied", "notFound", "exists", "deleted", "conflict", "internal" }

Init ==
  /\ table = [v \in Ventures |-> NoRow(v)]
  /\ index = table
  /\ pc = [r \in Requests |-> "idle"]
  /\ call = [r \in Requests |-> NoCall]
  /\ base = [r \in Requests |-> None]
  /\ seen = [r \in Requests |-> {}]
  /\ answer = [r \in Requests |-> "none"]
  /\ bus = {}
  /\ commits = {}

----------------------------------------------------------------------------
(* Steps of one invocation                                                 *)

Goto(r, from, to) ==
  /\ pc[r] = from
  /\ pc' = [pc EXCEPT ![r] = to]

Finish(r, outcome) ==
  /\ pc' = [pc EXCEPT ![r] = "done"]
  /\ answer' = [answer EXCEPT ![r] = outcome]

\* The request arrives, its token is verified, its scope checked and its body
\* parsed: all before the first await on the table.
Accept(r, to, request) ==
  /\ Goto(r, "idle", to)
  /\ call' = [call EXCEPT ![r] = request]
  /\ UNCHANGED <<table, index, base, seen, answer, bus, commits>>

\* The id comes from deps.generateVentureId; that an id repeats is allowed, as the
\* put is conditioned on its absence.
ArriveCreate(r) ==
  \E v \in Ventures, o \in Owners, m \in Manifests :
    Accept(r, "put", [op |-> "create", venture |-> v, sub |-> o, expected |-> 0,
                      manifest |-> m])

ArriveUpdate(r) ==
  \E v \in Ventures, m \in Manifests, n \in 1..MaxVersion :
    Accept(r, "read", [op |-> "update", venture |-> v, sub |-> None,
                       expected |-> n, manifest |-> m])

ArriveDelete(r) ==
  \E v \in Ventures :
    Accept(r, "read", [op |-> "delete", venture |-> v, sub |-> None,
                       expected |-> 0, manifest |-> None])

ArriveGet(r) ==
  \E v \in Ventures :
    Accept(r, "get", [op |-> "get", venture |-> v, sub |-> None, expected |-> 0,
                      manifest |-> None])

ArriveList(r) ==
  \E o \in Owners :
    Accept(r, "list", [op |-> "list", venture |-> None, sub |-> o, expected |-> 0,
                       manifest |-> None])

\* No token, no scope or an invalid body: 4xx before the table is touched.
Deny(r) ==
  /\ pc[r] = "idle"
  /\ Finish(r, "denied")
  /\ UNCHANGED <<table, index, call, base, seen, bus, commits>>

\* handleGetVenture: one consistent read; a deleted venture is served too.
Get(r) ==
  /\ pc[r] = "get"
  /\ LET row == table[call[r].venture] IN
       \/ /\ row.status = "absent"
          /\ Finish(r, "notFound")
          /\ UNCHANGED seen
       \/ /\ row.status # "absent"
          /\ Finish(r, "ok")
          /\ seen' = [seen EXCEPT ![r] = {row}]
  /\ UNCHANGED <<table, index, call, base, bus, commits>>

\* Mutant: the index queried without its key condition.
RowsOfAnyOwner(o) ==
  {index[v] : v \in Ventures}

RowsOfOwner(o) ==
  {row \in {index[v] : v \in Ventures} : row.ownerId = o}

\* handleListVentures: a page of the owner's rows from the index (the limit and
\* the cursor choose which part of them).
List(r) ==
  /\ pc[r] = "list"
  /\ \E page \in SUBSET RowsOfOwner(call[r].sub) :
       seen' = [seen EXCEPT ![r] = page]
  /\ Finish(r, "ok")
  /\ UNCHANGED <<table, index, call, base, bus, commits>>

\* findById of the update and delete handlers finds a row they may replace.
ReadExisting(r) ==
  /\ Goto(r, "read", "put")
  /\ LET row == table[call[r].venture] IN
       /\ row.status = "active"
       /\ call[r].op = "update" => row.version = call[r].expected
       /\ base' = [base EXCEPT ![r] = row]
  /\ UNCHANGED <<table, index, call, seen, answer, bus, commits>>

\* ... or an early answer: 404, VENTURE_DELETED, the idempotent 200 of a second
\* delete, or VERSION_CONFLICT.
ReadRefuses(r) ==
  /\ pc[r] = "read"
  /\ LET row == table[call[r].venture] IN
       \/ /\ row.status = "absent"
          /\ Finish(r, "notFound")
       \/ /\ row.status = "deleted"
          /\ Finish(r, IF call[r].op = "update" THEN "deleted" ELSE "okNoOp")
       \/ /\ row.status = "active"
          /\ call[r].op = "update"
          /\ row.version # call[r].expected
          /\ Finish(r, "conflict")
  /\ UNCHANGED <<table, index, call, base, seen, bus, commits>>

\* The record the handler hands to the store.
NextRow(r) ==
  LET creates == call[r].op = "create"
      deletes == call[r].op = "delete"
  IN [ventureId |-> IF creates THEN call[r].venture ELSE base[r].ventureId,
      ownerId   |-> IF creates THEN call[r].sub ELSE base[r].ownerId,
      status    |-> IF creates THEN "active"
                    ELSE IF deletes THEN "deleted" ELSE base[r].status,
      version   |-> IF creates THEN 1 ELSE base[r].version + 1,
      manifest  |-> IF deletes THEN base[r].manifest ELSE call[r].manifest]

\* Mutant: replace() conditioned on the item's existence only.
ConditionOnExistence(r) ==
  IF call[r].op = "create"
    THEN table[call[r].venture].status = "absent"
    ELSE table[call[r].venture].status # "absent"

\* The ConditionExpression of the put, evaluated by the store at the write.
ConditionHolds(r) ==
  LET row == table[call[r].venture] IN
    IF call[r].op = "create"
      THEN row.status = "absent"
      ELSE /\ row.status # "absent"
           /\ row.version =
                IF call[r].op = "update" THEN call[r].expected ELSE base[r].version

\* Mutant: an unconditional update that increments the version in place.
ApplyIncrement(r) ==
  LET v == call[r].venture
      row == [NextRow(r) EXCEPT !.version = table[v].version + 1]
  IN /\ pc[r] = "put"
     /\ table[v].version < MaxVersion
     /\ table' = [table EXCEPT ![v] = row]
     /\ commits' = commits \union {[by |-> r, op |-> call[r].op, row |-> row]}

Apply(r) ==
  /\ pc[r] = "put"
  /\ ConditionHolds(r)
  /\ table' = [table EXCEPT ![call[r].venture] = NextRow(r)]
  /\ commits' = commits \union {[by |-> r, op |-> call[r].op, row |-> NextRow(r)]}

\* The conditional write is applied and the handler sees it succeed.
PutApplied(r) ==
  /\ Apply(r)
  /\ Goto(r, "put", "publish")
  /\ UNCHANGED <<index, call, base, seen, answer, bus>>

\* The write is applied but its response is lost: the SDK client sends the
\* same conditional put again, so the invocation stays at its write.
PutAppliedResponseLost(r) ==
  /\ Apply(r)
  /\ UNCHANGED <<index, local, bus>>

\* ConditionalCheckFailedException, mapped to VENTURE_EXISTS or VERSION_CONFLICT.
PutRefused(r) ==
  /\ pc[r] = "put"
  /\ ~ConditionHolds(r)
  /\ Finish(r, IF call[r].op = "create" THEN "exists" ELSE "conflict")
  /\ UNCHANGED <<table, index, call, base, seen, bus, commits>>

\* Any store call that fails for another reason is a 500 from the handler.
StoreFails(r) ==
  /\ pc[r] \in {"get", "list", "read", "put"}
  /\ Finish(r, "internal")
  /\ UNCHANGED <<table, index, call, base, seen, bus, commits>>

EventTypeOf(op) ==
  IF op = "create" THEN "venture.created"
  ELSE IF op = "update" THEN "venture.manifest_updated"
  ELSE "venture.deleted"

\* Mutant: the event built from the record that was read, not the one written.
EventOfExisting(r) ==
  LET read == IF call[r].op = "create" THEN NextRow(r) ELSE base[r]
  IN [type |-> EventTypeOf(call[r].op), ventureId |-> read.ventureId,
      ownerId |-> read.ownerId, version |-> read.version,
      manifest |-> IF call[r].op = "delete" THEN None ELSE read.manifest]

\* The event of the mutation; venture.deleted carries no manifest.
EventOf(r) ==
  [type |-> EventTypeOf(call[r].op), ventureId |-> NextRow(r).ventureId,
   ownerId |-> NextRow(r).ownerId, version |-> NextRow(r).version,
   manifest |-> IF call[r].op = "delete" THEN None ELSE NextRow(r).manifest]

\* Mutant: the result of PutEvents is not looked at.
PublishedUnchecked(r) ==
  /\ pc[r] = "publish"
  /\ bus' \in {bus, bus \union {EventOf(r)}}
  /\ Finish(r, IF call[r].op = "create" THEN "created" ELSE "ok")
  /\ UNCHANGED <<table, index, call, base, seen, commits>>

\* PutEvents succeeded: no warning.
Published(r) ==
  /\ pc[r] = "publish"
  /\ bus' = bus \union {EventOf(r)}
  /\ Finish(r, IF call[r].op = "create" THEN "created" ELSE "ok")
  /\ UNCHANGED <<table, index, call, base, seen, commits>>

\* PutEvents threw: the mutation stands and the answer carries a warning.  The
\* bus may or may not have taken the event before the failure was reported.
PublishFailed(r) ==
  /\ pc[r] = "publish"
  /\ bus' \in {bus, bus \union {EventOf(r)}}
  /\ Finish(r, "okWithWarning")
  /\ UNCHANGED <<table, index, call, base, seen, commits>>

\* The Lambda is killed or times out between two awaits: nobody answers.
Die(r) ==
  /\ pc[r] \notin {"idle", "done"}
  /\ Finish(r, "lost")
  /\ UNCHANGED <<table, index, call, base, seen, bus, commits>>

\* DynamoDB brings the index up to date with one row of the table.
Propagate(v) ==
  /\ index[v] # table[v]
  /\ index' = [index EXCEPT ![v] = table[v]]
  /\ UNCHANGED <<table, local, bus, commits>>

Arrive(r) ==
  \/ ArriveCreate(r) \/ ArriveUpdate(r) \/ ArriveDelete(r)
  \/ ArriveGet(r) \/ ArriveList(r) \/ Deny(r)

\* What an invocation that has been accepted does next.
Proceed(r) ==
  \/ Get(r) \/ List(r) \/ ReadExisting(r) \/ ReadRefuses(r)
  \/ PutApplied(r) \/ PutAppliedResponseLost(r) \/ PutRefused(r)
  \/ StoreFails(r) \/ Published(r) \/ PublishFailed(r)

Next ==
  \/ \E r \in Requests : Arrive(r) \/ Proceed(r) \/ Die(r)
  \/ \E v \in Ventures : Propagate(v)

Spec == Init /\ [][Next]_vars

----------------------------------------------------------------------------
(* Properties                                                              *)

\* Every variable holds rows, events and local states of the declared shape; the
\* answers and program counters of an invocation are the ones the handler has.
TypeOK ==
  /\ table \in [Ventures -> Row]
  /\ index \in [Ventures -> Row]
  /\ pc \in [Requests -> Awaits]
  /\ call \in [Requests -> Call]
  /\ base \in [Requests -> Row \union {None}]
  /\ seen \in [Requests -> SUBSET Row]
  /\ answer \in [Requests -> Answers]
  /\ bus \subseteq Event
  /\ commits \subseteq [by : Requests, op : {"create", "update", "delete"}, row : Row]

\* The committed writes of a venture form one line of versions 1, 2, ...,
\* table[v].version: no version is written twice and none is skipped, however
\* the conditional writes of concurrent requests interleave and are retried.
OneLineOfVersions ==
  /\ \A c, d \in commits :
       (c.row.ventureId = d.row.ventureId /\ c.row.version = d.row.version) => c = d
  /\ \A c \in commits : c.row.version \in 1..table[c.row.ventureId].version
  /\ \A v \in Ventures : \A n \in 1..table[v].version :
       \E c \in commits : c.row.ventureId = v /\ c.row.version = n

\* No lost update: a committed write differs from the write one version below
\* it only in what its own operation changes, so the row the handler had read
\* was still the row it replaced.
NoLostUpdate ==
  \A c, d \in commits :
    (/\ c.row.ventureId = d.row.ventureId
     /\ d.row.version = c.row.version + 1) =>
      /\ d.op # "create"
      /\ c.row.status = "active"
      /\ d.row.ownerId = c.row.ownerId
      /\ d.op = "update" => d.row.status = "active"
      /\ d.op = "delete" => /\ d.row.status = "deleted"
                            /\ d.row.manifest = c.row.manifest

\* An invocation commits at most once, even when the response to its
\* conditional write is lost and the SDK sends the write again.
CommitsAtMostOnce ==
  \A c, d \in commits : c.by = d.by => c = d

\* Every event on the bus describes a write that really committed, and a
\* venture's deletion is announced by at most one event, of its last version.
BusMatchesTable ==
  \A e \in bus :
    /\ \E c \in commits :
         /\ c.row.ventureId = e.ventureId
         /\ c.row.version = e.version
         /\ c.row.ownerId = e.ownerId
         /\ EventTypeOf(c.op) = e.type
         /\ c.op # "delete" => c.row.manifest = e.manifest
    /\ e.type = "venture.deleted" =>
         \A f \in bus : f.ventureId = e.ventureId => f.version <= e.version

\* publishMutationEvent's promise that an empty list of warnings means the
\* event is on the bus: a mutation answered 200 or 201 with no warning has its
\* event there.
CleanAnswerIsOnTheBus ==
  \A c \in commits :
    answer[c.by] \in {"ok", "created"} => EventOf(c.by) \in bus

\* What GET and list return was committed and is no newer than the table, and
\* a listing shows only rows whose owner still is the one asked for.
ReadsAreCommitted ==
  \A r \in Requests : \A row \in seen[r] :
    /\ \E c \in commits : c.row = row
    /\ row.version <= table[row.ventureId].version
    /\ call[r].op = "list" => table[row.ventureId].ownerId = call[r].sub

\* A deleted venture never changes again, whatever was read before the delete.
DeletedIsFinal ==
  [][\A v \in Ventures : table[v].status = "deleted" => table'[v] = table[v]]_vars

\* The registry implements the ledger: its table and history, seen without the
\* requests, and an event of the bus as an announcement of its row.
AnnouncedRows ==
  {c.row : c \in {d \in commits :
     \E e \in bus : e.ventureId = d.row.ventureId /\ e.version = d.row.version}}

Ledger == INSTANCE VentureLedger WITH
  current <- table,
  past <- {c.row : c \in commits},
  announced <- AnnouncedRows

ImplementsLedger == Ledger!Spec

\* event-publish.ts:10-11: to fail a request whose write has committed "would leave
\* the caller believing a committed mutation did not happen, which is worse", so
\* an invocation that committed does not answer with an error.
CommittedIsNotRefused ==
  \A c \in commits : answer[c.by] \notin {"exists", "conflict", "internal"}
============================================================================
