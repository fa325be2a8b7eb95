----------------------- MODULE VentureRegistryProofs -----------------------
(***************************************************************************)
(* Proofs about VentureRegistry, for any number of ventures, owners,       *)
(* manifests and invocations.  The argument is one inductive invariant,    *)
(* IInv: the table holds the last committed write of each venture, and an  *)
(* invocation about to write either still holds the row that is stored or  *)
(* holds one of a lower version, so that the store will refuse it.         *)
(***************************************************************************)
EXTENDS VentureRegistry, TLAPS

Mutations == {"create", "update", "delete"}

\* What an invocation carries to its write.
Prepared(r) ==
  /\ call[r].op \in Mutations
  /\ call[r].venture \in Ventures
  /\ call[r].op = "create" => call[r].sub \in Owners
  /\ call[r].op # "delete" => call[r].manifest \in Manifests
  /\ call[r].op # "create" => /\ base[r] \in Row
                              /\ base[r].ventureId = call[r].venture
                              /\ base[r].status = "active"
                              /\ base[r].version > 0
  /\ call[r].op = "update" => base[r].version = call[r].expected

RequestsPrepared ==
  \A r \in Requests :
    /\ pc[r] \in {"put", "publish"} => Prepared(r)
    /\ pc[r] = "read" => /\ call[r].op \in {"update", "delete"}
                         /\ call[r].venture \in Ventures
                         /\ call[r].op = "update" => call[r].manifest \in Manifests
    /\ pc[r] = "get" => call[r].venture \in Ventures
    /\ pc[r] = "idle" => answer[r] = "none"

\* A row sits under its own id, and only the absent row has version 0.
RowsInPlace ==
  \A v \in Ventures :
    /\ table[v].ventureId = v
    /\ table[v].status = "absent" <=> table[v].version = 0

Typed == TypeOK /\ RequestsPrepared /\ RowsInPlace

\* The table holds the last committed write of each venture.
StoredIsCommitted ==
  \A v \in Ventures :
    table[v].status # "absent" => \E c \in commits : c.row = table[v]

\* The row read is the stored one, or an older one.
BaseIsCurrentOrOld ==
  \A r \in Requests : (pc[r] = "put" /\ call[r].op # "create") =>
    /\ base[r].version <= table[call[r].venture].version
    /\ base[r].version = table[call[r].venture].version
         => base[r] = table[call[r].venture]

\* Every committed write is the one its invocation prepared.
CommitsAreTheirRequests ==
  \A c \in commits :
    /\ c.op = call[c.by].op
    /\ Prepared(c.by)
    /\ c.row = NextRow(c.by)
    /\ pc[c.by] \in {"put", "publish", "done"}

\* Past its write, an invocation has committed.
PublishersCommitted ==
  \A r \in Requests : pc[r] = "publish" => \E c \in commits : c.by = r

\* A deletion is the last version of its venture.
DeletionsAreLast ==
  \A c \in commits :
    c.row.status = "deleted" => c.row = table[c.row.ventureId]

\* Every event was published by an invocation that had committed.
EventsAreCommitted ==
  \A e \in bus : \E c \in commits : e = EventOf(c.by)

\* An invocation is done exactly when it has an outcome.
AnsweredWhenDone ==
  \A r \in Requests : answer[r] # "none" <=> pc[r] = "done"

History ==
  /\ StoredIsCommitted
  /\ BaseIsCurrentOrOld
  /\ CommitsAreTheirRequests
  /\ PublishersCommitted
  /\ DeletionsAreLast
  /\ OneLineOfVersions
  /\ NoLostUpdate
  /\ EventsAreCommitted
  /\ AnsweredWhenDone
  /\ CleanAnswerIsOnTheBus

IInv == Typed /\ History

----------------------------------------------------------------------------
(* Types                                                                   *)

\* A prepared write is a row of its own venture, one version above its base.
LEMMA NextRowOfPrepared ==
  ASSUME Typed, NEW r \in Requests, Prepared(r)
  PROVE  /\ NextRow(r) \in Row
         /\ NextRow(r).ventureId = call[r].venture
         /\ NextRow(r).status \in {"active", "deleted"}
         /\ call[r].op = "create" => NextRow(r).version = 1
         /\ call[r].op # "create" => NextRow(r).version = base[r].version + 1
         /\ call[r].op # "create" => NextRow(r).ownerId = base[r].ownerId
         /\ call[r].op = "delete" => /\ NextRow(r).status = "deleted"
                                     /\ NextRow(r).manifest = base[r].manifest
         /\ call[r].op # "delete" => NextRow(r).status = "active"
         /\ EventOf(r) \in Event
<1>0. call[r] \in Call
  BY DEF Typed, TypeOK
<1>1. CASE call[r].op = "create"
  BY <1>0, <1>1 DEF Prepared, Row, NextRow, EventOf, EventTypeOf, Event, Call
<1>2. CASE call[r].op = "update"
  BY <1>0, <1>2 DEF Prepared, Row, NextRow, EventOf, EventTypeOf, Event, Call
<1>3. CASE call[r].op = "delete"
  BY <1>0, <1>3 DEF Prepared, Row, NextRow, EventOf, EventTypeOf, Event, Call
<1>4. QED
  BY <1>1, <1>2, <1>3 DEF Prepared, Mutations

LEMMA InitTyped == Init => Typed
BY NoneIsNothing DEF Init, Typed, TypeOK, RequestsPrepared, RowsInPlace, Row, NoRow,
   Call, NoCall, Awaits, Answers, Event

LEMMA NextTyped == Typed /\ [Next]_vars => Typed'
<1> SUFFICES ASSUME Typed, [Next]_vars PROVE Typed'
  OBVIOUS
<1> USE DEF Typed, TypeOK
<1>1. ASSUME NEW r \in Requests, Arrive(r) PROVE Typed'
  <2>1. ASSUME NEW to \in {"put", "read", "get", "list"}, NEW request \in Call,
               Accept(r, to, request),
               to = "put" => /\ request.op = "create"
                             /\ request.venture \in Ventures
                             /\ request.sub \in Owners
                             /\ request.manifest \in Manifests,
               to = "read" => /\ request.op \in {"update", "delete"}
                              /\ request.venture \in Ventures
                              /\ request.op = "update" => request.manifest \in Manifests,
               to = "get" => request.venture \in Ventures
        PROVE  Typed'
    BY <2>1 DEF Accept, Goto, Awaits, RequestsPrepared, Prepared, Mutations, RowsInPlace
  <2>2. CASE ArriveCreate(r)
    BY <2>1, <2>2 DEF ArriveCreate, Call
  <2>3. CASE ArriveUpdate(r)
    BY <2>1, <2>3, MaxVersionIsPositive DEF ArriveUpdate, Call
  <2>4. CASE ArriveDelete(r)
    BY <2>1, <2>4 DEF ArriveDelete, Call
  <2>5. CASE ArriveGet(r)
    BY <2>1, <2>5 DEF ArriveGet, Call
  <2>6. CASE ArriveList(r)
    BY <2>1, <2>6 DEF ArriveList, Call
  <2>7. CASE Deny(r)
    BY <2>7 DEF Deny, Finish, Awaits, Answers, RequestsPrepared, Prepared, RowsInPlace
  <2>8. QED
    BY <1>1, <2>2, <2>3, <2>4, <2>5, <2>6, <2>7 DEF Arrive
<1>2. ASSUME NEW r \in Requests, Get(r) PROVE Typed'
  BY <1>2 DEF Get, Finish, Awaits, Answers, RequestsPrepared, Prepared, RowsInPlace
<1>3. ASSUME NEW r \in Requests, List(r) PROVE Typed'
  BY <1>3 DEF List, RowsOfOwner, Finish, Awaits, Answers, RequestsPrepared, Prepared,
              RowsInPlace
<1>4. ASSUME NEW r \in Requests, ReadExisting(r) PROVE Typed'
  BY <1>4 DEF ReadExisting, Goto, Awaits, RequestsPrepared, Prepared, Mutations,
              RowsInPlace, Row
<1>5. ASSUME NEW r \in Requests,
             ReadRefuses(r) \/ PutRefused(r) \/ StoreFails(r) \/ Die(r)
      PROVE Typed'
  BY <1>5 DEF ReadRefuses, PutRefused, StoreFails, Die, Finish, Awaits, Answers,
              RequestsPrepared, Prepared, RowsInPlace
<1>6. ASSUME NEW r \in Requests, PutApplied(r) \/ PutAppliedResponseLost(r)
      PROVE Typed'
  <2>1. pc[r] = "put" /\ Prepared(r)
    BY <1>6 DEF PutApplied, PutAppliedResponseLost, Apply, RequestsPrepared
  <2>2. /\ NextRow(r) \in Row
        /\ NextRow(r).ventureId = call[r].venture
        /\ NextRow(r).status # "absent"
        /\ NextRow(r).version # 0
    BY <2>1, NextRowOfPrepared DEF Prepared, Row
  <2>3. [by |-> r, op |-> call[r].op, row |-> NextRow(r)]
          \in [by : Requests, op : {"create", "update", "delete"}, row : Row]
    BY <2>1, <2>2 DEF Prepared, Mutations
  <2>4. TypeOK'
    BY <1>6, <2>1, <2>2, <2>3
       DEF PutApplied, PutAppliedResponseLost, Apply, Goto, local, Awaits, Prepared
  <2>5. RequestsPrepared'
    BY <1>6 DEF PutApplied, PutAppliedResponseLost, Apply, Goto, local,
                RequestsPrepared, Prepared
  <2>6. RowsInPlace'
    BY <1>6, <2>1, <2>2
       DEF PutApplied, PutAppliedResponseLost, Apply, RowsInPlace, Prepared
  <2>7. QED
    BY <2>4, <2>5, <2>6
<1>7. ASSUME NEW r \in Requests, Published(r) \/ PublishFailed(r) PROVE Typed'
  <2>1. EventOf(r) \in Event
    BY <1>7, NextRowOfPrepared DEF Published, PublishFailed, RequestsPrepared
  <2>2. QED
    BY <1>7, <2>1 DEF Published, PublishFailed, Finish, Awaits, Answers,
                      RequestsPrepared, Prepared, RowsInPlace
<1>8. ASSUME NEW v \in Ventures, Propagate(v) PROVE Typed'
  BY <1>8 DEF Propagate, local, RequestsPrepared, Prepared, RowsInPlace
<1>9. CASE UNCHANGED vars
  BY <1>9 DEF vars, RequestsPrepared, Prepared, RowsInPlace
<1>10. QED
  BY <1>1, <1>2, <1>3, <1>4, <1>5, <1>6, <1>7, <1>8, <1>9 DEF Next, Proceed

----------------------------------------------------------------------------
(* History                                                                 *)

LEMMA InitHistory == Init => History
BY DEF Init, History, StoredIsCommitted, BaseIsCurrentOrOld, CommitsAreTheirRequests,
   PublishersCommitted, DeletionsAreLast, OneLineOfVersions, NoLostUpdate,
   EventsAreCommitted, AnsweredWhenDone, CleanAnswerIsOnTheBus, NoRow

\* What a step that commits nothing and publishes nothing must keep: the calls
\* and bases of the invocations that have committed.
LEMMA QuietStep ==
  ASSUME IInv, Typed', UNCHANGED <<table, bus, commits>>,
         \A c \in commits : call'[c.by] = call[c.by] /\ base'[c.by] = base[c.by],
         \A c \in commits : pc'[c.by] = pc[c.by] \/ pc'[c.by] = "done",
         \A c \in commits : answer'[c.by] = answer[c.by]
                              \/ answer'[c.by] \notin {"ok", "created"},
         \A s \in Requests : pc'[s] = "publish" => pc[s] = "publish",
         BaseIsCurrentOrOld', AnsweredWhenDone'
  PROVE  History'
<1> USE DEF IInv, History
<1>1. \A c \in commits : NextRow(c.by)' = NextRow(c.by) /\ EventOf(c.by)' = EventOf(c.by)
  BY DEF NextRow, EventOf
<1>2. StoredIsCommitted'
  BY DEF StoredIsCommitted
<1>3. CommitsAreTheirRequests'
  BY <1>1 DEF CommitsAreTheirRequests, Prepared
<1>4. PublishersCommitted'
  BY DEF PublishersCommitted
<1>5. DeletionsAreLast'
  BY DEF DeletionsAreLast
<1>6. OneLineOfVersions' /\ NoLostUpdate'
  BY DEF OneLineOfVersions, NoLostUpdate
<1>7. EventsAreCommitted'
  BY <1>1 DEF EventsAreCommitted
<1>8. CleanAnswerIsOnTheBus'
  BY <1>1 DEF CleanAnswerIsOnTheBus
<1>9. QED
  BY <1>2, <1>3, <1>4, <1>5, <1>6, <1>7, <1>8

\* A committing invocation is at its write, at its publish or done.
LEMMA CommittersAreLate ==
  ASSUME IInv, NEW c \in commits
  PROVE  c.by \in Requests /\ pc[c.by] \in {"put", "publish", "done"}
BY DEF IInv, Typed, TypeOK, History, CommitsAreTheirRequests

LEMMA FinishKeepsHistory ==
  ASSUME IInv, Typed', NEW r \in Requests, NEW outcome \in Answers \ {"none"},
         Finish(r, outcome), UNCHANGED <<table, call, base, bus, commits>>,
         outcome \in {"ok", "created"} => pc[r] \in {"get", "list"}
  PROVE  History'
<1>1. BaseIsCurrentOrOld'
  BY DEF Finish, BaseIsCurrentOrOld, IInv, Typed, TypeOK, History
<1>2. AnsweredWhenDone'
  BY DEF Finish, AnsweredWhenDone, IInv, Typed, TypeOK, History
<1>3. \A c \in commits : /\ pc'[c.by] = pc[c.by] \/ pc'[c.by] = "done"
                         /\ answer'[c.by] = answer[c.by]
                              \/ answer'[c.by] \notin {"ok", "created"}
  BY CommittersAreLate DEF Finish, IInv, Typed, TypeOK
<1>4. \A s \in Requests : pc'[s] = "publish" => pc[s] = "publish"
  BY DEF Finish, IInv, Typed, TypeOK
<1>5. QED
  BY <1>1, <1>2, <1>3, <1>4, QuietStep

LEMMA AcceptKeepsHistory ==
  ASSUME IInv, Typed', NEW r \in Requests, NEW to \in {"read", "get", "list", "put"},
         NEW request, Accept(r, to, request), to = "put" => request.op = "create"
  PROVE  History'
<1>1. BaseIsCurrentOrOld'
  BY DEF Accept, Goto, BaseIsCurrentOrOld, IInv, Typed, TypeOK, History
<1>2. AnsweredWhenDone'
  BY DEF Accept, Goto, AnsweredWhenDone, IInv, Typed, TypeOK, History
<1>3. \A c \in commits : c.by # r
  BY CommittersAreLate DEF Accept, Goto
<1>4. QED
  BY <1>1, <1>2, <1>3, QuietStep, CommittersAreLate
     DEF Accept, Goto, IInv, Typed, TypeOK

LEMMA ReadKeepsHistory ==
  ASSUME IInv, Typed', NEW r \in Requests, ReadExisting(r)
  PROVE  History'
<1>1. BaseIsCurrentOrOld'
  BY DEF ReadExisting, Goto, BaseIsCurrentOrOld, IInv, Typed, TypeOK, History,
         RequestsPrepared, Row
<1>2. AnsweredWhenDone'
  BY DEF ReadExisting, Goto, AnsweredWhenDone, IInv, Typed, TypeOK, History
<1>3. \A c \in commits : c.by # r
  BY CommittersAreLate DEF ReadExisting, Goto
<1>4. QED
  BY <1>1, <1>2, <1>3, QuietStep, CommittersAreLate
     DEF ReadExisting, Goto, IInv, Typed, TypeOK

\* The heart of the argument: a conditional write that is applied replaces the
\* very row its invocation had read, by the next version of it.
LEMMA AppliedReplacesBase ==
  ASSUME IInv, NEW r \in Requests, Apply(r)
  PROVE  /\ Prepared(r)
         /\ NextRow(r) \in Row
         /\ NextRow(r).ventureId = call[r].venture
         /\ NextRow(r).version = table[call[r].venture].version + 1
         /\ call[r].op = "create" => table[call[r].venture].version = 0
         /\ call[r].op # "create" => base[r] = table[call[r].venture]
         /\ table[call[r].venture].status # "deleted"
<1> DEFINE v == call[r].venture
<1>1. Prepared(r) /\ v \in Ventures /\ table[v] \in Row
  BY DEF Apply, IInv, Typed, TypeOK, RequestsPrepared, Prepared
<1>2. CASE call[r].op = "create"
  BY <1>1, <1>2, NextRowOfPrepared
     DEF Apply, ConditionHolds, IInv, Typed, RowsInPlace
<1>3. CASE call[r].op # "create"
  <2>1. table[v].version = base[r].version
    BY <1>1, <1>3 DEF Apply, ConditionHolds, Prepared, Mutations
  <2>2. base[r] = table[v]
    BY <1>3, <2>1 DEF Apply, IInv, History, BaseIsCurrentOrOld
  <2>3. QED
    BY <1>1, <1>3, <2>1, <2>2, NextRowOfPrepared DEF IInv, Prepared
<1>4. QED
  BY <1>2, <1>3

LEMMA ApplyKeepsHistory ==
  ASSUME IInv, Typed', NEW r \in Requests, Apply(r),
         UNCHANGED <<call, base, answer, bus>>,
         pc' = pc \/ Goto(r, "put", "publish")
  PROVE  History'
<1> DEFINE v == call[r].venture
           new == [by |-> r, op |-> call[r].op, row |-> NextRow(r)]
<1> USE DEF IInv, History
<1>1. /\ Prepared(r)
      /\ v \in Ventures
      /\ NextRow(r) \in Row
      /\ NextRow(r).ventureId = v
      /\ NextRow(r).version = table[v].version + 1
      /\ table[v] \in Row
      /\ table[v].ventureId = v
      /\ table[v].status # "deleted"
  BY AppliedReplacesBase DEF Prepared, Typed, TypeOK, RowsInPlace
<1>2. /\ table' = [table EXCEPT ![v] = NextRow(r)]
      /\ commits' = commits \union {new}
      /\ new.row = NextRow(r) /\ new.by = r /\ new.op = call[r].op
      /\ pc[r] = "put"
  BY DEF Apply
<1> HIDE DEF new
<1>3. \A c \in commits : c.by \in Requests /\ c.row \in Row
  BY DEF Typed, TypeOK
<1>4. \A c \in commits : c.row.ventureId = v => c.row.version <= table[v].version
  BY <1>1, <1>3 DEF OneLineOfVersions, Row
<1>5. \A s \in Requests : NextRow(s)' = NextRow(s) /\ EventOf(s)' = EventOf(s)
  BY DEF NextRow, EventOf
<1>6. \A s \in Requests : /\ s # r => pc'[s] = pc[s]
                          /\ pc'[r] \in {"put", "publish"}
  BY <1>2 DEF Goto, Typed, TypeOK
<1>7. StoredIsCommitted'
  <2> SUFFICES ASSUME NEW u \in Ventures, table'[u].status # "absent"
               PROVE  \E c \in commits' : c.row = table'[u]
    BY DEF StoredIsCommitted
  <2>1. CASE u = v
    BY <1>1, <1>2, <2>1 DEF Typed, TypeOK
  <2>2. CASE u # v
    BY <1>1, <1>2, <2>2 DEF StoredIsCommitted, Typed, TypeOK
  <2>3. QED
    BY <2>1, <2>2
<1>8. BaseIsCurrentOrOld'
  <2> SUFFICES ASSUME NEW s \in Requests, pc'[s] = "put", call[s].op # "create"
               PROVE  /\ base[s].version <= table'[call[s].venture].version
                      /\ base[s].version = table'[call[s].venture].version
                           => base[s] = table'[call[s].venture]
    BY DEF BaseIsCurrentOrOld
  <2>1. pc[s] = "put" /\ call[s].venture \in Ventures /\ base[s] \in Row
    BY <1>2, <1>6 DEF Typed, RequestsPrepared, Prepared
  <2>2. base[s].version <= table[call[s].venture].version
    BY <2>1 DEF BaseIsCurrentOrOld
  <2>3. CASE call[s].venture = v
    BY <1>1, <1>2, <2>1, <2>2, <2>3 DEF Row, Typed, TypeOK
  <2>4. CASE call[s].venture # v
    BY <1>2, <2>1, <2>4 DEF BaseIsCurrentOrOld, Typed, TypeOK
  <2>5. QED
    BY <2>3, <2>4
<1>9. CommitsAreTheirRequests'
  BY <1>1, <1>2, <1>3, <1>5, <1>6 DEF CommitsAreTheirRequests, Prepared
<1>10. PublishersCommitted'
  BY <1>2, <1>6 DEF PublishersCommitted
<1>11. DeletionsAreLast'
  BY <1>1, <1>2, <1>3 DEF DeletionsAreLast, Typed, TypeOK, Row
<1>12. OneLineOfVersions'
  <2>1. \A c, d \in commits' :
          (c.row.ventureId = d.row.ventureId /\ c.row.version = d.row.version) => c = d
    BY <1>1, <1>2, <1>3, <1>4 DEF OneLineOfVersions, Row
  <2>2. \A c \in commits' : c.row.version \in 1..table'[c.row.ventureId].version
    BY <1>1, <1>2, <1>3, <1>4 DEF OneLineOfVersions, Row, Typed, TypeOK
  <2>3. \A u \in Ventures : \A n \in 1..table'[u].version :
          \E c \in commits' : c.row.ventureId = u /\ c.row.version = n
    <3> SUFFICES ASSUME NEW u \in Ventures, NEW n \in 1..table'[u].version
                 PROVE  \E c \in commits' : c.row.ventureId = u /\ c.row.version = n
      OBVIOUS
    <3>1. CASE u = v /\ n = NextRow(r).version
      BY <1>1, <1>2, <3>1
    <3>2. CASE ~(u = v /\ n = NextRow(r).version)
      <4>1. n \in 1..table[u].version
        BY <1>1, <1>2, <3>2 DEF Row, Typed, TypeOK
      <4>2. QED
        BY <1>2, <4>1 DEF OneLineOfVersions
    <3>3. QED
      BY <3>1, <3>2
  <2>4. QED
    BY <2>1, <2>2, <2>3 DEF OneLineOfVersions
<1>13. NoLostUpdate'
  <2> SUFFICES ASSUME NEW c \in commits', NEW d \in commits',
                      c.row.ventureId = d.row.ventureId,
                      d.row.version = c.row.version + 1
               PROVE  /\ d.op # "create"
                      /\ c.row.status = "active"
                      /\ d.row.ownerId = c.row.ownerId
                      /\ d.op = "update" => d.row.status = "active"
                      /\ d.op = "delete" => /\ d.row.status = "deleted"
                                            /\ d.row.manifest = c.row.manifest
    BY DEF NoLostUpdate
  <2>1. CASE c \in commits /\ d \in commits
    BY <2>1 DEF NoLostUpdate
  <2>2. CASE c = new
    <3>1. d.row.version = table[v].version + 2 /\ d.row.ventureId = v
      BY <1>1, <1>2, <2>2 DEF Row
    <3>2. d \notin commits /\ d # new
      BY <1>1, <1>2, <1>4, <3>1 DEF Row
    <3>3. QED
      BY <1>2, <3>2
  <2>3. CASE c \in commits /\ d = new
    <3>1. /\ c.row.version = table[v].version
          /\ c.row.ventureId = v
          /\ c.row.version > 0
      <4>1. c.row \in Row /\ d.row = NextRow(r)
        BY <1>2, <1>3, <2>3
      <4>2. c.row.version \in Nat /\ table[v].version \in Nat
        BY <1>1, <4>1 DEF Row
      <4>3. c.row.version > 0
        BY <2>3 DEF OneLineOfVersions
      <4> QED BY <1>1, <4>1, <4>2, <4>3
    <3>2. c.row = table[v]
      <4>1. table[v].status # "absent"
        <5>1. table[v].version # 0 /\ v \in Ventures
          BY <1>1, <3>1
        <5> QED BY <1>1, <5>1 DEF Typed, RowsInPlace
      <4>2. PICK e \in commits : e.row = table[v]
        BY <1>1, <4>1 DEF StoredIsCommitted
      <4>3. QED
        BY <1>1, <2>3, <3>1, <4>2 DEF OneLineOfVersions
    <3>3. call[r].op # "create" /\ base[r] = table[v]
      BY <1>1, <3>1, AppliedReplacesBase DEF Row
    <3>4. QED
      BY <1>1, <1>2, <2>3, <3>2, <3>3, NextRowOfPrepared DEF Prepared, Mutations
  <2>4. QED
    BY <1>2, <2>1, <2>2, <2>3
<1>14. EventsAreCommitted'
  BY <1>2, <1>3, <1>5 DEF EventsAreCommitted
<1>15. AnsweredWhenDone'
  BY <1>2, <1>6 DEF AnsweredWhenDone
<1>16. CleanAnswerIsOnTheBus'
  BY <1>2, <1>3, <1>5 DEF CleanAnswerIsOnTheBus, AnsweredWhenDone
<1>17. QED
  BY <1>7, <1>8, <1>9, <1>10, <1>11, <1>12, <1>13, <1>14, <1>15, <1>16

LEMMA PublishKeepsHistory ==
  ASSUME IInv, Typed', NEW r \in Requests, Published(r) \/ PublishFailed(r)
  PROVE  History'
<1> USE DEF IInv, History
<1>1. /\ pc[r] = "publish"
      /\ UNCHANGED <<table, call, base, commits>>
      /\ pc' = [pc EXCEPT ![r] = "done"]
  BY DEF Published, PublishFailed, Finish
<1>2. PICK c0 \in commits : c0.by = r
  BY <1>1 DEF PublishersCommitted
<1>3. \A c \in commits : c.by \in Requests
  BY DEF Typed, TypeOK
<1>4. \A s \in Requests : NextRow(s)' = NextRow(s) /\ EventOf(s)' = EventOf(s)
  BY <1>1 DEF NextRow, EventOf
<1>5. bus' \in {bus, bus \union {EventOf(r)}}
  BY DEF Published, PublishFailed
<1>6. \E outcome \in Answers \ {"none"} :
        /\ answer' = [answer EXCEPT ![r] = outcome]
        /\ outcome \in {"ok", "created"} => EventOf(r) \in bus'
  BY DEF Published, PublishFailed, Finish, Answers
<1>7. StoredIsCommitted' /\ DeletionsAreLast' /\ OneLineOfVersions' /\ NoLostUpdate'
  BY <1>1 DEF StoredIsCommitted, DeletionsAreLast, OneLineOfVersions, NoLostUpdate
<1>8. BaseIsCurrentOrOld' /\ PublishersCommitted'
  BY <1>1 DEF BaseIsCurrentOrOld, PublishersCommitted, Typed, TypeOK
<1>9. CommitsAreTheirRequests'
  BY <1>1, <1>3, <1>4 DEF CommitsAreTheirRequests, Prepared, Typed, TypeOK
<1>10. EventsAreCommitted'
  BY <1>1, <1>2, <1>3, <1>4, <1>5 DEF EventsAreCommitted
<1>11. AnsweredWhenDone'
  BY <1>1, <1>6 DEF AnsweredWhenDone, Typed, TypeOK
<1>12. CleanAnswerIsOnTheBus'
  BY <1>1, <1>3, <1>4, <1>5, <1>6 DEF CleanAnswerIsOnTheBus, Typed, TypeOK
<1>13. QED
  BY <1>7, <1>8, <1>9, <1>10, <1>11, <1>12

LEMMA NextIInv == IInv /\ [Next]_vars => IInv'
<1> SUFFICES ASSUME IInv, [Next]_vars PROVE History'
  BY NextTyped DEF IInv
<1>0. Typed'
  BY NextTyped DEF IInv
<1>1. ASSUME NEW r \in Requests, Arrive(r) PROVE History'
  <2>1. CASE ArriveCreate(r)
    BY <1>0, <2>1, AcceptKeepsHistory DEF ArriveCreate
  <2>2. CASE ArriveUpdate(r)
    BY <1>0, <2>2, AcceptKeepsHistory DEF ArriveUpdate
  <2>3. CASE ArriveDelete(r)
    BY <1>0, <2>3, AcceptKeepsHistory DEF ArriveDelete
  <2>4. CASE ArriveGet(r)
    BY <1>0, <2>4, AcceptKeepsHistory DEF ArriveGet
  <2>5. CASE ArriveList(r)
    BY <1>0, <2>5, AcceptKeepsHistory DEF ArriveList
  <2>6. CASE Deny(r)
    BY <1>0, <2>6, FinishKeepsHistory DEF Deny, Answers
  <2>7. QED
    BY <1>1, <2>1, <2>2, <2>3, <2>4, <2>5, <2>6 DEF Arrive
<1>2. ASSUME NEW r \in Requests, Get(r) PROVE History'
  BY <1>0, <1>2, FinishKeepsHistory DEF Get, Answers
<1>3. ASSUME NEW r \in Requests, List(r) PROVE History'
  BY <1>0, <1>3, FinishKeepsHistory DEF List, Answers
<1>4. ASSUME NEW r \in Requests, ReadRefuses(r) PROVE History'
  BY <1>0, <1>4, FinishKeepsHistory DEF ReadRefuses, Answers
<1>5. ASSUME NEW r \in Requests, PutRefused(r) \/ StoreFails(r) \/ Die(r) PROVE History'
  BY <1>0, <1>5, FinishKeepsHistory DEF PutRefused, StoreFails, Die, Answers
<1>6. ASSUME NEW r \in Requests, PutApplied(r) \/ PutAppliedResponseLost(r)
      PROVE History'
  BY <1>0, <1>6, ApplyKeepsHistory DEF PutApplied, PutAppliedResponseLost, local
<1>7. ASSUME NEW v \in Ventures, Propagate(v) PROVE History'
  BY <1>0, <1>7, QuietStep
     DEF Propagate, local, IInv, History, BaseIsCurrentOrOld, AnsweredWhenDone
<1>8. CASE UNCHANGED vars
  BY <1>0, <1>8, QuietStep DEF vars, IInv, History, BaseIsCurrentOrOld, AnsweredWhenDone
<1>9. QED
  BY <1>0, <1>1, <1>2, <1>3, <1>4, <1>5, <1>6, <1>7, <1>8, ReadKeepsHistory,
     PublishKeepsHistory DEF Next, Proceed

\* IInv is inductive: it holds in every state the service can reach.
THEOREM Invariance == Spec => []IInv
<1>1. Init => IInv
  BY InitTyped, InitHistory DEF IInv
<1>2. QED
  BY <1>1, NextIInv, PTL DEF Spec

----------------------------------------------------------------------------
(* What follows                                                            *)

\* Every variable keeps its declared shape.
THEOREM TypeCorrect == Spec => []TypeOK
<1>1. IInv => TypeOK
  BY DEF IInv, Typed
<1>2. QED
  BY <1>1, Invariance, PTL

\* The committed writes of a venture are numbered 1, 2, ... without a gap and
\* without a repetition: optimistic concurrency serialises every mutation.
THEOREM VersionsFormOneLine == Spec => []OneLineOfVersions
<1>1. IInv => OneLineOfVersions
  BY DEF IInv, History
<1>2. QED
  BY <1>1, Invariance, PTL

\* No committed write undoes part of the write before it.
THEOREM NoUpdateIsLost == Spec => []NoLostUpdate
<1>1. IInv => NoLostUpdate
  BY DEF IInv, History
<1>2. QED
  BY <1>1, Invariance, PTL

\* A lost response and the SDK's second attempt never commit a mutation twice.
THEOREM InvocationsCommitAtMostOnce == Spec => []CommitsAtMostOnce
<1>1. IInv => CommitsAtMostOnce
  BY DEF IInv, Typed, TypeOK, History, CommitsAreTheirRequests, CommitsAtMostOnce
<1>2. QED
  BY <1>1, Invariance, PTL

\* A mutation answered without a warning has its event on the bus.
THEOREM CleanAnswersArePublished == Spec => []CleanAnswerIsOnTheBus
<1>1. IInv => CleanAnswerIsOnTheBus
  BY DEF IInv, History
<1>2. QED
  BY <1>1, Invariance, PTL

\* Every event of the bus is that of a committed write, and nothing is announced
\* of a venture beyond its deletion.
THEOREM EventsMatchCommits == Spec => []BusMatchesTable
<1>1. ASSUME IInv PROVE BusMatchesTable
  <2> USE <1>1 DEF IInv, History
  <2>1. ASSUME NEW e \in bus, NEW c \in commits, e = EventOf(c.by)
        PROVE  /\ c.row.ventureId = e.ventureId
               /\ c.row.version = e.version
               /\ c.row.ownerId = e.ownerId
               /\ EventTypeOf(c.op) = e.type
               /\ c.op # "delete" => c.row.manifest = e.manifest
    BY <2>1 DEF CommitsAreTheirRequests, EventOf
  <2>2. ASSUME NEW e \in bus, NEW f \in bus, e.type = "venture.deleted",
               f.ventureId = e.ventureId
        PROVE  f.version <= e.version
    <3>1. PICK c \in commits : e = EventOf(c.by)
      BY DEF EventsAreCommitted
    <3>2. PICK d \in commits : f = EventOf(d.by)
      BY DEF EventsAreCommitted
    <3>3. c.op = "delete" /\ c.by \in Requests /\ Prepared(c.by)
      BY <2>1, <2>2, <3>1
         DEF EventTypeOf, Typed, TypeOK, CommitsAreTheirRequests
    <3>4. c.row.status = "deleted"
      BY <3>3, NextRowOfPrepared DEF CommitsAreTheirRequests
    <3>5. c.row = table[c.row.ventureId]
      BY <3>4 DEF DeletionsAreLast
    <3>6. /\ c.row.ventureId = e.ventureId /\ c.row.version = e.version
          /\ d.row.ventureId = f.ventureId /\ d.row.version = f.version
      BY <2>1, <3>1, <3>2
    <3>7. QED
      BY <2>2, <3>5, <3>6 DEF OneLineOfVersions, Typed, TypeOK, Row
  <2>3. QED
    BY <2>1, <2>2 DEF BusMatchesTable, EventsAreCommitted
<1>2. QED
  BY <1>1, Invariance, PTL

\* A deleted venture is immutable, including against a writer that had read it
\* before the deletion.
THEOREM DeletionIsFinal == Spec => DeletedIsFinal
<1>1. ASSUME IInv, [Next]_vars, NEW v \in Ventures, table[v].status = "deleted"
      PROVE  table'[v] = table[v]
  <2>1. ASSUME NEW r \in Requests, Apply(r) PROVE table'[v] = table[v]
    BY <1>1, <2>1, AppliedReplacesBase DEF Apply, IInv, Typed, TypeOK
  <2>2. CASE UNCHANGED table
    BY <2>2
  <2>3. QED
    BY <1>1, <2>1, <2>2
       DEF Next, Arrive, ArriveCreate, ArriveUpdate, ArriveDelete, ArriveGet, ArriveList,
           Accept, Deny, Proceed, Get, List, ReadExisting, ReadRefuses, PutApplied,
           PutAppliedResponseLost, PutRefused, StoreFails, Published, PublishFailed,
           Die, Propagate, vars
<1>2. IInv /\ [Next]_vars
        => [\A v \in Ventures : table[v].status = "deleted" => table'[v] = table[v]]_vars
  BY <1>1
<1>3. QED
  BY <1>2, Invariance, PTL DEF Spec, DeletedIsFinal

----------------------------------------------------------------------------
(* Reads                                                                   *)

\* Only ids that were never written are absent.
AbsentRowsAreEmpty ==
  \A v \in Ventures :
    /\ table[v].status = "absent" => table[v].ownerId = None
    /\ index[v].status = "absent" => index[v].ownerId = None

\* The index holds, under each id, nothing or some committed write.
IndexIsCommitted ==
  \A v \in Ventures :
    index[v].status # "absent" => \E c \in commits : c.row = index[v]

\* A venture's owner never changes.
OwnersStay ==
  \A c \in commits :
    /\ c.row.status # "absent"
    /\ c.row.ownerId = table[c.row.ventureId].ownerId

ReadersKnowTheirCall ==
  \A r \in Requests :
    /\ pc[r] = "get" => call[r].op = "get"
    /\ pc[r] = "list" => call[r].op = "list" /\ call[r].sub \in Owners
    /\ pc[r] # "done" => seen[r] = {}

SeenIsCommitted ==
  \A r \in Requests : \A row \in seen[r] :
    /\ \E c \in commits : c.row = row
    /\ call[r].op = "list" => row.ownerId = call[r].sub

Reads ==
  /\ AbsentRowsAreEmpty
  /\ IndexIsCommitted
  /\ OwnersStay
  /\ ReadersKnowTheirCall
  /\ SeenIsCommitted

LEMMA InitReads == Init => Reads
BY DEF Init, Reads, AbsentRowsAreEmpty, IndexIsCommitted, OwnersStay,
   ReadersKnowTheirCall, SeenIsCommitted, NoRow

\* Steps that read and write neither the table nor the index.
LEMMA OtherStepKeepsReads ==
  ASSUME IInv, Reads, UNCHANGED <<table, index, commits>>,
         NEW r \in Requests, Typed',
         \A s \in Requests \ {r} : /\ pc'[s] = pc[s]
                                   /\ call'[s] = call[s]
                                   /\ seen'[s] = seen[s],
         pc[r] # "done",
         \/ call'[r] = call[r] /\ pc'[r] \notin {"get", "list"}
         \/ /\ pc'[r] = "get" => call'[r].op = "get"
            /\ pc'[r] = "list" => call'[r].op = "list" /\ call'[r].sub \in Owners,
         \/ seen'[r] = seen[r]
         \/ /\ pc'[r] = "done"
            /\ \A row \in seen'[r] :
                 /\ \E c \in commits : c.row = row
                 /\ call'[r].op = "list" => row.ownerId = call'[r].sub
  PROVE  Reads'
<1>1. AbsentRowsAreEmpty' /\ IndexIsCommitted' /\ OwnersStay'
  BY DEF Reads, AbsentRowsAreEmpty, IndexIsCommitted, OwnersStay
<1>2. ReadersKnowTheirCall'
  BY DEF Reads, ReadersKnowTheirCall
<1>3. SeenIsCommitted'
  BY DEF Reads, ReadersKnowTheirCall, SeenIsCommitted
<1>4. QED
  BY <1>1, <1>2, <1>3 DEF Reads

LEMMA ApplyKeepsReads ==
  ASSUME IInv, Reads, NEW r \in Requests, Apply(r), UNCHANGED <<index, call, seen>>,
         pc' = pc \/ Goto(r, "put", "publish")
  PROVE  Reads'
<1> DEFINE v == call[r].venture
           new == [by |-> r, op |-> call[r].op, row |-> NextRow(r)]
<1>1. /\ v \in Ventures
      /\ NextRow(r).ventureId = v
      /\ NextRow(r).status # "absent"
      /\ table[v].version > 0 => NextRow(r).ownerId = table[v].ownerId
  BY AppliedReplacesBase, NextRowOfPrepared DEF Prepared, IInv, Typed, TypeOK, Row
<1>2. /\ table' = [table EXCEPT ![v] = NextRow(r)]
      /\ commits' = commits \union {new}
      /\ new.row = NextRow(r)
  BY DEF Apply
<1> HIDE DEF new
<1>3. AbsentRowsAreEmpty'
  BY <1>1, <1>2 DEF Reads, AbsentRowsAreEmpty, IInv, Typed, TypeOK
<1>4. IndexIsCommitted'
  BY <1>2 DEF Reads, IndexIsCommitted
<1>5. OwnersStay'
  <2>1. ASSUME NEW c \in commits, c.row.ventureId = v PROVE table[v].version > 0
    BY <1>1, <2>1 DEF IInv, History, OneLineOfVersions, Typed, TypeOK, Row
  <2>2. \A c \in commits : c.row.ventureId \in Ventures
    BY DEF IInv, Typed, TypeOK, Row
  <2>3. QED
    BY <1>1, <1>2, <2>1, <2>2 DEF Reads, OwnersStay, IInv, Typed, TypeOK
<1>6. ReadersKnowTheirCall'
  BY DEF Reads, ReadersKnowTheirCall, Goto, IInv, Typed, TypeOK
<1>7. SeenIsCommitted'
  BY <1>2 DEF Reads, SeenIsCommitted
<1>8. QED
  BY <1>3, <1>4, <1>5, <1>6, <1>7 DEF Reads

LEMMA NextReads == IInv /\ Reads /\ [Next]_vars => Reads'
<1> SUFFICES ASSUME IInv, Reads, [Next]_vars PROVE Reads'
  OBVIOUS
<1>0. Typed'
  BY NextTyped DEF IInv
<1> USE DEF IInv, Typed, TypeOK
<1>1. ASSUME NEW r \in Requests, NEW to, NEW request, Accept(r, to, request),
             to = "get" => request.op = "get",
             to = "list" => request.op = "list" /\ request.sub \in Owners,
             to # "done"
      PROVE Reads'
  BY <1>0, <1>1, OtherStepKeepsReads DEF Accept, Goto
<1>2. ASSUME NEW r \in Requests, Arrive(r) PROVE Reads'
  <2>1. CASE Deny(r)
    BY <1>0, <2>1, OtherStepKeepsReads DEF Deny, Finish
  <2>2. CASE ArriveCreate(r) \/ ArriveUpdate(r) \/ ArriveDelete(r)
    BY <1>1, <2>2 DEF ArriveCreate, ArriveUpdate, ArriveDelete
  <2>3. CASE ArriveGet(r) \/ ArriveList(r)
    BY <1>1, <2>3 DEF ArriveGet, ArriveList
  <2>4. QED
    BY <1>2, <2>1, <2>2, <2>3 DEF Arrive
<1>3. ASSUME NEW r \in Requests, Get(r) PROVE Reads'
  <2>1. table[call[r].venture].status # "absent" =>
          \E c \in commits : c.row = table[call[r].venture]
    BY <1>3 DEF Get, RequestsPrepared, History, StoredIsCommitted
  <2>2. call[r].op = "get"
    BY <1>3 DEF Get, Reads, ReadersKnowTheirCall
  <2>3. QED
    BY <1>0, <1>3, <2>1, <2>2, OtherStepKeepsReads DEF Get, Finish
<1>4. ASSUME NEW r \in Requests, List(r) PROVE Reads'
  <2>1. call[r].op = "list" /\ call[r].sub \in Owners
    BY <1>4 DEF List, Reads, ReadersKnowTheirCall
  <2>2. \A row \in RowsOfOwner(call[r].sub) :
          (\E c \in commits : c.row = row) /\ row.ownerId = call[r].sub
    BY <2>1, NoneIsNothing DEF RowsOfOwner, Reads, IndexIsCommitted, AbsentRowsAreEmpty
  <2>3. QED
    BY <1>0, <1>4, <2>1, <2>2, OtherStepKeepsReads DEF List, Finish
<1>5. ASSUME NEW r \in Requests,
             ReadExisting(r) \/ ReadRefuses(r) \/ PutRefused(r) \/ StoreFails(r) \/ Die(r)
      PROVE Reads'
  BY <1>0, <1>5, OtherStepKeepsReads
     DEF ReadExisting, ReadRefuses, PutRefused, StoreFails, Die, Goto, Finish
<1>6. ASSUME NEW r \in Requests, Published(r) \/ PublishFailed(r) PROVE Reads'
  BY <1>0, <1>6, OtherStepKeepsReads DEF Published, PublishFailed, Finish
<1>7. ASSUME NEW r \in Requests, PutApplied(r) \/ PutAppliedResponseLost(r) PROVE Reads'
  BY <1>7, ApplyKeepsReads DEF PutApplied, PutAppliedResponseLost, local
<1>8. ASSUME NEW v \in Ventures, Propagate(v) PROVE Reads'
  BY <1>8 DEF Propagate, local, Reads, AbsentRowsAreEmpty, IndexIsCommitted, OwnersStay,
              ReadersKnowTheirCall, SeenIsCommitted, History, StoredIsCommitted
<1>9. CASE UNCHANGED vars
  BY <1>9 DEF vars, Reads, AbsentRowsAreEmpty, IndexIsCommitted, OwnersStay,
              ReadersKnowTheirCall, SeenIsCommitted
<1>10. QED
  BY <1>2, <1>3, <1>4, <1>5, <1>6, <1>7, <1>8, <1>9 DEF Next, Proceed

\* GET and list serve only committed rows, none newer than the table, and a
\* listing only rows of ventures its owner still owns, however far the index lags.
THEOREM ReadsServeCommittedRows == Spec => []ReadsAreCommitted
<1>1. IInv /\ Reads => ReadsAreCommitted
  BY DEF IInv, Typed, TypeOK, History, OneLineOfVersions, Reads, SeenIsCommitted,
         OwnersStay, ReadsAreCommitted, Row
<1>2. Spec => []Reads
  BY InitReads, NextReads, Invariance, PTL DEF Spec
<1>3. QED
  BY <1>1, <1>2, Invariance, PTL

----------------------------------------------------------------------------
(* The registry implements the ledger                                      *)

\* A step that leaves the table, the history and the bus alone is invisible.
LEMMA QuietStepStutters ==
  ASSUME UNCHANGED <<table, commits, bus>>
  PROVE  UNCHANGED Ledger!vars
BY DEF Ledger!vars, AnnouncedRows

\* The event of a commit names its row.
LEMMA EventNamesRow ==
  ASSUME IInv, NEW c \in commits
  PROVE  /\ EventOf(c.by).ventureId = c.row.ventureId
         /\ EventOf(c.by).version = c.row.version
BY DEF IInv, History, CommitsAreTheirRequests, EventOf

LEMMA ApplyAdvancesLedger ==
  ASSUME IInv, NEW r \in Requests, Apply(r), UNCHANGED bus
  PROVE  Ledger!Next
<1> DEFINE v == call[r].venture
           new == [by |-> r, op |-> call[r].op, row |-> NextRow(r)]
<1> USE DEF IInv, Typed, TypeOK
<1>1. /\ v \in Ventures
      /\ table[v] \in Row
      /\ call[r] \in Call
      /\ Prepared(r)
      /\ NextRow(r).ventureId = v
      /\ NextRow(r).version = table[v].version + 1
      /\ table[v].status # "deleted"
      /\ call[r].op # "create" => base[r] = table[v]
  BY AppliedReplacesBase DEF Prepared
<1>2. /\ table' = [table EXCEPT ![v] = NextRow(r)]
      /\ commits' = commits \union {new}
      /\ new.row = NextRow(r)
  BY DEF Apply
<1>3. AnnouncedRows' = AnnouncedRows
  <2>1. ASSUME NEW e \in bus, e.ventureId = v PROVE e.version <= table[v].version
    <3>1. PICK c \in commits : e = EventOf(c.by)
      BY DEF History, EventsAreCommitted
    <3>2. c.row.ventureId = v /\ c.row.version = e.version
      BY <2>1, <3>1, EventNamesRow
    <3>3. QED
      BY <1>1, <3>2 DEF History, OneLineOfVersions, Row
  <2>2. ~ \E e \in bus : e.ventureId = new.row.ventureId /\ e.version = new.row.version
    BY <1>1, <1>2, <2>1 DEF Row
  <2> HIDE DEF new
  <2>3. QED
    BY <1>2, <2>2 DEF AnnouncedRows
<1>4. Ledger!Advance(v, NextRow(r))
  <2>1. {c.row : c \in commits'} = {c.row : c \in commits} \union {NextRow(r)}
    <3> HIDE DEF new
    <3> QED BY <1>2
  <2>2. QED
    BY <1>2, <1>3, <2>1 DEF Ledger!Advance
<1>5. CASE call[r].op = "create"
  <2>1. table[v].status = "absent"
    BY <1>5 DEF Apply, ConditionHolds
  <2>2. /\ call[r].sub \in Owners
        /\ call[r].manifest \in Manifests
        /\ NextRow(r) = [ventureId |-> v, ownerId |-> call[r].sub, status |-> "active",
                         version |-> 1, manifest |-> call[r].manifest]
    BY <1>1, <1>5 DEF Prepared, NextRow
  <2>3. Ledger!Create(v)
    BY <1>4, <2>1, <2>2, Zenon DEF Ledger!Create, Ledger!Advance
  <2>4. QED
    BY <1>1, <2>3 DEF Ledger!Next
<1>6. CASE call[r].op # "create"
  <2>1. base[r] = table[v] /\ table[v].status = "active"
    BY <1>1, <1>6 DEF Prepared
  <2>2. CASE call[r].op = "update"
    <3>1. NextRow(r) = Ledger!Revision(table[v], "active", call[r].manifest)
      BY <1>6, <2>1, <2>2 DEF NextRow, Ledger!Revision
    <3>2. call[r].manifest \in Manifests
      BY <1>1, <2>2 DEF Prepared
    <3>3. Ledger!Rewrite(v)
      BY <1>4, <2>1, <3>1, <3>2, Zenon DEF Ledger!Rewrite, Ledger!Advance
    <3>4. QED
      BY <1>1, <3>3 DEF Ledger!Next
  <2>3. CASE call[r].op = "delete"
    <3>1. NextRow(r) = Ledger!Revision(table[v], "deleted", table[v].manifest)
      BY <1>6, <2>1, <2>3 DEF NextRow, Ledger!Revision
    <3>2. Ledger!Delete(v)
      BY <1>4, <2>1, <3>1, Zenon DEF Ledger!Delete, Ledger!Advance
    <3>3. QED
      BY <1>1, <3>2 DEF Ledger!Next, Ledger!Delete, Ledger!Advance
  <2>4. QED
    BY <1>1, <1>6, <2>2, <2>3 DEF Prepared, Mutations
<1>7. QED
  BY <1>5, <1>6

LEMMA PublishAnnounces ==
  ASSUME IInv, NEW r \in Requests, Published(r) \/ PublishFailed(r)
  PROVE  [Ledger!Next]_(Ledger!vars)
<1>1. UNCHANGED <<table, commits>> /\ bus' \in {bus, bus \union {EventOf(r)}}
      /\ pc[r] = "publish"
  BY DEF Published, PublishFailed
<1>2. PICK c0 \in commits : c0.by = r
  BY <1>1 DEF IInv, History, PublishersCommitted
<1>3. CASE bus' = bus
  BY <1>1, <1>3, QuietStepStutters
<1>4. CASE bus' = bus \union {EventOf(r)}
  <2>1. \A c \in commits :
          (/\ EventOf(r).ventureId = c.row.ventureId
           /\ EventOf(r).version = c.row.version) <=> c = c0
    BY <1>2, EventNamesRow DEF IInv, History, OneLineOfVersions
  <2>2. AnnouncedRows' = AnnouncedRows \union {c0.row}
    BY <1>1, <1>4, <2>1 DEF AnnouncedRows
  <2>3. Ledger!Announce
    BY <1>1, <1>2, <2>2 DEF Ledger!Announce
  <2>4. QED
    BY <2>3 DEF Ledger!Next
<1>5. QED
  BY <1>1, <1>3, <1>4

\* What clients see of the registry is a ledger: versions advance one at a time,
\* under one owner, until a deletion, and only real states are announced.
THEOREM RegistryImplementsLedger == Spec => ImplementsLedger
<1>1. Init => Ledger!Init
  BY DEF Init, Ledger!Init, Ledger!Absent, NoRow, AnnouncedRows
<1>2. ASSUME IInv, [Next]_vars PROVE [Ledger!Next]_(Ledger!vars)
  <2>1. ASSUME NEW r \in Requests, PutApplied(r) \/ PutAppliedResponseLost(r)
        PROVE  Ledger!Next
    BY <1>2, <2>1, ApplyAdvancesLedger DEF PutApplied, PutAppliedResponseLost
  <2>2. CASE UNCHANGED <<table, commits, bus>>
    BY <2>2, QuietStepStutters
  <2>3. QED
    BY <1>2, <2>1, <2>2, PublishAnnounces
       DEF Next, Arrive, ArriveCreate, ArriveUpdate, ArriveDelete, ArriveGet, ArriveList,
           Accept, Deny, Proceed, Get, List, ReadExisting, ReadRefuses, PutRefused,
           StoreFails, Die, Propagate, vars
<1>3. QED
  BY <1>1, <1>2, Invariance, PTL DEF Spec, Ledger!Spec, ImplementsLedger
============================================================================
