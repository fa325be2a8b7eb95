---------------------------- MODULE IdeaRegistry ----------------------------
(***************************************************************************)
(* The requests of the web server that change its local registry of ideas  *)
(* (create, fork, patch, snapshot, delete, and the local-mode build and    *)
(* improve) and the OnCell cells behind the ideas.  A request interleaves  *)
(* with the others at every await; the registry file is read and written   *)
(* by synchronous code, so one read-modify-write of it is one step.  A     *)
(* call to OnCell is applied by the server zero, one or (for the calls the *)
(* client marks idempotent) two times before its answer is acted on.       *)
(***************************************************************************)
EXTENDS Naturals, FiniteSetsExt

CONSTANTS
  Names,      \* idea names; a cell's id is derived from the name
  Texts,      \* idea texts
  Requests,   \* requests, each used once
  Ops,        \* bound: which of AllOps the requests are
  Incidents,  \* bound: which of AllIncidents may happen
  None

AllOps == {"create", "fork", "patch", "snapshot", "delete", "build", "improve"}

\* a call to OnCell or to the model fails; the web server is restarted.
AllIncidents == {"fail", "restart"}

ASSUME NoneIsNothing == None \notin Names \union Texts \union Requests
ASSUME OpsAreKnown == Ops \subseteq AllOps
ASSUME IncidentsAreKnown == Incidents \subseteq AllIncidents

VARIABLES
  registry,  \* the ideas of ~/.kaka/ideas.json, as a set of records
  cells,     \* [Names -> the cell with the id derived from the name]
  mode,      \* builderMode(): "agent" or "local", fixed for the process
  pc,        \* [Requests -> the await the request is at]
  call,      \* [Requests -> what the request asks for]
  base,      \* [Requests -> {} or {the record read when it arrived}]
  attempts,  \* [Requests -> how often OnCell applied its current call]
  reply,     \* [Requests -> what OnCell made of the latest attempt]
  answer,    \* [Requests -> the outcome]
  during     \* history: [Requests -> the requests open when it arrived]

store == <<registry, cells, mode>>
transport == <<attempts, reply>>
vars == <<registry, cells, mode, pc, call, base, attempts, reply, answer, during>>

----------------------------------------------------------------------------

\* One snapshot in the cell: the nth one taken for a request.
Shot == [by : Requests, nth : 1..2]

\* A timeline entry: version, and the request that shipped it.
Iteration == [v : Nat, by : Requests \union {None}]

\* `by` stands for createdAt: it tells apart two records of one name.
Idea == [name : Names, by : Requests \union {None}, text : Texts \union {None},
         snapshots : SUBSET Shot, iterations : SUBSET Iteration]

Cell == [exists : BOOLEAN, text : Texts \union {None}, shots : SUBSET Shot]

NoCell == [exists |-> FALSE, text |-> None, shots |-> {}]

Call == [op : AllOps \union {"none"}, name : Names \union {None},
         source : Names \union {None}, text : Texts \union {None}, keep : BOOLEAN]

NoCall == [op |-> "none", name |-> None, source |-> None, text |-> None, keep |-> FALSE]

\* The calls that change a cell, and the other awaits of a handler.
CellCalls == {"createCell", "forkCell", "writeFile", "refresh", "snapshotCell", "deleteCell"}
OtherAwaits == {"deploy", "body", "work"}
Open(r) == pc[r] \in CellCalls \union OtherAwaits

\* idempotent: false in client.ts.
NeverRetried == {"snapshotCell"}

Versions(iterations) == {i.v : i \in iterations}

PriorIdeas ==
  [name : Names, by : {None}, text : Texts, snapshots : {{}},
   iterations : {{}, {[v |-> 1, by |-> None], [v |-> 2, by |-> None]}}]

Init ==
  /\ registry \in {{}} \union {{idea} : idea \in PriorIdeas}
  /\ cells = [n \in Names |->
                IF \E idea \in registry : idea.name = n
                  THEN [exists |-> TRUE, shots |-> {},
                        text |-> (CHOOSE idea \in registry : TRUE).text]
                  ELSE NoCell]
  /\ mode \in {"agent", "local"}
  /\ pc = [r \in Requests |-> "idle"]
  /\ call = [r \in Requests |-> NoCall]
  /\ base = [r \in Requests |-> {}]
  /\ attempts = [r \in Requests |-> 0]
  /\ reply = [r \in Requests |-> "none"]
  /\ answer = [r \in Requests |-> "none"]
  /\ during = [r \in Requests |-> {}]

----------------------------------------------------------------------------
(* A request arrives: the code up to its first await on the outside        *)

Find(n) == {idea \in registry : idea.name = n}

Begin(r, request, await, read) ==
  /\ pc' = [pc EXCEPT ![r] = await]
  /\ call' = [call EXCEPT ![r] = request]
  /\ base' = [base EXCEPT ![r] = read]
  /\ during' = [during EXCEPT ![r] = {q \in Requests : Open(q)}]
  /\ UNCHANGED answer

Refuse(r, outcome) ==
  /\ pc' = [pc EXCEPT ![r] = "done"]
  /\ answer' = [answer EXCEPT ![r] = outcome]
  /\ UNCHANGED <<call, base, during>>

Arrives(r, op) ==
  /\ op \in Ops
  /\ pc[r] = "idle"
  /\ UNCHANGED <<store, transport>>

Asks(op, n) == [op |-> op, name |-> n, source |-> None, text |-> None, keep |-> FALSE]

\* POST /api/ideas
ArriveCreate(r) ==
  /\ Arrives(r, "create")
  /\ \E n \in Names, t \in Texts \union {None} :
       IF Find(n) # {} THEN Refuse(r, "IDEA_EXISTS")
       ELSE Begin(r, [Asks("create", n) EXCEPT !.text = t], "createCell", {})

\* POST /api/ideas/[name]/fork
ArriveFork(r) ==
  /\ Arrives(r, "fork")
  /\ \E s, n \in Names :
       IF Find(s) = {} THEN Refuse(r, "IDEA_NOT_FOUND")
       ELSE IF Find(n) # {} THEN Refuse(r, "IDEA_EXISTS")
       ELSE Begin(r, [Asks("fork", n) EXCEPT !.source = s], "forkCell", Find(s))

\* PATCH /api/ideas/[name]: the name is looked up before the body is awaited,
\* and what was found is not kept.
ArrivePatch(r) ==
  /\ Arrives(r, "patch")
  /\ \E n \in Names, t \in Texts :
       IF Find(n) = {} THEN Refuse(r, "IDEA_NOT_FOUND")
       ELSE Begin(r, [Asks("patch", n) EXCEPT !.text = t], "body", {})

\* POST /api/ideas/[name]/snapshot
ArriveSnapshot(r) ==
  /\ Arrives(r, "snapshot")
  /\ \E n \in Names :
       IF Find(n) = {} THEN Refuse(r, "IDEA_NOT_FOUND")
       ELSE Begin(r, Asks("snapshot", n), "snapshotCell", Find(n))

\* DELETE /api/ideas/[name] without keep_remote
ArriveDelete(r) ==
  /\ Arrives(r, "delete")
  /\ \E n \in Names :
       IF Find(n) = {} THEN Refuse(r, "IDEA_NOT_FOUND")
       ELSE Begin(r, Asks("delete", n), "deleteCell", Find(n))

\* DELETE /api/ideas/[name]?keep_remote=true: the record goes at once.
DeleteKeepingCell(r) ==
  /\ pc[r] = "idle"
  /\ "delete" \in Ops
  /\ \E idea \in registry :
       /\ registry' = registry \ Find(idea.name)
       /\ call' = [call EXCEPT ![r] = [op |-> "delete", name |-> idea.name, source |-> None,
                                    text |-> None, keep |-> TRUE]]
       /\ base' = [base EXCEPT ![r] = {idea}]
  /\ pc' = [pc EXCEPT ![r] = "done"]
  /\ answer' = [answer EXCEPT ![r] = "ok"]
  /\ UNCHANGED <<cells, mode, transport, during>>

\* POST build in local mode, with the checks of its route.
ArriveBuild(r) ==
  /\ Arrives(r, "build")
  /\ mode = "local"
  /\ \E n \in Names :
       IF Find(n) = {} THEN Refuse(r, "IDEA_NOT_FOUND")
       ELSE IF \A idea \in Find(n) : idea.text = None THEN Refuse(r, "IDEA_REQUIRED")
       ELSE Begin(r, Asks("build", n), "work", Find(n))

\* POST improve in local mode.
ArriveImprove(r) ==
  /\ Arrives(r, "improve")
  /\ mode = "local"
  /\ \E n \in Names :
       IF Find(n) = {} THEN Refuse(r, "IDEA_NOT_FOUND")
       ELSE IF \A idea \in Find(n) : idea.text = None THEN Refuse(r, "IDEA_REQUIRED")
       ELSE IF \A idea \in Find(n) : idea.iterations = {} THEN Refuse(r, "NOT_BUILT_YET")
       ELSE Begin(r, Asks("improve", n), "snapshotCell", Find(n))

----------------------------------------------------------------------------
(* OnCell serves a call (external)                                         *)

\* Mutant: every call is sent again after a 502 or 503.
RetriedAlways(await) == 2

\* Mutant: the loop over the attempts runs once more.
RetriedOnceMore(await) == IF await \in NeverRetried THEN 2 ELSE 3

\* sendRequest: one attempt, and one more for idempotent calls only.
MaxAttempts(await) == IF await \in NeverRetried THEN 1 ELSE 2

\* Creating and forking address the cell by the customer id, so an existing
\* cell is returned as it is; any other call needs the cell it names.
Applies(r) ==
  IF pc[r] = "forkCell" THEN cells[call[r].source].exists
  ELSE pc[r] = "createCell" \/ cells[call[r].name].exists

CellAfter(r) ==
  LET cell == cells[call[r].name] IN
    IF pc[r] \in {"createCell", "forkCell"} THEN
      IF cell.exists THEN cell
      ELSE [exists |-> TRUE, shots |-> {},
            text |-> IF pc[r] = "forkCell" THEN cells[call[r].source].text ELSE None]
    ELSE IF pc[r] = "snapshotCell" THEN
      [cell EXCEPT !.shots = @ \union {[by |-> r, nth |-> attempts[r] + 1]}]
    ELSE IF pc[r] = "deleteCell" THEN NoCell
    ELSE [cell EXCEPT !.text = call[r].text]

Serve(r) ==
  /\ pc[r] \in CellCalls
  /\ attempts[r] < MaxAttempts(pc[r])
  /\ attempts' = [attempts EXCEPT ![r] = @ + 1]
  /\ \/ /\ Applies(r)
        /\ cells' = [cells EXCEPT ![call[r].name] = CellAfter(r)]
        /\ reply' = [reply EXCEPT ![r] = "ok"]
     \/ /\ ~Applies(r)
        /\ reply' = [reply EXCEPT ![r] = "notFound"]
        /\ UNCHANGED cells
  /\ UNCHANGED <<registry, mode, pc, call, base, answer, during>>

----------------------------------------------------------------------------
(* The handler goes on when an await is over                               *)

Succeeded(r) == pc[r] \in OtherAwaits \/ reply[r] = "ok"

\* A call is answered with an error, or with nothing, whatever it did.
Failed(r) == reply[r] = "notFound" \/ "fail" \in Incidents

Goto(r, await) ==
  /\ pc' = [pc EXCEPT ![r] = await]
  /\ attempts' = [attempts EXCEPT ![r] = 0]
  /\ reply' = [reply EXCEPT ![r] = "none"]
  /\ UNCHANGED answer

Finish(r, outcome) ==
  /\ pc' = [pc EXCEPT ![r] = "done"]
  /\ answer' = [answer EXCEPT ![r] = outcome]
  /\ attempts' = [attempts EXCEPT ![r] = 0]
  /\ reply' = [reply EXCEPT ![r] = "none"]

\* createIdea and forkIdea: the next of their calls.  seedCellIdentity's kvSet
\* changes nothing that is modelled: its await is part of the writeFile's.
NextCall(r) ==
  IF pc[r] \in {"createCell", "forkCell"} THEN "writeFile"
  ELSE IF pc[r] = "writeFile" /\ call[r].op = "create" /\ mode = "agent" THEN "deploy"
  ELSE "addIdea"

SeedCell(r) ==
  /\ call[r].op \in {"create", "fork"}
  /\ Open(r)
  /\ Succeeded(r)
  /\ NextCall(r) # "addIdea"
  /\ Goto(r, NextCall(r))
  /\ call' = IF pc[r] = "forkCell"
               THEN [call EXCEPT ![r] = [@ EXCEPT !.text = (CHOOSE idea \in base[r] : TRUE).text]]
               ELSE call
  /\ UNCHANGED <<store, base, during>>

NewIdea(r) ==
  [name |-> call[r].name, by |-> r, text |-> call[r].text, snapshots |-> {},
   iterations |-> UNION {idea.iterations : idea \in base[r]}]

\* Mutant: the check at the request's arrival is trusted.
AddIdeaUnchecked(r) ==
  /\ registry' = registry \union {NewIdea(r)}
  /\ Finish(r, "ok")

\* addIdea looks again: a record added since then is an internal error.
AddIdea(r) ==
  IF Find(call[r].name) = {}
    THEN /\ registry' = registry \union {NewIdea(r)}
         /\ Finish(r, "ok")
    ELSE /\ Finish(r, "INTERNAL_ERROR")
         /\ UNCHANGED registry

\* Mutant: any failed call of a create is tolerated.
RegistersAnyway(r) ==
  /\ call[r].op \in {"create", "fork"}
  /\ Open(r)
  /\ \/ Succeeded(r) /\ NextCall(r) = "addIdea"
     \/ Failed(r)

\* The last call succeeded, or it is the Builder's deployment, which may fail.
Registers(r) ==
  /\ call[r].op \in {"create", "fork"}
  /\ Open(r)
  /\ NextCall(r) = "addIdea"
  /\ Succeeded(r) \/ pc[r] = "deploy"

Register(r) ==
  /\ Registers(r)
  /\ AddIdea(r)
  /\ UNCHANGED <<cells, mode, call, base, during>>

\* updateIdea on the record now registered under the name.
Replace(idea, updated) ==
  registry' = (registry \ {idea}) \union {updated}

\* The body of a PATCH is there: the record is updated, then the cell's file.
PatchRecord(r) ==
  /\ pc[r] = "body"
  /\ \E idea \in Find(call[r].name) :
       Replace(idea, [idea EXCEPT !.text = call[r].text])
  /\ Goto(r, "refresh")
  /\ UNCHANGED <<cells, mode, call, base, during>>

\* ... and an error of that write is swallowed.
PatchDone(r) ==
  /\ pc[r] = "refresh"
  /\ Succeeded(r) \/ Failed(r)
  /\ Finish(r, "ok")
  /\ UNCHANGED <<store, call, base, during>>

Key(r) == [by |-> r, nth |-> attempts[r]]

\* Mutant: the history that was read when the request arrived is extended.
SnapshotsOfBase(r, idea) ==
  UNION {i.snapshots : i \in base[r]} \union {Key(r)}

\* recordSnapshot reads the record again.
SnapshotsWith(r, idea) == idea.snapshots \union {Key(r)}

RecordSnapshot(r) ==
  /\ pc[r] = "snapshotCell"
  /\ call[r].op = "snapshot"
  /\ Succeeded(r)
  /\ \E idea \in Find(call[r].name) :
       Replace(idea, [idea EXCEPT !.snapshots = SnapshotsWith(r, idea)])
  /\ Finish(r, "ok")
  /\ UNCHANGED <<cells, mode, call, base, during>>

\* Mutant: an improvement is recorded under the current version.
CurrentVersion(idea) == Max({0} \union Versions(idea.iterations))

\* nextVersion
NextVersion(idea) == Max({0} \union Versions(idea.iterations)) + 1

\* The rollback point is there: the model is asked, the files are written and
\* the check run (work).
ImproveWorks(r) ==
  /\ pc[r] = "snapshotCell"
  /\ call[r].op = "improve"
  /\ Succeeded(r)
  /\ Goto(r, "work")
  /\ UNCHANGED <<store, call, base, during>>

\* A build is the timeline's only entry, an improvement is appended with the
\* version computed from the record the request arrived with.
ShippedBy(r, idea, read) ==
  IF call[r].op = "build" THEN {[v |-> 1, by |-> r]}
  ELSE idea.iterations \union {[v |-> NextVersion(read), by |-> r]}

\* Mutant: the record that was read is written, with its new entry.
ShipTheReadRecord(r) ==
  /\ pc[r] = "work"
  /\ \E read \in base[r] :
       registry' = (registry \ Find(call[r].name)) \union
                     {[read EXCEPT !.iterations = {[v |-> 1, by |-> r]}]}
  /\ Finish(r, "ok")
  /\ UNCHANGED <<cells, mode, call, base, during>>

\* The work is over, and its iteration is recorded in the record of now.
Ship(r) ==
  /\ pc[r] = "work"
  /\ \E idea \in Find(call[r].name), read \in base[r] :
       Replace(idea, [idea EXCEPT !.iterations = ShippedBy(r, idea, read)])
  /\ Finish(r, "ok")
  /\ UNCHANGED <<cells, mode, call, base, during>>

\* Mutant: a record that is gone is left alone, and the request succeeds.
GoneUnnoticed(r) ==
  /\ \/ pc[r] \in {"body", "work"}
     \/ pc[r] = "snapshotCell" /\ call[r].op = "snapshot" /\ Succeeded(r)
  /\ Find(call[r].name) = {}
  /\ Finish(r, "ok")
  /\ UNCHANGED <<store, call, base, during>>

\* updateIdea, recordSnapshot and recordIteration throw when the idea is gone.
GoneMeanwhile(r) ==
  /\ \/ pc[r] \in {"body", "work"}
     \/ pc[r] = "snapshotCell" /\ call[r].op = "snapshot" /\ Succeeded(r)
  /\ Find(call[r].name) = {}
  /\ Finish(r, "INTERNAL_ERROR")
  /\ UNCHANGED <<store, call, base, during>>

\* deleteIdea: the cell is gone or was gone, and the record goes by its name.
RemoveIdea(r) ==
  /\ pc[r] = "deleteCell"
  /\ reply[r] # "none"
  /\ registry' = registry \ Find(call[r].name)
  /\ Finish(r, "ok")
  /\ UNCHANGED <<cells, mode, call, base, during>>

\* The calls whose failure is the request's failure.
CallFails(r) ==
  /\ Open(r)
  /\ pc[r] \notin {"body", "deploy", "refresh"}
  /\ "fail" \in Incidents \/ (reply[r] = "notFound" /\ pc[r] # "deleteCell")
  /\ Finish(r, "ONCELL_ERROR")
  /\ UNCHANGED <<store, call, base, during>>

\* The web server is restarted: open requests are never answered.
Restart ==
  /\ "restart" \in Incidents
  /\ \E r \in Requests : Open(r)
  /\ pc' = [r \in Requests |-> IF Open(r) THEN "done" ELSE pc[r]]
  /\ answer' = [r \in Requests |-> IF Open(r) THEN "lost" ELSE answer[r]]
  /\ attempts' = [r \in Requests |-> 0]
  /\ reply' = [r \in Requests |-> "none"]
  /\ UNCHANGED <<store, call, base, during>>

Accept(r) ==
  \/ ArriveCreate(r) \/ ArriveFork(r) \/ ArrivePatch(r) \/ ArriveSnapshot(r)
  \/ ArriveDelete(r) \/ DeleteKeepingCell(r) \/ ArriveBuild(r) \/ ArriveImprove(r)

Proceed(r) ==
  \/ Serve(r) \/ SeedCell(r) \/ Register(r) \/ PatchRecord(r) \/ PatchDone(r)
  \/ RecordSnapshot(r) \/ ImproveWorks(r) \/ Ship(r) \/ GoneMeanwhile(r)
  \/ RemoveIdea(r) \/ CallFails(r)

Next ==
  \/ \E r \in Requests : Accept(r) \/ Proceed(r)
  \/ Restart

Spec == Init /\ [][Next]_vars

----------------------------------------------------------------------------
(* Properties                                                              *)

TypeOK ==
  /\ registry \subseteq Idea
  /\ cells \in [Names -> Cell]
  /\ mode \in {"agent", "local"}
  /\ pc \in [Requests -> {"idle", "done"} \union CellCalls \union OtherAwaits]
  /\ call \in [Requests -> Call]
  /\ \A r \in Requests : base[r] \subseteq Idea /\ Cardinality(base[r]) <= 1
  /\ attempts \in [Requests -> 0..2]
  /\ reply \in [Requests -> {"none", "ok", "notFound"}]
  /\ answer \in [Requests -> {"none", "ok", "IDEA_EXISTS", "IDEA_NOT_FOUND",
                              "IDEA_REQUIRED", "NOT_BUILT_YET", "INTERNAL_ERROR",
                              "ONCELL_ERROR", "lost"}]
  /\ during \in [Requests -> SUBSET Requests]

Overlapped(q, r) ==
  \/ r \in Requests /\ q \in during[r]
  \/ q \in Requests /\ r \in during[q]

\* A name is registered once, also when creates and forks that both found it
\* free run to their end.
OneRecordPerName ==
  \A i, j \in registry : i.name = j.name => i = j

\* No lost update of the snapshot history: a record keeps the snapshots it has
\* for as long as it is registered, whatever read the record before an await.
SnapshotsAreKept ==
  [][\A i \in registry, j \in registry' :
       (i.name = j.name /\ i.by = j.by) => i.snapshots \subseteq j.snapshots]_vars

\* An idea whose deletion was answered with ok never comes back: requests that
\* had read its record before do not write it again.
DeletedStaysDeleted ==
  \A r \in Requests : (call[r].op = "delete" /\ answer[r] = "ok") =>
    \A gone \in base[r], idea \in registry :
      idea.name = gone.name => idea.by # gone.by

\* One snapshot request takes one snapshot: when its key is in the history,
\* the cell holds no other snapshot of it that the history misses.
SnapshotsAreAccounted ==
  \A idea \in registry : \A known \in idea.snapshots :
    \A shot \in cells[idea.name].shots :
      shot.by = known.by => shot \in idea.snapshots

\* Two entries of a timeline have one version only by a race: their requests
\* overlapped, or one of them overlapped the making of an idea.
VersionReuseIsARace ==
  \A idea \in registry : \A i, j \in idea.iterations :
    (i # j /\ i.v = j.v) =>
      \/ Overlapped(i.by, j.by)
      \/ \E q \in Requests : /\ call[q].op \in {"create", "fork"}
                             /\ Overlapped(i.by, q) \/ Overlapped(j.by, q)

\* A registered idea has its cell, unless a deletion took the cell and then did
\* not finish, or raced the request that made the idea.
CellGoneIsADeletion ==
  \A idea \in registry : ~cells[idea.name].exists =>
    \E r \in Requests :
      /\ call[r].op = "delete" /\ ~call[r].keep /\ call[r].name = idea.name
      /\ answer[r] # "ok" \/ Overlapped(r, idea.by)

\* What was answered with ok.  An edit is answered after it was made (PatchDone).
Settled ==
  {[by |-> r, op |-> call[r].op, name |-> call[r].name] :
     r \in {q \in Requests : answer[q] = "ok" /\ call[q].op # "patch"}}

\* The file with its requests is a catalogue in which every operation is one
\* step, made exactly when it is answered with ok, whatever runs in between.
Catalogue == INSTANCE IdeaCatalogue WITH ideas <- registry, settled <- Settled

ImplementsCatalogue == Catalogue!Spec
=============================================================================
