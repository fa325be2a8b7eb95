------------------------- MODULE IdeaRegistryProofs -------------------------
(***************************************************************************)
(* Proofs about IdeaRegistry, for any sets of names, texts and requests,   *)
(* any operations and any incidents.  The argument: a record is made by    *)
(* one request, which is done from then on, so no record a request has     *)
(* read can be made a second time; and every other write of the registry   *)
(* replaces or removes a record that is there when it is written.  What    *)
(* relates records to cells and to versions rests on requests having met:  *)
(* of two that are open, the later one found the other open.               *)
(***************************************************************************)
EXTENDS IdeaRegistry, FiniteSetTheorems, NaturalsInduction, WellFoundedInduction, TLAPS

IsIdea(i) == i = [name |-> i.name, by |-> i.by, text |-> i.text,
                  snapshots |-> i.snapshots, iterations |-> i.iterations]

IsCall(c) == c = [op |-> c.op, name |-> c.name, source |-> c.source,
                  text |-> c.text, keep |-> c.keep]

Shaped ==
  /\ \A i \in registry : IsIdea(i)
  /\ pc \in [Requests -> {"idle", "done"} \union CellCalls \union OtherAwaits]
  /\ DOMAIN call = Requests /\ call = [r \in Requests |-> call[r]]
  /\ \A r \in Requests : IsCall(call[r])
  /\ base = [r \in Requests |-> base[r]]
  /\ answer = [r \in Requests |-> answer[r]]

\* What an await says of the request that is at it.
AwaitsOfOps ==
  \A r \in Requests :
    /\ pc[r] \in {"body", "refresh"} => call[r].op = "patch"
    /\ pc[r] = "work" => call[r].op \in {"build", "improve"}
    /\ pc[r] = "deleteCell" => call[r].op = "delete"
    /\ answer[r] = "ok" => pc[r] = "done"

\* A record that is registered, or was read, was made by a request now done.
MadeOnce(i) == i.by = None \/ (i.by \in Requests /\ pc[i.by] = "done")

RecordsAreMadeOnce ==
  /\ \A i \in registry : MadeOnce(i)
  /\ \A r \in Requests : \A i \in base[r] : MadeOnce(i)

\* A deletion has read the record of the name it deletes.
DeletionsReadTheirIdea ==
  \A r \in Requests : call[r].op = "delete" =>
    \A i \in base[r] : i.name = call[r].name

IInv ==
  /\ Shaped
  /\ AwaitsOfOps
  /\ RecordsAreMadeOnce
  /\ DeletionsReadTheirIdea
  /\ OneRecordPerName
  /\ DeletedStaysDeleted

----------------------------------------------------------------------------
(* The registry file                                                       *)

\* What a step does to the registry: removes a name, replaces a record by one
\* of the same name and maker with no fewer snapshots, or adds a record of a
\* free name made by a request that was not done.
Removes == \E n \in {i.name : i \in registry} : registry' = registry \ Find(n)

Revises ==
  \E i \in registry, j \in {k \in registry' : IsIdea(k)} :
    /\ registry' = (registry \ {i}) \union {j}
    /\ j.name = i.name /\ j.by = i.by
    /\ i.snapshots \subseteq j.snapshots

Adds ==
  \E r \in Requests, j \in {k \in registry' : IsIdea(k)} :
    /\ registry' = registry \union {j}
    /\ Find(j.name) = {}
    /\ j.by = r
    /\ pc[r] # "done" /\ pc'[r] = "done"

RegistryStep == registry' = registry \/ Removes \/ Revises \/ Adds

\* Each kind of step keeps the shape, the maker and the uniqueness of records.
LEMMA RegistryStepKeepsRecords ==
  ASSUME IInv, RegistryStep, \A q \in Requests : pc[q] = "done" => pc'[q] = "done"
  PROVE  /\ \A i \in registry' : IsIdea(i)
         /\ \A i \in registry' : MadeOnce(i)'
         /\ OneRecordPerName'
<1> USE DEF IInv, Shaped, RecordsAreMadeOnce, MadeOnce, OneRecordPerName
<1>1. CASE registry' = registry
  BY <1>1
<1>2. CASE Removes
  BY <1>2 DEF Removes
<1>3. CASE Revises
  BY <1>3 DEF Revises
<1>4. CASE Adds
  BY <1>4 DEF Adds, Find
<1>5. QED
  BY <1>1, <1>2, <1>3, <1>4 DEF RegistryStep

\* No kind of step brings a deleted record back.
LEMMA RegistryStepKeepsDeleted ==
  ASSUME IInv, RegistryStep, NEW r \in Requests, call[r].op = "delete", answer[r] = "ok"
  PROVE  \A gone \in base[r], idea \in registry' :
           idea.name = gone.name => idea.by # gone.by
<1> USE NoneIsNothing DEF IInv, DeletedStaysDeleted
<1>1. CASE registry' = registry
  BY <1>1
<1>2. CASE Removes
  BY <1>2 DEF Removes
<1>3. CASE Revises
  BY <1>3 DEF Revises
<1>4. CASE Adds
  BY <1>4 DEF Adds, RecordsAreMadeOnce, MadeOnce
<1>5. QED
  BY <1>1, <1>2, <1>3, <1>4 DEF RegistryStep

\* Nor does one shorten a snapshot history.
LEMMA RegistryStepKeepsSnapshots ==
  ASSUME IInv, RegistryStep,
         NEW i \in registry, NEW j \in registry', i.name = j.name, i.by = j.by
  PROVE  i.snapshots \subseteq j.snapshots
<1> USE DEF IInv, OneRecordPerName
<1>1. CASE registry' = registry
  BY <1>1
<1>2. CASE Removes
  BY <1>2 DEF Removes
<1>3. CASE Revises
  BY <1>3 DEF Revises
<1>4. CASE Adds
  BY <1>4 DEF Adds, RecordsAreMadeOnce, MadeOnce, Find
<1>5. QED
  BY <1>1, <1>2, <1>3, <1>4 DEF RegistryStep

----------------------------------------------------------------------------
(* Steps of a request                                                      *)

\* A request goes on to an await with new local values, in a way that the
\* invariant allows.
LocalStep(r, await, request, read, outcome) ==
  /\ pc[r] # "done"
  /\ await \in {"idle", "done"} \union CellCalls \union OtherAwaits
  /\ IsCall(request)
  /\ read = base[r] \/ read \subseteq registry
  /\ pc' = [pc EXCEPT ![r] = await]
  /\ call' = [call EXCEPT ![r] = request]
  /\ base' = [base EXCEPT ![r] = read]
  /\ answer' = [answer EXCEPT ![r] = outcome]
  /\ await \in {"body", "refresh"} => request.op = "patch"
  /\ await = "work" => request.op \in {"build", "improve"}
  /\ await = "deleteCell" => request.op = "delete"
  /\ outcome = "ok" => await = "done"
  /\ request.op = "delete" =>
       /\ \A i \in read : i.name = request.name
       /\ outcome = "ok" => \A i \in registry' : i.name # request.name

LEMMA LocalStepKeepsIInv ==
  ASSUME IInv, RegistryStep, NEW r \in Requests,
         NEW await, NEW request, NEW read, NEW outcome,
         LocalStep(r, await, request, read, outcome)
  PROVE  IInv'
<1> USE DEF LocalStep
<1>1. \A q \in Requests : pc[q] = "done" => pc'[q] = "done"
  BY DEF IInv, Shaped
<1>2. Shaped'
  <2>1. \A i \in registry' : IsIdea(i)
    BY <1>1, RegistryStepKeepsRecords
  <2>2. pc' \in [Requests -> {"idle", "done"} \union CellCalls \union OtherAwaits]
    BY DEF IInv, Shaped
  <2>3. call' = [q \in Requests |-> call'[q]] /\ \A q \in Requests : IsCall(call'[q])
    BY DEF IInv, Shaped
  <2>4. base' = [q \in Requests |-> base'[q]] /\ answer' = [q \in Requests |-> answer'[q]]
    BY DEF IInv, Shaped
  <2>5. DOMAIN call' = Requests
    BY DEF IInv, Shaped
  <2> QED BY <2>1, <2>2, <2>3, <2>4, <2>5 DEF Shaped
<1>3. AwaitsOfOps'
  <2>1. \A q \in Requests \ {r} : pc'[q] = pc[q] /\ call'[q] = call[q] /\ answer'[q] = answer[q]
    BY DEF IInv, Shaped
  <2>2. pc'[r] = await /\ call'[r] = request /\ answer'[r] = outcome
    BY DEF IInv, Shaped
  <2> QED BY <2>1, <2>2 DEF IInv, AwaitsOfOps
<1>4. RecordsAreMadeOnce'
  <2>1. \A i : MadeOnce(i) => MadeOnce(i)'
    BY <1>1 DEF MadeOnce
  <2>2. \A q \in Requests : \A i \in base'[q] : MadeOnce(i)
    BY DEF IInv, Shaped, RecordsAreMadeOnce
  <2>3. QED
    BY <2>1, <2>2, <1>1, RegistryStepKeepsRecords DEF RecordsAreMadeOnce
<1>5. DeletionsReadTheirIdea'
  BY DEF IInv, Shaped, DeletionsReadTheirIdea
<1>6. OneRecordPerName'
  BY <1>1, RegistryStepKeepsRecords
<1>7. DeletedStaysDeleted'
  <2>1. ASSUME NEW q \in Requests, q # r, call'[q].op = "delete", answer'[q] = "ok"
        PROVE  \A gone \in base'[q], idea \in registry' :
                 idea.name = gone.name => idea.by # gone.by
    <3>1. call[q].op = "delete" /\ answer[q] = "ok" /\ base'[q] = base[q]
      BY <2>1 DEF IInv, Shaped
    <3>2. QED
      BY <3>1, RegistryStepKeepsDeleted
  <2>2. ASSUME call'[r].op = "delete", answer'[r] = "ok"
        PROVE  \A gone \in base'[r], idea \in registry' : idea.name # gone.name
    BY <2>2 DEF IInv, Shaped
  <2>3. QED
    BY <2>1, <2>2 DEF DeletedStaysDeleted
<1>8. QED
  BY <1>2, <1>3, <1>4, <1>5, <1>6, <1>7 DEF IInv

----------------------------------------------------------------------------
(* Initially, and at every step                                            *)

LEMMA InitIInv == Init => IInv
<1> SUFFICES ASSUME Init PROVE IInv
  OBVIOUS
<1>1. registry = {} \/ \E i \in PriorIdeas : registry = {i}
  BY DEF Init
<1>2. \A i \in PriorIdeas : IsIdea(i) /\ i.by = None
  BY DEF PriorIdeas, IsIdea
<1>3. Shaped
  BY <1>1, <1>2 DEF Init, Shaped, NoCall, IsCall
<1>4. AwaitsOfOps /\ DeletionsReadTheirIdea /\ DeletedStaysDeleted
  BY DEF Init, AwaitsOfOps, DeletionsReadTheirIdea, DeletedStaysDeleted, NoCall
<1>5. RecordsAreMadeOnce
  BY <1>1, <1>2 DEF Init, RecordsAreMadeOnce, MadeOnce
<1>6. OneRecordPerName
  BY <1>1 DEF OneRecordPerName
<1>7. QED
  BY <1>3, <1>4, <1>5, <1>6 DEF IInv

\* A request begins, with at most the record of the name it looked up.
LEMMA BeginKeepsIInv ==
  ASSUME IInv, NEW r \in Requests, pc[r] = "idle", UNCHANGED <<store, transport>>,
         NEW request, IsCall(request), NEW await \in CellCalls \union {"body", "work"},
         NEW read \in SUBSET registry, Begin(r, request, await, read),
         await = "body" => request.op = "patch",
         await = "work" => request.op = "build",
         await = "deleteCell" => request.op = "delete",
         await # "refresh",
         request.op = "delete" => \A i \in read : i.name = request.name
  PROVE  IInv' /\ RegistryStep
<1>1. RegistryStep
  BY DEF RegistryStep, store
<1>2. answer' = [answer EXCEPT ![r] = answer[r]]
  BY DEF IInv, Shaped, Begin
<1>3. answer[r] # "ok"
  BY DEF IInv, AwaitsOfOps
<1>4. LocalStep(r, await, request, read, answer[r])
  BY <1>2, <1>3 DEF LocalStep, Begin, OtherAwaits
<1>5. IInv'
  BY <1>1, <1>4, LocalStepKeepsIInv
<1>6. QED
  BY <1>1, <1>5

LEMMA RefuseKeepsIInv ==
  ASSUME IInv, NEW r \in Requests, pc[r] = "idle", UNCHANGED <<store, transport>>,
         NEW outcome, outcome # "ok", Refuse(r, outcome)
  PROVE  IInv' /\ RegistryStep
<1>1. RegistryStep
  BY DEF RegistryStep, store
<1>2. call' = [call EXCEPT ![r] = call[r]] /\ base' = [base EXCEPT ![r] = base[r]]
  BY DEF IInv, Shaped, Refuse
<1>3. IsCall(call[r]) /\ (call[r].op = "delete" => \A i \in base[r] : i.name = call[r].name)
  BY DEF IInv, Shaped, DeletionsReadTheirIdea
<1>4. LocalStep(r, "done", call[r], base[r], outcome)
  BY <1>2, <1>3 DEF LocalStep, Refuse
<1>5. QED
  BY <1>1, <1>4, LocalStepKeepsIInv

LEMMA AcceptKeepsIInv ==
  ASSUME IInv, NEW r \in Requests, Accept(r)
  PROVE  IInv' /\ RegistryStep
<1> USE DEF Arrives, Asks, IsCall, CellCalls
<1>1. CASE ArriveCreate(r)
  <2>1. PICK n \in Names, t \in Texts \union {None} :
          IF Find(n) # {} THEN Refuse(r, "IDEA_EXISTS")
          ELSE Begin(r, [Asks("create", n) EXCEPT !.text = t], "createCell", {})
    BY <1>1 DEF ArriveCreate
  <2>2. QED
    BY <1>1, <2>1, BeginKeepsIInv, RefuseKeepsIInv DEF ArriveCreate
<1>2. CASE ArriveFork(r)
  <2>1. PICK s \in Names, n \in Names :
          IF Find(s) = {} THEN Refuse(r, "IDEA_NOT_FOUND")
          ELSE IF Find(n) # {} THEN Refuse(r, "IDEA_EXISTS")
          ELSE Begin(r, [Asks("fork", n) EXCEPT !.source = s], "forkCell", Find(s))
    BY <1>2 DEF ArriveFork
  <2>2. Find(s) \in SUBSET registry
    BY DEF Find
  <2>3. QED
    BY <1>2, <2>1, <2>2, BeginKeepsIInv, RefuseKeepsIInv DEF ArriveFork
<1>3. CASE ArrivePatch(r)
  <2>1. PICK n \in Names, t \in Texts :
          IF Find(n) = {} THEN Refuse(r, "IDEA_NOT_FOUND")
          ELSE Begin(r, [Asks("patch", n) EXCEPT !.text = t], "body", {})
    BY <1>3 DEF ArrivePatch
  <2>2. QED
    BY <1>3, <2>1, BeginKeepsIInv, RefuseKeepsIInv DEF ArrivePatch
<1>4. CASE ArriveSnapshot(r)
  <2>1. PICK n \in Names :
          IF Find(n) = {} THEN Refuse(r, "IDEA_NOT_FOUND")
          ELSE Begin(r, Asks("snapshot", n), "snapshotCell", Find(n))
    BY <1>4 DEF ArriveSnapshot
  <2>2. Find(n) \in SUBSET registry
    BY DEF Find
  <2>3. QED
    BY <1>4, <2>1, <2>2, BeginKeepsIInv, RefuseKeepsIInv DEF ArriveSnapshot
<1>5. CASE ArriveDelete(r)
  <2>1. PICK n \in Names :
          IF Find(n) = {} THEN Refuse(r, "IDEA_NOT_FOUND")
          ELSE Begin(r, Asks("delete", n), "deleteCell", Find(n))
    BY <1>5 DEF ArriveDelete
  <2>2. Find(n) \in SUBSET registry /\ \A i \in Find(n) : i.name = n
    BY DEF Find
  <2>3. QED
    BY <1>5, <2>1, <2>2, BeginKeepsIInv, RefuseKeepsIInv DEF ArriveDelete
<1>6. CASE DeleteKeepingCell(r)
  <2>1. PICK idea \in registry :
          /\ registry' = registry \ Find(idea.name)
          /\ call' = [call EXCEPT ![r] = [op |-> "delete", name |-> idea.name,
                                          source |-> None, text |-> None, keep |-> TRUE]]
          /\ base' = [base EXCEPT ![r] = {idea}]
    BY <1>6 DEF DeleteKeepingCell
  <2> DEFINE request == [op |-> "delete", name |-> idea.name,
                         source |-> None, text |-> None, keep |-> TRUE]
  <2>2. RegistryStep
    BY <2>1 DEF RegistryStep, Removes
  <2>3. \A i \in registry' : i.name # idea.name
    BY <2>1 DEF Find
  <2>4. LocalStep(r, "done", request, {idea}, "ok")
    BY <1>6, <2>1, <2>3 DEF LocalStep, DeleteKeepingCell
  <2>5. QED
    BY <2>2, <2>4, LocalStepKeepsIInv
<1>7. CASE ArriveBuild(r)
  <2>1. PICK n \in Names :
          IF Find(n) = {} THEN Refuse(r, "IDEA_NOT_FOUND")
          ELSE IF \A idea \in Find(n) : idea.text = None THEN Refuse(r, "IDEA_REQUIRED")
          ELSE Begin(r, Asks("build", n), "work", Find(n))
    BY <1>7 DEF ArriveBuild
  <2>2. Find(n) \in SUBSET registry
    BY DEF Find
  <2>3. QED
    BY <1>7, <2>1, <2>2, BeginKeepsIInv, RefuseKeepsIInv DEF ArriveBuild
<1>8. CASE ArriveImprove(r)
  <2>1. PICK n \in Names :
          IF Find(n) = {} THEN Refuse(r, "IDEA_NOT_FOUND")
          ELSE IF \A idea \in Find(n) : idea.text = None THEN Refuse(r, "IDEA_REQUIRED")
          ELSE IF \A idea \in Find(n) : idea.iterations = {} THEN Refuse(r, "NOT_BUILT_YET")
          ELSE Begin(r, Asks("improve", n), "snapshotCell", Find(n))
    BY <1>8 DEF ArriveImprove
  <2>2. Find(n) \in SUBSET registry
    BY DEF Find
  <2>3. QED
    BY <1>8, <2>1, <2>2, BeginKeepsIInv, RefuseKeepsIInv DEF ArriveImprove
<1>9. QED
  BY <1>1, <1>2, <1>3, <1>4, <1>5, <1>6, <1>7, <1>8 DEF Accept

\* A request ends: a deletion only when its name is not registered.
LEMMA FinishKeepsIInv ==
  ASSUME IInv, RegistryStep, NEW r \in Requests, Open(r), NEW outcome,
         Finish(r, outcome), UNCHANGED <<call, base>>,
         (call[r].op = "delete" /\ outcome = "ok") =>
           \A i \in registry' : i.name # call[r].name
  PROVE  IInv'
<1>1. call' = [call EXCEPT ![r] = call[r]] /\ base' = [base EXCEPT ![r] = base[r]]
  BY DEF IInv, Shaped
<1>2. IsCall(call[r]) /\ (call[r].op = "delete" => \A i \in base[r] : i.name = call[r].name)
  BY DEF IInv, Shaped, DeletionsReadTheirIdea
<1>3. LocalStep(r, "done", call[r], base[r], outcome)
  BY <1>1, <1>2 DEF LocalStep, Finish, Open, CellCalls, OtherAwaits
<1>4. QED
  BY <1>3, LocalStepKeepsIInv

\* A request goes on to its next await; its operation stays what it is.
LEMMA GotoKeepsIInv ==
  ASSUME IInv, RegistryStep, NEW r \in Requests, Open(r),
         NEW await \in CellCalls \union OtherAwaits, Goto(r, await),
         NEW request, IsCall(request), call' = [call EXCEPT ![r] = request],
         request.op = call[r].op, request.name = call[r].name, UNCHANGED base,
         await \in {"body", "refresh"} => call[r].op = "patch",
         await = "work" => call[r].op \in {"build", "improve"},
         await = "deleteCell" => call[r].op = "delete"
  PROVE  IInv'
<1>1. answer' = [answer EXCEPT ![r] = answer[r]] /\ base' = [base EXCEPT ![r] = base[r]]
  BY DEF IInv, Shaped, Goto
<1>2. call[r].op = "delete" => \A i \in base[r] : i.name = call[r].name
  BY DEF IInv, DeletionsReadTheirIdea
<1>3. answer[r] # "ok"
  BY DEF IInv, AwaitsOfOps, Open, CellCalls, OtherAwaits
<1>4. LocalStep(r, await, request, base[r], answer[r])
  BY <1>1, <1>2, <1>3 DEF LocalStep, Goto, Open, CellCalls, OtherAwaits
<1>5. QED
  BY <1>4, LocalStepKeepsIInv

\* Nothing the invariant speaks of changes.
LEMMA StutterKeepsIInv ==
  ASSUME IInv, UNCHANGED <<registry, pc, call, base, answer>>
  PROVE  IInv' /\ RegistryStep
BY DEF IInv, Shaped, AwaitsOfOps, RecordsAreMadeOnce, MadeOnce, DeletionsReadTheirIdea,
       OneRecordPerName, DeletedStaysDeleted, RegistryStep

\* addIdea registers the idea of a create or a fork, or finds its name taken.
LEMMA RegisterKeepsIInv ==
  ASSUME IInv, NEW r \in Requests, Register(r)
  PROVE  IInv' /\ RegistryStep
<1>1. Open(r) /\ call[r].op # "delete" /\ UNCHANGED <<call, base>>
  BY DEF Register, Registers
<1>2. CASE Find(call[r].name) = {}
  <2>1. registry' = registry \union {NewIdea(r)} /\ Finish(r, "ok")
    BY <1>2 DEF Register, AddIdea
  <2>2. /\ IsIdea(NewIdea(r))
        /\ NewIdea(r).by = r
        /\ NewIdea(r).name = call[r].name
    BY DEF NewIdea, IsIdea
  <2>3. pc[r] # "done" /\ pc'[r] = "done"
    BY <1>1, <2>1 DEF Finish, Open, CellCalls, OtherAwaits, IInv, Shaped
  <2>4. Adds
    BY <1>2, <2>1, <2>2, <2>3 DEF Adds
  <2>5. QED
    BY <1>1, <2>1, <2>4, FinishKeepsIInv DEF RegistryStep
<1>3. CASE Find(call[r].name) # {}
  BY <1>1, <1>3, FinishKeepsIInv DEF Register, AddIdea, RegistryStep
<1>4. QED
  BY <1>2, <1>3

\* updateIdea, recordSnapshot and recordIteration replace the record they read.
LEMMA ReplaceRevises ==
  ASSUME IInv, NEW i \in registry, NEW j, IsIdea(j), Replace(i, j),
         j.name = i.name, j.by = i.by, i.snapshots \subseteq j.snapshots
  PROVE  RegistryStep
BY DEF Replace, Revises, RegistryStep

LEMMA ProceedKeepsIInv ==
  ASSUME IInv, NEW r \in Requests, Proceed(r)
  PROVE  IInv' /\ RegistryStep
<1>1. CASE Serve(r)
  BY <1>1, StutterKeepsIInv DEF Serve
<1>2. CASE SeedCell(r)
  <2>1. RegistryStep
    BY <1>2 DEF SeedCell, store, RegistryStep
  <2>2. IsCall(call[r]) /\ call = [q \in Requests |-> call[q]]
    BY DEF IInv, Shaped
  <2>3. PICK request : /\ IsCall(request)
                       /\ call' = [call EXCEPT ![r] = request]
                       /\ request.op = call[r].op /\ request.name = call[r].name
    <3>1. CASE pc[r] = "forkCell"
      <4> DEFINE t == (CHOOSE idea \in base[r] : TRUE).text
                 request == [call[r] EXCEPT !.text = t]
      <4>1. call' = [call EXCEPT ![r] = request]
        BY <1>2, <2>2, <3>1 DEF SeedCell
      <4>2. IsCall(request) /\ request.op = call[r].op /\ request.name = call[r].name
        BY <2>2 DEF IsCall
      <4>3. QED
        BY <4>1, <4>2
    <3>2. CASE pc[r] # "forkCell"
      <4>1. call' = [call EXCEPT ![r] = call[r]]
        BY <1>2, <2>2, <3>2 DEF SeedCell
      <4>2. QED
        BY <2>2, <4>1
    <3>3. QED
      BY <3>1, <3>2
  <2>4. NextCall(r) \in {"writeFile", "deploy"}
    BY <1>2 DEF SeedCell, NextCall
  <2>5. /\ Open(r) /\ Goto(r, NextCall(r)) /\ UNCHANGED base
        /\ NextCall(r) \in CellCalls \union OtherAwaits
        /\ NextCall(r) \notin {"body", "refresh", "work", "deleteCell"}
    BY <1>2, <2>4 DEF SeedCell, CellCalls, OtherAwaits
  <2>6. IInv'
    BY <2>1, <2>3, <2>5, GotoKeepsIInv
  <2>7. QED
    BY <2>1, <2>6
<1>3. CASE Register(r)
  BY <1>3, RegisterKeepsIInv
<1>4. CASE PatchRecord(r)
  <2>1. PICK idea \in Find(call[r].name) :
          Replace(idea, [idea EXCEPT !.text = call[r].text])
    BY <1>4 DEF PatchRecord
  <2> DEFINE updated == [idea EXCEPT !.text = call[r].text]
  <2>2. idea \in registry /\ IsIdea(idea)
    BY DEF Find, IInv, Shaped
  <2>3. /\ IsIdea(updated) /\ updated.name = idea.name /\ updated.by = idea.by
        /\ idea.snapshots \subseteq updated.snapshots
    BY <2>2 DEF IsIdea
  <2>4. RegistryStep
    BY <2>1, <2>2, <2>3, ReplaceRevises
  <2>5. /\ Open(r) /\ Goto(r, "refresh") /\ UNCHANGED base
        /\ IsCall(call[r]) /\ call' = [call EXCEPT ![r] = call[r]]
        /\ call[r].op = "patch" /\ "refresh" \in CellCalls \union OtherAwaits
    BY <1>4 DEF PatchRecord, Open, CellCalls, OtherAwaits, IInv, Shaped, AwaitsOfOps
  <2>6. IInv'
    BY <2>4, <2>5, GotoKeepsIInv
  <2>7. QED
    BY <2>4, <2>6
<1>5. CASE PatchDone(r)
  <2>1. call[r].op # "delete"
    BY <1>5 DEF PatchDone, IInv, AwaitsOfOps
  <2>2. RegistryStep /\ Open(r)
    BY <1>5 DEF PatchDone, store, RegistryStep, Open, CellCalls
  <2>3. QED
    BY <1>5, <2>1, <2>2, FinishKeepsIInv DEF PatchDone
<1>6. CASE RecordSnapshot(r)
  <2>1. PICK idea \in Find(call[r].name) :
          Replace(idea, [idea EXCEPT !.snapshots = SnapshotsWith(r, idea)])
    BY <1>6 DEF RecordSnapshot
  <2> DEFINE updated == [idea EXCEPT !.snapshots = SnapshotsWith(r, idea)]
  <2>2. idea \in registry /\ IsIdea(idea)
    BY DEF Find, IInv, Shaped
  <2>3. /\ IsIdea(updated) /\ updated.name = idea.name /\ updated.by = idea.by
        /\ idea.snapshots \subseteq updated.snapshots
    BY <2>2 DEF IsIdea, SnapshotsWith
  <2>4. RegistryStep
    BY <2>1, <2>2, <2>3, ReplaceRevises
  <2>5. Open(r) /\ Finish(r, "ok") /\ UNCHANGED <<call, base>> /\ call[r].op # "delete"
    BY <1>6 DEF RecordSnapshot, Open, CellCalls
  <2>6. QED
    BY <2>4, <2>5, FinishKeepsIInv
<1>7. CASE ImproveWorks(r)
  <2>1. RegistryStep
    BY <1>7 DEF ImproveWorks, store, RegistryStep
  <2>2. /\ Open(r) /\ Goto(r, "work") /\ UNCHANGED base
        /\ IsCall(call[r]) /\ call' = [call EXCEPT ![r] = call[r]]
        /\ call[r].op = "improve" /\ "work" \in CellCalls \union OtherAwaits
    BY <1>7 DEF ImproveWorks, Open, CellCalls, OtherAwaits, IInv, Shaped
  <2>3. IInv'
    BY <2>1, <2>2, GotoKeepsIInv
  <2>4. QED
    BY <2>1, <2>3
<1>8. CASE Ship(r)
  <2>0. PICK idea \in Find(call[r].name) :
          \E its : Replace(idea, [idea EXCEPT !.iterations = its])
    BY <1>8 DEF Ship
  <2>1. PICK iterations : Replace(idea, [idea EXCEPT !.iterations = iterations])
    BY <2>0
  <2> DEFINE updated == [idea EXCEPT !.iterations = iterations]
  <2>2. idea \in registry /\ IsIdea(idea)
    BY DEF Find, IInv, Shaped
  <2>3. /\ IsIdea(updated) /\ updated.name = idea.name /\ updated.by = idea.by
        /\ idea.snapshots \subseteq updated.snapshots
    BY <2>2 DEF IsIdea
  <2>4. RegistryStep
    BY <2>1, <2>2, <2>3, ReplaceRevises
  <2>5. Open(r) /\ Finish(r, "ok") /\ UNCHANGED <<call, base>> /\ call[r].op # "delete"
    BY <1>8 DEF Ship, Open, OtherAwaits, IInv, AwaitsOfOps
  <2>6. QED
    BY <2>4, <2>5, FinishKeepsIInv
<1>9. CASE GoneMeanwhile(r)
  <2>1. RegistryStep /\ Open(r)
    BY <1>9 DEF GoneMeanwhile, store, RegistryStep, Open, CellCalls, OtherAwaits
  <2>2. QED
    BY <1>9, <2>1, FinishKeepsIInv DEF GoneMeanwhile
<1>10. CASE RemoveIdea(r)
  <2>1. Open(r) /\ Finish(r, "ok") /\ UNCHANGED <<call, base>>
    BY <1>10 DEF RemoveIdea, Open, CellCalls
  <2>2. registry' = registry \ Find(call[r].name)
    BY <1>10 DEF RemoveIdea
  <2>3. \A i \in registry' : i.name # call[r].name
    BY <2>2 DEF Find
  <2>4. RegistryStep
    BY <2>2 DEF RegistryStep, Removes, Find
  <2>5. QED
    BY <2>1, <2>3, <2>4, FinishKeepsIInv
<1>11. CASE CallFails(r)
  <2>1. RegistryStep
    BY <1>11 DEF CallFails, store, RegistryStep
  <2>2. QED
    BY <1>11, <2>1, FinishKeepsIInv DEF CallFails
<1>12. QED
  BY <1>1, <1>2, <1>3, <1>4, <1>5, <1>6, <1>7, <1>8, <1>9, <1>10, <1>11 DEF Proceed

\* A restart ends every open request with its answer lost.
LEMMA RestartKeepsIInv ==
  ASSUME IInv, Restart
  PROVE  IInv' /\ RegistryStep
<1>1. UNCHANGED <<registry, call, base>> /\ RegistryStep
  BY DEF Restart, store, RegistryStep
<1>2. \A r \in Requests :
        /\ pc'[r] = IF Open(r) THEN "done" ELSE pc[r]
        /\ answer'[r] = IF Open(r) THEN "lost" ELSE answer[r]
  BY DEF Restart
<1>3. Shaped'
  BY <1>1 DEF Restart, IInv, Shaped
<1>4. AwaitsOfOps'
  BY <1>1, <1>2 DEF IInv, AwaitsOfOps
<1>5. RecordsAreMadeOnce'
  <2>1. \A i : MadeOnce(i) => MadeOnce(i)'
    BY <1>2 DEF MadeOnce
  <2>2. QED
    BY <1>1, <2>1 DEF IInv, RecordsAreMadeOnce
<1>6. DeletionsReadTheirIdea' /\ OneRecordPerName'
  BY <1>1 DEF IInv, DeletionsReadTheirIdea, OneRecordPerName
<1>7. DeletedStaysDeleted'
  BY <1>1, <1>2 DEF IInv, DeletedStaysDeleted
<1>8. QED
  BY <1>1, <1>3, <1>4, <1>5, <1>6, <1>7 DEF IInv

\* The invariant is inductive, and every step is a step of the registry.
LEMMA NextIInv == IInv /\ [Next]_vars => IInv' /\ RegistryStep
<1> SUFFICES ASSUME IInv, [Next]_vars PROVE IInv' /\ RegistryStep
  OBVIOUS
<1>1. ASSUME NEW r \in Requests, Accept(r) PROVE IInv' /\ RegistryStep
  BY <1>1, AcceptKeepsIInv
<1>2. ASSUME NEW r \in Requests, Proceed(r) PROVE IInv' /\ RegistryStep
  BY <1>2, ProceedKeepsIInv
<1>3. CASE Restart
  BY <1>3, RestartKeepsIInv
<1>4. CASE UNCHANGED vars
  BY <1>4, StutterKeepsIInv DEF vars
<1>5. QED
  BY <1>1, <1>2, <1>3, <1>4 DEF Next

----------------------------------------------------------------------------
(* Invariants about types, cells and versions, relative to IInv            *)

\* The versions of a timeline are bounded, so that Max picks one of them.
Bounded(iterations) == \E n \in Nat : \A i \in iterations : i.v <= n

Single(S) == \A x, y \in S : x = y

\* What the awaits of a request say of the rest of its locals.
Asked(r) ==
  /\ pc[r] = "idle" => call[r] = NoCall /\ during[r] = {}
  /\ pc[r] \in {"idle", "done"} => attempts[r] = 0 /\ reply[r] = "none"
  /\ Open(r) => call[r].name \in Names /\ ~call[r].keep
  /\ pc[r] \in {"createCell", "forkCell", "writeFile", "deploy"} => call[r].op \in {"create", "fork"}
  /\ pc[r] = "forkCell" => call[r].source \in Names /\ base[r] # {}
  /\ pc[r] = "snapshotCell" => call[r].op \in {"snapshot", "improve"} /\ attempts[r] <= 1
  /\ reply[r] = "ok" => attempts[r] # 0

LocalsTyped(r) ==
  /\ pc[r] \in {"idle", "done"} \union CellCalls \union OtherAwaits
  /\ call[r] \in Call
  /\ base[r] \subseteq Idea /\ Single(base[r])
  /\ \A i \in base[r] : Bounded(i.iterations)
  /\ attempts[r] \in 0..2
  /\ reply[r] \in {"none", "ok", "notFound"}
  /\ answer[r] \in {"none", "ok", "IDEA_EXISTS", "IDEA_NOT_FOUND", "IDEA_REQUIRED",
                    "NOT_BUILT_YET", "INTERNAL_ERROR", "ONCELL_ERROR", "lost"}
  /\ during[r] \in SUBSET Requests
  /\ Asked(r)

StoreTyped ==
  /\ registry \subseteq Idea
  /\ \A i \in registry : Bounded(i.iterations)
  /\ cells \in [Names -> Cell]
  /\ mode \in {"agent", "local"}

LocalsShaped ==
  /\ pc = [r \in Requests |-> pc[r]]
  /\ call = [r \in Requests |-> call[r]]
  /\ base = [r \in Requests |-> base[r]]
  /\ attempts = [r \in Requests |-> attempts[r]]
  /\ reply = [r \in Requests |-> reply[r]]
  /\ answer = [r \in Requests |-> answer[r]]
  /\ during = [r \in Requests |-> during[r]]

Typed ==
  /\ StoreTyped
  /\ LocalsShaped
  /\ \A r \in Requests : LocalsTyped(r)

\* The call that takes a snapshot is never repeated.
ShotsAreFirst ==
  /\ \A n \in Names : \A shot \in cells[n].shots : shot.nth = 1
  /\ \A i \in registry : \A shot \in i.snapshots : shot.nth = 1

\* Two requests that are open have met.
OpenHaveMet ==
  \A q, r \in Requests : (Open(q) /\ Open(r) /\ q # r) => Overlapped(q, r)

\* A deletion of the name that met the request q.
DeletedMeanwhile(n, q) ==
  \E d \in Requests : /\ call[d].op = "delete" /\ ~call[d].keep /\ call[d].name = n
                      /\ Overlapped(d, q)

Made(q) ==
  /\ Open(q) /\ call[q].op \in {"create", "fork"}
  /\ pc[q] \in {"writeFile", "deploy"} \/ reply[q] = "ok"

\* A cell that a request has made is there, unless a deletion met the request.
MadeIsThere ==
  \A q \in Requests : Made(q) =>
    cells[call[q].name].exists \/ DeletedMeanwhile(call[q].name, q)

\* A create or a fork that met the request q.
MadeMeanwhile(q) ==
  \E m \in Requests : call[m].op \in {"create", "fork"} /\ Overlapped(q, m)

\* What an improvement under way does not know of the timeline was shipped by a
\* request that met it, or belongs to an idea made since.
ReadIsRecent ==
  \A r \in Requests : (Open(r) /\ call[r].op = "improve") =>
    \A read \in base[r], idea \in Find(call[r].name) : \A j \in idea.iterations :
      j \in read.iterations \/ Overlapped(r, j.by) \/ MadeMeanwhile(r)

\* Equal versions in a timeline come from a race.
Raced(iterations) ==
  \A i, j \in iterations : (i # j /\ i.v = j.v) =>
    Overlapped(i.by, j.by) \/ MadeMeanwhile(i.by) \/ MadeMeanwhile(j.by)

ReuseIsRaced ==
  /\ \A i \in registry : Raced(i.iterations)
  /\ \A r \in Requests : \A i \in base[r] : Raced(i.iterations)

CellInv == ShotsAreFirst /\ OpenHaveMet /\ MadeIsThere /\ CellGoneIsADeletion
VersionInv == OpenHaveMet /\ ReadIsRecent /\ ReuseIsRaced

LEMMA SingleIsSmall ==
  ASSUME NEW S, Single(S)
  PROVE  Cardinality(S) <= 1
<1>1. CASE S = {}
  BY <1>1, FS_EmptySet
<1>2. CASE S # {}
  <2>1. PICK x \in S : TRUE
    BY <1>2
  <2>2. S = {x}
    BY <2>1 DEF Single
  <2> QED BY <2>2, FS_Singleton
<1> QED BY <1>1, <1>2

LEMMA TypedIsTypeOK == Typed => TypeOK
<1> SUFFICES ASSUME Typed PROVE TypeOK
  OBVIOUS
<1>1. registry \subseteq Idea /\ cells \in [Names -> Cell] /\ mode \in {"agent", "local"}
  BY DEF Typed, StoreTyped
<1>2. \A r \in Requests : LocalsTyped(r)
  BY DEF Typed
<1>3. /\ pc \in [Requests -> {"idle", "done"} \union CellCalls \union OtherAwaits]
      /\ call \in [Requests -> Call]
      /\ attempts \in [Requests -> 0..2]
  BY <1>2 DEF Typed, LocalsShaped, LocalsTyped
<1>4. /\ reply \in [Requests -> {"none", "ok", "notFound"}]
      /\ answer \in [Requests -> {"none", "ok", "IDEA_EXISTS", "IDEA_NOT_FOUND",
                                  "IDEA_REQUIRED", "NOT_BUILT_YET", "INTERNAL_ERROR",
                                  "ONCELL_ERROR", "lost"}]
      /\ during \in [Requests -> SUBSET Requests]
  BY <1>2 DEF Typed, LocalsShaped, LocalsTyped
<1>5. \A r \in Requests : base[r] \subseteq Idea /\ Cardinality(base[r]) <= 1
  BY <1>2, SingleIsSmall DEF LocalsTyped
<1> QED BY <1>1, <1>3, <1>4, <1>5 DEF TypeOK

LEMMA MaxOfBounded ==
  ASSUME NEW S \in SUBSET Nat, S # {}, NEW n \in Nat, \A x \in S : x <= n
  PROVE  Max(S) \in S /\ \A y \in S : Max(S) >= y
<1> DEFINE T == {n - x : x \in S}
<1>1. T \subseteq Nat /\ T # {}
  <2>1. \A x \in S : n - x \in Nat
    OBVIOUS
  <2>2. PICK x \in S : TRUE
    OBVIOUS
  <2>3. n - x \in T
    BY <2>2
  <2>4. T \subseteq Nat
    BY <2>1
  <2> QED BY <2>3, <2>4
<1>2. PICK t \in T : \A u \in T : ~ (<<u, t>> \in OpToRel(<, Nat))
  <2> HIDE DEF T
  <2> QED BY <1>1, NatLessThanWellFounded, WFMin
<1>3. PICK m \in S : t = n - m
  OBVIOUS
<1>4. ASSUME NEW y \in S PROVE m >= y
  <2>1. n - y \in T /\ n - y \in Nat /\ t \in Nat
    BY <1>1
  <2>2. ~(n - y < t)
    BY <1>2, <2>1 DEF OpToRel
  <2> QED BY <1>3, <2>2
<1> HIDE DEF T
<1>5. \E x \in S : \A y \in S : x >= y
  BY <1>4
<1> QED BY <1>5 DEF Max

\* nextVersion is above every version of the timeline.
LEMMA NextVersionFacts ==
  ASSUME NEW i \in Idea, Bounded(i.iterations)
  PROVE  NextVersion(i) \in Nat /\ \A it \in i.iterations : it.v < NextVersion(i)
<1> DEFINE S == {0} \union Versions(i.iterations)
<1>1. i.iterations \subseteq Iteration
  BY DEF Idea
<1>2. S \in SUBSET Nat /\ S # {} /\ \A it \in i.iterations : it.v \in S
  BY <1>1 DEF Versions, Iteration
<1>3. PICK n \in Nat : \A it \in i.iterations : it.v <= n
  BY DEF Bounded
<1>4. \A x \in S : x <= n
  BY <1>3 DEF Versions
<1>5. NextVersion(i) = Max(S) + 1
  BY DEF NextVersion
<1> HIDE DEF S
<1>6. Max(S) \in S /\ \A y \in S : Max(S) >= y
  BY <1>2, <1>3, <1>4, MaxOfBounded
<1>7. Max(S) \in Nat /\ \A it \in i.iterations : it.v \in Nat /\ Max(S) >= it.v
  BY <1>2, <1>6
<1> QED BY <1>5, <1>7

----------------------------------------------------------------------------
(* One step of one request                                                 *)

\* Only the locals of r change.
Moved(r) ==
  /\ pc' = [pc EXCEPT ![r] = pc'[r]]
  /\ call' = [call EXCEPT ![r] = call'[r]]
  /\ base' = [base EXCEPT ![r] = base'[r]]
  /\ attempts' = [attempts EXCEPT ![r] = attempts'[r]]
  /\ reply' = [reply EXCEPT ![r] = reply'[r]]
  /\ answer' = [answer EXCEPT ![r] = answer'[r]]
  /\ during' = [during EXCEPT ![r] = during'[r]]

\* The ways a request moves: it begins on what it has read, is answered at
\* once, or goes on with the question and the reading it began with.
Begins(r) ==
  /\ pc[r] = "idle" /\ Open(r)'
  /\ during'[r] = {q \in Requests : Open(q)}
  /\ base'[r] \subseteq registry
  /\ call'[r].op = "improve" => base'[r] = Find(call'[r].name)
  /\ call'[r].op = "create" => base'[r] = {}
  /\ reply'[r] = "none" /\ pc'[r] \notin {"writeFile", "deploy"}
  /\ answer'[r] # "ok"
  /\ UNCHANGED <<registry, cells>>

AnsweredAtOnce(r) ==
  /\ pc[r] = "idle" /\ pc'[r] = "done"
  /\ during'[r] = during[r]
  /\ base'[r] \subseteq base[r] \union registry
  /\ DeleteKeepingCell(r) \/ (answer'[r] # "ok" /\ UNCHANGED registry)
  /\ registry' \subseteq registry
  /\ call'[r].op # "create"
  /\ UNCHANGED cells

GoesOn(r) ==
  /\ Open(r) /\ pc'[r] # "idle"
  /\ call'[r].op = call[r].op /\ call'[r].name = call[r].name /\ call'[r].keep = call[r].keep
  /\ base'[r] = base[r] /\ during'[r] = during[r]

Life(r) == Moved(r) /\ (Begins(r) \/ AnsweredAtOnce(r) \/ GoesOn(r))

\* Variables that a step gives new values for r only, or leaves as they are.
LEMMA Values ==
  ASSUME LocalsShaped, NEW r \in Requests
  PROVE  /\ \A x : pc' = [pc EXCEPT ![r] = x] => pc'[r] = x
         /\ \A x : call' = [call EXCEPT ![r] = x] => call'[r] = x
         /\ \A x : base' = [base EXCEPT ![r] = x] => base'[r] = x
         /\ \A x : attempts' = [attempts EXCEPT ![r] = x] => attempts'[r] = x
         /\ \A x : reply' = [reply EXCEPT ![r] = x] => reply'[r] = x
         /\ \A x : answer' = [answer EXCEPT ![r] = x] => answer'[r] = x
         /\ \A x : during' = [during EXCEPT ![r] = x] => during'[r] = x
BY DEF LocalsShaped

LEMMA Unmoved ==
  ASSUME LocalsShaped, NEW r \in Requests
  PROVE  /\ pc = [pc EXCEPT ![r] = pc[r]]
         /\ call = [call EXCEPT ![r] = call[r]]
         /\ base = [base EXCEPT ![r] = base[r]]
         /\ attempts = [attempts EXCEPT ![r] = attempts[r]]
         /\ reply = [reply EXCEPT ![r] = reply[r]]
         /\ answer = [answer EXCEPT ![r] = answer[r]]
         /\ during = [during EXCEPT ![r] = during[r]]
BY DEF LocalsShaped

\* The locals of the others stay, so typing is a matter of r and the store.
LEMMA OthersStay ==
  ASSUME LocalsShaped, NEW r \in Requests, Moved(r), NEW q \in Requests, q # r
  PROVE  /\ pc'[q] = pc[q] /\ call'[q] = call[q] /\ base'[q] = base[q]
         /\ attempts'[q] = attempts[q] /\ reply'[q] = reply[q]
         /\ answer'[q] = answer[q] /\ during'[q] = during[q]
<1>1. pc'[q] = pc[q] /\ call'[q] = call[q] /\ base'[q] = base[q]
  BY DEF Moved, LocalsShaped
<1>2. attempts'[q] = attempts[q] /\ reply'[q] = reply[q]
  BY DEF Moved, LocalsShaped
<1>3. answer'[q] = answer[q] /\ during'[q] = during[q]
  BY DEF Moved, LocalsShaped
<1> QED BY <1>1, <1>2, <1>3

LEMMA MovedKeepsTyped ==
  ASSUME Typed, NEW r \in Requests, Moved(r), LocalsTyped(r)', StoreTyped'
  PROVE  Typed'
<1>0. LocalsShaped /\ \A q \in Requests : LocalsTyped(q)
  BY DEF Typed
<1>1. LocalsShaped'
  BY <1>0 DEF LocalsShaped, Moved
<1>2. ASSUME NEW q \in Requests, q # r PROVE LocalsTyped(q)'
  <2>1. /\ pc'[q] = pc[q] /\ call'[q] = call[q] /\ base'[q] = base[q]
        /\ attempts'[q] = attempts[q] /\ reply'[q] = reply[q]
        /\ answer'[q] = answer[q] /\ during'[q] = during[q]
    BY <1>0, <1>2, OthersStay
  <2>2. LocalsTyped(q)
    BY <1>0
  <2>3. Asked(q)'
    BY <2>1, <2>2 DEF LocalsTyped, Asked, Open
  <2> QED BY <2>1, <2>2, <2>3 DEF LocalsTyped, Single, Bounded
<1> QED BY <1>1, <1>2 DEF Typed

\* A request begins, with the record of a name it looked up, or none.
LEMMA BeginLives ==
  ASSUME IInv, Typed, NEW r \in Requests, pc[r] = "idle", UNCHANGED <<store, transport>>,
         NEW request \in Call, NEW await, NEW read, Begin(r, request, await, read),
         await \in {"createCell", "forkCell", "snapshotCell", "deleteCell", "body", "work"},
         request.name \in Names, ~request.keep,
         read = {} \/ \E n \in Names : read = Find(n),
         request.op = "improve" => read = Find(request.name),
         request.op = "create" => read = {},
         await \in {"createCell", "forkCell"} => request.op \in {"create", "fork"},
         await = "forkCell" => request.source \in Names /\ read # {},
         await = "snapshotCell" => request.op \in {"snapshot", "improve"}
  PROVE  Typed' /\ Life(r)
<1>0. LocalsShaped /\ StoreTyped /\ LocalsTyped(r)
  BY DEF Typed
<1>1. /\ pc' = [pc EXCEPT ![r] = await] /\ call' = [call EXCEPT ![r] = request]
      /\ base' = [base EXCEPT ![r] = read]
      /\ during' = [during EXCEPT ![r] = {q \in Requests : Open(q)}]
      /\ answer' = answer /\ attempts' = attempts /\ reply' = reply
      /\ registry' = registry /\ cells' = cells /\ mode' = mode
  BY DEF Begin, store, transport
<1>2. /\ pc'[r] = await /\ call'[r] = request /\ base'[r] = read
      /\ during'[r] = {q \in Requests : Open(q)}
      /\ answer'[r] = answer[r] /\ attempts'[r] = attempts[r] /\ reply'[r] = reply[r]
  BY <1>0, <1>1, Values
<1>3. Moved(r)
  BY <1>0, <1>1, <1>2, Unmoved DEF Moved
<1>4. read \subseteq registry /\ Single(read)
  BY DEF Find, Single, IInv, OneRecordPerName
<1>5. attempts[r] = 0 /\ reply[r] = "none"
  BY <1>0 DEF LocalsTyped, Asked
<1>6. Open(r)'
  BY <1>2 DEF Open, CellCalls, OtherAwaits
<1>7. StoreTyped'
  BY <1>0, <1>1 DEF StoreTyped, Bounded
<1>8. Asked(r)'
  BY <1>2, <1>5 DEF Asked
<1>9. LocalsTyped(r)'
  <2>1. pc'[r] \in {"idle", "done"} \union CellCalls \union OtherAwaits
    BY <1>2 DEF CellCalls, OtherAwaits
  <2>2. base'[r] \subseteq Idea /\ Single(base'[r]) /\ \A i \in base'[r] : Bounded(i.iterations)
    BY <1>0, <1>2, <1>4 DEF StoreTyped
  <2> QED BY <1>0, <1>2, <1>5, <1>8, <2>1, <2>2 DEF LocalsTyped, Bounded, Single
<1>10. Begins(r)
  <2>1. answer'[r] # "ok"
    BY <1>2 DEF IInv, AwaitsOfOps
  <2>2. reply'[r] = "none" /\ pc'[r] \notin {"writeFile", "deploy"}
    BY <1>2, <1>5
  <2>3. /\ call'[r].op = "improve" => base'[r] = Find(call'[r].name)
        /\ call'[r].op = "create" => base'[r] = {}
    BY <1>2
  <2> QED BY <1>1, <1>2, <1>4, <1>6, <2>1, <2>2, <2>3 DEF Begins
<1> QED BY <1>3, <1>7, <1>9, <1>10, MovedKeepsTyped DEF Life

LEMMA RefuseLives ==
  ASSUME IInv, Typed, NEW r \in Requests, pc[r] = "idle", UNCHANGED <<store, transport>>,
         NEW outcome \in {"IDEA_EXISTS", "IDEA_NOT_FOUND", "IDEA_REQUIRED", "NOT_BUILT_YET"},
         Refuse(r, outcome)
  PROVE  Typed' /\ Life(r)
<1>0. LocalsShaped /\ StoreTyped /\ LocalsTyped(r)
  BY DEF Typed
<1>1. /\ pc' = [pc EXCEPT ![r] = "done"] /\ answer' = [answer EXCEPT ![r] = outcome]
      /\ call' = call /\ base' = base /\ during' = during
      /\ attempts' = attempts /\ reply' = reply
      /\ registry' = registry /\ cells' = cells /\ mode' = mode
  BY DEF Refuse, store, transport
<1>2. /\ pc'[r] = "done" /\ call'[r] = call[r] /\ base'[r] = base[r] /\ during'[r] = during[r]
      /\ answer'[r] = outcome /\ attempts'[r] = attempts[r] /\ reply'[r] = reply[r]
  BY <1>0, <1>1, Values
<1>3. Moved(r)
  BY <1>0, <1>1, <1>2, Unmoved DEF Moved
<1>4. StoreTyped'
  BY <1>0, <1>1 DEF StoreTyped, Bounded
<1>5. attempts[r] = 0 /\ reply[r] = "none"
  BY <1>0 DEF LocalsTyped, Asked
<1>6. Asked(r)'
  BY <1>2, <1>5 DEF Asked, Open, CellCalls, OtherAwaits
<1>7. LocalsTyped(r)'
  BY <1>0, <1>2, <1>6 DEF LocalsTyped, Bounded, Single
<1>8. call[r].op # "create"
  BY <1>0 DEF LocalsTyped, Asked, NoCall
<1>9. AnsweredAtOnce(r)
  BY <1>1, <1>2, <1>8 DEF AnsweredAtOnce
<1> QED BY <1>3, <1>4, <1>7, <1>9, MovedKeepsTyped DEF Life

LEMMA AsksIsCall ==
  ASSUME NEW op \in AllOps, NEW n \in Names, NEW s \in Names \union {None}, NEW t \in Texts \union {None}
  PROVE  /\ [Asks(op, n) EXCEPT !.text = t] \in Call
         /\ [Asks(op, n) EXCEPT !.source = s] \in Call
         /\ Asks(op, n) \in Call
BY DEF Asks, Call

LEMMA AcceptLives ==
  ASSUME IInv, Typed, NEW r \in Requests, Accept(r)
  PROVE  Typed' /\ Life(r)
<1> USE DEF Arrives
<1>a. \A op : Arrives(r, op) => op \in AllOps
  BY OpsAreKnown
<1>1. CASE ArriveCreate(r)
  <2>1. PICK n \in Names, t \in Texts \union {None} :
          IF Find(n) # {} THEN Refuse(r, "IDEA_EXISTS")
          ELSE Begin(r, [Asks("create", n) EXCEPT !.text = t], "createCell", {})
    BY <1>1 DEF ArriveCreate
  <2> DEFINE request == [Asks("create", n) EXCEPT !.text = t]
  <2>2. request \in Call /\ request.op = "create" /\ request.name = n /\ ~request.keep
    BY AsksIsCall DEF Asks, AllOps
  <2>3. pc[r] = "idle" /\ UNCHANGED <<store, transport>>
    BY <1>1 DEF ArriveCreate
  <2>4. CASE Find(n) # {}
    BY <2>1, <2>3, <2>4, RefuseLives
  <2>5. CASE Find(n) = {}
    <3>1. Begin(r, request, "createCell", {})
      BY <2>1, <2>5
    <3> HIDE DEF request
    <3> QED BY <3>1, <2>2, <2>3, BeginLives
  <2> QED BY <2>4, <2>5
<1>2. CASE ArriveFork(r)
  <2>1. PICK s \in Names, n \in Names :
          IF Find(s) = {} THEN Refuse(r, "IDEA_NOT_FOUND")
          ELSE IF Find(n) # {} THEN Refuse(r, "IDEA_EXISTS")
          ELSE Begin(r, [Asks("fork", n) EXCEPT !.source = s], "forkCell", Find(s))
    BY <1>2 DEF ArriveFork
  <2> DEFINE request == [Asks("fork", n) EXCEPT !.source = s]
  <2>2. request \in Call /\ request.op = "fork" /\ request.name = n /\ request.source = s /\ ~request.keep
    BY AsksIsCall DEF Asks, AllOps
  <2>3. pc[r] = "idle" /\ UNCHANGED <<store, transport>>
    BY <1>2 DEF ArriveFork
  <2>4. CASE Find(s) = {} \/ Find(n) # {}
    BY <2>1, <2>3, <2>4, RefuseLives
  <2>5. CASE Find(s) # {} /\ Find(n) = {}
    <3>1. Begin(r, request, "forkCell", Find(s))
      BY <2>1, <2>5
    <3> HIDE DEF request
    <3> QED BY <3>1, <2>2, <2>3, <2>5, BeginLives
  <2> QED BY <2>4, <2>5
<1>3. CASE ArrivePatch(r)
  <2>1. PICK n \in Names, t \in Texts :
          IF Find(n) = {} THEN Refuse(r, "IDEA_NOT_FOUND")
          ELSE Begin(r, [Asks("patch", n) EXCEPT !.text = t], "body", {})
    BY <1>3 DEF ArrivePatch
  <2> DEFINE request == [Asks("patch", n) EXCEPT !.text = t]
  <2>2. request \in Call /\ request.op = "patch" /\ request.name = n /\ ~request.keep
    BY AsksIsCall DEF Asks, AllOps
  <2>3. pc[r] = "idle" /\ UNCHANGED <<store, transport>>
    BY <1>3 DEF ArrivePatch
  <2>4. CASE Find(n) = {}
    BY <2>1, <2>3, <2>4, RefuseLives
  <2>5. CASE Find(n) # {}
    <3>1. Begin(r, request, "body", {})
      BY <2>1, <2>5
    <3> HIDE DEF request
    <3> QED BY <3>1, <2>2, <2>3, BeginLives
  <2> QED BY <2>4, <2>5
<1>4. CASE ArriveSnapshot(r)
  <2>1. PICK n \in Names :
          IF Find(n) = {} THEN Refuse(r, "IDEA_NOT_FOUND")
          ELSE Begin(r, Asks("snapshot", n), "snapshotCell", Find(n))
    BY <1>4 DEF ArriveSnapshot
  <2>2. LET request == Asks("snapshot", n) IN
        request \in Call /\ request.op = "snapshot" /\ request.name = n /\ ~request.keep
    BY AsksIsCall DEF Asks, AllOps
  <2>3. pc[r] = "idle" /\ UNCHANGED <<store, transport>>
    BY <1>4 DEF ArriveSnapshot
  <2>4. CASE Find(n) = {}
    BY <2>1, <2>3, <2>4, RefuseLives
  <2>5. CASE Find(n) # {}
    BY <2>1, <2>2, <2>3, <2>5, BeginLives
  <2> QED BY <2>4, <2>5
<1>5. CASE ArriveDelete(r)
  <2>1. PICK n \in Names :
          IF Find(n) = {} THEN Refuse(r, "IDEA_NOT_FOUND")
          ELSE Begin(r, Asks("delete", n), "deleteCell", Find(n))
    BY <1>5 DEF ArriveDelete
  <2>2. LET request == Asks("delete", n) IN
        request \in Call /\ request.op = "delete" /\ request.name = n /\ ~request.keep
    BY AsksIsCall DEF Asks, AllOps
  <2>3. pc[r] = "idle" /\ UNCHANGED <<store, transport>>
    BY <1>5 DEF ArriveDelete
  <2>4. CASE Find(n) = {}
    BY <2>1, <2>3, <2>4, RefuseLives
  <2>5. CASE Find(n) # {}
    BY <2>1, <2>2, <2>3, <2>5, BeginLives
  <2> QED BY <2>4, <2>5
<1>6. CASE DeleteKeepingCell(r)
  <2>0. LocalsShaped /\ StoreTyped /\ LocalsTyped(r)
    BY DEF Typed
  <2>1. PICK idea \in registry :
          /\ registry' = registry \ Find(idea.name)
          /\ call' = [call EXCEPT ![r] = [op |-> "delete", name |-> idea.name,
                                          source |-> None, text |-> None, keep |-> TRUE]]
          /\ base' = [base EXCEPT ![r] = {idea}]
    BY <1>6 DEF DeleteKeepingCell
  <2>2. /\ pc' = [pc EXCEPT ![r] = "done"] /\ answer' = [answer EXCEPT ![r] = "ok"]
        /\ during' = during /\ attempts' = attempts /\ reply' = reply
        /\ cells' = cells /\ mode' = mode /\ pc[r] = "idle"
    BY <1>6 DEF DeleteKeepingCell, transport
  <2>3. /\ pc'[r] = "done" /\ base'[r] = {idea} /\ during'[r] = during[r]
        /\ call'[r] = [op |-> "delete", name |-> idea.name,
                       source |-> None, text |-> None, keep |-> TRUE]
        /\ answer'[r] = "ok" /\ attempts'[r] = attempts[r] /\ reply'[r] = reply[r]
    BY <2>0, <2>1, <2>2, Values
  <2>4. Moved(r)
    BY <2>0, <2>1, <2>2, <2>3, Unmoved DEF Moved
  <2>5. StoreTyped'
    BY <2>0, <2>1, <2>2 DEF StoreTyped, Bounded
  <2>6. attempts[r] = 0 /\ reply[r] = "none"
    BY <2>0, <2>2 DEF LocalsTyped, Asked
  <2>7. Asked(r)'
    BY <2>3, <2>6 DEF Asked, Open, CellCalls, OtherAwaits
  <2>8. call'[r] \in Call /\ idea \in Idea /\ Bounded(idea.iterations)
    <3>1. idea \in Idea /\ Bounded(idea.iterations)
      BY <2>0, <2>1 DEF StoreTyped
    <3>2. idea.name \in Names
      BY <3>1 DEF Idea
    <3> QED BY <2>3, <3>1, <3>2 DEF Call, AllOps
  <2>9. LocalsTyped(r)'
    BY <2>0, <2>3, <2>7, <2>8 DEF LocalsTyped, Bounded, Single
  <2>10. AnsweredAtOnce(r)
    BY <1>6, <2>1, <2>2, <2>3 DEF AnsweredAtOnce
  <2> QED BY <2>4, <2>5, <2>9, <2>10, MovedKeepsTyped DEF Life
<1>7. CASE ArriveBuild(r)
  <2>1. PICK n \in Names :
          IF Find(n) = {} THEN Refuse(r, "IDEA_NOT_FOUND")
          ELSE IF \A idea \in Find(n) : idea.text = None THEN Refuse(r, "IDEA_REQUIRED")
          ELSE Begin(r, Asks("build", n), "work", Find(n))
    BY <1>7 DEF ArriveBuild
  <2>2. LET request == Asks("build", n) IN
        request \in Call /\ request.op = "build" /\ request.name = n /\ ~request.keep
    BY AsksIsCall DEF Asks, AllOps
  <2>3. pc[r] = "idle" /\ UNCHANGED <<store, transport>>
    BY <1>7 DEF ArriveBuild
  <2>4. CASE \E outcome \in {"IDEA_NOT_FOUND", "IDEA_REQUIRED"} : Refuse(r, outcome)
    BY <2>3, <2>4, RefuseLives
  <2>5. CASE Begin(r, Asks("build", n), "work", Find(n))
    BY <2>2, <2>3, <2>5, BeginLives
  <2> QED BY <2>1, <2>4, <2>5
<1>8. CASE ArriveImprove(r)
  <2>1. PICK n \in Names :
          IF Find(n) = {} THEN Refuse(r, "IDEA_NOT_FOUND")
          ELSE IF \A idea \in Find(n) : idea.text = None THEN Refuse(r, "IDEA_REQUIRED")
          ELSE IF \A idea \in Find(n) : idea.iterations = {} THEN Refuse(r, "NOT_BUILT_YET")
          ELSE Begin(r, Asks("improve", n), "snapshotCell", Find(n))
    BY <1>8 DEF ArriveImprove
  <2>2. LET request == Asks("improve", n) IN
        request \in Call /\ request.op = "improve" /\ request.name = n /\ ~request.keep
    BY AsksIsCall DEF Asks, AllOps
  <2>3. pc[r] = "idle" /\ UNCHANGED <<store, transport>>
    BY <1>8 DEF ArriveImprove
  <2>4. CASE \E outcome \in {"IDEA_NOT_FOUND", "IDEA_REQUIRED", "NOT_BUILT_YET"} : Refuse(r, outcome)
    BY <2>3, <2>4, RefuseLives
  <2>5. CASE Begin(r, Asks("improve", n), "snapshotCell", Find(n))
    BY <2>2, <2>3, <2>5, BeginLives
  <2> QED BY <2>1, <2>4, <2>5
<1> QED
  BY <1>1, <1>2, <1>3, <1>4, <1>5, <1>6, <1>7, <1>8 DEF Accept

----------------------------------------------------------------------------
(* Steps of a request that is under way                                    *)

\* A request ends with an answer.
LEMMA FinishLives ==
  ASSUME Typed, NEW r \in Requests, Open(r), StoreTyped', UNCHANGED <<call, base, during>>,
         NEW outcome \in {"ok", "INTERNAL_ERROR", "ONCELL_ERROR"}, Finish(r, outcome)
  PROVE  Typed' /\ Life(r) /\ answer'[r] = outcome /\ pc'[r] = "done"
<1>0. LocalsShaped /\ LocalsTyped(r)
  BY DEF Typed
<1>1. /\ pc' = [pc EXCEPT ![r] = "done"] /\ answer' = [answer EXCEPT ![r] = outcome]
      /\ attempts' = [attempts EXCEPT ![r] = 0] /\ reply' = [reply EXCEPT ![r] = "none"]
      /\ call' = call /\ base' = base /\ during' = during
  BY DEF Finish
<1>2. /\ pc'[r] = "done" /\ call'[r] = call[r] /\ base'[r] = base[r] /\ during'[r] = during[r]
      /\ answer'[r] = outcome /\ attempts'[r] = 0 /\ reply'[r] = "none"
  BY <1>0, <1>1, Values
<1>3. Moved(r)
  BY <1>0, <1>1, <1>2, Unmoved DEF Moved
<1>4. Asked(r)'
  BY <1>2 DEF Asked, Open, CellCalls, OtherAwaits
<1>5. LocalsTyped(r)'
  BY <1>0, <1>2, <1>4 DEF LocalsTyped, Bounded, Single
<1>6. GoesOn(r)
  BY <1>2 DEF GoesOn
<1> QED BY <1>2, <1>3, <1>5, <1>6, MovedKeepsTyped DEF Life

\* A request goes on to another await.
LEMMA GotoLives ==
  ASSUME Typed, NEW r \in Requests, Open(r), StoreTyped', UNCHANGED <<base, during>>,
         NEW await \in {"writeFile", "deploy", "refresh", "work"}, Goto(r, await),
         NEW request \in Call, call' = [call EXCEPT ![r] = request],
         request.op = call[r].op, request.name = call[r].name, request.keep = call[r].keep,
         await \in {"writeFile", "deploy"} => request.op \in {"create", "fork"}
  PROVE  Typed' /\ Life(r) /\ pc'[r] = await /\ reply'[r] = "none" /\ answer' = answer
<1>0. LocalsShaped /\ LocalsTyped(r)
  BY DEF Typed
<1>1. /\ pc' = [pc EXCEPT ![r] = await] /\ answer' = answer
      /\ attempts' = [attempts EXCEPT ![r] = 0] /\ reply' = [reply EXCEPT ![r] = "none"]
      /\ call' = [call EXCEPT ![r] = request] /\ base' = base /\ during' = during
  BY DEF Goto
<1>2. /\ pc'[r] = await /\ call'[r] = request /\ base'[r] = base[r] /\ during'[r] = during[r]
      /\ answer'[r] = answer[r] /\ attempts'[r] = 0 /\ reply'[r] = "none"
  BY <1>0, <1>1, Values
<1>3. Moved(r)
  BY <1>0, <1>1, <1>2, Unmoved DEF Moved
<1>4. Asked(r)'
  BY <1>0, <1>2 DEF Asked, LocalsTyped
<1>5. LocalsTyped(r)'
  BY <1>0, <1>2, <1>4 DEF LocalsTyped, Bounded, Single, CellCalls, OtherAwaits
<1>6. GoesOn(r)
  BY <1>2 DEF GoesOn
<1> QED BY <1>1, <1>2, <1>3, <1>5, <1>6, MovedKeepsTyped DEF Life

\* OnCell keeps cells what they are, and counts what it applied.
LEMMA ServeLives ==
  ASSUME Typed, NEW r \in Requests, Serve(r)
  PROVE  Typed' /\ Life(r) /\ pc'[r] = pc[r] /\ call' = call /\ answer' = answer
<1>0. LocalsShaped /\ StoreTyped /\ LocalsTyped(r)
  BY DEF Typed
<1>1. PICK word \in {"ok", "notFound"} : reply' = [reply EXCEPT ![r] = word]
  BY DEF Serve
<1>2. /\ pc' = pc /\ call' = call /\ base' = base /\ during' = during /\ answer' = answer
      /\ attempts' = [attempts EXCEPT ![r] = attempts[r] + 1]
      /\ registry' = registry /\ mode' = mode
      /\ pc[r] \in CellCalls /\ attempts[r] < MaxAttempts(pc[r])
  BY DEF Serve
<1>3. /\ pc'[r] = pc[r] /\ call'[r] = call[r] /\ base'[r] = base[r] /\ during'[r] = during[r]
      /\ answer'[r] = answer[r] /\ attempts'[r] = attempts[r] + 1 /\ reply'[r] = word
  BY <1>0, <1>1, <1>2, Values
<1>4. Moved(r)
  BY <1>0, <1>1, <1>2, <1>3, Unmoved DEF Moved
<1>5. Open(r) /\ attempts[r] \in 0..2
  BY <1>0, <1>2 DEF Open, LocalsTyped
<1>6. attempts'[r] \in 1..2 /\ (pc[r] = "snapshotCell" => attempts'[r] <= 1)
  BY <1>2, <1>3, <1>5 DEF MaxAttempts, NeverRetried
<1>7. Asked(r)
  BY <1>0 DEF LocalsTyped
<1>8. Asked(r)'
  BY <1>2, <1>3, <1>5, <1>6, <1>7 DEF Asked, Open, CellCalls
<1>9. LocalsTyped(r)'
  BY <1>0, <1>3, <1>6, <1>8 DEF LocalsTyped, Bounded, Single
<1>10. cells' \in [Names -> Cell]
  <2>1. call[r].name \in Names /\ cells \in [Names -> Cell]
    BY <1>0, <1>5, <1>7 DEF Asked, StoreTyped
  <2>2. cells[call[r].name] \in Cell /\ NoCell \in Cell
    BY <2>1 DEF Cell, NoCell
  <2>3. ASSUME pc[r] \in {"createCell", "forkCell"} PROVE CellAfter(r) \in Cell
    <3>1. CASE pc[r] = "forkCell"
      <4>1. cells[call[r].source] \in Cell
        BY <1>7, <2>1, <3>1 DEF Asked
      <4> QED BY <2>2, <3>1, <4>1 DEF CellAfter, Cell
    <3>2. CASE pc[r] = "createCell"
      BY <2>2, <3>2 DEF CellAfter, Cell
    <3> QED BY <2>3, <3>1, <3>2
  <2>4. ASSUME pc[r] = "snapshotCell" PROVE CellAfter(r) \in Cell
    <3>1. [by |-> r, nth |-> attempts[r] + 1] \in Shot
      BY <1>3, <1>6 DEF Shot
    <3> HIDE DEF Shot
    <3> QED BY <2>2, <2>4, <3>1 DEF CellAfter, Cell
  <2>5. ASSUME pc[r] \notin {"createCell", "forkCell", "snapshotCell"} PROVE CellAfter(r) \in Cell
    <3>1. call[r].text \in Texts \union {None}
      BY <1>0 DEF LocalsTyped, Call
    <3> QED BY <2>2, <2>5, <3>1 DEF CellAfter, Cell
  <2>6. cells' = [cells EXCEPT ![call[r].name] = CellAfter(r)] \/ cells' = cells
    BY DEF Serve
  <2> QED BY <2>1, <2>3, <2>4, <2>5, <2>6
<1>11. StoreTyped'
  BY <1>0, <1>2, <1>10 DEF StoreTyped, Bounded
<1>12. GoesOn(r)
  BY <1>2, <1>3, <1>5 DEF GoesOn, CellCalls
<1> QED BY <1>2, <1>3, <1>4, <1>9, <1>11, <1>12, MovedKeepsTyped DEF Life

\* Replacing a record by a well-formed one keeps the store well-formed.
LEMMA ReplaceTyped ==
  ASSUME StoreTyped, NEW i \in registry, NEW j \in Idea, Bounded(j.iterations),
         Replace(i, j), UNCHANGED <<cells, mode>>
  PROVE  StoreTyped'
BY DEF StoreTyped, Replace, Bounded

LEMMA NewIdeaTyped ==
  ASSUME Typed, NEW r \in Requests, Open(r)
  PROVE  /\ NewIdea(r) \in Idea /\ Bounded(NewIdea(r).iterations)
         /\ NewIdea(r).name = call[r].name /\ NewIdea(r).by = r /\ NewIdea(r).snapshots = {}
         /\ \A j \in NewIdea(r).iterations : \E i \in base[r] : j \in i.iterations
         /\ NewIdea(r).iterations = {} \/ \E i \in base[r] : NewIdea(r).iterations = i.iterations
<1> DEFINE its == UNION {i.iterations : i \in base[r]}
<1>0. LocalsTyped(r)
  BY DEF Typed
<1>1. its = {} \/ \E i \in base[r] : its = i.iterations
  <2>1. CASE base[r] = {}
    BY <2>1
  <2>2. CASE base[r] # {}
    <3>1. PICK i \in base[r] : TRUE
      BY <2>2
    <3>2. base[r] = {i}
      BY <1>0, <3>1 DEF LocalsTyped, Single
    <3> QED BY <3>2
  <2> QED BY <2>1, <2>2
<1>2. its \subseteq Iteration /\ Bounded(its)
  <2>1. CASE its = {}
    BY <2>1 DEF Bounded
  <2>2. ASSUME NEW i \in base[r], its = i.iterations PROVE its \subseteq Iteration /\ Bounded(its)
    <3>1. i \in Idea /\ Bounded(i.iterations)
      BY <1>0 DEF LocalsTyped
    <3> QED BY <2>2, <3>1 DEF Idea
  <2> QED BY <1>1, <2>1, <2>2
<1>3. \A j \in its : \E i \in base[r] : j \in i.iterations
  OBVIOUS
<1>4. NewIdea(r) = [name |-> call[r].name, by |-> r, text |-> call[r].text,
                    snapshots |-> {}, iterations |-> its]
  BY DEF NewIdea
<1>5. call[r].name \in Names /\ call[r].text \in Texts \union {None}
  BY <1>0 DEF LocalsTyped, Asked, Call
<1> HIDE DEF its
<1>6. NewIdea(r) \in Idea
  BY <1>2, <1>4, <1>5 DEF Idea
<1> QED BY <1>1, <1>2, <1>3, <1>4, <1>6

LEMMA RegisterLives ==
  ASSUME Typed, NEW r \in Requests, Register(r)
  PROVE  Typed' /\ Life(r)
<1>0. StoreTyped /\ Open(r) /\ UNCHANGED <<cells, mode, call, base, during>>
  BY DEF Typed, Register, Registers
<1>1. /\ registry' = registry \union {NewIdea(r)} \/ registry' = registry
      /\ \E outcome \in {"ok", "INTERNAL_ERROR"} : Finish(r, outcome)
  BY DEF Register, AddIdea
<1>2. NewIdea(r) \in Idea /\ Bounded(NewIdea(r).iterations)
  BY <1>0, NewIdeaTyped
<1>3. StoreTyped'
  BY <1>0, <1>1, <1>2 DEF StoreTyped, Bounded
<1> QED BY <1>0, <1>1, <1>3, FinishLives

LEMMA PatchRecordLives ==
  ASSUME Typed, NEW r \in Requests, PatchRecord(r)
  PROVE  Typed' /\ Life(r) /\ pc'[r] = "refresh" /\ answer' = answer
<1>0. StoreTyped /\ LocalsTyped(r) /\ LocalsShaped
  BY DEF Typed
<1>1. /\ pc[r] = "body" /\ Open(r) /\ Goto(r, "refresh")
      /\ UNCHANGED <<cells, mode, call, base, during>>
  BY DEF PatchRecord, Open, OtherAwaits
<1>2. PICK idea \in Find(call[r].name) : Replace(idea, [idea EXCEPT !.text = call[r].text])
  BY DEF PatchRecord
<1>3. idea \in registry /\ idea \in Idea /\ Bounded(idea.iterations)
  BY <1>0 DEF Find, StoreTyped
<1> DEFINE updated == [idea EXCEPT !.text = call[r].text]
<1>4. call[r] \in Call /\ call[r].text \in Texts \union {None}
  BY <1>0 DEF LocalsTyped, Call
<1>5. updated \in Idea /\ updated.iterations = idea.iterations
  BY <1>3, <1>4 DEF Idea
<1>6. StoreTyped'
  <2> HIDE DEF updated
  <2>1. Replace(idea, updated)
    BY <1>2 DEF updated
  <2> QED BY <1>0, <1>1, <1>3, <1>5, <2>1, ReplaceTyped
<1>7. call' = [call EXCEPT ![r] = call[r]]
  BY <1>0, <1>1, Unmoved
<1> QED BY <1>1, <1>4, <1>6, <1>7, GotoLives

LEMMA RecordSnapshotLives ==
  ASSUME Typed, NEW r \in Requests, RecordSnapshot(r)
  PROVE  Typed' /\ Life(r)
<1>0. StoreTyped /\ LocalsTyped(r)
  BY DEF Typed
<1>1. /\ pc[r] = "snapshotCell" /\ Open(r) /\ Finish(r, "ok") /\ reply[r] = "ok"
      /\ UNCHANGED <<cells, mode, call, base, during>>
  BY DEF RecordSnapshot, Open, CellCalls, Succeeded, OtherAwaits
<1>2. PICK idea \in Find(call[r].name) :
        Replace(idea, [idea EXCEPT !.snapshots = SnapshotsWith(r, idea)])
  BY DEF RecordSnapshot
<1>3. idea \in registry /\ idea \in Idea /\ Bounded(idea.iterations)
  BY <1>0 DEF Find, StoreTyped
<1> DEFINE updated == [idea EXCEPT !.snapshots = SnapshotsWith(r, idea)]
<1>4. attempts[r] \in 1..2
  BY <1>0, <1>1 DEF LocalsTyped, Asked
<1>5. SnapshotsWith(r, idea) \subseteq Shot
  BY <1>3, <1>4 DEF SnapshotsWith, Key, Shot, Idea
<1>6. updated \in Idea /\ updated.iterations = idea.iterations
  BY <1>3, <1>5 DEF Idea
<1>7. StoreTyped'
  <2> HIDE DEF updated
  <2>1. Replace(idea, updated)
    BY <1>2 DEF updated
  <2> QED BY <1>0, <1>1, <1>3, <1>6, <2>1, ReplaceTyped
<1> QED BY <1>1, <1>7, FinishLives

LEMMA ShipLives ==
  ASSUME Typed, NEW r \in Requests, Ship(r)
  PROVE  Typed' /\ Life(r)
<1>0. StoreTyped /\ LocalsTyped(r)
  BY DEF Typed
<1>1. /\ pc[r] = "work" /\ Open(r) /\ Finish(r, "ok")
      /\ UNCHANGED <<cells, mode, call, base, during>>
  BY DEF Ship, Open, OtherAwaits
<1>2. PICK idea \in Find(call[r].name), read \in base[r] :
        Replace(idea, [idea EXCEPT !.iterations = ShippedBy(r, idea, read)])
  BY DEF Ship
<1>3. idea \in registry /\ idea \in Idea /\ Bounded(idea.iterations)
  BY <1>0 DEF Find, StoreTyped
<1>4. read \in Idea /\ Bounded(read.iterations)
  BY <1>0 DEF LocalsTyped
<1>5. NextVersion(read) \in Nat
  BY <1>4, NextVersionFacts
<1>6. PICK n \in Nat : \A j \in idea.iterations : j.v <= n
  BY <1>3 DEF Bounded
<1> DEFINE its == ShippedBy(r, idea, read)
           entry == [v |-> IF call[r].op = "build" THEN 1 ELSE NextVersion(read), by |-> r]
           updated == [idea EXCEPT !.iterations = its]
<1>7. entry \in Iteration
  BY <1>5 DEF Iteration
<1>8. its \subseteq idea.iterations \union {entry} /\ idea.iterations \subseteq Iteration
  BY <1>3 DEF ShippedBy, Idea
<1>9. entry.v \in Nat /\ \A j \in Iteration : j.v \in Nat
  BY <1>7 DEF Iteration
<1>10. Bounded(its)
  <2> HIDE DEF its, entry
  <2>1. \A j \in its : j.v <= n + entry.v
    BY <1>6, <1>8, <1>9
  <2>2. n + entry.v \in Nat
    BY <1>9
  <2> QED BY <2>1, <2>2 DEF Bounded
<1>11. updated \in Idea /\ updated.iterations = its
  <2>1. its \subseteq Iteration
    BY <1>7, <1>8
  <2> HIDE DEF its
  <2> QED BY <1>3, <2>1 DEF Idea
<1>12. StoreTyped'
  <2>1. Replace(idea, updated)
    BY <1>2
  <2> HIDE DEF updated, its
  <2> QED BY <1>0, <1>1, <1>3, <1>10, <1>11, <2>1, ReplaceTyped
<1> QED BY <1>1, <1>12, FinishLives

LEMMA SeedCellLives ==
  ASSUME Typed, NEW r \in Requests, SeedCell(r)
  PROVE  Typed' /\ Life(r) /\ pc'[r] \in {"writeFile", "deploy"} /\ answer' = answer
         /\ UNCHANGED <<registry, cells>>
<1>0. StoreTyped /\ LocalsTyped(r) /\ LocalsShaped
  BY DEF Typed
<1>1. /\ Open(r) /\ Goto(r, NextCall(r)) /\ NextCall(r) \in {"writeFile", "deploy"}
      /\ registry' = registry /\ cells' = cells /\ mode' = mode
      /\ UNCHANGED <<base, during>> /\ call[r].op \in {"create", "fork"}
  BY DEF SeedCell, NextCall, store
<1>2. call[r] \in Call
  BY <1>0 DEF LocalsTyped
<1>3. StoreTyped'
  BY <1>0, <1>1 DEF StoreTyped, Bounded
<1>4. CASE pc[r] = "forkCell"
  <2> DEFINE t == (CHOOSE idea \in base[r] : TRUE).text
             request == [call[r] EXCEPT !.text = t]
  <2>1. call' = [call EXCEPT ![r] = request]
    BY <1>4 DEF SeedCell
  <2>2. base[r] # {} /\ base[r] \subseteq Idea
    BY <1>0, <1>4 DEF LocalsTyped, Asked
  <2>3. t \in Texts \union {None}
    BY <2>2 DEF Idea
  <2>4. request \in Call /\ request.op = call[r].op /\ request.name = call[r].name
        /\ request.keep = call[r].keep
    <3> HIDE DEF t
    <3> QED BY <1>2, <2>3 DEF Call
  <2> HIDE DEF request
  <2> QED BY <1>1, <1>3, <2>1, <2>4, GotoLives
<1>5. CASE pc[r] # "forkCell"
  <2>1. call' = [call EXCEPT ![r] = call[r]]
    BY <1>0, <1>5, Unmoved DEF SeedCell
  <2> QED BY <1>1, <1>2, <1>3, <2>1, GotoLives
<1> QED BY <1>4, <1>5

\* The remaining steps leave the store, or remove records from it.
LEMMA StoreShrinks ==
  ASSUME StoreTyped, registry' \subseteq registry, UNCHANGED <<cells, mode>>
  PROVE  StoreTyped'
BY DEF StoreTyped, Bounded

LEMMA ProceedLives ==
  ASSUME IInv, Typed, NEW r \in Requests, Proceed(r)
  PROVE  Typed' /\ Life(r)
<1>0. StoreTyped /\ LocalsTyped(r) /\ LocalsShaped
  BY DEF Typed
<1>1. CASE Serve(r)
  BY <1>1, ServeLives
<1>2. CASE SeedCell(r)
  BY <1>2, SeedCellLives
<1>3. CASE Register(r)
  BY <1>3, RegisterLives
<1>4. CASE PatchRecord(r)
  BY <1>4, PatchRecordLives
<1>5. CASE PatchDone(r)
  <2>1. /\ Open(r) /\ Finish(r, "ok") /\ UNCHANGED <<call, base, during>>
        /\ UNCHANGED <<registry, cells, mode>>
    BY <1>5 DEF PatchDone, Open, CellCalls, store
  <2> QED BY <1>0, <2>1, StoreShrinks, FinishLives
<1>6. CASE RecordSnapshot(r)
  BY <1>6, RecordSnapshotLives
<1>7. CASE ImproveWorks(r)
  <2>1. /\ Open(r) /\ Goto(r, "work") /\ UNCHANGED <<base, during>>
        /\ UNCHANGED <<registry, cells, mode>> /\ call' = call
    BY <1>7 DEF ImproveWorks, Open, CellCalls, store
  <2>2. call[r] \in Call /\ call' = [call EXCEPT ![r] = call[r]]
    BY <1>0, <2>1, Unmoved DEF LocalsTyped
  <2> QED BY <1>0, <2>1, <2>2, StoreShrinks, GotoLives
<1>8. CASE Ship(r)
  BY <1>8, ShipLives
<1>9. CASE GoneMeanwhile(r)
  <2>1. /\ Open(r) /\ Finish(r, "INTERNAL_ERROR") /\ UNCHANGED <<call, base, during>>
        /\ UNCHANGED <<registry, cells, mode>>
    BY <1>9 DEF GoneMeanwhile, Open, CellCalls, OtherAwaits, store
  <2> QED BY <1>0, <2>1, StoreShrinks, FinishLives
<1>10. CASE RemoveIdea(r)
  <2>1. /\ Open(r) /\ Finish(r, "ok") /\ UNCHANGED <<call, base, during>>
        /\ UNCHANGED <<cells, mode>> /\ registry' \subseteq registry
    BY <1>10 DEF RemoveIdea, Open, CellCalls
  <2> QED BY <1>0, <2>1, StoreShrinks, FinishLives
<1>11. CASE CallFails(r)
  <2>1. /\ Open(r) /\ Finish(r, "ONCELL_ERROR") /\ UNCHANGED <<call, base, during>>
        /\ UNCHANGED <<registry, cells, mode>>
    BY <1>11 DEF CallFails, store
  <2> QED BY <1>0, <2>1, StoreShrinks, FinishLives
<1> QED
  BY <1>1, <1>2, <1>3, <1>4, <1>5, <1>6, <1>7, <1>8, <1>9, <1>10, <1>11 DEF Proceed

\* What a restart leaves of the locals.
LEMMA RestartValues ==
  ASSUME Restart, NEW r \in Requests
  PROVE  /\ ~Open(r)' /\ (Open(r) => pc'[r] = "done" /\ answer'[r] = "lost")
         /\ ~Open(r) => pc'[r] = pc[r] /\ answer'[r] = answer[r]
         /\ call'[r] = call[r] /\ base'[r] = base[r] /\ during'[r] = during[r]
         /\ attempts'[r] = 0 /\ reply'[r] = "none"
         /\ UNCHANGED <<registry, cells, mode>>
<1>1. /\ pc'[r] = IF Open(r) THEN "done" ELSE pc[r]
      /\ answer'[r] = IF Open(r) THEN "lost" ELSE answer[r]
  BY DEF Restart
<1>2. ~Open(r)'
  BY <1>1 DEF Open, CellCalls, OtherAwaits
<1> QED BY <1>1, <1>2 DEF Restart, store

LEMMA RestartKeepsTyped ==
  ASSUME Typed, Restart
  PROVE  Typed'
<1>0. StoreTyped /\ LocalsShaped /\ \A r \in Requests : LocalsTyped(r)
  BY DEF Typed
<1>1. StoreTyped'
  <2>1. UNCHANGED <<registry, cells, mode>>
    BY DEF Restart, store
  <2> QED BY <1>0, <2>1, StoreShrinks
<1>2. LocalsShaped'
  BY <1>0 DEF Restart, LocalsShaped
<1>3. ASSUME NEW r \in Requests PROVE LocalsTyped(r)'
  <2>1. LocalsTyped(r) /\ Asked(r)
    BY <1>0 DEF LocalsTyped
  <2>2. pc'[r] \in {"idle", "done"} \union CellCalls \union OtherAwaits
    BY <2>1, RestartValues DEF LocalsTyped
  <2>3. ~Open(r)' /\ pc'[r] \in {"idle", "done"}
    BY <2>2, RestartValues DEF Open
  <2>4. pc'[r] = "idle" => pc[r] = "idle"
    BY RestartValues
  <2>5. Asked(r)'
    BY <2>1, <2>3, <2>4, RestartValues DEF Asked
  <2> QED BY <2>1, <2>2, <2>5, RestartValues DEF LocalsTyped, Bounded, Single
<1> QED BY <1>1, <1>2, <1>3 DEF Typed

LEMMA InitTyped == Init => Typed
<1> SUFFICES ASSUME Init PROVE Typed
  OBVIOUS
<1>1. PriorIdeas \subseteq Idea /\ \A i \in PriorIdeas : Bounded(i.iterations)
  <2>1. {[v |-> 1, by |-> None], [v |-> 2, by |-> None]} \subseteq Iteration
    BY DEF Iteration
  <2>2. Bounded({}) /\ Bounded({[v |-> 1, by |-> None], [v |-> 2, by |-> None]})
    <3>1. 2 \in Nat /\ \A j \in {[v |-> 1, by |-> None], [v |-> 2, by |-> None]} : j.v <= 2
      OBVIOUS
    <3> QED BY <3>1 DEF Bounded
  <2> QED BY <2>1, <2>2 DEF PriorIdeas, Idea
<1>2. registry = {} \/ \E i \in PriorIdeas : registry = {i}
  BY DEF Init
<1>3. registry \subseteq Idea /\ \A i \in registry : Bounded(i.iterations)
  BY <1>1, <1>2
<1>4. cells \in [Names -> Cell]
  <2>1. NoCell \in Cell
    BY DEF NoCell, Cell
  <2>2. ASSUME registry # {}
        PROVE [exists |-> TRUE, shots |-> {}, text |-> (CHOOSE idea \in registry : TRUE).text] \in Cell
    <3>1. (CHOOSE idea \in registry : TRUE) \in Idea
      BY <1>3, <2>2
    <3> QED BY <3>1 DEF Idea, Cell
  <2>3. \A n \in Names : cells[n] \in Cell
    BY <2>1, <2>2 DEF Init
  <2> QED BY <2>3 DEF Init
<1>5. StoreTyped
  BY <1>3, <1>4 DEF StoreTyped, Init
<1>6. LocalsShaped
  BY DEF Init, LocalsShaped
<1>7. ASSUME NEW r \in Requests PROVE LocalsTyped(r)
  <2>1. /\ pc[r] = "idle" /\ call[r] = NoCall /\ base[r] = {} /\ attempts[r] = 0
        /\ reply[r] = "none" /\ answer[r] = "none" /\ during[r] = {}
    BY DEF Init
  <2>2. Asked(r)
    BY <2>1 DEF Asked, Open, CellCalls, OtherAwaits
  <2>3. NoCall \in Call
    BY DEF NoCall, Call
  <2> QED BY <2>1, <2>2, <2>3 DEF LocalsTyped, Single
<1> QED BY <1>5, <1>6, <1>7 DEF Typed

LEMMA NextTyped == IInv /\ Typed /\ [Next]_vars => Typed'
<1> SUFFICES ASSUME IInv, Typed, [Next]_vars PROVE Typed'
  OBVIOUS
<1>1. ASSUME NEW r \in Requests, Accept(r) \/ Proceed(r) PROVE Typed'
  BY <1>1, AcceptLives, ProceedLives
<1>2. CASE Restart
  BY <1>2, RestartKeepsTyped
<1>3. CASE UNCHANGED vars
  <2>1. StoreTyped' /\ LocalsShaped'
    BY <1>3 DEF Typed, StoreTyped, LocalsShaped, Bounded, vars
  <2>2. ASSUME NEW r \in Requests PROVE LocalsTyped(r)'
    <3>1. LocalsTyped(r) /\ Asked(r)
      BY DEF Typed, LocalsTyped
    <3>2. Asked(r)'
      BY <1>3, <3>1 DEF Asked, Open, vars
    <3> QED BY <1>3, <3>1, <3>2 DEF LocalsTyped, Bounded, Single, vars
  <2> QED BY <2>1, <2>2 DEF Typed
<1> QED BY <1>1, <1>2, <1>3 DEF Next

----------------------------------------------------------------------------
(* What stays true once requests have met                                  *)

\* What every step keeps: who met whom, what was asked, what was read, and
\* how a request ended.
Keeps ==
  \A q \in Requests :
    /\ during[q] \subseteq during'[q]
    /\ call[q].op # "none" => /\ call'[q].op = call[q].op /\ call'[q].name = call[q].name
                              /\ call'[q].keep = call[q].keep
    /\ pc[q] # "idle" => base'[q] = base[q]
    /\ pc[q] = "done" => answer'[q] = answer[q]
    /\ Open(q) /\ Open(q)' => call'[q].op = call[q].op /\ call'[q].name = call[q].name

LEMMA StepKeeps ==
  ASSUME Typed, NEW r \in Requests, Life(r)
  PROVE  Keeps
<1>0. LocalsShaped /\ LocalsTyped(r) /\ Moved(r)
  BY DEF Typed, Life
<1>1. ASSUME NEW q \in Requests, q # r
      PROVE  /\ pc'[q] = pc[q] /\ call'[q] = call[q] /\ base'[q] = base[q]
             /\ answer'[q] = answer[q] /\ during'[q] = during[q]
  BY <1>0, <1>1, OthersStay
<1>2. pc[r] # "done"
  BY DEF Life, Begins, AnsweredAtOnce, GoesOn, Open, CellCalls, OtherAwaits
<1>3. CASE pc[r] = "idle"
  <2>1. during[r] = {} /\ call[r].op = "none" /\ ~Open(r)
    BY <1>0, <1>3 DEF LocalsTyped, Asked, NoCall, Open, CellCalls, OtherAwaits
  <2> QED BY <1>1, <1>2, <1>3, <2>1 DEF Keeps
<1>4. CASE pc[r] # "idle"
  <2>1. GoesOn(r)
    BY <1>4 DEF Life, Begins, AnsweredAtOnce
  <2> QED BY <1>1, <1>2, <2>1 DEF Keeps, GoesOn
<1> QED BY <1>3, <1>4

LEMMA RestartKeeps == ASSUME Restart PROVE Keeps
<1>1. \A q \in Requests : pc[q] = "done" => ~Open(q)
  BY DEF Open, CellCalls, OtherAwaits
<1> QED BY <1>1, RestartValues DEF Keeps

\* Requests that have met have met for good.
LEMMA OverlapStays ==
  ASSUME Keeps, NEW x, NEW y, Overlapped(x, y)
  PROVE  Overlapped(x, y)'
BY DEF Keeps, Overlapped

LEMMA MeetingsStay ==
  ASSUME Keeps, NEW x
  PROVE  /\ \A n : DeletedMeanwhile(n, x) => DeletedMeanwhile(n, x)'
         /\ MadeMeanwhile(x) => MadeMeanwhile(x)'
<1>1. ASSUME NEW n, DeletedMeanwhile(n, x) PROVE DeletedMeanwhile(n, x)'
  <2>1. PICK d \in Requests : /\ call[d].op = "delete" /\ ~call[d].keep /\ call[d].name = n
                              /\ Overlapped(d, x)
    BY <1>1 DEF DeletedMeanwhile
  <2>2. call'[d].op = "delete" /\ ~call'[d].keep /\ call'[d].name = n
    BY <2>1 DEF Keeps
  <2> QED BY <2>1, <2>2, OverlapStays DEF DeletedMeanwhile
<1>2. ASSUME MadeMeanwhile(x) PROVE MadeMeanwhile(x)'
  <2>1. PICK m \in Requests : call[m].op \in {"create", "fork"} /\ Overlapped(x, m)
    BY <1>2 DEF MadeMeanwhile
  <2>2. call'[m].op \in {"create", "fork"}
    BY <2>1 DEF Keeps
  <2> QED BY <2>1, <2>2, OverlapStays DEF MadeMeanwhile
<1> QED BY <1>1, <1>2

LEMMA RacedStays ==
  ASSUME Keeps, NEW iterations, Raced(iterations)
  PROVE  Raced(iterations)'
BY OverlapStays, MeetingsStay DEF Raced

LEMMA OverlapIsMutual ==
  ASSUME NEW x, NEW y, Overlapped(x, y)
  PROVE  Overlapped(y, x)
BY DEF Overlapped

\* Open requests have met: the one that began later found the other open.
LEMMA StepKeepsMet ==
  ASSUME Typed, OpenHaveMet, NEW r \in Requests, Life(r)
  PROVE  OpenHaveMet'
<1>0. LocalsShaped /\ Moved(r) /\ Keeps
  BY StepKeeps DEF Typed, Life
<1>1. ASSUME NEW q \in Requests, q # r, Open(q)' PROVE Open(q)
  BY <1>0, <1>1, OthersStay DEF Open
<1>2. ASSUME NEW q \in Requests, q # r, Open(q)', Open(r)' PROVE Overlapped(q, r)'
  <2>1. CASE Open(r)
    BY <1>0, <1>1, <1>2, <2>1, OverlapStays DEF OpenHaveMet
  <2>2. CASE ~Open(r)
    <3>1. Begins(r)
      BY <1>2, <2>2 DEF Life, AnsweredAtOnce, GoesOn, Open, CellCalls, OtherAwaits
    <3>2. q \in during'[r]
      BY <1>1, <1>2, <3>1 DEF Begins
    <3> QED BY <3>2 DEF Overlapped
  <2> QED BY <2>1, <2>2
<1>3. ASSUME NEW q \in Requests, NEW s \in Requests, Open(q)', Open(s)', q # s
      PROVE  Overlapped(q, s)'
  <2>1. CASE q # r /\ s # r
    BY <1>0, <1>1, <1>3, <2>1, OverlapStays DEF OpenHaveMet
  <2>2. CASE s = r
    BY <1>2, <1>3, <2>2
  <2>3. CASE q = r
    <3>1. Overlapped(s, r)'
      BY <1>2, <1>3, <2>3
    <3> QED BY <2>3, <3>1 DEF Overlapped
  <2> QED BY <2>1, <2>2, <2>3
<1> QED BY <1>3 DEF OpenHaveMet

LEMMA StepLives ==
  ASSUME IInv, Typed, NEW r \in Requests, Accept(r) \/ Proceed(r)
  PROVE  Typed' /\ Life(r) /\ Keeps
BY AcceptLives, ProceedLives, StepKeeps

----------------------------------------------------------------------------
(* Records and their cells                                                 *)

\* A step that changes no cell, registers at most the idea whose cell r has
\* made, and ends a deletion well only when its name is not registered.
CellsStay(r) ==
  /\ UNCHANGED cells
  /\ \A i \in registry' : \/ \E j \in registry : j.name = i.name /\ j.by = i.by
                          \/ Made(r) /\ i.name = call[r].name /\ i.by = r
  /\ Made(r)' => Made(r)
  /\ (Open(r) /\ call[r].op = "delete" /\ answer'[r] = "ok") =>
       \A i \in registry' : i.name # call[r].name

LEMMA CellsStayKeeps ==
  ASSUME Typed, MadeIsThere, CellGoneIsADeletion, NEW r \in Requests, Life(r), CellsStay(r)
  PROVE  MadeIsThere' /\ CellGoneIsADeletion'
<1>0. LocalsShaped /\ Moved(r) /\ Keeps /\ \A q \in Requests : Asked(q)
  BY StepKeeps DEF Typed, Life, LocalsTyped
<1>1. ASSUME NEW q \in Requests, Made(q)'
      PROVE  (cells[call[q].name].exists \/ DeletedMeanwhile(call[q].name, q))'
  <2>1. Made(q) /\ Open(q)
    BY <1>0, <1>1, OthersStay DEF CellsStay, Made, Open
  <2>2. PICK n : n = call[q].name /\ n = call'[q].name
    BY <1>0, <1>1, <2>1 DEF Keeps, Made
  <2>3. cells'[n].exists \/ DeletedMeanwhile(n, q)
    BY <2>1, <2>2 DEF MadeIsThere, CellsStay
  <2>4. cells'[n].exists \/ DeletedMeanwhile(n, q)'
    BY <1>0, <2>3, MeetingsStay
  <2> QED BY <2>2, <2>4 DEF DeletedMeanwhile
<1>2. ASSUME NEW i \in registry', ~cells'[i.name].exists
      PROVE  \E d \in Requests :
               /\ call'[d].op = "delete" /\ ~call'[d].keep /\ call'[d].name = i.name
               /\ answer'[d] # "ok" \/ Overlapped(d, i.by)'
  <2>1. ASSUME NEW n, NEW q, DeletedMeanwhile(n, q)
        PROVE  \E d \in Requests :
                 /\ call'[d].op = "delete" /\ ~call'[d].keep /\ call'[d].name = n
                 /\ answer'[d] # "ok" \/ Overlapped(d, q)'
    <3>1. DeletedMeanwhile(n, q)'
      BY <1>0, <2>1, MeetingsStay
    <3> QED BY <3>1 DEF DeletedMeanwhile
  <2>2. CASE Made(r) /\ i.name = call[r].name /\ i.by = r
    <3>1. DeletedMeanwhile(i.name, i.by)
      BY <1>2, <2>2 DEF MadeIsThere, CellsStay
    <3> QED BY <2>1, <3>1
  <2>3. ASSUME NEW j \in registry, j.name = i.name, j.by = i.by
        PROVE  \E d \in Requests :
                 /\ call'[d].op = "delete" /\ ~call'[d].keep /\ call'[d].name = i.name
                 /\ answer'[d] # "ok" \/ Overlapped(d, i.by)'
    <3>1. PICK d \in Requests :
            /\ call[d].op = "delete" /\ ~call[d].keep /\ call[d].name = i.name
            /\ answer[d] # "ok" \/ Overlapped(d, i.by)
      BY <1>2, <2>3 DEF CellGoneIsADeletion, CellsStay
    <3>2. CASE Overlapped(d, i.by)
      <4>1. DeletedMeanwhile(i.name, i.by)
        BY <3>1, <3>2 DEF DeletedMeanwhile
      <4> QED BY <2>1, <4>1
    <3>3. CASE answer[d] # "ok"
      <4>1. call'[d].op = "delete" /\ ~call'[d].keep /\ call'[d].name = i.name
        BY <1>0, <3>1 DEF Keeps
      <4>2. ASSUME d = r PROVE answer'[d] # "ok"
        <5>1. call[r].op # "none"
          BY <3>1, <4>2
        <5>2. pc[r] # "idle"
          BY <1>0, <5>1 DEF Asked, NoCall
        <5>3. Open(r)
          BY <5>2 DEF Life, Begins, AnsweredAtOnce, GoesOn
        <5> QED BY <3>1, <4>2, <5>3 DEF CellsStay
      <4>3. ASSUME d # r PROVE answer'[d] # "ok"
        BY <1>0, <3>3, <4>3, OthersStay
      <4> QED BY <4>1, <4>2, <4>3
    <3> QED BY <3>1, <3>2, <3>3
  <2> QED BY <2>2, <2>3 DEF CellsStay
<1> QED BY <1>1, <1>2 DEF MadeIsThere, CellGoneIsADeletion

\* OnCell serves a call: only a deletion takes a cell away, and it has met every
\* request that made the cell and is open, and is not answered yet.
LEMMA ServeKeepsCells ==
  ASSUME IInv, Typed, MadeIsThere, CellGoneIsADeletion, OpenHaveMet,
         NEW r \in Requests, Serve(r)
  PROVE  MadeIsThere' /\ CellGoneIsADeletion'
<1>0. LocalsShaped /\ StoreTyped /\ \A q \in Requests : Asked(q)
  BY DEF Typed, LocalsTyped
<1>1. Life(r) /\ Moved(r) /\ pc'[r] = pc[r] /\ call' = call /\ answer' = answer /\ Keeps
  BY ServeLives, StepKeeps DEF Life
<1>2. registry' = registry /\ pc' = pc /\ Open(r) /\ call[r].name \in Names
  BY <1>0 DEF Serve, Open, Asked
<1> DEFINE N == call[r].name
<1>3. \A n \in Names : n # N => cells'[n] = cells[n]
  BY <1>0 DEF Serve, StoreTyped
<1>4. \/ ~Applies(r) /\ cells' = cells
      \/ Applies(r) /\ cells'[N] = CellAfter(r) /\ reply'[r] = "ok"
  <2>1. \/ ~Applies(r) /\ cells' = cells
        \/ /\ Applies(r) /\ cells' = [cells EXCEPT ![N] = CellAfter(r)]
           /\ reply' = [reply EXCEPT ![r] = "ok"]
    BY DEF Serve
  <2>2. cells \in [Names -> Cell] /\ N \in Names
    BY <1>0, <1>2 DEF StoreTyped
  <2>3. reply' = [reply EXCEPT ![r] = "ok"] => reply'[r] = "ok"
    BY <1>0, Values
  <2>4. cells' = [cells EXCEPT ![N] = CellAfter(r)] => cells'[N] = CellAfter(r)
    BY <2>2
  <2> HIDE DEF N
  <2> QED BY <2>1, <2>3, <2>4
<1>5. ASSUME ~cells'[N].exists
      PROVE  pc[r] = "deleteCell" \/ (cells' = cells /\ ~Applies(r))
  <2>1. CASE Applies(r) /\ cells'[N] = CellAfter(r)
    <3>1. cells[N] \in Cell
      BY <1>0, <1>2 DEF StoreTyped
    <3>2. cells[N].exists \/ pc[r] \in {"createCell", "forkCell"}
      BY <2>1 DEF Applies
    <3>3. pc[r] # "deleteCell" => CellAfter(r).exists
      BY <3>1, <3>2 DEF CellAfter, Cell
    <3> QED BY <1>5, <2>1, <3>3
  <2> QED BY <1>4, <2>1
<1>6. ASSUME pc[r] = "deleteCell"
      PROVE  /\ call'[r].op = "delete" /\ ~call'[r].keep /\ answer'[r] # "ok"
             /\ \A q \in Requests : (Open(q) /\ q # r) => Overlapped(r, q)'
  <2>1. call[r].op = "delete" /\ answer[r] # "ok"
    BY <1>6 DEF IInv, AwaitsOfOps
  <2>2. ~call[r].keep
    BY <1>0, <1>2 DEF Asked
  <2>3. \A q \in Requests : (Open(q) /\ q # r) => Overlapped(r, q)'
    BY <1>1, <1>2, OverlapStays DEF OpenHaveMet
  <2> QED BY <1>1, <2>1, <2>2, <2>3
<1>7. ASSUME NEW q \in Requests, Made(q)', ~cells'[call'[q].name].exists
      PROVE  DeletedMeanwhile(call[q].name, q)'
  <2>1. Open(q) /\ call'[q] = call[q] /\ call[q].op \in {"create", "fork"}
    BY <1>1, <1>2, <1>7 DEF Made, Open
  <2>0. call[q].name \in Names
    BY <1>0, <2>1 DEF Asked
  <2>2. CASE Made(q) /\ ~cells[call[q].name].exists
    <3>1. PICK n : n = call[q].name /\ n = call'[q].name
      BY <2>1
    <3>2. DeletedMeanwhile(n, q)
      BY <2>2, <3>1 DEF MadeIsThere
    <3>3. DeletedMeanwhile(n, q)'
      BY <1>1, <3>2, MeetingsStay
    <3> QED BY <3>1, <3>3 DEF DeletedMeanwhile
  <2>3. CASE pc[r] = "deleteCell" /\ call[q].name = N
    <3>1. q # r
      BY <1>6, <1>1, <2>1, <2>3
    <3>2. Overlapped(r, q)' /\ call'[r].name = call'[q].name
      BY <1>6, <1>1, <2>1, <2>3, <3>1
    <3> QED BY <1>6, <2>3, <3>2 DEF DeletedMeanwhile
  <2>4. CASE q # r
    <3>1. Made(q)
      BY <1>0, <1>1, <1>7, <2>4, OthersStay DEF Made, Open
    <3>2. CASE call[q].name # N \/ cells' = cells
      BY <1>3, <1>7, <2>0, <2>1, <2>2, <3>1, <3>2
    <3> QED BY <1>5, <1>7, <2>1, <2>3, <3>2
  <2>5. CASE q = r
    <3>1. pc[r] # "deleteCell"
      BY <1>6, <1>1, <2>1, <2>5
    <3>2. cells' = cells /\ ~Applies(r)
      BY <1>5, <1>7, <2>1, <2>5, <3>1
    <3>3. reply' = [reply EXCEPT ![r] = "notFound"]
      BY <3>2 DEF Serve
    <3>4. reply'[r] # "ok"
      BY <1>0, <3>3, Values
    <3>5. Made(r)
      BY <1>1, <1>2, <1>7, <2>1, <2>5, <3>4 DEF Made
    <3> QED BY <1>7, <2>1, <2>2, <2>5, <3>2, <3>5
  <2> QED BY <2>4, <2>5
<1>8. ASSUME NEW i \in registry', ~cells'[i.name].exists
      PROVE  \E d \in Requests :
               /\ call'[d].op = "delete" /\ ~call'[d].keep /\ call'[d].name = i.name
               /\ answer'[d] # "ok" \/ Overlapped(d, i.by)'
  <2>1. CASE ~cells[i.name].exists
    <3>1. PICK d \in Requests :
            /\ call[d].op = "delete" /\ ~call[d].keep /\ call[d].name = i.name
            /\ answer[d] # "ok" \/ Overlapped(d, i.by)
      BY <1>2, <2>1 DEF CellGoneIsADeletion
    <3> QED BY <1>1, <3>1, OverlapStays
  <2>2. CASE cells[i.name].exists
    <3>0. i.name \in Names
      BY <1>0, <1>2 DEF StoreTyped, Idea
    <3>1. i.name = N /\ cells' # cells
      BY <1>3, <1>8, <2>2, <3>0
    <3>2. pc[r] = "deleteCell"
      BY <1>5, <1>8, <3>1
    <3> QED BY <1>1, <1>6, <3>1, <3>2
  <2> QED BY <2>1, <2>2
<1> QED BY <1>7, <1>8 DEF MadeIsThere, CellGoneIsADeletion

\* Requests that arrive change no cell and register nothing.
LEMMA AcceptCellsStay ==
  ASSUME IInv, Typed, NEW r \in Requests, Accept(r)
  PROVE  CellsStay(r) /\ registry' \subseteq registry /\ UNCHANGED cells
<1>1. pc[r] = "idle"
  BY DEF Accept, ArriveCreate, ArriveFork, ArrivePatch, ArriveSnapshot, ArriveDelete,
         DeleteKeepingCell, ArriveBuild, ArriveImprove, Arrives
<1>2. ~Open(r)
  BY <1>1 DEF Open, CellCalls, OtherAwaits
<1>3. Begins(r) \/ AnsweredAtOnce(r)
  BY <1>2, AcceptLives DEF Life, GoesOn
<1>4. ~Made(r)'
  BY <1>3 DEF Begins, AnsweredAtOnce, Made, Open, CellCalls, OtherAwaits
<1>5. cells' = cells /\ registry' \subseteq registry
  BY <1>3 DEF Begins, AnsweredAtOnce
<1> QED BY <1>2, <1>4, <1>5 DEF CellsStay

\* The last step of a create or a fork comes after its cell was made.
LEMMA RegistersIsMade ==
  ASSUME IInv, Typed, NEW r \in Requests, Registers(r)
  PROVE  Made(r)
<1>1. Open(r) /\ call[r].op \in {"create", "fork"} /\ pc[r] \notin {"createCell", "forkCell"}
  BY DEF Registers, NextCall
<1>2. pc[r] \notin {"body", "refresh", "work", "deleteCell"}
  BY <1>1 DEF IInv, AwaitsOfOps
<1>3. pc[r] # "snapshotCell"
  BY <1>1 DEF Typed, LocalsTyped, Asked
<1> QED BY <1>1, <1>2, <1>3 DEF Made, Open, CellCalls, OtherAwaits

\* A step that goes on with an answer of OnCell.
LEMMA SucceededIsOk ==
  ASSUME NEW r \in Requests, Succeeded(r), pc[r] \notin {"deploy", "body", "work"}
  PROVE  reply[r] = "ok"
BY DEF Succeeded, OtherAwaits

\* A replaced record stands for one of the same name and maker.
LEMMA ReplaceCellsStay ==
  ASSUME NEW r \in Requests, NEW i \in registry, NEW j, Replace(i, j), j.name = i.name, j.by = i.by,
         UNCHANGED cells, ~Made(r)', call[r].op # "delete"
  PROVE  CellsStay(r)
BY DEF CellsStay, Replace

LEMMA ProceedCellsStay ==
  ASSUME IInv, Typed, NEW r \in Requests, Proceed(r), ~Serve(r)
  PROVE  CellsStay(r)
<1>0. StoreTyped /\ LocalsTyped(r) /\ LocalsShaped
  BY DEF Typed
<1>a. ASSUME NEW outcome, Finish(r, outcome) PROVE ~Made(r)' /\ answer'[r] = outcome
  <2>1. pc'[r] = "done" /\ answer'[r] = outcome
    BY <1>0, <1>a, Values DEF Finish
  <2> QED BY <2>1 DEF Made, Open, CellCalls, OtherAwaits
<1>b. ASSUME registry' = registry, cells' = cells, NEW outcome, Finish(r, outcome),
             call[r].op = "delete" => outcome # "ok"
      PROVE  CellsStay(r)
  BY <1>a, <1>b DEF CellsStay
<1>1. CASE SeedCell(r)
  <2>1. registry' = registry /\ cells' = cells /\ answer' = answer
    BY <1>1, SeedCellLives
  <2>2. Open(r) /\ call[r].op \in {"create", "fork"} /\ Succeeded(r) /\ NextCall(r) # "addIdea"
    BY <1>1 DEF SeedCell
  <2>3. pc[r] \notin {"deploy", "body", "work"}
    BY <2>2 DEF NextCall, IInv, AwaitsOfOps
  <2>4. Made(r)
    BY <2>2, <2>3, SucceededIsOk DEF Made
  <2> QED BY <2>1, <2>2, <2>4 DEF CellsStay
<1>2. CASE Register(r)
  <2>1. /\ Registers(r) /\ cells' = cells /\ Open(r) /\ call[r].op # "delete"
        /\ registry' = registry \union {NewIdea(r)} \/ registry' = registry
        /\ \E outcome : Finish(r, outcome)
    BY <1>2 DEF Register, AddIdea, Registers
  <2>2. Made(r)
    BY <2>1, RegistersIsMade
  <2>3. NewIdea(r).name = call[r].name /\ NewIdea(r).by = r
    BY DEF NewIdea
  <2>4. \A i \in registry' : i \in registry \/ i = NewIdea(r)
    BY <2>1
  <2> QED BY <2>1, <2>2, <2>3, <2>4 DEF CellsStay
<1>3. CASE PatchRecord(r)
  <2>1. PICK idea \in Find(call[r].name) : Replace(idea, [idea EXCEPT !.text = call[r].text])
    BY <1>3 DEF PatchRecord
  <2>2. idea \in registry /\ idea \in Idea /\ cells' = cells /\ pc[r] = "body"
    BY <1>0, <1>3 DEF PatchRecord, Find, StoreTyped
  <2>3. LET j == [idea EXCEPT !.text = call[r].text] IN j.name = idea.name /\ j.by = idea.by
    BY <2>2 DEF Idea
  <2>4. pc'[r] = "refresh" /\ call' = call /\ call[r].op = "patch"
    BY <1>3, <2>2, PatchRecordLives DEF PatchRecord, IInv, AwaitsOfOps
  <2>5. ~Made(r)'
    BY <2>4 DEF Made
  <2> QED BY <2>1, <2>2, <2>3, <2>4, <2>5, ReplaceCellsStay
<1>4. CASE PatchDone(r)
  <2>1. call[r].op = "patch"
    BY <1>4 DEF PatchDone, IInv, AwaitsOfOps
  <2> QED BY <1>4, <1>b, <2>1 DEF PatchDone, store
<1>5. CASE RecordSnapshot(r)
  <2>1. PICK idea \in Find(call[r].name) :
          Replace(idea, [idea EXCEPT !.snapshots = SnapshotsWith(r, idea)])
    BY <1>5 DEF RecordSnapshot
  <2>2. idea \in registry /\ idea \in Idea /\ cells' = cells /\ call[r].op = "snapshot"
        /\ Finish(r, "ok")
    BY <1>0, <1>5 DEF RecordSnapshot, Find, StoreTyped
  <2>3. LET j == [idea EXCEPT !.snapshots = SnapshotsWith(r, idea)]
        IN j.name = idea.name /\ j.by = idea.by
    BY <2>2 DEF Idea
  <2> QED BY <1>a, <2>1, <2>2, <2>3, ReplaceCellsStay
<1>6. CASE ImproveWorks(r)
  <2>1. registry' = registry /\ cells' = cells /\ call' = call /\ call[r].op = "improve"
    BY <1>6 DEF ImproveWorks, store
  <2> QED BY <2>1 DEF CellsStay, Made
<1>7. CASE Ship(r)
  <2>0. PICK idea \in Find(call[r].name) :
          \E its : Replace(idea, [idea EXCEPT !.iterations = its])
    BY <1>7 DEF Ship
  <2>1. PICK its : Replace(idea, [idea EXCEPT !.iterations = its])
    BY <2>0
  <2>2. idea \in registry /\ idea \in Idea /\ cells' = cells /\ call[r].op # "delete"
        /\ Finish(r, "ok")
    BY <1>0, <1>7 DEF Ship, Find, StoreTyped, IInv, AwaitsOfOps
  <2>3. LET j == [idea EXCEPT !.iterations = its] IN j.name = idea.name /\ j.by = idea.by
    BY <2>2 DEF Idea
  <2> QED BY <1>a, <2>1, <2>2, <2>3, ReplaceCellsStay
<1>8. CASE GoneMeanwhile(r)
  BY <1>8, <1>b DEF GoneMeanwhile, store
<1>9. CASE RemoveIdea(r)
  <2>1. /\ cells' = cells /\ registry' = registry \ Find(call[r].name) /\ Finish(r, "ok")
    BY <1>9 DEF RemoveIdea
  <2>2. \A i \in registry' : i \in registry /\ i.name # call[r].name
    BY <2>1 DEF Find
  <2> QED BY <1>a, <2>1, <2>2 DEF CellsStay
<1>10. CASE CallFails(r)
  BY <1>10, <1>b DEF CallFails, store
<1> QED
  BY <1>1, <1>2, <1>3, <1>4, <1>5, <1>6, <1>7, <1>8, <1>9, <1>10 DEF Proceed

\* Every snapshot, in a cell or in a history, is the first of its request.
LEMMA StepKeepsShots ==
  ASSUME IInv, Typed, ShotsAreFirst, NEW r \in Requests, Accept(r) \/ Proceed(r)
  PROVE  ShotsAreFirst'
<1>0. StoreTyped /\ LocalsTyped(r) /\ LocalsShaped
  BY DEF Typed
<1>a. ASSUME cells' = cells, registry' \subseteq registry PROVE ShotsAreFirst'
  BY <1>a DEF ShotsAreFirst
<1>b. ASSUME cells' = cells, NEW j, \A i \in registry' : i \in registry \/ i = j,
             \A shot \in j.snapshots : shot.nth = 1
      PROVE  ShotsAreFirst'
  BY <1>b DEF ShotsAreFirst
<1>1. CASE Accept(r)
  BY <1>1, <1>a, AcceptCellsStay
<1>2. CASE Serve(r)
  <2>1. /\ registry' = registry /\ pc[r] \in CellCalls /\ attempts[r] < MaxAttempts(pc[r])
        /\ cells' = [cells EXCEPT ![call[r].name] = CellAfter(r)] \/ cells' = cells
    BY <1>2 DEF Serve
  <2>2. attempts[r] \in 0..2 /\ call[r].name \in Names
    BY <1>0, <2>1 DEF LocalsTyped, Asked, Open
  <2>3. pc[r] = "snapshotCell" => attempts[r] = 0
    BY <2>1, <2>2 DEF MaxAttempts, NeverRetried
  <2>4. cells[call[r].name] \in Cell /\ \A shot \in cells[call[r].name].shots : shot.nth = 1
    BY <1>0, <2>2 DEF StoreTyped, ShotsAreFirst
  <2>5. \A shot \in CellAfter(r).shots : shot.nth = 1
    <3>1. CASE pc[r] = "snapshotCell"
      <4>1. CellAfter(r).shots = cells[call[r].name].shots \union {[by |-> r, nth |-> 1]}
        BY <2>3, <2>4, <3>1 DEF CellAfter, Cell
      <4> QED BY <2>4, <4>1
    <3>2. CASE pc[r] # "snapshotCell"
      <4>1. CellAfter(r).shots \subseteq cells[call[r].name].shots
        BY <2>4, <3>2 DEF CellAfter, Cell, NoCell
      <4> QED BY <2>4, <4>1
    <3> QED BY <3>1, <3>2
  <2>6. ASSUME NEW n \in Names, NEW shot \in cells'[n].shots PROVE shot.nth = 1
    BY <1>0, <2>1, <2>2, <2>5, <2>6 DEF StoreTyped, ShotsAreFirst
  <2> QED BY <2>1, <2>6 DEF ShotsAreFirst
<1>3. CASE Register(r)
  <2>1. /\ cells' = cells /\ NewIdea(r).snapshots = {}
        /\ registry' = registry \union {NewIdea(r)} \/ registry' = registry
    BY <1>3 DEF Register, AddIdea, NewIdea
  <2>2. \A i \in registry' : i \in registry \/ i = NewIdea(r)
    BY <2>1
  <2> QED BY <1>b, <2>1, <2>2
<1>4. CASE PatchRecord(r)
  <2>1. PICK idea \in Find(call[r].name) : Replace(idea, [idea EXCEPT !.text = call[r].text])
    BY <1>4 DEF PatchRecord
  <2> DEFINE j == [idea EXCEPT !.text = call[r].text]
  <2>2. idea \in registry /\ idea \in Idea /\ cells' = cells
    BY <1>0, <1>4 DEF PatchRecord, Find, StoreTyped
  <2>3. j.snapshots = idea.snapshots
    BY <2>2 DEF Idea
  <2>4. \A i \in registry' : i \in registry \/ i = j
    BY <2>1 DEF Replace
  <2>5. \A shot \in j.snapshots : shot.nth = 1
    BY <2>2, <2>3 DEF ShotsAreFirst
  <2> HIDE DEF j
  <2> QED BY <1>b, <2>2, <2>4, <2>5
<1>5. CASE RecordSnapshot(r)
  <2>1. PICK idea \in Find(call[r].name) :
          Replace(idea, [idea EXCEPT !.snapshots = SnapshotsWith(r, idea)])
    BY <1>5 DEF RecordSnapshot
  <2> DEFINE j == [idea EXCEPT !.snapshots = SnapshotsWith(r, idea)]
  <2>2. idea \in registry /\ idea \in Idea /\ cells' = cells
    BY <1>0, <1>5 DEF RecordSnapshot, Find, StoreTyped
  <2>3. j.snapshots = idea.snapshots \union {Key(r)}
    BY <2>2 DEF Idea, SnapshotsWith
  <2>4. \A i \in registry' : i \in registry \/ i = j
    BY <2>1 DEF Replace
  <2>5. pc[r] = "snapshotCell" /\ reply[r] = "ok"
    BY <1>5, SucceededIsOk DEF RecordSnapshot
  <2>6. attempts[r] = 1
    BY <1>0, <2>5 DEF LocalsTyped, Asked
  <2>7. \A shot \in j.snapshots : shot.nth = 1
    BY <2>2, <2>3, <2>6 DEF ShotsAreFirst, Key
  <2> HIDE DEF j
  <2> QED BY <1>b, <2>2, <2>4, <2>7
<1>6. CASE Ship(r)
  <2>0. PICK idea \in Find(call[r].name) :
          \E its : Replace(idea, [idea EXCEPT !.iterations = its])
    BY <1>6 DEF Ship
  <2>1. PICK its : Replace(idea, [idea EXCEPT !.iterations = its])
    BY <2>0
  <2> DEFINE j == [idea EXCEPT !.iterations = its]
  <2>2. idea \in registry /\ idea \in Idea /\ cells' = cells
    BY <1>0, <1>6 DEF Ship, Find, StoreTyped
  <2>3. j.snapshots = idea.snapshots
    BY <2>2 DEF Idea
  <2>4. \A i \in registry' : i \in registry \/ i = j
    BY <2>1 DEF Replace
  <2>5. \A shot \in j.snapshots : shot.nth = 1
    BY <2>2, <2>3 DEF ShotsAreFirst
  <2> HIDE DEF j
  <2> QED BY <1>b, <2>2, <2>4, <2>5
<1>7. CASE SeedCell(r) \/ PatchDone(r) \/ ImproveWorks(r) \/ GoneMeanwhile(r) \/ CallFails(r)
  <2>1. UNCHANGED store
    BY <1>7 DEF SeedCell, PatchDone, ImproveWorks, GoneMeanwhile, CallFails
  <2> QED BY <1>a, <2>1 DEF store
<1>8. CASE RemoveIdea(r)
  BY <1>8, <1>a DEF RemoveIdea
<1> QED
  BY <1>1, <1>2, <1>3, <1>4, <1>5, <1>6, <1>7, <1>8 DEF Proceed

LEMMA InitCellInv == Init => CellInv
<1> SUFFICES ASSUME Init PROVE CellInv
  OBVIOUS
<1>1. \A r \in Requests : ~Open(r)
  BY DEF Init, Open, CellCalls, OtherAwaits
<1>2. OpenHaveMet /\ MadeIsThere
  BY <1>1 DEF OpenHaveMet, MadeIsThere, Made
<1>3. registry = {} \/ \E i \in PriorIdeas : registry = {i}
  BY DEF Init
<1>4. \A i \in registry : i.snapshots = {} /\ i.name \in Names
  BY <1>3 DEF PriorIdeas
<1>5. \A n \in Names : cells[n].shots = {}
  BY DEF Init, NoCell
<1>6. CellGoneIsADeletion
  BY <1>4 DEF Init, CellGoneIsADeletion
<1> QED BY <1>2, <1>4, <1>5, <1>6 DEF CellInv, ShotsAreFirst

LEMMA NextCellInv == IInv /\ Typed /\ CellInv /\ [Next]_vars => CellInv'
<1> SUFFICES ASSUME IInv, Typed, CellInv, [Next]_vars PROVE CellInv'
  OBVIOUS
<1> USE DEF CellInv
<1>1. ASSUME NEW r \in Requests, Accept(r) \/ Proceed(r) PROVE CellInv'
  <2>1. Life(r)
    BY <1>1, StepLives
  <2>2. ShotsAreFirst' /\ OpenHaveMet'
    BY <1>1, <2>1, StepKeepsShots, StepKeepsMet
  <2>3. MadeIsThere' /\ CellGoneIsADeletion'
    <3>1. CASE Proceed(r) /\ Serve(r)
      BY <3>1, ServeKeepsCells
    <3>2. CASE Accept(r) \/ ~Serve(r)
      BY <1>1, <2>1, <3>2, AcceptCellsStay, ProceedCellsStay, CellsStayKeeps
    <3> QED BY <1>1, <3>1, <3>2
  <2> QED BY <2>2, <2>3
<1>2. CASE Restart
  <2>1. registry' = registry /\ cells' = cells /\ Keeps
    BY <1>2, RestartKeeps DEF Restart, store
  <2>2. \A r \in Requests : ~Open(r)'
    BY <1>2, RestartValues
  <2>3. ShotsAreFirst' /\ OpenHaveMet' /\ MadeIsThere'
    BY <2>1, <2>2 DEF ShotsAreFirst, OpenHaveMet, MadeIsThere, Made
  <2>4. ASSUME NEW i \in registry', ~cells'[i.name].exists
        PROVE  \E d \in Requests :
                 /\ call'[d].op = "delete" /\ ~call'[d].keep /\ call'[d].name = i.name
                 /\ answer'[d] # "ok" \/ Overlapped(d, i.by)'
    <3>1. PICK d \in Requests :
            /\ call[d].op = "delete" /\ ~call[d].keep /\ call[d].name = i.name
            /\ answer[d] # "ok" \/ Overlapped(d, i.by)
      BY <2>1, <2>4 DEF CellGoneIsADeletion
    <3> QED BY <1>2, <2>1, <3>1, OverlapStays, RestartValues
  <2> QED BY <2>3, <2>4 DEF CellGoneIsADeletion
<1>3. CASE UNCHANGED vars
  BY <1>3 DEF vars, ShotsAreFirst, OpenHaveMet, MadeIsThere, Made, Open, Overlapped,
              DeletedMeanwhile, CellGoneIsADeletion
<1> QED BY <1>1, <1>2, <1>3 DEF Next

----------------------------------------------------------------------------
(* Versions                                                                *)

\* Where the timelines of the registered ideas come from: from the record that
\* was registered, from the request that registers it, or from one that ships.
TimelineStays(i) == \E j \in registry : j.name = i.name /\ j.iterations = i.iterations

TimelineMade(r, i) == Open(r) /\ call[r].op \in {"create", "fork"} /\ i = NewIdea(r)

TimelineShipped(r, i) ==
  /\ Open(r) /\ ~Open(r)' /\ call[r].op \in {"build", "improve"}
  /\ \E j \in Find(call[r].name), read \in base[r] :
       i.name = j.name /\ i.iterations = ShippedBy(r, j, read)

TimelinesStep(r) ==
  \A i \in registry' : TimelineStays(i) \/ TimelineMade(r, i) \/ TimelineShipped(r, i)

\* What ships is above all that was read, so an equal version is a race.
LEMMA ShippedIsRaced ==
  ASSUME Typed, ReadIsRecent, ReuseIsRaced, NEW r \in Requests, Open(r),
         call[r].op \in {"build", "improve"},
         NEW j \in Find(call[r].name), NEW read \in base[r]
  PROVE  Raced(ShippedBy(r, j, read))
<1>0. j \in registry /\ Raced(j.iterations)
  BY DEF Find, ReuseIsRaced
<1>1. CASE call[r].op = "build"
  <2>1. ShippedBy(r, j, read) = {[v |-> 1, by |-> r]}
    BY <1>1 DEF ShippedBy
  <2> QED BY <2>1 DEF Raced
<1>2. CASE call[r].op = "improve"
  <2> DEFINE entry == [v |-> NextVersion(read), by |-> r]
  <2>1. ShippedBy(r, j, read) = j.iterations \union {entry}
    BY <1>2 DEF ShippedBy
  <2>2. read \in Idea /\ Bounded(read.iterations) /\ read.iterations \subseteq Iteration
    BY DEF Typed, LocalsTyped, Idea
  <2>3. NextVersion(read) \in Nat /\ \A x \in read.iterations : x.v < NextVersion(read)
    BY <2>2, NextVersionFacts
  <2>4. ASSUME NEW x \in j.iterations, x.v = NextVersion(read)
        PROVE  Overlapped(r, x.by) \/ MadeMeanwhile(r)
    <3>1. x \notin read.iterations
      BY <2>3, <2>4
    <3> QED BY <1>2, <3>1 DEF ReadIsRecent
  <2>5. entry.v = NextVersion(read) /\ entry.by = r
    OBVIOUS
  <2> HIDE DEF entry
  <2>6. ASSUME NEW x \in ShippedBy(r, j, read), NEW y \in ShippedBy(r, j, read), x # y, x.v = y.v
        PROVE  Overlapped(x.by, y.by) \/ MadeMeanwhile(x.by) \/ MadeMeanwhile(y.by)
    <3>1. CASE x \in j.iterations /\ y \in j.iterations
      BY <1>0, <2>6, <3>1 DEF Raced
    <3>2. CASE x = entry /\ y \in j.iterations
      BY <2>4, <2>5, <2>6, <3>2
    <3>3. CASE y = entry /\ x \in j.iterations
      BY <2>4, <2>5, <2>6, <3>3, OverlapIsMutual
    <3> QED BY <2>1, <2>6, <3>1, <3>2, <3>3
  <2> QED BY <2>6 DEF Raced
<1> QED BY <1>1, <1>2

LEMMA TimelinesStepKeeps ==
  ASSUME IInv, Typed, VersionInv, NEW r \in Requests, Life(r), TimelinesStep(r)
  PROVE  ReadIsRecent' /\ ReuseIsRaced'
<1> USE DEF VersionInv
<1>0. LocalsShaped /\ Moved(r) /\ Keeps
  BY StepKeeps DEF Typed, Life
<1>1. ASSUME NEW i \in registry' PROVE Raced(i.iterations)'
  <2>1. CASE TimelineStays(i)
    BY <1>0, <2>1, RacedStays DEF TimelineStays, ReuseIsRaced
  <2>2. CASE TimelineMade(r, i)
    <3>1. i.iterations = {} \/ \E j \in base[r] : i.iterations = j.iterations
      BY <2>2, NewIdeaTyped DEF TimelineMade
    <3>2. Raced(i.iterations)
      BY <3>1 DEF ReuseIsRaced, Raced
    <3> QED BY <1>0, <3>2, RacedStays
  <2>3. CASE TimelineShipped(r, i)
    <3>1. Raced(i.iterations)
      BY <2>3, ShippedIsRaced DEF TimelineShipped
    <3> QED BY <1>0, <3>1, RacedStays
  <2> QED BY <2>1, <2>2, <2>3 DEF TimelinesStep
<1>2. ASSUME NEW q \in Requests, NEW i \in base'[q] PROVE Raced(i.iterations)'
  <2>1. i \in base[q] \/ i \in registry
    <3>1. CASE q # r
      BY <1>0, <1>2, <3>1, OthersStay
    <3>2. CASE q = r
      BY <1>2, <3>2 DEF Life, Begins, AnsweredAtOnce, GoesOn
    <3> QED BY <3>1, <3>2
  <2>2. Raced(i.iterations)
    BY <2>1 DEF ReuseIsRaced
  <2> QED BY <1>0, <2>2, RacedStays
<1>3. ASSUME NEW q \in Requests, Open(q)', call'[q].op = "improve",
             NEW read \in base'[q], NEW i \in registry', i.name = call'[q].name, NEW j \in i.iterations
      PROVE  j \in read.iterations \/ Overlapped(q, j.by)' \/ MadeMeanwhile(q)'
  <2>1. CASE ~Open(q)
    <3>1. q = r /\ Begins(r)
      BY <1>0, <1>3, <2>1, OthersStay DEF Life, AnsweredAtOnce, GoesOn, Open, CellCalls, OtherAwaits
    <3>2. read \in registry /\ read.name = call'[q].name /\ i \in registry
      BY <1>3, <3>1 DEF Begins, Find
    <3>3. read = i
      BY <1>3, <3>2 DEF IInv, OneRecordPerName
    <3> QED BY <1>3, <3>3
  <2>2. CASE Open(q)
    <3>1. pc[q] # "idle"
      BY <2>2 DEF Open, CellCalls, OtherAwaits
    <3>2. call[q].op = "improve" /\ i.name = call[q].name /\ read \in base[q]
      BY <1>0, <1>3, <2>2, <3>1 DEF Keeps
    <3>3. ASSUME NEW k \in registry, k.name = i.name, j \in k.iterations
          PROVE  j \in read.iterations \/ Overlapped(q, j.by)' \/ MadeMeanwhile(q)'
      <4>1. j \in read.iterations \/ Overlapped(q, j.by) \/ MadeMeanwhile(q)
        BY <2>2, <3>2, <3>3 DEF ReadIsRecent, Find
      <4> QED BY <1>0, <4>1, OverlapStays, MeetingsStay
    <3>4. CASE TimelineStays(i)
      BY <1>3, <3>3, <3>4 DEF TimelineStays
    <3>5. CASE TimelineMade(r, i)
      <4>1. Overlapped(q, r) /\ call[r].op \in {"create", "fork"}
        BY <2>2, <3>2, <3>5 DEF TimelineMade, OpenHaveMet
      <4>2. MadeMeanwhile(q)
        BY <4>1 DEF MadeMeanwhile
      <4> QED BY <1>0, <4>2, MeetingsStay
    <3>6. CASE TimelineShipped(r, i)
      <4>1. Overlapped(q, r)'
        BY <1>0, <1>3, <2>2, <3>6, OverlapStays DEF TimelineShipped, OpenHaveMet
      <4>2. PICK k \in registry : k.name = i.name /\ (j \in k.iterations \/ j.by = r)
        BY <1>3, <3>6 DEF TimelineShipped, Find, ShippedBy
      <4> QED BY <3>3, <4>1, <4>2
    <3> QED BY <3>4, <3>5, <3>6 DEF TimelinesStep
  <2> QED BY <2>1, <2>2
<1>4. ReuseIsRaced'
  BY <1>1, <1>2 DEF ReuseIsRaced
<1>5. ReadIsRecent'
  BY <1>3 DEF ReadIsRecent, Find
<1> QED BY <1>4, <1>5

LEMMA ProceedTimelines ==
  ASSUME IInv, Typed, NEW r \in Requests, Proceed(r)
  PROVE  TimelinesStep(r)
<1>0. StoreTyped /\ LocalsTyped(r) /\ LocalsShaped
  BY DEF Typed
<1>a. ASSUME registry' \subseteq registry PROVE TimelinesStep(r)
  BY <1>a DEF TimelinesStep, TimelineStays
<1>1. CASE Register(r)
  <2>1. /\ registry' = registry \union {NewIdea(r)} \/ registry' = registry
        /\ Open(r) /\ call[r].op \in {"create", "fork"}
    BY <1>1 DEF Register, AddIdea, Registers
  <2>2. \A i \in registry' : i \in registry \/ i = NewIdea(r)
    BY <2>1
  <2> QED BY <2>1, <2>2 DEF TimelinesStep, TimelineStays, TimelineMade
<1>2. CASE PatchRecord(r)
  <2>1. PICK idea \in Find(call[r].name) : Replace(idea, [idea EXCEPT !.text = call[r].text])
    BY <1>2 DEF PatchRecord
  <2>2. idea \in registry /\ idea \in Idea
    BY <1>0 DEF Find, StoreTyped
  <2>3. LET j == [idea EXCEPT !.text = call[r].text]
        IN j.name = idea.name /\ j.iterations = idea.iterations
    BY <2>2 DEF Idea
  <2> QED BY <2>1, <2>2, <2>3 DEF Replace, TimelinesStep, TimelineStays
<1>3. CASE RecordSnapshot(r)
  <2>1. PICK idea \in Find(call[r].name) :
          Replace(idea, [idea EXCEPT !.snapshots = SnapshotsWith(r, idea)])
    BY <1>3 DEF RecordSnapshot
  <2>2. idea \in registry /\ idea \in Idea
    BY <1>0 DEF Find, StoreTyped
  <2>3. LET j == [idea EXCEPT !.snapshots = SnapshotsWith(r, idea)]
        IN j.name = idea.name /\ j.iterations = idea.iterations
    BY <2>2 DEF Idea
  <2> QED BY <2>1, <2>2, <2>3 DEF Replace, TimelinesStep, TimelineStays
<1>4. CASE Ship(r)
  <2>1. PICK idea \in Find(call[r].name), read \in base[r] :
          Replace(idea, [idea EXCEPT !.iterations = ShippedBy(r, idea, read)])
    BY <1>4 DEF Ship
  <2> DEFINE updated == [idea EXCEPT !.iterations = ShippedBy(r, idea, read)]
  <2>2. idea \in registry /\ idea \in Idea
    BY <1>0 DEF Find, StoreTyped
  <2>3. updated.name = idea.name /\ updated.iterations = ShippedBy(r, idea, read)
    BY <2>2 DEF Idea
  <2>4. Open(r) /\ call[r].op \in {"build", "improve"}
    BY <1>4 DEF Ship, Open, OtherAwaits, IInv, AwaitsOfOps
  <2>5. pc'[r] = "done"
    BY <1>0, <1>4, Values DEF Ship, Finish
  <2>6. ~Open(r)'
    BY <2>5 DEF Open, CellCalls, OtherAwaits
  <2> HIDE DEF updated
  <2>7. TimelineShipped(r, updated)
    BY <2>3, <2>4, <2>6 DEF TimelineShipped
  <2>8. \A i \in registry' : i \in registry \/ i = updated
    BY <2>1 DEF Replace, updated
  <2> QED BY <2>7, <2>8 DEF TimelinesStep, TimelineStays
<1>5. CASE SeedCell(r) \/ PatchDone(r) \/ ImproveWorks(r) \/ GoneMeanwhile(r) \/ CallFails(r)
  <2>1. UNCHANGED store
    BY <1>5 DEF SeedCell, PatchDone, ImproveWorks, GoneMeanwhile, CallFails
  <2> QED BY <1>a, <2>1 DEF store
<1>6. CASE Serve(r) \/ RemoveIdea(r)
  BY <1>6, <1>a DEF Serve, RemoveIdea
<1> QED
  BY <1>1, <1>2, <1>3, <1>4, <1>5, <1>6 DEF Proceed

LEMMA InitVersionInv == Init => VersionInv
<1> SUFFICES ASSUME Init PROVE VersionInv
  OBVIOUS
<1>1. \A r \in Requests : ~Open(r) /\ base[r] = {}
  BY DEF Init, Open, CellCalls, OtherAwaits
<1>2. registry = {} \/ \E i \in PriorIdeas : registry = {i}
  BY DEF Init
<1>3. \A i \in PriorIdeas : \A x, y \in i.iterations : x.v = y.v => x = y
  <2>1. \A i \in PriorIdeas :
          i.iterations = {} \/ i.iterations = {[v |-> 1, by |-> None], [v |-> 2, by |-> None]}
    BY DEF PriorIdeas
  <2>2. [v |-> 1, by |-> None].v # [v |-> 2, by |-> None].v
    OBVIOUS
  <2> QED BY <2>1, <2>2
<1>4. \A i \in registry : Raced(i.iterations)
  BY <1>2, <1>3 DEF Raced
<1> QED BY <1>1, <1>4 DEF VersionInv, OpenHaveMet, ReadIsRecent, ReuseIsRaced

LEMMA NextVersionInv == IInv /\ Typed /\ VersionInv /\ [Next]_vars => VersionInv'
<1> SUFFICES ASSUME IInv, Typed, VersionInv, [Next]_vars PROVE VersionInv'
  OBVIOUS
<1>1. ASSUME NEW r \in Requests, Accept(r) \/ Proceed(r) PROVE VersionInv'
  <2>1. Life(r)
    BY <1>1, StepLives
  <2>2. TimelinesStep(r)
    <3>1. CASE Accept(r)
      BY <3>1, AcceptCellsStay DEF TimelinesStep, TimelineStays
    <3> QED BY <1>1, <3>1, ProceedTimelines
  <2>3. OpenHaveMet'
    BY <2>1, StepKeepsMet DEF VersionInv
  <2> QED BY <2>1, <2>2, <2>3, TimelinesStepKeeps DEF VersionInv
<1>2. CASE Restart
  <2>1. registry' = registry /\ Keeps
    BY <1>2, RestartKeeps DEF Restart, store
  <2>2. \A r \in Requests : ~Open(r)' /\ base'[r] = base[r]
    BY <1>2, RestartValues
  <2>3. OpenHaveMet' /\ ReadIsRecent'
    BY <2>2 DEF OpenHaveMet, ReadIsRecent
  <2>4. ReuseIsRaced'
    BY <2>1, <2>2, RacedStays DEF ReuseIsRaced, VersionInv
  <2> QED BY <2>3, <2>4 DEF VersionInv
<1>3. CASE UNCHANGED vars
  BY <1>3 DEF vars, VersionInv, OpenHaveMet, ReadIsRecent, ReuseIsRaced, Raced, Open,
              Overlapped, MadeMeanwhile, Find
<1> QED BY <1>1, <1>2, <1>3 DEF Next

----------------------------------------------------------------------------
(* The registry as a catalogue                                             *)

\* Timeline entries, of registered ideas and of those that were read, come from
\* requests that were answered with ok; a create has read no idea.
EntryWasRecorded(e) ==
  e.by = None \/ (e.by \in Requests /\ answer[e.by] = "ok" /\ call[e.by].op # "patch")

CatalogueInv ==
  /\ \A i \in registry : \A e \in i.iterations : EntryWasRecorded(e)
  /\ \A r \in Requests : \A i \in base[r] : \A e \in i.iterations : EntryWasRecorded(e)
  /\ \A r \in Requests : call[r].op = "create" => base[r] = {}

LEMMA SettlersAre ==
  \A q \in Requests : (answer[q] = "ok" /\ call[q].op # "patch") <=> q \in Catalogue!Settlers
<1>1. ASSUME NEW q \in Requests, answer[q] = "ok", call[q].op # "patch"
      PROVE  q \in Catalogue!Settlers
  <2> DEFINE receipt == [by |-> q, op |-> call[q].op, name |-> call[q].name]
  <2>1. receipt \in Settled
    BY <1>1 DEF Settled
  <2>2. receipt.by = q
    OBVIOUS
  <2> QED BY <2>1, <2>2 DEF Catalogue!Settlers
<1>2. ASSUME NEW q \in Requests, q \in Catalogue!Settlers
      PROVE  answer[q] = "ok" /\ call[q].op # "patch"
  <2>1. PICK s \in Settled : q = s.by
    BY <1>2 DEF Catalogue!Settlers
  <2>2. PICK p \in Requests : /\ answer[p] = "ok" /\ call[p].op # "patch"
                              /\ s = [by |-> p, op |-> call[p].op, name |-> call[p].name]
    BY <2>1 DEF Settled
  <2> QED BY <2>1, <2>2
<1> QED BY <1>1, <1>2

\* A step of r settles r or nothing.
LEMMA SettledStep ==
  ASSUME IInv, Typed, NEW r \in Requests, Life(r)
  PROVE  /\ (answer'[r] = "ok" /\ call'[r].op # "patch") =>
              /\ r \notin Catalogue!Settlers
              /\ Settled' = Settled \union {[by |-> r, op |-> call'[r].op, name |-> call'[r].name]}
         /\ ~(answer'[r] = "ok" /\ call'[r].op # "patch") => Settled' = Settled
<1>1. LocalsShaped /\ Moved(r) /\ pc[r] # "done"
  BY DEF Typed, Life, Begins, AnsweredAtOnce, GoesOn, Open, CellCalls, OtherAwaits
<1>2. answer[r] # "ok"
  BY <1>1 DEF IInv, AwaitsOfOps
<1>3. \A q \in Requests : q # r => answer'[q] = answer[q] /\ call'[q] = call[q]
  BY <1>1, OthersStay
<1>4. r \notin Catalogue!Settlers
  BY <1>2, SettlersAre
<1> DEFINE others == {[by |-> q, op |-> call[q].op, name |-> call[q].name] :
                        q \in {s \in Requests \ {r} : answer[s] = "ok" /\ call[s].op # "patch"}}
<1>5. Settled = others
  BY <1>2 DEF Settled
<1>6. Settled' = others \union
        {[by |-> q, op |-> call'[q].op, name |-> call'[q].name] :
           q \in {s \in {r} : answer'[s] = "ok" /\ call'[s].op # "patch"}}
  BY <1>3 DEF Settled
<1> HIDE DEF others
<1> QED BY <1>4, <1>5, <1>6

\* What is answered stays answered.
LEMMA RecordedStays ==
  ASSUME IInv, Typed, NEW r \in Requests, Life(r), NEW e, EntryWasRecorded(e)
  PROVE  EntryWasRecorded(e)'
<1>1. LocalsShaped /\ Moved(r) /\ pc[r] # "done"
  BY DEF Typed, Life, Begins, AnsweredAtOnce, GoesOn, Open, CellCalls, OtherAwaits
<1>2. answer[r] # "ok"
  BY <1>1 DEF IInv, AwaitsOfOps
<1>3. ASSUME NEW q \in Requests, answer[q] = "ok" PROVE answer'[q] = answer[q] /\ call'[q] = call[q]
  BY <1>1, <1>2, <1>3, OthersStay
<1> QED BY <1>3 DEF EntryWasRecorded

LEMMA StepKeepsCatalogue ==
  ASSUME IInv, Typed, CatalogueInv, NEW r \in Requests, Life(r),
         \A i \in registry' : TimelineStays(i) \/ TimelineMade(r, i) \/
            (TimelineShipped(r, i) /\ answer'[r] = "ok" /\ call'[r].op # "patch")
  PROVE  CatalogueInv'
<1>0. LocalsShaped /\ Moved(r)
  BY DEF Typed, Life
<1>1. ASSUME NEW i \in registry', NEW e \in i.iterations PROVE EntryWasRecorded(e)'
  <2>1. CASE TimelineStays(i)
    BY <1>1, <2>1, RecordedStays DEF TimelineStays, CatalogueInv
  <2>2. CASE TimelineMade(r, i)
    <3>1. \E j \in base[r] : e \in j.iterations
      BY <1>1, <2>2, NewIdeaTyped DEF TimelineMade
    <3> QED BY <3>1, RecordedStays DEF CatalogueInv
  <2>3. CASE TimelineShipped(r, i) /\ answer'[r] = "ok" /\ call'[r].op # "patch"
    <3>1. e.by = r \/ \E j \in registry : e \in j.iterations
      BY <1>1, <2>3 DEF TimelineShipped, ShippedBy, Find
    <3>2. CASE e.by = r
      BY <2>3, <3>2 DEF EntryWasRecorded
    <3> QED BY <3>1, <3>2, RecordedStays DEF CatalogueInv
  <2> QED BY <2>1, <2>2, <2>3
<1>2. ASSUME NEW q \in Requests, NEW i \in base'[q], NEW e \in i.iterations PROVE EntryWasRecorded(e)'
  <2>1. i \in base[q] \/ i \in registry
    <3>1. CASE q # r
      BY <1>0, <1>2, <3>1, OthersStay
    <3>2. CASE q = r
      BY <1>2, <3>2 DEF Life, Begins, AnsweredAtOnce, GoesOn
    <3> QED BY <3>1, <3>2
  <2> QED BY <1>2, <2>1, RecordedStays DEF CatalogueInv
<1>3. ASSUME NEW q \in Requests, call'[q].op = "create" PROVE base'[q] = {}
  <2>1. CASE q # r
    BY <1>0, <1>3, <2>1, OthersStay DEF CatalogueInv
  <2>2. CASE q = r
    BY <1>3, <2>2 DEF CatalogueInv, Life, Begins, AnsweredAtOnce, GoesOn
  <2> QED BY <2>1, <2>2
<1> QED BY <1>1, <1>2, <1>3 DEF CatalogueInv

\* Steps that leave the file and answer nothing, or an edit that is made already.
LEMMA QuietStutters ==
  ASSUME IInv, Typed, CatalogueInv, NEW r \in Requests, Life(r), registry' = registry,
         answer'[r] # "ok" \/ call'[r].op = "patch"
  PROVE  CatalogueInv' /\ UNCHANGED Catalogue!vars
<1>1. Settled' = Settled
  BY SettledStep
<1>2. \A i \in registry' : TimelineStays(i)
  BY DEF TimelineStays
<1> QED BY <1>1, <1>2, StepKeepsCatalogue DEF Catalogue!vars

\* A step that is answered with ok, as the receipt it adds.
LEMMA StepSettles ==
  ASSUME IInv, Typed, NEW r \in Requests, Life(r), Open(r),
         answer'[r] = "ok", call[r].op # "patch"
  PROVE  Catalogue!Settle(r, call[r].op, call[r].name)
<1>1. call'[r].op = call[r].op /\ call'[r].name = call[r].name
  BY DEF Life, Begins, AnsweredAtOnce, GoesOn, Open, CellCalls, OtherAwaits
<1> QED BY <1>1, SettledStep DEF Catalogue!Settle

\* An operation of the catalogue is a step of it.
LEMMA OperationIsStep ==
  ASSUME NEW r \in Requests,
         \/ Catalogue!Add(r) \/ Catalogue!Remove(r)
         \/ Catalogue!RecordSnapshot(r) \/ Catalogue!Ship(r)
  PROVE  Catalogue!Next
<1>1. PICK op, n : Catalogue!Settle(r, op, n)
  <2>1. Catalogue!Add(r) => \E op, n : Catalogue!Settle(r, op, n)
    BY DEF Catalogue!Add
  <2>2. Catalogue!Remove(r) => \E op, n : Catalogue!Settle(r, op, n)
    BY DEF Catalogue!Remove
  <2>3. Catalogue!RecordSnapshot(r) => \E op, n : Catalogue!Settle(r, op, n)
    BY DEF Catalogue!RecordSnapshot
  <2>4. Catalogue!Ship(r) => \E op, n : Catalogue!Settle(r, op, n)
    BY DEF Catalogue!Ship
  <2> QED BY <2>1, <2>2, <2>3, <2>4
<1> DEFINE receipt == [by |-> r, op |-> op, name |-> n]
<1>2. receipt.by = r
  OBVIOUS
<1>3. r \notin Catalogue!Settlers /\ receipt \in Settled'
  BY <1>1 DEF Catalogue!Settle
<1> HIDE DEF receipt
<1>4. r \in Catalogue!Settlers'
  BY <1>2, <1>3 DEF Catalogue!Settlers
<1> QED BY <1>3, <1>4 DEF Catalogue!Next

LEMMA AcceptIsCatalogue ==
  ASSUME IInv, Typed, CatalogueInv, NEW r \in Requests, Accept(r)
  PROVE  CatalogueInv' /\ (Catalogue!Next \/ UNCHANGED Catalogue!vars)
<1>1. Life(r) /\ registry' \subseteq registry
  BY AcceptLives, AcceptCellsStay
<1>2. CatalogueInv'
  <2>1. \A i \in registry' : TimelineStays(i)
    BY <1>1 DEF TimelineStays
  <2> QED BY <1>1, <2>1, StepKeepsCatalogue
<1>3. ~Open(r)
  BY DEF Accept, ArriveCreate, ArriveFork, ArrivePatch, ArriveSnapshot, ArriveDelete,
         DeleteKeepingCell, ArriveBuild, ArriveImprove, Arrives, Open, CellCalls, OtherAwaits
<1>4. DeleteKeepingCell(r) \/ (answer'[r] # "ok" /\ registry' = registry)
  BY <1>1, <1>3 DEF Life, Begins, AnsweredAtOnce, GoesOn
<1>5. CASE answer'[r] # "ok" /\ registry' = registry
  BY <1>1, <1>5, QuietStutters
<1>6. CASE DeleteKeepingCell(r)
  <2>1. PICK idea \in registry :
          /\ registry' = registry \ Find(idea.name)
          /\ call' = [call EXCEPT ![r] = [op |-> "delete", name |-> idea.name,
                                          source |-> None, text |-> None, keep |-> TRUE]]
    BY <1>6 DEF DeleteKeepingCell
  <2>2. LocalsShaped /\ idea.name \in Names
    BY DEF Typed, StoreTyped, Idea
  <2> DEFINE request == [op |-> "delete", name |-> idea.name, source |-> None,
                         text |-> None, keep |-> TRUE]
  <2>a. request.op = "delete" /\ request.name = idea.name
    OBVIOUS
  <2>b. call' = [call EXCEPT ![r] = request]
    BY <2>1
  <2> HIDE DEF request
  <2>c. DOMAIN call = Requests
    BY <2>2 DEF LocalsShaped
  <2>d. call'[r] = request
    BY <2>b, <2>c
  <2>3. call'[r].op = "delete" /\ call'[r].name = idea.name
    BY <2>a, <2>d
  <2>4. answer'[r] = "ok"
    BY <1>6, <2>2, Values DEF DeleteKeepingCell
  <2>5. Catalogue!Settle(r, "delete", idea.name)
    BY <1>1, <2>3, <2>4, SettledStep DEF Catalogue!Settle
  <2>6. registry' = registry \ Catalogue!Named(idea.name)
    BY <2>1 DEF Find, Catalogue!Named
  <2>7. Catalogue!Remove(r)
    BY <2>2, <2>5, <2>6 DEF Catalogue!Remove
  <2> QED BY <1>2, <2>7, OperationIsStep
<1> QED BY <1>4, <1>5, <1>6

LEMMA RegisterIsAdd ==
  ASSUME IInv, Typed, CatalogueInv, NEW r \in Requests, Register(r)
  PROVE  CatalogueInv' /\ (Catalogue!Next \/ UNCHANGED Catalogue!vars)
<1>0. LocalsShaped /\ Life(r)
  BY RegisterLives DEF Typed
<1>1. Open(r) /\ call[r].op \in {"create", "fork"}
  BY DEF Register, Registers
<1>2. CASE Find(call[r].name) # {}
  <2>1. registry' = registry /\ Finish(r, "INTERNAL_ERROR")
    BY <1>2 DEF Register, AddIdea
  <2>2. answer'[r] # "ok"
    BY <1>0, <2>1, Values DEF Finish
  <2> QED BY <1>0, <2>1, <2>2, QuietStutters
<1>3. CASE Find(call[r].name) = {}
  <2> DEFINE new == NewIdea(r)
  <2>1. registry' = registry \union {new} /\ Finish(r, "ok")
    BY <1>3 DEF Register, AddIdea
  <2>2. answer'[r] = "ok"
    BY <1>0, <2>1, Values DEF Finish
  <2>3. new.name = call[r].name /\ new.by = r /\ new.snapshots = {}
    BY DEF NewIdea
  <2>4. \A e \in new.iterations : \E i \in base[r] : e \in i.iterations
    BY <1>1, NewIdeaTyped
  <2>5. call[r].op = "create" => new.iterations = {}
    BY <2>4 DEF CatalogueInv
  <2>6. \A e \in new.iterations : EntryWasRecorded(e)
    BY <2>4 DEF CatalogueInv
  <2>7. \A e \in new.iterations : e.by \in Catalogue!Settlers \union {None}
    BY <2>6, SettlersAre DEF EntryWasRecorded
  <2>8. Catalogue!Settle(r, call[r].op, new.name)
    BY <1>0, <1>1, <2>2, <2>3, StepSettles
  <2>9. Catalogue!Named(new.name) = {}
    BY <1>3, <2>3 DEF Find, Catalogue!Named
  <2>10. new \in registry'
    BY <2>1
  <2>11. \A i \in registry' : TimelineStays(i) \/ TimelineMade(r, i)
    BY <1>1, <2>1 DEF TimelineStays, TimelineMade
  <2> HIDE DEF new
  <2>12. Catalogue!Add(r)
    BY <1>1, <2>1, <2>3, <2>5, <2>7, <2>8, <2>9, <2>10 DEF Catalogue!Add
  <2>13. CatalogueInv'
    BY <1>0, <2>11, StepKeepsCatalogue
  <2> QED BY <2>12, <2>13, OperationIsStep
<1> QED BY <1>2, <1>3

LEMMA PatchRecordIsEdit ==
  ASSUME IInv, Typed, CatalogueInv, NEW r \in Requests, PatchRecord(r)
  PROVE  CatalogueInv' /\ Catalogue!Next
<1>0. StoreTyped /\ Life(r) /\ answer' = answer
  BY PatchRecordLives DEF Typed
<1>1. PICK idea \in Find(call[r].name) : Replace(idea, [idea EXCEPT !.text = call[r].text])
  BY DEF PatchRecord
<1> DEFINE new == [idea EXCEPT !.text = call[r].text]
<1>2. idea \in registry /\ idea \in Idea
  BY <1>0 DEF Find, StoreTyped
<1>3. new.name = idea.name /\ new.iterations = idea.iterations /\ new = [idea EXCEPT !.text = new.text]
  BY <1>2 DEF Idea
<1>4. registry' = (registry \ {idea}) \union {new} /\ new \in registry'
  BY <1>1 DEF Replace
<1> HIDE DEF new
<1>5. answer'[r] # "ok"
  BY <1>0 DEF PatchRecord, IInv, AwaitsOfOps
<1>6. Settled' = Settled
  BY <1>0, <1>5, SettledStep
<1>7. Catalogue!Edit
  BY <1>2, <1>3, <1>4, <1>6 DEF Catalogue!Edit, Catalogue!Change
<1>8. \A i \in registry' : TimelineStays(i)
  BY <1>2, <1>3, <1>4 DEF TimelineStays
<1> QED BY <1>0, <1>7, <1>8, StepKeepsCatalogue DEF Catalogue!Next

LEMMA RecordSnapshotIsOne ==
  ASSUME IInv, Typed, CatalogueInv, NEW r \in Requests, RecordSnapshot(r)
  PROVE  CatalogueInv' /\ Catalogue!Next
<1>0. StoreTyped /\ LocalsShaped /\ Life(r)
  BY RecordSnapshotLives DEF Typed
<1>1. PICK idea \in Find(call[r].name) :
        Replace(idea, [idea EXCEPT !.snapshots = idea.snapshots \union {Key(r)}])
  BY DEF RecordSnapshot, SnapshotsWith
<1> DEFINE new == [idea EXCEPT !.snapshots = idea.snapshots \union {Key(r)}]
<1>2. idea \in registry /\ idea \in Idea /\ idea.name = call[r].name
  BY <1>0 DEF Find, StoreTyped
<1>3. new.name = idea.name /\ new.iterations = idea.iterations /\ Key(r) \in new.snapshots
  BY <1>2 DEF Idea
<1>4. registry' = (registry \ {idea}) \union {new} /\ new \in registry'
  BY <1>1 DEF Replace
<1>5. Key(r).by = r
  BY DEF Key
<1>6. new = [idea EXCEPT !.snapshots = @ \union {Key(r)}]
  OBVIOUS
<1> HIDE DEF new
<1>7. answer'[r] = "ok" /\ Open(r) /\ call[r].op = "snapshot"
  BY <1>0, Values DEF RecordSnapshot, Finish, Open, CellCalls
<1>8. Catalogue!Settle(r, "snapshot", idea.name)
  BY <1>0, <1>2, <1>7, StepSettles
<1>9. Catalogue!Change(idea, new)
  BY <1>4 DEF Catalogue!Change
<1>10. Catalogue!RecordSnapshot(r)
  BY <1>2, <1>3, <1>4, <1>5, <1>6, <1>8, <1>9 DEF Catalogue!RecordSnapshot
<1>11. \A i \in registry' : TimelineStays(i)
  BY <1>2, <1>3, <1>4 DEF TimelineStays
<1> QED BY <1>0, <1>10, <1>11, StepKeepsCatalogue, OperationIsStep

LEMMA ShipIsOne ==
  ASSUME IInv, Typed, CatalogueInv, NEW r \in Requests, Ship(r)
  PROVE  CatalogueInv' /\ Catalogue!Next
<1>0. StoreTyped /\ LocalsShaped /\ Life(r)
  BY ShipLives DEF Typed
<1>1. PICK idea \in Find(call[r].name), read \in base[r] :
        Replace(idea, [idea EXCEPT !.iterations = ShippedBy(r, idea, read)])
  BY DEF Ship
<1> DEFINE new == [idea EXCEPT !.iterations = ShippedBy(r, idea, read)]
           entry == [v |-> IF call[r].op = "build" THEN 1 ELSE NextVersion(read), by |-> r]
<1>2. idea \in registry /\ idea \in Idea /\ idea.name = call[r].name
  BY <1>0 DEF Find, StoreTyped
<1>3. /\ new.name = idea.name /\ new.iterations = ShippedBy(r, idea, read)
      /\ new = [idea EXCEPT !.iterations = new.iterations]
  BY <1>2 DEF Idea
<1>4. registry' = (registry \ {idea}) \union {new} /\ new \in registry'
  BY <1>1 DEF Replace
<1>5. /\ entry.by = r
      /\ call[r].op = "build" => ShippedBy(r, idea, read) = {entry}
      /\ call[r].op # "build" => ShippedBy(r, idea, read) = idea.iterations \union {entry}
  BY DEF ShippedBy
<1> HIDE DEF new, entry
<1>6. Open(r) /\ call[r].op \in {"build", "improve"}
  BY DEF Ship, Open, OtherAwaits, IInv, AwaitsOfOps
<1>7. answer'[r] = "ok" /\ pc'[r] = "done"
  BY <1>0, Values DEF Ship, Finish
<1>8. ~Open(r)'
  BY <1>7 DEF Open, CellCalls, OtherAwaits
<1>9. Catalogue!Settle(r, call[r].op, idea.name)
  BY <1>0, <1>2, <1>6, <1>7, StepSettles
<1>10. Catalogue!Change(idea, new)
  BY <1>4 DEF Catalogue!Change
<1>11. entry \in new.iterations
  BY <1>3, <1>5
<1>12. Catalogue!Ship(r)
  BY <1>2, <1>3, <1>4, <1>5, <1>6, <1>9, <1>10, <1>11 DEF Catalogue!Ship
<1>13. TimelineShipped(r, new)
  BY <1>1, <1>3, <1>6, <1>8, <1>2 DEF TimelineShipped
<1>14. call'[r].op # "patch"
  BY <1>0, <1>6 DEF Ship
<1>15. \A i \in registry' : TimelineStays(i) \/ i = new
  BY <1>4 DEF TimelineStays
<1>16. CatalogueInv'
  BY <1>0, <1>7, <1>13, <1>14, <1>15, StepKeepsCatalogue
<1> QED BY <1>12, <1>16, OperationIsStep

LEMMA ProceedIsCatalogue ==
  ASSUME IInv, Typed, CatalogueInv, NEW r \in Requests, Proceed(r)
  PROVE  CatalogueInv' /\ (Catalogue!Next \/ UNCHANGED Catalogue!vars)
<1>0. LocalsShaped /\ Life(r)
  BY ProceedLives DEF Typed
<1>a. ASSUME Open(r), answer' = answer PROVE answer'[r] # "ok"
  BY <1>a DEF IInv, AwaitsOfOps, Open, CellCalls, OtherAwaits
<1>b. ASSUME NEW outcome, Finish(r, outcome) PROVE answer'[r] = outcome
  BY <1>0, <1>b, Values DEF Finish
<1>1. CASE Serve(r) \/ SeedCell(r) \/ ImproveWorks(r)
  <2>1. registry' = registry /\ Open(r) /\ answer' = answer
    BY <1>1 DEF Serve, SeedCell, ImproveWorks, Goto, Open, CellCalls, store
  <2> QED BY <1>0, <1>a, <2>1, QuietStutters
<1>2. CASE Register(r)
  BY <1>2, RegisterIsAdd
<1>3. CASE PatchRecord(r)
  BY <1>3, PatchRecordIsEdit
<1>4. CASE PatchDone(r)
  <2>1. registry' = registry /\ call'[r].op = "patch"
    BY <1>4 DEF PatchDone, store, IInv, AwaitsOfOps
  <2> QED BY <1>0, <2>1, QuietStutters
<1>5. CASE RecordSnapshot(r)
  BY <1>5, RecordSnapshotIsOne
<1>6. CASE Ship(r)
  BY <1>6, ShipIsOne
<1>7. CASE GoneMeanwhile(r) \/ CallFails(r)
  <2>1. registry' = registry /\ answer'[r] # "ok"
    BY <1>7, <1>b DEF GoneMeanwhile, CallFails, store
  <2> QED BY <1>0, <2>1, QuietStutters
<1>8. CASE RemoveIdea(r)
  <2>1. registry' = registry \ Find(call[r].name) /\ answer'[r] = "ok" /\ Open(r)
    BY <1>8, <1>b DEF RemoveIdea, Open, CellCalls
  <2>2. call[r].op = "delete" /\ call[r].name \in Names
    BY <1>8, <2>1 DEF RemoveIdea, IInv, AwaitsOfOps, Typed, LocalsTyped, Asked
  <2>3. Catalogue!Settle(r, "delete", call[r].name)
    BY <1>0, <2>1, <2>2, StepSettles
  <2>4. Catalogue!Remove(r)
    BY <2>1, <2>2, <2>3 DEF Catalogue!Remove, Catalogue!Named, Find
  <2>5. \A i \in registry' : TimelineStays(i)
    BY <2>1 DEF TimelineStays
  <2> QED BY <1>0, <2>4, <2>5, StepKeepsCatalogue, OperationIsStep
<1> QED
  BY <1>1, <1>2, <1>3, <1>4, <1>5, <1>6, <1>7, <1>8 DEF Proceed

LEMMA RestartIsQuiet ==
  ASSUME IInv, Typed, CatalogueInv, Restart
  PROVE  CatalogueInv' /\ UNCHANGED Catalogue!vars
<1>1. registry' = registry /\ call' = call /\ base' = base
  BY DEF Restart, store
<1>2. \A q \in Requests : answer[q] = "ok" <=> answer'[q] = "ok"
  <2>1. \A q \in Requests : answer[q] = "ok" => ~Open(q)
    BY DEF IInv, AwaitsOfOps, Open, CellCalls, OtherAwaits
  <2> QED BY <2>1, RestartValues
<1>3. Settled' = Settled
  BY <1>1, <1>2 DEF Settled
<1>4. CatalogueInv'
  BY <1>1, <1>2 DEF CatalogueInv, EntryWasRecorded
<1> QED BY <1>1, <1>3, <1>4 DEF Catalogue!vars

LEMMA NextIsCatalogue ==
  IInv /\ Typed /\ CatalogueInv /\ [Next]_vars => CatalogueInv' /\ [Catalogue!Next]_(Catalogue!vars)
<1> SUFFICES ASSUME IInv, Typed, CatalogueInv, [Next]_vars
             PROVE  CatalogueInv' /\ [Catalogue!Next]_(Catalogue!vars)
  OBVIOUS
<1>1. ASSUME NEW r \in Requests, Accept(r) \/ Proceed(r)
      PROVE  CatalogueInv' /\ [Catalogue!Next]_(Catalogue!vars)
  BY <1>1, AcceptIsCatalogue, ProceedIsCatalogue
<1>2. CASE Restart
  BY <1>2, RestartIsQuiet
<1>3. CASE UNCHANGED vars
  BY <1>3 DEF vars, CatalogueInv, EntryWasRecorded, Catalogue!vars, Settled
<1> QED BY <1>1, <1>2, <1>3 DEF Next

LEMMA InitIsCatalogue == Init => CatalogueInv /\ Catalogue!Init
<1> SUFFICES ASSUME Init PROVE CatalogueInv /\ Catalogue!Init
  OBVIOUS
<1>1. registry = {} \/ \E i \in PriorIdeas : registry = {i}
  BY DEF Init
<1>2. \A i \in PriorIdeas : i.by = None /\ \A e \in i.iterations : e.by = None
  <2>1. \A i \in PriorIdeas : i.by = None /\
          (i.iterations = {} \/ i.iterations = {[v |-> 1, by |-> None], [v |-> 2, by |-> None]})
    BY DEF PriorIdeas
  <2> QED BY <2>1
<1>3. \A r \in Requests : answer[r] = "none" /\ base[r] = {}
  BY DEF Init
<1>4. Settled = {}
  BY <1>3 DEF Settled
<1> QED BY <1>1, <1>2, <1>3, <1>4 DEF CatalogueInv, EntryWasRecorded, Catalogue!Init

----------------------------------------------------------------------------
(* Theorems                                                                *)

\* The inductive invariant holds in every behaviour of the routes.
THEOREM Invariance == Spec => []IInv
<1>1. Init => IInv
  BY InitIInv
<1>2. IInv /\ [Next]_vars => IInv'
  BY NextIInv
<1>3. QED
  BY <1>1, <1>2, PTL DEF Spec

\* createIdea, forkIdea and addIdea: whatever requests run at the same time,
\* ideas.json never holds two records of one name.
THEOREM NamesAreUnique == Spec => []OneRecordPerName
<1>1. IInv => OneRecordPerName
  BY DEF IInv
<1>2. QED
  BY <1>1, Invariance, PTL

\* deleteIdea: once it is answered with ok, no request that read the record
\* before (a patch, a snapshot, a build) writes it back.
THEOREM DeletedNeverReturns == Spec => []DeletedStaysDeleted
<1>1. IInv => DeletedStaysDeleted
  BY DEF IInv
<1>2. QED
  BY <1>1, Invariance, PTL

\* recordSnapshot and updateIdea: no step of any request shortens the snapshot
\* history of a record that stays registered.
THEOREM SnapshotHistoriesGrow == Spec => SnapshotsAreKept
<1>1. ASSUME IInv, [Next]_vars
      PROVE  [\A i \in registry, j \in registry' :
                (i.name = j.name /\ i.by = j.by) => i.snapshots \subseteq j.snapshots]_vars
  BY <1>1, NextIInv, RegistryStepKeepsSnapshots
<1>2. QED
  BY <1>1, Invariance, PTL DEF Spec, SnapshotsAreKept

\* Types of the registry, the cells and the locals of every request, with the
\* facts about awaits and timelines that they rest on.
THEOREM TypeInvariance == Spec => []Typed
<1>1. Init => Typed
  BY InitTyped
<1>2. IInv /\ Typed /\ [Next]_vars => Typed'
  BY NextTyped
<1>3. QED
  BY <1>1, <1>2, Invariance, PTL DEF Spec

\* ideas.json, the cells and the handlers' locals always have their types; in
\* particular nextVersion computes a version, whatever the timeline holds.
THEOREM TypeCorrect == Spec => []TypeOK
BY TypeInvariance, TypedIsTypeOK, PTL

\* Records and cells, with what open requests have made and met.
THEOREM CellInvariance == Spec => []CellInv
<1>1. Init => CellInv
  BY InitCellInv
<1>2. IInv /\ Typed /\ CellInv /\ [Next]_vars => CellInv'
  BY NextCellInv
<1>3. QED
  BY <1>1, <1>2, Invariance, TypeInvariance, PTL DEF Spec

\* snapshotCell is not retried (client.ts): a request that took a snapshot and
\* recorded it left no other one in the cell.
THEOREM SnapshotsAreRecorded == Spec => []SnapshotsAreAccounted
<1>1. Typed /\ CellInv => SnapshotsAreAccounted
  <2> SUFFICES ASSUME Typed, CellInv,
                      NEW idea \in registry, NEW known \in idea.snapshots,
                      NEW shot \in cells[idea.name].shots, shot.by = known.by
               PROVE  shot \in idea.snapshots
    BY DEF SnapshotsAreAccounted
  <2>1. idea \in Idea /\ cells \in [Names -> Cell]
    BY DEF Typed, StoreTyped
  <2>2. idea.name \in Names /\ known \in Shot
    BY <2>1 DEF Idea
  <2>3. shot \in Shot
    BY <2>1, <2>2 DEF Cell
  <2>4. shot.nth = 1 /\ known.nth = 1
    BY <2>2 DEF CellInv, ShotsAreFirst
  <2>5. shot = known
    BY <2>2, <2>3, <2>4 DEF Shot
  <2> QED BY <2>5
<1>2. QED
  BY <1>1, TypeInvariance, CellInvariance, PTL

\* A registered idea without its cell is the work of a deletion that did not end
\* well, or that met the request that made the idea.
THEOREM CellsGoByDeletion == Spec => []CellGoneIsADeletion
<1>1. CellInv => CellGoneIsADeletion
  BY DEF CellInv
<1>2. QED
  BY <1>1, CellInvariance, PTL

\* Timelines, with what an improvement under way has read of its own.
THEOREM VersionInvariance == Spec => []VersionInv
<1>1. Init => VersionInv
  BY InitVersionInv
<1>2. IInv /\ Typed /\ VersionInv /\ [Next]_vars => VersionInv'
  BY NextVersionInv
<1>3. QED
  BY <1>1, <1>2, Invariance, TypeInvariance, PTL DEF Spec

\* nextVersion is computed before the awaits and recorded after them: a version
\* is given twice only when requests overlapped.
THEOREM VersionsRepeatByRaces == Spec => []VersionReuseIsARace
<1>1. VersionInv => VersionReuseIsARace
  BY DEF VersionInv, ReuseIsRaced, Raced, MadeMeanwhile, VersionReuseIsARace
<1>2. QED
  BY <1>1, VersionInvariance, PTL

\* The registry file with its requests implements the catalogue: every operation
\* answered with ok took effect once, in one step on the records of that moment,
\* and one that fails, is lost or finds its idea gone took none (but for edits).
THEOREM RegistryImplementsCatalogue == Spec => ImplementsCatalogue
<1>1. Init => CatalogueInv /\ Catalogue!Init
  BY InitIsCatalogue
<1>2. IInv /\ Typed /\ CatalogueInv /\ [Next]_vars => CatalogueInv' /\ [Catalogue!Next]_(Catalogue!vars)
  BY NextIsCatalogue
<1>3. QED
  BY <1>1, <1>2, Invariance, TypeInvariance, PTL DEF Spec, Catalogue!Spec, ImplementsCatalogue
=============================================================================
