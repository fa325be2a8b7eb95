---------------------------- MODULE LocalBuilder ----------------------------
(***************************************************************************)
(* Builds and improvements in local mode and the route that starts the app *)
(* (src/apps/web/src/lib/builder, app/api/ideas/[name]/{build,improve,     *)
(* app/start}/route.ts), over one idea's cell and its record.              *)
(*                                                                         *)
(* A pass asks the model for an app, writes its files into the cell one by *)
(* one, runs the self-test there, records the iteration, and stops and     *)
(* starts the app.  An action is the code between two awaits.  The browser *)
(* may leave: the next event emitted throws and the pass ends there.       *)
(***************************************************************************)
EXTENDS Naturals, Sequences, SequencesExt, FiniteSets

CONSTANTS
  Requests,    \* one build, improve or start request each
  Responses,   \* what the model may answer
  SafePaths,   \* relative paths without ".." segments
  CheckPath,   \* REQUIRED_CHECK_PATH
  MaxFiles, MaxBytes,
  Incidents,   \* subset of {"fail", "leave"}
  None

ASSUME LocalBuilderAssumption ==
  /\ None \notin Requests \cup [SafePaths -> Requests \cup {None}]
  /\ CheckPath \in SafePaths
  /\ \A response \in Responses :
        response.payload.paths \in Seq(Range(response.payload.paths))
  /\ MaxFiles \in Nat /\ MaxBytes \in Nat

VARIABLES
  files,   \* the cell: who wrote each path last
  app,     \* the running app's files, None when there is none
  record,  \* the idea's record in the registry
  req,
  raced,   \* history: two requests have overlapped
  broken,  \* history: a pass broke off between its files and its restart, and
           \* no restart since has found the files tested
  tested,  \* history: the files that the latest self-test ran on
  undone,  \* history: requests about to record an app that another has stopped
  stale    \* history: the app shown as live was stopped before it was recorded

cell == <<files, app, tested, broken>>
shown == <<record, undone, stale>>
vars == <<cell, shown, req, raced>>

NoFiles == [p \in SafePaths |-> None]

Fresh(pc) == [pc |-> pc, kind |-> "none", base |-> 0, asked |-> 0, todo |-> <<>>, here |-> TRUE]

Init ==
  /\ files = NoFiles /\ app = None
  /\ record = [iterations |-> <<>>, up |-> "unknown"]
  /\ req = [r \in Requests |-> Fresh("idle")]
  /\ raced = FALSE /\ broken = FALSE /\ tested = NoFiles
  /\ undone = {} /\ stale = FALSE

-----------------------------------------------------------------------------
(* The model's answer *)

\* validateBuilderApp.
IsBuilderApp(payload) ==
  /\ payload.wellFormed
  /\ Len(payload.paths) \in 1..MaxFiles
  /\ Range(payload.paths) \subseteq SafePaths
  /\ IsInjective(payload.paths)
  /\ payload.bytes <= MaxBytes
  /\ CheckPath \in Range(payload.paths)

\* parseBuilderResponse: the tool's input, else the fenced block of the text.
IsUsable(response) == response.form \in {"tool", "fenced"} /\ IsBuilderApp(response.payload)

-----------------------------------------------------------------------------
CurrentVersion == IF record.iterations = <<>> THEN 0 ELSE Last(record.iterations)

Ended == {r \in Requests : req[r].pc \in {"idle", "done"}}

Goto(r, pc) == [req EXCEPT ![r].pc = pc]

\* The last event of a pass or the answer of the start route: "live", a
\* service error, an error, or nothing when the browser is gone.
End(r) == [req EXCEPT ![r] = Fresh("done")]

\* emit: with the browser gone it throws, and the pass ends.
Emit(r, next) == IF req[r].here THEN next ELSE End(r)

\* The routes' checks; then a build asks the model, an improvement reads the
\* app and snapshots the cell first, a start stops the app.
Begin(r, kind) ==
  /\ req[r].pc = "idle"
  /\ IF kind \in {"improve", "start"} /\ CurrentVersion = 0
     THEN req' = End(r)
          /\ UNCHANGED raced
     ELSE /\ req' = [req EXCEPT ![r].kind = kind, ![r].base = CurrentVersion,
                      ![r].pc = CASE kind = "build" -> "ask"
                                  [] kind = "improve" -> "read"
                                  [] OTHER -> "stop"]
          /\ raced' = (raced \/ Ended # Requests)
  /\ UNCHANGED <<cell, shown>>

\* What a walk over the listings of the cell finds.
AppFiles == {p \in SafePaths : files[p] # None}

\* readCurrentAppFiles, then snapshotCell, which is never retried.
ReadCurrentAppFiles(r) ==
  /\ req[r].pc = "read"
  /\ req' = IF AppFiles = {} THEN End(r) ELSE Emit(r, Goto(r, "snapshot"))
  /\ UNCHANGED <<cell, shown, raced>>

SnapshotCell(r) ==
  /\ req[r].pc = "snapshot"
  /\ req' = Emit(r, Goto(r, "ask"))
  /\ UNCHANGED <<cell, shown, raced>>

\* Mutant: a second retry.
AfterResponseForever(r, response) ==
  IF IsUsable(response)
  THEN Emit(r, [Goto(r, "write") EXCEPT ![r].todo = response.payload.paths, ![r].asked = @ + 1])
  ELSE IF req[r].asked < 2 THEN [req EXCEPT ![r].asked = @ + 1]
  ELSE End(r)

\* requestAppViaTool: one retry, with the failure fed back.
AfterResponse(r, response) ==
  IF IsUsable(response)
  THEN Emit(r, [Goto(r, "write") EXCEPT ![r].todo = response.payload.paths, ![r].asked = @ + 1])
  ELSE IF req[r].asked = 0 THEN [req EXCEPT ![r].asked = 1]
  ELSE End(r)

RequestAppViaTool(r) ==
  /\ req[r].pc = "ask"
  /\ \E response \in Responses : req' = AfterResponse(r, response)
  /\ UNCHANGED <<cell, shown, raced>>

\* Files the new app does not have stay where they are.
WriteFile(r) ==
  /\ req[r].pc = "write"
  /\ files' = [files EXCEPT ![Head(req[r].todo)] = r]
  /\ broken' = (broken \/ ~req[r].here)
  /\ LET rest == Tail(req[r].todo)
     IN req' = Emit(r, [Goto(r, IF rest = <<>> THEN "verify" ELSE "write") EXCEPT ![r].todo = rest])
  /\ UNCHANGED <<app, tested, shown, raced>>

\* The iteration's version is one above that of the record the request read.
Iteration(r) == IF req[r].kind = "build" THEN 1 ELSE req[r].base + 1

Timeline(r) ==
  IF req[r].kind = "build" THEN <<Iteration(r)>> ELSE Append(record.iterations, Iteration(r))

\* The self-test ends and the iteration is recorded.  Whether it passed is
\* recorded with it and changes nothing that follows.
Verify(r) ==
  /\ req[r].pc = "verify"
  /\ record' = [record EXCEPT !.iterations = Timeline(r)]
  /\ tested' = files
  /\ broken' = (broken \/ ~req[r].here)
  /\ req' = Emit(r, Goto(r, "stop"))
  /\ UNCHANGED <<files, app, undone, stale, raced>>

-----------------------------------------------------------------------------
(* restartAppService *)

\* Those that have started the app and are asking for its address.
Started == {r \in Requests : req[r].pc = "live"}

\* A stop that finds nothing running is no failure.
StopService(r) ==
  /\ req[r].pc = "stop"
  /\ app' = None
  /\ broken' = (broken /\ files # tested)
  /\ undone' = undone \cup Started
  /\ req' = Goto(r, "start")
  /\ UNCHANGED <<files, tested, record, stale, raced>>

\* Mutant: an app that did not stay up is taken for started.
StartServiceUnchecked(r) ==
  /\ req[r].pc = "start"
  /\ \/ app' = files
     \/ UNCHANGED app
  /\ req' = Goto(r, "live")
  /\ UNCHANGED <<files, tested, broken, shown, raced>>

\* The app comes up with the files of the moment, or does not stay up.
StartService(r) ==
  /\ req[r].pc = "start"
  /\ \/ app' = files /\ req' = Goto(r, "live") /\ UNCHANGED <<record, stale>>
     \/ /\ UNCHANGED app
        /\ record' = [record EXCEPT !.up = "error"]
        /\ stale' = FALSE
        /\ req' = Emit(r, End(r))
  /\ UNCHANGED <<files, tested, broken, undone, raced>>

\* resolvePreviewUrl never fails, and nothing looks at the app again.
RecordLive(r) ==
  /\ req[r].pc = "live"
  /\ record' = [record EXCEPT !.up = "live"]
  /\ stale' = (r \in undone)
  /\ undone' = undone \ {r}
  /\ req' = Emit(r, End(r))
  /\ UNCHANGED <<cell, raced>>

\* Stopping or starting fails, perhaps after it was done.
RestartFails(r) ==
  /\ "fail" \in Incidents
  /\ \/ /\ req[r].pc = "stop"
        /\ \/ app' = None /\ undone' = undone \cup Started
           \/ UNCHANGED <<app, undone>>
        /\ broken' = (broken \/ req[r].kind # "start")
     \/ /\ req[r].pc = "start"
        /\ app' \in {app, files}
        /\ UNCHANGED <<broken, undone>>
  /\ record' = [record EXCEPT !.up = "error"]
  /\ stale' = FALSE
  /\ req' = Emit(r, End(r))
  /\ UNCHANGED <<files, tested, raced>>

-----------------------------------------------------------------------------
\* OnCell or the model fails a call before the restart: an error event.  The
\* file being written may have been.
CallFails(r) ==
  /\ "fail" \in Incidents
  /\ req[r].pc \in {"read", "snapshot", "ask", "write", "verify"}
  /\ files' \in {files} \cup
        IF req[r].pc = "write" THEN {[files EXCEPT ![Head(req[r].todo)] = r]} ELSE {}
  /\ broken' = (broken \/ req[r].pc \in {"write", "verify"})
  /\ req' = End(r)
  /\ UNCHANGED <<app, tested, shown, raced>>

Leave(r) ==
  /\ "leave" \in Incidents
  /\ req[r].pc \notin {"idle", "done"} /\ req[r].kind # "start" /\ req[r].here
  /\ req' = [req EXCEPT ![r].here = FALSE]
  /\ UNCHANGED <<cell, shown, raced>>

RequestNext(r) ==
  \/ \E kind \in {"build", "improve", "start"} : Begin(r, kind)
  \/ ReadCurrentAppFiles(r) \/ SnapshotCell(r) \/ RequestAppViaTool(r)
  \/ WriteFile(r) \/ Verify(r) \/ StopService(r) \/ StartService(r) \/ RecordLive(r)
  \/ RestartFails(r) \/ CallFails(r) \/ Leave(r)

Next == \E r \in Requests : RequestNext(r)

Spec == Init /\ [][Next]_vars

-----------------------------------------------------------------------------
(* Properties *)

Steps == {"idle", "read", "snapshot", "ask", "write", "verify", "stop", "start", "live", "done"}

\* Type invariant.  A pass asks the model at most twice and writes nothing
\* before it has an app within the contract; versions in the record go up
\* from 1, one by one, while requests do not overlap.
TypeOK ==
  /\ files \in [SafePaths -> Requests \cup {None}]
  /\ app = None \/ app \in [SafePaths -> Requests \cup {None}]
  /\ tested \in [SafePaths -> Requests \cup {None}]
  /\ record.up \in {"unknown", "live", "error"}
  /\ record.iterations \in Seq(Nat)
  /\ ~raced => \A i \in 1..Len(record.iterations) : record.iterations[i] = i
  /\ raced \in BOOLEAN /\ broken \in BOOLEAN /\ stale \in BOOLEAN
  /\ undone \subseteq Started
  /\ \A r \in Requests :
        /\ req[r].pc \in Steps /\ req[r].here \in BOOLEAN
        /\ req[r].asked \in 0..2
        /\ req[r].pc = "write" => req[r].todo # <<>> /\ Range(req[r].todo) \subseteq SafePaths

\* With nothing under way, however the requests have overlapped and failed:
\* an idea shown as live has a running app, unless another request stopped
\* the app between the start that the record tells of and the record; and the
\* app runs the very files that the latest self-test ran on, unless a pass
\* broke off between its first file and its restart and no restart since has
\* found the files tested (restartAppService never looks at the app again
\* before it records).
RecordMatchesCell ==
  Ended = Requests /\ record.up = "live" =>
     /\ app # None \/ stale
     /\ app \in {None, tested} \/ broken

=============================================================================
