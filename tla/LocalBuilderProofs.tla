------------------------- MODULE LocalBuilderProofs -------------------------
(***************************************************************************)
(* Proofs about LocalBuilder, for any requests, paths and answers of the   *)
(* model.  The inductive invariant, IInv, has two parts.  Whatever         *)
(* overlaps, files that were not tested, and an app that does not run the  *)
(* tested ones, are the doing of a pass that is under way or broke off,    *)
(* and an idea shown as live that has no app is about to be told.  And as  *)
(* long as no two requests have overlapped, the one under way knows the    *)
(* version that is current.                                                *)
(***************************************************************************)
EXTENDS LocalBuilder, TLAPS

Cell == [SafePaths -> Requests \cup {None}]

Request ==
  [pc : Steps, kind : {"none", "build", "improve", "start"}, base : Nat, asked : 0..2,
   todo : Seq(SafePaths), here : BOOLEAN]

Record == [iterations : Seq(Nat), up : {"unknown", "live", "error"}]

\* The steps of a pass before its restart.
Early == {"read", "snapshot", "ask", "write", "verify"}

Typed ==
  /\ files \in Cell /\ app \in Cell \cup {None} /\ tested \in Cell
  /\ record \in Record
  /\ req \in [Requests -> Request]
  /\ raced \in BOOLEAN /\ broken \in BOOLEAN /\ stale \in BOOLEAN
  /\ \A r \in Requests :
        /\ req[r].pc \in {"idle", "read", "snapshot"} => req[r].asked = 0
        /\ req[r].pc = "ask" => req[r].asked \in 0..1
        /\ req[r].pc = "write" => req[r].todo # <<>>
        /\ req[r].pc \in Early => req[r].kind # "start"

\* What holds while no two requests have overlapped.
Numbered == \A i \in 1..Len(record.iterations) : record.iterations[i] = i

Unraced ==
  /\ Numbered
  /\ \A r, s \in Requests \ Ended : r = s
  /\ \A r \in Requests : req[r].pc \in Early => req[r].base = CurrentVersion

\* A pass between its first file and its self-test, and up to its restart.
Writing(q) == q.pc \in {"write", "verify"}
Settling(q) == Writing(q) \/ (q.pc = "stop" /\ q.kind # "start")

FilesAreTested == files # tested => broken \/ \E r \in Requests : Writing(req[r])
AppIsTested == app \notin {None, tested} => broken \/ \E r \in Requests : Settling(req[r])

\* An app that was stopped is about to be started, or known to be gone.
AppIsShown ==
  /\ undone \subseteq Started
  /\ record.up = "live" /\ app = None => stale \/ \E r \in Requests : req[r].pc = "start"
  /\ \A r \in Started \ undone : app # None

CellOK == FilesAreTested /\ AppIsTested /\ AppIsShown

IInv == Typed /\ CellOK /\ (~raced => Unraced)
-----------------------------------------------------------------------------
(* What a step makes of its request *)

Moves(r, k) == k \in Request /\ req' = [req EXCEPT ![r] = k]

LEMMA MovesOnlyItsOwn ==
  ASSUME Typed, NEW r \in Requests, NEW k, Moves(r, k)
  PROVE  /\ req' \in [Requests -> Request] /\ req'[r] = k
         /\ \A s \in Requests \ {r} : req'[s] = req[s]
BY DEF Typed, Moves

LEMMA FreshFields ==
  ASSUME NEW pc \in {"idle", "done"}
  PROVE  /\ Fresh(pc) \in Request /\ Fresh(pc).pc = pc /\ Fresh(pc).todo = <<>>
         /\ Fresh(pc).asked = 0 /\ Fresh(pc).kind = "none"
BY DEF Fresh, Request, Steps

LEMMA EndMoves ==
  ASSUME NEW r \in Requests, req' = End(r)
  PROVE  Moves(r, Fresh("done"))
BY FreshFields DEF End, Moves

\* emit: the pass goes on as k, or ends when the browser is gone.
LEMMA EmitMoves ==
  ASSUME NEW r \in Requests, NEW k \in Request, req' = Emit(r, [req EXCEPT ![r] = k])
  PROVE  Moves(r, k) \/ Moves(r, Fresh("done"))
BY FreshFields DEF Emit, End, Moves

LEMMA GotoFields ==
  ASSUME Typed, NEW r \in Requests, NEW pc \in Steps
  PROVE  LET k == [req[r] EXCEPT !.pc = pc] IN
         /\ Goto(r, pc) = [req EXCEPT ![r] = k]
         /\ k \in Request /\ k.pc = pc
         /\ k.kind = req[r].kind /\ k.base = req[r].base /\ k.asked = req[r].asked
         /\ k.todo = req[r].todo
<1>1. req[r] \in Request
  BY DEF Typed
<1> DEFINE k == [req[r] EXCEPT !.pc = pc]
<1>2. /\ k \in Request /\ k.pc = pc
      /\ k.kind = req[r].kind /\ k.base = req[r].base /\ k.asked = req[r].asked
      /\ k.todo = req[r].todo
  BY <1>1 DEF Request
<1>3. Goto(r, pc) = [req EXCEPT ![r] = k]
  BY DEF Goto
<1> QED BY <1>2, <1>3

LEMMA ElementOf == ASSUME NEW T, NEW q \in Seq(T), NEW i \in 1..Len(q) PROVE q[i] \in T
OBVIOUS

LEMMA AppendIn ==
  ASSUME NEW T, NEW q \in Seq(T), NEW x \in T
  PROVE  Append(q, x) \in Seq(T) /\ <<x>> \in Seq(T)
OBVIOUS

LEMMA VersionIsNat == ASSUME Typed PROVE CurrentVersion \in Nat
<1>1. record.iterations \in Seq(Nat)
  BY DEF Typed, Record
<1>2. CASE record.iterations # <<>>
  <2>1. Len(record.iterations) \in 1..Len(record.iterations)
    BY <1>1, <1>2
  <2>2. Last(record.iterations) \in Nat
    BY <1>1, <2>1, ElementOf DEF Last
  <2> QED BY <1>2, <2>2 DEF CurrentVersion
<1> QED BY <1>2 DEF CurrentVersion

LEMMA NumberedVersion ==
  ASSUME Typed, Numbered PROVE CurrentVersion = Len(record.iterations)
<1>1. record.iterations \in Seq(Nat)
  BY DEF Typed, Record
<1>2. CASE record.iterations # <<>>
  <2>1. Len(record.iterations) \in 1..Len(record.iterations)
    BY <1>1, <1>2
  <2> QED BY <1>2, <2>1 DEF CurrentVersion, Last, Numbered
<1> QED BY <1>2 DEF CurrentVersion

\* A step of one request keeps what is said of the cell when its own part
\* holds after it: what is untested is its own doing or was somebody else's.
LEMMA CellStep ==
  ASSUME IInv, NEW r \in Requests, NEW k, Moves(r, k),
         files' # tested' => \/ broken' \/ Writing(k)
                             \/ ~broken /\ files # tested /\ ~Writing(req[r]),
         app' \notin {None, tested'} =>
            \/ broken' \/ Settling(k)
            \/ ~broken /\ (files # tested \/ app \notin {None, tested}) /\ ~Settling(req[r]),
         record'.up = "live" /\ app' = None =>
            \/ stale' \/ k.pc = "start"
            \/ record.up = "live" /\ app = None /\ ~stale /\ req[r].pc # "start",
         undone' \subseteq undone \cup Started,
         r \in undone' => k.pc = "live",
         k.pc = "live" /\ r \notin undone' => app' # None,
         \/ Started \ {r} \subseteq undone'
         \/ undone \ {r} \subseteq undone' /\ (app # None => app' # None)
  PROVE  CellOK'
<1>1. /\ req' \in [Requests -> Request] /\ req'[r] = k
      /\ \A s \in Requests \ {r} : req'[s] = req[s]
  BY MovesOnlyItsOwn DEF IInv
<1>2. CellOK
  BY DEF IInv
<1>3. FilesAreTested'
  <2>1. CASE ~broken /\ files # tested /\ ~Writing(req[r])
    <3>1. PICK s \in Requests : Writing(req[s])
      BY <1>2, <2>1 DEF CellOK, FilesAreTested
    <3>2. s # r /\ Writing(req'[s])
      BY <1>1, <2>1, <3>1
    <3> QED BY <3>2 DEF FilesAreTested, Writing
  <2> QED BY <1>1, <2>1 DEF FilesAreTested, Writing
<1>4. AppIsTested'
  <2>1. CASE ~broken /\ (files # tested \/ app \notin {None, tested}) /\ ~Settling(req[r])
    <3>1. PICK s \in Requests : Settling(req[s])
      BY <1>2, <2>1 DEF CellOK, FilesAreTested, AppIsTested, Settling
    <3>2. s # r /\ Settling(req'[s])
      BY <1>1, <2>1, <3>1
    <3> QED BY <3>2 DEF AppIsTested, Settling, Writing
  <2> QED BY <1>1, <2>1 DEF AppIsTested, Settling, Writing
<1>5. AppIsShown'
  <2>1. undone' \subseteq Started'
    BY <1>1, <1>2 DEF CellOK, AppIsShown, Started
  <2>2. ASSUME record'.up = "live", app' = None, ~stale'
        PROVE  \E s \in Requests : req'[s].pc = "start"
    <3>1. CASE k.pc = "start"
      BY <1>1, <3>1
    <3>2. CASE record.up = "live" /\ app = None /\ ~stale /\ req[r].pc # "start"
      <4>1. PICK s \in Requests : req[s].pc = "start"
        BY <1>2, <3>2 DEF CellOK, AppIsShown
      <4>2. req'[s] = req[s]
        BY <1>1, <3>2, <4>1
      <4> QED BY <4>1, <4>2
    <3> QED BY <2>2, <3>1, <3>2
  <2>3. ASSUME NEW s \in Started', s \notin undone' PROVE app' # None
    <3>1. CASE s = r
      BY <1>1, <2>3, <3>1 DEF Started
    <3>2. CASE s # r
      <4>1. s \in Started
        BY <1>1, <3>2 DEF Started
      <4>2. s \notin undone /\ (app # None => app' # None)
        BY <2>3, <3>2, <4>1
      <4> QED BY <1>2, <4>1, <4>2 DEF CellOK, AppIsShown
    <3> QED BY <3>1, <3>2
  <2> QED BY <2>1, <2>2, <2>3 DEF AppIsShown
<1> QED BY <1>3, <1>4, <1>5 DEF CellOK

\* With one request under way, a step of it keeps the numbering when its own
\* part holds after it.
LEMMA StepAlone ==
  ASSUME IInv, NEW r \in Requests, req[r].pc \notin {"idle", "done"}, NEW k, Moves(r, k),
         files' \in Cell, app' \in Cell \cup {None}, tested' \in Cell, record' \in Record,
         broken' \in BOOLEAN, stale' \in BOOLEAN, raced' = raced, CellOK',
         k.pc \in {"idle", "read", "snapshot"} => k.asked = 0,
         k.pc = "ask" => k.asked \in 0..1,
         k.pc = "write" => k.todo # <<>>,
         k.pc \in Early => k.kind # "start",
         ~raced /\ Unraced =>
            Numbered' /\ (k.pc \in Early => k.base = CurrentVersion')
  PROVE  IInv'
<1>1. /\ req' \in [Requests -> Request] /\ req'[r] = k
      /\ \A s \in Requests \ {r} : req'[s] = req[s]
  BY MovesOnlyItsOwn DEF IInv
<1>2. Typed'
  BY <1>1 DEF IInv, Typed
<1>3. ASSUME ~raced PROVE Unraced'
  <2>1. Unraced /\ r \notin Ended
    BY <1>3 DEF IInv, Ended
  <2>2. \A s \in Requests \ {r} : req[s].pc \in {"idle", "done"}
    BY <2>1 DEF Unraced, Ended
  <2>3. \A s \in Requests \ {r} : req'[s].pc \in {"idle", "done"}
    BY <1>1, <2>2
  <2>4. \A s, t \in (Requests \ Ended)' : s = t
    BY <2>3 DEF Ended
  <2>5. \A s \in Requests : req'[s].pc \in Early => req'[s].base = CurrentVersion'
    BY <1>1, <1>3, <2>1, <2>3 DEF Early
  <2> QED BY <1>3, <2>1, <2>4, <2>5 DEF Unraced
<1> QED BY <1>2, <1>3 DEF IInv

-----------------------------------------------------------------------------
(* The actions *)

LEMMA InitIInv == Init => IInv
<1> SUFFICES ASSUME Init PROVE IInv
  OBVIOUS
<1>1. \A r \in Requests : req[r] = Fresh("idle")
  BY DEF Init
<1>2. req \in [Requests -> Request]
  BY FreshFields DEF Init
<1>3. record \in Record
  BY DEF Init, Record
<1>4. NoFiles \in Cell
  BY DEF NoFiles, Cell
<1>5. Typed
  BY <1>1, <1>2, <1>3, <1>4, FreshFields DEF Typed, Init
<1>6. CellOK
  BY <1>1, FreshFields DEF CellOK, FilesAreTested, AppIsTested, AppIsShown, Started, Init
<1>7. Unraced
  BY <1>1, FreshFields DEF Unraced, Numbered, Ended, Early, Init
<1> QED BY <1>5, <1>6, <1>7 DEF IInv

LEMMA BeginIInv ==
  ASSUME IInv, NEW r \in Requests, NEW kind \in {"build", "improve", "start"}, Begin(r, kind)
  PROVE  IInv'
<1>1. /\ req[r].pc = "idle" /\ req[r] \in Request /\ req[r].asked = 0 /\ Typed
      /\ UNCHANGED <<files, app, tested, broken, record, undone, stale>>
      /\ undone \subseteq Started /\ r \notin Started
  BY DEF Begin, IInv, Typed, cell, shown, CellOK, AppIsShown, Started
<1>2. CASE kind \in {"improve", "start"} /\ CurrentVersion = 0
  <2>1. Moves(r, Fresh("done")) /\ raced' = raced
    BY <1>2, EndMoves DEF Begin
  <2>2. /\ req' \in [Requests -> Request] /\ req'[r] = Fresh("done") /\ req'[r].pc = "done"
        /\ \A s \in Requests \ {r} : req'[s] = req[s]
    BY <1>1, <2>1, MovesOnlyItsOwn, FreshFields
  <2>3. Typed'
    BY <1>1, <2>1, <2>2 DEF Typed, Early
  <2>4. CellOK'
    <3>1. Fresh("done").pc = "done"
      BY FreshFields
    <3> QED BY <1>1, <2>1, <3>1, CellStep DEF Writing, Settling, Started
  <2>5. Unraced => Unraced'
    <3>1. Ended' = Ended
      BY <1>1, <2>2 DEF Ended
    <3> QED BY <1>1, <2>2, <3>1 DEF Unraced, Numbered, Early, CurrentVersion
  <2> QED BY <2>1, <2>3, <2>4, <2>5 DEF IInv
<1>3. CASE ~(kind \in {"improve", "start"} /\ CurrentVersion = 0)
  <2> DEFINE pc == CASE kind = "build" -> "ask" [] kind = "improve" -> "read" [] OTHER -> "stop"
             k == [req[r] EXCEPT !.kind = kind, !.base = CurrentVersion, !.pc = pc]
  <2>1. /\ pc \in {"ask", "read", "stop"} /\ pc \in Steps
        /\ pc = "stop" <=> kind = "start"
    BY DEF Steps
  <2>2. req' = [req EXCEPT ![r] = k] /\ raced' = (raced \/ Ended # Requests)
    BY <1>3 DEF Begin
  <2> HIDE DEF pc
  <2>3. k \in Request /\ k.pc = pc /\ k.kind = kind /\ k.base = CurrentVersion /\ k.asked = 0
    BY <1>1, <2>1, VersionIsNat DEF Request
  <2> HIDE DEF k
  <2>4. /\ Moves(r, k) /\ req' \in [Requests -> Request] /\ req'[r] = k
        /\ \A s \in Requests \ {r} : req'[s] = req[s]
    BY <1>1, <2>2, <2>3, MovesOnlyItsOwn DEF Moves
  <2>5. Typed'
    BY <1>1, <2>1, <2>2, <2>3, <2>4 DEF Typed, Early
  <2>6. CellOK'
    BY <1>1, <2>1, <2>3, <2>4, CellStep DEF Writing, Settling
  <2>7. ASSUME ~raced' PROVE Unraced'
    <3>1. Unraced /\ Ended = Requests
      BY <2>2, <2>7 DEF IInv, Typed
    <3>2. \A s \in Requests \ {r} : req'[s].pc \in {"idle", "done"}
      BY <2>4, <3>1 DEF Ended
    <3>3. \A s, t \in (Requests \ Ended)' : s = t
      BY <3>2 DEF Ended
    <3>4. \A s \in Requests : req'[s].pc \in Early => req'[s].base = CurrentVersion'
      BY <1>1, <2>3, <2>4, <3>2 DEF Early, CurrentVersion
    <3> QED BY <1>1, <3>1, <3>3, <3>4 DEF Unraced, Numbered
  <2> QED BY <2>5, <2>6, <2>7 DEF IInv
<1> QED BY <1>2, <1>3

\* Steps before the first file: they touch nothing but their request.
LEMMA StepWithin ==
  ASSUME IInv, NEW r \in Requests, req[r].pc \in {"read", "snapshot", "ask"}, NEW k, Moves(r, k),
         UNCHANGED <<files, app, tested, broken, record, undone, stale, raced>>,
         k.pc \in {"snapshot", "ask", "write", "done"},
         k.pc \in {"idle", "read", "snapshot"} => k.asked = 0,
         k.pc = "ask" => k.asked \in 0..1,
         k.pc = "write" => k.todo # <<>>,
         k.pc # "done" => k.base = req[r].base /\ k.kind = req[r].kind
  PROVE  IInv'
<1>1. req[r].pc \notin {"idle", "done"} /\ undone \subseteq Started /\ r \notin Started
  BY DEF IInv, CellOK, AppIsShown, Started
<1>2. CellOK'
  BY <1>1, CellStep DEF Writing, Settling
<1>3. ~raced /\ Unraced => Numbered' /\ (k.pc \in Early => k.base = CurrentVersion')
  BY DEF Unraced, Numbered, CurrentVersion, Early
<1>4. files' \in Cell /\ app' \in Cell \cup {None} /\ tested' \in Cell /\ record' \in Record
      /\ broken' \in BOOLEAN /\ stale' \in BOOLEAN
  BY DEF IInv, Typed
<1>5. k.pc \in Early => k.kind # "start"
  BY DEF IInv, Typed, Early
<1> QED BY <1>1, <1>2, <1>3, <1>4, <1>5, StepAlone

LEMMA ReadIInv ==
  ASSUME IInv, NEW r \in Requests, ReadCurrentAppFiles(r) \/ SnapshotCell(r)
  PROVE  IInv'
<1>1. /\ req[r].pc \in {"read", "snapshot"} /\ req[r].asked = 0 /\ Typed
      /\ UNCHANGED <<files, app, tested, broken, record, undone, stale, raced>>
  BY DEF ReadCurrentAppFiles, SnapshotCell, IInv, Typed, cell, shown
<1>2. PICK pc \in {"snapshot", "ask"} : req' = End(r) \/ req' = Emit(r, Goto(r, pc))
  BY DEF ReadCurrentAppFiles, SnapshotCell
<1> DEFINE k == [req[r] EXCEPT !.pc = pc]
<1>0. pc \in Steps
  BY DEF Steps
<1>3. Goto(r, pc) = [req EXCEPT ![r] = k] /\ k \in Request /\ k.pc = pc /\ k.base = req[r].base
      /\ k.asked = 0 /\ k.kind = req[r].kind
  BY <1>0, <1>1, GotoFields
<1> HIDE DEF k
<1>4. Moves(r, k) \/ Moves(r, Fresh("done"))
  BY <1>2, <1>3, EmitMoves, EndMoves
<1>5. CASE Moves(r, k)
  BY <1>1, <1>3, <1>5, StepWithin
<1>6. CASE Moves(r, Fresh("done"))
  BY <1>1, <1>6, FreshFields, StepWithin
<1> QED BY <1>4, <1>5, <1>6

\* An app that is accepted has at least one file, and only safe paths.
LEMMA AcceptedPaths ==
  ASSUME NEW response \in Responses, IsUsable(response)
  PROVE  response.payload.paths \in Seq(SafePaths) /\ response.payload.paths # <<>>
<1> DEFINE paths == response.payload.paths
<1>1. paths \in Seq(Range(paths)) /\ Range(paths) \subseteq SafePaths /\ Len(paths) \in 1..MaxFiles
  BY LocalBuilderAssumption DEF IsUsable, IsBuilderApp
<1> HIDE DEF paths
<1>2. paths \in Seq(SafePaths)
  BY <1>1
<1>3. paths # <<>>
  BY <1>1, LocalBuilderAssumption
<1> QED BY <1>2, <1>3 DEF paths

LEMMA AskIInv ==
  ASSUME IInv, NEW r \in Requests, RequestAppViaTool(r)
  PROVE  IInv'
<1>1. /\ req[r].pc = "ask" /\ req[r].asked \in 0..1 /\ Typed /\ req[r] \in Request
      /\ UNCHANGED <<files, app, tested, broken, record, undone, stale, raced>>
  BY DEF RequestAppViaTool, IInv, Typed, cell, shown
<1>2. PICK response \in Responses : req' = AfterResponse(r, response)
  BY DEF RequestAppViaTool
<1>3. CASE IsUsable(response)
  <2> DEFINE paths == response.payload.paths
             k == [req[r] EXCEPT !.pc = "write", !.todo = paths, !.asked = @ + 1]
  <2>1. paths \in Seq(SafePaths) /\ paths # <<>>
    BY <1>3, AcceptedPaths
  <2>2. [Goto(r, "write") EXCEPT ![r].todo = paths, ![r].asked = @ + 1] = [req EXCEPT ![r] = k]
    BY <1>1 DEF Goto, Typed, Request
  <2> HIDE DEF paths
  <2>3. k \in Request /\ k.pc = "write" /\ k.todo = paths /\ k.base = req[r].base /\ k.kind = req[r].kind
    <3>1. "write" \in Steps /\ req[r].asked + 1 \in 0..2
      BY <1>1 DEF Steps
    <3> QED BY <1>1, <2>1, <3>1 DEF Request
  <2> HIDE DEF k
  <2>4. req' = Emit(r, [req EXCEPT ![r] = k])
    BY <1>2, <1>3, <2>2 DEF AfterResponse, paths
  <2>5. CASE Moves(r, k)
    BY <1>1, <2>1, <2>3, <2>5, StepWithin
  <2>6. CASE Moves(r, Fresh("done"))
    BY <1>1, <2>6, FreshFields, StepWithin
  <2> QED BY <2>3, <2>4, <2>5, <2>6, EmitMoves
<1>4. CASE ~IsUsable(response) /\ req[r].asked = 0
  <2> DEFINE k == [req[r] EXCEPT !.asked = 1]
  <2>1. k \in Request /\ k.pc = "ask" /\ k.asked = 1 /\ k.base = req[r].base /\ k.kind = req[r].kind
    BY <1>1 DEF Request
  <2>2. req' = [req EXCEPT ![r] = k]
    BY <1>2, <1>4 DEF AfterResponse
  <2> HIDE DEF k
  <2>3. Moves(r, k)
    BY <2>1, <2>2 DEF Moves
  <2> QED BY <1>1, <2>1, <2>3, StepWithin
<1>5. CASE ~IsUsable(response) /\ req[r].asked # 0
  <2>1. Moves(r, Fresh("done"))
    BY <1>2, <1>5, EndMoves DEF AfterResponse
  <2> QED BY <1>1, <2>1, FreshFields, StepWithin
<1> QED BY <1>3, <1>4, <1>5

\* Whatever becomes of the file: the pass is writing, or broken off.
LEMMA WriteIInv ==
  ASSUME IInv, NEW r \in Requests, WriteFile(r)
  PROVE  IInv'
<1>1. /\ req[r].pc = "write" /\ Typed /\ req[r] \in Request
      /\ req[r].todo \in Seq(SafePaths) /\ req[r].todo # <<>>
      /\ UNCHANGED <<app, tested, record, undone, stale, raced>>
      /\ broken' = (broken \/ ~req[r].here)
      /\ files' = [files EXCEPT ![Head(req[r].todo)] = r]
      /\ undone \subseteq Started /\ r \notin Started
  BY DEF WriteFile, IInv, Typed, Request, shown, CellOK, AppIsShown, Started
<1> DEFINE rest == Tail(req[r].todo)
           pc == IF rest = <<>> THEN "verify" ELSE "write"
           k == [req[r] EXCEPT !.pc = pc, !.todo = rest]
<1>2. rest \in Seq(SafePaths) /\ pc \in {"verify", "write"} /\ (pc = "write" => rest # <<>>)
      /\ pc \in Steps
  BY <1>1 DEF Steps
<1>3. [Goto(r, pc) EXCEPT ![r].todo = rest] = [req EXCEPT ![r] = k]
  BY <1>1 DEF Goto, Typed, Request
<1>4. req' = Emit(r, [req EXCEPT ![r] = k])
  BY <1>3 DEF WriteFile
<1> HIDE DEF rest, pc
<1>5. k \in Request /\ k.pc = pc /\ k.todo = rest /\ k.base = req[r].base /\ k.kind = req[r].kind
  BY <1>1, <1>2 DEF Request
<1> HIDE DEF k
<1>6. PICK q \in {k, Fresh("done")} : Moves(r, q) /\ (q = k \/ broken')
  BY <1>1, <1>4, <1>5, FreshFields DEF Emit, End, Moves
<1>7. /\ q.pc \in {"verify", "write", "done"} /\ (q.pc = "write" => q.todo # <<>>)
      /\ q.pc # "done" => q.base = req[r].base /\ q.kind = req[r].kind
      /\ broken' \/ Writing(q)
  BY <1>2, <1>5, <1>6, FreshFields DEF Writing
<1>8. files' \in Cell
  BY <1>1 DEF Typed, Cell
<1>9. CellOK'
  BY <1>1, <1>6, <1>7, CellStep DEF Writing, Settling
<1>10. ~raced /\ Unraced => Numbered' /\ (q.pc \in Early => q.base = CurrentVersion')
  BY <1>1, <1>7 DEF Unraced, Numbered, CurrentVersion, Early
<1>11. /\ app' \in Cell \cup {None} /\ tested' \in Cell /\ record' \in Record
       /\ broken' \in BOOLEAN /\ stale' \in BOOLEAN
  BY <1>1 DEF Typed, Request
<1>12. req[r].kind # "start"
  BY <1>1 DEF Typed, Early
<1> QED BY <1>1, <1>6, <1>7, <1>8, <1>9, <1>10, <1>11, <1>12, StepAlone DEF Early

\* The files are the tested ones now, whoever wrote them; alone, the
\* iteration gets the next version.
LEMMA VerifyIInv ==
  ASSUME IInv, NEW r \in Requests, Verify(r)
  PROVE  IInv'
<1>1. /\ req[r].pc = "verify" /\ Typed /\ req[r] \in Request /\ req[r].base \in Nat
      /\ UNCHANGED <<files, app, undone, stale, raced>> /\ tested' = files
      /\ broken' = (broken \/ ~req[r].here)
      /\ record' = [record EXCEPT !.iterations = Timeline(r)]
      /\ record \in Record /\ record.iterations \in Seq(Nat)
      /\ undone \subseteq Started /\ r \notin Started
  BY DEF Verify, IInv, Typed, Request, Record, CellOK, AppIsShown, Started
<1> DEFINE v == Iteration(r)
           its == Timeline(r)
<1>2. v \in Nat /\ v = IF req[r].kind = "build" THEN 1 ELSE req[r].base + 1
  BY <1>1 DEF Iteration
<1>3. its = IF req[r].kind = "build" THEN <<v>> ELSE Append(record.iterations, v)
  BY DEF Timeline
<1> HIDE DEF v, its
<1>4. its \in Seq(Nat)
  BY <1>1, <1>2, <1>3, AppendIn
<1>5. record' \in Record /\ record'.iterations = its /\ record'.up = record.up
  BY <1>1, <1>4 DEF Record, its
<1> DEFINE k == [req[r] EXCEPT !.pc = "stop"]
<1>6. k \in Request /\ k.pc = "stop" /\ k.kind = req[r].kind
  BY <1>1 DEF Request, Steps
<1>7. req' = Emit(r, [req EXCEPT ![r] = k])
  BY DEF Verify, Goto
<1> HIDE DEF k
<1>8. PICK q \in {k, Fresh("done")} : Moves(r, q) /\ (q = k \/ broken')
  BY <1>1, <1>6, <1>7, FreshFields DEF Emit, End, Moves
<1>9. q.pc \in {"stop", "done"} /\ (q = k => q.pc = "stop" /\ q.kind = req[r].kind)
  BY <1>6, <1>8, FreshFields
<1>10. CellOK'
  <2>1. broken' \/ Settling(q) \/ req[r].kind = "start"
    BY <1>8, <1>9 DEF Settling
  <2>2. req[r].kind # "start"
    BY <1>1 DEF Typed, Early
  <2> QED BY <1>1, <1>5, <1>8, <1>9, <2>1, <2>2, CellStep DEF Writing, Settling
<1>11. ~raced /\ Unraced => Numbered'
  <2> SUFFICES ASSUME ~raced, Unraced PROVE Numbered'
    OBVIOUS
  <2>1. req[r].base = Len(record.iterations)
    BY <1>1, NumberedVersion DEF Unraced, Early
  <2>2. CASE req[r].kind = "build"
    BY <1>2, <1>3, <1>5, <2>2 DEF Numbered
  <2>3. CASE req[r].kind # "build"
    <3>1. its = Append(record.iterations, v) /\ v = Len(record.iterations) + 1
      BY <1>2, <1>3, <2>1, <2>3
    <3>2. \A j \in 1..Len(record.iterations) : record.iterations[j] = j
      BY DEF Unraced, Numbered
    <3>3. \A j \in 1..Len(its) : its[j] = j
      BY <1>1, <3>1, <3>2
    <3> QED BY <1>5, <3>3 DEF Numbered
  <2> QED BY <2>2, <2>3
<1>12. /\ files' \in Cell /\ app' \in Cell \cup {None} /\ tested' \in Cell
       /\ broken' \in BOOLEAN /\ stale' \in BOOLEAN
  BY <1>1 DEF Typed, Request
<1> QED BY <1>1, <1>5, <1>8, <1>9, <1>10, <1>11, <1>12, StepAlone DEF Early

-----------------------------------------------------------------------------
(* The restart *)

LEMMA StopIInv ==
  ASSUME IInv, NEW r \in Requests, StopService(r)
  PROVE  IInv'
<1>1. /\ req[r].pc = "stop" /\ Typed /\ app' = None /\ broken' = (broken /\ files # tested)
      /\ req' = Goto(r, "start") /\ UNCHANGED <<files, tested, record, stale, raced>>
      /\ undone' = undone \cup Started /\ undone \subseteq Started /\ r \notin Started
  BY DEF StopService, IInv, Typed, CellOK, AppIsShown, Started
<1> DEFINE k == [req[r] EXCEPT !.pc = "start"]
<1>2. Moves(r, k) /\ k.pc = "start"
  BY <1>1, GotoFields DEF Moves, Steps
<1> HIDE DEF k
<1>3. broken' \in BOOLEAN /\ files' \in Cell /\ app' \in Cell \cup {None} /\ tested' \in Cell
      /\ record' \in Record /\ stale' \in BOOLEAN
  BY <1>1 DEF Typed
<1>4. CellOK'
  BY <1>1, <1>2, CellStep DEF Writing
<1>5. Unraced => Numbered'
  BY <1>1 DEF Unraced, Numbered
<1> QED BY <1>1, <1>2, <1>3, <1>4, <1>5, StepAlone DEF Early

\* A start that fails, or whose app does not stay up, is told as an error.
LEMMA GivesUpStep ==
  ASSUME IInv, NEW r \in Requests, req[r].pc = "start",
         app' \in {app, files}, UNCHANGED <<files, tested, broken, undone, raced>>,
         record' = [record EXCEPT !.up = "error"], stale' = FALSE, req' = Emit(r, End(r))
  PROVE  IInv'
<1>1. /\ Typed /\ record \in Record /\ files \in Cell /\ undone \subseteq Started /\ r \notin Started
  BY DEF IInv, Typed, CellOK, AppIsShown, Started
<1>2. Moves(r, Fresh("done")) /\ Fresh("done").pc = "done"
  BY EndMoves, FreshFields DEF Emit
<1>3. record' \in Record /\ record'.iterations = record.iterations /\ record'.up = "error"
  BY <1>1 DEF Record
<1>4. files # None
  BY <1>1, LocalBuilderAssumption DEF Cell
<1>5. CellOK'
  BY <1>1, <1>2, <1>3, <1>4, CellStep DEF Writing, Settling
<1>6. /\ files' \in Cell /\ app' \in Cell \cup {None} /\ tested' \in Cell
      /\ broken' \in BOOLEAN /\ stale' \in BOOLEAN
  BY <1>1 DEF Typed
<1>7. Unraced => Numbered'
  BY <1>3 DEF Unraced, Numbered
<1> QED BY <1>2, <1>3, <1>5, <1>6, <1>7, StepAlone DEF Early

LEMMA StartIInv ==
  ASSUME IInv, NEW r \in Requests, StartService(r)
  PROVE  IInv'
<1>1. /\ req[r].pc = "start" /\ Typed /\ UNCHANGED <<files, tested, broken, undone, raced>>
      /\ record \in Record /\ files \in Cell /\ undone \subseteq Started /\ r \notin Started
  BY DEF StartService, IInv, Typed, CellOK, AppIsShown, Started
<1>2. files # None
  BY <1>1, LocalBuilderAssumption DEF Cell
<1>3. CASE app' = files /\ req' = Goto(r, "live") /\ UNCHANGED <<record, stale>>
  <2> DEFINE k == [req[r] EXCEPT !.pc = "live"]
  <2>1. Moves(r, k) /\ k.pc = "live"
    BY <1>1, <1>3, GotoFields DEF Moves, Steps
  <2> HIDE DEF k
  <2>2. CellOK'
    BY <1>1, <1>2, <1>3, <2>1, CellStep DEF Writing, Settling
  <2>3. /\ files' \in Cell /\ app' \in Cell \cup {None} /\ tested' \in Cell
        /\ record' \in Record /\ broken' \in BOOLEAN /\ stale' \in BOOLEAN
    BY <1>1, <1>3 DEF Typed
  <2>4. Unraced => Numbered'
    BY <1>3 DEF Unraced, Numbered
  <2> QED BY <1>1, <2>1, <2>2, <2>3, <2>4, StepAlone DEF Early
<1>4. CASE /\ UNCHANGED app /\ record' = [record EXCEPT !.up = "error"] /\ stale' = FALSE
           /\ req' = Emit(r, End(r))
  <2>1. app' \in {app, files} /\ record' = [record EXCEPT !.up = "error"] /\ stale' = FALSE
        /\ req' = Emit(r, End(r))
    BY <1>4
  <2> QED BY <1>1, <2>1, GivesUpStep
<1> QED BY <1>3, <1>4 DEF StartService

LEMMA LiveIInv ==
  ASSUME IInv, NEW r \in Requests, RecordLive(r)
  PROVE  IInv'
<1>1. /\ req[r].pc = "live" /\ Typed /\ UNCHANGED <<files, app, tested, broken, raced>>
      /\ record' = [record EXCEPT !.up = "live"] /\ req' = Emit(r, End(r))
      /\ stale' = (r \in undone) /\ undone' = undone \ {r}
      /\ record \in Record /\ undone \subseteq Started /\ r \in Started
      /\ r \notin undone => app # None
  BY DEF RecordLive, IInv, Typed, CellOK, AppIsShown, Started, cell
<1>2. Moves(r, Fresh("done")) /\ Fresh("done").pc = "done"
  BY <1>1, EndMoves, FreshFields DEF Emit
<1>3. record' \in Record /\ record'.iterations = record.iterations
  BY <1>1 DEF Record
<1>4. CellOK'
  BY <1>1, <1>2, CellStep DEF Writing, Settling
<1>5. /\ files' \in Cell /\ app' \in Cell \cup {None} /\ tested' \in Cell
      /\ broken' \in BOOLEAN /\ stale' \in BOOLEAN
  BY <1>1 DEF Typed
<1>6. Unraced => Numbered'
  BY <1>3 DEF Unraced, Numbered
<1> QED BY <1>1, <1>2, <1>3, <1>4, <1>5, <1>6, StepAlone DEF Early

LEMMA RestartFailsIInv ==
  ASSUME IInv, NEW r \in Requests, RestartFails(r)
  PROVE  IInv'
<1>1. /\ Typed /\ UNCHANGED <<files, tested, raced>>
      /\ record' = [record EXCEPT !.up = "error"] /\ stale' = FALSE
      /\ req' = Emit(r, End(r))
  BY DEF RestartFails, IInv
<1>2. CASE /\ req[r].pc = "stop"
           /\ \/ app' = None /\ undone' = undone \cup Started
              \/ UNCHANGED <<app, undone>>
           /\ broken' = (broken \/ req[r].kind # "start")
  <2>1. undone \subseteq Started /\ r \notin Started
    BY <1>2 DEF IInv, CellOK, AppIsShown, Started
  <2>2. Moves(r, Fresh("done")) /\ Fresh("done").pc = "done"
    BY <1>1, EndMoves, FreshFields DEF Emit
  <2>3. record' \in Record /\ record'.iterations = record.iterations /\ record'.up = "error"
    BY <1>1 DEF Record, Typed
  <2>4. CellOK'
    BY <1>1, <1>2, <2>1, <2>2, <2>3, CellStep DEF Writing, Settling
  <2>5. /\ files' \in Cell /\ app' \in Cell \cup {None} /\ tested' \in Cell
        /\ broken' \in BOOLEAN /\ stale' \in BOOLEAN
    BY <1>1, <1>2 DEF Typed
  <2>6. Unraced => Numbered'
    BY <2>3 DEF Unraced, Numbered
  <2> QED BY <1>1, <1>2, <2>2, <2>3, <2>4, <2>5, <2>6, StepAlone DEF Early
<1>3. CASE req[r].pc = "start" /\ app' \in {app, files} /\ UNCHANGED <<broken, undone>>
  BY <1>1, <1>3, GivesUpStep
<1> QED BY <1>2, <1>3 DEF RestartFails

-----------------------------------------------------------------------------
(* Failures before the restart, and leaving *)

LEMMA CallFailsIInv ==
  ASSUME IInv, NEW r \in Requests, CallFails(r)
  PROVE  IInv'
<1>1. /\ req[r].pc \in Early /\ req[r].pc \notin {"idle", "done", "start", "live"}
      /\ Typed /\ UNCHANGED <<app, tested, record, undone, stale, raced>>
      /\ files' \in {files} \cup
            IF req[r].pc = "write" THEN {[files EXCEPT ![Head(req[r].todo)] = r]} ELSE {}
      /\ broken' = (broken \/ req[r].pc \in {"write", "verify"}) /\ req' = End(r)
      /\ req[r] \in Request /\ files \in Cell /\ broken \in BOOLEAN
      /\ undone \subseteq Started /\ r \notin Started
  BY DEF CallFails, IInv, Typed, Early, shown, CellOK, AppIsShown, Started
<1>2. Moves(r, Fresh("done")) /\ Fresh("done").pc = "done"
  BY <1>1, EndMoves, FreshFields
<1>3. files' \in Cell /\ broken' \in BOOLEAN /\ (files' # files => req[r].pc = "write")
  <2>1. CASE files' = files
    BY <1>1, <2>1
  <2>2. CASE files' # files
    <3>1. req[r].pc = "write" /\ files' = [files EXCEPT ![Head(req[r].todo)] = r]
      BY <1>1, <2>2
    <3> QED BY <1>1, <3>1 DEF Cell
  <2> QED BY <2>1, <2>2
<1>4. CellOK'
  BY <1>1, <1>2, <1>3, CellStep DEF Writing, Settling, Early
<1>5. Unraced => Numbered'
  BY <1>1 DEF Unraced, Numbered
<1>6. app' \in Cell \cup {None} /\ tested' \in Cell /\ record' \in Record /\ stale' \in BOOLEAN
  BY <1>1 DEF Typed
<1> QED BY <1>1, <1>2, <1>3, <1>4, <1>5, <1>6, StepAlone DEF Early

LEMMA LeaveIInv ==
  ASSUME IInv, NEW r \in Requests, Leave(r)
  PROVE  IInv'
<1>1. /\ Typed /\ req[r] \in Request
      /\ UNCHANGED <<files, app, tested, broken, record, undone, stale, raced>>
      /\ req[r].pc \notin {"idle", "done"} /\ req' = [req EXCEPT ![r].here = FALSE]
  BY DEF Leave, IInv, Typed, cell, shown
<1> DEFINE k == [req[r] EXCEPT !.here = FALSE]
<1>2. k \in Request /\ k.pc = req[r].pc /\ k.kind = req[r].kind /\ k.base = req[r].base
      /\ k.asked = req[r].asked /\ k.todo = req[r].todo
  BY <1>1 DEF Request
<1>3. req' = [req EXCEPT ![r] = k]
  BY <1>1
<1> HIDE DEF k
<1>4. Moves(r, k)
  BY <1>2, <1>3 DEF Moves
<1>5. CellOK'
  <2>1. FilesAreTested /\ AppIsTested /\ AppIsShown
    BY DEF IInv, CellOK
  <2>2. Writing(k) = Writing(req[r]) /\ Settling(k) = Settling(req[r])
    BY <1>2 DEF Writing, Settling
  <2>3. files # tested => broken \/ Writing(k) \/ (~broken /\ ~Writing(req[r]))
    BY <1>1, <2>2 DEF Writing, Typed
  <2>4. app \notin {None, tested} => broken \/ Settling(k) \/ (~broken /\ ~Settling(req[r]))
    BY <1>1, <2>2 DEF Settling, Writing, Typed
  <2>5. /\ undone \subseteq Started
        /\ r \in undone => k.pc = "live"
        /\ k.pc = "live" /\ r \notin undone => app # None
    BY <1>2, <2>1 DEF AppIsShown, Started
  <2>6. record.up = "live" /\ app = None => stale \/ k.pc = "start" \/ (~stale /\ req[r].pc # "start")
    BY <1>1, <1>2 DEF Typed
  <2> QED BY <1>1, <1>4, <2>3, <2>4, <2>5, <2>6, CellStep
<1>6. ~raced /\ Unraced => Numbered' /\ (k.pc \in Early => k.base = CurrentVersion')
  BY <1>1, <1>2 DEF Unraced, Numbered, CurrentVersion
<1>7. /\ files' \in Cell /\ app' \in Cell \cup {None} /\ tested' \in Cell
      /\ record' \in Record /\ broken' \in BOOLEAN /\ stale' \in BOOLEAN
      /\ req[r].pc \in {"idle", "read", "snapshot"} => req[r].asked = 0
      /\ req[r].pc = "ask" => req[r].asked \in 0..1
      /\ req[r].pc = "write" => req[r].todo # <<>>
      /\ req[r].pc \in Early => req[r].kind # "start"
  BY <1>1 DEF Typed
<1> QED BY <1>1, <1>2, <1>4, <1>5, <1>6, <1>7, StepAlone

-----------------------------------------------------------------------------
(* The theorems *)

LEMMA NextIInv == IInv /\ [Next]_vars => IInv'
<1> SUFFICES ASSUME IInv, [Next]_vars PROVE IInv'
  OBVIOUS
<1>1. ASSUME NEW r \in Requests, RequestNext(r) PROVE IInv'
  BY <1>1, BeginIInv, ReadIInv, AskIInv, WriteIInv, VerifyIInv, StopIInv, StartIInv, LiveIInv,
     RestartFailsIInv, CallFailsIInv, LeaveIInv DEF RequestNext
<1>2. CASE UNCHANGED vars
  <2>1. UNCHANGED <<files, app, tested, broken, record, undone, stale, req, raced>>
    BY <1>2 DEF vars, cell, shown
  <2>2. CellOK'
    BY <2>1 DEF IInv, CellOK, FilesAreTested, AppIsTested, AppIsShown, Started
  <2>3. Typed' /\ (~raced => Unraced)'
    BY <2>1 DEF IInv, Typed, Unraced, Numbered, Ended, CurrentVersion
  <2> QED BY <2>2, <2>3 DEF IInv
<1> QED BY <1>1, <1>2 DEF Next

\* The inductive invariant holds in every reachable state.
THEOREM Invariance == Spec => []IInv
BY InitIInv, NextIInv, PTL DEF Spec

\* A pass asks the model at most twice, writes safe paths of an accepted app
\* only, and versions go up from 1, one by one, while requests do not overlap.
THEOREM TypeCorrect == Spec => []TypeOK
<1>1. IInv => TypeOK
  <2> SUFFICES ASSUME IInv PROVE TypeOK
    OBVIOUS
  <2>1. ~raced => \A i \in 1..Len(record.iterations) : record.iterations[i] = i
    BY DEF IInv, Unraced, Numbered
  <2>2. ASSUME NEW r \in Requests
        PROVE  /\ req[r].pc \in Steps /\ req[r].here \in BOOLEAN /\ req[r].asked \in 0..2
               /\ req[r].pc = "write" => req[r].todo # <<>> /\ Range(req[r].todo) \subseteq SafePaths
    <3>1. req[r] \in Request
      BY DEF IInv, Typed
    <3>2. req[r].todo \in Seq(SafePaths)
      BY <3>1 DEF Request
    <3>3. Range(req[r].todo) \subseteq SafePaths
      BY <3>2 DEF Range
    <3> QED BY <3>1, <3>3 DEF IInv, Typed, Request
  <2>3. record.up \in {"unknown", "live", "error"} /\ record.iterations \in Seq(Nat)
    BY DEF IInv, Typed, Record
  <2>4. undone \subseteq Started
    BY DEF IInv, CellOK, AppIsShown
  <2> QED BY <2>1, <2>2, <2>3, <2>4 DEF TypeOK, IInv, Typed, Cell
<1> QED BY <1>1, Invariance, PTL

\* However requests overlap and fail: an idea at rest that is shown as live
\* has a running app, made of the files that were last tested, but for an app
\* that another request stopped before it was recorded, and a pass that broke
\* off between its first file and its restart.
THEOREM RecordIsTrue == Spec => []RecordMatchesCell
<1>1. IInv => RecordMatchesCell
  BY DEF IInv, CellOK, AppIsTested, AppIsShown, Settling, Writing, RecordMatchesCell, Ended
<1> QED BY <1>1, Invariance, PTL
=============================================================================
