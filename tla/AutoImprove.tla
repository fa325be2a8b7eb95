---------------------------- MODULE AutoImprove -----------------------------
(***************************************************************************)
(* Improvement without a browser (src/apps/web/src/app/api/ideas/[name]/   *)
(* auto/route.ts, lib/builder-agent/{agent-def,source,sync}.ts).           *)
(*                                                                         *)
(* The founder's toggle is a value in the cell's kv.  Switching it on      *)
(* starts a run of the Builder; each run, at its end, schedules a wake if  *)
(* the toggle is on, and a wake is a run that first looks whether it still *)
(* is.  Runs record what they ship in the cell's timeline, which the web   *)
(* app adopts into its registry whenever it looks at the idea.             *)
(*                                                                         *)
(* The progress log of a run is in BuilderPass.  kaka:next-wake, which is  *)
(* written beside each decision and only displayed, is left out.           *)
(***************************************************************************)
EXTENDS Naturals, Sequences, SequencesExt, FiniteSets

CONSTANTS
  Runs,       \* the runs and wakes there may be at a time
  Toggles,    \* requests to the toggle's route at a time
  Looks,      \* page loads, and ends of passes, at a time
  MaxShips    \* bound: iterations recorded

ASSUME AutoImproveAssumption == MaxShips \in Nat

VARIABLES
  auto,      \* kv kaka:auto of the cell
  timeline,  \* kv kaka:iterations of the cell
  ships,     \* iterations recorded so far, their `at`
  wakes,     \* scheduled wakes, by the slot of the run they will be
  run,
  toggle,
  registry,  \* the iterations of the idea in ideas.json
  look

vars == <<auto, timeline, ships, wakes, run, toggle, registry, look>>

NoRun == [pc |-> "idle", self |-> FALSE, kind |-> "improve", seen |-> <<>>]
NoToggle == [pc |-> "idle", auto |-> "off", base |-> <<>>]
NoLook == [pc |-> "idle", seen |-> <<>>, passed |-> FALSE]

Init ==
  /\ auto = "off" /\ timeline = <<>> /\ ships = 0
  /\ wakes = {} /\ run = [r \in Runs |-> NoRun]
  /\ toggle = [t \in Toggles |-> NoToggle]
  /\ registry = <<>> /\ look = [l \in Looks |-> NoLook]

-----------------------------------------------------------------------------
(* Runs of the Builder *)

\* The slots neither a run nor a wake has taken.
Free == {r \in Runs : run[r].pc = "idle"} \ wakes

Started(r, kind, self) ==
  [run EXCEPT ![r] = [NoRun EXCEPT !.pc = IF self THEN "preamble" ELSE "work",
                                   !.kind = kind, !.self = self]]

\* A manual build or improve, relayed by a pass; its snapshot and its stream
\* are in BuilderPass.  Improving needs a version in the registry.
Invoke(r, kind) ==
  /\ r \in Free
  /\ kind = "improve" => registry # <<>>
  /\ run' = Started(r, kind, FALSE)
  /\ UNCHANGED <<auto, timeline, ships, wakes, toggle, registry, look>>

\* The platform wakes the agent: a run without a run token.
Wake(r) ==
  /\ r \in wakes
  /\ wakes' = wakes \ {r}
  /\ run' = Started(r, "improve", TRUE)
  /\ UNCHANGED <<auto, timeline, ships, toggle, registry, look>>

\* Mutant: any value that is set counts as on.
IsTruthy(value) == value # ""

\* "If its value is not exactly on".
IsOn(value) == value = "on"

End(r) == run' = [run EXCEPT ![r] = NoRun]

\* Mutant: the preamble schedules the next wake before it works.
PreambleSchedules(r) ==
  /\ run[r].pc = "preamble"
  /\ IF IsOn(auto)
     THEN /\ run' = [run EXCEPT ![r].pc = "work"]
          /\ \E w \in Free \cup wakes : wakes' = wakes \cup {w}
     ELSE End(r) /\ UNCHANGED wakes
  /\ UNCHANGED <<auto, timeline, ships, toggle, registry, look>>

Preamble(r) ==
  /\ run[r].pc = "preamble"
  /\ IF IsOn(auto) THEN run' = [run EXCEPT ![r].pc = "work"] ELSE End(r)
  /\ UNCHANGED <<auto, timeline, ships, wakes, toggle, registry, look>>

\* The app is written, checked and restarted; then the changelog is read.
ReadTimeline(r) ==
  /\ run[r].pc = "work"
  /\ run' = [run EXCEPT ![r].pc = "record", ![r].seen = timeline]
  /\ UNCHANGED <<auto, timeline, ships, wakes, toggle, registry, look>>

\* Mutant: a build extends the timeline too.
ShippedAfterAll(kind, seen, at) ==
  Append(seen, [v |-> IF kind = "build" \/ seen = <<>> THEN 1 ELSE Last(seen).v + 1,
                at |-> at])

\* A build replaces the timeline, an improvement extends what it has read.
Shipped(kind, seen, at) ==
  IF kind = "build" THEN <<[v |-> 1, at |-> at]>>
  ELSE Append(seen, [v |-> IF seen = <<>> THEN 1 ELSE Last(seen).v + 1, at |-> at])

\* Past the bound a run ships nothing.
Record(r) ==
  /\ run[r].pc = "record"
  /\ IF ships < MaxShips
     THEN /\ timeline' = Shipped(run[r].kind, run[r].seen, ships + 1)
          /\ ships' = ships + 1
     ELSE UNCHANGED <<timeline, ships>>
  /\ run' = [run EXCEPT ![r].pc = "decide", ![r].seen = <<>>]
  /\ UNCHANGED <<auto, wakes, toggle, registry, look>>

\* Step 7 of the briefing reads the toggle, then calls schedule.
Decide(r) ==
  /\ run[r].pc = "decide"
  /\ IF IsOn(auto) THEN run' = [run EXCEPT ![r].pc = "schedule"] ELSE End(r)
  /\ UNCHANGED <<auto, timeline, ships, wakes, toggle, registry, look>>

Schedule(r) ==
  /\ run[r].pc = "schedule"
  /\ wakes' = wakes \cup {r}
  /\ End(r)
  /\ UNCHANGED <<auto, timeline, ships, toggle, registry, look>>

\* "If anything unrecoverable goes wrong": the run stops there.
Fail(r) ==
  /\ run[r].pc # "idle"
  /\ End(r)
  /\ UNCHANGED <<auto, timeline, ships, wakes, toggle, registry, look>>

-----------------------------------------------------------------------------
(* The toggle's route *)

BeginToggle(t, value) ==
  /\ toggle[t].pc = "idle"
  /\ toggle' = [toggle EXCEPT ![t] = [pc |-> "set", auto |-> value, base |-> registry]]
  /\ UNCHANGED <<auto, timeline, ships, wakes, run, registry, look>>

Answered(t) == toggle' = [toggle EXCEPT ![t] = NoToggle]

\* shouldKick, judged on the idea as the request read it.
ShouldKick(t) == toggle[t].auto = "on" /\ toggle[t].base # <<>>

\* Mutant: the toggle's state kept on the idea, by writing back the idea it read.
SetToggleOnIdea(t) ==
  /\ toggle[t].pc = "set"
  /\ auto' = toggle[t].auto
  /\ registry' = toggle[t].base
  /\ IF ShouldKick(t) THEN toggle' = [toggle EXCEPT ![t].pc = "kick"] ELSE Answered(t)
  /\ UNCHANGED <<timeline, ships, wakes, run, look>>

SetToggle(t) ==
  /\ toggle[t].pc = "set"
  /\ auto' = toggle[t].auto
  /\ IF ShouldKick(t) THEN toggle' = [toggle EXCEPT ![t].pc = "kick"] ELSE Answered(t)
  /\ UNCHANGED <<timeline, ships, wakes, run, registry, look>>

\* kickImproveChain: deployed and snapshotted, the invocation is not awaited.
Kick(t) ==
  /\ toggle[t].pc = "kick"
  /\ Answered(t)
  /\ \/ UNCHANGED run
     \/ \E r \in Free : run' = Started(r, "improve", FALSE)
  /\ UNCHANGED <<auto, timeline, ships, wakes, registry, look>>

\* OnCell fails a call: an error answer, the value perhaps stored.
ToggleFails(t) ==
  /\ toggle[t].pc # "idle"
  /\ Answered(t)
  /\ auto' \in IF toggle[t].pc = "set" THEN {auto, toggle[t].auto} ELSE {auto}
  /\ UNCHANGED <<timeline, ships, wakes, run, registry, look>>

-----------------------------------------------------------------------------
(* syncIterationsFromCell *)

BeginLook(l) ==
  /\ look[l].pc = "idle"
  /\ look' = [look EXCEPT ![l].pc = "read"]
  /\ UNCHANGED <<auto, timeline, ships, wakes, run, toggle, registry>>

\* A timeline that is missing or cannot be read changes nothing.
ReadCell(l) ==
  /\ look[l].pc = "read"
  /\ \/ look' = [look EXCEPT ![l] = NoLook]
     \/ /\ timeline # <<>>
        /\ look' = [look EXCEPT ![l].pc = "adopt", ![l].seen = timeline]
  /\ UNCHANGED <<auto, timeline, ships, wakes, run, toggle, registry>>

\* passed is history: another look has adopted since this one began.
Adopt(l) ==
  /\ look[l].pc = "adopt"
  /\ registry' = look[l].seen
  /\ look' = [m \in Looks |->
        IF m = l \/ look[m].pc = "idle" THEN NoLook ELSE [look[m] EXCEPT !.passed = TRUE]]
  /\ UNCHANGED <<auto, timeline, ships, wakes, run, toggle>>

-----------------------------------------------------------------------------
RunNext(r) ==
  \/ Wake(r) \/ Preamble(r) \/ ReadTimeline(r) \/ Record(r) \/ Decide(r)
  \/ Schedule(r) \/ Fail(r)

ToggleNext(t) ==
  \/ \E value \in {"on", "off"} : BeginToggle(t, value)
  \/ SetToggle(t) \/ Kick(t) \/ ToggleFails(t)

LookNext(l) == BeginLook(l) \/ ReadCell(l) \/ Adopt(l)

Next ==
  \/ \E r \in Runs : RunNext(r)
  \/ \E r \in Runs, kind \in {"build", "improve"} : Invoke(r, kind)
  \/ \E t \in Toggles : ToggleNext(t)
  \/ \E l \in Looks : LookNext(l)

Spec == Init /\ [][Next]_vars

\* A run is bounded in steps and cost and ends; the platform keeps its alarms.
FairSpec == Spec /\ \A r \in Runs : WF_vars(RunNext(r))

-----------------------------------------------------------------------------
(* Properties *)

\* A timeline holds versions 1, 2, 3, ... without gap or repetition, in the
\* order in which they were shipped.
IsLine(t) ==
  /\ \A i \in 1..Len(t) : t[i].v = i /\ t[i].at \in 1..ships
  /\ \A i, j \in 1..Len(t) : i < j => t[i].at < t[j].at

\* Type invariant.  However runs read, extend and replace the timeline beside
\* each other, it is a line of versions (what a race costs is entries), and
\* so are the copies, on which currentVersion and nextVersion are computed.
TypeOK ==
  /\ auto \in {"on", "off"} /\ ships \in 0..MaxShips
  /\ IsLine(timeline) /\ IsLine(registry)
  /\ wakes \subseteq Runs /\ \A r \in wakes : run[r].pc = "idle"
  /\ \A r \in Runs :
        /\ run[r].pc \in {"idle", "preamble", "work", "record", "decide", "schedule"}
        /\ run[r].self \in BOOLEAN /\ run[r].kind \in {"build", "improve"}
        /\ IsLine(run[r].seen)
  /\ \A t \in Toggles :
        /\ toggle[t].pc \in {"idle", "set", "kick"} /\ toggle[t].auto \in {"on", "off"}
        /\ IsLine(toggle[t].base)
  /\ \A l \in Looks :
        /\ look[l].pc \in {"idle", "read", "adopt"} /\ look[l].passed \in BOOLEAN
        /\ IsLine(look[l].seen)

Chains == Cardinality(wakes) + Cardinality({r \in Runs : run[r].pc # "idle"})

\* Improvement never multiplies on its own: only a kick or a manual pass adds
\* a run, whatever the toggle does meanwhile; a run leaves at most one wake.
NobodyForksAChain ==
  [][Chains' > Chains =>
       \E r \in Runs : run[r].pc = "idle" /\ run'[r].pc = "work" /\ ~run'[r].self]_vars

\* "toggling auto off stops the chain" (agent-def.ts): when the toggle stays
\* off, in the end no wake is left and no run that woke by itself, though
\* runs may have read "on" just before.
OffStopsTheChain ==
  <>[](auto = "off") =>
     <>[](wakes = {} /\ \A r \in Runs : run[r].self => run[r].pc = "idle")

Newest(t) == IF t = <<>> THEN 0 ELSE Last(t).at

\* The registry falls back to an older timeline only when two looks overlap:
\* the one that adopts had begun before another one adopted what it replaces.
RegressionIsARace ==
  [][Newest(registry') < Newest(registry) =>
       \E l \in Looks : look[l].pc = "adopt" /\ look[l].passed /\ registry' = look[l].seen]_vars
=============================================================================
