---------------------------- MODULE BuilderPass ----------------------------
(***************************************************************************)
(* One build or improve pass of the web server (runBuilderAgentPass) and   *)
(* what it watches: the runs of the idea's Builder agent, the progress     *)
(* entries they record in the idea's cell, the feed the agent runtime      *)
(* keeps of every run, the app service of the cell and the local registry. *)
(* A step of a pass is the code between two awaits.  The agent, the cell   *)
(* and the runtime are external: they are modelled from the briefing kaka  *)
(* gives the agent and from the calls kaka makes.                          *)
(***************************************************************************)
EXTENDS Integers, SequencesExt, FiniteSetsExt

CONSTANTS
  Passes,       \* build/improve requests for one idea; pass p fires the run p
  OtherRuns,    \* runs of the same agent that no pass of Passes fired
  Prior,        \* those of OtherRuns that ended before any pass began
  PriorAge,     \* ... and how long ago they started
  Stages,       \* the stages that runs record
  MaxEntries,   \* MAX_PROGRESS_ENTRIES
  MaxSteps,     \* bound on the entries one run records
  MaxFeed,      \* bound on the runtime's feed entries for one run
  MaxVersion,   \* bound on the versions in the cell's timeline
  RunTimeout, InvokeGrace, FeedTail, MatchSkew,  \* the pass's periods, in clock ticks
  HostLag,      \* ticks the runtime's clock is behind the web server's
  HostStamps,   \* BOOLEAN: the runtime's records carry a usable startedAt
  LastInvoke,   \* bound: the latest tick at which a pass fires its run
  Incidents,    \* bound: which of AllIncidents may happen
  None

Runs == Passes \union OtherRuns

\* kv reads fail; invocations are answered with an error; a run restarts the app;
\* the app dies by itself; the browser goes away; the user deletes the idea.
AllIncidents == {"kv", "invoke", "restart", "crash", "disconnect", "delete"}

ASSUME RunsAreNamedApart == /\ Passes \intersect OtherRuns = {} /\ None \notin Runs \union Nat
                            /\ Prior \subseteq OtherRuns /\ PriorAge \in Nat
ASSUME PeriodsArePositive == /\ {RunTimeout, InvokeGrace, FeedTail} \subseteq Nat \ {0}
                             /\ {MatchSkew, HostLag, LastInvoke} \subseteq Nat
ASSUME SomethingIsRecorded == MaxEntries \in Nat \ {0}
ASSUME BoundsAreNumbers == {MaxSteps, MaxFeed, MaxVersion} \subseteq Nat
\* The log a pass begins with holds what the runs before it recorded last.
ASSUME PriorRunsAreLogged == /\ IsFiniteSet(Prior) /\ Cardinality(Prior) <= MaxEntries
                             /\ Prior # {} => "done" \in Stages
ASSUME IncidentsAreKnown == Incidents \subseteq AllIncidents

VARIABLES
  now,
  \* the idea's cell
  progress,     \* kv kaka:progress: sequence of [run, stage]
  timeline,     \* highest version in kv kaka:iterations, 0 when missing
  service,      \* BOOLEAN: the app service runs
  \* the agent runtime
  state,        \* [Runs -> {"idle", "running", "ended"}]
  startedAt,    \* [Runs -> the runtime's timestamp of the start]
  latest,       \* the run that started last, None when none did
  feed,         \* [Runs -> number of feed entries]
  copy,         \* [Runs -> the progress a run has read and will write back]
  wrote,        \* history: [Runs -> the stages the run recorded, in order]
  \* the local registry's record of the idea
  idea,         \* [exists, live, error, version]
  \* each pass
  pc,           \* [Passes -> the await the pass is at]
  started,      \* [Passes -> when the run was fired]
  invokeFailed, \* [Passes -> BOOLEAN]
  relayed,      \* [Passes -> `relayed`]
  bound,        \* [Passes -> the feed poller's runId]
  after,        \* [Passes -> the feed poller's cursor, also its relayedCount]
  feedDone,     \* [Passes -> the feed poller's `done`]
  feedDoneAt,   \* [Passes -> when the pass saw it]
  observed,     \* [Passes -> RunObservations]
  fetched,      \* [Passes -> the timeline syncIterationsFromCell has read]
  connected,    \* [Passes -> BOOLEAN: the browser still reads the stream]
  milestones,   \* [Passes -> the milestones streamed, in order]
  activity,     \* [Passes -> the runs whose feed entries were streamed]
  outcome       \* [Passes -> how the stream ended]

cell == <<progress, timeline, service>>
runtime == <<state, startedAt, latest, feed, copy, wrote>>
poller == <<bound, after, feedDone, feedDoneAt>>
stream == <<connected, milestones, activity>>
passes == <<pc, started, invokeFailed, relayed, poller, observed, fetched,
            stream, outcome>>
vars == <<now, cell, runtime, idea, passes>>

----------------------------------------------------------------------------

DoneStages == {"done", "shipped"}
TerminalStages == DoneStages \union {"error"}

\* toStreamEvent streams nothing for these two.
InternalStages == {"checked", "service-error"}

Entry == [run : Runs, stage : Stages]

\* RunObservations; the payload of lastCheck is left out.
Observations == [live : BOOLEAN, error : BOOLEAN]

MaxTime == LastInvoke + RunTimeout

Init ==
  /\ now = 0
  /\ progress = SetToSeq({[run |-> r, stage |-> "done"] : r \in Prior})
  /\ timeline \in 0..MaxVersion
  /\ service \in BOOLEAN
  /\ state = [r \in Runs |-> IF r \in Prior THEN "ended" ELSE "idle"]
  /\ startedAt = [r \in Runs |-> IF r \in Prior THEN -PriorAge - HostLag ELSE 0]
  /\ latest \in IF Prior = {} THEN {None} ELSE Prior
  /\ feed = [r \in Runs |-> IF r \in Prior THEN MaxFeed ELSE 0]
  /\ copy = [r \in Runs |-> None]
  /\ wrote = [r \in Runs |-> IF r \in Prior THEN <<"done">> ELSE <<>>]
  /\ idea = [exists |-> TRUE, live |-> FALSE, error |-> FALSE, version |-> 0]
  /\ pc = [p \in Passes |-> "route"]
  /\ started = [p \in Passes |-> None]
  /\ invokeFailed = [p \in Passes |-> FALSE]
  /\ relayed = [p \in Passes |-> 0]
  /\ bound = [p \in Passes |-> None]
  /\ after = [p \in Passes |-> 0]
  /\ feedDone = [p \in Passes |-> FALSE]
  /\ feedDoneAt = [p \in Passes |-> None]
  /\ observed = [p \in Passes |-> [live |-> FALSE, error |-> FALSE]]
  /\ fetched = [p \in Passes |-> 0]
  /\ connected = [p \in Passes |-> TRUE]
  /\ milestones = [p \in Passes |-> <<>>]
  /\ activity = [p \in Passes |-> {}]
  /\ outcome = [p \in Passes |-> "none"]

----------------------------------------------------------------------------
(* The agent runtime and the runs (external)                               *)

\* The runtime starts the run of a task that was fired, or of a wake or a kick.
StartRun(r) ==
  /\ state[r] = "idle"
  /\ r \in Passes => started[r] # None
  /\ state' = [state EXCEPT ![r] = "running"]
  /\ startedAt' = [startedAt EXCEPT ![r] = now - HostLag]
  /\ latest' = r
  /\ UNCHANGED <<now, cell, feed, copy, wrote, idea, passes>>

\* A run stops recording after a terminal stage, as its briefing says.
Recording(r) ==
  /\ state[r] = "running"
  /\ Len(wrote[r]) < MaxSteps
  /\ \A i \in DOMAIN wrote[r] : wrote[r][i] \notin TerminalStages

\* "Always read-modify-write": cells_kv_get and cells_kv_set are two tool calls.
ReadProgress(r) ==
  /\ Recording(r)
  /\ copy[r] = None
  /\ copy' = [copy EXCEPT ![r] = progress]
  /\ UNCHANGED <<now, cell, state, startedAt, latest, feed, wrote, idea, passes>>

\* Mutant: nothing is trimmed.
Untrimmed(entries) == entries

\* "keep only the newest 200"
Newest(entries) ==
  SubSeq(entries, IF Len(entries) > MaxEntries THEN Len(entries) - MaxEntries + 1 ELSE 1,
         Len(entries))

WriteProgress(r) ==
  /\ Recording(r)
  /\ copy[r] # None
  /\ \E stage \in Stages :
       /\ progress' = Newest(Append(copy[r], [run |-> r, stage |-> stage]))
       /\ wrote' = [wrote EXCEPT ![r] = Append(@, stage)]
  /\ copy' = [copy EXCEPT ![r] = None]
  /\ UNCHANGED <<now, timeline, service, state, startedAt, latest, feed, idea, passes>>

\* A step of the loop that the runtime observes: a build run records version 1,
\* an improve run the next one; either may restart the app.
Work(r) ==
  /\ Recording(r)
  /\ feed[r] < MaxFeed
  /\ feed' = [feed EXCEPT ![r] = @ + 1]
  /\ service' \in IF "restart" \in Incidents THEN BOOLEAN ELSE {service}
  /\ timeline' \in {timeline} \union ({1, timeline + 1} \intersect 1..MaxVersion)
  /\ UNCHANGED <<now, progress, state, startedAt, latest, copy, wrote, idea, passes>>

\* The loop terminates: with its terminal entry, out of steps or budget, or dead.
EndRun(r) ==
  /\ state[r] = "running"
  /\ state' = [state EXCEPT ![r] = "ended"]
  /\ UNCHANGED <<now, cell, startedAt, latest, feed, copy, wrote, idea, passes>>

AppCrash ==
  /\ "crash" \in Incidents
  /\ service
  /\ service' = FALSE
  /\ UNCHANGED <<now, progress, timeline, runtime, idea, passes>>

Tick ==
  /\ now < MaxTime
  /\ \E p \in Passes : pc[p] # "closed"
  /\ \A p \in Passes : pc[p] \in {"route", "deploy", "snapshot"} => now < LastInvoke
  /\ now' = now + 1
  /\ UNCHANGED <<cell, runtime, idea, passes>>

----------------------------------------------------------------------------
(* The user                                                                *)

\* DELETE /api/ideas/[name]?keep_remote=true from another tab.
DeleteIdea ==
  /\ "delete" \in Incidents
  /\ idea.exists
  /\ idea' = [exists |-> FALSE, live |-> FALSE, error |-> FALSE, version |-> 0]
  /\ UNCHANGED <<now, cell, runtime, passes>>

\* The browser goes away: from now on emit throws in the handler.
Disconnect(p) ==
  /\ "disconnect" \in Incidents
  /\ pc[p] # "closed"
  /\ connected[p]
  /\ connected' = [connected EXCEPT ![p] = FALSE]
  /\ UNCHANGED <<now, cell, runtime, idea, pc, started, invokeFailed, relayed, poller,
                 observed, fetched, milestones, activity, outcome>>

----------------------------------------------------------------------------
(* The pass                                                                *)

At(p, await) == pc[p] = await

Continue(p, await) ==
  /\ pc' = [pc EXCEPT ![p] = await]
  /\ UNCHANGED outcome

\* The terminal event, or the error of emitting it to a stream nobody reads.
Close(p, event) ==
  /\ pc' = [pc EXCEPT ![p] = "closed"]
  /\ outcome' = [outcome EXCEPT ![p] = IF connected[p] THEN event ELSE "abandoned"]

\* emit, then the code up to the next await: emit throws once the stream is gone.
EmitThen(p, await) ==
  IF connected[p] THEN Continue(p, await) ELSE Close(p, "abandoned")

\* POST build or improve: 404, or the stream opens with {stage: "preparing"}.
Route(p) ==
  /\ At(p, "route")
  /\ IF idea.exists THEN EmitThen(p, "deploy") ELSE Close(p, "IDEA_NOT_FOUND")
  /\ UNCHANGED <<now, cell, runtime, idea, started, invokeFailed, relayed, poller,
                 observed, fetched, stream>>

Deploy(p) ==
  /\ At(p, "deploy")
  /\ \/ EmitThen(p, "snapshot")
     \/ Close(p, "AGENT_UNAVAILABLE")
  /\ UNCHANGED <<now, cell, runtime, idea, started, invokeFailed, relayed, poller,
                 observed, fetched, stream>>

\* The rollback point is taken, and the task fired without waiting for it.
SnapshotAndInvoke(p) ==
  /\ At(p, "snapshot")
  /\ started' = [started EXCEPT ![p] = now]
  /\ Continue(p, "check")
  /\ UNCHANGED <<now, cell, runtime, idea, invokeFailed, relayed, poller, observed,
                 fetched, stream>>

\* A thrown snapshot becomes ndjsonResponse's final error event.
SnapshotFails(p) ==
  /\ At(p, "snapshot")
  /\ Close(p, "BUILD_FAILED")
  /\ UNCHANGED <<now, cell, runtime, idea, started, invokeFailed, relayed, poller,
                 observed, fetched, stream>>

\* The invocation is answered with an error (the edge's 504 included), whether
\* or not the run was, is or will be executing.
InvokeFails(p) ==
  /\ "invoke" \in Incidents
  /\ started[p] # None
  /\ ~At(p, "closed")
  /\ ~invokeFailed[p]
  /\ invokeFailed' = [invokeFailed EXCEPT ![p] = TRUE]
  /\ UNCHANGED <<now, cell, runtime, idea, pc, started, relayed, poller, observed,
                 fetched, stream, outcome>>

\* Mutant: what the stream has shown is not looked at.
InvokeFailedLongAgo(p) ==
  invokeFailed[p] /\ now - started[p] > InvokeGrace

InvokeLooksDead(p) ==
  /\ invokeFailed[p]
  /\ relayed[p] = 0
  /\ after[p] = 0
  /\ now - started[p] > InvokeGrace

\* Mutant: no deadline.
CheckWithoutDeadline(p) ==
  /\ At(p, "check")
  /\ IF InvokeLooksDead(p) THEN Close(p, "AGENT_UNAVAILABLE") ELSE Continue(p, "kv")
  /\ UNCHANGED <<now, cell, runtime, idea, started, invokeFailed, relayed, poller,
                 observed, fetched, stream>>

\* The head of the poll loop (the sleep that ends the loop included).
Check(p) ==
  /\ At(p, "check")
  /\ IF now >= started[p] + RunTimeout THEN Close(p, "AGENT_RUN_TIMEOUT")
     ELSE IF InvokeLooksDead(p) THEN Close(p, "AGENT_UNAVAILABLE")
     ELSE Continue(p, "kv")
  /\ UNCHANGED <<now, cell, runtime, idea, started, invokeFailed, relayed, poller,
                 observed, fetched, stream>>

\* Mutant: the entries of every run are taken for the pass's own.
StagesOfAnyRun(r, entries) ==
  [i \in DOMAIN entries |-> entries[i].stage]

\* The elements of seq at the positions in keep, in their order.
Pick(seq, keep) ==
  LET from[n \in 0..Len(seq)] ==
        IF n = 0 THEN <<>>
        ELSE IF n \in keep THEN Append(from[n - 1], seq[n])
        ELSE from[n - 1]
  IN from[Len(seq)]

StagesOf(r, entries) ==
  LET own == Pick(entries, {i \in DOMAIN entries : entries[i].run = r})
  IN [i \in DOMAIN own |-> own[i].stage]

\* Mutant: `relayed` is not used.
AllOver(p, own) == own

\* entries.slice(relayed)
Unrelayed(p, own) == SubSeq(own, relayed[p] + 1, Len(own))

\* What the browser is shown of a run's stages.
Shown(stages) ==
  Pick(stages, {i \in DOMAIN stages : stages[i] \notin InternalStages \union {"done", "error"}})

\* The latest word on the app is what stays; a URL once seen is kept.
Observe(seen, stages) ==
  LET words == {i \in DOMAIN stages : stages[i] \in {"live", "service-error"}}
  IN [live  |-> seen.live \/ \E i \in words : stages[i] = "live",
      error |-> IF words = {} THEN seen.error ELSE stages[Max(words)] = "service-error"]

\* readRunProgress and the loop over entries.slice(relayed).  The loop leaves at
\* the first terminal entry.
ReadKv(p) ==
  /\ At(p, "kv")
  /\ LET own == StagesOf(p, progress)
         new == Unrelayed(p, own)
         terminals == {i \in DOMAIN new : new[i] \in TerminalStages}
         last == IF terminals = {} THEN "none" ELSE new[Min(terminals)]
         handled == IF terminals = {} THEN new ELSE SubSeq(new, 1, Min(terminals))
         shown == Shown(handled)
     IN /\ observed' = [observed EXCEPT ![p] = Observe(@, handled)]
        /\ relayed' = [relayed EXCEPT ![p] = IF last = "none" THEN Len(own) ELSE @]
        /\ milestones' = [milestones EXCEPT ![p] = IF connected[p] THEN @ \o shown ELSE @]
        /\ IF shown # <<>> /\ ~connected[p] THEN Close(p, "abandoned")
           ELSE IF last = "error" THEN Close(p, "AGENT_RUN_FAILED")
           ELSE Continue(p, IF last = "none" THEN "feed" ELSE "ensure")
  /\ UNCHANGED <<now, cell, runtime, idea, started, invokeFailed, poller, fetched,
                 connected, activity>>

KvReadFails(p) ==
  /\ At(p, "kv")
  /\ "kv" \in Incidents
  /\ Continue(p, "feed")
  /\ UNCHANGED <<now, cell, runtime, idea, started, invokeFailed, relayed, poller,
                 observed, fetched, stream>>

\* Mutant: no tail for the kv to catch up.
AfterPollAtOnce(p, done) ==
  /\ feedDoneAt' = [feedDoneAt EXCEPT ![p] = IF done THEN now ELSE @]
  /\ Continue(p, IF done THEN "ensure" ELSE "check")

\* What follows `await feed.poll()` in the loop.
AfterPoll(p, done) ==
  LET since == IF done /\ feedDoneAt[p] = None THEN now ELSE feedDoneAt[p]
      tailOver == since # None /\ now - since >= FeedTail
  IN /\ feedDoneAt' = [feedDoneAt EXCEPT ![p] = since]
     /\ Continue(p, IF tailOver THEN "ensure" ELSE "check")

\* The poll of a feed that is done, or one that fails or finds no run of ours.
PollNothing(p) ==
  /\ \/ At(p, "feed")
     \/ At(p, "page")
  /\ AfterPoll(p, feedDone[p])
  /\ UNCHANGED <<now, cell, runtime, idea, started, invokeFailed, relayed, bound, after,
                 feedDone, observed, fetched, stream>>

\* Mutant: the latest run is taken for ours whatever its start.
AnyLatestRun(p, r) == TRUE

IsThisRun(p, r) ==
  IF HostStamps THEN startedAt[r] >= started[p] - MatchSkew ELSE state[r] = "running"

\* runs/latest names a run that passes for ours.
Discover(p) ==
  /\ At(p, "feed")
  /\ ~feedDone[p]
  /\ bound[p] = None
  /\ latest # None
  /\ IsThisRun(p, latest)
  /\ bound' = [bound EXCEPT ![p] = latest]
  /\ Continue(p, "page")
  /\ UNCHANGED <<now, cell, runtime, idea, started, invokeFailed, relayed, after, feedDone,
                 feedDoneAt, observed, fetched, stream>>

FetchPage(p) ==
  /\ At(p, "page") \/ At(p, "feed")
  /\ ~feedDone[p]
  /\ bound[p] # None
  /\ LET r == bound[p]
         isNew == feed[r] > after[p]
     IN /\ after' = [after EXCEPT ![p] = feed[r]]
        /\ feedDone' = [feedDone EXCEPT ![p] = state[r] = "ended"]
        /\ IF isNew /\ ~connected[p]
             THEN Close(p, "abandoned") /\ UNCHANGED <<feedDoneAt, activity>>
             ELSE /\ activity' = [activity EXCEPT ![p] = IF isNew THEN @ \union {r} ELSE @]
                  /\ AfterPoll(p, feedDone'[p])
  /\ UNCHANGED <<now, cell, runtime, idea, started, invokeFailed, relayed, bound, observed,
                 fetched, connected, milestones>>

\* finalizeDone: is the app running, and did the run say so?
AppIsUp(p) ==
  /\ At(p, "ensure")
  /\ service
  /\ Continue(p, IF observed[p].live THEN "sync" ELSE "resolve")
  /\ UNCHANGED <<now, cell, runtime, idea, started, invokeFailed, relayed, poller,
                 observed, fetched, stream>>

\* Mutant: a run that reported its app live is believed.
AppLooksDownUnreported(p) ==
  /\ At(p, "ensure")
  /\ Continue(p, IF observed[p].live THEN "sync" ELSE "stop")
  /\ UNCHANGED <<now, cell, runtime, idea, started, invokeFailed, relayed, poller,
                 observed, fetched, stream>>

\* Down, or getService failed: "any failure means no".
AppLooksDown(p) ==
  /\ At(p, "ensure")
  /\ Continue(p, "stop")
  /\ UNCHANGED <<now, cell, runtime, idea, started, invokeFailed, relayed, poller,
                 observed, fetched, stream>>

ResolveUrl(p) ==
  /\ At(p, "resolve")
  /\ observed' = [observed EXCEPT ![p] = [live |-> TRUE, error |-> FALSE]]
  /\ EmitThen(p, "sync")
  /\ UNCHANGED <<now, cell, runtime, idea, started, invokeFailed, relayed, poller,
                 fetched, stream>>

\* restartAppService
StopApp(p) ==
  /\ At(p, "stop")
  /\ service' = FALSE
  /\ Continue(p, "start")
  /\ UNCHANGED <<now, progress, timeline, runtime, idea, started, invokeFailed, relayed,
                 poller, observed, fetched, stream>>

StartApp(p) ==
  /\ At(p, "start")
  /\ service' = TRUE
  /\ Continue(p, "record")
  /\ UNCHANGED <<now, progress, timeline, runtime, idea, started, invokeFailed, relayed,
                 poller, observed, fetched, stream>>

\* updateIdea, with the verdict on the app; it throws when the idea is gone.
Record(p, live, version) ==
  idea' = [exists |-> TRUE, live |-> live, error |-> ~live, version |-> version]

RecordLive(p) ==
  /\ At(p, "record")
  /\ \/ /\ idea.exists
        /\ Record(p, TRUE, idea.version)
        /\ observed' = [observed EXCEPT ![p] = [live |-> TRUE, error |-> FALSE]]
        /\ EmitThen(p, "sync")
     \/ /\ ~idea.exists
        /\ Close(p, "BUILD_FAILED")
        /\ UNCHANGED <<idea, observed>>
  /\ UNCHANGED <<now, cell, runtime, started, invokeFailed, relayed, poller, fetched, stream>>

\* Stopping or starting failed, possibly after it took effect in the cell.
RestartFails(p) ==
  /\ \/ At(p, "stop") /\ service' \in {service, FALSE}
     \/ At(p, "start") /\ service' \in {service, TRUE}
  /\ \/ /\ idea.exists
        /\ Record(p, FALSE, idea.version)
        /\ observed' = [observed EXCEPT ![p] = [live |-> FALSE, error |-> TRUE]]
        /\ Continue(p, "sync")
     \/ /\ ~idea.exists
        /\ Close(p, "BUILD_FAILED")
        /\ UNCHANGED <<idea, observed>>
  /\ UNCHANGED <<now, progress, timeline, runtime, started, invokeFailed, relayed, poller,
                 fetched, stream>>

\* readCellIterations; undefined when it fails.
ReadTimeline(p) ==
  /\ At(p, "sync")
  /\ \E read \in {timeline} \union (IF "kv" \in Incidents THEN {0} ELSE {}) :
       fetched' = [fetched EXCEPT ![p] = read]
  /\ Continue(p, "finish")
  /\ UNCHANGED <<now, cell, runtime, idea, started, invokeFailed, relayed, poller,
                 observed, stream>>

\* The registry adopts the timeline that was read and the verdict on the app.
Finish(p) ==
  /\ At(p, "finish")
  /\ \/ /\ idea.exists
        /\ Record(p, observed[p].live,
                  IF fetched[p] = 0 THEN idea.version ELSE fetched[p])
        /\ Close(p, "done")
     \/ /\ ~idea.exists
        /\ Close(p, "BUILD_FAILED")
        /\ UNCHANGED idea
  /\ UNCHANGED <<now, cell, runtime, started, invokeFailed, relayed, poller, observed,
                 fetched, stream>>

Step(p) ==
  \/ Route(p) \/ Deploy(p) \/ SnapshotAndInvoke(p) \/ SnapshotFails(p)
  \/ Check(p) \/ ReadKv(p) \/ KvReadFails(p)
  \/ PollNothing(p) \/ Discover(p) \/ FetchPage(p)
  \/ AppIsUp(p) \/ AppLooksDown(p) \/ ResolveUrl(p)
  \/ StopApp(p) \/ StartApp(p) \/ RestartFails(p) \/ RecordLive(p)
  \/ ReadTimeline(p) \/ Finish(p)

Run(r) ==
  StartRun(r) \/ ReadProgress(r) \/ WriteProgress(r) \/ Work(r) \/ EndRun(r)

Next ==
  \/ Tick
  \/ AppCrash
  \/ DeleteIdea
  \/ \E p \in Passes : Step(p) \/ InvokeFails(p) \/ Disconnect(p)
  \/ \E r \in Runs : Run(r)

Spec == Init /\ [][Next]_vars

\* Node runs the pass on when an await resolves, every request to OnCell is
\* answered or times out, and time goes by.  Nothing is assumed of the agent.
FairSpec ==
  /\ Spec
  /\ WF_vars(Tick)
  /\ \A p \in Passes : WF_vars(Step(p))

----------------------------------------------------------------------------
(* Properties                                                              *)

TypeOK ==
  /\ now \in 0..MaxTime
  /\ progress \in Seq(Entry) /\ Len(progress) <= MaxEntries
  /\ timeline \in 0..MaxVersion
  /\ service \in BOOLEAN
  /\ state \in [Runs -> {"idle", "running", "ended"}]
  /\ startedAt \in [Runs -> Int]
  /\ latest \in Runs \union {None}
  /\ feed \in [Runs -> 0..MaxFeed]
  /\ copy \in [Runs -> Seq(Entry) \union {None}]
  /\ wrote \in [Runs -> Seq(Stages)]
  /\ idea \in [exists : BOOLEAN, live : BOOLEAN, error : BOOLEAN, version : 0..MaxVersion]
  /\ pc \in [Passes -> {"route", "deploy", "snapshot", "check", "kv", "feed", "page",
                        "ensure", "resolve", "stop", "start", "record", "sync", "finish",
                        "closed"}]
  /\ started \in [Passes -> Nat \union {None}]
  /\ invokeFailed \in [Passes -> BOOLEAN]
  /\ relayed \in [Passes -> 0..MaxEntries]
  /\ bound \in [Passes -> Runs \union {None}]
  /\ after \in [Passes -> 0..MaxFeed]
  /\ feedDone \in [Passes -> BOOLEAN]
  /\ feedDoneAt \in [Passes -> Nat \union {None}]
  /\ observed \in [Passes -> Observations]
  /\ fetched \in [Passes -> 0..MaxVersion]
  /\ connected \in [Passes -> BOOLEAN]
  /\ milestones \in [Passes -> Seq(Stages)]
  /\ activity \in [Passes -> SUBSET Runs]
  /\ outcome \in [Passes -> {"none", "done", "abandoned", "IDEA_NOT_FOUND",
                             "AGENT_UNAVAILABLE", "AGENT_RUN_FAILED",
                             "AGENT_RUN_TIMEOUT", "BUILD_FAILED"}]

Recorded(p, stages) == \E i \in DOMAIN wrote[p] : wrote[p][i] \in stages

\* With one run writing at a time, the browser is shown the run's milestones
\* once each, in the order they were recorded, across failed reads, entries of
\* earlier runs and the trimming of the log.
RelayIsFaithful ==
  \A p \in Passes : IsPrefix(milestones[p], Shown(wrote[p]))

\* A pass that ended with done watched its own run finish: the run recorded it,
\* or the runtime ended it.
DoneIsEarned ==
  \A p \in Passes : outcome[p] = "done" => Recorded(p, DoneStages) \/ state[p] = "ended"

\* The agent is only called unavailable after its invocation while nothing of
\* its run has been shown.
UnavailableMeansSilence ==
  \A p \in Passes : outcome[p] = "AGENT_UNAVAILABLE" =>
    milestones[p] = <<>> /\ activity[p] = {}

\* orchestrate.ts:20, "Failures surface as clear error events": a run that recorded
\* an error does not end as done.
FailureSurfaces ==
  \A p \in Passes : outcome[p] = "done" => ~Recorded(p, {"error"})

\* A pass that reports a failed run, or finishes before any feed ended, does so
\* on an entry of its own run, whatever other runs write to the same key.
VerdictIsOwn ==
  \A p \in Passes :
    /\ outcome[p] = "AGENT_RUN_FAILED" => Recorded(p, {"error"})
    /\ (outcome[p] = "done" /\ feedDoneAt[p] = None) => Recorded(p, DoneStages)
    /\ \A i \in DOMAIN milestones[p] : Recorded(p, {milestones[p][i]})

\* When the pass has ended with done, the registry has the cell's timeline, calls
\* the app live only if it runs, and never keeps a live URL beside a start error.
RegistryMatchesCell ==
  \A p \in Passes : (outcome[p] = "done" /\ idea.exists) =>
    /\ idea.live => service /\ ~idea.error
    /\ timeline # 0 => idea.version = timeline

\* Every stream that opened is ended by exactly one terminal event or abandoned.
EveryPassEnds ==
  \A p \in Passes : At(p, "deploy") ~> At(p, "closed")
============================================================================
