# A verification project for kaka

This directory holds TLA+ models of the stateful parts of kaka, the TLC
configurations that check them on small instances, and TLAPS proofs of what
holds for every instance.  Paths below are relative to the repository root
(which the project's data files call `src/`).

    tlc -workers 2 -config MCVentureRegistry.cfg MCVentureRegistry.tla
    tlapm VentureRegistryProofs.tla

`PROJECT.json` lists the runs, the mutants each property is tested against, the
source lines every definition stands for, the findings and the hazards.

## 1. The system

kaka has two halves that share no state.  The *platform* is a set of Lambda
services over DynamoDB and EventBridge: a registry of ventures, a token
service, and libraries for authorization, events and routing.  The *web app*
(`apps/web`) keeps a local registry of startup ideas, gives each idea a cell on
OnCell, and lets a Builder agent in the cell build and improve an app.

### Inventory

| component | state it keeps | operations | talks to |
|---|---|---|---|
| venture registry service, `services/registry` | ventures table, conditional on `version`; an owner index | create, get, list, update manifest, delete | token verification, DynamoDB, the event bus |
| token service, `services/token-service` | policies table | issue a capability token, possibly under a parent token | KMS, policies |
| authorizer, `libs/authorizer` | none | verify a token; `scopeCovers`, `isScopeSubset` | verification key |
| key resolver, `services/registry/src/key-resolver.ts` | one cached key or one fetch in flight | resolve | token service |
| event publisher, `libs/events` | none | validate, publish in batches of ten | EventBridge |
| routing table, `libs/routing` | entries in a CloudFront key-value store | put, get, delete with an ETag and one retry | the store |
| idea registry, `apps/web/src/lib/{registry,ideas}.ts` | `~/.kaka/ideas.json` | create, fork, patch, snapshot, delete | OnCell client |
| builder pass, `apps/web/src/lib/builder-agent/` | locals of one streaming request | build, improve (agent mode) | OnCell client, agent, idea registry, browser |
| Builder agent protocol, `agent-def.ts`, `source.ts` | cell kv: `kaka:progress`, `kaka:iterations`, `kaka:auto` | one run per task, wake or kick | cell tools |
| auto-improve, `auto/route.ts` | kv `kaka:auto` | switch on (and kick), switch off, status | OnCell client |
| local builder, `apps/web/src/lib/builder/` | locals of one request | build, improve (local mode), restart of the app | model API, OnCell, idea registry |
| OnCell client, `libs/oncell` | none | one HTTP call, one retry on 502/503 when idempotent | OnCell |
| user interface, other routes, CDK stacks, schemas, scripts | presentation, declarations, data | | |

What makes each correct, and what is hard about it:

- **Venture registry.** A venture is one line of versions; no write is lost; no
  event is announced that did not happen; a deleted venture stays as it is.
  Hard: read, conditional write and publish are three awaits between which other
  invocations run, responses get lost, the SDK resends, the Lambda dies.
- **Builder pass.** What the browser is shown, how the stream ends, and what the
  registry then says agree with what the pass's own run did.  Hard: the pass
  never hears from the run directly.  It polls a log that runs rewrite by
  read-modify-write and trim, and a feed that it must first find, against
  several clocks and timeouts, while the run, the user and the app move on.
- **Idea registry.** Names are unique, records outlive no deletion, histories
  are not overwritten, and a record and its cell belong together.  Hard: every
  operation calls OnCell in between, calls are retried, fail or are half done.
- **Token service, authorizer, key resolver.** No token in a chain exceeds an
  ancestor; what the registry admits, somebody was entitled to; a key that could
  not be fetched blames nobody's token.  Hard: policy, parent and key are read at
  three moments, the first of which may be history when the token is signed.
- **Routing table.** Answers mean what they say, the newest put wins, the edge
  follows what the library wrote.  Hard: one ETag for the whole store, a retry on
  conflict, requests sent again that arrive late, two normalizations of hostnames.
- **Auto-improve.** Runs come in chains that nobody supervises: each schedules the
  next by reading a toggle in the cell.  Chains must not multiply by themselves and
  must end when the toggle is switched off; page loads copy the cell's timeline.
- **Local builder.** An app shown as live is the one the self-test saw.  Hard: its
  files are written one by one over those of the running app.
- **User interface.** The page holds a copy of the idea that it never reads again;
  every answer and every stream has to bring it up to date, and to free its buttons.
- **Publisher.** A batch is not reported as published when part of it was not.

## 2. Modules

| module | models | shown |
|---|---|---|
| `VentureLedger` | abstract: a venture as an atomic versioned register with announcements | |
| `VentureRegistry` | the venture registry service | checked, implements `VentureLedger` |
| `VentureRegistryProofs` | proofs about it | proved |
| `BuilderPass` | a pass, the agent's runs, the feed, the app, the record | checked |
| `BuilderPassProofs` | proofs about it | proved, most of it for a pass that is alone |
| `IdeaCatalogue` | abstract: ideas added, edited, extended and removed in one step each | |
| `IdeaRegistry` | the requests on ideas, and OnCell with its client's retries | checked, implements `IdeaCatalogue` |
| `IdeaRegistryProofs` | proofs about it | proved |
| `Scopes` | the grammar of scopes, covering, subsets | proved |
| `CapabilityTokens` | the token service, the tokens' verification, and the registry's check with its key resolver | checked |
| `CapabilityTokensProofs` | proofs about both | proved |
| `RoutingTable` | the routing library, the store, and the function at the edge | checked |
| `RoutingTableProofs` | proofs about it | proved |
| `AutoImprove` | runs, wakes, the toggle and page loads | checked |
| `AutoImproveProofs` | proofs about it | safety proved |
| `LocalBuilder` | passes and app starts in local mode | checked |
| `LocalBuilderProofs` | proofs about it | proved |
| `Workspace` | the page of one idea and the server behind it | checked |
| `WorkspaceProofs` | proofs about it | safety proved |
| `MC*` | symmetry sets and values for TLC | |

### VentureRegistry

Each member of `Requests` is one Lambda invocation; `pc` names the await it is
at.  `Arrive*` is the code up to the first access to the table (token, scope and
body are checked before, `Deny` is every 4xx among them).  `ReadExisting` and
`ReadRefuses` are `findById` with the handler's early returns, `PutApplied` and
`PutRefused` the conditional put, `Published` and `PublishFailed` the publish that
follows it.  `ConditionHolds` is the `ConditionExpression`; `NextRow` the record
the handler builds; `EventOf` the event.  `PutAppliedResponseLost` is the SDK
resending a put that had been applied: the client in `lambda.ts` keeps the
default retries.  `Die` is a killed or timed-out Lambda.  `index` is the owner
index, which `Propagate` brings up to date at leisure.  `commits` is a history
variable.  A manifest is an opaque value, a principal the `sub` of a token.
A venture id is drawn by the service; that a drawn id repeats is allowed, since
the handler accepts an injected generator and guards the put.

The registry implements the ledger under `current <- table`, the rows of
`commits` as `past`, and the rows with an event on the bus as `announced`.

### BuilderPass

One member of `Passes` is one POST to `build` or `improve` in agent mode, from
`Route` to `closed`; an action is the code between two awaits of
`runBuilderAgentPass`: `Deploy`, `SnapshotAndInvoke`, then the poll loop `Check`
(deadline and dead invocation), `ReadKv` (progress entries), `Discover`,
`FetchPage` and `PollNothing` (the feed), and the tail: `AppIsUp` and
`AppLooksDown`, `StopApp`, `StartApp`, `RestartFails`, `RecordLive`,
`ReadTimeline`, `Finish`.  `emit` throws when the browser has gone: `EmitThen`
and `Close` send the pass to `abandoned` wherever the code emits.

External, modelled from the briefing kaka hands to the agent and from the calls
it makes: runs read the progress log, extend and trim it and write it back in
two steps (`ReadProgress`, `WriteProgress`), work, and end; the runtime keeps
the latest run and a feed for each.  Nothing else is assumed of them: a run may
never start, never record anything, die, or record an error.

The lists the pass filters (`mine`, the milestones among them) are `Pick`s: the
elements at the positions that satisfy the filter, in their order.

Left out: the contents of entries, the two detail fields a pass keeps of the
latest self-test (stage `checked`, `lastCheck`), the wording of events, and the
route's refusals before it starts a pass (400, 409, 503), which change nothing.  A
`live` entry is taken to carry its URL.

### IdeaRegistry

Each member of `Requests` is one HTTP request to the web server.  The registry
file is read and written by synchronous code, hence every read-modify-write of it
(`AddIdea`, `Replace`, `registry \ Find(n)`) is inside one action; the awaits
around it are what interleaves.  `Begin` starts a request after its first lookup
and keeps the record that was read in `base`, as the handlers do; `GoneMeanwhile`
is `updateIdea` throwing.  The name of a cell is derived from the idea's name, so
`cells` is indexed by `Names`, and creating or forking into an existing cell
returns it as it is.

OnCell is external.  `Serve` applies a call; the client may make it happen twice
(`MaxAttempts`: one retry on 502/503, idempotent calls only); at any moment the
call may also end in an error (`CallFails`), with or without effect.  `Restart` is
a crash of the web server, which forgets every open request.

The file implements the catalogue under `ideas <- registry` and `settled <-` the
requests that were answered ok, with what they did.  That is the promise a route
makes by its answer: what it says has been done was done in one step, on the
record of that moment and not on the one read before the awaits; what failed or
was lost has done nothing to the file.  Edits are the exception and are not
counted: `PatchRecord` writes the file, an await follows, and only then is the edit
answered (`PatchDone`), so a failed edit may have been made.

Left out: the app's files, `lastCheck`, `builtAt` (and with it the old records
that have it and no iterations), `liveUrl` and `serviceError`, which
`BuilderPass` covers; invalid bodies, which change nothing.  A local build or
improvement is one await, `work`, between its lookup and its record; its inside is
`LocalBuilder`.

### Scopes and CapabilityTokens

A scope is `<<primitive, verb>>` or `<<primitive, verb, segments>>`; `ParseScope`,
`ScopeCovers` and `IsScopeSubset` are those of `scopes.ts`, with `*` as one whole
segment.  A partial wildcard (`b*`) is a text that the grammar refuses.

Each member of `Requests` is one invocation of the token service at its awaits:
`ParseIssueTokenRequest`, `EnforcePolicy` (the table), `EnforceAttenuation` or
`ParentKeyFails` (the key of the parent's signature), `Stamp` (a second reading of
the clock) and `Signed` (KMS); `IssueFails` is the table or KMS failing.  `Tick` and
`EditPolicy` may fall anywhere between them.  A token is an index into `tokens`,
whose entries carry their claims and, as history, the tokens they descend from
and the policy they were held against.  A signature is what it decides: a token is
in `tokens`, or it is `Forged`; `Verifies` adds the expiry with its tolerance.
Each member of `Calls` is one call of the registry service: `Authenticate` joins or
starts the fetch of the key, `FetchSucceeds` and `FetchFails` settle it for all who
wait, `VerifyAndRequire` reads the clock, verifies and holds the scope against the
route's need.  Left out: `nbf`, which no token carries, and token ids and key ids, which
nothing compares: the deployment has one key, and a container keeps the first it fetched.

### RoutingTable

`Begin` validates, normalizes and starts a put or a delete; `FetchEtag` is
`DescribeKeyValueStore`, `Write` and `Serve` the conditional request and the store's
handling of it, `AfterOutcome` the one retry of `writeWithConflictRetry`.  Requests
are messages in `net`: the client may send one again (`Resend`, at most
`MaxResends` times per call) and the earlier one stays on its way, so that it may be
served after the call has failed, or succeeded through the other.  `GetRoute` is one
read.  `RouteRequest` is the viewer-request function, with its own normalization
(the port goes, blanks stay).  A hostname is its labels plus what the two
normalizations treat differently; a target is a URL or a host and port with the
features validation looks at.  Left out: hosts of more than 253 characters and a lookup
that throws, for both of which the function answers 404, as it does without a route.

### AutoImprove

Runs are slots; `Invoke` is a manual pass, `Kick` the chain started by the toggle,
`Wake` a run the agent scheduled for itself.  A run goes through `Preamble` (a wake
that does not read `on` ends), `ReadTimeline`, `Record`, `Decide` (step 7 of the
briefing reads the toggle again), `Schedule`; `Fail` ends it anywhere.  The runs
are external, modelled from the briefing in `agent-def.ts`.  The POST to `auto` is
`BeginToggle`, `SetToggle`, then `Kick` if it was switched on and the registry had a
version *when the request began*; `ToggleFails` covers both calls, with or without
effect.  A page load is `BeginLook`, `ReadCell`, `Adopt`: the timeline of the cell
replaces the registry's if it could be read.  `look.passed` is history: another
look has adopted a timeline since this one began.  Left out: the check that the idea
has a text to build from; the kick it would prevent is one that `Kick` may also let fail.

### LocalBuilder

One member of `Requests` is a build, an improvement or a POST to `app/start`, all of
one idea.  Awaits are actions: reading the app, the snapshot, each answer of the
model (`RequestAppViaTool`, with the validation of `parse.ts` and one retry that
feeds the failure back), each file (`WriteFile`), the self-test with the record
(`Verify`), `StopService`, `StartService`, `RecordLive`.  `RestartFails` and
`CallFails` are failing calls, with or without effect; `Leave` is the browser, after
which `emit` throws at its next use.  A file's content is the request that wrote
it.  Requests overlap freely; five variables are history: `tested` (the files of the
latest self-test), `broken` (a pass ended between its first file and its restart, and
no restart since has found the files tested), `undone` and `stale` (an app was stopped
by another request between its start and the record of it), `raced` (requests
overlapped, of which only the numbering of versions speaks).  What the app does,
prompts, the text of summaries and whether a self-test passed, which nothing that
follows depends on, are left out, as are the app dying by itself and restarts of
the web server; `IdeaRegistry` interleaves the same passes with the other requests on
ideas.

### Workspace

`tab` is the state of `IdeaWorkspace` (version, link or start error, toggle, text,
editing, the running pass, the busy buttons); `server` what the registry and the
cell hold.  A pass is its stream: `RunStreamedPass`, then the server's events, put
into `pass.events` and read in order by `ReadEvent`, `OnEvent` and `ApplyDone`;
`RefusePass`, `FailPass` and a stream that just stops are the other endings.  A
start, a toggle and a save each are `Click`, `Serve` or `RefuseCall`, `HearAnswer`;
guards are the conditions under which the component renders a button enabled
(`PassIsOffered`, `StartIsOffered`, `ToggleIsOffered`).  `Others` is another tab or the
agent, once until the page is loaded anew (`Reload`).  `doubt` is history: one of
the few things happened after which the page may be out of step.  The server side
is reduced to its outcomes, which the other modules model in detail.  A `done` event is
taken to carry an iteration; without one the page would keep its version.

## 3. Runs

| run | instance | distinct states | question |
|---|---|---|---|
| `venture_registry` | 1 venture, 2 owners, 2 manifests, 3 invocations, versions to 3 | 114,116 | the safety properties and the refinement |
| `venture_lost_response` | 1 venture, 3 invocations | violation | is a committed write ever answered with an error? |
| `builder_pass_alone` | 1 pass after a finished run | 522,980 | the pass with one run writing at a time |
| `builder_pass_raced` | 1 pass beside a wake of the same agent | 3.1 million | the verdict when two runs write the log |
| `builder_pass_ends` | 1 pass, all incidents | 110,684 | does every stream end? |
| `idea_registry` | 2 names, 3 requests of any kind, failures and restarts | 1.75 million | the properties of `IdeaRegistry` and the refinement |
| `capability_tokens` | 1 request slot, 2 calls, chains of 3, 1 edit | 1.88 million | the safety of tokens and of the shared key fetch |
| `token_configured_ceiling` | same, deployment ceiling below the built-in one | violation | is the configured ceiling kept? |
| `routing_table` | 3 calls, 1 resend each, 5 spellings and targets | 1.70 million | answers, order of writes, the edge |
| `auto_improve` | 2 run slots, 1 toggle, 2 page loads, 2 ships | 716 thousand | chains, the toggle, adoption |
| `local_builder` | 3 requests, 2 files, 3 answers of the model | 1.40 million | is what is live what was tested, also when requests overlap? |
| `workspace` | 2 versions, 1 text, all three calls at once | 192 thousand | does the page agree, does it come to rest? |

Why the bounds suffice:

- *Ventures.* Invocations touch one row each and share nothing but the row, so
  one venture has all their interactions.  Three invocations give a create and
  two racing mutations; two owners and manifests tell a lost update from a kept
  one.  `MaxVersion` only bounds the versions clients ask for; three invocations
  cannot commit more.
- *Pass.* Periods are in ticks, kept in the order of the code's
  (`InvokeGrace`, `FeedTail` < `RunTimeout`).  `MaxEntries = 2` makes the trimming
  of the log, which the code does at 200, happen with two writers.  `PriorAge`,
  `HostLag` and `MatchSkew` place an earlier run inside or outside the skew
  allowance: `builder_pass_alone` puts it just outside.  `HostStamps = FALSE` is the fallback of `isThisRun` without a usable
  timestamp.  `Incidents` names what may go wrong in a run; each run has those its
  question is about, since all of them together exceed the time limit.
  In particular `RelayIsFaithful` and `DoneIsEarned` are checked with one run
  writing at a time.  They are *not* claimed with two: the log is rewritten
  by read-modify-write, and a concurrent run can erase entries.  What then remains
  true is `VerdictIsOwn`, the question of `builder_pass_raced`.
- *Ideas.* Two names are needed for a fork.  Three requests give, for instance, two
  deletions of an idea and a new creation of it, an improvement across a build
  followed by another, or two snapshots around an edit.  No property compares
  texts; the run has one.
- *Tokens.* One request slot suffices, since requests share only the policy and
  the cached key and an edit may fall between any two of one request's awaits; it
  is used again for each link of a chain of up to three.  Two calls share a fetch.
  `MaxWork` trades long chains against many calls.  The scopes include a wildcard,
  one literal under it, the whole resource, an empty list and a malformed text.
- *Routes.* Three calls give a call given up, a later one that succeeds and a late
  arrival.  One hostname is valid, in one spelling with capitals and blanks; the
  others are refused.  A second valid hostname would only add writes that change the
  ETag, which the writes to the first do already.
- *Auto-improve.* Two slots make a chain beside a manual run, or two chains; two
  looks can overlap; two ships can shrink or extend the line.  Slots are used again,
  so chains are as long as one likes; past `MaxShips` a run ships nothing.
- *Local builder.* Three requests give a pass that breaks off, one that follows and a
  start of what is there, or two that overlap and a third that finds the result.  One answer replaces both files, one a single file, one is
  refused; `MaxBytes` and `MaxFiles` stand for the limits of `parse.ts`.
- *Workspace.* Two versions tell a build from an improvement.  Every button that can
  be clicked at once is; a second text would repeat the first.

Requests, owners, manifests and names are interchangeable, so the safety runs use
symmetry; the runs with liveness do not.  Deadlock is not checked: a system whose
requests have all been answered stops.

Every property of a passing run has a mutant, a definition with a plausible bug
under which TLC finds the property violated (`PROJECT.json`, `mutants`).

### Fairness

`builder_pass_ends` assumes weak fairness of each pass's `Step` and of `Tick`.  A
step is the continuation of an await: Node runs it when the promise settles,
and every promise settles, since calls to OnCell are answered or time out.  Time
passes.  Nothing is assumed of the agent, its runs, the app or the user.  The
property holds by the deadline in `Check` alone; without it (the mutant) a
silent run keeps the stream open for ever.

`auto_improve` assumes weak fairness of each run slot: a run is bounded in
steps and cost by the platform and ends, and an alarm goes off.  Nothing is assumed
of toggles, kicks or pages, which may stop half way.  `OffStopsTheChain` is about a
toggle that stays off from some moment on.

`workspace` assumes that the server goes on with a pass and answers every call,
perhaps with an error, and that the browser hands over what has arrived: promises
settle.  Nothing is assumed of the user.  `BusyEnds` does not follow from this
alone: the component must treat refusal, error, breaking off and a stream that ends
without a last event alike, which is what its mutant forgets.

## 4. Findings and observations

Two runs show the code doing other than a comment says:

1. `venture_lost_response`.  A put whose response is lost and which the SDK
   resends meets its own row: the committed write is answered 409 and never
   announced, the outcome that `event-publish.ts:10-12` calls worse.
2. `token_configured_ceiling`.  The deployment's ceiling on token lifetimes
   (`token-service-stack.ts:40`, "Hard ceiling on token TTL") is parsed by
   `config.ts:27` and compared with nothing: `request.ts:81` uses the built-in 900 s.

Other behaviours the models allow, each visible as a state or a step of the module
named, and each the reason why a property claims no more than it does:

- `VentureRegistry`: a delete that finds the venture deleted is answered as a no-op
  although the first one's event may never have been published
  (`delete-venture.ts:33`).
- `BuilderPass`: a run that started within the 30 s skew allowance has its feed
  replayed (`feed.ts:68`), and its end ends the pass; and if the kv cannot be read
  from the run's error entry to the end of the feed tail, the failed run is
  reported as done (`orchestrate.ts:325`).
- `IdeaRegistry`: two edits can write the cell's idea file in the opposite order of
  the registry (`ideas.ts:69-71`).
- `CapabilityTokens`: KMS failing to give the key is answered as the caller's bad
  parent token (`handler.ts:163`); a child may outlive its parent.
- `RoutingTable`: a delete that finds nothing leaves the ETag as it is, so a put
  given up before it may still arrive after it.
- `AutoImprove`: switching off and on before the pending wake fires, or improving by
  hand while auto is on, makes a second chain, and nothing merges chains; a failed
  run ends its chain while the toggle still says on; a toggle whose kick fails is
  answered as an error and stays on.
- `LocalBuilder`: a restart whose stop fails leaves the old app running while the
  record says error; after a pass that broke off between its files, the start
  route runs a mixture no self-test has seen; a request that stops the app which another
  has just started, and then fails to start its own, leaves the other's "live" in the
  record (`service.ts:66` awaits between the start and the record); files the new app
  does not list stay.
- `Workspace`: a start answered during a pass may contradict the pass's verdict on the
  page; "Improve" can be clicked while switching auto on is under way; a stream that
  ends without a last event leaves the page as it was, saying nothing; the page
  is out of step after a call that failed but had its effect, until it is loaded anew.

## 5. Proofs

`VentureRegistryProofs` proves, for any sets of ventures, owners, manifests and
requests, the type invariant and all the properties of `venture_registry`:
`OneLineOfVersions`, `NoLostUpdate`, `CommitsAtMostOnce`, `BusMatchesTable`,
`CleanAnswerIsOnTheBus`, `ReadsAreCommitted`, the action property
`DeletedIsFinal`, and `Spec => Ledger!Spec`.  Assumptions: `None` is no owner or
manifest, and `MaxVersion` is a positive number.

None of these is inductive as it stands, because a write in flight is
constrained by none of them.  The inductive invariant `IInv` adds, besides types and
what each `pc` implies of `call` and `base` (`Typed`), what the optimistic scheme
rests on (`History`): the table holds the last committed row of each venture
(`StoredIsCommitted`), and the row an invocation has read is either the stored
one or one of a lower version (`BaseIsCurrentOrOld`), so that `ConditionHolds`
implies that the base *is* the stored row (`AppliedReplacesBase`).  An applied
put therefore extends the line of versions by one (`ApplyKeepsHistory`); every
other step leaves the table and `commits` alone.  `CommitsAreTheirRequests` ties a
commit to the locals of the invocation that made it, whence at most one commit
per invocation although a put may be sent any number of times: the second
finds its own version.  `ReadsServeCommittedRows` uses a second invariant, `Reads`,
relative to `IInv`.  For the refinement every step is shown to be an `Advance`, an
`Announce` or a stutter of the ledger.

`IdeaRegistryProofs` proves, for any sets of names, texts and requests, any
operations and any incidents, every property of `idea_registry`, the refinement `Spec =>
Catalogue!Spec` among them, and `OneRecordPerName`, which no run checks because the
catalogue, where an idea is only added under a free name, says more.  The only assumption is that `None` is no name, text or request.
Four invariants carry it, each relative to the ones before.

- `IInv`, for `OneRecordPerName`, `DeletedStaysDeleted` and the action property
  `SnapshotsAreKept`.  `DeletedStaysDeleted` is not inductive: a record made by a
  request that is still open could be one a deletion had read.  `IInv` therefore ties
  every record, registered or read, to the one request that made it, which is
  done from then on (`RecordsAreMadeOnce`).  The proof has two halves.
  `RegistryStep` says what a step does to the file: nothing, `Removes` a name,
  `Revises` a record (same name, same maker, no fewer snapshots), or `Adds` one under a
  free name for a request that ends by it.  `LocalStep` says what a step does to its
  request.  Every action is shown to be one of each.
- `Typed`, for `TypeOK`.  A version is the successor of the largest one of a
  timeline, so that it is a number only because timelines are bounded, and the
  record it is computed from is one because at most one was read.
- `CellInv`, for `SnapshotsAreAccounted` and `CellGoneIsADeletion`.  A cell that a
  create has made is there until a deletion meets the create (`MadeIsThere`), which
  needs that of two requests open at a time the later one found the other open
  (`OpenHaveMet`).  Snapshots are first ones (`ShotsAreFirst`) because `snapshotCell`
  is not retried, hence a recorded one is the one that was taken.
- `VersionInv`, for `VersionReuseIsARace`, with `OpenHaveMet` again: what an
  improvement under way does not know of the timeline was shipped by a request that
  overlapped it, or belongs to an idea that was made meanwhile (`ReadIsRecent`).

For the catalogue, `CatalogueInv` adds that entries and snapshots come from
requests that were answered and that a create carries none of the idea it replaces;
every action is then an operation of the catalogue that settles its request, an edit,
or a stutter.

`CapabilityTokensProofs` proves, for any scopes, policies, principals, requests, calls,
lifetimes and bounds, all of `capability_tokens`.  It starts with the algebra of
`Scopes`: covering is transitive (`CoversTransitive`), hence so is being a scope
subset (`SubsetCarriesCover`).  Neither `ChainNeverWidens` nor `AdmittedIsEntitled` is
inductive.  A token is born from a request that was held against its parent two
awaits earlier, so `Invariance` carries, for each request in flight past its check,
that its scopes were within the policy it read and within its parent's scopes, and
for each token that its line consists of earlier tokens, is closed under their
lines, and covers it.  That tokens never change once signed makes the checks of
a request in flight stay true, whatever edits, ticks and other signatures come
between.  `ColdStartIsFair` is proved relative to it, together with `ShownExists`: a
refusal stays deserved because the clock only runs forward and the tokens signed
later are none of those that had been presented.

`RoutingTableProofs` proves, for any calls, hostnames and targets and any number of
resends, all of `routing_table`.  Assumptions: a hostname is a record of what the
two normalizations look at, and the sign for no route is no target and no call.  The
store takes a request only on its current ETag, so what matters is how old an ETag
a call (`CallOK`) or a message still on its way (`MessageOK`) can carry: none below
the start of its call, and, once its call has ended, none of what a later put
made.  `ChangesAreCounted` bounds the ETag by the calls that have had their effect, of
which one counts twice only when nothing of it can arrive any more (`Spent`);
`EntriesAreOwned` says whose each entry is.

`LocalBuilderProofs` proves, for any requests, paths and answers of the model,
`TypeOK` and `RecordMatchesCell`.  Assumptions: `None` is no request and no
assignment of files, the checked path is a safe one, an answer lists its paths in a
sequence.  Overlap is not excluded, so `IInv` says who answers for what is not yet in
order (`CellOK`): untested files belong to a pass that is writing or broke off
(`FilesAreTested`), an app on other files than the tested ones to a pass that has not
restarted or broke off (`AppIsTested`), and an idea shown as live without an app to a
request about to start it, or to a stop that came between another's start and its
record (`AppIsShown`).  With nothing under way only the excuses of `RecordMatchesCell`
remain.  The numbering of versions in `TypeOK` is the one part that needs requests not
to have overlapped (`Unraced`).

`WorkspaceProofs` proves, for any texts and any number of versions, `TypeOK` and
`TabAgrees`.  `IInv` says that the calls and the stream are in step with what the page
shows as busy (`InStep`), and that, unless one of the things in `doubt` has happened,
whatever differs between page and server is what an answer (`CallsAgree`) or an
event (`PassAgrees`) still on its way will bring.

`AutoImproveProofs` proves, for any number of runs, toggles, looks and ships,
`TypeOK` and the action properties `NobodyForksAChain` and `RegressionIsARace`.
Chains: the slots in use are finitely many and each is a wake or a run (`Slots`), so
that a step which is not a toggle or a manual pass cannot raise their number.
Adoption: every copy of the timeline is a line of versions shipped by now
(`Lines`), and a look that no other has overtaken holds one no older than the
registry's (`Fresh`).

`BuilderPassProofs` has two parts.  For all values of the constants, however many
passes and other runs write the log, `IInv` (types, every entry is one that its run
recorded, and `Honest`: what a pass shows and blames is its own run's) gives `TypeOK`
and `VerdictIsOwn`.  The other properties do not hold with several writers, as
explained under *Pass* above, so they are proved for every pass that is `Alone`: there is
no other pass, and the other runs have ended long enough ago not to be taken for
its own.  Under that hypothesis, which `builder_pass_alone` satisfies, `AInv` says
that the log is what trimming leaves of older entries followed by the run's
(`LogFollowsRun`), that the feed followed is the run's own (`FeedIsOwn`), that what was
shown is what was read (`ShownIsRead`), and that nothing was read while the agent still
counts as unavailable (`Silent`).  Hence

- `UnavailableMeansSilence` and `DoneIsEarned`, with any incidents;
- `RegistryMatchesCell`, without the incidents `kv` (the timeline cannot be read) and
  `crash` (the app dies by itself), after either of which the pass cannot know better;
- `RelayIsFaithful`, with any incidents, if a run's entries fit the log
  (`MaxSteps <= MaxEntries`; a pass records a handful and the log holds 200): older
  entries may be trimmed while the pass reads, its own may not;
- `FailureSurfaces`, under both `MaxSteps <= MaxEntries` and the absence of `kv`: the
  second is the divergence described in section 4.

What `Pick` returns for a log of any length is proved by taking the least
position at which it would fail (`UpFromZero`, from well-foundedness of the
naturals), since an induction rule that takes the statement as a parameter is out of
the provers' reach.  Assumptions: passes and other runs have different names,
`None` is neither a run nor a number, the bounds are numbers, the earlier runs fit
the log.

Only model-checked is liveness (`EveryPassEnds`, `OffStopsTheChain`, `BusyEnds`),
which the prover cannot reason about.  Every invariant, every action property and both
refinements that a passing run checks are also proved.  The two properties of the
violation runs are false, and nothing is proved of them.

## 6. Plan

In order of importance, what is left:

1. `BuilderPass` with several writers: which part of `DoneIsEarned` and
   `RelayIsFaithful` survives an entry lost to another run's rewriting.  What is shown
   is perhaps still a subsequence of what the run recorded.
2. An abstract specification of the edge's routes (a map that calls change
   atomically, some of them late) that `RoutingTable` implements.
3. `EventBatches`: which prefix of a batch is on the bus when publishing throws.

## 7. Not modelled

- The CDK stacks, schemas and contracts are declarations; the golden-path script is
  sequential and keeps nothing.
- The file, console and journal routes, and the panels of the page that show them,
  make one call each and reshape its answer.
- Configuration and sign-in share no state with the rest.
- Prompts, the wording of events and the activity feed's labels and costs are data; of
  the model's output only what `parse.ts` decides is modelled.
- Signatures and encodings are taken at what they decide; the platform's stores,
  OnCell, KMS and the agent itself are external and modelled from their use.
