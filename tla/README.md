# A TLA+ model of adapter-k8s

adapter-k8s turns a Next.js build into independently scaled Kubernetes pools and
operates the release: `deploy` installs a new build next to the serving one, gates
it, moves the traffic and records what happened; `rollback` does the reverse; in
GitOps mode an in-cluster Job does the promotion. At run time a routing service
answers the gateway's ext_proc callouts, pool servers answer requests, and the pools
share a Valkey cache.

This directory holds TLA+ models of the parts of the code whose correctness depends
on interleavings, failures and order, TLC runs that check them on small instances,
and TLAPS proofs that hold for every instance. Source paths below are relative to the
repository root (`src/cutover/run.ts` is the file of that name in the repository).
`PROJECT.json` lists every component with its status, every hazard at its line with
the properties that would catch it, and for every definition the lines it models.

## The system

| Component | State | Operations | Hard because | Correct when |
|---|---|---|---|---|
| Deploy state store (`src/cli/state.ts`) | a local file per checkout, one ConfigMap | `readState`, `writeState` | read and write are minutes apart, two copies, no lock, killed `kubectl` | no commit is lost, the newest copy wins |
| Promotion and rollback (`src/cutover/run.ts`, `traffic.ts`, `job-main.ts`) | selectors, edge, Deployments, record | `runCutover` D1–D7, E1–E6; `runRevert` | crash between any two steps, partial patches, overlapping Jobs | traffic on running, gated pods; record follows traffic; aborts leave one build everywhere |
| Selector swap (`service-selector.ts`, `gke-backends.ts`) | selector, overlap annotation, pod labels | compare-and-swap, GKE two-phase overlap | crash inside the overlap, flapping health | never without endpoints |
| Gates (`gates.ts`) | HPA bounds, replica counts | warm-up, rollout waits | restore on every exit | bounds restored, capacity not below the outgoing build's |
| Retention (`src/cutover/retention*.ts`, `src/retention*.ts`) | signed index, markers, cron job | prepare, complete, expire | races promotions; projection into pods is late | the standby outlives everything that forwards to it, and is retired in the end |
| CLI deploy, rollback, migrate, destroy, provision-cache | Helm release, plans, Secrets, claim of the paid cache | the commands | each call may fail, several checkouts | what a record names exists; destroy does not lie; a paid instance is always named |
| Pool server (`src/pool-server/server.ts`, `index.ts`, `websocket-*.ts`) | responses, sockets, budgets | serve, upgrade, admit, drain | SIGTERM in any stage, callbacks in any order | everything counted once, drain ends, budgets come back |
| Dispatch (`dispatch.ts`, `resolve.ts`) | seeds, entries, shells, exchanges | the ladder that answers a request; one exchange | reads at different moments, four timers | invalidation respected, no cut body ends cleanly |
| Request path (routing service, pools, CDN) | verdict headers, cached responses | callout, proof, forward, store | two builds at once, shed callouts | nothing served unscreened, middleware once |
| Distributed cache (`src/pool-server/valkey-cache/`) | Valkey keys, local fronts, one connection | get, set, updateTags, reconnect | skewed clocks, refresh races, positional replies | no hit denied by an earlier revalidation; replies reach their commands |
| Middle cache (`docker/middle-cache/main.go`) | LRU, two semaphores, wait group | get, put, serve, stop | concurrent fills, slow clients, upgrades | bounded, balanced, stops |
| Routing pod (`src/routing-service/index.ts`, `server.ts`) | sessions, callouts, readiness | callouts, preStop, drain | hook and signal in any order, late handshakes | endpoint withdrawn before the listener closes; stops |
| Build adapter, targets, templates, plan parsing, other CLI commands | files | pure transformations | size, not concurrency | – |

## Modules

Each module's header comment says what it covers. Three conventions hold in all:
an await, a callback or a separate API call is a step boundary; the failure of a call
is an alternative of its step, and a kill is possible where the code can be killed;
definitions ending in `_Something` and marked *Fault* are deliberate bugs that the
`mutants` of `PROJECT.json` put in place of the definition they vary.

**Release protocol**
- **StateStore** – `readState`/`writeState`. `localSeen`, `base`, `target`, `seenRv` are
  the code's locals that survive an await; `ReadLocal` | `ReadCluster` and `BeginWrite` |
  `ReadForWrite` | `Put` | `Server` | `Classify` are its steps. `Server` is the API server
  (409 unless the resourceVersion matches); after `PutTimeout` the request stays on the
  `wire` and may be applied or dropped later. `stamp`, `lineage`, `origin` are history.
- **StateLedger** – the abstract specification: one record whose generation only grows;
  a commit based on it is one whole operation (promote, roll back, record a failure).
- **Cutover** – several commands and Jobs at once over one release. `pc` is the stage in
  the order of the code; every selector read and patch is a step; `Crash` anywhere.
- **Promotion**, with **BackendOverlap** and **RetentionExpiry** – one command at a time
  in full detail against a moving cluster: HPA warm-up and restore, capacity, the GKE
  overlap with backend health, the retention index and its projection, the cron job.
- **Operations**, with **Release** (the shared objects), **DeployCommand**,
  **DestroyCommand** and **ManagedCache** – the CLI commands from several checkouts: what
  Helm renders, keeps and prunes, plans and Secrets, the paid cache and its claim.

**Request processing**
- **RequestPath** – CDN, edge, two pools, retained build: what each tier trusts, stamps,
  strips, forwards and stores.
- **Dispatch**, over **IncrementalCache** and **TagManifest** – the ladder of
  `createDispatcher` from seeds and stored entries to shells, resumes and invocations.
- **Invocation** – one exchange with a handler, the edge sandbox, another pool or an
  external target: writers, deadlines, prefix, `after()` work.
- **PoolServer**, over **FrameCursor** – a pool pod from listen to exit.
  **RoutingServer** – a routing pod likewise. **Shutdown** puts both into one run: they
  share no state, so a behaviour is about one of them.
- **Admission**, over **MiddleCache** – the budgets of a pod: body bytes, image slots and
  bytes, asset hashes, and the sidecar's file cache.

**Cache**
- **TagManifest** – operators: watermark events, the merge of `UPDATE_TAGS_SCRIPT`,
  freshness. **UseCache** – the `'use cache'` handler over two replicas.
- **RespClient** – the RESP2 client: connections, AUTH, pipelined commands, breaker, quit.

`MC*` modules hold the instances. `StateStoreProofs`, `CutoverProofs`, `OperationsProofs`,
`PromotionProofs`, `RequestPathProofs`, `DispatchProofs`, `ShutdownProofs` and
`UseCacheProofs` hold the proofs about the module they are named after; UseCacheProofs also
those about TagManifest and RespClient, DispatchProofs those about Invocation.

### What the models abstract

- *Cutover*: the record is read and written atomically, which StateStore justifies. All
  builds have the same pools, a pool one Service; a build's Deployments are absent, parked
  or up together. The release has a record already. The edge is the build its image and
  manifest name. The gates are one step that passes only if the incoming build is up. A
  reconciler applies a bundle once (`ForceSync` applies it again, `JobRetry` is a new pod
  without that).
- *Promotion*: commands are serialised, as `docs/lifecycle.md` asks; the adversary is the
  cluster. Two builds with the same pools and retention enabled.
- *Operations*: deploys overlap up to their last check of the record, a destroy is alone.
  Objects are counted by kind and build; the cutover is one step. A Helm upgrade that fails
  has applied all of the chart, none, or the first kinds in Helm's order. A cache of the
  user's own (`cache.url`) is left out. `torn` is history: a destroy has begun to delete, or
  has deleted the record.
- *RequestPath*: a URL is a kind, a header set the build whose middleware made it; what
  the application answers is drawn each time it is asked.
- *Dispatch*: one route under one configuration, chosen at the start; Next's renders are
  external. *Invocation*: a body is two chunks; header text is left out.
- *PoolServer*, *RoutingServer*, *MiddleCache*, *Invocation*, *RespClient*: durations are
  not modelled; a timer may fire at any moment after it is armed (RoutingServer counts
  the drain delay in ticks, because a property is about it).
- *RespClient*: bytes are frames and half frames; Node runs microtasks to the end before
  the next socket event.
- History variables and fields record what the code does not know and a property must
  except: `again` (Cutover), `abrupt` and `untold` (Promotion), `crossed` (RespClient),
  `blind` (UseCache), `strayed` (RequestPath), `said` (Operations). No action reads them.
- *UseCache*: time is Valkey's clock in ticks, each replica's is off by a constant. Sizes
  are left out: a put into the front may drop any entry. The properties make two allowances:
  an update applied while a store command travels is lost on it, and an entry kept by a
  replica that had no epoch at the time is marked `blind`.
  Replies may overtake each other, which is more than one connection allows.

## Runs

Twelve runs pass. Distinct states, and what each shows:

| Run | Module | States | Shows |
|---|---|---|---|
| `state_store_dual` | MCStateStore | 1,050,612 | an operator with a checkout and a Job, three writes: writes are fenced, nothing based on the record is lost, reads prefer the newest copy, a writer that was refused never wins later, the store implements StateLedger |
| `cutover_sequential` | MCCutover | 696,230 | a deploy, a Job and a rollback one at a time, two runs each, every failure: traffic on running, gated pods; the record names what serves; the rollback target is kept; aborts leave one build |
| `cutover_jobs` | MCCutover | 580,726 | three Jobs at once, or two and a second pod of one: one winner, and the losers put back what they patched, until a retried pod promotes a build the record has already named |
| `promotion` | MCPromotion | 1,506,693 | a deploy or rollback and the commands after it, on a GKE and a generic Service, any answer lost: always a backend unless a completed switch is taken back, clean exits unless a raised bound is not known of, forwarding honoured, cleanup spares what serves, the standby is retired |
| `operations` | MCOperations | 2,074,282 | three commands from two checkouts, one failing call: builds a record names are whole, destroy is honest about what its plans or its infrastructure file list, a paid cache is always named |
| `request_path` | MCRequestPath | 1,005,728 | one or two requests during a cutover: nothing unscreened, the header set travels unless an image is rewritten away, middleware runs once |
| `dispatch` | MCDispatch | 1,722,118 | 29 pairs of route and configuration: invalidation respected, stored over seed, no sibling's content, PPR documents complete |
| `invocation` | MCInvocation | 43,902 | 15 exchanges: no cut body ends cleanly, `after()` work is awaited, limited exchanges settle unless an edge copy waits for a client that neither reads nor leaves |
| `shutdown` | MCPoolServer | 387,352 | a pool pod and a routing pod from start to exit: everything counted once, honest and ordered endings, every stop terminates, a routing pod exits unless a health request is held open |
| `admission` | MCAdmission | 19,668 | each budget of the pod at its limit: counters balance, nobody waits beside free capacity, everyone is answered, the sidecar stops |
| `use_cache` | MCUseCache | 2,161,119 | requests whose epoch reads may fail, two at once with one revalidation by either replica, or one at a time with entries that lapse and are stored again and two revalidations by the peer: no entry kept knowingly predates an update or outlives a deadline or its lifetime |
| `resp_client` | MCRespClient | 455,609 | three commands over connections that are refused, reset, ended or answered wrongly: own replies unless two connections were crossed, every command settles |

Six definitions state without its exception what a comment or a test of the repository says.
They are false of the code and in no cfg; put in place of the property named, each gives a
counterexample:

| cfg | Property | Instead | What the counterexample shows |
|---|---|---|---|
| `UseCache.cfg` | `HitPostdatesUpdates` | `EveryHitPostdatesUpdates` | what is stored after a failed epoch read is adopted under the next epoch (`use-cache-handler.ts:355` against the comment at 364) |
| `RespClient.cfg` | `OwnReply` | `EveryReplyIsOwn` | a connection ends with commands in flight and the next is dialled before its close event (`resp-client.ts:721` against 541) |
| `Invocation.cfg` | `LimitedSettles` | `MaxDurationSettles` | the edge copy waits for `drain` outside the deadline (`dispatch.ts:3646`) |
| `RequestPath.cfg` | `HeaderSetTravels` | `HeaderSetAlwaysTravels` | an image rewritten to a path without a route is served without the header set (`resolve.ts:295` against 252) |
| `Promotion.cfg` | `CleanExit` | `BoundsRestored` | an HPA patch whose answer is lost is not put back (`gates.ts:644` against 474) |
| `Operations.cfg` | `DestroyHonest` | `DestroyTellsAll` | destroy without plan and infrastructure file deletes no cloud resource and reports success (`destroy.ts:1234` against 1405) |

**Bounds and why they are enough.**
StateStore: three records are a base, a competing commit and a late write; two processes
with requests left on the wire are three concurrent writers.
Cutover: two Services are the least that can be patched partially; three Jobs are a
winner, a loser and one that starts from the winner; two runs give a retry after every
failure. Of overlapping Jobs there are three pods in all (`MaxPods`): one each, or a retry
of one of two after the other has taken over. The builds leave something to delete.
Promotion: one Service per kind of swap; two runs (the deploy and its re-run, rollback or
roll-forward), one fault, of any request and with or without its effect; two ticks of clock
let the index and the marker expire in either order; capacity two tells "warmed up" from "standby".
Operations: three commands from two checkouts are enough for one to meet what another left
unfinished; builds 0 and 1 predate the composition plan's cache, 2 and 3 place it
differently. Two faults instead of one pass as well (6,127,588 states).
RequestPath: two builds; two requests for one URL are the least for a response to be
stored for one and served to another; two forwards reach the retained build and would show
a loop.
Dispatch: two sibling pages and their template; one revalidation and one write (by the
request, or by the regeneration or fill behind it) between the reads of one request, and
losses of entries; every cap is one, so that each overflows; three ticks
separate build, write and expiry.
Invocation: two chunks tell cut from whole; two `after()` jobs, one registered by the other.
PoolServer: one response and one socket in every stage; the byte streams have all three
header lengths, payloads that look like headers, a close, a masked frame and a length no
JavaScript number holds, and every split into chunks. RoutingServer: two connections, so
that one may hang in its handshake while the other has two callouts; a callout budget or
none; one health request, which a peer may hold.
Admission: every budget has one request more than fits; MiddleCache has two requests for
one small file, one that displaces it, and one too large to cache.
UseCache: two requests of one replica are the least for a preparation or a set overtaken by
another; the second replica only updates tags. One clock is ahead of Valkey's and one behind.
The run is the union of two bounds, `InScope`, one of which a behaviour chooses at the start:
"crowd" has both requests, both replicas, one set and one update within two ticks; "alone" one
request at a time, in which windows of one and two ticks lapse within three, and two sets and
two updates by the peer let an entry be denied, stored again and denied again.
RespClient: three commands, one a MULTI; four generations allow two reconnects beyond the
failure.
The bounds in guards are named: `MaxWrites`, `MaxRuns`, `MaxFaults`, `MaxTime`,
`MaxUpdates`, `MaxSets`, `MaxWarms`, `MaxForwards`, `MaxGen`, `MaxNoise`, `MaxAfter`;
`MaxPods` and `InScope` are constraints.
Symmetry is used in `state_store_dual`, `cutover_jobs`, `operations` and `use_cache`, whose
properties are invariants and action properties. Each `TypeOK` was also checked with TLC
(StateStore's is proved); it documents the state and is no run of its own.

**Deadlock** is checked where the system never rests (Dispatch, UseCache, Shutdown). The
other models stop where the system does: a release at rest, requests answered, a bound
reached.

**Fairness** is stated only where a run checks liveness, and only of what the process, its
timers or Kubernetes does by itself:

| Run | Fair | Not assumed |
|---|---|---|
| `shutdown` (`StopsTerminate`) | the drain's grace and flush timers, the race with 250 ms, the exit; in the routing pod the delay and grace timers, the budget timer where there is one (`ROUTING_REQUEST_TIMEOUT_MS` is not 0), the server's close event, and the exit once no health request is open | handlers, clients, proxies, image refreshes, the hard-exit timer (it may fire early), whoever holds a health request |
| `invocation` (`LimitedSettles`) | the process's continuations, the head and absolute deadlines, the execution deadline except while an edge copy waits for `drain`, the close of an ended response | the handler, the upstream, `after()` jobs, the client, which need neither read nor leave |
| `resp_client` (`CommandsSettle`) | continuations, the connect and command timeouts | the server, the network |
| `admission` (`EveryoneAnswered`) | admission and fetch deadlines, Next's cache and encoder, file streams; in the sidecar file reads and the drain's deadline | clients, routes, remote hosts, the pool's answers |
| `promotion` (`StandbyRetired`) | the clock, the CronJob controller and the calls of a run that started (failures are bounded by `MaxFaults`) | commands, the autoscaler, kubelet |

Some properties except, by history, what the code cannot tell apart. `CleanAborts` holds as long as
nothing crashed, no answer was lost, no recovery step failed, no Job was re-run and no Job
failed before its recovery was armed (`clean`). `AtMostOneWinner` and `SelectorsConverge`
hold until a retried pod promotes a build the record has already named (`again`): it checks
no expected selector and can win next to another.

## Proofs

Every theorem is about the module's own specification and holds for every value of its
constants under the module's assumptions; a further hypothesis, where there is one, is
named. Each inductive invariant was checked by TLC on the instance of the module's run
before it was proved.

| Module | Stated by a theorem | Hypothesis | Inductive invariant |
|---|---|---|---|
| StateStore | `Fenced`, `NoLostUpdate`, `ReadReturnsNewest`, `ImplementsLedger`; generation grows | – | `IInv`, `WriteInv`, `StampInv` |
| StateStore | `LoserNeverWins` | `OwnCheckouts` | `LocalInv` |
| Cutover | `ServingBuildUp`, `RollbackTargetKept`, `CleanAborts`, `CommitFollowsTraffic`, `ProvenTraffic` | `Exclusive` | `SerialInv` |
| Cutover | `AtMostOneWinner`, `SelectorsConverge` | `JobsAlone` (no CLI command) | `JobInv` |
| Promotion | `CleanupSparesServing`; type correctness | – | `Base` |
| Promotion | `ForwardingHonoured` | `Grace <= PrepWindow` | `Base`, `Retained` |
| Promotion | `CleanExit` | – | `Base`, `Warmth` |
| Promotion | `AlwaysABackend` | – | `Base`, `Selectors`, `Carried` |
| RequestPath | `NoUnscreenedContent`, `HeaderSetTravels`, `SinglePass` | – | `PathInv` |
| Invocation | `CleanEndIsWhole`, `AfterWorkAwaited` | – | `InvocationInv` |
| UseCache | `HitPostdatesUpdates`, `HitIsFresh` | – | `CacheInv` |
| RespClient | `OwnReply` | – | `RespInv` |
| Shutdown | `DrainAccounting`; of `HonestStops`, `EofOnlyForEventStreams` and `DrainOrdered` | – | `PoolInv`, `RoutingInv` |
| Operations | `BuildsWhole`, `DestroyHonest`, `PaidCacheNamed`; type correctness | – | `OpsInv` |
| Dispatch | `DocumentsRespectInvalidation`, `StoredSupersedesSeed`, `NoSiblingContent`, `PprDocumentsComplete` | – | `DispatchInv` |
| TagManifest | operators: `UpdateDenies`, `DenialLasts` | marks in the past | – |

**StateStore**, from `ConstantsAssumption` alone unless said otherwise:

- `FencedAlways`: `TypeOK` and `Fenced` are invariants. `Fenced` is the inductive
  invariant: a base read from the ConfigMap is its present record or an older one
  (`BaseFence`); the body being written descends from the base (`TargetFence`); and a write
  whose resourceVersion is still current would supersede the present record, whether its
  process is about to send it (`PutFence`) or it is on the wire, its sender perhaps gone
  (`WireFence`). Neither guard alone is inductive: S19 gives `Supersedes` when the write is
  stamped, and the resourceVersion keeps it true until the server handles the request.
- `NoLostUpdateTheorem`, `GenerationGrowsTheorem`: consequences of `WireFence`.
- `StoreImplementsLedger`: every step maps to a step of StateLedger or a stutter. It adds
  `WriteInv`: a body in a process or on the wire is one whole ledger operation on the
  record it is based on (`Applies`), and its basis is the one recorded with it. `StampApplies`
  shows that stamping keeps this, `WriteStep` that every step does, and `LedgerStep` maps
  the server's step with `Fenced` telling that the base is the record being replaced.
- `ReadReturnsNewestTheorem`: `StampInv` adds that a stamp names one record wherever a copy
  of it is (files, processes, ConfigMap, wire) and that a descendant has a later generation
  (`StampsName`), so comparing generations compares ancestry for the two copies of a read.
- `LoserNeverWinsTheorem`: `LocalInv` adds that a file written on top of a ConfigMap record
  is at most one generation ahead of the ConfigMap and then descends from it (`LocalFence`),
  which needs that nobody else writes the file between an operator's read and write
  (`FileBehind`). `OwnCheckouts`, one operator per checkout, is what makes that true.

**Cutover.** With commands one at a time (`Exclusive`, the constant of `cutover_sequential`;
`docs/lifecycle.md` asks operators to serialise), for any number of deploys, Jobs,
rollbacks, Services and runs, with crashes and lost answers at every step: `SerialInv` says
stage by stage what the process in progress may rely on. Selectors that were read named
builds that run, so an undo may return to them (`SnapshotRuns`); patched Services select
the incoming build, and who goes on to E2 has patched all (`PatchedServe`); past the gates
the incoming build is up (`IncomingRuns`); a build that Services may still select is never
parked (`OutgoingRuns`, `Agreed`); and as long as nothing went wrong edge, selectors and
record are on one build outside the patches (`Tidy`). None of the five properties is
inductive: each speaks of the state between commands or after an abort.
With Jobs only (`JobsAlone`: no CLI deploy and no rollback, as in `cutover_jobs`), any number of them at once, each with any number of pods: a Job that has
patched a Service holds it until it undoes the patch or commits (`Held`), holds it only while
the record is the one it moves away from (`Outstanding`), and no selector returns to a
superseded build (`Ahead`). The compare-and-swap gives the first, the recheck of the record
and the order of patches the others; together they leave the last Service to one Job. All of
it is stated of behaviours in which no Job promotes a recorded build again; `recorded` and
`again` are the history that says so, and once `again` is true it stays.

**Promotion**, for any Services, capacities, windows and clock, any number of commands and
every fault the module has (two builds, as the module has it). `Base` is inductive by itself
and the other three invariants rest on it:

- `Base`: the record and the command in progress agree on the builds it moves between
  (`Aims`); a call on a Service belongs to a live command that moves selectors (`Called`);
  that command has renewed the marker of the incoming build, and no marker expires while
  selectors move (`Fenced`); what a cleanup saw still holds as long as nobody touched it: the
  marker has expired and every Service is on the recorded build (`Sparing`), which is
  `CleanupSparesServing`; and a Service is plain except for the overlap of the current call
  or an answer the command is unsure of (`Tidy`).
- `Warmth`: every raised bound is one the command knows of and will put back, or one whose
  patch was applied and reported as failed (`untold`). With `Tidy` it gives `CleanExit`.
- `Retained`: no deadline lies beyond the preparation window (`Ceiling`); the standby's
  markers last as long as the index of the serving build, published and mounted
  (`Outlasts`), so that a standby without replicas is one nothing is forwarded to
  (`Standing`); and a command has seen to the same for the build it moves to (`Prepared`).
  It uses that `Tick` lets a live command finish within the window less the grace period.
- `Selectors` says which build each Service selects at each stage of a command, whether the
  Service is before, in or behind the loop, and that the key of the current call is on
  nothing else. `Carried` names a build that carries each Service: one the Service selects,
  with pods that carry the labels, in the load balancer and in the front ends. The carrier of
  the original selector is labelled with the call's key before the overlap, so entering the
  overlap and going back both keep it; the incoming build matches before the final swap takes
  the overlap away. A Service whose final swap was applied, reported as failed and taken back
  by version (`abrupt`) is left out: the original build may have left the load balancer.
  `AlwaysABackend` follows and is far from inductive: it says nothing of which build will be
  left when the next swap is made.

The run's constants satisfy the one hypothesis left, of `ForwardingHonoured`.

**Operations**, for any checkouts, builds, pools, cache locations, numbers of commands and of
failing calls, from `ReleaseAssumption` and `RecordAssumption` (the absent record is none of
the records). None of the three properties is inductive; `OpsInv` is the conjunction of

- `Turns`: a destroy is alone, and one deploy at a time is past its last check of the record;
- `Records`: until something is torn down there is a record, no checkout has a newer one, and
  a deploy past that check works from it;
- `Annotated` and `Standing`: whatever a past build needs to be started again exists and
  carries the keep policy (and the reconciler's, after a migration), for the rollback target
  also its plan and snapshot after a rollback, and a deploy before its upgrade has annotated
  what the upgrade no longer renders. That is why Helm's prune, an abort at any stage and
  every sweep leave `BuildsWhole`;
- `Emptied`: a destroy whose calls have not failed has deleted, stage by stage, every kind that
  lies behind it (`Destroyed`), of the cloud resources and paid caches those it is authorised
  to delete, and after one has reported success nothing runs;
- `Paid`: a deploy writes the coordinates of a place into its checkout before it pays for it
  there, and gives them up only when the instance is gone or another checkout has them.

Two statements were too strong for arbitrary bounds and are now what the code does: a destroy
can also leave an unlabelled HPA whose Deployment an *earlier* incomplete destroy deleted
(`said.strays`; it takes four commands), and the cluster's claim does not count as naming an
instance, because the cleanup of another checkout may delete it.

**RequestPath**, for any set of requests, any two builds and any applications: a verdict on
its way is always of the build the request is with, that build let the request through or
does not match it unless context or body changed since, and the header set is on the wire
or installed (`WireOK`); a body that changed is covered by a digest (`WireOK`, used where a
pool enforces the binding); the CDN holds nothing of a URL that its build's middleware may
cover (`CdnOK`, from `SharedUncovered` about the pool's cache policy and `EdgeNotShared`
about the edge's); a request is forwarded once, because a request retained for one build is
not retained for the other (`RetainedOnce`); and as long as no hand-over failed, middleware
that has run is known to have (`PassOK`). The proof takes a step to the record it leaves,
one lemma per action.

**Dispatch**, for any scenarios, requests, pages, caps, clock, updates and writes, from
`DispatchAssumption` (a route with a PPR asset has a handler; caps are positive). A request is
idle, answered in accordance with the four properties (`Answered`), or on the ladder, and then

- what it holds is of its page or the template, and its next read is one of the ladder's
  (`Own`); with the cache holding under a page's key only that page (`Cached`) and recorded
  responses that of their key (`Recordings`), this gives `NoSiblingContent`;
- what it may still serve, a seed it judged fresh, a shell it found usable, an entry it hit, is
  no older than the lowest watermark in force since the request began (`Current`): each check is
  made once, and watermarks only rise after it;
- while one live entry has stood since it began, the reads find it, so that no stage that
  follows a miss is reached (`Superseding`, `Found`);
- with a shared cache its invocation completes the document (`Completing`).

`Regenerating` says that a regeneration in flight is pending, so that the next one does not
overwrite it. `StoredSupersedesSeed` is about one and the same entry: a page whose entry is
replaced between the two reads of a request, and the new one invalidated, is answered from the
build, which no reader can tell from a request that came earlier.

**Invocation**, for any exchanges and any number of `after()` jobs: what was written came
from the upstream in order (`Written`), a response begins with its head (`Begun`), and the
stage of the writer tells what has ended before it: the upstream, the suffix, the inner
responses, the jobs (`Progress`). `InvocationInv` carries `TypeOK`.

**UseCache**, for any replicas, clock offsets, keys, tags, requests and updates, and epoch
reads that fail anywhere: `CacheInv` says that the front of a replica without an epoch holds
only `blind` entries, and that any other entry stands under a manifest no older than the
replica's epoch (`FrontOK`); that requests and warms which have an epoch work with one that
has been and read tags no earlier than it (`RequestOK`, `WarmOK`); and that the manifest of
every epoch denies what its updates outdate (`ManifestInv`, from TagManifest's lemmas). A hit
on an entry that is not blind is then safe. Of the blind ones the statement is false
(`EveryHitPostdatesUpdates`).

**RespClient**, for any commands, replies, chunkings, timeouts, AUTH, ended connections and
reconnects: as long as no two connections were crossed, the replies that the server owes on
the current connection are the entries of the queue in their order (`Aligned`). That needs
one live connection at a time (`OneConnection`), that the queue is this socket's
(`QueueOwned`) and that until `quit()` the live connection is the current generation
(`BeforeQuit`). `crossed` becomes true where the code loses the alignment: it dials with
commands of an earlier connection still queued, or clears `connecting` while a newer dial is
under way; both are described below.

**Shutdown**, for any finite sets of responses and sockets, any streams, any callouts and
connections and any drain delay. The sums of `DrainAccounting` are not inductive: they say
nothing of what a later step may still count. `PoolInv` adds, for responses, that the drain
decides nothing before the grace period ends and that what it reset is destroyed, so that
the terminal pass, the sweep and `settleResponse` never count one response twice
(`RespOK`, `Balanced`); for sockets, that each verdict was given to an open socket and
marked it (`SocketOK`), and two bounds over sets that only a `close` event shrinks: the
sockets a counter can still be charged with (`Chargeable`) and those charged, open or ended
by the server (`Tracked`). An unsignalled close takes a socket out of both and counts it in
`peerClosed`; a signalled one leaves `Tracked` alone. `RoutingInv` says that a stop began
with a withdrawal of readiness and is due no earlier than the delay, and that a closed
server has only sessions that are gone.

**TagManifest**: the merge puts the event on the server's clock (`MergeOnServerClock`), so
an entry older than the moment the script ran is not fresh from then on (`UpdateDenies`),
and no later update of whatever kind makes a denied entry fresh again (`DenialLasts`). Both
assume that stored marks lie in the past of the server's clock, which the merge preserves
(`MergeKeepsMarksBy`).

**Model-checked only.** Out of the prover's reach: the liveness properties `StopsTerminate`,
`LimitedSettles`, `CommandsSettle`, `EveryoneAnswered` and `StandbyRetired`; and what needs
induction over data, `CountersBalance` and `NoIdleCapacity` (sums over the open requests)
and the part of `HonestStops` about frames (`NoTornFrame`, a fold over bytes).

## Known divergences

Places where the code does something a comment, a document or a careful reader would not
expect. The runs except them by the property's statement or the instance, as said; stating
the definition named here instead (see Runs), or giving the named constants other values,
shows it.

*Concurrent commands* (set `Exclusive = FALSE` in `CutoverSequential.cfg`; the code has no
lock, and `docs/lifecycle.md` asks operators to serialise commands)
- Helm renders every stable Service at the build read before it (`src/cli/deploy.ts:1790`).
  A cutover that ends between that read and the upgrade is undone: traffic moves to a build
  that is being parked. `docs/lifecycle.md:167` says a concurrent promotion aborts "instead
  of moving traffic from stale state".
- E5 and E6 do not read the record again (`src/cutover/gc.ts:155`): a rollback that starts
  between E2 and E5 has its target parked. `service-selector.ts:36` says the swap "also
  protects against simultaneous deploy/rollback commands".
- Of two Jobs the loser restores the edge to the build that served when it started
  (`edge.ts:836`), away from the winner's.
- A retried Job pod re-runs the gates without the bundle; gate D2 checks that the routing
  Deployment rolled out, not which build it runs (`gates.ts:247`, `job-main.ts:88`), so it
  can promote with the edge on the old build. A second pod (`cutover-job.ts:235` sets
  `backoffLimit: 1`) whose build the record has named and a newer Job has replaced promotes it
  again, next to whoever is promoting; `again` excepts it.

*State store*
- A local file ahead of the ConfigMap can become the base of a write that replaces another
  commit of the same generation: S19 compares generations, not ancestry (`state.ts:441`
  against the comment at 426–428). StateLedger allows it as `Restore`.
- A PUT that was applied although `kubectl` was killed is reported as another deploy's
  (`state.ts:684`).

*Promotion*
- A lost answer of the HPA patch leaves the raised bounds behind (`gates.ts:644–656` against
  473–477; `BoundsRestored`). A lost answer of the overlap's final swap makes recovery
  put the original selector back without the overlap (`service-selector.ts:250–277`):
  `AlwaysABackend` excepts that Service (`abrupt`).
- Re-running a rollback that was killed inside the overlap keeps a stale warm label
  (`service-selector.ts:110–113`); outgoing pods replaced during the overlap drop out of it.
- `complete()` may fail after the index was replaced (`retention.ts:216–250`). That does no
  harm while the grace period is at most the preparation window, the hypothesis of
  `ForwardingTheorem`: the markers of the preparation outlast the index. But a configuration
  may ask for 3600 s (`config.ts:212–215`), to which an allowance of 120 s is added, and the
  window is one hour (`retention.ts:78`): then, or when the command takes longer than the
  window less the grace period, cleanup can retire a standby to which requests are still
  forwarded (`PrepWindow = 1`, `Grace = 2` in `Promotion.cfg`). The default of 300 s leaves a
  command 53 minutes.

*CLI* (excluded in `Operations` by the properties' statements)
- A destroy that deleted the plans but kept local state refuses its own re-run
  (`destroy.ts`, about line 1395); what a deleted plan named is then not retried, and an
  unlabelled HPA made by a rollback escapes it.
- After a rollback, an aborted deploy lets Helm prune the build that was rolled back from
  (`docs/lifecycle.md:19` promises it); stable objects of a removed pool lose their keep
  annotation when an aborted deploy renders the pool again.
- Destroy after an aborted managed provision from a checkout rebuilt without one, or for
  another location, reports success and leaves the paid instance (`destroy.ts`, about 1198;
  `managed-cache-cleanup.ts:63`); without coordinates it deletes at the default ones.
- Without a plan and without a complete `infrastructure.json` destroy deletes no cloud resource,
  mentions none and reports that bucket and accounts were removed (`destroy.ts:1234`, 1419; `DestroyTellsAll`). With a plan it ignores the coordinates of the checkout.
- Switching the cache off races another host's preparation (`cache-identity.ts:104`); a
  deploy without a cache deletes the Secret `<release>-valkey` without an ownership check
  (`deploy.ts:2443–2452`).
- A deploy from a checkout whose state survived another's incomplete destroy records a
  rollback target without plan or Secret. `migrate` leaves stable Services unannotated
  (`migrate.ts`, about 258). GC leaves the HPAs of superseded builds.

*Cache and requests*
- A request whose epoch read failed, then a local `updateTags`, lets a value into the front
  that the next preparation does not drop (`use-cache-handler.ts:355` against the comment
  at 364; `EveryHitPostdatesUpdates`). Entries kept that way are `blind`.
- A destroyed socket is replaced without emptying the queue, so its commands get the next
  connection's replies (`resp-client.ts:721` against the comment at 541; `EveryReplyIsOwn`).
  The success handler of AUTH (about 734–738) is unguarded: unasked bytes in the same chunk
  as AUTH's answer destroy the connection first, and the handler then clears `connecting`
  of a newer dial, so that two are dialled and replies shift. `quit()` during a dial
  (858–866) is unguarded too.
- A rewrite within the deployment that then resolves to something other than a route loses the
  header set (`resolve.ts:295` against 252): an external target, of which `HeaderSetTravels`,
  about handlers, says nothing; and a missing path, after which the image optimizer answers
  (`resolve.ts:531–541`, `index.ts:2641`; `HeaderSetAlwaysTravels`).
- An edge copy waits for `drain` outside `withinExecution` (`dispatch.ts:3646`; `MaxDurationSettles`).
- `health.close()` of the routing pod waits for open health connections without a deadline
  (`src/routing-service/server.ts:397`), and `ROUTING_REQUEST_TIMEOUT_MS=0` leaves callouts
  without one: the exit then waits for the peer, and `RoutingStops` says so.
- The execution timer is armed when the writer has failed already (`dispatch.ts:1714–1737`),
  and the prefix is peeked after the head deadline (about 1033).

## Not modelled

- *Build adapter, `emit`, chart templates, target compiler, plan parsing, config*: sequential
  transformations of files and configuration into text. They have no state that two actors
  share and no failure protocol beyond throwing; a model would repeat the code. What the
  release depends on (which build selectors are rendered at, what is kept, when the plan is
  required) is in Cutover, Release and DeployCommand.
- *Path matching, CEL text, classification, cache-control parsing* (`routing-common.ts`,
  `cel.ts`, `classify.ts`): string algorithms whose correctness is about characters, where
  small sets of model values show nothing. RequestPath has what they decide.
- *Generated protobuf code and the conversion to and from it.*
- *`init`, `describe`, `doctor`, `emulate`, `tail`*: prompts, reports and local supervision;
  no other part reads what they change.
- *Image building and digests, kube-context pinning, telemetry*: calls of external tools and
  observations.
- *Handler loading* (`handler-loader.ts`): memoised promises that are dropped when they fail;
  the ladder sees a handler or a failure (Dispatch, Invocation).
- Within modelled parts: first deploys and builds with different pools (Cutover, Promotion);
  routing-history surgery in `edge.ts`; FETCH entries and the codec of the incremental cache;
  reads outside a prepared request in the use-cache handler; an edge verdict whose dispatch
  metadata is malformed (`index.ts:2169–2175`), which a pool treats as none.

## Plan

Models next: first deploys and differing pool sets in Cutover and Promotion; the
routing-history snapshots; overlapping commands in Operations.
