# TraceLattice in TLA+

TraceLattice is an MCP server that keeps *thought sessions*: append-only reasoning
histories with branches, graph edges and summaries, owned by a client, evicted when
they are idle, reset on request, and written to a persistence backend behind the
client's back.  This directory holds TLA+ models of the parts in which those things
overlap, the TLC configurations that check them on small instances, and TLAPS proofs
of the main results for every instance.

Paths below are relative to `src/src/` unless they start with `src/`.

## 1. Inventory of the system

| component | state it keeps | operations | interacts with | what is hard |
|---|---|---|---|---|
| session lifecycle (`core/SessionLifecycleCoordinator.ts`) | phase and admitted-operation count per session, global phase, two global counters, idle waiters, the memoised shutdown | runOperation, runMutation, withSessionReset, withSessionEviction, tryEvictIdleSessions, withGlobalReset, shutdown | wraps every operation of the thought processor and every removal by the history manager; remembers the caller's context in AsyncLocalStorage | operations, exclusives and nested calls interleave; edge-triggered waiters; failures must stay visible |
| persistence buffer (`core/PersistenceBuffer.ts`, `PersistenceWorkQueue.ts`, `PersistenceWriter.ts`) | coalesced work queue, terminal failures, the one active drain generation, FIFO barrier tails, quarantine sets | bufferThought/Backtrack/Branch/Edges/Summaries, deleteBranch, drain/flush/drainSession, timer and size triggers, session reset, eviction and global reset barriers | fed by the history manager, writes to the backend, barriers used by resets and evictions | joinable generations, retries, acknowledgements of replaced work, deletions racing writes |
| reset coordinator (`core/SessionResetCoordinator.ts`) | none of its own | resetSession, resetAll: durable deletion inside the barrier, then replacement of live state | persistence buffer, history manager | partial failure between the durable and the live half |
| history manager (`core/HistoryManager.ts`, `SessionManager.ts`, `SessionErrors.ts`) | live sessions with owner, provenance and last access; expired markers; aux stores | addThought and the other mutations, capacity planning, TTL and idle eviction, resetSession, resetAll, shutdown | lifecycle, buffer, reset coordinator, graph, summary and suspension stores | ownership across eviction and reset, capacity counted before asynchronous work, stale plans |
| session lock (`core/SessionLock.ts`) | promise chain per session | withLock with a timeout | inside every lifecycle operation of the thought processor | timeouts against releases, chain cleanup |
| thought processor (`core/ThoughtProcessor.ts`) | none across calls | process, resetSession, resetAll | composes lifecycle, lock, suspension store, history manager | a tool call and its observation are separate requests |
| suspension store (`core/tools/InMemorySuspensionStore.ts`) | records by token and by session, admission chains | suspend, resume, compareAndAdmit, expireOlderThan, clearSession, clearAll | thought processor, reset | one token raced by two observations, the sweep and a reset |
| connection pool (`pool/ConnectionPool.ts`) | owned sessions, creation lock, terminated flag | createSession, closeSession, touch and time-out, terminate | server factory, transports | asynchronous creation against termination, idle time-outs |
| file persistence (`persistence/FilePersistence.ts`, `FileWriter.ts`) | one snapshot file, temporary files, lock directory with a marker, the queue of mutations | create, every save and clear as load-change-publish, close | used by the persistence buffer as backend; other processes on the same directory | crash or failed operation between any two steps, two processes |
| backends (`MemoryPersistence.ts`, `SqlitePersistence.ts`, `FileSnapshotV2.ts`) | maps, rows, a document | save thought, backtrack, branch, edges, summaries; delete branch; clear; load | persistence buffer, restore | three representations with one contract |
| restore and identity index (`core/PersistenceRestore.ts`, `DurableThoughtIdentityIndex.ts`, `VerificationTargetRestore.ts`, `BacktrackPersistence.ts`) | durable identities per session | staging a start, repair of backtracks, reconstruction of verification targets | backend, history manager | references by a number that is reused, retention on both sides |
| thought graph (`core/graph/*`, `CrossReferenceValidator.ts`) | edges per session | emit on admission, replace, evict, traverse | history manager, evidence, strategies | parallel edges, cycles, evicted and retracted ends |
| compression (`core/compression/*`) | summaries | compress a branch, dehydrate a history | strategies, history manager | summaries that outlive or miss what they cover |
| evidence, evaluation, strategies (`core/reasoning/*`, `core/evaluator/*`) | outcomes, temperatures, hint cool-downs | active evidence, patterns, hints, decisions, calibration | thought processor | what a retraction must not influence; answers computed in several places |
| input and schema (`core/InputNormalizer.ts`, `schema.ts`) | none | normalise, validate, gate | thought processor | defaults, clamping and filtering before validation |
| HTTP transports (`transport/StreamableHttpTransport.ts`, `HttpTransport.ts`, `HttpRequestLifecycle.ts`) | body leases, accepted work, HTTP sessions with their pins, sweep timer, the promise of stop() | connect, POST, sweep, stop | MCP server, command line | timers, lost peers and stop() racing the work; capacity and sweeps against requests in flight |
| registries (`registry/BaseRegistry.ts`, `watchers/*`) with the discovery cache (`cache/DiscoveryCache.ts`) | manual and discovered items, cached list, replacement epoch, the running pass, queued refresh | add, remove, update, clear, setAll, getAll, discover, refresh, watcher events | file system | passes that end after a newer change |
| server and command line (`lib.ts`, `CliLifecycle.ts`, `cli.ts`) | how far the start or the stop has come, exit code | create, stop, signals, deadline, exit | everything | partial failures of the start and the stop |

Formatting and errors, configuration, container, logging, metrics and health keep no state
another component waits for; `PROJECT.json` lists them as not modelled.

What makes each component correct is in the `hazards` of `PROJECT.json`, one entry per
line of code where it bites, with the properties that watch it.

## 2. Modules

| module | models | kind |
|---|---|---|
| `SessionLifecycle` | the lifecycle coordinator | detailed specification |
| `ScopedExclusion` | what the coordinator promises: a two-level readers-writer lock (operations of a session share it, maintenance of a session excludes them, global maintenance excludes everything) | abstract specification |
| `SessionLifecycleProofs` | theorems about `SessionLifecycle`, the refinement included | proofs |
| `PersistenceBuffer` | work queue, writer, drain generation, barriers, and the durable half of the reset coordinator | detailed specification |
| `PersistenceBufferProofs` | theorems about `PersistenceBuffer` | proofs |
| `SessionLock` | the promise chain of `SessionLock.withLock` | detailed specification |
| `FifoLock` | what the lock promises: one section per session at a time, granted in the order of the calls, a waiter may give up | abstract specification |
| `SessionStore` | history manager, session manager and reset coordinator: ownership, expiration markers, capacity, eviction, reset, restart | specification that composes what the lifecycle and the buffer establish |
| `MCSessionStore` | symmetry, and the bound on restarts | model |
| `SessionStoreProofs` | theorems about `SessionStore` | proofs |
| `ToolInterleave` | the requests of the thought processor and the suspension store, over `SessionLock` | specification that extends |
| `ToolInterleaveProofs` | theorems about `SessionLock`, its refinement of `FifoLock` included, and about `ToolInterleave` | proofs |
| `ConnectionPool` | the optional slots of the HTTP transports, with the `Session` objects they hold | detailed specification |
| `ConnectionPoolProofs` | theorems about `ConnectionPool` | proofs |
| `HttpRequests` | the life of a POST request, and `HttpTransport` | detailed specification |
| `StreamableHttp` | `StreamableHttpTransport`: `HttpRequests` with the table of sessions | specification that extends |
| `ServerProcess` | start, stop, signals and exit of the process, over `StreamableHttp` | specification that composes |
| `ServerProcessProofs` | theorems about `ServerProcess` and the transports under it | proofs |
| `Registry`, `MCRegistry` | a registry with its discovery cache and its watcher | detailed specification, model |
| `RegistryProofs` | theorems about `Registry` | proofs |
| `FileStore` | `FilePersistence` over `FileWriter`: processes that share a directory | detailed specification |
| `FileStoreProofs` | theorems about `FileStore` | proofs |
| `ThoughtRecords` | what backends and restore demand of thoughts; what a backtrack does to records | operators |
| `ThoughtGraph` | `EdgeStore` and the traversals of `GraphView` | operators |
| `ThoughtState` | the live state of one session and the admission of a thought | operators |
| `Backends` | the three backends on their own representations | operators |
| `History`, `MCHistory` | one session with its writes, the three backends in lock step, the identity index and the restart | specification that composes, model |
| `Evidence` | active evidence, links, analytics, patterns | operators |
| `Strategies` | both reasoning strategies | operators |
| `ThoughtInputs` | normalisation, schema and feature gates | operators |
| `Reasoning`, `MCReasoning` | the thought processor over one session | specification that composes, model |

`SessionStore` stands on the other modules: its `phase`, admitted requests and
`globalPhase` are what `SessionLifecycle` exports (an exclusive starts when the
operations have ended, and nothing is admitted meanwhile: `LockSpec`), and its
`queued`, `stuck` and `durable` are what `PersistenceBuffer` exports (accepted work is
written or fails: `AcceptedWorkEndures`; evictions and resets find what they wait for:
`BarriersOwn`; any barrier tries the failed work of every session again).  `History` takes the order of its writes from there, and `ServerProcess` only
that a tool call may leave something unsaved which a flush saves.

### 2.1 `SessionLifecycle` and the code

* A *call* is one invocation of the coordinator that has been accepted and has not
  settled.  Rejected invocations change nothing and are not steps; each rejection is a
  guard.  `calls[c].parent` is the call whose callback made it: the coordinator itself
  reads only the innermost context, `ContextOwnsSession` says what it concludes from it.
* `phase` and `active` are the entries of `_sessions`; an absent entry is phase "open"
  with no operation, since `_getState` creates exactly that.  `globalPhase`,
  `activeOperations` and `maintenanceOwners` are the fields of the same names.
* Every promise of the coordinator is edge-triggered.  A waiter is "waiting", becomes
  "ready" when `_release` or `_notifyGlobalIdle` resolves it, and "running" when its
  microtask enters the callback (`Enter`).  Between "ready" and "running" other code runs.
* `CompleteSessionExclusive` and the other completions take the outcome `ok` of the
  callback: the coordinator's success and catch/finally paths.
* `TryEvictIdleSessions` is one step because the code is synchronous.
* `withSessionReset` called again by the callback of the same exclusive runs inline and
  changes nothing; it is not a step.

### 2.2 `PersistenceBuffer` and the code

* A work handle carries its acceptance sequence as a token; handles are never changed,
  so "the current entry still matches the handle" is membership in `queue`.
  Branch, edge and summary work coalesces at a *slot*; deleting a branch is one more
  replacement of the branch's slot.
* `drain` is `_activeDrain` with the write under way; `landed` splits a backend write
  into its effect and its settlement, so that anything may happen in between.
  A backend either applies a write and resolves, or rejects without an effect.
* One action is the code between two awaits: acknowledging a write, notifying the
  barriers and selecting the next work (or closing the generation) happen in one step
  (`Run`, `Progressed`).
* A barrier remembers the generation it joined and, once that settled, the tokens the
  generation had selected: `_sessionQuiescence` still reads them.
* The reset callback is modelled by its effect on the durable store (`ClearSession`,
  `ClearAll`) and by its outcome, which may be a failure before or after the deletion.
* Left out: `withSessionBarrier` (nothing in `src/src` calls it), the counters that
  answer `hasThoughtIdentity`, and a fault of the injected delay between two attempts.

### 2.3 `SessionLock` and the code

* A call is the promise chain's link: `previous` is the `next` promise it found in
  `_locks`, `NoRequest` once that has settled.  `Over` means `release.promise` is
  resolved; `Settles` is when `next` itself settles, one predecessor later if need be.
* The timer's callback and the predecessor's settlement race in the code through the
  order of macrotasks and microtasks: a timer fires only between turns, when no reaction
  of a settled promise is pending, so `Timeout` needs an unsettled predecessor.
* `LocksAfter` is the identity check that keeps an old tail's cleanup from deleting a
  later call's entry.

### 2.4 `SessionStore` and the code

* A thought is the owner that wrote it; `history` is the live chain and `durable` the
  stored one.  The properties ask whose thoughts meet, not what they say.
* `requests` are calls of `process`, `resetSession`, `resetAll` and the clean-up timer.
  A stage is an await of the code: admission and the session lock between `BeginThought`
  and `CommitThought`, the lifecycle's wait before `PlanReset`, the barrier before
  `ClearDurable`, the backend before `Replace`, the settlement before `FinishReset`.
  `preserved` is the owner computed before the barrier and used after it.
* `recency` orders the sessions that count by `lastAccessedAt`; two accesses in one
  millisecond fall back to insertion order in the code, one of the orders modelled.
  A TTL may have passed for any session at any time.
* A direct read (`getBranches` and the like) is one step with no request: it touches
  neither the lifecycle nor the lock when the session is live.
* A barrier joins or starts an explicit generation, and an explicit generation selects the
  retained failures of *every* session (`_findEligible` gets no session).  So `BarrierDrains`
  takes any part of `stuck` away, also sessions whose own reset is between its deletion and
  its discard, and also at the barrier of an eviction.  Which of them the generation has tried
  already is not kept here: any part may be left.
* `Rearm` is an embedder's own `drain`, `flush` or `drainSession`; nothing in `src/src` calls
  `drainSession`.  It may come at any moment but one: while a global reset drains or has
  deleted everything (`GlobalBarred`), where the generation is the barrier's and what such a
  drain would write back is not modelled.
* A deletion leaves three kinds of remains, kept apart from the chain that follows:
  `leftover` is what the queue still holds of the deleted chain, `late` the save that was in hand when
  the barrier discarded the queue, `revived` what has reached the backend after all.
  `Flush` saves one session's backlog at a time, and nothing while a save is in hand: the
  buffer has one active write.
* `Restart` loses everything but what the backend holds, `durable` and `revived`; restored
  sessions have no owner.
* Left out: operation without persistence, shutdown, the contents of thoughts, history
  trimming, and the additional await of a tool observation (see 2.5).

### 2.5 `ToolInterleave` and the code

* A request is one call of `process` or `resetSession`, inside an operation or a reset of
  the lifecycle and then inside the lock, whose variables and actions are those of
  `SessionLock`.  `kind` "over" is a request whose promise has settled while
  its place in the lock's chain has not; the place settles by `SettlePlace`.
* `JoinToken` and `Admit` are `compareAndAdmit` up to its await and after it.  The chain of
  a token is `waitsFor`, its tail `tails`; two requests of one session are apart by the
  lock already, so chains arise between sessions that present the same token.
* `history` is what the live chain accepted.  The code retains the newest
  `maxHistorySize` of it; the store never looks at the history, so an observation may
  answer a call that is no longer retained.
* `phase` is what `SessionLifecycle` exports, "expired" the marker of `SessionStore`.
  Who may use a session is `SessionStore`'s question, so any request may be refused
  (`LeaveSection`, the last alternative of `Admit`, `FailReset`).
* Left out: `clearAll` at a global reset and at shutdown, and the persistence barrier
  inside a reset, during which nobody else is admitted to the session.

### 2.6 `ConnectionPool` and the code

* `owned` and `live` are `_ownedSessions` and `_sessions`: a slot leaves `live` when its
  closing begins and `owned` when its server has stopped; a stop that fails leaves it
  owned, closed to operations, to be closed again.
* `closing` is the attempt in `_closingSessions`: "draining" until the last operation has
  ended, then "stopping" until `server.stop()` settles.  `attempts` is the generation's map
  of attempts; an attempt that was under way is joined, one that failed is not repeated in
  its generation.
* `creator` holds `_createSessionLock`; "aborting" is a `createSession` that awaits the
  closing of a server that came after `dispose()`.  `awaited` is `pendingCreate`.
* Time is abstract: a slot may time out whenever it is owned.  Nested operations run
  inside the count of the outer one and have no step; one that outlives the outer
  operation (the callback does not await it) is not modelled.

### 2.7 `HttpRequests`, `StreamableHttp`, `ServerProcess` and the code

* `phase` "reading" is a request that holds a `PreDispatchLease`, "receiving" one that was
  transferred to the `AcceptedWorkTracker`.  `answer` is what the `ResponseFinalizer` let
  through; `reason` the first cancellation of the lease.  Both transports have the same
  handler, so `HttpTransport` is `HttpRequests` by itself.
* Host, origin, CORS, the rate limit and the static pages refuse or answer a request before
  it takes a lease: one nondeterministic `TurnAway`.  The `/mcp` endpoint and its POST are
  modelled; stateless mode and stateful mode without retention have no table to account.
* `stop()` closes the listener and cancels the leases at once (`Stop`), drops every session
  (`StopTransport`) and resolves when the listener, the leases and the accepted work are
  gone (`StopSettles`).  The shutdown timeout forces the connections (`ForceClose`), not the
  accepted work.
* Time is the choice of a session to have been idle long enough (`expired`).
* `boot` is the next step of `create()` and `cli.ts`; each step may fail, and what is
  undone then depends on how far it came.  `down` walks through
  `ToolAwareSequentialThinkingServer.stop()`, which collects failures and goes on.  `cli`
  walks through `CliLifecycle`, with the deadline over both stops.

### 2.8 `Registry` and the code

* `scan` is the running pass of `_runDiscoveryLoop`: the epoch it was begun for, the
  directory, the files of it still to read and what it has found.  The files are read in
  the order of `Layout` (`IsNext`).  One action is the code between two file operations, so
  edits, events and other callers come between any two.
* `disk` is what the files hold: absent, invalid, plain (no item), or the name of their
  item.  `degraded` remembers that a published pass could not read something.
* `manual`, `byPath`, `items`, `discovered`, `discoveredCount`, `epoch`, `queued` are the
  fields of the class; `cache` is the entry "all" of `DiscoveryCache`, which may expire at
  any moment.
* `watcher` is `_pendingRefresh` with its two awaits.

### 2.9 `FileStore` and the code

* Every file operation is a step, and every step has its failure; a failed write may have
  created the file.  `Crash` is possible everywhere and leaves the disk as it is.
* The rename and the answer to the caller are one step: a crash between them is the same as
  one after the answer, for a caller that is gone.
* A snapshot is the set of mutations in it.  What a mutation does is in `Backends`.
* `OperatorClears` is a human: nothing in the code removes a stale lock or temporary file.

### 2.10 `ThoughtRecords`, `ThoughtState`, `ThoughtGraph`, `Backends`, `History` and the code

* A thought is its id, its number, what it refers to and whether it is retracted.
  `Admitted` is `addThought` whole: retention, registration and eviction of branches,
  retraction in every copy, verification targets, edges, and the writes it stages.
* `Resolutions` is computed from the retained copies.  The code keeps them in
  `ThoughtReferenceIndex`, rebuilt from the same copies on every admission.
* An operation of a backend maps a state to an outcome and a state.  `MemoryLoad`,
  `FileLoad` and `SqliteLoad` translate three representations to the same record, which is
  what `BackendsAgree` compares.  Edges and summaries are sets: every backend returns them
  in the canonical order of time and id.
* A reference that the validator drops keeps its key with the value `undefined`
  (`CrossReferenceValidator.ts:123`, `156`, `220`); `dropped` holds those keys.  `structuredClone`
  keeps them on the way through the queue and in the memory backend; `Plain` is what JSON leaves of a
  thought, applied where the document (`Serialized`, `Published`) and the rows of the tables are
  written.  Equality of thoughts in `Backends` is `isDeepStrictEqual`, which tells the two apart.
* `Write` applies the oldest staged write that was not refused to all three; who refuses it
  keeps it (`refusedBy`), as a terminal failure does in the queue, and later writes pass it.
  `Retry` is what a later explicit drain does with the refused ones; it changes something when
  retention has meanwhile removed the copy they conflict with.  `Restart` may come between any
  two steps and loses what was not written.  A backend that fails to answer is
  `PersistenceBuffer`'s; an edge or branch write never overtakes a newer one
  (`AcceptedWorkEndures`).
* A restart ends the memory backend.  The comparison goes on with one that holds what the
  document does (`MemoryHolding`).
* `aimed` is what a reader of the documentation would call retracted: the ids an admitted
  backtrack was aimed at.
* Left out: the cached lists of tools and skills of a session, `merge_branch_ids`, and
  `persistBranches = false` in the run.

### 2.11 `Evidence`, `Strategies`, `ThoughtInputs`, `Reasoning` and the code

* One step is one call of `_processInner` under the session's lock: preparation, gates,
  references, admission, outcome, evidence, hints, decision and the compression a decision
  triggers.  Tool calls are `ToolInterleave`'s, registration of branches `History`'s.
* Scores are integers (hundred-thousandths); the thresholds are compared exactly.
* `fitted` is the set of outcomes the calibrator's temperature was fitted to; the
  arithmetic of the fit is floating point and left out.
* `PatternDetector` reports intervals; a pattern is the set of its intervals.
* Left out: text and its sanitising, `total_thoughts`, `reasoning_depth`, recommendations,
  metrics of sessions other than their ratios.  A branch name is refused by the normaliser
  or by the schema, with different limits (64 and 50 characters); both refuse.

## 3. Runs

Type invariants are defined in every module, hold in the instances below, and are proved
where section 5 says so; the runs spend their time on the properties that say more.
Several properties are conjunctions of named parts, given next to them in the modules.

| run | what it shows | bounds, and why they are enough |
|---|---|---|
| `lifecycle` | direct mutations respect exclusives (`MutationIsolation`), no wake-up is lost (`NoLostWakeup`), failures stay until repaired and shutdown is final (`OutcomesStand`), every call settles (`EveryCallSettles`), and the coordinator implements the two-level lock (`LockSpec`) | four calls over two sessions: an operation with a nested operation, an exclusive waiting for it, and a global call waiting for all; the proofs cover any number for safety |
| `buffer` | barriers of every kind never overlap, evict only quiescent sessions and reset only what has failed (`BarriersOwn`); no accepted work is lost, appended twice or overwritten by an older one (`AcceptedWorkEndures`); an explicit drain that resolves is complete (`ResolvedDrainIsComplete`); every barrier and every accepted work settles (`EverythingSettles`) | two sessions; two barriers and one work, or one barrier and two works (`MaxCalls`), each with one retry: what can go wrong concerns a work and the one that replaces, precedes or outlasts it, or a barrier that waits on a generation busy with another session |
| `store` | owners never share a chain, live or stored, nor what remains of a deleted one, across evictions, resets and restarts (`ChainIsolation`); live and stored agree and the queue holds nothing of a deleted chain whenever the session serves (`LiveMatchesStored`); evictions spare sessions in use and stay in force (`EvictionsRespectUse`) | two names with room for one, so every creation evicts; two owners and the ownerless context; two requests overlap, with reads and drains outside the lifecycle and failing writes; restarts at any step while one name is in use, and the other name stays unused until the restored session is reset (`RestoredAlone`); any number of steps, since chains are sets of writers; the proofs cover any number, and restarts with any names in use |
| `store_reset` | a documented claim that does not hold (section 6) | two names with room for both, one owner, two requests; nobody reads or drains outside the lifecycle |
| `tool_interleave` | a tool call is answered at most once, by its own chain, and resets leave no record behind (`CallsAndAnswers`); a token goes only with its answer, its time or its chain (`TokensAreNotLost`); every request settles (`EveryRequestSettles`); the lock they take leaks no entry (`NoLeakedTail`), keeps nobody waiting for ever (`NoCallStuck`) and refines the FIFO lock (`FifoSpec`) | one tool call, two sessions, three requests: a call, and two observations that race for its token against the sweep, a reset or an eviction; in the lock's chain, a place that timed out between a section and a call that waits; the proofs cover any number for safety |
| `pool` | `maxSessions` bounds the servers that may run (`CapacityHeld`); a resolved disposal leaves none behind (`DisposalIsComplete`); everything settles (`EveryWaitEnds`) | three callers (two operations on a draining slot and a creation, or a creation, one that waits for it and an operation), room for three, one name more for a server that comes late |
| `server` | the table, the pins and the handlers agree and a session in use is not swept (`SessionsAccounted`); a request ends once, and with the transport at the latest (`RequestsEndOnce`); what the process opened is released, and exit code 0 means that everything accepted was saved (`ExitReleases`); a shutdown ends, even under a tool call that never answers (`ShutdownEnds`) | three requests: one in work, one whose body streams, one to come; two identifiers with room for one session |
| `registry` | the views agree, and a quiet registry shows the files (`CatalogueIsCurrent`); a replacement is not undone by an older pass (`ReplacementIsFinal`); refreshes settle (`RefreshesSettle`) | two directories of one file each that may claim one name; three changes or calls, at any point of any pass |
| `files` | one owner at a time (`DirectoryOwnership`); acknowledged mutations stay and refused ones leave no trace (`AcknowledgedIsDurable`); every call and close() settle (`FileCallsSettle`) | two processes, four starts, three mutations: one published, one waiting, one of the other process |
| `history` | the backends agree but on the branches with a dropped reference, which the document and the tables refuse alike (`BackendsAgree`), the identity index is exact (`IdentityIndexExact`), a restart gives back all that was not refused (`RestartRestores`), retractions hold (`RetractionsHold`) | retention of two live and three durable thoughts, two branch names for one branch of one thought, four ids, five admissions of three kinds of thought (a verification, a backtrack on one branch, a thought on the other): two thoughts leave the durable history, every id and number is reused, a backtrack retracts copies in the history and on a branch; a branch whose merge source is missing is refused, and taken by a later drain when its thought has left the durable history |
| `history_restore` | a documented claim that does not hold (section 6) | as `history` |
| `reasoning` | the traversals of the graph agree (`GraphViewsAgree`); the statistics, links, patterns, graph positions and tree decisions are those of a session in which a retracted thought never was, but for the names of its branches (`RetractionIsErasure`); verifications and outcomes match (`VerificationsAreLabelled`); the dehydrated history covers every thought (`HydratedCovers`) | twelve inputs, each at most once in a behaviour: parallel edges, a cycle, a branch whose copies survive the history, two verifications of one hypothesis, a backtrack, malformed and gated inputs; six admissions and replacements of the session, so that history (5) and branch (2) overflow |

`MaxWork`, `MaxCalls`, `MaxEdits`, `MaxStarts`, `QueueBound` and `MaxAdmissions` bound what comes
from outside.  For safety they only bound the state space; for liveness they say that
admissions pause eventually, which the code needs too: a session fed forever can keep a
joined generation busy.

Deadlock is checked where nothing may stop for good.  It is switched off in `lifecycle` (a
stopped coordinator rejects every call), `pool` (a disposed pool does), `server` (the process
exits), `files` (every process may be down with no start left), `history` and `reasoning`
(admissions are used up).

Sizes (distinct states): `store` 2.4 million, `server` 1.5 million, `buffer` 0.8 million,
`registry` 0.6 million, `history` 0.17 million, `tool_interleave` 0.12 million, the others
fewer than 50,000.

## 4. Fairness

* `SessionLifecycle`: resumed microtasks run (`WF(Enter)`), and every callback settles
  (`SF(Complete)`).  Strong fairness is needed because a callback that makes nested
  calls can complete only between them; the code awaits arbitrary callbacks, and a
  callback that never returns blocks its session by design.
* `PersistenceBuffer`: the backend settles every write attempt, continuations run, and
  the flush timer that `HistoryManager` starts keeps firing.  Nothing is assumed of
  callers: admissions, barriers and explicit drains may never come.
* `ToolInterleave`: a request that can go on does so (`WF(Proceed)`).  Neither the lock's
  timers nor the sweep need ever fire.
* `ConnectionPool`: operations, factories and stops settle.  `SF(Proceed)` gives a waiting
  creation its turn: waiters resume in the order in which they began to wait, but may find
  the lock taken and wait again.
* `ServerProcess`: timers fire (the deadline, the request timer), continuations run, a
  discovery refresh ends.  A tool call need never answer, and no client need send anything.
* `Registry`: file operations complete, chokidar reports what changed, continuations run.
* `FileStore`: file operations of a running process complete, with or without success.
* `SessionStore`, `History` and `Reasoning` are checked for safety only.

## 5. Proofs

### 5.1 `SessionLifecycleProofs`

These theorems are about `SessionLifecycle` for any set of sessions and any finite set of
calls (`ConstantsAssumption`: the null values are not members, the set of calls is
finite so that it can be counted).

`IInv` is the inductive invariant.  `Exclusion` alone is not inductive: that a reset
callback runs alone follows from the session's count being zero since its wait ended
(`WaitOver`), which holds because the phase closed admission (`PhaseOwned`,
`SingleOwner`), and the count means something only if it equals the number of live
operations (`CountersAgree`).  `NoLostWakeup` needs the counters too.  `WellFormed`
says which fields a call of each kind has.

* `Invariance`: `Spec => []IInv`, one lemma per action, under it one step per conjunct.
* `TypeCorrect`, `MaintenanceExcludes`, `MutationsIsolated`, `WakeupsKept`,
  `BookkeepingExact`: consequences of `IInv`.
* `OutcomesAreKept`: an action property, step by step from `IInv`, in two halves
  (`FailuresAreSticky`, `ShutdownIsFinal`).
* `ImplementsLock`: `Spec => LockSpec`.  Initial states map to initial states; each
  action maps to one step of the lock or a stutter.  The holders are the callbacks that
  run: claiming a phase and waiting are invisible, `Enter` of an exclusive is the lock's
  acquisition, and its guards follow from `WaitOver`.

### 5.2 `ToolInterleaveProofs`: the lock

For any sets of sessions and calls.  `MutualExclusion` is not inductive: two calls could
share a predecessor.  The invariant says that the unsettled calls of a session form one
sequence (`Chain`): the predecessor of each is the one before it, the first has none,
the last is the published tail.  A section runs at the head only, hence `SectionsExclude`,
and a tail exists exactly while the chain is not empty, hence `TailsAreLive`.

`ChainIsFifoLock` (`Spec => FifoSpec`) is the refinement of `FifoLock`.  The queue of the abstract
lock is chosen by the mapping: a list of the calls that wait for the session, each behind the
calls ahead of it, which are those its promise transitively waits for (`Predecessors`).

* Such a list exists: `Ordered` is one, the waiting calls in the order of `Chain`.  The calls ahead
  of a call are those before it in the chain (`PredecessorsOfChain`).
* It is the only one (`ListedOnce`): two lists of one finite set that respect one strict order
  agree, by the least place at which they would differ.  So the mapping has the value that the
  proof follows (`QueueIsOrdered`).
* Every action has its lemma: `WithLock` asks, `Enter` of the head of the chain is granted to the head of
  the queue, and only when nobody holds the lock, `Timeout` gives up from any place,
  `Release` returns, and the settlement of a place, early or late, changes nothing.

### 5.3 `ConnectionPoolProofs`

For any finite set of names, any callers and any limit: `TypeCorrect`,
`ServersStopWhenIdle`, `CapacityBounded`, `DisposalLeavesNothing`.

`CapacityHeld` is not inductive, because the room for a server is looked at before the
factory is awaited.  `CreationIsAlone` adds that the holder of the lock is the only
creation and that its room stays free: closing only makes room.  `DisposalIsComplete`
rests on `GenerationIsComplete`: a generation has an attempt on every owned slot and waits
for the creation that was under way when it began, which is the only one that can still
add a slot, and which is over when the generation ends, failed or not.

### 5.4 `PersistenceBufferProofs`

For any sessions, slots and barriers, and any bound on accepted work and retries; the null
values are told apart by `ConstantsAssumption` and `NoDrainAssumption`.  `BarriersOwn`,
`AcceptedWorkEndures` and `ResolvedDrainIsComplete` are proved.  `IInv` has four parts
besides the types.

* `Owners`: each barrier stands once in the FIFO of its session or in the global one, only
  heads have begun, and a global reset that has begun found no session barrier and let
  none in.  That gives one owner at a time.
* `Generation`: tokens are used once, and what a generation has selected and is still queued
  has failed, but for the work being written.  A drain therefore resolves only over an
  empty queue, however many callers joined it and whatever was replaced meanwhile.
* `Quiescence`: a barrier that has seen its generation settle finds of its session only what
  has failed, and an eviction that went on finds nothing.  This is why `BarriersOwn` is not
  inductive: it speaks of a barrier that operates, and this of the await before.  It
  holds because nothing is accepted for a session while its FIFO holds a barrier.
* `Durability`: a pending snapshot is at least as new as the durable one, the work in hand the
  oldest of its slot, a pending thought not yet stored unless its write has just landed.

### 5.5 `FileStoreProofs`

For any processes and mutations and any number of starts (`BoundsAssumption`: the bound is a
natural number).  `DirectoryOwnership` and `AcknowledgedIsDurable` need `QueueOwned`: mutations wait in
the process that owns the directory only, once each, the one being written first.  Without
it a crash could leave a mutation queued somewhere that a later owner publishes.

### 5.6 `SessionStoreProofs`

For any owners and requests and any finite set of sessions, any limits, with and without
direct reads, direct drains and restarts.  `ChainIsolation`, `LiveMatchesStored` and `EvictionsRespectUse` are
proved.  None is inductive: they speak of sessions that serve, and a reset takes a session
out of service, deletes its durable half, and brings it back later.

* `Exclusive` says who is behind a phase: a session under reset or eviction has one request
  that claims it, the global reset is one request, and whoever drains has waited for the
  admitted thoughts and keeps new ones out (`Waited`).
* `Chains` says what is known of a session in any phase: whose its live and stored chains
  are (`DataOf`, where a deletion that is half done suspends only the equality of the two);
  that a marked name is not live but in the last stage of its reset (`Marked`); that the deleted half
  stays deleted until the live half is replaced, and that the owner computed before the
  barrier is still the marker's (`ResetsKeep`, `GlobalKeeps`); and that the clean-up timer never
  evicts a restored session (`TimerSparesRestored`), whose stored chain may belong to
  somebody its empty marker would not name.
* `Relics` says whose work remains of deleted chains, whatever the phase.  A deletion moves what
  the queue holds to `leftover`, which is closed in: it is empty again before the session serves
  (`LeftoverClosed`).  What escapes it, because some barrier or drain tried it again, belongs to the owner
  the reset preserves (`ResetsLeave`), so it meets nobody else when it lands, however late; a
  restored session, which any owner may be the first to ask for, has no remains but the ownerless
  context's (`RemainsOf`).  None of this depends on which barrier re-arms which failure.
* `LiveMatchesStored` is about the chain that serves and the queue.  It does not say that a
  deletion is final: that is `DeletionIsFinal`, which run `store_reset` refutes.
* The order of `recency` matters to none of this, except that a victim is one of the eligible
  sessions (`VictimsEligible`).
* `EvictionsAreOrderly` rests on `MovesSession`, the list of what a step can do to one session.

### 5.7 `ToolInterleaveProofs`: requests and tokens

For any sets of sessions, requests and tokens.

* `UsesTheLock`: the requests implement `SessionLock`, step by step.  What section 5.2 proves of
  the lock therefore holds of them without a new proof: the lock's types, mutual exclusion and the
  order of the calls (`RequestsTakeTurns`).
* `CallsAndAnswers` is not inductive.  `IndexesAgree` (the two indexes of the store are one
  relation) makes `clearSession`, which walks `_bySession`, clear every token of the chain
  that goes; `TokensWereIssued` makes a new token one that no chain has seen.  `CallsAnswered` and
  `TokensKept` follow from both and from the effect of each step on a chain (`CallSuspended`,
  `CallAnswered`, `ChainLeaves`, `RecordsLeave`).
* Neither needs the lock's exclusion: `Admit` looks the record up, admits and deletes in one turn
  after its await.

### 5.8 `ServerProcessProofs`

For any sets of requests and session identifiers and any positive limit on sessions
(`RetentionAssumption`, which the constructor checks).  Only `TypeCorrect` needs a finite set of
requests, as a hypothesis of its own, because `SessionsTypeOK` counts them.

* `Transport` is about the variables of `HttpRequests` and `StreamableHttp` alone, and is kept by
  `TransportStep`, which every step of the process is (`TransportSteps`).  `SessionsAccounted` lacks
  `Leases`: a read that nothing cancelled has told its client nothing and runs under a
  transport that is up.  This is why nothing is dispatched after `stop()`, and why a fresh
  session has no pin.  `RequestsEndOnce` follows from the same conjunct.
* `BootOrder` and `ShutdownOrder` say how far start and shutdown have come.  `ExitReleases` rests on
  one link between the two halves: a server under the signal handlers is told to stop only when
  the promise of the transport's `stop()` has settled, so that no tool call runs
  (`NothingRuns`) when the buffer is flushed for the last time.  The deadline is no exception: it
  ends the wait, and while the transport is not down the server is not told to stop.

### 5.9 `RegistryProofs`

For any directories and files, any names and any number of edits; `ConstantsAssumption` tells the null
value and the markers of a file without an item apart from names and items.  `CatalogueIsCurrent`
and `ReplacementIsFinal` are proved.  Neither half of `CatalogueIsCurrent` is inductive.

* `ViewsAgree` needs the running pass: what it publishes must have one file per name, and it collects
  that file by file, with the items that the registry had when it began standing in for what it cannot read
  (`PassIsSound`, `Claims`, `Retains`).  There are never more
  names than files that claim them, which bounds `discoveredCount` (`CountBounded`).
* `QuietRegistryIsCurrent` speaks of the end of a run.  `PassReadsAsIs` says the same of a pass under way: while
  nothing is pending, what it holds is what the files hold, up to the place it has reached (`Done`,
  `FoundBehind`); `CatalogueShowsFiles` carries it past the publication.  Both stay true because a
  change of a file leaves an event, an event leaves a refresh, and a refresh
  that comes during a pass leaves a queued one (`Pending`): the invariant is lost only when
  one of these is there, and what takes the last of them away begins a fresh pass (`QuietSteps`).
  `RefreshesAreOwed` says that whoever is to make that pass is awake.
* `ReplacementIsFinal` rests on `PassIsSound`: a pass that was overtaken by `clear()` or `setAll()` has
  an older epoch and publishes nothing.

### 5.10 Not proved

`Exclusion`, `MutualExclusion`, `ServersStopIdle`, `CountersAgree` and the type invariants of
the modules above are proved and no longer part of a run.  Only model-checked:

* liveness: TLAPS 1.4.5 proves nothing under fairness or ENABLED;
* `RecencyOrders`: `recency` is filtered with `SelectSeq`, a recursive definition of which the
  library proves nothing;
* `History`, `Reasoning` and the operators under them: their invariants compare what the backends and the
  live state compute with folds over sequences of thoughts, which is induction over data.

## 6. Disagreements

Where the code and its documents disagree.  The first two are checked by a run.

* `history_restore` - `src/README.md:307` says that the restore "ignores an absent retained
  target".  It looks the target up by number (`persistence/BacktrackPersistence.ts:129`), and
  numbers may be reused (`src/README.md:309`): a backtrack that outlives its target in durable
  storage retracts the later thought with its number (`OnlyTargetsRetracted`).  After such a
  misreading the repaired copy of a branch conflicts with the one in the backend, which
  refuses it for good; `BackendsAgree` and `RetractionsHold` are stated apart from it.
  With two candidates for a number the whole start is refused, as documented.

* `store_reset` - `src/docs/reliability-contract.md:65` says that an explicit reset deletes the
  session's durable data and starts a fresh chain, and `core/PersistenceBuffer.ts:410-411` that
  the deletion invalidates the stale queue entries.  The failed entries stay in the queue from
  `clearSession` to `discardSession` (`:437-438`), and meanwhile the barrier of *another*
  session's reset or eviction starts an explicit generation (`:582`) that tries them again
  (`PersistenceWorkQueue.ts:290-298`).  The write lands in the chain that was just deleted, or
  is in hand at the discard and lands later: the session serves an empty chain over a backend that holds
  a thought of the old one, and a restart brings it back (`DeletionIsFinal`).  The instance has no
  reads and no drains of an embedder; with those, one session is enough.

Described here and not run as a violation; where a property states the claim, its definition
says so, and TLC refutes it in the instance given.

* A reference that is dropped leaves its key behind with no value (2.10).  The first save of a thought
  of that kind stores a copy without the key in the document and the tables; when its branch is saved, they
  compare it with the copy that has the key (`persistence/PersistenceScope.ts:70`) and refuse it as a
  "conflicting thought id", while the memory backend takes it, although
  `src/docs/reliability-contract.md:3` says that the three implement the same interface
  (`BackendsInterchangeable` as an invariant of `History.cfg`).  The refused save fails every
  explicit drain of the session, and nothing later in that branch is durable, until retention
  removes the stored copy.  `BackendsAgree` says that nothing else is refused, `RestartRestores` that a
  restart loses no more than this.
* A failed thought is passed by later ones and appended behind them by the next explicit
  drain (`src/docs/reliability-contract.md:57`, writes preserve accepted order:
  `ThoughtsInOrder` as an invariant of `PersistenceBuffer.cfg`).
* A reset computes the owner it preserves before it awaits the barrier; a read outside the
  lifecycle may bind the ownerless session to somebody else meanwhile, and the reset then
  hands the session to its own owner (`src/docs/reliability-contract.md:90`, a foreign-owner
  reset is denied: `ResetPreservesOwner` as a property of `SessionStore.cfg`).
* Capacity is planned when a session is created, not when an owner claims one nobody owned,
  and not when the ownerless context resets a restored session
  (`core/HistoryManager.ts:207-212`): one owner may hold more sessions than its quota
  (`config/ConfigLoader.ts:174`).
* `shutdown()` of the coordinator returns the memoised promise before it looks at the
  context, so a callback that awaits a second `shutdown()` waits for itself, although
  `src/docs/reliability-contract.md:59` says that reentrant upgrades are rejected.  No caller in
  `src/src` does it; `EveryCallSettles` is checked with `ShutdownFromContext = FALSE`, and the
  theorems hold for both values.
* `BaseTransport.stop` documents a "maximum time to wait for requests to drain"; the
  transports bound the wait for connections and join accepted work without a bound.  A tool
  call that hangs keeps `stop()` pending until the deadline of the command line, which is as
  long, exits with code 1 before the server was asked to flush.
* A hint's cool-down "within 3 thoughts" (`core/ThoughtProcessor.ts:158`) counts differences of
  `thought_number`: numbers that go back suppress a hint, numbers that skip repeat it.

Behaviour worth knowing, contradicted by no document:

* `remove()` and `update()` of a discovered item during a pass are undone by its publication;
  `clear()` drops a refresh the watcher had queued (`CatalogueIsCurrent` is stated apart from
  them: `touched`).
* A stale lock directory is never broken, although its marker names a process; a temporary
  file that could not be removed makes every later load fail until an operator clears it.
* A verification loses its target at a restart when the only copy left is in a branch, and an
  outcome or a summary survives its evicted target, so that a reused id is refused a new
  outcome and may be dehydrated into a summary that never covered the new thought
  (`reasoning` gives every thought a fresh id).
* The registration of a branch comes after the references are resolved and may evict the branch
  that held the resolved target.
* With `persistBranches` off the file backend refuses a branch that conflicts with a left-over
  copy of itself; the other two do not look at it.
* The tree-of-thought strategy answers "branch, outside the beam" also for a thought that is
  no leaf; the calibrated confidence never reaches `scoreThought`; `shouldBranch`,
  `shouldTerminate` (not modelled) and `writeSqliteSnapshot` have no caller in `src/src`.

## 7. Plan

Done: everything in the table of section 2, and the proofs of every safety property of its
detailed specifications.  What would come next is in section 5.10: the invariants of `History`
and `Reasoning`, once the sequences under them are described by lemmas that need no induction.

## 8. Not modelled

* `errors.ts`, `ThoughtFormatter.ts`: wording.  Configuration, container, logging, metrics,
  health: read once or written only; their limits are CONSTANTS here.
* The MCP protocol library, the database library, chokidar and the file system are external:
  modelled by what the code sees of them.
* The arithmetic of calibration and of the confidence signals is floating point over one
  history: out of the reach of TLC, and no state of another component depends on it.
* The stdio transport, stateless HTTP, signals before the handlers are registered, and
  `PersistenceBuffer.withSessionBarrier`, `Session.process`, `resume` and other methods that
  nothing in `src/src` calls.
* SQL statements and bytes on disk: `Backends` models what they store.
