# Verification of the proxy

TLA+ models, TLC configurations and TLAPS proofs for this repository: which
credential serves a request, what a request becomes on its way to an upstream and
its answer on the way back, and everything that adds, refreshes, edits, stores or
removes credentials and configuration while requests are running.

`PROJECT.json` ties the models to the code: it maps each definition to the lines
it models and lists the runs, the mutants, the theorems, the hazards of the code and
the disagreements found.

1. [The system](#1-the-system)
2. [The modules](#2-the-modules)
3. [The runs](#3-the-runs), with their bounds and the fairness they assume
4. [Where the code disagrees with its documentation](#4-where-the-code-disagrees-with-its-documentation)
5. [Lapses the models state](#5-lapses-the-models-state)
6. [The proofs](#6-the-proofs)
7. [Not modelled](#7-not-modelled)
8. [What could come next](#8-what-could-come-next)

## 1. The system

The proxy accepts API calls in several dialects, translates them, picks one of
many upstream credentials ("auths"), forwards the call and translates the answer.
All state is in one process; goroutines share it under mutexes, channels and
`sync.Map`s.

| component | state | operations | interacts with |
|---|---|---|---|
| model registry (`internal/registry`) | counts, providers, quota marks and suspensions per model; model lists per client; one `RWMutex` | register, unregister, mark, suspend, resume, cleanup, listings | service, manager, API handlers |
| auth manager (`sdk/cliproxy/auth`) | auths with status, cooldowns and quota, model states; one `RWMutex` | `Execute`, `ExecuteCount`, `ExecuteStream`, `MarkResult`, `Register`, `Update`, refresh | registry, executors, token store |
| service (`sdk/cliproxy/service.go`) | the update queue and its consumer | apply an added, changed or removed auth | watcher, relay, manager, registry |
| watcher (`internal/watcher`) | file hashes, loaded configuration, current auths, pending updates | file events, debouncing, rescans, reloads, the dispatch loop | the disk, service (by a bounded channel), token stores |
| configuration (`internal/config`, `internal/api/handlers/management`) | the configuration in use, `config.yaml` | edits through the management API, saving into the YAML tree, loading and migrating | watcher |
| websocket relay (`internal/wsrelay`) | sessions, pending requests | connect, request, stream, disconnect | service (an auth comes and goes with its session), an executor |
| usage queue (`sdk/cliproxy/usage`) | queue, worker, plugins | publish, register, start, stop | every call |
| signature cache (`internal/cache`) | buckets of signatures | store, fetch, purge | translators, executors |
| OAuth sessions and logins (`internal/api/handlers/management`) | sessions, callback forwarders, callback files | begin, callback, poll, complete, expire | token stores |
| token stores (`sdk/auth`, `internal/store`) | files and their mirror in a bucket, a table or a git remote | save, delete, sync, start | manager, watcher, logins |
| executors (`internal/runtime/executor`) | one call of an upstream | prepare, try hosts, read, report usage | manager, translators, usage queue |
| translators (`internal/translator`) | the state of one stream | convert a request; convert an answer piece by piece or in one | executors |
| response streams (`conductor.go`, `sdk/api/handlers`) | the goroutines between upstream and client | bootstrap retries, forwarding, cancellation | manager, executors |
| thinking settings (`internal/thinking`) | none; the models' support is in the registry's tables | read a setting from the model's suffix or the body, check it, write it for the upstream | translators, executors, registry |
| request handlers, access control, amp, logging, web console, start and shutdown | little or none | conversion and I/O | - |

What is hard in this code:

* **Results of concurrent requests** change the model state, the fields aggregated
  from it, and then, after the manager's lock is released, the registry, in two
  separate calls.
* **Read, work, write back.** Refresh, update consumer and management handlers
  clone an auth, let go of the lock and later replace the whole auth. Management
  edits change a configuration the watcher replaces.
* **Several sources of truth.** Whether an auth may serve a model is answered by
  manager and registry; a token lives in memory, in a file and in a mirror; the
  configuration in memory and in a file with comments, older keys and a hash.
* **Check, then act without the lock.** Buckets of the cache, hashes of the watcher,
  pending requests of a session, ports of the logins.
* **Hand-overs that merge, block and stop**: the dispatch loop behind a full queue, a
  session that dies with requests pending, the queue of usage records, four
  goroutines between an upstream and a client.
* **Crashes and failures between two steps** of saving a token, each store with an
  order of its own.
* **Twenty executors with twenty habits** of retrying and of recording.
* **Conversions that keep state over a stream**, in which formats do not agree on what
  a message, a call or an end is.
* **Limits that meet**: a budget for thinking passes a translator, conversions between
  budgets and levels, clamping and a writer, each with its own view of 0, -1 and "none".

What makes each component correct is what section 3 lists under its run.

## 2. The modules

```
ModelRegistry --> AuthManager --> AuthLifecycle           scheduling
                      ^ AuthState     |                   RegistryLock (alone)
                                      +--> AuthLifecycleProofs
                      AuthManager --> AuthManagerProofs

AuthDispatch --implements--> UpdateMail   (FileProofs)    what is handed over
WsRelay --> AnswerProofs  UsageQueue --> SharedStateProofs (MCHandOver, MCSocketPanic)

Conversations --> {Chat,Claude,Gemini,Responses}Requests --> RequestTranslation
Answers --> {ClaudeEvents,ChatChunks,GeminiChunks,ResponsesEvents} --> StreamTranslation
StreamTranslation --> TranslationProofs --> ChunkProofs
ProviderCalls   ResponseStream --> AnswerProofs           one call (MCProviderCalls)
ThinkingSettings --> ThinkingProofs

FileWatch   ConfigEdits --> FileProofs                    what is shared
SignatureCache   OAuthLogins   TokenKeeping --> SharedStateProofs
ConfigFile                                                (MCSharedState)
```

`-->` is EXTENDS, `^` INSTANCE. Outside `src/`, and so modelled from their use: the clock, timers,
mutexes, `sync.Map`, condition variables, channels, the disk, the upstreams and the
services behind the stores.

Operators commented "Faulty variant" are not part of any specification. Each is a
plausible bug in the definition near it and shows for one property that it can
fail: with the variant in place of the definition TLC finds the property violated.

### Scheduling

**ModelRegistry** is the registry behind its mutex: one action per exported
operation. A client's list is a *bag*, since the code keeps the raw list, compares
counts, and never looks at the order. `Reconcile` is what `RegisterClient` does to
one model of a known client, in the code's order: provider move, removals, surplus
removals, additions, marks cleared. A quota mark holds its *age*, which
`AgeQuotaMarks` advances up to the window of five minutes, beyond which it makes no
difference. `Available` is the listing rule of both listings.

**AuthState** holds the pure functions on one auth: `FailState`,
`NextQuotaCooldown`, `UpdateAggregatedAvailability`, `RecordResult` (the locked part
of `MarkResult`), `IsAuthBlockedForModel`. A `time.Time` is relative to now: -1 is the
zero time, 0 has passed, n > 0 lies n ticks ahead. Status codes are grouped by the
`switch` of `MarkResult`.

**AuthManager** composes both with the goroutines of requests. A request's `pc` walks
through `PickNext`/`PickFails`, the execution, the three steps of `MarkResult` (the
locked one, `MarkQuota` and `MarkSuspension`, each its own critical section of the
registry) and the retry loop. `Execute`, `ExecuteCount` and `ExecuteStream` are copies
of one loop. Any best-priority usable auth may be chosen, which covers round robin and
fill-first.

**AuthLifecycle** adds the other writers: refresh (`RefreshMark`, `RefreshRead`,
`RefreshClone`, then `RefreshOk`, `RefreshFails` or `RefreshCancelled`), updates of the
watcher (`ApplyRead`, `UpdateApply`, `ApplyRegister`, or `RemoveUnregister`,
`RemoveRead`), management (`PatchRead`, `UploadRead`). `withdrawn` is a history
variable. Consumers are a set because `emitAuthUpdate` applies an update inline when
the queue is full.

**RegistryLock** looks at the registry's `sync.RWMutex` alone: readers inside
`GetFirstAvailableModel`, which takes the read lock up to twice, and writers in two
steps, since a writer that waits in `Lock` keeps new readers out.

### What is handed over

**AuthDispatch** goes from the goroutines that find out what the auths are to the
consumer in the service. A refresher is `Forget`, `Snapshot`, `PrepareAuthUpdates`,
`Dispatch`, with no lock held between them; a websocket's auth is `RelayUpdate` and
`RelayDispatch`; the loop waits (`Wait`, `LeaveWait`), takes what is pending
(`TakeBatch`) and sends it (`Send`, `LeaveSend`) into a queue of `QueueSize`; stopping
is `StopCancel`, `StopClear`, `StopDetach`. The consumer takes updates until it is between two of
them and its context is over (`ConsumerEnds`). **UpdateMail** is what this promises: a
mailbox per auth, in which a newer update may take the place of the newest that waits,
handed over in order, nothing dropped before closing, which a stop of the watcher or of the consumer is.

**WsRelay** has, around one session, the handler that connects it (`Connect`, which starts the
heartbeat, `Register`, `Announce`), its reader (`ReadMessage`, `Deliver`, `Finish`), a
goroutine per request (`FindSession`, `StorePending`, `SendRequest`, then
`ConsumeMessage`...), one that waits for the request's context (`WatchContext`) and
`cleanup` by whoever is first: reader, heartbeat (from `Connect` on) or `Stop`. It ends with
`CleanForget` and `CleanTell`, the two halves of `handleSessionClosed`. Each access to the map of pending requests is a step,
since it is a `sync.Map`.

**UsageQueue** separates adding a record from signalling the worker, as `Publish` does,
and closing from broadcasting; the worker's wait, its dispatch and each plugin's call
are steps.

### One call

**Conversations** says how a client of each format writes a conversation and what a
provider of each format makes of a request (*not* code of the repository, hence outside
the map). `ChatRequests`, `ClaudeRequests`, `GeminiRequests` and `ResponsesRequests`
translate the converters, named `ClientAsksProvider` (`ClaudeAsksGemini` is
`ConvertClaudeRequestToGemini`): roles, parts, ids and names of calls and results, tools
and the choice of one. **RequestTranslation** lets a client converse: it says who may
speak, has every request converted, and compares what the provider hears with what was
said.

**Answers**, with `ClaudeEvents`, `ChatChunks`, `GeminiChunks` and `ResponsesEvents`,
translates the sixteen converters of answers that keep state, and how a client reads
each format. A piece of an answer is its number. **StreamTranslation** lets an upstream
say what its format allows, ends or breaks off, and compares what the client read.

**ProviderCalls** is one call by an executor. The executors' methods share actions and
differ by a record of *habits* each (`GeminiExecute`, `AntigravityExecuteStream`...):
how the answer is read, which failures go to the next host, what is recorded, in what
order. **ResponseStream** follows a streamed answer through the executor's channel, the
manager's wrapper, the handler's goroutine and the server's.

**ThinkingSettings** follows what a client says about thinking to what the upstream is told:
`TranslateSetting` is what the translators leave in the body, `ApplyThinking` reads it
(`Config`: from the suffix, else the body), checks it (`ValidateConfig`: `Converted`, `Named`,
`LevelChecked`, the middle instead of "auto", `Clamped`) and has one of the appliers write it,
`SendSetting` is what Claude's executor does when a tool is forced. Level names are members of
`Words`, with "other" for a word of the client's own; "unset" and `Absent` stand for what a body
does not state.

### What is shared

**FileWatch** has the disk, the event queue, the hashes, the timers and the goroutines
that read them: `TakeEvent` and what follows for a config, write, or remove event;
`Rescan`, the reload (`CheckConfig`, `LoadConfig`, `RehashConfig`) and the refresh that
all end in. Any file may be written, removed or replaced. The auth directory is watched by names,
the configuration as the file it was at the start: one moved to its place makes the former one's
removal an event, which is ignored, and `watched` false for good. An empty configuration is loaded,
unless it is empty already when its hash is taken. `pace` is a history of how quickly changes came.

**ConfigFile** is `config.yaml` as a YAML tree and what the program makes of it:
parsing, sanitising, migrating older keys, the merge that keeps comments and unknown
keys (`MergeNodePreserve`, recursive as in the code), and every edit of the management API
for each kind of section. Edits are whole here. **ConfigEdits** has them in steps
(read a section of the object in use, assign it, take the lock, truncate, write) beside uploads and
the reload. An edit is a patch or deletion, which starts from what it read, or a put, which does not.

**SignatureCache** follows one group of models: looking its bucket up and storing or
fetching are separate steps, as are finding the bucket empty and deleting it.

**OAuthLogins** has the six providers' logins: session, forwarder on a port, goroutine
that polls for the callback file, exchange, save, completion, and deadlines. Providers
differ by a record.

**TokenKeeping** has one credential in memory, in its file and in the mirror of the
object, Postgres or git store; everything that saves it (refresh, a request's result, a
status set by the console, a login), `Delete`, the watcher, and a crash and start between
any two steps. A request's result is saved while `m.mu` is held (`ManagerLocked`); other updates
are saved after it was released.

## 3. The runs

States are distinct states; with two workers the three composed runs (`hand_over`, `provider_calls`,
`shared_state`) take two to four minutes each, the others less than two.
`CHECK_DEADLOCK FALSE` throughout: requests that are over, exhausted budgets and idle
locks are proper ends (calls that hang are the subject of the liveness properties).

| run | question | instance |
|---|---|---|
| `registry` | Are the counters exact and do the listings hide nothing? | 2 clients, 2 models, 2 providers and the empty one, lists of up to 2 entries with repetitions, 2 reasons, window 1; symmetry in clients, models, providers; 147,691 states |
| `manager_results` | Is an auth consistent with its model states under concurrent results? | 1 auth, 2 models, 3 requests (one streaming, two alike), every outcome, Retry-After beyond the maximum backoff; 1,062,496 states |
| `manager_retry` | Does every request end? | 2 auths of different priority, one of which may be waited for once, 2 requests (one streaming), outcomes ok and 429, under fairness; 45,524 states |
| `manager_lifecycle` | Do the other writers keep withdrawn auths out, and does refreshing go on? | 1 auth, 1 request, 1 refresher, a consumer with 2 updates, a handler with 1, under fairness; 412,749 states |
| `hand_over` | Does what is handed between goroutines arrive, and do they end? | dispatch: 1 file auth, 1 websocket auth, 2 refreshers, queue of 1; relay: 1 session, 1 request, channel of 2, 2 chunks; usage: 2 publishers, 2 records, 2 plugins; 423,981 states |
| `provider_calls` | Does a call arrive, end, and come back as it was? | conversations of up to 5 turns over 22 converters; every executor method, 1 retry; answers of up to 4 pieces over 16 converters; 2 bootstrap retries of 2 chunks; each of 12 kinds of models (those of the registry's tables, the repository's test of levels, and unknown ones) at each of 7 upstream formats, 9 suffixes, 6 budgets from below -1 to beyond every range, 4 limits of answers; 1,124,202 states |
| `shared_state` | Do files and tables that goroutines share keep what was put there? | see below; 910,679 states |
| `mark_order` | *violated* `SuspendedOnlyInError` | 1 auth, 2 requests, ok and 401 |
| `disabled_undone` | *violated* `DisabledUntilEnabled` | as `manager_lifecycle` |
| `registry_lock` | *violated* `CallsReturn` | 1 reader, 1 writer |
| `socket_panic` | *violated* `NoSendOnClosed` | 1 session, 1 request |
| `edits_lost` | *violated* `MemoryFollowsDisk` | 2 editors of different sections, the reload, no upload |

`hand_over`, `provider_calls` and `shared_state` each hold components that do not meet
each other in the code. A variable `focus`, chosen at the start, says which of them
steps; the others keep one initial state. This is the union of runs of the components,
not their product. `shared_state` has 1 auth file and the configuration in 2 versions
with 2 changes; 11 kinds of sections with at most 2 credentials; 3 editors, 2 of them of one section, and 1
upload; 2 texts, 2 storers, 1 fetcher, 2 buckets and a TTL of 1; 2 logins and 1 callback;
3 tokens, 2 updates, 1 failure and 1 crash.

### What the passing runs show

One type invariant each in `manager_lifecycle` (with those of the registry and the manager),
`hand_over`, `provider_calls` and `shared_state`, and beside it:

Scheduling:

* `CountExact`, `ProvidersExact`: a model's count, and each provider's share, is the
  number of times registered clients list it, over any history.
* `QuotaNeverHides`: a known model none of whose clients is suspended for another
  reason than quota is listed. `ListedWhenMarksExact`: what the doc comment of
  `GetAvailableModels` says holds whenever only offering clients are marked and none
  twice; the by-provider listing keeps it too.
* `MarksLeaveWithClient`, `CleanupInvisible`: a client that stops offering a model takes
  its marks; purging expired marks changes no listing, count or provider.
* `AggregatesExact`, `StatusTellsErrors`: availability, retry time, quota, backoff level
  and error status of an auth are those of its model states.
* `BackoffsBounded`, `CooldownEndsForAReason`: concurrent 429s never push the exponent
  past the maximum; only time or a later result of the same model ends a cooldown.
* `RequestsTerminate`: every request ends.
* `WithdrawnNotPicked`: an auth that a consumer took out of service is not picked until
  an update brings it back, although a refresh or a management call with an older copy
  may enable it again in the manager: the registry is the barrier.
* `RefreshGoesOn`: no stale write of `NextRefreshAfter` stops refreshing for good.

Hand-overs:

* `ImplementsMail`: the dispatcher implements `UpdateMail`. `ConsumerFollows`: once all is
  handed over, the consumer knows what the watcher knows.
* `StopEndsLoop`: a stop that was begun ends the loop, wherever it waits, also when the consumer has
  ended before it and the queue stays full.
* `StreamsEndHonestly`: a relayed stream is passed on as complete only if the client
  completed it. `AuthGoesWithSession`: a session that was cleaned up is
  forgotten and its auth withdrawn, unless that was done before it was registered or announced.
  `SessionEndsRequests`: a caller waiting on a session that ends is let go.
* `HandledInOrder`, `StopDrains`: each plugin is handed every record taken since it was
  registered, once and in order; after `Stop` the worker ends with nothing left.

One call:

* `RequestsArrive`: the provider hears every part the way carries once, from the one who
  said it, in order; a result is taken to be of its call; results follow their calls; tools
  and the choice of one mean the same.
* `AllHostsAsked`: a call gives up for its hosts' sake only after the last of the last
  round. `RecordTellsOutcome`: the usage record is that of the outcome. `RequestsEnd`:
  calls end and close their bodies, and the goroutines of a streamed response end.
* `AnswersArrive`: what the upstream said arrives whole and in order, in a stream and in one
  piece, with the reason it ended for; an answer that broke off does not look whole.
* `ClientNotMisled`: what a client is sent comes from one attempt, and ends as complete
  only if that one did.
* `SettingsInRange`: what an upstream is told about thinking is what the model supports: a
  budget in its range, 0 and -1 only where allowed, a level it has, and for Claude less than
  the answer may be long.
* `ThinkingHonoured`: a client that asks not to think gets no thoughts or the least the model can
  do, one that asks to think does not find it off, and a refusal has its reason in what was asked.

What is shared:

* `SlowChangesPickedUp`: the watcher ends up knowing what is on disk, if changes are not
  hastier than its debouncing; of the configuration, as long as it is the file that is watched.
* `SavesKeepFile`: what an edit left in memory is what a restart reads; reloading
  settles.
* `UncrossedEditsKept`: requests that meet only each other lose no edit, in whatever order they
  change, lock and save, unless two read one section before either assigns it.
* `SignaturesFound`: a cached signature is found until its TTL, unless a bucket is deleted
  under someone's hands.
* `LoginsUndisturbed`, `WaitingEnds`: what the console is told of a login is true; a login
  keeps its port until a later one takes it; a waiting login ends.
* `TokensKept`: no token goes back to an earlier one, a deleted credential stays deleted
  and mirrors agree, through crashes and failures, if updates do not cross.

### Bounds, and why they suffice

* Two clients are the least for one's marks to weigh on the other; lists with a
  repetition and two providers cover every branch of `RegisterClient`; for the counters
  the size does not matter, since they are proved (section 6).
* One auth with two models and three requests lets two results of one model and one of the
  other interleave; auths do not share state.
* Durations are shrunk but keep their order (transient < access < not found; backoff base <
  maximum; a Retry-After beyond both). A window of 0 or 1 ticks keeps marks that count and
  marks that have expired apart where a property looks at them; the runs with 0 do not
  look at listings.
* `manager_lifecycle` uses the outcome "other" only: others add cooldowns, which
  `manager_results` covers. `MaxWait` is one tick: with a longer one more cooldowns may be
  waited for, but attempts are counted in the same way.
* A queue of one is full as soon as one update waits: sends block and pending updates are
  merged. Two refreshers are what a stale snapshot takes. The websocket auth connects and
  disconnects (`RelayLimit`).
* One session and one request meet in every way the relay's goroutines can, since sessions do not
  share state and requests of one session share only its end. A channel of two chunks is
  full before the answer ends.
* Five turns are a system's, a question, an answer with calls, their results, and another
  question or answer; a turn has up to three parts, so that text lies between and after
  calls and results may be given in another order. Four pieces of an answer open, extend and
  end an item and open another.
* Budgets -5, -1, 0, 500, 8192 and 200000 lie below, in and above every model's
  range (0, 128 or 1024 to 24576, 32768 or 128000) and on either side of its least budget; limits of 0 (none), 1, 1000
  and 64000 leave no room, less than the least budget, or enough. Models differ in what
  `ThinkingSupport` says, and the tables hold each kind once.
* Two edits of one section and one of another are what edits can meet in memory and at the lock; an
  upload and a reload are what they can meet beside.
* Two hosts and two rounds (`RequestRetry` 1) let a call fail on each and start over;
  `BootstrapRetries` is 2 so that an attempt fails between two others.
* Files do not share state in the watcher but for the reload and the rescan, which one file
  and the configuration cover. Sections of the configuration are saved and loaded by
  themselves. Two credentials of one key, one with another URL, are what matching by identity
  can confuse.
* A crash, a failure and two updates: an update, a failed one or a crash in it, and the one
  that has to live with what it left.
* `MaxCopies`, `Lists`, `OutcomeKinds`, `RetryAfters`, `UpdateLimit`, `RefreshLimit`,
  `ChangeLimit`, `LineLimit`, `PieceLimit`, `TurnLimit`, `TokenLimit`, `FailureLimit`,
  `CrashLimit`, `BucketLimit`, `RecordLimit` and `PluginLimit` are bounds of the
  instances, not of the code.

### Fairness

* `ManagerFairness`: the clock advances; a goroutine that can run runs; an upstream call
  ends (the HTTP transports time out). Cancellation is never assumed.
* `LifecycleFairness`: the clock advances; a refresh call under way ends; the refresh loop,
  which has a ticker and looks at *every* auth, marks an auth that stays due, for which it
  starts a goroutine of its own; an update that was begun ends. No update is assumed to
  arrive.
* `LockSpec`: a goroutine inside the registry goes on whenever the mutex lets it; the loop
  over models is finite, hence strong fairness of leaving it. No call is assumed to begin.
* `DispatchFairness`: the loop runs, the consumer until it ends, and a stop that was begun goes on. No
  stop, no refresh and no end of the consumer is assumed; that may come before the stop, since both
  follow from the service's context (service.go:124, :638, :659).
* `RelayFairness`: a session's and a begun request's goroutines run until the program has
  crashed. The client of the websocket need not answer, and a session need not end.
* `UsageFairness`: the worker runs; a publisher or `Stop` between its unlock and its
  signal goes on. No `Stop` is assumed.
* `CallFairness`: a call that was prepared goes on (transports time out, waits have timers).
* `StreamFairness`: the goroutines run; an upstream ends once its execution was cancelled.
* `LoginFairness`: a login's goroutine runs and its five minutes pass. No callback is assumed.

## 4. Where the code disagrees with its documentation

1. **Nested read lock** (`registry_lock`). Between the read lock of
   `GetFirstAvailableModel` and that of `GetAvailableModels` a writer may ask for the lock:
   it waits for the reader, the reader for it, and every later user of the registry for
   both. Reached through the model name "auto".
2. **Order of marks** (`mark_order`). A failure and a success for one pair update the manager
   in one order and the registry in the other: the pair stays suspended with no error in
   the manager.
3. **Disable undone** (`disabled_undone`). A refresh that cloned the auth before it was
   disabled stores the clone afterwards; the auth is enabled again.
4. **A send on a closed channel** (`socket_panic`). The goroutine that reads a websocket finds
   a pending request and sends to its channel after a cleanup or the request's context has
   closed it: the program ends, although "Stop gracefully closes all active websocket
   sessions".
5. **An edit lost to a reload** (`edits_lost`). `config.yaml` is truncated before it is
   written; a reload that reads it then loads an empty configuration, which is valid, and
   afterwards records the hash of what was written since: the change of `config.yaml` is not
   picked up.

## 5. Lapses the models state

Where a property excepts something, the code does it. The definitions that except are
named.

Registry and manager (`ListedWhenMarksExact` and others except): a 429 and a 401 of two
concurrent requests leave one auth with a quota mark *and* a suspension, and the listing
subtracts it twice (model_registry.go:736 against the comment at :698);
`config.example.yaml:67` lists codes that are retried, while `shouldRetryAfterError`
excludes none but 200 (conductor.go:1103).

Watcher: `pace` excepts changes hastier than the debouncing (a truncated file whose hash is
recorded, a file removed within the second before), `watched` a configuration that was removed,
replaced or moved away: the file is watched and not its directory (events.go:30), so that one moved
to its place shows as the removal of the old one, which is not among `configOps` (events.go:69), and
neither it nor any later change is loaded. `Forget` leaves an auth a concurrent
refresh has just read. Dispatch (`heldTwice`): two refreshes at once compare with the current auths in
one order, under the lock, and dispatch in the other (dispatcher.go:89): the consumer is left with the
older update, and later comparisons find nothing to correct.

Configuration (`FileKeepsEntries`, `SameCredentials`, `met`): of two requests that patch or delete in
one section, both answered with ok, one is lost if each read the list before the other assigned it
(config_lists.go:67, :91), as is one that crosses a reload or an upload; headers removed from an entry that keeps
others stay in the file; so does the last upstream key of Amp;
`error-logs-max-files: 0` is not written if the file has no such key, and loads as 10; an
emptied alias map gets the default aliases again.

Relay (`early`): a session whose heartbeat fails, or that `Stop` closes, before it is registered or
announced stays with the manager or leaves its auth behind (wsrelay/session.go:61). Modelled as they are: a chunk dropped on a full buffer
(session.go:108), a partial body that is a success without streaming (http.go:58), and
`s.pending` overwritten while in use (session.go:182).

Signature cache (`undercut`): the purge deletes a bucket after it has let go of its lock
(signature_cache.go:86).

Logins (`expired`, `replaced`): an expired or unknown state reads "ok"; a session stays
pending when its forwarder fails to start; a callback file may be read half-written.

Token stores (`crossed`, `failed`, `dropped`): a save without news succeeds without the upload
that failed before; a result that persists during a delete brings the file back, and a
refresh under way the credential; a result that persists between a login's save and the
watcher's turn overwrites the login's token; updates may save in the opposite order of their
application; files are written in place, and a crash leaves an empty one, but for the store that
renames; only the file store keeps the disabled flag; a push that failed is not repeated when
the worktree is clean; the token an iFlow refresh rotated is dropped if the user info after it
fails; a Codex retry after a lost answer uses a consumed token.

Executors (`RecordTellsOutcome`, `habit.ensures`): Gemini, Vertex, Gemini CLI, Claude, Codex,
Qwen and AI Studio do not record a call whose answer tells no usage; a refusal before the
reporter exists is not recorded at all; an AI Studio stream closed silently ends as a success.

Requests (`Missed`, `Mistaken`, `RoleLost`, and the exceptions in `ResultsFollowCalls` and
`ChoiceTold`):

* not carried: chat's "developer" message to Claude, Claude's system as a string to Codex,
  Gemini's `systemInstruction` in camel case to Claude and Codex; images from Claude to
  Gemini and the CLI, from Gemini to Codex, from Responses to OpenAI, from Gemini to Claude
  in camel case and to OpenAI in snake case; text beside results from Gemini to
  Antigravity and the CLI;
* thoughts sent back by a Gemini client become plain text at OpenAI, Claude and Codex; other
  ways drop them, except where the provider can use the signature;
* results: the names Claude's get at Gemini and the CLI are never the call's; at Antigravity
  not for ids made elsewhere; Gemini's go all to the last call at OpenAI, and to calls in
  turn at Claude and Codex, wrong in another order; calls of Responses with something between
  them are not paired at the CLI and Antigravity, and become messages of their own at OpenAI;
* choices: Claude's are "auto" at Codex, and "none" becomes "auto" at OpenAI; a tool named by
  Responses loses its name at Claude and is a string of JSON at OpenAI; the Gemini family
  gets no choice; Claude's built-in tools become functions at OpenAI, Responses' at Claude.

Answers (the notes of `StreamTranslation`, `ChunkGarbled`, `BlockGarbled`, `ReasonGarbled`,
`WholeLosesContent`, `WholeLosesReason`):

* to chat, from the Gemini family: two texts of a kind in one chunk overwrite each other; a
  later call may get an earlier one's index; "max_tokens" for "length"; from Codex in one
  piece: only the last text and reasoning, and "stop" even with calls;
* to Claude: the reason is lost if the call came in an earlier chunk (Gemini, CLI); an empty
  text closes a block (Antigravity), and a broken-off stream is ended as if whole, since
  "[DONE]" is translated before the error of the scan is looked at; text comes before
  reasoning in one piece (OpenAI);
* to Gemini: a call is sent again with every later event (Codex); a limit becomes STOP
  (Claude); a chunk with text drops its calls and its finish, the first chunk with a role
  is dropped, calls come in the order of a map (OpenAI); with `alt` set Antigravity's answer
  is always "[]";
* to Responses: only the first of a chunk's calls, and all calls in one item (OpenAI); only the
  last reasoning is in the completed output (Claude); a thought after reasoning was closed
  is dropped (Gemini);
* no converter knows Codex's `response.incomplete`.

Thinking (`SettingsInRange` and `ThinkingHonoured` except):

* `NoRoomAtAll`: with `max_tokens` 1 for Claude the adjusted budget is 0, which
  `normalizeClaudeBudget` does not take for one below the least (claude/apply.go:117), although
  its comment (:118) leaves the request unchanged then;
* `Unwritten`: models are looked up by name in all tables (model_registry.go:138), and an applier has no
  form for a model of another upstream's kind: the body goes out as it was carried over for budgets at OpenAI
  and Codex (openai/apply.go:52), levels at Claude (claude/apply.go:65) and models without a switch at
  iFlow (iflow/apply.go:58), and a setting in the suffix is lost (`LeftAlone`);
* `MediumAssumed`: "auto" becomes "medium" at models with levels only, whether that is one of them
  (validate.go:169); `LevelLeft`: at Gemini such a model told not to think gets its thoughts hidden and keeps the
  level it had (gemini/apply.go:126);
* `BudgetRefused`, `DefaultRefused`: a level that a translator made, of a budget on the way to iFlow or of
  nothing on the way from chat completions to Codex (codex_openai_request.go:62), is refused as if the client had
  asked for it (validate.go:108);
* `SuffixUnread`: a suffix that cannot be read still takes precedence, so that the body's setting
  goes out unchecked;
* `NotCarried`: Claude's "disabled", and "enabled" without a budget, do not reach the Gemini family;
  `LevelIgnored`: a level in the suffix does nothing at Claude for an unknown model, unless the
  client's format has levels;
* `TakenOut`: Antigravity's Claude gets no setting where its least budget has no room;
  `ToolForced`: Claude does not think when a tool is forced.

## 6. The proofs

Everything below holds for all values of the constants, under each module's ASSUMEs
(finite sets of clients, bounds that are natural numbers, a `Gone` that is no content, sections that
share no request...).

| theorem | module | states |
|---|---|---|
| `RegistryCountersExact`, `ProviderCountersExact` | AuthManagerProofs | `RegistrySpec` keeps `RegistryTypeOK`, `CountExact` and `ProvidersExact` |
| `AvailableListed`, `QuotaHidesNothing` | AuthManagerProofs | ... and `ListedWhenMarksExact`, `QuotaNeverHides` |
| `MarksLeave`, `CleanupUnseen` | AuthManagerProofs | the action properties `MarksLeaveWithClient`, `CleanupInvisible` |
| `ResultsAggregate`, `ResultsBoundBackoff`, `ResultsTellErrors` | AuthManagerProofs | `ManagerSpec` keeps `AggregatesExact`, `BackoffsBounded`, `StatusTellsErrors` |
| `CooldownsEndForAReason` | AuthManagerProofs | the action property `CooldownEndsForAReason` |
| `WithdrawnStaysOut` | AuthLifecycleProofs | `LifecycleSpec` has the action property `WithdrawnNotPicked`, for one consumer |
| `LifecycleTypes`, `SystemBoundsBackoff` | AuthLifecycleProofs | `LifecycleSpec` keeps `LifecycleTypeOK` and `BackoffsBounded` |
| `SystemUsesRegistry` | AuthLifecycleProofs | `LifecycleSpec` changes the registry only by steps of `RegistryNext` |
| `SystemCountsExact`, `SystemListings`, `SystemMarksLeave` | AuthLifecycleProofs | so `LifecycleSpec` keeps `CountExact`, `ProvidersExact`, `QuotaNeverHides`, `ListedWhenMarksExact` and has `MarksLeaveWithClient` |
| `UsageHandledInOrder` | SharedStateProofs | `UsageSpec` keeps `UsageTypeOK` and `HandledInOrder` |
| `DispatcherIsMail`, `DispatchTypes` | FileProofs | `DispatchSpec` implements `Mail!MailSpec` (the safety half of `ImplementsMail`) and keeps `DispatchTypeOK` |
| `ConsumerAgrees` | FileProofs | `DispatchSpec` keeps `ConsumerFollows` |
| `RelayedStreamsHonest` | AnswerProofs | `RelaySpec` keeps `RelayTypeOK` and `StreamsEndHonestly` |
| `AuthLeavesWithSession` | AnswerProofs | ... and `AuthGoesWithSession` |
| `CallsTellOutcome`, `CallsAskAllHosts`, `CallsHoldOneBody` | AnswerProofs | `CallSpec` keeps `RecordTellsOutcome`, `AllHostsAsked` and `OneBody` (the safety half of `RequestsEnd`'s bodies) |
| `ClientsNotMisled` | AnswerProofs | `StreamSpec` keeps `ClientNotMisled` |
| `SentSettingsInRange` | ThinkingProofs | `ThinkingSpec` keeps `ThinkingTypeOK` and `SettingsInRange` |
| `SettingsHonoured` | ThinkingProofs | ... and `ThinkingHonoured` |
| `SlowChangesFound` | FileProofs | `WatchSpec` keeps `SlowChangesPickedUp` |
| `EditsKept` | FileProofs | `EditsSpec` keeps `UncrossedEditsKept` |
| `CachedSignaturesFound` | SharedStateProofs | `CacheSpec` keeps `CacheTypeOK` and `SignaturesFound` |
| `LoginsKeepApart` | SharedStateProofs | `LoginSpec` keeps `LoginsUndisturbed` |
| `CredentialKept` | SharedStateProofs | `TokenSpec` keeps `TokensKept` |
| `BlockAnswersArrive` | TranslationProofs | `TranslationSpec` keeps `AnswersArrive` on the routes from Codex and from Claude (`BlockRoute`) |
| `GeminiAnswersArrive` | ChunkProofs | ... and on those from Gemini, Gemini CLI and Antigravity to chat completions (`GeminiChat`) |


*Registry.* `CountExact` is not inductive alone: a registration is deleted when its
count reaches zero and its provider counters go with it, and decrements stop at zero, so
that "deleting is the right thing" needs counts and provider shares to be exact together.
`RegistryInv` is their conjunction with the type invariant. A counter is the cardinality of a
set of listings, pairs of a client and an index; an operation changes the listings of one
client; `TotalReplace` says the size then changes by exactly what that client's share changes
by. `AddFacts`, `RemoveFacts` and `ReconcileFacts` compute what the operations do to one
model's record, by the cases of the code; `ClientStep` joins the two; `UnregisterInv`,
`RegisterInv` and `MarkInv` are the actions. From exact counts the clients that offer a model
are at most its count (`OfferersCounted`); with exact marks the subtracted sets are disjoint
sets of offering clients that leave out the free one (`UnimpededAvailable`). A purged mark was
one no listing counted (`PurgeStep`).

*Manager.* What `Earliest` and the largest level return for any finite set comes from a least
or greatest element (`SmallestExists`, `LargestExists`). `AuthOK` is inductive for one auth:
every path of `RecordResult` ends in `UpdateAggregatedAvailability` of an auth in which one
model's state was renewed (`Renewed`, `RenewedTo`), and aggregation is exact whatever it
starts from; a cooldown that has run out is dropped by it, one that has not stays. A backoff
level stays at the first one that reaches the maximum, since the code raises it only below
(`StateBounded`). Finitely many models are assumed (`ManagerAssumption`).

*Lifecycle.* A withdrawn auth may be enabled again in the manager, by anyone who holds an
older copy, so the argument is about the registry: only a consumer registers (`AppliesOnly`),
and an auth in `withdrawn` has an empty list there while no update held by a consumer is for
it (`WithdrawnOut`). Picking asks the registry. The theorem assumes one consumer: with two, as
when `emitAuthUpdate` applies inline beside the queue's consumer, one may be about to register
the auth for an earlier update when the other withdraws it.

*Update dispatcher.* `StatesOf` sums up a sequence of updates for one auth. What it does to a
longer sequence, to a tail and to a batch (`StatesOfLonger`, `StatesOfTail`, `StatesOfBatch`)
takes induction over sequences, done here for a *set* of them (`AllNumbers`, `AllSequences`: a
set that holds the first and with each one the next holds them all). With those lemmas the refinement goes step by step: a dispatch
is `Submit` (`WayMerged`: it appends, or replaces what waits), the loop moves updates and
changes no mailbox (`WayBatched`, `SentKept`), the consumer's step is `Hand`, a stop is `Close`,
as is the end of the consumer, and what the stop or the cancelled loop throws away is `Abandon` (`PartKept`). `ConsumerFollows`
holds because whoever alone holds an update of an auth holds what became current, and what
nobody holds is on its way or applied (`FollowInv`); that needs `forgotten` auths to be
gone from `currentAuths`, so that finding one again is always a change.

*Usage queue.* `HandledInOrder` is strengthened by what the worker holds: records in the queue
are consecutive, the one in hand is the last taken, and a plugin registered since the
worker copied the list has been handed nothing and starts after that record. The actions
then differ only in whose turn it is.

*The whole system.* `SystemInv` puts the registry's invariant beside what the manager's
goroutines hold: whole auths whose backoffs are bounded (`AuthBounded`), an auth to work on
while they are not idle, an outcome while one is recorded. Each step either leaves the registry
alone or is one of its operations, on a client and a list it may be given (`RegistryStep`,
`SystemStep`); so the loaded registry being exact (`LoadedRegistry`), all that
is shown of the registry holds with requests, refreshes, updates and management calls running,
for any number of consumers. `AggregatesExact` and `StatusTellsErrors` do not hold here: an auth that was
enabled is active whatever its models say, and a torn clone pairs fields with later states.

*Relay.* A message that ends an answer well is followed from the client to the caller: it is in
the reader's hands (`HeldHonestly`) or in the request's channel (`ChannelHonest`) only if the
client has finished, and a client is not asked before the request is sent (`NotAskedYet`). For
`AuthGoesWithSession` the handler's progress is set beside the cleanup's (`CleanedEarly`): what is not there
after `CleanForget` or `CleanTell` can only come back by a handler that had not got to it.

*Calls.* Of the habits only one fact is needed, `HabitsTemperate`: a failure that moves on to
the next host is the host's, and who moves on for want of capacity starts over as well. Until
the end nothing but a success is recorded, and only together with what was told of usage
(`RecordInv`); every way to the end then leaves the record its outcome calls for.

*Streams.* Only the attempt the handler is at can be heard, and it starts another one only while
nothing was sent (`VoiceInv`). The error of an upstream that broke off is followed on its way
through four goroutines, each of which may drop it only if the client has left or the server
is done (`ErrorInv`).

*Thinking.* `ThinkingInv` follows the request by its phase. What a translator may leave for a
format is `Carries` (Claude has no levels, Gemini a budget or a level); from that, or a suffix,
only an `Asked` setting can be read; validation makes it `Checked`, `Ready` once a middle was
chosen for "auto", and `Fits` after clamping; each writer turns what `Fits` into a body that is
`Supported`, the property. `ThinkingAssumption` is what the registry's
tables keep to (`Offered`), whichever upstream a model is asked of: budgets or levels or both; a range whose
ends are in order, that ends above 1 and starts at 0 only if 0 is allowed, and not for a Claude or a model that
has levels too; and among levels a lowest one and one of the standard ones. Where applier and model do not
fit the body goes out as it was carried over, and that this is so is proved (`Unwritten`). Trying the proof
showed `NoRoomAtAll`, which no chosen limit had hit.

`ThinkingHonoured` goes the same way, for what was meant instead of what is allowed: what is
read of a body that was carried over is what the client said (`Heard`, one lemma for each of
its formats), unless it was `Lost`; validation never refuses `Off` nor makes it anything else
(`NoneValidated`), leaves what thinks thinking (`ThoughtValidated`, which needs that a nearest level
exists), and refuses for one of four reasons (`Refusals`), each found again in the request
(`RefusalHeard`), unless a translator made the level that is refused (`BudgetRefused`, `DefaultRefused`);
and what the writers make of either has its effect (`Quiet`, `Aloud`). A model outside of the tables
would break it: one whose range is 0 to 1 is switched off by "auto", its middle being 0.

*Watcher.* As long as changes are slow at most one file is not settled (`OneBurst`), and for that
one `AuthBurst` or `ConfigBurst` says how far its events have got: a hash that is that of the
file goes with an auth that is (`AuthGoesWithHash`); one that was dropped is followed by a write
still to be handled (`Dropped`); a configuration that is not loaded has an event, the timer
or a reload before its check on the way, as long as the configuration is watched; once it is not, it
has no burst and nothing is promised of it. The rescan reads all files and disturbs neither.

*Edits.* While nothing has crossed, memory is what the edits amount to, and the disk is, or
some request is on its way to write it: the one that holds the lock and saves what memory
holds, or one that has applied its edit and not yet taken the lock (`OnItsWay`). What a request has
read of its section is then still what the section holds, as sections share no request
(`SectionsApart`), so that its assignment undoes no other.

*Signature cache.* What a goroutine holds is a bucket looked up earlier, so the invariant
is about buckets no longer in the table: as long as none was deleted under someone's hands,
they hold nothing that lives (`OthersEmpty`), and who is about to store does so in the one in
the table (`StoringHere`).

*Logins.* A token is saved only on the way to a good end (`OutcomeTold`), so that a failed session
has no token and a missing one has, in its provider, some login that completed or expired; a
login listens on its port from entering its forwarder until it stops it, unless a later one has
taken its place (`PortKept`).

*Token stores.* That the mirror follows the file of a bucket or a table is inductive whatever
crosses (`MirrorFollows`), once it is known that an upload finds its file unless a delete is
under way (`UploadFinds`). The rest holds while nothing has crossed (`UncrossedInv`): one update
is under way and, until it comes to the file, the watcher is done with the one before (`Alone`);
the file has what the last update left or this one writes (`FileKept`); the watcher has
seen it or will look (`SeenKept`), and what it looks at it will have synced (`WillSync`), so a
bucket that is behind or a commit that is missing is on its way unless its call failed
(`BucketKept`, `RepositoryKept`); and the tokens in memory, in the file and between them are not
spent unless a refresh that spent one has yet to put its new one there (`TokensGood`). A crash
between updates with nothing failed then finds the directory as it was, wherever it is read
from (`SameLoaded`).

*Translations.* Converters and clients read lists with `FoldLeft`, and the theorems on induction take
an operator, which the provers cannot instantiate. What a fold makes of one element more is shown
instead through *sets*: the fold by a function h has a graph over the places read (`Folds`,
`FoldExists`, `FoldAgrees`), so that a fold of the models, once found to be such a graph, has its equation
(`FoldedAppend`, then `RunOf`, `CallsOf`, `JoinedOf`, `TakeCallsOf`...); and a set of sequences that
holds the empty one and with each the longer ones holds them all (`SequencesFrom`). From these
come the laws of joining (`JoinedTwice`, `JoinedFilled`, `JoinedGrows`, `NormalIsJoined`).

`Upstream` is what holds of what Codex or Claude has said: the open block is the last item told. On
top of it each route has an invariant (`CodexClaudeArrives` to `ClaudeResponsesArrives`) that says, in
terms of what was told, what the converter keeps and what the client has: the same items for a client
of Claude's, with the converter's count of blocks (`MessageSoFar`); runs and whole calls for one of
chat completions (`Completes`), without the call of the open block where the converter
keeps it back (`Heard`); parts that join to what was heard for one of Gemini's (`Gathers`); items under
their ids for one of Responses (`Named`), whose converter collects a second copy for the whole
output (`Collected`). Each event is followed from the upstream through the converter to the client
(`CodexClaudeHears` and its like). Where a route garbles order or reason, as section 5 lists, the
invariant holds up to the lapse, and that the lapse is noted before it matters is part of the proof.

*Translations, in parts.* Upstreams of Gemini's family and of chat completions send chunks of up to
two parts, and arguments may come late. `PartsUpstream` is kept on all ten of these routes: what was told is
a list in which neighbours of a kind are joined, and late arguments belong to a call that was told
(`Heeds`). On the three routes to chat completions the converter fills the template of a chunk part by
part, and the client reads the template: `Templates` says that the client, were it to read the template
as it is, would have the items told so far (`TemplateGrows`, for a part that does not fall on another one
in the template, `Fits`; one that does is noted as a lapse). The reason is given once, with the last of the
answer (`GeminiChatEnds`); Antigravity's converter, which waits for the usage to give it, remembers whether
a call was seen.

Model-checked only: the type invariants composed in the MC modules, the
delivery in `ImplementsMail`, `RequestsArrive`, `AnswersArrive` on the seven other routes whose
upstream answers in parts (from Gemini's family to Claude and Responses, and from chat completions),
`SavesKeepFile` and all liveness (fairness and `ENABLED` are beyond the
prover). `ConfigFile` merges recursive trees with recursive operators, for which the prover
has no backend.

## 7. Not modelled

* In the registry and manager: model descriptions, aliases and prefixes, the round-robin
  cursor, hooks; `applyAuthFailureState`, the result without a model, which no caller
  produces. In refreshing: when a token is *due*: any auth may be due whenever its
  `NextRefreshAfter` allows. The crash Go raises for a map written during `Clone`.
* In the watcher: a queue replaced while it runs, the synthesis of auths from the
  configuration's sections. The configuration is taken to lie outside of the auth directory and to name
  that directory whenever it holds anything; that `LoadConfig` may write a migrated file back is not a
  step of `FileWatch` or `ConfigEdits`.
* In the relay: a provider name shared by two sessions, which takes a `ProviderFactory` that the
  service never sets.
* In the executors: building the upstream's HTTP request, signing and headers. In the
  translators: generation options, and converters that only wrap and unwrap.
* Paths and names of the token stores, and their mirror of `config.yaml`.
* Access control, HTTP routing and middleware, the interactive login
  flows, the Amp proxy, logging, statistics, start and shutdown, and the web console are
  conversions, I/O or sequential wiring with no state that several steps share.

## 8. What could come next

* The composition of `TokenKeeping` with `AuthLifecycle`, so that a disable and a token are
  followed together.
* A request that passes `RequestTranslation`, `ThinkingSettings` and `ProviderCalls` in one
  behaviour. They share no state, but an executor's second attempt translates again.
