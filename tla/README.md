# A TLA+ model of deepseek-gateway

deepseek-gateway is an LLM API gateway written in Go: clients call it with the
OpenAI, Anthropic or Responses protocol and an API key; it checks the user's
quota, picks one of the backends of the requested model, forwards the request,
relays the answer (often a stream) and records what was used. Administrators
edit models, backends and policies while it runs.

These modules model the parts of it where the order of things matters. Every
definition is a translation of Go code; `PROJECT.json` ("map") names the lines.
All paths below are relative to the repository.

## 1. Inventory

One process, one SQLite database, one YAML file. The server is an HTTP server, so
every request is a goroutine; beside them run the health prober, the goroutine that
reloads the balancer, the cleanups of the caches and counters, and a collector of
metrics. What they share is protected component by component, by one mutex each;
nothing spans two components.

| Component | State | Operations | What is hard | What makes it correct |
|---|---|---|---|---|
| Load balancer `internal/gateway/proxy/loadbalancer.go` | backends by model, health entries by backend, one atomic counter per entry; `lb.mu` | Next, ReleaseBackend, MarkFailed, MarkSuccess, CheckHealth, ReloadConfig | counters are read one by one and bumped by compare-and-swap while others move them; a reload deletes and recreates entries that requests still hold | permits are counted exactly and always given back; a regular choice respects health and limit when it is made; a selection sees one list of backends; refusals are justified |
| Configuration manager `internal/config/manager.go` | the configuration in memory, its file, subscribers' channels; `cm.mu` | updateAndNotify and the edits made with it, Subscribe | save and replace are two steps and either may fail or be the last before a crash; notifications are goroutines and may be dropped | file and memory agree after a restart; nothing is applied that is not saved; every error releases the lock |
| Admin handlers and stores `internal/domain/admin`, `internal/repository/model.go`, `backend.go` | none of their own | create, update, delete of models and backends, import | they read under one lock and write under another; one request may be several edits | IDs stay unique; no edit is lost |
| Hot reload `internal/server/server.go` | what the balancer was last given | receive an event, copy the models, reload | the copy may be old, the event may be lost | the balancer ends with what is configured |
| Quota service `internal/domain/quota`, `internal/repository/quota.go` | rate counters by window, daily counts in the database and in a cache | CheckQuotaMulti, IncrementRate, RecordRequestTokens, GetQuotaStats, two cleanups | check and count are two steps; the cache is filled from the database in three; windows, midnight and cleanups | the count of a window is the number of requests let in; the limit is exceeded only by what is concurrent; the cache repeats the database; the model put for a refused one is checked |
| Proxy workflow `internal/gateway/proxy/proxy.go`, `context.go` | a request's context | check, select, send, relay, mark, record, release | errors at every step; a heartbeat goroutine writes to the same response | the permit is returned on every path; nothing is written after the handler's return |
| API keys `internal/domain/apikey`, `internal/infra/cache/local.go` | keys in the database, a cache with expiry | validate, create, update, delete | a validation fills the cache after a deletion cleared it | a deleted key is refused, at the latest after the expiry |
| Users `internal/domain/user`, `internal/infra/auth`, `internal/infra/middleware/auth.go` | rows of users; tokens at the clients | login, renewal of tokens, edits by admins and users | rows are read, changed and written back whole; a token carries a role of the past | a change of password is not undone; edits that do not overlap lose nothing; who is demoted stops being an administrator |
| Concurrency limiter `internal/infra/concurrency` | a current and a peak counter | Acquire, Release, the peak of an interval | the peak is read and reset while requests raise it | a peak is never more than was in progress, nor less than a request found |
| Usage and access log `internal/domain/usage`, `internal/repository/access_log.go` | logs, payloads, daily usage | insert, query, cleanup of old payloads | a log and its payload are two inserts; the cleanup is two statements | an export is complete or refused, never a part; recent logs have their payload; marks become right |
| Responses protocol `internal/gateway/responses` | the state of a stream's conversion | one step per chunk of the backend | the backend may stop, fail or go on anywhere | one terminal event, nothing after it, every item closed |
| Anthropic protocol `internal/gateway/anthropic` | the open block of a stream | one step per chunk | text, thinking and tool calls interleave | blocks open and close in order |
| Text completions `internal/gateway/codex` | text kept back by the filter of code fences | one step per chunk | a fence split over chunks | no text is lost |
| OpenAI protocol `internal/gateway/openai`, `proxy/protocol.go` | none | pass lines through | pings between the lines of an event | events arrive whole |
| Thought-signature cache `proxy/signature.go` | a map that only grows | put, get | IDs come late, are generated, and are spelt in two ways | a signature goes back with its own call |
| Dashboard `internal/domain/dashboard` | counts by hour, rings of five-minute slots | record, collect, query | midnight, restart | a count is in the hour it belongs to |
| Traffic dumper, user logger `internal/infra/logger` | buffers and files by request, by user and day | append, flush, discard | a flush against a discard | flushed or discarded once |
| Server `internal/server`, `cmd/server` | the listener, the database | start, shutdown | requests in flight when a signal arrives | they end before the database is closed |
| Database, authentication, middleware, utilities, import tool, web interface | - | - | - | not modelled, see section 8 |

How they interact: a proxied request goes through authentication (key and user, both
cached), the concurrency limiter, the quota service (check, then count), the load
balancer (a permit), the backend, a protocol's conversion of the answer, and then
gives the permit back and records usage, quota and log. An admin request goes through
a store to the configuration manager, which saves, applies and announces the edit; the
announcement makes a goroutine of the server copy the models and reload the balancer.

## 2. Modules

| Module | Models | Kind |
|---|---|---|
| `AdmissionControl` | what the balancer promises: permits, limits, health | abstract specification |
| `LoadBalancer` | `loadbalancer.go` with the part of `proxy.go` that uses it | detailed; implements AdmissionControl |
| `LoadBalancerProofs` | proofs about LoadBalancer | TLAPS |
| `MCLoadBalancer` | two models, two backends, two configurations | TLC |
| `ConfigSync` | `manager.go`, the admin handlers and stores of models and backends, the reload of `server.go` | detailed; composes four components |
| `ConfigSyncProofs` | proofs about ConfigSync | TLAPS |
| `MCConfigSync` | initial configurations and lists of backends | TLC |
| `Quota` | `quota/service.go` with the part of `proxy.go` that uses it | detailed |
| `QuotaProofs` | proofs about Quota | TLAPS |
| `MCQuota` | policies | TLC |
| `EventStream` | what a client of the Responses protocol may rely on | abstract specification |
| `ResponsesStream` | `responses/stream.go` with the relay loop of `proxy.go` | detailed; implements EventStream |
| `ResponsesStreamProofs` | proofs about ResponsesStream | TLAPS |
| `MCResponsesStream` | chunks of the run | TLC |
| `BlockStream` | what a client of the Anthropic protocol may rely on | abstract specification |
| `ThoughtSignatures` | `proxy/signature.go` and its callers | part of AnthropicStream |
| `AnthropicStream` | `anthropic/converter.go`: the stream, and the next request | detailed; implements BlockStream |
| `AnthropicStreamProofs` | proofs about AnthropicStream with ThoughtSignatures | TLAPS |
| `MCAnthropicStream` | chunks and answers of the run | TLC |
| `Relay` | the end of `proxy.go`: the answer, the heartbeat, the context that gin reuses | detailed |
| `RelayProofs` | proofs about Relay | TLAPS |
| `MCRelay` | a request of each kind of protocol | TLC |
| `IdentityStore` | the tables of users and keys, the cache of keys | part of Accounts and ApiKeys |
| `Accounts` | `user/handler.go`, `apikey/handler.go`, sessions and their tokens | detailed; extends IdentityStore |
| `ApiKeys` | `ValidateKey` beside everything in Accounts | detailed; composes the three |
| `ApiKeysProofs` | proofs about ApiKeys, IdentityStore and Accounts together | TLAPS |
| `MCApiKeys` | two instances: sessions only, and keys with one session | TLC |
| `AccessLog` | `access_log.go` of the store and the middleware, the cleanup task, the exports | detailed, run as it is |
| `Limiter` | `concurrency/limiter.go`, each method an operator | part of Dashboard |
| `Dashboard` | `dashboard/service.go` with the limiter it samples | detailed, run as it is |
| `RecordsProofs` | proofs about AccessLog, and about Dashboard with Limiter | TLAPS |

### LoadBalancer

| Code | Model |
|---|---|
| `lb.mu` | `Readers`, `CanRead`, `CanWrite`: a reader is a request whose `pc` is "scan" or "count"; writers are single steps |
| `lb.backends`, `lb.health` | `pool`, `health`; an entry carries the number of the reload that made it, which stands for its address |
| `Next` | `Select` (lock, own or default model's backends) |
| `tryGetBackend` | `ScanOne` for each atomic load, then `TakeBest` or `LoseRace` (the compare-and-swap), `FindNone`; `CountOne`, then `Refuse` or `Fallback` |
| `MarkFailed`, `MarkSuccess`, `CheckHealth` | actions of these names |
| `ReleaseBackend` | `LookUpEntry` under the read lock, `DropPermit` (the compare-and-swap loop) without it |
| `ReloadConfig` | `ReloadConfig`; `Reconfigured` and `PoolOf` are its two halves |
| `ExecuteCoreWorkflow` | the order of these steps with `FailToBuild`, `FailToSend`, `GetResponse`, `EndReply`, `Reject` |

What matters: the counters are atomics and move under a scan. `ScanOne` therefore reads
one counter per step; the value it saw is kept (`scan.seen`) and compared at the end.

### ConfigSync

| Code | Model |
|---|---|
| `cm.cfg`, the file, `cm.mu`, `newCfg` | `cfg`, `file`, `writer`, `next` |
| an admin handler | `Begin`: what it reads under the lock, and the list of edits it will make |
| `ModelStore.Update` | a second read (`MergeBackends`) before the edit |
| `updateAndNotify` | `Lock` (with the edit function: `Accepts`, `Edited`), `Save` or `FailToSave`, `Apply` |
| `notify` | `telling` counts goroutines about to run; `Notify(t)` runs one of type t, in any order; `queue` is the channel |
| the goroutine in `startBackgroundTasks` | `Receive`, `GetModels`, `ReloadConfig` |
| a crash | `Crash`: what remains is the file |

Of a model the properties need its ID, whether it is enabled, and its backends; of a
backend its ID and whether it is enabled. Edits of quota policies and of settings
change nothing here but use the same lock, save and announcement, and fail in the same
place (`FailToSave` also stands for their errors).

### Quota

| Code | Model |
|---|---|
| `rc.counts`, `rc.windows` | `counts`, `touched`, by the start of the window |
| `dailyRequestCache`, `quota_usage_daily` | `cache`, `usage`, by day |
| `authenticateAndCheckQuota` | `Arrive`, `FallBack` |
| `CheckQuotaMulti` | `Refuse`, `Pass` (model, hours, rate); then `getDailyRequestCountWithCache` as `Look`, `Query`, `FailToQuery`, `Fill` |
| `GetQuotaStats` | `View`, which shares those steps |
| `IncrementRate` | `Enter` |
| `selectBackend`, with what `Next` does to the model | `SelectBackend` (`req.ModelID = actualModelID`), `Unserved` |
| `RecordRequestTokens` | `Complete` (database), `Add` (cache), `Drop` |
| `cleanup`, `CleanupExpired`, `time.Now` | `Cleanup`, `CleanupExpired`, `Tick` |

Keys begin with the user's ID, so the model has one user. A tick is 30 seconds as far as
`CleanupAge = 2` stands for the 60 seconds of the code; `DayLength` makes a day short.
Which models have backends is up to the configuration at that moment: `SelectBackend` and
`Unserved` leave it open. `entered` is a history variable: how many requests were let in under
each open window.

### ResponsesStream

| Code | Model |
|---|---|
| the loop of `handleStreamResponse` | `ReadLine` and its cases `ReadChunk`, `ReadDone`, `ReadError`; `End` for every way out of it |
| what `c.Writer` has been given | `stream`: whether the response was begun, the state of each output item, how many deltas it has had, how many its closing event repeated, the final event |
| `streamState` | `state`: `created_emitted`, `completed_emitted`; the items that were added (`known`) and closed (`done`); `reasoning_text` and `arguments` by how many parts they hold (`text`) |
| `ConvertStreamLineToResponsesEvents` | `ReadChunk` (the beginning of the response), then `ConvertText`, `ConvertReasoning`, `ConvertCall` for each entry of `tool_calls`, `ConvertFinish` |
| `buildCompletionEvents` | `CloseItem` for each item in order, `Complete` |

Items are known by their `output_index`: 0 the message, 1 the reasoning, `index + 2` a call.
The loop reads up to a newline, so the segments into which the conversion splits its argument
are one line. Comments, blank lines and JSON that cannot be parsed are passed over without a
change of state and are left out; so is a last line without a newline, which the loop drops.
The message's closing events carry no text in the code, and `Events` maps it so. `overran`
is a history variable: the backend sent a chunk although it had ended its answer.

### AnthropicStream and ThoughtSignatures

| Code | Model |
|---|---|
| `StreamParser.state` | `parser`: the block that is active, the number of each block, whether calls came |
| `ParseLine` | `ReadChunk`, `ReadDone`; then `ConvertThinking`, `ConvertText`, `ConvertExtra`, `ConvertEntry` (`StartCall`, `FillCall`), `ConvertFinish` |
| what `c.Writer` has been given | `stream`, which BlockStream reads |
| an answer that is not streamed | `ReadAnswer` |
| the reason to stop: `convertStopReason`, its correction, and what each protocol's client is told | `ReasonSent`, `ReasonOf`, `ReasonTold` |
| `handleStreamResponse` for OpenAI clients | `PassLine`, `PassEntry` |
| `SignatureCache` | `cache`, with `Stored`, `Lookup` (under both spellings), `NoteCall`, `NoteExtra`, `NoteAnswer` |
| the next request | `AskAgain`: the calls and results that the client sends back, and the signatures put in |

IDs are names with or without the prefix "toolu_"; a call's name is given by the backend,
generated by the gateway, or empty. A signature is known by the call it came with, or as `Loose`
when it came beside the calls (`pending_extra_content`). `owed`, `strayed` and `sent` are history:
the signatures that came for each call once it could be identified; the backend went back to a
block it had left, or on after its end.

### Relay

| Code | Model |
|---|---|
| `dispatchResponse` | `Begin`, then `AnswerError`, `AnswerWhole` or `StartStream` |
| `handleStreamResponse` | `OpenBody`, `ReadLine`, `LockLine`, `SendLine`, `EndStream` with its deferred function (`Recorded`, `Deferred`) |
| the heartbeat | `Tick` (the ticker), `BeatTicks` or `BeatEnds` (the select), `BeatLocks`, `BeatWrites` |
| `writeMu`, `ctx`, `ticker` | `lock`, `cancelled`, `ticks` and `ticking` |
| gin's pool of contexts | `context`: what a request got, and may get after another |
| a client | `client`: the event it holds, those it was given, and whether two ran together |

### IdentityStore, Accounts, ApiKeys

| Code | Model |
|---|---|
| tables `users`, `api_keys` | `users`, `keys`: rows by ID; `lapsed` for `expires_at` |
| `LocalCache.apiKeys` | `cached`, by the first characters of a key; entries age, `Cleanup` drops old ones |
| `Login`, `Register`, `Create`, `Update`, `Delete`, `ChangePassword` | `LoginReads` and `LoginAnswers`, `Register`, `Creates`, `EditReads` `EditWrites` `EditClears`, `DeleteClears` `Erases`, `ChangesPassword` |
| `AuthMiddleware`, `AdminMiddleware`, `ShouldRefresh` | `Authorised`, `Renewed`, `Ages` |
| `GenerateKey`, `DeleteKey` | `GeneratesKey`, `DropKeyClears` `DropKeyErases` |
| `ValidateKey` | `Looks` (cache), `HitReads`, or `MissReads` `OwnerReads` `Stores`, then `Passes` |

One action is one statement of the database or one use of the cache. `asked` and `mixed` are
history: the rows as they would be if each edit changed only what it names, and the users of
whom two edits overlapped.

### AccessLog

| Code | Model |
|---|---|
| `access_logs`, `access_log_payloads` | `rows` (`has_payload` of each log), `payloads` |
| `AccessLogMiddleware`, `Insert` | `RecordAccess`, `InsertLog`, `InsertPayload`, `InsertFails` |
| `cleanupTask`, `DeleteOldPayloads` | `CleanupOldPayloads` (the cutoff), `DeleteOldPayloads`, `MarkWithoutPayload`, `CleanupFails` |
| `parseDateRange`, `List`, `GetPayload`, the limit of an export | `Starts` and `Ends`, `List` or `ListFails`, `GetPayload` or `GetPayloadFails`, `Answer` |
| RFC3339Nano as text | `Text`: within a second, a fraction comes before the whole second |
| `now - retention` | `Cutoff`, which may lie before the first moment of the model |
| `Migrate` | `migrated`: the table has the columns that the store uses, or not |

Of an export under way, `due`, `near`, `whole` and `failed` are history: the logs in its range, those
in or at the edges of it, those whose payload was stored when it was listed (less those that could
not be read), and that its query failed.

### Dashboard and Limiter

| Code | Model |
|---|---|
| `Limiter` | `limiter`, changed by the operators of Limiter |
| `ConcurrencyLimitMiddleware` | `Arrive`, `Leave` |
| `time.Now` | `hour`, which moves with `HourPasses` |
| `HourlyCounter` | `counts`, `lock`; `LockCounts` and `Increment` for the two readings of the clock |
| `dateCheckLoop` | `LockDates`, `DropDates` |
| `metricsLoop`, `MetricsCollector` | `TakePeak`, `SnapshotConcurrency`; `slots` is the ring, the oldest first |
| `GetLast24Hours`, `GetHistory`, `GetStats` | operators over the state, of these names and `PeakToday` |

## 3. Runs

| Run | Bounds | Shows |
|---|---|---|
| `lb_safety` | 3 requests, 2 backends (one without limit, one with limit 1), 2 models, 1 reload that changes limits, removes a backend and shares one between models, threshold 2 | `TypeOK`, `PoolTracked`, `ReadersSeeOnePool`, `RefusedOnlyIfLimited`, and every behaviour is one of AdmissionControl |
| `lb_permits` | 2 requests, 2 reloads, fairness | `NoPermitLeak`, `ExactUntilRemoved`; `SelectionEnds`, `PermitReturned` |
| `config_sync` | 2 admin requests at once, 1 model that is there at first or not, 2 backends, 2 edits, 1 crash, channel of 10, fairness | `UniqueIds`, `SavedFirst`, `LoadedOrTold`; `HotReload`, `RequestsEnd` |
| `quota` | 2 requests at once and 3 in all, a bound policy and the default one (open by night), 6 ticks with a midnight and three windows, 1 restart | `RateExact`, `RateOvershoot`, `OnlyGrantedModels`, `CacheFollows` |
| `responses` | 4 lines with data, 2 calls; 40 chunks that combine text, reasoning, a finish_reason and entries for no, one or two calls, for one call twice, with and without arguments | `Remembered`, `EndsWell`, every behaviour is one of EventStream, `FinalEventFollows` |
| `anthropic` | 4 lines, or an answer at once, 2 calls, two protocols; chunks that combine thinking, text, signatures and entries with and without ID, name, arguments and signature | `SignaturesReturned`, `OwnSignatures`, `ResultsMatch`, `ReasonTellsCalls`; every behaviour is one of BlockStream while the backend does not go back |
| `relay` | 2 requests, one of a protocol with events of its own for pings and one of OpenAI's, 1 context, 2 events each, fairness | `EventsIntact`, `CountedOnce`, `FewLatePings`; `RelayEnds` |
| `relay_writer` | the same | refutes `WriterProtected` |
| `accounts` | 2 sessions, 2 users, tokens of life 4, orders that disable, demote, read and change a password | `RowsAsAsked`; `AdminsDemoted` |
| `api_keys` | 2 keys with the same first characters, 1 session, 1 validation, entries valid for 1 tick | `OwnersKept`; `KeysRevoked` |
| `access_log` | 2 logs, days and a retention of one second, in half seconds up to 4, exports of 1 row, 1 crash, fairness | `RecentHavePayload`, `ExportComplete`; `MarksSettle` |
| `dashboard` | 2 requests, days of 3 hours up to hour 7, a ring of 2 slots, 3 samples | `HourlyShown`, `PeaksTold` |

Why the bounds are enough. Three requests are what a race needs in which one loses its
compare-and-swap to a second while a third releases; the reload of the safety run brings
every case of `Reconfigured` (kept, new limit, created, deleted, shared). The second
reload in `lb_permits` brings a removed backend back, so that a permit meets an entry it
was not taken from. For ConfigSync two requests are enough for any edit to come between
the two critical sections of another, and two edits of one request for a failure half way;
with a channel of 10 and these edits it never fills, so that no news is dropped in this run (see
section 4 for one that does). For Quota the clock passes the end of a window, the age of the
cleanup and midnight, two concurrent requests are enough for both of its races, and the
default model of the default policy is one that it does not list. For ResponsesStream
four lines hold an item that is added, one that is extended, an end, and a line after the end;
two calls are what it takes to meet a new index after a known one and the order of closing; the
same holds for AnthropicStream, whose chunks bring a call's ID, name, arguments and signature
in every order. For Relay one context makes the second request meet the heartbeat of the first,
and two events of two lines each put a ping between the lines of an event and between events.
For Accounts two sessions are what an edit and another write between its read and its write
need, and a token's life of 4 has ticks before, in and after the quarter in which it is renewed.
For ApiKeys a validation is open while everything else happens around it, twice in a row when
the entry that it stored is found again. For AccessLog time passes a midnight and the end of
the retention with a log in either half of every second, and with one row allowed two logs are
one too many. For Dashboard the clock passes two midnights, so that the cleanup has a day to
keep and one to drop, and the third sample pushes the first out of the ring.

`CHECK_DEADLOCK FALSE` is set where a bound (edits, arrivals, ticks) lets the model stop;
the system would wait for the next request. `LoadBalancer`, `AccessLog` and `Dashboard` never
stop, and are checked for deadlock.

Every property of a passing run has a mutant: a definition changed as a plausible bug
would change it (an operator beside the original, marked "Mutant of"),
under which TLC finds the property violated. They are listed in `PROJECT.json`.

## 4. What the checks found

A disagreement between what the repository says and what its code does, shown by a run:

**A heartbeat can write to the response of another request** (`relay_writer`). The comment at
`proxy.go:658` says that a mutex protects the writes to `c.Writer`. The mutex belongs to one
request, and the handler returns without waiting for its heartbeat, which may be past its
select. gin then gives the context to the next request, whose writes take another mutex.
`FewLatePings` shows that two such pings are the most.

Further behaviours of the code that the models have and no run is kept for. Some are stated as
definitions beside the properties; adding one to the configuration named finds it violated.

* **A healthy backend can exceed its limit** (`HealthyKeepsItsLimit` in LoadBalancer, with
  `LoadBalancer.cfg`). The scan finds a backend full; before the count that decides about the
  refusal a permit comes back; the request then falls through to the fallback meant for
  unhealthy backends (`loadbalancer.go:216`), which adds 1 without comparing, and two requests
  may do so at once. The comment at `loadbalancer.go:169` says that the limit is not exceeded.
* **A model whose backends are all unhealthy is served** (`UnhealthyModelAnswers503`, with
  `LoadBalancer.cfg`) by its first backend; the repository's `README.md:123` says 503.
* **A hot reload can be lost** (`HotReload` in ConfigSync, with `Capacity = 2` and three admins):
  a full channel drops the event (`manager.go:133`) and nothing compares the balancer with the
  configuration later.
* **Updating a model can undo an edit of its backends** (`UpdateKeepsBackends` in ConfigSync, with
  `ConfigSync.cfg`): they are read under one lock and written back under another
  (`model.go:136, 144`).
* **The rate limit of a window longer than 60 seconds can be reset** (`CountsKept` in Quota, with
  `MCLongOnly` and `MCLongSeq`) by a cleanup that compares with 60 seconds (`quota/service.go:49`).
* **The cached count of the day can stay wrong** (`CacheExact` in Quota): an older answer of the
  database overwrites the newer count (`quota/service.go:331`).
* **Signatures are not kept for streams of the Responses protocol** (`SignaturesReturned` in
  AnthropicStream, with `"responses"` among the protocols): `proxy.go:757-759` keeps them only for
  paths with `/chat/completions`, while `docs/codex-protocol-design.md:733` says that the newer
  protocols have the cache too.
* **A call's own signature can be overwritten** (`OwnComesFirst` in AnthropicStream, with
  `AnthropicStream.cfg`). A signature that came beside the calls is kept to the end of the stream
  (`pending_extra_content` is never cleared) and stored again with every entry of a call that
  brings none, over the one that came with the call (`converter.go:632-638, 817-821`,
  `signature.go:317-327`). `SignaturesReturned` therefore says that a call goes back with a
  signature that came for it, not that its own comes first.
* **A request can run on a model that no policy lists** (`OnlyListedModels` in Quota, with
  `Quota.cfg`): when the model that was checked has no backends, `Next` goes to the default model of
  its policy (`loadbalancer.go:88-92`) and the request runs on that one and is charged for it
  (`proxy.go:376-383`), with no second check. `docs/default-model-fallback.md:32-45` describes it and
  says that the original model's policy applies. `OnlyGrantedModels` holds: that default model is
  the only one that can take the place of a model that is listed.
* **An OpenAI client can be told "stop" when it is asked for calls** (`ReasonTellsEveryClient` in
  AnthropicStream, with `AnthropicStream.cfg`): the correction that Anthropic clients get
  (`converter.go:509-521, 862-870`) is not made for others (`openai/handler.go:45-53`).
* **A payload that cannot be read is reported as expired** (`ExpiredOnlyIfGone` in AccessLog, with
  `AccessLog.cfg`): the error is dropped, and a missing payload is taken for one that was cleaned up
  (`usage/service.go:300-309`). `RecentHavePayload` leaves out the logs whose own query failed.
* **An export whose query fails is answered with no logs** and status 200 (`AnsweredInFull` in
  AccessLog, with `AccessLog.cfg`; `usage/service.go:291-294`). `ExportComplete` says that it is then
  none at all, never a part.
* **A fresh database keeps no access log.** `Migrate` defines `access_logs` twice (`db.go:93, 127`);
  the first definition wins and has no `has_payload`, so every insert and every list of the
  store fails, and both errors are dropped. The store works on a table that has the columns
  already. AccessLog starts with either (`migrated`).
* **A payload can be hidden for ever**: a cleanup that comes between the two inserts of a log marks
  it as having none (`overtaken` in AccessLog; `RecentHavePayload` leaves these out). And an
  export between the two inserts calls a payload expired that is just coming.
* **A log of the first second of a day may be exported with the day before**: times are compared as
  text and `.5Z` sorts before `Z` (`Text` in AccessLog, the edges in `ExportComplete`).
* **A sample of the concurrency can miss requests that ran through the sample before** and then
  ended: the peak is reset to 0 and not to what is in progress (`limiter.go:86`; the upper and
  lower bounds in `PeaksTold` are apart by these). `limiter.go:75` calls it the peak of the window.
* **Concurrent edits of a user are lost** when they overlap (`mixed` in Accounts).
* **Two policies whose windows begin together share a count**, as counters are keyed by the start of
  a window and not by its length (`WindowStart` in Quota; `quota/service.go:61`). The run has
  one length of windows, so that `RateExact` can be an equality.
* **An edit of a backend reaches the first model that lists its ID** (`Owner` in ConfigSync;
  `repository/backend.go:113`), although IDs are unique only within a model. The interface names only
  the backend (`docs/api.md:146`).

What holds, against expectation in some cases: the compare-and-swap loop gives every regular
grant at a moment when the backend is healthy and below its limit (the read lock keeps health
and limits still, and a counter that moved away and came back is as good as one that did not
move); a health check that judges an entry that was replaced does no harm; notifications in
any order are harmless as the reload reads the newest configuration itself.

## 5. Fairness

* `LoadBalancer!Fairness`: weak fairness for each step of a goroutine that can run. The HTTP
  client has a timeout and the relay ends with it, hence `Exchange` and `EndReply`. Taking
  `lb.mu`: Go's RWMutex lets a waiting writer in when the readers before it have left, and
  the readers that waited in before the next writer; so a reader that wants the lock for its
  release gets it although writers come again and again (strong fairness of `LookUpEntry`),
  and `CanRead` holds new readers back while a writer waits. Nothing is assumed of health
  checks, reloads and new requests.
* `ConfigSync!Fairness`: weak fairness of the writer's steps, of each notification and of the
  balancer's goroutine; strong fairness of the steps that wait for `cm.mu`, since a waiting
  goroutine of Go's mutexes is not overtaken for ever. Admin requests and crashes are not fair.
* `Quota` and `Dashboard` are checked for safety only.
* `Relay!Fairness`: every handler goes on whenever it can (the client of the backend has a timeout,
  so reading a line ends), and gets the mutex in the end (Go's mutexes are not overtaken for
  ever). The heartbeat's steps are a part of it. Nothing is assumed of the ticker and of clients.
* `Accounts` and `ApiKeys`: the fairness is that of time and of steps that have begun: a request
  under way ends, a validation goes on, tokens and entries age. Nobody has to ask for anything.
* `AccessLog!Fairness`: the ticker of the cleanup never stops (weak fairness of its start), and a
  database that is busy is not busy for ever (strong fairness of its two statements, which may
  fail any number of times). Inserts may never come.
* `ResponsesStream!FairSpec`: weak fairness of `Convert`, the steps of a conversion, which wait
  for nothing: no lock is held by others for longer than a write. Nothing is assumed of the
  backend, which may never send another line.

## 6. Proofs

### LoadBalancerProofs

It proves for every finite set of requests, every set of backends, models
and configurations with unique IDs, and every number of reloads, attempts and failures:

| Theorem | Says |
|---|---|
| `Invariance` | `Spec => []IInv` |
| `TypeCorrect`, `PoolIsTracked`, `OnePoolPerSelection`, `PermitsDoNotLeak`, `CountsAreExact` | parts of `IInv`; the runs check them too |
| `AdmissionControlled` | `Spec => ImplementsAdmissionControl` |
| `RefusalsJustified` | `Spec => RefusedOnlyIfLimited`, a property of the step that refuses |

Assumptions, all on the constants: `AttemptsAssumption`, `ThresholdAssumption`,
`ReloadsAssumption` (numbers), `RequestsAssumption` (finitely many requests, needed to count
holders), `CataloguesAssumption` and `UniqueIdsAssumption` (what `AddModel` and `AddBackend`
guarantee, see `UniqueIds` in ConfigSync), `NoneAssumption` (the "nothing" value is no value).

The argument. The invariants are not inductive one by one, `IInv` is:

* `TypeOK` with the two equivalences that tie `permit` and `entry` to `pc`.
* `PoolTracked`: entries and backends fit, so that a scan finds an entry for each slot.
* `ReadersSeeOnePool`: indices a scan still has to visit, and its best, are positions of the
  present pool. Writers are excluded while there are readers, so only the reader's own steps
  matter.
* `BestStillOpen`: the best slot is present, healthy and had room at the count the scan saw.
  Together with the successful compare-and-swap (the count is that count again) this is the
  guard of `Admit` in AdmissionControl: the heart of the refinement.
* `BirthsOrdered`: a permit is no younger than the entry looked up for its release, and that no
  younger than the one in the map. Hence a release that lowers the present entry of birth n was
  either counted by it or belongs to an older entry, and an entry of birth 0 is only released
  by its own holders.
* `NoPermitLeak` and `ExactUntilRemoved`: the count against the cardinality of `Holders`; each
  action adds one holder, removes one or leaves the set alone (lemmas on `Holders` use the
  library's theorems on finite cardinalities).

The proof that a step preserves each part has one step per action. For the refinement, grants
map to `Admit` or `Degrade`, `DropPermit` and a `LookUpEntry` that finds nothing to `Finish`,
marks and health checks to `Assess`, a reload to `Reconfigure`, all else to a stutter.

`RefusalsJustified` is about one step but what it says was seen in the steps before it: `CountSoFar`
says that the count of limits, as far as it has come, found a limit on every healthy backend and
that health and limits are still what they were, because a counting request keeps writers out.

### ResponsesStreamProofs

It proves for every number of calls and lines and every set of chunks, hence for any answer of a
backend:

| Theorem | Says |
|---|---|
| `Invariance` | `Spec => []IInv` |
| `TypeCorrect`, `ConversionRemembers`, `ResponseEndsWell` | its parts; the run checks the last two |
| `EventsProper` | `Spec => ImplementsEventStream` |

Assumptions: `BoundsAssumption` (numbers) and `ChunksAssumption` (chunks have the type of
chunks). `TypeOK` carries three facts that tie `pc` to the flags: conversion only happens in a
response that was created, closing only in one that was marked as completed. `Remembered` says
that the state kept between lines is what has been sent; from it an item that is not known is
absent (so it may be added) and the text kept is the text sent (so the closing event repeats the
whole of it), which are the guards of EventStream's `Add` and `Close`. `EndsWell` needs its third
part, that no chunk is being converted in a completed response, to hold from step to step.
Every action maps to one of EventStream or, where it only moves on, to a stutter; a line that
begins a response maps to `Begin`, `ReadError` to `Fail`.

### ConfigSyncProofs

For every set of admins, models and backends, any edits they may make, any number of crashes and a
channel of any size:

| Theorem | Says |
|---|---|
| `Invariance` | `Spec => []IInv` |
| `IdsStayUnique`, `NothingUnsaved` | `UniqueIds`, `SavedFirst` |
| `NewsArrives` | `Spec /\ [](~Flooded) => []LoadedOrTold` |

`UniqueIds` needs the edits that are still to be made: what an admin has read and will write is a
list of edits of the right shape, whose models have backends with different IDs and keep their own
(`EditsOK`); then lemmas on `Edited` show that inserting, replacing and removing an element keeps
IDs unique. `NextIsEdit` says that the copy the writer holds is its edit of the configuration in
memory (nobody else changes that one while `cm.mu` is held), `FileIsSaved` that the file is that
copy from its renaming on and the configuration in memory otherwise. `NewsArrives` has a hypothesis:
the channel is never full of events that cause no reload (`Flooded`). It is needed: with a channel
of 1, TLC finds `LoadedOrTold` violated, since `notify` then drops the news. A full channel that
holds one event of a model does no harm, as the reload that it causes reads the newest
configuration. `Followed` strengthens `LoadedOrTold` by the goroutine's two steps.

### QuotaProofs

For any number of requests, any policies, lengths of days and restarts:

| Theorem | Says |
|---|---|
| `Invariance`, `TypeCorrect` | `Spec => []IInv`, `Spec => []TypeOK` |
| `ModelsGranted` | `OnlyGrantedModels` |
| `RateCounted`, `OvershootBounded` | `RateExact`, `RateOvershoot`, for windows of one length w with `1 <= w <= CleanupAge` |
| `CacheKeepsDistance` | `Spec => CacheFollows` |

`OnlyGrantedModels` follows from what a request carries at each stage (`Fits`): none has a policy
before one passed it (`Pass`), which then rules its model and lists it; from `SelectBackend` on the
model is the one that was checked or that policy's default. `RateExact` needs to know of every count when it was touched: within its own window, and never if
it is 0 (`Counted`); so the cleanup drops only counts whose window is over, and a window that opens
finds 0. The hypothesis on the windows is that of the property (see `CountsKept` in section 4 for
longer ones); a window of 0, which the configuration also accepts, is outside it. `RateOvershoot`
follows from a count of the requests that have been checked and are not counted yet (`Checked`),
whose sum with `entered` is bounded when the check is made.

### AnthropicStreamProofs

For any number of calls, lines, chunks and answers, hence for any backend:

| Theorem | Says |
|---|---|
| `AlwaysKept`, `Invariance`, `TypeCorrect` | the inductive invariant, in two parts, and the types |
| `SignaturesStayOwn` | `OwnSignatures` |
| `SignaturesComeBack` | `SignaturesReturned`, for the protocols "anthropic" and "openai" |
| `ResultsAnswerCalls`, `ReasonsTellCalls` | `ResultsMatch`, `ReasonTellsCalls` |
| `ProperBlocksShown` | `Spec => ProperBlocks`: the stream refines BlockStream while the backend does not go back |

`IInv` has four parts. `StagesOK`: blocks are numbered 0, 1, ... without a gap, as many as have a
number. `SignaturesOK`: a cached ID is the ID of a call and holds a signature that came for that call, its
own or one from beside the calls; the client knows a call by the same ID, but for its spelling.
`ReasonsOK`: a call that the client knows of has set the flag that decides about the reason to stop,
so an Anthropic client that was told of the end was not asked for calls; of what other clients are
told it says nothing, as their reason is not corrected. `Tidy`
ties the parser to what the client has seen and to the rest of the chunk: what the backend has sent
is what has been converted and what is left (`SentIs`), the rest stays with the latest block or
goes on to new ones (`RestGoesOn`), so that every block is opened after the one before was closed.
In the protocol "responses" `SignaturesReturned` is false (section 4), hence the hypothesis.

### RelayProofs

For every set of requests and contexts, any protocols and any number of events:

| Theorem | Says |
|---|---|
| `Invariance`, `TypeCorrect` | `Spec => []IInv`, `Spec => []TypeOK` |
| `ClientsGetEvents` | `EventsIntact` |
| `RequestsCountedOnce` | `CountedOnce` |
| `HeartbeatsStop` | `FewLatePings` |

`ContextsApart`: requests that are served have different contexts, so that a stranger's lines can
only be a heartbeat's. `Disciplined` ties the lock, the heartbeat and the ticker to the stage of the
handler. `Fits` says what the client's reader holds after n lines, for both kinds of ping.
`LateBounded` counts down: the pings written after the return and those that may still come
(`PingsLeft`: one under way, one tick in the channel) are two at most.

### ApiKeysProofs

For any users, keys, sessions, orders and validations; it covers Accounts too, whose steps are those
of ApiKeys:

| Theorem | Says |
|---|---|
| `Invariance`, `TypeCorrect` | `Spec => []IInv`, `Spec => []TypeOK` |
| `KeysKeepOwners` | `OwnersKept` |
| `EditsKept` | `RowsAsAsked` |

Both rest on `IdsUsed`: an ID is given once. Hence whatever the cache (`CacheOwners`), a validation
under way (`RequestOwners`) or a session remembers of a key is either gone from the table or still
so. `RowsFollow` says of an edit between its read and its write that the row it read is the present
one but for the password, unless two edits of the user overlapped.

### RecordsProofs

Of AccessLog, for any logs, retention, limit and crashes: `Invariance`, `TypeCorrect`,
`RecentPayloadsGiven` (`RecentHavePayload`), `ExportsComplete` (`ExportComplete`). The strengthening
follows an export while it looks payloads up one by one: what it has listed and not looked up yet is
present if it is recent (`PayloadsOK`), whether or not it can then be read, because a cleanup deletes only what was older than the
retention when it began (`CleanerOK`) and time does not go back; and the list has every log of the
range once (`ListingOK`); an export whose query failed looks nothing up. The lemmas on `Text` show that times compared as text keep the order of
their seconds. The cutoff is what the code subtracts, also where that is before time 0: clipped
there, the invariant is false, as text puts the half second after 0 before 0.

Of Dashboard, for any requests, hours in a day and size of the ring: `DashInvariance`, `HoursShown`
(`HourlyShown`), `PeaksShown` (`PeaksTold`). (The two modules share neither names nor state, so that
one module can extend both.) `HoursOK` says that the counts of the hours in view are true and that no
date counted is after the one read by who holds the mutex; so a cleanup that runs over a midnight
keeps the day before. A request that counts under yesterday's date with today's hour counts in an
hour that has left the view (lemma `DatesApart`).
`LimiterOK` puts each of the limiter's peaks between what requests found and what was in progress,
`RingOK` the same for each slot of the ring against the sample it came from.

### Assumptions

All are on constants, named in the module that declares them, and evaluated by TLC in the runs.
Those that a proof asked for: `Relay!NoneAssumption`, `ThoughtSignatures!NoneAssumption`,
`Dashboard!NoneAssumption` ("nobody" is nobody), `Quota!RequestsAssumption` and
`AccessLog!LogsAssumption` (finitely many at once), `ThoughtSignatures!ProtocolsAssumption` (the three
the gateway knows), `AnthropicStream!LinesAssumption` (a number), the second part of
`AnthropicStream!ChunksAssumption` (in an answer at once a call's index is its place, as the loop in
`converter.go` gives it), the second part of `Accounts!OrdersAssumption` (who asks for a new key asks
for some key), and `AccessLog!DayAssumption` (a day is whole seconds).

Every inductive invariant was checked by TLC on the instance of the module's run, in a
configuration of its own with `IInv` in place of the properties (between 75,000 and 1.7 million
distinct states), before it was proved. These configurations are not kept: a run with the same
bounds has each property that the invariant is for.

### Only model-checked

Liveness, which is out of the prover's reach: `SelectionEnds`, `PermitReturned`,
`FinalEventFollows`, `HotReload`, `RequestsEnd`, `RelayEnds`, `AdminsDemoted`, `KeysRevoked`,
`MarksSettle`. Every invariant, step property and refinement that a passing run checks is proved
as well, under the hypotheses named above.

## 7. Plan

Order: what every request goes through first (balancer, configuration, quota), then the streams
and the relay, then identities and records: done. To come:

1. Proofs: every safety property, step property and refinement that a run checks is a theorem now.
   Worth proving next: what a hypothesis leaves out (`RateExact` for windows of several lengths whose
   starts never meet), and the safety halves of the liveness properties (who waits can go on).
2. ResponsesStream: the usage in `response.completed`, and the end of the stream after an error
   (docs/codex-protocol-design.md:354-355).
3. Relay composed with ResponsesStream and AnthropicStream through the lines it hands over.
4. The batch operations on users, and the cache of users.

## 8. Not modelled

* SQLite: each statement is atomic and may fail; its files and locks are left out.
* The filter of code fences (`gateway/codex/filter.go`) and the conversions of text completions:
  their state is the characters of a string, which a model would only spell out again.
* The traffic dumper and the user logger: files by request, by user and day, written under a
  mutex; what could go wrong is I/O.
* The filter of clients and the web interface decide or display without state of their own.
* The order of a shutdown: the process ends as soon as the listener is closed (`server.go:104`),
  which the modules with state that stays take for a crash.
* The tokenizer, user agents, texts, logging: pure helpers.
* The import tool: a one-shot command.
* Of modelled components: operations without a caller (`AddBackend`, `AcquireBackend` of the
  balancer; `Save`, `Reload`, `UpdateModels`, `UpdatePolicies`, `Unsubscribe` of the manager;
  `CheckQuota`, `RecordRequest` of the quota service); answers of the Responses protocol that
  are not streamed (a pure conversion), the usage and the names of calls in its events, and the
  heartbeat's comments between them; durations and counts in the dashboard's slots; the tokens of an API key; the settings for
  FIM and Responses of a model, which every update sets back to their defaults, as `modelToConfig`
  (`model.go:80`) does not carry them; files that name an ID twice, which `Validate`
  accepts.
