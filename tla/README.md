# GeoQuerry: TLA+ models and proofs

GeoQuerry is an offline-first platform for exploration geology: phones capture
stations, samples and boreholes in the field and sync them with a Go backend on
PostgreSQL; a web portal shows the data and the team's live positions. This
directory models the parts of it whose correctness depends on the order in which
things happen, checks the models with TLC, and proves theorems about them with
TLAPS. Sources are named relative to `backend/internal/` unless they say otherwise.

## 1. Inventory

| Component | State | Operations | Hard behaviour | What makes it correct |
|---|---|---|---|---|
| Sync push/pull (`sync/`) | tables stations, structural_measurements, rock_samples, vegetation; each device's copies, queue and cursor | PushSyncQueue (one last-write-wins upsert per entity), PullProjectData (watermark, then one query per table) | interleaved devices, lost responses, partial failure, late commits, device clocks | no row lost to the delta; no edit lost; last write wins; parents first |
| Boreholes (`sync/store.go`) | header rows, interval rows | UpsertBorehole (one transaction), PullBoreholes (two queries) | interleaved transactions, pulls between two commits | a log is whole and belongs to its header |
| Telemetry (`telemetry/`) | members and subscriber channels in memory; two goroutines per stream | Publish, Subscribe, cancel, sweepOnce, the stream handler | slow or hung clients, full channels, expiry, goroutine lifetimes | subscribers see the present team; nobody stalls or leaks |
| Server (`cmd/server`, `config`, `db/`) | process lifecycle, pool, schema_migrations, advisory lock | Load, Connect, Migrate, serve, drain, close | several builds at once, crashes, lost sessions, a small pool, streams that outlive the drain | each migration once and in order; nobody serves on an older schema; nothing hangs |
| Identity (`pkg/assertion`, `auth/`, `web/lib`) | local session, upstream and sudo cookies, assertions, the identity of a request | sign-in and out (proxied, or answered locally), logout, sudo check, Sign, Verify, both interceptors, ExchangeAssertion, GetSessionContext | two clocks, an upstream that comes and goes, a local copy of its session, a password check in flight, nothing revokes an assertion | assertions and sudo end a bounded time after what they rest on; a fresh assertion is admitted |
| Tenancy (`tenant/`, `db/tx.go`) | organizations, members, projects | CreateOrganization, TransferOrganizationOwnership, CreateProject | role checked in one transaction, used in another; row locks in opposite orders | always an owner; changes are warranted; every call ends |
| Payments (`mpesa/`, `paystack/`) | cached OAuth token, log of results | STKPush, accessToken, both webhooks, VerifyTransaction | lock held across a request, repeated and overlapping deliveries, reversals | tokens live when used; no result acknowledged without a true line in the log |
| GIS intake, jobs, billing (`gis/`, `queue/`, `billing/`) | gis_datasets, job table, payment_attempts, a river client that may be absent | InitiateDatasetUpload, CompleteDatasetUpload, InitiateMpesaStkPush | one transaction per write, dropped errors, crashes between, a process without a queue | what a reply promised is stored but for what its own call missed; a dataset PROCESSING has its job, or a named way to have lost it |
| R2 (`r2/`) | none | presign | - | - |
| Web stream client (`web/lib/sse.ts`) | EventSource, timer, retries | connect, disconnect, reconnect | callbacks racing a dispose | one source at most |
| Web pages, generated code | none of their own | - | - | - |

Components meet in few places. All backend services share one pgx pool (the pool
is in `Server`; the handlers are its `Requests`). The sync service and the
telemetry hub share nothing: telemetry never touches the database. Devices and web
clients reach both through Connect RPC. Tenancy, billing and GIS go through
`db.WithTenantTx`; GIS inserts River jobs. The identity that the gate leaves in the
context (`ident` in `Identity`) is the `caller` and `sudo` of `Tenancy` and the
`caller` of `Intake`. The mobile client is not in the repository: what the models
say of it is what the server's comments ask of it, and is marked external, as are
PostgreSQL, the payment providers, browsers and clocks.

`PROJECT.json` lists every hazard with its line and the properties that cover it.

## 2. Modules

**`LwwRegisters`** is the abstract promise of sync: a row keeps the version with the
latest stamp, the first of equals; a refused offer leaves no trace. **`Memberships`** is
that of the tenant service: no calls, locks or transactions, each change made at once and
warranted by the tables of that moment. **`RollingUpgrade`** is that of a deployment: the
schema grows by the next migration, and an instance opens only on a schema that has all of
its own. `SyncEngine` and `BoreholeLog`, `Tenancy`, and `Server` implement them; the
refinement mappings stand at the end of each.

**`SyncEngine`** (`sync/service.go`, `conflict.go`, `store.go`): the protocol of one
project. A row is an entity with a table; a version is its stamp, business key and
station. The upsert is one action, `PushEntity`: validation, the last-write-wins
guard, the unique key, the foreign key and a storage failure (before or after the
commit), in the order PostgreSQL decides them. A pull is `StartPull` (the
watermark), one `ReadTable` per query, and `PullDone`. `Edit`, `PushDone`,
`PullDone` and `Lost` are the device: it stamps edits with its clock, keeps
rejected rows queued, discards stale ones, never overwrites a queued row by a
pulled one, and repeats a lost request.

**`BoreholeLog`**: `UpsertBorehole` as `UpsertHeader`, `ClearLog`, `InsertLog`,
`Commit` or `Fail`, with the row locks of READ COMMITTED; `PullBoreholes` as
`ReadHeaders`, `ReadIntervals`. An interval row is represented by the version it
was written with, so that a mixed log can be told.

**`TelemetryHub`**: hub operations are one action each (the mutex); a stream is a
handler (`pc`, `sending`, `shown`) and a receiver (`recv`) around the unbuffered
channel. Silence is kept as the three ranges sweepOnce tells apart.

**`Server`** (`cmd/server/main.go`, `config/config.go`, `db/db.go`): one `pc` per
instance for the steps of `run`: `Load` with the settings that stop or hang a boot,
`Connect`, `AcquireLockConn`, `TakeLock` (pg_advisory_lock), `CreateTable`,
`CheckOne` and `ApplyOne` (one file each, a transaction on a second connection),
`Unlock`, `Listen`, `Sigterm` at every step, `Drain`, `Exit`. The pool is the number
of connections lent out; `Free` is pgxpool's limit. `Crash` and `LoseSession`
release the lock as PostgreSQL does. `Requests` borrow a connection and give it
back. Each instance embeds the migrations of its own build (`Known`).

**`Identity`** (`pkg/assertion/assertion.go`, `auth/`, `web/lib/auth/server.ts`,
`session.ts`, `sudo.ts`, `assertion.ts` and the auth routes). A browser has three
cookies: upstream's token (`neon`), the web server's own copy of the session
(`session`), the sudo cookie (`cookie`). A request to `/api/auth` that reaches a
configured upstream is one of `ProxySignIn` (token and copy), `ProxyToken` (a social
sign-in: the token alone) and `ProxySignOut` (the token goes, the copy stays). Where
none is configured, or the fetch throws, the web server answers for itself:
`LocalSignIn`, `LocalSignOut` (the copy goes, the token stays). Only `Logout` drops all
three. `GetSession` is the copy while it is young enough, else upstream's answer.
`AskSudo`, and `ElevateSudo` or `RefuseSudo`, are the two halves of POST
/api/auth/sudo around its check; an elevation does not mean that a password was
checked (section 5). An assertion is its claims. `WebToken` and `Sign` are the two
signers (the web one writes "EdDSA", which `Verify` refuses); `Verify` has the time
tests of the code on a clock that is `offset` from the web's; `Authenticate` is
CombinedInterceptor, `Gate = "key"` the API-key interceptor.

**`Tenancy`** (`tenant/service.go`): a handler is `ReadRole` (getCallerRole's query)
and then its transaction; a transfer is `CheckTransfer`, `Demote`, `Promote`,
`Commit`, with the rows it has updated in `held`. As in SQL an update writes the rows there are
(`Updated`): one that names a user without a membership writes none. A call waiting for a row another
call holds is a disabled `Demote` or `Promote`; `Cancel` is PostgreSQL's deadlock
detector; `Fail` is any error or a caller who left.

**`Payments`** (`mpesa/daraja.go`, `mpesa/webhook.go`, `paystack/`): `TakeToken` is
accessToken up to its fetch, with `tokenMu` held while the fetch (`FetchToken`,
`FetchFails`) is under way; a token remembers both the end its issuer counts and
the `expiry` the client computed. `log` holds the lines of the process's log, which
is the audit trail the code has (no table is written). `Prompt` and `Settle` are Daraja and the customer.
`Deliver`, `Verified` and `VerifyFails` are a Paystack delivery around its
verification call; `owed` is what a provider will tell again.

**`Intake`** (`gis/service.go`, `queue/`, `billing/service.go`): each write is
`Written`: made, or dropped with its error, in which case `missed` remembers it for
this call and its reply takes it along into `told`. `CompleteDatasetUpload` is
`MarkProcessing` and `Enqueue`, two transactions; `Crash` may fall between them, and
`cut` remembers for which jobs it did. `river` is whether the process has a client to
insert jobs with: main.go warns and serves without one when it cannot make it, so
each start of a process picks, and without one `Enqueue` inserts nothing and answers
as ever.

The `*Proofs` modules hold the theorems, the `MC*` modules the instances for TLC. A
definition no action uses (`KeptLock`, `HeldOnError`, ...), just before the one it
varies, is a plausible mistake: put in place of that definition it breaks a property,
which `PROJECT.json` pairs with it.

## 3. Runs

| Run | Expect | What it shows |
|---|---|---|
| `sync_engine` | pass | `DeltaComplete`, `NoEditLost`, `CopiesMoveForward` (monotonic reads), `RowsAreRegisters` (refinement), `ParentsFirst`, `OrphansAreResent` |
| `offline_gap` | violation | `NothingMissed`: an edit pushed later than the overlap is lost to other devices |
| `push_cursor` | violation | `DeltaComplete` when a push's ServerTimestamp is used as the cursor, as a comment says |
| `borehole_log` | pass | `LogMatchesHeader`, `HeadersAreRegisters` (refinement), `VerdictsAreSafe`, `WholeOrSuperseded` |
| `torn_borehole` | violation | `NeverHalfItsLog`: a pull can return a header with another version's log |
| `telemetry_hub` | pass | `UpToDate`, and liveness: a silent member is greyed and forgotten while another keeps publishing; no stall, no leak |
| `slow_stream` | violation | `CatchesUp`: after an overflow a client that has caught up shows an old team |
| `server` | pass | `UpgradesRoll` (refinement), `ServesMigrated`, `AppliedAlone`, `NoWorkCut`, and liveness: `StallsNeedOneConn`, `DrainEnds`, `RequestsEnd` |
| `identity` | pass | `RevocationWindow`, `FreshAdmitted`, `SudoIsRecent`, `SudoViewsAgree` |
| `tenancy` | pass | `NeverOwnerless`, `ProjectsByGeologists`, `OwnersGrowByStaleRole`, `TablesChangeAtOnce` (refinement), `CallsEnd` |
| `payments` | pass | `TokenLive`, `MutexMeansFetch`, `FetchedOnce`, `AuditTrail`, `PushesEnd`, `PaymentsLogged` |
| `intake` | pass | `ConfirmedIsKept`, `ProcessingHasJob`, `WritesAreEntitled` |

### Bounds, and why they are enough

* `sync_engine`: two devices, since every property compares one device with the
  server or an edit with one competitor; two stations that compete for codes and one
  sample that can hang off either, so unknown parents, duplicates, ties and invalid
  rows all happen; `MaxEdits` 2; `MaxTime` 3 with an overlap of one, so that a push
  can be in time or late. Devices, codes and stations are interchangeable and
  declared symmetric; the three properties over steps are safety properties. The
  violation runs use one station and one sample.
  `DeltaComplete` excludes the rows in `late`, those ever pushed more than `Overlap`
  after their stamp. `offline_gap` is the same property without that clause: it is
  what the design gives up for devices that stay offline.
* `borehole_log`: two boreholes, two intervals, two pushers, one puller, five versions
  that shrink the log, empty it, tie, move to another project and claim the other
  borehole's interval, and one that is invalid.
* `telemetry_hub`: one project, two members, two streams: the client of each sends
  one member's breadcrumbs (`Sends`). One member may fall silent for good (`Fading`)
  while the other goes on or not, so greying and forgetting are seen with another
  member publishing all along; one of the clients hangs. Channels have one slot
  instead of 64 (the hub only asks whether a channel is full; the slow-client
  counterexample needs 65 snapshots in the code where it needs two here).
* `server`: two instances, an old build with one migration and a new one with two, so
  that both orders of deployment, a downgrade and a restart occur; sound settings, a
  pool of one, a member TTL of 0, and a half-configured payment rail; two requests, as
  many as the pool has connections.
* `identity`: two users on one browser; `Drift` 1, `Skew` 1, `Lifetime` 2, `SudoTTL` 2,
  `SessionLife` 1, seven instants (`MaxNow`), so that every window opens and closes, the
  longest (a session's life, then an assertion's) too; five requests to /api/auth
  (`MaxRequests`): one user signs in, elevates and leaves, the other comes; `MaxTokens` 1,
  as every property speaks of one assertion. `Live` is true: the web server's own answers
  are possible all the same (a fetch may throw), so this covers a server without an
  upstream. Users are symmetric. The gate is `"combined"`, the interceptor the package
  documents (see section 5).
* `tenancy`: one organization, two users, two calls: the smallest with crossing
  transfers, a stale role and a deadlock. `MaxProjects` 1.
* `payments`: two pushes, one of whose customers reacts (`Customers`), one Paystack
  reference, one delivery at a time but any number of them; `Timeout` 1, `Margin` 2,
  a token that lives 3 or the default 4, `MaxNow` 3. Deadlock is not checked here:
  pushes are made once each and time ends at `MaxNow`, so the model does stop.
* `intake`: one organization, two projects, a viewer and an admin, two ids (`Ids`), two
  calls at a time and five in all (`MaxCalls`): an upload, a completion that misses its
  job, one that is sent again, one that is cut off. Two writes fail (`MaxFaults`); a
  process without a river client needs no failure. Projects, ids and calls are symmetric.

Deadlock is checked in every other run.

### Fairness

Assumed only where the code or what it runs on schedules. Nothing is assumed about
clients calling, hanging up or paying, about crashes, or about time passing.

* `TelemetryHub`: weak fairness of the reaper (its ticker fires until shutdown), of
  goroutines that have a step to take, and of `Sent` for clients that read; strong
  fairness of the select branches, because Go picks among ready cases at random. A
  wedged client has none.
* `Server`: weak fairness of every step of a running process (a query is answered, a
  drain times out); strong fairness of `TakeLock` and `Borrow`, because PostgreSQL
  and pgxpool serve those who wait in order; weak fairness of `Answer` for a request
  that has its connection. `LoseSession`, `Crash` and `Sigterm` are unfair.
* `Tenancy`: weak fairness of the steps that wait for nobody and of `Cancel`
  (deadlock_timeout), strong fairness of the two updates, as row locks are granted in
  turn. `Fail` is unfair.
* `Payments`: strong fairness of `TakeToken` (a sync.Mutex starves nobody), weak
  fairness of an exchange's end (http.Client.Timeout). Of the providers: they tell a
  result until it is acknowledged, and Paystack's verification does not fail for ever.
* `SyncEngine`, `BoreholeLog`, `Identity`, `Intake`: none; only safety is claimed.

## 4. Proofs

Each holds for every value of the constants under the module's assumptions, which
say what the constants are and, where stated below, how they relate.

* `SyncEngineProofs` (`SyncAssumption`).
  - `TypeCorrect`, and `NoRowIsLost`: `Spec => []DeltaComplete` when cursors come from
    pulls (`~CursorFromPush`). `DeltaComplete` is not inductive: while a request is under
    way the argument depends on what is in flight. `IInv` adds: no cursor and no mark is
    ahead of the clock (`ClockInv`); the bookkeeping of a request, such as that a row in
    a batch is still queued and a row not queried has not been read (`RequestInv`); an
    accepted or stale row of a running push has lost to what is stored or is it, and
    belongs to the next delta if it has been overwritten since (`PushInv`); a row a
    running pull has queried is current in the response, or it changed afterwards and is
    stamped late enough for the pull after this one (`PullInv`), which is where taking
    the watermark first is used.
  - `EditsAreKept`: `Spec => NoEditLost`, from the same invariant.
  - `EngineImplementsRegisters`: `Spec => RowsAreRegisters`: only `PushEntity` writes,
    and it writes what `Wins`.
  - `ParentsComeFirst` and `OrphansComeHome` (the latter again with `~CursorFromPush`):
    every child that is stored, read or settled names a station that is stored
    (`FamilyInv`), and an orphan in a batch was judged after its station (`BatchInv`,
    the order of the loops). An orphan's station is then in the delta by `NoRowIsLost`.
  - `ReadsAreMonotonic`: `Spec => CopiesMoveForward`. What a device holds of a row it is
    not editing, and what its running pull has read, are not ahead of what the server
    stores, and what the pull has read is not behind the copy it will replace
    (`CopiesInv`); so no late answer and no edit that comes back undoes a later version.
  - `CopiesConverge`, with `~CursorFromPush`: two devices that are not editing a row, which
    was pushed in time and which the next pull of neither would bring, hold the same
    version of it (`DevicesAgree`), a consequence of `NoRowIsLost`.
* `BoreholeLogProofs`: `TypeCorrect`, `LogsAreWhole`, `PullsAreWholeOrOld`,
  `VerdictsCanBeTrusted`, `HeadersImplementRegisters`. The row lock makes a transaction
  the only writer of its borehole from the upsert of the header to its end, so what it
  judged and deleted is still true when it commits (`TxInv`, `LockInv`); the primary
  key keeps two logs from sharing an interval; a header that was read is there or
  superseded (`HeadInv`).
* `TelemetryHubProofs` (`MemberAssumption`, `MarkerAssumption`): `TypeCorrect`,
  `SubscribersAreUpToDate`, `NothingLeaks`.
  Whatever changes a team broadcasts to its subscribers under the same lock, and a
  stream subscribes before its first publication; so the newest snapshot of a stream
  that lost none is the team (`QueueInv`, `HandlerInv`). `NoLeaks`: the hub has a
  channel for exactly the handlers that drain it, and a selecting handler a receiver.
* `ServerProofs`: `MigrationsInOrder`, `ServingIsMigrated`, for any builds and
  settings: whoever is at file *n* has seen all before it applied, and applied
  migrations are never removed. `NobodyTrips`: while the database keeps its sessions,
  whoever is between lock and unlock holds the lock. `DeploymentRolls`: with these, every
  step of `run` on any instance is a step of `RollingUpgrade` or a stutter
  (`open <- Serving`).
  The connections lent out are accounted for exactly (`PoolInv`): the pool's counter is
  what the migration of the instance holds (the lock connection, and a second one while a
  file is applied) and one for each request that works there. Hence `WorkIsFinished`
  (`NoWorkCut`: a pool is closed only when nothing is lent) and `WaitsAreFounded`
  (`NobodyWaitsInVain`: who waits for a connection, for the lock or for the pool to
  empty waits for somebody that has it; the one exception is the migration in a pool of
  one, which waits for itself).
* `IdentityProofs` (`IdentityAssumption`; `NoneAssumption`: absence is no claim, identity
  or answer), for both gates and with or without an upstream: `TypeCorrect`,
  `RevocationIsBounded`, `FreshIsAdmitted`, `SudoStaysRecent`. Three histories say what a
  step may rely on: `present` (a browser spoke for the user), `entered` (he signed in, or
  held upstream's token), `elevated`. The invariant says that whoever a browser speaks
  for is present now and entered within a session's life; that an assertion was minted
  at such a moment, and carries no later sudo than a cookie did; that a cookie runs for
  at most the TTL from an elevation of its own user. No sign-out is needed for any of
  them, so none of the ways to sign out is trusted: that is why the bound counts from the
  last moment the browser spoke for the user, and from his sign-in only with the life of
  the copy added. `SudoIsToldAsMet` (`SudoViewsAgree`): the two tests of a sudo window
  differ in the instant at which it ends and nowhere else.
* `TenancyProofs`: `TypeCorrect`, `LocksAreSound` (row locks exclude each other and end
  with their call), `AlwaysOwned`, `ProjectsStayByGeologists`. A commit writes the
  target's role last, and there is a row to write it to: the target was found to be a
  member before (`CallInv`) and no call removes one (`MovedIs`). So the target is an
  owner after it; a member's role is only ever changed to admin or owner.
  - `MoreOwnersByStaleRole`: a commit removes its caller from the owners before it adds
    the target, so their number grows only if the caller was no owner any more, although
    `role` says so; the rest is cardinality (`OwnersInv`, `RoleInv`).
  - `HandlersActAtOnce`: every step is a step of `Memberships` or a stutter. What a call
    read is not what the tables say when it commits, but it warrants the change still:
    a former owner is an owner or an admin (`FormerInv`), and no geologist loses the rank.
  - `WaitsAreBroken` (`SomebodyMoves`): in any set of calls that wait for nobody outside
    it, one has its row or is in a cycle that the database breaks.
* `PaymentsProofs` (`MarginAssumption`: the margin is at least two timeouts and every
  lifetime is longer than that; 2 min against 15 s in the code): `TypeCorrect`,
  `TokensStayLive`, `MutexIsAFetch`, `FetchIsShared`, `LogIsComplete`. A token is issued at most one
  timeout before its answer arrives and a push lasts at most one more, so the margin
  covers both; the mutex is held exactly while a fetch is under way (`Mutex`, `Holder`);
  whatever a provider tells or a delivery verifies has happened, and only a result with
  a line in the log is acknowledged (`AuditTrail`).
* `IntakeProofs`: `TypeCorrect`, `PromisesAreKept`, `ProcessingIsBacked`
  (`ProcessingHasJob`), `WritesByTheEntitled`. Every row carries a minted id, ids are
  never reused, and a dataset keeps its organization and project, so a later call cannot
  undo what an earlier one was told. A call past its first transaction stands before its
  job until it is answered, with the job or with the miss in its reply, or is cut off;
  so a dataset it marked is accounted for at every moment.

TLC checks each of these on small instances as well, except the type invariants,
`RowsLockedOnce`, `InOrder` (`UpgradesRoll` implies it), `DevicesAgree`, `NoLeaks`,
`NobodyWaitsInVain` and `SomebodyMoves`, which no run lists because the theorems cover them.

Only model-checked: liveness, all of it, that is `SilentForgotten`, `SilentGreyed`,
`PointsGetThrough`, `ReceiversEnd`, `StallsNeedOneConn`, `DrainEnds`, `RequestsEnd`,
`CallsEnd`, `PushesEnd`, `PaymentsLogged`. Liveness under fairness is beyond what TLAPS
supports. What can be proved of some of them is the safety they rest on, that nobody ever
waits for a thing that nobody will release: `NothingLeaks` for `ReceiversEnd`,
`WaitsAreFounded` for `DrainEnds` and `RequestsEnd`, `WaitsAreBroken` for `CallsEnd`,
`MutexIsAFetch` for `PushesEnd`. TLC adds, on the instances, that the fairness of section
3 then gets everybody through.

## 5. What the models say about the code

The four violation runs are disagreements between the code and what its comments
promise; `PROJECT.json` quotes them under `findings`. Others were met while modelling.
They are part of the models as they are, and the properties are stated so that they
hold of the code, not of the document. Where the two differ most:

* **Signing out.** `/login` calls sign-out to "clear any pre-existing local session"
  (`web/app/login/page.tsx:89`), and `security/controls/session-lifecycle.md:14-24` has a
  REVOKED record, 14 days at most and a window of 300 seconds. Nothing is recorded, and a
  sign-out that a live upstream answers (`web/lib/auth/server.ts:206-290`) leaves the
  local session cookie, which getSession honours for 15 days (42-68): until then
  assertions go on being minted. `RevocationWindow` therefore counts 305 seconds and the
  clocks' drift from the last moment a browser spoke for the user, and 15 days more from
  his sign-in. Only POST /api/auth/logout ends all three cookies; a sign-out leaves the
  sudo cookie as well, which is bound to its user and harmless to the next
  (`SudoIsRecent`).
* **Sudo.** The sudo route means to "re-validate the password against Neon Auth instead
  of trusting a client claim" (`web/app/api/auth/sudo/route.ts:22-23`). signIn.email
  reports no error when no upstream is configured and when the fetch throws
  (`web/lib/auth/server.ts:144-172`): six characters are enough then. So `SudoIsRecent`
  speaks of a user elevated at his own request, not of a password checked.
* **Payment results.** ADR-0007 (`docs/decisions/0007-*:48-55`) answers 200 only after the
  event is committed to `webhook_inbox`, and checks an M-Pesa payload against its pending
  attempt. The code has neither: a result is a line of the process's log
  (`mpesa/webhook.go:84-96`), as durable as the log is, and is not compared with
  any attempt. `AuditTrail` and `PaymentsLogged` say what the line is worth, that it
  precedes the acknowledgement and is true; they do not claim the ADR's inbox.
* **Jobs.** ADR-0004 (`docs/decisions/0004-*:26,37`) inserts a job in the very transaction
  of the row it is for, so that "jobs cannot be orphaned". The status and the job of a
  completed upload are two transactions whose errors are dropped, and a process whose
  river client could not be made (`cmd/server/main.go:70-80`) answers PROCESSING and
  inserts nothing (`gis/service.go:131`). `ProcessingHasJob` names the ways in which a
  dataset stays PROCESSING without a job, and proves there is no other; the tables of
  River are made by hand in the migrations, and an insert they do not fit is a missed
  write here. The key the job carries lacks the file name of the dataset's own key
  (`gis/service.go:69` and `137`): data, which the model leaves out.

The rest, by component:

* `main.go` mounts only the API-key interceptor, with no verifier, so no identity
  reaches the tenant, auth and billing handlers. `Identity` has both gates;
  `Tenancy` starts where a handler has an identity, and `Intake` lets a call
  without one skip the role check, as billing does.
* Web assertions differ from the backend's in algorithm, issuer and audience:
  `Verify` refuses them.
* An ownership transfer checks a role it read in an earlier transaction: two
  transfers by one owner can leave two owners. `OwnersGrowByStaleRole` says this is
  the only way.
* A pool of one connection makes `Migrate` wait for itself, and every other instance
  for its lock (`StallsNeedOneConn`). A member TTL of 0 is accepted by Load and panics
  after migrating. The drain lasts 15 seconds whatever ShutdownTimeout says.
* A `SET LOCAL` with a bind parameter, as WithTenantTx has it, is refused by
  PostgreSQL: such writes are missed ones in `Intake`.
* The callback URL that STKPush names lacks the secret its route asks for: `secret` in
  `Payments` is whether something in front of the server adds it. A reply of
  InitiateMpesaStkPush says a push was made although none is sent.
* The tenant service uses `organization_members` where the embedded migrations create
  `organization_memberships`, and columns of `projects` they do not create; `Tenancy`
  is the service on the schema it was written for.

## 6. Not modelled

* Inside the modelled parts: column data, wording, encoding and logging; `is_deleted`
  (to every statement it is data; a deleted row keeps its key, and so it does here);
  moves of a row to another project, of which no document says what a device should
  hold afterwards; concessions, which devices never write; the nested copies in a
  pull, which repeat the flat lists; `Hub.Close`, called as the process exits;
  `AcquireStreamTicket`, which keeps no state; `VerifySudo`, which updates a table no
  migration creates and drops the error; `CanManageRole`, which nothing calls; the
  first breadcrumb of a stream when it is refused, which leaves nothing behind.
  Queries that answer constants (plans, price catalog, dataset status and lists).
* River workers: the client is never started, so a job waits for ever. STKPush and
  InitializeTransaction have no caller yet; `Payments` models them as a caller would
  meet them.
* R2: string signing without state; the object store, which enforces the expiry, is
  outside the repository.
* `web/lib/sse.ts`: only its test imports it, and the ticket route names a stream URL
  that no route serves.
* Pages and components: user interface over the rest, mostly demonstration data.
* What the upstream auth service does behind the web's proxy (its own sessions, e-mail
  verification): the models have its answers. Sign-up, which sets the cookies a sign-in
  sets. `proxy.ts`'s path guard. Generated protocol code beyond the messages the handlers take
  and give, which are record sets of the modules.

## 7. Running

    tlc -workers 2 -config MCSyncEngine.cfg MCSyncEngine      # about 3 minutes
    tlc -workers 2 -config MCServer.cfg MCServer              # about 1 minute
    tlapm SyncEngineProofs.tla                                # the longest proof

and so for the other `MC*.cfg` (`MCTelemetryHub` about 3 minutes, `MCIdentity` and
the rest each under two; `MCSyncEngineOffline.cfg` and
`MCSyncEnginePushCursor.cfg` go with `MCSyncEngine`, `MCBoreholeLogTorn.cfg` with
`MCBoreholeLog`, `MCTelemetryHubSlow.cfg` with `MCTelemetryHub`) and the other
`*Proofs.tla`.
