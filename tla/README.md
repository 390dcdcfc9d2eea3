# samba-admin: formal models, checks and proofs

TLA+ models of samba-admin: jobs and their locks, approved changes, the privileged
agent, idempotent requests, sessions and second factors, the event stream up to the
screen, start and migrations with the audit log, inventories and fixtures, and the way
of a request through middleware, configuration and executors. TLC checks each on a
small instance; TLAPS proves the safety properties of the passing runs, all but one, for all values of the
constants. What is left to TLC alone is liveness and `ReplayInventsNothing`.

`PROJECT.json` lists the components, the runs, the hazards, the source lines
behind every definition and the theorems.

## 1. Inventory

Two processes share a Unix socket. The **API process** serves the console, keeps
everything in SQLite and runs one goroutine per job. The **agent process** holds
the privileges, accepts signed requests and runs a fixed catalogue of commands. A third
program, the **fixture collector**, records what a host answers so that both can run
without one.

| Component | State | Operations | Interacts with | What is hard | What makes it correct |
| --- | --- | --- | --- | --- | --- |
| Job manager `jobs/manager.go` | `jobs` rows, map of cancel functions, one goroutine per job | CreateWithID, run/advance/fail, Cancel, Rollback | locks, agent client, broker, audit | cancel against a timer or the call; five exits with deferred calls; failed statements; a crash at any step | one execution, one terminal status, everything released |
| Resource locks `storage/store.go` | `resource_locks` rows with an expiry | AcquireLock (DELETE, INSERT), ReleaseLock | job manager | lease that is never renewed; rows of dead owners | exclusion on a resource, stale rows never block |
| Change control `approval`, `httpapi`, `storage` | `change_requests` rows, tracker goroutines | Request, Approve, Reject, execute, track | job manager, idempotency mutex | three statements per execution; clock read before use; the only writer of the outcome may die | two persons, one execution per approval, outcome of the job, window |
| Agent server `agent/server.go`, `nonce_store.go`, `signing.go` | nonce cache and file, semaphore | handle, Use, load/purge/trim/persist | executors | duplicates, late and concurrent deliveries, restart, full cache | executed at most once, bounded concurrency, loadable file |
| Catalogue, executors `agent/protocol.go`, `executor_*.go` | table of operations, commands, schemas | LookupOperation, Validate, Execute | agent server, adapters | three lists of commands that must agree; a deadline in mid-collection | what is asked is allowed, nothing else runs, no mutation reaches a host |
| Idempotency `httpapi`, `storage` | `idempotency_keys` rows, `idemMu` | withIdempotency | every mutating handler | crash with a pending reservation, result not stored, timeout while the handler runs on | one effect per key, a replay is the original |
| Sessions, MFA, lockout `auth`, `storage` | `sessions`, `mfa_*`, counters in `users` | BeginLogin, CompleteMFA, Renew, Logout, enrolment, recovery codes | middleware | renewal against logout or revocation; single-use codes; stale copies of the counter | no session survives its revocation, codes used once, guesses bounded |
| Event broker `events/broker.go`, console `useJobEvents.ts`, `JobsPage.tsx` | history of 1024, channels of 32, event ids; ids seen, view | Publish, SubscribeAfter, SSE loop, reconnect, fetch, poll | job manager, console | dropped events, ids that restart, a fetch that overtakes an event | the console converges to the state of the jobs |
| Audit chain `audit/audit.go` | `audit_log` rows | Record, Verify | all handlers | concurrent writers, failed read of the previous hash | what Record wrote is accepted; what an accepted log proves is known |
| Migrations and Bootstrap `storage/store.go`, `auth/service.go` | schema, `schema_migrations`, first account | applyMigrations, Bootstrap | start | a stop between any two statements, databases of earlier releases | every start completes, nothing is lost |
| Middleware, RBAC, generated routes `middleware`, `rbac`, `openapi_handler.go`, `server.gen.go` | session, grants | Router and its chain, Allowed | every handler | session that ends under a request; names spelled in three files | an effect needs session, token and duty; every request is answered |
| Adapters `adapters/*`, `app.go` | none; a fixture file | List, Inspect, Samba, Domain, Cups, Capabilities | agent, host | which commands run depends on which fail | the probe decides between answer and 503 |
| Configuration `config/config.go` | one configuration per process | Load | both processes | the two processes restart separately | only combinations that are safe together load |
| Fixture collector `fixturecollector`, `cmd/samba-admin-fixture-collector` | captured commands, the file | Collect, Sanitize, write | provider | a host that changes while it is recorded, a collection that runs out of time | the replay answers as the host did |
| Console pages, packaging | - | rendering, scripts | - | - | not modelled, see section 8 |

Failures the code meets: the API process stops at any point (also in a graceful
shutdown, which waits for no job), the agent restarts, statements fail, handlers panic or
hang, the client times out or is cancelled while the agent works, requests arrive late or
twice, connections break, commands of the host fail, and the database file is changed by
others.

## 2. Modules

| Module | Models | Uses |
| --- | --- | --- |
| `JobLifecycle` | abstract: what a caller may rely on when it submits a job | |
| `JobManager`, `MCJobManager` | `jobs.Manager`, the lock table, the agent call, failed statements, the crash | implements `JobLifecycle` |
| `ChangeControl` | change requests, their execution and tracking | jobs as `JobLifecycle` |
| `AgentServer`, `MCAgentServer` | request path of the agent with the nonce store | |
| `Idempotency` | `withIdempotency` and its rows | |
| `Sessions`, `MCSessions` | sessions, challenges and second factors of one account | |
| `LoginLockout` | the password check and the lock of an account | |
| `EventStream` | job row, broker, SSE handler, console | |
| `Startup` | migrations and Bootstrap | |
| `AuditChain` | the audit log while the API serves | extends `Startup` |
| `OperationCatalog` | the catalogue of the agent and its checks | |
| `HostProvider` | the FreeBSD provider as commands, the list of its runner | |
| `FixtureCollector` | how a fixture comes about | extends `HostProvider` |
| `Inventory` | an inventory from the handler to the host and back | extends `OperationCatalog`, `FixtureCollector` |
| `Dispatch` | a privileged request from the handler through two configurations to an executor | extends `OperationCatalog` |
| `Routes` | operations of the contract, grants, permissions | |
| `Requests` | a request through the middleware | extends `Routes` |
| `MCAccess` | instances of the two guards, `LoginLockout` and `Requests` | extends them |
| `JobManager_proofs` | proofs (section 5) about jobs and, in its second half, the event stream | extends `JobManager`, `EventStream` |
| `Access_proofs` | proofs about the lockout and the middleware | extends `LoginLockout`, `Requests` |
| `AuditChain_proofs` | proofs about start, migrations and the audit log | extends `AuditChain` |
| `Inventory_proofs` | proofs about the two modules that read the catalogue | extends `Inventory`, `Dispatch` |
| `ChangeControl_proofs`, `AgentServer_proofs`, `Idempotency_proofs`, `Sessions_proofs` | proofs about the module they are named after | extend it |

The `MC*` modules hold symmetry sets and values of constants for TLC. Where two modules share a
module of proofs, one of them has names of its own for specification and types
(`StreamSpec`, `StreamTypeOK`, `LockoutSpec`, `DispatchSpec`, ...).

### JobManager and JobLifecycle

One function per column (`status`, `resource`, `revertible`) and per lock row
(`lockOwner`, `lockAge`); per goroutine the control point `pc`, the number of the
`advance` call (`step`), its timer (`wait`) and its context (`ctx`). `Runner(j)` has
one action per step of `Manager.run`: `Register`, the two statements of
`AcquireLock` (`AcquirePurge`, then `AcquireInsert` or `AcquireConflict`), five times
`Advance` or `AdvanceCancelled`, the call (`CallSent`, `CallRefused`, `CallSucceeds`,
`CallFails`), `FailConflict`, `FailAgent` or `Succeed`, and the deferred `ReleaseLock`
and `Unregister` in the order Go runs them. `Cancel` fires the context; a
`select` whose timer has fired as well may take either branch (`ctx = "racing"`).

Each statement may fail: `PurgeFails` is the dropped error of the DELETE of `AcquireLock`, which
goes on to the INSERT over rows that have expired; `AcquireFails`, that of the INSERT, is
reported like a conflict; `AdvanceUnrecorded`
and `EndUnrecorded` are the dropped errors of `UpdateJob`, `ReleaseFails` that of
`ReleaseLock`, which leaves the row to its TTL. `faults[j]` counts them per job.

Time is a `Tick` that ages rows, runners and timers. A row's age is counted from the
`now` that `AcquireLock` read, so `Expired` is exactly `expires_at < now`. A runner
has at most `RunBudget` from that reading to the release: the code's 620 ms of
waits plus the client's 5 min 15 s are well inside the lock's ten minutes
(`LeaseAssumption`). A call that is dropped leaves the agent `aborting` for at most
`AbortTime` (`WaitDelay`, 5 s, for a command), and nothing waits for it: nothing is assumed
of this time, which in the code is longer than the waits before the next call. `Restart` loses goroutines and contexts and keeps the database, as
`app.Build` does.

In `JobLifecycle` rows are submitted once, advance, settle at most once, begin on the agent
at most once, and never two calls in progress on one resource; success needs a call that
succeeded. `JobManager` implements it under the mapping `RunOf`, in which an abandoned call has
ended (`GiveUp` for all that a crash abandons), whether or not the agent still works for it.

### ChangeControl

One function per column of `change_requests`, the handler that holds `idemMu`
(`handler`, between two of its statements), the trackers, and the jobs as
`JobLifecycle` sees them. `withIdempotency` holds `idemMu` during the whole of
each mutating handler, so one handler record is enough; time, jobs, trackers and
crashes interleave with its statements. The policy table is reduced to
`GatedOps` (approval, window and separation, which always come together, and which an
unknown operation gets too) and `FreeOps`; `CapableOps` are the operations whose
capability is supported. `StatementFails`, `ExecuteRelease`, `ExecuteReleaseFails`,
`TrackerQuits` and `Restart` are the failures.

### AgentServer

Each delivery of a request has a handler: `Verify` (the timestamp window), `Refuse`
(all checks that only refuse), `Admit` (the semaphore), then `Use`, `UseReplay` or
`UsePersistFails`, then `Finish`. The time given to `NonceStore.Use` is read before the
mutex is taken, so it is any time since the verification. `Trimmed` returns a
set because the sort leaves equal expiries in any order. `evicted` records the requests whose
live nonce a full cache dropped. `Restart` loads the file.

### Idempotency

The table is a function per column (`hash`, `response`, `expires`) of key and actor; of a
response it keeps which request produced it. A request is one delivery; a retry is another
one with the same key, actor and body. Under
the mutex a delivery looks up its row, purges and inserts its reservation, runs the handler
(which accepts with an effect, refuses, errors or panics), and completes or releases the
reservation; every statement may fail. `Timeout` answers the client at any point while the
handler goes on. `Restart` loses the mutex and the handlers and keeps the rows.

### Sessions and LoginLockout

In `Sessions` several handlers of one account run at once, each a sequence of statements
without a transaction: login up to the session or the challenge, `ClaimMFAChallenge`,
`verifyMFA` with a TOTP or a recovery code, `RotateSession`, logout, begin and
confirmation of an enrolment, rotation and revocation. Sessions, challenges, secrets and
batches of recovery codes are numbered as they are issued; a TOTP code is named by its
secret, a recovery code by batch and place. The history `via`, `from`, `by` says where each
session comes from, `racedSessions` and `racedSecrets` which of them met one of the two races
the code leaves open (section 4).

`LoginLockout` follows what is decided from the copy of the row that `FindUser` read: lock,
expiry of the password, network restriction, the comparison, and the UPDATE of the counter,
with several clients at once. `Allowance` is the number of wrong guesses the
design concedes by a given time.

### EventStream

The jobs table is a version number; an event and a fetched list carry the version they
show. Broker (`Publish`, `Trimmed`, `Connect`), SSE handler (`Forward`) and console (`Open`,
`HandleEvent`, `Stable`, `Break`, `FetchAnswered`, `FetchShown`, `Poll`, `Remount`) are
steps of their own, so that a list can be read before and shown after an event. `FetchFails` is a
failing GET /jobs with its one retry. `Refetch` and `Remount` follow the rules of the
QueryClient: a request to fetch cancels a fetch in flight only when there is data already, and a
page that is opened again may show the cached list without fetching. `gap` records that the
query has lost a change since its last fetch began. `EventsAfter`
is what the loop of `eventsAfter` leaves of the history: the events at the positions whose id is
larger, in their order (`Picked`).

### Startup and AuditChain

`Startup` runs Open, applyMigrations with each script statement by statement and Bootstrap,
on a database that is new or was left by any earlier release or an interrupted start. The
committed database and the connection's view of it are two images, so a stop loses what was not
committed. `AuditChain` lets goroutines call `Record` whenever the API
serves; `Edit` changes the file behind its back: it removes a row or replaces, each or not, its
hashed text, its columns outside the hash, its link and its hash, for which nobody needs a key.
Rows are numbered in the order of their INSERTs and the columns (`text`; `rest`, which is not
hashed; `linked`, `hash`) are functions of these numbers; `stamp` keeps the hash that `Record`
wrote and `relinked` whether an edit stored a link or hash of its own; `log` is
what the table holds, in the order of rowid. SHA-256 is taken to be injective: `Digest` is the
pair of what it is given.

### OperationCatalog, HostProvider, FixtureCollector, Inventory

`OperationCatalog` is `agent.Catalog` as data with `Validate`, `ValidateCatalog` and
`commandAllowed`. `HostProvider` gives each method of the provider as the commands it runs
and, for each, what follows if it fails (go on, leave the section, return the error), and the
allow list of its runner. What a method has still to do is a set of positions in its calls:
`First` is the next one, and `Remaining` drops the rest of a section whose gate failed. `FixtureCollector` runs these on a host that may change, sanitises
and writes; when the five minutes of the collection are over (`Expire`) every later command
fails, and a later run of a command replaces an earlier one. `Inventory` takes a request through the adapter of the configuration, the agent
with its executor, or a replayed fixture, one command at a time, with a deadline and an
abandoned call possible at any point.

### Dispatch

API and agent load any environment that `Load` accepts and restart separately. A handler
(share, service, both rollbacks, execution of a change) builds operation and payload as the
code does; the request then meets the mock client or the socket, the gates of the agent in
their order, and the executor that agent was started with. An approved change may name an
operation that neither the policies nor the catalogue know (`PolicyFor` only makes it high
risk): it becomes a job and the client refuses it (`ExecuteUnknown`).

### Routes and Requests

`Routes` holds, for every operation of the contract, its method, the parameters its
generated wrapper binds, its permission and whether it reserves a key, and the grants of
`rbac.go`. `Requests` follows one request with at most one thing wrong through CORS, timeout,
authentication, CSRF, routing, binding, authorization, key, body and handler, while the
session may end and the goroutine may hang at any moment and the timeout, where the
configuration has one (`timed`), may answer for a running handler. A login or a code that fails
is recorded too (`FailureAudited`).
`MCDuties` states what each role is for, independently of the names of permissions.

## 3. Runs

| Run | Instance | Checks |
| --- | --- | --- |
| `job_manager` | 2 jobs, 1 resource, TTL = budget = 6, abort 4 against waits of 3, 1 restart, 1 failed statement of one job; fairness | `TypeOK`, `AgentExclusive`, `EarlyCancelPreventsRun`, `CleanExit`, `StaleLockNeverBlocks`, `OldJobsStayPut`, `ImplementsLifecycle`, `JobsSettle` |
| `job_overlap` | 2 jobs, 1 resource, abort 4, no fault, no restart | violation of `ResourceExclusive` |
| `change_control` | 2 requests, 2 users, 2 jobs, clock 0..2, 1 fault; fairness | `TypeOK`, `SeparationOfDuties`, `OneExecutionPerApproval`, `OutcomeAgrees`, `DecisionFinal`, `NeverBeforeWindow`, `LateApprovalIsVoid`, `ChangeSettles` |
| `change_control_window` | 1 request, 1 job | violation of `BeginsInWindow` |
| `agent_server` | 3 requests, 2 handlers, room for 2 nonces, skew 1, TTL 4, delay 1, 1 slot, 1 fault | `AtMostOnce`, `SlotsAccounted`, `FileLoads` |
| `idempotency` | 3 deliveries of one key, 2 bodies, TTL 2, clock 0..2, 1 fault; fairness | `OneEffectPerKey`, `ReplayIsOriginal`, `RequestsAnswered` |
| `sessions` | 3 handlers, 4 sessions, 2 challenges, 2 secrets, 2 batches of one code, 1 fault | `SingleUse`, `RetiredFactorIsWorthless`, `RenewalReplaces`, `ActiveSecretProven` |
| `event_stream` | 4 changes, window 2, channel 2, 2 lost connections or new pages, 2 failed fetches, 1 restart; fairness | `GapFree`, `ScreenCatchesUp` |
| `startup` | every earlier database, 2 stops; 2 writers, 3 rows, 1 failed statement, 3 edits | `MigrationsReplay`, `EmergencyAccountAvailable`, `VerifyIsExact` |
| `inventory` | every adapter, executor and method, any 2 commands failing; a fixture with 1 fault, 1 change of the host and a deadline | `ListsCoverProvider`, `AnswerFollowsProbe`, `SteadyHostReplays`, `ReplayInventsNothing` |
| `dispatch` | every pair of environments that load, 1 restart | `MutationOnlySimulated`, `HandlersFitCatalogue` |
| `access` | 2 clients, threshold 2, lock 2, clock 0..4, 1 fault; every operation, method and role, one thing wrong, with and without a timer; fairness | `GuessesBounded`, `EffectIsEntitled`, `RequestsAnswered` |

Each property is stated in words above its definition. `TypeOK` is an INVARIANT of two
runs; in the other modules the invariant of types, whatever its name, is proved instead. It holds
on the instances of all runs, and adding it to the INVARIANTS of a cfg checks it, like any
part of the inductive invariants once the run's module extends the `_proofs` module.

**Why the bounds are enough to be interesting.** Two jobs on one resource meet in
every phase of the lease; with TTL equal to the budget the row of a job lost in the
restart expires while the other still wants it, and the wait of one unit per
`advance` leaves room for a cancel before, at and after each timer. The failed statement may be
any one of the first job's, also the release that leaves its row to the second. One fault at a
time reaches every window between two statements; the second change request is there so that
a handler works on one while tracker, job and clock work on the other. In `agent_server` the
clock runs far enough for a nonce to expire and the request to leave the window, three
requests overflow a cache of two, and one slot and two handlers reach the limit of the
semaphore. In `idempotency` the reservation of the first delivery runs out while others
wait. Three handlers put two renewals or claims beside a revocation. `access` sees
the lock run out once and close again. Two events in window and channel against four changes
overflow both; two failed fetches use up the retry of one. An abandoned execution lives for four
units and the next job waits for three, so the two overlap for one. Three edits alter a text and
the hashes of its row and of the next one, or two links and a text. Two failing commands reach every way a method goes on after a failure and a second
failure on that way; two stops hit a migration and its repetition.

In `access` the lockout and the middleware share no variable; each behaviour moves one of them.

**Deadlock** is checked for `JobManager`, in which something can always
happen. In `Requests` a goroutine that hangs is the end; that a request ends there without an
answer only if no timer covers it is part of `RequestsAnswered`. The other modules have a bounded clock or
bounded numbers of requests and nothing left to do once these are used up.

**Fairness.** Runnable goroutines are scheduled, timers fire, the client's
timeout ends a call and a killed command ends (`JobManager`); a handler that started
finishes, the ticker of a tracker fires, and a job settles (`ChangeControl`; the last is
`JobsSettle` of the run before it); statements return and `sync.Mutex` starves nobody
(`Idempotency`); goroutines, network and browser go on (`EventStream`); the goroutine
of a request takes some step until it hangs, which it may at any time, and the timer of
`http.TimeoutHandler`, if there is one, fires (`Requests`). Nothing is
assumed of users, faults and crashes.

**The violations.** `change_control_window`: the window is compared once, in the handler
(`httpapi/server.go:885`). The job does not look again, as `docs/change-approval.md:27` says
it does, so the agent may start after the window has closed. That it never starts before the
window holds (`NeverBeforeWindow`). `job_overlap`: a call is abandoned, its lock is released at
once, and the next job calls the agent while the first command is still being stopped
(`agent/executor_readonly.go:243`), although `backend/docs/risk-matrix.md:8` gives the lock as
the measure against concurrent reconfiguration. What the lock does guarantee is
`AgentExclusive`.

## 4. Where code and documents differ

Several properties hold only with an exception that the property names; each exception is a
behaviour of the code that a document or comment describes otherwise, or a gap worth knowing.

- **Unfinished jobs after a restart.** No code looks at jobs that were in progress when the
  process ended: the row stays as it is (`OldJobsStayPut`; `JobsSettle` excepts it).
  `docs/operations-runbook.md:34` and `docs/disaster-recovery.md:26` expect otherwise.
- **Failed UpdateJob.** Its error is dropped (`jobs/manager.go:86`); the row stays in progress
  although the goroutine has ended. `JobsSettle` and `CleanExit` except it.
- **Abandoned calls.** The lock is released when the call returns, not when the agent has
  stopped, which may take 5 s against 340 ms of waits: `job_overlap`. `AgentExclusive` allows an
  overlap with an execution that was told to stop at least those waits ago, and no other.
- **Altered audit rows.** The hash needs no key and leaves out `roles_json`, `source`, `ip`,
  `job_id` and `reason` (`audit/audit.go:49`), so these columns, or the last rows with their hashes,
  can be altered unnoticed; `backend/docs/security.md:9` says that the chain makes later
  alterations evident. `VerifyIsExact` says how far it reaches.
- **Failed purge.** The error of the DELETE in `AcquireLock` is dropped (`storage/store.go:187`), so
  an expired row can still be in the way of that INSERT; `StaleLockNeverBlocks` excepts a job
  with a failed statement of its own.
- **Short nonce TTL.** The constructor of the agent accepts any TTL from the skew on
  (`agent/server.go:113`); `AtMostOnce` is checked and proved for a TTL above twice the skew plus
  the handling time.
- **No timer.** A request timeout of 0 or less is accepted and installs no timer
  (`config/config.go:118`, `middleware/context.go:81`); a handler that hangs is then answered by
  nobody, and `RequestsAnswered` excepts it.
- **Full nonce cache.** A live nonce may be dropped (`agent/nonce_store.go:152`); `AtMostOnce`
  excepts such a request.
- **Renewal against revocation.** A logout, rotation or revocation between the SELECT and the
  end of `RotateSession` (`storage/store.go:422`) leaves the renewed session alive;
  `docs/mfa.md:13` expects it to end. `RenewalReplaces` excepts it.
- **Confirmation of a second factor.** An enrolment begun between the check of the code and
  `ConfirmPendingTOTP` (`auth/mfa.go:125`) is activated without a code of it; `docs/mfa.md:10`
  asks for one. `ActiveSecretProven` excepts it.
- **Late list, full channel, repeated ids.** The list fetched on connection can replace a newer
  event (`JobsPage.tsx:43`); an event dropped at a full channel (`events/broker.go:65`) is not
  made up for while the connection stands; after a restart ids start again and are taken for
  duplicates (`events/broker.go:58`). `docs/frontend-integration.md:22` expects SSE with
  `Last-Event-ID` and deduplication to be enough. `ScreenCatchesUp` excepts the three, and two
  more: a fetch that fails twice (`main.tsx:21`), and a first load that was in flight when the
  stream opened and is kept. Polling, once the console has given up on the stream, makes up for
  all of them, and `ScreenCatchesUp` says so.
- **Bootstrap.** A stop between its three statements (`auth/service.go:80`) leaves an account
  without flag or role that no later start completes; `docs/authentication.md:9` promises an
  emergency account. `EmergencyAccountAvailable` excepts it.
- **Failed read of the last hash.** Its error is dropped (`audit/audit.go:47`): the record is
  written as if it were the first, and Verify refuses the log from then on.
- **Dropped audit errors.** Handlers drop the error of `audit.Record`
  (`httpapi/server.go:297`), so an operation can succeed without its record.
- **Stream after logout.** The event stream asks for the session once
  (`httpapi/server.go:733`) and goes on after it has ended, unlike `docs/authentication.md:17`.
- **Deadline of an inventory.** Commands left when the deadline passes are read as missing values
  and the answer may still be 200; `docs/domain-member.md:22` expects the timeout to show.
- **Capabilities.** After a failed command some capabilities are `nao_verificado` and others have a
  state of their own (`adapters/freebsd/provider.go:89`), unlike
  `docs/freebsd-read-only-adapters.md:5`.
- **Replayed fixtures.** One result per command line is kept, the last one; on a host that changed
  during the collection, or when its five minutes end before the last method, the replay differs.
  `SteadyHostReplays` is about a steady host and a collection in time; beyond it
  `ReplayInventsNothing` says that the replay has less and nothing else.
- **Mock executor.** With the feature flag set it does see mutations; the comment at
  `agent/server.go:20` says it cannot.
- **Approved restart of Samba.** `executeChangeRequest` asks for a capability that is not in the
  supported list (`httpapi/server.go:967`), so such a change cannot be executed although
  `httpapi/server.go:645` sends it to approval.

## 5. Theorems

All are checked by `tlapm` with no assumption besides the named ones.

| Theorem | States | Assumes |
| --- | --- | --- |
| `TypeCorrect`, `ResourceExclusion`, `EarlyCancelTheorem`, `CleanExitTheorem`, `StaleLockTheorem`, `RestartTheorem`, `LifecycleRefinement` | the safety properties of `job_manager`, among them `AgentExclusive` and `ImplementsLifecycle` | `ConstantsAssumption`, `LeaseAssumption` |
| `ChangeTypeCorrect`, `SeparationTheorem`, `OneExecutionTheorem`, `OutcomeTheorem`, `DecisionTheorem`, `WindowTheorem`, `LateTheorem` | the safety properties of `change_control` | `ChangeConstants` |
| `AgentTypeCorrect`, `ConcurrencyTheorem`, `FileTheorem` | `TypeOK` and properties of `agent_server` | `AgentConstants` |
| `AtMostOnceTheorem` | `AtMostOnce` | also `NonceTTL > 2 * MaxClockSkew + HandleTime` |
| `RoomTheorem` | no live nonce is ever evicted | also room for all nonces (`CacheCovers`) |
| `IdempotencyTypeCorrect`, `OneEffectTheorem`, `ReplayTheorem` | `TypeOK` and the invariants of `idempotency` | `IdempotencyConstants` |
| `HandlersExclude` | between its lookup and its return a request is alone | `IdempotencyConstants` |
| `SessionsTypeCorrect`, `SingleUseTheorem`, `RetiredFactorTheorem`, `RenewalTheorem`, `ActiveSecretTheorem` | `TypeOK` and the properties of `sessions` | `SessionsConstants`, `NoneAssumption` |
| `LockoutTypeCorrect`, `GuessesTheorem` | `LockoutTypeOK` and `GuessesBounded` | `LockoutConstants` |
| `ServiceTypeCorrect`, `MigrationsTheorem`, `EmergencyAccountTheorem`, `VerifyTheorem` | `TypeOK`, `AuditTypeOK` and the properties of `startup` | `StartupConstants`, `AuditConstants` |
| `RequestsTypeCorrect` | `TypeOK` of `Requests`: also that what is recorded had an effect, or is a login or code that failed | `RequestsConstants` |
| `EntitledTheorem` | `EffectIsEntitled` | also `DutiesFit` |
| `StreamTypeCorrect`, `GapFreeTheorem` | `StreamTypeOK` and `GapFree` | `StreamConstants` |
| `DispatchTypeCorrect`, `MutationTheorem`, `HandlersTheorem` | `DispatchTypeOK` and the properties of `dispatch` | `DispatchConstants` |
| `InventoryTypeCorrect`, `ListsTheorem`, `AnswerTheorem`, `FixtureReplayTheorem` | `TypeOK` and the properties of `inventory` but `ReplayInventsNothing` | `FixtureConstants`, for the types only |

The assumptions called `...Constants` say that bounds and durations are natural numbers,
positive where the code's are, that the clients of `LoginLockout` are finitely many, and that a
value that stands for "none" is not one of the values.

**Job manager.** `AgentExclusive` is not inductive. A goroutine past the INSERT owns
its row and the row is as old as its own reading of `now` (`HeldInv`); its budget always
covers the timers to come (`BudgetInv`), so the row cannot expire under it; the agent
is busy for a job only while its goroutine is in the call or after the call was
dropped (`PhaseInv`); and whoever took the lock after an abandoned execution has waited no
longer than that execution has been told to stop (`GraceInv`): on arriving at the call this is at
least the three waits. No bound on `AbortTime` is assumed; with one of at most `PreCallWait` an
execution that is waning has at most its last instant left. Failed statements disturb none of this: a row that was not released
only keeps others out longer.

**Change control.** `HandlerInv` says what the handler in progress has checked and nobody
else can undo; `RowInv` that a request without a decision has no approver and one that is not
being executed no job; `ApprovedInv` that a gated request from its approval on has
another user as approver; `LaunchInv` that a launched job is named by a request that is
executing or finished, so a release never meets an existing job; `SuccessInv`
and `OpenedInv` connect outcomes with executions and the window with the clock.

**Agent.** `ReplayInv`: an executed request whose nonce was not evicted is remembered, in memory
and in the file, until `stamp - skew + TTL`. A handler reaches the store no later than
`stamp + skew + delay`, so if the TTL covers both skews and the delay it finds the nonce or
comes too late to be in the handler at all. The constructor demands only
`NonceTTL >= MaxClockSkew`; the values of `NewServer` (2 and 5 minutes) satisfy the theorem for
delays under a minute. `HandleTime` is an assumption about scheduling, the code states no
bound.

**Idempotency.** `MutexInv`: the request that is past its lookup holds `idemMu`, so nobody else
is (`HandlersExclude`). `WorkInv`: that request found no live row, and from its INSERT on the row
is its own, without a response and with its expiry, also when time passes and its client was told
of a timeout. `EffectInv` is the heart: an effect is covered by a row until its reservation has
run out, so whoever works on the same key reserved it a whole TTL later. It is here that
`CompleteFails` must keep the row: with a release in its place the effect is no longer covered.
`RowInv`, `FreshInv` and `ReplayInv` connect a stored response with the request that produced it.

**Sessions.** None of the handlers holds a lock, so each part of the invariant says who owns
what between two statements. `ClaimInv`: a challenge whose DELETE was won belongs to one handler,
then to one session. `CodeInv` and `UseInv` say the same of recovery codes; they need
that a code is inserted once, by the handler that has its batch, and that a used or deleted code never
becomes unused again. `SecretInv` and `StaleInv`: a secret that was active is neither active
nor pending again, so a code that was retired on arrival is still refused when it is compared.
`EndInv` and `RenewInv`: a session that replaces another has the handler that made it, and that
handler ended the old session, is undoing the new one, failed, or was overtaken. `ProvenInv`:
what is pending while a confirmation is about to activate it was proven or begun meanwhile.

**Lockout.** `guesses` is bounded by counting who may still guess. Every guess is in the row, on its
way to it or lost to a failed statement (`CountInv`). From the threshold on, each period of the
lock costs each client its guess: a client that made one is *spent* until the period is over, because
its next copy of the row shows a lock that reaches beyond it (`SpentInv`, with `LockInv` for
locks that are never shortened). A guess moves its client from the rest to the spent ones and leaves
the bound alone; the end of a period empties the spent ones and adds all clients to it.

**Start.** `DiskInv`: the table of keys on disk is settled and true to its ledger at every moment;
the connection sees something else only within the transaction of the third script, and
`Rebuilding` says what after each statement. `ScriptInv`: where applyMigrations is, all earlier
migrations are recorded; so no statement is refused (`ExecCases`), whether it runs for the first
time or again. `AccountInv`: an account without its role is being made or its making was cut.

**Audit log.** `LinkInv` holds while nobody has stored a link or a hash of his own: the hash of a row
contains its number, and its link is the hash of the row that its writer had read; the writer in
the mutex still has the hash it read. With an injective digest this turns both comparisons of
Verify into statements about texts and predecessors. `IntactInv`: a log that only Record has
written has every row in order, and the writer in the mutex has read the last one. `SealInv`, which
no edit can disturb: the hashes that Record wrote up to the first edit form a chain. So if an
accepted log has one of them, the digest gives the text of that row and the hash of the row before
it, which is again one that Record wrote, and so on to the first row. This induction over
positions is done with a counterexample: a last position at which the claim fails exists because the
positions behind it are finite sets, ordered by inclusion (`Greatest`, from the library's
`FS_StrictSubsetOrderingWellFounded`).

**Middleware.** The middleware checks early and the handler acts late, so the invariant carries what
each stage established: `FreshInv` (a session that is live now was live on arrival), `AuthInv`
(behind Authenticate the session was live and the cookie there), `RouteInv` (behind the router
token, method and permission fit) and `EffectInv`, which keeps this after the request is done. That an
effect needs the token although RequireCSRF lets GET and HEAD pass rests on
`EffectsArePosted`: the router serves no changing operation under these methods. `DutiesFit` says that
the grants give each role its duties; TLC evaluates it for `MCDuties` and the grants of `rbac.go`.

**Event stream.** `HistoryInv`: the history holds the last identifiers that were given, without a hole,
as many as the window has room for. So what `SubscribeAfter` picks is a suffix of it
(`PickedSuffix`), and the new connection starts right behind its starting point. `DeliveryInv`: as
long as nothing was dropped, what is on the wire begins behind what the console has read, the
channel continues the wire and ends with the newest identifier. Publish, Forward and HandleEvent each
move one event along this line. `ConnectionInv` bounds the identifiers by the row and says that a
console that gave up has no connection, which the types need.

**Dispatch.** `ProcessInv`: only environments that load are in force, and of these the ones with
mutable operations have an executor that simulates (`MutableIsSimulated`). The agent decides by its
own environment at the moment it executes, so no restart of either process matters for
`MutationOnlySimulated`. `BuiltInv` keeps what each handler built until the job is carried out;
the lemmas `ShareCarried`, `ServiceCarried`, `RollbackCarried` and `BackupCarried` hold it against
the schemas of the catalogue. It is needed because the request is checked steps after it was
built, possibly by another release of the agent.

**Inventory.** Two things are established about the calls of the provider, once for all methods
(`CallFacts`): the catalogue and the runner list every one of them, and no gate stands in the section
of a probe, so no failure can skip one. The first gives `ListsCoverProvider`; with `ProbeInv` (a
probe has still to come or has succeeded) the second gives `AnswerFollowsProbe`. For the replay,
`Outcome(m, B)` says without any order what a method comes to if the commands `B` fail
throughout: which calls a failed gate blocks, what succeeds, whether a probe fails. `Progress` is
the state of a method with its first calls decided, and `ProgressStart`, `ProgressStep` and
`ProgressEnd` show that running the calls one by one ends in `Outcome`. `CollectedInv`,
`FileInv` and `ReplayInv` carry this through collection, file and replay; the bridge is
`CapturedReplays`: a command that was not captured either failed or was never reached, and a
command that is never reached has no part in the outcome, so failing all commands that are not in
the file comes to the same as the host did.

**Only model-checked:** the liveness properties (`JobsSettle`, `ChangeSettles`,
`RequestsAnswered`, `ScreenCatchesUp`), which need fairness and with it ENABLED, and
`ReplayInventsNothing`, for which `Outcome` would have to be taken with different failures before
and after the deadline.

## 6. Abstractions

- One SQL statement is one step; `sqlite.DB` serialises them.
- Timestamps are numbers. The comparison of RFC 3339 texts in SQL agrees with the order of
  the times except for fractions of a second with trimmed zeros, far below the TTL.
- Random identifiers are distinct; hashes are injective; signatures cannot be forged.
- Of a command of the host only success or failure matters, not what it prints.
- Progress, summaries, wording and the headers that only decorate an answer are left out.
- History variables: `early`, `launched`, `executed`, `evicted`, `effect`, `via`, `from`, `by`,
  `racedSessions`, `racedSecrets`, `ended`, `stale`, `retired`, `proven`, `guesses`, `got`,
  `gap`, `dropped`, `cut`, `following`, `stamp`, `sealed`, `relinked`, `after`, `unread`, `written`,
  `original`.

## 7. Plan

1. *Done:* the models of section 2 and the proofs of section 5.
2. `ChangeControl` over `Idempotency`, so that the exclusion of handlers is a consequence of
   `HandlersExclude`.

## 8. Not modelled

The pages of the console and packaging scripts: no protocol of their own. Parsing of command
output, rendering and validation of configuration text, path checks, redaction patterns: text
in, text out. The SQLite binding, sockets, file modes, peer credentials, process groups:
operating-system calls. TOTP arithmetic, password hashing, encryption. The generated models:
record types. `PROJECT.json` says for each component which part of it this concerns.

## 9. Running

    tlc -workers 2 -config JobManager.cfg MCJobManager
    tlc -workers 2 -config Startup.cfg AuditChain
    tlapm JobManager_proofs.tla

and likewise for the other rows of section 3 (the cfg is named after the module, with the `MC`
module where there is one; `startup` runs `AuditChain`,
`access` is `Access.cfg` on `MCAccess`, and `job_overlap` is `JobManagerOverlap.cfg` on `MCJobManager`) and the other `_proofs` modules.
