# A verification of oc01's multi-tenant core

oc01 is a multi-tenant SaaS administration shell: a NestJS API on SQL Server
with row-level security, and an Angular console. This directory holds TLA+
models of the parts in which requests, connections and rows meet, the TLC
configurations that check them on small instances, and TLAPS proofs of every
safety property of the passing runs, for instances of any size.

## 1. Inventory

| Component | Where | State | Operations | What is hard | What makes it correct |
|---|---|---|---|---|---|
| Database sessions | `apps/api/src/database/database.service.ts` | the pool and the promise of its `connect`; per connection SESSION_CONTEXT (`company_id`, `user_role`, `global_principal_login`); per call a transaction | `query`, `transaction`, `applySessionContext`, `clearSessionContext`, `getPool`, `connect` | the context belongs to the connection and survives a rollback; a clear may fail inside the catch block; COMMIT may be lost; calls share a `connect` that fails | no request meets another's context; a resolved call is committed, a rejected one is not; one pool, and a failed connect is forgotten |
| Row-level security | `db/sqlserver/schema/002_rls.sql` | none of its own, reads SESSION_CONTEXT | two predicate functions, a policy over four tables | NULL keys; tables the policy does not name | a tenant's rows only under the tenant's or a super admin's context |
| Company provisioning | `apps/api/src/companies`, `001_core.sql`, `seeds/001_roles.sql` | `companies`, `users`, `user_roles`, `audit_events`, `roles` | `createCompany`: four INSERTs in one transaction | concurrent calls on one name or email, missing seed, failure between two INSERTs, retries | a tenant is complete or absent; names and emails are unique |
| Tenant access | `apps/api/src/tenant-access`, `apps/api/src/audit` | denials in `audit_events`, `ip_protection_events` | `getTenantAdminAccess`, `record`, `recordDeniedLookup`, `isBlocked` | four independent database calls, swallowed failures, a clock, concurrent bursts | the answer follows the role; the threshold blocks; blocks hold |
| RBAC | `apps/api/src/rbac` | none | `assertTenantPermission` | agreement with the row-level policy | no tenant role crosses the boundary |
| Login | `apps/api/src/auth/auth-credential.service.ts`, `auth.controller.ts` | the login flag of a connection | `verify`, `findGlobalUserRows` | the flag must not outlive the lookup | global principals are visible to the lookup only |
| Bootstrap access and seed | `apps/api/src/auth/bootstrap-access.service.ts`, `db/sqlserver/seeds/002_super_admin.template.sql`, `migrations/README.md` | `users` (token, forced rotation, global admin), `user_roles` | `completeFirstUse`, the statements of the seed, applying the policy | read, then write, without a lock or a context; a seed that is interrupted or run twice; the policy in the middle of it | a spent token stays spent and forces a rotation; a clean seed yields a login; the policy ends seeding |
| Session keys, tokens, readiness | `session-token-issuer`, `session-verification-key`, `token-validator`, `health` | the keys of the process | `issue`, `getKey`, `assertReady`, `verifySessionToken`, `ready` | sessions outlive processes and their keys | a ready process honours its sessions, a valid login gets in |
| Tenant context | `apps/api/src/tenant` | AsyncLocalStorage, per request | `attachContext`, `getRequired` | source address behind a proxy | a request runs under its own token |
| Web console | `apps/web/src/app` | auth store, view state of the forms | login, provisioning form, guard, interceptor | late, lost and overlapping answers | the view tells the truth about the last submission |
| RLS smoke scripts | `scripts`, `db/sqlserver/tests` | databases of a shared server; a container under a fixed name; the wrapper's flags and exit code | create, run, drop; remove, start, wait, copy, run, remove | every command may fail, or work and not say so; runs share names; a wrapper may be killed | exit code 0 is true; only its own database is dropped; nothing stays without a reason |
| Contracts, wiring, CI | `packages/contracts`, `*.module.ts`, workflows | none | | | |

How they interact: the console calls the API over HTTP. The middleware turns a
session token into an `AuthContext`. Controllers call services, services run SQL
through `DatabaseService`. A connection of the pool is the one piece of state
that all requests share in memory; the tables are the state they share on the
server. Audit events are written by provisioning (inside its transaction) and by
tenant access (outside any), and counted by enumeration protection. The seed and the
first use of a token write the same account; the moment the policy is applied cuts
through both. The smoke scripts touch none of this: they meet each other only, on a
server or under a container's name.

## 2. Modules

| Module | Models | Reads like this |
|---|---|---|
| `RowLevelSecurity` | `002_rls.sql` | operators over a `Context` record, no state |
| `DatabaseSessions` (extends it) | `DatabaseService`, the pool and each kind of work on it | `session[c]` is SESSION_CONTEXT of connection c, `conn[r]` the connection request r holds, `pc[r]` its next await, `failed[r]` that it is in the catch (or finally) block, `txn[r]` its transaction on the server |
| `DatabaseSessionsProofs` | | theorems about `DatabaseSessions` |
| `ConnectionPool` | `getPool` and `connect` | `poolPromise` and the calls that await it; a connect that fails rejects all of them and is forgotten |
| `PrivateSessions` | what the services ask of `DatabaseService` | a session of its own for every request, no pool and no connection; `own[r]` is fresh, or what r itself has set |
| `BoundaryProofs` (extends `DatabaseSessionsProofs`, `Rbac`) | | theorems that join the two tenant boundaries, and the modules that meet at a context |
| `MCDatabaseSessions` | | one request of each kind, and their actors |
| `Provisioning` | `createCompany` and the tables of `001_core.sql` | one action per statement; a row carries the id of the call that inserted it, so uncommitted rows are those of calls with an open `txn` |
| `TenantRegistry` | what provisioning promises (`openspec/specs/identity-provisioning`) | `registry` and `answer`; a tenant appears in one step |
| `ProvisioningProofs` | | theorems about `Provisioning`, the refinement of `TenantRegistry` included |
| `Rbac` (extends `RowLevelSecurity`) | `rbac.service.ts` | one operator with the three outcomes of the assertion |
| `TenantAccess` (extends `Rbac`) | tenant access, audit, enumeration protection | one action per database call, `now` is the server's clock, `troubled[r]` that a database call of r failed |
| `AccessGuard` | what tenant access promises | `request`, `blocks` and `reply`; a request is answered in one step, and no database stands between |
| `TenantAccessProofs` | | theorems about `TenantAccess`, the refinement of `AccessGuard` included |
| `MCTenantAccess` | | one actor, who is denied everywhere but at home |
| `BootstrapAccess` (extends `RowLevelSecurity`, `ConnectionPool`) | `completeFirstUse`, the super admin seed, applying the policy | `users[a]` are the columns both write, `locked` the row lock of an UPDATE, `step[s]` the statement a run of the seed is at, `policy` that `002_rls.sql` is applied |
| `BootstrapAccessProofs` | | theorems about it and the pool |
| `MCBootstrapAccess` | | one tenant |
| `ChildProcess` | how the wrappers run commands | `Runner` |
| `LocalSmoke` (extends it) | `run-local-rls-smoke.mjs` | `databases` of the server with who made each, `created[r]` the wrapper's flag, one action per sqlcmd |
| `ContainerSmoke` (extends it) | `run-rls-smoke.mjs` | `container`, what is under the name and in it; one action per docker command |
| `SmokeRuns` (extends both) | the operator's choice of wrapper | `wrapper` |
| `SmokeRunsProofs` | | theorems about both wrappers |
| `MCSmokeRuns` | | one name of each sort |
| `SignIn` | console, cookie, middleware, login, session keys, readiness probe | `call[i]` is a request with the cookie it was sent with; `visit[t]` numbers the views of a tab, so that an answer knows whether its view or its page is still there; `config` holds the keys of the running process |
| `SignInProofs` | | theorems about `SignIn` |
| `MCSignIn` | | four key environments |

The modules about rows take a context for granted, and the theorems of
`DatabaseSessionsProofs` and `BoundaryProofs` say that they get it:

* `TenantAccess` runs its statements under `PooledContext`, the cleared one. Without a
  leak a statement outside a transaction has that context (`RowsUnderNeededContext`),
  and the policy then shows it, and lets it write, no row at all (`QueriesAreAnonymous`).
* `Provisioning` ignores the policy. The scoped work of a super admin sees and may write
  every row, whatever failed before (`SuperAdminPassesPolicy`).
* `CanSignIn` of `BootstrapAccess` is the lookup of `AuthCredentialService`, which runs under
  the login flag and nothing else (`RowsUnderNeededContext`).

`SignIn` is joined to `DatabaseSessions` by the login lookup and to `Provisioning` by
`CreateCompany`, which accepts or refuses; why is the subject of those modules.

`BootstrapAccess` composes the policy, the pool and the two writers of an account. A
use begins by asking `ConnectionPool` for the pool, and both its statements and the
seed's run without a context, which `Visible` and `MayWrite` judge once the policy is
applied. `CanSignIn` is the lookup of `AuthCredentialService` on the same columns.

`PrivateSessions` is refined by `DatabaseSessions`: a request's `own` session is what its
connection carries while it holds one, and its `phase` is whether it waits, holds a
connection, reads or writes rows, or has given the connection back. `AccessGuard` is refined
by `TenantAccess`: `request[c]` is what has arrived, `blocks` are the rows of
`ip_protection_events`, and `reply[c]` is the answer from the moment it is decided, which
for a denial is when the last of its audit and telemetry is through. `TenantRegistry` is
refined by `Provisioning` with the committed rows as the registry.

Decisions worth knowing:

* In `DatabaseSessions` the statements between the context and the end of a work
  are one step, `work`, which may resolve or throw: which rows they touch is the
  subject of the other modules. The login lookup and both session procedures are
  modelled statement by statement.
* A statement that rejects either had its effect on the context (a timeout) or
  not (an error).
* A server that aborts a transaction makes the driver return the connection at
  once; every later statement on that transaction rejects, so no clear runs. This
  is the behaviour of the mssql driver and marked external, like the pool, the
  loss of a connection (a new one has an empty context) and SQL Server's ROLLBACK.
* In `Provisioning` an INSERT whose key is held by an uncommitted row is not
  enabled: it waits. It fails once the holder has committed and goes on once it
  has rolled back.
* A COMMIT without acknowledgement commits and still tells the caller it failed,
  as the code does.
* A company's id is a model value. `RbacService` compares ids as JavaScript strings and the
  policy as UNIQUEIDENTIFIERs; that one id may be spelt in two ways (in upper and in
  lower case) is abstracted, also in `BoundariesAgree`.
* The clock of `TenantAccess` runs in units of the policy's windows; what counts
  is which of two moments is later, and whether they are equal.
* The target of a request is always a well-formed company id. A malformed one
  makes the audit INSERT fail (`target_id` is a UNIQUEIDENTIFIER), which is
  `RecordDenialFails`. That action, and `TelemetryFails` of the INSERT of a protection, may have
  stored the row: a timeout is an error to the caller only.
* SQL errors end a statement of the seed and not its batch, as the template has
  neither a transaction nor XACT_ABORT; the batch goes on with a variable that may
  name no row.
* A command of a smoke wrapper may do its work and still fail (a broken connection
  to sqlcmd, a docker client that is stopped), and a killed wrapper may leave a command that
  does (`CutShort`); the wrapper only sees the exit code. A count of retries that is not an
  integer is taken like one that is not set, since `positiveInt` treats both alike.
* Both key services of the API cache a promise, also a rejected one. As the
  environment of a process does not change, the cache cannot be told from the
  configuration, and `SignIn` has no action for it; a restart replaces both.
* A login is one step of the API between the middleware and the answer: what its
  awaits read does not change while the process lives, and a process that stops
  between them loses the request (`Lose`).
* A form's inputs are disabled while it is submitting
  (`admin-shell.component.ts:121`), which is the guard of `Edit`.

## 3. What TLC checks

Passing runs:

| Run | Instance | Shows |
|---|---|---|
| `sessions_clean` | login, two scoped works (super admin, and a member of one company), an unscoped one, a query; 2 connections; statements fail, connections break | connections in the pool are cleared, no request sees foreign rows or global principals; the pool implements `PrivateSessions`, so a rejected call left nothing |
| `sessions_hostile` | 3 requests, 2 connections, every failure | scoped work owns its tenant, resolved means committed, COMMIT follows a complete clear, every request settles |
| `provisioning` | 2 calls, 2 names, 3 emails, the root's among them | complete tenant or none; `Provisioning` implements `TenantRegistry`, in which a name and an email are free when their tenant appears; while a call waits for a key somebody moves, and every call that arrives is answered |
| `tenant_access` | 3 requests of a tenant administrator, one source or none, threshold 3, window and block 1, time 0..2, the database failing anywhere, policy not applied | the threshold triggers under concurrency, a block holds to its last moment, `TenantAccess` implements `AccessGuard` (the decision is the role's whatever fails, and only a source that was refused is blocked), every request is answered |
| `bootstrap_access` | 2 uses of the token, 2 runs of the seed, 1 failed connect, the policy applied at any time | a use presented after a committed one is refused, a use forces a rotation, a clean seed yields a login, the policy closes the seed, one pool, every use answered |
| `smoke_runs` | 2 runs of either wrapper, a name from the clock, a given one, a system one, a malformed one, retries 0 (so the default, 2) | exit code 0 is true, only own databases are dropped, nothing is left without a reason, leftovers are replaced, every run ends |
| `sign_in` | 1 tab, 3 requests, 2 key pairs in four environments, one restart | the shell is shown to who signed in on this page, a success shown is true, a form is pending for exactly one request and recovers, a ready process honours its sessions |

Runs whose property is violated, each a place where code and text disagree:

| Run | Property | What happens |
|---|---|---|
| `sessions_clear_fails` | `IdleConnectionsCleared` | a statement that sets a key has its effect and rejects all the same; the catch block's clear, the only one that runs, rejects too and its error is ignored; `rollback()` then returns the connection with the key on it. `docs/technical/runtime-and-operations.md:20` promises that the context is cleared around transactions |
| `denial_not_audited` | `DenialAudited` | with the policy applied, the denial's INSERT runs without a context and the block predicate rejects it; the error is swallowed. `openspec/specs/audit-monitoring/spec.md:11` wants an event for every such denial |
| `protected_early` | `ProtectionMeetsThreshold` | a denial is stored before it is counted, the count includes it, and `deniedCount + 1` (`enumeration-protection.service.ts:52`) adds it again: with threshold 3 the second denial protects the source. `openspec/specs/audit-monitoring/spec.md:22` wants the attempts to meet the threshold |
| `token_reused` | `OneTimeUse` | two uses that overlap both read the token as unused; the second UPDATE waits for the first and goes by id alone, so both are accepted. `apps/api/README.md:13` speaks of a one-time token |
| `relogin_refused` | `CredentialsSuffice` | the middleware runs on every route, so a cookie signed with keys that are gone makes it refuse logins too, until the browser drops the cookie. `openspec/specs/identity-provisioning/spec.md:76` lets valid credentials in |

Observations made while modelling, which no run states as a property:

* `rls-runtime-smoke.sql:21-25` inserts a user without a company and leaves
  `is_global_admin` at its default 0, which `CK_users_company_scope`
  (`001_core.sql:40`) forbids; under `:ON ERROR EXIT` the script cannot pass, although
  `docs/technical/runtime-and-operations.md:21` says what it validates.
* With the policy applied no denial is stored, so that every count is zero and enumeration
  protection never protects a source, unless the threshold is 1 (it is 5 if the
  environment says nothing); `PolicyDisarmsProtection` proves it.
* A member refused in its own company is recorded as `cross_tenant_denied`
  (`tenant-access.service.ts:44`), like a probe of another.
* `completeFirstUse` sets no context. Once the policy is applied its SELECT sees no
  account, so every first use is refused; and a use whose UPDATE comes after the
  policy is accepted without being marked, since nobody looks at `rowsAffected`.

Bounds, and why they are enough:

* Two connections and up to five requests let every kind of work follow every
  other on one connection, and let two run at once while a third waits. More
  connections add no interaction: requests meet on a connection or not at all.
* Two calls of `createCompany` let one wait for a key while the other fails or
  commits; keys collide on the name, on the email, on both, and with the seeded
  root. What more calls could do is covered by the proofs.
* Two uses and two runs of the seed meet in every order on each account, also when
  one is interrupted and the other repeats it; a connect that fails once is shared by
  both uses or retried by the second. Two smoke runs suffice for a name to be taken,
  dropped or removed under a run.
* With threshold 3 a burst can be split over two moments of time; `MaxTime` 2 lets
  a block start, reach its last moment and be over. The window and the block
  are one unit, so equality at both edges is reached. The one actor is granted its own
  company and denied the other; other actors, other policies in the environment and the
  row-level policy are covered by the proofs, and the last by `denial_not_audited`.
* In `SignIn` one tab with three requests can sign in, submit, lose the view or the
  page and submit again; two views, after which a tab opens another only by signing
  in, and one restart let every answer be late and every cookie be old. Tabs meet in the cookie alone,
  which an answer may replace at any time even with one tab (`AnswerDropped`).
* `MaxTime`, `MaxVisits`, `MaxRestarts` and the number of requests are the only bounds
  on behaviour. Requests that never arrive and the end of time stop
  `TenantAccess`, a user who does nothing more stops `SignIn`, and an operator who does
  nothing more stops `BootstrapAccess` and `SmokeRuns`, so their runs do not check for
  deadlock. The runs of `DatabaseSessions` and `Provisioning` do.

Fairness: `FairSpec` of each module is weak fairness of what one request does
next. Node runs callbacks that are ready, the driver settles every promise, the
pool serves waiting requests and SQL Server grants locks that are free. No
fairness is assumed of failures, of requests arriving, of the clock or of the
operator who seeds the roles. `BootstrapAccess` adds that a `connect` settles, and says
nothing of the seed or the policy; `SmokeRuns` assumes that a child process ends and
Node goes on, and nothing of runs being started, of kills, or of a server in a
container that becomes ready. In `DatabaseSessions` one request's step
contains its failures, so fairness only says that an await ends one way or the
other. A request waiting for a connection is served under weak fairness since
each request is made once, so that the pool cannot be taken away from it forever.

## 4. What is proved

`DatabaseSessionsProofs` proves, for every set of requests, connections, companies,
actors and works:

* for every choice of failures: `TypeCorrect`, `ScopedWorkIsOwn`,
  `ResolvedMeansCommitted`, `CommitsAreClean`;
* in the behaviours in which no step leaks a context (`LeakFree`: no clear of a catch block
  fails on a connection that is alive, and the server aborts no transaction):
  `PoolIsClean`, `TenantsAreIsolated`, `LoginFlagIsConfined`, `RowsUnderNeededContext` and
  `PrivateSessionsImplemented`, the refinement of `PrivateSessions`;
* if every COMMIT is acknowledged: `RejectedMeansNothing` (`RejectedIsRolledBack`, which no
  run states; the refinement says as much).

`LeakFree` is a condition on steps and not on the constants: the same clear may fail on the
try path, where the catch block repeats it, and every other failure is allowed.
`sessions_clear_fails` shows that its first half cannot be dropped. A configuration
without clear failures and aborts has it by the lemma `NoLeakSuffices`, which is how `sessions_clean` comes under the theorems.

`BoundaryProofs` proves `BoundariesAgree`: wherever a scoped work runs, the policy lets through
the rows of exactly the companies that `AssertTenantPermission` does not answer
`"cross_tenant"` for. They differ in the permission alone, which the database does not know:
a member without `tenant:admin` is forbidden by the one and let through by the other. With it
come `SuperAdminPassesPolicy` and `QueriesAreAnonymous` of section 2.

`ProvisioningProofs` proves, for every number of concurrent calls, names and emails,
and whatever statements, commits and connections fail: `TypeCorrect`,
`TenantsAreWhole` (`NoHalfCreatedTenant`), `RegistryImplemented`, that the
code implements `TenantRegistry` (`ImplementsRegistry`), and `NobodyDeadlocks` (`SomebodyMoves`),
the safety half of `EveryCallAnswered`: while a call waits for a key, another is at work
that waits for nobody.

`TenantAccessProofs` proves, for every number of requests, sources and actors and every
policy in the environment: `TypeCorrect`, `ThresholdHolds`, `ProtectionsAreJustified`,
`BlocksHold`, `DecisionsAreTheRoles` (`DecisionSurvivesFailures`, which no run states) and
`AccessGuardImplemented`. `ProtectionsAreJustified` bounds what
`protected_early` shows: before a protection one window holds all but one, at least, of the
denials the threshold asks for. `AuditedWithoutPolicy` and `PolicyDisarmsProtection` tell apart what
`denial_not_audited` mixes: without the policy every denial has its event, with it none has.

`BootstrapAccessProofs` proves, for every number of uses, seeds and failing connects:
`TypeCorrect`, `PoolIsOne`, `RejectionsAreFresh`, `ReuseIsRefused`, `UseDemandsRotation`,
`CleanSeedIsEnough`, `PolicyIsLast`; `UseDemandsRotation` speaks of every use from its COMMIT on,
also of one that was presented before the seed's UPDATE; and about what `token_reused` violates,
`OneTimeUnlessOverlapping` (`OneTimeUse` holds in every behaviour in which no two uses overlap)
and `NoFirstUseUnderPolicy`.

`SmokeRunsProofs` proves, for every number of runs, names and retries:
`SmokeTypeCorrect`, `DropsOnlyOwn`, `ZeroIsTheTruth`, `NothingIsLeft`, `LeftoversReplaced`.

`SignInProofs` proves, for every number of tabs, requests, keys and restarts:
`TypeCorrect`, `ReadyIsTrue`, `ShellsAreBacked`, `FormsWaitForOne`, `SuccessesAreTrue`. The run
has one tab; that tabs sharing a cookie do not disturb each other rests on these. About what
`relogin_refused` violates: `OnlyStaleCookiesRefuse` (a ready process refuses good credentials
only if the browser sent the session of an earlier process under another key) and
`KeptKeysSuffice` (`CredentialsSuffice` holds where keys outlive processes).

The argument. For the sessions two inductive invariants carry everything. *Protocol* is
unconditional: a connection is held by one request at most; a request is at a
step its kind of work has; what it holds, its transaction's fate, its `failed` flag
and its result agree with the step; and the keys a step sequence has already set
or cleared are as it left them on the connection, so that a clear sequence at
`clearLogin` has company and role cleared behind it. It is needed since the
properties speak of the end of a sequence and a step sees only its own
statement. *Hygiene* is conditional: a connection nobody holds is cleared, and a
held one carries nothing but keys its holder set. Lemmas about `Effect`,
`Resolved` and `Rejected` isolate the case analysis over statements; a lemma on
sharing says that a step touches only its own connection. The safety theorems follow
from one of the two invariants with a temporal step. For the refinement of
`PrivateSessions` both are needed: a connection out of the pool is fresh by Hygiene, and what
the holder finds at its rows is its own by Protocol; a step of one request then maps to an
action of that request's private session or to a stutter.

For provisioning, unique keys (the lemma `KeysStayUnique`) are inductive with the types. `NoHalfCreatedTenant` is
not: it speaks of calls that are over, and a commit is right only since every earlier
statement of the call left its row. *Atomicity* says so for every call: at the
statement it stands at, the rows of the statements before it are there (`Stage`), a
transaction that was never opened or is rolled back has no row, and a row names no
company but its own call's (`Belonging`). Its step case has two lemmas: a step takes
its own call from one stage to the next (`OwnStage`) and leaves every other call
where it stands (`OthersStay`).

The refinement needs the registry to be read off the tables without the rows of calls
that are not committed. *Places* adds that an id has one row and that a call has no
answer before its end. A commit is then `Create`: the call's own rows held its name
and email, unique by `KeysStayUnique`, up to the moment they count; an error is `Refuse`; every
other step touches rows the registry does not see (`OnlyCommitsShow`). The same two say who can
hold a key that is waited for: a call with an open transaction, past the INSERT in question.
A holder of a name may still wait for an email; a holder of an email waits for nobody,
so that there is no ring.

In `TenantAccess` the threshold is nearly inductive by itself: whoever of a burst stores
its denial last counts the others' too, whatever order they finish in. Next to it stand
what a request that has counted saw (`Counted`), that a denial in the table is visible
and of a request past its INSERT (`Recorded`), and that a request which got past a
block of its source did so after its end (`Watching`); `Decided` ties the step of a request
to the role of its actor, and with the types carries the refinement of `AccessGuard`: the
protection a request inserts is for its own source and rests on its own refusal.

`BootstrapAccess` has one invariant for each thing that is shared: *Sharing* (who awaits
the promise of the pool), *Spending* (who holds the row, and what a committed use left
in it), *Seeding* (what a run of the seed can rely on at each statement, given that
others run beside it). *Ordered* says of uses that do not overlap that a token which is spent
stays so for all who come later. The smoke wrappers have *Owning* (a run past CREATE has its own
database until it drops it) and *Holding* (what a run knows of the container, which
others may have replaced).

In `SignIn`, *Signed* says that every session of the current process, in the cookie or
in an answer on its way, was signed with its key; *Backed* what a page needs in order
to show the shell; *Carried* that a cookie is of this process or an earlier one; *Pending* and *Truthful* relate a form to its submission. The step
lemmas classify what a step can do to the form of one tab (unchanged, new, edited,
submitted, answered), so that each invariant is a case split over five and not over
twenty actions.

The proofs rest on the named assumptions of the modules: `NullAssumption`,
`RequestAssumption`, `ActorAssumption` of `DatabaseSessions` and of `TenantAccess` (an actor
that has the role `super_admin` is marked `isSuperAdmin`, as `TokenValidatorService`
computes it), `PolicyAssumption`, `ProvisioningAssumption` (the seeded root is no call's id,
and an absent field is no value), `PoolAssumption`, `BootstrapAssumption`,
`RunsAssumption`, `LocalSmokeAssumption` (a name fit for a database is no system name),
`ContainerSmokeAssumption`, `SignInAssumption` and `UnsentAssumption` (null is neither a
session nor a request).

Only model-checked: the liveness properties (`EveryRequestSettles`, `EveryCallAnswered`,
`EveryRequestAnswered`, `EveryUseAnswered`, `EveryRunEnds`, `FormsRecover`), which the proof
system does not reach. The violated properties of section 3 do not hold in general;
four are proved under a condition whose absence their run shows: `PoolIsClean`,
`AuditedWithoutPolicy`, `OneTimeUnlessOverlapping`, `KeptKeysSuffice`; the fifth holds but for
one denial (`ProtectionsAreJustified`).

## 5. Not modelled, and why

* Password hashing, cookies, token signatures: conversions and the jose library.
* `AsyncLocalStorage`: no state shared between requests.
* `listProtectionHistory`: a read nothing calls.
* Expiry of sessions: the issuer sets none, and the cookie has no lifetime of its own.
* Validation messages, announcements and the security dialog of the console.
* The statements of `rls-runtime-smoke.sql`, which passes or fails as one command (see
  the observation in section 3), and the choice of the sqlcmd client.
* Styles, templates, module wiring, CI, type declarations.

## 6. Plan

Written in this order, the most important first; all but the last are done.

1. `DatabaseSessions` with its proofs.
2. `Provisioning` and `TenantRegistry`, with their proofs and the refinement.
3. `Rbac`, `TenantAccess`, `TenantAccessProofs`.
4. `SignIn`, `SignInProofs`.
5. `ConnectionPool`, `BootstrapAccess`, `BootstrapAccessProofs`.
6. `LocalSmoke`, `ContainerSmoke`, `SmokeRuns`, `SmokeRunsProofs`.
7. `PrivateSessions`, `AccessGuard` and their refinements; `BoundaryProofs`, and what holds in
   place of each violated property.
8. An abstract specification of the login as a whole, the lookup of `DatabaseSessions` and
   the columns of `BootstrapAccess` behind the `good` of `SignIn`.
