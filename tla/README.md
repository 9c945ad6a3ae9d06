# Fluxmail: a formal model

Fluxmail is a self-hosted mail server for programs: it connects to Gmail,
Outlook and IMAP mailboxes and offers them over MCP, REST and a command line.
This directory holds TLA+ models of the parts of it where state, time and
failure meet, the TLC configurations that check them on small instances, and
TLAPS proofs of the results that hold for every instance.

Paths are relative to the repository; `server/` stands for
`packages/server/src/`.

Contents: 1 the inventory; 2 how the runs are organized; 3 to 13 one part of the
system each, with its modules, state, steps, bounds, fairness and theorems; 14
what is proved, from which assumptions; 15 what is only model-checked; 16 what is
not modelled; 17 what is planned.

## 1. Inventory

One *store* (an SQLite file in the data directory) is shared by any number of
processes: `fluxmail serve` (HTTP, with a scheduler and a license controller),
`fluxmail` over stdio (the same two), and one-shot commands that open the store,
do one thing and exit. Each process is a Node event loop: code runs to its next
`await` without interruption inside a process, and interleaves with other
processes at every SQL statement that is not in one transaction.

| Component | State it keeps | Operations | Hard because | Correct when |
| --- | --- | --- | --- | --- |
| Scheduled sends (`server/storage/scheduledSends.ts`) | the `scheduled_sends` table: status, due time, claim token and lease | create, list, claim, complete, fail, retry, hold, cancel, mark sent | several processes, leases that run out | a running claim is exclusive; a recorded outcome is the one that happened |
| Send scheduler (`server/scheduler/sendScheduler.ts`) | in memory: timer, running/rerun flags, backoff and quota hold; per process | start, wake, tick, fire, arm | awaits in the middle of a list, retries, crashes, license lapses | never sleeps past a due row; sends once, in time; a schedule is settled in the end |
| Mail service (`server/service/emailService.ts`) | none of its own | send, schedule, cancel, read, search, draft operations, quota gate | look-then-mark around an awaited provider call | a sent draft's schedule is superseded, once |
| Licensing (`server/licensing/*`, license routes of `server/http/admin.ts`) | the cached lease row, the stored key; in memory: timer, run in flight, refresh pending | validate, activate, deactivate, wake, entitlements | network calls racing administrative changes, outages, grace | an outage never lowers the plan early; the lease follows the configured key |
| File locks (`server/storage/fileLock.ts`) | a lock file, a reclaim file, a heartbeat thread | acquire, reclaim, heartbeat, release | crashes, empty lock files, several hosts | one holder at a time; an abandoned lock is recovered |
| Key and import (`server/deploymentConfig.ts`, `server/configMigration.ts`) | `encryption.key`, `config.toml`, what is encrypted in the store | resolve or make a key, import old files, roll back | several servers and an import at once, full disks | no key is lost that something is encrypted with; a failed import can be repeated |
| REST idempotency (`server/storage/restIdempotency.ts`, `runJson` of `server/http/rest.ts`) | the `rest_idempotency` table | reserve, complete, replay | crash between effect and record, expiry, retries racing | one effect per key; a replay is the recorded answer |
| Members, login, enrollment (`server/auth.ts`, `server/storage/members.ts`, `server/http/identity.ts`) | members, credentials, codes, sessions, rate limits | set up, recover, enroll, reset, log in, suspend, remove | password hashing awaits between check and write | an active administrator remains; a code works once; a suspended member has no session |
| OAuth connections (`server/storage/gmailConnectionGrants.ts`, `server/http/app.ts`) | connection links in the store; OAuth states in memory | prepare, claim, callback, test settings, assign, remove | callbacks await the provider, restarts | a link and a state work once; the plan's limit holds |
| Account registry (`server/accounts/registry.ts`) | accounts, encrypted credentials with a revision; in memory: provider cache | build, refresh tokens, reconnect, remove, change the application | token rotation by several processes | a refresh never overwrites a newer credential |
| API keys, permissions (`server/storage/apiKeys.ts`, `server/permissions.ts`, `server/authorization.ts`) | keys, policies, scopes, shares | create, narrow, revoke, decide | roles, owners and keys change while requests are under way | nobody does what the credential does not allow |
| REST and MCP surfaces (`server/http/rest.ts`, `http/admin.ts`, `http/identity.ts`, `mcp/*`) | the audit log | every route and tool, audit middleware | which capability a route needs is written apart from what it calls | every change is permitted and audited once |
| IMAP provider (`packages/provider-imap`) | one connection, folder cache, `imap_messages` (`server/storage/imapState.ts`) | list, read, drafts, send, move, delete | partial failure, shared connection, UIDs | no message lost or doubled |
| Gmail and Outlook providers (`packages/provider-gmail`, `packages/provider-outlook`) | none | list, read, drafts, send, modify | batches and pages, local filters | a list shows what matches, once |
| Search and paging (`packages/core/src/search.ts`, `server/service/searchCursor.ts`) | encrypted cursors | parse, format, merge, compile, page | negation, provider dialects, expiry | the compiled query means what was asked |
| Store and migrations (`server/storage/db.ts`) | format version, tables, backups | inspect, lock, back up, migrate, sync | a crash during a migration, two processes, an older build beside | readable or migrated, never half |
| Releases (`scripts/release.mjs`, `scripts/publish.mjs`) | none between runs: npm, Docker, registry, tags, GitHub | plan, publish, resume, verify | runs that stop anywhere, npm that lags | what is announced is there; no channel goes back |
| Instance configuration (`server/config.ts`, `instanceConfig.ts`) | settings of the store, cached | resolve, set | caches by `data_version` | a setting is seen by the next request |
| Logging, telemetry, update notices | bounded queues, rotated files | record, flush, rotate | rate limits, a lock between processes | bounded; never blocks the server |
| Command line, documentation scripts | none | parsing, printing | - | - |

Interactions: requests (REST, MCP, CLI) call the mail service, which takes a
provider from the registry and awaits it; scheduling calls `onScheduleChanged`,
which `server/context.ts` binds to `SendScheduler.wake` of the *same* process; a
license refresh calls the same `wake`; both scheduler and requests meet in the
store. `PROJECT.json` lists every component with its status and every hazard
with its line.

## 2. How the runs are organized

A component is a module without an instance; a module `MC...` gives it one.
Components that share nothing are checked by one run: its module holds the
variables of all of them and a variable `machine`, chosen at the start, that says
which of them a behavior is about. The others stay as they were initially, so the
state space is the sum of the parts and not their product, and fairness is stated
for the machine that runs only. A property of one machine says nothing about the
behaviors of another.

| Run | Module and instance | Machines |
| --- | --- | --- |
| `sched_one_server` | `MCOneServer`, `OneServer.cfg` | one server's scheduler (3); login limits and connections (8); access control (10) |
| `sched_shared_store` | `MCSharedStore`, `SharedStore.cfg` | two servers and commands (3); members (8); paging and searches (12) |
| `server_parts` | `MCServer`, `Server.cfg` | schedulers in time (3); IMAP mailbox and connection (11); migration (13) |
| `lic_requests` | `MCLicensingTwo`, `LicensingRequests.cfg` | two installations (4) |
| `lock_processes` | `MCProcesses`, `Processes.cfg` | file locks (5); releases (13) |
| `startup` | `MCStartup`, `Startup.cfg` | keys and imports (6); one fair scheduler (3) |
| `rest_retries` | `MCMail`, `Mail.cfg` | idempotency (7); credentials (9) |
| `sched_supersede`, `lic_deactivate`, `lock_container`, `members_enroll`, `connections_replace` | one each | a disagreement with a comment, a document or a test |

The last five end in a violation each, of a property that says what a comment, a
document or a test of the repository says; `PROJECT.json` quotes it under
"findings".

A property named in a configuration is often a conjunction of named parts, such
as `BoxesAreSound` of `LinkConnectsOnce`, `OneBoxPerAddress` and others; each part
is stated and explained where it is defined. Every property has a mutant: one
operator with a plausible mistake (a dropped guard, a swapped order) that breaks
it.

## 3. Scheduled sends

| Module | Models |
| --- | --- |
| `ScheduledSends` | the table: every statement of `server/storage/scheduledSends.ts`, the cascade from `accounts` and the passage of time |
| `SendScheduler` | the schedulers of all processes, `service.send` behind them and behind user requests, the provider, faults; EXTENDS `ScheduledSends` |
| `ScheduledDelivery` | what scheduling promises, without processes, claims or retries |
| `MCSendScheduler` | definitions for the instances of TLC |
| `SendScheduler_proofs` | theorems of `SendScheduler` |

**State.** `rows` is the table, one record per schedule id; times are kept as
*time left* (`sendAt`, `claimLeft`), so the clock needs no variable and `RowsAge`
lets a unit of time pass. `sched[p]` is the `SendScheduler` object of process
`p`: `pc` tells where its `tick` is, `due` the rest of the list the tick took,
`rerun` and `timer` are the fields of the class, `hold` is `quotaHoldUntil` and
`wait`/`backoff` are the two parts of a `backoff` entry. `call[x]` is the
`service.send` that a scheduler or a client awaits. `drafts` and `deliveries`
are the mailbox (external). A claim token is the claiming process: `claimOwner`
is drawn once per fire, and a process fires one row at a time.

**Steps.** A handler is one action up to its next await or its next statement on
the store. The requests a process hosts and its scheduler interleave only at
awaits (`AtAwait`); a one-shot command (`HostOf[c] = Null`) interleaves
everywhere. `Look` and `Supersede` are two actions because `send` looks for the
pending schedule and marks it in two statements (`emailService.ts:452`).
`TickFails` and the `"busy"` disjuncts are statements that throw, inside and
outside the `try` of `fire`. `stop()` is only called by tests and is left out;
`markFailed` and `recordAttempt` have no caller. `QuotaCheck` is the check before a
tick's first send, whose `catch` takes every error of `enforceQuota` for the quota and
holds what is due. A statement of `arm()` that throws ends the process, as it is outside
the `try` of `tick` and nobody handles the rejection: that is `Crash`.

**Faults** are switched per instance: `crash` (a process dies between steps and
starts again), `slow` (a send outlasts `CLAIM_LEASE_MS`), `lost` (the provider
acts, the answer is lost), `busy` (a statement throws), `removal` (a mailbox is
disconnected), `lapse` (a license lapses while usage is over the free plan),
`check` (`enforceQuota` fails for another reason than the quota).

| Run | Instance | Shows |
| --- | --- | --- |
| `sched_one_server` | 1 server, 1 client in it, 2 schedules of 1 draft that the provider takes as it sends it, all faults | `DispatchHoldsClaim`, `NeverOversleeps` |
| `sched_shared_store` | 2 servers and one-shot commands on 1 schedule, all faults but `lapse` and `check` | `SentWasDelivered`, `ActiveClaimIsExclusive` |
| `server_parts` | 2 servers, 2 schedules of new messages, nothing slow, lost or busy | `ImplementsDelivery`: the claims implement `ScheduledDelivery` |
| `startup` | 1 server, 1 client, 1 schedule; crashes, slow and lost answers, lapses; fair | `EventuallySettled` |
| `sched_supersede` | 1 server, 1 client, 1 schedule | violation of `GoneMeansOutside` |

In `sched_supersede` a user sends a draft while its schedule is dispatched;
`send` supersedes only pending schedules, so this one ends as *sent or deleted
outside Fluxmail*. Three more things the model shows, and no document denies, are
listed as hazards: a row scheduled by a local one-shot command while a server
idles without a timer is not found, since `wake` does not cross processes; a
draft scheduled again while its first schedule is being sent has two pending
schedules after a transient failure; a send that outlasts its lease is dispatched
by a second process. The first is why `NeverOversleeps` is about a server alone,
the last why `ImplementsDelivery` is about answers that come in time.

**Bounds.** One unit of time is enough to tell *due* from *not yet due* and a
running lease from one that ran out (`Lease = Horizon = 1`). `MaxArm` caps the
timers as `MAX_ARM_MS` does; with 2 the backoff reaches the cap after one
doubling. `deliveries` counts to 2, since the properties tell apart never, once
and more often. `Late` bounds how far past its due time a row's age is kept,
which only orders the due rows. Two schedules of one draft are the least in
which a draft is scheduled again, two processes the least that can compete.
Schedules and processes are symmetric and declared so where no liveness is
checked. Deadlock is not checked: with every schedule settled and the clock at
its bound nothing is left to do.

**Fairness** (`Fairness`). Time passes; a stopped server is started again
(`restart: unless-stopped` in `docker-compose.yml`); an event loop finishes the
handler it started; the provider answers every call, and answers definitely if
it is asked infinitely often (strong fairness of `DefiniteAnswer`: without it a
provider may fail transiently for ever, and so may the schedule). Crashes stop
eventually: that is an assumption of `EventuallySettled` itself, not a fairness
condition.

**Theorems.** For every set of processes, clients, schedules, drafts and faults,
and all lengths of time:

* `TypesAreKept`: among the types, no delay exceeds `MaxArm`.
* `SentIsTrue`: `Spec => []SentWasDelivered`.
* `ClaimsAreExclusive`: `Spec => ActiveClaimIsExclusive`.

`SentWasDelivered` is not inductive: `completeClaim` and `markSent` record what
`call` says. The strengthening `IInv` adds that a call whose outcome is `ok`, or
that is in cleanup, has delivered its draft (`CallsDelivered`), that the row a
scheduler dispatches and the row a send is about to mark are, unless their
mailbox was removed, schedules of the draft that call sends (`FiredRows`,
`FoundRows`), and that every row that exists has a draft (`RowsHaveDrafts`).
`ActiveClaimIsExclusive` is an action property: each action is shown either not
to touch the claimed row or to be one of the exceptions.

Under `OneServer` (one process, every request hosted by it, no one-shot command;
still any number of requests and rows, and every fault):

* `AloneDispatchHoldsClaim`: `Spec => []DispatchHoldsClaim`. A lease that runs out
  under a slow send could be claimed again, but only by the server that is busy
  with it. `AloneInv` adds to `IInv` that only a scheduler that sends has a call
  (`OnlyDispatchersCall`) and that the row a send is about to supersede is still
  pending (`SupersededIsPending`), since look and mark are in one handler.
* `AloneNeverOversleeps`: `Spec => []NeverOversleeps`, by the same invariant: the
  row that comes due first is the one `arm` set its timer for, whatever requests,
  retries, holds and crashes came since.

Under `Timely` (only `removal` and `lapse` among the faults, and every schedule
is for a draft of its own; any number of processes and one-shot commands):

* `TimelyDeliveryIsKept`: `Spec => ImplementsDelivery`, the whole refinement. Each
  row's step is shown to be a step of its promise or a stutter. `TimelyInv` adds
  that each draft has one row (`OneRowPerDraft`); a row is *sending* exactly while
  its holder dispatches it (`SendingIsDispatched`) and what a tick still has on its
  list was due when it looked (`ListedIsDue`); a call sends the draft of its row
  (`CallsOwnDraft`); and deliveries are those of settled calls, once each
  (`SendsOnce`).

The two hypotheses are not idle: without them TLC finds the two hazards above.

## 4. Licensing

| Module | Models |
| --- | --- |
| `Licensing` | the stored key and lease, the `LicenseController` of every server process, activation and deactivation requests, and the license server (external) |
| `MCLicensing`, `MCLicensingTwo` | instances for TLC: one installation, and two that share nothing |
| `Licensing_proofs` | theorems of `Licensing` |

**State.** `licenseKey` and `lease` are the configuration's key and the cached
lease row, shared by all processes; `lease.left` is the time to `expiresAt`
(negative within `GRACE_PERIOD_MS`) and `lease.age` the time since `updatedAt`.
`controller[p]` holds the fields of the controller: `timer`, `refreshPending`,
and `up` for *not stopped*; `inFlight` is the phase of `request[p]`. `request[x]`
is the call to the license server that process or administrator `x` awaits, or
the two statements by which an administrator's request ends. `licensor` is the
license server: the keys it grants to this instance, whether it can be reached,
and since when.

**Steps.** As in section 3 a handler is one action up to its next await. `RunEnds`
is the whole end of a run: the lease is saved, the timer set or the pending refresh
started. `SaveLease` and `StoreKey` are two actions, as are `RemoveKey` and
`ClearLease`: the key is in the configuration store and the lease in another
table, and another process may run in between, or this one die. Inside one
process they are not interrupted (`AtAwait`). A one-shot command's controller is
never started, so its `wake` does nothing.

**Faults**: `crash`, `outage` (the license server is unreachable), `lost` (it
acts, the answer is lost), `busy` (saving the lease throws) and `ended` (a
subscription ends, or a key is used by another instance).

| Run | Instance | Shows |
| --- | --- | --- |
| `lic_requests` | 1 server, an administrator in it and one in a command, 2 keys, all faults but outages; fair | `OneThingToCome`, `LeaseFollowsKey` |
| the same | another installation: 1 server, 1 administrator, a good key, outages | `PaidThroughOutages` |
| `lic_deactivate` | 1 server, 1 administrator | violation of `PersonalWithoutKey`: a refresh in flight puts the lease back after a deactivation cleared it |

**Bounds.** The code's times are a lease of about seven days, a grace period of
seven days, a validation every day and, after an outage, every hour. What the
properties depend on is their order, and for `PaidThroughOutages` that the times
add up. With `Life = 4`, `Grace = 2`, `Interval = 2` and `Retry = 1` the lease
is renewed at the latest when 2 units of it are left, or 1 unit after an outage
ends, and an outage may last `MaxOutage = 2` units and comes back after
`MinCalm = Retry + 1`, the time the next retry needs. Retrying at the cadence
instead (mutant `RetryDaily`) loses the plan in the same instance. The first
installation uses the shortest times that tell *now* from *later* (`Life = 1`,
`Grace = 0`, all intervals 1), with one server, since controllers of two servers
meet only in the lease, as controller and command do; the theorems below hold for
any number. Deadlock is checked in both.

**Fairness.** Time passes; a stopped server is started again; a run and a
request that got their answer end; a call is answered within its time limit of
ten seconds (`licensing/client.ts`); and a key that is validated again and again
is answered at last (strong fairness of a definite `Validate`: answers are not
lost for ever). `LeaseFollowsKey` itself assumes that administrators come to
rest, crashes stop, the license server stays reachable and of one mind, and a
lease it issues can be saved.

**Theorems.** For all keys, processes, requests, lengths of time and faults:
`TypesAreKept`, `AlwaysOneThingToCome` and `NoRefreshIsForgotten`, that is
`Spec => []TypeOK`, `[]OneThingToCome` and `[]PendingWhileRunning` (a refresh that
`wake` asked for is pending only while the run is in flight that will start it).
None of them is inductive alone: a refresh pending while nothing runs would leave
both a timer and a run behind, and a request that outlives its process would wake
a stopped controller. `IInv` is their conjunction and `HostsAreUp`: a request in
flight is in a process that is up. `Sound` states the first two for one process,
so that a step of one process needs no look at the others (`OneProcess`,
`CallsOnly`).

`PaidLimitsAreKept` (`Spec => PaidLimitsStay`, which is what `PaidThroughOutages` says
of the second installation) supposes `OutagesAreBridged`: nothing but outages goes wrong,
keys are only activated, in servers, and
`Interval + MaxOutage + Retry < Life + Grace`, `Retry < MinCalm`. With the
times of the code that bridges outages of nearly 13 days. For any number of servers,
administrators and keys, `InTime` says of every running controller that
the lease has its full time left but for what the cadence lets pass; or that it is
due for a retry, and an outage has been there since it was last due, or is over for less
than `Retry`. The arithmetic is in seven lemmas on numbers (`RenewedIsInTime` to
`RetriesInTime`), so that the steps only say which of them applies. A lease without a
configured key has just been saved (`KeyComes`), and a server that starts counts from
the lease's age (`LeaseAges`). The bounds are tight: TLC finds the plan lost when either
inequality fails by one, with the other constants of the second installation.

## 5. File locks

| Module | Models |
| --- | --- |
| `FileLock` | `withFileLock` of `server/storage/fileLock.ts`, on several hosts |
| `Mutex` | a lock: at most one process inside, any of them may enter and leave |
| `MCFileLock` | definitions for the instances of TLC |
| `Processes_proofs` | theorems of `FileLock` and of `Release` |

**State.** `lock` is the lock file: whose token it has, what its owner line
reads (`host` and `pid`, `Null` while the file is empty) and its age. `reclaim`
is the second file, created exclusively by whoever removes an abandoned lock.
`pid[p]` is the process id a process got, `pc[p]` its place in `withFileLock`,
and `then[p]` where a `finally` block leads.

**Steps.** Every call to the file system is an action, as processes of several
hosts interleave there; `releaseOwnedLock` and `tryRemoveAbandonedLock` are
several. The heartbeat thread is the action `Beat`. `Dies` leaves the files as
they are and frees the pid; a new process may get it again if `ReusesPid`.

**Assumption.** `Tick` lets no process stop for longer than `staleMs` between
heartbeats while it owns the lock. A suspended machine could, and the lock then
promises nothing to other hosts.

| Run | Instance | Shows |
| --- | --- | --- |
| `lock_processes` | 2 processes on one host, 1 on another, 2 pids, crashes anywhere, calls that fail; fair | `ImplementsMutex`, `AbandonedLockIsRecovered` |
| `lock_container` | 1 process that starts again with the pid it died with | violation of `LockIsRecovered` |

`LockIsRecovered` says that an abandoned lock is recovered once processes stop
dying. It fails in a container, whose process has the same pid after a restart
and takes the lock for its own: it then waits for itself at every start.
`AbandonedLockIsRecovered` is what does hold: the same, unless the owner's pid is
in use on its host or a reclaim file was left by a process that died or failed
while it recovered the lock. Three processes are the least in which one dies, one
recovers and one enters; `Stale = 1` is enough to tell a fresh file from an old
one.

**Fairness**: started processes go on calling, a dead one is started again, the
heartbeat of a holder beats and time passes.

**Theorems.** For any processes, hosts, pids and faults: `TypesAreKept`,
`OneHolder` (`Spec => []MutualExclusion`) and `LockImplementsMutex`
(`Spec => ImplementsMutex`). Mutual exclusion rests on `IInv`: whoever owns the
lock has its token in a file that is not stale (`OwnersHaveLock`); a file tells
the truth about an owner that lives (`OwnersAreNamed`); only one process recovers
at a time (`OneRecovers`); and what is about to be removed belongs to nobody
(`RemovesAbandoned`), which is the fact that a recovery judged some steps before
and that must still be true.

## 6. The encryption key and the import of old files

| Module | Models |
| --- | --- |
| `EncryptionKey` | `resolveEncryptionKey` and the start of a server around it (`server/deploymentConfig.ts`, `server/context.ts`); `config migrate` (`server/configMigration.ts`) |
| `MCStartup` | an instance for TLC, together with one of `SendScheduler` |
| `Server_proofs` | theorems of `EncryptionKey`, among others |

**State.** `keyFile` is `encryption.key` (`Torn` when created and not yet
written) with the process that made it, `configFile` the process that made
`config.toml`, `stored` the keys of the values in the store. The key is made
under `.encryption-key.lock`, a migration runs under `.config-migration.lock`;
both are `withFileLock`, taken as the `Mutex` that section 5 shows it to be.
`key[p]`, `created[m]` and `keyExistedBefore` are the local variables of the two
functions.

**Steps.** One action per call to a file or the store: looking for the key
outside and inside the lock, the rename, the exclusive creation of the imported
key and the write that follows it (`PutKey`, `FillKey`), the check of the store,
the import in one transaction, and the two removals of a rollback. `Fails` is an
exception at any of them and leads to the rollback; `Crash` does not. `Casts`
says who may be there together: those who are not are `"absent"`.

**Run.** `startup` has nobody, two servers, three migrations (two import
different keys, one none), or a server with the two that import, on an empty
store or one restored with values of a key, with crashes, failures and a full
disk; fair. Servers alone: `ServersAgree`, `ServersRun`. Migrations alone: of the
parts of `FilesStay`, `KeyOpensStore` and `FailureLeavesNothing`. Either:
`StoreStaysReadable`. All together: `ConfigIsKept`. No property on the key is
stated for servers *and* migrations at once. The two locks do not exclude each
other: a server that looked for a key before an import renames its new key over
the imported one. The documentation has migrations run before the server is
started, so this is listed as a hazard.

**Fairness**: a stopped server is started again and what runs gets on.
`ServersRun` assumes that nothing dies or fails any more from some time on.

**Theorems.** For any processes, keys and faults: `TypesAreKept` (with
`KeyIsKnown`: whoever stores has a key; no torn file is taken for one),
`ServersShareOneKey` (`KeySpec => []ServersAgree`), `ServersKeepStoreReadable`,
which is `StoreStaysReadable` for servers without a migration, and `FilesAreKept`
(`KeySpec => FilesStay`). The strengthening
`OneMakesIt` says that only the process in the lock looks for a key or makes one,
that there is none when it puts its own in place, and that whoever is past that
has the one in the file. `AbsentStaysAbsent` lets it be assumed where no
migration is there.

`FilesAreKept` rests on `FilesIInv`. A migration that is under way is inside its lock,
and one that is not has made no files (`OneMigrates`), so a step of one leaves the others
alone (`OthersStay`). From its check on, `config.toml` is the one the migration has made,
or none (`ConfigIsOwn`), servers or not. Without servers, the key that a migration goes on
with is the one in the file or to come there, it opens what is stored, and a key file
that was not there before is its own (`KeyIsOwn`). That clause is about every place
of the migration, its rollback included, and is proved for the steps that resolve the
key, those that migrate and those that fail.

## 7. REST idempotency

| Module | Models |
| --- | --- |
| `RestIdempotency` | `reserveIdempotencyKey` and `completeIdempotencyKey` (`server/storage/restIdempotency.ts`) in `runJson` (`server/http/rest.ts`), with clients that repeat |
| `MCRestIdempotency`, `MCMail` | instances for TLC, the second together with `Credentials` |
| `Mail_proofs` | theorems of `RestIdempotency` and of `Credentials` |

**State.** `row[k]` is the record of a principal's key with the hash of its
request and the time it has `left`. `pc[c]` is the place of call `c` in
`runJson`; each call is handled by some server, and servers interleave at every
statement. `answer[c]` is what the client has, which it repeats the request
for. `period`, `called` and `given` are history: for as long as a key stands for
one request, how often the provider was called and what was answered. They are
kept apart from the record so that one that vanishes early is noticed.

**Steps.** Purging, inserting and looking up the record are three statements and
three steps; `Execute` is the provider's call; `Complete` the record of its
outcome. `BusyCompleting` is that record throwing inside the `try`: the mail is
out, and the request is recorded and answered as failed. `Crash` leaves a record
in progress that answers 409 until it expires.

**Assumption.** `Tick` lets no call last as long as its record (24 hours).

**Run.** `rest_retries` has two copies of one request and another request with
the same key, two units of lifetime, crashes and a busy store; fair. It shows
`CalledOnce`, `OneAnswer`, `AnswersOwnRequest` and `AllAnswered`. Two copies and
a stranger are the least in which one executes, one replays and one conflicts;
two units separate a record that is about to expire from one that has. Deadlock
is not checked: when all are answered nothing is to come. Fairness: a client
repeats until it is answered, servers get on, time passes; `AllAnswered` assumes
that crashes and a busy store end.

**Theorems.** For any calls, keys, bodies, lifetimes and faults: `TypesAreKept`,
`ProviderIsCalledOnce`, `AnswersAreOne` and `AnswersAreOwn`: that is
`Spec => []TypeOK`, `[]CalledOnce`, `[]OneAnswer` and `[]AnswersOwnRequest`.
`IInv` adds what they rest on: a key stands for one request exactly as long as
its record is kept (`PeriodIsKept`); one call at a time executes, for the request
of the record and before that expires (`OneExecutes`), and completes it itself
(`CompletesItself`); nothing is answered before (`NothingGivenYet`), and only
what is recorded afterwards (`RecordIsGiven`). All actions but `Purge`, `Insert`,
`Complete` and `Tick` fall under three lemmas: calls that only move, answers, and
the steps of the call that has the key.

## 8. Members, logins and connections

| Module | Models |
| --- | --- |
| `Members` | setup, recovery, enrollment, reset, login, sessions, keys and member administration (`server/auth.ts`, `server/storage/members.ts`, `server/http/identity.ts`) |
| `LoginLimits` | the limits on password logins (`server/auth.ts`) |
| `Connections` | links, OAuth states, callbacks, tested IMAP settings, assigning and removing mailboxes (`server/http/app.ts`, `http/identity.ts`, `http/admin.ts`, `accounts/registry.ts`) |
| `MCSharedStore`, `MCOneServer` | instances for TLC, the first of `Members`, the second of the other two |
| `Access_proofs` | their theorems |

**State.** `Members`: the member rows column by column (`status`, `role`, `email`,
`password`), the codes, sessions and keys that still work and whose they are,
`bootstrapped`, and for each request where it is (`at`), whom it is about
(`who`), what it came with (`via`) and the authority it was given (`admin`).
`LoginLimits`: the rows of `auth_rate_limits` of the emails and of one address,
with the clock. `Connections`: `box` (accounts), `link` (the grants table), `state`
(OAuth states in memory) and `flow` (callbacks, commands that opened a browser,
settings under test); `wronged` says by which kind of flow the credentials of another
member's mailbox were replaced (`Wrongs`).

**Steps.** A request checks, awaits a password hash, a code exchange or a test of
settings, and then writes: two steps, and between them anything may happen. What
a server does between two awaits is one step; a command on the host takes one
step per statement, since the server runs meanwhile. `RequestDies` and `StopServer`
stop processes anywhere.

**Runs.** `sched_shared_store`: two members that share a code, a session and a key, two
requests and a command of which two are under way at a time, on a new or a
migrated instance. `sched_one_server`: three overlapping attempts from one address on two emails
across the end of a window; two owners (one an administrator), two mailboxes, two
addresses, a link and two flows, on plans of one and of two mailboxes. Two of each
are the least that can overlap; the third attempt meets the address's limit of
three after another one's failure; `MaxActs = 3` lets a mailbox be connected, the
address be authorized again and the first be handed over or removed meanwhile. The
first shows `NobodyLockedOut`, `SuspendedIsOut` and `CodeWorksOnce`, the second
`AttemptsAreCounted` and `BoxesAreSound`. Deadlock is not checked: when the bounds are reached and every
code is spent nothing is left to do.

`members_enroll` ends in a violation of `SuspendedCannotEnroll`: an enrollment that
awaits its password hash activates a member that an administrator has suspended
meanwhile. Suspended members are *out* all the same until then (`SuspendedIsOut`).

`connections_replace` ends in a violation of `OnlyOwnersReplace`, that nobody but its
owner or an administrator replaces the credentials of a mailbox, as `identity.ts:540`
answers. Settings of an IMAP mailbox are compared with the mailboxes there are, then
tested, which is awaited, and then saved over whatever mailbox has their address by
then: another member's, if that one connected it during the test. What does hold, and
is part of `BoxesAreSound`, is `OwnersAuthorize`: an authorization at Google or
Microsoft, by link, callback or command, replaces no other member's credentials. IMAP
settings are exempt from it.

**Theorems.** For any members, codes, sessions, keys, requests and plan, with any
number of commands at a time: `MembersTypesAreKept`, `SuspendedAreOut`
(`MembersSpec => []SuspendedIsOut`) and `CodesWorkOnce` (`[]CodeWorksOnce`). Their
invariant `MembersIInv` adds `CodesAreSound`: a code that still works has not been
redeemed and belongs to a member that exists, with a login email if it enrolls.

`NobodyIsLockedOut` (`MembersSpec => []NobodyLockedOut`) is proved under
`OneCommand`: setup and recovery are run one at a time on the instance host. A
second setup that started before the first one finished sets the administrator
back to pending for a moment, which the instance then mends; TLC finds it at once
with two commands. `LockInv` adds what the interplay of a command with the server
rests on: before the instance is set up nothing works but the setup itself
(`NothingWorks`), no setup is under way afterwards (`SetupIsOver`), whom it is about
is an administrator (`SetupIsSound`), whom a command is about to activate has an
email and a password (`CommandsAreSound`), and somebody is there to be claimed
(`SomeAdmin`).

`AttemptsStayCounted` (`LoginLimitsSpec => []AttemptsAreCounted`): for any attempts,
emails, limits and window. `LoginIInv` says of the address's row that no attempt
under way was counted in a later one, so that the window an attempt remembers
identifies the row it was counted in.

`BoxesStaySound` (`ConnectionsSpec => []BoxesAreSound`): for any members, links,
states, flows and limits. `ConnectionsIInv` says that a link is held by at most one
state or callback at a time and by none once a mailbox was connected through it
(`LinksAreHeldOnce`), and for whom each flow acts (`FlowsAreSound`). As in the run,
what it says of replaced credentials is about Google and Microsoft, not about IMAP
settings, of which it does not hold.

## 9. Credentials

| Module | Models |
| --- | --- |
| `Credentials` | stored credentials, provider objects and their cache, refreshes, applications and the status of a mailbox (`server/accounts/registry.ts`, `server/config.ts`, `server/service/emailService.ts`) |
| `MCMail` | an instance for TLC |
| `Mail_proofs` | theorems of `Credentials` |

**State.** `stored[m]` is the row of `account_credentials`: which grant of the user
it belongs to, the token (numbered as the provider issues them), the application
and the revision. `cached` and `cachedRevision` are the registry's map of provider
objects of each server; `memory[i]` is what an object works with and `asked[i]` its
refresh in flight. `use[u]` is a call of the service that has an object. `app` is
the application configured for each kind of mailbox, `setting` a change of it, and
`granting[s]` an authorization of a mailbox again that goes by server `s`.

**Steps.** `BeginCached` and `BeginBuilt` are `getProvider`; `Refresh` and `Answered`
a refresh before and after its await, and `Answered` has the outcomes of
`writeTokensIfCurrent`: saved, too late and adopted, too late for another
application, the mailbox gone. `BeginReconnect`, `ExchangeCode` and `Reconnect` are an
authorization: the application is chosen, the code is exchanged for a token, and the
token is written after the identity and the mailbox were asked for, each of which is
awaited (`microsoftAuth.ts:209`, `app.ts:470`). It is written whatever the revision is by
then (`registry.ts:399`, `:458`), over what was refreshed or reconnected meanwhile.
`GivesUp` is one that ends without a token. `PinMicrosoft` and `SetMicrosoft` are the two
transactions of `setMicrosoft`. `EndUse` writes the status that the call saw.

**Run.** `rest_retries`: two servers with three objects, two calls on a mailbox, and
one change among a reconnection, a removal, a change of application, a revoked
grant and a restart; tokens up to the third. Two objects in one server are the
least in which a cache holds another object than the one that refreshes; a third
token is the least after a stale refresh and a reconnection. It shows
`CachedIsCurrent` (`CachedIsStored`, `KeepsItsApp`), `RefreshesGoForward` and
`StatusSettles`. Fairness: calls get on, since they have time limits.

`RefreshesGoForward` is about refreshes, which compare the revision: they neither bring
back a grant that was replaced nor, of the same grant, an older token. Reconnections
compare nothing, so it asks of them only that what they write is what they were granted:
of two that cross each other the last to write is kept, which need not be the last that
was granted. That is listed as a hazard.

`StatusSettles` itself assumes that changes end, that calls do not fail in other
ways, and that the mailbox goes on being used. It leaves out the Gmail mailboxes whose
credentials name no application while a server keeps an object made for another
application than the present one (`BuiltForAnother`): the cache compares the revision
only (`registry.ts:175`), which a change of the application and back does not raise, so
two servers can go on noting different statuses.

**Theorems.** For any servers, mailboxes, objects, calls and changes:
`CachedProvidersAreCurrent` (`CredentialsSpec => []CachedIsCurrent`) and
`NewerCredentialsStay` (`CredentialsSpec => RefreshesGoForward`). An object is compared
with the store by its revision alone, so `CredInv` says what a revision stands for:

* an object serves one mailbox (`OneMailboxEach`), and the cache that has it knows its
  revision (`CacheKnowsRevision`);
* no object is ahead of the store, and at the same revision it has the same grant and
  token (`NeverAhead`);
* the answer that an object waits for is newer than the token it works with, and was
  asked for by the application of the grant (`IssuedSoFar`);
* an authorization that waits to be written has a token that was issued, and issued by
  the application it began with (`GrantsAreSound`);
* while an Outlook mailbox names no application, the configured one stays, and whoever
  replaces it is going to write it down (`UnpinnedAreKnown`). `KeepsItsApp` is not
  inductive without it: from a state where the replacement is past that and a mailbox
  still names none, the last step of `setMicrosoft` breaks it.

The assumption on the constants is that there is an application besides the built-in
one, and that `None` is none of them.

## 10. What a credential may do

| Module | Models |
| --- | --- |
| `Permissions` | capabilities, profiles and policies (`server/permissions.ts`) |
| `AccessControl` | every REST route and MCP tool with what it requires, the calls it makes one after the other and what it changes, the audit middleware (`server/http/*`, `server/mcp/buildServer.ts`, `server/authorization.ts`, `server/storage/apiKeys.ts`) |
| `MCOneServer` | an instance for TLC |
| `Requests_proofs` | theorems of `AccessControl` and of `SearchPaging` (section 12) |

**State.** `standing` (role and status of each person), `sharing` (each mailbox's
provider, owner and shares), `keys` (holder, policy as stored, mailboxes),
`loggedIn`, `trashed` (mailboxes whose message is in Trash) and `asked`, the
requests in the order they were made. A request keeps the principal it was
authenticated as (`by`), and `todo` holds the calls it still has to make.

**Steps.** `RestAuthenticates` and `McpAuthenticates` take a principal of that
moment; a route is handled in a step of its own, as its body is awaited before;
every call to a provider is one more. The write of an audit event may fail: `noted`
counts the events a request has left, and `lost` says that its write failed, an error
that the route and the middleware drop. Members, owners, shares and keys change in
between. What a call needs is stated once, by the effect it has on the mailbox
(`NeedOf`), and each route's own requirement is translated from the route.

**Run.** `sched_one_server`: three people, one of them an administrator; a mailbox of
Outlook, whose `modify` looks before it moves, and one that is not connected yet; a
key with one of five policies; two requests. Two requests are the least in which one
changes what the other was authenticated by. It shows `ActsWithinAuthority` (with
`AsPermitted` and `WithinScope`), `AuditedOnce` and `ChangesAuthorized` (with
`OnlyAdministratorsDecide` and `TrashGuarded`). Deadlock is not checked: after
`MaxAsked` requests nothing is to come.

**Theorems.** For any people, mailboxes, providers, keys and requests:

* `AccessInvariant`: `AccessSpec => []AccessIInv`.
* `RequestsActWithinAuthority`: `AccessSpec => []ActsWithinAuthority`.
* `ChangesAreAudited`: `AccessSpec => []AuditedOnce`. An administrative request that may
  change something leaves one event, or none if the write of that one failed: it is never
  written by both the route and the middleware, and never tried by neither.
* `OnlyAuthorizedChange`: `AccessSpec => ChangesAuthorized`.

`AsPermitted` and `WithinScope` are about requests that were authenticated before
members and keys changed, so nothing about the present state can carry them. The
invariant says of each request by itself (`RequestOK`) that it may make every call
it still has to make, keeps to the mailboxes of its key, knows its message to be
outside of Trash if its next call relies on that, and has the audit events its route
has written; of keys that they belong to active members and hold policies a user can
ask for; and that an active administrator is left. The only assumption besides
the types is `OfferedAssumption`: keys are given policies that `permissions.ts` can
make of a request (`PermissionPolicy`), for which reading a stored policy returns
the policy that was stored.

## 11. The IMAP provider

| Module | Models |
| --- | --- |
| `ImapMailbox` | every call that reads or writes the mailbox or `imap_messages`, step by step (`packages/provider-imap/src/imapProvider.ts`, `server/storage/imapState.ts`) |
| `ImapConnection` | the shared connection and `close` |
| `MCServer` | an instance for TLC, with `StoreMigration` |
| `ImapMailbox_proofs`, `Server_proofs` | theorems of `ImapMailbox` and of `ImapConnection` |

**State.** `box` is the server: for each folder its UIDVALIDITY, next UID and
messages. `places` is the table by which Fluxmail remembers where a message is;
`calls[c]` what is left of each call, `imapLock` the mailbox lock of the connection.
`line`, `kept` and `spent` are history: of which first version a message is, what
nobody has asked to delete, what was delivered. In `ImapConnection`, `imap`,
`connectingImap` and `imapConnection` are the fields of the provider, and clients
are numbered.

**Steps.** A call is the list of its steps, one for each await that another call can
precede; any step may fail, another mail client may delete a message and the server
may number a folder anew.

**Run.** `server_parts`: three calls, two at a time, and one event outside; two
callers and four clients. Four clients are enough for an attempt to be closed,
another to be made, and both to end in either order. It shows `MailIsKeptOnce` (with
`NothingLost`, `NotDeliveredAgain` and `RowsNameTheirMessage`) and `OneKnownClient`.
The three are stated while UIDs keep their meaning: the code acts on a row's UID
without comparing its UIDVALIDITY, which is a hazard. `NotDeliveredAgain` has one more
exception. Where no copies are kept, `send` deletes the draft at the place it read; if
another call moves it out of the drafts during the delivery, nothing is deleted there,
and a third call that had read the row can save it again. The message is then there to
be sent once more, from a folder that is not the drafts. No run is long enough to reach
that (it takes four calls with a new UIDVALIDITY, or five without copies): the proof
found both, and a run of the model directed at them confirmed them.

**Theorems.** For any number of calls, callers, clients and events outside:

* `MailStaysOnce`: `ImapSpec => []MailIsKeptOnce`.
* `OneClientIsKnown`: `ConnSpec => []OneKnownClient`.

`ImapIInv` has two parts. `ImapForm` holds always: each call has steps left that its
operation can have left (`StageOf`), has the lock during its steps in a mailbox only,
and has a row to save by the time it saves it; folders number their messages below
their next UID. `MailHolds` holds while UIDs keep their meaning. It is about every row
there is, those that calls have read or are about to save included (`Rows`):

* a row leads to the message it was saved for or to nothing, a draft is where every row
  of it says, and no message can come to lie where a row is (`Named`): its UID is below
  the next one. So a list that saves a row late saves nothing false;
* a message is in one place (`InOnePlace`), and the newest version of every message
  that nobody asked to delete is in a folder (`NewestIsThere`). Hence `update`, which
  deletes what it read, deletes only what has a successor (`CallHolds`);
* a message that was sent is not in the drafts, and where copies are kept no row with a
  draft id leads to it (`Settled`). So `send`, which delivers what its row leads to,
  reads another message.

The calls are put together from lists of steps in the code as in the model, so the
proof first computes what can be left of each (`ListFollows` and its like) and then
says of each step what it does to folders, rows and calls. `ConnIInv` says that an
attempt that is over left a client that is known or closed, and that while another one
is wanted the one in use is of no use.

## 12. Searching and paging

| Module | Models |
| --- | --- |
| `SearchQuery` | parsing, tokens, formatting, merging and normalizing a search, and what each provider's server and the local filter make of it (`packages/core/src/search.ts`, `query.ts` of each provider) |
| `SearchPaging` | the page token of the service and the way each provider goes through its candidates (`server/service/searchCursor.ts`, `listMessages` of each provider) |
| `MCSharedStore` | an instance for TLC |
| `Requests_proofs` | theorems of `SearchPaging` |

A text is a sequence of symbols; `SearchQuery` types one word after the other and
asks, and its invariants compare what the functions return with a reference
definition: `SearchesAgree` (a search written out is the same search; the tokens tell
the query; merging gives one normal form; what accounts support together each of
them accepts) and `FindsWhatItMeans` (what the server finds and the filter lets pass
is what the query means). `MaxWords = 2` covers every pair of 31 words, among them
every operator with quoted, empty, contradicting and unknown values, with every
structured filter.

`SearchPaging` lists a mailbox of up to four messages that come and go, in Gmail's
batches of three, Graph's pages or IMAP's folders, with pages of one or three
messages and two candidates per call: smaller than a batch and larger than a page,
so that pages fill up, and scans end, in the middle of both. `ExactlyTheMatches` says
that who follows the tokens sees what matches, all of it and once; `AnswersGoOn` that
every answer brings the reader forward or says why it stops.

**Theorems.** For any messages, folders, batch, page sizes and scan limit, provided
that no page is larger than a batch (`PagingAssumption`):

* `PagingIsSound`: `PagingSpec => []PagingInv`.
* `ListingShowsTheMatches`: `PagingSpec => []ExactlyTheMatches`.
* `AnswersBringTheReaderForward`: `PagingSpec => AnswersGoOn`.

What a reader has seen says nothing about the pages to come, so `ExactlyTheMatches`
cannot carry itself from page to page. `PagingInv` says what is still *ahead* of a
place in the list (`Ahead`): for Gmail the ids a token brings along and what is older
than the last one listed, for IMAP the rest of the cursor's folder and the folders
after it, for Graph the tail of the list after as many messages as were counted. Then

* what is seen is seen once and not ahead any more, and what matches and stayed is seen
  or ahead (`Sound`), both for the token and for the running call, whose candidates at
  hand count as ahead until they are inspected (`ReaderIsSound`, `CallIsSound`);
* the candidates at hand are what the provider answered: distinct ids, none of which
  the next batch lists again (`GmailInOrder`); the UIDs of one folder from the highest
  down, with all that is there below the next of them (`ImapInOrder`); the part of
  the list that begins where the call stands, as long as nothing changed
  (`OutlookInOrder`);
* what is left of the call and what it has inspected are together no more than what was
  left where it began (`CallAdvances`), from which every page with a token leaves less.

For Graph's counted pages `Steadily` is part of the statement: a mailbox that changes
shifts them, and then nothing of the kind holds. Which messages have an
attachment (`WithAttachment`), how many folders an IMAP mailbox has (`LastFolder`) and
which message is in which (`Filed`) are constants, so the theorems are about every
mailbox; the run has the second and fourth message with an attachment and the third in
a second folder.

## 13. The store and releases

| Module | Models |
| --- | --- |
| `StoreMigration` | `openDb` and the migration to the current format (`server/storage/db.ts`), an older and a later build beside it |
| `Release` | planning, publishing, resuming and verifying a version (`scripts/release.mjs`, `scripts/publish.mjs`) |
| `MCServer`, `MCProcesses` | instances for TLC |
| `Server_proofs`, `Processes_proofs` | theorems of `StoreMigration` and of `Release` |

**`StoreMigration`.** `db` is the store with the columns it has and the rows the
migration tells apart; `legacy` the store as it was found, `copies` the backups,
`opener[p]` the place of a process in `openDb`. The stores at the start are of every
earlier shape, empty or broken. The lock file is `Mutex`'s; a transaction commits whole
or not at all. `server_parts` has two openers and up to three saved tokens: one
opener reads the format before the other migrates, one dies with the lock. It shows
`RaisedWhole` (`NothingDropped`, `OldAuthorityEnds`), `MigratesSafely`
(`NewerStoreIsLeftAlone`, `BackedUpFirst`) and `NewestCredentials`.

**Theorems.** For any number of openers and of saved tokens: `StoresMigrateSafely`
(`MigrationSpec => MigratesSafely`), `OpenersFindNewestCredentials`
(`MigrationSpec => NewestCredentials`) and `RaisedStoresAreWhole`
(`MigrationSpec => []RaisedWhole`). `MigrationIInv` says that whoever is about to
migrate a store that has tables has a backup of it, whatever older builds save
meanwhile, and that nobody has a store open that is not migrated. That each part of
the migration keeps the tokens is a lemma of its own (`BootstrappedKeeps` to
`WithOneAccountEachKeeps`).

`RaisedWhole` needs more: `WholeIInv` says that until its format changes a store has the
rows it was found with (`SameRows`), and from then on is those rows made whole
(`IsWhole`); that of tokens and credentials there are only those of accounts the store
has, and no revision is above the time it was written. What `IsWhole` asks of a
migrated store is proved part by part (`WithRolesRows`, `WithSharingRows`,
`WithAuthorityRows`, `WithOwnAddressesRows`, `WithOneAccountEachRows`) and put together
in `FormatOneRows`. It supposes of the old rows what `LegacyRows` says (an address
for everybody, one administrator where there are roles, keys that belong to somebody
there or to nobody), which every store of the model's beginning satisfies, with two
people and two mailboxes at most.

**`Release`.** The state is that of the destinations (npm with what it answers, which
lags; Docker; the MCP registry; tags; GitHub) and of one run. A run may stop anywhere,
and the next plans from what it finds. `lock_processes` has any two of four versions
after the first, two of them prereleases, on two packages: enough for a version to be
resumed after a newer one, and after a newer one of the other channel. It shows
`ReleasesAreWhole` (`AnnouncedIsThere`, `NewestCanResume`) and `ChannelsNeverGoBack`.

**Theorems.** For any packages and versions: `ReleasesStayWhole`
(`ReleaseSpec => []ReleasesAreWhole`) and `ChannelsStayUp`
(`ReleaseSpec => ChannelsNeverGoBack`). They suppose `ComparesByPrecedence`, that
`compareReleaseVersions` orders versions by their precedence; TLC evaluates it on the
versions of the run. `ReleaseInv` says why a run that starts from what it finds does
no harm:

* a channel of npm offers the newest version published to it (`OffersNewest`), so
  what npm offers is at least what any later destination has;
* npm answers a run with all but what the run itself has published
  (`SeesAllButOwn`), which is all that its lagging answers can hide;
* a package that is still to be published has an older version (`PublishesUpwards`);
* past the packages, a run that is not a late one has put the channel of npm at its
  version (`KnowsChannel`). Hence the image channel and the latest release, which are
  set without looking at what they were, go up (`ImageChannelGoesUp`,
  `LatestGoesUp`): whatever they name was published to npm before;
* an image channel is at least at what GitHub announces (`ImagesFollow`), without
  which the newest version would be stuck after its release.

## 14. What is proved

| Module | Theorems | Assumes, besides the types of the constants |
| --- | --- | --- |
| `SendScheduler_proofs` | `TypesAreKept`, `SentIsTrue`, `ClaimsAreExclusive` | nothing |
| | `AloneDispatchHoldsClaim`, `AloneNeverOversleeps` | `OneServer` |
| | `TimelyDeliveryIsKept` | `Timely` |
| `Licensing_proofs` | `TypesAreKept`, `AlwaysOneThingToCome`, `NoRefreshIsForgotten` | nothing |
| | `PaidLimitsAreKept` | `OutagesAreBridged` |
| `Processes_proofs` | `TypesAreKept`, `OneHolder`, `LockImplementsMutex` | nothing (`Tick` has the assumption of section 5) |
| | `ReleasesStayWhole`, `ChannelsStayUp` | `ComparesByPrecedence` |
| `Mail_proofs` | `TypesAreKept`, `ProviderIsCalledOnce`, `AnswersAreOne`, `AnswersAreOwn` | nothing (`Tick` has the assumption of section 7) |
| | `CachedProvidersAreCurrent`, `NewerCredentialsStay` | `CredentialsAssumption` |
| `Access_proofs` | `MembersTypesAreKept`, `SuspendedAreOut`, `CodesWorkOnce`, `AttemptsStayCounted`, `BoxesStaySound` | nothing |
| | `NobodyIsLockedOut` | `OneCommand` |
| `Requests_proofs` | `AccessInvariant`, `RequestsActWithinAuthority`, `ChangesAreAudited`, `OnlyAuthorizedChange` | `OfferedAssumption` |
| | `PagingIsSound`, `ListingShowsTheMatches`, `AnswersBringTheReaderForward` (`SearchPaging`) | no page is larger than a batch |
| `ImapMailbox_proofs` | `MailStaysOnce` | nothing |
| `Server_proofs` | `OneClientIsKnown`, `StoresMigrateSafely`, `OpenersFindNewestCredentials`, `RaisedStoresAreWhole` | nothing |
| | `TypesAreKept`, `ServersShareOneKey`, `ServersKeepStoreReadable`, `FilesAreKept` (`EncryptionKey`) | nothing; the second and the third are about servers without migrations |

The hypotheses `OneServer`, `Timely`, `OneCommand` and `OutagesAreBridged` restrict the
constants, not the behaviors, and the configurations above have instances that satisfy
them: the scheduler of `OneServer.cfg` for the first, that of `Server.cfg` for the
second, `SharedStore.cfg` for the third, the second installation of `MCLicensingTwo` for the
fourth. What happens without them is described with each.

The modules are laid out alike: a lemma that says what each action, or family of
actions, does to the part of the state in question; a lemma for each conjunct of the
inductive invariant; the invariance; and the theorems, which follow by temporal
reasoning. No theorem rests on a statement that is not proved.

## 15. What is only model-checked

* Liveness, which is out of TLAPS's reach: `EventuallySettled`, `LeaseFollowsKey`,
  `AbandonedLockIsRecovered`, `ServersRun`, `AllAnswered`, `StatusSettles`.
* `SearchesAgree` and `FindsWhatItMeans`: what a fold over a text of any length computes
  needs an induction over data, which is out of reach too.

## 16. What is not modelled

Message content, MIME and HTML conversion, schemas, formatting, encryption itself (a
value is known by its key), SQL beyond the statements named, network protocols beyond
*answered, failed, lost*. Telemetry and update notices are best-effort and nothing
depends on them. The command line parses arguments and prints; what its commands do is
in the modules of the parts they call. Four things are left out of modules that model
the code around them:

* `ImapMailbox`: a server that does not tell the UID of a message it wrote, for which the
  code then searches by Message-ID (`imapProvider.ts:650`). A search that finds another
  copy in the folder ends a send without the warning of the model.
* `SearchQuery`: the inside of a `rawProviderQuery`. Graph's is joined to the other clauses
  with `AND` and no parentheses (`query.ts:41` of `provider-outlook`), so an `OR` in it reaches
  over them.
* `StoreMigration`: tokens written twice in one millisecond. Of two copies with one
  `updated_at` the code keeps the one it has (`db.ts:610`).
* `AccessControl`: the death of a process, after which a change may have left no event;
  and the two calls by which a message to be scheduled is saved and read back, which are
  one.

Settings of the instance and their caches, and
the log files, are planned. What a component that is modelled in part leaves out is
noted with it in `PROJECT.json`.

## 17. Plan

Left to model: `ConfigService` (settings cached by `data_version`, sources in an order
of precedence) and `LogFiles` (bounded queue, rotation over `Mutex`).

Left to prove: of what the runs check, only what section 15 lists; of what they could
check, the modules to come.
