# A TLA+ model of birdtest

birdtest hands MAGPIE work (games, game pairs, opening racks, leave generation) out to a
fleet of contributed machines and collects the results. The server is one Rust process
(`src/backend`) in front of one PostgreSQL database and an object store. Almost everything
that can go wrong in it goes wrong *between* requests: the database's row and advisory locks,
a few maps in the process's memory, and the order in which the two are consulted decide
whether a result is stored once, credited once, and still there when a job is completed on it.
That is what these modules are about.

`PROJECT.json` lists the components, the runs, the line ranges each definition models, the
hazards and the theorems.

## 1. Inventory

| Component | Source | State it keeps | Operations | What is hard | What makes it correct |
|---|---|---|---|---|---|
| Claim lifecycle | `scheduler.rs`, `routes/worker.rs`, `jobs/registry.rs`, `jobs/game.rs` | `tasks` (state, `accepted_count`, `active_claim_count`), `task_claims`, the counters on `jobs`, the contributors' totals | claim, heartbeat, submit, decline, the reclamation sweep, the late release | four ways to end a claim race for its row; retries; results after the lapse | a task has one slot; a claim ends once; totals are what a count would find |
| Finish checks | `routes/worker.rs`, `jobs/mod.rs`, `state.rs` | `jobs.status`, debounce counters in memory | check after a submission, idle check after an empty claim, `complete_unless_purged` | no lock is held between reading results and completing; two witnesses stand in for it | never completes a job emptied since; always completes a done one |
| Purge, delete, dispatch holds | `routes/admin.rs`, `jobs/mod.rs` | `DispatchHolds` in memory; advisory locks | hold, lock merges/dispatch/claims/job, count, empty, give back, release | runs for minutes beside every other request; rolls back; the process stops | takes back exactly what it had given; nobody starves behind it |
| Admin lifecycle | `routes/admin.rs` | `jobs.status`, `allocation` | set allocations, complete | waits on a row a purge is emptying | acts on the job the admin saw; at most 100 % is allocated |
| Deadlines and time-limit runs | `scheduler.rs`, `routes/worker.rs`, `jobs/mod.rs` | `deadline_at`, `last_heartbeat_at`, `overrun`, `time_limit_streak`, `reclaim_from`, `reclaim_not_before` | heartbeat, lapse, overrun counting, set-aside | clocks, outages, overruns counted later than they happened | no live worker's claim lapses inside its limits; a job completing tasks is not set aside |
| Fair share | `scheduler.rs` | `claims_issued`, `claims_baseline`, `activated_at`, `last_claimed_at` | candidate order, turn check, parity join, lift, settle, unsettle | concurrent claims read one list; joins read moving ratios | no burst puts a job far ahead; no job starves |
| Leave generation | `jobs/leave_gen.rs`, `routes/admin.rs` (artifact checks) | staging, per-rack progress, cursors, transition rows, KLVs and their objects | stage, merge in slices, sweep, tail, seed, transition, takeover; check and repair a KLV | a generation is closed beside submissions; a transition dies half-way; a purge leaves objects behind | every result is in its generation's totals once; a generation closes complete and quiet; what is served is this run's KLV |
| Opening racks | `jobs/opening_rack.rs`, `jobs/racks.rs`, `routes/admin.rs` | rack standings, consensus settings | slice, reissue, record, restate, reopen | settings change under analyses in flight | standings and totals are those of the settings in force |
| Exports | `exports.rs` | `job_exports` | start, build, mark ready, purge, unfinalize, reap | builds outlive what they read | one at a time; "final" means nothing changed since |
| Derived builds | `derived.rs`, `bin/build-derived.rs` | lease rows, in-memory ready cache | request, lease, build, record, fail | leases expire under a slow build | one outcome per lease; a job goes out only when its files exist |
| Ratings | `ratings.rs` | rating runs, refit mark | stale check, fit, mark | a fit straddles a purge; evidence is compared by its amount | what is shown was fitted to as much as there is, and to that unless some of it is gone |
| Live statistics | `sse.rs`, `jobstats.rs` | push map, payload cache | ask, build, publish, end | asks that arrive at the end of a loop; builds that a change overtakes | every change is published; what is kept is not from before an admin's change |
| Job templates, caches | `jobs/dispatch.rs`, `jobs/handler.rs` | in-memory templates | load, remember, forget | failed loads, deleted jobs | a cache never outlives what it says |
| Body budget | `extract.rs` | permits, what each sender holds | reserve, arrive, take a turn, give back | dropped requests, in any step | every permit comes back, once |
| Input data imports | `inputdata.rs`, `routes/admin.rs` | import rows, staged rows, files, objects | start, walk the archive, upload, stage, confirm, expire, delete | a process replaced under its import; two readers of one archive | what is pinned has its bytes, and they are those a worker unpacks |
| Accounts | `routes/auth.rs`, `routes/account.rs`, `auth.rs` | users, codes, sessions, keys, reset links | register, confirm, log in, reset, keys, delete | slow hashing with nothing locked | a session knew the password there is; a deleted account has nothing |
| Statistics | `stats/` | none | SPRT, Bradley-Terry, outcomes | floating point | not a question for TLC or TLAPS |
| Plausibility, pages, rate limiter, frontend, infrastructure | rest of `src/` | windows, files | validation, I/O | - | out of scope |

### How the components meet

* A **claim request** sweeps lapsed claims of its candidate jobs in one statement, counts their
  overruns, then tries the candidates in deficit order. Each try skips a job with a hold
  (memory), takes the job's **dispatch lock** (advisory, bounded wait), picks a task, and writes
  claim, task and job in one transaction whose last statement asks again whether the job is
  active. Finding nothing, it may spawn the idle finish check.
* A **submission** reads the claim's job without a lock, then the purge count and the hold
  (memory), decodes the result, and in one transaction locks the claim's row (bounded wait), then
  task, contributor and job. After the commit, on the same request, it may run the finish check.
* A **decline** is the same with `release_claim`.
* A **finish check** evaluates the results with no lock, and `complete_unless_purged` updates the
  job if two witnesses (`claims_issued`, and the purge count in memory) have not moved.
* A **purge** or **delete** takes the hold first, then merge lock, dispatch lock, the rows of the
  open claims, the job's row; counts what contributors earned; deletes; gives back; commits;
  rebuilds what has to be rebuilt; and only then drops the hold. It runs on a task of its own, so
  a dropped request does not drop it, but an error rolls it back and a restart ends it.
* A **restart** keeps the database and loses holds, purge counts, caches and everything in flight.
* **Spawned tasks** outlive the request that asked for them: seedings, merges and transitions of leave
  generation, exports, imports, statistics pushes, rating sweeps. They end with the process: a deployment
  stops the old one before it starts the next (`infra/ecs.tf:483`, `jobs/leave_gen.rs:674`). The writes that end an import and
  an export are guarded all the same against a rollback or a manual restart that overlaps two processes for a
  moment (`inputdata.rs:976`, `exports.rs:653`), and `Imports` and `Exports` let an old task go on.

## 2. Plan

The order was by how much of the system leans on the part. Items 1 to 7 are done.

1. **`TaskSlots`, `ClaimLifecycle`**: how a claim is issued and ends; proved.
2. **`LeaveTotals`, `LeaveGeneration`**: what becomes of a leave job's results; proved.
3. **`OpeningRacks`**: first pass, reissues, consensus and its edits.
4. **`FairShare`**: the choice between jobs.
5. **`ClaimDeadlines`**: the clocks that `ClaimLifecycle` leaves open.
6. **`Exports`, `DerivedBuilds`, `StatsPush`, `RatingSweep`, `KlvArtifacts`**: what runs beside the
   requests and outlives what it read.
7. **`Imports`, `ArchiveWalk`, `Accounts`, `BodyBudget`**: input data, people and bodies.
8. Not begun: **`LockOrder`**, all locks of all paths as one waits-for model (section 8), the counters that
   debounce finish checks, and the rate limiter.

The safety properties of items 3 to 7 are proved too (section 6).

How they compose: jobs are independent of each other but for the choice between them, and
`ClaimLifecycle` is one job. `FairShare` is what comes before its `ClaimRead` and between its tries
(`ClaimPass`); `ClaimDeadlines` says which claims its `ClaimSweep` may take and when its `ClaimSetAside`
may act; `LeaveGeneration` and `OpeningRacks` are what is behind its `Offered` (is there a task), its
`SubmitCommit` (what a result does) and its purge. Each of these abstracts the other side to what it
promises: in `LeaveGeneration` a claim ends once, whichever way, as `TaskSlots` has it; in
`FairShare` a job has work or not.

## 3. The modules

| Module | What it is |
|---|---|
| `TaskSlots` | what a job's dispatch promises: each task gets one contributor's result, credited once; emptied whole; finished by the server only when full |
| `ClaimLifecycle`, `MCClaimLifecycle` | one job, its tasks, claims and locks, the requests in flight, a purge, restarts; it implements `TaskSlots` |
| `ClaimLifecycle_proofs` | its type invariant; the inductive invariant and what follows; the refinement and the counters |
| `LeaveTotals` | what leave generation promises: each accepted result in its generation's totals once, generations closed in order and complete |
| `LeaveGeneration`, `MCLeaveGeneration` | one leave job: claims read by read, staging, sliced merges, seeding, transitions, failures, purges, restarts; it implements `LeaveTotals` |
| `LeaveGeneration_proofs` | its inductive invariant, the refinement, and that a generation closes quietly |
| `KlvArtifacts` | one generation's KLV: row, object, backup, checks and repairs, fetches by workers |
| `OpeningRacks`, `MCOpeningRacks`, `OpeningRacks_proofs` | one opening-rack job: slices, reissues, standings, consensus edits, finish check |
| `FairShare`, `MCFairShare`, `FairShare_proofs` | claims walking several jobs at once: order, turn check, rounds, joins, lifts, allocation changes, shutdown or idle |
| `ClaimDeadlines`, `MCClaimDeadlines`, `ClaimDeadlines_proofs` | clocks: heartbeats, deadlines, graces, overruns, time-limit runs, outages, purges |
| `Exports` | a job's exports: snapshot, upload, ready mark, clean-up, purges, edits, an old process building on |
| `DerivedBuilds` | reference builds: queue, leases, attempts, versions of the builders, the web process's cache |
| `StatsPush` | live statistics: asks, the one loop, superseded builds, kept payloads, pages, readers |
| `RatingSweep`, `MCRatingSweep` | a rating pool: the sweep's questions, fits under way, results, purges, members, anchor |
| `Imports` | imports from request to end, players and jobs that pin files, deletes, replaced processes |
| `ArchiveWalk`, `MCArchiveWalk` | the walk of a release archive, with GNU tar's reading of the same entries beside it |
| `Accounts` | registration, confirmation, logins, sessions, keys, resets, deletion |
| `BodyBudget` | the budget of large bodies: reservations, shares, turns |
| `Records`, `MCRecords`, `Records_proofs` | the sum of `Exports`, `RatingSweep`, `Accounts`, `Imports`, `ArchiveWalk`, `BodyBudget` and `KlvArtifacts`, for any constants; a small instance of it; the proofs |
| `Tasks`, `MCTasks`, `Tasks_proofs` | the same of `DerivedBuilds` and `StatsPush` |
| `SumFacts` | lemmas on sums over finite sets and on folds, which the proofs cite |

### `ClaimLifecycle`: state and code

| Variable | Code |
|---|---|
| `status`, `claimsIssued`, `tasksTotal`, `tasksCompleted` | the job's row |
| `finishedBy` | who made the completion that stands, as the audit log has it |
| `slot`, `live`, `accepted` | `tasks.state`, `active_claim_count`, `accepted_count`; `"none"` is a seed not yet generated |
| `cstate`, `ctask`, `cworker` | `task_claims`; `"unissued"` and `"deleted"` are rows that do not exist |
| `rowLock` | the row lock a transaction holds on a claim across its own steps |
| `credit`, `owed` | `users`/`anonymous_workers.tasks_completed`; what the purge counted (`Contributions`) |
| `held`, `holdsTaken` | `DispatchHolds`: the claims hold, and `claims_holds_taken` |
| `purge` | the point the purge's task has reached |
| `pc`, `req` | where each request is, and what it has read: its token, `claims_issued`, the purge count |

An action is one database statement or transaction, or one look at the process's memory, and the
steps of a handler are cut where another request can run in between and matter:

* claim request: `ClaimRead` (candidate list), `ClaimSweep` (the reclamation statement),
  `ClaimSetAside` (overruns), `ClaimPass` (the hold), then under the dispatch lock `ClaimIssue`,
  `ClaimNothing`, `ClaimNoWork`, `ClaimIdleCheck`;
* submission: `SubmitRead`, `SubmitWitness`, `SubmitLock` or `GiveUp`, then `SubmitCommit` or
  `SubmitLate`, then `FinishSkip` or `FinishEvaluate`, then `Finish`;
* decline: `DeclineRead`, `DeclineCommit` or `GiveUp`;
* idle check: `IdleCount`, `IdleJob`, `IdleInFlight`, `FinishEvaluate`, `Finish`;
* admin: `AdminRead`, `AdminAct`;
* purge or delete: `PurgeHold`, `PurgeDispatch`, `PurgeLockClaim` row by row, `PurgeAllLocked`,
  `PurgeCount`, `PurgeCommit`, `PurgeRelease`, or `PurgeAbort`;
* `Drop` (a request fails or its client goes away: the transaction rolls back) and `Restart`.

The definitions with an underscore in their names (`Release_KeepsCount`, `SubmitLock_Unchecked`
and so on) are not part of the specification: each is a plausible mistake in the definition it is
named after, kept to see that the property guarding against it does catch it.

### `ClaimLifecycle`: what is abstracted, and what that costs

* **Time.** Any open claim may have lapsed when a sweep or a late submission looks at it, and any run
  of overruns and time-limit declines may have reached the streak that sets the job aside. This
  allows more behaviours than the code has, so the safety results stand; *when* a claim may lapse
  is left to `ClaimDeadlines`.
* **One job**: a games job without a match test, whose tasks hold one game each, so that `max_units`
  games are `MaxUnits` tasks. Locks, holds, counters and purge counts are per job. The match test
  would only make more jobs finish earlier. Opening racks and leave generation change what a task
  holds and how it is picked, not how its claim ends; their own state comes in modules of their own.
* **Which worker holds a token** is kept only as the owner of the claim: a token presented by another
  identity is answered as an unknown one is.
* **The choice among jobs** (deficits, turn check) decides only whether a claim request reaches this
  job: `ClaimRead` and `Drop` are always possible.
* **The one-hour memory of declines** is a free choice of the declined tasks still remembered.
* **What a transaction does under locks that keep the others out is one step**: claim issue (dispatch
  lock and job row), decline (claim row), the purge's deletes (all locks). A submission's
  transaction is two steps, locking the claim and the rest, because the purge and the sweep meet
  it in between; a purge's is one for each lock.
* **Heartbeats** touch only `last_heartbeat_at` and are left out with time.

### The other modules: state, steps, and what is abstracted

In every module a variable is a table's column, a row or a map of the process's memory, named in the
comment beside its declaration; an action is a statement, a transaction, or a look at memory, cut
where another request can come between and matter; `PROJECT.json` maps each definition to its lines.
A definition with an underscore is a slip, as above.

**`LeaveGeneration`.** A claim holds the job's dispatch lock, so there is one at a time; its reads are
actions of their own (`ClaimStart`, `ClaimNeeds`, `ClaimNext`, `ClaimStep`, `ClaimInFlight`,
`ClaimStaged`, `ClaimBoundary`, `ClaimTail`, `ClaimTailDone`), because submissions, declines, merges
and transitions take no dispatch lock and commit between them. A merge is `MergeStart`, `MergePass` for
each slice of the racks, and `MergeCommit`, all one transaction of the code, whose failure leaves
nothing; a transition is `RunDrain` (a merge of its own), `RunRead`, `RunClose`, or `RunFail` at any
point. `count` is `occurrence_count`, `below` the stored summary, `cursor` the lap. Abstracted: what a
result holds besides the racks it saw; equal counts come in any order (`Furthest`). A transition is
taken to outlast neither the takeover bound nor its process, *nor a purge of its job so long that its
generation is played to the end again* (`Overtaken`; see section 6).

**`KlvArtifacts`.** A KLV is the run of the job whose totals it was built from, and its builder. A check
(`rebuild_artifacts`) is read, build, look at the object, put, record; a purge deletes the row and not
the object; a restore brings back an old row (`CopyBack`, with no check or transition under way). A
check's `put` is not conditional as its `UPDATE` is: one that runs across a purge and a run again can
overwrite the new run's object until the next check, which the runbook asks for; so the property
speaks of what rows serve always, and of objects after a check that ran alone.

**`OpeningRacks`.** The slices of the first pass, the statements of a claim that picks a reissue
(`ClaimGoesOn`: what is out, then the racks), a submission that locks its claim, takes the settings and
writes, a consensus edit with its own hold, the finish check's two reads. An analysis is the move it
ranks first. Left out: purges, and what `StandingInv` does not speak of. The job may complete while an
old claim of it is open, whose submission is then recorded and can unsettle a rack; the code accepts
this, and `CompletesSettled` is about the moment of completion.

**`FairShare`.** `standing` is `claims_issued - claims_baseline`; ratios are kept integral by `Scale`.
A request reads its candidates in order, takes the turn check with the lock held, passes over, goes
round again, lifts what it passed over, or answers shutdown or idle by a statement of its own. Whether
a job has work is nobody's choice here (`Gap`). Left out: fatal errors of a candidate, builds that are
unsupported, the forgetting of busy jobs after ten minutes (a job found busy stays so here, and
`NoTakeover` allows for the unit it is forgiven for good). `newcomer`, `beside`, `waited` and `streak` are
histories that no step reads: which jobs joined, beside which jobs being served that only claims and lifts
have moved since, how many claims of each passed a newcomer by, and how many claims at a join a job got
from one worker in a row, while no other job of that worker's was claimed or moved.

The two properties of a join are stated over them, for each pair of jobs and each unbroken row of claims.
Forms that count across pairs and rows, over a whole behaviour, hold on an instance as small as the run's
and fail on larger ones: the waits for several jobs add up, and so do the turns a job gets back when
another is claimed or moved between.

**`ClaimDeadlines`.** Time is in ticks longer than a heartbeat interval; live workers that can reach
the server have heartbeat and submitted before a tick passes (`Tick`'s guard is this). A purge takes its
hold and every claim's row in one step, and a sweep reads its graces and runs in one; those
interleavings are `ClaimLifecycle`'s.

**`Exports`.** The job's results are a number that every change of them raises, so *holds the corpus* is
equality. A build is of the process that started it, or of an older one (`Restart`): the new process
fails the exports it finds running while the old build may yet mark them ready. Objects are removed by
a failed build and by age.

**`DerivedBuilds`.** A lease is told by the builder that took it, and may lapse at any moment: the code
gives it longer than a build may take, on a clock that a stalled process does not follow.

**`StatsPush`.** A payload is the change it was read after. A loop builds, publishes unless superseded,
cools down, and ends only if it was not asked meanwhile; a page subscribes, then reads what is kept or
waits for a build. That a build is judged superseded, and kept, is one step, under the payloads' lock; that it
is published is the next, and an admin's change has two as well: it forgets what is kept, then asks. Left
out: the answer a failed build gives those who wait behind it, a receiver that lags, and
`JOB_STATS_CACHE_SECONDS=0`, with which nothing is kept, every page builds for itself and no build counts as
superseded (`jobstats.rs:371`, `423`). Of two builds of the same statistics the code drops the one that began
first; here they are not told apart. A loop gives up after `MaxRounds` superseded builds in a row, and
`EveryAskShows` then promises nothing for the changes asked for before (`Excused`).

**`RatingSweep`.** The evidence is how many pairs were played, which a fit reads statement by statement, and
which the code compares. Beside the amounts the model keeps which pairs they are: `rows`, for each job as many
of one *era*, and a purge begins a new era. A deleted job leaves a pool as a purge whose job stays quiet. So
`QuietIsCurrent` is about amounts, and about the very pairs as long as none that were fitted to are gone
(`Stands`); that none is gone in a pool the sweep leaves alone, `PurgedIsGone`, does not hold (section 5;
`PLAN.md:10113`, KL-61). The fit, the residuals and the thinning of old runs are left out.

**`Imports`.** A file is a path and a digest; an object's key is its digest. Not promised, and so not a
property: that a file staged as known is there after the confirmation (it inserts only what was staged as
new, because "`known` is already there", `routes/admin.rs:400`, and does not look whether it was deleted since
it was staged), nor that an import whose last write failed shows as ended before the next start. Rating pools' pins and what the players of a job must agree on are left out.

**`ArchiveWalk`.** `walk` is this repository's reading of the archive; `disk` is GNU tar's, which is
external, modelled from what it does with the same entries. A path is one normalised name. Of a directory
entry the walk drops the name, and tar makes the directory in place of a file or link (`dirs`). What a worker
reads under a pinned path is therefore the bytes pinned *or nothing* (`PinnedIsUnpacked`); that it is never
nothing, `PinnedIsThere`, does not hold (section 5). Paths *through* a name (files in such a directory, links to
directories) are left out.

**`Accounts`.** A transaction that locks the account's row first is one step; the hashing and checking of
passwords is between two. Which link a reset presents may be reused here more freely than in the code.
Left out: rate limits, mails, the wait for a hashing turn, bans, worker identities.

**`BodyBudget`.** Permits and shares are two structures, given back in two steps when a request ends in
whichever way. What a decode on a blocking thread still holds after its request was dropped is left out.

**`Records`, `Tasks`.** Components that share no state cannot disturb each other, and a run of each alone
would ask nothing more than their sum does: the first state chooses a part, only that part moves, and
each property speaks of its own part. The sums take the components' constants as their own; `MCRecords`
and `MCTasks` are small instances of them. Every action of every part fires.

## 4. Runs

| Run | Instance | What it shows |
|---|---|---|
| `safety` | 1 worker, 3 tokens, 2 requests in flight, 2 tasks, 1 purge per process lifetime, 1 restart | `SlotInv`, `CreditInv`, `JobCountersInv`, `FinishInv`, `PurgeExclusive`, the inductive `IInv` (which contains the type invariant), `ClaimEndsOnce`, and that `ClaimLifecycle` implements `TaskSlots` |
| `liveness` | 1 worker, 1 token, 2 requests, 1 task, 1 purge, 1 restart, with fairness | `DoneJobLeavesDispatch`, `PurgeEnds` |
| `leave_generation` | 2 racks, 2 generations, 2 unmerged tasks, 2 transitions, 1 mishap, with fairness | `ClosesQuietly`, `ImplementsLeaveTotals`, `GenerationsEnd` |
| `opening_racks` | 3 racks by twos, 2 tasks, 2 identities, 2 settings, 1 edit, 1 mishap, with fairness | `StandingInv`, `OneTaskPerRack`, `CompletesSettled`, `RacksEnd` |
| `fair_share` | 3 jobs, 2 requests of unlike workers, 2 admins, 6 claims, 2 events | `WholeFleet`, `NewcomerServed`, `NoTakeover`, `NoBurst` |
| `deadlines` | 3 claims, 2 open at once, 5 ticks, streak 2, 1 mishap | `NoLostWork`, `SetAsideInTime`, `SetAsideDeserved` |
| `records` | the sum of `Exports`, `RatingSweep`, `Accounts`, `Imports`, `ArchiveWalk`, `BodyBudget`, `KlvArtifacts` | `FinalIsCorpus`, `ReadyHasObjects`; `QuietIsCurrent`, `AnchorHolds`; `SessionKnowsPassword`, `DeletedHasNothing`, `ConfirmedStays`; `PinnedHasBytes`, `EndedStays`; `PinnedIsUnpacked`; `BudgetAddsUp`; `ServedIsSound` |
| `tasks` | the sum of `DerivedBuilds` and `StatsPush`, with fairness | `HandedOutIsBuilt`, `WaitsEnd`; `KeptIsCurrent`, `EveryAskShows` |
| `idle_check`, `leave_transition`, `stale_page`, `fair_shutdown` | small instances | the counterexamples of section 5 |

Beside the runs, `StatsPush_stale_push.cfg`, `RatingSweep_purge.cfg` and `ArchiveWalk_directory.cfg` show in seconds
where three properties of `records` and `tasks` end: each checks a stronger one, which does not hold (section 5).

**Why these bounds.**

* `ClaimLifecycle`: three tokens and two tasks are the least with which one task has a claim that ended
  without a result and one that completed it while the other task's claim is open. Two requests in
  flight are every pair of handlers meeting, which is what each hazard needs (the purge and the restart
  are actors of their own). One purge per lifetime and one restart give two purges in a behaviour, in
  two processes, the second with its memory reset. Requests, tokens and workers are interchangeable,
  so the safety run takes states up to permutation; the liveness runs do not.
* `LeaveGeneration`: two racks with one rack a task and a sweep bound of one have a lap of two, a tail,
  and a slice that holds one rack and not the other; two generations have a close that something
  follows, and two transitions a takeover. Safety was also run with up to four mishaps, three tasks and
  targets of two. `GenerationsEnd` needs more tasks than mishaps: each task lost while a claim is between its
  reads may be left available beside the one that claim makes, and the model's pool of tasks, without one to
  spare, would then be used up, where the code's table grows. The theorems of section 6 have none of these
  bounds.
* `OpeningRacks`: three racks by twos have a last slice that is short; two identities and at most two
  analyses are a rack that agrees and one that settles without. One edit may tighten or loosen.
* `FairShare`: job 1 has six claims' lead over the job a minority can run, job 3 joins; six claims see
  the newcomer through its turn and past it. Simulation of instances with three requests, fourteen claims
  and six events, and with four jobs, found none of the properties nor of the inductive invariants of
  section 6 violated. `NewcomerServed` breaks in it with a join at the highest
  ratio, and `NoTakeover` without the lift of a job that has fallen behind.
* `ClaimDeadlines`: two ticks of timeout, one of grace and limits of one and two are the shortest in which
  silence, deadline and grace fall at different ticks, and a streak of two the shortest run. Two mishaps
  were run for five minutes without a violation.
* `records` and `tasks`: two of whatever can overlap (exports, imports, accounts of a name, builders) and
  as many mishaps as make a failure meet another's effect. `Exports` with two mishaps (3.3 million
  states) and `KlvArtifacts` with two checks (7.9 million) held as well.

Deadlock is checked in the runs of `ClaimLifecycle`; the other modules stop when their bounds are used up.

**Fairness.** `ClaimLifecycle`: a request under way takes its next step - the runtime polls its future, the
database answers, lock waits are bounded - weak fairness. A purge runs on its own task to its end - weak
fairness. Workers keep asking for work, and a request may be dropped at any point but not all of them,
for ever, at the same one - strong fairness of reading the candidates, sweeping, reaching the job while
it is not held, and reaching the idle check, over all requests together. Nothing is assumed of admins,
declines, submissions being started, or restarts. The first property would fail if only submissions
checked for completion (the mutant `ClaimIdleCheck_Never`), the second if submissions queued behind the
purge's locks (`SubmitWitness_Held`).

`LeaveGeneration`: workers ask and answer, the sweep merges, spawned work runs - weak fairness; a
transition and a seeding need a lock that others take and free again - strong fairness. `OpeningRacks`:
workers ask and answer, and retry what an edit refused - strong fairness of both; steps under way end.
`DerivedBuilds`: builder tasks are scheduled, a build ends by its deadline, leases lapse - weak. `StatsPush`:
the loop and readers go on - weak; a page's turn at the build lock, which is given first come first
served, is strong. No module assumes that an admin acts, or that nothing fails.

## 5. Disagreements between code and comment

**`idle_check`.** `complete_unless_purged` says of itself (`jobs/mod.rs:306`) that it completes a job "unless
it was purged after the evidence for that decision was read", with a second witness, the purge count, for
a purged job that is handed out again before the check writes. A submission reads the count, then refuses
to go on if a hold is held. The idle check (`finish_idle_job`, `routes/worker.rs:1305`) reads the count and
does not ask about the hold. The run finds:

1. the job's one result is stored, and a claim request, past the hold check, finds no work;
2. a purge takes its hold, so the count moves; then the idle check is spawned and reads the count;
3. it reads the job (`claims_issued` = 1), finds no open claim and every result stored;
4. the purge commits and drops its hold; the job is activated; one claim is issued;
5. the check writes: the count has not moved since 2, no hold is held, `claims_issued` is 1.

The emptied job is completed. `FinishInv`, the same statement about submissions only, holds, and is
proved. Asking `claims_held` after reading the count, as a submission does, closes it.

**`leave_transition`.** A claim of a leave job reads the current generation twice (`jobs/registry.rs:298`,
`jobs/leave_gen.rs:817`), and a transition's commit fits between: the checks are made for the generation
that has just closed, the decision for the next, whose racks are not written, so that nothing of it is
below target and its transition starts. The transition is refused by its row count and handed back
(which is why `ImplementsLeaveTotals` holds all the same); what stays is a cursor that makes the whole
generation be selected lowest count first.

**`stale_page`.** A result that lands with no page open pushes nothing and leaves the kept payload
(`routes/worker.rs:1260`); a page opened soon after is given that payload, and if nothing further lands it
stays behind for as long as it is open, where `PLAN.md:2892` has it lag by the interval.

**`fair_shutdown`.** A claim with no candidates asks in a second statement what rules it out
(`scheduler.rs:386`), and asks whether any active job does, not whether all do: a job activated between the
two, that the worker could run, does not keep it from being told to exit, against `scheduler.rs:91`, "Every
active job is ruled out for this worker".

Three stronger forms of properties that hold do not; what is checked and proved is the weaker form, and why:

**`NoStalePush`** (`StatsPush_stale_push.cfg`). A build of the statistics is judged under the payloads'
lock, which is let go before it is published under another (`jobstats.rs:427`, `routes/worker.rs:1352`). An
admin's change on another thread can forget what is kept in between, and the status from before it goes to
every open page, which `jobstats.rs:362` and `routes/worker.rs:1337` say a live push must not do. It lasts
until the urgent push that the same change asks for next; nothing stale is kept meanwhile (`KeptIsCurrent`).
With `JOB_STATS_CACHE_SECONDS=0` builds are not judged at all.

**`PurgedIsGone`** (`MCRatingSweep`, `RatingSweep_purge.cfg`). A purge marks a pool's newest run so that the
sweep looks past its cheap comparison of sums, "which a purge and a re-run to the same count leave where it
was" (`ratings.rs:345`); the comparison behind that (`ratings.rs:500`) is one of counts too. If as many
pairs are played between the purge and the sweep, the sweep takes them for the same evidence, writes the sum
over the mark, and the ratings stay those of the purged pairs until the next new one. `PLAN.md:10113`
(KL-61) names it for a deleted job.

**`PinnedIsThere`** (`MCArchiveWalk`, `ArchiveWalk_directory.cfg`). The walk of a release skips directory
entries before it looks at names (`inputdata.rs:666`), so a directory with the name of a pinned file, after
it, is not "naming one twice", which `inputdata.rs:530` and `TESTING.md:757` have refused. The archive is
accepted with the file's digest pinned, and a worker that unpacks it has a directory there. It fails safe:
no worker has other bytes under that path (`PinnedIsUnpacked`), and one that lacks a file declines.

## 6. What is proved

### `ClaimLifecycle`

For every set of workers, tokens, requests and tasks, and any number of purges and restarts, under the
three assumptions named in `ClaimLifecycle` (`MaxUnits` positive, the bounds natural numbers, the
token set finite and the special values distinct):

| Theorem | Statement |
|---|---|
| `TypeInvariant` | `Spec => []TypeOK` |
| `Invariant` | `Spec => []IInv` |
| `OneOccupant` | `Spec => []SlotInv` |
| `CreditExact` | `Spec => []CreditInv` |
| `FinishSafe` | `Spec => []FinishInv` |
| `PurgeAlone` | `Spec => []PurgeExclusive` |
| `EndsOnce` | `Spec => ClaimEndsOnce` |
| `Refines` | `Spec => ImplementsTaskSlots` |
| `CountersExact` | `Spec => []JobCountersInv` |

**Why an invariant stronger than the properties is needed.** `SlotInv` says a submission's commit
finds its task in the claimed state with one live claim, but a commit is a step after the lock was
taken: only `LockInv` (a request past `SubmitLock` holds the row of a claim still open) rules out that
a sweep ended the claim in between. `CreditInv` survives a purge only if what the purge counted still
stands when it gives it back: `CountedInv`, which holds because the purge has every open claim's row
(`LockInv` again), so that no submission is past its lock. `FinishInv` needs `WitnessInv`: the count a
submission carries is below the current one while a hold it did not see is held, so an unmoved count
with no hold at the write means that no purge committed since it was read, and results seen
stored are still stored. `IInv` is the conjunction, with `RowInv` (an issued claim has a task and an
owner) and `TypeOK`.

**How the proof goes.** The actions fall into a few kinds by what they do to the ledger of tasks, claims
and credit (`LedgerSteps`): leave it alone, issue a claim, release claims, commit a result, empty the
job. `SlotStep`, `CreditStep` and `CountedStep` are proved once per kind. Locks are proved apart
(`LockStep`: a lock is taken, freed, or the claim it is on ends), and so are the witnesses
(`WitnessStep`: holds only grow within a process; results stored stay stored unless the job is
emptied, which takes a hold). `Invariant` puts them together; the five theorems after it are read off it.

`Refines` goes over the same kinds. `OneHolder` first shows that the choice in the refinement mapping is
no choice: `SlotInv` leaves a task at most one completed claim. Leaving the ledger alone, issuing and
releasing then move no result (`NoResultMoves`), a commit is `Accept` (`CommitAccepts`), emptying is
`Empty` (`PurgeTakesAll`: the completed claims of a contributor, which the purge counted, correspond
one to one to the tasks whose result it has, `TasksOfWorker`), and a completion by a submission's
finish check is `Finish`, whose guard `FinishInv` supplies. `CountersExact` needs one fact of the
invariant per counter: a claim is issued for a task that is free, and accepted on a task that has no
result yet.

### `LeaveGeneration`

For every number of racks, generations, slices, every target and finite set of tasks, every set of
transitions and any number of mishaps, under its two assumptions:

| Theorem | Statement |
|---|---|
| `Quiet` | `Spec => ClosesQuietly` |
| `Implements` | `Spec => ImplementsLeaveTotals` |

**The invariant.** That a generation closes complete would follow if a transition were only started on a
complete generation; but `TransitionOfComplete` fails (section 5), so the invariant cannot say that. It
says instead that *nobody writes the racks of an open generation that has none* (`SeedInv`: the seeding of
a generation is asked for by a claim that found it without racks and no transition open, and a claim that
asks for the next one's would have to see this one closed), so a transition started too early meets no
racks, is refused, and its row goes stale; and that an open generation *with* racks has each at its target
and nothing out (`OpenInv`). The latter is what the claim that opened it saw (`ClaimInv`), read by read:
nothing claimed, then nothing staged, and nothing can be claimed while the claim has the dispatch lock,
nor after it while the row is open. `ClosedInv` (generations close in order, and an artifact is a closed
row) turns the generation of a running transition into the current one. `RunInv` (a transition is alone
with its generation) carries what a transition read until it closes.

**The steps.** A claim's ten actions fall into five kinds (`ClaimDoes`: it ends, asks for racks, goes on,
hands out a task, opens a transition); each part of the invariant is a lemma over the kinds and the other
actions. `CloseIs` says what a close finds; `Quiet` is read off it. For `Implements`, `TotalsStay` reduces
the totals to what is counted and what is held in stages; `MergeKeeps` moves results from the one to the
other, each once, because every rack is folded by the last slice; `SubmitAccepts` is `Accept` and
`CloseCloses` is `Close`; `OtherKeeps` is everything else.

**What it assumes.** `Overtaken` keeps out a transition that outlasts a purge of its job and the playing of
the same generation to its end again. Without the guard TLC finds, with three mishaps, that `ClosesQuietly`
fails: transition *x* runs; the job is purged and run again; its generation is complete again but for one
task still out, which lapses just after a claim has seen no task available; that claim opens the
generation's transition, which fails; the next is handed the task that lapsed; then *x* closes the row
that is not its own, because `close_generation` (`leave_gen.rs:1477`) asks only that the row of this
generation has not completed. The comment there takes the row for "the evidence that the job is still the
one it started on", which it is not when another transition has written it since. It needs a transition
longer than a whole generation. A column telling one transition's row from another's, compared in that
statement, would close it.

### `OpeningRacks`

For any number of racks, racks a task and edits, any identities, moves, tasks and settings that
`consensus_problems` lets through (`SizesAssumption`, `SettingsAssumption`; `RowAssumption` says that the
value for a missing row is none of the rows):

| Theorem | Statement |
|---|---|
| `StandingSound` | `Spec => []StandingInv` |
| `OneTask` | `Spec => []OneTaskPerRack` |
| `CompletedIsSettled` | `Spec => CompletesSettled` |

A submission writes with the settings it read when it locked its claim, so `StandingInv` needs them to be
the ones in force when it commits: `SubInv`, which an edit keeps because it waits for the rows of the
claims that submissions have locked. With it, a commit restates the one row it adds to and moves the
totals by what that row changed (`SubmitStanding`), and an edit restates every row (`EditStanding`).
`OneTaskPerRack` needs to know of a claim between its statements that it will not pick a rack some task
has: `TaskInv`. The dispatch lock gives it for the racks of the first pass; for reissues it is that the
racks that are out are read before the racks to choose from, and that nobody else makes tasks meanwhile: a rack
of a task that is open when the choice is made was read as out, or has no row yet and cannot be chosen.
`CompletesSettled` is read off what the check's write asks again.

### `ClaimDeadlines`

For any finite set of claims and any limits, timeout, grace and streak, all positive, any clock and
number of mishaps (`ClocksAssumption`); of the bounds of the model only that two workers have claims at
once is kept:

| Theorem | Statement |
|---|---|
| `WorkKept` | `Spec => []NoLostWork` |
| `SetAsideEnough` | `Spec => []SetAsideInTime` |
| `SetAsideEarned` | `Spec => SetAsideDeserved` |

`NoLostWork` is about what a sweep takes; the invariant has to say what it will find. `FreshInv`: while the
workers can reach the server, a live worker's claim has been heard of within a tick, and what it finished
in time it has not had to wait past the deadline with - or the grace that follows an outage or a hold has
yet to run for a whole timeout (`JustBack`), so that a sweep now would take nothing.

The run of time-limit hits is a counter and a date, written at different moments from what they count.
`SinceInv`: the date is that of the last good moment (a result, or an admin's reset), or the job was
purged and has had no claim since that could count. `RunInv` bounds the counter on both sides: it counts at least the hits
strictly after that date and at most those from it on, and is below the streak while the job is handed
out. Both bounds are needed, and are different sets, because a decline that falls on the date itself may
have come before or after. `SetAsideEnough` is the lower bound, `SetAsideEarned` the upper.

### `FairShare`

For any finite set of jobs, any requests, admins and workers' abilities, shares and changes
(`SizesAssumption`, `ChangesAssumption`: the shares at the start are at most the whole, and a change
names a job once, both of which the code refuses otherwise; every share divides `Scale`, which is what
keeps ratios whole numbers in the model):

| Theorem | Statement |
|---|---|
| `FleetKept` | `Spec => []WholeFleet` |
| `NoBurstEver` | `Spec => NoBurst` |
| `NewcomerIsServed` | `Spec => []NewcomerServed` |
| `NoTakeoverEver` | `Spec => []NoTakeover` |

`FleetKept` rests on `AdmInv`: two changes under way lock different jobs' rows, one at a time is between
its check and its write, and what that one has checked adds up to no more than the whole until it
writes. The write is a fold over the change's rows; `AppliedIs` and `AppliedSum` show that it leaves
exactly the sum that was checked, whatever order the rows are in.

`NoBurst` speaks of the moment a claim is issued, but the turn was checked before. `TurnInv`: a job has
one request at its lock, and that request's turn, once given, stays: claims of rivals only put the rivals
further on, and what anything else moved is marked (`shifted`) and not compared. `OrderExists` and
`CandidatesAre` show that the candidates have a sorted order to be read in, so that `CHOOSE` and the
quantifiers over orders speak of something.

*Joins: the wait.* A job that joins starts no further on than any job being served (`JoinIsLow`), and until
it is claimed it is not moved, or is a newcomer no longer, while the jobs it joined only go on: so it is
behind each by as many of that job's claims as passed it by. `WaitsFor` says so, and that all of those but
the last weigh no more than one claim of its own. That the last one may come at all is the turn check's
doing: whoever has a job locked with the newcomer for a rival was, when it took the lock, no more than one
claim of the newcomer's past it (`WaitsAtLock`), and a job has one request at its lock. `WaitIsTurn` counts
the weights: a claim of the one job weighs `Scale` by its share, so they are at most the quotient of the
shares, and one.

*Joins: no takeover.* A job at a join is lifted with each claim to the pace the worker's list gives, which is
that of one other job, less a claim of each. While a row of such claims is unbroken, the worker's other jobs
stand as its list says (`CurrentFor`), so from the second claim on the job is past that pace, and by one
claim more with each (`PacedFor`; `AtIs`: rounding down to whole claims loses less than one). The job that set
the pace is on the list, and, as none was passed over, a rival or found busy; either way the turn check lets the claimed job
no further past it than a claim, or a unit. Together (`TurnEndsStreak`) they leave the row at most three
claims and the slack when the lock is taken (`TurnLeft`), and four once the claim is issued. The slack is
reckoned with the smallest share there is, whose claims weigh the most (`UnitsFall`).

### `Records`

For any constants of the seven components, under `RecordsAssumption`: `MaxKeys`, `Budget`, `Share` and
`BodyTurns` are natural numbers, the jobs of a pool, the requests for bodies and the names in an archive are finitely
many, a pool's members are none of its jobs, `None` is no name, and the walk follows at least one link.

| Theorem | Statement | Component |
|---|---|---|
| `FinalSound` | `Spec => []FinalIsCorpus` | `Exports` |
| `DownloadsWhole` | `Spec => []ReadyHasObjects` | `Exports` |
| `QuietFits` | `Spec => []QuietIsCurrent` | `RatingSweep` |
| `AnchorKept` | `Spec => []AnchorHolds` | `RatingSweep` |
| `SessionsSound` | `Spec => []SessionKnowsPassword` | `Accounts` |
| `DeletedIsEmpty` | `Spec => []DeletedHasNothing` | `Accounts` |
| `ConfirmedIsKept` | `Spec => ConfirmedStays` | `Accounts` |
| `PinnedIsThere` | `Spec => []PinnedHasBytes` | `Imports` |
| `EndedIsKept` | `Spec => EndedStays` | `Imports` |
| `UnpackedIsPinned` | `Spec => []PinnedIsUnpacked` | `ArchiveWalk` |
| `BudgetKept` | `Spec => []BudgetAddsUp` | `BodyBudget` |
| `ServingSound` | `Spec => []ServedIsSound` | `KlvArtifacts` |

Each is first proved of the component's own specification, with the component's constants and variables
under the sum's names, and then of the sum: the part that was chosen takes its component's steps and the
others stand still (`PartStays`).

*Exports.* A purge or an edit that holds the job's row has written every export there is before it changes
what they hold (`ExportWriterInv`). What a build has read is still so when it marks its export ready, or the row is no
longer running and the mark is refused; and only a row's own build removes what was stored for it
(`ExportBuildInv`), which is why a build of an older process cannot take a download away.

*Ratings.* The sweep compares sums, and a sum may stay the same while its parts move. `RatingEvidenceInv`
closes that gap for amounts: a sum that a run records, or a fit is about to, is at most what there is now, and
if it is as much, as many pairs were fitted as there are; a purge, which lowers the sum, takes the record of it
away. For the pairs themselves, `RatingRowsInv` says that what a run or a fit has of a job's present era is no
more than was played, and that their number is the sum over the jobs; so when the number is all there is and no
era has passed, each job's share is all of it. The anchor needs that the
newest run is measured against the pool's own (`RatingNewestInv`), kept through `RatingLockInv` and
`RatingRemovalInv`.

*Accounts.* `SessionKnowsPassword` is not inductive: a login has read the account a step before its session
is issued, so it has to be bound as the session will be (`AccountTokenInv`: no later generation than the
account's, and of this generation only with the account's password), and an account that is registered
anew must have neither (`AccountNewInv`). `DeletedHasNothing` (`AccountGoneInv`) needs that a code that can
confirm belongs to who has not confirmed (`AccountCodeInv`).

*Imports.* The proof follows a file's bytes from the upload on: what a task stages it has uploaded, so what
a diff offers has its bytes whoever confirms it (`ImportStagingInv`).

*The archive.* The walk and tar read the same headers by different rules, and on an archive the walk has not
refused they read the same name from them for each entry (`WalkGivenInv`: of a long name and a pax record at
most one was given, and it is the walk's). So under every name the walk pins, tar has what the walk read:
nothing yet, a file of that digest, or the link the walk noted (`WalkSeenInv`; a directory that tar made of
a name since is kept apart, in `dirs`, and hides it only from the reader, `Reads`). When the walk resolves
its links, what it pins for one is the digest of a file that the links on disk lead to, in however many hops
(`WalkLeadsInv`). In the model tar follows as many links as there are names; the shortest way to the file
passes no name twice, so it gets there. Both readers are recursive functions: `StepsExist` and a least
counterexample stand in for an induction over the hops.

*Bodies.* The permits that requests hold and the shares that senders are charged are sums over the requests
(`BodyAddsUpInv`); each step moves one summand, and the other structure by as much.

*KLVs.* `ServedIsSound` needs to say what a check under way has: a row of a run no later than the last and,
while that run is the current one, the row still there and a KLV of that run (`KlvCheckInv`); and, for a
check that runs alone, that nothing has moved beneath it (`KlvAloneInv`).

### `Tasks`

For any number of versions of the builders, any finite set of needs, any pages and mishaps
(`TasksAssumption`):

| Theorem | Statement | Component |
|---|---|---|
| `HandedOut` | `Spec => []HandedOutIsBuilt` | `DerivedBuilds` |
| `KeptIsFresh` | `Spec => []KeptIsCurrent` | `StatsPush` |

What the web process answered, or remembers, is of the builders there are, and while the job lives every
row of it is built (`BuildWebInv`): a late outcome of an earlier lease is refused, and a build is undone
only with the inputs of a deleted job (`BuiltStays`). A build under way, the loop's or a reader's, is
forgotten, or was read after the last cut (`PushBuildInv`); so whatever is kept was.

### Sums and folds

`BodyBudget`, `RatingSweep`, `OpeningRacks` and `FairShare` add up over functions, and the operators that do
so are recursive by nature, where the library's induction theorems cannot be used (they take an operator
as parameter). `SumFacts` goes another way: of a statement that failed for some finite set there would be
a smallest set it fails for (`SmallestSet`), and taking an element away from that gives a smaller one. The
same argument gives `FairShare` its sorted orders and what the fold over a change's rows leaves
(`AppliesExist`, `AppliedIs`); of natural numbers there is a least one (`FirstNatural`), which gives
`ArchiveWalk` its ways along links (`StepsExist`).

## 7. What is only model-checked

* Liveness (`DoneJobLeavesDispatch`, `PurgeEnds`, `GenerationsEnd`, `RacksEnd`, `WaitsEnd`, `EveryAskShows`) is
  out of the prover's reach and stays with TLC, and so do the seven properties that do not hold.
* `IInv` of `ClaimLifecycle` is an invariant of its run. The other inductive invariants were checked with TLC
  on the instances of section 4 and are not part of the runs (of their type invariants only those whose
  sets TLC can decide).

## 8. What is not modelled

* **Lock order across all handlers.** Merge, dispatch, claim, task, contributor and job locks are taken by
  eight paths. The paths of `ClaimLifecycle` take theirs in the code's order, and its runs would stop if
  they waited on each other; seeding, merges and the close are in `LeaveGeneration` with their locks as
  guards; all of them in one waits-for model is the one item of the plan not begun.
* **A transition that outlasts the takeover bound** or its job's purge and re-run (section 6).
* **The match test's verdict** and the debounce of finish checks; they would make jobs finish earlier, or
  checks rarer.
* **Statistics** (`stats/`: SPRT, Bradley-Terry, outcome counts) and **plausibility** are floating-point or
  per-payload checks that keep no state.
* **The rate limiter**'s windows, small bodies and clients' addresses; **job templates** are caches of what
  never changes.
* **Pages, the audit log, configuration, start-up, the frontend, the worker's script, infrastructure**:
  input, output and wording.
