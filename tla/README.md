# Formal model of Athlos

Athlos is the administration system of a sports club: members and their legacy
records, the dues they owe, the treasury that collects them, and the jobs that
keep imported data fresh.  This directory holds TLA+ modules of its core logic,
the TLC configurations that check them, and theorems about them that TLAPS
proves.  Paths below are relative to the repository; `dues/` is short for
`apps/api/src/modules/dues/`.

## 1. Inventory

| Part | State it keeps | Operations | Why it is hard |
|---|---|---|---|
| Settlements and allocations (`dues/settlements.ts`, `dues/allocations.ts`) | `dues_settlements`, `dues_allocations`: append-only rows; the balance of an obligation is derived | pay a full selection, settle without cash, reverse | concurrent transactions at READ COMMITTED, row locks taken in different orders, retries under one caller key, balances read before the locks are granted |
| Condonations (`dues/condonations.ts`) | receipts and treatments | execute an approval | frozen snapshot against a moving balance, concurrent executions |
| Community work (`dues/community-work*.ts`) | work, settlement, receipt | execute an approval | same, with the outstanding balance as a floor |
| Approvals (`packages/approval/src/service.ts`, `routes/approval.ts`, `jobs/token-cleanup.ts`) | `approval_tokens` | create, decide, execute, mint and answer a link, page through the queue, clean up | idempotent creation under three different guards, concurrent decisions, expiry between two statements, pages over rows that change |
| Cash desk (`dues/cash-desk.ts`) | shifts, tenders, closes, transfers | open, ensure open, record, reverse, include and compensate an expense, close | a movement racing the close, the anchor of the next shift, 24-hour policy |
| Agreements (`dues/agreements.ts`) | chains of agreements | create, reschedule, revise | one active per obligation, concurrent revisions, a revision beside the execution of what was asked under the agreement |
| Generation (`dues/service.ts`, `dues/repository.ts`, `dues/generation-plan*.ts`, `dues/range-planner.ts`, `dues/benefits.ts`) | prices, receipts, obligations | preview and generate a month, preview and execute a range | a review that prices overtake, advisory locks that differ, the snapshot of REPEATABLE READ, proration and rounding |
| Job scheduler (`packages/scheduler`) | registry, running set, retry timers, `job_runs` rows | schedule, tick, run now, retry, stop, boot | callbacks between awaits, crash, shutdown window |
| Comprobante (`modules/socios/forms/ctacte-comprobante.ts`, `semaphore.ts`, `pdf-generator.ts`) | lease rows, a browser and a semaphore per replica | claim, heartbeat, complete, fail, acquire, release | lease take-over, a deadline that races the completion, crashes, slots handed on |
| Authentication (`services/auth.ts`, `login.ts`, `operators.ts`; `apps/web/src/lib/auth.ts`, `api.ts`) | operators, refresh tokens; the session of each tab, localStorage | login, refresh, logout, change password, deactivate, unlock; fetch with retry | two refreshes of one token, tabs that share a storage, overlapping login attempts, statements that are not one transaction |
| Notifications (`packages/notifications`) | notification rows | dispatch | check-then-insert dedup, a channel that fails |
| Import, promotion, projection | batches, promoted rows | run a batch | partial failure |
| Drift, freshness, lineage, audit, HTTP, web | none of their own, or append-only | reads | - |

They meet in the database.  A payment is one transaction over the ledger, the
cash desk and the audit log; an approval is decided in one transaction and
executed in another; jobs call the services from timers.

Each part, and what makes it correct:

- **Ledger.** The allocations of an obligation stay within its amount; a caller
  key has one effect; a payment is reversed once; a payment leaves nothing open;
  a condonation writes off what is open; every transaction ends.
- **Approvals.** What a decider was told is what the row says; a creation sent
  again finds its request; a link is answered once; a walk through the queue
  misses nobody; expired tokens are deleted.
- **Cash desk.** A close counts what its shift holds; nothing reaches a closed
  shift; an operator has one open shift; a drawer opens with what its last close
  left in it.
- **Scheduler.** Ticks of a job do not overlap; outcomes are not rewritten; no
  run is let go before it is settled; `stop()` ends.
- **Comprobante.** One document per key, whoever renders; a timeout that was told
  is final; every request ends.
- **Sessions.** A token is exchanged once; a deactivated operator gets nothing; the
  requests of a tab renew once; a lock is earned by failures.
- **Generation.** One obligation per member and month; receipts and obligations
  agree; what is charged is what was reviewed, to the cent.
- **Agreements.** One active agreement per obligation, at the end of one chain; work
  is done under the one in force.
- **Notifications.** One notification per event.

## 2. Plan

| Order | Module | Models | Composes | Status |
|---|---|---|---|---|
| 1 | `DuesLedger`, abstract `DuesAccount` | settlements, reversals, condonations, community work | - | checked, safety proved |
| 2 | `Scheduler` | scheduler, run tracker, host process | - | checked, safety proved |
| 3 | `CashDesk` | shifts, movements, closes | - | checked, safety proved |
| 4 | `Approvals` | requests, decisions, links, queue, cleanup | its execution is the `gate` of `DuesLedger` | checked, safety proved |
| 5 | `Sessions` | account, refresh tokens, tabs | - | checked, safety proved |
| 6 | `Comprobante` | lease, followers, deadline, semaphore, browser | - | checked, safety proved |
| 7 | `Generation` | previews, executions, prices, proration, benefits | its obligations are those of `DuesLedger` | checked, safety proved |
| 8 | `Agreements` | agreements, revisions | extended by `Approvals` | checked, safety proved |
| 9 | `Notifications` | check-then-insert dedup, channels | - | to do |
| 10 | `Treasury` | a payment with its tender, a reversal with its refund | ledger and cash desk | to do |

Every safety invariant and action property that a passing run checks is a theorem,
and so is the refinement of `DuesAccount`.  Each component has its proofs in a module
of their own, named after it; `SumTheorems` has the lemmas of the cash desk and the
generation on sums and on a pass over a finite set.  They are about the library's
operators and say nothing of Athlos, so none is listed as a result.  The theorems hold for every value
of the constants under the assumptions the modules declare, and therefore without
the bounds of the runs where these are constants that the assumptions leave open
(requests, keys, retries, rows, crashes, pages, the clock).

What stays with TLC:

- liveness: `EveryRequestAnswered` (ledger and cash desk), `StopEnds`,
  `GuardIsFreed` and `RequestsEnd`.  They rest on fairness and on ENABLED, which
  the prover does not handle;
- the violations: a counterexample is a behaviour, and TLC prints it.

None of the modules declares a RECURSIVE operator.  Induction over data is done by
the least counterexample: a finite set of sets has a member none of whose proper
subsets is in it (`SmallestSubset`), which is how `SumTheorems` shows that the
recursive functions of sums and of the benefits are defined at all and what they
compute.

## 3. The dues ledger

`DuesLedger` models the five requests that write on the obligations of a member:

| Kind | Code |
|---|---|
| `PAYMENT` | `createFullSelectionPayment`, `dues/settlements.ts` |
| `NON_CASH` | `create`, `dues/settlements.ts` |
| `REVERSAL` | `reverse`, `dues/settlements.ts` |
| `CONDONATION` | `executeApproved`, `dues/condonations.ts` |
| `COMMUNITY` | `executeApproved`, `dues/community-work-execution.ts` |

Each is one database transaction at READ COMMITTED, and a step is one statement
together with the code up to the next one.  `pc` is the statement a request is
at:

- `find`: the look-up of an earlier settlement under the caller key, without a lock;
- `gate`: `SELECT ... FOR UPDATE` of the approval, or of the settlement to reverse;
- `select` and `lock`: the statement of `selectFullOutstanding`.  It is two stages
  because PostgreSQL computes its sub-queries from the snapshot taken when the
  statement starts and only then waits for the rows.  A settlement inserts
  allocations and does not update the obligation's row, so nothing makes
  PostgreSQL evaluate the row again after the wait;
- `claim`: the INSERT of the settlement or receipt under its unique key, which
  waits for a concurrent transaction that holds the key;
- `write`: `insertAllocation` (which locks the row and computes the balance again),
  the compensations of a reversal, or the treatments of a condonation.

`net` and `treated` hold what committed transactions wrote; what a running
transaction wrote is in `take` and `written` and reaches the tables at `Commit`.
`claim` holds uncommitted keys too, because others wait for them.  `Rollback` is
any statement that fails, the audit insert and the cash tender included.
`Deadlocked` is PostgreSQL rolling back a member of a cycle.

`DuesAccount` is what the ledger promises: one atomic entry per key, a payment
that clears what it selects, a settlement that takes at most what is open, a
reversal that gives back a whole payment once, and a condonation that writes off
its frozen amounts.  That those amounts are still open is *not* promised, see
the run `condonation`.

**Runs.** `ledger` (17,347 states) checks two obligations of one and two cents,
three requests and eleven mixes of commands.  Two obligations are what a lock
order needs to be wrong; two cents let a free settlement take part of a balance;
three requests are a writer, its retry or its reversal, and a competitor.  The
mixes stand for the pairs of kinds that meet on an obligation; requests start in
any order and at any time.  It checks the type invariant and

- `NetWithinAmount`, `AllocationsNeverOvercover`, `FullPaymentClears`: balances
  under stale snapshots and partial writes;
- `OneEffectPerKey`: keys and reversals;
- `SortedRequestsNeverDeadlock`: cycles need a non-cash settlement or a reversal;
- `EveryRequestAnswered`: no request hangs;
- `ImplementsAccount`: the refinement.

`condonation` is a violation: `CondonationIsExact` fails.  A non-cash settlement
holds the row; the condonation's SELECT starts, takes its snapshot, and waits; the
settlement commits; the condonation finds its frozen amounts equal to balances
that are gone, and writes treatments larger than what is open.

**Fairness.** `WF(Progress(r))` for each request: a started transaction takes its
next statement, is granted a row that stays free, or is broken out of a deadlock.
Nothing obliges a client to send or a transaction to fail.  Deadlock checking is
off because the clients may have nothing left to send.

**Proofs** (`DuesLedgerProofs`, for any obligations, amounts,
requests, keys and commands).  `TypeInvariant` is first.  `NetWithinAmount` is not
inductive: a reversal subtracts what a payment added, so one must know that the
payment is committed and reversed by nobody else; and what a request is about to
add was compared with a balance that others may have changed since.  `LedgerInv`
is the conjunction of

- `KeyInv`: the claimant of a key has it, is past its claim, or is committed;
- `LockInv`: who has written on an obligation holds its row;
- `ReversalInv`: a running reversal holds the row of a committed payment that no
  committed reversal names, and takes its amounts;
- `MoneyInv`: `NetWithinAmount`; `RoomInv`, what a request has written still fits
  beside what is committed (under its row lock); `PaidInv`, a payment that is not
  reversed leaves nothing open and is alone on its obligations; and `SeenInv`, a
  balance read before the locks can only be too high, by what one such payment took.

`LedgerInvStep` proves it preserved action by action; `NetStaysWithinAmount`,
`KeysAreUsedOnce`, `AllocationsFit` and `PaymentsClear` follow from it.

`SortedRequestsProceed` states `SortedRequestsNeverDeadlock` for any number of
requests.  `WaitInv` adds to the invariant who holds what while it waits: rows only
from the locking SELECT on, only of what is selected, and for a request in `lock`
only rows with smaller ids than those it still has to lock; a gate only past it.  In
a cycle everyone would then be waiting for a row.  Take the one that waits for the
least id: whoever waits for it waits for a row it holds, which has a smaller id
still.  A reversal or a non-cash settlement breaks the argument because its `rank`
is not the order of the ids.

`LedgerIsAnAccount` is the refinement.  The mapping reads the entry of a key off its
committed claimant; a step that is not a commit leaves every entry (`EntriesStand`),
and a commit adds one (`EntryCommits`) that meets the guard of the account's action: a
payment by `MoneyCommits`, a settlement by `RoomInv`, a reversal by `ReversalInv`.
`TakeInv` bounds what any request takes by the amounts, as the account's entries are.

The assumptions are those `DuesLedger` declares: obligations are naturals (the order
of their ids), amounts are positive, `None` is no request, no key and no entry, and a
workload gives each request a command.  Model-checked only: `EveryRequestAnswered`.

## 4. The job scheduler

`Scheduler` models `packages/scheduler` (`scheduler.ts`, `run-tracker.ts`) and the
process around it (`jobs/register.ts`, `index.ts`).  There is one event loop: what
lies between two awaits is a step, and an awaited statement on `job_runs` is a
step together with the continuation that follows its answer.

| State | Code |
|---|---|
| `phase`, `boots` | the process: booting, up, in `stop()`, after it (drained, expired, or `stop()` threw) |
| `sweep` | `reconcileOrphanedRuns`, raced with two seconds at boot, so it may land late |
| `task` | the node-cron task of an entry; `def.enabled` is true exactly while there is one |
| `guard` | `runningJobs` |
| `row` | `job_runs.status` |
| `stage`, `call` | where `executeFromRow` is with a row, and its arguments |
| `awaited` | the promises `stop()` waits for |
| `tries`, `hit` | history: calls of the handler, rows a statement of which failed |

A failing statement has no effect on its row.  For the first attempt of a tick
`execute` catches what is thrown; for manual runs and retries nobody does, and
Node.js ends the process on an unhandled rejection (`WorkRejects`).  The two
successful results of a handler are one.  Registration happens at boot only, as
in `jobs/register.ts`.

**Runs.** `scheduler` (481,819 states): a cron job and a manual one, two rows,
`MaxAttempts` 2 (the code has 3: two give a first and a last attempt), two boots
(one crash or restart between them) and one row hit by failing statements.  Two
rows are what an overlap, or an outcome rewritten by another's step, needs.
`TicksNeverOverlap`, `DeadLettersWereTried`, `OrphansAreMarked`, `DrainLeavesNothing`, `OutcomesStand`, `RunsAreNotDropped`,
`StopEnds` and `GuardIsFreed` hold.  `overlap` is a violation:
`openspec/specs/scheduler-jobs/spec.md` says that a tick is skipped while the
job is running, but manual runs and retries are not in `runningJobs`.

**Fairness.** Weak fairness of the database's answers, of the retry timers and of
the stop timer.  None of handlers, whose time is their own: `GuardIsFreed`
assumes, inside the property, that they end.  `CHECK_DEADLOCK FALSE`: after the
last boot the process may be down for good.

**Proofs** (`SchedulerProofs`, for any jobs, runs, numbers of attempts, boots and
faults).  `Inv` is `TypeOK` with `RunInv`, which relates where a run is (`stage`) to
its row, its attempt and the calls its handler has had; `GuardInv`, the first attempt
of a tick holds its job in `runningJobs` alone, from before the insert of its row;
`ProcessInv`, nothing runs before the process is up and all that runs while it drains
is awaited; and `OrphanInv`, a row that is `running` after the reconciliation is
being worked on, unless one of its statements failed.  `TicksNeverOverlap`
needs the whole interval in which the job is held, and not only the handler's call:
that is what makes `GuardInv` more than the property.  `DeadLettersWereTried`,
`OrphansAreMarked`, `DrainLeavesNothing`, `OutcomesStand` and `RunsAreNotDropped` follow.
Model-checked only: `StopEnds` and `GuardIsFreed`.

**What the model shows beside its properties.** Rows left `pending` by a crash
are not reconciled (`run-tracker.ts:131` updates `running` only), and a retry timer
lost with the process is not armed again.  Neither contradicts a document, so
neither is stated as a property.

## 5. The cash desk

`CashDesk` models `dues/cash-desk.ts`: requests that open a shift (`ensure`,
`open`), record a movement (manual, of a settlement, or of an expense), reverse a
manual one, refund a settlement (`undo`), document a movement (`support`), close
a shift, and compensate an expense of a closed one (`compensate`, which is `POST
/gastos` in `routes/admin/gastos.ts` with the insert it makes in `cash-desk.ts`).  A request is one transaction (two for `ensure`: its own look-ups,
then that of `open`).  Stages are the look-up of a replay or of an open shift
(`find`), the reading of the anchor (`anchor`), the look-ups of `open` (`prior`),
the row locks (`shift`, `move`), in the order of each operation, and the writes
with their commit (`insert`, `write`).  Between the last row lock and the commit
a transaction reads only what its locks protect, so its writes are one step; a
failure among them is `Rollback`.  The unique indexes and the triggers of
`packages/db/drizzle` are the guards of the writing steps (`Opens`, `Accepts`,
`FreshSource`).

Money is in cents; a movement is worth one, zero (a card) or minus one.  A key is
a pair of its operator and a number, and stands for the row it creates.  Time is
the flag `expired`, for twenty-four hours gone by, and the order of the closes.

**Runs.** `cashdesk` (217,421 states): an operator with two shifts and an
administrator, three keys of movements, two requests at a time and thirteen calls,
any of which is sent again and again.  Two concurrent requests are every pair
that can meet on a shift; the calls around one movement are all that can touch
it.  `ClosesAreComplete` and `ClosedIsFrozen` say that closes and movements do not
pass each other; `TypeOK`, which holds the one open shift of an operator, and
`ReversedOnce` that racing calls have one effect; `EveryRequestAnswered` that the two lock orders (`recordSupporting` and
refunds lock the movement first, `reverseTender` the shift) end in a rollback and
not in a standstill.  Here fairness is strong, because a lock is free again and
again while others use it and PostgreSQL queues those who wait.

`drawer` is a violation of `DrawerCarriesOver`: `ensureOpenShift` anchors on the last
close that the operator *executed*.  When an administrator closes the shift, what
that close left in the drawer is not in the next opening; when the operator had
closed an earlier shift, its remainder is opened again although it has been swept.

**Proofs** (`CashDeskProofs`, for any operators, keys, requests and calls).  `Inv` is the
types, `OneOpen`, `RequestInv`, `ReversalInv` and `ClosesAreComplete`.  A close is complete
because what it counted (`seen`) is still the sum of its shift when it writes: `RequestInv`
says that a request that is about to write holds the lock of its shift, that the
movement it is about is recorded in that shift, and that a close has the present sum.
Every step of another request then has to leave the sum of a locked shift alone.
`ReversalInv` makes a reversed movement have one reversal, of the same shift and of the
opposite cash.  The sum is `SumFunction` of module Functions, recursive on finite sets;
`SumTheorems` proves by the least counterexample among the subsets of a finite set that it
is defined, is an integer, and depends on the values only.  `RowsFitAndOneIsOpen`,
`ClosesCountEverything`, `MovementsAreReversedOnce` and `ClosedShiftsStand` are the
theorems.  Model-checked only: `EveryRequestAnswered`.

**Not a property, and worth knowing.** A shift whose computed cash is negative
when its twenty-four hours end can be neither corrected (`assertWithinPolicy`
refuses movements) nor closed (`dues/cash-desk.ts:1234` refuses, forced or not), and
the index on open shifts keeps its operator from opening another.  One settlement
can be brought as a tender of two shifts, since the source index is per shift.  The
close compares `created_at`, the database's clock, with bounds of the application's.
`includeExpense` reads the amount of the expense without a lock
(`dues/cash-desk.ts:1025`) and does not ask whether it is annulled; an edit of the
expense that commits between that read and the inclusion is not seen by the
trigger of migration 0056, and the movement keeps the old amount.  An expense may
be compensated twice under two keys: the only index is on operator and key.

## 6. Approvals and agreements

`Approvals` models the rows of `approval_tokens` (`packages/approval/src/service.ts`,
`routes/approval.ts`, `jobs/token-cleanup.ts`): requests for a condonation or for
community work, created under a caller key, decided by a treasurer who is not the
requester, and executed; links that a second person answers once; the queue read
page by page; the nightly cleanup.  A step is one statement with the code up to
the next.  `call[c].pc` is the statement a call is at, `work` the row it has
written and not committed, which holds the row (`Busy`), `debt` and `deal` the
obligation and the agreement it has locked, `owed` what `selectFullOutstanding`
read before it waited for the lock.

`Agreements`, which `Approvals` extends, has the calls that make and revise
agreements (`dues/agreements.ts`) and what both modules know of an obligation: it
owes its whole amount, is `paid`, or is `condoned`; parts of an amount, and how it
is extinguished, are in `DuesLedger`.  A creation locks the obligation in its
BEFORE INSERT trigger; a revision locks the obligation, then the agreement; an
execution of community work locks the approval, the agreement it was asked under,
then the obligation.  After its last lock a revision or a creation is one step:
everybody who could see its statements one by one needs a lock it holds, and a
concurrent call with the same key about another obligation is refused whether it
meets the key or the unique index.  Terms are `money` (a plan with an amount) or
`open`; the validation of their content keeps no state and is left out.

Three guards keep a creation that is sent again from opening a second request: the
look-up of the route, the look-up of the service, and, for condonations only, the
unique index of migration 0063.  Community work has no index; the lock on the
obligation, held from before the second look-up to the commit, is what orders two
creations.  `DecideUpdate` evaluates its WHERE on the row as committed once it is
free; a lost race is answered by `DecideReread`.

**Runs.** `approvals` (1,958,992 states): twenty scenes of three calls: a request, its
retry and another under its key; two treasurers and the execution; a change of
mind; a retry from another session; the queue under creations and decisions; a
link answered twice; then work under an agreement that is revised, or whose debt is
paid; a request under an agreement that is revised; two revisions and a retry; two
agreements about one obligation; one key for several.  Three ids, a clock of five
units, requests that live two and links that live one: the clock passes every
expiry and the retention.  Pages of one row make every cursor matter.  Three calls
are a call, its rival and a retry of either.  `AnswersAreOnRecord`,
`RetriesFindTheirRequest`, `AgreementsFormOneChain`, `WorkUnderActiveAgreement`,
`LinksAreAnsweredOnce` and `WalkSeesEachOnce` hold.  `cleanup` is a violation of
`ExpiredTokensAreDeleted`, which `openspec/specs/scheduler-jobs/spec.md` states: the
job is one DELETE, and a single executed request, whose receipt refers to it ON
DELETE RESTRICT, refuses the whole statement every night from then on.

`RetriesFindTheirRequest` says that two creations that asked the same under one key and
were answered were told of one request, *as long as it exists*.  The restriction came
out of the proof: a request that has expired is deleted, and a retry that comes
afterwards opens another, which a clock of four units is too short to show and one of
five shows.  Deleting it is what `token-cleanup.ts` is for.

**Proofs** (`ApprovalsProofs`, for any calls, ids, lives, retention, page size, clock and
scenes).  Four invariants, each proved with the ones before it:

- `CallsInv`: the places in the code a call can be at, by what it asks for, and that
  its command is one the routes let through;
- `AgreementsInv`: `Lineage`, the agreements of an obligation form one chain by `of` and
  `number` with at most one active, and a call that was told of an agreement finds
  it under its key;
- `RowsInv`: a row is one that the code writes (`Written`), a row that is being
  written has one writer (`OneWriter`), and `WorkInv`: what a call is about to commit
  still follows from the committed row, because `Busy` has kept others from it, and
  what a call was told is on record until the row is deleted;
- `LocksInv`: an obligation and an agreement have one holder, what a creation found
  before its insert is still so while it holds the obligation, and no two committed
  requests were asked under the same key for the same thing.

`LineagesAreChains`, `RowsAreWellFormed`, `AnswersStayOnRecord`, `LinksAreSpentOnce`,
`RetriesAreOneRequest` and `WorkIsUnderActiveAgreement` follow.  The proof of
`RetriesAreOneRequest` does not use the unique index of migration 0063: the lock on
the obligation is enough for condonations too.  `WorkIsUnderActiveAgreement` needs that
the executor holds the agreement between its check and its commit; the check alone
is not stable.  `WalksAreComplete` has its own invariant, `WalkInv`: what was in the
queue when the walk began and is still actionable has been seen or lies after the
cursor, and no page shows a row of another.  `ScenesAssumption` and `BoundsAssumption` are what
the proofs take: stores and agreements a scene starts with are such as the code
leaves behind (well formed, finite, in chains, one request per key), and commands are
such as the routes let through.

**Fairness.** Weak fairness of `Cleanup`: the scheduler runs it every night.  Nobody
else has to do anything.

**Worth knowing.** A link that is read just before its expiry is used after it
(`AnswerUse` does not ask again).  An approver who rejects through a link sets the
status to `approved` as well.  A refused insert (23505) has aborted the transaction,
so the look-up that is meant to recover from it fails.  The retry of a community
creation that overlaps its original is refused with CONFLICT, because the
fingerprint holds a key drawn at random by each call.  The executed work of a
community request is answered again to any treasurer who asks, a condonation only
to the one who made it (`Replayed`).

The trigger that bounds a new agreement (migration 0058, line 13) runs before ON
CONFLICT looks for the key: the retry of a creation is refused once the debt has
shrunk below the plan, although
`openspec/specs/agreement-contract/spec.md:51` promises the original result of a
completed request.  The same trigger does not look at treatments: a plan may be
agreed about a debt that is condoned (`Excessive`).  A request made without an
agreement is executed whatever agreement there is by then.  A revision and an
execution lock the obligation and the agreement in opposite orders: PostgreSQL
fails one of them (`Rollback`), a revision with CONFLICT, an execution with an
internal error.

## 7. Sessions

`Sessions` models the account of one operator (`services/auth.ts`, `login.ts`,
`operators.ts`), the refresh tokens, and the tabs of a browser
(`apps/web/src/lib/auth.ts`, `api.ts`).  `mem` is what a tab keeps in its module
scope, `store` the localStorage its tabs share, `flight` the promise
`refreshInFlight`.  A pair is an access token with the refresh token it came with.
`apiFetch` sends (`Send`), joins a refresh that is in flight or starts one (`Join`,
`Refresh`), and tries once more; `apiFetchBlob` starts its own.  The server's
statements are steps: `RefreshFind`, `RefreshOperator`, `RefreshRotate` (one
transaction), `LoginRead`, `LoginWrong`, `LoginGrant`, and the two statements of a
deactivation.  Expiry of access tokens, refresh tokens and locks is a choice made
at any time.

**Runs.** `sessions` (1,574,874 states): two tabs and eleven scenes of three calls,
which put together requests of one tab and of two, logouts and revocations, the
two ways to close an account, and attempts to sign in; two failures lock (the code
has five; two are an attempt that locks and one that does not), three pairs.
`RotatedOnce`, `DeactivatedGetsNothing`, `FetchesDoNotCollide` and `LocksAreEarned` hold.
`refresh` is a violation of `RefreshesDoNotCollide`: `api.ts` says that
`apiFetchBlob` has the single-flight refresh of `apiFetch`, and it has none, so a
download and a request may spend one token and the loser clears the session.
There is no fairness; nothing here is said to happen.

**Proofs** (`SessionsProofs`, for any tabs, finite set of calls, threshold and number of
pairs).  `Inv` has the types; `Bounded`, a pair that is named has been issued;
`PairInv`, a token that was exchanged is revoked; `FlightInv`, `refreshInFlight`
of a tab is a refresh of its own that is on its way, and whoever waits has one to
wait for; `AccountInv`, attempts and locks are bounded by the failures so far, and an
active account has no late grants; and `CallInv`, a request presents one token in its
life and the token of one that has a pair was spent by it.  `RotatedOnce` needs the
last: that the conditional UPDATE succeeds once says nothing of a call that has
forgotten which token it sent.  All five invariants of the run are theorems, without
fairness and without a bound on calls or pairs.

**Worth knowing.** The console's logout sends no Authorization header to a route that
requires one: it is refused, and the refresh token stays valid until it expires.  A
refresh that is answered after a logout brings the tokens back.  A refused or lost
refresh in one tab clears the storage of all.  `updateOperator` with `isActive`
revokes no token; `LetIn` is what stops them.  Attempts to log in that overlap
overwrite each other's counters, so more failures than five may be needed, never
fewer.  A page loaded again while a call is on its way is left out; the profile and
its permissions are data.

## 8. Receipts of the current account

`Comprobante` models one Idempotency-Key (`ctacte-comprobante.ts`): the row and its
lease, requests on two replicas, and in each replica the browser
(`pdf-generator.ts`) and the semaphore of its pages (`semaphore.ts`), which the
forms share (`emit-form.ts`).  `call` is `renderComprobante` of each request, `task`
the render it races with its deadline and may leave behind.  The four statements
of `claim` are steps of their own.  A document is known by who rendered it.  A
lease, a retention and a deadline may run out at any time; a crash loses the
requests, tasks, slots and browser of a replica.

**Run.** `comprobante` (83,647 states): a receipt with a retry on the same replica, on
the other, a different request under its key, or a form that wants its page; one
page per replica (the code has three; one is where waiters queue), two successive
rows of the key, one crash.  `OneDocumentPerKey` and `TimeoutIsFinal` hold across
take-overs, late completions and replays; `RequestsEnd` is liveness: no follower
waits for an owner that died and no task for a page given back.

**Fairness.** Weak for statements, and for the render, which puppeteer's own time-outs
end; strong for `WakeLate`, since a follower that goes on sleeping sees its deadline.
None for `Heartbeat`, `LeaseExpires`, `RetentionEnds` and `Crash`.

**Proofs** (`ComprobanteProofs`, for any requests, replicas, capacity, rows and crashes).
`PagesInv` counts the slots of a semaphore: active tasks are those that print, there
are waiters only when it is full, and the queue is exactly the tasks that wait.
`RowInv` says what the status implies of the owner and the document, and that both
asked for what the row was inserted for.  `IssueInv` is the strengthening of
`OneDocumentPerKey`: a document counts from the moment a task has saved it, under
the number of the row it was rendered for, and the row keeps it as long as it is
that row.  `ExpiredInv` is that of `TimeoutIsFinal`.  `RowsAndPagesFit`,
`RowsHaveOneDocument` and `TimeoutsAreFinal` are the theorems.  Model-checked only:
`RequestsEnd`.

**Worth knowing.** The claim that follows a lost time-out may itself be given the
lease, and nobody renders for it until it runs out.  `init` keeps a failed launch
for ever, so every later render of the process fails (`browser = "broken"`).
`expires_at` is set by the INSERT alone: a row reclaimed a day later completes
already expired, and is purged.  A heartbeat that lands after its request has ended
is left out.

## 9. Generation

`Generation` models the charging of the monthly dues: previews of a month for
everybody (`repository.ts`, `generation-plan*.ts`) and of a range of months for one
member (`service.ts`, `range-planner.ts`), and the transactions that execute what was
reviewed.  `price` is what may change meanwhile; `preview` holds the plan an operator
was shown, whose digest the execution is sent with (the digest is the plan);
`call[r].view` is the snapshot of a REPEATABLE READ transaction, fixed at its first
statement, the insert of the receipt.  `ClaimReceipt`, `Lock`, `ReadPrices`, `Replan`,
`Insert` and `Finish` are the statements.  The planner is operators.  What is charged by the day is a *life*: the base, from the
day the member joined, and each enrolment, which has an id, because a member may be
enrolled twice in one sport (`inscripciones_unique` is of a sporting year) and both
stints are charged.  `Component` cuts the days of a life at the boundaries of the
prices (`Bounds`, `Intervals`), adds days times cents where one version covers the
interval (`Charged`, `Numerator`) and rounds once; `Applied` takes the benefits in
order of priority.  A percentage is in hundredths of a percent, as its column
`numeric(5,2)`, and rounding it is exact: that the code multiplies doubles is left
out, like amounts beyond the safe integers, which the planner refuses.

**Run.** `generation` (217,433 states): two months of four days, two members (one
joins in the middle of a month and plays in two stints of equal length that meet on
the boundary of a price), five price versions of which three are
live at first and three edits may follow, percentages and fixed discounts in an
exclusive group, six scenes of two executions (a retry, the same month by another
operator, a range under the month's key and beside it), one failure.
`ChargesAreAccounted` says that obligations, receipts and answers agree and that a
member is charged once a month; `ChargesAreExact` recomputes each charge day by day
from the prices that were reviewed.  There is no fairness, and no liveness is stated.

`receipt` is a function on the keys that have one, so a receipt that is not there has
no contents.

**Assumptions on the constants.** They say what the tables admit, and no more: a catalogue is
finite and its amounts are not negative (`dues_price_versions_amount_check` of `0049`),
prices and enrolments are of days, values of benefits are not negative
(`dues_benefit_rules_value_check` of `0050`), ids are primary keys and no enrolment's key is
that of the base, a scene refers to previews of its requests, and a body is a month
for everybody or months of a member of the roster.  Prices of one kind may overlap
and enrolments too, an interval may be empty, two rules may have one priority, an open end is
a day past the months that matter.

**Proofs** (`GenerationProofs`, for any members, prices, enrolments, benefits, bodies and
failures).  `ChargesAreExact` compares two computations that have little in common: the planner
works in intervals between sorted boundaries, the property in days.  The argument has three
parts.

- *Components* (`ComponentIsByTheDay`).  Nothing begins or ends inside an interval, and
  every eligible day is in one and in no other (`IntervalsOf`), so on all the days of an
  interval the same versions run, those that meet it (`SamePricesOnItsDays`).  Its
  numerator is therefore the sum of what its days cost (`NumeratorIsByTheDay`), and the
  intervals, which partition the days, add up (`IntervalsAreByTheDay`, from `SumOfGroups`).
  `RoundedIs` says that rounding half up with a remainder is one quotient of the double.
- *Benefits* (`AppliedIsReckoned`).  `Reckoned` is the invariant of the loop of
  `applyBenefits`: what is left is the gross less the discounts so far, each of a rule
  gone through, and a rule with a discount has taken its group.  `ApplyReckons` is its step
  and `Passes` of `SumTheorems` the pass.
- *Plans* (`PlansAreSound`).  Lives that a plan leaves out have no day in the month, two lives
  have two keys, and discounts are negative where costs are not, so an entry that is ready is
  exact (`ReadyEntryIsExact`) and a plan has one for a member and a month.

Of the executions the invariant then says, and TLC has checked of it on the run: what is
shown is sound (`PlanInv`); a receipt tells what the review of its execution had ready
(`ReceiptInv`); the obligations are those of the receipts (`ChargesInv`); whoever holds the
receipt of a key is alone with it, and rows that are inserted and not committed are
nobody else's (`HoldInv`), which is where the unique index comes in.
`MonthsAreChargedOnce` is `ChargesAreAccounted`, `ChargesAreExactAlways` is `ChargesAreExact`,
and `ReceiptsChargeWhatWasReviewed` is what both rest on.

**Worth knowing.** `lockPeriod` and `lockRange` use different keys, so the unique index
alone separates a generation from a range.  A generation that has waited for the
lock of its month still has the snapshot from before, so it ends in a serialization
or uniqueness error and not in the CONFLICT of the comparison; the test
`repository.postgres.integration.test.ts:180` runs at READ COMMITTED, where both
succeed.  `FULL_MONTH` is prorated by day like the rest, and `NEXT_PERIOD` always blocks.

## 10. Not modelled

The map covers the code that decides something, which is a small part of the
repository's lines.  What it leaves out is of these kinds:

- **Presentation.** The pages and components of `apps/web` render what the API
  answers and keep form state; only the session they share is modelled
  (`Sessions`).  The templates and styles of the printed forms likewise.
- **Stand-ins for tests, fixtures, gates and smoke scripts** (`test-standins`,
  `qa-001-gate.ts`, `*.test-support.ts`).
- **Declarations.** The tables of `packages/db/src/schema` and the validators restate
  what the migrations and the routes do; the constraints that carry behaviour are
  modelled from the migrations.
- **Conversion of legacy files** (import, promotion, projection, padrones): long
  field-by-field mappings whose correctness is about data and not about order.
- **Reads and reports** (lists, details, drift, freshness, lineage), except the pages
  of the approval queue, whose order matters.
- **Parts with behaviour that are not reached yet**: notifications
  (`dispatcher.ts:129` looks for a duplicate and then inserts, without an index), the
  current-account projection and its attachments, the edits of rosters, benefits and
  expenses, the fenced lease of the evidence jobs.

Everywhere, fingerprints are what they compare and not their hashes, the clocks of
application and database are one, and the inputs are those the routes let through.

## 11. Running it

In this directory, `tlc -config <cfg> <module>` with

| Module | Configurations |
|---|---|
| `MCDuesLedger` | `ledger.cfg`, `condonation.cfg` (violation) |
| `MCScheduler` | `scheduler.cfg`, `overlap.cfg` (violation) |
| `MCCashDesk` | `cashdesk.cfg`, `drawer.cfg` (violation) |
| `MCApprovals` | `approvals.cfg`, `cleanup.cfg` (violation) |
| `MCSessions` | `sessions.cfg`, `refresh.cfg` (violation) |
| `MCComprobante` | `comprobante.cfg` |
| `MCGeneration` | `generation.cfg` |

and `tlapm <module>` for the proofs: `DuesLedgerProofs`, `SchedulerProofs`, `SumTheorems`,
`CashDeskProofs`, `SessionsProofs`, `ComprobanteProofs`, `GenerationProofs` and
`ApprovalsProofs` (12,191 obligations in all; the last takes several minutes).
