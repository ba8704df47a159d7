# Security marketplace: TLA+ specifications

Specifications of the NestJS backend in `src/security-backend-nest`: guards apply
for jobs and are hired, work shifts, and their timesheets are reviewed, paid and
billed to clients. The modules model the parts where concurrent HTTP requests
meet the same database rows, and the arithmetic of pay and billing. Paths below are relative to
`src/security-backend-nest/src/` unless they start with `src/`.

## 1. The system

A stateless Node.js server runs any number of HTTP requests at once. All state is
in PostgreSQL, reached through TypeORM at the default isolation level, READ
COMMITTED. Two styles of code write it:

* **Transactions** (`dataSource.transaction`) that lock rows with
  `SELECT ... FOR UPDATE`, check what they locked, write and commit. Hiring,
  creating payroll and invoice batches, and submitting, resubmitting and
  correcting weekly approvals are of this kind.
* **Load, decide, save.** Everything else loads an entity, checks it, assigns
  fields and calls `save()`. TypeORM's `save()` selects the row again, compares it
  *with the loaded entity* column by column (and for a loaded one-to-many relation
  member by member), and updates whatever differs. A stale entity therefore writes
  back old values, also in columns the request never meant to change.

The second style next to the first is what makes this system hard, and every
module models `save()` as its own sequence of steps: load, compare, write.

### Components

| Component (source) | State | Operations | Hard behaviour | Correct when |
|---|---|---|---|---|
| Hiring: `job-application`, `job`, `assignment` | application status, assignments and their link, job status | apply, hire, review | hires race for the last place; stale reviews; duplicate application; partial failure | no job over capacity; job status agrees with assignments; decisions final |
| Timesheets: `timesheet` | approval, approved duration, payroll and billing columns | submit, review, correct, update payroll status | stale saves beside transactions | pay and bill columns change only through their batch |
| Payroll batches: `payroll-batch` | batch status, membership of timesheets | create, finalise, pay | overlapping selections, lock order, two settlers, crash between two saves | only eligible rows join; a draft is not paid; paid once |
| Weekly approval: `client-weekly-approval` | request status and version, lines per version, disputes, layer-5 corrections | submit, approve, dispute, resolve, correct, resubmit | client, company and timesheet edits at once; resolve in three saves | one active line per timesheet; lines bill current hours; only pending weeks are approved |
| Invoice batches: `invoice-batch`, `payment-record` | batch status, number, payments, billing columns | create, finalise, issue, pay, record payment | as payroll, plus invoice numbers and overpayment | a timesheet invoiced once; numbers unique; not overpaid |
| Attendance: `attendance` | events, shift and assignment status, actual times | check in, check out | three saves without transaction, retried calls | retries add no event; no stuck shift |
| Shifts: `shift`, `availability`, `leave` | shift status, guard, time, its timesheets | create, edit, remove, offer, respond | availability checked, then inserted; stale saves; timesheets saved after the shift | no double booking; the timesheet follows the guard |
| Alerts and scheduler: `safety-alert`, `scheduler`, `notification`, `daily-log` | alerts, welfare checks, notifications, automatic batches | log, find overdue, raise, acknowledge, close, remind | a scan that reads on while guards act, and may be cut short | every lapse alerted, once, and only lapses |
| Screening: `screening` | screening status, checks, references | submit, review, verify, complete | status saves beside one transaction | no vetting from a stale review |
| Reference data and access: `company*`, `client*`, `site`, `user`, `auth`, `guard-*`, `compliance` | accounts, sites, documents | CRUD, permission checks | little: one row per operation | checks refuse |
| Calculation: `pay-rule`, `contract-pricing`, `finance` | pay rule, contract rules, frozen amounts on the timesheet | pay and billing arithmetic, freezing | boundaries; minutes and rules that change between the freezes | longer pays no less; frozen amounts can be recomputed and add up |

**Interaction.** Hiring calls compliance, availability, company-guard and shift
services, part of them inside its transaction. A shift's attendance updates the
assignment and the timesheet. An approved timesheet is claimed independently by a
payroll batch and by a weekly approval line; an invoice takes only timesheets whose
line the client approved, and locks the week when all its lines are invoiced. All
of these share the rows of `timesheets`.

`src/security-backend` (older backend), `src/security-mobile-app` (Expo client),
`src/download-site`, the backup drills and the release scripts keep no state these
operations rely on.

## 2. Modules

| Module | Models |
|---|---|
| `JobCapacity` | what hiring promises about one job, with no request or lock in sight (abstract) |
| `InvoiceLedger` | what invoicing promises about a company's books, with no clerk, payer or `save()` in sight (abstract) |
| `Hiring` | apply, hire, review on applications, assignments and jobs |
| `Payroll` | timesheet review and payroll batches |
| `WeeklyApproval` | weekly approval, its client portal, and its meeting points with timesheet edits and invoices |
| `Invoicing` | an invoice batch from its creation on: number, amounts, status, payments |
| `Shifts` | the rota: creating, editing, removing and answering shifts, and their timesheets |
| `Duty` | booking on and off, welfare checks, and the scan for overdue ones |
| `Pricing` | what a timesheet pays and bills, and when either is frozen |
| `HiringProofs`, `PayrollProofs`, `WeeklyApprovalProofs`, `InvoicingProofs`, `ShiftsProofs`, `DutyProofs`, `PricingProofs` | theorems about each |
| `LedgerProofs` | `Invoicing` implements `InvoiceLedger` |
| `MCHiring`, `MCPayroll`, `MCWeekly`, `MCInvoicing`, `MCShifts`, `MCDuty`, `MCPricing` | instances for TLC |

Operators named `X_Something` with the comment *Seeded fault* are variants of the
operator `X` that follow them. They are part of no specification; they show that a
property notices the bug it is there for.

### Hiring

A request is a process with a program counter `pc`. `CheckApplication` /
`InsertApplication` are the two statements of `createForGuard`. A hire is
`PreflightHire` (checks outside the transaction), `LockJob` (lock, read again, count
places), `SaveApplication` (the first write, which holds the row), and `CommitHire`
or `RollbackHire`. Writes of a transaction become visible at its commit. A review is
`LoadReview`, `DiffReview`, `SaveReview`; the loaded list of assignments matters,
because `save()` unlinks an assignment that was linked since and links again one that was
unlinked (`diff.unlink`, `diff.relink`). `CheckIn` and `CheckOut` are what attendance does
to an assignment; it is one step here.

Left out: `hiredAt`, permission checks, notifications and audit rows, the optional
shift (it may make the transaction fail: `RollbackHire`). The system starts empty. Its jobs are
those created open: `job.service.ts:39` and `:131` store any status a company sends
(`create-job.dto.ts:28`), so that a job may start filled with free places, but nobody can
apply to a job that is not open, and what the properties say of jobs they say of open ones.

### Payroll

A create request locks its rows one by one in id order (`LockRow`), reads and checks
them (`CheckSelection`), and commits batch and rows together. An *editor* is a request to
`timesheet.service`; `LoadRows` with one of the edits puts the rows it wants into
`entity`, `DiffRows` is the comparison in `save()`, `SaveRows` the UPDATE, which waits for
locked rows. A *settler* finalises or pays a batch: two saves in a row, the first of which
also re-asserts the batch's loaded membership (`SaveBatch`), the second the timesheets.
`Abandon` is an error or the end of the server process between them.

Row data: approval status, whether there is an approved duration, payroll status, batch,
whether pay is frozen. `payrollIncludedAt` and `payrollPaidAt` follow the payroll status.
An UPDATE of several rows is one step that waits for all of them.

### WeeklyApproval

A *biller* runs the transactions: `Begin...` is what is read before the lock, `LockRows`
locks all selected timesheets, reads and checks them, `Commit...` writes. Resubmission has
two further steps because its UPDATE of the active lines, its inserts and its `save()` of
the request read at different moments (`Supersede`, `InsertLines`, `CommitResubmit`).
*Clients* approve or dispute, a *resolver* resolves disputes in separate saves, an *editor*
changes an approved timesheet. Lines carry the hours only. The row order of locking is
Payroll's subject, so here all rows of a selection are locked at once. Only approved
timesheets occur. `billed` stands for billing status, invoice batch and the hours snapshot
of an invoiced timesheet. What becomes of the batch afterwards is `Invoicing`.

### Invoicing

A *clerk* finalises, issues or pays: `FinaliseBatch`, `IssueBatch`, `PayBatch` load the batch
and check its status; `SetMetadata` fills in number and amounts on the loaded entity;
`DiffBatch` and `SaveBatch` are the two halves of `save()`; `SaveSheets` saves the timesheets
after issuing and paying. `DiffBatch` also compares the loaded payments: TypeORM would
set the foreign key of a payment the entity does not know to NULL, which the column refuses,
so the request fails. `SaveBatch` meets the unique index on invoice numbers (`Collides`), which
spans all companies. A *payer* checks a payment against the total (`LookUpTotal`) and
inserts it (`InsertPayment`).

Until it is frozen, the amount of a batch is priced anew on every read, from rules and
timesheets that may have changed; here it is any member of `Totals` each time. Currency,
document texts and due dates are left out. Clerks and payers start over.

`InvoiceLedger` is what all this comes to: an invoice is entered once, under the next number of
its company, receives payments up to its amount and counts as paid when they cover it. It says
so of invoices that are neither contested (two finalise requests had loaded the draft) nor
crowded (two payments were checked at once); what is left of the promise for those is that
no number is used twice and that a payment touches no entry. The mapping (`Ledger`) reads an
entry off `number` and `net`, and takes an invoice as paid when its batch or its
timesheets say so.

### Shifts

A *planner* creates (`Create`, `InsertShift`, `CreateSheet`), edits (`Edit`, `DiffShift`,
`SaveShift`, `SaveSheets`) or removes (`RemoveShift`, `DeleteSheets`, `DeleteShift`) a shift; a
guard's *phone* answers an offer or books on and off. `MayBecome` is the transition table for
a status the planner names, `FollowsGuard` the status that results from a change of guard.
`save()` of a row that has been deleted before its SELECT inserts it again (`"id"` in `diff`),
and updates nothing if it was deleted after.

A time is a set of hours, so an overlap is a common hour. Availability rules, leave and
compliance may refuse a guard: the request then ends unstarted. History variables remember
that two requests were at work on a shift (`overlapped`), that one failed (`interrupted`), that
two booked the same guard at once (`crowded`), and that a shift was moved under its guard
(`retimed`); the properties except these, since the code does nothing about them.

### Duty

Booking is `BookOn` or `BookOff` (load and verify), `RecordEvent`, `SaveShift`, and for
booking off `SaveHours`; `Abandon` ends a request anywhere, and a phone may call
again, also while its first call is still running. Each save is one step here: that a save of the shift
compares before it writes is `Shifts`' subject. A shift keeps its guard, start and interval here.

The scan notes the time and the shifts in progress (`BeginScan`), takes them one by one
(`ReadShift`: latest check-in and welfare check, alerts since), and inserts an alert
(`RaiseAlert`) before it goes on; it ends with the last of them (`ScanOf`). `AbortScan` is a failed statement or the end of the server.
`LogWelfare`, `CallForHelp` and `Manage` are the other writers. A guard may raise an alert of any type,
`missed_checkcall` too (`safety-alert.service.ts:73`); no column tells it from one of the scan, so
the model keeps whose it is (`by`), which only the properties look at. The scan's lookup
(`AlertedSince`) takes either. Every insertion takes an
instant of its own; instants are counted from the start of the shifts.

### Pricing

One timesheet from approval to payroll and invoice, each request a single step, because the other
modules have the interleavings. `CalculatePay` is `calculatePay` with break, minimum hours,
overtime, night share and weekend; `BillableHours` and `Revenue` are
`contract-pricing.service.ts` with deduction, rounding step, grace, minimum and call-out fee.
`UpdateApprovedTimes`, `UpdateAsAdmin`, `Submit`, `Resubmit`, `LeaveOut`, `CreatePayrollBatch`,
`CreateInvoiceBatch` and `FinaliseInvoice` set the frozen columns; `UpsertPayRule` and
`ChangeContract` change the rules meanwhile, and `MoveShift` the timesheet's schedule, which
`shift.service.ts:527` rewrites also when a batch has taken it. Which contract rule matches is a
choice. `ruleOfPay` and `shiftOfPay` are history: no row keeps what pay was computed from.

Numbers are exact: durations in 6000ths of an hour (a minute and a hundredth of an hour are
both whole), hours in hundredths, money in pence, multipliers in per cent. The code computes in
binary doubles. There they can decide a whole step of the bill: `8.3 * 60 / 6` is
83.00000000000001, so `Math.ceil` bills 84 steps of six minutes, and a time that is rounded up by just
the grace may come out above it. Which times and rules these are is a parameter: `Above` holds the
whole steps that become one more, `Beyond` the graces that are missed; everywhere else the
quotient is far enough from a whole number. The run has one of each (8.30 h at six
minutes, 1.15 h less 0.25 h at fifteen with a grace of six); the theorems hold for any.
Amounts that end in half a penny, and night shares that end in half a hundredth, may go
either way in doubles and go up here; the values of the run avoid them.

## 3. Runs

| Run | Question | Bound | Result |
|---|---|---|---|
| `hiring` | capacity, job status, accepted implies assigned, refinement of `JobCapacity`, every hire ends | 1 job with 2 places, 2 applications, 3 hires (two of the same application), 2 reviews | holds, 29,612 states |
| `payroll_claims` | lock order, eligibility at the commit | 2 timesheets, 3 create requests with overlapping selections, 1 editor | holds, 128,592 states |
| `payroll_batches` | settling in order | 1 timesheet, 1 batch, 2 settlers, 1 editor | holds, 1,977,722 states |
| `weekly_edits` | one active line, invoiced once, current hours, under edits | 1 timesheet fitting 2 weeks, 2 durations, 2 billers, client, resolver, editor | holds, 708,802 states |
| `invoicing` | settled before paid, overpayment, numbers, stable amounts, refinement of `InvoiceLedger` | 1 company, 2 batches, 2 clerks, 2 payers, totals 1 and 2, payments -1 and 1 | holds, 330,141 states |
| `shifts` | double booking, the timesheet's guard | 2 shifts, 2 guards, 2 overlapping times, 2 planners, 1 phone | holds, 254,590 states |
| `duty` | alternating events, attended minutes, true and single alerts of the scan, every lapse alerted | 1 shift, 2 phones, interval 1, 4 instants, 1 aborted scan, 1 alert of a guard, of either type | holds, 971,261 states |
| `pricing` | monotone pay, monotone bill but for the grace, frozen amounts | 5 durations (8.30 h among them), 2 schedules (at night, at a weekend), 4 pay rules, 4 contracts | holds, 224,352 states |
| `hiring_accepted` | "Accepted applications cannot be moved back" | 1 application, hire, review | violated |
| `payroll_paid` | "duplicate payment transition is prevented" | 2 settlers | violated |
| `weekly_responses` | "Only PENDING_APPROVAL requests can be approved" | 2 clients | violated |
| `duty_swallowed` | "until a new welfare event resets the cycle" | 1 shift, 1 phone, 4 instants, no fault | violated |

The bounds are the smallest in which the contest happens: three hires are one more than
the places, and two of them share an application; three create requests can form a ring of
more than two; two settlers, clerks or clients are what a stale save needs; two versions let
lines be superseded, and two weeks let a timesheet move between requests; two payments of 1
against totals of 1 or 2 fill an invoice exactly or exceed it, and a payment of -1 is what the
check must refuse; two times that share one hour are all a clash needs; four instants hold
a check-in, a welfare check, a lapse and the alert; the durations lie on both sides of each
break, minimum, step and threshold of the rules.

Named bounds: `MaxVersion` (resubmissions of a week), `MaxTime`, `MaxFaults` and `MaxCalls` (the last
instant at which guards act, aborted scans, alerts raised by guards). Two constraints cut off
what the properties say nothing about: `Uncontested` (`MCInvoicing`) stops after two finalise
requests loaded the same draft (what the ledger's `Rewrite` allows from there on is left to the
proof), `Calm` (`MCShifts`) after a race, a move or a failure. The second
cuts more than it should, because an accident on one shift also stops the other; the
theorems of section 4 have neither constraint. `Alike` makes interchangeable values
symmetric, only in runs without liveness.

Deadlock is not checked: requests end, and a system whose requests have all ended is
at rest. That a hire does not wait for ever is `EveryHireEnds`, and lock waits
among create requests are `NoRingOfWaiters`.

**What the violated runs show.** Three come from a check on loaded data with the write
following unguarded. `hiring_accepted`: a review loads an application, a hire accepts it,
the review's save rejects it, while the guard keeps the assignment. `payroll_paid`: a
finalise that loaded a draft saves after the batch was finalised and paid.
`weekly_responses`: an approval loaded while the week was pending replaces a committed
dispute. `duty_swallowed`: the scan finds a lapse; before its alert is inserted the guard logs
a welfare check; the alert is then younger than the check, so when the next interval runs
out the scan takes it for the alert of that lapse and stays silent.

**Fairness.** `hiring`: weak fairness of each request's steps once it
has left `start`. It says that a request the server has begun is run on by the event loop
and its statements finish; nobody has to send a request, review or check in. The lock is
handed on because the holder's own steps are weakly fair; weak fairness of a waiting
`LockJob` suffices as each hire takes the lock at most once and the number of hires is
finite. `duty` and `duty_swallowed`: weak fairness of `Scan`, because `setInterval` starts a
scan every five minutes and its statements finish; phones, guards, companies and the clock owe
nothing. A scan may be cut short `MaxFaults` times. One scan runs at a time: the interval is long
against a scan, and the code has no guard against overlap.

## 4. Proofs

Proved with TLAPS for every value of the constants, under `HiringAssumption`,
`PayrollAssumption`, `WeeklyAssumption`, `InvoicingAssumption`, `ShiftsAssumption`,
`DutyAssumption` and `PricingAssumption` only (typed parameters, at least one place per job,
finitely many hires, batches and shifts, disjoint names, timesheet ids below some number, at
least one version, a positive interval, shifts that end after they start, pay and contract rules without negative numbers, which
their requests refuse or read as zero). TLC evaluates them on
every run.

`HiringProofs`
* `TypeCorrect`, `CapacityTheorem`, `FilledTheorem`, `AcceptedTheorem`: the four invariants
  of run `hiring`. They are not inductive alone: a commit adds a place that was counted two
  steps earlier. `IInv` adds that a transaction holds its job's lock (`LockHeld`), that the
  place it saw is still there (`PlaceLeft`), that only a finished hire has inserted an
  assignment (`NotYetInserted`), and that the assignments a request remembers, and the links,
  belong to its own application (`RemembersOwn`, `LinksOwn`), which is what stale reviews
  could otherwise break.
* `Refinement`: every behaviour of `Hiring` is one of `JobCapacity` under the mapping
  `taken = ActiveByJob`, `status = job`. A commit that inserts an assignment is `Take`;
  every other step leaves places and status unchanged.
* `JobPromise`: `JobCapacity` alone implies `CapacityRespected` and `FilledWhenFull`, so it
  leaves out nothing of what hiring is to keep.

`PayrollProofs`
* `TypeCorrect`, `ClaimTheorem`, `PaymentTheorem`. `IInv` says that a checked create request
  holds its rows and they are still eligible (`ClaimsHeld`), that a batch exists only after
  its commit and no entity mentions it before (`Unborn`), and that a settler who wants to
  pay has loaded a finalised batch, which cannot become a draft (`OrdersFollow`).
* `RingTheorem`: rows held by a request lie below the rows it still wants
  (`LocksAscend`). In a ring of waiters the wanted ids would ascend for ever, though a
  finite set has a largest.

`WeeklyApprovalProofs`
* `TypeCorrect`. `TypeOK` is not inductive: a line is well typed only if the transaction read
  a duration, which `assertTimesheetEligible` guarantees for what it submits (`TxTyped`), and a
  dispute only if the client remembers timesheets and not disputes (`ItemsTyped`).
* `AtMostOneLine`. `Guarded` says that a biller past its check holds the lock of every selected
  timesheet (`Holds`), and that what the check found of their active lines is still so
  (`Free`): none for a submission; only lines of the same week for a resubmission, all of which
  its UPDATE has seen. Lines of a timesheet become active only by its lock holder's commit
  (`LinesOfOthers`), so they stay unique (`LinesUnique`).
* `InvoicedFromLine`. Nobody else writes a locked timesheet, so what a biller read is current
  when it commits (`AllRead`); lines are superseded, never removed (`LinesPersist`).
* `NewLinesAreCurrent`. It needs `AllRead`, that the corrections to clear are those that were
  read (`Clears`), and that a resubmitted week has a version above one (`Versioned`): no
  stale `save()` of a client or resolver takes a week's version away (`RequestsGrow`).

`InvoicingProofs`
* `TypeCorrect`, `StableTheorem`, `PaidTheorem`, `OverpaidTheorem`, `NumbersTheorem`: all five
  properties of run `invoicing`, for any companies, clerks, payers and totals.
* `IInv` says of every clerk what its loaded batch has to do with the row: in an
  uncontested batch a number or amount, once there, is the one every clerk past `draft`
  loaded (`Inv`); whoever pays found the amount received (`PaidInv`), and payments only grow; a
  payer's amount fits what was received when it looked, unless another looked too (`FitInv`); the
  numbers of a company are an initial segment, as the second of two equal numbers
  collides (`NumberInv`).

`LedgerProofs`
* `LedgerTheorem`: every behaviour of `Invoicing` is one of `InvoiceLedger`. It takes the
  invariants of `InvoicingProofs` together (`BooksInv`), and that no two batches share a number
  (`NumbersDiffer`), contested ones included. A save that finds a draft is `Enter`: it writes all
  columns (`Compared`), the index has kept other batches off the number, and a number nobody
  has that is at most the next one is the next one (`UnusedIsNext`). A save that finds more is
  `Settle` or `Reopen`, and `Rewrite` if the batch is contested; `SaveSheets` is `Settle` or
  `Reopen`; `InsertPayment` is `Receive`; the loads of a second finaliser and of a second payer
  are `Contest` and `Crowd`; all else leaves the books alone.
* `PromiseTheorem`, `EntryTheorem`: `InvoiceLedger` alone implies `SettledBeforePaid`,
  `OverpaidOnlyTogether`, `NumbersFollowOn` and `StableUnlessContested`, read off the same mapping.
  The books need an invariant of their own (`LedgerInv`): only entered invoices receive and are
  paid in full, and while none is contested the numbers are in sequence.

`ShiftsProofs`
* `TypeCorrect`, `ClashTheorem`, `SheetTheorem`: the properties of run `shifts`, without
  its constraint `Calm`.
* A shift *claims* hours of a guard when its row or a request about to save it does
  (`Claims`). Claims of steady shifts do not overlap (`Apart`): a request that adds a claim has
  found none in the rows, and one it could not see belongs to another booking, which makes the
  guard `crowded`. This needs what an undisturbed request knows of its row
  (`Known`: what it will save is what its diff says, and a live shift with the same guard was
  live before), that undisturbed requests come one at a time (`Alone`), and that an unfilled
  shift has no guard (`Free`), or setting it to offered by status would skip the check.
* `Sheets` says how many timesheets there are between any two statements of a request.
* The frame is proved once: `Local` reduces the step of a request to what it does to its own
  memory and shift.

`DutyProofs`
* `TypeCorrect`, `AlternateTheorem`, `MinutesTheorem`: `BookInv` says that a request's events
  are there and of the type it takes them for (`Remembered`), and that bookings which never met
  come one at a time and find the latest event unchanged (`Alone`, `Fresh`).
* `LapseTheorem`, `OnceTheorem`: of the alerts of the scan, whatever alerts guards raise beside
  them. `ScanInv` says that what the scan found of a shift stays
  true until it raises the alert (`Found`): news that came in meanwhile is later than the
  interval. The lookup finds what the scan itself raised (`OwnAreSeen`). That a latest instant exists is proved from the well-foundedness of the naturals
  (`LatestExists`).

`PricingProofs`
* `TypeCorrect`, `LongerTheorem`, `WithinGraceTheorem`, `RecomputableTheorem`, `LinesTheorem`,
  `FixedTheorem`, `ApprovedTimeTheorem`: all seven properties of run `pricing`. The invariants
  say that hours and amount are frozen together (`FrozenTogether`), that the pay rule of a frozen
  amount and the schedule are remembered (`RuleKept`) and the billed hours are those its net was computed from
  (`PriceKept`).
* `LongerPaysNoLess` follows from lemmas about each operator: products and rounded
  quotients are monotone (`ProductMonotone`, `RoundingMonotone`), hence payable hours
  (`PayableMonotone`), overtime (`OvertimeMonotone`), the night's share
  (`NightMonotone`) and the amount (`AmountMonotone`), also when the overtime multiplier is
  below 100 per cent. `LongerBilledWithinGrace` rests on what rounding up to a step does
  (`RoundsUp`), which is monotone also where a whole step becomes one more
  (`StepsMonotone`), and on the grace giving back no more than itself (`BillBounds`). Both
  hold for every `Above` and `Beyond`.

Only model-checked:
* liveness (`EveryHireEnds`, `OverdueIsAlerted`), which needs `ENABLED`, out of the prover's
  reach;
* the violated statements of section 3.

The prover cannot do induction over data through the library's theorems with operator
parameters, nor reason about recursive operators; no module here uses either.

## 5. Hazards without a property

`PROJECT.json` lists every hazard with its line. Some are modelled and still have no property,
because neither code nor documents promise anything the run could refute, or because the same
defect is refuted elsewhere:

* A server that stops between `payroll-batch.service.ts:249` and `:250` (or
  `invoice-batch.service.ts:283` and the save of its timesheets) leaves a paid batch with timesheets marked
  included; paying again is refused.
* An error between the saves of `resolveDispute` leaves a disputed week without open
  disputes; no operation accepts it any more. A stale last resolution writes an older version
  back, after which resubmission meets the unique index on lines.
* A correction checked before the lock can be written after the resubmission that should
  have billed it; approved times can be edited after a submission that was not yet visible.
* A timesheet saved from a stale load leaves its payroll batch.
* Two equal applications at once are both inserted (UAT-JOB-002 expects one); everything
  hiring promises holds with both.
* Once one company has `INV-yyyy-0001`, no other company can finalise its first invoice of
  the year. This needs no interleaving.
* A server that stops between the attendance event and the shift leaves a guard who can
  book neither on nor off.
* A removed shift is inserted again by a save that loaded it before.

Others appear as the exceptions in properties. `contested`: two finalise requests of one draft
renumber or reprice an invoice. `crowded` in `Invoicing`: two payments at once overpay it.
`retimed`: a shift moved in time is not checked for a clash (UAT-JOB-005 speaks of overlapping
shifts). `doubled`: retries that overlap record an event twice. `repriced`: the lines of a
finalised invoice are priced by the rule that matches now, its total by the one that matched
then. `Forestalled`: a guard who raises a `missed_checkcall` keeps the scan silent until he is heard of
again, though it is no welfare check. Billing is not monotone in the hours, as the grace rounds a
longer stay down; so `LongerBilledWithinGrace` bounds the loss. That a bill comes out a whole step
too high (8.30 h at six minutes) is modelled and not excluded. Frozen pay is that of the kept
hours under the rule and schedule of its day; after either has changed, the row alone does not yield
its premiums any more.

## 6. Plan

Done: `Hiring`, `Payroll`, `WeeklyApproval`, `Invoicing`, `Shifts`, `Duty`, `Pricing`, each with
its proofs.

What is left, in this order:

1. An abstract rota, in which a guard is free or booked, refined by `Shifts` between races.
2. `Scheduler`: automatic batches beside manual ones, and reminders that are looked for and then
   inserted.
3. `Pool`: connections held and wanted by hire transactions.
4. Leave and availability as actions beside the rota: leave approved after an assignment.
5. Screening: the status saves that race with the transaction of `verifyCheck`.

**Not modelled, and why.** Most of the repository's code is the Expo client's screens
(`src/security-mobile-app`), which keep no state the server relies on: what they send is any
request at any time, which the modules already allow. Of the backend, reference data, personnel
files, reports and logs write one row per operation and have nothing to interleave with;
permission checks only refuse; `finance`, `client-portal`, `job-match` and `coverage` only read;
notifications and audit rows are appended after the fact. This is why the modules cover a
small share of the repository's lines though they cover the services that decide who works, who
is paid and what is billed. Acknowledging and closing an alert is a single unguarded save, by which a
closed alert can be acknowledged again. Leave approved after an assignment is checked by nothing.
The older `src/security-backend`, `src/download-site`, the backup drills and the scripts are
operational.
