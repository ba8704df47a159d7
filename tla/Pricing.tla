------------------------------- MODULE Pricing -------------------------------
(***************************************************************************)
(* What one approved timesheet is worth: the pay of pay-rule.service.ts,   *)
(* the bill of contract-pricing.service.ts, and the columns in which       *)
(* payroll-batch.service.ts and invoice-batch.service.ts freeze them.      *)
(*                                                                         *)
(* Hours are hundredths of an hour, as the numeric(8,2) columns hold them, *)
(* money is pence, and a multiplier is a percentage.  Durations that are   *)
(* not yet rounded are counted in 6000ths of an hour, so that a minute (of *)
(* approvedMinutes) and a hundredth (of a snapshot) are both whole.        *)
(*                                                                         *)
(* The code computes in binary fractions.  Where that decides a whole step *)
(* of the bill the outcome is a parameter (Above, Beyond); amounts that    *)
(* end in half a penny or half a hundredth are rounded up here.            *)
(*                                                                         *)
(* Requests are single steps here: their interleavings are the business of *)
(* Payroll, WeeklyApproval and Invoicing.                                  *)
(***************************************************************************)
EXTENDS Integers

CONSTANTS
  Minutes,    \* durations a company may approve
  Shifts,     \* scheduled shifts: first and last minute, and if it is a weekend's
  PayRules,   \* pay rule configurations a company may have
  Contracts,  \* contract pricing rules that may come to match the timesheet
  PayRate,    \* the job's hourlyRate
  Above,      \* <<time, rule>>: whole steps that come out above a whole number
  Beyond,     \* <<time, rule>>: what is added is the grace, and comes out above it
  None        \* SQL NULL

Day == 24 * 60

(* What the columns of a shift, of a pay rule configuration and of a       *)
(* contract rule may hold: the requests that write them refuse what is     *)
(* negative, and the services read an absent number as shown here.         *)
Shift == [from : Nat, to : Nat, weekend : BOOLEAN]

PayRuleConfig ==
  [unpaidBreak   : Nat,
   minimum       : Nat \cup {None},
   overtimeAfter : Nat \cup {None},
   overtimePay   : Nat,
   night         : [from : 0 .. Day - 1, to : 0 .. Day - 1] \cup {None},
   nightPay      : Nat,
   weekendPay    : Nat]

ContractPricingRule ==
  [deduction  : Nat,
   roundUpTo  : Nat,
   grace      : Nat,
   minimum    : Nat \cup {None},
   rate       : Nat,
   callOutFee : Nat]

ASSUME PricingAssumption ==
  /\ Minutes \subseteq Nat
  /\ PayRate \in Nat
  /\ None \notin Int
  /\ Shifts \subseteq {s \in Shift : s.from < s.to}
  /\ PayRules \subseteq PayRuleConfig
  /\ Contracts \subseteq ContractPricingRule

VARIABLES
  shift,      \* scheduledStartAt and scheduledEndAt of the timesheet
  minutes,    \* approvedMinutes
  hours,      \* approvedHoursSnapshot
  pay,        \* payableHoursSnapshot and payableAmountSnapshot
  line,       \* approvedHoursAtSubmission of its active weekly approval line
  billed,     \* clientBilledHoursSnapshot
  net,        \* netAmountSnapshot of its invoice
  payRule,    \* the company's pay rule configuration
  contract,   \* the contract pricing rule that matches
  ruleOfPay,  \* history: the configuration in force when `pay` was frozen
  shiftOfPay, \* history: the schedule when `pay` was frozen
  repriced    \* history: another contract rule has matched since `net` was frozen

history == <<ruleOfPay, shiftOfPay, repriced>>
vars == <<shift, minutes, hours, pay, line, billed, net, payRule, contract, history>>

-----------------------------------------------------------------------------
AtLeast0(n) == IF n > 0 THEN n ELSE 0
AtMost(n, bound) == IF n < bound THEN n ELSE bound

(* Math.round(n / d)                                                       *)
RoundedQuotient(n, d) == (2 * n + d) \div (2 * d)

OfMinutes(m) == 100 * m     \* 6000ths of an hour
OfHours(h) == 60 * h
RoundHours(t) == RoundedQuotient(t, 60)

NoPay == [hours |-> None, amount |-> None]

-----------------------------------------------------------------------------
(* Pay                                                                     *)

(* Seeded fault: what was frozen is rounded once more than what is shown.  *)
PayableHours_Unrounded(worked, rule) ==
  LET paid == AtLeast0(worked - OfMinutes(rule.unpaidBreak)) IN
  IF rule.minimum # None /\ paid < OfHours(rule.minimum) THEN rule.minimum ELSE RoundHours(paid)

(* Seeded fault: the minimum is added to a short shift.                    *)
PayableHours_AddMinimum(worked, rule) ==
  LET paid == AtLeast0(OfHours(RoundHours(worked)) - OfMinutes(rule.unpaidBreak)) IN
  IF rule.minimum # None /\ paid < OfHours(rule.minimum) THEN RoundHours(paid) + rule.minimum
                                                         ELSE RoundHours(paid)

PayableHours(worked, rule) ==
  LET paid == AtLeast0(OfHours(RoundHours(worked)) - OfMinutes(rule.unpaidBreak)) IN
  IF rule.minimum # None /\ paid < OfHours(rule.minimum) THEN rule.minimum ELSE RoundHours(paid)

OvertimeHours(payable, rule) ==
  IF rule.overtimeAfter # None THEN AtLeast0(payable - rule.overtimeAfter) ELSE 0

(* The minutes of the shift inside the night, which may span midnight, of  *)
(* the day before it starts and of three days from there.                  *)
NightMinutes(s, night) ==
  LET first(d) == d * Day + night.from
      last(d)  == d * Day + night.to + IF night.to <= night.from THEN Day ELSE 0
      common(d) == AtLeast0(AtMost(s.to, last(d)) - IF s.from > first(d) THEN s.from ELSE first(d))
  IN common(-1) + common(0) + common(1) + common(2)

(* The night's share of the scheduled shift, applied to what is payable.   *)
NightHours(payable, s, rule) ==
  IF rule.night = None THEN 0
  ELSE AtMost(payable, RoundedQuotient(NightMinutes(s, rule.night) * payable, s.to - s.from))

PayableAmount(payable, s, rule) ==
  LET overtime == OvertimeHours(payable, rule)
      premium(n, multiplier) == n * AtLeast0(multiplier - 100)
  IN RoundedQuotient(
       PayRate * ((payable - overtime) * 100 + overtime * rule.overtimePay
                  + premium(NightHours(payable, s, rule), rule.nightPay)
                  + premium(IF s.weekend THEN payable ELSE 0, rule.weekendPay)),
       10000)

(* calculatePay                                                            *)
CalculatePay(worked, s, rule) ==
  LET payable == PayableHours(worked, rule) IN
  [hours |-> payable, amount |-> PayableAmount(payable, s, rule)]

(* getApprovedHours: a snapshot goes before the minutes.                   *)
ApprovedTime ==
  IF hours # None THEN OfHours(hours) ELSE IF minutes # None THEN OfMinutes(minutes) ELSE 0

(* Seeded fault: a batch is shown as today's configuration prices it.      *)
BatchPay_Live == CalculatePay(ApprovedTime, shift, payRule)

(* getPayCalculation: what a payroll batch shows and pays.                 *)
BatchPay == IF pay.hours # None THEN pay ELSE CalculatePay(ApprovedTime, shift, payRule)

-----------------------------------------------------------------------------
(* Bill                                                                    *)

Raw(worked, rule) == AtLeast0(worked - OfHours(rule.deduction))

(* Whole steps that the code counts as one more: Math.ceil(8.3 * 60 / 6)   *)
(* is 84.                                                                  *)
StepMore(worked, rule) ==
  /\ Raw(worked, rule) > 0 /\ Raw(worked, rule) % OfMinutes(rule.roundUpTo) = 0
  /\ <<worked, rule>> \in Above

RoundedUp(worked, rule) ==
  LET step == OfMinutes(rule.roundUpTo) IN
  ((Raw(worked, rule) + step - 1) \div step) * step + IF StepMore(worked, rule) THEN step ELSE 0

WithinGrace(worked, rule) ==
  LET added == RoundedUp(worked, rule) - Raw(worked, rule)
      grace == OfMinutes(rule.grace)
  IN added < grace \/ (added = grace /\ <<worked, rule>> \notin Beyond)

(* Seeded fault: within the grace the step begun is dropped.               *)
BillableTime_DropStep(worked, rule) ==
  IF rule.roundUpTo = 0 THEN Raw(worked, rule)
  ELSE IF WithinGrace(worked, rule)
       THEN RoundedUp(worked, rule) - OfMinutes(rule.roundUpTo) ELSE RoundedUp(worked, rule)

(* Rounded up to the step, unless that would add no more than the grace.   *)
BillableTime(worked, rule) ==
  IF rule.roundUpTo = 0 \/ WithinGrace(worked, rule) THEN Raw(worked, rule)
                                                     ELSE RoundedUp(worked, rule)

(* Seeded fault: the deduction is made once more.                          *)
BillableHours_DeductTwice(worked, rule) ==
  LET billable == RoundHours(BillableTime(worked, rule)) - rule.deduction IN
  IF rule.minimum # None /\ billable < rule.minimum THEN rule.minimum ELSE billable

BillableHours(worked, rule) ==
  LET billable == RoundHours(BillableTime(worked, rule)) IN
  IF rule.minimum # None /\ billable < rule.minimum THEN rule.minimum ELSE billable

RevenueOf(worked, rule) ==
  RoundedQuotient(BillableHours(worked, rule) * rule.rate, 100) + rule.callOutFee

(* revenueAmount, from the hours the client approved once there are any.   *)
Revenue == RevenueOf(IF billed # None THEN OfHours(billed) ELSE ApprovedTime, contract)

-----------------------------------------------------------------------------
Init ==
  /\ shift \in Shifts
  /\ minutes \in Minutes
  /\ payRule \in PayRules
  /\ contract \in Contracts
  /\ hours = None /\ pay = NoPay
  /\ line = None /\ billed = None /\ net = None
  /\ ruleOfPay = None /\ shiftOfPay = None
  /\ repriced = FALSE

(* updateForUser of shifts writes the new times to the timesheet, in a     *)
(* batch or not.                                                           *)
MoveShift(s) ==
  /\ shift' = s
  /\ UNCHANGED <<minutes, hours, pay, line, billed, net, payRule, contract, history>>

(* updateForCompany with approved times, or with two nulls.                *)
UpdateApprovedTimes(m) ==
  /\ line = None
  /\ minutes' = m
  /\ UNCHANGED <<shift, hours, pay, line, billed, net, payRule, contract, history>>

(* Seeded fault: only a payroll batch commits a timesheet.                 *)
UpdateAsAdmin_Invoiced(m) ==
  /\ pay = NoPay
  /\ minutes' = m
  /\ UNCHANGED <<shift, hours, pay, line, billed, net, payRule, contract, history>>

UpdateAsAdmin(m) ==
  /\ pay = NoPay /\ billed = None
  /\ minutes' = m
  /\ UNCHANGED <<shift, hours, pay, line, billed, net, payRule, contract, history>>

(* Submission to the client.                                               *)
Submit ==
  /\ minutes # None /\ line = None
  /\ line' = RoundHours(OfMinutes(minutes))
  /\ UNCHANGED <<shift, minutes, hours, pay, billed, net, payRule, contract, history>>

(* Resubmission after a dispute, with a billing correction or without one. *)
Resubmit(m) ==
  /\ minutes # None /\ line # None /\ billed = None
  /\ line' = RoundHours(OfMinutes(m))
  /\ UNCHANGED <<shift, minutes, hours, pay, billed, net, payRule, contract, history>>

(* Resubmission of other timesheets only: the old line is superseded.      *)
LeaveOut ==
  /\ line # None /\ billed = None
  /\ line' = None
  /\ UNCHANGED <<shift, minutes, hours, pay, billed, net, payRule, contract, history>>

Frozen == IF hours # None THEN hours ELSE RoundHours(OfMinutes(minutes))

(* createForCompany of payroll batches: the amounts come from the exact    *)
(* minutes, the column keeps hundredths.                                   *)
CreatePayrollBatch ==
  /\ pay = NoPay /\ minutes # None
  /\ pay' = BatchPay
  /\ hours' = Frozen
  /\ ruleOfPay' = payRule /\ shiftOfPay' = shift
  /\ UNCHANGED <<shift, minutes, line, billed, net, payRule, contract, repriced>>

(* createForCompany of invoice batches, after the client approved the line.*)
CreateInvoiceBatch ==
  /\ line # None /\ billed = None
  /\ hours # None \/ minutes # None
  /\ billed' = line
  /\ hours' = Frozen
  /\ UNCHANGED <<shift, minutes, pay, line, net, payRule, contract, history>>

(* Seeded fault: the total is that of the hours payroll knows.             *)
FinaliseInvoice_PayrollHours ==
  /\ billed # None /\ net = None
  /\ net' = RevenueOf(ApprovedTime, contract)
  /\ UNCHANGED <<shift, minutes, hours, pay, line, billed, payRule, contract, history>>

(* ensureInvoiceDocumentMetadata                                           *)
FinaliseInvoice ==
  /\ billed # None /\ net = None
  /\ net' = Revenue
  /\ UNCHANGED <<shift, minutes, hours, pay, line, billed, payRule, contract, history>>

UpsertPayRule(rule) ==
  /\ payRule' = rule
  /\ UNCHANGED <<shift, minutes, hours, pay, line, billed, net, contract, history>>

(* A rule is created, edited or deactivated, or the shift has moved to     *)
(* another day, and another rule matches now.                              *)
ChangeContract(rule) ==
  /\ contract' = rule
  /\ repriced' = (repriced \/ (net # None /\ rule # contract))
  /\ UNCHANGED <<shift, minutes, hours, pay, line, billed, net, payRule, ruleOfPay, shiftOfPay>>

Next ==
  \/ \E s \in Shifts : MoveShift(s)
  \/ \E m \in Minutes \cup {None} : UpdateApprovedTimes(m)
  \/ \E m \in Minutes : UpdateAsAdmin(m) \/ Resubmit(m)
  \/ Submit \/ LeaveOut
  \/ CreatePayrollBatch \/ CreateInvoiceBatch \/ FinaliseInvoice
  \/ \E rule \in PayRules : UpsertPayRule(rule)
  \/ \E rule \in Contracts : ChangeContract(rule)

Spec == Init /\ [][Next]_vars

-----------------------------------------------------------------------------
(* Every column holds what its type in the database allows.                *)
TypeOK ==
  /\ shift \in Shifts /\ payRule \in PayRules /\ contract \in Contracts
  /\ minutes \in Minutes \cup {None}
  /\ hours \in Nat \cup {None}
  /\ pay = NoPay \/ pay \in [hours : Nat, amount : Nat]
  /\ line \in Nat \cup {None} /\ billed \in Nat \cup {None}
  /\ net \in Nat \cup {None}
  /\ ruleOfPay \in PayRules \cup {None} /\ shiftOfPay \in Shifts \cup {None}
  /\ repriced \in BOOLEAN

(* Whatever the breaks, minimum, overtime, night and weekend rules are, no *)
(* guard is paid less for more approved minutes.                           *)
LongerPaysNoLess ==
  \A m, n \in Minutes : m <= n =>
    CalculatePay(OfMinutes(m), shift, payRule).amount
      <= CalculatePay(OfMinutes(n), shift, payRule).amount

(* A client who approves more time is billed no less, except that a longer *)
(* time may come within the grace of its step: then it loses at most the   *)
(* grace to a shorter one.  So it is on either side of a step, and where   *)
(* binary fractions bill a whole step too much.                            *)
LongerBilledWithinGrace ==
  \A m, n \in Minutes : m <= n =>
    LET bill(minute) == BillableTime(OfHours(RoundHours(OfMinutes(minute))), contract) IN
    bill(m) <= bill(n) + OfMinutes(contract.grace)

(* What a payroll batch pays for a timesheet stays the same, whatever      *)
(* becomes of the approved minutes and of the company's pay rule.          *)
BatchedPayFixed == [][pay # NoPay => BatchPay' = BatchPay]_vars

(* The pay of a batch can be computed again from the hours that the        *)
(* timesheet kept, under the rule and for the schedule of that day: no     *)
(* penny depends on the minutes lost when the hours were rounded.  Rule    *)
(* and schedule themselves are not kept; after either has changed the row  *)
(* alone does not yield its premiums any more.                             *)
RecomputableFromSnapshot ==
  pay # NoPay => pay = CalculatePay(OfHours(hours), shiftOfPay, ruleOfPay)

(* A timesheet enters payroll with the minutes approved at that time, even *)
(* if an invoice froze its hours before.                                   *)
PaidForApprovedTime ==
  [][pay = NoPay /\ pay' # NoPay => hours' = RoundHours(OfMinutes(minutes))]_vars

(* The lines of a finalised invoice, which are priced again on every view, *)
(* add up to its frozen total as long as no other contract rule matches.   *)
LinesAddUp == net # None /\ ~repriced => Revenue = net
==============================================================================
