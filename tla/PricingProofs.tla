---------------------------- MODULE PricingProofs -----------------------------
(***************************************************************************)
(* What is frozen stays what it was: proofs for every set of durations,    *)
(* shifts, pay rules and contracts.                                        *)
(***************************************************************************)
EXTENDS Pricing, TLAPS

(* Hours are frozen by the payroll batch or by the invoice.  From the      *)
(* invoice to the payroll batch the approved minutes stand still, because  *)
(* an active line stops the company and the invoice stops the admin.       *)
FrozenTogether ==
  /\ billed # None => line # None /\ hours # None
  /\ pay = NoPay /\ hours # None => /\ billed # None /\ minutes # None
                                    /\ hours = RoundHours(OfMinutes(minutes))

(* What payroll froze is the pay of the hours the timesheet kept.          *)
RuleKept ==
  pay # NoPay => /\ hours # None /\ pay.hours # None
                 /\ pay = CalculatePay(OfHours(hours), shiftOfPay, ruleOfPay)

(* What the invoice froze is the bill of the hours the client approved.    *)
PriceKept == net # None => billed # None /\ (~repriced => Revenue = net)

IInv == TypeOK /\ FrozenTogether /\ RuleKept /\ PriceKept

-----------------------------------------------------------------------------
(* Rounding                                                                *)

LEMMA ProductIsNat == ASSUME NEW a \in Nat, NEW b \in Nat PROVE a * b \in Nat
OBVIOUS

LEMMA ProductMonotone ==
  ASSUME NEW a \in Int, NEW b \in Int, NEW c \in Nat, a <= b
  PROVE  a * c <= b * c
OBVIOUS

LEMMA QuotientIsNat ==
  ASSUME NEW n \in Nat, NEW d \in Nat \ {0}
  PROVE  RoundedQuotient(n, d) \in Nat
BY DEF RoundedQuotient

LEMMA QuotientMonotone ==
  ASSUME NEW n \in Int, NEW m \in Int, NEW d \in Nat \ {0}, n <= m
  PROVE  RoundedQuotient(n, d) <= RoundedQuotient(m, d)
BY DEF RoundedQuotient

LEMMA RoundingIsInt == ASSUME NEW t \in Int PROVE RoundHours(t) \in Int
BY DEF RoundHours, RoundedQuotient

LEMMA RoundingIsNat == ASSUME NEW t \in Nat PROVE RoundHours(t) \in Nat
BY QuotientIsNat DEF RoundHours

LEMMA RoundingMonotone ==
  ASSUME NEW t \in Int, NEW u \in Int, t <= u
  PROVE  RoundHours(t) <= RoundHours(u)
BY QuotientMonotone DEF RoundHours

LEMMA RoundingOfHours == ASSUME NEW h \in Int PROVE RoundHours(OfHours(h)) = h
BY DEF RoundHours, OfHours, RoundedQuotient

LEMMA RoundedMinutes ==
  ASSUME NEW m \in Nat
  PROVE  RoundHours(OfMinutes(m)) \in Nat /\ RoundHours(OfMinutes(m)) # None
<1>1. OfMinutes(m) \in Nat
  BY DEF OfMinutes
<1> QED
  BY <1>1, RoundingIsNat, PricingAssumption DEF PricingAssumption

-----------------------------------------------------------------------------
(* Pay is monotone                                                         *)

LEMMA RuleTypes ==
  ASSUME NEW rule \in PayRules
  PROVE  /\ rule.unpaidBreak \in Nat /\ rule.minimum \in Nat \cup {None}
         /\ rule.overtimeAfter \in Nat \cup {None} /\ rule.overtimePay \in Nat
         /\ rule.nightPay \in Nat /\ rule.weekendPay \in Nat
         /\ rule.night # None => rule.night.from \in Nat /\ rule.night.to \in Nat
<1>1. rule \in PayRuleConfig
  BY PricingAssumption DEF PricingAssumption
<1>2. rule.night # None => rule.night \in [from : 0 .. Day - 1, to : 0 .. Day - 1]
  BY <1>1 DEF PayRuleConfig
<1>3. 0 .. Day - 1 \subseteq Nat
  BY DEF Day
<1>4. rule.night # None => rule.night.from \in Nat /\ rule.night.to \in Nat
  BY <1>2, <1>3
<1> QED
  BY <1>1, <1>4 DEF PayRuleConfig

(* The minimum goes to whoever would be paid for less, so a shift that is  *)
(* long enough to lose it is paid at least as much.                        *)
LEMMA PayableMonotone ==
  ASSUME NEW t \in Nat, NEW u \in Nat, t <= u, NEW rule \in PayRules
  PROVE  /\ PayableHours(t, rule) \in Nat
         /\ PayableHours(t, rule) <= PayableHours(u, rule)
<1> DEFINE paid(w) == AtLeast0(OfHours(RoundHours(w)) - OfMinutes(rule.unpaidBreak))
<1>1. /\ RoundHours(t) \in Nat /\ RoundHours(u) \in Nat /\ RoundHours(t) <= RoundHours(u)
  BY RoundingIsNat, RoundingMonotone
<1>2. paid(t) \in Nat /\ paid(u) \in Nat /\ paid(t) <= paid(u)
  BY <1>1, RuleTypes DEF AtLeast0, OfHours, OfMinutes
<1> HIDE DEF paid
<1>3. /\ RoundHours(paid(t)) \in Nat /\ RoundHours(paid(u)) \in Nat
      /\ RoundHours(paid(t)) <= RoundHours(paid(u))
  BY <1>2, RoundingIsNat, RoundingMonotone
<1>4. \A w : PayableHours(w, rule) = IF rule.minimum # None /\ paid(w) < OfHours(rule.minimum)
                                    THEN rule.minimum ELSE RoundHours(paid(w))
  BY DEF PayableHours, paid
<1>5. CASE rule.minimum = None
  BY <1>3, <1>4, <1>5
<1>6. CASE rule.minimum # None
  <2>1. rule.minimum \in Nat /\ OfHours(rule.minimum) \in Nat
    BY <1>6, RuleTypes DEF OfHours
  <2>2. CASE paid(u) < OfHours(rule.minimum)
    BY <1>2, <1>4, <1>6, <2>1, <2>2
  <2>3. CASE ~(paid(u) < OfHours(rule.minimum))
    <3>1. rule.minimum <= RoundHours(paid(u))
      BY <1>2, <2>1, <2>3, RoundingOfHours, RoundingMonotone
    <3> QED
      BY <1>3, <1>4, <1>6, <2>1, <2>3, <3>1
  <2> QED
    BY <2>2, <2>3
<1> QED
  BY <1>5, <1>6

LEMMA NightMinutesAreNat ==
  ASSUME NEW s \in Shifts, NEW rule \in PayRules, rule.night # None
  PROVE  NightMinutes(s, rule.night) \in Nat
<1>1. s.from \in Nat /\ s.to \in Nat /\ rule.night.from \in Nat /\ rule.night.to \in Nat
  BY RuleTypes, PricingAssumption DEF PricingAssumption, Shift
<1>2. ASSUME NEW i \in Int, NEW j \in Int PROVE AtLeast0(i - j) \in Nat
  BY DEF AtLeast0
<1> DEFINE first(d) == d * Day + rule.night.from
           last(d)  == d * Day + rule.night.to + IF rule.night.to <= rule.night.from THEN Day ELSE 0
           common(d) == AtLeast0(AtMost(s.to, last(d)) - IF s.from > first(d) THEN s.from ELSE first(d))
<1>3. ASSUME NEW d \in Int PROVE common(d) \in Nat
  <2>1. first(d) \in Int /\ last(d) \in Int
    BY <1>1 DEF Day
  <2> HIDE DEF first, last
  <2>2. AtMost(s.to, last(d)) \in Int
    BY <1>1, <2>1 DEF AtMost
  <2>3. (IF s.from > first(d) THEN s.from ELSE first(d)) \in Int
    BY <1>1, <2>1
  <2> QED
    BY <1>2, <2>2, <2>3
<1>4. NightMinutes(s, rule.night) = common(-1) + common(0) + common(1) + common(2)
  BY DEF NightMinutes
<1> HIDE DEF common
<1> QED
  BY <1>3, <1>4

LEMMA NightMonotone ==
  ASSUME NEW p \in Nat, NEW q \in Nat, p <= q, NEW s \in Shifts, NEW rule \in PayRules
  PROVE  /\ NightHours(p, s, rule) \in Nat
         /\ NightHours(p, s, rule) <= NightHours(q, s, rule)
<1>1. CASE rule.night = None
  BY <1>1 DEF NightHours
<1>2. CASE rule.night # None
  <2>1. PICK n \in Nat : n = NightMinutes(s, rule.night)
    BY <1>2, NightMinutesAreNat
  <2>2. PICK d \in Nat \ {0} : d = s.to - s.from
    BY PricingAssumption DEF PricingAssumption, Shift
  <2>3. n * p \in Nat /\ n * q \in Nat /\ n * p <= n * q
    BY ProductIsNat, ProductMonotone
  <2>4. /\ RoundedQuotient(n * p, d) \in Nat /\ RoundedQuotient(n * q, d) \in Nat
        /\ RoundedQuotient(n * p, d) <= RoundedQuotient(n * q, d)
    <3>1. ASSUME NEW x \in Nat, NEW y \in Nat, x <= y
          PROVE  /\ RoundedQuotient(x, d) \in Nat /\ RoundedQuotient(y, d) \in Nat
                 /\ RoundedQuotient(x, d) <= RoundedQuotient(y, d)
      BY <3>1, QuotientIsNat, QuotientMonotone
    <3> QED
      BY <2>3, <3>1
  <2>5. /\ NightHours(p, s, rule) = AtMost(p, RoundedQuotient(n * p, d))
        /\ NightHours(q, s, rule) = AtMost(q, RoundedQuotient(n * q, d))
    BY <1>2, <2>1, <2>2 DEF NightHours
  <2> QED
    BY <2>4, <2>5 DEF AtMost
<1> QED
  BY <1>1, <1>2

(* An hour beyond the threshold is paid as overtime, which may be worth    *)
(* less than an ordinary one, but never takes an ordinary hour away.       *)
LEMMA OvertimeMonotone ==
  ASSUME NEW p \in Nat, NEW q \in Nat, p <= q, NEW rule \in PayRules
  PROVE  LET o(h) == OvertimeHours(h, rule)
             worth(h) == (h - o(h)) * 100 + o(h) * rule.overtimePay
         IN worth(p) \in Nat /\ worth(p) <= worth(q)
<1>1. PICK x \in Nat : x = OvertimeHours(p, rule)
  BY RuleTypes DEF OvertimeHours, AtLeast0
<1>2. PICK y \in Nat : y = OvertimeHours(q, rule)
  BY RuleTypes DEF OvertimeHours, AtLeast0
<1>3. x <= y /\ p - x \in Nat /\ p - x <= q - y
  BY <1>1, <1>2, RuleTypes DEF OvertimeHours, AtLeast0
<1>4. /\ x * rule.overtimePay \in Nat /\ y * rule.overtimePay \in Nat
      /\ x * rule.overtimePay <= y * rule.overtimePay
  BY <1>3, RuleTypes, ProductIsNat, ProductMonotone
<1>5. (p - x) * 100 + x * rule.overtimePay \in Nat
  BY <1>3, <1>4
<1>6. (p - x) * 100 + x * rule.overtimePay <= (q - y) * 100 + y * rule.overtimePay
  BY <1>3, <1>4
<1> QED
  BY <1>1, <1>2, <1>5, <1>6, Zenon

LEMMA AmountMonotone ==
  ASSUME NEW p \in Nat, NEW q \in Nat, p <= q, NEW s \in Shifts, NEW rule \in PayRules
  PROVE  /\ PayableAmount(p, s, rule) \in Nat
         /\ PayableAmount(p, s, rule) <= PayableAmount(q, s, rule)
<1> DEFINE o(h) == OvertimeHours(h, rule)
           worth(h) == (h - o(h)) * 100 + o(h) * rule.overtimePay
           premium(n, multiplier) == n * AtLeast0(multiplier - 100)
           night(h) == premium(NightHours(h, s, rule), rule.nightPay)
           weekend(h) == premium(IF s.weekend THEN h ELSE 0, rule.weekendPay)
           due(h) == worth(h) + night(h) + weekend(h)
<1>1. worth(p) \in Nat /\ worth(q) \in Nat /\ worth(p) <= worth(q)
  BY OvertimeMonotone
<1>2. AtLeast0(rule.nightPay - 100) \in Nat /\ AtLeast0(rule.weekendPay - 100) \in Nat
  BY RuleTypes DEF AtLeast0
<1>3. night(p) \in Nat /\ night(q) \in Nat /\ night(p) <= night(q)
  <2>1. /\ NightHours(p, s, rule) \in Nat /\ NightHours(q, s, rule) \in Nat
        /\ NightHours(p, s, rule) <= NightHours(q, s, rule)
    BY NightMonotone
  <2> QED
    BY <1>2, <2>1, ProductIsNat, ProductMonotone
<1>4. weekend(p) \in Nat /\ weekend(q) \in Nat /\ weekend(p) <= weekend(q)
  BY <1>2, ProductIsNat, ProductMonotone
<1>5. \A h : PayableAmount(h, s, rule) = RoundedQuotient(PayRate * due(h), 10000)
  BY DEF PayableAmount
<1> HIDE DEF worth, night, weekend
<1>6. due(p) \in Nat /\ due(q) \in Nat /\ due(p) <= due(q)
  BY <1>1, <1>3, <1>4
<1> HIDE DEF due
<1>7. /\ PayRate * due(p) \in Nat /\ PayRate * due(q) \in Nat
      /\ PayRate * due(p) <= PayRate * due(q)
  BY <1>6, ProductIsNat, ProductMonotone, PricingAssumption DEF PricingAssumption
<1> QED
  BY <1>5, <1>7, QuotientIsNat, QuotientMonotone

(* The pay of some minutes is the pay of the hundredths they round to.     *)
LEMMA PayOfRounded ==
  ASSUME NEW m \in Nat, NEW s, NEW rule
  PROVE  CalculatePay(OfHours(RoundHours(OfMinutes(m))), s, rule) = CalculatePay(OfMinutes(m), s, rule)
<1>1. RoundHours(OfHours(RoundHours(OfMinutes(m)))) = RoundHours(OfMinutes(m))
  BY RoundedMinutes, RoundingOfHours
<1> QED
  BY <1>1, Zenon DEF CalculatePay, PayableHours

LEMMA PayIsTyped ==
  ASSUME NEW t \in Nat, NEW s \in Shifts, NEW rule \in PayRules
  PROVE  CalculatePay(t, s, rule) \in [hours : Nat, amount : Nat]
<1>1. PayableHours(t, rule) \in Nat
  BY PayableMonotone
<1> QED
  BY <1>1, AmountMonotone DEF CalculatePay

-----------------------------------------------------------------------------
(* The bill                                                                *)

LEMMA ContractTypes ==
  ASSUME NEW rule \in Contracts
  PROVE  /\ rule.deduction \in Nat /\ rule.roundUpTo \in Nat /\ rule.grace \in Nat
         /\ rule.minimum \in Nat \cup {None} /\ rule.rate \in Nat /\ rule.callOutFee \in Nat
BY PricingAssumption DEF PricingAssumption, ContractPricingRule

(* Rounding up to a multiple never rounds below, keeps the order, and      *)
(* takes what lies beyond a multiple to the next one.                      *)
LEMMA RoundsUp ==
  ASSUME NEW n \in Nat, NEW m \in Nat, NEW d \in Nat \ {0}, n <= m
  PROVE  LET up(k) == ((k + d - 1) \div d) * d
         IN /\ up(n) \in Nat /\ up(m) \in Nat /\ n <= up(n) /\ up(n) <= up(m)
            /\ n % d = 0 /\ n < m => up(n) + d <= up(m)
<1>1. PICK i \in Nat : i = (n + d - 1) \div d
  OBVIOUS
<1>2. PICK j \in Nat : j = (m + d - 1) \div d
  OBVIOUS
<1>3. i <= j
  BY <1>1, <1>2
<1>4. i * d \in Nat /\ j * d \in Nat /\ i * d <= j * d
  BY <1>3, ProductIsNat, ProductMonotone
<1>5. n <= i * d
  BY <1>1
<1>6. ASSUME n % d = 0, n < m PROVE i * d + d <= j * d
  <2>1. PICK k \in Nat : k = n \div d
    OBVIOUS
  <2>2. n = k * d
    BY <1>6, <2>1
  <2>3. i = k
    BY <1>1, <2>2
  <2>4. k + 1 <= j
    <3>1. m + d - 1 >= k * d + d
      BY <1>6, <2>2
    <3>2. k * d + d = (k + 1) * d
      OBVIOUS
    <3> QED
      BY <1>2, <3>1, <3>2
  <2>5. (k + 1) * d <= j * d
    BY <2>4, ProductMonotone
  <2> QED
    BY <2>3, <2>5
<1> QED
  BY <1>1, <1>2, <1>4, <1>5, <1>6

LEMMA RawTypes ==
  ASSUME NEW worked \in Nat, NEW rule \in Contracts
  PROVE  /\ Raw(worked, rule) \in Nat
         /\ OfMinutes(rule.roundUpTo) \in Nat /\ OfMinutes(rule.grace) \in Nat
         /\ rule.roundUpTo # 0 => OfMinutes(rule.roundUpTo) # 0
BY ContractTypes DEF Raw, AtLeast0, OfHours, OfMinutes

(* What is rounded up lies no lower for more time: not even where whole    *)
(* steps come out as one more, as every longer time then has begun it.     *)
LEMMA StepsMonotone ==
  ASSUME NEW t \in Nat, NEW u \in Nat, t <= u, NEW rule \in Contracts, rule.roundUpTo # 0
  PROVE  /\ RoundedUp(t, rule) \in Nat /\ RoundedUp(u, rule) \in Nat
         /\ Raw(t, rule) <= RoundedUp(t, rule)
         /\ Raw(t, rule) <= Raw(u, rule)
         /\ RoundedUp(t, rule) <= RoundedUp(u, rule)
<1>1. PICK n \in Nat : n = Raw(t, rule)
  BY RawTypes
<1>2. PICK m \in Nat : m = Raw(u, rule)
  BY RawTypes
<1>3. PICK d \in Nat \ {0} : d = OfMinutes(rule.roundUpTo)
  BY RawTypes
<1>4. n <= m /\ (n = m => n = 0 \/ t = u)
  BY <1>1, <1>2, ContractTypes DEF Raw, AtLeast0, OfHours
<1>5. PICK p : p = ((n + d - 1) \div d) * d
  OBVIOUS
<1>6. PICK q : q = ((m + d - 1) \div d) * d
  OBVIOUS
<1>7. /\ p \in Nat /\ q \in Nat /\ n <= p /\ p <= q
      /\ n % d = 0 /\ n < m => p + d <= q
  BY <1>4, <1>5, <1>6, RoundsUp
<1>8. /\ RoundedUp(t, rule) = p + IF StepMore(t, rule) THEN d ELSE 0
      /\ RoundedUp(u, rule) = q + IF StepMore(u, rule) THEN d ELSE 0
  BY <1>1, <1>2, <1>3, <1>5, <1>6, Zenon DEF RoundedUp
<1>9. StepMore(t, rule) => n > 0 /\ n % d = 0
  BY <1>1, <1>3 DEF StepMore
<1>10. CASE t = u
  BY <1>1, <1>2, <1>3, <1>7, <1>8, <1>10
<1>11. CASE t # u
  BY <1>1, <1>2, <1>3, <1>4, <1>7, <1>8, <1>9, <1>11
<1> QED
  BY <1>10, <1>11

(* The bill is what is left after the deduction, or rounded up; what the   *)
(* grace saves the client is at most the grace.                            *)
LEMMA BillBounds ==
  ASSUME NEW worked \in Nat, NEW rule \in Contracts
  PROVE  /\ BillableTime(worked, rule) \in Nat
         /\ Raw(worked, rule) <= BillableTime(worked, rule)
         /\ rule.roundUpTo # 0 =>
              RoundedUp(worked, rule) <= BillableTime(worked, rule) + OfMinutes(rule.grace)
<1>1. CASE rule.roundUpTo = 0
  BY <1>1, RawTypes DEF BillableTime
<1>2. CASE rule.roundUpTo # 0
  <2>1. RoundedUp(worked, rule) \in Nat /\ Raw(worked, rule) <= RoundedUp(worked, rule)
    BY <1>2, StepsMonotone
  <2>2. CASE WithinGrace(worked, rule)
    BY <1>2, <2>1, <2>2, RawTypes DEF WithinGrace, BillableTime
  <2>3. CASE ~WithinGrace(worked, rule)
    BY <1>2, <2>1, <2>3, RawTypes DEF BillableTime
  <2> QED
    BY <2>2, <2>3
<1> QED
  BY <1>1, <1>2

LEMMA BillAlmostMonotone ==
  ASSUME NEW t \in Nat, NEW u \in Nat, t <= u, NEW rule \in Contracts
  PROVE  BillableTime(t, rule) <= BillableTime(u, rule) + OfMinutes(rule.grace)
<1>1. /\ Raw(t, rule) \in Nat /\ Raw(u, rule) \in Nat /\ Raw(t, rule) <= Raw(u, rule)
      /\ OfMinutes(rule.grace) \in Nat /\ BillableTime(u, rule) \in Nat
      /\ Raw(u, rule) <= BillableTime(u, rule)
  BY BillBounds, RawTypes, ContractTypes DEF Raw, AtLeast0, OfHours
<1>2. CASE rule.roundUpTo = 0 \/ WithinGrace(t, rule)
  <2>1. BillableTime(t, rule) = Raw(t, rule)
    BY <1>2 DEF BillableTime
  <2> QED
    BY <1>1, <2>1
<1>3. CASE rule.roundUpTo # 0 /\ ~WithinGrace(t, rule)
  <2>1. BillableTime(t, rule) = RoundedUp(t, rule)
    BY <1>3 DEF BillableTime
  <2>2. /\ RoundedUp(t, rule) \in Nat /\ RoundedUp(u, rule) \in Nat
        /\ RoundedUp(t, rule) <= RoundedUp(u, rule)
    BY <1>3, StepsMonotone
  <2>3. RoundedUp(u, rule) <= BillableTime(u, rule) + OfMinutes(rule.grace)
    BY <1>3, BillBounds
  <2> QED
    BY <1>1, <2>1, <2>2, <2>3
<1> QED
  BY <1>2, <1>3

LEMMA RevenueIsNat ==
  ASSUME NEW worked \in Nat, NEW rule \in Contracts
  PROVE  RevenueOf(worked, rule) \in Nat
<1>1. RoundHours(BillableTime(worked, rule)) \in Nat
  BY BillBounds, RoundingIsNat
<1>2. BillableHours(worked, rule) \in Nat
  BY <1>1, ContractTypes DEF BillableHours
<1>3. BillableHours(worked, rule) * rule.rate \in Nat
  BY <1>2, ContractTypes, ProductIsNat
<1>4. RoundedQuotient(BillableHours(worked, rule) * rule.rate, 100) \in Nat
  BY <1>3, QuotientIsNat
<1> QED
  BY <1>4, ContractTypes DEF RevenueOf

-----------------------------------------------------------------------------
(* The columns keep their types                                            *)

LEMMA ApprovedTimeIsNat == ASSUME TypeOK PROVE ApprovedTime \in Nat
BY PricingAssumption DEF PricingAssumption, TypeOK, ApprovedTime, OfHours, OfMinutes

LEMMA FrozenIsNat ==
  ASSUME TypeOK, hours # None \/ minutes # None
  PROVE  Frozen \in Nat /\ Frozen # None
BY RoundedMinutes, PricingAssumption DEF PricingAssumption, TypeOK, Frozen

LEMMA BatchPayIsTyped ==
  ASSUME TypeOK, pay = NoPay
  PROVE  BatchPay \in [hours : Nat, amount : Nat]
BY ApprovedTimeIsNat, PayIsTyped DEF TypeOK, BatchPay, NoPay

LEMMA RevenueIsTyped == ASSUME TypeOK PROVE Revenue \in Nat
<1>1. (IF billed # None THEN OfHours(billed) ELSE ApprovedTime) \in Nat
  BY ApprovedTimeIsNat DEF TypeOK, OfHours
<1> QED
  BY <1>1, RevenueIsNat DEF TypeOK, Revenue

LEMMA TypeStep == ASSUME TypeOK, [Next]_vars PROVE TypeOK'
<1> USE PricingAssumption DEF PricingAssumption
<1>1. ASSUME NEW m \in Minutes \cup {None}, UpdateApprovedTimes(m) PROVE TypeOK'
  BY <1>1 DEF UpdateApprovedTimes, history, TypeOK
<1>2. ASSUME NEW m \in Minutes, UpdateAsAdmin(m) PROVE TypeOK'
  BY <1>2 DEF UpdateAsAdmin, history, TypeOK
<1>3. ASSUME NEW m \in Minutes, Resubmit(m) PROVE TypeOK'
  BY <1>3, RoundedMinutes DEF Resubmit, history, TypeOK
<1>4. CASE Submit
  BY <1>4, RoundedMinutes DEF Submit, history, TypeOK
<1>5. CASE LeaveOut
  BY <1>5 DEF LeaveOut, history, TypeOK
<1>6. CASE CreatePayrollBatch
  <2>1. pay' \in [hours : Nat, amount : Nat]
    BY <1>6, BatchPayIsTyped DEF CreatePayrollBatch
  <2>2. hours' \in Nat
    BY <1>6, FrozenIsNat DEF CreatePayrollBatch
  <2> QED
    BY <1>6, <2>1, <2>2 DEF CreatePayrollBatch, TypeOK
<1>7. CASE CreateInvoiceBatch
  <2>1. hours' \in Nat
    BY <1>7, FrozenIsNat DEF CreateInvoiceBatch
  <2> QED
    BY <1>7, <2>1 DEF CreateInvoiceBatch, history, TypeOK
<1>8. CASE FinaliseInvoice
  BY <1>8, RevenueIsTyped DEF FinaliseInvoice, history, TypeOK
<1>9. ASSUME NEW rule \in PayRules, UpsertPayRule(rule) PROVE TypeOK'
  BY <1>9 DEF UpsertPayRule, history, TypeOK
<1>10. ASSUME NEW rule \in Contracts, ChangeContract(rule) PROVE TypeOK'
  BY <1>10 DEF ChangeContract, TypeOK
<1>11. ASSUME NEW s \in Shifts, MoveShift(s) PROVE TypeOK'
  BY <1>11 DEF MoveShift, history, TypeOK
<1>12. CASE UNCHANGED vars
  BY <1>12 DEF vars, history, TypeOK
<1> QED
  BY <1>1, <1>2, <1>3, <1>4, <1>5, <1>6, <1>7, <1>8, <1>9, <1>10, <1>11, <1>12 DEF Next

-----------------------------------------------------------------------------
(* A payroll batch computes the pay that RuleKept speaks of.               *)
LEMMA BatchComputesPay ==
  ASSUME TypeOK, CreatePayrollBatch
  PROVE  /\ hours' # None /\ pay'.hours # None
         /\ pay' = CalculatePay(OfHours(hours'), shift, payRule)
<1> USE PricingAssumption DEF PricingAssumption
<1>1. minutes \in Nat /\ pay.hours = None
  BY DEF CreatePayrollBatch, NoPay, TypeOK
<1>2. pay' = CalculatePay(ApprovedTime, shift, payRule)
  BY <1>1 DEF CreatePayrollBatch, BatchPay
<1>3. pay'.hours # None
  BY BatchPayIsTyped DEF CreatePayrollBatch
<1>4. hours' # None
  BY FrozenIsNat DEF CreatePayrollBatch
<1>5. CASE hours # None
  BY <1>2, <1>3, <1>5 DEF CreatePayrollBatch, Frozen, ApprovedTime
<1>6. CASE hours = None
  <2>1. hours' = RoundHours(OfMinutes(minutes)) /\ ApprovedTime = OfMinutes(minutes)
    BY <1>1, <1>6 DEF CreatePayrollBatch, Frozen, ApprovedTime
  <2> QED
    BY <1>1, <1>2, <1>3, <1>4, <2>1, PayOfRounded
<1> QED
  BY <1>5, <1>6

LEMMA FrozenStep == ASSUME TypeOK, FrozenTogether, [Next]_vars PROVE FrozenTogether'
<1> USE PricingAssumption DEF PricingAssumption, FrozenTogether
<1>1. ASSUME NEW m \in Minutes \cup {None}, UpdateApprovedTimes(m) PROVE FrozenTogether'
  BY <1>1 DEF UpdateApprovedTimes
<1>2. ASSUME NEW m \in Minutes, UpdateAsAdmin(m) PROVE FrozenTogether'
  BY <1>2 DEF UpdateAsAdmin
<1>3. ASSUME NEW m \in Minutes, Resubmit(m) PROVE FrozenTogether'
  BY <1>3, RoundedMinutes DEF Resubmit
<1>4. CASE Submit
  BY <1>4, RoundedMinutes DEF Submit
<1>5. CASE LeaveOut
  BY <1>5 DEF LeaveOut
<1>6. CASE CreatePayrollBatch
  <2>1. hours' # None /\ pay' # NoPay
    BY <1>6, BatchComputesPay DEF NoPay
  <2> QED
    BY <1>6, <2>1 DEF CreatePayrollBatch
<1>7. CASE CreateInvoiceBatch
  <2>1. hours' # None
    BY <1>7, FrozenIsNat DEF CreateInvoiceBatch
  <2>2. pay = NoPay => minutes # None /\ hours' = RoundHours(OfMinutes(minutes))
    BY <1>7 DEF CreateInvoiceBatch, Frozen
  <2> QED
    BY <1>7, <2>1, <2>2 DEF CreateInvoiceBatch
<1>8. CASE FinaliseInvoice
  BY <1>8 DEF FinaliseInvoice
<1>9. ASSUME NEW rule \in PayRules, UpsertPayRule(rule) PROVE FrozenTogether'
  BY <1>9 DEF UpsertPayRule
<1>10. ASSUME NEW rule \in Contracts, ChangeContract(rule) PROVE FrozenTogether'
  BY <1>10 DEF ChangeContract
<1>11. ASSUME NEW s \in Shifts, MoveShift(s) PROVE FrozenTogether'
  BY <1>11 DEF MoveShift
<1>12. CASE UNCHANGED vars
  BY <1>12 DEF vars
<1> QED
  BY <1>1, <1>2, <1>3, <1>4, <1>5, <1>6, <1>7, <1>8, <1>9, <1>10, <1>11, <1>12 DEF Next

LEMMA RuleStep == ASSUME TypeOK, RuleKept, [Next]_vars PROVE RuleKept'
<1>1. CASE CreatePayrollBatch
  <2>1. shiftOfPay' = shift /\ ruleOfPay' = payRule
    BY <1>1 DEF CreatePayrollBatch
  <2> QED
    BY <1>1, <2>1, BatchComputesPay DEF RuleKept
<1>2. CASE UNCHANGED <<shiftOfPay, pay, ruleOfPay>> /\ (hours # None => hours' = hours)
  BY <1>2 DEF RuleKept
<1>3. [Next]_vars => CreatePayrollBatch \/ (UNCHANGED <<shiftOfPay, pay, ruleOfPay>> /\ (hours # None => hours' = hours))
  BY DEF Next, vars, history, MoveShift, UpdateApprovedTimes, UpdateAsAdmin, Submit, Resubmit, LeaveOut, CreateInvoiceBatch,
         Frozen, FinaliseInvoice, UpsertPayRule, ChangeContract
<1> QED
  BY <1>1, <1>2, <1>3

LEMMA PriceStep == ASSUME PriceKept, [Next]_vars PROVE PriceKept'
<1>1. CASE FinaliseInvoice
  BY <1>1 DEF FinaliseInvoice, PriceKept, Revenue
<1>2. ASSUME NEW rule \in Contracts, ChangeContract(rule) PROVE PriceKept'
  BY <1>2 DEF ChangeContract, PriceKept, Revenue
<1>3. CASE UNCHANGED <<net, contract, repriced>> /\ (billed # None => billed' = billed)
  BY <1>3 DEF PriceKept, Revenue
<1>4. [Next]_vars => \/ FinaliseInvoice \/ \E rule \in Contracts : ChangeContract(rule)
                     \/ UNCHANGED <<net, contract, repriced>> /\ (billed # None => billed' = billed)
  BY DEF Next, vars, history, MoveShift, UpdateApprovedTimes, UpdateAsAdmin, Submit, Resubmit, LeaveOut, CreateInvoiceBatch,
         CreatePayrollBatch, UpsertPayRule
<1> QED
  BY <1>1, <1>2, <1>3, <1>4

LEMMA Invariance == Spec => []IInv
<1>1. Init => IInv
  BY DEF Init, IInv, TypeOK, FrozenTogether, RuleKept, PriceKept, NoPay
<1>2. IInv /\ [Next]_vars => IInv'
  BY TypeStep, FrozenStep, RuleStep, PriceStep DEF IInv
<1> QED
  BY <1>1, <1>2, PTL DEF Spec

-----------------------------------------------------------------------------
(* Every column keeps its type, which for amounts of money says that no    *)
(* sum, deduction or rounding comes out negative.                          *)
THEOREM TypeCorrect == Spec => []TypeOK
BY Invariance, PTL DEF IInv

(* No pay rule pays less for more minutes: break, minimum, overtime, the   *)
(* night's share and the weekend are each monotone, and rounding is.       *)
THEOREM LongerTheorem == Spec => []LongerPaysNoLess
<1>1. TypeOK => LongerPaysNoLess
  <2> SUFFICES ASSUME TypeOK, NEW m \in Minutes, NEW n \in Minutes, m <= n
               PROVE  CalculatePay(OfMinutes(m), shift, payRule).amount
                        <= CalculatePay(OfMinutes(n), shift, payRule).amount
    BY DEF LongerPaysNoLess
  <2>1. OfMinutes(m) \in Nat /\ OfMinutes(n) \in Nat /\ OfMinutes(m) <= OfMinutes(n)
    BY PricingAssumption DEF PricingAssumption, OfMinutes
  <2>2. shift \in Shifts /\ payRule \in PayRules
    BY DEF TypeOK
  <2> DEFINE p == PayableHours(OfMinutes(m), payRule)
             q == PayableHours(OfMinutes(n), payRule)
  <2>3. p \in Nat /\ q \in Nat /\ p <= q
    BY <2>1, <2>2, PayableMonotone
  <2>4. PayableAmount(p, shift, payRule) <= PayableAmount(q, shift, payRule)
    BY <2>2, <2>3, AmountMonotone
  <2> QED
    BY <2>4 DEF CalculatePay
<1> QED
  BY <1>1, TypeCorrect, PTL

(* For every contract, and however binary fractions come out, more time is *)
(* billed no less, or less by at most the grace.                           *)
THEOREM WithinGraceTheorem == Spec => []LongerBilledWithinGrace
<1>1. TypeOK => LongerBilledWithinGrace
  <2> DEFINE lineTime(minute) == OfHours(RoundHours(OfMinutes(minute)))
  <2> SUFFICES ASSUME TypeOK, NEW m \in Minutes, NEW n \in Minutes, m <= n
               PROVE  BillableTime(lineTime(m), contract)
                        <= BillableTime(lineTime(n), contract) + OfMinutes(contract.grace)
    BY DEF LongerBilledWithinGrace
  <2>1. OfMinutes(m) \in Nat /\ OfMinutes(n) \in Nat /\ OfMinutes(m) <= OfMinutes(n)
    BY PricingAssumption DEF PricingAssumption, OfMinutes
  <2>2. lineTime(m) \in Nat /\ lineTime(n) \in Nat /\ lineTime(m) <= lineTime(n)
    BY <2>1, RoundingIsNat, RoundingMonotone DEF OfHours
  <2> HIDE DEF lineTime
  <2> QED
    BY <2>2, BillAlmostMonotone DEF TypeOK
<1> QED
  BY <1>1, TypeCorrect, PTL

(* The pay of a batch can be computed again from the hours the timesheet   *)
(* kept, whether payroll or an invoice froze them, under the rule and for  *)
(* the schedule of the day it was taken.                                   *)
THEOREM RecomputableTheorem == Spec => []RecomputableFromSnapshot
<1>1. IInv => RecomputableFromSnapshot
  BY DEF IInv, RuleKept, RecomputableFromSnapshot
<1> QED
  BY <1>1, Invariance, PTL

(* A finalised invoice's lines add up to its total until another contract  *)
(* rule matches.                                                           *)
THEOREM LinesTheorem == Spec => []LinesAddUp
<1>1. IInv => LinesAddUp
  BY DEF IInv, PriceKept, LinesAddUp
<1> QED
  BY <1>1, Invariance, PTL

(* What a payroll batch pays for a timesheet never changes.                *)
THEOREM FixedTheorem == Spec => BatchedPayFixed
<1>1. IInv /\ IInv' /\ [Next]_vars => [pay # NoPay => BatchPay' = BatchPay]_vars
  <2> SUFFICES ASSUME IInv, IInv', [Next]_vars, pay # NoPay PROVE BatchPay' = BatchPay
    OBVIOUS
  <2>1. pay' = pay
    BY DEF Next, vars, history, MoveShift, UpdateApprovedTimes, UpdateAsAdmin, Submit, Resubmit, LeaveOut, CreateInvoiceBatch,
           CreatePayrollBatch, FinaliseInvoice, UpsertPayRule, ChangeContract
  <2>2. pay.hours # None
    BY DEF IInv, RuleKept
  <2> QED
    BY <2>1, <2>2 DEF BatchPay
<1> QED
  BY <1>1, Invariance, PTL DEF Spec, BatchedPayFixed

(* Payroll takes a timesheet for the minutes approved when it is taken,    *)
(* whoever froze its hours.                                                *)
THEOREM ApprovedTimeTheorem == Spec => PaidForApprovedTime
<1>1. IInv /\ [Next]_vars =>
        [pay = NoPay /\ pay' # NoPay => hours' = RoundHours(OfMinutes(minutes))]_vars
  <2> SUFFICES ASSUME IInv, [Next]_vars, pay = NoPay, pay' # NoPay
               PROVE  hours' = RoundHours(OfMinutes(minutes))
    OBVIOUS
  <2>1. CreatePayrollBatch
    BY DEF Next, vars, history, MoveShift, UpdateApprovedTimes, UpdateAsAdmin, Submit, Resubmit, LeaveOut, CreateInvoiceBatch,
           FinaliseInvoice, UpsertPayRule, ChangeContract
  <2> QED
    BY <2>1 DEF CreatePayrollBatch, Frozen, IInv, FrozenTogether
<1> QED
  BY <1>1, Invariance, PTL DEF Spec, PaidForApprovedTime
==============================================================================
