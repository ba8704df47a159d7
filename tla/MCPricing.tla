------------------------------ MODULE MCPricing ------------------------------
(* A night shift before and at a weekend, pay rules with and without each  *)
(* premium, and contracts that round.                                      *)
EXTENDS Pricing

MCMinutes == {0, 39, 69, 70, 498}

MCShifts == {[from |-> 1200, to |-> 1680, weekend |-> FALSE],
             [from |-> 320, to |-> 420, weekend |-> TRUE]}

Plain == [unpaidBreak |-> 0, minimum |-> None, overtimeAfter |-> None, overtimePay |-> 100,
          night |-> None, nightPay |-> 100, weekendPay |-> 100]

MCPayRules ==
  {Plain,
   [Plain EXCEPT !.unpaidBreak = 20, !.minimum = 60],
   [Plain EXCEPT !.overtimeAfter = 100, !.overtimePay = 50, !.night = [from |-> 1320, to |-> 360],
                 !.nightPay = 150],
   [Plain EXCEPT !.overtimeAfter = 25, !.overtimePay = 200, !.weekendPay = 200,
                 !.night = [from |-> 0, to |-> 360], !.nightPay = 50]}

Flat == [deduction |-> 0, roundUpTo |-> 0, grace |-> 0, minimum |-> None, rate |-> 2000,
         callOutFee |-> 0]

BySixMinutes == [Flat EXCEPT !.roundUpTo = 6]
Quarterly == [Flat EXCEPT !.roundUpTo = 15, !.grace = 6, !.deduction = 25]

(* What the code computes for these durations: 8.3 * 60 / 6 comes out      *)
(* above 83, and 60 - (1.15 - 0.25) * 60 above 6.                          *)
MCAbove == {<<OfHours(830), BySixMinutes>>}
MCBeyond == {<<OfHours(115), Quarterly>>}

MCContracts ==
  {Flat,
   BySixMinutes, Quarterly,
   [Flat EXCEPT !.minimum = 100, !.callOutFee = 500]}
==============================================================================
