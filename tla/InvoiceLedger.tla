---------------------------- MODULE InvoiceLedger ----------------------------
(***************************************************************************)
(* What invoicing promises about a company's books, with no clerk, payer   *)
(* or save() in sight: an invoice is entered once, under the next number   *)
(* of its company, and its entry stands; it receives payments up to its    *)
(* amount, and counts as paid when they cover it.                          *)
(*                                                                         *)
(* The promise ends where the code's does: for the entry of an invoice     *)
(* that is contested before it is entered, and for the payments of one     *)
(* that is crowded.  One thing holds even then: no number is used twice.   *)
(*                                                                         *)
(* An entry is not chosen from a set of entries but constrained after the  *)
(* step, since a contested invoice may come to have any number.            *)
(***************************************************************************)
EXTENDS Integers, FiniteSets

CONSTANTS
  Invoices,   \* the invoices the companies may have
  CompanyOf,  \* whose invoice it is
  Payments,   \* amounts that may be paid
  None        \* no amount yet

VARIABLES
  entry,      \* [Invoices -> the number and amount in the books]
  received,   \* [Invoices -> what has been paid]
  paid,       \* [Invoices -> BOOLEAN]: counts as paid
  contested,  \* invoices whose entry may be written over
  crowded     \* invoices that may be overpaid

vars == <<entry, received, paid, contested, crowded>>

Blank == [number |-> 0, net |-> None]

Entered(k) == {i \in Invoices : CompanyOf[i] = k /\ entry[i] # Blank}

Init ==
  /\ entry = [i \in Invoices |-> Blank]
  /\ received = [i \in Invoices |-> 0]
  /\ paid = [i \in Invoices |-> FALSE]
  /\ contested = {}
  /\ crowded = {}

(* i, and no other invoice, gets an amount and a number nobody else has.   *)
Write(i) ==
  /\ entry' = [entry EXCEPT ![i] = [number |-> entry'[i].number, net |-> entry'[i].net]]
  /\ entry'[i].number \in Nat \ {0} /\ entry'[i].net \in Nat
  /\ \A j \in Invoices \ {i} : entry[j].number # entry'[i].number

(* While no invoice is contested, the numbers of a company have no gap.    *)
Enter(i) ==
  /\ entry[i] = Blank
  /\ Write(i)
  /\ contested = {} => entry'[i].number = Cardinality(Entered(CompanyOf[i])) + 1
  /\ UNCHANGED <<received, paid, contested, crowded>>

Receive(i, amount) ==
  /\ entry[i] # Blank
  /\ amount > 0
  /\ i \notin contested \cup crowded => received[i] + amount <= entry[i].net
  /\ received' = [received EXCEPT ![i] = @ + amount]
  /\ UNCHANGED <<entry, paid, contested, crowded>>

Settle(i) ==
  /\ entry[i] # Blank
  /\ i \notin contested => received[i] >= entry[i].net
  /\ paid' = [paid EXCEPT ![i] = TRUE]
  /\ UNCHANGED <<entry, received, contested, crowded>>

(* A paid invoice may come to look unpaid again.                           *)
Reopen(i) ==
  /\ paid' = [paid EXCEPT ![i] = FALSE]
  /\ UNCHANGED <<entry, received, contested, crowded>>

Contest(i) ==
  /\ entry[i] = Blank
  /\ contested' = contested \cup {i}
  /\ UNCHANGED <<entry, received, paid, crowded>>

Crowd(i) ==
  /\ entry[i] # Blank
  /\ crowded' = crowded \cup {i}
  /\ UNCHANGED <<entry, received, paid, contested>>

(* A contested invoice is entered again, or is found paid or unpaid.       *)
Rewrite(i) ==
  /\ i \in contested
  /\ Write(i) \/ UNCHANGED entry
  /\ \E p \in BOOLEAN : paid' = [paid EXCEPT ![i] = p]
  /\ UNCHANGED <<received, contested, crowded>>

Next ==
  \E i \in Invoices :
    \/ Enter(i) \/ Settle(i) \/ Reopen(i) \/ Contest(i) \/ Crowd(i) \/ Rewrite(i)
    \/ \E amount \in Payments : Receive(i, amount)

Spec == Init /\ [][Next]_vars
==============================================================================
