----------------------------- MODULE LedgerProofs -----------------------------
(***************************************************************************)
(* Invoicing implements InvoiceLedger, for any companies, batches, clerks, *)
(* payers and amounts: the clerks and payers of InvoicingProofs keep the   *)
(* books.                                                                  *)
(***************************************************************************)
EXTENDS InvoicingProofs

-----------------------------------------------------------------------------
(* The unique index keeps what it says, contested batches included.        *)

NumbersDiffer ==
  \A a, b \in Batches : a # b /\ batch[a].number # 0 => batch[a].number # batch[b].number

LEMMA NextDiffer == ASSUME Inv, NumbersDiffer, [Next]_vars PROVE NumbersDiffer'
<1>1. CASE batch' = batch
  BY <1>1 DEF NumbersDiffer
<1>2. ASSUME NEW b \in Batches, CreateBatch(b) PROVE \A a \in Batches : batch'[a].number = batch[a].number
  BY <1>2 DEF CreateBatch, Inv, TypeOK, Row
<1>3. ASSUME NEW c \in Clerks, SaveBatch(c), batch' # batch PROVE NumbersDiffer'
  <2> DEFINE b == order[c].batch
             n == batch'[b].number
  <2>0. /\ b \in Batches /\ ~Collides(c) /\ \A a \in Batches \ {b} : batch'[a] = batch[a]
        /\ batch'[b] = Updated(batch[b], entity[c].row, diff[c]) /\ n # 0
    BY <1>3, SaveWrites
  <2>1. n = (IF "number" \in diff[c] THEN entity[c].row.number ELSE batch[b].number)
    BY <2>0 DEF Updated
  <2>2. \A a \in Batches \ {b} : batch[a].number # n
    <3>1. CASE "number" \in diff[c]
      BY <2>0, <2>1, <3>1 DEF Collides
    <3>2. CASE "number" \notin diff[c]
      BY <2>0, <2>1, <3>2 DEF NumbersDiffer
    <3> QED
      BY <3>1, <3>2
  <2> QED
    BY <2>0, <2>2 DEF NumbersDiffer
<1>4. CASE \E b \in Batches : CreateBatch(b)
  BY <1>2, <1>4 DEF NumbersDiffer
<1> QED
  BY BatchSteps, <1>1, <1>3, <1>4 DEF vars

LEMMA DifferHolds == Spec => []NumbersDiffer
<1>1. Init => NumbersDiffer
  BY DEF Init, NumbersDiffer, NewRow
<1> QED
  BY <1>1, NextDiffer, InvHolds, PTL DEF Spec

-----------------------------------------------------------------------------
(* The books as InvoiceLedger sees them.                                   *)

Entry == [b \in Batches |-> [number |-> batch[b].number, net |-> batch[b].net]]
Paid == [b \in Batches |-> batch[b].status = "paid" \/ sheets[b].paid]
Contested == {b \in Batches : contested[b]}
Crowded == {b \in Batches : crowded[b]}
Blank == [number |-> 0, net |-> None]

BooksInv == PaidInv /\ FitInv /\ NumberInv /\ NumbersDiffer

LEMMA BooksHold == Spec => []BooksInv
BY PaidHolds, FitHolds, NumbersHold, DifferHolds, PTL DEF BooksInv

(* An invoice is entered when its batch leaves draft.                      *)
LEMMA EnteredWhenSettled ==
  ASSUME Inv, NEW b \in Batches PROVE Entry[b] # Blank <=> Settled(b)
BY DEF Inv, Documented, Entry, Blank

LEMMA EnteredAreNumbered ==
  ASSUME Inv, NEW k PROVE {b \in Batches : CompanyOf[b] = k /\ Entry[b] # Blank} = Numbered(k)
BY EnteredWhenSettled DEF Inv, Documented, Numbered

(* A save changes the entry and the payment mark of its batch alone.       *)
LEMMA SaveKeepsOthers ==
  ASSUME Inv, NEW c \in Clerks, SaveBatch(c)
  PROVE  LET b == order[c].batch IN
         /\ b \in Batches
         /\ Entry' = [Entry EXCEPT ![b] = [number |-> batch'[b].number, net |-> batch'[b].net]]
         /\ Paid' = [Paid EXCEPT ![b] = batch'[b].status = "paid" \/ sheets[b].paid]
         /\ UNCHANGED <<sheets, received, Contested, Crowded>>
<1> PICK b \in Batches : b = order[c].batch
  BY SaveWrites
<1>1. \A a \in Batches \ {b} : batch'[a] = batch[a]
  BY SaveWrites
<1>2. UNCHANGED <<sheets, received, contested, crowded>>
  BY DEF SaveBatch, history
<1>3. Entry' = [Entry EXCEPT ![b] = [number |-> batch'[b].number, net |-> batch'[b].net]]
  BY <1>1 DEF Entry
<1>4. Paid' = [Paid EXCEPT ![b] = batch'[b].status = "paid" \/ sheets[b].paid]
  BY <1>1, <1>2 DEF Paid
<1> QED
  BY <1>2, <1>3, <1>4 DEF Contested, Crowded

(* The actions of the ledger, in terms of the books.                       *)
LEMMA LedgerActions ==
  ASSUME NEW b \in Batches
  PROVE  /\ Ledger!Write(b) <=>
              /\ Entry' = [Entry EXCEPT ![b] = [number |-> Entry'[b].number, net |-> Entry'[b].net]]
              /\ Entry'[b].number \in Nat \ {0} /\ Entry'[b].net \in Nat
              /\ \A a \in Batches \ {b} : Entry[a].number # Entry'[b].number
         /\ Ledger!Enter(b) <=>
              /\ Entry[b] = Blank
              /\ Ledger!Write(b)
              /\ Contested = {} =>
                   Entry'[b].number =
                     Cardinality({a \in Batches : CompanyOf[a] = CompanyOf[b] /\ Entry[a] # Blank}) + 1
              /\ UNCHANGED <<received, Paid, Contested, Crowded>>
         /\ Ledger!Settle(b) <=>
              /\ Entry[b] # Blank
              /\ b \notin Contested => received[b] >= Entry[b].net
              /\ Paid' = [Paid EXCEPT ![b] = TRUE]
              /\ UNCHANGED <<Entry, received, Contested, Crowded>>
         /\ Ledger!Reopen(b) <=>
              /\ Paid' = [Paid EXCEPT ![b] = FALSE]
              /\ UNCHANGED <<Entry, received, Contested, Crowded>>
         /\ Ledger!Contest(b) <=>
              /\ Entry[b] = Blank
              /\ Contested' = Contested \cup {b}
              /\ UNCHANGED <<Entry, received, Paid, Crowded>>
         /\ Ledger!Crowd(b) <=>
              /\ Entry[b] # Blank
              /\ Crowded' = Crowded \cup {b}
              /\ UNCHANGED <<Entry, received, Paid, Contested>>
         /\ Ledger!Rewrite(b) <=>
              /\ b \in Contested
              /\ Ledger!Write(b) \/ UNCHANGED Entry
              /\ \E m \in BOOLEAN : Paid' = [Paid EXCEPT ![b] = m]
              /\ UNCHANGED <<received, Contested, Crowded>>
<1>1. \A S : Ledger!Cardinality(S) = Cardinality(S)
  BY DEF Ledger!Cardinality, Cardinality
<1>2. Ledger!Blank = Blank
  BY DEF Ledger!Blank, Blank
<1> QED
  BY <1>1, <1>2, Zenon DEF Entry, Paid, Contested, Crowded, Ledger!Write, Ledger!Enter,
     Ledger!Entered, Ledger!Settle, Ledger!Reopen, Ledger!Contest, Ledger!Crowd, Ledger!Rewrite

LEMMA LedgerReceive ==
  ASSUME NEW b \in Batches, NEW amount
  PROVE  Ledger!Receive(b, amount) <=>
              /\ Entry[b] # Blank
              /\ amount > 0
              /\ b \notin Contested \cup Crowded => received[b] + amount <= Entry[b].net
              /\ received' = [received EXCEPT ![b] = @ + amount]
              /\ UNCHANGED <<Entry, Paid, Contested, Crowded>>
<1>1. Ledger!Blank = Blank
  BY DEF Ledger!Blank, Blank
<1> QED
  BY <1>1, Zenon DEF Ledger!Receive, Entry, Paid, Contested, Crowded

-----------------------------------------------------------------------------
(* What the steps of Invoicing are in the books.                           *)

(* A save enters an invoice, settles or reopens it, or rewrites it.        *)
LEMMA SaveInBooks ==
  ASSUME BooksInv, NEW c \in Clerks, SaveBatch(c)
  PROVE  [Ledger!Next]_(Ledger!vars)
<1> PICK b \in Batches : b = order[c].batch
  BY SaveWrites DEF BooksInv, PaidInv
<1> USE DEF BooksInv, PaidInv
<1>1. CASE batch' = batch
  <2>1. UNCHANGED <<Entry, Paid, received, Contested, Crowded>>
    BY <1>1 DEF SaveBatch, history, Entry, Paid, Contested, Crowded
  <2> QED
    BY <2>1 DEF Ledger!vars, Entry, Paid, Contested, Crowded
<1>2. CASE batch' # batch
  <2>1. /\ Entry' = [Entry EXCEPT ![b] = [number |-> batch'[b].number, net |-> batch'[b].net]]
        /\ Paid' = [Paid EXCEPT ![b] = batch'[b].status = "paid" \/ sheets[b].paid]
        /\ UNCHANGED <<received, sheets, Contested, Crowded>>
    BY SaveKeepsOthers
  <2>2. /\ pc[c] = "diffed" /\ ~Collides(c) /\ entity[c].row \in Row
        /\ batch'[b] = Updated(batch[b], entity[c].row, diff[c]) /\ batch'[b] \in Row
        /\ batch'[b].number # 0 /\ batch'[b].net # None
        /\ ~contested[b] /\ Settled(b) =>
             batch'[b].number = batch[b].number /\ batch'[b].net = batch[b].net
    BY <1>2, SaveWrites
  <2>3. Entry'[b] = [number |-> batch'[b].number, net |-> batch'[b].net]
    BY DEF Entry
  <2>4. Ledger!Write(b)
    <3>1. batch'[b].number \in Nat \ {0} /\ batch'[b].net \in Nat
      BY <2>2, InvoicingAssumption DEF Row
    <3>2. \A a \in Batches \ {b} : batch'[a] = batch[a] /\ Entry[a].number = batch[a].number
      BY SaveWrites DEF Entry
    <3>3. NumbersDiffer'
      BY NextDiffer DEF Next, Clerk
    <3>4. \A a \in Batches \ {b} : Entry[a].number # Entry'[b].number
      BY <2>2, <2>3, <3>2, <3>3 DEF NumbersDiffer
    <3>5. Entry'[b].number = batch'[b].number /\ Entry'[b].net = batch'[b].net
      BY <2>3
    <3>6. Entry' = [Entry EXCEPT ![b] = [number |-> Entry'[b].number, net |-> Entry'[b].net]]
      BY <2>1, <3>5, Zenon
    <3> QED
      BY <3>1, <3>4, <3>5, <3>6, LedgerActions
  <2>5. CASE contested[b]
    <3>1. Ledger!Rewrite(b)
      BY <2>1, <2>4, <2>5, LedgerActions DEF Contested
    <3> QED
      BY <3>1 DEF Ledger!Next
  <2>6. CASE ~contested[b] /\ Settled(b)
    <3>1. Entry' = Entry
      BY <2>1, <2>2, <2>6 DEF Entry
    <3>2. PaidInv'
      BY NextPaid DEF Next, Clerk
    <3>3. received[b] >= Entry[b].net \/ ~(batch'[b].status = "paid" \/ sheets[b].paid)
      BY <2>1, <2>2, <2>6, <3>2 DEF SettledBeforePaid, Entry, SaveBatch, history
    <3>4. Entry[b] # Blank
      BY <2>6, EnteredWhenSettled
    <3>5. Ledger!Settle(b) \/ Ledger!Reopen(b)
      BY <2>1, <3>1, <3>3, <3>4, LedgerActions
    <3> QED
      BY <3>5 DEF Ledger!Next
  <2>7. CASE ~contested[b] /\ ~Settled(b)
    <3>1. Entry[b] = Blank /\ batch[b].number = 0
      BY <2>7, EnteredWhenSettled DEF Inv, Documented
    <3>2. order[c].status = "finalised" /\ diff[c] = Columns
      BY <2>2, <2>7 DEF Inv, ClerksPlaced, LaterSettled, Later, Compared
    <3>3. /\ batch'[b].status = "finalised" /\ batch'[b].number = entity[c].row.number
          /\ "number" \in diff[c]
      BY <2>2, <3>2 DEF Updated, Columns, Inv, Prepared
    <3>4. ~sheets[b].paid /\ batch[b].status # "paid"
      BY <2>7 DEF PaidFor, Settled
    <3>5. Paid' = Paid
      BY <2>1, <3>3, <3>4 DEF Paid
    <3>6. ASSUME Contested = {}
          PROVE  Entry'[b].number =
                   Cardinality({a \in Batches : CompanyOf[a] = CompanyOf[b] /\ Entry[a] # Blank}) + 1
      <4>1. Calm /\ CompanyOf[b] \in Companies
        BY <3>6, InvoicingAssumption DEF Calm, Contested
      <4>2. entity[c].row.number \notin Given(CompanyOf[b])
        BY <2>2, <3>1, <3>3 DEF Given, Numbered, Collides
      <4>3. entity[c].row.number = Cardinality(Numbered(CompanyOf[b])) + 1
        BY <2>2, <3>2, <4>1, <4>2, UnusedIsNext
      <4>4. {a \in Batches : CompanyOf[a] = CompanyOf[b] /\ Entry[a] # Blank}
              = Numbered(CompanyOf[b])
        BY EnteredAreNumbered, Zenon
      <4>5. Entry'[b].number = entity[c].row.number
        BY <2>3, <3>3
      <4> QED
        BY <4>3, <4>4, <4>5
    <3>7. Ledger!Enter(b)
      BY <2>1, <2>4, <3>1, <3>5, <3>6, LedgerActions
    <3> QED
      BY <3>7 DEF Ledger!Next
  <2> QED
    BY <2>5, <2>6, <2>7
<1> QED
  BY <1>1, <1>2

(* Saving the timesheets settles an invoice or reopens it.                 *)
LEMMA SheetsInBooks ==
  ASSUME BooksInv, NEW c \in Clerks, SaveSheets(c)
  PROVE  Ledger!Next
<1> USE DEF BooksInv, PaidInv
<1> PICK b \in Batches : b = order[c].batch
  BY DEF SaveSheets, Inv, ClerksPlaced
<1>1. /\ UNCHANGED <<batch, received, contested, crowded>>
      /\ sheets' = [sheets EXCEPT ![b] = [invoiced |-> TRUE, paid |-> order[c].status = "paid"]]
      /\ Settled(b)
  BY DEF SaveSheets, history, Inv, ClerksPlaced, LaterSettled
<1>2. UNCHANGED <<Entry, received, Contested, Crowded>> /\ Entry[b] # Blank
  BY <1>1, EnteredWhenSettled DEF Entry, Contested, Crowded
<1>3. /\ sheets'[b].paid = (order[c].status = "paid")
      /\ \A a \in Batches \ {b} : sheets'[a] = sheets[a]
  BY <1>1 DEF Inv, TypeOK
<1>4. Paid' = [Paid EXCEPT ![b] = batch[b].status = "paid" \/ order[c].status = "paid"]
  BY <1>1, <1>3 DEF Paid
<1>5. PaidInv'
  BY NextPaid DEF Next, Clerk
<1>6. b \notin Contested /\ (batch[b].status = "paid" \/ order[c].status = "paid") =>
        received[b] >= Entry[b].net
  BY <1>1, <1>3, <1>5 DEF SettledBeforePaid, Contested, Entry
<1>7. Ledger!Settle(b) \/ Ledger!Reopen(b)
  BY <1>2, <1>4, <1>6, LedgerActions
<1> QED
  BY <1>7 DEF Ledger!Next

(* A finalise request that finds another at work contests a draft.         *)
LEMMA LoadInBooks ==
  ASSUME BooksInv, NEW c \in Clerks, NEW b \in Batches, NEW f \in Statuses, NEW t \in Statuses,
         LoadStep(c, b, f, t)
  PROVE  [Ledger!Next]_(Ledger!vars)
<1>1. UNCHANGED <<Entry, received, Paid, Crowded>>
  BY DEF LoadStep, Load, rows, Entry, Paid, Crowded
<1>2. CASE contested' = contested
  BY <1>1, <1>2 DEF Ledger!vars, Entry, Paid, Contested, Crowded
<1>3. CASE contested' # contested
  <2>1. contested' = [contested EXCEPT ![b] = TRUE] /\ batch[b].status = "draft"
    BY <1>3 DEF LoadStep, Load, BooksInv, PaidInv, Inv, TypeOK
  <2>2. Contested' = Contested \cup {b}
    BY <2>1 DEF Contested, BooksInv, PaidInv, Inv, TypeOK
  <2>3. Entry[b] = Blank
    BY <2>1, EnteredWhenSettled DEF BooksInv, PaidInv, Settled
  <2>4. Ledger!Contest(b)
    BY <1>1, <2>2, <2>3, LedgerActions
  <2> QED
    BY <2>4 DEF Ledger!Next
<1> QED
  BY <1>2, <1>3

(* A payer who looks at the total while another does crowds an invoice.    *)
LEMMA LookUpInBooks ==
  ASSUME BooksInv, NEW p \in Payers, NEW b \in Batches, NEW amount \in Payments,
         PayStep(p, b, amount)
  PROVE  [Ledger!Next]_(Ledger!vars)
<1>1. UNCHANGED <<Entry, received, Paid, Contested>>
  BY DEF PayStep, CheckPayment, rows, Entry, Paid, Contested
<1>2. CASE crowded' = crowded
  BY <1>1, <1>2 DEF Ledger!vars, Entry, Paid, Contested, Crowded
<1>3. CASE crowded' # crowded
  <2>1. crowded' = [crowded EXCEPT ![b] = TRUE] /\ Settled(b)
    BY <1>3 DEF PayStep, CheckPayment, Settled, BooksInv, PaidInv, Inv, TypeOK
  <2>2. Crowded' = Crowded \cup {b}
    BY <2>1 DEF Crowded, BooksInv, PaidInv, Inv, TypeOK
  <2>3. Entry[b] # Blank
    BY <2>1, EnteredWhenSettled DEF BooksInv, PaidInv
  <2>4. Ledger!Crowd(b)
    BY <1>1, <2>2, <2>3, LedgerActions
  <2> QED
    BY <2>4 DEF Ledger!Next
<1> QED
  BY <1>2, <1>3

(* A payment that is inserted is received, and fits.                       *)
LEMMA InsertInBooks ==
  ASSUME BooksInv, NEW p \in Payers, InsertPayment(p)
  PROVE  Ledger!Next
<1> USE DEF BooksInv, PaidInv
<1> PICK b \in Batches, amount \in Payments :
      /\ b = payment[p].batch /\ amount = payment[p].amount /\ amount > 0 /\ Settled(b)
  BY DEF InsertPayment, Go, Inv, PayersPlaced
<1>1. /\ UNCHANGED <<Entry, Paid, Contested, Crowded>>
      /\ received' = [received EXCEPT ![b] = @ + amount]
  BY DEF InsertPayment, history, Entry, Paid, Contested, Crowded
<1>2. b \notin Contested \cup Crowded => received[b] + amount <= Entry[b].net
  BY DEF FitInv, PaymentFits, InsertPayment, Go, Contested, Crowded, Entry
<1>3. Entry[b] # Blank
  BY EnteredWhenSettled
<1>4. Ledger!Receive(b, amount)
  BY <1>1, <1>2, <1>3, LedgerReceive
<1> QED
  BY <1>4 DEF Ledger!Next

(* Every other step leaves the books alone.                                *)
LEMMA OthersStutter ==
  ASSUME BooksInv,
         \/ \E b \in Batches : CreateBatch(b)
         \/ \E c \in Clerks : SetMetadata(c) \/ DiffBatch(c) \/ Abandon(c)
         \/ UNCHANGED vars
  PROVE  UNCHANGED Ledger!vars
<1>1. ASSUME NEW b \in Batches, CreateBatch(b)
      PROVE  UNCHANGED <<Entry, Paid, received, Contested, Crowded>>
  <2>1. \A a \in Batches : /\ batch'[a].number = batch[a].number /\ batch'[a].net = batch[a].net
                           /\ batch'[a].status = "paid" <=> batch[a].status = "paid"
    BY <1>1 DEF CreateBatch, BooksInv, PaidInv, Inv, TypeOK, Row
  <2>2. UNCHANGED <<sheets, received, contested, crowded>>
    BY <1>1 DEF CreateBatch, history
  <2> QED
    BY <2>1, <2>2 DEF Entry, Paid, Contested, Crowded
<1>2. ASSUME UNCHANGED <<rows, history>>
      PROVE  UNCHANGED <<Entry, Paid, received, Contested, Crowded>>
  BY <1>2 DEF rows, history, Entry, Paid, Contested, Crowded
<1>3. (\E c \in Clerks : SetMetadata(c) \/ DiffBatch(c) \/ Abandon(c)) \/ UNCHANGED vars =>
        UNCHANGED <<rows, history>>
  BY DEF SetMetadata, DiffBatch, Abandon, vars, rows, history
<1>4. UNCHANGED <<Entry, Paid, received, Contested, Crowded>>
  BY <1>1, <1>2, <1>3
<1> QED
  BY <1>4 DEF Ledger!vars, Entry, Paid, Contested, Crowded

(* Clerks and payers without a lock keep the books of the abstract ledger: *)
(* each save, timesheet update and payment is one of its entries, and each *)
(* invoice is entered once and under the next number of its company unless *)
(* two requests finalised the same draft.                                  *)
THEOREM LedgerTheorem == Spec => ImplementsLedger
<1>1. Init => Ledger!Init
  <2> SUFFICES ASSUME Init PROVE Ledger!Init
    OBVIOUS
  <2>1. /\ Entry = [b \in Batches |-> [number |-> 0, net |-> None]]
        /\ Paid = [b \in Batches |-> FALSE]
        /\ Contested = {} /\ Crowded = {} /\ received = [b \in Batches |-> 0]
    BY DEF Init, NewRow, Entry, Paid, Contested, Crowded
  <2> QED
    BY <2>1 DEF Ledger!Init, Ledger!Blank, Entry, Paid, Contested, Crowded
<1>2. BooksInv /\ [Next]_vars => [Ledger!Next]_(Ledger!vars)
  BY StepCases, SaveInBooks, SheetsInBooks, LoadInBooks, LookUpInBooks, InsertInBooks, OthersStutter
<1> QED
  BY <1>1, <1>2, BooksHold, PTL DEF Spec, ImplementsLedger, Ledger!Spec

-----------------------------------------------------------------------------
(* What the ledger promises: it is strong enough to imply, alone, what     *)
(* the run checks of Invoicing's rows.                                     *)

NumberedBy(k) == {b \in Batches : CompanyOf[b] = k /\ Entry[b] # Blank}

EntriesTyped ==
  /\ received \in [Batches -> Nat]
  /\ \A b \in Batches :
       Entry[b] # Blank => Entry[b].number \in Nat \ {0} /\ Entry[b].net \in Nat

PaymentsEntered == \A b \in Batches : received[b] > 0 => Entry[b] # Blank

WithinAmount ==
  \A b \in Batches :
    received[b] > 0 /\ b \notin Contested \cup Crowded => received[b] <= Entry[b].net

PaidInFull ==
  \A b \in Batches : Paid[b] /\ b \notin Contested =>
    Entry[b] # Blank /\ received[b] >= Entry[b].net

InSequence ==
  Contested = {} =>
    \A k \in Companies : {Entry[b].number : b \in NumberedBy(k)} = 1 .. Cardinality(NumberedBy(k))

LedgerInv == EntriesTyped /\ PaymentsEntered /\ WithinAmount /\ PaidInFull /\ InSequence

LEMMA LedgerCases ==
  ASSUME [Ledger!Next]_(Ledger!vars)
  PROVE  \/ UNCHANGED <<Entry, received, Paid, Contested, Crowded>>
         \/ \E b \in Batches :
              \/ Ledger!Enter(b) \/ Ledger!Settle(b) \/ Ledger!Reopen(b)
              \/ Ledger!Contest(b) \/ Ledger!Crowd(b) \/ Ledger!Rewrite(b)
              \/ \E amount \in Payments : Ledger!Receive(b, amount)
BY Zenon DEF Ledger!Next, Ledger!vars, Entry, Paid, Contested, Crowded

LEMMA InitLedger == Ledger!Init => LedgerInv
<1> SUFFICES ASSUME Ledger!Init PROVE LedgerInv
  OBVIOUS
<1>1. /\ Entry = [b \in Batches |-> Blank] /\ received = [b \in Batches |-> 0]
      /\ Paid = [b \in Batches |-> FALSE] /\ Contested = {} /\ Crowded = {}
  BY DEF Ledger!Init, Ledger!Blank, Blank, Entry, Paid, Contested, Crowded
<1>2. EntriesTyped /\ PaymentsEntered /\ WithinAmount /\ PaidInFull
  BY <1>1 DEF EntriesTyped, PaymentsEntered, WithinAmount, PaidInFull
<1>3. \A k : NumberedBy(k) = {}
  BY <1>1 DEF NumberedBy
<1>4. InSequence
  BY <1>3, FS_EmptySet DEF InSequence
<1> QED
  BY <1>2, <1>4 DEF LedgerInv

(* Writing an entry changes no other, and the entry is then not blank.     *)
LEMMA WriteOne ==
  ASSUME NEW b \in Batches, Ledger!Write(b)
  PROVE  /\ \A a \in Batches \ {b} : Entry'[a] = Entry[a]
         /\ Entry'[b].number \in Nat \ {0} /\ Entry'[b].net \in Nat
         /\ Entry'[b] # Blank
<1>1. Entry'[b].number \in Nat \ {0} /\ Entry'[b].net \in Nat
  BY LedgerActions
<1>2. Entry' = [Entry EXCEPT ![b] = [number |-> Entry'[b].number, net |-> Entry'[b].net]]
  BY LedgerActions
<1>3. \A a \in Batches \ {b} : Entry'[a] = Entry[a]
  BY <1>2 DEF Entry
<1> QED
  BY <1>1, <1>3 DEF Blank

LEMMA MarkOne ==
  ASSUME NEW b \in Batches, NEW m, Paid' = [Paid EXCEPT ![b] = m]
  PROVE  Paid'[b] = m /\ \A a \in Batches \ {b} : Paid'[a] = Paid[a]
BY DEF Paid

LEMMA NextLedger ==
  ASSUME LedgerInv, [Ledger!Next]_(Ledger!vars)
  PROVE  LedgerInv'
<1> USE DEF LedgerInv
<1>1. CASE UNCHANGED <<Entry, received, Paid, Contested, Crowded>>
  BY <1>1 DEF EntriesTyped, PaymentsEntered, WithinAmount, PaidInFull, InSequence, NumberedBy
<1>2. ASSUME NEW b \in Batches, Ledger!Enter(b) PROVE LedgerInv'
  <2>1. /\ Entry[b] = Blank /\ Ledger!Write(b)
        /\ Contested = {} => Entry'[b].number = Cardinality(NumberedBy(CompanyOf[b])) + 1
        /\ UNCHANGED <<received, Paid, Contested, Crowded>>
    BY <1>2, LedgerActions DEF NumberedBy
  <2>2. /\ \A a \in Batches \ {b} : Entry'[a] = Entry[a]
        /\ Entry'[b].number \in Nat \ {0} /\ Entry'[b].net \in Nat /\ Entry'[b] # Blank
    BY <2>1, WriteOne
  <2>3. EntriesTyped' /\ PaymentsEntered' /\ WithinAmount' /\ PaidInFull'
    BY <2>1, <2>2 DEF EntriesTyped, PaymentsEntered, WithinAmount, PaidInFull
  <2>4. InSequence'
    <3> SUFFICES ASSUME Contested = {}, NEW k \in Companies
                 PROVE  {Entry'[a].number : a \in NumberedBy(k)'} = 1 .. Cardinality(NumberedBy(k)')
      BY <2>1 DEF InSequence
    <3> DEFINE N == Cardinality(NumberedBy(k))
    <3>1. IsFiniteSet(NumberedBy(k)) /\ N \in Nat
      BY InvoicingAssumption, FS_Subset, FS_CardinalityType DEF NumberedBy
    <3>2. {Entry[a].number : a \in NumberedBy(k)} = 1 .. N
      BY DEF InSequence
    <3>3. CASE CompanyOf[b] # k
      <4>1. NumberedBy(k)' = NumberedBy(k) /\ \A a \in NumberedBy(k) : Entry'[a] = Entry[a]
        BY <2>2, <3>3 DEF NumberedBy
      <4> QED
        BY <3>2, <4>1
    <3>4. CASE CompanyOf[b] = k
      <4>1. /\ NumberedBy(k)' = NumberedBy(k) \cup {b} /\ b \notin NumberedBy(k)
            /\ \A a \in NumberedBy(k) : Entry'[a] = Entry[a]
        BY <2>1, <2>2, <3>4 DEF NumberedBy
      <4>2. {Entry'[a].number : a \in NumberedBy(k)'} = 1 .. N \cup {N + 1}
        BY <2>1, <3>2, <3>4, <4>1
      <4>3. Cardinality(NumberedBy(k)') = N + 1
        BY <3>1, <4>1, FS_AddElement
      <4> QED
        BY <3>1, <4>2, <4>3
    <3> QED
      BY <3>3, <3>4
  <2> QED
    BY <2>3, <2>4
<1>3. ASSUME NEW b \in Batches, Ledger!Settle(b) \/ Ledger!Reopen(b) PROVE LedgerInv'
  <2>1. /\ UNCHANGED <<Entry, received, Contested, Crowded>>
        /\ \A a \in Batches \ {b} : Paid'[a] = Paid[a]
        /\ Paid'[b] /\ b \notin Contested => Entry[b] # Blank /\ received[b] >= Entry[b].net
    <3>1. CASE Ledger!Settle(b)
      <4>1. /\ Paid' = [Paid EXCEPT ![b] = TRUE] /\ Entry[b] # Blank
            /\ b \notin Contested => received[b] >= Entry[b].net
            /\ UNCHANGED <<Entry, received, Contested, Crowded>>
        BY <3>1, LedgerActions
      <4> QED
        BY <4>1, MarkOne
    <3>2. CASE Ledger!Reopen(b)
      <4>1. /\ Paid' = [Paid EXCEPT ![b] = FALSE]
            /\ UNCHANGED <<Entry, received, Contested, Crowded>>
        BY <3>2, LedgerActions
      <4> QED
        BY <4>1, MarkOne
    <3> QED
      BY <1>3, <3>1, <3>2
  <2>2. PaidInFull'
    BY <2>1 DEF PaidInFull
  <2> QED
    BY <2>1, <2>2 DEF EntriesTyped, PaymentsEntered, WithinAmount, InSequence, NumberedBy
<1>4. ASSUME NEW b \in Batches, Ledger!Contest(b) \/ Ledger!Crowd(b) PROVE LedgerInv'
  <2>1. /\ UNCHANGED <<Entry, received, Paid>>
        /\ Contested \subseteq Contested' /\ Crowded \subseteq Crowded'
    BY <1>4, LedgerActions
  <2> QED
    BY <2>1 DEF EntriesTyped, PaymentsEntered, WithinAmount, PaidInFull, InSequence, NumberedBy
<1>5. ASSUME NEW b \in Batches, Ledger!Rewrite(b) PROVE LedgerInv'
  <2>1. /\ b \in Contested /\ UNCHANGED <<received, Contested, Crowded>>
        /\ Ledger!Write(b) \/ UNCHANGED Entry
        /\ \A a \in Batches \ {b} : Paid'[a] = Paid[a]
    <3>1. /\ b \in Contested /\ UNCHANGED <<received, Contested, Crowded>>
          /\ Ledger!Write(b) \/ UNCHANGED Entry
          /\ \E m \in BOOLEAN : Paid' = [Paid EXCEPT ![b] = m]
      BY <1>5, LedgerActions
    <3> QED
      BY <3>1, MarkOne
  <2>2. /\ \A a \in Batches \ {b} : Entry'[a] = Entry[a]
        /\ Entry'[b] # Blank => Entry'[b].number \in Nat \ {0} /\ Entry'[b].net \in Nat
        /\ Entry[b] # Blank => Entry'[b] # Blank
    BY <2>1, WriteOne DEF EntriesTyped
  <2>3. EntriesTyped' /\ PaymentsEntered' /\ InSequence'
    BY <2>1, <2>2 DEF EntriesTyped, PaymentsEntered, InSequence
  <2>4. WithinAmount'
    BY <2>1, <2>2 DEF WithinAmount
  <2>5. PaidInFull'
    BY <2>1, <2>2 DEF PaidInFull
  <2> QED
    BY <2>3, <2>4, <2>5
<1>6. ASSUME NEW b \in Batches, NEW amount \in Payments, Ledger!Receive(b, amount) PROVE LedgerInv'
  <2>1. /\ UNCHANGED <<Entry, Paid, Contested, Crowded>>
        /\ Entry[b] # Blank /\ amount \in Nat
        /\ b \notin Contested \cup Crowded => received[b] + amount <= Entry[b].net
        /\ received' = [received EXCEPT ![b] = @ + amount]
    BY <1>6, LedgerReceive, InvoicingAssumption
  <2>2. EntriesTyped' /\ PaymentsEntered' /\ InSequence'
    BY <2>1 DEF EntriesTyped, PaymentsEntered, InSequence, NumberedBy
  <2>3. /\ received[b] \in Nat /\ received'[b] = received[b] + amount
        /\ \A a \in Batches \ {b} : received'[a] = received[a]
    BY <2>1 DEF EntriesTyped
  <2>4. WithinAmount'
    BY <2>1, <2>3 DEF WithinAmount
  <2>5. PaidInFull'
    <3>1. Entry[b].net \in Nat
      BY <2>1 DEF EntriesTyped
    <3> QED
      BY <2>1, <2>3, <3>1 DEF PaidInFull
  <2> QED
    BY <2>2, <2>4, <2>5
<1> QED
  BY LedgerCases, <1>1, <1>2, <1>3, <1>4, <1>5, <1>6

LEMMA LedgerKeeps == Ledger!Spec => []LedgerInv
<1>1. LedgerInv /\ [Ledger!Next]_(Ledger!vars) => LedgerInv'
  BY NextLedger
<1> QED
  BY <1>1, InitLedger, PTL DEF Ledger!Spec

(* Whatever keeps the books of the ledger, by these clerks and payers or   *)
(* by others, settles before it pays, overpays only what is crowded, and   *)
(* numbers without a gap: the abstract specification says all of it.       *)
THEOREM PromiseTheorem ==
  Ledger!Spec => [](SettledBeforePaid /\ OverpaidOnlyTogether /\ NumbersFollowOn)
<1>1. ASSUME LedgerInv PROVE SettledBeforePaid /\ OverpaidOnlyTogether /\ NumbersFollowOn
  <2>1. \A b \in Batches : Entry[b].net = batch[b].net /\ Entry[b].number = batch[b].number
    BY DEF Entry
  <2>2. SettledBeforePaid
    BY <1>1, <2>1 DEF LedgerInv, PaidInFull, SettledBeforePaid, Paid, Contested
  <2>3. OverpaidOnlyTogether
    BY <1>1, <2>1 DEF LedgerInv, WithinAmount, OverpaidOnlyTogether, Contested, Crowded
  <2>4. \A k : NumberedBy(k) = Numbered(k)
    <3>1. \A b \in Batches : Entry[b] # Blank <=> batch[b].number # 0
      BY <1>1, <2>1 DEF LedgerInv, EntriesTyped, Blank
    <3> QED
      BY <3>1 DEF NumberedBy, Numbered
  <2>5. NumbersFollowOn
    <3> SUFFICES ASSUME \A b \in Batches : ~contested[b], NEW k \in Companies
                 PROVE  {batch[b].number : b \in Numbered(k)} = 1 .. Cardinality(Numbered(k))
      BY DEF NumbersFollowOn
    <3>1. {Entry[b].number : b \in Numbered(k)} = 1 .. Cardinality(Numbered(k))
      BY <1>1, <2>4 DEF LedgerInv, InSequence, Contested
    <3> QED
      BY <2>1, <3>1 DEF Numbered
  <2> QED
    BY <2>2, <2>3, <2>5
<1> QED
  BY <1>1, LedgerKeeps, PTL

(* It also says that an entry stands.                                      *)
THEOREM EntryTheorem == Ledger!Spec => StableUnlessContested
<1>1. ASSUME LedgerInv, [Ledger!Next]_(Ledger!vars)
      PROVE  \A b \in Batches : batch[b].number # 0 /\ ~contested[b] =>
               batch'[b].number = batch[b].number /\ batch'[b].net = batch[b].net
  <2> SUFFICES ASSUME NEW b \in Batches, batch[b].number # 0, ~contested[b]
               PROVE  Entry'[b] = Entry[b]
    BY DEF Entry
  <2>1. Entry[b] # Blank /\ b \notin Contested
    BY DEF Entry, Blank, Contested
  <2>2. ASSUME NEW a \in Batches, Ledger!Write(a), a # b PROVE Entry'[b] = Entry[b]
    BY <2>2, WriteOne
  <2>3. ASSUME NEW a \in Batches, Ledger!Enter(a) PROVE a # b /\ Ledger!Write(a)
    BY <2>1, <2>3, LedgerActions
  <2>4. ASSUME NEW a \in Batches, Ledger!Rewrite(a)
        PROVE  a # b /\ (Ledger!Write(a) \/ UNCHANGED Entry)
    BY <2>1, <2>4, LedgerActions
  <2>5. ASSUME NEW a \in Batches, \/ Ledger!Settle(a) \/ Ledger!Reopen(a) \/ Ledger!Contest(a)
                                  \/ Ledger!Crowd(a)
                                  \/ \E amount \in Payments : Ledger!Receive(a, amount)
        PROVE  UNCHANGED Entry
    BY <2>5, LedgerActions, LedgerReceive
  <2> QED
    BY LedgerCases, <1>1, <2>2, <2>3, <2>4, <2>5
<1>2. LedgerInv /\ [Ledger!Next]_(Ledger!vars) =>
        [\A b \in Batches : batch[b].number # 0 /\ ~contested[b] =>
           batch'[b].number = batch[b].number /\ batch'[b].net = batch[b].net]_vars
  BY <1>1
<1> QED
  BY <1>2, LedgerKeeps, PTL DEF Ledger!Spec, StableUnlessContested
==============================================================================
