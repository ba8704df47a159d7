------------------------------ MODULE Invoicing ------------------------------
(***************************************************************************)
(* The life of an invoice batch after its creation: invoice-batch.service. *)
(* ts.  A draft is priced anew on every read; finalising gives it a number *)
(* and freezes its amounts, issuing and paying move it on, and payments    *)
(* are recorded beside it.                                                 *)
(*                                                                         *)
(* No operation locks.  A clerk (finalise, issue or pay) loads the batch   *)
(* with its payments, decides, and calls save(), which selects the row and *)
(* the ids of its payments again and updates the columns that differ; a    *)
(* payment the loaded batch does not know would be cut off from it, which  *)
(* its NOT NULL column refuses.  A payer looks at the total and inserts.   *)
(*                                                                         *)
(* Clerks and payers start over when they are done.                        *)
(***************************************************************************)
EXTENDS Integers, FiniteSets

CONSTANTS
  Companies,  \* company ids
  Batches,    \* invoice batch ids
  CompanyOf,  \* [Batches -> Companies]
  Clerks,     \* concurrent finalise, issue and pay requests
  Payers,     \* requests that record a payment
  Totals,     \* what the timesheets of a batch may come to
  Payments,   \* the amounts requests ask to record
  None        \* SQL NULL

ASSUME InvoicingAssumption ==
  /\ CompanyOf \in [Batches -> Companies]
  /\ IsFiniteSet(Batches)
  /\ Totals \subseteq Nat
  /\ Payments \subseteq Int
  /\ Clerks \cap Payers = {}
  /\ None \notin Batches /\ None \notin Int

VARIABLES
  batch,     \* [Batches -> Row]
  sheets,    \* [Batches -> Sheets]: the billing columns of a batch's timesheets
  received,  \* [Batches -> sum of its payment records]
  records,   \* [Batches -> number of its payment records]
  pc,        \* how far each request has got
  order,     \* [Clerks -> the batch and the status it will save]
  entity,    \* [Clerks -> the loaded batch, with how many payments it knows]
  diff,      \* [Clerks -> the columns its save() found to differ]
  payment,   \* [Payers -> the batch and amount it will insert]
  contested, \* history: two finalise requests had loaded the same draft
  crowded    \* history: two payments were checked against the same total

vars == <<batch, sheets, received, records, pc, order, entity, diff, payment,
          contested, crowded>>
rows == <<batch, sheets, received, records>>
history == <<contested, crowded>>

Statuses == {"none", "draft", "finalised", "issued", "paid"}
Columns == {"status", "number", "net"}

Row == [status : Statuses, number : Nat, net : Totals \cup {None}]
Sheets == [invoiced : BOOLEAN, paid : BOOLEAN]
NewRow == [status |-> "none", number |-> 0, net |-> None]

Loaded == [row : Row, known : Nat]
NoEntity == [row |-> NewRow, known |-> 0]

Order == [batch : Batches \cup {None}, status : Statuses]
NoOrder == [batch |-> None, status |-> "none"]
NoPayment == [batch |-> None, amount |-> 0]

Init ==
  /\ batch = [b \in Batches |-> NewRow]
  /\ sheets = [b \in Batches |-> [invoiced |-> FALSE, paid |-> FALSE]]
  /\ received = [b \in Batches |-> 0]
  /\ records = [b \in Batches |-> 0]
  /\ pc = [r \in Clerks \cup Payers |-> "start"]
  /\ order = [c \in Clerks |-> NoOrder]
  /\ entity = [c \in Clerks |-> NoEntity]
  /\ diff = [c \in Clerks |-> {}]
  /\ payment = [p \in Payers |-> NoPayment]
  /\ contested = [b \in Batches |-> FALSE]
  /\ crowded = [b \in Batches |-> FALSE]

Go(r, from, to) == pc[r] = from /\ pc' = [pc EXCEPT ![r] = to]

-----------------------------------------------------------------------------
(* createForCompany commits a draft with its timesheets.                   *)
CreateBatch(b) ==
  /\ batch[b].status = "none"
  /\ batch' = [batch EXCEPT ![b].status = "draft"]
  /\ UNCHANGED <<sheets, received, records, pc, order, entity, diff, payment, history>>

-----------------------------------------------------------------------------
(* finaliseForCompany, issueForCompany, payForCompany                      *)

Finalising(b) == {c \in Clerks : order[c] = [batch |-> b, status |-> "finalised"]}

(* getBatchInvoiceBaseAmount: the snapshot, else what pricing the batch's  *)
(* timesheets yields at this moment: a pricing rule or a correction of a   *)
(* timesheet may have changed that since the last time.                    *)
InvoiceAmounts(b) == IF batch[b].net # None THEN {batch[b].net} ELSE Totals

(* The batch is loaded in status `from`, to be saved in status `to`.       *)
Load(c, b, from, to) ==
  /\ Go(c, "start", "loaded")
  /\ batch[b].status = from
  /\ order' = [order EXCEPT ![c] = [batch |-> b, status |-> to]]
  /\ entity' = [entity EXCEPT ![c] = [row |-> batch[b], known |-> records[b]]]
  /\ contested' = [contested EXCEPT ![b] = @ \/ (to = "finalised" /\ Finalising(b) # {})]
  /\ UNCHANGED <<rows, diff, payment, crowded>>

FinaliseBatch(c, b) == Load(c, b, "draft", "finalised")

IssueBatch(c, b) == Load(c, b, "finalised", "issued")

(* Seeded fault: a batch is marked paid whatever is outstanding.           *)
PayBatch_Outstanding(c, b) == Load(c, b, "issued", "paid")

(* Only a batch with nothing outstanding is marked paid.                   *)
PayBatch(c, b) ==
  /\ \E total \in InvoiceAmounts(b) : received[b] >= total
  /\ Load(c, b, "issued", "paid")

Numbered(k) == {b \in Batches : CompanyOf[b] = k /\ batch[b].number # 0}

(* Seeded fault: drafts are counted too.                                   *)
NextNumber_CountsDrafts(k) ==
  Cardinality({b \in Batches : CompanyOf[b] = k /\ batch[b].status # "none"}) + 1

(* generateInvoiceNumber: one more than the company has given this year.   *)
NextNumber(k) == Cardinality(Numbered(k)) + 1

(* Seeded fault: every transition asks for a number.                       *)
WithMetadata_Renumbers(r, b, priced) ==
  [r EXCEPT !.number = NextNumber(CompanyOf[b]), !.net = IF @ = None THEN priced ELSE @]

(* ensureInvoiceDocumentMetadata fills in what the loaded batch lacks.     *)
WithMetadata(r, b, priced) ==
  [r EXCEPT !.number = IF @ = 0 THEN NextNumber(CompanyOf[b]) ELSE @,
            !.net = IF @ = None THEN priced ELSE @]

(* Paying prices the timesheets again but asks for no metadata.            *)
SetMetadata(c) ==
  LET o == order[c] IN
  /\ Go(c, "loaded", "named")
  /\ \E priced \in Totals : entity' = [entity EXCEPT ![c].row =
       [(IF o.status = "paid" THEN @ ELSE WithMetadata(@, o.batch, priced))
          EXCEPT !.status = o.status]]
  /\ UNCHANGED <<rows, order, diff, payment, history>>

Done(c) ==
  /\ pc' = [pc EXCEPT ![c] = "start"]
  /\ order' = [order EXCEPT ![c] = NoOrder]
  /\ entity' = [entity EXCEPT ![c] = NoEntity]
  /\ diff' = [diff EXCEPT ![c] = {}]

(* save(batch) selects the row and its payments: a payment it does not     *)
(* know ends the request with an error.                                    *)
DiffBatch(c) ==
  LET b == order[c].batch
      s == entity[c].row IN
  /\ pc[c] = "named"
  /\ IF records[b] > entity[c].known
     THEN Done(c)
     ELSE /\ pc' = [pc EXCEPT ![c] = "diffed"]
          /\ diff' = [diff EXCEPT ![c] = {x \in Columns : batch[b][x] # s[x]}]
          /\ UNCHANGED <<order, entity>>
  /\ UNCHANGED <<rows, payment, history>>

(* Seeded fault: nothing keeps two invoices from having one number.        *)
Collides_NoIndex(c) == order[c].batch = None

(* The unique index on invoiceNumber spans all companies.                  *)
Collides(c) ==
  /\ "number" \in diff[c]
  /\ \E b \in Batches \ {order[c].batch} : batch[b].number = entity[c].row.number

Updated(r, s, cs) ==
  [status |-> IF "status" \in cs THEN s.status ELSE r.status,
   number |-> IF "number" \in cs THEN s.number ELSE r.number,
   net    |-> IF "net" \in cs THEN s.net ELSE r.net]

(* The UPDATE.  Issuing and paying go on to the timesheets.                *)
SaveBatch(c) ==
  LET b == order[c].batch IN
  /\ pc[c] = "diffed"
  /\ IF Collides(c)
     THEN Done(c) /\ UNCHANGED batch
     ELSE /\ batch' = [batch EXCEPT ![b] = Updated(@, entity[c].row, diff[c])]
          /\ IF order[c].status = "finalised"
             THEN Done(c)
             ELSE /\ pc' = [pc EXCEPT ![c] = "saved"]
                  /\ UNCHANGED <<order, entity, diff>>
  /\ UNCHANGED <<sheets, received, records, payment, history>>

(* The timesheets of the batch are saved: invoiced, and paid or not.       *)
SaveSheets(c) ==
  LET o == order[c] IN
  /\ pc[c] = "saved"
  /\ sheets' = [sheets EXCEPT ![o.batch] = [invoiced |-> TRUE, paid |-> o.status = "paid"]]
  /\ Done(c)
  /\ UNCHANGED <<batch, received, records, payment, history>>

(* An error or the end of the server process between two statements.       *)
Abandon(c) ==
  /\ pc[c] # "start"
  /\ Done(c)
  /\ UNCHANGED <<rows, payment, history>>

-----------------------------------------------------------------------------
(* createPaymentRecordForCompany                                           *)

Paying(b) == {p \in Payers : pc[p] = "checked" /\ payment[p].batch = b}

CheckPayment(p, b, amount) ==
  /\ Go(p, "start", "checked")
  /\ batch[b].status \in {"issued", "paid"}
  /\ payment' = [payment EXCEPT ![p] = [batch |-> b, amount |-> amount]]
  /\ crowded' = [crowded EXCEPT ![b] = @ \/ Paying(b) # {}]
  /\ UNCHANGED <<rows, order, entity, diff, contested>>

(* Seeded fault: the amount is not checked to be positive.                 *)
LookUpTotal_AnyAmount(p, b) ==
  \E amount \in Payments, total \in InvoiceAmounts(b) :
    /\ received[b] + amount <= total
    /\ CheckPayment(p, b, amount)

(* Seeded fault: earlier payments are not counted.                         *)
LookUpTotal_IgnoresPaid(p, b) ==
  \E amount \in Payments, total \in InvoiceAmounts(b) :
    /\ amount > 0
    /\ amount <= total
    /\ CheckPayment(p, b, amount)

(* A positive amount that, with what was paid to date, does not exceed the *)
(* invoice total.                                                          *)
LookUpTotal(p, b) ==
  \E amount \in Payments, total \in InvoiceAmounts(b) :
    /\ amount > 0
    /\ received[b] + amount <= total
    /\ CheckPayment(p, b, amount)

InsertPayment(p) ==
  LET b == payment[p].batch IN
  /\ Go(p, "checked", "start")
  /\ received' = [received EXCEPT ![b] = @ + payment[p].amount]
  /\ records' = [records EXCEPT ![b] = @ + 1]
  /\ payment' = [payment EXCEPT ![p] = NoPayment]
  /\ UNCHANGED <<batch, sheets, order, entity, diff, history>>

-----------------------------------------------------------------------------
Clerk(c) ==
  \/ \E b \in Batches : FinaliseBatch(c, b) \/ IssueBatch(c, b) \/ PayBatch(c, b)
  \/ SetMetadata(c) \/ DiffBatch(c) \/ SaveBatch(c) \/ SaveSheets(c)
  \/ Abandon(c)

Payer(p) == (\E b \in Batches : LookUpTotal(p, b)) \/ InsertPayment(p)

Next ==
  \/ \E b \in Batches : CreateBatch(b)
  \/ \E c \in Clerks : Clerk(c)
  \/ \E p \in Payers : Payer(p)

Spec == Init /\ [][Next]_vars

-----------------------------------------------------------------------------
(* Rows and the requests' memory are of their types; what was received is  *)
(* never negative.                                                         *)
TypeOK ==
  /\ batch \in [Batches -> Row]
  /\ sheets \in [Batches -> Sheets]
  /\ received \in [Batches -> Nat]
  /\ records \in [Batches -> Nat]
  /\ pc \in [Clerks \cup Payers -> {"start", "loaded", "named", "diffed", "saved", "checked"}]
  /\ order \in [Clerks -> Order]
  /\ entity \in [Clerks -> Loaded]
  /\ diff \in [Clerks -> SUBSET Columns]
  /\ payment \in [Payers -> [batch : Batches \cup {None}, amount : Int]]
  /\ contested \in [Batches -> BOOLEAN]
  /\ crowded \in [Batches -> BOOLEAN]

(* Once a batch has a number, its number and net amount stay what they are *)
(* through issuing, paying and stale saves, unless two finalise requests   *)
(* had both loaded it as a draft.                                          *)
StableUnlessContested ==
  [][\A b \in Batches : batch[b].number # 0 /\ ~contested[b] =>
       batch'[b].number = batch[b].number /\ batch'[b].net = batch[b].net]_vars

(* A batch that is paid, or whose timesheets are, has received its net     *)
(* amount: payForCompany's look at what is outstanding holds to the end.   *)
SettledBeforePaid ==
  \A b \in Batches :
    (batch[b].status = "paid" \/ sheets[b].paid) /\ ~contested[b] => received[b] >= batch[b].net

(* "Payment cannot exceed the invoice total" holds for payments recorded   *)
(* one after the other, whatever the clerks do meanwhile.                  *)
OverpaidOnlyTogether ==
  \A b \in Batches : received[b] > 0 /\ ~contested[b] /\ ~crowded[b] => received[b] <= batch[b].net

(* The numbers of each company run from 1 without a gap, although finalise *)
(* requests count and save without a lock.                                 *)
NumbersFollowOn ==
  (\A b \in Batches : ~contested[b]) =>
    \A k \in Companies : {batch[b].number : b \in Numbered(k)} = 1 .. Cardinality(Numbered(k))

(* Clerks and payers, who load and save as they please, keep the books of  *)
(* InvoiceLedger: each of their steps enters, settles, reopens or rewrites *)
(* one invoice, records one payment, or changes nothing in the books.      *)
Ledger == INSTANCE InvoiceLedger WITH
  Invoices  <- Batches,
  entry     <- [b \in Batches |-> [number |-> batch[b].number, net |-> batch[b].net]],
  paid      <- [b \in Batches |-> batch[b].status = "paid" \/ sheets[b].paid],
  contested <- {b \in Batches : contested[b]},
  crowded   <- {b \in Batches : crowded[b]}
ImplementsLedger == Ledger!Spec
==============================================================================
