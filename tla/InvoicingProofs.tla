--------------------------- MODULE InvoicingProofs ---------------------------
(***************************************************************************)
(* Theorems about Invoicing, for any companies, batches, clerks, payers    *)
(* and amounts.                                                            *)
(***************************************************************************)
EXTENDS Invoicing, FiniteSetTheorems, TLAPS

-----------------------------------------------------------------------------
(* The inductive invariant.                                                *)

Settled(b) == batch[b].status \in {"finalised", "issued", "paid"}
At(c, b) == order[c].batch = b
Later(c) == order[c].status \in {"issued", "paid"}

(* A clerk at work has a batch to save in a status beyond draft; only      *)
(* issuing and paying go on to the timesheets.                             *)
ClerksPlaced ==
  \A c \in Clerks :
    \/ pc[c] = "start" /\ order[c] = NoOrder
    \/ /\ pc[c] \in {"loaded", "named", "diffed"}
       /\ order[c].batch \in Batches
       /\ order[c].status \in {"finalised", "issued", "paid"}
    \/ pc[c] = "saved" /\ order[c].batch \in Batches /\ Later(c)

PayersPlaced ==
  \A p \in Payers :
    /\ payment[p].amount \in Nat
    /\ \/ pc[p] = "start"
       \/ /\ pc[p] = "checked"
          /\ payment[p].amount \in Payments /\ payment[p].amount > 0
          /\ payment[p].batch \in Batches /\ Settled(payment[p].batch)

(* A batch is numbered and priced exactly when it has left draft.          *)
Documented ==
  \A b \in Batches :
    IF Settled(b) THEN batch[b].number # 0 /\ batch[b].net # None
                  ELSE batch[b].number = 0 /\ batch[b].net = None

(* Issuing and paying are for batches that have left draft.                *)
LaterSettled == \A c \in Clerks : Later(c) => Settled(order[c].batch)

(* What a clerk will save is numbered and priced.                          *)
Prepared ==
  \A c \in Clerks :
    /\ pc[c] = "loaded" /\ Later(c) =>
         entity[c].row.number # 0 /\ entity[c].row.net # None
    /\ pc[c] = "loaded" /\ ~Later(c) => entity[c].row.number = 0
    /\ pc[c] \in {"named", "diffed"} =>
         /\ entity[c].row.status = order[c].status
         /\ entity[c].row.number # 0 /\ entity[c].row.net # None

(* A save that found a draft writes every column.                          *)
Compared ==
  \A c \in Clerks : pc[c] = "diffed" => Settled(order[c].batch) \/ diff[c] = Columns

(* Without a contest one request finalises a batch, and finds it a draft.  *)
OneFinaliser ==
  \A b \in Batches : ~contested[b] =>
    \A c, d \in Finalising(b) : c = d /\ ~Settled(b)

(* Without a contest issuing and paying carry the number and amount of the *)
(* row.                                                                    *)
SameDocument ==
  \A c \in Clerks :
    Later(c) /\ pc[c] \in {"loaded", "named", "diffed"} /\ ~contested[order[c].batch] =>
      /\ entity[c].row.number = batch[order[c].batch].number
      /\ entity[c].row.net = batch[order[c].batch].net

Inv ==
  /\ TypeOK /\ ClerksPlaced /\ PayersPlaced /\ Documented /\ LaterSettled
  /\ Prepared /\ Compared /\ OneFinaliser /\ SameDocument

-----------------------------------------------------------------------------
LEMMA NumbersFinite ==
  ASSUME NEW k PROVE IsFiniteSet(Numbered(k)) /\ Cardinality(Numbered(k)) \in Nat
<1>1. Numbered(k) \subseteq Batches
  BY DEF Numbered
<1>2. IsFiniteSet(Numbered(k))
  BY <1>1, InvoicingAssumption, FS_Subset
<1> QED
  BY <1>2, FS_CardinalityType

LEMMA InitInv == Init => Inv
<1> SUFFICES ASSUME Init PROVE Inv
  OBVIOUS
<1> USE InvoicingAssumption DEF Init
<1>1. TypeOK
  BY DEF TypeOK, Row, NewRow, Statuses, Sheets, Order, NoOrder, Loaded, NoEntity, NoPayment, Columns
<1>2. ClerksPlaced /\ LaterSettled /\ Prepared /\ Compared /\ SameDocument
  BY DEF ClerksPlaced, LaterSettled, Prepared, Compared, SameDocument, Later, NoOrder
<1>3. PayersPlaced /\ Documented
  BY DEF PayersPlaced, Documented, Settled, NoPayment, NewRow
<1>4. OneFinaliser
  BY DEF OneFinaliser, Finalising, NoOrder
<1> QED
  BY <1>1, <1>2, <1>3, <1>4 DEF Inv

(* The steps of the specification.                                         *)
LoadStep(c, b, f, t) ==
  /\ Load(c, b, f, t)
  /\ \/ f = "draft" /\ t = "finalised"
     \/ f = "finalised" /\ t = "issued"
     \/ f = "issued" /\ t = "paid" /\ \E total \in InvoiceAmounts(b) : received[b] >= total

PayStep(p, b, amount) ==
  /\ CheckPayment(p, b, amount)
  /\ amount > 0 /\ \E total \in InvoiceAmounts(b) : received[b] + amount <= total

LEMMA StepCases ==
  ASSUME Next
  PROVE  \/ \E b \in Batches : CreateBatch(b)
         \/ \E c \in Clerks, b \in Batches, f, t \in Statuses : LoadStep(c, b, f, t)
         \/ \E c \in Clerks :
              SetMetadata(c) \/ DiffBatch(c) \/ SaveBatch(c) \/ SaveSheets(c) \/ Abandon(c)
         \/ \E p \in Payers, b \in Batches, amount \in Payments : PayStep(p, b, amount)
         \/ \E p \in Payers : InsertPayment(p)
<1>1. \A c \in Clerks, b \in Batches :
        FinaliseBatch(c, b) \/ IssueBatch(c, b) \/ PayBatch(c, b) =>
          \E f, t \in Statuses : LoadStep(c, b, f, t)
  BY DEF FinaliseBatch, IssueBatch, PayBatch, Statuses, LoadStep
<1>2. \A p \in Payers, b \in Batches : LookUpTotal(p, b) =>
        \E amount \in Payments : PayStep(p, b, amount)
  BY DEF LookUpTotal, PayStep
<1> QED
  BY <1>1, <1>2 DEF Next, Clerk, Payer

LEMMA CreateInv ==
  ASSUME Inv, NEW b \in Batches, CreateBatch(b) PROVE Inv'
<1> USE DEF Inv, CreateBatch, rows, history
<1>1. TypeOK'
  BY DEF TypeOK, Row, Statuses
<1>2. \A a \in Batches : /\ Settled(a)' <=> Settled(a)
                         /\ batch'[a].number = batch[a].number /\ batch'[a].net = batch[a].net
  BY DEF TypeOK, Row, Settled
<1>3. ClerksPlaced'
  BY DEF ClerksPlaced, Later
<1>7. LaterSettled'
  BY <1>2, <1>3 DEF ClerksPlaced, LaterSettled, Later, NoOrder
<1>4. PayersPlaced' /\ Documented'
  BY <1>2 DEF PayersPlaced, Documented
<1>5. Prepared' /\ Compared' /\ SameDocument'
  BY <1>2 DEF Prepared, Compared, SameDocument, Later, ClerksPlaced
<1>6. OneFinaliser'
  BY <1>2 DEF OneFinaliser, Finalising
<1> QED
  BY <1>1, <1>3, <1>4, <1>5, <1>6, <1>7

LEMMA LoadInv ==
  ASSUME Inv, NEW c \in Clerks, NEW b \in Batches, NEW f \in Statuses, NEW t \in Statuses,
         LoadStep(c, b, f, t)
  PROVE  Inv'
<1> USE DEF Inv, LoadStep, Load, Go, rows
<1>1. TypeOK'
  BY DEF TypeOK, Row, Order, Loaded
<1>2. /\ pc[c] = "start" /\ pc'[c] = "loaded" /\ c \notin Payers
      /\ order'[c] = [batch |-> b, status |-> t]
      /\ entity'[c].row = batch[b] /\ batch[b].status = f
      /\ \A d \in Clerks \ {c} : pc'[d] = pc[d] /\ order'[d] = order[d] /\ entity'[d] = entity[d]
      /\ \A p \in Payers : pc'[p] = pc[p]
  BY InvoicingAssumption DEF TypeOK
<1>3. (t = "finalised" <=> f = "draft") /\ t \in {"finalised", "issued", "paid"}
  OBVIOUS
<1>4. ClerksPlaced'
  BY <1>2, <1>3 DEF ClerksPlaced, Later, NoOrder
<1>5. PayersPlaced' /\ Documented'
  BY <1>2 DEF PayersPlaced, Documented, Settled
<1>6. LaterSettled'
  BY <1>2, <1>3 DEF LaterSettled, Later, Settled
<1>7. Prepared'
  BY <1>2, <1>3 DEF Prepared, Documented, Later, Settled
<1>8. Compared'
  BY <1>2 DEF Compared, Settled
<1>9. OneFinaliser'
  <2> SUFFICES ASSUME NEW a \in Batches, ~contested'[a],
                      NEW d \in Finalising(a)', NEW e \in Finalising(a)'
               PROVE  d = e /\ ~Settled(a)'
    BY DEF OneFinaliser
  <2>1. ~contested[a] /\ (a = b /\ t = "finalised" => Finalising(b) = {})
    BY DEF TypeOK
  <2>2. \A g \in Clerks \ {c} : g \in Finalising(a)' => g \in Finalising(a)
    BY <1>2 DEF Finalising
  <2>3. c \in Finalising(a)' => a = b /\ t = "finalised"
    BY <1>2 DEF Finalising
  <2>4. d \in Clerks /\ e \in Clerks
    BY DEF Finalising
  <2>5. CASE a = b /\ t = "finalised"
    BY <2>1, <2>2, <2>4, <2>5, <1>2, <1>3 DEF Settled
  <2>6. CASE ~(a = b /\ t = "finalised")
    BY <2>1, <2>2, <2>3, <2>4, <2>6 DEF OneFinaliser, Settled
  <2> QED
    BY <2>5, <2>6
<1>10. SameDocument'
  BY <1>2 DEF SameDocument, Later, TypeOK
<1> QED
  BY <1>1, <1>4, <1>5, <1>6, <1>7, <1>8, <1>9, <1>10

(* A clerk that is done holds nothing.                                     *)
LEMMA DoneInv ==
  ASSUME Inv, NEW c \in Clerks, Done(c), sheets' \in [Batches -> Sheets],
         UNCHANGED <<batch, received, records, payment, contested, crowded>>
  PROVE  Inv'
<1> USE DEF Inv, Done
<1>1. TypeOK'
  BY DEF TypeOK, Order, NoOrder, NoEntity, NewRow, Loaded, Row, Statuses
<1>2. /\ pc'[c] = "start" /\ order'[c] = NoOrder /\ c \notin Payers
      /\ \A d \in Clerks \ {c} : /\ pc'[d] = pc[d] /\ order'[d] = order[d]
                                 /\ entity'[d] = entity[d] /\ diff'[d] = diff[d]
      /\ \A p \in Payers : pc'[p] = pc[p]
  BY InvoicingAssumption DEF TypeOK
<1>3. ClerksPlaced' /\ ~Later(c)'
  BY <1>2 DEF ClerksPlaced, Later, NoOrder
<1>4. PayersPlaced' /\ Documented'
  BY <1>2 DEF PayersPlaced, Documented, Settled
<1>5. LaterSettled' /\ Prepared' /\ Compared' /\ SameDocument'
  BY <1>2, <1>3 DEF LaterSettled, Prepared, Compared, SameDocument, Later, Settled
<1>6. OneFinaliser'
  <2>1. \A a \in Batches : Finalising(a)' \subseteq Finalising(a)
    BY <1>2 DEF Finalising, NoOrder
  <2> QED
    BY <2>1 DEF OneFinaliser, Settled
<1> QED
  BY <1>1, <1>3, <1>4, <1>5, <1>6

LEMMA AbandonInv ==
  ASSUME Inv, NEW c \in Clerks, Abandon(c) PROVE Inv'
BY DoneInv DEF Inv, TypeOK, Abandon, rows, history

LEMMA SaveSheetsInv ==
  ASSUME Inv, NEW c \in Clerks, SaveSheets(c) PROVE Inv'
<1>1. sheets' \in [Batches -> Sheets]
  BY DEF Inv, TypeOK, SaveSheets, Sheets
<1> QED
  BY <1>1, DoneInv DEF SaveSheets, history

LEMMA SetMetadataInv ==
  ASSUME Inv, NEW c \in Clerks, SetMetadata(c) PROVE Inv'
<1> DEFINE o == order[c]
<1> PICK priced \in Totals :
      entity' = [entity EXCEPT ![c].row =
        [(IF order[c].status = "paid" THEN @ ELSE WithMetadata(@, order[c].batch, priced))
           EXCEPT !.status = order[c].status]]
  BY DEF SetMetadata
<1> USE DEF Inv, SetMetadata, Go, rows, history
<1> DEFINE n == NextNumber(CompanyOf[order[c].batch])
           r == entity[c].row
<1>1. n \in Nat /\ n # 0
  BY NumbersFinite DEF NextNumber
<1>2. r \in Row /\ order[c].status \in Statuses /\ priced \in Nat /\ None \notin Nat
  BY InvoicingAssumption DEF TypeOK, Order, Loaded
<1>3. /\ pc[c] = "loaded" /\ pc'[c] = "named" /\ c \notin Payers
      /\ \A d \in Clerks \ {c} : pc'[d] = pc[d] /\ entity'[d] = entity[d]
      /\ \A p \in Payers : pc'[p] = pc[p]
  BY InvoicingAssumption DEF TypeOK
<1>4. /\ entity'[c].known = entity[c].known
      /\ entity'[c].row = [status |-> order[c].status,
           number |-> IF order[c].status # "paid" /\ r.number = 0 THEN n ELSE r.number,
           net |-> IF order[c].status # "paid" /\ r.net = None THEN priced ELSE r.net]
  <2> DEFINE m == IF order[c].status = "paid" THEN r ELSE WithMetadata(r, order[c].batch, priced)
             saved == [m EXCEPT !.status = order[c].status]
  <2>1. entity'[c] = [entity[c] EXCEPT !.row = saved]
    BY DEF TypeOK
  <2>2. entity[c] \in [row : Row, known : Nat]
    BY DEF TypeOK, Loaded
  <2>3. entity'[c].known = entity[c].known /\ entity'[c].row = saved
    BY <2>1, <2>2
  <2>4. m = [status |-> r.status,
             number |-> IF order[c].status # "paid" /\ r.number = 0 THEN n ELSE r.number,
             net |-> IF order[c].status # "paid" /\ r.net = None THEN priced ELSE r.net]
    BY <1>2 DEF Row, WithMetadata
  <2> QED
    BY <2>3, <2>4
<1>5. entity'[c] \in Loaded
  <2> DEFINE saved == [(IF order[c].status = "paid" THEN r ELSE WithMetadata(r, order[c].batch, priced))
                         EXCEPT !.status = order[c].status]
  <2>1. entity[c] \in [row : Row, known : Nat] /\ entity'[c] = [entity[c] EXCEPT !.row = saved]
    BY DEF TypeOK, Loaded
  <2>2. entity'[c].row = saved
    BY <2>1
  <2>3. entity'[c].row \in Row
    BY <1>1, <1>2, <1>4 DEF Row
  <2> HIDE DEF saved
  <2> QED
    BY <2>1, <2>2, <2>3 DEF Loaded
<1>6. TypeOK'
  BY <1>5 DEF TypeOK
<1>7. ClerksPlaced' /\ PayersPlaced' /\ Documented' /\ LaterSettled'
  BY <1>3 DEF ClerksPlaced, PayersPlaced, Documented, LaterSettled, Later, Settled
<1>8. Prepared'
  BY <1>1, <1>2, <1>3, <1>4 DEF Prepared, ClerksPlaced, Later
<1>9. Compared' /\ OneFinaliser'
  BY <1>3 DEF Compared, OneFinaliser, Finalising, Settled
<1>10. SameDocument'
  BY <1>2, <1>3, <1>4 DEF SameDocument, Prepared, Later
<1> QED
  BY <1>6, <1>7, <1>8, <1>9, <1>10

LEMMA DiffInv ==
  ASSUME Inv, NEW c \in Clerks, DiffBatch(c) PROVE Inv'
<1>1. CASE records[order[c].batch] > entity[c].known
  BY <1>1, DoneInv DEF Inv, TypeOK, DiffBatch, rows, history
<1>2. CASE ~(records[order[c].batch] > entity[c].known)
  <2> DEFINE found == {x \in Columns : batch[order[c].batch][x] # entity[c].row[x]}
  <2> USE <1>2 DEF Inv, DiffBatch, rows, history
  <2>1. /\ pc[c] = "named" /\ pc'[c] = "diffed" /\ c \notin Payers
        /\ \A d \in Clerks \ {c} : pc'[d] = pc[d] /\ diff'[d] = diff[d]
        /\ \A p \in Payers : pc'[p] = pc[p]
        /\ diff'[c] = found
    BY InvoicingAssumption DEF TypeOK
  <2>2. TypeOK'
    BY <2>1 DEF TypeOK
  <2>3. ClerksPlaced' /\ PayersPlaced' /\ Documented' /\ LaterSettled'
    BY <2>1 DEF ClerksPlaced, PayersPlaced, Documented, LaterSettled, Later, Settled
  <2>4. Prepared' /\ OneFinaliser'
    BY <2>1 DEF Prepared, OneFinaliser, Finalising, Settled, Later
  <2>5. SameDocument'
    BY <2>1 DEF SameDocument, Later
  <2>6. Compared'
    <3>1. ~Settled(order[c].batch) => found = Columns
      BY <2>1 DEF Documented, Prepared, ClerksPlaced, Settled, Columns
    <3> QED
      BY <2>1, <3>1 DEF Compared, Settled
  <2> QED
    BY <2>2, <2>3, <2>4, <2>5, <2>6
<1> QED
  BY <1>1, <1>2

(* What a save leaves behind.                                              *)
LEMMA SaveWrites ==
  ASSUME Inv, NEW c \in Clerks, SaveBatch(c)
  PROVE  LET b == order[c].batch IN
         /\ b \in Batches /\ pc[c] = "diffed" /\ entity[c].row \in Row
         /\ batch' \in [Batches -> Row]
         /\ \A a \in Batches \ {b} : batch'[a] = batch[a]
         /\ \/ batch' = batch /\ Done(c)
            \/ /\ ~Collides(c)
               /\ batch'[b] = Updated(batch[b], entity[c].row, diff[c])
               /\ batch'[b].status \in {"finalised", "issued", "paid"}
               /\ batch'[b].number # 0 /\ batch'[b].net # None
               /\ ~contested[b] /\ Settled(b) =>
                    batch'[b].number = batch[b].number /\ batch'[b].net = batch[b].net
<1> DEFINE b == order[c].batch
           s == entity[c].row
           new == Updated(batch[b], s, diff[c])
<1> USE DEF Inv
<1>1. /\ pc[c] = "diffed" /\ b \in Batches
      /\ order[c].status \in {"finalised", "issued", "paid"}
  BY DEF SaveBatch, ClerksPlaced
<1>2. s \in Row /\ batch[b] \in Row /\ s.status = order[c].status /\ s.number # 0 /\ s.net # None
  BY <1>1 DEF TypeOK, Loaded, Prepared
<1>3. new \in Row
  BY <1>2 DEF Updated, Row
<1>4. CASE Collides(c)
  BY <1>1, <1>2, <1>4 DEF SaveBatch, TypeOK
<1>5. CASE ~Collides(c)
  <2>1. batch' = [batch EXCEPT ![b] = new]
    BY <1>5 DEF SaveBatch
  <2>2. batch' \in [Batches -> Row] /\ batch'[b] = new /\ \A a \in Batches \ {b} : batch'[a] = batch[a]
    BY <1>1, <1>3, <2>1 DEF TypeOK
  <2>3. new.status \in {"finalised", "issued", "paid"} /\ new.number # 0 /\ new.net # None
    <3>1. CASE Settled(b)
      BY <1>1, <1>2, <3>1 DEF Documented, Settled, Updated
    <3>2. CASE ~Settled(b)
      <4>1. diff[c] = Columns
        BY <1>1, <3>2 DEF Compared
      <4> QED
        BY <1>1, <1>2, <4>1 DEF Updated, Columns
    <3> QED
      BY <3>1, <3>2
  <2>4. ASSUME ~contested[b], Settled(b)
        PROVE  new.number = batch[b].number /\ new.net = batch[b].net
    <3>1. c \notin Finalising(b)
      BY <1>1, <2>4 DEF OneFinaliser
    <3>2. Later(c)
      BY <1>1, <3>1 DEF Finalising, Later, TypeOK, Order
    <3>3. s.number = batch[b].number /\ s.net = batch[b].net
      BY <1>1, <2>4, <3>2 DEF SameDocument
    <3> QED
      BY <3>3 DEF Updated
  <2> QED
    BY <1>1, <1>2, <1>5, <2>2, <2>3, <2>4 DEF Settled
<1> QED
  BY <1>4, <1>5

LEMMA SaveInv ==
  ASSUME Inv, NEW c \in Clerks, SaveBatch(c) PROVE Inv'
<1> DEFINE b == order[c].batch
<1> USE DEF Inv
<1>1. CASE batch' = batch /\ Done(c)
  BY <1>1, DoneInv DEF TypeOK, SaveBatch, history
<1>2. CASE ~(batch' = batch /\ Done(c))
  <2>1. /\ b \in Batches /\ pc[c] = "diffed"
        /\ batch' \in [Batches -> Row] /\ \A a \in Batches \ {b} : batch'[a] = batch[a]
        /\ batch'[b].status \in {"finalised", "issued", "paid"}
        /\ ~Collides(c) /\ batch'[b].number # 0 /\ batch'[b].net # None
        /\ ~contested[b] /\ Settled(b) =>
             batch'[b].number = batch[b].number /\ batch'[b].net = batch[b].net
    BY <1>2, SaveWrites
  <2>2. /\ UNCHANGED <<sheets, received, records, payment, contested, crowded>>
        /\ c \notin Payers /\ \A p \in Payers : pc'[p] = pc[p]
        /\ \A d \in Clerks \ {c} : /\ pc'[d] = pc[d] /\ order'[d] = order[d]
                                   /\ entity'[d] = entity[d] /\ diff'[d] = diff[d]
        /\ \/ order[c].status = "finalised" /\ pc'[c] = "start" /\ order'[c] = NoOrder
           \/ order[c].status # "finalised" /\ pc'[c] = "saved" /\ order'[c] = order[c]
    BY <1>2, <2>1, InvoicingAssumption DEF TypeOK, SaveBatch, Done, history
  <2>3. \A a \in Batches : Settled(a) => Settled(a)'
    BY <2>1 DEF Settled
  <2>4. TypeOK'
    <3>1. NoOrder \in Order /\ NoEntity \in Loaded
      BY DEF Order, NoOrder, NoEntity, NewRow, Loaded, Row, Statuses
    <3>2. /\ order' \in [Clerks -> Order] /\ entity' \in [Clerks -> Loaded]
          /\ diff' \in [Clerks -> SUBSET Columns]
          /\ pc' \in [Clerks \cup Payers ->
                       {"start", "loaded", "named", "diffed", "saved", "checked"}]
      <4>1. CASE Done(c)
        BY <3>1, <4>1 DEF TypeOK, Done
      <4>2. CASE pc' = [pc EXCEPT ![c] = "saved"] /\ UNCHANGED <<order, entity, diff>>
        BY <4>2 DEF TypeOK
      <4> QED
        BY <2>1, <4>1, <4>2 DEF SaveBatch
    <3> QED
      BY <2>1, <2>2, <3>2 DEF TypeOK
  <2>5. ClerksPlaced'
    BY <2>1, <2>2 DEF ClerksPlaced, Later
  <2>6. PayersPlaced' /\ Documented'
    BY <2>1, <2>2, <2>3 DEF PayersPlaced, Documented, Settled
  <2>7. LaterSettled'
    BY <2>2, <2>3 DEF LaterSettled, Later, ClerksPlaced, NoOrder
  <2>8. Prepared' /\ Compared'
    BY <2>2, <2>3 DEF Prepared, Compared, ClerksPlaced, Later, NoOrder
  <2>9. OneFinaliser'
    <3> SUFFICES ASSUME NEW a \in Batches, ~contested'[a],
                        NEW d \in Finalising(a)', NEW e \in Finalising(a)'
                 PROVE  d = e /\ ~Settled(a)'
      BY DEF OneFinaliser
    <3>1. d # c /\ e # c /\ d \in Finalising(a) /\ e \in Finalising(a)
      BY <2>2 DEF Finalising, NoOrder
    <3>2. d = e /\ ~Settled(a) /\ ~contested[a]
      BY <2>2, <3>1 DEF OneFinaliser
    <3>3. ASSUME a = b PROVE FALSE
      <4>1. c \notin Finalising(b)
        BY <3>1, <3>2, <3>3 DEF OneFinaliser
      <4>2. Later(c)
        BY <2>1, <4>1 DEF Finalising, Later, TypeOK, Order, ClerksPlaced
      <4> QED
        BY <3>2, <3>3, <4>2 DEF LaterSettled
    <3> QED
      BY <2>1, <3>2, <3>3 DEF Settled
  <2>10. SameDocument'
    <3> SUFFICES ASSUME NEW d \in Clerks, Later(d)', pc'[d] \in {"loaded", "named", "diffed"},
                        ~contested'[order'[d].batch]
                 PROVE  /\ entity'[d].row.number = batch'[order'[d].batch].number
                        /\ entity'[d].row.net = batch'[order'[d].batch].net
      BY DEF SameDocument
    <3>1. d # c /\ order'[d] = order[d] /\ entity'[d] = entity[d] /\ pc'[d] = pc[d]
      BY <2>2
    <3>2. Later(d) /\ Settled(order[d].batch) /\ order[d].batch \in Batches
      BY <3>1 DEF Later, LaterSettled, ClerksPlaced, NoOrder
    <3>3. /\ entity[d].row.number = batch[order[d].batch].number
          /\ entity[d].row.net = batch[order[d].batch].net
      BY <2>2, <3>1, <3>2 DEF SameDocument
    <3> QED
      BY <2>1, <2>2, <3>1, <3>2, <3>3
  <2> QED
    BY <2>4, <2>5, <2>6, <2>7, <2>8, <2>9, <2>10
<1> QED
  BY <1>1, <1>2

LEMMA CheckPaymentInv ==
  ASSUME Inv, NEW p \in Payers, NEW b \in Batches, NEW amount \in Payments, PayStep(p, b, amount)
  PROVE  Inv'
<1> USE DEF Inv, PayStep, CheckPayment, Go, rows
<1>1. /\ amount \in Nat /\ Settled(b) /\ pc'[p] = "checked" /\ p \notin Clerks
      /\ payment'[p] = [batch |-> b, amount |-> amount]
      /\ \A q \in Payers \ {p} : pc'[q] = pc[q] /\ payment'[q] = payment[q]
      /\ \A c \in Clerks : pc'[c] = pc[c]
  BY InvoicingAssumption DEF TypeOK, Settled
<1>2. TypeOK'
  BY <1>1 DEF TypeOK
<1>3. PayersPlaced' /\ Documented'
  BY <1>1 DEF PayersPlaced, Documented, Settled
<1>4. ClerksPlaced' /\ LaterSettled' /\ Prepared' /\ Compared' /\ SameDocument' /\ OneFinaliser'
  BY <1>1 DEF ClerksPlaced, LaterSettled, Prepared, Compared, SameDocument, OneFinaliser,
              Finalising, Later, Settled
<1> QED
  BY <1>2, <1>3, <1>4

LEMMA InsertPaymentInv ==
  ASSUME Inv, NEW p \in Payers, InsertPayment(p) PROVE Inv'
<1> USE DEF Inv, InsertPayment, Go, history
<1>1. /\ p \notin Clerks /\ pc'[p] = "start" /\ payment'[p] = NoPayment
      /\ \A q \in Payers \ {p} : pc'[q] = pc[q] /\ payment'[q] = payment[q]
      /\ \A c \in Clerks : pc'[c] = pc[c]
  BY InvoicingAssumption DEF TypeOK
<1>2. payment[p].amount \in Nat /\ payment[p].batch \in Batches
  BY DEF PayersPlaced
<1>3. TypeOK'
  <2>1. received' \in [Batches -> Nat] /\ records' \in [Batches -> Nat]
    BY <1>2 DEF TypeOK
  <2>2. payment' \in [Payers -> [batch : Batches \cup {None}, amount : Int]]
    BY DEF TypeOK, NoPayment
  <2> QED
    BY <1>1, <2>1, <2>2 DEF TypeOK
<1>4. PayersPlaced' /\ Documented'
  BY <1>1 DEF PayersPlaced, Documented, Settled, NoPayment
<1>5. ClerksPlaced' /\ LaterSettled' /\ Prepared' /\ Compared' /\ SameDocument' /\ OneFinaliser'
  BY <1>1 DEF ClerksPlaced, LaterSettled, Prepared, Compared, SameDocument, OneFinaliser,
              Finalising, Later, Settled
<1> QED
  BY <1>3, <1>4, <1>5

LEMMA StutterInv == ASSUME Inv, UNCHANGED vars PROVE Inv'
BY DEF Inv, vars, TypeOK, ClerksPlaced, PayersPlaced, Documented, LaterSettled, Prepared,
       Compared, OneFinaliser, SameDocument, Finalising, Later, Settled

LEMMA NextInv == ASSUME Inv, [Next]_vars PROVE Inv'
<1>1. CASE Next
  BY <1>1, StepCases, CreateInv, LoadInv, SetMetadataInv, DiffInv, SaveInv, SaveSheetsInv,
     AbandonInv, CheckPaymentInv, InsertPaymentInv
<1>2. CASE UNCHANGED vars
  BY <1>2, StutterInv
<1> QED
  BY <1>1, <1>2

LEMMA InvHolds == Spec => []Inv
BY InitInv, NextInv, PTL DEF Spec

-----------------------------------------------------------------------------
(* Every reachable state is well typed; in particular what a batch has     *)
(* received is never negative.                                             *)
THEOREM TypeCorrect == Spec => []TypeOK
<1>1. Inv => TypeOK
  BY DEF Inv
<1> QED
  BY <1>1, InvHolds, PTL

(* Only creations and saves touch batches.                                 *)
LEMMA BatchSteps ==
  ASSUME Next
  PROVE  batch' = batch \/ (\E a \in Batches : CreateBatch(a)) \/ (\E c \in Clerks : SaveBatch(c))
BY StepCases DEF LoadStep, Load, SetMetadata, DiffBatch, SaveSheets, Abandon, PayStep,
                 CheckPayment, InsertPayment, rows

(* A step keeps the number and amount of a batch that has left draft, and  *)
(* no batch goes back to draft.                                            *)
LEMMA DocumentKept ==
  ASSUME Inv, Next, NEW b \in Batches, Settled(b)
  PROVE  /\ Settled(b)'
         /\ ~contested[b] => batch'[b].number = batch[b].number /\ batch'[b].net = batch[b].net
<1>1. CASE batch' = batch
  BY <1>1 DEF Settled
<1>2. ASSUME NEW a \in Batches, CreateBatch(a) PROVE batch'[b] = batch[b]
  BY <1>2 DEF CreateBatch, Settled, Inv, TypeOK
<1>3. ASSUME NEW c \in Clerks, SaveBatch(c)
      PROVE  /\ batch'[b].status \in {"finalised", "issued", "paid"}
             /\ ~contested[b] => batch'[b].number = batch[b].number /\ batch'[b].net = batch[b].net
  BY <1>3, SaveWrites DEF Settled
<1> QED
  BY BatchSteps, <1>1, <1>2, <1>3 DEF Settled

(* The number and amount of an invoice stay what they are through issuing, *)
(* paying and stale saves, for any number of clerks, unless two requests   *)
(* finalised the same draft.                                               *)
THEOREM StableTheorem == Spec => StableUnlessContested
<1>1. Inv /\ [Next]_vars =>
        [\A b \in Batches : batch[b].number # 0 /\ ~contested[b] =>
           batch'[b].number = batch[b].number /\ batch'[b].net = batch[b].net]_vars
  BY DocumentKept DEF Inv, Documented
<1> QED
  BY <1>1, InvHolds, PTL DEF Spec, StableUnlessContested

-----------------------------------------------------------------------------
(* A paid batch has received its amount.                                   *)

(* A clerk who will save a batch as paid has found it settled; timesheets  *)
(* say paid only of batches that have left draft.                          *)
PaidFor ==
  /\ \A c \in Clerks : LET b == order[c].batch IN
       order[c].status = "paid" /\ ~contested[b] => received[b] >= batch[b].net
  /\ \A b \in Batches : sheets[b].paid => Settled(b)

PaidInv == Inv /\ PaidFor /\ SettledBeforePaid

LEMMA InitPaid == Init => PaidInv
<1> SUFFICES ASSUME Init PROVE PaidInv
  OBVIOUS
<1>1. Inv
  BY InitInv
<1>2. PaidFor /\ SettledBeforePaid
  BY DEF Init, PaidFor, SettledBeforePaid, NoOrder, NewRow
<1> QED
  BY <1>1, <1>2 DEF PaidInv

(* What a batch has received only grows.                                   *)
LEMMA ReceivedGrows ==
  ASSUME Inv, Next, NEW b \in Batches
  PROVE  received[b] \in Nat /\ received'[b] \in Nat /\ received'[b] >= received[b]
<1>1. ASSUME NEW p \in Payers, InsertPayment(p) PROVE received'[b] >= received[b]
  BY <1>1 DEF InsertPayment, Inv, TypeOK, PayersPlaced
<1>2. received' = received \/ \E p \in Payers : InsertPayment(p)
  BY StepCases DEF LoadStep, Load, SetMetadata, DiffBatch, SaveBatch, SaveSheets, Abandon, PayStep,
                   CheckPayment, CreateBatch, rows
<1>3. received[b] \in Nat /\ received'[b] \in Nat
  BY NextInv DEF Inv, TypeOK
<1> QED
  BY <1>1, <1>2, <1>3

LEMMA NextPaid == ASSUME PaidInv, Next PROVE PaidInv'
<1> USE DEF PaidInv
<1>1. Inv'
  BY NextInv
<1>2. \A b \in Batches : ~contested'[b] => ~contested[b]
  BY StepCases, ZenonT(30) DEF CreateBatch, LoadStep, Load, SetMetadata, DiffBatch, SaveBatch, SaveSheets,
                   Abandon, PayStep, CheckPayment, InsertPayment, rows, history, Inv, TypeOK
<1>3. \A b \in Batches : Settled(b) /\ ~contested'[b] /\ received[b] >= batch[b].net =>
                         received'[b] >= batch'[b].net
  <2> SUFFICES ASSUME NEW b \in Batches, Settled(b), ~contested'[b], received[b] >= batch[b].net
               PROVE  received'[b] >= batch'[b].net
    OBVIOUS
  <2>1. batch'[b].net = batch[b].net /\ batch[b].net \in Nat
    BY <1>2, DocumentKept, InvoicingAssumption DEF Inv, TypeOK, Row, Documented
  <2> QED
    BY <2>1, ReceivedGrows
<1>4. PaidFor'
  <2>1. ASSUME NEW c \in Clerks, order'[c].status = "paid", ~contested'[order'[c].batch]
        PROVE  received'[order'[c].batch] >= batch'[order'[c].batch].net
    <3>1. CASE order'[c] = order[c]
      BY <1>2, <1>3, <2>1, <3>1 DEF PaidFor, Inv, LaterSettled, Later, ClerksPlaced, NoOrder
    <3>2. ASSUME NEW b \in Batches, NEW f \in Statuses, NEW t \in Statuses, LoadStep(c, b, f, t)
          PROVE  received'[order'[c].batch] >= batch'[order'[c].batch].net
      <4>1. order'[c] = [batch |-> b, status |-> "paid"] /\ batch[b].status = "issued"
            /\ UNCHANGED <<batch, received>> /\ \E total \in InvoiceAmounts(b) : received[b] >= total
        BY <2>1, <3>2 DEF LoadStep, Load, rows, Inv, TypeOK
      <4>2. InvoiceAmounts(b) = {batch[b].net}
        BY <4>1 DEF InvoiceAmounts, Inv, Documented, Settled
      <4> QED
        BY <4>1, <4>2
    <3>3. order'[c] = order[c] \/ order'[c] = NoOrder
          \/ \E b \in Batches, f, t \in Statuses : LoadStep(c, b, f, t)
      <4>1. ASSUME NEW d \in Clerks, Done(d) \/ UNCHANGED order
            PROVE  order'[c] = order[c] \/ order'[c] = NoOrder
        BY <4>1 DEF Done, Inv, TypeOK
      <4>2. \A d \in Clerks :
              SetMetadata(d) \/ DiffBatch(d) \/ SaveBatch(d) \/ SaveSheets(d) \/ Abandon(d) =>
                Done(d) \/ UNCHANGED order
        BY DEF SetMetadata, DiffBatch, SaveBatch, SaveSheets, Abandon
      <4>3. ASSUME NEW d \in Clerks, NEW b \in Batches, NEW f \in Statuses, NEW t \in Statuses,
                   LoadStep(d, b, f, t), d # c
            PROVE  order'[c] = order[c]
        BY <4>3 DEF LoadStep, Load, Inv, TypeOK
      <4> QED
        BY StepCases, <4>1, <4>2, <4>3 DEF CreateBatch, PayStep, CheckPayment, InsertPayment
    <3> QED
      BY <2>1, <3>1, <3>2, <3>3 DEF NoOrder
  <2>2. ASSUME NEW b \in Batches, sheets'[b].paid PROVE Settled(b)'
    <3>1. sheets'[b] = sheets[b] \/ \E c \in Clerks : SaveSheets(c) /\ order[c].batch = b
      BY StepCases DEF CreateBatch, LoadStep, Load, SetMetadata, DiffBatch, SaveBatch, SaveSheets,
                       Abandon, PayStep, CheckPayment, InsertPayment, rows, Inv, TypeOK
    <3>2. ASSUME NEW c \in Clerks, SaveSheets(c), order[c].batch = b PROVE Settled(b)
      BY <3>2 DEF SaveSheets, Inv, ClerksPlaced, LaterSettled
    <3> QED
      BY <2>2, <3>1, <3>2, DocumentKept DEF PaidFor
  <2> QED
    BY <2>1, <2>2, Zenon DEF PaidFor
<1>5. SettledBeforePaid'
  <2> SUFFICES ASSUME NEW b \in Batches, batch'[b].status = "paid" \/ sheets'[b].paid, ~contested'[b]
               PROVE  received'[b] >= batch'[b].net
    BY DEF SettledBeforePaid
  <2>1. CASE batch[b].status = "paid" \/ sheets[b].paid
    BY <1>2, <1>3, <2>1 DEF SettledBeforePaid, PaidFor, Settled
  <2>2. ASSUME NEW c \in Clerks, order[c] = [batch |-> b, status |-> "paid"]
        PROVE  received'[b] >= batch'[b].net
    BY <1>2, <1>3, <2>2 DEF PaidFor, Inv, LaterSettled, Later
  <2>3. sheets'[b].paid => sheets[b].paid \/ \E c \in Clerks : order[c] = [batch |-> b, status |-> "paid"]
    <3>1. sheets' = sheets \/ \E c \in Clerks : SaveSheets(c)
      BY StepCases DEF CreateBatch, LoadStep, Load, SetMetadata, DiffBatch, SaveBatch,
                       Abandon, PayStep, CheckPayment, InsertPayment, rows
    <3>2. ASSUME NEW c \in Clerks, SaveSheets(c), sheets'[b].paid, ~sheets[b].paid
          PROVE  order[c] = [batch |-> b, status |-> "paid"]
      BY <3>2 DEF SaveSheets, Inv, TypeOK, Order, Sheets
    <3> QED
      BY <3>1, <3>2
  <2>4. batch'[b].status = "paid" =>
          batch[b].status = "paid" \/ \E c \in Clerks : order[c] = [batch |-> b, status |-> "paid"]
    <3>2. ASSUME NEW a \in Batches, CreateBatch(a), batch'[b].status = "paid"
          PROVE  batch[b].status = "paid"
      BY <3>2 DEF CreateBatch, Inv, TypeOK, Row
    <3>3. ASSUME NEW c \in Clerks, SaveBatch(c), batch'[b].status = "paid", batch[b].status # "paid"
          PROVE  order[c] = [batch |-> b, status |-> "paid"]
      <4>1. order[c].batch = b /\ pc[c] = "diffed"
            /\ batch'[b] = Updated(batch[b], entity[c].row, diff[c])
        BY <3>3, SaveWrites
      <4>2. entity[c].row.status = "paid" /\ entity[c].row.status = order[c].status
        BY <3>3, <4>1 DEF Updated, Inv, Prepared
      <4> QED
        BY <4>1, <4>2 DEF Inv, TypeOK, Order
    <3> QED
      BY BatchSteps, <3>2, <3>3
  <2> QED
    BY <2>1, <2>2, <2>3, <2>4
<1> QED
  BY <1>1, <1>4, <1>5

LEMMA PaidHolds == Spec => []PaidInv
<1>1. PaidInv /\ UNCHANGED vars => PaidInv'
  BY StutterInv DEF PaidInv, vars, PaidFor, SettledBeforePaid, Settled
<1>2. PaidInv /\ [Next]_vars => PaidInv'
  BY <1>1, NextPaid
<1> QED
  BY <1>2, InitPaid, PTL DEF Spec

(* A batch that is paid, or whose timesheets are, has received its amount, *)
(* whatever clerks save and payers record meanwhile.                       *)
THEOREM PaidTheorem == Spec => []SettledBeforePaid
<1>1. PaidInv => SettledBeforePaid
  BY DEF PaidInv
<1> QED
  BY <1>1, PaidHolds, PTL

-----------------------------------------------------------------------------
(* Payments recorded one after the other do not exceed the amount.         *)

(* A payer whose batch is uncrowded is alone, and his payment still fits;  *)
(* payments are received only by batches that have left draft.             *)
PaymentFits ==
  \A p \in Payers : LET b == payment[p].batch IN
    pc[p] = "checked" /\ ~contested[b] /\ ~crowded[b] =>
      /\ Paying(b) = {p}
      /\ received[b] + payment[p].amount <= batch[b].net

ReceivedSettled == \A b \in Batches : received[b] > 0 => Settled(b)

FitInv == Inv /\ PaymentFits /\ ReceivedSettled /\ OverpaidOnlyTogether

LEMMA InitFit == Init => FitInv
<1> SUFFICES ASSUME Init PROVE FitInv
  OBVIOUS
<1>1. Inv
  BY InitInv
<1>2. PaymentFits /\ ReceivedSettled /\ OverpaidOnlyTogether
  BY DEF Init, PaymentFits, ReceivedSettled, OverpaidOnlyTogether
<1> QED
  BY <1>1, <1>2 DEF FitInv

(* Steps other than a payer's leave payments alone.                        *)
LEMMA PayerSteps ==
  ASSUME Inv, Next
  PROVE  \/ \E p \in Payers, b \in Batches, amount \in Payments : PayStep(p, b, amount)
         \/ \E p \in Payers : InsertPayment(p)
         \/ /\ UNCHANGED <<received, payment, crowded>>
            /\ \A p \in Payers : pc'[p] = pc[p]
            /\ \A b \in Batches : ~contested'[b] => ~contested[b]
<1>1. ASSUME NEW c \in Clerks, \/ \E b \in Batches, f, t \in Statuses : LoadStep(c, b, f, t)
                               \/ SetMetadata(c) \/ DiffBatch(c) \/ SaveBatch(c)
                               \/ SaveSheets(c) \/ Abandon(c)
      PROVE  \A p \in Payers : pc'[p] = pc[p]
  <2>1. \E x \in {"start", "loaded", "named", "diffed", "saved"} : pc' = [pc EXCEPT ![c] = x]
    BY <1>1 DEF LoadStep, Load, SetMetadata, DiffBatch, SaveBatch, SaveSheets, Abandon, Done, Go
  <2>2. \A p \in Payers : p # c
    BY InvoicingAssumption
  <2> QED
    BY <2>1, <2>2 DEF Inv, TypeOK
<1>2. (\E b \in Batches : CreateBatch(b)) => UNCHANGED <<received, payment, crowded, contested, pc>>
  BY DEF CreateBatch, history
<1>3. ASSUME NEW c \in Clerks, \/ \E b \in Batches, f, t \in Statuses : LoadStep(c, b, f, t)
                               \/ SetMetadata(c) \/ DiffBatch(c) \/ SaveBatch(c)
                               \/ SaveSheets(c) \/ Abandon(c)
      PROVE  /\ UNCHANGED <<received, payment, crowded>>
             /\ \A b \in Batches : ~contested'[b] => ~contested[b]
  BY <1>3 DEF LoadStep, Load, SetMetadata, DiffBatch, SaveBatch, SaveSheets, Abandon, rows, history,
              Inv, TypeOK
<1> QED
  BY StepCases, <1>1, <1>2, <1>3

LEMMA NextFit == ASSUME FitInv, Next PROVE FitInv'
<1> USE DEF FitInv
<1>1. Inv'
  BY NextInv
<1>2. CASE /\ UNCHANGED <<received, payment, crowded>>
           /\ \A p \in Payers : pc'[p] = pc[p]
           /\ \A b \in Batches : ~contested'[b] => ~contested[b]
  <2>1. \A b \in Batches : Settled(b) /\ ~contested'[b] => batch'[b].net = batch[b].net
    BY <1>2, DocumentKept
  <2>2. PaymentFits'
    <3> SUFFICES ASSUME NEW p \in Payers, pc'[p] = "checked", ~contested'[payment'[p].batch],
                        ~crowded'[payment'[p].batch]
                 PROVE  /\ Paying(payment[p].batch)' = {p}
                        /\ received'[payment'[p].batch] + payment'[p].amount <= batch'[payment'[p].batch].net
      BY <1>2 DEF PaymentFits
    <3>1. pc[p] = "checked" /\ payment[p].batch \in Batches /\ Settled(payment[p].batch)
      BY <1>2 DEF Inv, PayersPlaced
    <3>2. Paying(payment[p].batch)' = Paying(payment[p].batch)
      BY <1>2 DEF Paying
    <3> QED
      BY <1>2, <2>1, <3>1, <3>2 DEF PaymentFits
  <2>3. ReceivedSettled' /\ OverpaidOnlyTogether'
    BY <1>2, <2>1, DocumentKept DEF ReceivedSettled, OverpaidOnlyTogether
  <2> QED
    BY <1>1, <2>2, <2>3
<1>3. ASSUME NEW p \in Payers, NEW b \in Batches, NEW amount \in Payments, PayStep(p, b, amount)
      PROVE  FitInv'
  <2>1. /\ UNCHANGED <<batch, received, contested>> /\ Settled(b)
        /\ payment'[p] = [batch |-> b, amount |-> amount] /\ pc'[p] = "checked" /\ pc[p] = "start"
        /\ \A q \in Payers \ {p} : pc'[q] = pc[q] /\ payment'[q] = payment[q]
        /\ ~crowded'[b] => ~crowded[b] /\ Paying(b) = {}
        /\ \A a \in Batches : ~crowded'[a] => ~crowded[a]
    BY <1>3 DEF PayStep, CheckPayment, Go, rows, Inv, TypeOK, Settled
  <2>2. received[b] + amount <= batch[b].net
    <3>1. InvoiceAmounts(b) = {batch[b].net}
      BY <2>1 DEF InvoiceAmounts, Inv, Documented
    <3> QED
      BY <1>3, <3>1 DEF PayStep
  <2>3. PaymentFits'
    <3> SUFFICES ASSUME NEW q \in Payers, NEW a \in Batches, payment'[q].batch = a,
                        pc'[q] = "checked", ~contested'[a], ~crowded'[a]
                 PROVE  Paying(a)' = {q} /\ received'[a] + payment'[q].amount <= batch'[a].net
      BY <1>1 DEF PaymentFits, Inv, PayersPlaced
    <3>1. CASE a = b
      BY <2>1, <2>2, <3>1 DEF Paying
    <3>2. CASE a # b
      <4>1. q # p /\ Paying(a)' = Paying(a)
        BY <2>1, <3>2 DEF Paying
      <4> QED
        BY <2>1, <4>1 DEF PaymentFits
    <3> QED
      BY <3>1, <3>2
  <2>4. ReceivedSettled' /\ OverpaidOnlyTogether'
    BY <2>1 DEF ReceivedSettled, OverpaidOnlyTogether, Settled
  <2> QED
    BY <1>1, <2>3, <2>4
<1>4. ASSUME NEW p \in Payers, InsertPayment(p) PROVE FitInv'
  <2> DEFINE b == payment[p].batch
             n == payment[p].amount
  <2>1. /\ UNCHANGED <<batch, contested, crowded>> /\ b \in Batches /\ n \in Nat /\ Settled(b)
        /\ pc[p] = "checked" /\ pc'[p] = "start"
        /\ received'[b] = received[b] + n /\ \A a \in Batches \ {b} : received'[a] = received[a]
        /\ \A q \in Payers \ {p} : pc'[q] = pc[q] /\ payment'[q] = payment[q]
    BY <1>4 DEF InsertPayment, Go, history, Inv, TypeOK, PayersPlaced
  <2>2. PaymentFits'
    <3> SUFFICES ASSUME NEW q \in Payers, NEW a \in Batches, payment'[q].batch = a,
                        pc'[q] = "checked", ~contested'[a], ~crowded'[a]
                 PROVE  Paying(a)' = {q} /\ received'[a] + payment'[q].amount <= batch'[a].net
      BY <1>1 DEF PaymentFits, Inv, PayersPlaced
    <3>1. q # p /\ pc[q] = "checked" /\ payment[q].batch = a /\ payment'[q] = payment[q]
      BY <2>1
    <3>2. Paying(a) = {q} /\ received[a] + payment[q].amount <= batch[a].net
      BY <2>1, <3>1 DEF PaymentFits
    <3>3. a # b
      BY <2>1, <3>1, <3>2 DEF Paying
    <3>4. Paying(a)' = {q}
      BY <2>1, <3>1, <3>2, <3>3 DEF Paying
    <3> QED
      BY <2>1, <3>1, <3>2, <3>3, <3>4
  <2>3. ReceivedSettled'
    BY <2>1 DEF ReceivedSettled, Settled
  <2>4. OverpaidOnlyTogether'
    BY <2>1 DEF OverpaidOnlyTogether, PaymentFits
  <2> QED
    BY <1>1, <2>2, <2>3, <2>4
<1> QED
  BY PayerSteps, <1>2, <1>3, <1>4

LEMMA FitHolds == Spec => []FitInv
<1>1. FitInv /\ UNCHANGED vars => FitInv'
  BY StutterInv DEF FitInv, vars, PaymentFits, Paying, ReceivedSettled, OverpaidOnlyTogether, Settled
<1>2. FitInv /\ [Next]_vars => FitInv'
  BY <1>1, NextFit
<1> QED
  BY <1>2, InitFit, PTL DEF Spec

(* What an invoice has received does not exceed its amount, for any number *)
(* of clerks and payers, unless two payments were checked at once.         *)
THEOREM OverpaidTheorem == Spec => []OverpaidOnlyTogether
<1>1. FitInv => OverpaidOnlyTogether
  BY DEF FitInv
<1> QED
  BY <1>1, FitHolds, PTL

-----------------------------------------------------------------------------
(* The numbers of a company follow on.                                     *)

Calm == \A b \in Batches : ~contested[b]

Given(k) == {batch[b].number : b \in Numbered(k)}

(* The number a finalise request has in hand is given already or the next. *)
Offered ==
  \A c \in Clerks :
    order[c].status = "finalised" /\ pc[c] \in {"named", "diffed"} =>
      entity[c].row.number \in 1 .. Cardinality(Numbered(CompanyOf[order[c].batch])) + 1

NumberInv == Inv /\ (Calm => Offered) /\ NumbersFollowOn

LEMMA InitNumbers == Init => NumberInv
<1> SUFFICES ASSUME Init PROVE NumberInv
  OBVIOUS
<1>1. Inv
  BY InitInv
<1>2. \A k : Numbered(k) = {}
  BY DEF Init, Numbered, NewRow
<1>3. Cardinality({}) = 0
  BY FS_EmptySet
<1>4. NumbersFollowOn
  BY <1>2, <1>3 DEF NumbersFollowOn
<1>5. Offered
  BY DEF Init, Offered, NoOrder
<1> QED
  BY <1>1, <1>4, <1>5 DEF NumberInv

(* In a calm step no number changes, or one clerk gives a number nobody    *)
(* else has.                                                               *)
LEMMA OneNumberGiven ==
  ASSUME Inv, Next, Calm
  PROVE  \/ \A b \in Batches : batch'[b].number = batch[b].number
         \/ \E c \in Clerks : LET b == order[c].batch IN
              /\ b \in Batches /\ batch[b].number = 0
              /\ order[c].status = "finalised" /\ pc[c] = "diffed"
              /\ batch'[b].number = entity[c].row.number /\ entity[c].row.number # 0
              /\ \A a \in Batches \ {b} : /\ batch'[a].number = batch[a].number
                                          /\ batch[a].number # entity[c].row.number
<1>2. (\E a \in Batches : CreateBatch(a)) => \A b \in Batches : batch'[b].number = batch[b].number
  BY DEF CreateBatch, Inv, TypeOK, Row
<1>3. ASSUME NEW c \in Clerks, SaveBatch(c), batch' # batch,
             ~ \A b \in Batches : batch'[b].number = batch[b].number
      PROVE  LET b == order[c].batch IN
              /\ b \in Batches /\ batch[b].number = 0
              /\ order[c].status = "finalised" /\ pc[c] = "diffed"
              /\ batch'[b].number = entity[c].row.number /\ entity[c].row.number # 0
              /\ \A a \in Batches \ {b} : /\ batch'[a].number = batch[a].number
                                          /\ batch[a].number # entity[c].row.number
  <2> DEFINE b == order[c].batch
  <2>1. /\ b \in Batches /\ pc[c] = "diffed" /\ ~Collides(c)
        /\ batch'[b] = Updated(batch[b], entity[c].row, diff[c])
        /\ \A a \in Batches \ {b} : batch'[a] = batch[a]
        /\ Settled(b) => batch'[b].number = batch[b].number
    BY <1>3, SaveWrites DEF Calm
  <2>2. ~Settled(b)
    BY <1>3, <2>1
  <2>3. batch[b].number = 0 /\ diff[c] = Columns /\ order[c].status = "finalised"
        /\ entity[c].row.number # 0
    BY <2>1, <2>2 DEF Inv, Documented, Compared, LaterSettled, Later, ClerksPlaced, Prepared
  <2>4. batch'[b].number = entity[c].row.number
    BY <2>1, <2>3 DEF Updated, Columns
  <2>5. \A a \in Batches \ {b} : batch[a].number # entity[c].row.number
    BY <2>1, <2>3 DEF Collides, Columns
  <2> QED
    BY <2>1, <2>3, <2>4, <2>5
<1> QED
  BY BatchSteps, <1>2, <1>3

(* A number in hand that no batch of the company has is the next one.      *)
LEMMA UnusedIsNext ==
  ASSUME NumberInv, Calm, NEW c \in Clerks, NEW k \in Companies,
         order[c].batch \in Batches, CompanyOf[order[c].batch] = k,
         order[c].status = "finalised", pc[c] = "diffed",
         entity[c].row.number \notin Given(k)
  PROVE  entity[c].row.number = Cardinality(Numbered(k)) + 1
<1>1. Cardinality(Numbered(k)) \in Nat /\ Given(k) = 1 .. Cardinality(Numbered(k))
  BY NumbersFinite DEF NumberInv, NumbersFollowOn, Calm, Given
<1>2. entity[c].row.number \in 1 .. Cardinality(Numbered(k)) + 1
  BY DEF NumberInv, Offered
<1> QED
  BY <1>1, <1>2

(* A calm step keeps the numbers of a company, or adds the next one.       *)
LEMMA NumbersGrow ==
  ASSUME NumberInv, Next, Calm, NEW k \in Companies
  PROVE  /\ Given(k)' = 1 .. Cardinality(Numbered(k)')
         /\ Cardinality(Numbered(k)') \in Nat
         /\ Cardinality(Numbered(k)) <= Cardinality(Numbered(k)')
<1> DEFINE N == Cardinality(Numbered(k))
<1>1. N \in Nat /\ IsFiniteSet(Numbered(k)) /\ Given(k) = 1 .. N
  BY NumbersFinite DEF NumberInv, NumbersFollowOn, Calm, Given
<1>2. CASE \A b \in Batches : batch'[b].number = batch[b].number
  <2>1. Numbered(k)' = Numbered(k) /\ Given(k)' = Given(k)
    BY <1>2 DEF Numbered, Given
  <2> QED
    BY <1>1, <2>1
<1>3. ASSUME NEW c \in Clerks, order[c].batch \in Batches,
             batch[order[c].batch].number = 0, order[c].status = "finalised", pc[c] = "diffed",
             batch'[order[c].batch].number = entity[c].row.number, entity[c].row.number # 0,
             \A a \in Batches \ {order[c].batch} : /\ batch'[a].number = batch[a].number
                                                   /\ batch[a].number # entity[c].row.number
      PROVE  /\ Given(k)' = 1 .. Cardinality(Numbered(k)')
             /\ Cardinality(Numbered(k)') \in Nat
             /\ Cardinality(Numbered(k)) <= Cardinality(Numbered(k)')
  <2> DEFINE b == order[c].batch
             n == entity[c].row.number
  <2>1. CASE CompanyOf[b] # k
    <3>1. Numbered(k)' = Numbered(k) /\ Given(k)' = Given(k)
      BY <1>3, <2>1 DEF Numbered, Given
    <3> QED
      BY <1>1, <3>1
  <2>2. CASE CompanyOf[b] = k
    <3>1. Numbered(k)' = Numbered(k) \cup {b} /\ b \notin Numbered(k)
      BY <1>3, <2>2 DEF Numbered
    <3>2. Given(k)' = Given(k) \cup {n}
      BY <1>3, <3>1 DEF Given, Numbered
    <3>3. n \notin Given(k)
      BY <1>3 DEF Given, Numbered
    <3>4. n = N + 1
      BY <1>3, <2>2, <3>3, UnusedIsNext
    <3>5. Cardinality(Numbered(k)') = N + 1
      BY <1>1, <3>1, FS_AddElement
    <3> QED
      BY <1>1, <3>2, <3>4, <3>5
  <2> QED
    BY <2>1, <2>2
<1> QED
  BY <1>2, <1>3, OneNumberGiven DEF NumberInv

(* A finalise request gets its number from SetMetadata and keeps it.       *)
LEMMA StepOfFinaliser ==
  ASSUME Inv, Next, NEW c \in Clerks, pc'[c] \in {"named", "diffed"}
  PROVE  /\ order'[c] = order[c]
         /\ SetMetadata(c) \/ (pc[c] \in {"named", "diffed"} /\ entity'[c] = entity[c])
<1>1. ASSUME NEW d \in Clerks, NEW b \in Batches, NEW f \in Statuses, NEW t \in Statuses,
             LoadStep(d, b, f, t)
      PROVE  pc'[c] = pc[c] /\ order'[c] = order[c] /\ entity'[c] = entity[c]
  BY <1>1 DEF LoadStep, Load, Go, Inv, TypeOK
<1>2. ASSUME NEW d \in Clerks, Done(d)
      PROVE  pc'[c] = pc[c] /\ order'[c] = order[c] /\ entity'[c] = entity[c]
  BY <1>2 DEF Done, Inv, TypeOK
<1>3. ASSUME NEW d \in Clerks, d # c, SetMetadata(d)
      PROVE  pc'[c] = pc[c] /\ order'[c] = order[c] /\ entity'[c] = entity[c]
  BY <1>3 DEF SetMetadata, Go, Inv, TypeOK
<1>4. ASSUME NEW d \in Clerks, DiffBatch(d), ~Done(d)
      PROVE  (pc'[c] = pc[c] \/ pc[c] = "named") /\ order'[c] = order[c] /\ entity'[c] = entity[c]
  BY <1>4 DEF DiffBatch, Inv, TypeOK
<1>5. ASSUME NEW d \in Clerks, SaveBatch(d), ~Done(d)
      PROVE  pc'[c] = pc[c] /\ order'[c] = order[c] /\ entity'[c] = entity[c]
  BY <1>5 DEF SaveBatch, Inv, TypeOK
<1>6. ASSUME NEW p \in Payers, \/ \E b \in Batches, amount \in Payments : PayStep(p, b, amount)
                               \/ InsertPayment(p)
      PROVE  pc'[c] = pc[c] /\ order'[c] = order[c] /\ entity'[c] = entity[c]
  BY <1>6, InvoicingAssumption DEF PayStep, CheckPayment, InsertPayment, Go, Inv, TypeOK
<1>7. SetMetadata(c) => order'[c] = order[c]
  BY DEF SetMetadata
<1>8. ASSUME NEW b \in Batches, CreateBatch(b)
      PROVE  pc'[c] = pc[c] /\ order'[c] = order[c] /\ entity'[c] = entity[c]
  BY <1>8 DEF CreateBatch
<1>9. ASSUME NEW d \in Clerks,
             SetMetadata(d) \/ DiffBatch(d) \/ SaveBatch(d) \/ SaveSheets(d) \/ Abandon(d)
      PROVE  /\ order'[c] = order[c]
             /\ SetMetadata(c) \/ (pc[c] \in {"named", "diffed"} /\ entity'[c] = entity[c])
  <2>1. CASE Done(d)
    BY <1>2, <2>1
  <2>2. CASE SetMetadata(d)
    <3>1. CASE d = c
      BY <1>7, <2>2, <3>1
    <3>2. CASE d # c
      BY <1>3, <2>2, <3>2
    <3> QED
      BY <3>1, <3>2
  <2>3. CASE (DiffBatch(d) \/ SaveBatch(d)) /\ ~Done(d)
    BY <1>4, <1>5, <2>3
  <2>4. SaveSheets(d) \/ Abandon(d) => Done(d)
    BY DEF SaveSheets, Abandon
  <2> QED
    BY <1>9, <2>1, <2>2, <2>3, <2>4
<1> QED
  BY StepCases, <1>1, <1>6, <1>8, <1>9

LEMMA MetadataNumber ==
  ASSUME Inv, NEW c \in Clerks, order[c].status = "finalised", SetMetadata(c)
  PROVE  entity'[c].row.number = NextNumber(CompanyOf[order[c].batch])
<1>1. entity[c].row.number = 0 /\ entity[c].row \in Row /\ entity[c] \in [row : Row, known : Nat]
  BY DEF Inv, SetMetadata, Go, Prepared, Later, TypeOK, Loaded
<1>2. PICK priced \in Totals :
        entity'[c] = [entity[c] EXCEPT !.row =
          [WithMetadata(entity[c].row, order[c].batch, priced) EXCEPT !.status = "finalised"]]
  BY DEF SetMetadata, Inv, TypeOK
<1>3. entity'[c].row = [WithMetadata(entity[c].row, order[c].batch, priced) EXCEPT !.status = "finalised"]
  BY <1>1, <1>2
<1>4. ASSUME NEW r \in Row, NEW n, r.number = 0
      PROVE  [[r EXCEPT !.number = IF @ = 0 THEN n ELSE @,
                        !.net = IF @ = None THEN priced ELSE @] EXCEPT !.status = "finalised"].number = n
  BY <1>4 DEF Row
<1> QED
  BY <1>1, <1>3, <1>4 DEF WithMetadata

LEMMA NextNumbers == ASSUME NumberInv, Next PROVE NumberInv'
<1>1. Inv'
  BY NextInv DEF NumberInv
<1>2. Calm' => Calm
  BY StepCases, ZenonT(30) DEF Calm, CreateBatch, LoadStep, Load, SetMetadata, DiffBatch, SaveBatch, SaveSheets,
                   Abandon, PayStep, CheckPayment, InsertPayment, rows, history, NumberInv, Inv, TypeOK
<1>3. NumbersFollowOn'
  BY <1>2, NumbersGrow DEF NumbersFollowOn, Calm, Given
<1>4. ASSUME Calm' PROVE Offered'
  <2> SUFFICES ASSUME NEW c \in Clerks, order'[c].status = "finalised", pc'[c] \in {"named", "diffed"}
               PROVE  entity'[c].row.number \in
                        1 .. Cardinality(Numbered(CompanyOf[order[c].batch]))' + 1
    BY DEF Offered
  <2>1. order'[c] = order[c] /\ (SetMetadata(c) \/ (pc[c] \in {"named", "diffed"} /\ entity'[c] = entity[c]))
    BY StepOfFinaliser DEF NumberInv
  <2>2. order[c].batch \in Batches /\ CompanyOf[order[c].batch] \in Companies
    BY <1>1, <2>1, InvoicingAssumption DEF Inv, ClerksPlaced, NoOrder
  <2> PICK k \in Companies : k = CompanyOf[order[c].batch]
    BY <2>2
  <2>3. /\ Cardinality(Numbered(k)) \in Nat /\ Cardinality(Numbered(k)') \in Nat
        /\ Cardinality(Numbered(k)) <= Cardinality(Numbered(k)')
    BY <1>2, <1>4, NumbersGrow, NumbersFinite
  <2>4. entity'[c].row.number \in 1 .. Cardinality(Numbered(k)) + 1
    <3>1. CASE SetMetadata(c)
      BY <2>1, <2>3, <3>1, MetadataNumber DEF NextNumber, NumberInv
    <3>2. CASE pc[c] \in {"named", "diffed"} /\ entity'[c] = entity[c]
      BY <1>2, <1>4, <2>1, <3>2 DEF NumberInv, Offered
    <3> QED
      BY <2>1, <3>1, <3>2
  <2>5. entity'[c].row.number \in 1 .. Cardinality(Numbered(k)') + 1
    BY <2>3, <2>4
  <2> QED
    BY <2>1, <2>5
<1> QED
  BY <1>1, <1>3, <1>4 DEF NumberInv

LEMMA NumbersHold == Spec => []NumberInv
<1>1. NumberInv /\ UNCHANGED vars => NumberInv'
  <2> SUFFICES ASSUME NumberInv, UNCHANGED vars PROVE NumberInv'
    OBVIOUS
  <2>1. Inv' /\ (Calm' <=> Calm)
    BY StutterInv DEF NumberInv, vars, Calm
  <2>2. \A k : Numbered(k)' = Numbered(k)
    BY DEF vars, Numbered
  <2>3. Offered => Offered'
    BY <2>2 DEF vars, Offered
  <2>4. NumbersFollowOn'
    BY <2>2 DEF vars, NumberInv, NumbersFollowOn
  <2> QED
    BY <2>1, <2>3, <2>4 DEF NumberInv
<1>2. NumberInv /\ [Next]_vars => NumberInv'
  BY <1>1, NextNumbers
<1> QED
  BY <1>2, InitNumbers, PTL DEF Spec

(* Each company's invoice numbers run from 1 without a gap, for any number *)
(* of companies and clerks that count without a lock, unless two requests  *)
(* finalised the same draft.                                               *)
THEOREM NumbersTheorem == Spec => []NumbersFollowOn
<1>1. NumberInv => NumbersFollowOn
  BY DEF NumberInv
<1> QED
  BY <1>1, NumbersHold, PTL

==============================================================================
