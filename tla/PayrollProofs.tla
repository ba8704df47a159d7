---------------------------- MODULE PayrollProofs ----------------------------
(* Proofs about Payroll, for any number of timesheets, batches and requests. *)
EXTENDS Payroll, WellFoundedInduction, TLAPS

(* Every editor action is a LoadRows of rows that keep their batch.          *)
Keeps(new) ==
  /\ DOMAIN new \subseteq Timesheets
  /\ \A t \in DOMAIN new : new[t] \in Row /\ new[t].batch = timesheet[t].batch

LEMMA OneRow ==
  ASSUME NEW e \in Editors, NEW t \in Timesheets, NEW r \in Row,
         r.batch = timesheet[t].batch, LoadRow(e, t, r)
  PROVE  \E new : LoadRows(e, new) /\ Keeps(new)
<1> DEFINE new == [x \in {t} |-> r]
<1>1. LoadRows(e, new)
  BY DEF LoadRow
<1>2. Keeps(new)
  BY DEF Keeps
<1>3. QED
  BY <1>1, <1>2

LEMMA EditorLoads ==
  ASSUME TypeOK, NEW e \in Editors, EditorNext(e)
  PROVE  \E new : LoadRows(e, new) /\ Keeps(new)
<1>1. \A t \in Timesheets : timesheet[t] \in Row
  BY DEF TypeOK
<1>2. ASSUME NEW t \in Timesheets, UpdateOther(e, t)
      PROVE  \E new : LoadRows(e, new) /\ Keeps(new)
  BY <1>1, <1>2, OneRow DEF UpdateOther
<1>3. ASSUME NEW t \in Timesheets, SubmitMine(e, t)
      PROVE  \E new : LoadRows(e, new) /\ Keeps(new)
  <2> DEFINE r == [timesheet[t] EXCEPT !.approval = "submitted", !.minutes = FALSE,
                                       !.payroll = "unpaid"]
  <2>1. r \in Row /\ r.batch = timesheet[t].batch
    BY <1>1 DEF Row, Statuses
  <2>2. LoadRow(e, t, r)
    BY <1>3 DEF SubmitMine
  <2>3. QED
    BY <2>1, <2>2, OneRow
<1>4. ASSUME NEW t \in Timesheets, Approve(e, t)
      PROVE  \E new : LoadRows(e, new) /\ Keeps(new)
  <2> DEFINE r == [timesheet[t] EXCEPT !.approval = "approved", !.minutes = TRUE]
  <2>1. r \in Row /\ r.batch = timesheet[t].batch
    BY <1>1 DEF Row, Statuses
  <2>2. LoadRow(e, t, r)
    BY <1>4 DEF Approve
  <2>3. QED
    BY <2>1, <2>2, OneRow
<1>5. ASSUME NEW t \in Timesheets, SendBack(e, t)
      PROVE  \E new : LoadRows(e, new) /\ Keeps(new)
  <2>1. PICK verdict \in {"rejected", "returned"} :
          LoadRow(e, t, [timesheet[t] EXCEPT !.approval = verdict, !.minutes = FALSE,
                                             !.payroll = "unpaid"])
    BY <1>5 DEF SendBack
  <2> DEFINE r == [timesheet[t] EXCEPT !.approval = verdict, !.minutes = FALSE,
                                       !.payroll = "unpaid"]
  <2>2. r \in Row /\ r.batch = timesheet[t].batch
    BY <1>1 DEF Row, Statuses
  <2>3. QED
    BY <2>1, <2>2, OneRow
<1>6. ASSUME NEW t \in Timesheets, UpdateApprovedTimes(e, t)
      PROVE  \E new : LoadRows(e, new) /\ Keeps(new)
  <2>1. PICK m \in BOOLEAN : LoadRow(e, t, [timesheet[t] EXCEPT !.minutes = m])
    BY <1>6 DEF UpdateApprovedTimes
  <2> DEFINE r == [timesheet[t] EXCEPT !.minutes = m]
  <2>2. r \in Row /\ r.batch = timesheet[t].batch
    BY <1>1 DEF Row
  <2>3. QED
    BY <2>1, <2>2, OneRow
<1>7. ASSUME NEW t \in Timesheets, UpdateAsAdmin(e, t)
      PROVE  \E new : LoadRows(e, new) /\ Keeps(new)
  <2> DEFINE r == [timesheet[t] EXCEPT !.minutes = TRUE]
  <2>1. r \in Row /\ r.batch = timesheet[t].batch
    BY <1>1 DEF Row
  <2>2. LoadRow(e, t, timesheet[t]) \/ LoadRow(e, t, r)
    BY <1>7 DEF UpdateAsAdmin
  <2>3. QED
    BY <1>1, <2>1, <2>2, OneRow
<1>8. ASSUME ApplyPayrollUpdate(e)
      PROVE  \E new : LoadRows(e, new) /\ Keeps(new)
  <2>1. PICK ts \in (SUBSET Timesheets) \ {{}}, s \in {"unpaid", "included", "paid"} :
          LoadRows(e, [t \in ts |-> [timesheet[t] EXCEPT !.payroll = s]])
    BY <1>8 DEF ApplyPayrollUpdate
  <2> DEFINE new == [t \in ts |-> [timesheet[t] EXCEPT !.payroll = s]]
  <2>2. \A t \in ts : new[t] \in Row /\ new[t].batch = timesheet[t].batch
    BY <1>1 DEF Row
  <2>3. Keeps(new)
    BY <2>2 DEF Keeps
  <2>4. QED
    BY <2>1, <2>3
<1>9. QED
  BY <1>2, <1>3, <1>4, <1>5, <1>6, <1>7, <1>8 DEF EditorNext

-----------------------------------------------------------------------------
LEMMA UpdatedIsRow ==
  ASSUME NEW r \in Row, NEW s \in Row, NEW cs
  PROVE  Updated(r, s, cs) \in Row
BY DEF Updated, Row

LEMMA NothingUpdated ==
  ASSUME NEW r \in Row, NEW s
  PROVE  Updated(r, s, {}) = r
BY DEF Updated, Row

LEMMA TypeInit == Init => TypeOK
BY PayrollAssumption
   DEF Init, TypeOK, NoRows, NewRow, NoDiff, NoOrder, Row, Order, Statuses, Savers

(* A save writes rows, whatever it found to differ.                          *)
LEMMA WrittenIsRow ==
  ASSUME TypeOK, NEW s \in Savers
  PROVE  Written(s) \in [Timesheets -> Row]
BY UpdatedIsRow DEF TypeOK, Written

LEMMA TypeForget ==
  ASSUME TypeOK, NEW s \in Savers, Forget(s)
  PROVE  /\ order' \in [Settlers -> Order]
         /\ scope' \in [Savers -> SUBSET Timesheets]
         /\ entity' \in [Savers -> [Timesheets -> Row]]
         /\ diff' \in [Savers -> [Timesheets -> SUBSET Columns]]
<1>1. NoRows \in [Timesheets -> Row]
  BY DEF NoRows, NewRow, Row, Statuses
<1>2. NoDiff \in [Timesheets -> SUBSET Columns]
  BY DEF NoDiff
<1>3. NoOrder \in Order
  BY DEF NoOrder, Order
<1>4. QED
  BY <1>1, <1>2, <1>3 DEF TypeOK, Forget

LEMMA TypeCreate ==
  ASSUME TypeOK, NEW c \in Creates, CreateNext(c)
  PROVE  TypeOK'
<1>1. CASE LockRow(c)
  BY <1>1 DEF LockRow, Go, rows, memory, TypeOK, Savers
<1>2. Unlocked(c) \in [Timesheets -> Creates \cup {None}]
  BY DEF Unlocked, TypeOK
<1>3. CASE CheckSelection(c)
  BY <1>2, <1>3 DEF CheckSelection, rows, memory, TypeOK, Savers
<1>4. CASE CommitCreate(c)
  <2>1. ASSUME NEW t \in Timesheets
        PROVE  [timesheet[t] EXCEPT !.batch = c, !.payroll = "included", !.snapshot = TRUE] \in Row
    <3>1. timesheet[t] \in Row
      BY DEF TypeOK
    <3>2. QED
      BY <3>1 DEF Row
  <2>2. timesheet' \in [Timesheets -> Row]
    BY <1>4, <2>1 DEF CommitCreate, TypeOK
  <2>3. QED
    BY <1>2, <1>4, <2>2 DEF CommitCreate, Go, memory, TypeOK, Savers
<1>5. CASE RollbackCreate(c)
  BY <1>2, <1>5 DEF RollbackCreate, rows, memory, TypeOK, Savers
<1>6. QED
  BY <1>1, <1>3, <1>4, <1>5 DEF CreateNext

LEMMA TypeEditor ==
  ASSUME TypeOK, NEW e \in Editors, EditorNext(e)
  PROVE  TypeOK'
<1>1. PICK new : LoadRows(e, new) /\ Keeps(new)
  BY EditorLoads
<1>2. [t \in Timesheets |-> IF t \in DOMAIN new THEN new[t] ELSE NewRow]
        \in [Timesheets -> Row]
  BY <1>1 DEF Keeps, NewRow, Row, Statuses
<1>3. QED
  BY <1>1, <1>2 DEF Keeps, LoadRows, Go, rows, TypeOK, Savers

LEMMA TypeSettler ==
  ASSUME TypeOK, NEW s \in Settlers, SettlerNext(s)
  PROVE  TypeOK'
<1>1. ASSUME NEW b \in Creates, NEW status \in {"finalised", "paid"},
             NEW payroll \in {"included", "paid"}, LoadBatch(s, b, status, payroll)
      PROVE  TypeOK'
  <2>1. InBatch(b) \in SUBSET Timesheets
    BY DEF InBatch
  <2>2. [NoOrder EXCEPT !.batch = b, !.status = status] \in Order
    BY DEF NoOrder, Order
  <2>3. ASSUME NEW t \in Timesheets
        PROVE  [timesheet[t] EXCEPT !.payroll = payroll] \in Row
    <3>1. timesheet[t] \in Row
      BY DEF TypeOK
    <3>2. QED
      BY <3>1 DEF Row
  <2>4. NewRow \in Row
    BY DEF NewRow, Row, Statuses
  <2>5. [t \in Timesheets |-> IF t \in InBatch(b)
           THEN [timesheet[t] EXCEPT !.payroll = payroll] ELSE NewRow] \in [Timesheets -> Row]
    BY <2>3, <2>4
  <2>6. QED
    BY <1>1, <2>1, <2>2, <2>5 DEF LoadBatch, Go, rows, TypeOK, Savers
<1>2. CASE DiffBatch(s)
  <2> DEFINE w == batch[order[s].batch] # order[s].status
  <2>1. order' \in [Settlers -> Order]
    <3>1. order' = [order EXCEPT ![s] = [order[s] EXCEPT !.write = w]]
      BY <1>2 DEF DiffBatch
    <3>2. order[s] \in Order /\ w \in BOOLEAN
      BY DEF TypeOK
    <3>3. [order[s] EXCEPT !.write = w] \in Order
      <4> HIDE DEF w
      <4>1. QED
        BY <3>2 DEF Order
    <3>4. QED
      BY <3>1, <3>3 DEF TypeOK
  <2>2. diff' \in [Savers -> [Timesheets -> SUBSET Columns]]
    BY <1>2 DEF DiffBatch, TypeOK, Columns
  <2>3. QED
    BY <1>2, <2>1, <2>2 DEF DiffBatch, Go, rows, TypeOK, Savers
<1>3. CASE SaveBatch(s)
  <2>1. timesheet' \in [Timesheets -> Row]
    BY <1>3, WrittenIsRow DEF SaveBatch, Savers
  <2>2. QED
    BY <1>3, <2>1 DEF SaveBatch, Go, memory, TypeOK, Savers, Order
<1>4. QED
  BY <1>1, <1>2, <1>3 DEF SettlerNext, FinaliseBatch, PayBatch

LEMMA TypeSaver ==
  ASSUME TypeOK, NEW s \in Savers, SaverNext(s)
  PROVE  TypeOK'
<1>1. CASE DiffRows(s)
  <2>1. diff' \in [Savers -> [Timesheets -> SUBSET Columns]]
    BY <1>1 DEF DiffRows, TypeOK, Changed
  <2>2. QED
    BY <1>1, <2>1 DEF DiffRows, rows, TypeOK, Savers
<1>2. CASE SaveRows(s)
  <2>1. timesheet' \in [Timesheets -> Row]
    BY <1>2, WrittenIsRow DEF SaveRows
  <2>2. QED
    BY <1>2, <2>1, TypeForget DEF SaveRows, Go, TypeOK
<1>3. CASE Abandon(s)
  BY <1>3, TypeForget DEF Abandon, rows, TypeOK
<1>4. QED
  BY <1>1, <1>2, <1>3 DEF SaverNext

(* Stale or not, no request writes a row, a status or a lock that the        *)
(* database could not hold.                                                  *)
THEOREM TypeCorrect == Spec => []TypeOK
<1>1. TypeOK /\ [Next]_vars => TypeOK'
  <2> SUFFICES ASSUME TypeOK, [Next]_vars PROVE TypeOK'
    OBVIOUS
  <2>1. CASE UNCHANGED vars
    BY <2>1 DEF vars, TypeOK
  <2>2. QED
    BY <2>1, TypeCreate, TypeEditor, TypeSettler, TypeSaver DEF Next
<1>2. QED
  BY <1>1, TypeInit, PTL DEF Spec

-----------------------------------------------------------------------------
(* The inductive invariant.  A create request that has checked its rows      *)
(* still holds every one of them, so nobody has written them since.          *)
ClaimsHeld ==
  \A c \in Creates : pc[c] = "checked" =>
    \A t \in Selection[c] : lock[t] = c /\ Eligible(timesheet[t])

(* A batch exists only after its request committed, and before that no row   *)
(* and no entity in anybody's memory refers to it.                           *)
Unborn ==
  \A b \in Creates :
    /\ pc[b] # "done" => batch[b] = "none"
    /\ batch[b] = "none" =>
         \A t \in Timesheets :
           timesheet[t].batch # b /\ \A s \in Savers : entity[s][t].batch # b

(* What a settler read of its batch may be out of date, but the batch has    *)
(* not gone back behind it.                                                  *)
OrdersFollow ==
  \A s \in Settlers :
    /\ pc[s] \in {"loaded", "batch_diffed"} => order[s].status # "none"
    /\ order[s].status # "none" => order[s].batch \in Creates
    /\ order[s].status = "finalised" => batch[order[s].batch] # "none"
    /\ order[s].status = "paid" => batch[order[s].batch] \in {"finalised", "paid"}

IInv == TypeOK /\ ClaimsHeld /\ Unborn /\ OrdersFollow

Safe == ClaimsHeld /\ Unborn /\ OrdersFollow

LEMMA SafeInit == Init => Safe
BY PayrollAssumption
   DEF Init, Safe, ClaimsHeld, Unborn, OrdersFollow, NoRows, NewRow, NoOrder, Savers

(* An UPDATE that found its rows free leaves locked rows alone, and gives a  *)
(* row no batch that neither the row nor the entity had.                     *)
LEMMA LockedRowsStay ==
  ASSUME TypeOK, NEW s \in Savers, RowsFree(s), NEW t \in Timesheets, lock[t] # None
  PROVE  Written(s)[t] = timesheet[t]
<1>1. diff[s][t] = {}
  BY DEF RowsFree
<1>2. timesheet[t] \in Row
  BY DEF TypeOK
<1>3. QED
  BY <1>1, <1>2, NothingUpdated DEF Written

LEMMA WrittenBatch ==
  ASSUME NEW s \in Savers, NEW t \in Timesheets
  PROVE  Written(s)[t].batch \in {timesheet[t].batch, entity[s][t].batch}
BY DEF Written, Updated

LEMMA SafeCreate ==
  ASSUME IInv, NEW c \in Creates, CreateNext(c)
  PROVE  Safe'
<1> USE PayrollAssumption DEF IInv
<1>1. \A s \in Savers : pc'[s] = pc[s]
  BY DEF CreateNext, LockRow, CheckSelection, CommitCreate, RollbackCreate, Go, TypeOK, Savers
<1>2. UNCHANGED memory
  BY DEF CreateNext, LockRow, CheckSelection, CommitCreate, RollbackCreate
<1>3. CASE LockRow(c)
  <2>1. \A d \in Creates : pc'[d] = pc[d]
    BY <1>3 DEF LockRow, Go, TypeOK
  <2>2. \A t \in Timesheets : lock[t] # None => lock'[t] = lock[t]
    BY <1>3 DEF LockRow, TypeOK
  <2>3. UNCHANGED <<timesheet, batch>>
    BY <1>3 DEF LockRow, rows
  <2>4. ClaimsHeld'
    <3>1. SUFFICES ASSUME NEW d \in Creates, pc'[d] = "checked", NEW t \in Selection[d]
                   PROVE  lock'[t] = d /\ Eligible(timesheet[t])'
      BY DEF ClaimsHeld
    <3>2. t \in Timesheets /\ d # None
      OBVIOUS
    <3>3. lock[t] = d /\ Eligible(timesheet[t])
      BY <2>1, <3>1 DEF ClaimsHeld
    <3>4. QED
      BY <2>2, <2>3, <3>2, <3>3 DEF Eligible
  <2>5. Unborn'
    BY <1>2, <2>1, <2>3 DEF memory, Unborn
  <2>6. OrdersFollow'
    BY <1>1, <1>2, <2>3 DEF memory, OrdersFollow, Savers
  <2>7. QED
    BY <2>4, <2>5, <2>6 DEF Safe
<1>4. CASE CheckSelection(c) \/ RollbackCreate(c)
  <2>1. UNCHANGED rows
    BY <1>4 DEF CheckSelection, RollbackCreate
  <2>2. \A t \in Timesheets : lock[t] # c => lock'[t] = lock[t]
    BY <1>4 DEF CheckSelection, RollbackCreate, Unlocked, TypeOK
  <2>3. \A d \in Creates \ {c} : pc'[d] = pc[d]
    BY <1>4 DEF CheckSelection, RollbackCreate, TypeOK
  <2>4. pc'[c] = "checked" => \A t \in Selection[c] : lock'[t] = c /\ Eligible(timesheet[t])
    BY <1>4 DEF CheckSelection, RollbackCreate, Wanted, Held, TypeOK
  <2>5. ClaimsHeld'
    BY <2>1, <2>2, <2>3, <2>4 DEF ClaimsHeld, rows, Eligible
  <2>6. pc[c] # "done"
    BY <1>4 DEF CheckSelection, RollbackCreate
  <2>7. Unborn'
    BY <1>2, <2>1, <2>3, <2>6 DEF rows, memory, Unborn
  <2>8. OrdersFollow'
    BY <1>1, <1>2, <2>1 DEF rows, memory, OrdersFollow, Savers
  <2>9. QED
    BY <2>5, <2>7, <2>8 DEF Safe
<1>5. CASE CommitCreate(c)
  <2>1. \A d \in Creates \ {c} : pc'[d] = pc[d] /\ batch'[d] = batch[d]
    BY <1>5 DEF CommitCreate, Go, TypeOK
  <2>2. pc[c] = "checked" /\ pc'[c] = "done" /\ batch[c] = "none" /\ batch'[c] = "draft"
    BY <1>5 DEF CommitCreate, Go, TypeOK, Unborn
  <2>3. \A t \in Timesheets : lock[t] # c => lock'[t] = lock[t] /\ timesheet'[t] = timesheet[t]
    BY <1>5, <2>2 DEF CommitCreate, Unlocked, ClaimsHeld, TypeOK
  <2>4. ClaimsHeld'
    BY <2>1, <2>2, <2>3 DEF ClaimsHeld, Eligible
  <2>5. \A t \in Timesheets : timesheet'[t].batch \in {timesheet[t].batch, c}
    <3>1. SUFFICES ASSUME NEW t \in Timesheets
                   PROVE  timesheet'[t].batch \in {timesheet[t].batch, c}
      OBVIOUS
    <3>2. timesheet[t] \in Row
      BY DEF TypeOK
    <3>3. QED
      BY <1>5, <3>2 DEF CommitCreate, Row
  <2>6. Unborn'
    BY <1>2, <2>1, <2>2, <2>5 DEF Unborn, memory
  <2>7. OrdersFollow'
    BY <1>1, <1>2, <2>1, <2>2 DEF OrdersFollow, memory, Savers
  <2>8. QED
    BY <2>4, <2>6, <2>7 DEF Safe
<1>6. QED
  BY <1>3, <1>4, <1>5 DEF CreateNext

LEMMA SafeEditor ==
  ASSUME IInv, NEW e \in Editors, EditorNext(e)
  PROVE  Safe'
<1> USE PayrollAssumption DEF IInv
<1>1. PICK new : LoadRows(e, new) /\ Keeps(new)
  BY EditorLoads
<1>2. UNCHANGED <<timesheet, batch, lock, order>>
  BY <1>1 DEF LoadRows, rows
<1>3. \A r \in Creates \cup Settlers : pc'[r] = pc[r]
  BY <1>1 DEF LoadRows, Go, TypeOK, Savers
<1>4. ClaimsHeld'
  BY <1>2, <1>3, ZenonT(40) DEF ClaimsHeld, Eligible
<1>5. \A s \in Savers, t \in Timesheets :
        entity'[s][t].batch \in {entity[s][t].batch, timesheet[t].batch, None}
  BY <1>1 DEF LoadRows, Keeps, NewRow, TypeOK
<1>6. Unborn'
  BY <1>2, <1>3, <1>5 DEF Unborn
<1>7. OrdersFollow'
  BY <1>2, <1>3 DEF OrdersFollow
<1>8. QED
  BY <1>4, <1>6, <1>7 DEF Safe

LEMMA SafeSettler ==
  ASSUME IInv, NEW s \in Settlers, SettlerNext(s)
  PROVE  Safe'
<1> USE PayrollAssumption DEF IInv
<1>1. UNCHANGED lock
  BY DEF SettlerNext, FinaliseBatch, PayBatch, LoadBatch, DiffBatch, SaveBatch, rows
<1>2. \A r \in Creates : pc'[r] = pc[r]
  BY ZenonT(40) DEF SettlerNext, FinaliseBatch, PayBatch, LoadBatch, DiffBatch, SaveBatch, Go, TypeOK
<1>3. ASSUME NEW b \in Creates, FinaliseBatch(s, b) \/ PayBatch(s, b)
      PROVE  Safe'
  <2>1. PICK status \in {"finalised", "paid"}, payroll \in {"included", "paid"} :
          /\ LoadBatch(s, b, status, payroll)
          /\ status = "finalised" => batch[b] = "draft"
          /\ status = "paid" => batch[b] = "finalised"
    BY <1>3 DEF FinaliseBatch, PayBatch
  <2>2. UNCHANGED <<timesheet, batch>>
    BY <2>1 DEF LoadBatch, rows
  <2>3. ClaimsHeld'
    BY <1>1, <1>2, <2>2 DEF ClaimsHeld, Eligible
  <2>4. \A x \in Savers, t \in Timesheets :
          entity'[x][t].batch \in {entity[x][t].batch, timesheet[t].batch, None}
    <3>1. SUFFICES ASSUME NEW t \in Timesheets
                   PROVE  entity'[s][t].batch \in {timesheet[t].batch, None}
      BY <2>1 DEF LoadBatch, TypeOK, Savers
    <3>2. timesheet[t] \in Row
      BY DEF TypeOK
    <3>3. entity'[s][t] = IF t \in InBatch(b) THEN [timesheet[t] EXCEPT !.payroll = payroll]
                          ELSE NewRow
      BY <2>1 DEF LoadBatch, TypeOK, Savers
    <3>4. QED
      BY <3>2, <3>3 DEF Row, NewRow
  <2>5. Unborn'
    BY <1>2, <2>2, <2>4 DEF Unborn
  <2>6. order'[s].batch = b /\ order'[s].status = status
    BY <2>1 DEF LoadBatch, TypeOK, NoOrder
  <2>7. \A x \in Settlers \ {s} : order'[x] = order[x] /\ pc'[x] = pc[x]
    BY <2>1 DEF LoadBatch, Go, TypeOK, Savers
  <2>8. OrdersFollow'
    BY <2>1, <2>2, <2>6, <2>7 DEF OrdersFollow
  <2>9. QED
    BY <2>3, <2>5, <2>8 DEF Safe
<1>4. CASE DiffBatch(s)
  <2>1. UNCHANGED <<timesheet, batch, entity>>
    BY <1>4 DEF DiffBatch, rows
  <2>2. \A x \in Settlers : order'[x].batch = order[x].batch /\ order'[x].status = order[x].status
    <3>1. SUFFICES order'[s].batch = order[s].batch /\ order'[s].status = order[s].status
      BY <1>4 DEF DiffBatch, TypeOK
    <3>2. PICK w : order' = [order EXCEPT ![s] = [order[s] EXCEPT !.write = w]]
      BY <1>4 DEF DiffBatch
    <3>3. order[s] \in Order
      BY DEF TypeOK
    <3>4. QED
      BY <3>2, <3>3 DEF Order, TypeOK
  <2>3. pc[s] = "loaded" /\ \A x \in Settlers \ {s} : pc'[x] = pc[x]
    BY <1>4 DEF DiffBatch, Go, TypeOK, Savers
  <2>4. ClaimsHeld' /\ Unborn'
    BY <1>1, <1>2, <2>1 DEF ClaimsHeld, Unborn, Eligible
  <2>5. OrdersFollow'
    BY <2>1, <2>2, <2>3 DEF OrdersFollow
  <2>6. QED
    BY <2>4, <2>5 DEF Safe
<1>5. CASE SaveBatch(s)
  <2> DEFINE b == order[s].batch
  <2>1. /\ pc[s] = "batch_diffed" /\ pc'[s] = "batch_saved"
        /\ \A x \in Settlers \ {s} : pc'[x] = pc[x]
        /\ RowsFree(s) /\ timesheet' = Written(s) /\ UNCHANGED memory
        /\ batch' = [batch EXCEPT ![b] = IF order[s].write THEN order[s].status ELSE batch[b]]
    BY <1>5 DEF SaveBatch, Go, TypeOK, Savers
  <2>2. b \in Creates /\ batch[b] # "none" /\ order[s].status \in {"finalised", "paid"}
    BY <2>1 DEF OrdersFollow, TypeOK, Order
  <2>3. /\ \A c \in Creates : batch'[c] = "none" <=> batch[c] = "none"
        /\ \A c \in Creates : batch[c] \in {"finalised", "paid"} => batch'[c] \in {"finalised", "paid"}
    BY <2>1, <2>2 DEF TypeOK
  <2>4. ClaimsHeld'
    <3>1. ASSUME NEW t \in Timesheets, lock[t] # None
          PROVE  timesheet'[t] = timesheet[t]
      BY <2>1, <3>1, LockedRowsStay DEF Savers
    <3>2. QED
      BY <1>1, <1>2, <3>1 DEF ClaimsHeld, Eligible
  <2>5. Unborn'
    BY <1>2, <2>1, <2>3, WrittenBatch DEF Unborn, memory, Savers
  <2>6. OrdersFollow'
    BY <2>1, <2>3 DEF OrdersFollow, memory
  <2>7. QED
    BY <2>4, <2>5, <2>6 DEF Safe
<1>6. QED
  BY <1>3, <1>4, <1>5 DEF SettlerNext

LEMMA SafeSaver ==
  ASSUME IInv, NEW s \in Savers, SaverNext(s)
  PROVE  Safe'
<1> USE PayrollAssumption DEF IInv
<1>1. UNCHANGED <<batch, lock>> /\ \A c \in Creates : pc'[c] = pc[c]
  BY DEF SaverNext, DiffRows, SaveRows, Abandon, Go, rows, TypeOK, Savers
<1>2. \A x \in Settlers : order'[x] = order[x] \/ order'[x] = NoOrder
  BY DEF SaverNext, DiffRows, SaveRows, Abandon, Forget, TypeOK
<1>3. \A x \in Settlers : pc'[x] \in {"loaded", "batch_diffed"} =>
        pc'[x] = pc[x] /\ order'[x] = order[x]
  BY DEF SaverNext, DiffRows, SaveRows, Abandon, Forget, Go, TypeOK, Savers
<1>4. OrdersFollow'
  BY <1>1, <1>2, <1>3 DEF OrdersFollow, NoOrder
<1>5. \A x \in Savers, t \in Timesheets :
        entity'[x][t].batch = entity[x][t].batch \/ entity'[x][t].batch = None
  BY DEF SaverNext, DiffRows, SaveRows, Abandon, Forget, NoRows, NewRow, TypeOK
<1>6. \A t \in Timesheets :
        /\ lock[t] # None => timesheet'[t] = timesheet[t]
        /\ timesheet'[t].batch \in {timesheet[t].batch, entity[s][t].batch}
  <2>1. CASE SaveRows(s)
    BY <2>1, LockedRowsStay, WrittenBatch DEF SaveRows
  <2>2. CASE DiffRows(s) \/ Abandon(s)
    BY <2>2 DEF DiffRows, Abandon, rows
  <2>3. QED
    BY <2>1, <2>2 DEF SaverNext
<1>7. ClaimsHeld'
  BY <1>1, <1>6 DEF ClaimsHeld, Eligible
<1>8. Unborn'
  BY <1>1, <1>5, <1>6 DEF Unborn
<1>9. QED
  BY <1>4, <1>7, <1>8 DEF Safe

LEMMA Inductive == IInv /\ [Next]_vars => IInv'
<1> SUFFICES ASSUME IInv, [Next]_vars PROVE IInv'
  OBVIOUS
<1>1. CASE UNCHANGED vars
  BY <1>1 DEF vars, IInv, TypeOK, ClaimsHeld, Unborn, OrdersFollow, Eligible
<1>2. CASE Next
  <2>1. TypeOK'
    BY <1>2, TypeCreate, TypeEditor, TypeSettler, TypeSaver DEF Next, IInv
  <2>2. Safe'
    BY <1>2, SafeCreate, SafeEditor, SafeSettler, SafeSaver DEF Next
  <2>3. QED
    BY <2>1, <2>2 DEF IInv, Safe
<1>3. QED
  BY <1>1, <1>2

LEMMA Invariant == Spec => []IInv
<1>1. Init => IInv
  BY TypeInit, SafeInit DEF IInv, Safe
<1>2. QED
  BY <1>1, Inductive, PTL DEF Spec

-----------------------------------------------------------------------------
(* Only eligible timesheets join a batch: the commit of a create request is  *)
(* the one step that makes a draft, and it still holds the rows it checked.  *)
THEOREM ClaimTheorem == Spec => OnlyEligibleJoin
<1> DEFINE Joins == \A c \in Creates : batch[c] = "none" /\ batch'[c] = "draft" =>
              \A t \in Timesheets : timesheet'[t].batch = c => Eligible(timesheet[t])
<1>1. IInv /\ [Next]_vars => [Joins]_vars
  <2> SUFFICES ASSUME IInv, Next, NEW c \in Creates, batch[c] = "none", batch'[c] = "draft",
                      NEW t \in Timesheets, timesheet'[t].batch = c
               PROVE  Eligible(timesheet[t])
    OBVIOUS
  <2> USE DEF IInv
  <2>1. ASSUME NEW d \in Creates, CreateNext(d)
        PROVE  Eligible(timesheet[t])
    <3>1. CommitCreate(d) /\ d = c
      BY <2>1 DEF CreateNext, LockRow, CheckSelection, RollbackCreate, CommitCreate, rows, TypeOK
    <3>2. pc[c] = "checked" /\ timesheet[t].batch # c
      BY <3>1 DEF CommitCreate, Go, Unborn
    <3>3. t \in Selection[c]
      BY <3>1, <3>2 DEF CommitCreate
    <3>4. QED
      BY <3>2, <3>3 DEF ClaimsHeld
  <2>2. ASSUME NEW e \in Editors, EditorNext(e)
        PROVE  FALSE
    BY <2>2, EditorLoads DEF LoadRows, rows
  <2>3. ASSUME NEW s \in Settlers, SettlerNext(s)
        PROVE  FALSE
    <3>1. SaveBatch(s)
      BY <2>3 DEF SettlerNext, FinaliseBatch, PayBatch, LoadBatch, DiffBatch, rows
    <3>2. order[s].status # "draft"
      BY DEF TypeOK, Order
    <3>3. QED
      BY <3>1, <3>2 DEF SaveBatch, TypeOK
  <2>4. ASSUME NEW s \in Savers, SaverNext(s)
        PROVE  FALSE
    BY <2>4 DEF SaverNext, DiffRows, SaveRows, Abandon, rows
  <2>5. QED
    BY <2>1, <2>2, <2>3, <2>4 DEF Next
<1>2. QED
  BY <1>1, Invariant, PTL DEF Spec, OnlyEligibleJoin

(* No batch is paid as a draft or becomes a draft again: a settler's order   *)
(* never runs ahead of the batch it has read.                                *)
THEOREM PaymentTheorem == Spec => NoPaymentOfDraft
<1> DEFINE Settles == \A b \in Creates :
              /\ batch[b] \in {"none", "draft"} => batch'[b] # "paid"
              /\ batch[b] \in {"finalised", "paid"} => batch'[b] # "draft"
<1>1. IInv /\ [Next]_vars => [Settles]_batch
  <2> SUFFICES ASSUME IInv, Next, batch' # batch PROVE Settles
    BY DEF vars
  <2> USE DEF IInv
  <2>1. ASSUME NEW c \in Creates, CreateNext(c)
        PROVE  Settles
    <3>1. CommitCreate(c)
      BY <2>1 DEF CreateNext, LockRow, CheckSelection, RollbackCreate, rows
    <3>2. batch[c] = "none"
      BY <3>1 DEF CommitCreate, Go, Unborn
    <3>3. QED
      BY <3>1, <3>2 DEF CommitCreate, TypeOK
  <2>2. ASSUME NEW e \in Editors, EditorNext(e)
        PROVE  Settles
    BY <2>2, EditorLoads DEF LoadRows, rows
  <2>3. ASSUME NEW s \in Settlers, SettlerNext(s)
        PROVE  Settles
    <3>1. SaveBatch(s)
      BY <2>3 DEF SettlerNext, FinaliseBatch, PayBatch, LoadBatch, DiffBatch, rows
    <3>2. order[s] \in Order
      BY DEF TypeOK
    <3>3. order[s].status = "paid" => batch[order[s].batch] \in {"finalised", "paid"}
      BY DEF OrdersFollow
    <3>4. QED
      BY <3>1, <3>2, <3>3 DEF SaveBatch, TypeOK, Order
  <2>4. ASSUME NEW s \in Savers, SaverNext(s)
        PROVE  Settles
    BY <2>4 DEF SaverNext, DiffRows, SaveRows, Abandon, rows
  <2>5. QED
    BY <2>1, <2>2, <2>3, <2>4 DEF Next
<1>2. QED
  BY <1>1, Invariant, PTL DEF Spec, NoPaymentOfDraft

-----------------------------------------------------------------------------
(* Rows are locked in the order of their ids, so a request that waits for a  *)
(* row holds smaller ones only.                                              *)
LocksAscend ==
  \A c \in Creates : \A t \in Held(c), u \in Wanted(c) : t < u

LEMMA TimesheetsAreNaturals == Timesheets \subseteq Nat
BY PayrollAssumption

LEMMA AscendStep == TypeOK /\ LocksAscend /\ [Next]_vars => LocksAscend'
<1> SUFFICES ASSUME TypeOK, LocksAscend, [Next]_vars PROVE LocksAscend'
  OBVIOUS
<1> USE PayrollAssumption, TimesheetsAreNaturals
<1>1. ASSUME UNCHANGED lock
      PROVE  LocksAscend'
  BY <1>1 DEF LocksAscend, Held, Wanted
<1>2. ASSUME NEW c \in Creates, LockRow(c)
      PROVE  LocksAscend'
  <2>1. PICK t \in Wanted(c) : /\ \A u \in Wanted(c) : t <= u
                             /\ lock[t] = None
                             /\ lock' = [lock EXCEPT ![t] = c]
    BY <1>2 DEF LockRow
  <2>2. t \in Timesheets
    BY DEF Wanted
  <2>3. Held(c)' = Held(c) \cup {t} /\ Wanted(c)' = Wanted(c) \ {t}
    BY <2>1, <2>2 DEF Held, Wanted, TypeOK
  <2>4. \A d \in Creates \ {c} : Held(d)' = Held(d) /\ Wanted(d)' = Wanted(d)
    BY <2>1, <2>2 DEF Held, Wanted, TypeOK
  <2>5. Wanted(c) \subseteq Timesheets
    BY DEF Wanted
  <2>6. \A x \in Held(c), u \in Wanted(c) : x < u
    BY DEF LocksAscend
  <2>7. \A u \in Wanted(c) \ {t} : t < u
    BY <2>1, <2>2, <2>5
  <2>8. \A x \in Held(c)', u \in Wanted(c)' : x < u
    BY <2>3, <2>6, <2>7
  <2>9. \A d \in Creates \ {c} : \A x \in Held(d)', u \in Wanted(d)' : x < u
    BY <2>4 DEF LocksAscend
  <2>10. QED
    BY <2>8, <2>9 DEF LocksAscend
<1>3. ASSUME NEW c \in Creates, lock' = Unlocked(c)
      PROVE  LocksAscend'
  <2>1. Held(c)' = {}
    BY <1>3 DEF Held, Unlocked
  <2>2. \A d \in Creates \ {c} : Held(d)' = Held(d) /\ Wanted(d)' = Wanted(d)
    BY <1>3 DEF Held, Wanted, Unlocked, TypeOK
  <2>3. QED
    BY <2>1, <2>2 DEF LocksAscend
<1>4. ASSUME NEW c \in Creates, CreateNext(c)
      PROVE  LocksAscend'
  BY <1>1, <1>2, <1>3, <1>4 DEF CreateNext, CheckSelection, CommitCreate, RollbackCreate
<1>5. ASSUME NEW e \in Editors, EditorNext(e)
      PROVE  LocksAscend'
  BY <1>1, <1>5, EditorLoads DEF LoadRows
<1>6. ASSUME NEW s \in Settlers, SettlerNext(s)
      PROVE  LocksAscend'
  BY <1>1, <1>6 DEF SettlerNext, FinaliseBatch, PayBatch, LoadBatch, DiffBatch, SaveBatch
<1>7. ASSUME NEW s \in Savers, SaverNext(s)
      PROVE  LocksAscend'
  BY <1>1, <1>7 DEF SaverNext, DiffRows, SaveRows, Abandon
<1>8. QED
  BY <1>1, <1>4, <1>5, <1>6, <1>7 DEF Next, vars

(* In a ring of waiters every awaited row has a larger awaited row; the      *)
(* largest one, which exists because ids are bounded, would have none.       *)
LEMMA NoRing == TypeOK /\ LocksAscend => NoRingOfWaiters
<1> SUFFICES ASSUME TypeOK, LocksAscend,
                    NEW S \in (SUBSET Creates) \ {{}},
                    \A c \in S : \E d \in S : WaitsFor(c, d)
             PROVE  FALSE
  BY DEF NoRingOfWaiters
<1> DEFINE Awaits(c, t) == t \in Wanted(c) /\ \A u \in Wanted(c) : t <= u
           Awaited == {t \in Timesheets : \E c, d \in S : Awaits(c, t) /\ lock[t] = d}
<1>1. Awaited # {}
  <2>1. PICK c \in S, d \in S : WaitsFor(c, d)
    OBVIOUS
  <2>2. PICK t \in Wanted(c) : lock[t] = d /\ \A u \in Wanted(c) : t <= u
    BY <2>1 DEF WaitsFor
  <2>3. t \in Timesheets
    BY PayrollAssumption DEF Wanted
  <2>4. t \in Awaited
    BY <2>2, <2>3
  <2>5. QED
    BY <2>4
<1>2. \A t \in Awaited : \E u \in Awaited : t < u
  <2>1. SUFFICES ASSUME NEW t \in Awaited PROVE \E u \in Awaited : t < u
    OBVIOUS
  <2>2. PICK d \in S : lock[t] = d
    OBVIOUS
  <2>3. PICK e \in S : WaitsFor(d, e)
    OBVIOUS
  <2>4. PICK u \in Wanted(d) : lock[u] = e /\ \A v \in Wanted(d) : u <= v
    BY <2>3 DEF WaitsFor
  <2>5. u \in Timesheets
    BY PayrollAssumption DEF Wanted
  <2>6. u \in Awaited
    BY <2>4, <2>5
  <2>7. t \in Held(d)
    BY <2>2 DEF Held
  <2>8. QED
    BY <2>4, <2>6, <2>7 DEF LocksAscend
<1>3. PICK n \in Nat : Timesheets \subseteq 0 .. n
  BY PayrollAssumption
<1> DEFINE Left == {n - t : t \in Awaited}
<1>4. Left \subseteq Nat /\ Left # {}
  <2>1. Awaited \subseteq 0 .. n
    BY <1>3
  <2>2. \A t \in 0 .. n : n - t \in Nat
    OBVIOUS
  <2> HIDE DEF Awaited
  <2>3. QED
    BY <1>1, <2>1, <2>2
<1>5. PICK m \in Left : \A k \in Left : ~(<<k, m>> \in OpToRel(<, Nat))
  <2> HIDE DEF Left
  <2>1. QED
    BY <1>4, WFMin, NatLessThanWellFounded
<1>6. PICK t \in Awaited, u \in Awaited : m = n - t /\ t < u
  BY <1>2
<1>7. n - u \in Left /\ n - u < m /\ n - u \in Nat /\ m \in Nat
  BY <1>3, <1>4, <1>6
<1>8. QED
  BY <1>5, <1>7 DEF OpToRel

(* Create requests never deadlock each other, however many run at once and   *)
(* whatever they select.                                                     *)
THEOREM RingTheorem == Spec => []NoRingOfWaiters
<1>1. Init => LocksAscend
  BY PayrollAssumption DEF Init, LocksAscend, Held
<1>2. QED
  BY <1>1, TypeInit, TypeCorrect, AscendStep, NoRing, PTL DEF Spec

==============================================================================
