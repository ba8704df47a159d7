------------------------------- MODULE Payroll -------------------------------
(***************************************************************************)
(* Timesheet review and payroll batches: timesheet.service.ts and          *)
(* payroll-batch.service.ts.                                               *)
(*                                                                         *)
(* createForCompany is the one operation with a transaction of its own: it *)
(* locks the selected timesheets one by one in id order, checks them and   *)
(* puts them in a new batch.  Everything else loads entities, decides in   *)
(* memory and calls save(), which selects the rows again, compares them    *)
(* with the loaded entities column by column and updates the columns that  *)
(* differ -- also those the request never meant to change.                 *)
(*                                                                         *)
(* A create request is used once and gives its batch its name.  An editor  *)
(* (a request about timesheets) and a settler (a request about a batch)    *)
(* starts over when it is done.                                            *)
(***************************************************************************)
EXTENDS Naturals, FiniteSets

CONSTANTS
  Timesheets,  \* timesheet ids
  Creates,     \* POST /payroll-batches requests, and the batches they insert
  Editors,     \* concurrent requests to timesheet.service
  Settlers,    \* concurrent finalise and pay requests
  Selection,   \* [Creates -> set of timesheets]: dto.timesheetIds
  None         \* SQL NULL

ASSUME PayrollAssumption ==
  /\ Timesheets \subseteq Nat
  /\ \E n \in Timesheets \cup {0} : Timesheets \subseteq 0 .. n  \* finitely many
  /\ Selection \in [Creates -> (SUBSET Timesheets) \ {{}}]
  /\ None \notin Creates
  /\ Creates \cap Editors = {} /\ Creates \cap Settlers = {} /\ Editors \cap Settlers = {}

VARIABLES
  timesheet,  \* [Timesheets -> Row]
  batch,      \* [Creates -> status]; "none" before the row exists
  lock,       \* [Timesheets -> Creates \cup {None}]: SELECT ... FOR UPDATE
  pc,         \* how far each request has got
  order,      \* the batch a settler has loaded and the status it will save
  scope,      \* the timesheets an editor or settler has loaded
  entity,     \* those timesheets as it will save them
  diff        \* the columns of each row that its save() found to differ

vars == <<timesheet, batch, lock, pc, order, scope, entity, diff>>

Savers == Editors \cup Settlers
Statuses == {"draft", "submitted", "approved", "rejected", "returned"}
Columns == {"approval", "minutes", "payroll", "batch", "snapshot"}

Row == [approval : Statuses,
        minutes  : BOOLEAN,    \* approvedMinutes IS NOT NULL
        payroll  : {"unpaid", "included", "paid"},
        batch    : Creates \cup {None},
        snapshot : BOOLEAN]    \* the frozen pay columns ARE NOT NULL

NewRow == [approval |-> "draft", minutes |-> FALSE, payroll |-> "unpaid",
           batch |-> None, snapshot |-> FALSE]

Order == [batch : Creates \cup {None}, status : {"none", "finalised", "paid"}, write : BOOLEAN]
NoOrder == [batch |-> None, status |-> "none", write |-> FALSE]

NoRows == [t \in Timesheets |-> NewRow]
NoDiff == [t \in Timesheets |-> {}]

(* The columns in which an entity differs from the row.                    *)
Changed(r, s) == {c \in Columns : r[c] # s[c]}

(* Row r after an UPDATE of the columns cs from entity s.                  *)
Updated(r, s, cs) ==
  [approval |-> IF "approval" \in cs THEN s.approval ELSE r.approval,
   minutes  |-> IF "minutes" \in cs THEN s.minutes ELSE r.minutes,
   payroll  |-> IF "payroll" \in cs THEN s.payroll ELSE r.payroll,
   batch    |-> IF "batch" \in cs THEN s.batch ELSE r.batch,
   snapshot |-> IF "snapshot" \in cs THEN s.snapshot ELSE r.snapshot]

InBatch(b) == {t \in Timesheets : timesheet[t].batch = b}

Init ==
  /\ timesheet = NoRows
  /\ batch = [c \in Creates |-> "none"]
  /\ lock = [t \in Timesheets |-> None]
  /\ pc = [r \in Creates \cup Savers |-> "start"]
  /\ order = [s \in Settlers |-> NoOrder]
  /\ scope = [s \in Savers |-> {}]
  /\ entity = [s \in Savers |-> NoRows]
  /\ diff = [s \in Savers |-> NoDiff]

Go(r, from, to) == pc[r] = from /\ pc' = [pc EXCEPT ![r] = to]

rows == <<timesheet, batch>>
memory == <<order, scope, entity, diff>>

-----------------------------------------------------------------------------
(* createForCompany                                                        *)

Held(c) == {t \in Timesheets : lock[t] = c}
Wanted(c) == Selection[c] \ Held(c)

(* assertTimesheetBatchEligible                                            *)
Eligible(r) ==
  r.approval = "approved" /\ r.minutes /\ r.payroll = "unpaid" /\ r.batch = None

(* Seeded fault: the rows are locked in the order of the request's ids.    *)
LockRow_AnyOrder(c) ==
  /\ Go(c, "start", "start")
  /\ \E t \in Wanted(c) : lock[t] = None /\ lock' = [lock EXCEPT ![t] = c]
  /\ UNCHANGED <<rows, memory>>

(* lockTimesheets: ... ORDER BY "id" FOR UPDATE takes one row lock after   *)
(* the other and waits for each.                                           *)
LockRow(c) ==
  /\ Go(c, "start", "start")
  /\ \E t \in Wanted(c) :
       /\ \A u \in Wanted(c) : t <= u
       /\ lock[t] = None
       /\ lock' = [lock EXCEPT ![t] = c]
  /\ UNCHANGED <<rows, memory>>

Unlocked(c) == [t \in Timesheets |-> IF lock[t] = c THEN None ELSE lock[t]]

(* Seeded fault: the rows are read before they are locked.                 *)
CheckSelection_BeforeLock(c) ==
  /\ pc[c] = "start"
  /\ IF \A t \in Selection[c] : Eligible(timesheet[t])
     THEN pc' = [pc EXCEPT ![c] = "checked"] /\ UNCHANGED lock
     ELSE pc' = [pc EXCEPT ![c] = "refused"] /\ lock' = Unlocked(c)
  /\ UNCHANGED <<rows, memory>>

(* The locked rows are read; one that is not eligible refuses them all.    *)
CheckSelection(c) ==
  /\ pc[c] = "start"
  /\ Wanted(c) = {}
  /\ IF \A t \in Selection[c] : Eligible(timesheet[t])
     THEN pc' = [pc EXCEPT ![c] = "checked"] /\ UNCHANGED lock
     ELSE pc' = [pc EXCEPT ![c] = "refused"] /\ lock' = Unlocked(c)
  /\ UNCHANGED <<rows, memory>>

(* The draft batch is inserted, its rows join it and their pay is frozen;  *)
(* the commit shows it all and releases the rows.                          *)
CommitCreate(c) ==
  /\ Go(c, "checked", "done")
  /\ batch' = [batch EXCEPT ![c] = "draft"]
  /\ timesheet' = [t \in Timesheets |->
       IF t \in Selection[c]
       THEN [timesheet[t] EXCEPT !.batch = c, !.payroll = "included", !.snapshot = TRUE]
       ELSE timesheet[t]]
  /\ lock' = Unlocked(c)
  /\ UNCHANGED memory

RollbackCreate(c) ==
  /\ pc[c] \in {"start", "checked"}
  /\ pc' = [pc EXCEPT ![c] = "refused"]
  /\ lock' = Unlocked(c)
  /\ UNCHANGED <<rows, memory>>

-----------------------------------------------------------------------------
(* timesheet.service: an editor loads timesheets and edits them in memory  *)

LoadRows(e, new) ==
  /\ Go(e, "start", "loaded")
  /\ scope' = [scope EXCEPT ![e] = DOMAIN new]
  /\ entity' = [entity EXCEPT ![e] =
       [t \in Timesheets |-> IF t \in DOMAIN new THEN new[t] ELSE NewRow]]
  /\ UNCHANGED <<rows, lock, order, diff>>

LoadRow(e, t, new) == LoadRows(e, [x \in {t} |-> new])

(* updateMine on an editable timesheet, updateHoursForShift at any status  *)
(* and updateForCompany with a note only: other columns change.            *)
UpdateOther(e, t) == LoadRow(e, t, timesheet[t])

SubmitMine(e, t) ==
  /\ timesheet[t].approval \in {"draft", "returned"}
  /\ LoadRow(e, t, [timesheet[t] EXCEPT !.approval = "submitted", !.minutes = FALSE,
                                        !.payroll = "unpaid"])

(* Seeded fault: the requested status is not validated.                    *)
Approve_AnyStatus(e, t) ==
  /\ timesheet[t].approval = "submitted"
  /\ \E verdict \in {"approved", "paid"} :
       LoadRow(e, t, [timesheet[t] EXCEPT !.approval = verdict, !.minutes = TRUE])

(* updateForCompany, the review: a submitted timesheet is approved with a  *)
(* duration, or rejected or returned without one.                          *)
Approve(e, t) ==
  /\ timesheet[t].approval = "submitted"
  /\ LoadRow(e, t, [timesheet[t] EXCEPT !.approval = "approved", !.minutes = TRUE])

SendBack(e, t) ==
  /\ timesheet[t].approval = "submitted"
  /\ \E verdict \in {"rejected", "returned"} :
       LoadRow(e, t, [timesheet[t] EXCEPT !.approval = verdict, !.minutes = FALSE,
                                          !.payroll = "unpaid"])

(* updateForCompany on an approved timesheet without a line at the client: *)
(* new approved times set the duration, two nulls clear it.                *)
UpdateApprovedTimes(e, t) ==
  /\ timesheet[t].approval = "approved"
  /\ \E m \in BOOLEAN : LoadRow(e, t, [timesheet[t] EXCEPT !.minutes = m])

(* updateAsAdmin: no correction of a rejected timesheet or of committed    *)
(* pay, and a new duration only for an approved one.                       *)
UpdateAsAdmin(e, t) ==
  /\ timesheet[t].approval # "rejected"
  /\ timesheet[t].payroll # "paid" /\ timesheet[t].batch = None
  /\ \/ LoadRow(e, t, timesheet[t])
     \/ /\ timesheet[t].approval = "approved"
        /\ LoadRow(e, t, [timesheet[t] EXCEPT !.minutes = TRUE])

(* applyPayrollUpdate: approved timesheets outside any batch, all or none. *)
ApplyPayrollUpdate(e) ==
  \E ts \in (SUBSET Timesheets) \ {{}}, s \in {"unpaid", "included", "paid"} :
    /\ \A t \in ts : timesheet[t].approval = "approved" /\ timesheet[t].batch = None
    /\ LoadRows(e, [t \in ts |-> [timesheet[t] EXCEPT !.payroll = s]])

-----------------------------------------------------------------------------
(* save() of the loaded timesheets, by an editor or as a settler's second  *)
(* save                                                                    *)

Forget(s) ==
  /\ scope' = [scope EXCEPT ![s] = {}]
  /\ entity' = [entity EXCEPT ![s] = NoRows]
  /\ diff' = [diff EXCEPT ![s] = NoDiff]
  /\ order' = [x \in Settlers |-> IF x = s THEN NoOrder ELSE order[x]]

DiffRows(s) ==
  /\ pc[s] = (IF s \in Editors THEN "loaded" ELSE "batch_saved")
  /\ pc' = [pc EXCEPT ![s] = "diffed"]
  /\ diff' = [diff EXCEPT ![s] = [t \in Timesheets |->
       IF t \in scope[s] THEN Changed(timesheet[t], entity[s][t]) ELSE {}]]
  /\ UNCHANGED <<rows, lock, order, scope, entity>>

(* Rows that a create request has locked make the UPDATE wait.             *)
RowsFree(s) == \A t \in Timesheets : diff[s][t] # {} => lock[t] = None

Written(s) == [t \in Timesheets |-> Updated(timesheet[t], entity[s][t], diff[s][t])]

SaveRows(s) ==
  /\ Go(s, "diffed", "start")
  /\ RowsFree(s)
  /\ timesheet' = Written(s)
  /\ Forget(s)
  /\ UNCHANGED <<batch, lock>>

(* An error, or the end of the server process, ends a request anywhere;    *)
(* what it has saved stays.                                                *)
Abandon(s) ==
  /\ pc[s] # "start"
  /\ pc' = [pc EXCEPT ![s] = "start"]
  /\ Forget(s)
  /\ UNCHANGED <<rows, lock>>

-----------------------------------------------------------------------------
(* finaliseForCompany and payForCompany                                    *)

LoadBatch(s, b, status, payroll) ==
  /\ Go(s, "start", "loaded")
  /\ order' = [order EXCEPT ![s] = [NoOrder EXCEPT !.batch = b, !.status = status]]
  /\ scope' = [scope EXCEPT ![s] = InBatch(b)]
  /\ entity' = [entity EXCEPT ![s] = [t \in Timesheets |->
       IF t \in InBatch(b) THEN [timesheet[t] EXCEPT !.payroll = payroll] ELSE NewRow]]
  /\ UNCHANGED <<rows, lock, diff>>

FinaliseBatch(s, b) ==
  /\ batch[b] = "draft"
  /\ InBatch(b) # {}
  /\ LoadBatch(s, b, "finalised", "included")

(* Seeded fault: a draft can be paid as well.                              *)
PayBatch_Draft(s, b) ==
  /\ batch[b] \in {"draft", "finalised"}
  /\ LoadBatch(s, b, "paid", "paid")

PayBatch(s, b) ==
  /\ batch[b] = "finalised"
  /\ LoadBatch(s, b, "paid", "paid")

(* payrollBatchRepo.save(batch) compares the status, and the timesheets    *)
(* loaded with the batch with those that now belong to it.                 *)
DiffBatch(s) ==
  LET b == order[s].batch IN
  /\ Go(s, "loaded", "batch_diffed")
  /\ order' = [order EXCEPT ![s].write = batch[b] # order[s].status]
  /\ diff' = [diff EXCEPT ![s] = [t \in Timesheets |->
       IF (t \in scope[s]) # (t \in InBatch(b)) THEN {"batch"} ELSE {}]]
  /\ UNCHANGED <<rows, lock, scope, entity>>

(* It writes the status and puts back, or takes out, those timesheets: an  *)
(* entity that was not loaded stands for a row outside the batch.          *)
SaveBatch(s) ==
  LET b == order[s].batch IN
  /\ Go(s, "batch_diffed", "batch_saved")
  /\ RowsFree(s)
  /\ batch' = [batch EXCEPT ![b] = IF order[s].write THEN order[s].status ELSE @]
  /\ timesheet' = Written(s)
  /\ UNCHANGED <<lock, memory>>

-----------------------------------------------------------------------------
CreateNext(c) ==
  LockRow(c) \/ CheckSelection(c) \/ CommitCreate(c) \/ RollbackCreate(c)

EditorNext(e) ==
  \/ \E t \in Timesheets :
       \/ UpdateOther(e, t) \/ SubmitMine(e, t) \/ Approve(e, t) \/ SendBack(e, t)
       \/ UpdateApprovedTimes(e, t) \/ UpdateAsAdmin(e, t)
  \/ ApplyPayrollUpdate(e)

SettlerNext(s) ==
  \/ \E b \in Creates : FinaliseBatch(s, b) \/ PayBatch(s, b)
  \/ DiffBatch(s) \/ SaveBatch(s)

SaverNext(s) == DiffRows(s) \/ SaveRows(s) \/ Abandon(s)

Next ==
  \/ \E c \in Creates : CreateNext(c)
  \/ \E e \in Editors : EditorNext(e)
  \/ \E s \in Settlers : SettlerNext(s)
  \/ \E s \in Savers : SaverNext(s)

Spec == Init /\ [][Next]_vars
-----------------------------------------------------------------------------
TypeOK ==
  /\ timesheet \in [Timesheets -> Row]
  /\ batch \in [Creates -> {"none", "draft", "finalised", "paid"}]
  /\ lock \in [Timesheets -> Creates \cup {None}]
  /\ pc \in [Creates \cup Savers -> {"start", "checked", "done", "refused", "loaded",
                                     "batch_diffed", "batch_saved", "diffed"}]
  /\ order \in [Settlers -> Order]
  /\ scope \in [Savers -> SUBSET Timesheets]
  /\ entity \in [Savers -> [Timesheets -> Row]]
  /\ diff \in [Savers -> [Timesheets -> SUBSET Columns]]

(* No create request takes a timesheet that another batch took, that was   *)
(* paid, or whose approval or duration was taken back after its check.     *)
OnlyEligibleJoin ==
  [][\A c \in Creates : batch[c] = "none" /\ batch'[c] = "draft" =>
       \A t \in Timesheets : timesheet'[t].batch = c => Eligible(timesheet[t])]_vars

(* payroll-batch.service.ts:293, "Stable ordering prevents overlapping     *)
(* selections from deadlocking each other": create requests never wait for *)
(* each other in a ring, of whatever length.                               *)
WaitsFor(c, d) ==
  /\ pc[c] = "start"
  /\ \E t \in Wanted(c) : lock[t] = d /\ \A u \in Wanted(c) : t <= u

NoRingOfWaiters ==
  \A S \in (SUBSET Creates) \ {{}} : \E c \in S : \A d \in S : ~WaitsFor(c, d)

(* Whatever stale settlers save, a batch is not paid before it has been    *)
(* finalised, and never becomes a draft again.                             *)
NoPaymentOfDraft ==
  [][\A b \in Creates :
       /\ batch[b] \in {"none", "draft"} => batch'[b] # "paid"
       /\ batch[b] \in {"finalised", "paid"} => batch'[b] # "draft"]_batch

(* UAT-PAY-002, "duplicate payment transition is prevented".               *)
PaidBatchStaysPaid ==
  [][\A b \in Creates : batch[b] = "paid" => batch'[b] = "paid"]_batch
==============================================================================
