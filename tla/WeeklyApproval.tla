--------------------------- MODULE WeeklyApproval ----------------------------
(***************************************************************************)
(* The weekly approval of billed hours between a security company and its  *)
(* client: client-weekly-approval.service.ts, its client portal half, and  *)
(* the places where timesheet.service.ts and invoice-batch.service.ts meet *)
(* it.                                                                     *)
(*                                                                         *)
(* Billers run transactions that lock the timesheets they select; clients  *)
(* and resolvers load the request row without a lock and save() it later;  *)
(* editors do the same with an approved timesheet.  Every process starts   *)
(* over when its request is done.                                          *)
(*                                                                         *)
(* Only approved timesheets appear; the review that approves them is       *)
(* module Payroll's.  So is the order in which several rows are locked:    *)
(* here a transaction gets all of them at once, when all are free, and     *)
(* reads and checks them in the same step.                                 *)
(***************************************************************************)
EXTENDS Naturals, FiniteSets

CONSTANTS
  Weeks,       \* the company/client/site/week that a request row is unique for
  Timesheets,
  Hours,       \* approved durations
  Matches,     \* [Timesheets -> SUBSET Weeks]: sites and time zones are editable,
               \* so a timesheet may match more than one week over time
  Billers,     \* company requests that submit, resubmit, revise and invoice
  Clients,     \* client portal requests that approve and dispute
  Resolvers,   \* company requests that resolve a dispute
  Editors,     \* requests to timesheet.service about an approved timesheet
  MaxVersion,  \* bound: how often a week is submitted
  None         \* SQL NULL

ASSUME WeeklyAssumption ==
  /\ Matches \in [Timesheets -> SUBSET Weeks]
  /\ MaxVersion \in Nat \ {0}
  /\ None \notin Weeks \cup Timesheets \cup Hours \cup Billers
  /\ Billers \cap (Clients \cup Resolvers \cup Editors) = {}
  /\ Clients \cap (Resolvers \cup Editors) = {}
  /\ Resolvers \cap Editors = {}

VARIABLES
  request,    \* [Weeks -> RequestRow]
  lines,      \* the rows of client_weekly_approval_lines
  disputes,   \* the rows of client_shift_disputes
  timesheet,  \* [Timesheets -> Row]
  lock,       \* [Timesheets -> Billers \cup {None}]: SELECT ... FOR UPDATE
  pc,         \* how far each process has got
  tx,         \* what a biller's transaction is about and has read
  entity,     \* the request as a process will save it, and the columns that differ
  item,       \* the timesheets a client disputes; the dispute a resolver resolves
  edit        \* the timesheet as an editor will save it

vars == <<request, lines, disputes, timesheet, lock, pc, tx, entity, item, edit>>

Versions == 0 .. MaxVersion
Statuses == {"none", "pending", "client_approved", "disputed", "resolved", "locked"}
Maybe(S) == S \cup {None}

RequestRow == [status : Statuses, version : Versions]
Line == [week : Weeks, timesheet : Timesheets, version : Versions, hours : Hours,
         active : BOOLEAN]      \* NOT superseded
Dispute == [week : Weeks, timesheet : Timesheets, version : Versions, by : Clients,
            open : BOOLEAN]
Row == [hours      : Maybe(Hours),   \* approvedMinutes, layer 4
        correction : Maybe(Hours),   \* clientBillingApprovedMinutes, layer 5
        billed     : Maybe(Hours)]   \* clientBilledHoursSnapshot of an invoiced one
RowColumns == {"hours", "correction", "billed"}

Tx == [kind : {"none", "submit", "resubmit", "revise", "invoice"},
       week : Maybe(Weeks), version : Versions, rows : SUBSET Timesheets,
       bill : [Timesheets -> Maybe(Hours)], corrected : SUBSET Timesheets,
       old : SUBSET Line]
NoBill == [t \in Timesheets |-> None]
NoTx == [kind |-> "none", week |-> None, version |-> 0, rows |-> {}, bill |-> NoBill,
         corrected |-> {}, old |-> {}]

Entity == [week : Maybe(Weeks), status : Statuses, version : Versions,
           cols : SUBSET {"status", "version"}]
NoEntity == [week |-> None, status |-> "none", version |-> 0, cols |-> {}]
NoRow == [hours |-> None, correction |-> None, billed |-> None]
NoEdit == [of |-> None, row |-> NoRow, cols |-> {}]

Requesters == Billers \cup Clients \cup Resolvers
Processes == Requesters \cup Editors

Active(t) == {l \in lines : l.timesheet = t /\ l.active}
ActiveOf(w) == {l \in lines : l.week = w /\ l.active}
OpenDisputes(w, v) == {d \in disputes : d.week = w /\ d.version = v /\ d.open}

Init ==
  /\ request = [w \in Weeks |-> [status |-> "none", version |-> 0]]
  /\ lines = {}
  /\ disputes = {}
  /\ timesheet \in [Timesheets -> {[NoRow EXCEPT !.hours = h] : h \in Hours}]
  /\ lock = [t \in Timesheets |-> None]
  /\ pc = [p \in Processes |-> "idle"]
  /\ tx = [p \in Billers |-> NoTx]
  /\ entity = [p \in Requesters |-> NoEntity]
  /\ item = [p \in Clients \cup Resolvers |-> {}]
  /\ edit = [e \in Editors |-> NoEdit]

Go(p, from, to) == pc[p] = from /\ pc' = [pc EXCEPT ![p] = to]

rows == <<request, lines, disputes, timesheet>>

-----------------------------------------------------------------------------
(* The transactions of client-weekly-approval.service and of               *)
(* invoice-batch.service: what they read before they lock                  *)

Begin(p, new) ==
  /\ Go(p, "idle", "begun")
  /\ tx' = [tx EXCEPT ![p] = new]
  /\ UNCHANGED <<rows, lock, entity, item, edit>>

BeginSubmit(p, w, ts) ==
  /\ request[w].status = "none"
  /\ Begin(p, [NoTx EXCEPT !.kind = "submit", !.week = w, !.version = 1, !.rows = ts])

BeginResubmit(p, w, ts) ==
  /\ request[w].status = "resolved"
  /\ request[w].version < MaxVersion
  /\ Begin(p, [NoTx EXCEPT !.kind = "resubmit", !.week = w,
                           !.version = request[w].version + 1, !.rows = ts])

BeginRevise(p, w, t, h) ==
  /\ request[w].status = "disputed"
  /\ \E d \in OpenDisputes(w, request[w].version) : d.timesheet = t
  /\ Begin(p, [NoTx EXCEPT !.kind = "revise", !.week = w, !.rows = {t},
                           !.bill = [NoBill EXCEPT ![t] = h]])

BeginInvoice(p, ts) == Begin(p, [NoTx EXCEPT !.kind = "invoice", !.rows = ts])

-----------------------------------------------------------------------------
(* SELECT ... FOR UPDATE, then the checks on what is locked                *)

(* assertTimesheetEligible                                                 *)
Eligible(t, w) ==
  timesheet[t].hours # None /\ timesheet[t].billed = None /\ w \in Matches[t]

ClientApproved(t) ==
  {l \in Active(t) : request[l.week].status \in {"client_approved", "locked"}}

(* Seeded fault: a submission does not look for active lines.              *)
Accepts_NoConflict(p) ==
  LET k == tx[p].kind
      w == tx[p].week
  IN \A t \in tx[p].rows :
       /\ k = "submit"   => Eligible(t, w)
       /\ k = "resubmit" => Eligible(t, w) /\ \A l \in Active(t) : l.week = w
       /\ k = "revise"   => timesheet[t].billed = None
       /\ k = "invoice"  => /\ timesheet[t].hours # None /\ timesheet[t].billed = None
                            /\ ClientApproved(t) # {}

(* Seeded fault: an invoice takes whatever the client has approved.        *)
Accepts_Invoiced(p) ==
  LET k == tx[p].kind
      w == tx[p].week
  IN \A t \in tx[p].rows :
       /\ k = "submit"   => Eligible(t, w) /\ Active(t) = {}
       /\ k = "resubmit" => Eligible(t, w) /\ \A l \in Active(t) : l.week = w
       /\ k = "revise"   => timesheet[t].billed = None
       /\ k = "invoice"  => ClientApproved(t) # {}

Accepts(p) ==
  LET k == tx[p].kind
      w == tx[p].week
  IN \A t \in tx[p].rows :
       /\ k = "submit"   => Eligible(t, w) /\ Active(t) = {}
       /\ k = "resubmit" => Eligible(t, w) /\ \A l \in Active(t) : l.week = w
       /\ k = "revise"   => timesheet[t].billed = None
       /\ k = "invoice"  => /\ timesheet[t].hours # None /\ timesheet[t].billed = None
                            /\ ClientApproved(t) # {}

(* Seeded fault: a resubmission always bills the correction.               *)
BillOf_NoFallback(p, t) ==
  LET k == tx[p].kind
      r == timesheet[t]
  IN IF k = "revise" THEN tx[p].bill[t]
     ELSE IF k = "invoice" THEN (CHOOSE l \in ClientApproved(t) : TRUE).hours
     ELSE IF k = "resubmit" THEN r.correction
     ELSE r.hours

(* The hours to put on a line or an invoice: a resubmission prefers the    *)
(* correction (layer 5), an invoice takes those of the approved line.      *)
BillOf(p, t) ==
  LET k == tx[p].kind
      r == timesheet[t]
  IN IF k = "revise" THEN tx[p].bill[t]
     ELSE IF k = "invoice" THEN (CHOOSE l \in ClientApproved(t) : TRUE).hours
     ELSE IF k = "resubmit" /\ r.correction # None THEN r.correction
     ELSE r.hours

(* Seeded fault: SELECT without FOR UPDATE.                                *)
LockRows_Unlocked(p) ==
  /\ IF Accepts(p)
     THEN /\ Go(p, "begun", "checked")
          /\ tx' = [tx EXCEPT
               ![p].bill = [t \in Timesheets |-> IF t \in tx[p].rows THEN BillOf(p, t) ELSE None],
               ![p].corrected = {t \in tx[p].rows : timesheet[t].correction # None}]
     ELSE /\ Go(p, "begun", "idle")
          /\ tx' = [tx EXCEPT ![p] = NoTx]
  /\ UNCHANGED <<rows, lock, entity, item, edit>>

LockRows(p) ==
  /\ \A t \in tx[p].rows : lock[t] = None
  /\ IF Accepts(p)
     THEN /\ Go(p, "begun", "checked")
          /\ lock' = [t \in Timesheets |-> IF t \in tx[p].rows THEN p ELSE lock[t]]
          /\ tx' = [tx EXCEPT
               ![p].bill = [t \in Timesheets |-> IF t \in tx[p].rows THEN BillOf(p, t) ELSE None],
               ![p].corrected = {t \in tx[p].rows : timesheet[t].correction # None}]
     ELSE /\ Go(p, "begun", "idle")
          /\ tx' = [tx EXCEPT ![p] = NoTx]
          /\ UNCHANGED lock
  /\ UNCHANGED <<rows, entity, item, edit>>

-----------------------------------------------------------------------------
(* What they write, and the commit                                         *)

EndTransaction(p) ==
  /\ pc' = [pc EXCEPT ![p] = "idle"]
  /\ lock' = [t \in Timesheets |-> IF lock[t] = p THEN None ELSE lock[t]]
  /\ tx' = [tx EXCEPT ![p] = NoTx]
  /\ entity' = [entity EXCEPT ![p] = NoEntity]
  /\ UNCHANGED <<item, edit>>

NewLines(p) ==
  {[week |-> tx[p].week, timesheet |-> t, version |-> tx[p].version,
    hours |-> tx[p].bill[t], active |-> TRUE] : t \in tx[p].rows}

(* The unique index on company, client, site and week refuses the second   *)
(* of two submissions that both found no request.                          *)
CommitSubmit(p) ==
  LET w == tx[p].week IN
  /\ pc[p] = "checked" /\ tx[p].kind = "submit"
  /\ IF request[w].status = "none"
     THEN /\ request' = [request EXCEPT ![w] = [status |-> "pending", version |-> 1]]
          /\ lines' = lines \cup NewLines(p)
     ELSE UNCHANGED <<request, lines>>
  /\ EndTransaction(p)
  /\ UNCHANGED <<disputes, timesheet>>

(* resubmit's UPDATE of the active lines sees those committed before it    *)
(* starts.                                                                 *)
Supersede(p) ==
  /\ tx[p].kind = "resubmit"
  /\ Go(p, "checked", "superseding")
  /\ tx' = [tx EXCEPT ![p].old = ActiveOf(tx[p].week)]
  /\ UNCHANGED <<rows, lock, entity, item, edit>>

DiffOf(w, status, version) ==
  (IF request[w].status # status THEN {"status"} ELSE {})
    \cup (IF request[w].version # version THEN {"version"} ELSE {})

(* The UPDATE waits for line rows another resubmission has updated.  Then  *)
(* the new lines are inserted, which the unique index on request,          *)
(* timesheet and version may refuse, and save(request) looks for changes.  *)
InsertLines(p) ==
  LET w == tx[p].week IN
  /\ pc[p] = "superseding"
  /\ \A q \in Billers : pc[q] = "inserted" => tx[q].old \cap tx[p].old = {}
  /\ IF \E l \in lines, n \in NewLines(p) :
          <<l.week, l.timesheet, l.version>> = <<n.week, n.timesheet, n.version>>
     THEN EndTransaction(p)
     ELSE /\ pc' = [pc EXCEPT ![p] = "inserted"]
          /\ entity' = [entity EXCEPT ![p] =
               [week |-> w, status |-> "pending", version |-> tx[p].version,
                cols |-> DiffOf(w, "pending", tx[p].version)]]
          /\ UNCHANGED <<lock, tx, item, edit>>
  /\ UNCHANGED rows

(* The request row after save() wrote the columns that differed.           *)
SavedRequest(p) ==
  LET e == entity[p] IN
  [request EXCEPT ![e.week] =
     [status  |-> IF "status" \in e.cols THEN e.status ELSE @.status,
      version |-> IF "version" \in e.cols THEN e.version ELSE @.version]]

Superseded(old) == {l \in lines : l \notin old} \cup {[l EXCEPT !.active = FALSE] : l \in old}

CommitResubmit(p) ==
  /\ pc[p] = "inserted"
  /\ request' = SavedRequest(p)
  /\ lines' = Superseded(tx[p].old \cap lines) \cup NewLines(p)
  /\ timesheet' = [t \in Timesheets |->
       IF t \in tx[p].corrected THEN [timesheet[t] EXCEPT !.correction = None]
       ELSE timesheet[t]]
  /\ EndTransaction(p)
  /\ UNCHANGED disputes

CommitRevise(p) ==
  /\ pc[p] = "checked" /\ tx[p].kind = "revise"
  /\ timesheet' = [t \in Timesheets |->
       IF t \in tx[p].rows THEN [timesheet[t] EXCEPT !.correction = tx[p].bill[t]]
       ELSE timesheet[t]]
  /\ EndTransaction(p)
  /\ UNCHANGED <<request, lines, disputes>>

(* The batch takes its timesheets; a request all of whose active lines are *)
(* invoiced is locked, whatever its status is by now.                      *)
CommitInvoice(p) ==
  LET in(t) == t \in tx[p].rows
      done(w) == /\ \E l \in ActiveOf(w) : in(l.timesheet)
                 /\ \A l \in ActiveOf(w) :
                      in(l.timesheet) \/ timesheet[l.timesheet].billed # None
  IN
  /\ pc[p] = "checked" /\ tx[p].kind = "invoice"
  /\ timesheet' = [t \in Timesheets |->
       IF in(t) THEN [timesheet[t] EXCEPT !.billed = tx[p].bill[t]] ELSE timesheet[t]]
  /\ request' = [w \in Weeks |->
       IF done(w) THEN [request[w] EXCEPT !.status = "locked"] ELSE request[w]]
  /\ EndTransaction(p)
  /\ UNCHANGED <<lines, disputes>>

(* Any statement may fail, and the server may stop: nothing remains.       *)
Rollback(p) ==
  /\ pc[p] # "idle"
  /\ EndTransaction(p)
  /\ UNCHANGED rows

-----------------------------------------------------------------------------
(* client-portal-weekly-approval.service: load, decide, save()             *)

LoadRequest(p, w, status, thing) ==
  /\ Go(p, "idle", "loaded")
  /\ entity' = [entity EXCEPT ![p] =
       [week |-> w, status |-> status, version |-> request[w].version, cols |-> {}]]
  /\ item' = [item EXCEPT ![p] = thing]
  /\ UNCHANGED <<rows, lock, tx, edit>>

ApproveWeek(c, w) ==
  /\ request[w].status = "pending"
  /\ LoadRequest(c, w, "client_approved", {})

DisputeShifts(c, w, ts) ==
  /\ request[w].status = "pending"
  /\ ts \subseteq {l.timesheet : l \in ActiveOf(w)}
  /\ LoadRequest(c, w, "disputed", ts)

DiffRequest(p, from) ==
  LET e == entity[p] IN
  /\ Go(p, from, "diffed")
  /\ entity' = [entity EXCEPT ![p].cols = DiffOf(e.week, e.status, e.version)]
  /\ UNCHANGED <<rows, lock, tx, item, edit>>

NewDisputes(c) ==
  {[week |-> entity[c].week, timesheet |-> t, version |-> entity[c].version, by |-> c,
    open |-> TRUE] : t \in item[c]}

Forget(p) ==
  /\ pc' = [pc EXCEPT ![p] = "idle"]
  /\ entity' = [entity EXCEPT ![p] = NoEntity]
  /\ item' = [item EXCEPT ![p] = {}]
  /\ UNCHANGED <<lock, tx, edit>>

(* approveWeek's save(), or the commit of disputeShifts.                   *)
SaveResponse(c) ==
  /\ pc[c] = "diffed"
  /\ request' = SavedRequest(c)
  /\ disputes' = disputes \cup NewDisputes(c)
  /\ Forget(c)
  /\ UNCHANGED <<lines, timesheet>>

-----------------------------------------------------------------------------
(* resolveDispute: three saves and a count, without a transaction          *)

LoadDispute(r, d) ==
  /\ request[d.week].status = "disputed"
  /\ d.open
  /\ LoadRequest(r, d.week, "resolved", {d})

SaveDispute(r) ==
  /\ Go(r, "loaded", "resolved")
  /\ disputes' = (disputes \ item[r]) \cup {[d EXCEPT !.open = FALSE] : d \in item[r]}
  /\ UNCHANGED <<request, lines, timesheet, lock, tx, entity, item, edit>>

CountOpen(r) ==
  IF OpenDisputes(entity[r].week, entity[r].version) = {}
  THEN DiffRequest(r, "resolved")
  ELSE pc[r] = "resolved" /\ Forget(r) /\ UNCHANGED rows

SaveResolved(r) ==
  /\ pc[r] = "diffed"
  /\ request' = SavedRequest(r)
  /\ Forget(r)
  /\ UNCHANGED <<lines, disputes, timesheet>>

(* An error, or the end of the server, between two of its saves.           *)
Abandon(p) ==
  /\ pc[p] # "idle"
  /\ Forget(p)
  /\ UNCHANGED rows

-----------------------------------------------------------------------------
(* timesheet.service on an approved timesheet                              *)

LoadRow(e, t, new) ==
  /\ Go(e, "idle", "loaded")
  /\ edit' = [edit EXCEPT ![e] = [of |-> t, row |-> new, cols |-> {}]]
  /\ UNCHANGED <<rows, lock, tx, entity, item>>

(* updateForCompany with new approved times, or with two nulls: not once a *)
(* line of the timesheet is active.                                        *)
UpdateApprovedTimes(e, t) ==
  /\ Active(t) = {}
  /\ \E h \in Maybe(Hours) : LoadRow(e, t, [timesheet[t] EXCEPT !.hours = h])

(* updateAsAdmin, and updateForCompany with nothing but a note.            *)
UpdateAsAdmin(e, t) ==
  /\ timesheet[t].billed = None
  /\ \E h \in Hours : LoadRow(e, t, [timesheet[t] EXCEPT !.hours = h])

UpdateNote(e, t) == LoadRow(e, t, timesheet[t])

DiffRow(e) ==
  /\ Go(e, "loaded", "diffed")
  /\ edit' = [edit EXCEPT ![e].cols =
       {c \in RowColumns : timesheet[edit[e].of][c] # edit[e].row[c]}]
  /\ UNCHANGED <<rows, lock, tx, entity, item>>

(* The UPDATE waits for a transaction that has locked the row.             *)
SaveRow(e) ==
  LET r == edit[e].row
      cs == edit[e].cols
  IN
  /\ Go(e, "diffed", "idle")
  /\ cs # {} => lock[edit[e].of] = None
  /\ timesheet' = [timesheet EXCEPT ![edit[e].of] =
       [hours      |-> IF "hours" \in cs THEN r.hours ELSE @.hours,
        correction |-> IF "correction" \in cs THEN r.correction ELSE @.correction,
        billed     |-> IF "billed" \in cs THEN r.billed ELSE @.billed]]
  /\ edit' = [edit EXCEPT ![e] = NoEdit]
  /\ UNCHANGED <<request, lines, disputes, lock, tx, entity, item>>

-----------------------------------------------------------------------------
Selections == (SUBSET Timesheets) \ {{}}

BillerNext(p) ==
  \/ \E w \in Weeks, ts \in Selections : BeginSubmit(p, w, ts) \/ BeginResubmit(p, w, ts)
  \/ \E w \in Weeks, t \in Timesheets, h \in Hours : BeginRevise(p, w, t, h)
  \/ \E ts \in Selections : BeginInvoice(p, ts)
  \/ pc[p] = "begun" /\ LockRows(p)
  \/ CommitSubmit(p) \/ Supersede(p) \/ InsertLines(p) \/ CommitResubmit(p)
  \/ CommitRevise(p) \/ CommitInvoice(p) \/ Rollback(p)

ClientNext(c) ==
  \/ \E w \in Weeks : ApproveWeek(c, w) \/ \E ts \in Selections : DisputeShifts(c, w, ts)
  \/ DiffRequest(c, "loaded") \/ SaveResponse(c) \/ Abandon(c)

ResolverNext(r) ==
  \/ \E d \in disputes : LoadDispute(r, d)
  \/ SaveDispute(r) \/ CountOpen(r) \/ SaveResolved(r) \/ Abandon(r)

EditorNext(e) ==
  \/ \E t \in Timesheets :
       UpdateApprovedTimes(e, t) \/ UpdateAsAdmin(e, t) \/ UpdateNote(e, t)
  \/ DiffRow(e) \/ SaveRow(e)

Next ==
  \/ \E p \in Billers : BillerNext(p)
  \/ \E c \in Clients : ClientNext(c)
  \/ \E r \in Resolvers : ResolverNext(r)
  \/ \E e \in Editors : EditorNext(e)

Spec == Init /\ [][Next]_vars
-----------------------------------------------------------------------------
TypeOK ==
  /\ request \in [Weeks -> RequestRow]
  /\ lines \subseteq Line
  /\ disputes \subseteq Dispute
  /\ timesheet \in [Timesheets -> Row]
  /\ lock \in [Timesheets -> Maybe(Billers)]
  /\ pc \in [Processes -> {"idle", "begun", "checked", "superseding", "inserted",
                           "loaded", "resolved", "diffed"}]
  /\ tx \in [Billers -> Tx]
  /\ entity \in [Requesters -> Entity]
  /\ item \in [Clients \cup Resolvers -> SUBSET (Timesheets \cup Dispute)]
  /\ edit \in [Editors -> [of : Maybe(Timesheets), row : Row, cols : SUBSET RowColumns]]

(* The locks on the timesheets are enough to keep every timesheet on at    *)
(* most one active line, of whatever week, so that the partial unique      *)
(* index UQ_active_approval_line never has to refuse an insert.            *)
OneActiveLine == \A t \in Timesheets : Cardinality(Active(t)) <= 1

(* A new line bills what the timesheet says when the line appears: no      *)
(* correction and no edit slips in between reading and committing, and a   *)
(* correction leaves the timesheet only when the new line bills it.        *)
SnapshotIsCurrent ==
  [][/\ \A l \in lines' : l.active /\ (\A k \in lines : [k EXCEPT !.active = TRUE] # l) =>
          LET r == timesheet[l.timesheet] IN
          l.hours = IF l.version > 1 /\ r.correction # None THEN r.correction ELSE r.hours
     /\ \A t \in Timesheets :
          /\ lines' # lines
          /\ timesheet[t].correction # None /\ timesheet'[t].correction = None
          => \E l \in lines' : l.timesheet = t /\ l.active /\ l.hours = timesheet[t].correction
     ]_vars

(* A transaction invoices a timesheet only while it is approved with a     *)
(* duration and not invoiced, and for hours that some line submitted.      *)
InvoicedOnce ==
  [][\A p \in Billers :
       pc[p] = "checked" /\ tx[p].kind = "invoice" /\ timesheet' # timesheet
         /\ pc'[p] = "idle"
       => \A t \in tx[p].rows :
            /\ timesheet[t].hours # None /\ timesheet[t].billed = None
            /\ \E l \in lines : l.timesheet = t /\ l.hours = timesheet'[t].billed]_vars

(* client-portal-weekly-approval.service.ts:54, "Only PENDING_APPROVAL     *)
(* requests can be approved".                                              *)
OnlyPendingIsApproved ==
  [][\A w \in Weeks :
       request[w].status # "client_approved" /\ request'[w].status = "client_approved"
       => request[w].status = "pending"]_request
==============================================================================
