------------------------ MODULE WeeklyApprovalProofs -------------------------
(***************************************************************************)
(* WeeklyApproval, for any number of weeks, timesheets, versions and       *)
(* requests.                                                               *)
(*                                                                         *)
(* Everything rests on the row locks: from its check to its commit nobody  *)
(* but the transaction itself writes the timesheets it selected or gives   *)
(* them an active line.                                                    *)
(***************************************************************************)
EXTENDS WeeklyApproval, FiniteSetTheorems, TLAPS

Past(p) == pc[p] \in {"checked", "superseding", "inserted"}
Submits(p) == tx[p].kind \in {"submit", "resubmit"}

(* What a transaction that writes lines has read makes well-typed lines.   *)
TxTyped ==
  \A p \in Billers :
    /\ Submits(p) => tx[p].week \in Weeks
    /\ Submits(p) /\ Past(p) => \A t \in tx[p].rows : tx[p].bill[t] \in Hours
    /\ pc[p] \in {"superseding", "inserted"} => tx[p].kind = "resubmit"

(* Clients remember timesheets, resolvers remember disputes.               *)
ItemsTyped ==
  /\ \A c \in Clients : item[c] \subseteq Timesheets
  /\ \A c \in Clients : item[c] # {} => entity[c].week \in Weeks
  /\ \A r \in Resolvers : item[r] \subseteq Dispute

Typed == TypeOK /\ TxTyped /\ ItemsTyped

LEMMA NoTxTyped == NoTx \in Tx /\ NoBill \in [Timesheets -> Maybe(Hours)]
BY WeeklyAssumption DEF NoTx, Tx, NoBill, Maybe, Versions

LEMMA NoEntityTyped == NoEntity \in Entity
BY WeeklyAssumption DEF NoEntity, Entity, Maybe, Versions, Statuses

LEMMA NoEditTyped ==
  /\ NoRow \in Row
  /\ NoEdit \in [of : Maybe(Timesheets), row : Row, cols : SUBSET RowColumns]
BY DEF NoRow, NoEdit, Row, Maybe

LEMMA TypedInit == Init => Typed
<1> SUFFICES ASSUME Init PROVE Typed
  OBVIOUS
<1> USE WeeklyAssumption DEF Init
<1>1. request \in [Weeks -> RequestRow]
  BY DEF RequestRow, Statuses, Versions
<1>2. timesheet \in [Timesheets -> Row]
  <2>1. \A h \in Hours : [NoRow EXCEPT !.hours = h] \in Row
    BY DEF NoRow, Row, Maybe
  <2>2. QED
    BY <2>1
<1>3. TypeOK
  BY <1>1, <1>2, NoTxTyped, NoEntityTyped, NoEditTyped DEF TypeOK, Maybe
<1>4. TxTyped
  BY DEF TxTyped, Submits, NoTx, Past, Processes, Requesters
<1>5. ItemsTyped
  BY DEF ItemsTyped
<1>6. QED
  BY <1>3, <1>4, <1>5 DEF Typed

-----------------------------------------------------------------------------
(* Billers                                                                 *)

(* A biller's process is nobody else's, and its other memory stays.        *)
LEMMA TypedEnd ==
  ASSUME Typed, NEW p \in Billers, EndTransaction(p)
  PROVE  /\ pc' \in [Processes -> {"idle", "begun", "checked", "superseding", "inserted",
                                   "loaded", "resolved", "diffed"}]
         /\ lock' \in [Timesheets -> Maybe(Billers)]
         /\ tx' \in [Billers -> Tx]
         /\ entity' \in [Requesters -> Entity]
         /\ item' = item /\ edit' = edit
         /\ TxTyped' /\ ItemsTyped'
<1> USE WeeklyAssumption, NoTxTyped, NoEntityTyped DEF Typed, TypeOK, EndTransaction
<1>1. tx' \in [Billers -> Tx]
  OBVIOUS
<1>2. entity' \in [Requesters -> Entity]
  OBVIOUS
<1>3. TxTyped'
  BY DEF TxTyped, Submits, Past, NoTx, Processes, Requesters
<1>4. ItemsTyped'
  BY DEF ItemsTyped, Requesters
<1>5. QED
  BY <1>1, <1>2, <1>3, <1>4 DEF Maybe

LEMMA TypedBegin ==
  ASSUME Typed, NEW p \in Billers, NEW new \in Tx, Begin(p, new),
         new.kind \in {"submit", "resubmit"} => new.week \in Weeks
  PROVE  Typed'
<1> USE WeeklyAssumption DEF Typed, TypeOK, Begin, Go, rows
<1>1. TypeOK'
  OBVIOUS
<1>2. TxTyped'
  BY DEF TxTyped, Submits, Past, Processes, Requesters
<1>3. ItemsTyped'
  BY DEF ItemsTyped
<1>4. QED
  BY <1>1, <1>2, <1>3

LEMMA TypedBegins ==
  ASSUME Typed, NEW p \in Billers,
         \/ \E w \in Weeks, ts \in Selections : BeginSubmit(p, w, ts) \/ BeginResubmit(p, w, ts)
         \/ \E w \in Weeks, t \in Timesheets, h \in Hours : BeginRevise(p, w, t, h)
         \/ \E ts \in Selections : BeginInvoice(p, ts)
  PROVE  Typed'
<1> USE WeeklyAssumption, NoTxTyped DEF Selections
<1>1. ASSUME NEW w \in Weeks, NEW ts \in Selections, BeginSubmit(p, w, ts) PROVE Typed'
  <2> DEFINE new == [NoTx EXCEPT !.kind = "submit", !.week = w, !.version = 1, !.rows = ts]
  <2>1. 1 \in Versions
    BY DEF Versions
  <2>2. new \in Tx /\ new.week \in Weeks
    BY <2>1 DEF NoTx, Tx, Maybe
  <2>3. Begin(p, new)
    BY <1>1 DEF BeginSubmit
  <2> HIDE DEF new
  <2>4. QED
    BY <2>2, <2>3, TypedBegin
<1>2. ASSUME NEW w \in Weeks, NEW ts \in Selections, BeginResubmit(p, w, ts) PROVE Typed'
  <2> DEFINE new == [NoTx EXCEPT !.kind = "resubmit", !.week = w,
                                 !.version = request[w].version + 1, !.rows = ts]
  <2>1. request[w].version + 1 \in Versions
    <3>1. request[w] \in RequestRow
      BY DEF Typed, TypeOK
    <3>2. request[w].version \in Versions /\ request[w].version < MaxVersion
      BY <1>2, <3>1 DEF BeginResubmit, RequestRow
    <3>3. QED
      BY <3>2 DEF Versions
  <2>2. new \in Tx /\ new.week \in Weeks
    BY <2>1 DEF NoTx, Tx, Maybe
  <2>3. Begin(p, new)
    BY <1>2 DEF BeginResubmit
  <2> HIDE DEF new
  <2>4. QED
    BY <2>2, <2>3, TypedBegin
<1>3. ASSUME NEW w \in Weeks, NEW t \in Timesheets, NEW h \in Hours, BeginRevise(p, w, t, h)
      PROVE  Typed'
  <2> DEFINE new == [NoTx EXCEPT !.kind = "revise", !.week = w, !.rows = {t},
                                 !.bill = [NoBill EXCEPT ![t] = h]]
  <2>1. [NoBill EXCEPT ![t] = h] \in [Timesheets -> Maybe(Hours)]
    BY DEF Maybe
  <2>2. new \in Tx /\ new.kind = "revise"
    BY <2>1 DEF NoTx, Tx, Maybe
  <2>3. Begin(p, new)
    BY <1>3 DEF BeginRevise
  <2> HIDE DEF new
  <2>4. QED
    BY <2>2, <2>3, TypedBegin
<1>4. ASSUME NEW ts \in Selections, BeginInvoice(p, ts) PROVE Typed'
  <2> DEFINE new == [NoTx EXCEPT !.kind = "invoice", !.rows = ts]
  <2>1. new \in Tx /\ new.kind = "invoice"
    BY DEF NoTx, Tx
  <2>2. Begin(p, new)
    BY <1>4 DEF BeginInvoice
  <2> HIDE DEF new
  <2>3. QED
    BY <2>1, <2>2, TypedBegin
<1>5. QED
  BY <1>1, <1>2, <1>3, <1>4

LEMMA TypedLockRows ==
  ASSUME Typed, NEW p \in Billers, pc[p] = "begun", LockRows(p)
  PROVE  Typed'
<1> USE WeeklyAssumption DEF Typed, TypeOK
<1>1. CASE Accepts(p)
  <2> DEFINE bill == [t \in Timesheets |-> IF t \in tx[p].rows THEN BillOf(p, t) ELSE None]
             corrected == {t \in tx[p].rows : timesheet[t].correction # None}
  <2>1. /\ pc' = [pc EXCEPT ![p] = "checked"]
        /\ lock' = [t \in Timesheets |-> IF t \in tx[p].rows THEN p ELSE lock[t]]
        /\ tx' = [tx EXCEPT ![p].bill = bill, ![p].corrected = corrected]
        /\ UNCHANGED <<rows, entity, item, edit>>
    BY <1>1 DEF LockRows, Go
  <2>2. tx[p] \in Tx
    OBVIOUS
  <2>3. ASSUME NEW t \in tx[p].rows
        PROVE  /\ BillOf(p, t) \in Maybe(Hours)
               /\ Submits(p) => BillOf(p, t) \in Hours
    <3>1. t \in Timesheets /\ timesheet[t] \in Row
      BY <2>2 DEF Tx
    <3>2. tx[p].kind \in {"none", "submit", "resubmit", "revise", "invoice"}
          /\ tx[p].bill[t] \in Maybe(Hours)
      BY <2>2, <3>1 DEF Tx
    <3>3. CASE tx[p].kind = "revise"
      BY <3>2, <3>3 DEF BillOf, Submits
    <3>4. CASE tx[p].kind = "invoice"
      <4>1. ClientApproved(t) # {}
        BY <1>1, <3>4 DEF Accepts
      <4>2. PICK l \in ClientApproved(t) : BillOf(p, t) = l.hours
        BY <3>4, <4>1 DEF BillOf
      <4>3. l \in Line
        BY DEF ClientApproved, Active
      <4>4. l.hours \in Hours
        BY <4>3 DEF Line
      <4>5. QED
        BY <3>4, <4>2, <4>4 DEF Maybe, Submits
    <3>5. CASE tx[p].kind = "resubmit" /\ timesheet[t].correction # None
      <4>1. BillOf(p, t) = timesheet[t].correction
        BY <3>5 DEF BillOf
      <4>2. QED
        BY <3>1, <3>5, <4>1 DEF Row, Maybe
    <3>6. CASE tx[p].kind \notin {"revise", "invoice"}
               /\ ~(tx[p].kind = "resubmit" /\ timesheet[t].correction # None)
      <4>1. BillOf(p, t) = timesheet[t].hours
        BY <3>6 DEF BillOf
      <4>2. Submits(p) => timesheet[t].hours # None
        BY <1>1 DEF Accepts, Eligible, Submits
      <4>3. QED
        BY <3>1, <4>1, <4>2 DEF Row, Maybe
    <3>7. QED
      BY <3>3, <3>4, <3>5, <3>6
  <2>4. bill \in [Timesheets -> Maybe(Hours)]
    BY <2>3 DEF Maybe
  <2>5. corrected \in SUBSET Timesheets
    BY <2>2 DEF Tx
  <2> HIDE DEF bill, corrected
  <2>6. tx' \in [Billers -> Tx]
    <3>1. [tx[p] EXCEPT !.bill = bill, !.corrected = corrected] \in Tx
      BY <2>2, <2>4, <2>5 DEF Tx
    <3>2. tx' = [tx EXCEPT ![p] = [tx[p] EXCEPT !.bill = bill, !.corrected = corrected]]
      BY <2>1
    <3>3. QED
      BY <3>1, <3>2
  <2>7. TypeOK'
    BY <2>1, <2>6 DEF rows, Maybe
  <2>8. \A q \in Billers : /\ tx'[q].kind = tx[q].kind /\ tx'[q].week = tx[q].week
                           /\ tx'[q].rows = tx[q].rows
                           /\ q # p => tx'[q] = tx[q] /\ pc'[q] = pc[q]
    BY <2>1, <2>2 DEF Tx
  <2>9. Submits(p) => \A t \in tx[p].rows : tx'[p].bill[t] \in Hours
    <3>1. tx'[p].bill = bill
      BY <2>1, <2>2 DEF Tx
    <3>2. tx[p].rows \subseteq Timesheets
      BY <2>2 DEF Tx
    <3>3. QED
      BY <2>3, <3>1, <3>2 DEF bill
  <2>10. pc'[p] = "checked"
    BY <2>1 DEF Processes, Requesters
  <2>11. TxTyped'
    BY <2>8, <2>9, <2>10 DEF TxTyped, Submits, Past
  <2>12. ItemsTyped'
    BY <2>1 DEF ItemsTyped
  <2>13. QED
    BY <2>7, <2>11, <2>12
<1>2. CASE ~Accepts(p)
  <2>1. TypeOK'
    BY <1>2, NoTxTyped DEF LockRows, Go, rows
  <2>2. TxTyped'
    BY <1>2 DEF LockRows, Go, TxTyped, Submits, Past, NoTx, Processes, Requesters
  <2>3. ItemsTyped'
    BY <1>2 DEF LockRows, ItemsTyped
  <2>4. QED
    BY <2>1, <2>2, <2>3
<1>3. QED
  BY <1>1, <1>2

LEMMA NewLinesTyped ==
  ASSUME Typed, NEW p \in Billers, Submits(p), Past(p)
  PROVE  NewLines(p) \subseteq Line
<1>1. tx[p] \in Tx
  BY DEF Typed, TypeOK
<1>2. tx[p].week \in Weeks /\ tx[p].version \in Versions /\ tx[p].rows \subseteq Timesheets
  BY <1>1 DEF Typed, TxTyped, Tx
<1>3. \A t \in tx[p].rows : tx[p].bill[t] \in Hours
  BY DEF Typed, TxTyped
<1>4. ASSUME NEW t \in tx[p].rows
      PROVE  [week |-> tx[p].week, timesheet |-> t, version |-> tx[p].version,
              hours |-> tx[p].bill[t], active |-> TRUE] \in Line
  BY <1>2, <1>3 DEF Line
<1>5. QED
  BY <1>4 DEF NewLines

LEMMA SavedRequestTyped ==
  ASSUME TypeOK, NEW p \in Requesters
  PROVE  SavedRequest(p) \in [Weeks -> RequestRow]
<1>1. entity[p] \in Entity
  BY DEF TypeOK
<1>2. \A w \in Weeks : request[w] \in RequestRow
  BY DEF TypeOK
<1>3. \A w \in Weeks :
        [status  |-> IF "status" \in entity[p].cols THEN entity[p].status ELSE request[w].status,
         version |-> IF "version" \in entity[p].cols THEN entity[p].version
                     ELSE request[w].version] \in RequestRow
  BY <1>1, <1>2 DEF Entity, RequestRow
<1>4. QED
  BY <1>3 DEF SavedRequest, TypeOK

LEMMA SupersededTyped ==
  ASSUME NEW old \in SUBSET Line, lines \subseteq Line
  PROVE  Superseded(old) \subseteq Line
<1>1. \A l \in old : [l EXCEPT !.active = FALSE] \in Line
  BY DEF Line
<1>2. QED
  BY <1>1 DEF Superseded

LEMMA TypedCommits ==
  ASSUME Typed, NEW p \in Billers,
         \/ CommitSubmit(p) \/ CommitResubmit(p) \/ CommitRevise(p)
         \/ CommitInvoice(p) \/ Rollback(p)
  PROVE  Typed'
<1> USE WeeklyAssumption DEF Typed
<1>1. EndTransaction(p)
  BY DEF CommitSubmit, CommitResubmit, CommitRevise, CommitInvoice, Rollback
<1>2. tx[p] \in Tx /\ p \in Requesters
  BY DEF TypeOK, Requesters
<1>3. /\ \A w \in Weeks : request[w] \in RequestRow
      /\ \A t \in Timesheets : timesheet[t] \in Row /\ tx[p].bill[t] \in Maybe(Hours)
  BY <1>2 DEF TypeOK, Tx
<1>4. /\ request' \in [Weeks -> RequestRow]
      /\ lines' \subseteq Line
      /\ disputes' = disputes
      /\ timesheet' \in [Timesheets -> Row]
  <2>1. CASE CommitSubmit(p)
    <3>1. NewLines(p) \subseteq Line
      BY <2>1, NewLinesTyped DEF CommitSubmit, Submits, Past
    <3>2. [status |-> "pending", version |-> 1] \in RequestRow
      BY DEF RequestRow, Statuses, Versions
    <3>3. QED
      BY <2>1, <3>1, <3>2 DEF CommitSubmit, TypeOK
  <2>2. CASE CommitResubmit(p)
    <3>1. Submits(p) /\ Past(p)
      BY <2>2 DEF CommitResubmit, TxTyped, Submits, Past
    <3>2. NewLines(p) \subseteq Line
      BY <3>1, NewLinesTyped
    <3>3. Superseded(tx[p].old \cap lines) \subseteq Line
      BY SupersededTyped DEF TypeOK
    <3>4. \A t \in Timesheets : [timesheet[t] EXCEPT !.correction = None] \in Row
      BY <1>3 DEF Row, Maybe
    <3>5. timesheet' \in [Timesheets -> Row]
      BY <1>3, <2>2, <3>4 DEF CommitResubmit
    <3>6. QED
      BY <1>2, <2>2, <3>2, <3>3, <3>5, SavedRequestTyped DEF CommitResubmit
  <2>3. CASE CommitRevise(p)
    <3>1. \A t \in Timesheets : [timesheet[t] EXCEPT !.correction = tx[p].bill[t]] \in Row
      BY <1>3 DEF Row
    <3>2. timesheet' \in [Timesheets -> Row]
      BY <1>3, <2>3, <3>1 DEF CommitRevise
    <3>3. QED
      BY <2>3, <3>2 DEF CommitRevise, TypeOK
  <2>4. CASE CommitInvoice(p)
    <3>1. \A t \in Timesheets : [timesheet[t] EXCEPT !.billed = tx[p].bill[t]] \in Row
      BY <1>3 DEF Row
    <3>2. timesheet' \in [Timesheets -> Row]
      BY <1>3, <2>4, <3>1 DEF CommitInvoice
    <3>3. \A w \in Weeks : [request[w] EXCEPT !.status = "locked"] \in RequestRow
      BY <1>3 DEF RequestRow, Statuses
    <3>4. request' \in [Weeks -> RequestRow]
      BY <1>3, <2>4, <3>3 DEF CommitInvoice
    <3>5. QED
      BY <2>4, <3>2, <3>4 DEF CommitInvoice, TypeOK
  <2>5. CASE Rollback(p)
    BY <2>5 DEF Rollback, rows, TypeOK
  <2>6. QED
    BY <2>1, <2>2, <2>3, <2>4, <2>5
<1>5. TypeOK'
  BY <1>1, <1>4, TypedEnd DEF TypeOK
<1>6. QED
  BY <1>1, <1>5, TypedEnd

LEMMA TypedSupersede ==
  ASSUME Typed, NEW p \in Billers, Supersede(p)
  PROVE  Typed'
<1> USE WeeklyAssumption DEF Typed, TypeOK, Supersede, Go, rows
<1>1. tx[p] \in Tx /\ ActiveOf(tx[p].week) \subseteq Line
  BY DEF ActiveOf
<1>2. [tx[p] EXCEPT !.old = ActiveOf(tx[p].week)] \in Tx
  BY <1>1 DEF Tx
<1>3. tx' = [tx EXCEPT ![p] = [tx[p] EXCEPT !.old = ActiveOf(tx[p].week)]]
  OBVIOUS
<1>4. tx' \in [Billers -> Tx]
  BY <1>2, <1>3
<1>5. TypeOK'
  BY <1>4
<1>6. \A q \in Billers : /\ tx'[q].kind = tx[q].kind /\ tx'[q].week = tx[q].week
                         /\ tx'[q].rows = tx[q].rows /\ tx'[q].bill = tx[q].bill
                         /\ q # p => pc'[q] = pc[q]
  BY <1>1, <1>3 DEF Tx
<1>7. pc[p] = "checked" /\ tx[p].kind = "resubmit"
  OBVIOUS
<1>8. TxTyped'
  BY <1>6, <1>7 DEF TxTyped, Submits, Past
<1>9. ItemsTyped'
  BY DEF ItemsTyped
<1>10. QED
  BY <1>5, <1>8, <1>9

LEMMA TypedInsertLines ==
  ASSUME Typed, NEW p \in Billers, InsertLines(p)
  PROVE  Typed'
<1> USE WeeklyAssumption DEF Typed
<1>1. UNCHANGED rows
  BY DEF InsertLines
<1>2. CASE EndTransaction(p)
  <2>1. TypeOK'
    BY <1>1, <1>2, TypedEnd DEF TypeOK, rows
  <2>2. QED
    BY <1>2, <2>1, TypedEnd
<1>3. CASE ~EndTransaction(p)
  <2> DEFINE new == [week |-> tx[p].week, status |-> "pending", version |-> tx[p].version,
                     cols |-> DiffOf(tx[p].week, "pending", tx[p].version)]
  <2>1. /\ pc[p] = "superseding" /\ pc' = [pc EXCEPT ![p] = "inserted"]
        /\ entity' = [entity EXCEPT ![p] = new]
        /\ UNCHANGED <<lock, tx, item, edit>>
    BY <1>3 DEF InsertLines
  <2>2. tx[p] \in Tx
    BY DEF TypeOK
  <2>3. new \in Entity
    BY <2>2 DEF Tx, Entity, Statuses, DiffOf
  <2> HIDE DEF new
  <2>4. TypeOK'
    BY <1>1, <2>1, <2>3 DEF TypeOK, rows
  <2>5. TxTyped'
    BY <2>1 DEF TxTyped, Submits, Past, TypeOK
  <2>6. ItemsTyped'
    BY <2>1 DEF ItemsTyped, TypeOK
  <2>7. QED
    BY <2>4, <2>5, <2>6
<1>4. QED
  BY <1>2, <1>3

LEMMA TypedBiller ==
  ASSUME Typed, NEW p \in Billers, BillerNext(p)
  PROVE  Typed'
BY TypedBegins, TypedLockRows, TypedCommits, TypedSupersede, TypedInsertLines DEF BillerNext

-----------------------------------------------------------------------------
(* Clients, resolvers and editors                                          *)

(* A step that leaves the billers alone keeps what they have read typed.   *)
LEMMA TxUntouched ==
  ASSUME TypeOK, TxTyped, NEW x \in Processes \ Billers, NEW to,
         pc' = [pc EXCEPT ![x] = to], tx' = tx
  PROVE  TxTyped'
BY DEF TypeOK, TxTyped, Submits, Past, Processes, Requesters

LEMMA TypedForget ==
  ASSUME Typed, NEW x \in Clients \cup Resolvers, Forget(x),
         request' \in [Weeks -> RequestRow], lines' \subseteq Line,
         disputes' \subseteq Dispute, timesheet' \in [Timesheets -> Row]
  PROVE  Typed'
<1> USE WeeklyAssumption, NoEntityTyped DEF Typed, Forget
<1>1. x \in Processes \ Billers /\ x \in Requesters
  BY DEF Processes, Requesters
<1>2. TypeOK'
  BY <1>1 DEF TypeOK
<1>3. TxTyped'
  BY <1>1, TxUntouched
<1>4. ItemsTyped'
  BY <1>1 DEF ItemsTyped, TypeOK
<1>5. QED
  BY <1>2, <1>3, <1>4

LEMMA TypedLoadRequest ==
  ASSUME Typed, NEW x \in Clients \cup Resolvers, NEW w \in Weeks, NEW status \in Statuses,
         NEW thing, LoadRequest(x, w, status, thing),
         x \in Clients => thing \subseteq Timesheets,
         x \in Resolvers => thing \subseteq Dispute
  PROVE  Typed'
<1> USE WeeklyAssumption DEF Typed
<1> DEFINE new == [week |-> w, status |-> status, version |-> request[w].version, cols |-> {}]
<1>1. /\ pc' = [pc EXCEPT ![x] = "loaded"]
      /\ entity' = [entity EXCEPT ![x] = new]
      /\ item' = [item EXCEPT ![x] = thing]
      /\ UNCHANGED <<rows, lock, tx, edit>>
  BY DEF LoadRequest, Go
<1>2. x \in Processes \ Billers /\ x \in Requesters
  BY DEF Processes, Requesters
<1>3. request[w] \in RequestRow
  BY DEF TypeOK
<1>4. new \in Entity /\ new.week \in Weeks
  BY <1>3 DEF Entity, RequestRow, Maybe
<1> HIDE DEF new
<1>5. thing \subseteq Timesheets \cup Dispute
  OBVIOUS
<1>6. TypeOK'
  BY <1>1, <1>2, <1>4, <1>5 DEF TypeOK, rows
<1>7. TxTyped'
  BY <1>1, <1>2, TxUntouched
<1>8. ItemsTyped'
  BY <1>1, <1>2, <1>4 DEF ItemsTyped, TypeOK
<1>9. QED
  BY <1>6, <1>7, <1>8

LEMMA TypedDiffRequest ==
  ASSUME Typed, NEW x \in Clients \cup Resolvers, NEW from, DiffRequest(x, from)
  PROVE  Typed'
<1> USE WeeklyAssumption DEF Typed
<1> DEFINE cs == DiffOf(entity[x].week, entity[x].status, entity[x].version)
<1>1. /\ pc' = [pc EXCEPT ![x] = "diffed"]
      /\ entity' = [entity EXCEPT ![x].cols = cs]
      /\ UNCHANGED <<rows, lock, tx, item, edit>>
  BY DEF DiffRequest, Go
<1>2. x \in Processes \ Billers /\ x \in Requesters
  BY DEF Processes, Requesters
<1>3. entity[x] \in Entity /\ cs \subseteq {"status", "version"}
  BY <1>2 DEF TypeOK, DiffOf
<1> HIDE DEF cs
<1>4. [entity[x] EXCEPT !.cols = cs] \in Entity
  BY <1>3 DEF Entity
<1>5. entity' = [entity EXCEPT ![x] = [entity[x] EXCEPT !.cols = cs]]
  BY <1>1
<1>6. TypeOK'
  BY <1>1, <1>2, <1>4, <1>5 DEF TypeOK, rows
<1>7. TxTyped'
  BY <1>1, <1>2, TxUntouched
<1>8. \A c \in Clients : entity'[c].week = entity[c].week
  <2>1. entity'[x].week = entity[x].week
    BY <1>2, <1>3, <1>5 DEF Entity, TypeOK
  <2>2. QED
    BY <1>2, <1>5, <2>1 DEF TypeOK, Requesters
<1>9. ItemsTyped'
  BY <1>1, <1>8 DEF ItemsTyped
<1>10. QED
  BY <1>6, <1>7, <1>9

LEMMA TypedClient ==
  ASSUME Typed, NEW c \in Clients, ClientNext(c)
  PROVE  Typed'
<1> USE WeeklyAssumption
<1>1. ASSUME NEW w \in Weeks, ApproveWeek(c, w) PROVE Typed'
  BY <1>1, TypedLoadRequest DEF ApproveWeek, Statuses
<1>2. ASSUME NEW w \in Weeks, NEW ts \in Selections, DisputeShifts(c, w, ts) PROVE Typed'
  <2>1. ts \subseteq Timesheets /\ "disputed" \in Statuses
    BY DEF Selections, Statuses
  <2>2. LoadRequest(c, w, "disputed", ts)
    BY <1>2 DEF DisputeShifts
  <2>3. QED
    BY <2>1, <2>2, TypedLoadRequest
<1>3. ASSUME DiffRequest(c, "loaded") PROVE Typed'
  BY <1>3, TypedDiffRequest
<1>4. ASSUME SaveResponse(c) PROVE Typed'
  <2>1. \A t \in item[c] :
          [week |-> entity[c].week, timesheet |-> t, version |-> entity[c].version,
           by |-> c, open |-> TRUE] \in Dispute
    <3>1. entity[c] \in Entity
      BY DEF Typed, TypeOK, Requesters
    <3>2. \A t \in item[c] : t \in Timesheets /\ entity[c].week \in Weeks
      BY DEF Typed, ItemsTyped
    <3>3. entity[c].version \in Versions
      BY <3>1 DEF Entity
    <3>4. QED
      BY <3>2, <3>3 DEF Dispute
  <2>2. NewDisputes(c) \subseteq Dispute
    BY <2>1 DEF NewDisputes
  <2>3. request' \in [Weeks -> RequestRow]
    BY <1>4, SavedRequestTyped DEF SaveResponse, Typed, Requesters
  <2>4. QED
    BY <1>4, <2>2, <2>3, TypedForget DEF SaveResponse, Typed, TypeOK
<1>5. ASSUME Abandon(c) PROVE Typed'
  BY <1>5, TypedForget DEF Abandon, rows, Typed, TypeOK
<1>6. QED
  BY <1>1, <1>2, <1>3, <1>4, <1>5 DEF ClientNext

LEMMA TypedResolver ==
  ASSUME Typed, NEW r \in Resolvers, ResolverNext(r)
  PROVE  Typed'
<1> USE WeeklyAssumption
<1>1. ASSUME NEW d \in disputes, LoadDispute(r, d) PROVE Typed'
  <2>1. d \in Dispute /\ "resolved" \in Statuses
    BY DEF Typed, TypeOK, Statuses
  <2>2. d.week \in Weeks
    BY <2>1 DEF Dispute
  <2>3. QED
    BY <1>1, <2>1, <2>2, TypedLoadRequest DEF LoadDispute
<1>2. ASSUME SaveDispute(r) PROVE Typed'
  <2>1. \A d \in item[r] : [d EXCEPT !.open = FALSE] \in Dispute
    <3>1. item[r] \subseteq Dispute
      BY DEF Typed, ItemsTyped
    <3>2. \A d \in Dispute : [d EXCEPT !.open = FALSE] \in Dispute
      BY DEF Dispute
    <3>3. QED
      BY <3>1, <3>2
  <2>2. r \in Processes \ Billers
    BY DEF Processes, Requesters
  <2>3. disputes' \subseteq Dispute
    BY <1>2, <2>1 DEF SaveDispute, Typed, TypeOK
  <2>4. TypeOK'
    BY <1>2, <2>3 DEF SaveDispute, Go, Typed, TypeOK
  <2>5. TxTyped'
    BY <1>2, <2>2, TxUntouched DEF SaveDispute, Go, Typed
  <2>6. ItemsTyped'
    BY <1>2 DEF SaveDispute, ItemsTyped, Typed
  <2>7. QED
    BY <2>4, <2>5, <2>6 DEF Typed
<1>3. ASSUME CountOpen(r) PROVE Typed'
  <2>1. CASE DiffRequest(r, "resolved")
    BY <2>1, TypedDiffRequest
  <2>2. CASE Forget(r) /\ UNCHANGED rows
    BY <2>2, TypedForget DEF rows, Typed, TypeOK
  <2>3. QED
    BY <1>3, <2>1, <2>2 DEF CountOpen
<1>4. ASSUME SaveResolved(r) PROVE Typed'
  <2>1. request' \in [Weeks -> RequestRow]
    BY <1>4, SavedRequestTyped DEF SaveResolved, Typed, Requesters
  <2>2. QED
    BY <1>4, <2>1, TypedForget DEF SaveResolved, Typed, TypeOK
<1>5. ASSUME Abandon(r) PROVE Typed'
  BY <1>5, TypedForget DEF Abandon, rows, Typed, TypeOK
<1>6. QED
  BY <1>1, <1>2, <1>3, <1>4, <1>5 DEF ResolverNext

LEMMA TypedLoadRow ==
  ASSUME Typed, NEW e \in Editors, NEW t \in Timesheets, NEW new \in Row, LoadRow(e, t, new)
  PROVE  Typed'
<1> USE WeeklyAssumption DEF Typed, LoadRow, Go, rows
<1>1. e \in Processes \ Billers
  BY DEF Processes, Requesters
<1>2. [of |-> t, row |-> new, cols |-> {}]
        \in [of : Maybe(Timesheets), row : Row, cols : SUBSET RowColumns]
  BY DEF Maybe
<1>3. TypeOK'
  BY <1>2 DEF TypeOK
<1>4. TxTyped'
  BY <1>1, TxUntouched
<1>5. ItemsTyped'
  BY DEF ItemsTyped
<1>6. QED
  BY <1>3, <1>4, <1>5

LEMMA TypedEditor ==
  ASSUME Typed, NEW e \in Editors, EditorNext(e)
  PROVE  Typed'
<1> USE WeeklyAssumption
<1>1. \A t \in Timesheets : timesheet[t] \in Row
  BY DEF Typed, TypeOK
<1>2. \A t \in Timesheets : \A h \in Maybe(Hours) : [timesheet[t] EXCEPT !.hours = h] \in Row
  BY <1>1 DEF Row
<1>3. ASSUME NEW t \in Timesheets,
             UpdateApprovedTimes(e, t) \/ UpdateAsAdmin(e, t) \/ UpdateNote(e, t)
      PROVE  Typed'
  <2>1. PICK new \in Row : LoadRow(e, t, new)
    BY <1>1, <1>2, <1>3 DEF UpdateApprovedTimes, UpdateAsAdmin, UpdateNote, Maybe
  <2>2. QED
    BY <2>1, TypedLoadRow
<1>4. edit[e] \in [of : Maybe(Timesheets), row : Row, cols : SUBSET RowColumns]
      /\ e \in Processes \ Billers
  BY DEF Typed, TypeOK, Processes, Requesters
<1>5. ASSUME DiffRow(e) PROVE Typed'
  <2> DEFINE cs == {c \in RowColumns : timesheet[edit[e].of][c] # edit[e].row[c]}
  <2>1. edit' = [edit EXCEPT ![e] = [edit[e] EXCEPT !.cols = cs]]
    BY <1>5 DEF DiffRow
  <2>2. cs \subseteq RowColumns
    OBVIOUS
  <2> HIDE DEF cs
  <2>3. [edit[e] EXCEPT !.cols = cs]
          \in [of : Maybe(Timesheets), row : Row, cols : SUBSET RowColumns]
    BY <1>4, <2>2
  <2>4. TypeOK'
    <3> DEFINE new == [edit[e] EXCEPT !.cols = cs]
    <3>1. new \in [of : Maybe(Timesheets), row : Row, cols : SUBSET RowColumns]
      BY <2>3
    <3>2. edit' = [edit EXCEPT ![e] = new]
      BY <2>1
    <3> HIDE DEF new
    <3>3. edit' \in [Editors -> [of : Maybe(Timesheets), row : Row, cols : SUBSET RowColumns]]
      BY <3>1, <3>2 DEF Typed, TypeOK
    <3>4. QED
      BY <1>4, <1>5, <3>3 DEF DiffRow, Go, rows, Typed, TypeOK
  <2>5. TxTyped'
    BY <1>4, <1>5, TxUntouched DEF DiffRow, Go, Typed
  <2>6. ItemsTyped'
    BY <1>5 DEF DiffRow, ItemsTyped, Typed
  <2>7. QED
    BY <2>4, <2>5, <2>6 DEF Typed
<1>6. ASSUME SaveRow(e) PROVE Typed'
  <2>1. \A t \in Timesheets :
          [hours      |-> IF "hours" \in edit[e].cols THEN edit[e].row.hours
                          ELSE timesheet[t].hours,
           correction |-> IF "correction" \in edit[e].cols THEN edit[e].row.correction
                          ELSE timesheet[t].correction,
           billed     |-> IF "billed" \in edit[e].cols THEN edit[e].row.billed
                          ELSE timesheet[t].billed] \in Row
    BY <1>1, <1>4 DEF Row
  <2>2. timesheet' \in [Timesheets -> Row]
    BY <1>1, <1>6, <2>1 DEF SaveRow, Typed, TypeOK
  <2>3. edit' = [edit EXCEPT ![e] = NoEdit]
    BY <1>6 DEF SaveRow
  <2>4. TypeOK'
    <3>1. edit' \in [Editors -> [of : Maybe(Timesheets), row : Row, cols : SUBSET RowColumns]]
      BY <2>3, NoEditTyped DEF Typed, TypeOK
    <3>2. pc' \in [Processes -> {"idle", "begun", "checked", "superseding", "inserted",
                                 "loaded", "resolved", "diffed"}]
      BY <1>6 DEF SaveRow, Go, Typed, TypeOK
    <3>3. QED
      BY <1>6, <2>2, <3>1, <3>2 DEF SaveRow, Typed, TypeOK
  <2>5. TxTyped'
    BY <1>4, <1>6, TxUntouched DEF SaveRow, Go, Typed
  <2>6. ItemsTyped'
    BY <1>6 DEF SaveRow, ItemsTyped, Typed
  <2>7. QED
    BY <2>4, <2>5, <2>6 DEF Typed
<1>7. QED
  BY <1>3, <1>5, <1>6 DEF EditorNext

LEMMA TypedInductive == Typed /\ [Next]_vars => Typed'
<1> SUFFICES ASSUME Typed, [Next]_vars PROVE Typed'
  OBVIOUS
<1>1. CASE UNCHANGED vars
  BY <1>1 DEF vars, Typed, TypeOK, TxTyped, Submits, Past, ItemsTyped
<1>2. CASE Next
  BY <1>2, TypedBiller, TypedClient, TypedResolver, TypedEditor DEF Next
<1>3. QED
  BY <1>1, <1>2

(* Every request, line, dispute and timesheet row keeps its type, and so   *)
(* does everything a request has in memory.                                *)
THEOREM TypeCorrect == Spec => []TypeOK
<1>1. Spec => []Typed
  BY TypedInit, TypedInductive, PTL DEF Spec
<1>2. Typed => TypeOK
  BY DEF Typed
<1>3. QED
  BY <1>1, <1>2, PTL

-----------------------------------------------------------------------------
(* One active line                                                         *)

Holds(p) == \A t \in tx[p].rows : lock[t] = p

(* What the checks found of the lines of the selected timesheets is still  *)
(* so, and resubmit's UPDATE takes all that are active.                    *)
Free(p) ==
  \A t \in tx[p].rows :
    /\ tx[p].kind = "submit" => Active(t) = {}
    /\ tx[p].kind = "resubmit" => \A l \in Active(t) : l.week = tx[p].week
    /\ pc[p] \in {"superseding", "inserted"} => Active(t) \subseteq tx[p].old

Guarded ==
  \A p \in Billers :
    /\ Past(p) => Holds(p) /\ Free(p)
    /\ tx[p].corrected \subseteq tx[p].rows

LinesUnique ==
  \A k, l \in lines : k.active /\ l.active /\ k.timesheet = l.timesheet => k = l

Inv == Typed /\ Guarded /\ LinesUnique

(* Clients, resolvers and editors leave the transactions, the lines and    *)
(* the locked timesheets alone.                                            *)
LEMMA Strangers ==
  ASSUME Typed,
         \/ \E c \in Clients : ClientNext(c)
         \/ \E r \in Resolvers : ResolverNext(r)
         \/ \E e \in Editors : EditorNext(e)
  PROVE  /\ lines' = lines /\ lock' = lock /\ tx' = tx
         /\ \A q \in Billers : pc'[q] = pc[q]
         /\ \A t \in Timesheets : lock[t] # None => timesheet'[t] = timesheet[t]
<1> USE DEF Go, rows
<1>0. ASSUME NEW s \in Processes \ Billers, NEW to, pc' = [pc EXCEPT ![s] = to]
      PROVE  \A q \in Billers : pc'[q] = pc[q]
  BY <1>0 DEF Typed, TypeOK, Processes, Requesters
<1>1. ASSUME NEW c \in Clients, ClientNext(c)
      PROVE  /\ lines' = lines /\ lock' = lock /\ tx' = tx /\ timesheet' = timesheet
             /\ \A q \in Billers : pc'[q] = pc[q]
  <2>1. c \in Processes \ Billers
    BY WeeklyAssumption DEF Processes, Requesters
  <2>2. /\ lines' = lines /\ lock' = lock /\ tx' = tx /\ timesheet' = timesheet
        /\ \/ pc' = [pc EXCEPT ![c] = "idle"]
           \/ pc' = [pc EXCEPT ![c] = "loaded"]
           \/ pc' = [pc EXCEPT ![c] = "diffed"]
    BY <1>1 DEF ClientNext, ApproveWeek, DisputeShifts, LoadRequest, DiffRequest, SaveResponse,
                Abandon, Forget
  <2>3. QED
    BY <1>0, <2>1, <2>2
<1>2. ASSUME NEW r \in Resolvers, ResolverNext(r)
      PROVE  /\ lines' = lines /\ lock' = lock /\ tx' = tx /\ timesheet' = timesheet
             /\ \A q \in Billers : pc'[q] = pc[q]
  <2>1. r \in Processes \ Billers
    BY WeeklyAssumption DEF Processes, Requesters
  <2>2. /\ lines' = lines /\ lock' = lock /\ tx' = tx /\ timesheet' = timesheet
        /\ \/ pc' = [pc EXCEPT ![r] = "idle"]
           \/ pc' = [pc EXCEPT ![r] = "loaded"]
           \/ pc' = [pc EXCEPT ![r] = "resolved"]
           \/ pc' = [pc EXCEPT ![r] = "diffed"]
    BY <1>2 DEF ResolverNext, LoadDispute, LoadRequest, SaveDispute, CountOpen, DiffRequest,
                SaveResolved, Abandon, Forget
  <2>3. QED
    BY <1>0, <2>1, <2>2
<1>3. ASSUME NEW e \in Editors, EditorNext(e)
      PROVE  /\ lines' = lines /\ lock' = lock /\ tx' = tx
             /\ \A q \in Billers : pc'[q] = pc[q]
             /\ \A t \in Timesheets : lock[t] # None => timesheet'[t] = timesheet[t]
  <2>1. e \in Processes \ Billers
    BY WeeklyAssumption DEF Processes, Requesters
  <2>2. /\ lines' = lines /\ lock' = lock /\ tx' = tx
        /\ \/ pc' = [pc EXCEPT ![e] = "idle"]
           \/ pc' = [pc EXCEPT ![e] = "loaded"]
           \/ pc' = [pc EXCEPT ![e] = "diffed"]
        /\ SaveRow(e) \/ timesheet' = timesheet
    BY <1>3 DEF EditorNext, UpdateApprovedTimes, UpdateAsAdmin, UpdateNote, LoadRow, DiffRow,
                SaveRow
  <2>3. ASSUME SaveRow(e), NEW t \in Timesheets, lock[t] # None
        PROVE  timesheet'[t] = timesheet[t]
    <3>1. CASE edit[e].of # t
      BY <2>3, <3>1 DEF SaveRow, Typed, TypeOK
    <3>2. CASE edit[e].of = t
      <4>1. edit[e].cols = {}
        BY <2>3, <3>2 DEF SaveRow
      <4>2. timesheet'[t] = [hours |-> timesheet[t].hours,
                             correction |-> timesheet[t].correction,
                             billed |-> timesheet[t].billed]
        BY <2>3, <3>2, <4>1 DEF SaveRow, Typed, TypeOK
      <4>3. timesheet[t] \in Row
        BY DEF Typed, TypeOK
      <4>4. QED
        BY <4>2, <4>3 DEF Row
    <3>3. QED
      BY <3>1, <3>2
  <2>4. QED
    BY <1>0, <2>1, <2>2, <2>3
<1>4. QED
  BY <1>1, <1>2, <1>3

(* A transaction touches neither the memory nor the locked timesheets of   *)
(* another.                                                                *)
LEMMA Others ==
  ASSUME Typed, Guarded, NEW p \in Billers, BillerNext(p), NEW q \in Billers \ {p}
  PROVE  /\ pc'[q] = pc[q] /\ tx'[q] = tx[q]
         /\ \A t \in Timesheets :
              lock[t] = q => lock'[t] = q /\ timesheet'[t] = timesheet[t]
<1> USE WeeklyAssumption DEF Typed, TypeOK, rows
<1>1. CASE UNCHANGED timesheet
  <2>1. ASSUME EndTransaction(p)
        PROVE  /\ pc'[q] = pc[q] /\ tx'[q] = tx[q]
               /\ \A t \in Timesheets : lock[t] = q => lock'[t] = q
    BY <2>1 DEF EndTransaction
  <2>2. ASSUME NEW new, Begin(p, new)
        PROVE  pc'[q] = pc[q] /\ tx'[q] = tx[q] /\ lock' = lock
    BY <2>2 DEF Begin, Go
  <2>3. ASSUME Supersede(p)
        PROVE  pc'[q] = pc[q] /\ tx'[q] = tx[q] /\ lock' = lock
    BY <2>3 DEF Supersede, Go
  <2>4. ASSUME InsertLines(p), ~EndTransaction(p)
        PROVE  pc'[q] = pc[q] /\ tx'[q] = tx[q] /\ lock' = lock
    <3> HIDE DEF Typed, TypeOK
    <3>1. pc' = [pc EXCEPT ![p] = "inserted"] /\ tx' = tx /\ lock' = lock
      BY <2>4 DEF InsertLines
    <3>2. QED
      BY <3>1 DEF Typed, TypeOK
  <2>5. ASSUME LockRows(p)
        PROVE  /\ pc'[q] = pc[q] /\ tx'[q] = tx[q]
               /\ \A t \in Timesheets : lock[t] = q => lock'[t] = q
    <3> HIDE DEF Typed, TypeOK
    <3>1. /\ \E to : pc' = [pc EXCEPT ![p] = to]
          /\ \A t \in tx[p].rows : lock[t] = None
          /\ \/ lock' = [t \in Timesheets |-> IF t \in tx[p].rows THEN p ELSE lock[t]]
             \/ lock' = lock
      BY <2>5 DEF LockRows, Go
    <3>2. tx'[q] = tx[q]
      BY <2>5 DEF LockRows, Typed, TypeOK
    <3>3. QED
      BY <3>1, <3>2 DEF Typed, TypeOK
  <2>6. \/ \E new : Begin(p, new)
        \/ EndTransaction(p) \/ Supersede(p) \/ LockRows(p)
        \/ InsertLines(p) /\ ~EndTransaction(p)
    BY DEF BillerNext, BeginSubmit, BeginResubmit, BeginRevise, BeginInvoice, CommitSubmit,
           CommitResubmit, CommitRevise, CommitInvoice, Rollback
  <2>7. QED
    BY <1>1, <2>1, <2>2, <2>3, <2>4, <2>5, <2>6
<1>2. CASE CommitResubmit(p) \/ CommitRevise(p) \/ CommitInvoice(p)
  <2>1. EndTransaction(p) /\ Past(p)
    BY <1>2 DEF CommitResubmit, CommitRevise, CommitInvoice, Past
  <2>2. \A t \in Timesheets : t \notin tx[p].rows => timesheet'[t] = timesheet[t]
    BY <1>2 DEF CommitResubmit, CommitRevise, CommitInvoice, Guarded
  <2>3. \A t \in tx[p].rows : lock[t] = p
    BY <2>1 DEF Guarded, Holds
  <2>4. QED
    BY <2>1, <2>2, <2>3 DEF EndTransaction
<1>3. QED
  BY <1>1, <1>2 DEF BillerNext, BeginSubmit, BeginResubmit, BeginRevise, BeginInvoice, Begin,
                    LockRows, CommitSubmit, Supersede, InsertLines, Rollback

(* A transaction adds active lines only for the timesheets it has locked.  *)
LEMMA LinesOfOthers ==
  ASSUME Typed, Guarded, NEW p \in Billers, BillerNext(p)
  PROVE  \/ lines' = lines
         \/ /\ CommitSubmit(p) \/ CommitResubmit(p)
            /\ \A t \in tx[p].rows : lock[t] = p
            /\ \A l \in lines' : l.active => l \in lines \/ l \in NewLines(p)
            /\ \A t \in Timesheets : t \notin tx[p].rows => Active(t)' \subseteq Active(t)
<1> USE WeeklyAssumption DEF Typed, TypeOK, rows
<1>1. CASE CommitSubmit(p) \/ CommitResubmit(p)
  <2>1. \A t \in tx[p].rows : lock[t] = p
    BY <1>1 DEF CommitSubmit, CommitResubmit, Guarded, Holds, Past
  <2>2. \A l \in lines' : l.active => l \in lines \/ l \in NewLines(p)
    <3>1. ASSUME NEW l \in Line PROVE ~[l EXCEPT !.active = FALSE].active
      BY DEF Line
    <3>2. lines \subseteq Line
      OBVIOUS
    <3>3. \A l \in Superseded(tx[p].old \cap lines) : l.active => l \in lines
      <4>1. ASSUME NEW l \in Superseded(tx[p].old \cap lines), l.active PROVE l \in lines
        <5>1. CASE l \in lines
          BY <5>1
        <5>2. CASE \E k \in tx[p].old \cap lines : l = [k EXCEPT !.active = FALSE]
          BY <3>1, <3>2, <4>1, <5>2
        <5>3. QED
          BY <4>1, <5>1, <5>2 DEF Superseded
      <4>2. QED
        BY <4>1
    <3>4. QED
      BY <1>1, <3>3 DEF CommitSubmit, CommitResubmit
  <2>3. \A l \in NewLines(p) : l.timesheet \in tx[p].rows
    BY DEF NewLines
  <2>4. QED
    BY <1>1, <2>1, <2>2, <2>3 DEF Active
<1>2. QED
  BY <1>1 DEF BillerNext, BeginSubmit, BeginResubmit, BeginRevise, BeginInvoice, Begin,
              LockRows, Supersede, InsertLines, CommitRevise, CommitInvoice, Rollback

LEMMA GuardedOthers ==
  ASSUME Typed, Guarded, NEW p \in Billers, BillerNext(p), NEW q \in Billers \ {p}, Past(q)'
  PROVE  (Holds(q) /\ Free(q))'
<1>1. /\ pc'[q] = pc[q] /\ tx'[q] = tx[q]
      /\ \A t \in Timesheets : lock[t] = q => lock'[t] = q
  BY Others
<1>2. Holds(q) /\ Free(q)
  BY <1>1 DEF Guarded, Past
<1>3. tx[q].rows \subseteq Timesheets
  BY DEF Typed, TypeOK, Tx
<1>4. Holds(q)'
  BY <1>1, <1>2, <1>3 DEF Holds
<1>5. \A t \in tx[q].rows : Active(t)' \subseteq Active(t)
  BY <1>2, <1>3, LinesOfOthers DEF Holds, Active
<1>6. Free(q)'
  BY <1>1, <1>2, <1>5 DEF Free
<1>7. QED
  BY <1>4, <1>6

LEMMA GuardedSelf ==
  ASSUME Typed, Guarded, NEW p \in Billers, BillerNext(p)
  PROVE  /\ Past(p)' => (Holds(p) /\ Free(p))'
         /\ tx'[p].corrected \subseteq tx'[p].rows
<1> USE WeeklyAssumption DEF Typed, TypeOK, rows, Go
<1> p \in Processes /\ tx[p].rows \subseteq Timesheets /\ tx[p].corrected \subseteq tx[p].rows
  BY DEF Processes, Requesters, Tx, Guarded
<1>1. ASSUME EndTransaction(p) PROVE ~Past(p)' /\ tx'[p].corrected \subseteq tx'[p].rows
  BY <1>1 DEF EndTransaction, Past, NoTx
<1>2. ASSUME NEW new, Begin(p, new), new.corrected = {}
      PROVE  ~Past(p)' /\ tx'[p].corrected \subseteq tx'[p].rows
  BY <1>2 DEF Begin, Past
<1>3. ASSUME LockRows(p)
      PROVE  /\ Past(p)' => (Holds(p) /\ Free(p))'
             /\ tx'[p].corrected \subseteq tx'[p].rows
  <2>1. CASE Accepts(p)
    <3>1. /\ tx'[p].kind = tx[p].kind /\ tx'[p].rows = tx[p].rows /\ tx'[p].week = tx[p].week
          /\ pc'[p] = "checked" /\ lines' = lines
          /\ tx'[p].corrected \subseteq tx[p].rows
          /\ \A t \in tx[p].rows : lock'[t] = p
      BY <1>3, <2>1 DEF LockRows, Tx
    <3>2. \A t \in tx[p].rows :
            /\ tx[p].kind = "submit" => Active(t) = {}
            /\ tx[p].kind = "resubmit" => \A l \in Active(t) : l.week = tx[p].week
      BY <2>1 DEF Accepts
    <3>3. QED
      BY <3>1, <3>2 DEF Holds, Free, Active
  <2>2. CASE ~Accepts(p)
    BY <1>3, <2>2 DEF LockRows, Past, NoTx
  <2>3. QED
    BY <2>1, <2>2
<1>4. ASSUME Supersede(p)
      PROVE  /\ (Holds(p) /\ Free(p))'
             /\ tx'[p].corrected \subseteq tx'[p].rows
  <2>1. /\ tx'[p].kind = "resubmit" /\ tx[p].kind = "resubmit"
        /\ tx'[p].rows = tx[p].rows /\ tx'[p].week = tx[p].week
        /\ tx'[p].corrected = tx[p].corrected /\ tx'[p].old = ActiveOf(tx[p].week)
        /\ lines' = lines /\ lock' = lock
    BY <1>4 DEF Supersede, Tx
  <2>2. Holds(p) /\ Free(p)
    BY <1>4 DEF Supersede, Guarded, Past
  <2>3. \A t \in tx[p].rows : Active(t) \subseteq ActiveOf(tx[p].week)
    BY <2>1, <2>2 DEF Free, Active, ActiveOf
  <2>4. QED
    BY <2>1, <2>2, <2>3 DEF Holds, Free, Active
<1>5. ASSUME InsertLines(p)
      PROVE  /\ Past(p)' => (Holds(p) /\ Free(p))'
             /\ tx'[p].corrected \subseteq tx'[p].rows
  <2>1. CASE EndTransaction(p)
    BY <1>1, <2>1
  <2>2. CASE ~EndTransaction(p)
    <3>1. /\ tx' = tx /\ lines' = lines /\ lock' = lock
          /\ pc[p] = "superseding"
      BY <1>5, <2>2 DEF InsertLines
    <3>2. Holds(p) /\ Free(p)
      BY <3>1 DEF Guarded, Past
    <3>3. QED
      BY <3>1, <3>2 DEF Holds, Free, Active
  <2>3. QED
    BY <2>1, <2>2
<1>6. ASSUME CommitSubmit(p) \/ CommitResubmit(p) \/ CommitRevise(p) \/ CommitInvoice(p)
               \/ Rollback(p)
      PROVE  EndTransaction(p)
  BY <1>6 DEF CommitSubmit, CommitResubmit, CommitRevise, CommitInvoice, Rollback
<1>7. ASSUME \/ \E w \in Weeks, ts \in Selections : BeginSubmit(p, w, ts) \/ BeginResubmit(p, w, ts)
             \/ \E w \in Weeks, t \in Timesheets, h \in Hours : BeginRevise(p, w, t, h)
             \/ \E ts \in Selections : BeginInvoice(p, ts)
      PROVE  ~Past(p)' /\ tx'[p].corrected \subseteq tx'[p].rows
  <2>1. CASE \E w \in Weeks, ts \in Selections : BeginSubmit(p, w, ts)
    BY <1>2, <2>1 DEF BeginSubmit, NoTx
  <2>2. CASE \E w \in Weeks, ts \in Selections : BeginResubmit(p, w, ts)
    BY <1>2, <2>2 DEF BeginResubmit, NoTx
  <2>3. CASE \E w \in Weeks, t \in Timesheets, h \in Hours : BeginRevise(p, w, t, h)
    BY <1>2, <2>3 DEF BeginRevise, NoTx
  <2>4. CASE \E ts \in Selections : BeginInvoice(p, ts)
    BY <1>2, <2>4 DEF BeginInvoice, NoTx
  <2>5. QED
    BY <1>7, <2>1, <2>2, <2>3, <2>4
<1>8. QED
  BY <1>1, <1>3, <1>4, <1>5, <1>6, <1>7 DEF BillerNext

LEMMA GuardedInductive == Typed /\ Guarded /\ [Next]_vars => Guarded'
<1> SUFFICES ASSUME Typed, Guarded, [Next]_vars PROVE Guarded'
  OBVIOUS
<1>1. ASSUME NEW p \in Billers, BillerNext(p) PROVE Guarded'
  <2>1. \A q \in Billers \ {p} : tx'[q] = tx[q]
    BY <1>1, Others
  <2>2. QED
    BY <1>1, <2>1, GuardedOthers, GuardedSelf DEF Guarded
<1>2. ASSUME lines' = lines, lock' = lock, tx' = tx, \A q \in Billers : pc'[q] = pc[q]
      PROVE  Guarded'
  BY <1>2 DEF Guarded, Holds, Free, Past, Active
<1>3. CASE UNCHANGED vars
  BY <1>2, <1>3 DEF vars
<1>4. QED
  BY <1>1, <1>2, <1>3, Strangers DEF Next

LEMMA UniqueInductive == Inv /\ [Next]_vars => LinesUnique'
<1> SUFFICES ASSUME Inv, [Next]_vars PROVE LinesUnique'
  OBVIOUS
<1> USE DEF Inv
<1>1. CASE lines' = lines
  BY <1>1 DEF LinesUnique
<1>2. ASSUME NEW p \in Billers, BillerNext(p), lines' # lines PROVE LinesUnique'
  <2>1. /\ CommitSubmit(p) \/ CommitResubmit(p)
        /\ \A l \in lines' : l.active => l \in lines \/ l \in NewLines(p)
    BY <1>2, LinesOfOthers
  <2>2. ASSUME NEW k \in NewLines(p), NEW l \in NewLines(p), k.timesheet = l.timesheet
        PROVE  k = l
    <3>1. PICK t \in tx[p].rows :
            k = [week |-> tx[p].week, timesheet |-> t, version |-> tx[p].version,
                 hours |-> tx[p].bill[t], active |-> TRUE]
      BY DEF NewLines
    <3>2. PICK u \in tx[p].rows :
            l = [week |-> tx[p].week, timesheet |-> u, version |-> tx[p].version,
                 hours |-> tx[p].bill[u], active |-> TRUE]
      BY DEF NewLines
    <3>3. QED
      BY <2>2, <3>1, <3>2
  <2>3. ASSUME NEW k \in NewLines(p), NEW l \in lines', l.active, l \in lines,
               k.timesheet = l.timesheet, l \notin NewLines(p)
        PROVE  FALSE
    <3>1. k.timesheet \in tx[p].rows /\ l \in Active(k.timesheet)
      BY <2>3 DEF NewLines, Active
    <3>2. CASE CommitSubmit(p)
      BY <3>1, <3>2 DEF CommitSubmit, Guarded, Past, Free
    <3>3. CASE CommitResubmit(p)
      <4>1. l \in tx[p].old
        BY <3>1, <3>3 DEF CommitResubmit, Guarded, Past, Free
      <4>2. \A d \in lines : ~[d EXCEPT !.active = FALSE].active
        BY DEF Typed, TypeOK, Line
      <4>3. QED
        BY <2>3, <3>3, <4>1, <4>2 DEF CommitResubmit, Superseded
    <3>4. QED
      BY <2>1, <3>2, <3>3
  <2>4. QED
    BY <2>1, <2>2, <2>3 DEF LinesUnique
<1>3. QED
  BY <1>1, <1>2, Strangers DEF Next, vars

LEMMA InvInit == Init => Inv
<1> SUFFICES ASSUME Init PROVE Inv
  OBVIOUS
<1>1. Guarded
  BY WeeklyAssumption DEF Init, Guarded, Past, NoTx, Processes, Requesters
<1>2. LinesUnique
  BY DEF Init, LinesUnique
<1>3. QED
  BY <1>1, <1>2, TypedInit DEF Inv

LEMMA InvInductive == Inv /\ [Next]_vars => Inv'
BY TypedInductive, GuardedInductive, UniqueInductive DEF Inv

(* Whatever the number of competing submissions, resubmissions and         *)
(* invoices, a timesheet is on at most one active line: the row locks make *)
(* UQ_active_approval_line redundant.                                      *)
THEOREM AtMostOneLine == Spec => []OneActiveLine
<1>1. Inv => OneActiveLine
  <2> SUFFICES ASSUME Inv, NEW t \in Timesheets PROVE Cardinality(Active(t)) <= 1
    BY DEF OneActiveLine
  <2>1. CASE Active(t) = {}
    BY <2>1, FS_EmptySet
  <2>2. CASE Active(t) # {}
    <3>1. PICK l \in Active(t) : TRUE
      BY <2>2
    <3>2. Active(t) = {l}
      BY <3>1 DEF Active, Inv, LinesUnique
    <3>3. QED
      BY <3>2, FS_Singleton
  <2>3. QED
    BY <2>1, <2>2
<1>2. QED
  BY <1>1, InvInit, InvInductive, PTL DEF Spec

-----------------------------------------------------------------------------
(* What a transaction has read is what it commits                          *)

(* Nobody has changed what the hours to bill were taken from.              *)
Read(p) ==
  \A t \in tx[p].rows :
    /\ tx[p].kind = "submit" => tx[p].bill[t] = timesheet[t].hours
    /\ tx[p].kind = "resubmit" =>
         tx[p].bill[t] = IF timesheet[t].correction # None THEN timesheet[t].correction
                         ELSE timesheet[t].hours
    /\ tx[p].kind = "invoice" =>
         /\ timesheet[t].hours # None /\ timesheet[t].billed = None
         /\ \E l \in lines : l.timesheet = t /\ l.hours = tx[p].bill[t]

AllRead == \A p \in Billers : Past(p) => Read(p)

LEMMA LinesPersist ==
  ASSUME Typed, [Next]_vars
  PROVE  \A l \in lines : \E k \in lines' : k.timesheet = l.timesheet /\ k.hours = l.hours
<1>1. CASE lines' = lines
  BY <1>1
<1>2. ASSUME NEW p \in Billers, CommitSubmit(p)
      PROVE  lines \subseteq lines'
  BY <1>2 DEF CommitSubmit
<1>3. ASSUME NEW p \in Billers, CommitResubmit(p), NEW l \in lines
      PROVE  \E k \in lines' : k.timesheet = l.timesheet /\ k.hours = l.hours
  <2>1. CASE l \notin tx[p].old
    BY <1>3, <2>1 DEF CommitResubmit, Superseded
  <2>2. CASE l \in tx[p].old
    <3> DEFINE k == [l EXCEPT !.active = FALSE]
    <3>1. l \in Line
      BY DEF Typed, TypeOK
    <3>2. k.timesheet = l.timesheet /\ k.hours = l.hours
      BY <3>1 DEF Line
    <3>3. k \in lines'
      BY <1>3, <2>2 DEF CommitResubmit, Superseded
    <3> HIDE DEF k
    <3>4. QED
      BY <3>2, <3>3
  <2>3. QED
    BY <2>1, <2>2
<1>4. ASSUME NEW p \in Billers, BillerNext(p), ~CommitSubmit(p), ~CommitResubmit(p)
      PROVE  lines' = lines
  BY <1>4 DEF BillerNext, BeginSubmit, BeginResubmit, BeginRevise, BeginInvoice, Begin, rows,
              LockRows, Supersede, InsertLines, CommitRevise, CommitInvoice, Rollback
<1>5. QED
  BY <1>1, <1>2, <1>3, <1>4, Strangers DEF Next, vars

LEMMA ReadKept ==
  ASSUME Typed, Guarded, AllRead, [Next]_vars, NEW q \in Billers, Past(q),
         tx'[q] = tx[q],
         \A t \in Timesheets : lock[t] = q => timesheet'[t] = timesheet[t]
  PROVE  Read(q)'
<1>1. tx[q].rows \subseteq Timesheets
  BY DEF Typed, TypeOK, Tx
<1>2. \A t \in tx[q].rows : timesheet'[t] = timesheet[t]
  BY <1>1 DEF Guarded, Holds
<1>3. Read(q)
  BY DEF AllRead
<1>4. QED
  BY <1>2, <1>3, LinesPersist DEF Read

LEMMA ReadLocked ==
  ASSUME Typed, NEW p \in Billers, LockRows(p), Accepts(p)
  PROVE  Read(p)'
<1>1. /\ tx'[p].kind = tx[p].kind /\ tx'[p].rows = tx[p].rows
      /\ \A t \in tx[p].rows : tx'[p].bill[t] = BillOf(p, t)
      /\ tx[p].rows \subseteq Timesheets
  BY DEF LockRows, Typed, TypeOK, Tx
<1>2. lines' = lines /\ timesheet' = timesheet
  BY DEF LockRows, rows
<1>3. ASSUME NEW t \in tx[p].rows, tx[p].kind = "invoice"
      PROVE  /\ timesheet[t].hours # None /\ timesheet[t].billed = None
             /\ \E l \in lines : l.timesheet = t /\ l.hours = BillOf(p, t)
  <2>1. /\ timesheet[t].hours # None /\ timesheet[t].billed = None
        /\ ClientApproved(t) # {}
    BY <1>3 DEF Accepts
  <2>2. (CHOOSE l \in ClientApproved(t) : TRUE) \in ClientApproved(t)
    BY <2>1
  <2>3. ClientApproved(t) \subseteq {l \in lines : l.timesheet = t}
    BY DEF ClientApproved, Active
  <2>4. BillOf(p, t) = (CHOOSE l \in ClientApproved(t) : TRUE).hours
    BY <1>3 DEF BillOf
  <2>5. QED
    BY <2>1, <2>2, <2>3, <2>4
<1>4. ASSUME NEW t \in tx[p].rows
      PROVE  /\ tx[p].kind = "submit" => BillOf(p, t) = timesheet[t].hours
             /\ tx[p].kind = "resubmit" =>
                  BillOf(p, t) = IF timesheet[t].correction # None
                                 THEN timesheet[t].correction ELSE timesheet[t].hours
  BY DEF BillOf
<1>5. QED
  BY <1>1, <1>2, <1>3, <1>4 DEF Read

LEMMA ReadInductive == Typed /\ Guarded /\ AllRead /\ [Next]_vars => AllRead'
<1> SUFFICES ASSUME Typed, Guarded, AllRead, [Next]_vars PROVE AllRead'
  OBVIOUS
<1>1. ASSUME NEW p \in Billers, BillerNext(p), NEW q \in Billers \ {p}, Past(q)'
      PROVE  Read(q)'
  BY <1>1, Others, ReadKept DEF Past
<1>2. ASSUME NEW p \in Billers, BillerNext(p), Past(p)' PROVE Read(p)'
  <2> USE DEF Typed, TypeOK, Past, Go, rows
  <2>0. p \in Processes
    BY DEF Processes, Requesters
  <2>1. CASE LockRows(p)
    <3>1. CASE Accepts(p)
      BY <2>1, <3>1, ReadLocked
    <3>2. CASE ~Accepts(p)
      BY <1>2, <2>0, <2>1, <3>2 DEF LockRows
    <3>3. QED
      BY <3>1, <3>2
  <2>2. CASE Supersede(p)
    <3>1. /\ tx'[p].kind = tx[p].kind /\ tx'[p].rows = tx[p].rows /\ tx'[p].bill = tx[p].bill
          /\ timesheet' = timesheet /\ lines' = lines
      BY <2>2 DEF Supersede, Tx
    <3>2. Read(p)
      BY <2>2 DEF Supersede, AllRead
    <3>3. QED
      BY <3>1, <3>2 DEF Read
  <2>3. CASE InsertLines(p) /\ ~EndTransaction(p)
    <3>1. tx' = tx /\ timesheet' = timesheet /\ Past(p)
      BY <2>3 DEF InsertLines
    <3>2. QED
      BY <3>1, ReadKept
  <2>4. CASE EndTransaction(p)
    BY <1>2, <2>0, <2>4 DEF EndTransaction
  <2>5. CASE \E new : Begin(p, new)
    BY <1>2, <2>0, <2>5 DEF Begin
  <2>6. \/ \E new : Begin(p, new)
        \/ EndTransaction(p) \/ Supersede(p) \/ LockRows(p)
        \/ InsertLines(p) /\ ~EndTransaction(p)
    <3> HIDE DEF Typed, TypeOK
    <3>1. QED
      BY <1>2 DEF BillerNext, BeginSubmit, BeginResubmit, BeginRevise, BeginInvoice,
                  CommitSubmit, CommitResubmit, CommitRevise, CommitInvoice, Rollback
  <2>7. QED
    BY <2>1, <2>2, <2>3, <2>4, <2>5, <2>6
<1>3. ASSUME lines' = lines, lock' = lock, tx' = tx, \A q \in Billers : pc'[q] = pc[q],
             \A t \in Timesheets : lock[t] # None => timesheet'[t] = timesheet[t]
      PROVE  AllRead'
  <2> SUFFICES ASSUME NEW q \in Billers, Past(q)' PROVE Read(q)'
    BY DEF AllRead
  <2>1. Past(q) /\ q # None
    BY <1>3, WeeklyAssumption DEF Past
  <2>2. QED
    BY <1>3, <2>1, ReadKept
<1>4. CASE UNCHANGED vars
  BY <1>3, <1>4 DEF vars
<1>5. QED
  BY <1>1, <1>2, <1>3, <1>4, Strangers DEF Next, AllRead

LEMMA ReadInit == Init => AllRead
BY WeeklyAssumption DEF Init, AllRead, Past, Processes, Requesters

(* However requests interleave, a timesheet is invoiced while it is        *)
(* approved and not yet invoiced, and for the hours of a submitted line.   *)
THEOREM InvoicedFromLine == Spec => InvoicedOnce
<1>1. Inv /\ AllRead /\ [Next]_vars =>
        (\A p \in Billers :
           pc[p] = "checked" /\ tx[p].kind = "invoice" /\ timesheet' # timesheet
             /\ pc'[p] = "idle"
           => \A t \in tx[p].rows :
                /\ timesheet[t].hours # None /\ timesheet[t].billed = None
                /\ \E l \in lines : l.timesheet = t /\ l.hours = timesheet'[t].billed)
  <2> SUFFICES ASSUME Inv, AllRead, [Next]_vars, NEW p \in Billers,
                      pc[p] = "checked", tx[p].kind = "invoice", timesheet' # timesheet,
                      pc'[p] = "idle", NEW t \in tx[p].rows
               PROVE  /\ timesheet[t].hours # None /\ timesheet[t].billed = None
                      /\ \E l \in lines : l.timesheet = t /\ l.hours = timesheet'[t].billed
    OBVIOUS
  <2> USE DEF Inv
  <2>1. BillerNext(p)
    BY Strangers, Others DEF Next, vars
  <2>2. CommitInvoice(p)
    BY <2>1 DEF BillerNext, BeginSubmit, BeginResubmit, BeginRevise, BeginInvoice, Begin, Go,
                rows, LockRows, CommitSubmit, Supersede, InsertLines, CommitResubmit,
                CommitRevise, Rollback
  <2>3. Read(p)
    BY DEF AllRead, Past
  <2>4. t \in Timesheets /\ timesheet[t] \in Row
    BY DEF Typed, TypeOK, Tx
  <2>5. timesheet'[t].billed = tx[p].bill[t]
    BY <2>2, <2>4 DEF CommitInvoice, Row
  <2>6. QED
    BY <2>3, <2>5 DEF Read
<1>2. QED
  BY <1>1, InvInit, InvInductive, ReadInit, ReadInductive, PTL DEF Spec, InvoicedOnce, Inv

-----------------------------------------------------------------------------
(* New lines bill what the timesheet says                                  *)

(* A week that was ever submitted has a version, and keeps one: a save()   *)
(* writes a version that the week had, or leaves the version alone.        *)
Entities(p) ==
  pc[p] \in {"loaded", "resolved", "diffed", "inserted"} =>
    /\ entity[p].version > 0
    /\ pc[p] \in {"diffed", "inserted"} =>
         \A w \in Weeks : entity[p].week = w =>
           "version" \in entity[p].cols \/ request[w].version > 0

Versioned ==
  /\ \A w \in Weeks : request[w].status # "none" => request[w].version > 0
  /\ \A p \in Requesters : Entities(p)
  /\ \A p \in Billers : /\ tx[p].kind = "submit" => tx[p].version = 1
                        /\ tx[p].kind = "resubmit" =>
                             tx[p].version > 1 /\ request[tx[p].week].version > 0
  /\ \A l \in lines : request[l.week].version > 0

(* The corrections a transaction will clear are those it read.             *)
Clears ==
  \A p \in Billers : Past(p) =>
    \A t \in tx[p].rows : t \in tx[p].corrected <=> timesheet[t].correction # None

(* No step takes a week's version away.                                    *)
Grows ==
  \A w \in Weeks :
    /\ request[w].version > 0 => request'[w].version > 0
    /\ request'[w].status # "none" => request'[w].version > 0

LEMMA SavedGrows ==
  ASSUME Typed, Versioned, NEW p \in Requesters, pc[p] \in {"diffed", "inserted"},
         request' = SavedRequest(p)
  PROVE  Grows
<1> SUFFICES ASSUME NEW w \in Weeks
             PROVE  /\ request[w].version > 0 => request'[w].version > 0
                    /\ request'[w].status # "none" => request'[w].version > 0
  BY DEF Grows
<1>1. CASE entity[p].week # w
  BY <1>1 DEF SavedRequest, Versioned, Typed, TypeOK
<1>2. CASE entity[p].week = w
  <2>1. /\ entity[p].version > 0
        /\ "version" \in entity[p].cols \/ request[w].version > 0
    BY <1>2 DEF Versioned, Entities
  <2>2. request'[w].version = IF "version" \in entity[p].cols THEN entity[p].version
                              ELSE request[w].version
    BY <1>2 DEF SavedRequest, Typed, TypeOK
  <2>3. QED
    BY <2>1, <2>2
<1>3. QED
  BY <1>1, <1>2

LEMMA RequestsGrow == Typed /\ Versioned /\ [Next]_vars => Grows
<1> SUFFICES ASSUME Typed, Versioned, [Next]_vars PROVE Grows
  OBVIOUS
<1>1. CASE request' = request
  BY <1>1 DEF Versioned, Grows
<1>2. ASSUME NEW p \in Requesters, pc[p] \in {"diffed", "inserted"}, request' = SavedRequest(p)
      PROVE  Grows
  BY <1>2, SavedGrows
<1>3. ASSUME NEW p \in Billers, CommitSubmit(p) PROVE Grows
  <2>1. CASE request[tx[p].week].status = "none"
    <3>1. request' = [request EXCEPT ![tx[p].week] = [status |-> "pending", version |-> 1]]
      BY <1>3, <2>1 DEF CommitSubmit
    <3>2. QED
      BY <3>1 DEF Grows, Versioned, Typed, TypeOK
  <2>2. CASE request[tx[p].week].status # "none"
    BY <1>1, <1>3, <2>2 DEF CommitSubmit
  <2>3. QED
    BY <2>1, <2>2
<1>4. ASSUME NEW p \in Billers, CommitInvoice(p) PROVE Grows
  <2> SUFFICES ASSUME NEW w \in Weeks
               PROVE  /\ request[w].version > 0 => request'[w].version > 0
                      /\ request'[w].status # "none" => request'[w].version > 0
    BY DEF Grows
  <2>1. \/ request'[w] = request[w]
        \/ /\ request'[w] = [request[w] EXCEPT !.status = "locked"]
           /\ ActiveOf(w) # {}
    BY <1>4 DEF CommitInvoice
  <2>2. CASE request'[w] = request[w]
    BY <2>2 DEF Versioned
  <2>3. CASE request'[w] = [request[w] EXCEPT !.status = "locked"] /\ ActiveOf(w) # {}
    <3>1. request'[w].version = request[w].version
      BY <2>3 DEF Typed, TypeOK, RequestRow
    <3>2. request[w].version > 0
      BY <2>3 DEF ActiveOf, Versioned
    <3>3. QED
      BY <3>1, <3>2
  <2>4. QED
    BY <2>1, <2>2, <2>3
<1>5. ASSUME NEW p \in Billers, BillerNext(p), request' # request
      PROVE  \/ CommitSubmit(p) \/ CommitInvoice(p)
             \/ pc[p] = "inserted" /\ request' = SavedRequest(p)
  BY <1>5 DEF BillerNext, BeginSubmit, BeginResubmit, BeginRevise, BeginInvoice, Begin, rows,
              LockRows, Supersede, InsertLines, CommitResubmit, CommitRevise, Rollback
<1>6. ASSUME NEW c \in Clients, ClientNext(c), request' # request
      PROVE  pc[c] = "diffed" /\ request' = SavedRequest(c)
  BY <1>6 DEF ClientNext, ApproveWeek, DisputeShifts, LoadRequest, DiffRequest, SaveResponse,
              Abandon, rows
<1>7. ASSUME NEW r \in Resolvers, ResolverNext(r), request' # request
      PROVE  pc[r] = "diffed" /\ request' = SavedRequest(r)
  BY <1>7 DEF ResolverNext, LoadDispute, LoadRequest, SaveDispute, CountOpen, DiffRequest,
              SaveResolved, Abandon, rows
<1>8. ASSUME NEW e \in Editors, EditorNext(e) PROVE request' = request
  BY <1>8 DEF EditorNext, UpdateApprovedTimes, UpdateAsAdmin, UpdateNote, LoadRow, DiffRow,
              SaveRow, rows
<1>9. QED
  BY <1>1, <1>2, <1>3, <1>4, <1>5, <1>6, <1>7, <1>8 DEF Next, vars, Requesters

LEMMA VersionedLines ==
  ASSUME Typed, Guarded, Versioned, [Next]_vars, Grows
  PROVE  \A l \in lines' : request'[l.week].version > 0
<1>1. \A l \in lines : l.week \in Weeks /\ request'[l.week].version > 0
  BY DEF Versioned, Grows, Typed, TypeOK, Line
<1>2. ASSUME NEW p \in Billers, CommitSubmit(p), NEW l \in lines'
      PROVE  request'[l.week].version > 0
  <2>1. CASE l \in lines
    BY <1>1, <2>1
  <2>2. CASE l \notin lines
    <3>1. l \in NewLines(p) /\ request[tx[p].week].status = "none"
      BY <1>2, <2>2 DEF CommitSubmit
    <3>2. l.week = tx[p].week
      BY <3>1 DEF NewLines
    <3>3. tx[p].week \in Weeks
      BY <1>2 DEF CommitSubmit, Typed, TxTyped, Submits
    <3>4. request' = [request EXCEPT ![tx[p].week] = [status |-> "pending", version |-> 1]]
      BY <1>2, <3>1 DEF CommitSubmit
    <3>5. QED
      BY <3>2, <3>3, <3>4 DEF Typed, TypeOK
  <2>3. QED
    BY <2>1, <2>2
<1>3. ASSUME NEW p \in Billers, CommitResubmit(p), NEW l \in lines'
      PROVE  request'[l.week].version > 0
  <2>1. CASE l \in NewLines(p)
    <3>1. l.week = tx[p].week
      BY <2>1 DEF NewLines
    <3>2. tx[p].kind = "resubmit" /\ tx[p].week \in Weeks
      BY <1>3 DEF CommitResubmit, Typed, TxTyped, Submits
    <3>3. QED
      BY <3>1, <3>2 DEF Versioned, Grows
  <2>2. CASE \E k \in lines : l = [k EXCEPT !.active = FALSE]
    BY <1>1, <2>2 DEF Typed, TypeOK, Line
  <2>3. CASE l \in lines
    BY <1>1, <2>3
  <2>4. QED
    BY <1>3, <2>1, <2>2, <2>3 DEF CommitResubmit, Superseded
<1>4. CASE lines' = lines
  BY <1>1, <1>4
<1>5. QED
  BY <1>2, <1>3, <1>4, LinesOfOthers, Strangers DEF Next, vars

LEMMA VersionedTx ==
  ASSUME Typed, Guarded, Versioned, Grows, [Next]_vars, NEW q \in Billers
  PROVE  /\ tx'[q].kind = "submit" => tx'[q].version = 1
         /\ tx'[q].kind = "resubmit" => tx'[q].version > 1 /\ request'[tx'[q].week].version > 0
<1>1. CASE /\ tx'[q].kind = tx[q].kind /\ tx'[q].version = tx[q].version
           /\ tx'[q].week = tx[q].week
  <2>1. tx[q].kind = "resubmit" => tx[q].week \in Weeks
    BY DEF Typed, TxTyped, Submits
  <2>2. QED
    BY <1>1, <2>1 DEF Versioned, Grows
<1>2. CASE tx'[q].kind \notin {"submit", "resubmit"}
  BY <1>2
<1>3. tx \in [Billers -> Tx]
  BY DEF Typed, TypeOK
<1>4. CASE BillerNext(q)
  <2>1. ASSUME NEW w \in Weeks, NEW ts \in Selections, BeginSubmit(q, w, ts)
        PROVE  tx'[q].kind = "submit" /\ tx'[q].version = 1
    BY <1>3, <2>1 DEF BeginSubmit, Begin, NoTx
  <2>2. ASSUME NEW w \in Weeks, NEW ts \in Selections, BeginResubmit(q, w, ts)
        PROVE  /\ tx'[q].kind = "resubmit" /\ tx'[q].version > 1
               /\ request'[tx'[q].week].version > 0
    <3>1. request[w].version > 0 /\ request[w].version \in Nat /\ request' = request
      BY <2>2 DEF BeginResubmit, Begin, rows, Versioned, Typed, TypeOK, RequestRow, Versions
    <3>2. /\ tx'[q].kind = "resubmit" /\ tx'[q].week = w
          /\ tx'[q].version = request[w].version + 1
      BY <1>3, <2>2 DEF BeginResubmit, Begin, NoTx
    <3>3. QED
      BY <3>1, <3>2
  <2>3. ASSUME NEW w \in Weeks, NEW t \in Timesheets, NEW h \in Hours, BeginRevise(q, w, t, h)
        PROVE  tx'[q].kind = "revise"
    BY <1>3, <2>3 DEF BeginRevise, Begin, NoTx
  <2>4. ASSUME NEW ts \in Selections, BeginInvoice(q, ts) PROVE tx'[q].kind = "invoice"
    BY <1>3, <2>4 DEF BeginInvoice, Begin, NoTx
  <2>5. ASSUME EndTransaction(q) PROVE tx'[q].kind = "none"
    BY <1>3, <2>5 DEF EndTransaction, NoTx
  <2>6. CASE LockRows(q)
    <3>1. CASE Accepts(q)
      BY <1>1, <1>3, <2>6, <3>1 DEF LockRows, Tx
    <3>2. CASE ~Accepts(q)
      BY <1>3, <2>6, <3>2 DEF LockRows, NoTx
    <3>3. QED
      BY <3>1, <3>2
  <2>7. CASE Supersede(q)
    BY <1>1, <1>3, <2>7 DEF Supersede, Tx
  <2>8. CASE InsertLines(q)
    BY <1>1, <2>5, <2>8 DEF InsertLines
  <2>9. ASSUME CommitSubmit(q) \/ CommitResubmit(q) \/ CommitRevise(q) \/ CommitInvoice(q)
                 \/ Rollback(q)
        PROVE  EndTransaction(q)
    BY <2>9 DEF CommitSubmit, CommitResubmit, CommitRevise, CommitInvoice, Rollback
  <2>10. QED
    BY <1>2, <1>4, <2>1, <2>2, <2>3, <2>4, <2>5, <2>6, <2>7, <2>8, <2>9 DEF BillerNext
<1>5. QED
  BY <1>1, <1>4, Others, Strangers DEF Next, vars

LEMMA EntityKept ==
  ASSUME Versioned, Grows, NEW q \in Requesters, pc'[q] = pc[q], entity'[q] = entity[q]
  PROVE  Entities(q)'
BY DEF Entities, Versioned, Grows

LEMMA EntityIdle ==
  ASSUME NEW q \in Requesters, pc'[q] \in {"idle", "begun", "checked", "superseding"}
  PROVE  Entities(q)'
BY DEF Entities

(* The request that is loaded has a version, which its copy carries.       *)
LEMMA EntityLoaded ==
  ASSUME Typed, Versioned, Grows, NEW p \in Requesters, NEW w \in Weeks, NEW status, NEW thing,
         LoadRequest(p, w, status, thing), request[w].status # "none", NEW q \in Requesters
  PROVE  Entities(q)'
<1>1. p \in Processes
  BY DEF Processes
<1>2. pc' = [pc EXCEPT ![p] = "loaded"]
      /\ entity' = [entity EXCEPT ![p] =
           [week |-> w, status |-> status, version |-> request[w].version, cols |-> {}]]
  BY DEF LoadRequest, Go
<1>3. CASE q = p
  <2>1. request[w].version > 0
    BY DEF Versioned
  <2>2. pc'[p] = "loaded" /\ entity'[p].version = request[w].version
    BY <1>1, <1>2 DEF Typed, TypeOK
  <2>3. QED
    BY <1>3, <2>1, <2>2 DEF Entities
<1>4. CASE q # p
  <2>1. pc'[q] = pc[q] /\ entity'[q] = entity[q]
    BY <1>2, <1>4 DEF Typed, TypeOK
  <2>2. QED
    BY <2>1, EntityKept
<1>5. QED
  BY <1>3, <1>4

(* A save() that finds the version unchanged finds one.                    *)
LEMMA EntityDiffed ==
  ASSUME Typed, Versioned, Grows, NEW p \in Requesters, NEW from \in {"loaded", "resolved"},
         DiffRequest(p, from), NEW q \in Requesters
  PROVE  Entities(q)'
<1> DEFINE cs == DiffOf(entity[p].week, entity[p].status, entity[p].version)
<1>1. p \in Processes
  BY DEF Processes
<1>2. /\ pc' = [pc EXCEPT ![p] = "diffed"] /\ request' = request
      /\ entity' = [entity EXCEPT ![p].cols = cs]
      /\ pc[p] \in {"loaded", "resolved"}
  BY DEF DiffRequest, Go, rows
<1>3. entity[p].version > 0
  BY <1>2 DEF Versioned, Entities
<1>4. \A w \in Weeks : entity[p].week = w => "version" \in cs \/ request[w].version > 0
  BY <1>3 DEF DiffOf
<1> HIDE DEF cs
<1>5. CASE q = p
  <2>1. /\ entity'[p].version = entity[p].version /\ entity'[p].week = entity[p].week
        /\ entity'[p].cols = cs
    BY <1>2 DEF Typed, TypeOK, Entity
  <2>2. pc'[p] = "diffed"
    BY <1>1, <1>2 DEF Typed, TypeOK
  <2>3. QED
    BY <1>2, <1>3, <1>4, <1>5, <2>1, <2>2 DEF Entities
<1>6. CASE q # p
  <2>1. pc'[q] = pc[q] /\ entity'[q] = entity[q]
    BY <1>2, <1>6 DEF Typed, TypeOK
  <2>2. QED
    BY <2>1, EntityKept
<1>7. QED
  BY <1>5, <1>6

LEMMA EntityForgotten ==
  ASSUME Typed, Versioned, Grows, NEW p \in Requesters, Forget(p) \/ EndTransaction(p),
         NEW q \in Requesters
  PROVE  Entities(q)'
<1>1. p \in Processes
  BY DEF Processes
<1>2. pc' = [pc EXCEPT ![p] = "idle"] /\ entity' = [entity EXCEPT ![p] = NoEntity]
  BY DEF Forget, EndTransaction
<1>3. CASE q = p
  <2>1. pc'[q] = "idle"
    BY <1>1, <1>2, <1>3 DEF Typed, TypeOK
  <2>2. QED
    BY <2>1, EntityIdle
<1>4. CASE q # p
  <2>1. pc'[q] = pc[q] /\ entity'[q] = entity[q]
    BY <1>2, <1>4 DEF Typed, TypeOK
  <2>2. QED
    BY <2>1, EntityKept
<1>5. QED
  BY <1>3, <1>4

LEMMA EntitiesClient ==
  ASSUME Typed, Versioned, Grows, NEW c \in Clients, ClientNext(c), NEW q \in Requesters
  PROVE  Entities(q)'
<1>1. c \in Requesters
  BY DEF Requesters
<1>2. ASSUME NEW w \in Weeks, ApproveWeek(c, w) PROVE Entities(q)'
  <2>1. LoadRequest(c, w, "client_approved", {}) /\ request[w].status # "none"
    BY <1>2 DEF ApproveWeek
  <2>2. QED
    BY <1>1, <2>1, EntityLoaded
<1>3. ASSUME NEW w \in Weeks, NEW ts \in Selections, DisputeShifts(c, w, ts) PROVE Entities(q)'
  <2>1. LoadRequest(c, w, "disputed", ts) /\ request[w].status # "none"
    BY <1>3 DEF DisputeShifts
  <2>2. QED
    BY <1>1, <2>1, EntityLoaded
<1>4. CASE DiffRequest(c, "loaded")
  BY <1>1, <1>4, EntityDiffed
<1>5. CASE Forget(c)
  BY <1>1, <1>5, EntityForgotten
<1>6. QED
  BY <1>2, <1>3, <1>4, <1>5 DEF ClientNext, SaveResponse, Abandon

LEMMA EntitiesResolver ==
  ASSUME Typed, Versioned, Grows, NEW r \in Resolvers, ResolverNext(r), NEW q \in Requesters
  PROVE  Entities(q)'
<1>1. r \in Requesters
  BY DEF Requesters
<1>2. ASSUME NEW d \in disputes, LoadDispute(r, d) PROVE Entities(q)'
  <2>1. d.week \in Weeks
    BY DEF Typed, TypeOK, Dispute
  <2>2. LoadRequest(r, d.week, "resolved", {d}) /\ request[d.week].status # "none"
    BY <1>2 DEF LoadDispute
  <2>3. QED
    BY <1>1, <2>1, <2>2, EntityLoaded
<1>3. CASE SaveDispute(r)
  <2>1. /\ pc' = [pc EXCEPT ![r] = "resolved"] /\ pc[r] = "loaded" /\ entity' = entity
    BY <1>3 DEF SaveDispute, Go
  <2>2. r \in Processes
    BY <1>1 DEF Processes
  <2>3. CASE q = r
    BY <2>1, <2>2, <2>3 DEF Entities, Versioned, Typed, TypeOK
  <2>4. CASE q # r
    <3>1. pc'[q] = pc[q] /\ entity'[q] = entity[q]
      BY <2>1, <2>4 DEF Typed, TypeOK
    <3>2. QED
      BY <3>1, EntityKept
  <2>5. QED
    BY <2>3, <2>4
<1>4. CASE DiffRequest(r, "resolved")
  BY <1>1, <1>4, EntityDiffed
<1>5. CASE Forget(r)
  BY <1>1, <1>5, EntityForgotten
<1>6. QED
  BY <1>2, <1>3, <1>4, <1>5 DEF ResolverNext, CountOpen, SaveResolved, Abandon

LEMMA EntitiesBiller ==
  ASSUME Typed, Versioned, Grows, NEW p \in Billers, BillerNext(p), NEW q \in Requesters
  PROVE  Entities(q)'
<1>1. p \in Requesters /\ p \in Processes
  BY DEF Requesters, Processes
<1>2. ASSUME NEW to \in {"idle", "begun", "checked", "superseding"},
             pc' = [pc EXCEPT ![p] = to], entity' = entity
      PROVE  Entities(q)'
  <2>1. CASE q = p
    <3>1. pc'[q] = to
      BY <1>1, <1>2, <2>1 DEF Typed, TypeOK
    <3>2. QED
      BY <3>1, EntityIdle
  <2>2. CASE q # p
    <3>1. pc'[q] = pc[q] /\ entity'[q] = entity[q]
      BY <1>2, <2>2 DEF Typed, TypeOK
    <3>2. QED
      BY <3>1, EntityKept
  <2>3. QED
    BY <2>1, <2>2
<1>3. CASE EndTransaction(p)
  BY <1>1, <1>3, EntityForgotten
<1>4. CASE InsertLines(p) /\ ~EndTransaction(p)
  <2> DEFINE w == tx[p].week
             new == [week |-> w, status |-> "pending", version |-> tx[p].version,
                     cols |-> DiffOf(w, "pending", tx[p].version)]
  <2>1. /\ pc[p] = "superseding" /\ request' = request
        /\ pc' = [pc EXCEPT ![p] = "inserted"] /\ entity' = [entity EXCEPT ![p] = new]
    BY <1>4 DEF InsertLines, rows
  <2>2. tx[p].version > 1
    BY <2>1 DEF Versioned, Typed, TxTyped
  <2>3. new.version > 0
    BY <2>2 DEF Typed, TypeOK, Tx, Versions
  <2>4. \A u \in Weeks : new.week = u => "version" \in new.cols \/ request[u].version > 0
    BY <2>3 DEF DiffOf
  <2> HIDE DEF new
  <2>5. CASE q = p
    BY <1>1, <2>1, <2>3, <2>4, <2>5 DEF Entities, Typed, TypeOK
  <2>6. CASE q # p
    <3>1. pc'[q] = pc[q] /\ entity'[q] = entity[q]
      BY <2>1, <2>6 DEF Typed, TypeOK
    <3>2. QED
      BY <3>1, EntityKept
  <2>7. QED
    BY <2>5, <2>6
<1>5. ASSUME NEW new, Begin(p, new) PROVE Entities(q)'
  BY <1>2, <1>5 DEF Begin, Go
<1>6. CASE LockRows(p)
  <2>1. entity' = entity /\ (pc' = [pc EXCEPT ![p] = "checked"] \/ pc' = [pc EXCEPT ![p] = "idle"])
    BY <1>6 DEF LockRows, Go
  <2>2. QED
    BY <1>2, <2>1
<1>7. CASE Supersede(p)
  BY <1>2, <1>7 DEF Supersede, Go
<1>8. \/ \E new : Begin(p, new)
      \/ EndTransaction(p) \/ Supersede(p) \/ LockRows(p)
      \/ InsertLines(p) /\ ~EndTransaction(p)
  BY DEF BillerNext, BeginSubmit, BeginResubmit, BeginRevise, BeginInvoice, CommitSubmit,
         CommitResubmit, CommitRevise, CommitInvoice, Rollback
<1>9. QED
  BY <1>3, <1>4, <1>5, <1>6, <1>7, <1>8

LEMMA EntitiesEditor ==
  ASSUME Typed, Versioned, Grows, NEW e \in Editors, EditorNext(e), NEW q \in Requesters
  PROVE  Entities(q)'
<1>1. e \notin Requesters
  BY WeeklyAssumption DEF Requesters
<1>2. /\ entity' = entity
      /\ \/ pc' = [pc EXCEPT ![e] = "idle"]
         \/ pc' = [pc EXCEPT ![e] = "loaded"]
         \/ pc' = [pc EXCEPT ![e] = "diffed"]
  BY DEF EditorNext, UpdateApprovedTimes, UpdateAsAdmin, UpdateNote, LoadRow, DiffRow, SaveRow,
         Go
<1>3. pc'[q] = pc[q] /\ entity'[q] = entity[q]
  BY <1>1, <1>2 DEF Typed, TypeOK, Processes
<1>4. QED
  BY <1>3, EntityKept

LEMMA VersionedInit == Init => Versioned
<1> SUFFICES ASSUME Init PROVE Versioned
  OBVIOUS
<1>1. \A p \in Requesters : Entities(p)
  BY DEF Init, Entities, Processes
<1>2. QED
  BY <1>1 DEF Init, Versioned, NoTx

LEMMA VersionedInductive == Typed /\ Guarded /\ Versioned /\ [Next]_vars => Versioned'
<1> SUFFICES ASSUME Typed, Guarded, Versioned, [Next]_vars PROVE Versioned'
  OBVIOUS
<1>1. Grows
  BY RequestsGrow
<1>2. ASSUME NEW q \in Requesters PROVE Entities(q)'
  <2>1. CASE Next
    BY <1>1, <2>1, EntitiesBiller, EntitiesClient, EntitiesResolver, EntitiesEditor DEF Next
  <2>2. CASE UNCHANGED vars
    BY <1>1, <2>2, EntityKept DEF vars
  <2>3. QED
    BY <2>1, <2>2
<1>3. \A w \in Weeks : request'[w].status # "none" => request'[w].version > 0
  BY <1>1 DEF Grows
<1>4. QED
  BY <1>1, <1>2, <1>3, VersionedLines, VersionedTx DEF Versioned

LEMMA ClearsInductive == Typed /\ Guarded /\ Clears /\ [Next]_vars => Clears'
<1> SUFFICES ASSUME Typed, Guarded, Clears, [Next]_vars, NEW q \in Billers, Past(q)',
                    NEW t \in tx'[q].rows
             PROVE  t \in tx'[q].corrected <=> timesheet'[t].correction # None
  BY DEF Clears
<1>1. ASSUME Past(q), tx'[q].rows = tx[q].rows, tx'[q].corrected = tx[q].corrected,
             \A u \in Timesheets : lock[u] = q => timesheet'[u] = timesheet[u]
      PROVE  t \in tx'[q].corrected <=> timesheet'[t].correction # None
  <2>1. t \in Timesheets /\ lock[t] = q
    BY <1>1 DEF Guarded, Holds, Typed, TypeOK, Tx
  <2>2. QED
    BY <1>1, <2>1 DEF Clears
<1>2. CASE BillerNext(q)
  <2> USE DEF Typed, TypeOK, Past, Go, rows
  <2>0. q \in Processes
    BY DEF Processes, Requesters
  <2>1. CASE LockRows(q)
    <3>1. CASE Accepts(q)
      BY <2>1, <3>1, SMTT(30) DEF LockRows, Tx
    <3>2. CASE ~Accepts(q)
      BY <2>0, <2>1, <3>2 DEF LockRows
    <3>3. QED
      BY <3>1, <3>2
  <2>2. CASE Supersede(q)
    <3>1. /\ tx'[q].rows = tx[q].rows /\ tx'[q].corrected = tx[q].corrected
          /\ timesheet' = timesheet /\ Past(q)
      BY <2>2 DEF Supersede, Tx
    <3>2. QED
      BY <1>1, <3>1
  <2>3. CASE InsertLines(q) /\ ~EndTransaction(q)
    <3>1. tx' = tx /\ timesheet' = timesheet /\ Past(q)
      BY <2>3 DEF InsertLines
    <3>2. QED
      BY <1>1, <3>1
  <2>4. CASE EndTransaction(q)
    BY <2>0, <2>4 DEF EndTransaction
  <2>5. CASE \E new : Begin(q, new)
    BY <2>0, <2>5 DEF Begin
  <2>6. \/ \E new : Begin(q, new)
        \/ EndTransaction(q) \/ Supersede(q) \/ LockRows(q)
        \/ InsertLines(q) /\ ~EndTransaction(q)
    <3> HIDE DEF Typed, TypeOK
    <3>1. QED
      BY <1>2 DEF BillerNext, BeginSubmit, BeginResubmit, BeginRevise, BeginInvoice,
                  CommitSubmit, CommitResubmit, CommitRevise, CommitInvoice, Rollback
  <2>7. QED
    BY <2>1, <2>2, <2>3, <2>4, <2>5, <2>6
<1>3. ASSUME NEW p \in Billers \ {q}, BillerNext(p)
      PROVE  t \in tx'[q].corrected <=> timesheet'[t].correction # None
  BY <1>1, <1>3, Others DEF Past
<1>4. ASSUME tx' = tx, \A p \in Billers : pc'[p] = pc[p],
             \A u \in Timesheets : lock[u] # None => timesheet'[u] = timesheet[u]
      PROVE  t \in tx'[q].corrected <=> timesheet'[t].correction # None
  BY <1>1, <1>4, WeeklyAssumption DEF Past
<1>5. QED
  BY <1>2, <1>3, <1>4, Strangers DEF Next, vars

LEMMA ClearsInit == Init => Clears
BY WeeklyAssumption DEF Init, Clears, Past, Processes, Requesters

(* A line says what the timesheet says when the line is committed, and a   *)
(* correction is cleared only by the line that bills it.                   *)
THEOREM NewLinesAreCurrent == Spec => SnapshotIsCurrent
<1> DEFINE Current ==
      /\ \A l \in lines' : l.active /\ (\A k \in lines : [k EXCEPT !.active = TRUE] # l) =>
           LET r == timesheet[l.timesheet] IN
           l.hours = IF l.version > 1 /\ r.correction # None THEN r.correction ELSE r.hours
      /\ \A t \in Timesheets :
           /\ lines' # lines
           /\ timesheet[t].correction # None /\ timesheet'[t].correction = None
           => \E l \in lines' : l.timesheet = t /\ l.active /\ l.hours = timesheet[t].correction
<1>1. Inv /\ AllRead /\ Versioned /\ Clears /\ [Next]_vars => Current
  <2> SUFFICES ASSUME Inv, AllRead, Versioned, Clears, [Next]_vars PROVE Current
    OBVIOUS
  <2> USE DEF Inv
  <2>1. \A l \in lines : l.active => [l EXCEPT !.active = TRUE] = l
    BY DEF Typed, TypeOK, Line
  <2>2. CASE lines' = lines
    BY <2>1, <2>2
  <2>3. ASSUME NEW p \in Billers, BillerNext(p), lines' # lines PROVE Current
    <3>1. /\ CommitSubmit(p) \/ CommitResubmit(p)
          /\ \A l \in lines' : l.active => l \in lines \/ l \in NewLines(p)
      BY <2>3, LinesOfOthers
    <3>2. Read(p) /\ Past(p)
      BY <3>1 DEF CommitSubmit, CommitResubmit, AllRead, Past
    <3>3. /\ CommitSubmit(p) => tx[p].kind = "submit" /\ tx[p].version = 1
          /\ CommitResubmit(p) => tx[p].kind = "resubmit" /\ tx[p].version > 1
      BY DEF CommitSubmit, CommitResubmit, Versioned, Typed, TxTyped
    <3>4. ASSUME NEW l \in NewLines(p)
          PROVE  LET r == timesheet[l.timesheet] IN
                 l.hours = IF l.version > 1 /\ r.correction # None THEN r.correction ELSE r.hours
      <4>1. PICK t \in tx[p].rows :
              l = [week |-> tx[p].week, timesheet |-> t, version |-> tx[p].version,
                   hours |-> tx[p].bill[t], active |-> TRUE]
        BY DEF NewLines
      <4>2. l.timesheet = t /\ l.version = tx[p].version /\ l.hours = tx[p].bill[t]
        BY <4>1
      <4>3. QED
        BY <3>1, <3>2, <3>3, <4>2 DEF Read
    <3>5. ASSUME NEW t \in Timesheets,
                 timesheet[t].correction # None, timesheet'[t].correction = None
          PROVE  \E l \in lines' : l.timesheet = t /\ l.active /\ l.hours = timesheet[t].correction
      <4>1. CommitResubmit(p) /\ t \in tx[p].corrected
        BY <3>1, <3>5 DEF CommitSubmit, CommitResubmit
      <4>2. t \in tx[p].rows
        BY <4>1 DEF Guarded
      <4>3. tx[p].bill[t] = timesheet[t].correction
        BY <3>2, <3>3, <3>5, <4>1, <4>2 DEF Read
      <4> DEFINE l == [week |-> tx[p].week, timesheet |-> t, version |-> tx[p].version,
                       hours |-> tx[p].bill[t], active |-> TRUE]
      <4>4. l \in lines'
        BY <4>1, <4>2 DEF CommitResubmit, NewLines
      <4>5. l.timesheet = t /\ l.active /\ l.hours = timesheet[t].correction
        BY <4>3
      <4> HIDE DEF l
      <4>6. QED
        BY <4>4, <4>5
    <3>6. QED
      BY <2>1, <3>1, <3>4, <3>5
  <2>4. QED
    BY <2>2, <2>3, Strangers DEF Next, vars
<1>2. QED
  BY <1>1, InvInit, InvInductive, ReadInit, ReadInductive, VersionedInit, VersionedInductive,
     ClearsInit, ClearsInductive, PTL DEF Spec, SnapshotIsCurrent, Inv
==============================================================================
