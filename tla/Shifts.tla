------------------------------- MODULE Shifts --------------------------------
(***************************************************************************)
(* The rota: shift.service.ts with the clash check of availability.        *)
(* service.ts and the timesheets that follow a shift.                      *)
(*                                                                         *)
(* Planners create, edit and remove shifts; guards answer offers and book  *)
(* on and off from their phones (what booking does besides, is in Duty).   *)
(* Every request loads the shift, checks, and saves in several statements  *)
(* with no lock and no transaction.                                        *)
(* save() selects the row once more and updates the columns that differ    *)
(* from the loaded shift; it inserts a row it does not find.               *)
(*                                                                         *)
(* A time is the set of hours it covers.  Leave, availability rules and    *)
(* compliance may refuse a guard too: then the request ends unstarted.     *)
(***************************************************************************)
EXTENDS Integers, Sequences, FiniteSets

CONSTANTS
  ShiftIds,   \* shifts that may come to exist
  Guards,     \* guard ids
  Times,      \* sets of hours a shift may cover
  Planners,   \* concurrent requests of companies
  Phones,     \* concurrent requests of guards
  None        \* no guard, or no status asked for

ASSUME ShiftsAssumption ==
  /\ IsFiniteSet(ShiftIds)
  /\ \A t \in Times : t # {} /\ t \subseteq Nat
  /\ Planners \cap Phones = {}
  /\ None \notin Guards /\ None \notin ShiftIds

VARIABLES
  shift,       \* [ShiftIds -> Shift]
  sheets,      \* [ShiftIds -> the guards its timesheets name]
  pc,          \* how far each request has got
  order,       \* [request -> what it does to which shift]
  entity,      \* [request -> the shift it will save]
  diff,        \* [request -> the columns its save() found to differ]
  overlapped,  \* history: two requests were at work on the shift at once
  interrupted, \* history: a request on the shift ended before its last save
  crowded,     \* history: two bookings of the guard were checked at once
  retimed      \* history: the shift was moved while it kept its guard

rows == <<shift, sheets>>
memory == <<order, entity, diff>>
history == <<overlapped, interrupted, crowded, retimed>>
vars == <<shift, sheets, pc, order, entity, diff, overlapped, interrupted,
          crowded, retimed>>

Requests == Planners \cup Phones

LiveStatuses == {"offered", "ready", "in_progress"}
GuardStatuses == LiveStatuses \cup {"missed", "rejected", "completed"}
Statuses == GuardStatuses \cup {"unfilled", "cancelled"}
Columns == {"status", "guard", "time"}

Shift == [status : Statuses \cup {"none", "removed"}, guard : Guards \cup {None},
          time : Times \cup {{}}]
NoShift == [status |-> "none", guard |-> None, time |-> {}]

Task == {"create", "edit", "remove", "respond", "bookOn", "bookOff"}
NoOrder == [does |-> None, shift |-> None]

Init ==
  /\ shift = [s \in ShiftIds |-> NoShift]
  /\ sheets = [s \in ShiftIds |-> <<>>]
  /\ pc = [r \in Requests |-> "start"]
  /\ order = [r \in Requests |-> NoOrder]
  /\ entity = [r \in Requests |-> NoShift]
  /\ diff = [r \in Requests |-> {}]
  /\ overlapped = [s \in ShiftIds |-> FALSE]
  /\ interrupted = [s \in ShiftIds |-> FALSE]
  /\ crowded = [g \in Guards |-> FALSE]
  /\ retimed = [s \in ShiftIds |-> FALSE]

-----------------------------------------------------------------------------
Exists(s) == shift[s].status \in Statuses
AtWork(s) == {r \in Requests : order[r].shift = s}

(* The requests that found guard g free and have not yet saved the shift.  *)
Booking(g) ==
  {r \in Requests : /\ pc[r] \in {"checked", "loaded", "diffed"}
                    /\ entity[r].guard = g /\ shift[order[r].shift].guard # g}

Go(r, from, to) == pc[r] = from /\ pc' = [pc EXCEPT ![r] = to]

(* The request has read shift s and goes on to save it as `e`.             *)
Load(r, does, s, e, to) ==
  /\ Go(r, "start", to)
  /\ order' = [order EXCEPT ![r] = [does |-> does, shift |-> s]]
  /\ entity' = [entity EXCEPT ![r] = e]
  /\ overlapped' = [overlapped EXCEPT ![s] = @ \/ AtWork(s) # {}]
  /\ UNCHANGED <<rows, diff, interrupted>>

(* The request has answered or failed, and its memory is gone.             *)
Done(r) ==
  /\ pc' = [pc EXCEPT ![r] = "start"]
  /\ order' = [order EXCEPT ![r] = NoOrder]
  /\ entity' = [entity EXCEPT ![r] = NoShift]
  /\ diff' = [diff EXCEPT ![r] = {}]

(* An error, or the end of the server process, between two statements.     *)
Interrupt(r) ==
  /\ Done(r)
  /\ interrupted' = [interrupted EXCEPT ![order[r].shift] = TRUE]
  /\ UNCHANGED <<rows, overlapped, crowded, retimed>>

Abandon(r) == pc[r] # "start" /\ Interrupt(r)

-----------------------------------------------------------------------------
(* Planning                                                                *)

Overlap(t, u) == t \cap u # {}

(* Seeded fault: an offer not yet answered is no obstacle.                 *)
HasShiftClash_Unanswered(g, t, own) ==
  \E s \in ShiftIds \ {own} :
    shift[s].guard = g /\ shift[s].status \in LiveStatuses \ {"offered"} /\ Overlap(shift[s].time, t)

HasShiftClash(g, t, own) ==
  \E s \in ShiftIds \ {own} :
    shift[s].guard = g /\ shift[s].status \in LiveStatuses /\ Overlap(shift[s].time, t)

(* assertGuardCanTakeShift, which remembers that others book the guard.    *)
CheckGuard(g, t, own) ==
  /\ ~HasShiftClash(g, t, own)
  /\ crowded' = [crowded EXCEPT ![g] = @ \/ Booking(g) # {}]

Create(p, s, g, t) ==
  /\ shift[s].status = "none" /\ AtWork(s) = {}
  /\ \E status \in IF g = None THEN {"unfilled", "cancelled"} ELSE {"offered", "cancelled"} :
       Load(p, "create", s, [status |-> status, guard |-> g, time |-> t], "checked")
  /\ IF g = None THEN UNCHANGED crowded ELSE CheckGuard(g, t, s)
  /\ UNCHANGED retimed

(* Seeded fault: a timesheet is made for a shift nobody is to work.        *)
InsertShift_AlwaysSheet(p) ==
  /\ Go(p, "checked", "unsheeted")
  /\ shift' = [shift EXCEPT ![order[p].shift] = entity[p]]
  /\ UNCHANGED <<sheets, memory, history>>

InsertShift(p) ==
  /\ pc[p] = "checked"
  /\ shift' = [shift EXCEPT ![order[p].shift] = entity[p]]
  /\ IF entity[p].guard = None
     THEN Done(p)
     ELSE pc' = [pc EXCEPT ![p] = "unsheeted"] /\ UNCHANGED memory
  /\ UNCHANGED <<sheets, history>>

(* createForShift.  The foreign key refuses a shift removed meanwhile.     *)
CreateSheet(p) ==
  LET s == order[p].shift IN
  /\ pc[p] = "unsheeted"
  /\ IF Exists(s)
     THEN /\ sheets' = [sheets EXCEPT ![s] = Append(@, entity[p].guard)]
          /\ Done(p)
          /\ UNCHANGED <<shift, history>>
     ELSE Interrupt(p)

Transitions ==
  [unfilled    |-> {"offered", "cancelled"},
   offered     |-> {"ready", "rejected", "cancelled"},
   ready       |-> {"in_progress", "missed", "cancelled"},
   in_progress |-> {"completed"},
   completed   |-> {},
   rejected    |-> {"unfilled"},
   missed      |-> {"unfilled", "cancelled"},
   cancelled   |-> {}]

(* resolveUpdatedStatus: the planner names the status.                     *)
MayBecome(current, asked, guard) ==
  /\ asked = "unfilled" => guard = None
  /\ asked \in GuardStatuses => guard # None
  /\ asked = current \/ asked \in Transitions[current]

(* resolveStatusFromGuardChange: the status follows from the guards.       *)
FollowsGuard(current, from, to, status) ==
  \/ from = to /\ status = current
  \/ /\ from # to /\ to = None
     /\ current \in {"unfilled", "rejected", "missed"}
     /\ status = "unfilled"
  \/ /\ from # to /\ to # None
     /\ current \notin {"cancelled", "ready", "in_progress", "completed"}
     /\ status = "offered"

Edit(p, s, g, t) ==
  LET old == shift[s] IN
  /\ Exists(s)
  /\ \E asked \in Statuses \cup {None}, status \in Statuses :
       /\ IF asked = None THEN FollowsGuard(old.status, old.guard, g, status)
                          ELSE status = asked /\ MayBecome(old.status, asked, g)
       /\ Load(p, "edit", s,
               [status |-> status, guard |-> IF status = "unfilled" THEN None ELSE g, time |-> t],
               "loaded")
  /\ IF g \in {None, old.guard} THEN UNCHANGED crowded ELSE CheckGuard(g, t, s)
  /\ retimed' = [retimed EXCEPT ![s] = @ \/ (t # old.time /\ g = old.guard /\ g # None)]

RemoveShift(p, s) ==
  /\ Exists(s)
  /\ Load(p, "remove", s, NoShift, "condemned")
  /\ UNCHANGED <<crowded, retimed>>

DeleteSheets(p) ==
  /\ Go(p, "condemned", "bare")
  /\ sheets' = [sheets EXCEPT ![order[p].shift] = <<>>]
  /\ UNCHANGED <<shift, memory, history>>

(* A timesheet created since holds the shift back.                         *)
DeleteShift(p) ==
  LET s == order[p].shift IN
  /\ pc[p] = "bare"
  /\ IF sheets[s] = <<>>
     THEN /\ shift' = [shift EXCEPT ![s] = [NoShift EXCEPT !.status = "removed"]]
          /\ Done(p)
          /\ UNCHANGED <<sheets, history>>
     ELSE Interrupt(p)

-----------------------------------------------------------------------------
(* Guards                                                                  *)

(* respondForGuard                                                         *)
Respond(d, s) ==
  /\ shift[s].status = "offered" /\ shift[s].guard # None
  /\ \E answer \in {"ready", "rejected"} :
       Load(d, "respond", s, [shift[s] EXCEPT !.status = answer], "loaded")
  /\ UNCHANGED <<crowded, retimed>>

(* checkIn: the event is saved first, then the shift.                      *)
BookOn(d, s) ==
  /\ shift[s].status = "ready" /\ shift[s].guard # None
  /\ Load(d, "bookOn", s, [shift[s] EXCEPT !.status = "in_progress"], "loaded")
  /\ UNCHANGED <<crowded, retimed>>

(* checkOut, likewise.                                                     *)
BookOff(d, s) ==
  /\ shift[s].status = "in_progress" /\ shift[s].guard # None
  /\ Load(d, "bookOff", s, [shift[s] EXCEPT !.status = "completed"], "loaded")
  /\ UNCHANGED <<crowded, retimed>>

-----------------------------------------------------------------------------
(* save(shift)                                                             *)
DiffShift(r) ==
  /\ Go(r, "loaded", "diffed")
  /\ LET row == shift[order[r].shift] IN
     diff' = [diff EXCEPT ![r] =
       IF row.status = "removed" THEN Columns \cup {"id"}
                                 ELSE {c \in Columns : row[c] # entity[r][c]}]
  /\ UNCHANGED <<rows, order, entity, history>>

Updated(row, e, cs) ==
  [status |-> IF "status" \in cs THEN e.status ELSE row.status,
   guard  |-> IF "guard" \in cs THEN e.guard ELSE row.guard,
   time   |-> IF "time" \in cs THEN e.time ELSE row.time]

(* The UPDATE, which finds nothing when the row was removed after the      *)
(* SELECT, or the INSERT when it was removed before.                       *)
SaveShift(r) ==
  LET s == order[r].shift IN
  /\ pc[r] = "diffed"
  /\ shift' = [shift EXCEPT ![s] =
       IF Exists(s) \/ "id" \in diff[r] THEN Updated(@, entity[r], diff[r]) ELSE @]
  /\ IF order[r].does = "edit"
     THEN pc' = [pc EXCEPT ![r] = "saved"] /\ UNCHANGED memory
     ELSE Done(r)
  /\ UNCHANGED <<sheets, history>>

(* Seeded fault: the timesheets stay with the guard they were made for.    *)
SaveSheets_KeepGuard(p) ==
  LET s == order[p].shift IN
  /\ pc[p] = "saved"
  /\ IF entity[p].guard # None /\ sheets[s] = <<>>
     THEN pc' = [pc EXCEPT ![p] = "unsheeted"] /\ UNCHANGED memory
     ELSE Done(p)
  /\ UNCHANGED <<rows, history>>

(* updateForUser saves the timesheets it finds with the new guard, or has  *)
(* one created; for a shift without a guard it leaves them alone.          *)
SaveSheets(p) ==
  LET s == order[p].shift
      g == entity[p].guard IN
  /\ pc[p] = "saved"
  /\ IF g # None /\ sheets[s] = <<>>
     THEN pc' = [pc EXCEPT ![p] = "unsheeted"] /\ UNCHANGED <<sheets, memory>>
     ELSE /\ sheets' = IF g = None THEN sheets
                       ELSE [sheets EXCEPT ![s] = [i \in DOMAIN @ |-> g]]
          /\ Done(p)
  /\ UNCHANGED <<shift, history>>

-----------------------------------------------------------------------------
Planner(p) ==
  \/ \E s \in ShiftIds, g \in Guards \cup {None}, t \in Times : Create(p, s, g, t) \/ Edit(p, s, g, t)
  \/ \E s \in ShiftIds : RemoveShift(p, s)
  \/ InsertShift(p) \/ CreateSheet(p) \/ SaveSheets(p)
  \/ DeleteSheets(p) \/ DeleteShift(p)

Phone(d) == \E s \in ShiftIds : Respond(d, s) \/ BookOn(d, s) \/ BookOff(d, s)

Next ==
  \/ \E p \in Planners : Planner(p)
  \/ \E d \in Phones : Phone(d)
  \/ \E r \in Requests : DiffShift(r) \/ SaveShift(r) \/ Abandon(r)

Spec == Init /\ [][Next]_vars

-----------------------------------------------------------------------------
(* Rows and the requests' memory are of their types.                       *)
TypeOK ==
  /\ shift \in [ShiftIds -> Shift]
  /\ sheets \in [ShiftIds -> Seq(Guards)]
  /\ pc \in [Requests -> {"start", "checked", "unsheeted", "loaded", "diffed", "saved",
                          "condemned", "bare"}]
  /\ order \in [Requests -> [does : Task, shift : ShiftIds] \cup {NoOrder}]
  /\ entity \in [Requests -> Shift]
  /\ diff \in [Requests -> SUBSET (Columns \cup {"id"})]
  /\ overlapped \in [ShiftIds -> BOOLEAN] /\ interrupted \in [ShiftIds -> BOOLEAN]
  /\ crowded \in [Guards -> BOOLEAN] /\ retimed \in [ShiftIds -> BOOLEAN]

DoubleBooked(s, u) ==
  /\ shift[s].guard # None /\ shift[s].guard = shift[u].guard
  /\ {shift[s].status, shift[u].status} \subseteq LiveStatuses
  /\ Overlap(shift[s].time, shift[u].time)

(* Two live shifts of a guard overlap only if one of them was moved under  *)
(* its guard, was worked on by two requests at once, or the guard was      *)
(* booked by two requests at once: the check and every way back to life    *)
(* leave no other gap.                                                     *)
ClashOnlyByMoveOrRace ==
  \A s, u \in ShiftIds : s # u /\ DoubleBooked(s, u) =>
    \/ crowded[shift[s].guard]
    \/ \E x \in {s, u} : retimed[x] \/ overlapped[x]

Undisturbed(s) == Exists(s) /\ AtWork(s) = {} /\ ~overlapped[s] /\ ~interrupted[s]

(* A shift with a guard has one timesheet, in that guard's name, through   *)
(* every offer, refusal and reassignment.                                  *)
SheetFollowsGuard ==
  \A s \in ShiftIds : Undisturbed(s) /\ shift[s].guard # None =>
    sheets[s] = <<shift[s].guard>>
==============================================================================
