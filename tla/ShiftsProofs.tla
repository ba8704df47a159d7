---------------------------- MODULE ShiftsProofs -----------------------------
(***************************************************************************)
(* Theorems about Shifts, for any shifts, guards, times and requests.      *)
(***************************************************************************)
EXTENDS Shifts, TLAPS

-----------------------------------------------------------------------------
(* The inductive invariant.                                                *)

Aiming == {"checked", "loaded", "diffed"}

(* What a request does fits how far it has got.                            *)
Stage(does) ==
  CASE does = "create" -> {"checked", "unsheeted"}
    [] does = "edit"   -> {"loaded", "diffed", "saved", "unsheeted"}
    [] does = "remove" -> {"condemned", "bare"}
    [] OTHER           -> {"loaded", "diffed"}

Placed ==
  \A r \in Requests :
    \/ pc[r] = "start" /\ order[r] = NoOrder
    \/ order[r].shift \in ShiftIds /\ order[r].does \in Task /\ pc[r] \in Stage(order[r].does)

(* Requests on a shift where no two have met come one at a time.           *)
Alone ==
  \A s \in ShiftIds : ~overlapped[s] => \A p, q \in AtWork(s) : p = q

(* An unfilled shift has no guard, wherever it is written down; a shift    *)
(* not created yet is blank.                                               *)
Free ==
  /\ \A r \in Requests :
       /\ pc[r] \in Aiming => entity[r].status \in Statuses
       /\ entity[r].status = "unfilled" => entity[r].guard = None
  /\ \A s \in ShiftIds : ~overlapped[s] =>
       /\ shift[s].status = "none" => shift[s] = NoShift
       /\ shift[s].status \in {"unfilled", "removed"} => shift[s].guard = None

(* What an undisturbed request knows about the row it will save.           *)
Knows(r) ==
  LET s == order[r].shift
      row == shift[s]
      e == entity[r] IN
  /\ pc[r] = "checked" => row = NoShift
  /\ pc[r] # "checked" => Exists(s)
  /\ pc[r] \in {"loaded", "diffed"} /\ e.guard = row.guard /\ e.guard # None
       /\ e.status \in LiveStatuses =>
       row.status \in LiveStatuses /\ (e.time = row.time \/ retimed[s])
  /\ pc[r] = "diffed" => diff[r] = {c \in Columns : row[c] # e[c]}

Known == \A r \in Requests : pc[r] # "start" /\ ~overlapped[order[r].shift] => Knows(r)

(* The hours a shift takes of a guard, or will when a request saves it.    *)
Claims(s, g, t) ==
  \/ shift[s].guard = g /\ shift[s].time = t /\ shift[s].status \in LiveStatuses
  \/ \E r \in AtWork(s) :
       /\ pc[r] \in Aiming
       /\ entity[r].guard = g /\ entity[r].time = t /\ entity[r].status \in LiveStatuses

Steady(s) == ~overlapped[s] /\ ~retimed[s]

Apart ==
  \A s, u \in ShiftIds, g \in Guards, t, v \in Times \cup {{}} :
    s # u /\ Steady(s) /\ Steady(u) /\ ~crowded[g] /\ Claims(s, g, t) /\ Claims(u, g, v) =>
      ~Overlap(t, v)

(* The timesheets between the statements of a request.                     *)
Sheeted(s) == shift[s].guard # None => sheets[s] = <<shift[s].guard>>

SheetsOf(r) ==
  LET s == order[r].shift IN
  /\ pc[r] \in {"checked", "unsheeted", "bare"} => sheets[s] = <<>>
  /\ pc[r] \in {"loaded", "diffed"} => Sheeted(s)
  /\ pc[r] \in {"loaded", "diffed"} /\ order[r].does # "edit" => entity[r].guard = shift[s].guard
  /\ pc[r] \in {"saved", "unsheeted"} => shift[s].guard = entity[r].guard

Sheets ==
  \A s \in ShiftIds : ~overlapped[s] /\ ~interrupted[s] =>
    /\ Len(sheets[s]) <= 1
    /\ shift[s].status = "none" => sheets[s] = <<>>
    /\ AtWork(s) = {} => Sheeted(s)
    /\ \A r \in AtWork(s) : SheetsOf(r)

(* Only a shift with a guard is given a timesheet.                         *)
Unsheeted == \A r \in Requests : pc[r] = "unsheeted" => entity[r].guard \in Guards

IInv == TypeOK /\ Unsheeted /\ Placed /\ Alone /\ Free /\ Known /\ Apart /\ Sheets

-----------------------------------------------------------------------------
(* Every step is one request's, about one shift.                           *)

(* What request r leaves alone when it steps on shift s.                   *)
Touch(r, s) ==
  /\ \A q \in Requests \ {r} :
       /\ pc'[q] = pc[q] /\ order'[q] = order[q]
       /\ entity'[q] = entity[q] /\ diff'[q] = diff[q]
  /\ \A x \in ShiftIds \ {s} :
       /\ shift'[x] = shift[x] /\ sheets'[x] = sheets[x]
       /\ overlapped'[x] = overlapped[x] /\ interrupted'[x] = interrupted[x]
       /\ retimed'[x] = retimed[x]
  /\ overlapped[s] => overlapped'[s]
  /\ interrupted[s] => interrupted'[s]
  /\ retimed[s] => retimed'[s]
  /\ \A g \in Guards : crowded[g] => crowded'[g]
  /\ \/ pc'[r] = "start" /\ order'[r] = NoOrder
     \/ pc'[r] # "start" /\ order'[r].shift = s
  /\ \/ pc[r] # "start" /\ order[r].shift = s
     \/ pc[r] = "start" /\ (AtWork(s) # {} => overlapped'[s])

(* What it must see to for itself and for that shift.                      *)
PlacedFor(r) ==
  \/ pc[r] = "start" /\ order[r] = NoOrder
  \/ order[r].shift \in ShiftIds /\ order[r].does \in Task /\ pc[r] \in Stage(order[r].does)

FreeFor(r, s) ==
  /\ pc[r] \in Aiming => entity[r].status \in Statuses
  /\ entity[r].status = "unfilled" => entity[r].guard = None
  /\ ~overlapped[s] =>
       /\ shift[s].status = "none" => shift[s] = NoShift
       /\ shift[s].status \in {"unfilled", "removed"} => shift[s].guard = None

KnownFor(r, s) == pc[r] # "start" /\ ~overlapped[s] => Knows(r)

(* The claims on a shift that at most r works on.                          *)
Mine(r, s, g, t) ==
  \/ shift[s].guard = g /\ shift[s].time = t /\ shift[s].status \in LiveStatuses
  \/ /\ pc[r] \in Aiming
     /\ entity[r].guard = g /\ entity[r].time = t /\ entity[r].status \in LiveStatuses

FitsIn(s, g, t) ==
  \A u \in ShiftIds \ {s}, v \in Times \cup {{}} :
    Steady(u) /\ Claims(u, g, v) => ~Overlap(t, v)

SheetsFor(r, s) ==
  ~overlapped[s] /\ ~interrupted[s] =>
    /\ Len(sheets[s]) <= 1
    /\ shift[s].status = "none" => sheets[s] = <<>>
    /\ pc[r] = "start" => Sheeted(s)
    /\ pc[r] # "start" => SheetsOf(r)

UnsheetedFor(r) == pc[r] = "unsheeted" => entity[r].guard \in Guards

Own(r, s) == UnsheetedFor(r) /\ PlacedFor(r) /\ FreeFor(r, s) /\ KnownFor(r, s) /\ SheetsFor(r, s)

(* A shift that no two requests met on is at most r's after r's step.      *)
LEMMA AtMostMine ==
  ASSUME IInv, NEW r \in Requests, NEW s \in ShiftIds, Touch(r, s), ~overlapped'[s]
  PROVE  /\ AtWork(s)' = IF pc'[r] = "start" THEN {} ELSE {r}
         /\ AtWork(s) \subseteq {r}
<1>1. AtWork(s) \subseteq {r}
  <2>1. CASE pc[r] # "start" /\ order[r].shift = s
    BY <2>1 DEF IInv, Alone, AtWork, Touch
  <2>2. CASE pc[r] = "start" /\ (AtWork(s) # {} => overlapped'[s])
    BY <2>2
  <2> QED
    BY <2>1, <2>2 DEF Touch
<1>2. AtWork(s)' \subseteq {r}
  BY <1>1 DEF Touch, AtWork
<1>3. r \in AtWork(s)' <=> pc'[r] # "start"
  BY ShiftsAssumption DEF Touch, AtWork, NoOrder, ShiftsAssumption
<1> QED
  BY <1>1, <1>2, <1>3

LEMMA OthersUntouched ==
  ASSUME IInv, NEW r \in Requests, NEW s \in ShiftIds, Touch(r, s),
         NEW x \in ShiftIds \ {s}
  PROVE  /\ AtWork(x)' = AtWork(x) /\ r \notin AtWork(x)
         /\ \A g, t : Claims(x, g, t)' <=> Claims(x, g, t)
<1>1. order[r].shift # x /\ order'[r].shift # x
  BY ShiftsAssumption DEF Touch, IInv, Placed, NoOrder, ShiftsAssumption, Stage
<1>2. \A q \in Requests : order'[q].shift = x <=> order[q].shift = x
  BY <1>1 DEF Touch
<1>3. AtWork(x)' = AtWork(x) /\ r \notin AtWork(x)
  BY <1>1, <1>2 DEF AtWork
<1>4. \A q \in AtWork(x) : pc'[q] = pc[q] /\ entity'[q] = entity[q]
  BY <1>3 DEF Touch, AtWork
<1>5. shift'[x] = shift[x]
  BY DEF Touch
<1> QED
  BY <1>3, <1>4, <1>5 DEF Claims

(* A request that leaves others alone and sees to its own keeps the whole  *)
(* invariant, if its shift claims no more or what fits in.                 *)
LEMMA Local ==
  ASSUME IInv, TypeOK', NEW r \in Requests, NEW s \in ShiftIds, Touch(r, s), Own(r, s)',
         \A g \in Guards, t \in Times \cup {{}} :
           Steady(s)' /\ ~crowded'[g] /\ Mine(r, s, g, t)' =>
             Claims(s, g, t) \/ FitsIn(s, g, t)
  PROVE  IInv'
<1>1. Placed'
  BY DEF IInv, Placed, Own, PlacedFor, Touch
<1>2. Alone'
  <2> SUFFICES ASSUME NEW x \in ShiftIds, ~overlapped'[x] PROVE \A p, q \in AtWork(x)' : p = q
    BY DEF Alone
  <2>1. CASE x = s
    BY <2>1, AtMostMine
  <2>2. CASE x # s
    <3>1. AtWork(x)' = AtWork(x) /\ ~overlapped[x]
      BY <2>2, OthersUntouched DEF Touch
    <3> QED
      BY <3>1 DEF IInv, Alone
  <2> QED
    BY <2>1, <2>2
<1>3. Free'
  BY DEF IInv, Free, Own, FreeFor, Touch
<1>4. Known'
  <2> SUFFICES ASSUME NEW q \in Requests, pc'[q] # "start", ~overlapped'[order'[q].shift]
               PROVE  Knows(q)'
    BY DEF Known
  <2>1. CASE q = r
    BY <2>1 DEF Own, KnownFor, Touch
  <2>2. CASE q # r
    <3>1. order[q].shift \in ShiftIds /\ order'[q] = order[q] /\ pc'[q] = pc[q]
      BY <2>2 DEF Touch, IInv, Placed
    <3>2. order[q].shift # s
      <4> SUFFICES ASSUME order[q].shift = s PROVE FALSE
        OBVIOUS
      <4>1. q \in AtWork(s)
        BY DEF AtWork
      <4> QED
        BY <2>2, <3>1, <4>1, AtMostMine
    <3>3. Knows(q)
      BY <3>1, <3>2 DEF IInv, Known, Touch
    <3> QED
      BY <2>2, <3>1, <3>2, <3>3 DEF Knows, Touch, Exists
  <2> QED
    BY <2>1, <2>2
<1>5. \A g \in Guards, t \in Times \cup {{}} :
        Steady(s)' /\ ~crowded'[g] /\ Claims(s, g, t)' => Claims(s, g, t) \/ FitsIn(s, g, t)
  <2> SUFFICES ASSUME NEW g \in Guards, NEW t \in Times \cup {{}},
                      Steady(s)', ~crowded'[g], Claims(s, g, t)'
               PROVE  Claims(s, g, t) \/ FitsIn(s, g, t)
    OBVIOUS
  <2>1. AtWork(s)' \subseteq {r}
    BY AtMostMine DEF Steady
  <2>2. Mine(r, s, g, t)'
    BY <2>1 DEF Claims, Mine
  <2> QED
    BY <2>2
<1>6. Apart'
  <2> SUFFICES ASSUME NEW x \in ShiftIds, NEW u \in ShiftIds, NEW g \in Guards,
                      NEW t \in Times \cup {{}}, NEW v \in Times \cup {{}},
                      x # u, Steady(x)', Steady(u)', ~crowded'[g],
                      Claims(x, g, t)', Claims(u, g, v)'
               PROVE  ~Overlap(t, v)
    BY DEF Apart
  <2>1. Steady(x) /\ Steady(u) /\ ~crowded[g]
    BY DEF Steady, Touch
  <2>2. CASE x # s /\ u # s
    <3>1. Claims(x, g, t) /\ Claims(u, g, v)
      BY <2>2, OthersUntouched
    <3> QED
      BY <2>1, <3>1 DEF IInv, Apart
  <2>3. CASE x = s
    <3>1. Claims(u, g, v)
      BY <2>3, OthersUntouched
    <3>2. Claims(x, g, t) \/ FitsIn(x, g, t)
      BY <1>5, <2>3
    <3> QED
      BY <2>1, <2>3, <3>1, <3>2 DEF IInv, Apart, FitsIn
  <2>4. CASE u = s
    <3>1. Claims(x, g, t)
      BY <2>4, OthersUntouched
    <3>2. Claims(u, g, v) \/ FitsIn(u, g, v)
      BY <1>5, <2>4
    <3>3. ~Overlap(v, t)
      BY <2>1, <2>4, <3>1, <3>2 DEF IInv, Apart, FitsIn
    <3> QED
      BY <3>3 DEF Overlap
  <2> QED
    BY <2>2, <2>3, <2>4
<1>7. Sheets'
  <2> SUFFICES ASSUME NEW x \in ShiftIds, ~overlapped'[x], ~interrupted'[x]
               PROVE  /\ Len(sheets'[x]) <= 1
                      /\ shift'[x].status = "none" => sheets'[x] = <<>>
                      /\ AtWork(x)' = {} => Sheeted(x)'
                      /\ \A q \in AtWork(x)' : SheetsOf(q)'
    BY DEF Sheets
  <2>1. CASE x = s
    BY <2>1, AtMostMine DEF Own, SheetsFor
  <2>2. CASE x # s
    <3>1. /\ AtWork(x)' = AtWork(x) /\ r \notin AtWork(x) /\ ~overlapped[x] /\ ~interrupted[x]
          /\ shift'[x] = shift[x] /\ sheets'[x] = sheets[x]
      BY <2>2, OthersUntouched DEF Touch
    <3>2. \A q \in AtWork(x) :
            q \in Requests /\ order[q].shift = x /\ order'[q] = order[q]
            /\ pc'[q] = pc[q] /\ entity'[q] = entity[q]
      BY <3>1 DEF AtWork, Touch
    <3>3. \A q \in AtWork(x) : SheetsOf(q)'
      <4> SUFFICES ASSUME NEW q \in AtWork(x) PROVE SheetsOf(q)'
        OBVIOUS
      <4>1. SheetsOf(q)
        BY <3>1 DEF IInv, Sheets
      <4> QED
        BY <3>1, <3>2, <4>1 DEF SheetsOf, Sheeted
    <3> QED
      BY <3>1, <3>3 DEF IInv, Sheets, Sheeted
  <2> QED
    BY <2>1, <2>2
<1>8. Unsheeted'
  BY DEF IInv, Unsheeted, Own, UnsheetedFor, Touch
<1> QED
  BY <1>1, <1>2, <1>3, <1>4, <1>6, <1>7, <1>8 DEF IInv

-----------------------------------------------------------------------------
(* Requests that end, and requests at work.                                *)

Pcs == {"start", "checked", "unsheeted", "loaded", "diffed", "saved", "condemned", "bare"}

MemoryTyped ==
  /\ pc \in [Requests -> Pcs]
  /\ order \in [Requests -> [does : Task, shift : ShiftIds] \cup {NoOrder}]
  /\ entity \in [Requests -> Shift]
  /\ diff \in [Requests -> SUBSET (Columns \cup {"id"})]

LEMMA NoShiftTyped ==
  /\ NoShift \in Shift /\ [NoShift EXCEPT !.status = "removed"] \in Shift
  /\ NoShift.status = "none" /\ NoShift.guard = None
  BY DEF NoShift, Shift

LEMMA DoneTyped ==
  ASSUME TypeOK, NEW r \in Requests, Done(r)
  PROVE  /\ MemoryTyped'
         /\ pc'[r] = "start" /\ order'[r] = NoOrder /\ entity'[r] = NoShift
         /\ \A q \in Requests \ {r} :
              /\ pc'[q] = pc[q] /\ order'[q] = order[q]
              /\ entity'[q] = entity[q] /\ diff'[q] = diff[q]
  BY NoShiftTyped DEF TypeOK, Done, MemoryTyped, Pcs

LEMMA Working ==
  ASSUME IInv, NEW r \in Requests, pc[r] # "start"
  PROVE  /\ order[r].shift \in ShiftIds /\ order[r].does \in Task
         /\ order[r] \in [does : Task, shift : ShiftIds]
         /\ pc[r] \in Stage(order[r].does)
         /\ order[r].does \notin {"edit", "create", "remove"} => pc[r] \in {"loaded", "diffed"}
         /\ ~overlapped[order[r].shift] => Knows(r)
         /\ ~overlapped[order[r].shift] /\ ~interrupted[order[r].shift] =>
              SheetsOf(r) /\ Len(sheets[order[r].shift]) <= 1
<1>1. /\ order[r].shift \in ShiftIds /\ order[r].does \in Task
      /\ pc[r] \in Stage(order[r].does)
  BY DEF IInv, Placed
<1>2. order[r] \in [does : Task, shift : ShiftIds]
  BY <1>1, ShiftsAssumption DEF IInv, TypeOK, NoOrder, ShiftsAssumption
<1>3. r \in AtWork(order[r].shift)
  BY DEF AtWork
<1> QED
  BY <1>1, <1>2, <1>3 DEF IInv, Known, Sheets, Stage, Task

(* An accident changes no row, and leaves the shift to the others.         *)
LEMMA InterruptKeeps ==
  ASSUME IInv, NEW r \in Requests, pc[r] # "start", Interrupt(r)
  PROVE  IInv'
<1>1. PICK s \in ShiftIds : s = order[r].shift
  BY Working
<1>2. /\ MemoryTyped'
      /\ pc'[r] = "start" /\ order'[r] = NoOrder /\ entity'[r] = NoShift
      /\ \A q \in Requests \ {r} :
           /\ pc'[q] = pc[q] /\ order'[q] = order[q]
           /\ entity'[q] = entity[q] /\ diff'[q] = diff[q]
  BY DoneTyped DEF Interrupt, IInv
<1>3. /\ interrupted' = [interrupted EXCEPT ![s] = TRUE]
      /\ UNCHANGED <<shift, sheets, overlapped, crowded, retimed>>
  BY <1>1 DEF Interrupt, rows
<1>4. TypeOK'
  BY <1>2, <1>3 DEF IInv, TypeOK, MemoryTyped, Pcs
<1>5. Touch(r, s)
  BY <1>1, <1>2, <1>3 DEF Touch, IInv, TypeOK
<1>6. Own(r, s)'
  <2>1. interrupted'[s]
    BY <1>1, <1>3 DEF IInv, TypeOK
  <2>2. UnsheetedFor(r)' /\ PlacedFor(r)' /\ KnownFor(r, s)' /\ SheetsFor(r, s)'
    BY <1>2, <2>1 DEF UnsheetedFor, PlacedFor, KnownFor, SheetsFor
  <2>3. FreeFor(r, s)'
    BY <1>1, <1>2, <1>3, NoShiftTyped DEF FreeFor, IInv, Free, Aiming
  <2> QED
    BY <2>2, <2>3 DEF Own
<1>7. \A g \in Guards, t \in Times \cup {{}} : Mine(r, s, g, t)' => Claims(s, g, t)
  BY <1>2, <1>3 DEF Mine, Claims, Aiming
<1> QED
  BY <1>1, <1>4, <1>5, <1>6, <1>7, Local

-----------------------------------------------------------------------------
(* Creating                                                                *)

LEMMA InsertKeeps ==
  ASSUME IInv, NEW p \in Planners, InsertShift(p)
  PROVE  IInv'
<1>p. p \in Requests /\ pc[p] = "checked"
  BY DEF InsertShift, Requests
<1>1. PICK s \in ShiftIds :
        s = order[p].shift /\ order[p] \in [does : Task, shift : ShiftIds] /\ order[p].does = "create"
  BY <1>p, Working DEF Stage
<1>2. entity[p] \in Shift /\ entity[p].status \in Statuses
  BY <1>p DEF IInv, TypeOK, Free, Aiming
<1>3. /\ shift' = [shift EXCEPT ![s] = entity[p]]
      /\ UNCHANGED <<sheets, overlapped, interrupted, crowded, retimed>>
  BY <1>1 DEF InsertShift, history
<1>4. /\ MemoryTyped'
      /\ \/ pc'[p] = "start" /\ order'[p] = NoOrder /\ entity'[p] = NoShift /\ entity[p].guard = None
         \/ /\ pc'[p] = "unsheeted" /\ order'[p] = order[p] /\ entity'[p] = entity[p]
            /\ entity[p].guard # None
      /\ \A q \in Requests \ {p} :
           /\ pc'[q] = pc[q] /\ order'[q] = order[q]
           /\ entity'[q] = entity[q] /\ diff'[q] = diff[q]
  <2>1. CASE entity[p].guard = None
    BY <1>p, <2>1, DoneTyped DEF InsertShift, IInv
  <2>2. CASE entity[p].guard # None
    BY <1>p, <2>2 DEF InsertShift, IInv, TypeOK, MemoryTyped, Pcs, memory
  <2> QED
    BY <2>1, <2>2
<1>5. TypeOK'
  BY <1>2, <1>3, <1>4 DEF IInv, TypeOK, MemoryTyped, Pcs
<1>6. Touch(p, s)
  BY <1>p, <1>1, <1>3, <1>4 DEF Touch, IInv, TypeOK
<1>7. shift'[s] = entity[p] /\ sheets'[s] = sheets[s]
  BY <1>1, <1>3 DEF IInv, TypeOK
<1>8. Own(p, s)'
  <2>1. PlacedFor(p)' /\ UnsheetedFor(p)'
    BY <1>1, <1>2, <1>4 DEF PlacedFor, UnsheetedFor, Stage, Shift
  <2>2. FreeFor(p, s)'
    BY <1>p, <1>2, <1>4, <1>7, NoShiftTyped DEF FreeFor, IInv, Free, Aiming, Statuses, GuardStatuses, LiveStatuses
  <2>3. KnownFor(p, s)'
    BY <1>1, <1>2, <1>4, <1>7 DEF KnownFor, Knows, Exists
  <2>4. SheetsFor(p, s)'
    <3> SUFFICES ASSUME ~overlapped[s], ~interrupted[s]
                 PROVE  SheetsFor(p, s)'
      BY <1>3 DEF SheetsFor
    <3>1. sheets[s] = <<>>
      BY <1>p, <1>1, Working DEF SheetsOf
    <3> QED
      BY <1>1, <1>2, <1>4, <1>7, <3>1 DEF SheetsFor, Sheeted, SheetsOf, Statuses, GuardStatuses, LiveStatuses
  <2> QED
    BY <2>1, <2>2, <2>3, <2>4 DEF Own
<1>9. \A g \in Guards, t \in Times \cup {{}} : Mine(p, s, g, t)' => Claims(s, g, t)
  BY <1>p, <1>1, <1>4, <1>7 DEF Mine, Claims, Aiming, AtWork
<1> QED
  BY <1>p, <1>1, <1>5, <1>6, <1>8, <1>9, Local

LEMMA CreateSheetKeeps ==
  ASSUME IInv, NEW p \in Planners, CreateSheet(p)
  PROVE  IInv'
<1>p. p \in Requests /\ pc[p] = "unsheeted"
  BY DEF CreateSheet, Requests
<1>1. PICK s \in ShiftIds : s = order[p].shift
  BY <1>p, Working
<1>a. CASE ~Exists(s)
  BY <1>p, <1>1, <1>a, InterruptKeeps DEF CreateSheet
<1>b. CASE Exists(s)
  <2>1. /\ sheets' = [sheets EXCEPT ![s] = Append(@, entity[p].guard)]
        /\ UNCHANGED <<shift, overlapped, interrupted, crowded, retimed>>
        /\ Done(p)
    BY <1>1, <1>b DEF CreateSheet, history
  <2>2. /\ MemoryTyped'
        /\ pc'[p] = "start" /\ order'[p] = NoOrder /\ entity'[p] = NoShift
        /\ \A q \in Requests \ {p} :
             /\ pc'[q] = pc[q] /\ order'[q] = order[q]
             /\ entity'[q] = entity[q] /\ diff'[q] = diff[q]
    BY <1>p, <2>1, DoneTyped DEF IInv
  <2>3. entity[p].guard \in Guards
    BY <1>p DEF IInv, Unsheeted
  <2>4. TypeOK'
    <3>1. sheets' \in [ShiftIds -> Seq(Guards)]
      BY <1>1, <2>1, <2>3 DEF IInv, TypeOK
    <3> QED
      BY <2>1, <2>2, <3>1 DEF IInv, TypeOK, MemoryTyped, Pcs
  <2>5. Touch(p, s)
    BY <1>p, <1>1, <2>1, <2>2 DEF Touch, IInv, TypeOK
  <2>6. Own(p, s)'
    <3>1. UnsheetedFor(p)' /\ PlacedFor(p)' /\ KnownFor(p, s)'
      BY <2>2 DEF UnsheetedFor, PlacedFor, KnownFor
    <3>2. FreeFor(p, s)'
      BY <1>1, <2>1, <2>2, NoShiftTyped DEF FreeFor, IInv, Free, Aiming
    <3>3. SheetsFor(p, s)'
      <4> SUFFICES ASSUME ~overlapped[s], ~interrupted[s]
                   PROVE  SheetsFor(p, s)'
        BY <2>1 DEF SheetsFor
      <4>1. sheets[s] = <<>> /\ shift[s].guard = entity[p].guard
        BY <1>p, <1>1, Working DEF SheetsOf
      <4>2. sheets'[s] = <<entity[p].guard>> /\ shift' = shift
        BY <1>1, <2>1, <4>1 DEF IInv, TypeOK
      <4>3. shift'[s].status # "none"
        BY <1>b, <2>1 DEF Exists, Statuses, GuardStatuses, LiveStatuses
      <4> QED
        BY <2>2, <4>1, <4>2, <4>3 DEF SheetsFor, Sheeted
    <3> QED
      BY <3>1, <3>2, <3>3 DEF Own
  <2>7. \A g \in Guards, t \in Times \cup {{}} : Mine(p, s, g, t)' => Claims(s, g, t)
    BY <2>1, <2>2 DEF Mine, Claims, Aiming
  <2> QED
    BY <1>p, <1>1, <2>4, <2>5, <2>6, <2>7, Local
<1> QED
  BY <1>a, <1>b

-----------------------------------------------------------------------------
(* Saving the timesheets                                                   *)

LEMMA SaveSheetsKeeps ==
  ASSUME IInv, NEW p \in Planners, SaveSheets(p)
  PROVE  IInv'
<1>p. p \in Requests /\ pc[p] = "saved"
  BY DEF SaveSheets, Requests
<1>1. PICK s \in ShiftIds :
        s = order[p].shift /\ order[p] \in [does : Task, shift : ShiftIds] /\ order[p].does = "edit"
  BY <1>p, Working DEF Stage
<1>2. PICK g \in Guards \cup {None} : g = entity[p].guard
  BY <1>p DEF IInv, TypeOK, Shift
<1>3. /\ UNCHANGED <<shift, overlapped, interrupted, crowded, retimed>>
      /\ MemoryTyped'
      /\ \A q \in Requests \ {p} :
           /\ pc'[q] = pc[q] /\ order'[q] = order[q]
           /\ entity'[q] = entity[q] /\ diff'[q] = diff[q]
      /\ \/ /\ g # None /\ sheets[s] = <<>>
            /\ pc'[p] = "unsheeted" /\ order'[p] = order[p] /\ entity'[p] = entity[p]
            /\ sheets' = sheets
         \/ /\ pc'[p] = "start" /\ order'[p] = NoOrder /\ entity'[p] = NoShift
            /\ sheets' = IF g = None THEN sheets ELSE [sheets EXCEPT ![s] = [i \in DOMAIN @ |-> g]]
  <2>1. UNCHANGED <<shift, overlapped, interrupted, crowded, retimed>>
    BY DEF SaveSheets, history
  <2>2. CASE g # None /\ sheets[s] = <<>>
    BY <1>p, <1>1, <1>2, <2>1, <2>2 DEF SaveSheets, IInv, TypeOK, MemoryTyped, Pcs, memory
  <2>3. CASE ~(g # None /\ sheets[s] = <<>>)
    <3>1. /\ Done(p)
          /\ sheets' = IF g = None THEN sheets ELSE [sheets EXCEPT ![s] = [i \in DOMAIN @ |-> g]]
      BY <1>1, <1>2, <2>3 DEF SaveSheets
    <3> QED
      BY <1>p, <2>1, <3>1, DoneTyped DEF IInv
  <2> QED
    BY <2>2, <2>3
<1>4. sheets' \in [ShiftIds -> Seq(Guards)] /\ Len(sheets'[s]) = Len(sheets[s])
  <2>1. ASSUME g \in Guards
        PROVE  /\ [i \in DOMAIN sheets[s] |-> g] \in Seq(Guards)
               /\ Len([i \in DOMAIN sheets[s] |-> g]) = Len(sheets[s])
    <3>1. sheets[s] \in Seq(Guards)
      BY DEF IInv, TypeOK
    <3> QED
      BY <2>1, <3>1
  <2> QED
    BY <1>3, <2>1 DEF IInv, TypeOK
<1>5. TypeOK'
  BY <1>3, <1>4 DEF IInv, TypeOK, MemoryTyped, Pcs
<1>6. Touch(p, s)
  BY <1>p, <1>1, <1>3 DEF Touch, IInv, TypeOK
<1>7. Own(p, s)'
  <2>1. PlacedFor(p)' /\ UnsheetedFor(p)'
    BY <1>1, <1>2, <1>3 DEF PlacedFor, UnsheetedFor, Stage
  <2>2. FreeFor(p, s)'
    BY <1>p, <1>3, NoShiftTyped DEF FreeFor, IInv, Free, Aiming
  <2>3. KnownFor(p, s)'
    <3> SUFFICES ASSUME pc'[p] # "start", ~overlapped[s] PROVE Knows(p)'
      BY <1>3 DEF KnownFor
    <3>1. Exists(s)
      BY <1>p, <1>1, Working DEF Knows
    <3> QED
      BY <1>1, <1>3, <3>1 DEF Knows, Exists
  <2>4. SheetsFor(p, s)'
    <3> SUFFICES ASSUME ~overlapped[s], ~interrupted[s]
                 PROVE  SheetsFor(p, s)'
      BY <1>3 DEF SheetsFor
    <3>1. /\ Len(sheets[s]) <= 1 /\ shift[s].guard = g /\ Exists(s)
      BY <1>p, <1>1, <1>2, Working DEF SheetsOf, Knows
    <3>2. shift'[s].status # "none"
      BY <1>3, <3>1 DEF Exists, Statuses, GuardStatuses, LiveStatuses
    <3>3. CASE pc'[p] = "unsheeted"
      BY <1>1, <1>2, <1>3, <3>1, <3>2, <3>3 DEF SheetsFor, SheetsOf
    <3>4. CASE pc'[p] = "start"
      <4>1. g # None => sheets'[s] = <<g>>
        <5> SUFFICES ASSUME g # None PROVE sheets'[s] = <<g>>
          OBVIOUS
        <5>1. sheets[s] # <<>> /\ sheets[s] \in Seq(Guards)
          BY <1>1, <1>2, <1>p, <3>4, <1>3 DEF SaveSheets, IInv, TypeOK
        <5>2. DOMAIN sheets[s] = 1 .. 1
          BY <3>1, <5>1
        <5>3. sheets'[s] = [i \in 1 .. 1 |-> g]
          BY <1>3, <3>4, <5>2 DEF IInv, TypeOK
        <5> QED
          BY <5>3
      <4> QED
        BY <1>3, <1>4, <3>1, <3>2, <3>4, <4>1 DEF SheetsFor, Sheeted
    <3> QED
      BY <1>3, <3>3, <3>4
  <2> QED
    BY <2>1, <2>2, <2>3, <2>4 DEF Own
<1>8. \A h \in Guards, t \in Times \cup {{}} : Mine(p, s, h, t)' => Claims(s, h, t)
  BY <1>3 DEF Mine, Claims, Aiming
<1> QED
  BY <1>p, <1>1, <1>5, <1>6, <1>7, <1>8, Local

-----------------------------------------------------------------------------
(* Removing                                                                *)

LEMMA DeleteSheetsKeeps ==
  ASSUME IInv, NEW p \in Planners, DeleteSheets(p)
  PROVE  IInv'
<1>p. p \in Requests /\ pc[p] = "condemned"
  BY DEF DeleteSheets, Requests, Go
<1>1. PICK s \in ShiftIds :
        s = order[p].shift /\ order[p] \in [does : Task, shift : ShiftIds] /\ order[p].does = "remove"
  BY <1>p, Working DEF Stage
<1>2. /\ sheets' = [sheets EXCEPT ![s] = <<>>]
      /\ pc' = [pc EXCEPT ![p] = "bare"]
      /\ UNCHANGED <<shift, order, entity, diff, overlapped, interrupted, crowded, retimed>>
  BY <1>1 DEF DeleteSheets, Go, memory, history
<1>3. TypeOK'
  <2>1. sheets' \in [ShiftIds -> Seq(Guards)]
    BY <1>1, <1>2 DEF IInv, TypeOK
  <2> QED
    BY <1>2, <2>1 DEF IInv, TypeOK
<1>4. pc'[p] = "bare" /\ sheets'[s] = <<>>
  BY <1>p, <1>1, <1>2 DEF IInv, TypeOK
<1>5. Touch(p, s)
  BY <1>p, <1>1, <1>2, <1>4 DEF Touch, IInv, TypeOK
<1>6. Own(p, s)'
  <2>1. PlacedFor(p)' /\ UnsheetedFor(p)'
    BY <1>1, <1>2, <1>4 DEF PlacedFor, UnsheetedFor, Stage
  <2>2. FreeFor(p, s)'
    BY <1>p, <1>2, <1>4 DEF FreeFor, IInv, Free, Aiming
  <2>3. KnownFor(p, s)'
    BY <1>p, <1>1, <1>2, <1>4, Working DEF KnownFor, Knows, Exists
  <2>4. SheetsFor(p, s)'
    BY <1>1, <1>2, <1>4 DEF SheetsFor, SheetsOf
  <2> QED
    BY <2>1, <2>2, <2>3, <2>4 DEF Own
<1>7. \A g \in Guards, t \in Times \cup {{}} : Mine(p, s, g, t)' => Claims(s, g, t)
  BY <1>2, <1>4 DEF Mine, Claims, Aiming
<1> QED
  BY <1>p, <1>1, <1>3, <1>5, <1>6, <1>7, Local

LEMMA DeleteShiftKeeps ==
  ASSUME IInv, NEW p \in Planners, DeleteShift(p)
  PROVE  IInv'
<1>p. p \in Requests /\ pc[p] = "bare"
  BY DEF DeleteShift, Requests
<1>1. PICK s \in ShiftIds : s = order[p].shift
  BY <1>p, Working
<1>a. CASE sheets[s] # <<>>
  BY <1>p, <1>1, <1>a, InterruptKeeps DEF DeleteShift
<1>b. CASE sheets[s] = <<>>
  <2>1. /\ shift' = [shift EXCEPT ![s] = [NoShift EXCEPT !.status = "removed"]]
        /\ Done(p)
        /\ UNCHANGED <<sheets, overlapped, interrupted, crowded, retimed>>
    BY <1>1, <1>b DEF DeleteShift, history
  <2>2. /\ MemoryTyped'
        /\ pc'[p] = "start" /\ order'[p] = NoOrder /\ entity'[p] = NoShift
        /\ \A q \in Requests \ {p} :
             /\ pc'[q] = pc[q] /\ order'[q] = order[q]
             /\ entity'[q] = entity[q] /\ diff'[q] = diff[q]
    BY <1>p, <2>1, DoneTyped DEF IInv
  <2>3. TypeOK'
    BY <2>1, <2>2, NoShiftTyped DEF IInv, TypeOK, MemoryTyped, Pcs
  <2>4. shift'[s].status = "removed" /\ shift'[s].guard = None
    BY <1>1, <2>1 DEF IInv, TypeOK, NoShift
  <2>5. Touch(p, s)
    BY <1>p, <1>1, <2>1, <2>2 DEF Touch, IInv, TypeOK
  <2>6. Own(p, s)'
    <3>1. UnsheetedFor(p)' /\ PlacedFor(p)' /\ KnownFor(p, s)'
      BY <2>2 DEF UnsheetedFor, PlacedFor, KnownFor
    <3>2. FreeFor(p, s)'
      BY <2>2, <2>4 DEF FreeFor, NoShift, Aiming
    <3>3. SheetsFor(p, s)'
      BY <1>b, <2>1, <2>2, <2>4 DEF SheetsFor, Sheeted
    <3> QED
      BY <3>1, <3>2, <3>3 DEF Own
  <2>7. \A g \in Guards, t \in Times \cup {{}} : Mine(p, s, g, t)' => Claims(s, g, t)
    BY <2>2, <2>4 DEF Mine, Claims, Aiming, LiveStatuses
  <2> QED
    BY <1>p, <1>1, <2>3, <2>5, <2>6, <2>7, Local
<1> QED
  BY <1>a, <1>b

-----------------------------------------------------------------------------
(* Saving the shift                                                        *)

LEMMA DiffKeeps ==
  ASSUME IInv, NEW r \in Requests, DiffShift(r)
  PROVE  IInv'
<1>p. pc[r] = "loaded"
  BY DEF DiffShift, Go
<1>1. PICK s \in ShiftIds : s = order[r].shift
  BY <1>p, Working
<1>2. /\ pc' = [pc EXCEPT ![r] = "diffed"]
      /\ diff' = [diff EXCEPT ![r] =
           IF shift[s].status = "removed" THEN Columns \cup {"id"}
                                          ELSE {c \in Columns : shift[s][c] # entity[r][c]}]
      /\ UNCHANGED <<shift, sheets, order, entity, overlapped, interrupted, crowded, retimed>>
  BY <1>1 DEF DiffShift, Go, rows, history
<1>3. pc'[r] = "diffed"
  BY <1>2 DEF IInv, TypeOK
<1>4. TypeOK'
  BY <1>2 DEF IInv, TypeOK
<1>5. Touch(r, s)
  BY <1>p, <1>1, <1>2, <1>3 DEF Touch, IInv, TypeOK
<1>6. Own(r, s)'
  <2>1. PlacedFor(r)' /\ UnsheetedFor(r)'
    BY <1>p, <1>1, <1>2, <1>3, Working DEF PlacedFor, UnsheetedFor, Stage
  <2>2. FreeFor(r, s)'
    BY <1>p, <1>2, <1>3 DEF FreeFor, IInv, Free, Aiming
  <2>3. KnownFor(r, s)'
    <3> SUFFICES ASSUME ~overlapped[s] PROVE Knows(r)'
      BY <1>2 DEF KnownFor
    <3>1. Knows(r) /\ Exists(s)
      BY <1>p, <1>1, Working DEF Knows
    <3>2. diff'[r] = {c \in Columns : shift[s][c] # entity[r][c]}
      BY <1>2, <3>1 DEF IInv, TypeOK, Exists, Statuses, GuardStatuses, LiveStatuses
    <3> QED
      BY <1>p, <1>1, <1>2, <1>3, <3>1, <3>2 DEF Knows, Exists
  <2>4. SheetsFor(r, s)'
    <3> SUFFICES ASSUME ~overlapped[s], ~interrupted[s]
                 PROVE  SheetsFor(r, s)'
      BY <1>2 DEF SheetsFor
    <3>1. SheetsOf(r) /\ Len(sheets[s]) <= 1 /\ shift[s].status # "none"
      BY <1>p, <1>1, Working DEF Knows, Exists, Statuses, GuardStatuses, LiveStatuses
    <3> QED
      BY <1>p, <1>1, <1>2, <1>3, <3>1 DEF SheetsFor, SheetsOf, Sheeted
  <2> QED
    BY <2>1, <2>2, <2>3, <2>4 DEF Own
<1>7. \A g \in Guards, t \in Times \cup {{}} : Mine(r, s, g, t)' => Claims(s, g, t)
  BY <1>p, <1>1, <1>2 DEF Mine, Claims, Aiming, AtWork
<1> QED
  BY <1>1, <1>4, <1>5, <1>6, <1>7, Local

(* The row becomes what the request wanted, when nothing came between.     *)
LEMMA SavedAsWanted ==
  ASSUME NEW row \in Shift, NEW e \in Shift
  PROVE  /\ Updated(row, e, {c \in Columns : row[c] # e[c]}) = e
         /\ \A cs : Updated(row, e, cs) \in Shift
  BY DEF Updated, Shift, Columns

LEMMA SaveKeeps ==
  ASSUME IInv, NEW r \in Requests, SaveShift(r)
  PROVE  IInv'
<1>p. pc[r] = "diffed"
  BY DEF SaveShift
<1>1. PICK s \in ShiftIds :
        /\ s = order[r].shift /\ order[r] \in [does : Task, shift : ShiftIds]
        /\ pc[r] \in Stage(order[r].does)
  BY <1>p, Working
<1>2. entity[r] \in Shift /\ shift[s] \in Shift /\ entity[r].status \in Statuses
  BY <1>p DEF IInv, TypeOK, Free, Aiming
<1>3. /\ shift' = [shift EXCEPT ![s] =
           IF Exists(s) \/ "id" \in diff[r] THEN Updated(@, entity[r], diff[r]) ELSE @]
      /\ UNCHANGED <<sheets, overlapped, interrupted, crowded, retimed>>
  BY <1>1 DEF SaveShift, history
<1>4. /\ MemoryTyped'
      /\ \/ pc'[r] = "start" /\ order'[r] = NoOrder /\ entity'[r] = NoShift /\ order[r].does # "edit"
         \/ /\ pc'[r] = "saved" /\ order'[r] = order[r] /\ entity'[r] = entity[r]
            /\ order[r].does = "edit"
      /\ \A q \in Requests \ {r} :
           /\ pc'[q] = pc[q] /\ order'[q] = order[q]
           /\ entity'[q] = entity[q] /\ diff'[q] = diff[q]
  <2>1. CASE order[r].does # "edit"
    BY <2>1, DoneTyped DEF SaveShift, IInv
  <2>2. CASE order[r].does = "edit"
    BY <2>2 DEF SaveShift, IInv, TypeOK, MemoryTyped, Pcs, memory
  <2> QED
    BY <2>1, <2>2
<1>5. TypeOK'
  <2>1. shift' \in [ShiftIds -> Shift]
    BY <1>2, <1>3, SavedAsWanted DEF IInv, TypeOK
  <2> QED
    BY <1>3, <1>4, <2>1 DEF IInv, TypeOK, MemoryTyped, Pcs
<1>6. Touch(r, s)
  BY <1>p, <1>1, <1>3, <1>4 DEF Touch, IInv, TypeOK
<1>7. ~overlapped[s] => shift'[s] = entity[r] /\ Knows(r) /\ Exists(s)
  <2> SUFFICES ASSUME ~overlapped[s] PROVE shift'[s] = entity[r] /\ Knows(r) /\ Exists(s)
    OBVIOUS
  <2>1. Knows(r) /\ Exists(s) /\ diff[r] = {c \in Columns : shift[s][c] # entity[r][c]}
    BY <1>p, <1>1, Working DEF Knows
  <2>2. shift'[s] = Updated(shift[s], entity[r], diff[r])
    BY <1>3, <2>1 DEF IInv, TypeOK
  <2> QED
    BY <1>2, <2>1, <2>2, SavedAsWanted
<1>8. Own(r, s)'
  <2>1. PlacedFor(r)' /\ UnsheetedFor(r)'
    BY <1>1, <1>4 DEF PlacedFor, UnsheetedFor, Stage
  <2>2. FreeFor(r, s)'
    BY <1>p, <1>2, <1>3, <1>4, <1>7, NoShiftTyped DEF FreeFor, IInv, Free, Aiming, Statuses, GuardStatuses, LiveStatuses
  <2>3. KnownFor(r, s)'
    <3> SUFFICES ASSUME pc'[r] # "start", ~overlapped[s] PROVE Knows(r)'
      BY <1>3 DEF KnownFor
    <3> QED
      BY <1>1, <1>2, <1>4, <1>7 DEF Knows, Exists
  <2>4. SheetsFor(r, s)'
    <3> SUFFICES ASSUME ~overlapped[s], ~interrupted[s]
                 PROVE  SheetsFor(r, s)'
      BY <1>3 DEF SheetsFor
    <3>1. /\ Sheeted(s) /\ Len(sheets[s]) <= 1
          /\ order[r].does # "edit" => entity[r].guard = shift[s].guard
      BY <1>p, <1>1, Working DEF SheetsOf
    <3>2. shift'[s] = entity[r] /\ shift'[s].status # "none" /\ sheets'[s] = sheets[s]
      BY <1>2, <1>3, <1>7 DEF Statuses, GuardStatuses, LiveStatuses
    <3> QED
      BY <1>1, <1>4, <3>1, <3>2 DEF SheetsFor, SheetsOf, Sheeted
  <2> QED
    BY <2>1, <2>2, <2>3, <2>4 DEF Own
<1>9. \A g \in Guards, t \in Times \cup {{}} :
        ~overlapped[s] /\ Mine(r, s, g, t)' => Claims(s, g, t)
  BY <1>p, <1>1, <1>4, <1>7 DEF Mine, Claims, Aiming, AtWork
<1>10. ~overlapped'[s] => ~overlapped[s]
  BY <1>3
<1> QED
  BY <1>1, <1>5, <1>6, <1>8, <1>9, <1>10, Local DEF Steady

-----------------------------------------------------------------------------
(* Beginning                                                               *)

(* What the requests that read shift s and go on to save e have in common. *)
Begins(r, does, s, e, to) ==
  /\ Load(r, does, s, e, to)
  /\ does \in Task /\ to \in Stage(does) \cap {"checked", "loaded", "condemned"}
  /\ e \in Shift
  /\ e.status = "unfilled" => e.guard = None
  /\ to # "condemned" => e.status \in Statuses
  /\ IF to = "checked" THEN shift[s].status = "none" /\ AtWork(s) = {} ELSE Exists(s)
  /\ does \notin {"create", "edit"} => to = "condemned" \/ e.guard = shift[s].guard
  /\ retimed' \in [ShiftIds -> BOOLEAN]
  /\ \A x \in ShiftIds : retimed[x] => retimed'[x]
  /\ \A x \in ShiftIds \ {s} : retimed'[x] = retimed[x]
  /\ to = "loaded" /\ ~overlapped[s] /\ e.guard = shift[s].guard /\ e.guard # None
       /\ e.status \in LiveStatuses =>
       shift[s].status \in LiveStatuses /\ (e.time = shift[s].time \/ retimed'[s])
  /\ \/ crowded' = crowded
     \/ \E g \in Guards : crowded' = [crowded EXCEPT ![g] = @ \/ Booking(g) # {}]
  /\ to # "condemned" /\ e.guard \notin {None, shift[s].guard} => CheckGuard(e.guard, e.time, s)

(* A guard found free has no claims that fit badly, if nobody else was     *)
(* booking.                                                                *)
LEMMA CheckSuffices ==
  ASSUME IInv, NEW s \in ShiftIds, NEW g \in Guards, NEW t \in Times \cup {{}},
         ~HasShiftClash(g, t, s), Booking(g) = {}
  PROVE  FitsIn(s, g, t)
<1> SUFFICES ASSUME NEW u \in ShiftIds \ {s}, NEW v \in Times \cup {{}}, Steady(u), Claims(u, g, v)
             PROVE  ~Overlap(t, v)
  BY DEF FitsIn
<1>1. CASE shift[u].guard = g /\ shift[u].time = v /\ shift[u].status \in LiveStatuses
  BY <1>1 DEF HasShiftClash, Overlap
<1>2. ASSUME NEW q \in AtWork(u), pc[q] \in Aiming, entity[q].guard = g, entity[q].time = v,
             entity[q].status \in LiveStatuses
      PROVE  ~Overlap(t, v)
  <2>1. q \in Requests /\ order[q].shift = u /\ pc[q] # "start"
    BY <1>2 DEF AtWork, Aiming
  <2>2. shift[u].guard = g
    BY <1>2, <2>1 DEF Booking, Aiming
  <2>3. Knows(q)
    BY <2>1, Working DEF Steady
  <2>4. g # None
    BY ShiftsAssumption DEF ShiftsAssumption
  <2>5. pc[q] # "checked"
    BY <2>1, <2>2, <2>3, <2>4 DEF Knows, NoShift
  <2>6. shift[u].status \in LiveStatuses /\ shift[u].time = v
    BY <1>2, <2>1, <2>2, <2>3, <2>4, <2>5 DEF Knows, Aiming, Steady
  <2> QED
    BY <2>2, <2>6 DEF HasShiftClash, Overlap
<1> QED
  BY <1>1, <1>2 DEF Claims

LEMMA BeginKeeps ==
  ASSUME IInv, NEW r \in Requests, NEW s \in ShiftIds, NEW does, NEW e, NEW to,
         Begins(r, does, s, e, to)
  PROVE  IInv'
<1>p. pc[r] = "start"
  BY DEF Begins, Load, Go
<1>1. does \in Task /\ to \in Stage(does) /\ to \in {"checked", "loaded", "condemned"} /\ e \in Shift
  BY DEF Begins
<1>2. /\ pc' = [pc EXCEPT ![r] = to]
      /\ order' = [order EXCEPT ![r] = [does |-> does, shift |-> s]]
      /\ entity' = [entity EXCEPT ![r] = e]
      /\ overlapped' = [overlapped EXCEPT ![s] = @ \/ AtWork(s) # {}]
      /\ UNCHANGED <<shift, sheets, diff, interrupted>>
  BY DEF Begins, Load, Go, rows
<1>3. /\ crowded' \in [Guards -> BOOLEAN]
      /\ \A g \in Guards : crowded[g] => crowded'[g]
  <2>1. CASE crowded' = crowded
    BY <2>1 DEF IInv, TypeOK
  <2>2. ASSUME NEW g \in Guards, crowded' = [crowded EXCEPT ![g] = @ \/ Booking(g) # {}]
        PROVE  <1>3
    <3>1. PICK b \in BOOLEAN : b = (crowded[g] \/ Booking(g) # {})
      OBVIOUS
    <3>2. crowded' = [crowded EXCEPT ![g] = b]
      BY <2>2, <3>1
    <3> QED
      BY <3>1, <3>2 DEF IInv, TypeOK
  <2> QED
    BY <2>1, <2>2 DEF Begins
<1>4. PICK b \in BOOLEAN : b = (overlapped[s] \/ AtWork(s) # {})
  OBVIOUS
<1>5. /\ overlapped' = [overlapped EXCEPT ![s] = b]
      /\ overlapped' \in [ShiftIds -> BOOLEAN] /\ overlapped'[s] = b
  BY <1>2, <1>4 DEF IInv, TypeOK
<1>6. /\ pc'[r] = to /\ order'[r] = [does |-> does, shift |-> s] /\ entity'[r] = e
      /\ pc' \in [Requests -> Pcs] /\ entity' \in [Requests -> Shift]
      /\ order' \in [Requests -> [does : Task, shift : ShiftIds] \cup {NoOrder}]
  BY <1>1, <1>2 DEF IInv, TypeOK, Pcs
<1>7. TypeOK'
  BY <1>2, <1>3, <1>5, <1>6 DEF IInv, TypeOK, Pcs, Begins
<1>8. Touch(r, s)
  <2>1. /\ overlapped[s] => overlapped'[s]
        /\ AtWork(s) # {} => overlapped'[s]
    BY <1>4, <1>5
  <2>2. \A x \in ShiftIds \ {s} : overlapped'[x] = overlapped[x]
    BY <1>5 DEF IInv, TypeOK
  <2>3. pc'[r] # "start" /\ order'[r].shift = s
    BY <1>1, <1>6
  <2>4. \A q \in Requests \ {r} :
          /\ pc'[q] = pc[q] /\ order'[q] = order[q]
          /\ entity'[q] = entity[q] /\ diff'[q] = diff[q]
    BY <1>2 DEF IInv, TypeOK
  <2> QED
    BY <1>p, <1>2, <1>3, <2>1, <2>2, <2>3, <2>4 DEF Touch, Begins
<1>9. ~overlapped'[s] => ~overlapped[s] /\ AtWork(s) = {}
  BY <1>4, <1>5
<1>10. Own(r, s)'
  <2>1. PlacedFor(r)' /\ UnsheetedFor(r)'
    BY <1>1, <1>6 DEF PlacedFor, UnsheetedFor
  <2>2. FreeFor(r, s)'
    BY <1>1, <1>2, <1>6, <1>9 DEF FreeFor, IInv, Free, Begins, Aiming
  <2>3. KnownFor(r, s)'
    <3> SUFFICES ASSUME ~overlapped'[s] PROVE Knows(r)'
      BY DEF KnownFor
    <3>1. to = "checked" => shift[s] = NoShift
      BY <1>9 DEF Begins, IInv, Free
    <3>2. to # "checked" => Exists(s)
      BY DEF Begins
    <3> QED
      BY <1>1, <1>2, <1>6, <1>9, <3>1, <3>2 DEF Knows, Exists, Begins
  <2>4. SheetsFor(r, s)'
    <3> SUFFICES ASSUME ~overlapped'[s], ~interrupted[s]
                 PROVE  SheetsFor(r, s)'
      BY <1>2 DEF SheetsFor
    <3>1. /\ Len(sheets[s]) <= 1 /\ Sheeted(s)
          /\ shift[s].status = "none" => sheets[s] = <<>>
      BY <1>9 DEF IInv, Sheets
    <3>2. to = "loaded" /\ does # "edit" => e.guard = shift[s].guard
      BY <1>1 DEF Begins, Stage
    <3> QED
      BY <1>1, <1>2, <1>6, <3>1, <3>2 DEF SheetsFor, SheetsOf, Sheeted, Begins
  <2> QED
    BY <2>1, <2>2, <2>3, <2>4 DEF Own
<1>11. ASSUME NEW g \in Guards, NEW t \in Times \cup {{}},
              Steady(s)', ~crowded'[g], Mine(r, s, g, t)'
       PROVE  Claims(s, g, t) \/ FitsIn(s, g, t)
  <2>1. CASE shift[s].guard = g /\ shift[s].time = t /\ shift[s].status \in LiveStatuses
    BY <2>1 DEF Claims
  <2>2. CASE to \in Aiming /\ e.guard = g /\ e.time = t /\ e.status \in LiveStatuses
    <3>1. ~overlapped[s] /\ AtWork(s) = {} /\ ~retimed'[s] /\ g # None
      BY <1>9, <1>11, ShiftsAssumption DEF Steady, ShiftsAssumption
    <3>2. CASE g = shift[s].guard
      <4>1. to = "loaded"
        BY <1>1, <2>2, <3>1, <3>2 DEF Begins, IInv, Free, NoShift, Aiming
      <4> QED
        BY <2>2, <3>1, <3>2, <4>1 DEF Begins, Claims
    <3>3. CASE g # shift[s].guard
      <4>1. CheckGuard(g, t, s)
        BY <2>2, <3>1, <3>3 DEF Begins, Aiming
      <4>2. Booking(g) = {}
        <5> SUFFICES ASSUME Booking(g) # {} PROVE FALSE
          OBVIOUS
        <5>1. crowded' = [crowded EXCEPT ![g] = TRUE]
          BY <4>1 DEF CheckGuard, IInv, TypeOK
        <5> QED
          BY <1>11, <5>1 DEF IInv, TypeOK
      <4> QED
        BY <4>1, <4>2, CheckSuffices DEF CheckGuard
    <3> QED
      BY <3>2, <3>3
  <2> QED
    BY <1>2, <1>6, <1>11, <2>1, <2>2 DEF Mine
<1> QED
  BY <1>7, <1>8, <1>10, <1>11, Local

LEMMA StatusesApart ==
  /\ LiveStatuses \subseteq GuardStatuses /\ GuardStatuses \subseteq Statuses
  /\ "none" \notin Statuses /\ "removed" \notin Statuses
  /\ {"unfilled", "cancelled"} \subseteq Statuses /\ "unfilled" \notin LiveStatuses
  /\ "offered" \in LiveStatuses /\ "ready" \in LiveStatuses
  BY DEF Statuses, GuardStatuses, LiveStatuses

LEMMA CreateBegins ==
  ASSUME IInv, NEW p \in Planners, NEW s \in ShiftIds, NEW g \in Guards \cup {None}, NEW t \in Times,
         Create(p, s, g, t)
  PROVE  \E e \in Shift : Begins(p, "create", s, e, "checked")
<1>1. PICK status \in (IF g = None THEN {"unfilled", "cancelled"} ELSE {"offered", "cancelled"}) :
        Load(p, "create", s, [status |-> status, guard |-> g, time |-> t], "checked")
  BY DEF Create
<1> DEFINE e == [status |-> status, guard |-> g, time |-> t]
<1>2. status \in Statuses /\ (status = "unfilled" => g = None)
  BY <1>1, StatusesApart
<1>3. e \in Shift /\ e.status = status /\ e.guard = g /\ e.time = t
  BY <1>2 DEF Shift
<1>4. shift[s].status = "none" /\ AtWork(s) = {} /\ retimed' = retimed
  BY DEF Create
<1>5. IF g = None THEN crowded' = crowded ELSE CheckGuard(g, t, s)
  BY DEF Create
<1>6. \/ crowded' = crowded
      \/ \E h \in Guards : crowded' = [crowded EXCEPT ![h] = @ \/ Booking(h) # {}]
  BY <1>5 DEF CheckGuard
<1>7. "create" \in Task /\ "checked" \in Stage("create")
  BY DEF Task, Stage
<1>8. Load(p, "create", s, e, "checked")
  BY <1>1
<1> HIDE DEF e
<1>9. Begins(p, "create", s, e, "checked")
  BY <1>2, <1>3, <1>4, <1>5, <1>6, <1>7, <1>8 DEF Begins, IInv, TypeOK
<1> QED
  BY <1>3, <1>9

LEMMA EditBegins ==
  ASSUME IInv, NEW p \in Planners, NEW s \in ShiftIds, NEW g \in Guards \cup {None}, NEW t \in Times,
         Edit(p, s, g, t)
  PROVE  \E e \in Shift : Begins(p, "edit", s, e, "loaded")
<1>1. PICK asked \in Statuses \cup {None}, status \in Statuses :
        /\ IF asked = None THEN FollowsGuard(shift[s].status, shift[s].guard, g, status)
                           ELSE status = asked /\ MayBecome(shift[s].status, asked, g)
        /\ Load(p, "edit", s,
                [status |-> status, guard |-> IF status = "unfilled" THEN None ELSE g, time |-> t],
                "loaded")
  BY DEF Edit
<1> DEFINE h == IF status = "unfilled" THEN None ELSE g
           e == [status |-> status, guard |-> h, time |-> t]
<1>2. h \in Guards \cup {None} /\ (h # None => h = g) /\ (status = "unfilled" => h = None)
  OBVIOUS
<1>3. e \in Shift /\ e.status = status /\ e.guard = h /\ e.time = t
  BY <1>2 DEF Shift
<1>4. Exists(s) /\ shift[s] \in Shift
  BY DEF Edit, IInv, TypeOK
<1>5. IF g \in {None, shift[s].guard} THEN crowded' = crowded ELSE CheckGuard(g, t, s)
  BY DEF Edit
<1>6. \/ crowded' = crowded
      \/ \E x \in Guards : crowded' = [crowded EXCEPT ![x] = @ \/ Booking(x) # {}]
  BY <1>5 DEF CheckGuard
<1>7. "edit" \in Task /\ "loaded" \in Stage("edit")
  BY DEF Task, Stage
<1>8. Load(p, "edit", s, e, "loaded")
  BY <1>1
<1>9. ~overlapped[s] /\ h = shift[s].guard /\ h # None /\ status \in LiveStatuses =>
        shift[s].status \in LiveStatuses
  <2> SUFFICES ASSUME ~overlapped[s], g = shift[s].guard, g # None, status \in LiveStatuses
               PROVE  shift[s].status \in LiveStatuses
    BY <1>2
  <2>1. CASE asked = None
    BY <1>1, <2>1 DEF FollowsGuard
  <2>2. CASE asked # None
    <3>1. status = shift[s].status \/ status \in Transitions[shift[s].status]
      BY <1>1, <2>2 DEF MayBecome
    <3>2. shift[s].status # "unfilled"
      BY DEF IInv, Free
    <3> QED
      BY <1>4, <3>1, <3>2 DEF Transitions, Exists, Statuses, GuardStatuses, LiveStatuses
  <2> QED
    BY <2>1, <2>2
<1>10. retimed' = [retimed EXCEPT ![s] = @ \/ (t # shift[s].time /\ g = shift[s].guard /\ g # None)]
  BY DEF Edit
<1>11. PICK b \in BOOLEAN :
         b = (retimed[s] \/ (t # shift[s].time /\ g = shift[s].guard /\ g # None))
  OBVIOUS
<1>12. retimed' = [retimed EXCEPT ![s] = b]
  BY <1>10, <1>11
<1>13. /\ retimed' \in [ShiftIds -> BOOLEAN] /\ retimed'[s] = b
       /\ \A x \in ShiftIds \ {s} : retimed'[x] = retimed[x]
  BY <1>12 DEF IInv, TypeOK
<1>14. /\ \A x \in ShiftIds : retimed[x] => retimed'[x]
       /\ h = shift[s].guard /\ h # None => t = shift[s].time \/ retimed'[s]
  BY <1>2, <1>11, <1>13
<1> HIDE DEF e, h
<1>15. Begins(p, "edit", s, e, "loaded")
  <2>1. h \notin {None, shift[s].guard} => CheckGuard(h, t, s)
    BY <1>2, <1>5
  <2> QED
    BY <1>2, <1>3, <1>4, <1>6, <1>7, <1>8, <1>9, <1>13, <1>14, <2>1 DEF Begins
<1> QED
  BY <1>3, <1>15

LEMMA RemoveBegins ==
  ASSUME IInv, NEW p \in Planners, NEW s \in ShiftIds, RemoveShift(p, s)
  PROVE  Begins(p, "remove", s, NoShift, "condemned")
<1>1. "remove" \in Task /\ "condemned" \in Stage("remove")
  BY DEF Task, Stage
<1> QED
  BY <1>1, NoShiftTyped DEF RemoveShift, Begins, IInv, TypeOK

(* The requests of guards keep the guard and the time of a shift.          *)
LEMMA PhoneBegins ==
  ASSUME IInv, NEW d \in Phones, NEW s \in ShiftIds, Respond(d, s) \/ BookOn(d, s) \/ BookOff(d, s)
  PROVE  \E does, e : Begins(d, does, s, e, "loaded")
<1>1. PICK does \in {"respond", "bookOn", "bookOff"}, status \in GuardStatuses :
        /\ Load(d, does, s, [shift[s] EXCEPT !.status = status], "loaded")
        /\ shift[s].status \in LiveStatuses
        /\ UNCHANGED <<crowded, retimed>>
  <2>1. /\ {"ready", "rejected", "in_progress", "completed"} \subseteq GuardStatuses
        /\ {"ready", "offered", "in_progress"} \subseteq LiveStatuses
    BY DEF GuardStatuses, LiveStatuses
  <2>2. CASE Respond(d, s)
    BY <2>1, <2>2 DEF Respond
  <2>3. CASE BookOn(d, s)
    BY <2>1, <2>3 DEF BookOn
  <2>4. CASE BookOff(d, s)
    BY <2>1, <2>4 DEF BookOff
  <2> QED
    BY <2>2, <2>3, <2>4
<1> DEFINE e == [shift[s] EXCEPT !.status = status]
<1>2. shift[s] \in Shift
  BY DEF IInv, TypeOK
<1>3. status \in Statuses /\ status # "unfilled"
  BY StatusesApart DEF GuardStatuses, LiveStatuses
<1>4. e \in Shift /\ e.status = status /\ e.guard = shift[s].guard /\ e.time = shift[s].time
  BY <1>2, <1>3 DEF Shift
<1>5. Exists(s)
  BY <1>1, StatusesApart DEF Exists
<1>6. does \in Task /\ "loaded" \in Stage(does)
  BY DEF Task, Stage
<1>7. Load(d, does, s, e, "loaded")
  BY <1>1
<1> HIDE DEF e
<1>8. Begins(d, does, s, e, "loaded")
  BY <1>1, <1>3, <1>4, <1>5, <1>6, <1>7 DEF Begins, IInv, TypeOK
<1> QED
  BY <1>8

-----------------------------------------------------------------------------
(* The induction.                                                          *)

LEMMA InitInv == ASSUME Init PROVE IInv
<1> USE DEF Init
<1>1. TypeOK
  BY NoShiftTyped DEF TypeOK
<1>2. \A s \in ShiftIds : AtWork(s) = {}
  BY ShiftsAssumption DEF AtWork, NoOrder, ShiftsAssumption
<1>3. Unsheeted /\ Placed /\ Alone /\ Known
  BY <1>2 DEF Unsheeted, Placed, Alone, Known
<1>4. Free
  BY NoShiftTyped DEF Free, Aiming
<1>5. Apart
  <2>1. ASSUME NEW s \in ShiftIds, NEW g, NEW t PROVE ~Claims(s, g, t)
    BY <1>2, NoShiftTyped DEF Claims, LiveStatuses
  <2> QED
    BY <2>1 DEF Apart
<1>6. Sheets
  BY <1>2, NoShiftTyped DEF Sheets, Sheeted
<1> QED
  BY <1>1, <1>3, <1>4, <1>5, <1>6 DEF IInv

LEMMA StepInv == ASSUME IInv, [Next]_vars PROVE IInv'
<1>1. ASSUME NEW p \in Planners, Planner(p) PROVE IInv'
  <2>p. p \in Requests
    BY DEF Requests
  <2>1. ASSUME NEW s \in ShiftIds, NEW g \in Guards \cup {None}, NEW t \in Times,
               Create(p, s, g, t) \/ Edit(p, s, g, t)
        PROVE  IInv'
    BY <2>p, <2>1, CreateBegins, EditBegins, BeginKeeps
  <2>2. ASSUME NEW s \in ShiftIds, RemoveShift(p, s) PROVE IInv'
    BY <2>p, <2>2, RemoveBegins, BeginKeeps
  <2> QED
    BY <1>1, <2>1, <2>2, InsertKeeps, CreateSheetKeeps, SaveSheetsKeeps, DeleteSheetsKeeps,
       DeleteShiftKeeps DEF Planner
<1>2. ASSUME NEW d \in Phones, Phone(d) PROVE IInv'
  <2>1. d \in Requests
    BY DEF Requests
  <2>2. PICK s \in ShiftIds : Respond(d, s) \/ BookOn(d, s) \/ BookOff(d, s)
    BY <1>2 DEF Phone
  <2> QED
    BY <2>1, <2>2, PhoneBegins, BeginKeeps
<1>3. ASSUME NEW r \in Requests, DiffShift(r) \/ SaveShift(r) \/ Abandon(r) PROVE IInv'
  BY <1>3, DiffKeeps, SaveKeeps, InterruptKeeps DEF Abandon
<1>4. CASE UNCHANGED vars
  <2> USE <1>4 DEF vars
  <2>1. TypeOK' /\ Unsheeted' /\ Placed' /\ Alone' /\ Free'
    BY DEF IInv, TypeOK, Unsheeted, Placed, Alone, AtWork, Free
  <2>2. Known' /\ Apart' /\ Sheets'
    BY DEF IInv, Known, Knows, Exists, Apart, Steady, Claims, AtWork, Sheets, Sheeted, SheetsOf
  <2> QED
    BY <2>1, <2>2 DEF IInv
<1> QED
  BY <1>1, <1>2, <1>3, <1>4 DEF Next

LEMMA Invariance == Spec => []IInv
<1>1. Init => IInv
  BY InitInv
<1>2. IInv /\ [Next]_vars => IInv'
  BY StepInv
<1> QED
  BY <1>1, <1>2, PTL DEF Spec

(* Rows and what requests remember are of their types (shift.service.ts    *)
(* throughout).                                                            *)
THEOREM TypeCorrect == Spec => []TypeOK
<1>1. IInv => TypeOK
  BY DEF IInv
<1> QED
  BY <1>1, Invariance, PTL

(* However many shifts, guards and requests, two live shifts of a guard    *)
(* overlap only after a move, or after two requests met on a shift or over *)
(* the guard: hasGuardShiftClash and the status transitions leave no gap.  *)
THEOREM ClashTheorem == Spec => []ClashOnlyByMoveOrRace
<1>1. IInv => ClashOnlyByMoveOrRace
  <2> SUFFICES ASSUME IInv, NEW s \in ShiftIds, NEW u \in ShiftIds, s # u, DoubleBooked(s, u),
                      ~crowded[shift[s].guard],
                      \A x \in {s, u} : ~retimed[x] /\ ~overlapped[x]
               PROVE  FALSE
    BY DEF ClashOnlyByMoveOrRace
  <2>1. shift[s] \in Shift /\ shift[u] \in Shift
    BY DEF IInv, TypeOK
  <2>2. PICK g \in Guards, t \in Times \cup {{}}, v \in Times \cup {{}} :
          /\ shift[s].guard = g /\ shift[u].guard = g
          /\ shift[s].time = t /\ shift[u].time = v /\ Overlap(t, v)
    BY <2>1 DEF DoubleBooked, Shift
  <2>3. Claims(s, g, t) /\ Claims(u, g, v) /\ Steady(s) /\ Steady(u)
    BY <2>2 DEF Claims, DoubleBooked, Steady
  <2> QED
    BY <2>2, <2>3 DEF IInv, Apart
<1> QED
  BY <1>1, Invariance, PTL

(* A shift with a guard that no two requests met on and no request failed  *)
(* on has one timesheet, in the guard's name (createForCompany,            *)
(* updateForUser and remove in shift.service.ts).                          *)
THEOREM SheetTheorem == Spec => []SheetFollowsGuard
<1>1. IInv => SheetFollowsGuard
  BY DEF IInv, Sheets, Sheeted, SheetFollowsGuard, Undisturbed
<1> QED
  BY <1>1, Invariance, PTL
==============================================================================
