-------------------------------- MODULE Duty ---------------------------------
(***************************************************************************)
(* Guards on duty: booking on and off (attendance.service.ts), welfare     *)
(* checks (daily-log.service.ts) and the scan that raises an alert when    *)
(* one is overdue (safety-alert.service.ts).                               *)
(*                                                                         *)
(* Booking saves an event, then the shift, then (booking off) the          *)
(* timesheet; a phone that gets no answer tries again.  The scan runs      *)
(* every five minutes: it notes the time, lists the shifts in progress     *)
(* and takes them one by one.  Nothing is locked.                          *)
(*                                                                         *)
(* No two rows are inserted at the same instant: an insertion takes the    *)
(* next one.  Shifts start at instant 0 and keep their guard, start and    *)
(* interval here; Shifts has the rest of their life.                       *)
(***************************************************************************)
EXTENDS Integers, Sequences, FiniteSets, FiniteSetsExt

CONSTANTS
  ShiftIds,  \* shifts that were accepted by their guards
  Phones,    \* concurrent booking requests
  Interval,  \* welfare check interval
  MaxTime,   \* bound: the last instant at which guards do anything
  MaxFaults, \* bound: how often a scan is cut short
  MaxCalls,  \* bound: alerts that guards raise
  None       \* no shift, no minutes

ASSUME DutyAssumption ==
  /\ IsFiniteSet(ShiftIds)
  /\ Interval \in Nat \ {0}
  /\ {MaxTime, MaxFaults, MaxCalls} \subseteq Nat
  /\ None \notin ShiftIds

VARIABLES
  clock,   \* the instant of the latest insertion
  status,  \* [ShiftIds -> status of the shift]
  events,  \* [ShiftIds -> attendance events in order]
  minutes, \* [ShiftIds -> the events its verified minutes lie between]
  logs,    \* [ShiftIds -> instants of its welfare checks]
  alerts,  \* safety alerts
  pc,      \* [Phones -> how far the request has got]
  visit,   \* [Phones -> what the request does, and the events it knows]
  scan,    \* the scan: its time, the shifts left, the alert it will raise
  faults,  \* history: scans cut short
  doubled  \* history: two booking requests of the shift overlapped

desk == <<clock, status, events, minutes, logs, alerts>>
vars == <<clock, status, events, minutes, logs, alerts, pc, visit, scan, faults, doubled>>

Statuses == {"ready", "in_progress", "completed", "missed", "cancelled"}
Event == [type : {"in", "out"}, at : Nat]

(* Guards and the scan write the same rows; `by`, which no column holds,   *)
(* tells whose an alert is, and `since` from when the scan counted.        *)
Alert == [shift : ShiftIds, type : {"missed", "other"}, by : {"guard", "scan"},
          at : Nat, since : Nat]

NoVisit == [shift |-> None, does |-> "nothing", from |-> 0, own |-> 0]
NoScan == [pc |-> "idle", now |-> 0, todo |-> {}, shift |-> None, since |-> 0]

Init ==
  /\ clock = 0
  /\ status = [s \in ShiftIds |-> "ready"]
  /\ events = [s \in ShiftIds |-> <<>>]
  /\ minutes = [s \in ShiftIds |-> None]
  /\ logs = [s \in ShiftIds |-> {}]
  /\ alerts = {}
  /\ pc = [d \in Phones |-> "start"]
  /\ visit = [d \in Phones |-> NoVisit]
  /\ scan = NoScan
  /\ faults = 0
  /\ doubled = [s \in ShiftIds |-> FALSE]

(* Time passes without an insertion, until the last lapse can be seen.     *)
Tick ==
  /\ clock <= MaxTime + Interval
  /\ clock' = clock + 1
  /\ UNCHANGED <<status, events, minutes, logs, alerts, pc, visit, scan, faults, doubled>>

-----------------------------------------------------------------------------
(* Attendance                                                              *)

Visiting(s) == {d \in Phones : visit[d].shift = s}
LatestIs(s, type) == events[s] # <<>> /\ events[s][Len(events[s])].type = type

(* The request has loaded shift s and its latest event, and verified GPS   *)
(* and NFC evidence.                                                       *)
Visit(d, s, does) ==
  /\ pc[d] = "start" /\ pc' = [pc EXCEPT ![d] = "verified"]
  /\ visit' = [visit EXCEPT ![d] = [shift |-> s, does |-> does, from |-> Len(events[s]), own |-> 0]]
  /\ doubled' = [doubled EXCEPT ![s] = @ \/ Visiting(s) # {}]
  /\ UNCHANGED <<desk, scan, faults>>

(* Seeded fault: the latest event is not looked at.                        *)
BookOn_StatusOnly(d, s) == status[s] = "ready" /\ Visit(d, s, "in")

(* checkIn.  A repeated call that finds the guard booked on answers with   *)
(* the event there is and changes nothing.                                 *)
BookOn(d, s) == status[s] = "ready" /\ ~LatestIs(s, "in") /\ Visit(d, s, "in")

(* Seeded fault: the latest event need not be a check-in.                  *)
BookOff_StatusOnly(d, s) == status[s] = "in_progress" /\ Visit(d, s, "out")

(* checkOut, likewise.                                                     *)
BookOff(d, s) == status[s] = "in_progress" /\ LatestIs(s, "in") /\ Visit(d, s, "out")

RecordEvent(d) ==
  LET s == visit[d].shift IN
  /\ pc[d] = "verified" /\ pc' = [pc EXCEPT ![d] = "recorded"]
  /\ clock < MaxTime /\ clock' = clock + 1
  /\ events' = [events EXCEPT ![s] = Append(@, [type |-> visit[d].does, at |-> clock + 1])]
  /\ visit' = [visit EXCEPT ![d].own = Len(events[s]) + 1]
  /\ UNCHANGED <<status, minutes, logs, alerts, scan, faults, doubled>>

Leave(d) ==
  /\ pc' = [pc EXCEPT ![d] = "start"]
  /\ visit' = [visit EXCEPT ![d] = NoVisit]

(* save(shift) writes the status the request decided on.                   *)
SaveShift(d) ==
  LET v == visit[d] IN
  /\ pc[d] = "recorded"
  /\ status' = [status EXCEPT ![v.shift] = IF v.does = "in" THEN "in_progress" ELSE "completed"]
  /\ IF v.does = "in"
     THEN Leave(d)
     ELSE pc' = [pc EXCEPT ![d] = "saved"] /\ UNCHANGED visit
  /\ UNCHANGED <<clock, events, minutes, logs, alerts, scan, faults, doubled>>

(* updateHoursForShift                                                     *)
SaveHours(d) ==
  LET v == visit[d] IN
  /\ pc[d] = "saved"
  /\ minutes' = [minutes EXCEPT ![v.shift] = <<v.from, v.own>>]
  /\ Leave(d)
  /\ UNCHANGED <<clock, status, events, logs, alerts, scan, faults, doubled>>

(* An error, or the end of the server process, between two saves.          *)
Abandon(d) ==
  /\ pc[d] # "start"
  /\ Leave(d)
  /\ UNCHANGED <<desk, scan, faults, doubled>>

Managed(s, changes) ==
  /\ \E to \in {c[2] : c \in {d \in changes : d[1] = status[s]}} :
       status' = [status EXCEPT ![s] = to]
  /\ UNCHANGED <<clock, events, minutes, logs, alerts, pc, visit, scan, faults, doubled>>

Changes ==
  {<<"ready", "in_progress">>, <<"ready", "missed">>, <<"ready", "cancelled">>,
   <<"missed", "cancelled">>, <<"in_progress", "completed">>}

(* Seeded fault: an accepted shift goes back to the pool.                  *)
Manage_ClearsGuard(s) == Managed(s, Changes \cup {<<"ready", "unfilled">>})

(* What updateForUser lets a company do to an accepted shift.              *)
Manage(s) == Managed(s, Changes)

-----------------------------------------------------------------------------
(* Welfare                                                                 *)

(* createForGuard of daily logs, with a welfare check.                     *)
LogWelfare(s) ==
  /\ status[s] = "in_progress"
  /\ clock < MaxTime /\ clock' = clock + 1
  /\ logs' = [logs EXCEPT ![s] = @ \cup {clock + 1}]
  /\ UNCHANGED <<status, events, minutes, alerts, pc, visit, scan, faults, doubled>>

(* createForGuard of safety alerts.  A guard may name any type: panic,     *)
(* welfare and the like, and missed_checkcall, which is the scan's too.    *)
CallForHelp(s, type) ==
  /\ status[s] = "in_progress"
  /\ Cardinality({a \in alerts : a.by = "guard"}) < MaxCalls
  /\ clock < MaxTime /\ clock' = clock + 1
  /\ alerts' = alerts \cup
       {[shift |-> s, type |-> type, by |-> "guard", at |-> clock + 1, since |-> 0]}
  /\ UNCHANGED <<status, events, minutes, logs, pc, visit, scan, faults, doubled>>

CheckIns(s) == {events[s][i].at : i \in {j \in DOMAIN events[s] : events[s][j].type = "in"}}

(* Seeded fault: booking on does not start the interval.                   *)
Reference_LogsOnly(s) == Max({0} \cup logs[s])

(* The instant from which the interval counts: start, check-in or welfare  *)
(* check, whichever is latest.                                             *)
Reference(s) == Max({0} \cup CheckIns(s) \cup logs[s])

(* Seeded fault: any alert of the shift will do.                           *)
AlertedSince_AnyType(s, t) == \E a \in alerts : a.shift = s /\ a.at > t

(* Seeded fault: no alert is looked for.                                   *)
AlertedSince_Never(s, t) == FALSE

(* Whoever raised it, and for whatever lapse.                              *)
AlertedSince(s, t) == \E a \in alerts : a.shift = s /\ a.type = "missed" /\ a.at > t

(* A scan of that time with these shifts left: it ends with the last one.  *)
ScanOf(now, todo) ==
  IF todo = {} THEN NoScan ELSE [NoScan EXCEPT !.pc = "listed", !.now = now, !.todo = todo]

BeginScan ==
  /\ scan.pc = "idle"
  /\ scan' = ScanOf(clock, {s \in ShiftIds : status[s] = "in_progress"})
  /\ UNCHANGED <<desk, pc, visit, faults, doubled>>

(* The next shift: is it overdue, and is there no alert of this lapse?     *)
ReadShift(s) ==
  LET since == Reference(s)
      left == scan.todo \ {s} IN
  /\ scan.pc = "listed" /\ s \in scan.todo
  /\ scan' = IF scan.now > since + Interval /\ ~AlertedSince(s, since)
             THEN [scan EXCEPT !.pc = "found", !.todo = left, !.shift = s, !.since = since]
             ELSE ScanOf(scan.now, left)
  /\ UNCHANGED <<desk, pc, visit, faults, doubled>>

RaiseAlert ==
  /\ scan.pc = "found"
  /\ clock' = clock + 1
  /\ alerts' = alerts \cup
       {[shift |-> scan.shift, type |-> "missed", by |-> "scan", at |-> clock + 1,
         since |-> scan.since]}
  /\ scan' = ScanOf(scan.now, scan.todo)
  /\ UNCHANGED <<status, events, minutes, logs, pc, visit, faults, doubled>>

(* A failed statement, of the audit log or a notification too, ends the    *)
(* whole scan; so does the end of the server process.                      *)
AbortScan ==
  /\ scan.pc # "idle"
  /\ faults < MaxFaults /\ faults' = faults + 1
  /\ scan' = NoScan
  /\ UNCHANGED <<desk, pc, visit, doubled>>

Scan == BeginScan \/ (\E s \in ShiftIds : ReadShift(s)) \/ RaiseAlert

-----------------------------------------------------------------------------
Phone(d) ==
  \/ \E s \in ShiftIds : BookOn(d, s) \/ BookOff(d, s)
  \/ RecordEvent(d) \/ SaveShift(d) \/ SaveHours(d) \/ Abandon(d)

Next ==
  \/ Tick
  \/ \E d \in Phones : Phone(d)
  \/ \E s \in ShiftIds : Manage(s) \/ LogWelfare(s)
  \/ \E s \in ShiftIds, type \in {"missed", "other"} : CallForHelp(s, type)
  \/ Scan \/ AbortScan

Spec == Init /\ [][Next]_vars

(* setInterval starts a scan again and again, and a scan that runs ends.   *)
FairSpec == Spec /\ WF_vars(Scan)

-----------------------------------------------------------------------------
(* Rows and the requests' memory are of their types.                       *)
TypeOK ==
  /\ clock \in Nat
  /\ status \in [ShiftIds -> Statuses]
  /\ events \in [ShiftIds -> Seq(Event)]
  /\ minutes \in [ShiftIds -> (Nat \X Nat) \cup {None}]
  /\ logs \in [ShiftIds -> SUBSET Nat]
  /\ alerts \subseteq Alert
  /\ pc \in [Phones -> {"start", "verified", "recorded", "saved"}]
  /\ visit \in [Phones -> [shift : ShiftIds \cup {None}, does : {"in", "out", "nothing"},
                           from : Nat, own : Nat]]
  /\ scan \in [pc : {"idle", "listed", "found"}, now : Nat, todo : SUBSET ShiftIds,
               shift : ShiftIds \cup {None}, since : Nat]
  /\ faults \in 0 .. MaxFaults
  /\ doubled \in [ShiftIds -> BOOLEAN]

(* The attendance of a shift is on, off, on, off, although requests are    *)
(* cut short between event and shift and tried again, and companies edit   *)
(* the status meanwhile; only overlapping bookings break it.               *)
EventsAlternate ==
  \A s \in ShiftIds : ~doubled[s] =>
    \A i \in DOMAIN events[s] : events[s][i].type = IF i % 2 = 1 THEN "in" ELSE "out"

(* RB-007: verified minutes run from a check-in to a later check-out of    *)
(* the shift, whatever overlaps.                                           *)
MinutesAreAttended ==
  \A s \in ShiftIds : minutes[s] # None =>
    /\ minutes[s][1] < minutes[s][2]
    /\ {minutes[s][1], minutes[s][2]} \subseteq DOMAIN events[s]
    /\ events[s][minutes[s][1]].type = "in" /\ events[s][minutes[s][2]].type = "out"

(* An alert of the scan tells the truth: for longer than the interval the  *)
(* guard had neither checked in nor logged a welfare check, although the   *)
(* scan reads on while guards act.  Of an alert that a guard raises as     *)
(* missed_checkcall nothing is known.                                      *)
AlertMeansLapse ==
  \A a \in alerts : a.by = "scan" =>
    /\ a.at > a.since + Interval
    /\ CheckIns(a.shift) \cup logs[a.shift] \subseteq Nat \ (a.since + 1 .. a.since + Interval)

(* UAT-OPS-003: between two alerts that the scan raises for a shift, its   *)
(* guard was heard of, before the interval of the later one began.         *)
OneAlertPerLapse ==
  \A a, b \in alerts :
    a.by = "scan" /\ b.by = "scan" /\ a.shift = b.shift /\ a.at < b.at =>
      \E t \in CheckIns(a.shift) \cup logs[a.shift] : a.at < t /\ t <= b.since

Lapsed(s) == status[s] = "in_progress" /\ clock > Reference(s) + Interval

(* The scan has raised an alert since the guard was last heard of.         *)
Alerted(s) == \E a \in alerts : a.shift = s /\ a.by = "scan" /\ a.at > Reference(s)

(* The guard has raised a missed_checkcall himself, which is not hearing   *)
(* of him, and keeps the scan silent.                                      *)
Forestalled(s) ==
  \E a \in alerts : a.shift = s /\ a.by = "guard" /\ a.type = "missed" /\ a.at > Reference(s)

(* UAT-OPS-003: a lapse is followed by an alert of the scan or by the      *)
(* guard or the company ending it, although scans are cut short and guards *)
(* raise other alerts.  One exception is left: a guard's own               *)
(* missed_checkcall.                                                       *)
OverdueIsAlerted ==
  \A s \in ShiftIds : Lapsed(s) ~> (~Lapsed(s) \/ Alerted(s) \/ Forestalled(s))

(* The same, of an alert that the scan raised for this very lapse.         *)
EveryLapseIsAlerted ==
  \A s \in ShiftIds :
    Lapsed(s) ~> (~Lapsed(s) \/ \E a \in alerts : a.shift = s /\ a.by = "scan"
                                                  /\ a.since = Reference(s))
==============================================================================
