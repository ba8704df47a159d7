----------------------------- MODULE DutyProofs ------------------------------
(***************************************************************************)
(* Theorems about Duty, for any shifts, phones, interval and bounds.       *)
(***************************************************************************)
EXTENDS Duty, NaturalsInduction, WellFoundedInduction, TLAPS

-----------------------------------------------------------------------------
(* The inductive invariant.                                                *)

(* A request at work knows its shift; only booking off goes on to hours.   *)
Placed ==
  \A d \in Phones :
    \/ pc[d] = "start" /\ visit[d] = NoVisit
    \/ /\ pc[d] # "start"
       /\ visit[d].shift \in ShiftIds /\ visit[d].does \in {"in", "out"}
       /\ pc[d] = "saved" => visit[d].does = "out"

(* The events that a request knows are there, and of the type it takes     *)
(* them for.                                                               *)
Remembers(d) ==
  LET v == visit[d] IN
  /\ v.from <= Len(events[v.shift])
  /\ v.does = "out" => v.from \in DOMAIN events[v.shift] /\ events[v.shift][v.from].type = "in"
  /\ pc[d] \in {"recorded", "saved"} =>
       /\ v.from < v.own /\ v.own \in DOMAIN events[v.shift]
       /\ events[v.shift][v.own].type = v.does

Remembered == \A d \in Phones : pc[d] # "start" => Remembers(d)

(* Bookings that never met come one at a time, and find the latest event   *)
(* as it was when they looked.                                             *)
Alone ==
  \A s \in ShiftIds : ~doubled[s] => \A d, e \in Visiting(s) : d = e

Fresh ==
  \A d \in Phones :
    pc[d] = "verified" /\ ~doubled[visit[d].shift] =>
      (visit[d].does = "out" <=> LatestIs(visit[d].shift, "in"))

BookInv == Placed /\ Remembered /\ Alone /\ Fresh /\ EventsAlternate /\ MinutesAreAttended

(* When the company heard of the guard.                                    *)
Heard(s) == CheckIns(s) \cup logs[s]

(* Nothing is dated later than now.                                        *)
Stamped ==
  /\ \A s \in ShiftIds : Heard(s) \subseteq 1 .. clock
  /\ \A a \in alerts : a.at \in 1 .. clock
  /\ scan.now <= clock

(* What the scan raises is a missed-welfare alert: its look for one sees   *)
(* every alert that it has raised.                                         *)
OwnAreSeen == \A a \in alerts : a.by = "scan" => a.type = "missed"

(* No two insertions share an instant.                                     *)
Apart == \A a \in alerts : a.at \notin Heard(a.shift)

(* What the scan found of a shift is still so when it raises the alert:    *)
(* news that came in between is later than the interval.                   *)
Found ==
  scan.pc = "found" =>
    /\ scan.shift \in ShiftIds
    /\ scan.since + Interval < scan.now
    /\ Heard(scan.shift) \subseteq Nat \ (scan.since + 1 .. scan.since + Interval)
    /\ \A a \in alerts : a.by = "scan" /\ a.shift = scan.shift =>
         \E t \in Heard(scan.shift) : a.at < t /\ t <= scan.since

ScanInv == Stamped /\ OwnAreSeen /\ Apart /\ Found /\ AlertMeansLapse /\ OneAlertPerLapse

IInv == TypeOK /\ BookInv /\ ScanInv

-----------------------------------------------------------------------------
(* A bounded set of instants has a latest one.                             *)
LEMMA LatestExists ==
  ASSUME NEW n \in Nat, NEW S \in SUBSET (0 .. n), S # {}
  PROVE  Max(S) \in S /\ \A t \in S : t <= Max(S)
<1> DEFINE Left == {n - t : t \in S}
<1>1. Left \subseteq Nat /\ Left # {}
  <2>1. \A t \in 0 .. n : n - t \in Nat
    OBVIOUS
  <2> QED
    BY <2>1
<1>2. PICK m \in Left : \A k \in Left : ~(<<k, m>> \in OpToRel(<, Nat))
  <2> HIDE DEF Left
  <2> QED
    BY <1>1, WFMin, NatLessThanWellFounded
<1>3. PICK t \in S : m = n - t
  OBVIOUS
<1>4. \A u \in S : t >= u
  <2> SUFFICES ASSUME NEW u \in S, u > t PROVE FALSE
    OBVIOUS
  <2>1. n - u \in Left /\ n - u < m /\ n - u \in Nat /\ m \in Nat
    BY <1>1, <1>3
  <2> QED
    BY <1>2, <2>1 DEF OpToRel
<1>5. Max(S) \in S /\ \A u \in S : Max(S) >= u
  BY <1>4 DEF Max
<1> QED
  BY <1>5

LEMMA ReferenceIsLatest ==
  ASSUME TypeOK, Stamped, NEW s \in ShiftIds
  PROVE  /\ Reference(s) \in {0} \cup Heard(s)
         /\ Reference(s) \in 0 .. clock
         /\ \A t \in Heard(s) : t <= Reference(s)
<1> DEFINE S == {0} \cup Heard(s)
<1>1. S \in SUBSET (0 .. clock) /\ S # {} /\ clock \in Nat
  BY DEF TypeOK, Stamped
<1>2. Max(S) \in S /\ \A t \in S : t <= Max(S)
  <2> HIDE DEF S
  <2> QED
    BY <1>1, LatestExists
<1>3. Reference(s) = Max(S)
  BY DEF Reference, Heard
<1> QED
  BY <1>1, <1>2, <1>3

-----------------------------------------------------------------------------
Visits ==
  [shift : ShiftIds \cup {None}, does : {"in", "out", "nothing"}, from : Nat, own : Nat]

(* A scan that goes on, or ends, has found nothing.                        *)
LEMMA ScanTypes ==
  ASSUME NEW now \in Nat, NEW todo \in SUBSET ShiftIds
  PROVE  /\ ScanOf(now, todo) \in [pc : {"idle", "listed", "found"}, now : Nat, todo : SUBSET ShiftIds,
                                   shift : ShiftIds \cup {None}, since : Nat]
         /\ ScanOf(now, todo).pc # "found" /\ ScanOf(now, todo).now \in {0, now}
BY DEF ScanOf, NoScan

LEMMA TypeStep == ASSUME TypeOK, Placed, Stamped, Found, [Next]_vars PROVE TypeOK'
<1> USE DutyAssumption DEF DutyAssumption, TypeOK
<1>1. CASE Tick
  BY <1>1, SMTT(30) DEF Tick
<1>2. ASSUME NEW d \in Phones, Phone(d) PROVE TypeOK'
  <2>1. ASSUME NEW s \in ShiftIds, BookOn(d, s) \/ BookOff(d, s) PROVE TypeOK'
    <3>1. PICK does \in {"in", "out"} : Visit(d, s, does)
      BY <2>1 DEF BookOn, BookOff
    <3>2. [shift |-> s, does |-> does, from |-> Len(events[s]), own |-> 0] \in Visits
      BY DEF Visits
    <3>3. visit' \in [Phones -> Visits] /\ pc' \in [Phones -> {"start", "verified", "recorded", "saved"}]
      BY <3>1, <3>2 DEF Visit, Visits
    <3>4. doubled' \in [ShiftIds -> BOOLEAN]
      BY <3>1, Zenon DEF Visit
    <3> QED
      BY <3>1, <3>3, <3>4 DEF Visit, Visits, desk
  <2>2. CASE RecordEvent(d)
    <3>1. visit[d].shift \in ShiftIds /\ visit[d].does \in {"in", "out"}
      BY <2>2, <1>2 DEF RecordEvent, Placed
    <3>2. [type |-> visit[d].does, at |-> clock + 1] \in Event
      BY <3>1 DEF Event
    <3>3. events' \in [ShiftIds -> Seq(Event)]
      BY <2>2, <3>1, <3>2 DEF RecordEvent
    <3>4. [visit[d] EXCEPT !.own = Len(events[visit[d].shift]) + 1] \in Visits
      <4>1. visit[d] \in Visits /\ Len(events[visit[d].shift]) + 1 \in Nat
        BY <3>1 DEF Visits
      <4> QED
        BY <4>1 DEF Visits
    <3>5. visit' \in [Phones -> Visits] /\ pc' \in [Phones -> {"start", "verified", "recorded", "saved"}]
      BY <2>2, <3>4 DEF RecordEvent, Visits
    <3>6. clock' \in Nat
      BY <2>2 DEF RecordEvent
    <3> QED
      BY <2>2, <3>3, <3>5, <3>6 DEF RecordEvent, Visits
  <2>3. CASE SaveShift(d)
    <3>1. pc' \in [Phones -> {"start", "verified", "recorded", "saved"}] /\ visit' \in [Phones -> Visits]
      <4>1. NoVisit \in Visits
        BY DEF NoVisit, Visits
      <4>2. CASE Leave(d)
        BY <4>1, <4>2 DEF Leave, Visits
      <4>3. CASE pc' = [pc EXCEPT ![d] = "saved"] /\ UNCHANGED visit
        BY <4>3 DEF Visits
      <4> QED
        BY <2>3, <4>2, <4>3 DEF SaveShift
    <3>2. status' \in [ShiftIds -> Statuses]
      BY <2>3 DEF SaveShift, Statuses
    <3> QED
      BY <2>3, <3>1, <3>2 DEF SaveShift, Visits
  <2>4. CASE SaveHours(d)
    BY <2>4 DEF SaveHours, Leave, NoVisit
  <2>5. CASE Abandon(d)
    BY <2>5 DEF Abandon, Leave, NoVisit, desk
  <2> QED
    BY <1>2, <2>1, <2>2, <2>3, <2>4, <2>5 DEF Phone
<1>3. ASSUME NEW s \in ShiftIds, Manage(s) PROVE TypeOK'
  BY <1>3, SMTT(30) DEF Manage, Managed, Changes, Statuses
<1>4. ASSUME NEW s \in ShiftIds, LogWelfare(s) PROVE TypeOK'
  BY <1>4 DEF LogWelfare
<1>5. ASSUME NEW s \in ShiftIds, NEW type \in {"missed", "other"}, CallForHelp(s, type) PROVE TypeOK'
  <2>1. [shift |-> s, type |-> type, by |-> "guard", at |-> clock + 1, since |-> 0] \in Alert
    BY DEF Alert
  <2>2. clock' \in Nat /\ alerts' \subseteq Alert
    BY <1>5, <2>1 DEF CallForHelp
  <2>3. UNCHANGED <<status, events, minutes, logs, pc, visit, scan, faults, doubled>>
    BY <1>5 DEF CallForHelp
  <2> QED
    BY <2>2, <2>3
<1>6. CASE BeginScan
  BY <1>6, ScanTypes DEF BeginScan, desk
<1>7. ASSUME NEW s \in ShiftIds, ReadShift(s) PROVE TypeOK'
  <2>1. Reference(s) \in Nat
    BY ReferenceIsLatest
  <2> QED
    BY <1>7, <2>1, ScanTypes DEF ReadShift, desk
<1>8. CASE RaiseAlert
  <2>1. [shift |-> scan.shift, type |-> "missed", by |-> "scan", at |-> clock + 1,
         since |-> scan.since] \in Alert
    BY <1>8 DEF RaiseAlert, Alert, Found
  <2>2. scan' \in [pc : {"idle", "listed", "found"}, now : Nat, todo : SUBSET ShiftIds,
                   shift : ShiftIds \cup {None}, since : Nat]
    BY <1>8, ScanTypes DEF RaiseAlert
  <2>3. clock' \in Nat /\ alerts' \subseteq Alert
    BY <1>8, <2>1 DEF RaiseAlert
  <2>4. UNCHANGED <<status, events, minutes, logs, pc, visit, faults, doubled>>
    BY <1>8 DEF RaiseAlert
  <2> QED
    BY <2>2, <2>3, <2>4
<1>9. CASE AbortScan
  BY <1>9 DEF AbortScan, NoScan, desk
<1>10. CASE UNCHANGED vars
  BY <1>10 DEF vars
<1> QED
  BY <1>1, <1>2, <1>3, <1>4, <1>5, <1>6, <1>7, <1>8, <1>9, <1>10 DEF Next, Scan

-----------------------------------------------------------------------------
(* Only phones write attendance.                                           *)
attendance == <<events, minutes, pc, visit, doubled>>

LEMMA OnlyPhones ==
  ASSUME [Next]_vars
  PROVE  (\E d \in Phones : Phone(d)) \/ UNCHANGED attendance
BY DEF Next, Scan, vars, desk, attendance, Tick, Manage, Managed, LogWelfare, CallForHelp, BeginScan,
       ReadShift, RaiseAlert, AbortScan

LEMMA PlacedStep == ASSUME TypeOK, Placed, [Next]_vars PROVE Placed'
<1> USE DEF TypeOK, Placed
<1>1. CASE UNCHANGED attendance
  BY <1>1 DEF attendance
<1>2. ASSUME NEW d \in Phones, Phone(d) PROVE Placed'
  <2> SUFFICES ASSUME NEW e \in Phones PROVE Placed!(e)'
    BY DEF Placed
  <2>1. CASE e # d
    <3>1. pc'[e] = pc[e] /\ visit'[e] = visit[e]
      BY <1>2, <2>1 DEF Phone, BookOn, BookOff, Visit, RecordEvent, SaveShift, SaveHours, Abandon, Leave
    <3> QED
      BY <3>1
  <2>2. CASE e = d
    <3>1. ASSUME NEW s \in ShiftIds, BookOn(d, s) \/ BookOff(d, s) PROVE Placed!(d)'
      BY <3>1 DEF BookOn, BookOff, Visit
    <3>2. CASE RecordEvent(d)
      BY <3>2 DEF RecordEvent
    <3>3. CASE SaveShift(d)
      BY <3>3, ZenonT(30) DEF SaveShift, Leave
    <3>4. CASE SaveHours(d) \/ Abandon(d)
      BY <3>4 DEF SaveHours, Abandon, Leave
    <3> QED
      BY <1>2, <2>2, <3>1, <3>2, <3>3, <3>4 DEF Phone
  <2> QED
    BY <2>1, <2>2
<1> QED
  BY <1>1, <1>2, OnlyPhones

(* Events are appended, never changed.                                     *)
LEMMA EventsGrow ==
  ASSUME TypeOK, Placed, [Next]_vars, NEW s \in ShiftIds
  PROVE  /\ Len(events'[s]) \in Nat /\ Len(events'[s]) >= Len(events[s])
         /\ \A i \in DOMAIN events[s] : i \in DOMAIN events'[s] /\ events'[s][i] = events[s][i]
<1> USE DEF TypeOK
<1>1. CASE UNCHANGED events
  BY <1>1
<1>2. ASSUME NEW d \in Phones, RecordEvent(d), visit[d].shift = s
      PROVE  /\ Len(events'[s]) \in Nat /\ Len(events'[s]) >= Len(events[s])
             /\ \A i \in DOMAIN events[s] : i \in DOMAIN events'[s] /\ events'[s][i] = events[s][i]
  <2> DEFINE new == [type |-> visit[d].does, at |-> clock + 1]
  <2>1. new \in Event
    BY <1>2 DEF RecordEvent, Placed, Event
  <2>2. events'[s] = Append(events[s], new)
    BY <1>2 DEF RecordEvent
  <2> HIDE DEF new
  <2> QED
    BY <2>1, <2>2
<1>3. ASSUME NEW d \in Phones, RecordEvent(d), visit[d].shift # s PROVE events'[s] = events[s]
  BY <1>3 DEF RecordEvent
<1>4. UNCHANGED events \/ \E d \in Phones : RecordEvent(d)
  BY OnlyPhones DEF attendance, Phone, BookOn, BookOff, Visit, SaveShift, SaveHours, Abandon, desk
<1> QED
  BY <1>1, <1>2, <1>3, <1>4

(* The event that a request has just recorded.                             *)
LEMMA Recorded ==
  ASSUME TypeOK, Placed, NEW d \in Phones, RecordEvent(d)
  PROVE  /\ visit[d].shift \in ShiftIds /\ visit[d].does \in {"in", "out"}
         /\ DOMAIN events'[visit[d].shift] = 1 .. Len(events[visit[d].shift]) + 1
         /\ events'[visit[d].shift][Len(events[visit[d].shift]) + 1]
              = [type |-> visit[d].does, at |-> clock + 1]
<1> USE DEF TypeOK
<1> DEFINE s == visit[d].shift
           new == [type |-> visit[d].does, at |-> clock + 1]
<1>1. s \in ShiftIds /\ visit[d].does \in {"in", "out"}
  BY DEF RecordEvent, Placed
<1>2. new \in Event
  BY <1>1 DEF Event
<1>3. events'[s] = Append(events[s], new)
  BY <1>1 DEF RecordEvent
<1>4. events[s] \in Seq(Event)
  BY <1>1
<1>5. DOMAIN Append(events[s], new) = 1 .. Len(events[s]) + 1 /\ Append(events[s], new)[Len(events[s]) + 1] = new
  <2> HIDE DEF new
  <2> QED
    BY <1>2, <1>4
<1> QED
  BY <1>1, <1>3, <1>5

LEMMA RememberedStep ==
  ASSUME TypeOK, Placed, Remembered, [Next]_vars
  PROVE  Remembered'
<1> USE DEF TypeOK
<1>1. ASSUME NEW e \in Phones, pc[e] # "start", pc'[e] = pc[e], visit'[e] = visit[e]
      PROVE  Remembers(e)'
  <2>1. visit[e].shift \in ShiftIds /\ Remembers(e)
    BY <1>1 DEF Placed, Remembered
  <2> QED
    BY <1>1, <2>1, EventsGrow, SMTT(30) DEF Remembers
<1>2. CASE UNCHANGED attendance
  BY <1>1, <1>2 DEF attendance, Remembered
<1>3. ASSUME NEW d \in Phones, Phone(d), NEW e \in Phones, pc'[e] # "start" PROVE Remembers(e)'
  <2>1. CASE e # d
    <3>1. pc'[e] = pc[e] /\ visit'[e] = visit[e]
      BY <1>3, <2>1 DEF Phone, BookOn, BookOff, Visit, RecordEvent, SaveShift, SaveHours, Abandon, Leave
    <3> QED
      BY <1>1, <1>3, <3>1
  <2>2. CASE e = d
    <3>1. ASSUME NEW s \in ShiftIds, BookOn(d, s) \/ BookOff(d, s) PROVE Remembers(d)'
      <4>1. PICK does \in {"in", "out"} :
              /\ Visit(d, s, does)
              /\ does = "out" => events[s] # <<>> /\ events[s][Len(events[s])].type = "in"
        BY <3>1 DEF BookOn, BookOff, LatestIs
      <4>2. visit'[d] = [shift |-> s, does |-> does, from |-> Len(events[s]), own |-> 0]
            /\ pc'[d] = "verified" /\ events' = events
        BY <4>1 DEF Visit, desk
      <4>3. events[s] \in Seq(Event)
        OBVIOUS
      <4> QED
        BY <4>1, <4>2, <4>3 DEF Remembers
    <3>2. CASE RecordEvent(d)
      <4> DEFINE s == visit[d].shift
      <4>1. Remembers(d)
        BY <3>2 DEF RecordEvent, Remembered
      <4>2. visit'[d] = [visit[d] EXCEPT !.own = Len(events[s]) + 1] /\ pc'[d] = "recorded"
        BY <3>2 DEF RecordEvent
      <4>3. /\ s \in ShiftIds
            /\ DOMAIN events'[s] = 1 .. Len(events[s]) + 1
            /\ events'[s][Len(events[s]) + 1] = [type |-> visit[d].does, at |-> clock + 1]
        BY <3>2, Recorded, Zenon
      <4>4. visit'[d].shift = s /\ visit'[d].from = visit[d].from /\ visit'[d].does = visit[d].does
            /\ visit'[d].own = Len(events[s]) + 1
        BY <4>2
      <4>5. visit[d].from \in Nat /\ Len(events[s]) \in Nat
        BY <4>3
      <4>6. /\ Len(events'[s]) >= Len(events[s]) /\ Len(events'[s]) \in Nat
            /\ \A i \in DOMAIN events[s] : i \in DOMAIN events'[s] /\ events'[s][i] = events[s][i]
        BY <4>3, EventsGrow
      <4> HIDE DEF s
      <4>7. visit[d].from <= Len(events'[s]) /\ visit[d].from < Len(events[s]) + 1
        BY <4>1, <4>5, <4>6 DEF Remembers, s
      <4>8. visit[d].does = "out" =>
              visit[d].from \in DOMAIN events'[s] /\ events'[s][visit[d].from].type = "in"
        BY <4>1, <4>6 DEF Remembers, s
      <4>9. Len(events[s]) + 1 \in DOMAIN events'[s]
        BY <4>3, <4>5
      <4> QED
        BY <2>2, <4>2, <4>3, <4>4, <4>7, <4>8, <4>9 DEF Remembers
    <3>3. CASE SaveShift(d)
      <4>1. visit'[d] = visit[d] /\ pc'[d] = "saved" /\ events' = events
        BY <1>3, <2>2, <3>3 DEF SaveShift, Leave
      <4>2. Remembers(d) /\ pc[d] = "recorded"
        BY <3>3 DEF SaveShift, Remembered
      <4> QED
        BY <2>2, <4>1, <4>2 DEF Remembers
    <3>4. ~SaveHours(d) /\ ~Abandon(d)
      BY <1>3, <2>2 DEF SaveHours, Abandon, Leave
    <3> QED
      BY <1>3, <2>2, <3>1, <3>2, <3>3, <3>4 DEF Phone
  <2> QED
    BY <2>1, <2>2
<1> QED
  BY <1>2, <1>3, OnlyPhones DEF Remembered

(* A phone either begins a visit, or goes on with one, or ends it.         *)
LEMMA Visited ==
  ASSUME TypeOK, Placed, NEW d \in Phones, Phone(d)
  PROVE  \/ /\ UNCHANGED doubled
            /\ \A e \in Phones : visit'[e].shift = visit[e].shift \/ visit'[e] = NoVisit
            /\ pc'[d] # "verified"
         \/ \E s \in ShiftIds, does \in {"in", "out"} :
              /\ Visit(d, s, does)
              /\ does = "out" <=> LatestIs(s, "in")
<1> USE DEF TypeOK
<1>1. ASSUME NEW s \in ShiftIds, BookOn(d, s) PROVE Visit(d, s, "in") /\ ~LatestIs(s, "in")
  BY <1>1 DEF BookOn
<1>2. ASSUME NEW s \in ShiftIds, BookOff(d, s) PROVE Visit(d, s, "out") /\ LatestIs(s, "in")
  BY <1>2 DEF BookOff
<1>3. CASE RecordEvent(d)
  BY <1>3 DEF RecordEvent
<1>4. CASE SaveShift(d) \/ SaveHours(d) \/ Abandon(d)
  BY <1>4 DEF SaveShift, SaveHours, Abandon, Leave
<1> QED
  BY <1>1, <1>2, <1>3, <1>4 DEF Phone

LEMMA AloneStep == ASSUME TypeOK, Placed, Alone, [Next]_vars PROVE Alone'
<1> USE DutyAssumption DEF DutyAssumption, TypeOK
<1>1. CASE UNCHANGED attendance
  BY <1>1 DEF attendance, Alone, Visiting
<1>2. ASSUME NEW d \in Phones, Phone(d) PROVE Alone'
  <2>1. CASE UNCHANGED doubled /\ \A e \in Phones : visit'[e].shift = visit[e].shift \/ visit'[e] = NoVisit
    <3>1. NoVisit.shift = None
      BY DEF NoVisit
    <3>2. \A s \in ShiftIds : Visiting(s)' \subseteq Visiting(s)
      BY <2>1, <3>1 DEF Visiting
    <3> QED
      BY <2>1, <3>2 DEF Alone
  <2>2. ASSUME NEW s \in ShiftIds, NEW does \in {"in", "out"}, Visit(d, s, does) PROVE Alone'
    <3>1. Visiting(s)' \subseteq Visiting(s) \cup {d}
      BY <2>2 DEF Visit, Visiting
    <3>2. \A u \in ShiftIds \ {s} : Visiting(u)' \subseteq Visiting(u) /\ doubled'[u] = doubled[u]
      BY <2>2 DEF Visit, Visiting
    <3>3. ~doubled'[s] => Visiting(s) = {}
      BY <2>2 DEF Visit
    <3>4. ASSUME NEW u \in ShiftIds, ~doubled'[u], NEW e \in Visiting(u)', NEW f \in Visiting(u)' PROVE e = f
      <4>1. CASE u = s
        BY <3>1, <3>3, <3>4, <4>1
      <4>2. CASE u # s
        BY <3>2, <3>4, <4>2 DEF Alone
      <4> QED
        BY <4>1, <4>2
    <3> QED
      BY <3>4 DEF Alone
  <2> QED
    BY <1>2, <2>1, <2>2, Visited, SMTT(30)
<1> QED
  BY <1>1, <1>2, OnlyPhones

(* Bookings that met have met for ever.                                    *)
LEMMA StaysDoubled ==
  ASSUME TypeOK, Placed, [Next]_vars, NEW s \in ShiftIds, ~doubled'[s]
  PROVE  ~doubled[s]
<1>1. ASSUME NEW d \in Phones, NEW u \in ShiftIds, NEW does \in {"in", "out"}, Visit(d, u, does)
      PROVE  ~doubled[s]
  BY <1>1 DEF Visit, TypeOK
<1> QED
  BY <1>1, Visited, OnlyPhones DEF attendance

(* Only the visitor of a shift adds to its events.                         *)
LEMMA EventsKept ==
  ASSUME TypeOK, Placed, [Next]_vars, NEW s \in ShiftIds
  PROVE  events'[s] = events[s] \/ \E d \in Phones : RecordEvent(d) /\ visit[d].shift = s
<1>1. UNCHANGED events \/ \E d \in Phones : RecordEvent(d)
  BY OnlyPhones DEF attendance, Phone, BookOn, BookOff, Visit, SaveShift, SaveHours, Abandon, desk
<1> QED
  BY <1>1 DEF RecordEvent, TypeOK

LEMMA FreshStep == ASSUME TypeOK, Placed, Alone, Fresh, [Next]_vars PROVE Fresh'
<1> SUFFICES ASSUME NEW e \in Phones, pc'[e] = "verified", ~doubled'[visit'[e].shift]
             PROVE  visit'[e].does = "out" <=> LatestIs(visit[e].shift, "in")'
  BY DEF Fresh
<1>1. CASE pc'[e] = pc[e] /\ visit'[e] = visit[e]
  <2> DEFINE s == visit[e].shift
  <2>1. s \in ShiftIds
    BY <1>1 DEF Placed
  <2>2. ~doubled[s]
    BY <1>1, <2>1, StaysDoubled
  <2>3. events'[s] = events[s]
    <3> SUFFICES ASSUME NEW d \in Phones, RecordEvent(d), visit[d].shift = s PROVE FALSE
      BY <2>1, EventsKept
    <3>1. d = e
      BY <2>1, <2>2 DEF Alone, Visiting
    <3> QED
      BY <1>1, <3>1 DEF RecordEvent, TypeOK
  <2> QED
    BY <1>1, <2>2, <2>3 DEF Fresh, LatestIs
<1>2. CASE ~(pc'[e] = pc[e] /\ visit'[e] = visit[e])
  <2>1. PICK d \in Phones : Phone(d)
    BY <1>2, OnlyPhones DEF attendance
  <2>2. d = e
    BY <1>2, <2>1 DEF Phone, BookOn, BookOff, Visit, RecordEvent, SaveShift, SaveHours, Abandon, Leave, TypeOK
  <2>3. PICK s \in ShiftIds, does \in {"in", "out"} :
          Visit(e, s, does) /\ (does = "out" <=> LatestIs(s, "in"))
    BY <2>1, <2>2, Visited
  <2>4. visit'[e].shift = s /\ visit'[e].does = does /\ events' = events
    BY <2>3 DEF Visit, TypeOK, desk
  <2> QED
    BY <2>3, <2>4 DEF LatestIs
<1> QED
  BY <1>1, <1>2

LEMMA Parity == ASSUME NEW n \in Nat PROVE ((n + 1) % 2 = 1 <=> n % 2 # 1) /\ 0 % 2 # 1
OBVIOUS

LEMMA AlternateStep ==
  ASSUME TypeOK, Placed, Fresh, EventsAlternate, [Next]_vars
  PROVE  EventsAlternate'
<1> DEFINE Type(i) == IF i % 2 = 1 THEN "in" ELSE "out"
<1> SUFFICES ASSUME NEW s \in ShiftIds, ~doubled'[s], NEW i \in DOMAIN events'[s]
             PROVE  events'[s][i].type = Type(i)
  BY DEF EventsAlternate
<1>1. \A j \in DOMAIN events[s] : events[s][j].type = Type(j)
  BY StaysDoubled DEF EventsAlternate
<1>2. CASE events'[s] = events[s]
  BY <1>1, <1>2
<1>3. ASSUME NEW d \in Phones, RecordEvent(d), visit[d].shift = s PROVE events'[s][i].type = Type(i)
  <2> DEFINE n == Len(events[s])
  <2>1. /\ visit[d].does \in {"in", "out"}
        /\ DOMAIN events'[s] = 1 .. n + 1
        /\ events'[s][n + 1] = [type |-> visit[d].does, at |-> clock + 1]
    BY <1>3, Recorded, Zenon
  <2>2. n \in Nat /\ DOMAIN events[s] = 1 .. n
    BY DEF TypeOK
  <2>3. visit[d].does = "out" <=> LatestIs(s, "in")
    BY <1>3, StaysDoubled DEF Fresh, RecordEvent
  <2>4. LatestIs(s, "in") <=> n # 0 /\ n % 2 = 1
    <3>1. n = 0 <=> events[s] = <<>>
      BY DEF TypeOK
    <3>2. n # 0 => events[s][n].type = Type(n)
      <4> HIDE DEF Type, n
      <4> QED
        BY <1>1, <2>2
    <3> QED
      BY <3>1, <3>2 DEF LatestIs
  <2>5. (n + 1) % 2 = 1 <=> n % 2 # 1
    BY <2>2, Parity
  <2>6. n = 0 => n % 2 # 1
    BY Parity
  <2> HIDE DEF n
  <2>7. visit[d].does = Type(n + 1)
    BY <2>1, <2>3, <2>4, <2>5, <2>6
  <2>8. CASE i = n + 1
    <3>1. events'[s][i].type = visit[d].does
      BY <2>1, <2>8
    <3> QED
      BY <2>7, <2>8, <3>1
  <2>9. CASE i \in DOMAIN events[s]
    BY <1>1, <2>9, EventsGrow
  <2> QED
    BY <2>1, <2>2, <2>8, <2>9
<1> QED
  BY <1>2, <1>3, EventsKept

LEMMA MinutesStep ==
  ASSUME TypeOK, Placed, Remembered, MinutesAreAttended, [Next]_vars
  PROVE  MinutesAreAttended'
<1> USE DEF TypeOK
<1> SUFFICES ASSUME NEW s \in ShiftIds, minutes'[s] # None
             PROVE  /\ minutes'[s][1] < minutes'[s][2]
                    /\ {minutes'[s][1], minutes'[s][2]} \subseteq DOMAIN events'[s]
                    /\ events'[s][minutes'[s][1]].type = "in" /\ events'[s][minutes'[s][2]].type = "out"
  BY DEF MinutesAreAttended
<1>1. CASE minutes'[s] = minutes[s]
  BY <1>1, EventsGrow, SMTT(30) DEF MinutesAreAttended
<1>2. ASSUME NEW d \in Phones, SaveHours(d), visit[d].shift = s
      PROVE  /\ minutes'[s][1] < minutes'[s][2]
             /\ {minutes'[s][1], minutes'[s][2]} \subseteq DOMAIN events'[s]
             /\ events'[s][minutes'[s][1]].type = "in" /\ events'[s][minutes'[s][2]].type = "out"
  <2>1. minutes'[s] = <<visit[d].from, visit[d].own>> /\ events' = events /\ pc[d] = "saved"
    BY <1>2 DEF SaveHours
  <2>2. Remembers(d) /\ visit[d].does = "out"
    BY <2>1 DEF Remembered, Placed
  <2> QED
    BY <1>2, <2>1, <2>2 DEF Remembers
<1>3. minutes'[s] = minutes[s] \/ \E d \in Phones : SaveHours(d) /\ visit[d].shift = s
  <2>1. UNCHANGED minutes \/ \E d \in Phones : SaveHours(d)
    BY OnlyPhones DEF attendance, Phone, BookOn, BookOff, Visit, RecordEvent, SaveShift, Abandon, desk
  <2> QED
    BY <2>1 DEF SaveHours
<1> QED
  BY <1>1, <1>2, <1>3

-----------------------------------------------------------------------------
(* What is heard of a guard, and the alerts, only grow, one at a time and  *)
(* at the next instant.                                                    *)
LEMMA HeardOnce ==
  ASSUME TypeOK, Placed, [Next]_vars
  PROVE  /\ clock' \in {clock, clock + 1}
         /\ \A s \in ShiftIds :
              Heard(s) \subseteq Heard(s)' /\ Heard(s)' \subseteq Heard(s) \cup {clock + 1}
         /\ clock' = clock => (\A s \in ShiftIds : Heard(s)' = Heard(s)) /\ alerts' = alerts
         /\ (\A s \in ShiftIds : Heard(s)' = Heard(s)) \/ (alerts' = alerts /\ scan' = scan)
<1> DEFINE Once ==
      /\ clock' \in {clock, clock + 1}
      /\ \A s \in ShiftIds :
           Heard(s) \subseteq Heard(s)' /\ Heard(s)' \subseteq Heard(s) \cup {clock + 1}
      /\ clock' = clock => (\A s \in ShiftIds : Heard(s)' = Heard(s)) /\ alerts' = alerts
      /\ (\A s \in ShiftIds : Heard(s)' = Heard(s)) \/ (alerts' = alerts /\ scan' = scan)
<1>1. CASE UNCHANGED <<events, logs>> /\ \/ clock' = clock /\ alerts' = alerts
                                         \/ clock' = clock + 1
  <2>1. \A s \in ShiftIds : Heard(s)' = Heard(s)
    BY <1>1 DEF Heard, CheckIns
  <2>2. clock \in Nat
    BY DEF TypeOK
  <2> QED
    BY <1>1, <2>1, <2>2
<1>2. ASSUME NEW s \in ShiftIds, LogWelfare(s) PROVE Once
  BY <1>2 DEF LogWelfare, Heard, CheckIns, TypeOK
<1>3. ASSUME NEW d \in Phones, RecordEvent(d) PROVE Once
  <2> PICK s \in ShiftIds : s = visit[d].shift
    BY <1>3, Recorded
  <2> PICK n : n = Len(events[s])
    OBVIOUS
  <2>1. /\ DOMAIN events'[s] = 1 .. n + 1
        /\ events'[s][n + 1] = [type |-> visit[d].does, at |-> clock + 1]
    BY <1>3, Recorded, Zenon
  <2>2. n \in Nat /\ DOMAIN events[s] = 1 .. n
    BY <2>1 DEF TypeOK
  <2>3. \A i \in DOMAIN events[s] : events'[s][i] = events[s][i]
    BY <2>1, EventsGrow
  <2>4. \A u \in ShiftIds \ {s} : events'[u] = events[u]
    BY <1>3 DEF RecordEvent, TypeOK
  <2>5. logs' = logs /\ clock' = clock + 1 /\ alerts' = alerts /\ scan' = scan
    BY <1>3 DEF RecordEvent
  <2>6. \A u \in ShiftIds \ {s} : Heard(u)' = Heard(u)
    BY <2>4, <2>5 DEF Heard, CheckIns
  <2>7. CheckIns(s) \subseteq CheckIns(s)' /\ CheckIns(s)' \subseteq CheckIns(s) \cup {clock + 1}
    <3>1. events'[s][n + 1].at = clock + 1
      BY <2>1
    <3>2. \A i \in DOMAIN events'[s] : i = n + 1 \/ i \in DOMAIN events[s]
      BY <2>1, <2>2
    <3>3. \A i \in DOMAIN events[s] : i \in DOMAIN events'[s]
      BY <2>1, <2>2
    <3>4. ASSUME NEW t \in CheckIns(s) PROVE t \in CheckIns(s)'
      <4>1. PICK i \in DOMAIN events[s] : events[s][i].type = "in" /\ t = events[s][i].at
        BY <3>4 DEF CheckIns
      <4> QED
        BY <2>3, <3>3, <4>1 DEF CheckIns
    <3>5. ASSUME NEW t \in CheckIns(s)' PROVE t \in CheckIns(s) \cup {clock + 1}
      <4>1. PICK i \in DOMAIN events'[s] : events'[s][i].type = "in" /\ t = events'[s][i].at
        BY <3>5 DEF CheckIns
      <4>2. CASE i \in DOMAIN events[s]
        BY <2>3, <4>1, <4>2 DEF CheckIns
      <4> QED
        BY <3>1, <3>2, <4>1, <4>2
    <3> QED
      BY <3>4, <3>5
  <2>8. Heard(s) \subseteq Heard(s)' /\ Heard(s)' \subseteq Heard(s) \cup {clock + 1}
    BY <2>5, <2>7 DEF Heard
  <2>9. clock \in Nat
    BY DEF TypeOK
  <2> QED
    BY <2>5, <2>6, <2>8, <2>9
<1>4. \/ UNCHANGED <<events, logs>> /\ ((clock' = clock /\ alerts' = alerts) \/ clock' = clock + 1)
      \/ \E s \in ShiftIds : LogWelfare(s)
      \/ \E d \in Phones : RecordEvent(d)
  BY DEF Next, Phone, Scan, vars, desk, Tick, BookOn, BookOff, Visit, SaveShift, SaveHours, Abandon, Manage,
         Managed, CallForHelp, BeginScan, ReadShift, RaiseAlert, AbortScan
<1> QED
  BY <1>1, <1>2, <1>3, <1>4

LEMMA AlertsGrow ==
  ASSUME [Next]_vars
  PROVE  /\ alerts \subseteq alerts'
         /\ \A a \in alerts' \ alerts :
              /\ a.at = clock + 1 /\ clock' = clock + 1
              /\ a.by = "scan" =>
                   /\ scan.pc = "found" /\ a.type = "missed"
                   /\ a.shift = scan.shift /\ a.since = scan.since
<1>1. CASE alerts' = alerts
  BY <1>1
<1>2. ASSUME NEW s \in ShiftIds, NEW type \in {"missed", "other"}, CallForHelp(s, type)
      PROVE  alerts \subseteq alerts' /\ \A a \in alerts' \ alerts :
               a.at = clock + 1 /\ clock' = clock + 1 /\ a.by # "scan"
  BY <1>2 DEF CallForHelp
<1>3. CASE RaiseAlert
  BY <1>3 DEF RaiseAlert
<1>4. \/ alerts' = alerts \/ RaiseAlert
      \/ \E s \in ShiftIds, type \in {"missed", "other"} : CallForHelp(s, type)
  BY DEF Next, Phone, Scan, vars, desk, Tick, BookOn, BookOff, Visit, RecordEvent, SaveShift, SaveHours,
         Abandon, Manage, Managed, LogWelfare, BeginScan, ReadShift, AbortScan
<1> QED
  BY <1>1, <1>2, <1>3, <1>4

(* A scan that raises an alert moves on.                                   *)
LEMMA OnlyScanAlerts ==
  ASSUME TypeOK, [Next]_vars, scan' = scan, NEW a \in alerts', a.by = "scan"
  PROVE  a \in alerts
<1>1. ASSUME RaiseAlert PROVE FALSE
  BY <1>1, ScanTypes DEF RaiseAlert, TypeOK
<1>2. ASSUME NEW s \in ShiftIds, NEW type \in {"missed", "other"}, CallForHelp(s, type)
      PROVE  a \in alerts
  BY <1>2 DEF CallForHelp
<1>3. \/ alerts' = alerts \/ RaiseAlert
      \/ \E s \in ShiftIds, type \in {"missed", "other"} : CallForHelp(s, type)
  BY DEF Next, Phone, Scan, vars, desk, Tick, BookOn, BookOff, Visit, RecordEvent, SaveShift, SaveHours,
         Abandon, Manage, Managed, LogWelfare, BeginScan, ReadShift, AbortScan
<1> QED
  BY <1>1, <1>2, <1>3

LEMMA OwnStep == ASSUME OwnAreSeen, [Next]_vars PROVE OwnAreSeen'
BY AlertsGrow DEF OwnAreSeen

LEMMA StampedStep == ASSUME TypeOK, Placed, Stamped, [Next]_vars PROVE Stamped'
<1>1. clock \in Nat /\ clock' \in {clock, clock + 1} /\ (\E x \in Nat : scan.now = x)
  BY HeardOnce DEF TypeOK
<1>2. \A s \in ShiftIds : Heard(s)' \subseteq 1 .. clock'
  BY <1>1, HeardOnce DEF Stamped
<1>3. \A a \in alerts' : a.at \in 1 .. clock'
  <2> SUFFICES ASSUME NEW a \in alerts' PROVE a.at \in 1 .. clock'
    OBVIOUS
  <2>1. CASE a \in alerts
    BY <1>1, <2>1 DEF Stamped
  <2>2. CASE a \notin alerts
    BY <1>1, <2>2, AlertsGrow
  <2> QED
    BY <2>1, <2>2
<1>4. scan'.now \in {0, scan.now, clock}
  <2>1. scan' = scan \/ BeginScan \/ (\E s \in ShiftIds : ReadShift(s)) \/ RaiseAlert \/ AbortScan
    BY DEF Next, Phone, Scan, vars, desk, Tick, BookOn, BookOff, Visit, RecordEvent, SaveShift, SaveHours,
           Abandon, Manage, Managed, LogWelfare, CallForHelp
  <2>2. ASSUME NEW s \in ShiftIds, ReadShift(s) PROVE scan'.now \in {0, scan.now}
    BY <2>2, ScanTypes DEF ReadShift, TypeOK
  <2>3. CASE BeginScan
    BY <1>1, <2>3, ScanTypes DEF BeginScan
  <2>4. CASE AbortScan
    BY <2>4 DEF AbortScan, NoScan
  <2>5. CASE RaiseAlert
    BY <2>5, ScanTypes DEF RaiseAlert, TypeOK
  <2> QED
    BY <2>1, <2>2, <2>3, <2>4, <2>5
<1>5. scan'.now <= clock'
  BY <1>1, <1>4 DEF Stamped
<1> QED
  BY <1>2, <1>3, <1>5 DEF Stamped

LEMMA ApartStep == ASSUME TypeOK, TypeOK', Placed, Stamped, Apart, [Next]_vars PROVE Apart'
<1>1. clock \in Nat
  BY DEF TypeOK
<1> SUFFICES ASSUME NEW a \in alerts', a.shift \in ShiftIds PROVE a.at \notin Heard(a.shift)'
  BY DEF Apart, TypeOK, Alert
<1>2. CASE a \in alerts
  <2>1. a.at \notin Heard(a.shift) /\ a.at \in 1 .. clock
    BY <1>2 DEF Apart, Stamped
  <2> QED
    BY <1>1, <2>1, HeardOnce
<1>3. CASE a \notin alerts
  <2>1. a.at = clock + 1 /\ alerts' # alerts
    BY <1>3, AlertsGrow
  <2>2. Heard(a.shift)' = Heard(a.shift) /\ Heard(a.shift) \subseteq 1 .. clock
    BY <2>1, HeardOnce DEF Stamped
  <2> QED
    BY <1>1, <2>1, <2>2
<1> QED
  BY <1>2, <1>3

(* An alert that said the truth goes on saying it: what is heard later is  *)
(* later than its interval.                                                *)
LEMMA LapseStep ==
  ASSUME TypeOK, TypeOK', Placed, Stamped, Found, AlertMeansLapse, [Next]_vars
  PROVE  AlertMeansLapse'
<1> USE DutyAssumption DEF DutyAssumption
<1>1. clock \in Nat /\ Interval \in Nat
  BY DEF TypeOK
<1> SUFFICES ASSUME NEW a \in alerts', a.by = "scan"
             PROVE  /\ a.at > a.since + Interval
                    /\ Heard(a.shift)' \subseteq Nat \ (a.since + 1 .. a.since + Interval)
  BY DEF AlertMeansLapse, Heard
<1>2. a.shift \in ShiftIds /\ a.at \in Nat /\ a.since \in Nat
  BY DEF TypeOK, Alert
<1>3. CASE a \in alerts
  <2>1. a.at \in 1 .. clock /\ a.at > a.since + Interval
        /\ Heard(a.shift) \subseteq Nat \ (a.since + 1 .. a.since + Interval)
    BY <1>3 DEF Stamped, AlertMeansLapse, Heard
  <2> QED
    BY <1>1, <1>2, <2>1, HeardOnce
<1>4. CASE a \notin alerts
  <2>1. a.at = clock + 1 /\ scan.pc = "found" /\ a.shift = scan.shift /\ a.since = scan.since
        /\ alerts' # alerts
    BY <1>4, AlertsGrow
  <2>2. a.since + Interval < scan.now /\ scan.now <= clock /\ scan.now \in Nat
        /\ Heard(a.shift) \subseteq Nat \ (a.since + 1 .. a.since + Interval)
    BY <2>1 DEF Found, Stamped, TypeOK
  <2>3. Heard(a.shift)' = Heard(a.shift)
    BY <1>2, <2>1, HeardOnce
  <2> QED
    BY <1>1, <1>2, <2>1, <2>2, <2>3
<1> QED
  BY <1>3, <1>4

LEMMA OnceStep ==
  ASSUME TypeOK, TypeOK', Placed, Stamped, Found, OneAlertPerLapse, [Next]_vars
  PROVE  OneAlertPerLapse'
<1>1. clock \in Nat
  BY DEF TypeOK
<1> SUFFICES ASSUME NEW a \in alerts', NEW b \in alerts', a.by = "scan", b.by = "scan",
                    a.shift = b.shift, a.at < b.at
             PROVE  \E t \in Heard(a.shift)' : a.at < t /\ t <= b.since
  BY DEF OneAlertPerLapse, Heard
<1>2. a.shift \in ShiftIds /\ a.at \in Nat /\ b.at \in Nat
  BY DEF TypeOK, Alert
<1>3. a \in alerts
  <2> SUFFICES ASSUME a \notin alerts PROVE FALSE
    OBVIOUS
  <2>1. a.at = clock + 1
    BY AlertsGrow
  <2>2. b.at \in 1 .. clock + 1
    BY <1>1, AlertsGrow DEF Stamped
  <2> QED
    BY <1>1, <2>1, <2>2
<1>4. Heard(a.shift) \subseteq Heard(a.shift)'
  BY <1>2, HeardOnce
<1>5. CASE b \in alerts
  BY <1>3, <1>4, <1>5 DEF OneAlertPerLapse, Heard
<1>6. CASE b \notin alerts
  <2>1. scan.pc = "found" /\ b.shift = scan.shift /\ b.since = scan.since
    BY <1>6, AlertsGrow
  <2> QED
    BY <1>3, <1>4, <2>1 DEF Found
<1> QED
  BY <1>5, <1>6

(* Nothing the scan found of a shift changes before it raises the alert.   *)
LEMMA FoundStep ==
  ASSUME TypeOK, TypeOK', Placed, Stamped, OwnAreSeen, Apart, Found, [Next]_vars
  PROVE  Found'
<1> USE DutyAssumption DEF DutyAssumption
<1>1. clock \in Nat /\ Interval \in Nat \ {0}
  BY DEF TypeOK
<1>2. CASE scan' = scan
  <2> SUFFICES ASSUME scan.pc = "found" PROVE Found'
    BY <1>2 DEF Found
  <2>1. PICK u \in ShiftIds : u = scan.shift
    BY DEF Found
  <2>2. /\ scan.since + Interval < scan.now
        /\ Heard(u) \subseteq Nat \ (scan.since + 1 .. scan.since + Interval)
        /\ scan.now <= clock /\ scan.now \in Nat /\ scan.since \in Nat
    BY <2>1 DEF Found, Stamped, TypeOK
  <2>3. Heard(u) \subseteq Heard(u)' /\ Heard(u)' \subseteq Heard(u) \cup {clock + 1}
    BY HeardOnce
  <2>4. Heard(u)' \subseteq Nat \ (scan.since + 1 .. scan.since + Interval)
    BY <1>1, <2>2, <2>3
  <2>5. \A a \in alerts' : a.by = "scan" => a \in alerts
    BY <1>2, OnlyScanAlerts
  <2>6. \A a \in alerts : a.by = "scan" /\ a.shift = u =>
          \E t \in Heard(u) : a.at < t /\ t <= scan.since
    BY <2>1 DEF Found
  <2>7. \A a \in alerts' : a.by = "scan" /\ a.shift = u =>
          \E t \in Heard(u)' : a.at < t /\ t <= scan.since
    BY <2>3, <2>5, <2>6
  <2> QED
    BY <1>2, <2>1, <2>2, <2>4, <2>7 DEF Found
<1>3. ASSUME NEW s \in ShiftIds, ReadShift(s), scan'.pc = "found" PROVE Found'
  <2> DEFINE since == Reference(s)
  <2>1. /\ scan.now > since + Interval /\ ~AlertedSince(s, since)
        /\ scan'.shift = s /\ scan'.since = since /\ scan'.now = scan.now
        /\ UNCHANGED <<clock, events, logs, alerts>>
    BY <1>3, ScanTypes DEF ReadShift, TypeOK, desk
  <2>2. /\ since \in {0} \cup Heard(s) /\ since \in 0 .. clock
        /\ \A t \in Heard(s) : t <= since
    BY ReferenceIsLatest
  <2>3. Heard(s)' = Heard(s)
    BY <2>1 DEF Heard, CheckIns
  <2> HIDE DEF since
  <2>4. Heard(s) \subseteq 1 .. clock
    BY DEF Stamped
  <2>5. Heard(s) \subseteq Nat \ (since + 1 .. since + Interval)
    BY <1>1, <2>2, <2>4
  <2>6. ASSUME NEW a \in alerts, a.by = "scan", a.shift = s
        PROVE  since \in Heard(s) /\ a.at < since
    <3>1. a.at <= since /\ a.at \in 1 .. clock
      BY <1>1, <2>1, <2>2, <2>6 DEF AlertedSince, OwnAreSeen, Stamped
    <3>2. a.at \notin Heard(s)
      BY <2>6 DEF Apart
    <3> QED
      BY <1>1, <2>2, <3>1, <3>2
  <2> QED
    BY <2>1, <2>2, <2>3, <2>5, <2>6 DEF Found
<1>4. scan' = scan \/ scan'.pc # "found" \/ \E s \in ShiftIds : ReadShift(s)
  <2>1. scan' = scan \/ BeginScan \/ (\E s \in ShiftIds : ReadShift(s)) \/ RaiseAlert \/ AbortScan
    BY DEF Next, Phone, Scan, vars, desk, Tick, BookOn, BookOff, Visit, RecordEvent, SaveShift, SaveHours,
           Abandon, Manage, Managed, LogWelfare, CallForHelp
  <2>2. CASE BeginScan
    BY <1>1, <2>2, ScanTypes DEF BeginScan
  <2>3. CASE RaiseAlert
    BY <2>3, ScanTypes DEF RaiseAlert, TypeOK
  <2>4. CASE AbortScan
    BY <2>4 DEF AbortScan, NoScan
  <2> QED
    BY <2>1, <2>2, <2>3, <2>4
<1> QED
  BY <1>2, <1>3, <1>4 DEF Found

LEMMA Invariance == Spec => []IInv
<1>1. Init => IInv
  <2> USE DutyAssumption DEF DutyAssumption, Init
  <2>1. Init => TypeOK
    BY DEF TypeOK, NoVisit, NoScan, Statuses
  <2>2. Init => BookInv
    BY DEF BookInv, Placed, Remembered, Alone, Visiting, Fresh, EventsAlternate, MinutesAreAttended, NoVisit
  <2>3. Init => ScanInv
    BY DEF ScanInv, Stamped, OwnAreSeen, Apart, Found, AlertMeansLapse, OneAlertPerLapse, Heard, CheckIns, NoScan
  <2> QED
    BY <2>1, <2>2, <2>3 DEF IInv
<1>2. IInv /\ [Next]_vars => IInv'
  <2> SUFFICES ASSUME IInv, [Next]_vars PROVE IInv'
    OBVIOUS
  <2> USE DEF IInv, BookInv, ScanInv
  <2>1. TypeOK'
    BY TypeStep
  <2>2. BookInv'
    BY PlacedStep, RememberedStep, AloneStep, FreshStep, AlternateStep, MinutesStep
  <2>3. ScanInv'
    BY <2>1, StampedStep, OwnStep, ApartStep, FoundStep, LapseStep, OnceStep
  <2> QED
    BY <2>1, <2>2, <2>3
<1> QED
  BY <1>1, <1>2, PTL DEF Spec

-----------------------------------------------------------------------------
(* Every reachable state of attendance, welfare and alerts is well typed.  *)
THEOREM TypeCorrect == Spec => []TypeOK
BY Invariance, PTL DEF IInv

(* Retries and crashes between event and shift never add an event out of   *)
(* turn: only bookings that overlap do.                                    *)
THEOREM AlternateTheorem == Spec => []EventsAlternate
BY Invariance, PTL DEF IInv, BookInv

(* Verified minutes always run from a check-in to a later check-out.       *)
THEOREM MinutesTheorem == Spec => []MinutesAreAttended
BY Invariance, PTL DEF IInv, BookInv

(* An alert of the scan always tells of a real lapse, whatever alerts the  *)
(* guards raise beside it.                                                 *)
THEOREM LapseTheorem == Spec => []AlertMeansLapse
BY Invariance, PTL DEF IInv, ScanInv

(* Between two alerts of the scan for a shift its guard was heard of.      *)
THEOREM OnceTheorem == Spec => []OneAlertPerLapse
BY Invariance, PTL DEF IInv, ScanInv
==============================================================================
