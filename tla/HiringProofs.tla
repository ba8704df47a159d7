---------------------------- MODULE HiringProofs -----------------------------
(***************************************************************************)
(* Hiring, for any number of jobs, places, guards and requests.            *)
(*                                                                         *)
(* The places of a job are counted by one transaction and taken by the     *)
(* same transaction later.  What carries the proof is therefore the lock:  *)
(* from the count (LockJob) to the commit no other hire can hold the job   *)
(* (LockHeld), so the place it saw is still there (PlaceLeft).             *)
(***************************************************************************)
EXTENDS Hiring, FiniteSetTheorems, TLAPS

InTransaction(h) == pc[h] \in {"locked", "saved"}

LockHeld == \A h \in Hires : InTransaction(h) => jobLock[JobOfHire(h)] = h
PlaceLeft == \A h \in Hires : InTransaction(h) => ~Full(JobOfHire(h))
NotYetInserted == \A h \in Hires : pc[h] # "done" => assignment[h] = "none"

(* What a request remembers of its application's assignments are rows that *)
(* a hire of that same application inserted.                               *)
RemembersOwn ==
  \A r \in Hires \cup Reviews : \A x \in loaded[r] \cup diff[r].relink :
    Target[x] = Target[r] /\ assignment[x] # "none"
LinksOwn == \A h \in Hires : link[h] \in {None, Target[h]}

IInv ==
  /\ TypeOK
  /\ LockHeld
  /\ PlaceLeft
  /\ NotYetInserted
  /\ RemembersOwn
  /\ LinksOwn
  /\ CapacityRespected
  /\ FilledWhenFull
  /\ AcceptedIsAssigned
-----------------------------------------------------------------------------
(* Every action keeps every variable within its type.                      *)
LEMMA TypeInductive == TypeOK /\ [Next]_vars => TypeOK'
<1>. SUFFICES ASSUME TypeOK, [Next]_vars PROVE TypeOK'
  OBVIOUS
<1>. USE HiringAssumption DEF TypeOK, Requests, ApplicationStatuses, ActiveStatuses, Diffs
<1>loaded. loaded \in [Hires \cup Reviews -> SUBSET Hires]
  OBVIOUS
<1>own. \A a : Linked(a) \subseteq Hires
  BY DEF Linked
<1>1. ASSUME NEW a \in Applies, CheckApplication(a) PROVE TypeOK'
  BY <1>1 DEF CheckApplication, Go, rows, locks, memory
<1>2. ASSUME NEW a \in Applies, InsertApplication(a) PROVE TypeOK'
  BY <1>2 DEF InsertApplication, Go, locks, memory
<1>3. ASSUME NEW h \in Hires, PreflightHire(h) PROVE TypeOK'
  BY <1>3 DEF PreflightHire, Go, rows, locks, memory
<1>4. ASSUME NEW h \in Hires, LockJob(h) PROVE TypeOK'
  <2>1. loaded' = loaded \/ loaded' = [loaded EXCEPT ![h] = Linked(Target[h])]
    BY <1>4 DEF LockJob
  <2>2. loaded' \in [Hires \cup Reviews -> SUBSET Hires]
    BY ONLY <2>1, <1>loaded, <1>own, h \in Hires
  <2>3. jobLock' = jobLock \/ jobLock' = [jobLock EXCEPT ![JobOfHire(h)] = h]
    BY <1>4 DEF LockJob
  <2>4. jobLock' \in [Jobs -> Hires \cup {None}]
    BY <2>3
  <2>5. PICK t \in {"locked", "refused"} : pc' = [pc EXCEPT ![h] = t]
    BY <1>4 DEF LockJob, Go
  <2>6. pc' \in [Requests -> {"start", "checked", "preflight", "locked", "saved",
                              "loaded", "diffed", "done", "refused"}]
    BY <2>5
  <2>. QED BY <1>4, <2>2, <2>4, <2>6 DEF LockJob, rows
<1>5. ASSUME NEW h \in Hires, SaveApplication(h) PROVE TypeOK'
  <2>1. Linked(Target[h]) \in SUBSET Hires
    BY DEF Linked
  <2>2. [status |-> TRUE, unlink |-> Linked(Target[h]) \ loaded[h],
         relink |-> loaded[h] \ Linked(Target[h])] \in Diffs
    BY <2>1
  <2>. QED BY <1>5, <2>2 DEF SaveApplication, Go, rows
<1>6. ASSUME NEW h \in Hires, CommitHire(h) PROVE TypeOK'
  <2>1. Target[h] \in Applies /\ JobOfHire(h) \in Jobs
    BY DEF JobOfHire
  <2>2. link' \in [Hires -> Applies \cup {None}]
    BY <1>6, <2>1 DEF CommitHire, HireLinks, Relink
  <2>3. jobLock' \in [Jobs -> Hires \cup {None}] /\ rowLock' \in [Applies -> Hires \cup {None}]
    BY <1>6, <2>1 DEF CommitHire, EndTransaction
  <2>4. application' \in [Applies -> ApplicationStatuses] /\ job' \in [Jobs -> {"open", "filled"}]
    BY <1>6, <2>1 DEF CommitHire
  <2>5. assignment' \in [Hires -> {"none"} \cup ActiveStatuses]
    BY <1>6 DEF CommitHire
  <2>. QED BY <1>6, <2>2, <2>3, <2>4, <2>5 DEF CommitHire, Go, memory
<1>7. ASSUME NEW h \in Hires, RollbackHire(h) PROVE TypeOK'
  BY <1>7 DEF RollbackHire, EndTransaction, rows, memory
<1>8. ASSUME NEW r \in Reviews, LoadReview(r) PROVE TypeOK'
  <2>1. loaded' = loaded \/ loaded' = [loaded EXCEPT ![r] = Linked(Target[r])]
    BY <1>8 DEF LoadReview
  <2>2. loaded' \in [Hires \cup Reviews -> SUBSET Hires]
    BY ONLY <2>1, <1>loaded, <1>own, r \in Reviews
  <2>3. PICK t \in {"loaded", "refused"} : pc' = [pc EXCEPT ![r] = t]
    BY <1>8 DEF LoadReview, Go
  <2>4. pc' \in [Requests -> {"start", "checked", "preflight", "locked", "saved",
                              "loaded", "diffed", "done", "refused"}]
    BY <2>3
  <2>. QED BY <1>8, <2>2, <2>4 DEF LoadReview, rows, locks
<1>9. ASSUME NEW r \in Reviews, DiffReview(r) PROVE TypeOK'
  <2>1. Linked(Target[r]) \in SUBSET Hires
    BY DEF Linked
  <2>2. [status |-> application[Target[r]] # Decision[r],
         unlink |-> Linked(Target[r]) \ loaded[r],
         relink |-> loaded[r] \ Linked(Target[r])] \in Diffs
    BY <2>1
  <2>. QED BY <1>9, <2>2 DEF DiffReview, Go, rows, locks
<1>10. ASSUME NEW r \in Reviews, SaveReview(r) PROVE TypeOK'
  <2>1. Target[r] \in Applies /\ Decision[r] \in ApplicationStatuses
    OBVIOUS
  <2>2. link' \in [Hires -> Applies \cup {None}]
    BY <1>10, <2>1 DEF SaveReview, Relink
  <2>3. application' \in [Applies -> ApplicationStatuses]
    BY <1>10, <2>1 DEF SaveReview
  <2>. QED BY <1>10, <2>2, <2>3 DEF SaveReview, Go, locks, memory
<1>11. ASSUME NEW h \in Hires, CheckIn(h) \/ CheckOut(h) PROVE TypeOK'
  BY <1>11 DEF CheckIn, CheckOut, locks, memory
<1>12. CASE UNCHANGED vars
  BY <1>12 DEF vars
<1>. QED
  BY <1>1, <1>2, <1>3, <1>4, <1>5, <1>6, <1>7, <1>8, <1>9, <1>10, <1>11, <1>12
  DEF Next, ApplyNext, HireNext, ReviewNext

LEMMA TypeInitially == Init => TypeOK
BY HiringAssumption
DEF Init, TypeOK, Requests, ApplicationStatuses, ActiveStatuses, Diffs, NoDiff

(* Every row, lock and memory has its type at every moment.                *)
THEOREM TypeCorrect == Spec => []TypeOK
BY TypeInitially, TypeInductive, PTL DEF Spec
-----------------------------------------------------------------------------
(* A transaction holds its job from the count to its end: the only steps   *)
(* that write jobLock take it when it is free or free their own.           *)
LEMMA LockHeldInductive == TypeOK /\ LockHeld /\ Next => LockHeld'
<1>. SUFFICES ASSUME TypeOK, LockHeld, Next, NEW g \in Hires, InTransaction(g)'
              PROVE  jobLock'[JobOfHire(g)] = g
  BY DEF LockHeld, JobOfHire
<1>. USE HiringAssumption DEF TypeOK, Requests, InTransaction, Go
<1>jobs. \A h \in Hires : JobOfHire(h) \in Jobs
  BY DEF JobOfHire
<1>1. ASSUME NEW a \in Applies, ApplyNext(a) PROVE jobLock'[JobOfHire(g)] = g
  BY <1>1 DEF ApplyNext, CheckApplication, InsertApplication, LockHeld, locks
<1>2. ASSUME NEW h \in Hires, PreflightHire(h) PROVE jobLock'[JobOfHire(g)] = g
  BY <1>2 DEF PreflightHire, LockHeld, locks
<1>3. ASSUME NEW h \in Hires, LockJob(h) PROVE jobLock'[JobOfHire(g)] = g
  <2>1. CASE g = h
    BY <1>3, <2>1, <1>jobs DEF LockJob
  <2>2. CASE g # h
    <3>1. InTransaction(g) /\ jobLock[JobOfHire(g)] = g
      BY <1>3, <2>2 DEF LockJob, LockHeld
    <3>2. JobOfHire(g) # JobOfHire(h)
      BY <1>3, <3>1 DEF LockJob
    <3>. QED BY <1>3, <3>1, <3>2, <1>jobs DEF LockJob
  <2>. QED BY <2>1, <2>2
<1>4. ASSUME NEW h \in Hires, SaveApplication(h) PROVE jobLock'[JobOfHire(g)] = g
  BY <1>4 DEF SaveApplication, LockHeld
<1>5. ASSUME NEW h \in Hires, CommitHire(h) \/ RollbackHire(h)
      PROVE  jobLock'[JobOfHire(g)] = g
  <2>1. InTransaction(h) /\ g # h /\ InTransaction(g)
    BY <1>5 DEF CommitHire, RollbackHire
  <2>2. jobLock[JobOfHire(h)] = h /\ jobLock[JobOfHire(g)] = g
    BY <2>1 DEF LockHeld
  <2>. QED BY <1>5, <2>1, <2>2, <1>jobs DEF CommitHire, RollbackHire, EndTransaction
<1>6. ASSUME NEW r \in Reviews, ReviewNext(r) PROVE jobLock'[JobOfHire(g)] = g
  BY <1>6 DEF ReviewNext, LoadReview, DiffReview, SaveReview, LockHeld, locks
<1>7. ASSUME NEW h \in Hires, CheckIn(h) \/ CheckOut(h) PROVE jobLock'[JobOfHire(g)] = g
  BY <1>7 DEF CheckIn, CheckOut, LockHeld, locks
<1>. QED
  BY <1>1, <1>2, <1>3, <1>4, <1>5, <1>6, <1>7 DEF Next, HireNext

(* The commits that insert an assignment.                                  *)
Inserts(h) == CommitHire(h) /\ loaded[h] = {}

(* A step that inserts nothing takes and frees no place.                   *)
LEMMA PlacesKept ==
  ASSUME TypeOK, [Next]_vars, ~\E h \in Hires : Inserts(h), NEW j
  PROVE  ActiveByJob(j)' = ActiveByJob(j)
<1>1. \A h \in Hires : assignment'[h] \in ActiveStatuses <=> assignment[h] \in ActiveStatuses
  <2>1. CASE UNCHANGED assignment
    BY <2>1
  <2>2. ASSUME NEW h \in Hires, CheckIn(h) \/ CheckOut(h)
        PROVE  \A g \in Hires : assignment'[g] \in ActiveStatuses <=> assignment[g] \in ActiveStatuses
    BY <2>2 DEF CheckIn, CheckOut, TypeOK, ActiveStatuses
  <2>3. ASSUME NEW h \in Hires, CommitHire(h) PROVE UNCHANGED assignment
    BY <2>3 DEF Inserts, CommitHire, TypeOK
  <2>4. UNCHANGED assignment \/ \E h \in Hires : CommitHire(h) \/ CheckIn(h) \/ CheckOut(h)
    BY DEF Next, ApplyNext, HireNext, ReviewNext, CheckApplication, InsertApplication,
      PreflightHire, LockJob, SaveApplication, RollbackHire, LoadReview, DiffReview,
      SaveReview, rows, vars
  <2>. QED BY <2>1, <2>2, <2>3, <2>4
<1>. QED BY <1>1 DEF ActiveByJob, JobOfHire

(* A commit that inserts takes exactly one place, on its own job.          *)
LEMMA PlaceTaken ==
  ASSUME TypeOK, NotYetInserted, NEW h \in Hires, Inserts(h)
  PROVE  /\ h \notin ActiveByJob(JobOfHire(h))
         /\ ActiveByJob(JobOfHire(h))' = ActiveByJob(JobOfHire(h)) \cup {h}
         /\ \A j : j # JobOfHire(h) => ActiveByJob(j)' = ActiveByJob(j)
<1>1. assignment[h] = "none" /\ assignment' = [assignment EXCEPT ![h] = "assigned"]
  BY DEF NotYetInserted, Inserts, CommitHire, Go, TypeOK
<1>. QED BY <1>1 DEF ActiveByJob, JobOfHire, ActiveStatuses, TypeOK

LEMMA PlacesFinite ==
  ASSUME NEW j
  PROVE  /\ IsFiniteSet(ActiveByJob(j)) /\ Cardinality(ActiveByJob(j)) \in Nat
         /\ IsFiniteSet(ActiveByJob(j)') /\ Cardinality(ActiveByJob(j)') \in Nat
<1>1. ActiveByJob(j) \subseteq Hires /\ ActiveByJob(j)' \subseteq Hires
  BY DEF ActiveByJob
<1>. QED BY <1>1, HiringAssumption, FS_Subset, FS_CardinalityType

LEMMA OneMorePlace ==
  ASSUME TypeOK, NotYetInserted, NEW h \in Hires, Inserts(h)
  PROVE  Cardinality(ActiveByJob(JobOfHire(h))') = Cardinality(ActiveByJob(JobOfHire(h))) + 1
BY PlaceTaken, PlacesFinite, FS_AddElement
-----------------------------------------------------------------------------
(* What a commit of each kind does to the job's status.                    *)
LEMMA JobKept ==
  ASSUME TypeOK, PlaceLeft, FilledWhenFull, [Next]_vars, ~\E h \in Hires : Inserts(h)
  PROVE  job' = job
<1>1. CASE UNCHANGED job
  BY <1>1
<1>2. ASSUME NEW h \in Hires, CommitHire(h) PROVE job' = job
  <2>1. JobOfHire(h) \in Jobs
    BY HiringAssumption DEF JobOfHire
  <2>2. ~Full(JobOfHire(h)) /\ job[JobOfHire(h)] = "open"
    BY <1>2, <2>1 DEF CommitHire, Go, PlaceLeft, InTransaction, FilledWhenFull, TypeOK
  <2>3. Full(JobOfHire(h))' <=> Full(JobOfHire(h))
    BY PlacesKept DEF Full, JobOfHire
  <2>4. job' = [job EXCEPT ![JobOfHire(h)] = "open"]
    BY <1>2, <2>2, <2>3 DEF CommitHire
  <2>. QED BY <2>1, <2>2, <2>4 DEF TypeOK
<1>3. UNCHANGED job \/ \E h \in Hires : CommitHire(h)
  BY DEF Next, ApplyNext, HireNext, ReviewNext, CheckApplication, InsertApplication,
    PreflightHire, LockJob, SaveApplication, RollbackHire, LoadReview, DiffReview,
    SaveReview, CheckIn, CheckOut, rows, vars
<1>. QED BY <1>1, <1>2, <1>3

LEMMA JobTaken ==
  ASSUME TypeOK, NotYetInserted, PlaceLeft, FilledWhenFull, NEW h \in Hires, Inserts(h)
  PROVE  LET j == JobOfHire(h) IN
         /\ j \in Jobs
         /\ job[j] = "open"
         /\ Cardinality(ActiveByJob(j)) < GuardsRequired[j]
         /\ job' = [job EXCEPT ![j] = IF Cardinality(ActiveByJob(j)) + 1 >= GuardsRequired[j]
                                      THEN "filled" ELSE "open"]
<1>. DEFINE j == JobOfHire(h)
<1>1. j \in Jobs /\ GuardsRequired[j] \in Nat
  BY HiringAssumption DEF JobOfHire
<1>2. ~Full(j) /\ job[j] = "open"
  BY <1>1 DEF Inserts, CommitHire, Go, PlaceLeft, InTransaction, FilledWhenFull, TypeOK
<1>3. Full(j)' <=> Cardinality(ActiveByJob(j)) + 1 >= GuardsRequired[j]
  BY OneMorePlace DEF Full, JobOfHire
<1>4. job' = [job EXCEPT ![j] = IF Full(j)' THEN "filled" ELSE "open"]
  BY DEF Inserts, CommitHire, JobOfHire
<1>5. Cardinality(ActiveByJob(j)) < GuardsRequired[j]
  BY <1>1, <1>2, PlacesFinite DEF Full
<1>6. job' = [job EXCEPT ![j] = IF Cardinality(ActiveByJob(j)) + 1 >= GuardsRequired[j]
                                THEN "filled" ELSE "open"]
  BY <1>3, <1>4
<1>. QED BY <1>1, <1>2, <1>5, <1>6

LEMMA PlacesInductive ==
  ASSUME TypeOK, NotYetInserted, PlaceLeft, CapacityRespected, FilledWhenFull, [Next]_vars
  PROVE  CapacityRespected' /\ FilledWhenFull'
<1>1. CASE ~\E h \in Hires : Inserts(h)
  BY <1>1, PlacesKept, JobKept DEF CapacityRespected, FilledWhenFull, Full
<1>2. ASSUME NEW h \in Hires, Inserts(h) PROVE CapacityRespected' /\ FilledWhenFull'
  <2>1. ASSUME NEW j \in Jobs, j # JobOfHire(h)
        PROVE  ActiveByJob(j)' = ActiveByJob(j) /\ job'[j] = job[j]
    BY <1>2, <2>1, PlaceTaken, JobTaken DEF TypeOK
  <2>2. ASSUME NEW j \in Jobs
        PROVE  /\ Cardinality(ActiveByJob(j)') <= GuardsRequired[j]
               /\ job'[j] = "filled" <=> Full(j)'
    <3>1. CASE j # JobOfHire(h)
      BY <2>1, <3>1 DEF CapacityRespected, FilledWhenFull, Full
    <3>2. CASE j = JobOfHire(h)
      <4>1. GuardsRequired[j] \in Nat /\ Cardinality(ActiveByJob(j)) \in Nat
        BY HiringAssumption, PlacesFinite
      <4>2. Cardinality(ActiveByJob(j)') = Cardinality(ActiveByJob(j)) + 1
        BY <1>2, <3>2, OneMorePlace DEF JobOfHire
      <4>. QED BY <1>2, <3>2, <4>1, <4>2, JobTaken DEF Full, TypeOK
    <3>. QED BY <3>1, <3>2
  <2>. QED BY <2>2 DEF CapacityRespected, FilledWhenFull
<1>. QED BY <1>1, <1>2

(* The place a transaction counted is still there: whoever takes one holds *)
(* the lock of the job it takes it on.                                     *)
LEMMA PlaceLeftInductive ==
  ASSUME TypeOK, LockHeld, NotYetInserted, PlaceLeft, Next
  PROVE  PlaceLeft'
<1>. SUFFICES ASSUME NEW g \in Hires, InTransaction(g)' PROVE ~Full(JobOfHire(g))'
  BY DEF PlaceLeft
<1>1. ~Full(JobOfHire(g))
  <2>1. ASSUME InTransaction(g) PROVE ~Full(JobOfHire(g))
    BY <2>1 DEF PlaceLeft
  <2>2. ASSUME ~InTransaction(g) PROVE LockJob(g)
    BY <2>2, HiringAssumption DEF InTransaction, TypeOK, Requests, Next, ApplyNext, HireNext,
      ReviewNext, CheckApplication, InsertApplication, PreflightHire, LockJob, SaveApplication,
      CommitHire, RollbackHire, LoadReview, DiffReview, SaveReview, CheckIn, CheckOut, Go
  <2>3. ASSUME LockJob(g), ~InTransaction(g) PROVE ~Full(JobOfHire(g))
    BY <2>3, HiringAssumption DEF LockJob, Go, InTransaction, TypeOK, Requests
  <2>. QED BY <2>1, <2>2, <2>3
<1>2. ActiveByJob(JobOfHire(g))' = ActiveByJob(JobOfHire(g))
  <2>1. CASE ~\E h \in Hires : Inserts(h)
    BY <2>1, PlacesKept DEF JobOfHire
  <2>2. ASSUME NEW h \in Hires, Inserts(h) PROVE ActiveByJob(JobOfHire(g))' = ActiveByJob(JobOfHire(g))
    <3>1. InTransaction(h) /\ g # h /\ InTransaction(g)
      BY <2>2, HiringAssumption DEF Inserts, CommitHire, Go, InTransaction, TypeOK, Requests
    <3>2. JobOfHire(g) # JobOfHire(h)
      BY <3>1 DEF LockHeld
    <3>. QED BY <2>2, <3>2, PlaceTaken DEF JobOfHire
  <2>. QED BY <2>1, <2>2
<1>. QED BY <1>1, <1>2 DEF Full, JobOfHire
-----------------------------------------------------------------------------
LEMMA NotYetInsertedInductive ==
  ASSUME TypeOK, NotYetInserted, Next
  PROVE  NotYetInserted'
<1>. USE HiringAssumption DEF TypeOK, Requests, Go, NotYetInserted
<1>1. ASSUME NEW a \in Applies, ApplyNext(a) PROVE NotYetInserted'
  BY <1>1 DEF ApplyNext, CheckApplication, InsertApplication, rows
<1>2. ASSUME NEW h \in Hires, CommitHire(h) PROVE NotYetInserted'
  BY <1>2 DEF CommitHire
<1>3. ASSUME NEW h \in Hires,
             PreflightHire(h) \/ LockJob(h) \/ SaveApplication(h) \/ RollbackHire(h)
      PROVE  NotYetInserted'
  <2>1. pc[h] # "done" /\ UNCHANGED assignment
    BY <1>3 DEF PreflightHire, LockJob, SaveApplication, RollbackHire, rows
  <2>2. \A g \in Hires : g # h => pc'[g] = pc[g]
    BY <1>3 DEF PreflightHire, LockJob, SaveApplication, RollbackHire
  <2>. QED BY <2>1, <2>2
<1>4. ASSUME NEW h \in Hires, CheckIn(h) \/ CheckOut(h) PROVE NotYetInserted'
  BY <1>4 DEF CheckIn, CheckOut
<1>5. ASSUME NEW r \in Reviews, ReviewNext(r) PROVE NotYetInserted'
  BY <1>5 DEF ReviewNext, LoadReview, DiffReview, SaveReview, rows
<1>. QED
  BY <1>1, <1>2, <1>3, <1>4, <1>5 DEF Next, HireNext

(* Inserted assignments stay.                                              *)
LEMMA AssignmentsStay ==
  ASSUME TypeOK, [Next]_vars, NEW x \in Hires, assignment[x] # "none"
  PROVE  assignment'[x] # "none"
BY DEF TypeOK, ActiveStatuses, Next, ApplyNext, HireNext, ReviewNext, CheckApplication,
  InsertApplication, PreflightHire, LockJob, SaveApplication, CommitHire, RollbackHire,
  LoadReview, DiffReview, SaveReview, CheckIn, CheckOut, rows, vars

(* A link only ever points from an assignment to the application its hire  *)
(* was for, because a request writes back only links it loaded.            *)
LEMMA LinksInductive ==
  ASSUME TypeOK, RemembersOwn, LinksOwn, [Next]_vars
  PROVE  LinksOwn'
<1>. SUFFICES ASSUME NEW g \in Hires PROVE link'[g] \in {None, Target[g]}
  BY DEF LinksOwn
<1>0. link[g] \in {None, Target[g]}
  BY DEF LinksOwn
<1>1. ASSUME NEW h \in Hires, CommitHire(h) PROVE link'[g] \in {None, Target[g]}
  BY <1>0, <1>1 DEF CommitHire, HireLinks, Relink, RemembersOwn, TypeOK
<1>2. ASSUME NEW r \in Reviews, SaveReview(r) PROVE link'[g] \in {None, Target[g]}
  BY <1>0, <1>2 DEF SaveReview, Relink, RemembersOwn, TypeOK
<1>3. \/ UNCHANGED link
      \/ \E h \in Hires : CommitHire(h)
      \/ \E r \in Reviews : SaveReview(r)
  BY DEF Next, ApplyNext, HireNext, ReviewNext, CheckApplication, InsertApplication,
    PreflightHire, LockJob, SaveApplication, RollbackHire, LoadReview, DiffReview,
    CheckIn, CheckOut, rows, vars
<1>. QED BY <1>0, <1>1, <1>2, <1>3

LEMMA RemembersInductive ==
  ASSUME TypeOK, RemembersOwn, LinksOwn, [Next]_vars
  PROVE  RemembersOwn'
<1>1. ASSUME NEW r \in Hires \cup Reviews, NEW x \in Linked(Target[r])
      PROVE  x \in Hires /\ Target[x] = Target[r] /\ assignment[x] # "none"
  BY <1>1, HiringAssumption DEF Linked, LinksOwn
<1>2. ASSUME NEW r \in Hires \cup Reviews
      PROVE  /\ loaded'[r] \subseteq loaded[r] \cup Linked(Target[r])
             /\ diff'[r].relink \subseteq diff[r].relink \cup loaded[r]
  <2>. USE DEF TypeOK
  <2>1. ASSUME NEW h \in Hires, LockJob(h)
        PROVE  loaded'[r] \subseteq loaded[r] \cup Linked(Target[r]) /\ diff' = diff
    <3>1. loaded' = loaded \/ loaded' = [loaded EXCEPT ![h] = Linked(Target[h])]
      BY <2>1 DEF LockJob
    <3>. QED BY <2>1, <3>1 DEF LockJob
  <2>2. ASSUME NEW h \in Hires, SaveApplication(h)
        PROVE  loaded' = loaded /\ diff'[r].relink \subseteq diff[r].relink \cup loaded[r]
    BY <2>2 DEF SaveApplication
  <2>3. ASSUME NEW q \in Reviews, LoadReview(q)
        PROVE  loaded'[r] \subseteq loaded[r] \cup Linked(Target[r]) /\ diff' = diff
    <3>1. loaded' = loaded \/ loaded' = [loaded EXCEPT ![q] = Linked(Target[q])]
      BY <2>3 DEF LoadReview
    <3>. QED BY <2>3, <3>1 DEF LoadReview
  <2>4. ASSUME NEW q \in Reviews, DiffReview(q)
        PROVE  loaded' = loaded /\ diff'[r].relink \subseteq diff[r].relink \cup loaded[r]
    BY <2>4 DEF DiffReview
  <2>5. \/ UNCHANGED memory
        \/ \E h \in Hires : LockJob(h) \/ SaveApplication(h)
        \/ \E q \in Reviews : LoadReview(q) \/ DiffReview(q)
    BY DEF Next, ApplyNext, HireNext, ReviewNext, CheckApplication, InsertApplication,
      PreflightHire, CommitHire, RollbackHire, SaveReview, CheckIn, CheckOut, memory, vars
  <2>. QED BY <2>1, <2>2, <2>3, <2>4, <2>5 DEF memory
<1>3. ASSUME NEW r \in Hires \cup Reviews, NEW x \in loaded'[r] \cup diff'[r].relink
      PROVE  Target[x] = Target[r] /\ assignment'[x] # "none"
  <2>1. x \in Hires /\ Target[x] = Target[r] /\ assignment[x] # "none"
    <3>1. CASE x \in Linked(Target[r])
      BY <1>1, <3>1
    <3>2. CASE x \in loaded[r] \cup diff[r].relink
      BY <3>2 DEF RemembersOwn, TypeOK, Diffs
    <3>. QED BY <1>2, <1>3, <3>1, <3>2
  <2>. QED BY <2>1, AssignmentsStay
<1>. QED BY <1>3 DEF RemembersOwn

LEMMA AcceptedInductive ==
  ASSUME TypeOK, NotYetInserted, RemembersOwn, AcceptedIsAssigned, [Next]_vars
  PROVE  AcceptedIsAssigned'
<1>. SUFFICES ASSUME NEW a \in Applies, application'[a] = "accepted"
              PROVE  \E h \in Hires : Target[h] = a /\ assignment'[h] # "none"
  BY DEF AcceptedIsAssigned
<1>1. CASE application[a] = "accepted"
  BY <1>1, AssignmentsStay DEF AcceptedIsAssigned
<1>2. CASE application[a] # "accepted"
  <2>1. PICK h \in Hires : CommitHire(h) /\ Target[h] = a
    BY <1>2, HiringAssumption DEF TypeOK, Next, ApplyNext, HireNext, ReviewNext,
      CheckApplication, InsertApplication, PreflightHire, LockJob, SaveApplication,
      CommitHire, RollbackHire, LoadReview, DiffReview, SaveReview, CheckIn, CheckOut,
      rows, vars
  <2>2. CASE loaded[h] = {}
    BY <2>1, <2>2 DEF CommitHire, TypeOK
  <2>3. CASE loaded[h] # {}
    <3>1. PICK x \in loaded[h] : x \in Hires /\ Target[x] = Target[h] /\ assignment[x] # "none"
      BY <2>3 DEF RemembersOwn, TypeOK
    <3>. QED BY <2>1, <3>1, AssignmentsStay
  <2>. QED BY <2>2, <2>3
<1>. QED BY <1>1, <1>2

-----------------------------------------------------------------------------
LEMMA InvariantInitially == Init => IInv
<1>1. ASSUME Init, NEW j \in Jobs
      PROVE  Cardinality(ActiveByJob(j)) = 0 /\ GuardsRequired[j] \in Nat \ {0}
  <2>1. ActiveByJob(j) = {}
    BY <1>1 DEF Init, ActiveByJob, ActiveStatuses
  <2>. QED BY <2>1, HiringAssumption, FS_EmptySet
<1>2. ASSUME Init PROVE CapacityRespected /\ FilledWhenFull
  BY <1>1, <1>2 DEF CapacityRespected, FilledWhenFull, Full, Init
<1>3. ASSUME Init PROVE LockHeld /\ PlaceLeft /\ NotYetInserted
  BY <1>3 DEF Init, LockHeld, PlaceLeft, NotYetInserted, InTransaction, Requests
<1>4. ASSUME Init PROVE RemembersOwn /\ LinksOwn /\ AcceptedIsAssigned
  BY <1>4 DEF Init, RemembersOwn, LinksOwn, AcceptedIsAssigned, NoDiff
<1>. QED BY TypeInitially, <1>2, <1>3, <1>4 DEF IInv

LEMMA InvariantInductive == IInv /\ [Next]_vars => IInv'
<1>. SUFFICES ASSUME IInv, [Next]_vars PROVE IInv'
  OBVIOUS
<1>1. CASE Next
  BY <1>1, TypeInductive, LockHeldInductive, PlaceLeftInductive, NotYetInsertedInductive,
    RemembersInductive, LinksInductive, PlacesInductive, AcceptedInductive DEF IInv
<1>2. CASE UNCHANGED vars
  <2>1. LockHeld' /\ PlaceLeft' /\ NotYetInserted'
    BY <1>2 DEF vars, IInv, LockHeld, PlaceLeft, NotYetInserted, InTransaction, Full,
      ActiveByJob, JobOfHire
  <2>. QED
    BY <1>2, <2>1, TypeInductive, RemembersInductive, LinksInductive, PlacesInductive,
      AcceptedInductive DEF IInv
<1>. QED BY <1>1, <1>2

LEMMA Invariant == Spec => []IInv
BY InvariantInitially, InvariantInductive, PTL DEF Spec

(* No job ever has more guards than it asks for, however many requests run.*)
THEOREM CapacityTheorem == Spec => []CapacityRespected
<1>1. IInv => CapacityRespected
  BY DEF IInv
<1>. QED BY <1>1, Invariant, PTL

(* jobs.status always says whether the job has a place left.               *)
THEOREM FilledTheorem == Spec => []FilledWhenFull
<1>1. IInv => FilledWhenFull
  BY DEF IInv
<1>. QED BY <1>1, Invariant, PTL

(* An accepted applicant has an assignment, whatever stale reviews write.  *)
THEOREM AcceptedTheorem == Spec => []AcceptedIsAssigned
<1>1. IInv => AcceptedIsAssigned
  BY DEF IInv
<1>. QED BY <1>1, Invariant, PTL

(* Every behaviour of the requests is, seen through the active assignments *)
(* and jobs.status, a behaviour of the abstract job: a commit that inserts *)
(* is Take, every other step stutters.                                     *)
THEOREM Refinement == Spec => ImplementsJobCapacity
<1>1. Init => Capacity!Init
  <2>1. ASSUME Init PROVE [j \in Jobs |-> ActiveByJob(j)] = [j \in Jobs |-> {}]
    BY <2>1 DEF Init, ActiveByJob, ActiveStatuses
  <2>. QED BY <2>1 DEF Init, Capacity!Init
<1>2. IInv /\ [Next]_vars => [Capacity!Next]_(Capacity!vars)
  <2>. SUFFICES ASSUME IInv, [Next]_vars PROVE [Capacity!Next]_(Capacity!vars)
    OBVIOUS
  <2>. DEFINE places == [j \in Jobs |-> ActiveByJob(j)]
  <2>0. TypeOK /\ NotYetInserted /\ PlaceLeft /\ FilledWhenFull
    BY DEF IInv
  <2>1. CASE ~\E h \in Hires : Inserts(h)
    <3>1. places' = places
      BY <2>0, <2>1, PlacesKept
    <3>2. job' = job
      BY <2>0, <2>1, JobKept
    <3>. QED BY <3>1, <3>2 DEF Capacity!vars
  <2>2. ASSUME NEW h \in Hires, Inserts(h) PROVE Capacity!Next
    <3>. DEFINE j == JobOfHire(h)
    <3>1. /\ j \in Jobs
          /\ job[j] = "open"
          /\ job' = [job EXCEPT ![j] = IF Cardinality(ActiveByJob(j)) + 1 >= GuardsRequired[j]
                                       THEN "filled" ELSE "open"]
      BY <2>0, <2>2, JobTaken
    <3>2. /\ h \notin ActiveByJob(j)
          /\ ActiveByJob(j)' = ActiveByJob(j) \cup {h}
          /\ \A i : i # j => ActiveByJob(i)' = ActiveByJob(i)
      BY <2>0, <2>2, PlaceTaken
    <3>3. places' = [places EXCEPT ![j] = @ \cup {h}]
      BY <3>1, <3>2
    <3>4. Capacity!Cardinality(ActiveByJob(j)) = Cardinality(ActiveByJob(j))
      BY DEF Capacity!Cardinality, Cardinality
    <3>5. Capacity!Take(j, h)
      BY <3>1, <3>2, <3>3, <3>4 DEF Capacity!Take
    <3>. QED BY <3>1, <3>5 DEF Capacity!Next
  <2>. QED BY <2>1, <2>2
<1>. QED BY <1>1, <1>2, Invariant, PTL DEF Spec, ImplementsJobCapacity, Capacity!Spec

-----------------------------------------------------------------------------
(* What the abstract job promises.                                         *)

JobKeeps ==
  /\ job \in [Jobs -> {"open", "filled"}]
  /\ CapacityRespected
  /\ FilledWhenFull

LEMMA TakeKeeps ==
  ASSUME JobKeeps, NEW j \in Jobs, NEW h \in Hires, Capacity!Take(j, h)
  PROVE  JobKeeps'
<1>. DEFINE places == [i \in Jobs |-> ActiveByJob(i)]
            n == Cardinality(ActiveByJob(j))
<1>1. /\ job[j] = "open" /\ h \notin ActiveByJob(j)
      /\ places' = [places EXCEPT ![j] = ActiveByJob(j) \cup {h}]
      /\ job' = [job EXCEPT ![j] = IF n + 1 >= GuardsRequired[j] THEN "filled" ELSE "open"]
  <2>1. Capacity!Cardinality(ActiveByJob(j)) = n
    BY DEF Capacity!Cardinality, Cardinality
  <2>. QED BY <2>1 DEF Capacity!Take
<1>2. /\ ActiveByJob(j)' = ActiveByJob(j) \cup {h}
      /\ \A i \in Jobs \ {j} : ActiveByJob(i)' = ActiveByJob(i)
  BY <1>1
<1>3. n \in Nat /\ IsFiniteSet(ActiveByJob(j)) /\ GuardsRequired[j] \in Nat \ {0}
  BY HiringAssumption, FS_Subset, FS_CardinalityType DEF ActiveByJob
<1>4. Cardinality(ActiveByJob(j)') = n + 1
  BY <1>1, <1>2, <1>3, FS_AddElement
<1>5. n < GuardsRequired[j]
  BY <1>1, <1>3 DEF JobKeeps, FilledWhenFull, Full
<1>6. job' \in [Jobs -> {"open", "filled"}]
  BY <1>1 DEF JobKeeps
<1>7. CapacityRespected'
  <2>. SUFFICES ASSUME NEW i \in Jobs PROVE Cardinality(ActiveByJob(i)') <= GuardsRequired[i]
    BY DEF CapacityRespected
  <2>1. CASE i = j
    BY <1>3, <1>4, <1>5, <2>1
  <2>2. CASE i # j
    BY <1>2, <2>2 DEF JobKeeps, CapacityRespected
  <2>. QED BY <2>1, <2>2
<1>8. FilledWhenFull'
  <2>1. job'[j] = "filled" <=> n + 1 >= GuardsRequired[j]
    BY <1>1 DEF JobKeeps
  <2>2. \A i \in Jobs \ {j} : job'[i] = job[i]
    BY <1>1 DEF JobKeeps
  <2>. QED BY <1>2, <1>4, <2>1, <2>2 DEF JobKeeps, FilledWhenFull, Full
<1>. QED BY <1>6, <1>7, <1>8 DEF JobKeeps

(* Whatever implements the abstract job keeps within the places it has and *)
(* tells by its status whether one is left: the abstract specification     *)
(* says both.                                                              *)
THEOREM JobPromise == Capacity!Spec => [](CapacityRespected /\ FilledWhenFull)
<1>. DEFINE places == [j \in Jobs |-> ActiveByJob(j)]
<1>1. Capacity!Init => JobKeeps
  <2>. SUFFICES ASSUME Capacity!Init PROVE JobKeeps
    OBVIOUS
  <2>1. job = [j \in Jobs |-> "open"] /\ places = [j \in Jobs |-> {}]
    BY DEF Capacity!Init
  <2>2. \A j \in Jobs : ActiveByJob(j) = {} /\ GuardsRequired[j] \in Nat \ {0}
    BY <2>1, HiringAssumption
  <2>. QED BY <2>1, <2>2, FS_EmptySet DEF JobKeeps, CapacityRespected, FilledWhenFull, Full
<1>2. JobKeeps /\ [Capacity!Next]_(Capacity!vars) => JobKeeps'
  <2>. SUFFICES ASSUME JobKeeps, [Capacity!Next]_(Capacity!vars) PROVE JobKeeps'
    OBVIOUS
  <2>1. CASE Capacity!Next
    BY <2>1, TakeKeeps DEF Capacity!Next
  <2>2. CASE UNCHANGED Capacity!vars
    <3>1. UNCHANGED <<places, job>>
      BY <2>2 DEF Capacity!vars
    <3>2. \A j \in Jobs : ActiveByJob(j)' = ActiveByJob(j)
      BY <3>1
    <3>. QED BY <3>1, <3>2 DEF JobKeeps, CapacityRespected, FilledWhenFull, Full
  <2>. QED BY <2>1, <2>2
<1>3. JobKeeps => CapacityRespected /\ FilledWhenFull
  BY DEF JobKeeps
<1>. QED BY <1>1, <1>2, <1>3, PTL DEF Capacity!Spec
==============================================================================
