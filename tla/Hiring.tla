------------------------------- MODULE Hiring --------------------------------
(***************************************************************************)
(* Applications, hires and reviews on marketplace jobs:                    *)
(* job-application.service.ts with the assignment and job rows it writes.  *)
(*                                                                         *)
(* Every HTTP request is a process.  A hire runs one database transaction  *)
(* that locks the job row; applying and reviewing run none: they load,     *)
(* decide and save.  PostgreSQL runs at READ COMMITTED, so a transaction's *)
(* writes become visible together when it commits (CommitHire), and a row  *)
(* it has updated makes other writers of that row wait until it ends       *)
(* (rowLock).                                                              *)
(*                                                                         *)
(* The row an application request inserts carries the request's name, and  *)
(* so does the assignment a hire inserts.                                  *)
(*                                                                         *)
(* The jobs are those created open.  POST /jobs stores any status it is    *)
(* given, but nobody can apply to a job that is not open.                  *)
(***************************************************************************)
EXTENDS Naturals, FiniteSets

CONSTANTS
  Jobs, Guards,
  Applies,         \* POST /job-applications requests
  Hires,           \* requests that reach hire()
  Reviews,         \* requests that reach reviewForUser() with another decision
  JobOf, GuardOf,  \* what each request in Applies applies for, and who applies
  Target,          \* the application each hire and review names
  Decision,        \* [Reviews -> {"under_review", "rejected"}]
  GuardsRequired,  \* [Jobs -> Nat \ {0}]
  None             \* SQL NULL

Requests == Applies \cup Hires \cup Reviews

ASSUME HiringAssumption ==
  /\ JobOf \in [Applies -> Jobs]
  /\ GuardOf \in [Applies -> Guards]
  /\ Target \in [Hires \cup Reviews -> Applies]
  /\ Decision \in [Reviews -> {"under_review", "rejected"}]
  /\ GuardsRequired \in [Jobs -> Nat \ {0}]
  /\ IsFiniteSet(Hires)
  /\ None \notin Applies \cup Hires
  /\ Applies \cap Hires = {} /\ Applies \cap Reviews = {} /\ Hires \cap Reviews = {}

VARIABLES
  application,  \* [Applies -> status]; "none" before the row exists
  assignment,   \* [Hires -> status]; "none" before the row exists
  link,         \* [Hires -> Applies \cup {None}]: assignments.applicationId
  job,          \* [Jobs -> {"open", "filled"}]: jobs.status
  jobLock,      \* the hire whose transaction holds the job row FOR UPDATE
  rowLock,      \* the hire whose transaction has updated the application row
  pc,           \* how far each request has got
  loaded,       \* the assignments a request loaded with its application
  diff          \* what the save() of a hire's or a review's application found to write

vars == <<application, assignment, link, job, jobLock, rowLock, pc, loaded, diff>>

ApplicationStatuses == {"none", "applied", "under_review", "accepted", "rejected"}
ActiveStatuses == {"assigned", "checked_in", "checked_out"}
Diffs == [status : BOOLEAN, unlink : SUBSET Hires, relink : SUBSET Hires]
NoDiff == [status |-> FALSE, unlink |-> {}, relink |-> {}]

JobOfHire(h) == JobOf[Target[h]]
Linked(a) == {h \in Hires : assignment[h] # "none" /\ link[h] = a}
Relink(hs, a, l) == [h \in Hires |-> IF h \in hs THEN a ELSE l[h]]

(* countActiveByJob: the assignments that occupy a place on the job.       *)
ActiveByJob(j) == {h \in Hires : JobOfHire(h) = j /\ assignment[h] \in ActiveStatuses}

Full(j) == Cardinality(ActiveByJob(j)) >= GuardsRequired[j]

Init ==
  /\ application = [a \in Applies |-> "none"]
  /\ assignment = [h \in Hires |-> "none"]
  /\ link = [h \in Hires |-> None]
  /\ job = [j \in Jobs |-> "open"]
  /\ jobLock = [j \in Jobs |-> None]
  /\ rowLock = [a \in Applies |-> None]
  /\ pc = [r \in Requests |-> "start"]
  /\ loaded = [r \in Hires \cup Reviews |-> {}]
  /\ diff = [r \in Hires \cup Reviews |-> NoDiff]

Go(r, from, to) == pc[r] = from /\ pc' = [pc EXCEPT ![r] = to]

rows  == <<application, assignment, link, job>>
locks == <<jobLock, rowLock>>
memory == <<loaded, diff>>

-----------------------------------------------------------------------------
(* createForGuard: a look at the job and at the guard's applications, then *)
(* an insert.  No transaction and no unique index joins the two.           *)

MayApply(a) ==
  /\ job[JobOf[a]] = "open"
  /\ \A b \in Applies : application[b] # "none"
       => <<JobOf[b], GuardOf[b]>> # <<JobOf[a], GuardOf[a]>>

CheckApplication(a) ==
  /\ \/ MayApply(a) /\ Go(a, "start", "checked")
     \/ ~MayApply(a) /\ Go(a, "start", "refused")
  /\ UNCHANGED <<rows, locks, memory>>

InsertApplication(a) ==
  /\ Go(a, "checked", "done")
  /\ application' = [application EXCEPT ![a] = "applied"]
  /\ UNCHANGED <<assignment, link, job, locks, memory>>

-----------------------------------------------------------------------------
(* hire                                                                    *)

Hireable(a) == application[a] \in {"applied", "under_review"}

(* Everything before the transaction: the application must exist and be    *)
(* undecided, and compliance, site and availability may each refuse.       *)
PreflightHire(h) ==
  /\ application[Target[h]] # "none"
  /\ \/ Hireable(Target[h]) /\ Go(h, "start", "preflight")
     \/ Go(h, "start", "refused")
  /\ UNCHANGED <<rows, locks, memory>>

(* Seeded fault: SELECT without FOR UPDATE.                                *)
LockJob_Unlocked(h) ==
  /\ IF Hireable(Target[h]) /\ ~Full(JobOfHire(h))
     THEN /\ Go(h, "preflight", "locked")
          /\ jobLock' = [jobLock EXCEPT ![JobOfHire(h)] = h]
          /\ loaded' = [loaded EXCEPT ![h] = Linked(Target[h])]
     ELSE /\ Go(h, "preflight", "refused")
          /\ UNCHANGED <<jobLock, loaded>>
  /\ UNCHANGED <<rows, rowLock, diff>>

(* Seeded fault: the places are not counted under the lock.                *)
LockJob_NoCapacityCheck(h) ==
  /\ jobLock[JobOfHire(h)] = None
  /\ IF Hireable(Target[h])
     THEN /\ Go(h, "preflight", "locked")
          /\ jobLock' = [jobLock EXCEPT ![JobOfHire(h)] = h]
          /\ loaded' = [loaded EXCEPT ![h] = Linked(Target[h])]
     ELSE /\ Go(h, "preflight", "refused")
          /\ UNCHANGED <<jobLock, loaded>>
  /\ UNCHANGED <<rows, rowLock, diff>>

(* SELECT job FOR UPDATE waits for the job row; then application and job   *)
(* are read again and the active assignments counted.  A failed check ends *)
(* the transaction, and with it the lock.                                  *)
LockJob(h) ==
  /\ jobLock[JobOfHire(h)] = None
  /\ IF Hireable(Target[h]) /\ ~Full(JobOfHire(h))
     THEN /\ Go(h, "preflight", "locked")
          /\ jobLock' = [jobLock EXCEPT ![JobOfHire(h)] = h]
          /\ loaded' = [loaded EXCEPT ![h] = Linked(Target[h])]
     ELSE /\ Go(h, "preflight", "refused")
          /\ UNCHANGED <<jobLock, loaded>>
  /\ UNCHANGED <<rows, rowLock, diff>>

(* The transaction's first write, save(application): it holds the row from *)
(* here on, although nobody sees the new status before the commit.  Loaded *)
(* assignments that lost their link meanwhile are linked again.            *)
SaveApplication(h) ==
  LET a == Target[h] IN
  /\ Go(h, "locked", "saved")
  /\ rowLock[a] = None
  /\ rowLock' = [rowLock EXCEPT ![a] = h]
  /\ diff' = [diff EXCEPT ![h] = [status |-> TRUE, unlink |-> Linked(a) \ loaded[h],
                                  relink |-> loaded[h] \ Linked(a)]]
  /\ UNCHANGED <<rows, jobLock, loaded>>

EndTransaction(h) ==
  /\ jobLock' = [jobLock EXCEPT ![JobOfHire(h)] = None]
  /\ rowLock' = [a \in Applies |-> IF rowLock[a] = h THEN None ELSE rowLock[a]]

(* Seeded fault: the assignment is inserted with its own id as applicationId.*)
HireLinks_OwnId(h) ==
  Relink(IF loaded[h] = {} THEN {h} ELSE {}, h,
         Relink(diff[h].relink, Target[h], Relink(diff[h].unlink, None, link)))

(* assignments.applicationId as the transaction of h leaves it.            *)
HireLinks(h) ==
  Relink(diff[h].relink \cup (IF loaded[h] = {} THEN {h} ELSE {}), Target[h],
         Relink(diff[h].unlink, None, link))

(* Seeded fault: the job's status comes from the count made before the     *)
(* insert.                                                                 *)
CommitHire_JobNotRecounted(h) ==
  /\ Go(h, "saved", "done")
  /\ application' = [application EXCEPT ![Target[h]] = "accepted"]
  /\ assignment' = [assignment EXCEPT ![h] = IF loaded[h] = {} THEN "assigned" ELSE @]
  /\ link' = HireLinks(h)
  /\ job' = [job EXCEPT ![JobOfHire(h)] = IF Full(JobOfHire(h)) THEN "filled" ELSE "open"]
  /\ EndTransaction(h)
  /\ UNCHANGED memory

(* Seeded fault: no assignment for an application that was reviewed before.*)
CommitHire_NoAssignment(h) ==
  /\ Go(h, "saved", "done")
  /\ application' = [application EXCEPT ![Target[h]] = "accepted"]
  /\ assignment' = [assignment EXCEPT ![h] =
       IF loaded[h] = {} /\ application[Target[h]] = "applied" THEN "assigned" ELSE @]
  /\ link' = HireLinks(h)
  /\ job' = [job EXCEPT ![JobOfHire(h)] = IF Full(JobOfHire(h))' THEN "filled" ELSE "open"]
  /\ EndTransaction(h)
  /\ UNCHANGED memory

(* The commit.  An application that still carries assignments of an earlier*)
(* hire keeps the first one; otherwise createFromHire inserts one.  The job*)
(* is recounted under the lock.                                            *)
CommitHire(h) ==
  /\ Go(h, "saved", "done")
  /\ application' = [application EXCEPT ![Target[h]] = "accepted"]
  /\ assignment' = [assignment EXCEPT ![h] = IF loaded[h] = {} THEN "assigned" ELSE @]
  /\ link' = HireLinks(h)
  /\ job' = [job EXCEPT ![JobOfHire(h)] = IF Full(JobOfHire(h))' THEN "filled" ELSE "open"]
  /\ EndTransaction(h)
  /\ UNCHANGED memory

(* Seeded fault: an error leaves the transaction open.                     *)
RollbackHire_KeepsLock(h) ==
  /\ pc[h] \in {"locked", "saved"}
  /\ pc' = [pc EXCEPT ![h] = "refused"]
  /\ UNCHANGED <<rows, locks, memory>>

(* Any later step of the transaction may throw (compliance, relationship,  *)
(* shift, a lost connection): nothing of it remains.                       *)
RollbackHire(h) ==
  /\ pc[h] \in {"locked", "saved"}
  /\ pc' = [pc EXCEPT ![h] = "refused"]
  /\ EndTransaction(h)
  /\ UNCHANGED <<rows, memory>>

-----------------------------------------------------------------------------
(* reviewForUser with "under_review" or "rejected": findOne, a check, then *)
(* save(), which selects the row again, compares it with the loaded entity *)
(* (its assignments included) and writes what differs.                     *)

LoadReview(r) ==
  /\ application[Target[r]] # "none"
  /\ IF application[Target[r]] = "accepted"
     THEN Go(r, "start", "refused") /\ UNCHANGED loaded
     ELSE /\ Go(r, "start", "loaded")
          /\ loaded' = [loaded EXCEPT ![r] = Linked(Target[r])]
  /\ UNCHANGED <<rows, locks, diff>>

DiffReview(r) ==
  LET a == Target[r] IN
  /\ Go(r, "loaded", "diffed")
  /\ diff' = [diff EXCEPT ![r] = [status |-> application[a] # Decision[r],
                                  unlink |-> Linked(a) \ loaded[r],
                                  relink |-> loaded[r] \ Linked(a)]]
  /\ UNCHANGED <<rows, locks, loaded>>

(* An UPDATE waits for the rows an open hire transaction has updated.      *)
RowsFree(r) ==
  /\ diff[r].status => rowLock[Target[r]] = None
  /\ \A h \in Hires : pc[h] = "saved" =>
       (diff[h].unlink \cup diff[h].relink) \cap (diff[r].unlink \cup diff[r].relink) = {}

SaveReview(r) ==
  LET a == Target[r] IN
  /\ Go(r, "diffed", "done")
  /\ RowsFree(r)
  /\ application' = IF diff[r].status
                    THEN [application EXCEPT ![a] = Decision[r]] ELSE application
  /\ link' = Relink(diff[r].relink, a, Relink(diff[r].unlink, None, link))
  /\ UNCHANGED <<assignment, job, locks, memory>>

-----------------------------------------------------------------------------
(* attendance.service writes the assignment's status as the shift runs     *)

CheckIn(h) ==
  /\ assignment[h] = "assigned"
  /\ assignment' = [assignment EXCEPT ![h] = "checked_in"]
  /\ UNCHANGED <<application, link, job, locks, pc, memory>>

CheckOut(h) ==
  /\ assignment[h] = "checked_in"
  /\ assignment' = [assignment EXCEPT ![h] = "checked_out"]
  /\ UNCHANGED <<application, link, job, locks, pc, memory>>

-----------------------------------------------------------------------------
ApplyNext(a) == CheckApplication(a) \/ InsertApplication(a)
HireNext(h) ==
  PreflightHire(h) \/ LockJob(h) \/ SaveApplication(h) \/ CommitHire(h) \/ RollbackHire(h)
ReviewNext(r) == LoadReview(r) \/ DiffReview(r) \/ SaveReview(r)

Next ==
  \/ \E a \in Applies : ApplyNext(a)
  \/ \E h \in Hires : HireNext(h) \/ CheckIn(h) \/ CheckOut(h)
  \/ \E r \in Reviews : ReviewNext(r)

Spec == Init /\ [][Next]_vars

(* A request that has started is run to its end by its event loop; nobody  *)
(* has to send one, and nobody has to check in.                            *)
Fairness ==
  /\ \A a \in Applies : WF_vars(pc[a] # "start" /\ ApplyNext(a))
  /\ \A h \in Hires : WF_vars(pc[h] # "start" /\ HireNext(h))
  /\ \A r \in Reviews : WF_vars(pc[r] # "start" /\ ReviewNext(r))

FairSpec == Spec /\ Fairness
-----------------------------------------------------------------------------
TypeOK ==
  /\ application \in [Applies -> ApplicationStatuses]
  /\ assignment \in [Hires -> {"none"} \cup ActiveStatuses]
  /\ link \in [Hires -> Applies \cup {None}]
  /\ job \in [Jobs -> {"open", "filled"}]
  /\ jobLock \in [Jobs -> Hires \cup {None}]
  /\ rowLock \in [Applies -> Hires \cup {None}]
  /\ pc \in [Requests -> {"start", "checked", "preflight", "locked", "saved",
                          "loaded", "diffed", "done", "refused"}]
  /\ loaded \in [Hires \cup Reviews -> SUBSET Hires]
  /\ diff \in [Hires \cup Reviews -> Diffs]

(* However many hires of a job run at once, and whatever reviews run       *)
(* beside them, no more guards hold a place on it than it asks for.        *)
CapacityRespected ==
  \A j \in Jobs : Cardinality(ActiveByJob(j)) <= GuardsRequired[j]

(* The job's own status never disagrees with the assignments, so a filled  *)
(* job takes no further applications and an open one has a place left.     *)
FilledWhenFull ==
  \A j \in Jobs : job[j] = "filled" <=> Full(j)

(* Stale reviews may take the link of an assignment away and may hand it   *)
(* back, yet a guard who reads "accepted" has an assignment on that job.   *)
AcceptedIsAssigned ==
  \A a \in Applies : application[a] = "accepted" =>
    \E h \in Hires : Target[h] = a /\ assignment[h] # "none"

(* Hiring implements the abstract job: a step of any request either takes  *)
(* one place on an open job, closing it when it was the last, or changes   *)
(* neither places nor status.                                              *)
Capacity == INSTANCE JobCapacity WITH
  Posts  <- Hires,
  taken  <- [j \in Jobs |-> ActiveByJob(j)],
  status <- job
ImplementsJobCapacity == Capacity!Spec

(* A hire that has passed its first checks gets the job row and ends,      *)
(* whoever held it before.                                                 *)
EveryHireEnds == \A h \in Hires : pc[h] = "preflight" ~> pc[h] \in {"done", "refused"}

(* job-application.service.ts:257, "Accepted applications cannot be moved  *)
(* back to review or rejected".                                            *)
AcceptedIsFinal ==
  [][\A a \in Applies : application[a] = "accepted" => application'[a] = "accepted"]_application
==============================================================================
