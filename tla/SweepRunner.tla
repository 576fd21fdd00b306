------------------------------ MODULE SweepRunner ------------------------------
(***************************************************************************)
(* The sweep runner: jobs that ask for every combination of a parameter    *)
(* grid to be backtested, advanced a batch at a time.                      *)
(*                                                                         *)
(* A tick loads the active jobs, plans a batch round-robin from the number *)
(* of combinations already counted, and runs every unit of the batch in a  *)
(* thread and a session of its own.  A unit that raised is counted as      *)
(* failed once all have ended.  The counters are the only record of which  *)
(* combinations are done.  The process may be killed at any point.         *)
(*                                                                         *)
(* Jobs are numbered in the order of created_at; a unit is <<job, index>>. *)
(***************************************************************************)
EXTENDS Integers, Sequences, FiniteSets

CONSTANTS Grids,        \* of each job, the input hashes of its combinations in order
          BatchSize,    \* BATCH_SIZE
          MaxFaults     \* bound on crashes and failed bookkeeping

ASSUME SweepAssumption ==
  /\ DOMAIN Grids \subseteq Nat /\ IsFiniteSet(DOMAIN Grids)
  /\ \A j \in DOMAIN Grids : Len(Grids[j]) \in Nat \ {0}
  /\ BatchSize \in Nat \ {0} /\ MaxFaults \in Nat

VARIABLES job,          \* the sweep_jobs rows
          runs,         \* input hashes of the experiment_runs rows
          work,         \* the units of the tick under way, and how far each is
          faults,
          counts,       \* history: how often each unit has been counted
          upset         \* history: a tick ended with bookkeeping undone

vars == <<job, runs, work, faults, counts, upset>>

Jobs == DOMAIN Grids
Total(j) == Len(Grids[j])
Units == UNION {{j} \X (1 .. Total(j)) : j \in Jobs}
InputHash(u) == Grids[u[1]][u[2]]

Statuses == {"none", "queued", "running", "completed"}

\* missed: counted as failed, the job's completion not looked at yet.
Stages == {"planned", "started", "found", "missing", "counted", "raised", "missed", "done"}

NoWork == [u \in {} |-> "done"]

TypeOK ==
  /\ job \in [Jobs -> [status : Statuses, completed : Nat, failed : Nat]]
  /\ runs \subseteq {InputHash(u) : u \in Units}
  /\ DOMAIN work \subseteq Units /\ Cardinality(DOMAIN work) <= BatchSize
  /\ \A u \in DOMAIN work : work[u] \in Stages
  /\ faults \in 0 .. MaxFaults
  /\ counts \in [Units -> Nat]
  /\ upset \in BOOLEAN

Init ==
  /\ job = [j \in Jobs |-> [status |-> "none", completed |-> 0, failed |-> 0]]
  /\ runs = {} /\ work = NoWork /\ faults = 0
  /\ counts = [u \in Units |-> 0]
  /\ upset = FALSE

-------------------------------------------------------------------------------
(* _load_active_jobs and _plan_batch.                                      *)

\* Mutation: jobs that have started are not looked for again.
ActiveQueued == {j \in Jobs : job[j].status = "queued"}

Active == {j \in Jobs : job[j].status \in {"queued", "running"}}

\* Mutation: only the successful combinations move the cursor.
CursorOfCompleted(j) == job[j].completed

\* next_index, as the number of combinations before it.
Cursor(j) == job[j].completed + job[j].failed

Left == {u \in Units : u[1] \in Active /\ u[2] > Cursor(u[1])}

\* Mutation: the oldest job goes first as long as it has combinations.
AheadByJob(u, v) == u[1] < v[1] \/ (u[1] = v[1] /\ u[2] < v[2])

\* One combination per job and round, oldest job first.
Ahead(u, v) ==
  LET round(w) == w[2] - Cursor(w[1])
  IN  round(u) < round(v) \/ (round(u) = round(v) /\ u[1] < v[1])

PlanBatch == {u \in Left : Cardinality({v \in Left : Ahead(v, u)}) < BatchSize}

-------------------------------------------------------------------------------
(* A tick.                                                                 *)

Load ==
  /\ work = NoWork /\ PlanBatch # {}
  /\ work' = [u \in PlanBatch |-> "planned"]
  /\ UNCHANGED <<job, runs, faults, counts, upset>>

MarkJobsRunning ==
  /\ work # NoWork /\ \A u \in DOMAIN work : work[u] = "planned"
  /\ job' = [j \in Jobs |-> IF job[j].status = "queued" /\ \E u \in DOMAIN work : u[1] = j
                            THEN [job[j] EXCEPT !.status = "running"] ELSE job[j]]
  /\ work' = [u \in DOMAIN work |-> "started"]
  /\ UNCHANGED <<runs, faults, counts, upset>>

\* _process_combo: is there a run of this combination already?
Lookup(u) ==
  /\ work[u] = "started"
  /\ work' = [work EXCEPT ![u] = IF InputHash(u) \in runs THEN "found" ELSE "missing"]
  /\ UNCHANGED <<job, runs, faults, counts, upset>>

\* The backtest fails, or anything else before the commit.
Raise(u) ==
  /\ work[u] \in {"started", "found", "missing"}
  /\ work' = [work EXCEPT ![u] = "raised"]
  /\ UNCHANGED <<job, runs, faults, counts, upset>>

\* One commit stores the run and moves the counter; a run of the same input
\* hash that got there first makes it raise.
CountCompleted(u) ==
  /\ work[u] \in {"found", "missing"}
  /\ IF work[u] = "missing" /\ InputHash(u) \in runs
       THEN /\ work' = [work EXCEPT ![u] = "raised"]
            /\ UNCHANGED <<job, runs, counts>>
       ELSE /\ work' = [work EXCEPT ![u] = "counted"]
            /\ runs' = runs \cup {InputHash(u)}
            /\ job' = [job EXCEPT ![u[1]].completed = @ + 1]
            /\ counts' = [counts EXCEPT ![u] = @ + 1]
  /\ UNCHANGED <<faults, upset>>

\* Mutation: the last combination does not complete the job.
MaybeCompletedLate(r, total) ==
  IF r.status # "completed" /\ r.completed + r.failed > total
  THEN [r EXCEPT !.status = "completed"] ELSE r

\* _maybe_complete, in a transaction after the counter's.
MaybeCompleted(r, total) ==
  IF r.status # "completed" /\ r.completed + r.failed >= total
  THEN [r EXCEPT !.status = "completed"] ELSE r

MaybeComplete(u) ==
  /\ work[u] \in {"counted", "missed"}
  /\ job' = [job EXCEPT ![u[1]] = MaybeCompleted(@, Total(u[1]))]
  /\ work' = [work EXCEPT ![u] = "done"]
  /\ UNCHANGED <<runs, faults, counts, upset>>

\* After the gather, _mark_combo_failed for one that raised.
MarkComboFailed(u) ==
  /\ work[u] = "raised"
  /\ \A v \in DOMAIN work : work[v] \in {"raised", "done"}
  /\ job' = [job EXCEPT ![u[1]].failed = @ + 1]
  /\ counts' = [counts EXCEPT ![u] = @ + 1]
  /\ work' = [work EXCEPT ![u] = "missed"]
  /\ UNCHANGED <<runs, faults, upset>>

TickEnds ==
  /\ work # NoWork /\ \A u \in DOMAIN work : work[u] = "done"
  /\ work' = NoWork
  /\ UNCHANGED <<job, runs, faults, counts, upset>>

-------------------------------------------------------------------------------
(* What goes wrong around it.                                              *)

\* The look at the completion fails in the thread: the gather takes the
\* combination, counted as completed, for one that raised.
CompletionRaises(u) ==
  /\ faults < MaxFaults /\ work[u] = "counted"
  /\ work' = [work EXCEPT ![u] = "raised"]
  /\ faults' = faults + 1 /\ upset' = TRUE
  /\ UNCHANGED <<job, runs, counts>>

\* The tick dies before its units have started, and nothing is lost.
DieEarly ==
  /\ faults < MaxFaults /\ work # NoWork
  /\ \A u \in DOMAIN work : work[u] \in {"planned", "started"}
  /\ work' = NoWork /\ faults' = faults + 1
  /\ UNCHANGED <<job, runs, counts, upset>>

\* The process is killed, or _mark_combo_failed raises out of the tick, with
\* units that have gone further.
Die ==
  /\ faults < MaxFaults
  /\ \E u \in DOMAIN work : work[u] \notin {"planned", "started"}
  /\ work' = NoWork /\ faults' = faults + 1 /\ upset' = TRUE
  /\ UNCHANGED <<job, runs, counts>>

\* POST: jobs come one after the other.
Submit(j) ==
  /\ job[j].status = "none" /\ \A k \in Jobs : k < j => job[k].status # "none"
  /\ job' = [job EXCEPT ![j].status = "queued"]
  /\ UNCHANGED <<runs, work, faults, counts, upset>>

-------------------------------------------------------------------------------
UnitStep(u) == Lookup(u) \/ Raise(u) \/ CountCompleted(u) \/ MaybeComplete(u) \/ MarkComboFailed(u)

TickStep == Load \/ MarkJobsRunning \/ TickEnds \/ \E u \in DOMAIN work : UnitStep(u)

Next ==
  \/ TickStep
  \/ \E u \in DOMAIN work : CompletionRaises(u)
  \/ DieEarly \/ Die
  \/ \E j \in Jobs : Submit(j)

Spec == Init /\ [][Next]_vars

\* The runner's loop never stops: a tick under way goes on, and the next follows.
FairSpec == Spec /\ WF_vars(TickStep)

-------------------------------------------------------------------------------
(* Properties.                                                             *)

\* As long as no tick ended with its bookkeeping undone, the counters stand
\* for the combinations: none is counted twice, and a completed job has
\* counted every one of its grid, in whatever order the threads ended.
EachCombinationOnce ==
  ~upset => \A j \in Jobs : \A i \in 1 .. Total(j) :
                /\ counts[<<j, i>>] <= 1
                /\ job[j].status = "completed" => counts[<<j, i>>] = 1

\* "One large sweep never starves a smaller concurrent one": in every batch a
\* job gets as many units as any other, one less at most, or all it has left:
\* none, when its counters are past its total.
FairShare ==
  [][work = NoWork =>
       \A j, k \in Active :
         LET share(m) == Cardinality({u \in DOMAIN work' : u[1] = m})
         IN  DOMAIN work' # {} => \/ share(j) >= share(k) - 1
                                  \/ share(j) >= Total(j) - Cursor(j)]_vars

\* Every submitted job is completed in the end, unless a tick ended with its
\* bookkeeping undone: failures of combinations, threads that end in any
\* order and jobs that share combinations do not keep it from completing.
EverySweepCompletes ==
  \A j \in Jobs : (job[j].status = "queued") ~> (job[j].status = "completed" \/ upset)

\* Crashes or not, every submitted job is worked off: its counters reach the
\* total, no matter where a tick was cut off.
EverySweepWorkedOff ==
  \A j \in Jobs : (job[j].status = "queued") ~> (Cursor(j) >= Total(j))

-------------------------------------------------------------------------------
(* What the documentation says, and the code does not do.                  *)

\* models/sweep_job.py:31 "a whole sweep completing means every combo was
\* attempted": a completed job has counted every combination.
CompletedMeansAttempted ==
  \A j \in Jobs : job[j].status = "completed" => \A i \in 1 .. Total(j) : counts[<<j, i>>] > 0

\* sweep_runner.py:31 "a full 500-combo sweep completes": a job whose every
\* combination is counted does not stay running.
WorkedOffMeansCompleted ==
  \A j \in Jobs : (Cursor(j) >= Total(j)) ~> (job[j].status = "completed")
===============================================================================
