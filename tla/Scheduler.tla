----------------------------- MODULE Scheduler -----------------------------
(***************************************************************************)
(* The background scheduler of the API process (SchedulerService), the     *)
(* job_schedules / job_executions tables it keeps, and the administrator's *)
(* requests on them.                                                       *)
(*                                                                         *)
(* A "run" is one coroutine of _execute_schedule and the JobExecution row  *)
(* it inserts.  Every run has a database session of its own: it LOADs the  *)
(* schedule, MARKs it running (first commit), executes the job and         *)
(* FINISHes (second commit).  Other runs and requests commit in between,   *)
(* so a run acts on a copy of the row it loaded (expire_on_commit=False).  *)
(* The ORM writes only the columns a session changed: a run whose copy     *)
(* already says "running" does not write last_status again.                *)
(*                                                                         *)
(* Time is abstracted to what the loop tests: next_run_at is unset, in the *)
(* future or past.  The process is single (one uvicorn worker).            *)
(***************************************************************************)
EXTENDS Integers, FiniteSets

CONSTANTS
  Schedules,        \* ids of job_schedules rows; an id is never reused
  Slots,            \* bound: runs of one schedule that are remembered at once
  CreateIntervals,  \* interval_seconds accepted by POST /schedules; 0 is None
  PatchIntervals,   \* interval_seconds accepted by PATCH /schedules/{id}
  MaxCrashes        \* bound: how often the process may die

ASSUME SchedulerAssumption ==
  /\ CreateIntervals \subseteq Int
  /\ PatchIntervals \subseteq Int
  /\ MaxCrashes \in Nat

VARIABLES
  live,        \* schedules that have a row
  gone,        \* schedules that were deleted
  row,         \* the columns of job_schedules that the scheduler reads
  executions,  \* status of the job_executions row of each run
  run,         \* the coroutine of each run: its place and its session's copy
  up,          \* the process is running (SchedulerService._running)
  due,         \* schedules the loop found due in this scan
  scanning,    \* the loop is between its query and the spawning of runs
  crashes

vars == <<live, gone, row, executions, run, up, due, scanning, crashes>>

Runs == Schedules \X Slots

Intervals == CreateIntervals \cup PatchIntervals

LastStatus == {"idle", "running", "success", "failed"}

NewRow(interval, enabled) ==
  [enabled |-> enabled, interval |-> interval, last_status |-> "idle", next_run_at |-> "unset"]

RowType == [enabled: BOOLEAN, interval: Intervals \cup {0}, last_status: LastStatus,
            next_run_at: {"unset", "future", "past"}]

\* How the job of a run ended: it returned, it raised, or it raised and left the
\* session unusable (a failed statement, and no rollback() in the except clause).
Outcomes == {"success", "failed", "broken"}

RunType == [pc: {"ended", "spawned", "loaded", "running"} \cup Outcomes,
            interval: Intervals \cup {0}, last_status: LastStatus]

NoRun == [pc |-> "ended", interval |-> 0, last_status |-> "idle"]

TypeOK ==
  /\ live \subseteq Schedules
  /\ gone \subseteq Schedules
  /\ row \in [Schedules -> RowType]
  /\ executions \in [Runs -> {"none", "running", "success", "failed"}]
  /\ run \in [Runs -> RunType]
  /\ up \in BOOLEAN
  /\ due \subseteq Schedules
  /\ scanning \in BOOLEAN
  /\ crashes \in 0..MaxCrashes

Init ==
  /\ live = {}
  /\ gone = {}
  /\ row = [s \in Schedules |-> NewRow(0, FALSE)]
  /\ executions = [r \in Runs |-> "none"]
  /\ run = [r \in Runs |-> NoRun]
  /\ up = FALSE
  /\ due = {}
  /\ scanning = FALSE
  /\ crashes = 0

-----------------------------------------------------------------------------
(* The predicates the loop and the runs test.                              *)

\* A slot that a new run may take: its last run ended and left no row that
\* still says "running".  Nothing in the scheduler reads a completed row.
Free(r) == run[r].pc = "ended" /\ executions[r] # "running"

\* Mutant of IsDue: a schedule whose run is in progress is due again.
IsDueWhileRunning(s) ==
  /\ s \in live
  /\ row[s].enabled
  /\ row[s].next_run_at # "future"

IsDue(s) ==
  /\ s \in live
  /\ row[s].enabled
  /\ row[s].next_run_at # "future"
  /\ row[s].last_status # "running"

Pending(r)  == run[r].pc \in {"spawned", "loaded"}
InFlight(r) == run[r].pc = "running" \/ run[r].pc \in Outcomes

\* next_run_at = completed_at + (interval_seconds or 86400)
NextRun(interval) == IF interval < 0 THEN "past" ELSE "future"

-----------------------------------------------------------------------------
(* The main loop.                                                          *)

\* Lifespan start-up: nothing of a previous process is repaired.
Boot ==
  /\ ~up
  /\ up' = TRUE
  /\ due' = {}
  /\ scanning' = FALSE
  /\ UNCHANGED <<live, gone, row, executions, run, crashes>>

\* The loop wakes and queries the enabled schedules.
ScanQuery ==
  /\ up
  /\ ~scanning
  /\ due' = {s \in Schedules : IsDue(s)}
  /\ scanning' = TRUE
  /\ UNCHANGED <<live, gone, row, executions, run, up, crashes>>

\* Mutant of PromptQuery: the loop does not sleep between two scans.
EagerQuery == ScanQuery

\* The 30 seconds between scans outlast the first transaction of every run.
PromptQuery ==
  /\ \A r \in Runs : ~Pending(r)
  /\ ScanQuery

\* The loop creates one task per due schedule and goes back to sleep.
ScanSpawn ==
  /\ up
  /\ scanning
  /\ \E slot \in [due -> Slots] :
       /\ \A s \in due : Free(<<s, slot[s]>>)
       /\ LET new == {<<s, slot[s]>> : s \in due}
          IN /\ run' = [r \in Runs |-> IF r \in new THEN [NoRun EXCEPT !.pc = "spawned"]
                                       ELSE run[r]]
             /\ executions' = [r \in Runs |-> IF r \in new THEN "none" ELSE executions[r]]
  /\ due' = {}
  /\ scanning' = FALSE
  /\ UNCHANGED <<live, gone, row, up, crashes>>

-----------------------------------------------------------------------------
(* The steps of a run.                                                     *)

Loaded(s) == [NoRun EXCEPT !.pc = "loaded", !.interval = row[s].interval,
                           !.last_status = row[s].last_status]

\* Mutant of Load: a schedule that has never run is skipped.
LoadOnlyPast(r) ==
  /\ run[r].pc = "spawned"
  /\ run' = [run EXCEPT ![r] = IF /\ r[1] \in live
                                  /\ row[r[1]].enabled
                                  /\ row[r[1]].next_run_at = "past"
                               THEN Loaded(r[1]) ELSE NoRun]
  /\ UNCHANGED <<live, gone, row, executions, up, due, scanning, crashes>>

\* _run_due_schedule_safe reads the row again, and tests only `enabled`.
Load(r) ==
  /\ run[r].pc = "spawned"
  /\ run' = [run EXCEPT ![r] = IF r[1] \in live /\ row[r[1]].enabled
                               THEN Loaded(r[1]) ELSE NoRun]
  /\ UNCHANGED <<live, gone, row, executions, up, due, scanning, crashes>>

\* First commit: insert the execution, mark the schedule.  The insert fails on
\* its foreign key when the schedule has been deleted since it was loaded.
Mark(r) ==
  /\ run[r].pc = "loaded"
  /\ IF r[1] \in live
     THEN /\ executions' = [executions EXCEPT ![r] = "running"]
          /\ row' = IF run[r].last_status = "running" THEN row
                    ELSE [row EXCEPT ![r[1]].last_status = "running"]
          /\ run' = [run EXCEPT ![r].pc = "running"]
     ELSE /\ run' = [run EXCEPT ![r] = NoRun]
          /\ UNCHANGED <<row, executions>>
  /\ UNCHANGED <<live, gone, up, due, scanning, crashes>>

JobEnds(r, outcome) ==
  /\ run[r].pc = "running"
  /\ run' = [run EXCEPT ![r].pc = outcome]
  /\ UNCHANGED <<live, gone, row, executions, up, due, scanning, crashes>>

\* Mutant of Finish: the schedule is left as it was marked.
FinishForgetsSchedule(r) ==
  /\ run[r].pc \in Outcomes
  /\ executions' = IF run[r].pc # "broken" /\ r[1] \in live
                   THEN [executions EXCEPT ![r] = run[r].pc] ELSE executions
  /\ run' = [run EXCEPT ![r] = NoRun]
  /\ UNCHANGED <<live, gone, row, up, due, scanning, crashes>>

\* Mutant of Finish: the session writes back every column of its copy.
FinishWritesCopy(r) ==
  /\ run[r].pc \in Outcomes
  /\ IF run[r].pc # "broken" /\ r[1] \in live
     THEN /\ executions' = [executions EXCEPT ![r] = run[r].pc]
          /\ row' = [row EXCEPT ![r[1]].last_status = run[r].pc,
                                ![r[1]].interval = run[r].interval,
                                ![r[1]].next_run_at = NextRun(run[r].interval)]
     ELSE UNCHANGED <<row, executions>>
  /\ run' = [run EXCEPT ![r] = NoRun]
  /\ UNCHANGED <<live, gone, up, due, scanning, crashes>>

\* Mutant of Finish: what the job left in the session is committed unseen.
FinishUnchecked(r) ==
  /\ run[r].pc \in Outcomes
  /\ executions' = [executions EXCEPT ![r] = run[r].pc]
  /\ row' = [row EXCEPT ![r[1]].last_status = run[r].pc,
                        ![r[1]].next_run_at = NextRun(run[r].interval)]
  /\ run' = [run EXCEPT ![r] = NoRun]
  /\ UNCHANGED <<live, gone, up, due, scanning, crashes>>

\* Second commit: complete the execution and the schedule, or nothing at all
\* when the session is unusable or the rows were deleted meanwhile.
Finish(r) ==
  /\ run[r].pc \in Outcomes
  /\ IF run[r].pc # "broken" /\ r[1] \in live
     THEN /\ executions' = [executions EXCEPT ![r] = run[r].pc]
          /\ row' = [row EXCEPT ![r[1]].last_status = run[r].pc,
                                ![r[1]].next_run_at = NextRun(run[r].interval)]
     ELSE UNCHANGED <<row, executions>>
  /\ run' = [run EXCEPT ![r] = NoRun]
  /\ UNCHANGED <<live, gone, up, due, scanning, crashes>>

-----------------------------------------------------------------------------
(* Requests of an administrator.                                           *)

\* POST /schedules/{id}/run, and trigger-job/{type} when a schedule of that
\* type exists: no test of enabled, next_run_at or last_status.
RunNow(r) ==
  /\ up
  /\ r[1] \in live
  /\ Free(r)
  /\ run' = [run EXCEPT ![r] = Loaded(r[1])]
  /\ executions' = [executions EXCEPT ![r] = "none"]
  /\ UNCHANGED <<live, gone, row, up, due, scanning, crashes>>

Create(s, interval, enabled) ==
  /\ up
  /\ s \notin live \cup gone
  /\ live' = live \cup {s}
  /\ row' = [row EXCEPT ![s] = NewRow(interval, enabled)]
  /\ UNCHANGED <<gone, executions, run, up, due, scanning, crashes>>

Patch(s, interval, enabled) ==
  /\ up
  /\ s \in live
  /\ row' = [row EXCEPT ![s].interval = interval, ![s].enabled = enabled]
  /\ UNCHANGED <<live, gone, executions, run, up, due, scanning, crashes>>

\* The executions go with their schedule (cascade="all, delete-orphan").
Delete(s) ==
  /\ up
  /\ s \in live
  /\ live' = live \ {s}
  /\ gone' = gone \cup {s}
  /\ row' = [row EXCEPT ![s] = NewRow(0, FALSE)]
  /\ executions' = [r \in Runs |-> IF r[1] = s THEN "none" ELSE executions[r]]
  /\ UNCHANGED <<run, up, due, scanning, crashes>>

-----------------------------------------------------------------------------
(* The environment.                                                        *)

TimePasses(s) ==
  /\ s \in live
  /\ row[s].next_run_at = "future"
  /\ row' = [row EXCEPT ![s].next_run_at = "past"]
  /\ UNCHANGED <<live, gone, executions, run, up, due, scanning, crashes>>

\* The process dies, or stops: stop() cancels the loop only, and the runs in
\* progress die with the event loop.  What they had not committed is lost.
Crash ==
  /\ up
  /\ crashes < MaxCrashes
  /\ crashes' = crashes + 1
  /\ up' = FALSE
  /\ run' = [r \in Runs |-> NoRun]
  /\ due' = {}
  /\ scanning' = FALSE
  /\ UNCHANGED <<live, gone, row, executions>>

-----------------------------------------------------------------------------
RunStep(r) ==
  \/ Load(r)
  \/ Mark(r)
  \/ \E outcome \in Outcomes : JobEnds(r, outcome)
  \/ Finish(r)

Administer ==
  \E s \in Schedules :
    \/ \E i \in CreateIntervals, e \in BOOLEAN : Create(s, i, e)
    \/ \E i \in PatchIntervals \cup {row[s].interval}, e \in BOOLEAN : Patch(s, i, e)
    \/ Delete(s)

Environment == Crash \/ \E s \in Schedules : TimePasses(s)

Next ==
  \/ Boot
  \/ ScanQuery
  \/ ScanSpawn
  \/ \E r \in Runs : RunStep(r)
  \/ \E r \in Runs : RunNow(r)
  \/ Administer
  \/ Environment

Spec == Init /\ [][Next]_vars

\* Nobody triggers runs by hand, and a scan finds no run still starting.
UnattendedNext ==
  \/ Boot
  \/ PromptQuery
  \/ ScanSpawn
  \/ \E r \in Runs : RunStep(r)
  \/ Administer
  \/ Environment

\* The event loop runs every ready coroutine, jobs end (every request they make
\* has a timeout), the service is restarted and time passes.
Fairness ==
  /\ WF_vars(Boot)
  /\ WF_vars(PromptQuery)
  /\ WF_vars(ScanSpawn)
  /\ \A r \in Runs : WF_vars(RunStep(r))
  /\ \A s \in Schedules : WF_vars(TimePasses(s))

UnattendedSpec == Init /\ [][UnattendedNext]_vars /\ Fairness

-----------------------------------------------------------------------------
(* Properties.                                                             *)

\* A schedule that says "running" has an execution that says so too, whatever
\* runs overlap, fail, are deleted or die: the two rows of a run are committed
\* together, so the history never claims more than the executions show.
RunningHasExecution ==
  \A s \in live : row[s].last_status = "running" =>
    \E r \in Runs : r[1] = s /\ executions[r] = "running"

\* A run acts on a copy of its schedule that may be hours old, yet no step of a
\* run undoes what an administrator patched meanwhile.
SettingsNotLost ==
  [][run' # run => \A s \in live \cap live' :
       /\ row'[s].enabled = row[s].enabled
       /\ row'[s].interval = row[s].interval]_vars

\* Left to itself, the loop never executes a schedule twice at once: only the
\* last_status column stands between a scan and a second run.
NoOverlap ==
  \A r1, r2 \in Runs : r1[1] = r2[1] /\ InFlight(r1) /\ InFlight(r2) => r1 = r2

\* Left to itself, the loop never starts or continues a run of a schedule whose
\* next run lies in the future: one due time gives one run.
NoEarlyRun ==
  \A r \in Runs : (Pending(r) \/ InFlight(r)) /\ r[1] \in live
                    => row[r[1]].next_run_at # "future"

\* What the loop may pick up does not stay due forever.
DueIsPickedUp == \A s \in Schedules : IsDue(s) ~> ~IsDue(s)

\* "reliable scheduled collection": an enabled schedule whose time has come is
\* again and again in execution, or waiting for its next time.
ReliableSchedule ==
  \A s \in Schedules : []<>( \/ s \notin live
                            \/ ~row[s].enabled
                            \/ row[s].next_run_at = "future"
                            \/ \E r \in Runs : r[1] = s /\ InFlight(r) )
=============================================================================
