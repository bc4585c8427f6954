-------------------------- MODULE SchedulerProofs --------------------------
(***************************************************************************)
(* Proofs about Scheduler for any sets of schedules, slots and intervals.  *)
(*                                                                         *)
(* RunningHasExecution is inductive beside TypeOK.  NoOverlap and          *)
(* NoEarlyRun are not: they hold of the unattended scheduler because at    *)
(* most one coroutine per schedule exists at all, which in turn needs what *)
(* a scan, a spawned, a loaded and an executing run may rely on.  UInv     *)
(* says that.                                                              *)
(***************************************************************************)
EXTENDS Scheduler, TLAPS

-----------------------------------------------------------------------------
(* Rows, runs and their updates.                                           *)

\* A run belongs to a schedule: its index is a pair.
LEMMA RunIndex == ASSUME NEW r \in Runs PROVE r[1] \in Schedules
BY DEF Runs

\* Writing a column of a row leaves a row.
LEMMA RowUpdate ==
  ASSUME NEW x \in RowType
  PROVE  /\ x.last_status \in LastStatus
         /\ x.interval \in Intervals \cup {0}
         /\ \A v \in LastStatus : [x EXCEPT !.last_status = v] \in RowType
         /\ \A n \in {"unset", "future", "past"} : [x EXCEPT !.next_run_at = n] \in RowType
         /\ \A i \in Intervals \cup {0}, e \in BOOLEAN :
              [x EXCEPT !.interval = i, !.enabled = e] \in RowType
BY DEF RowType

\* A fresh row is a row, and a coroutine that moves on is still a coroutine.
LEMMA NewRowType ==
  ASSUME NEW i \in Intervals \cup {0}, NEW e \in BOOLEAN PROVE NewRow(i, e) \in RowType
BY DEF NewRow, RowType, LastStatus

LEMMA RunUpdate ==
  /\ NoRun \in RunType
  /\ [NoRun EXCEPT !.pc = "spawned"] \in RunType
  /\ \A x \in RunType : \A pc \in {"ended", "spawned", "loaded", "running"} \cup Outcomes :
       [x EXCEPT !.pc = pc] \in RunType
BY DEF RunType, NoRun, LastStatus

\* What a session copies from a row makes a loaded run.
LEMMA LoadedType ==
  ASSUME row \in [Schedules -> RowType], NEW s \in Schedules
  PROVE  Loaded(s) \in RunType
<1>1. row[s].last_status \in LastStatus /\ row[s].interval \in Intervals \cup {0}
  BY RowUpdate
<1> QED
  BY <1>1 DEF Loaded, NoRun, RunType

-----------------------------------------------------------------------------
(* Type correctness.                                                       *)

\* Every step of the full specification keeps the types of the columns, the
\* executions and the coroutines.
LEMMA TypeStep == TypeOK /\ [Next]_vars => TypeOK'
<1> SUFFICES ASSUME TypeOK, [Next]_vars PROVE TypeOK'
  OBVIOUS
<1> USE DEF TypeOK
<1>1. CASE Boot
  BY <1>1 DEF Boot
<1>2. CASE ScanQuery
  BY <1>2 DEF ScanQuery
<1>3. CASE ScanSpawn
  <2>1. PICK new : /\ run' = [r \in Runs |-> IF r \in new THEN [NoRun EXCEPT !.pc = "spawned"]
                                            ELSE run[r]]
                   /\ executions' = [r \in Runs |-> IF r \in new THEN "none" ELSE executions[r]]
    BY <1>3 DEF ScanSpawn
  <2>2. run' \in [Runs -> RunType]
    BY <2>1, RunUpdate
  <2>3. executions' \in [Runs -> {"none", "running", "success", "failed"}]
    BY <2>1
  <2> QED
    BY <1>3, <2>2, <2>3 DEF ScanSpawn
<1>4. ASSUME NEW r \in Runs, Load(r) PROVE TypeOK'
  BY <1>4, RunIndex, LoadedType, RunUpdate DEF Load
<1>5. ASSUME NEW r \in Runs, Mark(r) PROVE TypeOK'
  <2>1. row' \in [Schedules -> RowType]
    <3>1. r[1] \in Schedules
      BY RunIndex
    <3>2. [row[r[1]] EXCEPT !.last_status = "running"] \in RowType
      BY <3>1, RowUpdate DEF LastStatus
    <3>3. \/ row' = row
          \/ row' = [row EXCEPT ![r[1]] = [row[r[1]] EXCEPT !.last_status = "running"]]
      BY <1>5 DEF Mark
    <3> QED
      BY <3>1, <3>2, <3>3
  <2>2. run' \in [Runs -> RunType]
    BY <1>5, RunUpdate DEF Mark
  <2> QED
    BY <1>5, <2>1, <2>2 DEF Mark
<1>6. ASSUME NEW r \in Runs, NEW o \in Outcomes, JobEnds(r, o) PROVE TypeOK'
  BY <1>6, RunUpdate DEF JobEnds
<1>7. ASSUME NEW r \in Runs, Finish(r) PROVE TypeOK'
  <2>1. row' \in [Schedules -> RowType]
    <3>1. r[1] \in Schedules
      BY RunIndex
    <3>2. CASE row' = row
      BY <3>2
    <3>3. CASE row' # row
      <4>1. /\ run[r].pc \in {"success", "failed"}
            /\ row' = [row EXCEPT ![r[1]].last_status = run[r].pc,
                                 ![r[1]].next_run_at = NextRun(run[r].interval)]
        BY <1>7, <3>3 DEF Finish, Outcomes
      <4>2. NextRun(run[r].interval) \in {"unset", "future", "past"}
        BY DEF NextRun
      <4>3. [[row[r[1]] EXCEPT !.last_status = run[r].pc]
               EXCEPT !.next_run_at = NextRun(run[r].interval)] \in RowType
        BY <3>1, <4>1, <4>2, RowUpdate DEF LastStatus
      <4> QED
        BY <3>1, <4>1, <4>3
    <3> QED
      BY <3>2, <3>3
  <2>2. executions' \in [Runs -> {"none", "running", "success", "failed"}]
    BY <1>7 DEF Finish, Outcomes
  <2>3. run' \in [Runs -> RunType]
    BY <1>7, RunUpdate DEF Finish
  <2> QED
    BY <1>7, <2>1, <2>2, <2>3 DEF Finish
<1>8. ASSUME NEW r \in Runs, RunNow(r) PROVE TypeOK'
  BY <1>8, RunIndex, LoadedType DEF RunNow
<1>9. CASE Administer
  <2>1. ASSUME NEW s \in Schedules, NEW i \in CreateIntervals, NEW e \in BOOLEAN, Create(s, i, e)
        PROVE TypeOK'
    BY <2>1, NewRowType DEF Create, Intervals
  <2>2. ASSUME NEW s \in Schedules, NEW i \in PatchIntervals \cup {row[s].interval},
               NEW e \in BOOLEAN, Patch(s, i, e)
        PROVE TypeOK'
    <3>1. i \in Intervals \cup {0}
      BY RowUpdate DEF Intervals
    <3> QED
      BY <2>2, <3>1, RowUpdate DEF Patch
  <2>3. ASSUME NEW s \in Schedules, Delete(s) PROVE TypeOK'
    BY <2>3, NewRowType DEF Delete
  <2> QED
    BY <1>9, <2>1, <2>2, <2>3 DEF Administer
<1>10. CASE Crash
  <2>1. run' \in [Runs -> RunType]
    BY <1>10, RunUpdate DEF Crash
  <2>2. crashes' \in 0..MaxCrashes
    BY <1>10, SchedulerAssumption DEF Crash
  <2> QED
    BY <1>10, <2>1, <2>2 DEF Crash
<1>11. ASSUME NEW s \in Schedules, TimePasses(s) PROVE TypeOK'
  BY <1>11, RowUpdate DEF TimePasses
<1>12. CASE UNCHANGED vars
  BY <1>12 DEF vars
<1> QED
  BY <1>1, <1>2, <1>3, <1>4, <1>5, <1>6, <1>7, <1>8, <1>9, <1>10, <1>11, <1>12
     DEF Next, RunStep, Environment

LEMMA InitType == Init => TypeOK
<1> SUFFICES ASSUME Init PROVE TypeOK
  OBVIOUS
<1>1. row \in [Schedules -> RowType]
  BY NewRowType DEF Init
<1>2. run \in [Runs -> RunType]
  BY RunUpdate DEF Init
<1>3. crashes \in 0..MaxCrashes
  BY SchedulerAssumption DEF Init
<1> QED
  BY <1>1, <1>2, <1>3 DEF Init, TypeOK

\* The state of the scheduler has its type in every reachable state.
THEOREM TypeCorrect == Spec => []TypeOK
<1> QED
  BY InitType, TypeStep, PTL DEF Spec

-----------------------------------------------------------------------------
(* The full specification.                                                 *)

\* Whatever runs overlap, break, are deleted or die: a schedule that says
\* "running" has an execution row that says so.
THEOREM RunningIsBacked == Spec => []RunningHasExecution
<1>1. Init => RunningHasExecution
  BY DEF Init, RunningHasExecution
<1>2. TypeOK /\ RunningHasExecution /\ [Next]_vars => RunningHasExecution'
  <2> SUFFICES ASSUME TypeOK, RunningHasExecution, [Next]_vars,
                      NEW s \in live', row'[s].last_status = "running"
               PROVE  \E r \in Runs : r[1] = s /\ executions'[r] = "running"
    BY DEF RunningHasExecution
  <2>0. s \in Schedules
    BY TypeStep DEF TypeOK
  \* Steps that leave rows, executions and the set of schedules alone.
  <2>1. CASE UNCHANGED <<live, row, executions>>
    BY <2>1 DEF RunningHasExecution
  <2>2. CASE ScanSpawn
    <3>1. PICK new \in SUBSET {r \in Runs : Free(r)} :
            executions' = [r \in Runs |-> IF r \in new THEN "none" ELSE executions[r]]
      <4>1. PICK slot \in [due -> Slots] :
              /\ \A t \in due : Free(<<t, slot[t]>>)
              /\ executions' = [r \in Runs |-> IF r \in {<<t, slot[t]>> : t \in due} THEN "none"
                                              ELSE executions[r]]
        BY <2>2 DEF ScanSpawn
      <4>2. {<<t, slot[t]>> : t \in due} \subseteq {r \in Runs : Free(r)}
        BY <4>1 DEF Runs, TypeOK
      <4> QED
        BY <4>1, <4>2
    <3>2. s \in live /\ row[s].last_status = "running"
      BY <2>2 DEF ScanSpawn
    <3> QED
      BY <3>1, <3>2 DEF RunningHasExecution, Free
  <2>3. ASSUME NEW r \in Runs, Mark(r)
        PROVE  \E q \in Runs : q[1] = s /\ executions'[q] = "running"
    <3>1. CASE r[1] \in live /\ r[1] = s
      BY <2>3, <3>1 DEF Mark, TypeOK
    <3>2. CASE r[1] \in live /\ r[1] # s
      <4>1. row'[s] = row[s] /\ s \in live
        BY <2>0, <2>3, <3>2, RunIndex DEF Mark, TypeOK
      <4> QED
        BY <2>3, <3>2, <4>1 DEF Mark, TypeOK, RunningHasExecution
    <3>3. CASE r[1] \notin live
      BY <2>3, <3>3 DEF Mark, RunningHasExecution
    <3> QED
      BY <3>1, <3>2, <3>3
  <2>4. ASSUME NEW r \in Runs, Finish(r)
        PROVE  \E q \in Runs : q[1] = s /\ executions'[q] = "running"
    <3>1. CASE run[r].pc # "broken" /\ r[1] \in live
      \* The schedule of this run does not say "running" any more.
      <4>1. r[1] # s
        <5> SUFFICES ASSUME r[1] = s PROVE FALSE
          OBVIOUS
        <5>1. row[s] \in RowType
          BY <2>0 DEF TypeOK
        <5>2. row'[s].last_status = run[r].pc
          BY <2>0, <2>4, <3>1, <5>1 DEF Finish, RowType, TypeOK
        <5> QED
          BY <2>4, <5>2 DEF Finish, Outcomes
      <4>2. row'[s] = row[s] /\ s \in live
        BY <2>0, <2>4, <3>1, <4>1, RunIndex DEF Finish, TypeOK
      <4>3. PICK q \in Runs : q[1] = s /\ executions[q] = "running"
        BY <4>2 DEF RunningHasExecution
      <4> QED
        BY <2>4, <3>1, <4>1, <4>3 DEF Finish, TypeOK
    <3>2. CASE ~(run[r].pc # "broken" /\ r[1] \in live)
      BY <2>4, <3>2 DEF Finish, RunningHasExecution
    <3> QED
      BY <3>1, <3>2
  <2>5. ASSUME NEW r \in Runs, RunNow(r)
        PROVE  \E q \in Runs : q[1] = s /\ executions'[q] = "running"
    BY <2>5 DEF RunNow, Free, RunningHasExecution, TypeOK
  <2>6. ASSUME NEW t \in Schedules, Delete(t)
        PROVE  \E q \in Runs : q[1] = s /\ executions'[q] = "running"
    <3>1. s \in live /\ s # t /\ row'[s] = row[s]
      BY <2>0, <2>6 DEF Delete, TypeOK
    <3> QED
      BY <2>6, <3>1 DEF Delete, RunningHasExecution
  <2>7. ASSUME NEW t \in Schedules, executions' = executions,
               \/ \E i \in CreateIntervals, e \in BOOLEAN : Create(t, i, e)
               \/ \E i \in PatchIntervals \cup {row[t].interval}, e \in BOOLEAN : Patch(t, i, e)
               \/ TimePasses(t)
        PROVE  \E q \in Runs : q[1] = s /\ executions'[q] = "running"
    <3>1. row[s] \in RowType /\ row[t] \in RowType
      BY <2>0 DEF TypeOK
    <3>2. s \in live /\ row[s].last_status = "running"
      <4>1. ASSUME NEW i \in CreateIntervals, NEW e \in BOOLEAN, Create(t, i, e)
            PROVE  s \in live /\ row[s].last_status = "running"
        <5>1. s # t
          BY <2>0, <4>1 DEF Create, NewRow, TypeOK
        <5> QED
          BY <2>0, <4>1, <5>1 DEF Create, TypeOK
      <4>2. ASSUME NEW i, NEW e, Patch(t, i, e)
            PROVE  s \in live /\ row[s].last_status = "running"
        BY <2>0, <3>1, <4>2 DEF Patch, RowType, TypeOK
      <4>3. CASE TimePasses(t)
        BY <2>0, <3>1, <4>3 DEF TimePasses, RowType, TypeOK
      <4> QED
        BY <2>7, <4>1, <4>2, <4>3
    <3> QED
      BY <2>7, <3>2 DEF RunningHasExecution
  <2> QED
    BY <2>1, <2>2, <2>3, <2>4, <2>5, <2>6, <2>7
       DEF Next, RunStep, Administer, Environment, Boot, ScanQuery, Load, JobEnds, Create, Patch,
           TimePasses, Crash, vars
<1> QED
  BY <1>1, <1>2, TypeCorrect, PTL DEF Spec

\* No step of a run changes the settings an administrator may have patched
\* while the run held its copy of the schedule.
THEOREM SettingsAreKept == Spec => SettingsNotLost
<1>1. TypeOK /\ [Next]_vars => [run' # run => \A s \in live \cap live' :
                                 /\ row'[s].enabled = row[s].enabled
                                 /\ row'[s].interval = row[s].interval]_vars
  <2> SUFFICES ASSUME TypeOK, Next, run' # run, NEW s \in live \cap live'
               PROVE  /\ row'[s].enabled = row[s].enabled
                      /\ row'[s].interval = row[s].interval
    BY DEF vars
  <2>0. s \in Schedules /\ row[s] \in RowType
    BY DEF TypeOK
  <2>1. CASE row' = row
    BY <2>1
  <2>2. ASSUME NEW r \in Runs, Mark(r)
        PROVE  row'[s].enabled = row[s].enabled /\ row'[s].interval = row[s].interval
    BY <2>0, <2>2 DEF Mark, RowType, TypeOK
  <2>3. ASSUME NEW r \in Runs, Finish(r)
        PROVE  row'[s].enabled = row[s].enabled /\ row'[s].interval = row[s].interval
    BY <2>0, <2>3 DEF Finish, RowType, TypeOK
  <2> QED
    BY <2>1, <2>2, <2>3
       DEF Next, RunStep, Administer, Environment, Boot, ScanQuery, ScanSpawn, Load, JobEnds,
           RunNow, Create, Patch, Delete, TimePasses, Crash
<1> QED
  BY <1>1, TypeCorrect, PTL DEF Spec, SettingsNotLost

-----------------------------------------------------------------------------
(* The unattended scheduler.                                               *)

Active(r) == run[r].pc # "ended"

\* At most one coroutine per schedule, and only for schedules that exist or did.
OneActive ==
  /\ \A r1, r2 \in Runs : r1[1] = r2[1] /\ Active(r1) /\ Active(r2) => r1 = r2
  /\ \A r \in Runs : Active(r) => r[1] \in live \cup gone

\* What a scan found due has no coroutine, and stays due until it is spawned.
DueIsIdle ==
  \A s \in due : /\ s \in live \cup gone
                 /\ \A r \in Runs : r[1] = s => ~Active(r)
                 /\ s \in live => /\ row[s].last_status # "running"
                                  /\ row[s].next_run_at # "future"

\* A run that has not marked its schedule may rely on nobody having done so.
PendingIsDue ==
  \A r \in Runs : Pending(r) =>
    /\ r[1] \in live => /\ row[r[1]].last_status # "running"
                        /\ row[r[1]].next_run_at # "future"
    /\ run[r].pc = "loaded" => run[r].last_status # "running"

\* A run in flight is what its schedule says it is.
InFlightIsMarked ==
  \A r \in Runs : InFlight(r) /\ r[1] \in live =>
    /\ row[r[1]].last_status = "running"
    /\ row[r[1]].next_run_at # "future"

UInv == TypeOK /\ OneActive /\ DueIsIdle /\ PendingIsDue /\ InFlightIsMarked

LEMMA ActiveSplit == ASSUME TypeOK, NEW r \in Runs
                     PROVE  Active(r) <=> (Pending(r) \/ InFlight(r))
<1>1. run[r].pc \in {"ended", "spawned", "loaded", "running"} \cup Outcomes
  BY DEF TypeOK, RunType
<1> QED
  BY <1>1 DEF Active, Pending, InFlight, Outcomes

\* An unattended step is a step of the full specification.
LEMMA UnattendedIsNext == UnattendedNext => Next
BY DEF UnattendedNext, Next, PromptQuery

LEMMA UInit == Init => UInv
<1> SUFFICES ASSUME Init PROVE UInv
  OBVIOUS
<1>1. \A r \in Runs : run[r].pc = "ended"
  BY DEF Init, NoRun
<1> QED
  BY <1>1, InitType
     DEF UInv, OneActive, DueIsIdle, PendingIsDue, InFlightIsMarked, Active, Pending, InFlight,
         Outcomes, Init

\* Steps that create no coroutine and move none from pending to executing: the
\* rows may change as long as what pending and executing runs rely on stands.
LEMMA UQuiet ==
  ASSUME UInv, TypeOK',
         live \cup gone \subseteq live' \cup gone',
         due' \subseteq due,
         \A r \in Runs : \/ run'[r] = run[r]
                        \/ run'[r].pc = "ended"
                        \/ /\ run[r].pc = "running"
                           /\ run'[r].pc \in Outcomes,
         \A s \in Schedules : s \in live' /\ (s \in due' \/ \E r \in Runs : r[1] = s /\ Active(r)) =>
           /\ s \in live
           /\ row'[s].last_status = row[s].last_status
           /\ row'[s].next_run_at = "future" => row[s].next_run_at = "future"
  PROVE  UInv'
<1> USE DEF UInv
<1>0. /\ \A r \in Runs : Active(r)' => Active(r)
      /\ \A r \in Runs : Pending(r)' => Pending(r) /\ run'[r] = run[r]
      /\ \A r \in Runs : InFlight(r)' => InFlight(r)
  BY DEF Active, Pending, InFlight, Outcomes
<1>1. OneActive'
  BY <1>0 DEF OneActive
<1>2. DueIsIdle'
  BY <1>0 DEF DueIsIdle, TypeOK
<1>3. PendingIsDue'
  <2> SUFFICES ASSUME NEW r \in Runs, Pending(r)'
               PROVE  /\ r[1] \in live' => /\ row'[r[1]].last_status # "running"
                                           /\ row'[r[1]].next_run_at # "future"
                      /\ run'[r].pc = "loaded" => run'[r].last_status # "running"
    BY DEF PendingIsDue
  <2> QED
    BY <1>0, RunIndex, ActiveSplit DEF PendingIsDue
<1>4. InFlightIsMarked'
  <2> SUFFICES ASSUME NEW r \in Runs, InFlight(r)', r[1] \in live'
               PROVE  row'[r[1]].last_status = "running" /\ row'[r[1]].next_run_at # "future"
    BY DEF InFlightIsMarked
  <2> QED
    BY <1>0, RunIndex, ActiveSplit DEF InFlightIsMarked
<1> QED
  BY <1>1, <1>2, <1>3, <1>4

LEMMA UStep == UInv /\ [UnattendedNext]_vars => UInv'
<1> SUFFICES ASSUME UInv, [UnattendedNext]_vars PROVE UInv'
  OBVIOUS
<1>0. TypeOK /\ TypeOK'
  BY TypeStep, UnattendedIsNext DEF UInv
<1>1. CASE Boot
  BY <1>0, <1>1, UQuiet DEF Boot
<1>2. CASE PromptQuery
  <2>1. ASSUME NEW s \in due', NEW r \in Runs, r[1] = s PROVE ~Active(r)
    BY <1>0, <1>2, <2>1, ActiveSplit DEF PromptQuery, ScanQuery, IsDue, UInv, InFlightIsMarked
  <2>2. DueIsIdle'
    BY <1>2, <2>1 DEF PromptQuery, ScanQuery, IsDue, DueIsIdle, Active
  <2> QED
    BY <1>0, <1>2, <2>2
       DEF PromptQuery, ScanQuery, UInv, OneActive, PendingIsDue, InFlightIsMarked, Active, Pending,
           InFlight
<1>3. CASE ScanSpawn
  <2>1. PICK slot \in [due -> Slots] :
          run' = [r \in Runs |-> IF r \in {<<s, slot[s]>> : s \in due}
                                 THEN [NoRun EXCEPT !.pc = "spawned"] ELSE run[r]]
    BY <1>3 DEF ScanSpawn
  <2> DEFINE new == {<<s, slot[s]>> : s \in due}
  <2>2. /\ \A r \in new : r \in Runs /\ r[1] \in due /\ r = <<r[1], slot[r[1]]>>
        /\ \A r \in new : run'[r].pc = "spawned"
        /\ \A r \in Runs \ new : run'[r] = run[r]
    <3>1. \A r \in new : r \in Runs /\ r[1] \in due /\ r = <<r[1], slot[r[1]]>>
      BY <1>0, <2>1 DEF TypeOK, Runs
    <3>2. [NoRun EXCEPT !.pc = "spawned"].pc = "spawned"
      BY DEF NoRun
    <3> QED
      BY <2>1, <3>1, <3>2
  <2> HIDE DEF new
  <2>3. OneActive'
    <3>1. ASSUME NEW r1 \in Runs, NEW r2 \in Runs, r1[1] = r2[1], Active(r1)', Active(r2)'
          PROVE  r1 = r2
      BY <2>2, <3>1 DEF UInv, OneActive, DueIsIdle, Active
    <3>2. ASSUME NEW r \in Runs, Active(r)' PROVE r[1] \in live \cup gone
      BY <2>2, <3>2 DEF UInv, OneActive, DueIsIdle, Active
    <3> QED
      BY <1>3, <3>1, <3>2 DEF OneActive, ScanSpawn
  <2>4. DueIsIdle'
    BY <1>3 DEF ScanSpawn, DueIsIdle
  <2>5. PendingIsDue' /\ InFlightIsMarked'
    <3>1. ASSUME NEW r \in new
          PROVE  ~InFlight(r)' /\ r[1] \in due /\ run'[r].pc # "loaded"
      BY <2>2, <3>1 DEF InFlight, Outcomes
    <3>2. ASSUME NEW r \in Runs \ new
          PROVE  /\ Pending(r)' => Pending(r)
                 /\ InFlight(r)' => InFlight(r)
                 /\ run'[r] = run[r]
      BY <2>2, <3>2 DEF Pending, InFlight
    <3> QED
      BY <1>3, <3>1, <3>2 DEF ScanSpawn, UInv, DueIsIdle, PendingIsDue, InFlightIsMarked
  <2> QED
    BY <1>0, <2>3, <2>4, <2>5 DEF UInv
<1>4. ASSUME NEW r \in Runs, Load(r) PROVE UInv'
  <2>1. CASE r[1] \in live /\ row[r[1]].enabled
    <3>1. /\ run' = [run EXCEPT ![r] = Loaded(r[1])]
          /\ Loaded(r[1]).pc = "loaded"
          /\ Loaded(r[1]).last_status = row[r[1]].last_status
      BY <1>4, <2>1 DEF Load, Loaded, NoRun
    <3>2. /\ run'[r].pc = "loaded" /\ run'[r].last_status = row[r[1]].last_status
          /\ \A q \in Runs : q # r => run'[q] = run[q]
          /\ Pending(r) /\ Active(r)
      BY <1>0, <1>4, <3>1 DEF TypeOK, Load, Pending, Active
    <3>3. OneActive' /\ DueIsIdle'
      BY <1>4, <3>2 DEF Load, UInv, OneActive, DueIsIdle, Active
    <3>4. PendingIsDue'
      <4> SUFFICES ASSUME NEW q \in Runs, Pending(q)'
                   PROVE  /\ q[1] \in live' => /\ row'[q[1]].last_status # "running"
                                               /\ row'[q[1]].next_run_at # "future"
                          /\ run'[q].pc = "loaded" => run'[q].last_status # "running"
        BY DEF PendingIsDue
      <4>1. CASE q = r
        BY <1>4, <2>1, <3>2, <4>1 DEF Load, UInv, PendingIsDue
      <4>2. CASE q # r
        BY <1>4, <3>2, <4>2 DEF Load, UInv, PendingIsDue, Pending
      <4> QED
        BY <4>1, <4>2
    <3>5. InFlightIsMarked'
      BY <1>4, <3>2 DEF Load, UInv, InFlightIsMarked, InFlight, Outcomes
    <3> QED
      BY <1>0, <3>3, <3>4, <3>5 DEF UInv
  <2>2. CASE ~(r[1] \in live /\ row[r[1]].enabled)
    <3>1. \A q \in Runs : run'[q] = run[q] \/ run'[q].pc = "ended"
      BY <1>0, <1>4, <2>2 DEF Load, NoRun, TypeOK
    <3> QED
      BY <1>0, <1>4, <3>1, UQuiet DEF Load
  <2> QED
    BY <2>1, <2>2
<1>5. ASSUME NEW r \in Runs, Mark(r) PROVE UInv'
  <2>1. CASE r[1] \in live
    <3>0. r[1] \in Schedules /\ row[r[1]] \in RowType /\ Pending(r) /\ Active(r)
      BY <1>0, <1>5, RunIndex DEF TypeOK, Mark, Pending, Active
    <3>1. /\ row'[r[1]].last_status = "running"
          /\ row'[r[1]].next_run_at = row[r[1]].next_run_at
          /\ \A s \in Schedules : s # r[1] => row'[s] = row[s]
      BY <1>0, <1>5, <2>1, <3>0 DEF Mark, UInv, PendingIsDue, TypeOK, RowType
    <3>2. /\ run'[r].pc = "running"
          /\ \A q \in Runs : q # r => run'[q] = run[q]
      BY <1>0, <1>5, <2>1 DEF Mark, TypeOK, RunType
    <3>3. \A q \in Runs : q # r /\ Active(q) => q[1] # r[1]
      BY <3>0 DEF UInv, OneActive
    <3>4. r[1] \notin due
      BY <3>0 DEF UInv, DueIsIdle
    <3>5. OneActive'
      BY <1>5, <3>0, <3>2 DEF Mark, UInv, OneActive, Active
    <3>6. DueIsIdle'
      BY <1>0, <1>5, <3>0, <3>1, <3>2, <3>4 DEF Mark, UInv, DueIsIdle, Active, TypeOK
    <3>7. PendingIsDue'
      BY <1>0, <1>5, <3>1, <3>2, <3>3, RunIndex, ActiveSplit DEF Mark, UInv, PendingIsDue, Pending
    <3>8. InFlightIsMarked'
      <4> SUFFICES ASSUME NEW q \in Runs, InFlight(q)', q[1] \in live'
                   PROVE  row'[q[1]].last_status = "running" /\ row'[q[1]].next_run_at # "future"
        BY DEF InFlightIsMarked
      <4>1. CASE q = r
        BY <2>1, <3>0, <3>1, <4>1 DEF UInv, PendingIsDue
      <4>2. CASE q # r
        BY <1>0, <1>5, <3>1, <3>2, <3>3, <4>2, RunIndex, ActiveSplit
           DEF Mark, UInv, InFlightIsMarked, InFlight
      <4> QED
        BY <4>1, <4>2
    <3> QED
      BY <1>0, <3>5, <3>6, <3>7, <3>8 DEF UInv
  <2>2. CASE r[1] \notin live
    <3>1. \A q \in Runs : run'[q] = run[q] \/ run'[q].pc = "ended"
      BY <1>0, <1>5, <2>2 DEF Mark, NoRun, TypeOK
    <3> QED
      BY <1>0, <1>5, <2>2, <3>1, UQuiet DEF Mark
  <2> QED
    BY <2>1, <2>2
<1>6. ASSUME NEW r \in Runs, NEW o \in Outcomes, JobEnds(r, o) PROVE UInv'
  <2>1. \A q \in Runs : \/ run'[q] = run[q]
                        \/ /\ run[q].pc = "running"
                           /\ run'[q].pc \in Outcomes
    BY <1>0, <1>6 DEF JobEnds, TypeOK, RunType
  <2> QED
    BY <1>0, <1>6, <2>1, UQuiet DEF JobEnds
<1>7. ASSUME NEW r \in Runs, Finish(r) PROVE UInv'
  <2>0. r[1] \in Schedules /\ InFlight(r) /\ Active(r)
    BY <1>7, RunIndex DEF Finish, InFlight, Active, Outcomes
  <2>1. /\ run'[r].pc = "ended"
        /\ \A q \in Runs : q # r => run'[q] = run[q]
    BY <1>0, <1>7 DEF Finish, NoRun, TypeOK
  <2>2. \A s \in Schedules : s # r[1] => row'[s] = row[s]
    BY <1>0, <1>7 DEF Finish, TypeOK
  <2>3. \A q \in Runs : q # r /\ Active(q) => q[1] # r[1]
    BY <2>0 DEF UInv, OneActive
  <2>4. r[1] \notin due
    BY <2>0 DEF UInv, DueIsIdle
  <2>5. OneActive'
    BY <1>7, <2>1 DEF Finish, UInv, OneActive, Active
  <2>6. DueIsIdle'
    BY <1>0, <1>7, <2>1, <2>2, <2>4 DEF Finish, UInv, DueIsIdle, Active, TypeOK
  <2>7. PendingIsDue'
    BY <1>0, <1>7, <2>1, <2>2, <2>3, RunIndex, ActiveSplit
       DEF Finish, UInv, PendingIsDue, Pending
  <2>8. InFlightIsMarked'
    BY <1>0, <1>7, <2>1, <2>2, <2>3, RunIndex, ActiveSplit
       DEF Finish, UInv, InFlightIsMarked, InFlight, Outcomes
  <2> QED
    BY <1>0, <2>5, <2>6, <2>7, <2>8 DEF UInv
<1>8. CASE Administer
  <2>1. ASSUME NEW s \in Schedules, NEW i \in CreateIntervals, NEW e \in BOOLEAN, Create(s, i, e)
        PROVE UInv'
    <3>1. s \notin due /\ \A r \in Runs : r[1] = s => ~Active(r)
      BY <2>1 DEF Create, UInv, OneActive, DueIsIdle
    <3> QED
      BY <1>0, <2>1, <3>1, UQuiet DEF Create, TypeOK
  <2>2. ASSUME NEW s \in Schedules, NEW i, NEW e \in BOOLEAN, Patch(s, i, e) PROVE UInv'
    <3>1. \A t \in Schedules : /\ row'[t].last_status = row[t].last_status
                              /\ row'[t].next_run_at = row[t].next_run_at
      BY <1>0, <2>2 DEF Patch, TypeOK, RowType
    <3> QED
      BY <1>0, <2>2, <3>1, UQuiet DEF Patch
  <2>3. ASSUME NEW s \in Schedules, Delete(s) PROVE UInv'
    <3>1. \A t \in Schedules : t \in live' => t \in live /\ row'[t] = row[t]
      BY <1>0, <2>3 DEF Delete, TypeOK
    <3> QED
      BY <1>0, <2>3, <3>1, UQuiet DEF Delete
  <2> QED
    BY <1>8, <2>1, <2>2, <2>3 DEF Administer
<1>9. CASE Crash
  <2>1. \A r \in Runs : run'[r].pc = "ended"
    BY <1>9 DEF Crash, NoRun
  <2> QED
    BY <1>0, <1>9, <2>1, UQuiet DEF Crash
<1>10. ASSUME NEW s \in Schedules, TimePasses(s) PROVE UInv'
  <2>1. \A t \in Schedules : /\ row'[t].last_status = row[t].last_status
                            /\ row'[t].next_run_at = "future" => row[t].next_run_at = "future"
    BY <1>0, <1>10 DEF TimePasses, TypeOK, RowType
  <2> QED
    BY <1>0, <1>10, <2>1, UQuiet DEF TimePasses
<1>11. CASE UNCHANGED vars
  BY <1>0, <1>11, UQuiet DEF vars
<1> QED
  BY <1>1, <1>2, <1>3, <1>4, <1>5, <1>6, <1>7, <1>8, <1>9, <1>10, <1>11
     DEF UnattendedNext, RunStep, Environment

LEMMA UInvariant == UnattendedSpec => []UInv
<1> QED
  BY UInit, UStep, PTL DEF UnattendedSpec

\* Left to itself the loop never has two runs of one schedule in flight.
THEOREM NeverOverlaps == UnattendedSpec => []NoOverlap
<1>1. UInv => NoOverlap
  BY ActiveSplit DEF UInv, OneActive, NoOverlap
<1> QED
  BY <1>1, UInvariant, PTL

\* Left to itself the loop runs a schedule only when its time has come.
THEOREM NeverEarly == UnattendedSpec => []NoEarlyRun
<1>1. UInv => NoEarlyRun
  BY DEF UInv, PendingIsDue, InFlightIsMarked, NoEarlyRun
<1> QED
  BY <1>1, UInvariant, PTL

=============================================================================
