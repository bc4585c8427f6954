-------------------------------- MODULE Alerts --------------------------------
(***************************************************************************)
(* Monitors, the alerts they raise, and their delivery.                    *)
(*                                                                         *)
(* One evaluation at a time walks through the enabled monitors, compares   *)
(* the latest observation of each with its condition, and commits the      *)
(* notifications together with the times it triggered at.  It starts the   *)
(* delivery of each notification as a task, before that commit, and ends   *)
(* with the process of asyncio.run, which cancels the tasks.  What a       *)
(* monitor watches is an observation or a risk assessment, here a reading. *)
(***************************************************************************)
EXTENDS Naturals, FiniteSetsExt

CONSTANTS
  Monitors,        \* bound: monitors created
  Notifications,   \* bound: notifications raised
  MaxTime,         \* bound: times of readings, 1..MaxTime
  Conditions,      \* what monitors compare: [operator, value, readable]
  MaxMessages      \* bound: messages sent for one notification

Times == 1..MaxTime
Values == 0..1
Stages == {"none", "started", "loaded", "answered", "refused"}

VARIABLES
  monitors,        \* the rows
  readings,        \* what each monitor watches: a value for each time, if there is one
  notifications,   \* the rows, those of the open transaction included
  evaluation,      \* the evaluation: its time, its copies of the rows, the monitors left
  delivery         \* the deliveries of a notification: the evaluation's task, a manual one

vars == <<monitors, readings, notifications, evaluation, delivery>>

NoReading == 2
Unused == [state |-> "unused", enabled |-> TRUE, condition |-> CHOOSE c \in Conditions : TRUE,
           lastTriggered |-> 0, evaluated |-> FALSE]
Deleted == [Unused EXCEPT !.state = "deleted"]

MonitorType ==
  [state: {"unused", "live", "deleted"}, enabled: BOOLEAN, condition: Conditions,
   lastTriggered: 0..MaxTime, evaluated: BOOLEAN]

Blank == [state |-> "unused", monitor |-> "none", about |-> 0, status |-> "pending",
          messages |-> 0]

Finished(now) == [stage |-> "none", now |-> now, copies |-> [m \in {} |-> Unused], left |-> {}]

TypeOK ==
  /\ monitors \in [Monitors -> MonitorType]
  /\ readings \in [Monitors -> [Times -> Values \cup {NoReading}]]
  /\ \A n \in Notifications :
       /\ notifications[n].state \in {"unused", "flushed", "stored", "lost", "deleted"}
       /\ notifications[n].about \in 0..MaxTime
       /\ notifications[n].status \in {"pending", "sent", "failed"}
       /\ notifications[n].messages \in 0..MaxMessages
       /\ notifications[n].state \in {"flushed", "stored"} =>
            /\ notifications[n].monitor \in Monitors
            /\ notifications[n].about \in Times
       /\ \A by \in {"task", "manual"} : delivery[n][by] \in Stages
  /\ evaluation.now \in 0..MaxTime
  /\ evaluation.left \subseteq DOMAIN evaluation.copies
  /\ \A m \in DOMAIN evaluation.copies : evaluation.copies[m] \in MonitorType
  /\ evaluation.stage \in {"none", "walking", "committed"}
  /\ (\E n \in Notifications : notifications[n].state = "flushed") => evaluation.stage = "walking"

Init ==
  /\ monitors = [m \in Monitors |-> Unused]
  /\ readings = [m \in Monitors |-> [t \in Times |-> NoReading]]
  /\ notifications = [n \in Notifications |-> Blank]
  /\ evaluation = Finished(0)
  /\ delivery = [n \in Notifications |-> [by \in {"task", "manual"} |-> "none"]]

-----------------------------------------------------------------------------
(* Requests of the API, and readings.                                      *)

CreateMonitor(m) ==
  /\ monitors[m].state = "unused"
  /\ \E condition \in Conditions, enabled \in BOOLEAN :
       monitors' = [monitors EXCEPT ![m] = [Unused EXCEPT !.state = "live", !.enabled = enabled,
                                                          !.condition = condition]]
  /\ UNCHANGED <<readings, notifications, evaluation, delivery>>

\* Only what the user sets: the times of evaluation are not among the fields.
PatchMonitor(m) ==
  /\ monitors[m].state = "live"
  /\ \E condition \in Conditions, enabled \in BOOLEAN :
       monitors' = [monitors EXCEPT ![m].enabled = enabled, ![m].condition = condition]
  /\ UNCHANGED <<readings, notifications, evaluation, delivery>>

\* The database deletes the notifications with it; it waits for a transaction
\* that has inserted one.
DeleteMonitor(m) ==
  LET Of(n) == notifications[n].monitor = m /\ notifications[n].state = "stored"
  IN /\ monitors[m].state = "live"
     /\ \A n \in Notifications : ~(notifications[n].state = "flushed" /\ notifications[n].monitor = m)
     /\ monitors' = [monitors EXCEPT ![m] = Deleted]
     /\ notifications' = [n \in Notifications |->
          IF Of(n) THEN [notifications[n] EXCEPT !.state = "deleted"] ELSE notifications[n]]
     /\ UNCHANGED <<readings, evaluation, delivery>>

\* Readings arrive for any time, in any order.
RecordReading(m, t) ==
  /\ readings[m][t] = NoReading
  /\ \E v \in Values : readings' = [readings EXCEPT ![m][t] = v]
  /\ UNCHANGED <<monitors, notifications, evaluation, delivery>>

\* The scheduled job monitor_evaluation: it evaluates nothing.
Stamp ==
  /\ monitors' = [m \in Monitors |->
       IF monitors[m].state = "live" /\ monitors[m].enabled
       THEN [monitors[m] EXCEPT !.evaluated = TRUE] ELSE monitors[m]]
  /\ UNCHANGED <<readings, notifications, evaluation, delivery>>

-----------------------------------------------------------------------------
(* An evaluation.                                                          *)

\* An operator that is not known compares nothing.
EvaluateThreshold(observed, condition) ==
  CASE condition.operator = ">" -> observed > condition.value
    [] condition.operator = ">=" -> observed >= condition.value
    [] condition.operator = "<" -> observed < condition.value
    [] condition.operator = "<=" -> observed <= condition.value
    [] condition.operator = "==" -> observed = condition.value
    [] OTHER -> FALSE

Begin ==
  LET enabled == {m \in Monitors : monitors[m].state = "live" /\ monitors[m].enabled}
  IN /\ evaluation.stage = "none"
     /\ \E now \in evaluation.now..MaxTime :
          evaluation' = [stage |-> "walking", now |-> now, left |-> enabled,
                         copies |-> [m \in enabled |-> monitors[m]]]
     /\ UNCHANGED <<monitors, readings, notifications, delivery>>

\* Times of the readings a query up to now sees.
Known(m, now) == {t \in 1..now : readings[m][t] # NoReading}

\* Mutant of Triggers: whatever was alerted before.
TriggersAgain(m, copy, now) ==
  /\ Known(m, now) # {}
  /\ EvaluateThreshold(readings[m][Max(Known(m, now))], copy.condition)

\* The latest reading meets the condition and is later than the last that did.
Triggers(m, copy, now) ==
  /\ Known(m, now) # {}
  /\ EvaluateThreshold(readings[m][Max(Known(m, now))], copy.condition)
  /\ Max(Known(m, now)) > copy.lastTriggered

Evaluated(m) == [evaluation EXCEPT !.left = @ \ {m}]

Quiet(m) ==
  /\ m \in evaluation.left /\ evaluation.copies[m].condition.readable
  /\ ~Triggers(m, evaluation.copies[m], evaluation.now)
  /\ evaluation' = Evaluated(m)
  /\ UNCHANGED <<monitors, readings, notifications, delivery>>

\* The notification is written, and its delivery started as a task.
Trigger(m, n) ==
  LET t == Max(Known(m, evaluation.now))
  IN /\ m \in evaluation.left /\ evaluation.copies[m].condition.readable
     /\ Triggers(m, evaluation.copies[m], evaluation.now)
     /\ monitors[m].state = "live"   \* the foreign key; else Abort
     /\ notifications[n].state = "unused"
     /\ notifications' = [notifications EXCEPT ![n] = [Blank EXCEPT !.state = "flushed",
                                                        !.monitor = m, !.about = t]]
     /\ evaluation' = [Evaluated(m) EXCEPT !.copies[m].lastTriggered = t]
     /\ delivery' = [delivery EXCEPT ![n].task = "started"]
     /\ UNCHANGED <<monitors, readings>>

\* A condition that names no UUID raises: the monitor is left as it is.
Skipped(m) ==
  /\ m \in evaluation.left /\ ~evaluation.copies[m].condition.readable
  /\ evaluation' = [evaluation EXCEPT !.left = @ \ {m},
                       !.copies = [x \in DOMAIN @ \ {m} |-> @[x]]]
  /\ UNCHANGED <<monitors, readings, notifications, delivery>>

\* One commit for all monitors, of the columns an evaluation sets; a monitor that
\* was deleted meanwhile fails it.
Commit ==
  LET copies == evaluation.copies
  IN /\ evaluation.stage = "walking" /\ evaluation.left = {}
     /\ \A m \in DOMAIN copies : monitors[m].state = "live"
     /\ monitors' = [m \in Monitors |->
          IF m \in DOMAIN copies
          THEN [monitors[m] EXCEPT !.evaluated = TRUE, !.lastTriggered = copies[m].lastTriggered]
          ELSE monitors[m]]
     /\ notifications' = [n \in Notifications |->
          IF notifications[n].state = "flushed" THEN [notifications[n] EXCEPT !.state = "stored"]
          ELSE notifications[n]]
     /\ evaluation' = [Finished(evaluation.now) EXCEPT !.stage = "committed"]
     /\ UNCHANGED <<readings, delivery>>

Cancelled == [n \in Notifications |-> [delivery[n] EXCEPT !.task = "none"]]

\* asyncio.run returns and cancels the tasks, wherever they are.
End ==
  /\ evaluation.stage = "committed"
  /\ evaluation' = Finished(evaluation.now)
  /\ delivery' = Cancelled
  /\ UNCHANGED <<monitors, readings, notifications>>

\* A statement or the commit fails, or the process dies.
Abort ==
  /\ evaluation.stage # "none"
  /\ evaluation' = Finished(evaluation.now)
  /\ notifications' = [n \in Notifications |->
       IF notifications[n].state = "flushed" THEN [notifications[n] EXCEPT !.state = "lost"]
       ELSE notifications[n]]
  /\ delivery' = Cancelled
  /\ UNCHANGED <<monitors, readings>>

-----------------------------------------------------------------------------
(* Delivery, by the evaluation's task or by send_notification.             *)

SendManually(n) ==
  /\ notifications[n].state = "stored" /\ delivery[n].manual = "none"
  /\ delivery' = [delivery EXCEPT ![n].manual = "started"]
  /\ UNCHANGED <<monitors, readings, notifications, evaluation>>

\* Mutant of Load: it reads what is not committed.
LoadAny(n, by) ==
  /\ delivery[n][by] = "started"
  /\ delivery' = [delivery EXCEPT ![n][by] = "loaded"]
  /\ UNCHANGED <<monitors, readings, notifications, evaluation>>

\* It reads in a session of its own, and gives up when there is no row.  It does
\* not look at the status.
Load(n, by) ==
  /\ delivery[n][by] = "started"
  /\ delivery' = [delivery EXCEPT
                    ![n][by] = IF notifications[n].state = "stored" THEN "loaded" ELSE "none"]
  /\ UNCHANGED <<monitors, readings, notifications, evaluation>>

\* Without credentials the client logs the message and returns as if it were sent.
Send(n, by) ==
  /\ delivery[n][by] = "loaded"
  /\ \/ /\ notifications[n].messages < MaxMessages
        /\ notifications' = [notifications EXCEPT ![n].messages = @ + 1]
        /\ delivery' = [delivery EXCEPT ![n][by] = "answered"]
     \/ /\ delivery' = [delivery EXCEPT ![n][by] = "refused"]
        /\ UNCHANGED notifications
  /\ UNCHANGED <<monitors, readings, evaluation>>

Record(n, by) ==
  /\ delivery[n][by] \in {"answered", "refused"}
  /\ notifications[n].state = "stored"
  /\ notifications' = [notifications EXCEPT
       ![n].status = IF delivery[n][by] = "answered" THEN "sent" ELSE "failed"]
  /\ delivery' = [delivery EXCEPT ![n][by] = "none"]
  /\ UNCHANGED <<monitors, readings, evaluation>>

\* The row is gone at the commit, or the delivery's process dies.
Lose(n, by) ==
  /\ delivery[n][by] # "none"
  /\ by = "task" => notifications[n].state = "deleted"
  /\ delivery' = [delivery EXCEPT ![n][by] = "none"]
  /\ UNCHANGED <<monitors, readings, notifications, evaluation>>

Next ==
  \/ \E m \in Monitors : CreateMonitor(m) \/ PatchMonitor(m) \/ DeleteMonitor(m)
  \/ \E m \in Monitors, t \in Times : RecordReading(m, t)
  \/ Stamp \/ Begin \/ Commit \/ End \/ Abort
  \/ \E m \in Monitors : Quiet(m) \/ Skipped(m) \/ \E n \in Notifications : Trigger(m, n)
  \/ \E n \in Notifications :
       \/ SendManually(n)
       \/ \E by \in {"task", "manual"} : Load(n, by) \/ Send(n, by) \/ Record(n, by) \/ Lose(n, by)

Spec == Init /\ [][Next]_vars

-----------------------------------------------------------------------------
(* Properties.                                                             *)

\* One reading raises one alert, although evaluations are repeated, fail at their
\* commit and start again, and monitors are edited and stamped around them: the
\* time it triggered at is committed with the notification.
OneAlertPerReading ==
  \A i, j \in Notifications :
    /\ i # j
    /\ notifications[i].state = "stored" /\ notifications[j].state = "stored"
    /\ notifications[i].monitor = notifications[j].monitor
    => notifications[i].about # notifications[j].about

\* Although its delivery starts before the commit, a message goes out only for a
\* notification that was stored, and only then may it be recorded as sent.
OnlyStoredIsSent ==
  \A n \in Notifications :
    /\ notifications[n].messages > 0 => notifications[n].state \in {"stored", "deleted"}
    /\ notifications[n].status = "sent" => notifications[n].messages > 0

\* Both: what analysts are told is stored, and stored once.
AlertsAreTrue == OneAlertPerReading /\ OnlyStoredIsSent
=============================================================================
