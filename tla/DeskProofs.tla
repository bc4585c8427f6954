------------------------------- MODULE DeskProofs ---------------------------------
(***************************************************************************)
(* That the components of Desk keep their safety properties, for any       *)
(* values of the constants.  Each section has the inductive invariant of   *)
(* one component; a step of Desk is a step of the component it shows, or   *)
(* leaves its variables alone.                                             *)
(***************************************************************************)
EXTENDS Desk, ReportsProofs, DataLemmas, TLAPS

\* The component at work is the one chosen at the start, and moves as it does alone.
LEMMA OneMoves ==
  ASSUME [DeskNext]_deskVars
  PROVE  /\ component' = component
         /\ [Next]_vars
         /\ component = "alerts" => [Al!Next]_Al!vars
         /\ component = "imagery" => [Img!Next]_Img!vars
         /\ component = "scenarios" => [Sc!Next]_Sc!vars
         /\ component = "forecasts" => [Fc!Next]_Fc!vars
         /\ component = "positions" => [Pos!Next]_Pos!vars
         /\ component = "relationships" => [Rel!Next]_Rel!vars
         /\ component = "registry" => [Reg!Next]_Reg!vars
         /\ component = "crawl" => [Cr!Next]_Cr!vars
         /\ IF component = "investigations" THEN [Inv!Next]_Inv!vars ELSE UNCHANGED Inv!vars
         /\ IF component = "records" THEN [Rec!Next]_Rec!vars ELSE UNCHANGED Rec!vars
<1>1. CASE UNCHANGED deskVars
  BY <1>1 DEF deskVars, CaseVars, AlertVars, ImageVars, ScenarioVars, ForecastVars,
              PositionVars, RelationVars, ActorVars, RecordVars, CrawlVars, Inv!vars, Al!vars,
              Img!vars, Sc!vars, Fc!vars, Pos!vars, Rel!vars, Reg!vars, Rec!vars, Cr!vars
<1>2. CASE DeskNext
  BY <1>2 DEF DeskNext, Only, CaseVars, RecordVars, Inv!vars, Rec!vars, vars
<1>. QED BY <1>1, <1>2

-----------------------------------------------------------------------------
(* Alerts.                                                                 *)

Senders == {"task", "manual"}

MonitorRow == [state: {"unused", "live", "deleted"}, enabled: BOOLEAN,
               condition: Conditions \cup {Al!Unused.condition},
               lastTriggered: Nat, evaluated: BOOLEAN]
NotificationRow == [state: {"unused", "flushed", "stored", "lost", "deleted"},
                    monitor: Monitors \cup {"none"}, about: Nat,
                    status: {"pending", "sent", "failed"}, messages: Nat]

\* An evaluation has copies of monitors while it walks through them, and only then.
EvaluationOK ==
  /\ DOMAIN evaluation = {"stage", "now", "copies", "left"}
  /\ evaluation.now \in Nat
  /\ DOMAIN evaluation.copies \subseteq Monitors
  /\ \A m \in DOMAIN evaluation.copies : evaluation.copies[m] \in MonitorRow
  /\ evaluation.left \subseteq DOMAIN evaluation.copies
  /\ evaluation.stage # "walking" => DOMAIN evaluation.copies = {}

AlertsTyped ==
  /\ monitors \in [Monitors -> MonitorRow]
  /\ notifications \in [Notifications -> NotificationRow]
  /\ delivery \in [Notifications -> [Senders -> Al!Stages]]
  /\ EvaluationOK

\* Only an evaluation moves the time a monitor triggered at, and only forward.
CopiesAhead ==
  \A m \in DOMAIN evaluation.copies :
    monitors[m].lastTriggered <= evaluation.copies[m].lastTriggered

\* A stored alert is about no later reading than its monitor triggered at; one that
\* is not committed, than the copy of its monitor, which the evaluation has left.
AlertsBehind ==
  \A n \in Notifications :
    LET m == notifications[n].monitor
    IN /\ notifications[n].state = "stored" =>
            /\ m \in Monitors /\ monitors[m].state = "live"
            /\ notifications[n].about <= monitors[m].lastTriggered
       /\ notifications[n].state = "flushed" =>
            /\ m \in DOMAIN evaluation.copies \ evaluation.left
            /\ notifications[n].about <= evaluation.copies[m].lastTriggered

\* No two of one reading, those of the open transaction included.
AlertsDiffer ==
  \A i, j \in Notifications :
    /\ i # j
    /\ notifications[i].state \in {"flushed", "stored"}
    /\ notifications[j].state \in {"flushed", "stored"}
    /\ notifications[i].monitor = notifications[j].monitor
    => notifications[i].about # notifications[j].about

\* A delivery that has found its notification found it stored.
DeliveriesOfStored ==
  \A n \in Notifications, by \in Senders :
    /\ delivery[n][by] \in {"loaded", "answered", "refused"} \/ notifications[n].messages > 0 =>
         notifications[n].state \in {"stored", "deleted"}
    /\ delivery[n][by] = "answered" \/ notifications[n].status = "sent" =>
         notifications[n].messages > 0

AlertInv == AlertsTyped /\ CopiesAhead /\ AlertsBehind /\ AlertsDiffer /\ DeliveriesOfStored

LEMMA InitAlertInv == Al!Init => AlertInv
<1>. SUFFICES ASSUME Al!Init PROVE AlertInv
  OBVIOUS
<1>1. Al!Unused \in MonitorRow /\ Al!Blank \in NotificationRow
  BY DEF Al!Unused, Al!Blank, MonitorRow, NotificationRow
<1>2. DOMAIN evaluation.copies = {} /\ EvaluationOK
  BY DEF Al!Init, Al!Finished, EvaluationOK
<1>3. AlertsTyped
  BY <1>1, <1>2 DEF Al!Init, AlertsTyped, Senders, Al!Stages
<1>4. \A n \in Notifications : /\ notifications[n] = Al!Blank
                               /\ \A by \in Senders : delivery[n][by] = "none"
  BY DEF Al!Init, Senders
<1>5. AlertsBehind /\ AlertsDiffer /\ DeliveriesOfStored
  BY <1>4 DEF AlertsBehind, AlertsDiffer, DeliveriesOfStored, Al!Blank
<1>. QED BY <1>2, <1>3, <1>5 DEF AlertInv, CopiesAhead

\* Requests about monitors leave what they triggered at; a new one has not triggered.
LEMMA MonitorsStay ==
  ASSUME AlertInv, UNCHANGED <<notifications, evaluation, delivery>>,
         monitors' \in [Monitors -> MonitorRow],
         \A m \in Monitors :
           /\ monitors'[m].lastTriggered <= monitors[m].lastTriggered
           /\ monitors[m].state = "live" =>
                /\ monitors'[m].state = "live"
                /\ monitors'[m].lastTriggered = monitors[m].lastTriggered
  PROVE  AlertInv'
<1>1. AlertsTyped'
  BY DEF AlertInv, AlertsTyped, EvaluationOK
<1>2. CopiesAhead'
  <2>1. SUFFICES ASSUME NEW m \in DOMAIN evaluation.copies
                 PROVE  monitors'[m].lastTriggered <= evaluation.copies[m].lastTriggered
    BY DEF CopiesAhead
  <2>2. m \in Monitors /\ evaluation.copies[m] \in MonitorRow
    BY DEF AlertInv, AlertsTyped, EvaluationOK
  <2>3. /\ monitors[m].lastTriggered <= evaluation.copies[m].lastTriggered
        /\ monitors[m] \in MonitorRow /\ monitors'[m] \in MonitorRow
    BY <2>2 DEF AlertInv, AlertsTyped, CopiesAhead
  <2>. QED BY <2>2, <2>3 DEF MonitorRow
<1>3. AlertsBehind'
  BY DEF AlertInv, AlertsBehind
<1>4. AlertsDiffer' /\ DeliveriesOfStored'
  BY DEF AlertInv, AlertsDiffer, DeliveriesOfStored
<1>. QED BY <1>1, <1>2, <1>3, <1>4 DEF AlertInv

LEMMA MonitorRequestsKeep ==
  ASSUME AlertInv, NEW m \in Monitors,
         Al!CreateMonitor(m) \/ Al!PatchMonitor(m) \/ Al!Stamp
  PROVE  AlertInv'
<1>1. monitors \in [Monitors -> MonitorRow]
  BY DEF AlertInv, AlertsTyped
<1>2. CASE Al!CreateMonitor(m)
  <2>1. PICK condition \in Conditions, enabled \in BOOLEAN :
          monitors' = [monitors EXCEPT ![m] = [Al!Unused EXCEPT !.state = "live",
                         !.enabled = enabled, !.condition = condition]]
    BY <1>2 DEF Al!CreateMonitor
  <2>2. PICK v : v = [Al!Unused EXCEPT !.state = "live", !.enabled = enabled,
                                       !.condition = condition]
    OBVIOUS
  <2>3. v \in MonitorRow /\ v.lastTriggered = 0
    BY <2>2 DEF Al!Unused, MonitorRow
  <2>4. monitors' = [monitors EXCEPT ![m] = v] /\ monitors[m].state = "unused"
    BY <1>2, <2>1, <2>2 DEF Al!CreateMonitor
  <2>5. \A x \in Monitors : monitors[x].lastTriggered \in Nat
    BY <1>1 DEF MonitorRow
  <2>6. UNCHANGED <<notifications, evaluation, delivery>>
    BY <1>2 DEF Al!CreateMonitor
  <2>. QED BY <1>1, <2>3, <2>4, <2>5, <2>6, MonitorsStay
<1>3. CASE Al!PatchMonitor(m)
  <2>1. PICK condition \in Conditions, enabled \in BOOLEAN :
          monitors' = [monitors EXCEPT ![m].enabled = enabled, ![m].condition = condition]
    BY <1>3 DEF Al!PatchMonitor
  <2>2. PICK v : v = [monitors[m] EXCEPT !.enabled = enabled, !.condition = condition]
    OBVIOUS
  <2>3. monitors' = [monitors EXCEPT ![m] = v]
    BY <1>1, <2>1, <2>2
  <2>4. /\ v \in MonitorRow
        /\ v.lastTriggered = monitors[m].lastTriggered /\ v.state = monitors[m].state
    <3>1. PICK row \in MonitorRow : row = monitors[m]
      BY <1>1
    <3>2. v = [row EXCEPT !.enabled = enabled, !.condition = condition]
      BY <2>2, <3>1
    <3>3. v \in MonitorRow /\ v.lastTriggered = row.lastTriggered /\ v.state = row.state
      BY <3>2 DEF MonitorRow
    <3>. QED BY <3>1, <3>3
  <2>5. /\ monitors' \in [Monitors -> MonitorRow]
        /\ \A x \in Monitors : /\ monitors'[x].lastTriggered = monitors[x].lastTriggered
                               /\ monitors'[x].state = monitors[x].state
    BY <1>1, <2>3, <2>4
  <2>6. \A x \in Monitors : monitors[x].lastTriggered \in Nat
    BY <1>1 DEF MonitorRow
  <2>7. UNCHANGED <<notifications, evaluation, delivery>>
    BY <1>3 DEF Al!PatchMonitor
  <2>. QED BY <2>5, <2>6, <2>7, MonitorsStay
<1>4. CASE Al!Stamp
  <2>1. monitors' = [x \in Monitors |->
                       IF monitors[x].state = "live" /\ monitors[x].enabled
                       THEN [monitors[x] EXCEPT !.evaluated = TRUE] ELSE monitors[x]]
    BY <1>4 DEF Al!Stamp
  <2>2. ASSUME NEW x \in Monitors
        PROVE  /\ monitors'[x] \in MonitorRow
               /\ monitors'[x].lastTriggered = monitors[x].lastTriggered
               /\ monitors'[x].state = monitors[x].state
               /\ monitors[x].lastTriggered \in Nat
    BY <1>1, <2>1 DEF MonitorRow
  <2>3. monitors' \in [Monitors -> MonitorRow]
    BY <2>1, <2>2
  <2>4. UNCHANGED <<notifications, evaluation, delivery>>
    BY <1>4 DEF Al!Stamp
  <2>. QED BY <2>2, <2>3, <2>4, MonitorsStay
<1>. QED BY <1>2, <1>3, <1>4

\* The notifications of a monitor go with it.
LEMMA DeleteMonitorKeeps ==
  ASSUME AlertInv, NEW m \in Monitors, Al!DeleteMonitor(m)
  PROVE  AlertInv'
<1>. DEFINE Of(n) == notifications[n].monitor = m /\ notifications[n].state = "stored"
<1>1. /\ monitors' = [monitors EXCEPT ![m] = Al!Deleted]
      /\ notifications' = [n \in Notifications |->
           IF Of(n) THEN [notifications[n] EXCEPT !.state = "deleted"] ELSE notifications[n]]
      /\ UNCHANGED <<evaluation, delivery>>
      /\ \A n \in Notifications : ~(notifications[n].state = "flushed" /\ notifications[n].monitor = m)
  BY DEF Al!DeleteMonitor
<1>2. monitors \in [Monitors -> MonitorRow] /\ notifications \in [Notifications -> NotificationRow]
  BY DEF AlertInv, AlertsTyped
<1>3. ASSUME NEW n \in Notifications
      PROVE  /\ notifications'[n] \in NotificationRow
             /\ notifications'[n].state = IF Of(n) THEN "deleted" ELSE notifications[n].state
             /\ notifications'[n].monitor = notifications[n].monitor
             /\ notifications'[n].about = notifications[n].about
             /\ notifications'[n].status = notifications[n].status
             /\ notifications'[n].messages = notifications[n].messages
  BY <1>1, <1>2 DEF NotificationRow
<1>4. Al!Deleted \in MonitorRow /\ Al!Deleted.lastTriggered = 0
  BY DEF Al!Deleted, Al!Unused, MonitorRow
<1>5. AlertsTyped'
  <2>1. notifications' \in [Notifications -> NotificationRow]
    BY <1>1, <1>3
  <2>2. monitors' \in [Monitors -> MonitorRow]
    BY <1>1, <1>2, <1>4
  <2>. QED BY <1>1, <2>1, <2>2 DEF AlertInv, AlertsTyped, EvaluationOK
<1>6. CopiesAhead'
  <2>1. SUFFICES ASSUME NEW x \in DOMAIN evaluation.copies
                 PROVE  monitors'[x].lastTriggered <= evaluation.copies[x].lastTriggered
    BY <1>1 DEF CopiesAhead
  <2>2. x \in Monitors /\ evaluation.copies[x].lastTriggered \in Nat
    BY DEF AlertInv, AlertsTyped, EvaluationOK, MonitorRow
  <2>3. monitors'[x] = IF x = m THEN Al!Deleted ELSE monitors[x]
    BY <1>1, <1>2, <2>2
  <2>. QED BY <1>4, <2>2, <2>3 DEF AlertInv, CopiesAhead
<1>7. AlertsBehind'
  <2>1. \A x \in Monitors : x # m => monitors'[x] = monitors[x]
    BY <1>1, <1>2
  <2>. HIDE DEF Of
  <2>. QED BY <1>1, <1>3, <2>1 DEF AlertInv, AlertsBehind, Of
<1>8. AlertsDiffer'
  BY <1>3 DEF AlertInv, AlertsDiffer
<1>9. DeliveriesOfStored'
  BY <1>1, <1>3 DEF AlertInv, DeliveriesOfStored
<1>. QED BY <1>5, <1>6, <1>7, <1>8, <1>9 DEF AlertInv

\* It copies the monitors that are enabled.
LEMMA BeginKeeps ==
  ASSUME AlertInv, Al!Begin PROVE AlertInv'
<1>. DEFINE enabled == {m \in Monitors : monitors[m].state = "live" /\ monitors[m].enabled}
<1>1. PICK now \in evaluation.now..MaxReadings :
        evaluation' = [stage |-> "walking", now |-> now, left |-> enabled,
                       copies |-> [m \in enabled |-> monitors[m]]]
  BY DEF Al!Begin
<1>2. UNCHANGED <<monitors, notifications, delivery>> /\ evaluation.stage = "none"
  BY DEF Al!Begin
<1>3. now \in Nat
  BY DEF AlertInv, AlertsTyped, EvaluationOK
<1>4. /\ DOMAIN evaluation'.copies = enabled /\ evaluation'.left = enabled
      /\ \A m \in enabled : evaluation'.copies[m] = monitors[m] /\ monitors[m] \in MonitorRow
  BY <1>1 DEF AlertInv, AlertsTyped
<1>5. EvaluationOK'
  BY <1>1, <1>3, <1>4 DEF EvaluationOK
<1>6. CopiesAhead'
  BY <1>2, <1>4 DEF CopiesAhead, MonitorRow
<1>7. \A n \in Notifications : notifications[n].state # "flushed"
  BY <1>2 DEF AlertInv, AlertsTyped, AlertsBehind, EvaluationOK
<1>8. AlertsBehind'
  BY <1>2, <1>7 DEF AlertInv, AlertsBehind
<1>. QED BY <1>2, <1>5, <1>6, <1>8 DEF AlertInv, AlertsTyped, AlertsDiffer, DeliveriesOfStored

\* A monitor whose latest reading raises nothing, or whose condition cannot be read.
LEMMA PassedKeeps ==
  ASSUME AlertInv, NEW m, Al!Quiet(m) \/ Al!Skipped(m) PROVE AlertInv'
<1>1. /\ UNCHANGED <<monitors, notifications, delivery>>
      /\ evaluation.left \subseteq DOMAIN evaluation.copies
      /\ m \in evaluation.left
  BY DEF Al!Quiet, Al!Skipped, AlertInv, AlertsTyped, EvaluationOK
<1>2. /\ DOMAIN evaluation' = DOMAIN evaluation
      /\ evaluation'.now = evaluation.now /\ evaluation'.stage = evaluation.stage
      /\ evaluation'.left = evaluation.left \ {m}
      /\ DOMAIN evaluation'.copies \in {DOMAIN evaluation.copies, DOMAIN evaluation.copies \ {m}}
      /\ \A x \in DOMAIN evaluation'.copies : evaluation'.copies[x] = evaluation.copies[x]
  <2>1. DOMAIN evaluation = {"stage", "now", "copies", "left"}
    BY DEF AlertInv, AlertsTyped, EvaluationOK
  <2>2. CASE Al!Quiet(m)
    BY <2>1, <2>2 DEF Al!Quiet, Al!Evaluated
  <2>3. CASE Al!Skipped(m)
    BY <2>1, <2>3 DEF Al!Skipped
  <2>. QED BY <2>2, <2>3
<1>3. EvaluationOK'
  BY <1>1, <1>2 DEF AlertInv, AlertsTyped, EvaluationOK
<1>4. CopiesAhead'
  BY <1>1, <1>2 DEF AlertInv, CopiesAhead
<1>5. AlertsBehind'
  BY <1>1, <1>2 DEF AlertInv, AlertsBehind
<1>. QED BY <1>1, <1>3, <1>4, <1>5 DEF AlertInv, AlertsTyped, AlertsDiffer, DeliveriesOfStored

\* The latest reading up to now.
LEMMA LatestKnown ==
  ASSUME NEW m, NEW now \in Nat, Al!Known(m, now) # {}
  PROVE  Al!Max(Al!Known(m, now)) \in 1..now
<1>1. Al!Known(m, now) \in SUBSET (0..now) /\ Al!Known(m, now) \subseteq 1..now
  BY DEF Al!Known
<1>2. Max(Al!Known(m, now)) \in Al!Known(m, now)
  BY <1>1, GreatestOf
<1>. QED BY <1>1, <1>2 DEF Al!Max, Max

\* An alert is about a later reading than any of its monitor: those that are stored are
\* behind the monitor and so behind its copy, and no other is in the transaction, because
\* the evaluation has not left this monitor.
LEMMA TriggerKeeps ==
  ASSUME AlertInv, NEW m \in Monitors, NEW n \in Notifications, Al!Trigger(m, n)
  PROVE  AlertInv'
<1>1. PICK t : t = Al!Max(Al!Known(m, evaluation.now))
  OBVIOUS
<1>2. PICK v : v = [Al!Blank EXCEPT !.state = "flushed", !.monitor = m, !.about = t]
  OBVIOUS
<1>3. /\ m \in evaluation.left
      /\ monitors[m].state = "live" /\ notifications[n].state = "unused"
      /\ notifications' = [notifications EXCEPT ![n] = v]
      /\ evaluation' = [Al!Evaluated(m) EXCEPT !.copies[m].lastTriggered = t]
      /\ delivery' = [delivery EXCEPT ![n].task = "started"]
      /\ UNCHANGED monitors
      /\ Al!Known(m, evaluation.now) # {} /\ t > evaluation.copies[m].lastTriggered
  BY <1>1, <1>2 DEF Al!Trigger, Al!Triggers
<1>4. /\ evaluation.now \in Nat /\ t \in Nat
      /\ m \in DOMAIN evaluation.copies /\ evaluation.copies[m] \in MonitorRow
      /\ evaluation.copies[m].lastTriggered \in Nat
  <2>1. evaluation.now \in Nat /\ m \in DOMAIN evaluation.copies /\ evaluation.copies[m] \in MonitorRow
    BY <1>3 DEF AlertInv, AlertsTyped, EvaluationOK
  <2>. QED BY <1>1, <1>3, <2>1, LatestKnown DEF MonitorRow
<1>5. v = [state |-> "flushed", monitor |-> m, about |-> t, status |-> "pending", messages |-> 0]
  BY <1>2 DEF Al!Blank
<1>6. v \in NotificationRow
  BY <1>4, <1>5 DEF NotificationRow
<1>7. /\ notifications \in [Notifications -> NotificationRow]
      /\ notifications' \in [Notifications -> NotificationRow]
      /\ \A x \in Notifications : notifications'[x] = IF x = n THEN v ELSE notifications[x]
  <2>1. notifications \in [Notifications -> NotificationRow]
    BY DEF AlertInv, AlertsTyped
  <2>. QED BY <1>3, <1>6, <2>1
<1>8. /\ DOMAIN evaluation' = DOMAIN evaluation
      /\ evaluation'.now = evaluation.now /\ evaluation'.stage = evaluation.stage
      /\ evaluation'.left = evaluation.left \ {m}
      /\ evaluation'.copies = [evaluation.copies EXCEPT ![m].lastTriggered = t]
  <2>1. DOMAIN evaluation = {"stage", "now", "copies", "left"}
    BY DEF AlertInv, AlertsTyped, EvaluationOK
  <2>. QED BY <1>3, <2>1 DEF Al!Evaluated
<1>9. /\ DOMAIN evaluation'.copies = DOMAIN evaluation.copies
      /\ \A x \in DOMAIN evaluation.copies : x # m => evaluation'.copies[x] = evaluation.copies[x]
      /\ evaluation'.copies[m] \in MonitorRow /\ evaluation'.copies[m].lastTriggered = t
  <2>1. evaluation'.copies[m] = [evaluation.copies[m] EXCEPT !.lastTriggered = t]
    BY <1>4, <1>8
  <2>2. evaluation'.copies[m] \in MonitorRow /\ evaluation'.copies[m].lastTriggered = t
    BY <1>4, <2>1 DEF MonitorRow
  <2>. QED BY <1>8, <2>2
<1>10. EvaluationOK'
  BY <1>8, <1>9 DEF AlertInv, AlertsTyped, EvaluationOK
<1>11. /\ delivery' \in [Notifications -> [Senders -> Al!Stages]]
       /\ \A x \in Notifications, by \in Senders :
            delivery'[x][by] = IF x = n /\ by = "task" THEN "started" ELSE delivery[x][by]
  BY <1>3 DEF AlertInv, AlertsTyped, Senders, Al!Stages
<1>12. CopiesAhead'
  <2>1. \A x \in DOMAIN evaluation.copies :
          evaluation.copies[x].lastTriggered <= evaluation'.copies[x].lastTriggered
    BY <1>3, <1>4, <1>9 DEF AlertInv, AlertsTyped, EvaluationOK, MonitorRow
  <2>2. SUFFICES ASSUME NEW x \in DOMAIN evaluation.copies
                 PROVE  monitors[x].lastTriggered <= evaluation'.copies[x].lastTriggered
    BY <1>3, <1>9 DEF CopiesAhead
  <2>3. /\ monitors[x].lastTriggered \in Nat /\ evaluation.copies[x].lastTriggered \in Nat
        /\ monitors[x].lastTriggered <= evaluation.copies[x].lastTriggered
    BY DEF AlertInv, AlertsTyped, EvaluationOK, MonitorRow, CopiesAhead
  <2>4. evaluation'.copies[x].lastTriggered \in Nat
    BY <1>4, <1>9, <2>3
  <2>. QED BY <2>1, <2>3, <2>4
<1>13. AlertsBehind'
  <2>1. SUFFICES ASSUME NEW x \in Notifications, NEW y, y = notifications'[x].monitor
                 PROVE  /\ notifications'[x].state = "stored" =>
                             /\ y \in Monitors /\ monitors'[y].state = "live"
                             /\ notifications'[x].about <= monitors'[y].lastTriggered
                        /\ notifications'[x].state = "flushed" =>
                             /\ y \in DOMAIN evaluation'.copies \ evaluation'.left
                             /\ notifications'[x].about <= evaluation'.copies[y].lastTriggered
    BY DEF AlertsBehind
  <2>2. CASE x = n
    BY <1>4, <1>5, <1>7, <1>8, <1>9, <2>1, <2>2
  <2>3. CASE x # n
    <3>1. notifications'[x] = notifications[x]
      BY <1>7, <2>3
    <3>2. notifications[x].state = "flushed" => y # m
      BY <1>3, <2>1, <3>1 DEF AlertInv, AlertsBehind
    <3>. QED BY <1>3, <1>8, <1>9, <2>1, <3>1, <3>2 DEF AlertInv, AlertsBehind
  <2>. QED BY <2>2, <2>3
<1>14. ASSUME NEW x \in Notifications, x # n, notifications[x].monitor = m,
              notifications[x].state \in {"flushed", "stored"}
       PROVE  notifications[x].about < t
  <2>1. notifications[x].state = "stored"
    BY <1>3, <1>14 DEF AlertInv, AlertsBehind
  <2>2. /\ notifications[x].about <= monitors[m].lastTriggered
        /\ monitors[m].lastTriggered <= evaluation.copies[m].lastTriggered
    BY <1>4, <1>14, <2>1 DEF AlertInv, AlertsBehind, CopiesAhead
  <2>3. notifications[x].about \in Nat /\ monitors[m].lastTriggered \in Nat
    BY DEF AlertInv, AlertsTyped, NotificationRow, MonitorRow
  <2>. QED BY <1>3, <1>4, <2>2, <2>3
<1>15. AlertsDiffer'
  <2>1. SUFFICES ASSUME NEW i \in Notifications, NEW j \in Notifications, i # j,
                        notifications'[i].state \in {"flushed", "stored"},
                        notifications'[j].state \in {"flushed", "stored"},
                        notifications'[i].monitor = notifications'[j].monitor
                 PROVE  notifications'[i].about # notifications'[j].about
    BY DEF AlertsDiffer
  <2>2. CASE i # n /\ j # n
    BY <1>7, <2>1, <2>2 DEF AlertInv, AlertsDiffer
  <2>3. ASSUME NEW x \in Notifications, x # n, notifications'[x].monitor = m,
               notifications'[x].state \in {"flushed", "stored"}
        PROVE  notifications'[x].about # t
    <3>1. notifications'[x] = notifications[x] /\ notifications[x].about \in Nat
      BY <1>7, <2>3 DEF NotificationRow
    <3>. QED BY <1>4, <1>14, <2>3, <3>1
  <2>4. notifications'[n].monitor = m /\ notifications'[n].about = t
    BY <1>5, <1>7
  <2>5. CASE i = n
    <3>1. notifications'[j].about # t
      BY <2>1, <2>3, <2>4, <2>5
    <3>. QED BY <2>4, <2>5, <3>1
  <2>6. CASE j = n
    <3>1. notifications'[i].about # t
      BY <2>1, <2>3, <2>4, <2>6
    <3>. QED BY <2>4, <2>6, <3>1
  <2>. QED BY <2>2, <2>5, <2>6
<1>16. DeliveriesOfStored'
  <2>1. SUFFICES ASSUME NEW x \in Notifications, NEW by \in Senders
                 PROVE  /\ delivery'[x][by] \in {"loaded", "answered", "refused"}
                             \/ notifications'[x].messages > 0 =>
                               notifications'[x].state \in {"stored", "deleted"}
                        /\ delivery'[x][by] = "answered" \/ notifications'[x].status = "sent" =>
                               notifications'[x].messages > 0
    BY DEF DeliveriesOfStored
  <2>2. CASE x = n
    <3>1. delivery[x][by] \notin {"loaded", "answered", "refused"}
      BY <1>3, <2>2 DEF AlertInv, DeliveriesOfStored
    <3>. QED BY <1>5, <1>7, <1>11, <2>2, <3>1
  <2>3. CASE x # n
    BY <1>7, <1>11, <2>3 DEF AlertInv, DeliveriesOfStored
  <2>. QED BY <2>2, <2>3
<1>17. AlertsTyped'
  BY <1>3, <1>7, <1>10, <1>11 DEF AlertInv, AlertsTyped
<1>. QED BY <1>12, <1>13, <1>15, <1>16, <1>17 DEF AlertInv

\* The copies of an evaluation that commits.
LEMMA CommitKeeps ==
  ASSUME AlertInv, Al!Commit PROVE AlertInv'
<1>. DEFINE copies == evaluation.copies
<1>1. /\ evaluation.left = {}
      /\ \A m \in DOMAIN copies : monitors[m].state = "live"
      /\ monitors' = [m \in Monitors |->
           IF m \in DOMAIN copies
           THEN [monitors[m] EXCEPT !.evaluated = TRUE, !.lastTriggered = copies[m].lastTriggered]
           ELSE monitors[m]]
      /\ notifications' = [n \in Notifications |->
           IF notifications[n].state = "flushed" THEN [notifications[n] EXCEPT !.state = "stored"]
           ELSE notifications[n]]
      /\ evaluation' = [Al!Finished(evaluation.now) EXCEPT !.stage = "committed"]
      /\ UNCHANGED delivery
  BY DEF Al!Commit
<1>2. /\ monitors \in [Monitors -> MonitorRow] /\ notifications \in [Notifications -> NotificationRow]
      /\ DOMAIN copies \subseteq Monitors /\ \A m \in DOMAIN copies : copies[m] \in MonitorRow
      /\ evaluation.now \in Nat
  BY DEF AlertInv, AlertsTyped, EvaluationOK
<1>. HIDE DEF copies
<1>3. ASSUME NEW m \in Monitors
      PROVE  /\ monitors'[m] \in MonitorRow
             /\ monitors'[m].state = monitors[m].state
             /\ monitors'[m].lastTriggered =
                  IF m \in DOMAIN copies THEN copies[m].lastTriggered ELSE monitors[m].lastTriggered
  <2>1. monitors[m] \in MonitorRow
    BY <1>2
  <2>2. CASE m \in DOMAIN copies
    <3>1. copies[m].lastTriggered \in Nat
      BY <1>2, <2>2 DEF MonitorRow
    <3>2. monitors'[m] = [monitors[m] EXCEPT !.evaluated = TRUE,
                                             !.lastTriggered = copies[m].lastTriggered]
      BY <1>1, <2>2
    <3>. QED BY <2>1, <2>2, <3>1, <3>2 DEF MonitorRow
  <2>3. CASE m \notin DOMAIN copies
    BY <1>1, <2>1, <2>3
  <2>. QED BY <2>2, <2>3
<1>4. ASSUME NEW n \in Notifications
      PROVE  /\ notifications'[n] \in NotificationRow
             /\ notifications'[n].state = IF notifications[n].state = "flushed" THEN "stored"
                                          ELSE notifications[n].state
             /\ notifications'[n].monitor = notifications[n].monitor
             /\ notifications'[n].about = notifications[n].about
             /\ notifications'[n].status = notifications[n].status
             /\ notifications'[n].messages = notifications[n].messages
  BY <1>1, <1>2 DEF NotificationRow
<1>5. DOMAIN evaluation'.copies = {} /\ EvaluationOK'
  BY <1>1, <1>2 DEF Al!Finished, EvaluationOK
<1>6. AlertsTyped'
  <2>1. monitors' \in [Monitors -> MonitorRow]
    BY <1>1, <1>3
  <2>2. notifications' \in [Notifications -> NotificationRow]
    BY <1>1, <1>4
  <2>. QED BY <1>1, <1>5, <2>1, <2>2 DEF AlertInv, AlertsTyped
<1>7. CopiesAhead'
  BY <1>5 DEF CopiesAhead
<1>8. AlertsBehind'
  <2>1. SUFFICES ASSUME NEW n \in Notifications, NEW m, m = notifications[n].monitor
                 PROVE  /\ notifications'[n].state # "flushed"
                        /\ notifications'[n].state = "stored" =>
                             /\ m \in Monitors /\ monitors'[m].state = "live"
                             /\ notifications'[n].about <= monitors'[m].lastTriggered
    BY <1>4 DEF AlertsBehind
  <2>2. CASE notifications[n].state = "flushed"
    <3>1. m \in DOMAIN copies /\ notifications[n].about <= copies[m].lastTriggered
      BY <2>1, <2>2 DEF AlertInv, AlertsBehind, copies
    <3>2. m \in Monitors /\ monitors[m].state = "live"
      BY <1>1, <1>2, <3>1
    <3>3. monitors'[m].state = "live" /\ notifications'[n].about <= monitors'[m].lastTriggered
      BY <1>3, <1>4, <3>1, <3>2
    <3>. QED BY <1>4, <2>2, <3>2, <3>3
  <2>3. CASE notifications[n].state = "stored"
    <3>1. /\ m \in Monitors /\ monitors[m].state = "live"
          /\ notifications[n].about <= monitors[m].lastTriggered
      BY <2>1, <2>3 DEF AlertInv, AlertsBehind
    <3>2. monitors[m].lastTriggered <= monitors'[m].lastTriggered
      <4>1. CASE m \in DOMAIN copies
        BY <1>3, <3>1, <4>1 DEF AlertInv, CopiesAhead, copies
      <4>2. CASE m \notin DOMAIN copies
        <5>1. monitors'[m].lastTriggered = monitors[m].lastTriggered
          BY <1>3, <3>1, <4>2
        <5>2. monitors[m].lastTriggered \in Nat
          BY <1>2, <3>1 DEF MonitorRow
        <5>. QED BY <5>1, <5>2
      <4>. QED BY <4>1, <4>2
    <3>3. /\ notifications[n].about \in Nat /\ monitors[m].lastTriggered \in Nat
          /\ monitors'[m].lastTriggered \in Nat
      BY <1>2, <1>3, <3>1 DEF NotificationRow, MonitorRow
    <3>. QED BY <1>3, <1>4, <2>3, <3>1, <3>2, <3>3
  <2>4. CASE notifications[n].state \notin {"flushed", "stored"}
    BY <1>4, <2>4
  <2>. QED BY <2>2, <2>3, <2>4
<1>9. AlertsDiffer'
  BY <1>4 DEF AlertInv, AlertsDiffer
<1>10. DeliveriesOfStored'
  BY <1>1, <1>4 DEF AlertInv, DeliveriesOfStored
<1>. QED BY <1>6, <1>7, <1>8, <1>9, <1>10 DEF AlertInv

\* The end of an evaluation takes its deliveries along, and a failed one its notifications.
LEMMA EvaluationEndsKeeps ==
  ASSUME AlertInv, Al!End \/ Al!Abort PROVE AlertInv'
<1>1. /\ evaluation' = Al!Finished(evaluation.now) /\ delivery' = Al!Cancelled
      /\ UNCHANGED monitors
  BY DEF Al!End, Al!Abort
<1>2. /\ notifications \in [Notifications -> NotificationRow]
      /\ delivery \in [Notifications -> [Senders -> Al!Stages]] /\ evaluation.now \in Nat
  BY DEF AlertInv, AlertsTyped, EvaluationOK
<1>3. DOMAIN evaluation'.copies = {} /\ EvaluationOK'
  BY <1>1, <1>2 DEF Al!Finished, EvaluationOK
<1>4. /\ notifications' \in [Notifications -> NotificationRow]
      /\ \A n \in Notifications :
           /\ notifications'[n].state = IF notifications[n].state = "flushed" THEN "lost"
                                        ELSE notifications[n].state
           /\ notifications'[n].monitor = notifications[n].monitor
           /\ notifications'[n].about = notifications[n].about
           /\ notifications'[n].status = notifications[n].status
           /\ notifications'[n].messages = notifications[n].messages
  <2>1. CASE Al!End
    <3>1. evaluation.stage # "walking" /\ UNCHANGED notifications
      BY <2>1 DEF Al!End
    <3>2. \A n \in Notifications : notifications[n].state # "flushed"
      BY <3>1 DEF AlertInv, AlertsTyped, AlertsBehind, EvaluationOK
    <3>. QED BY <1>2, <3>1, <3>2
  <2>2. CASE Al!Abort
    <3>1. notifications' = [n \in Notifications |->
            IF notifications[n].state = "flushed" THEN [notifications[n] EXCEPT !.state = "lost"]
            ELSE notifications[n]]
      BY <2>2 DEF Al!Abort
    <3>2. ASSUME NEW n \in Notifications
          PROVE  /\ notifications'[n] \in NotificationRow
                 /\ notifications'[n].state = IF notifications[n].state = "flushed" THEN "lost"
                                              ELSE notifications[n].state
                 /\ notifications'[n].monitor = notifications[n].monitor
                 /\ notifications'[n].about = notifications[n].about
                 /\ notifications'[n].status = notifications[n].status
                 /\ notifications'[n].messages = notifications[n].messages
      BY <1>2, <3>1 DEF NotificationRow
    <3>3. notifications' \in [Notifications -> NotificationRow]
      BY <3>1, <3>2
    <3>. QED BY <3>2, <3>3
  <2>. QED BY <2>1, <2>2
<1>5. /\ delivery' \in [Notifications -> [Senders -> Al!Stages]]
      /\ \A n \in Notifications, by \in Senders : delivery'[n][by] \in {"none", delivery[n][by]}
  BY <1>1, <1>2 DEF Al!Cancelled, Senders, Al!Stages
<1>6. AlertsTyped' /\ CopiesAhead'
  BY <1>1, <1>3, <1>4, <1>5 DEF AlertInv, AlertsTyped, CopiesAhead
<1>7. AlertsBehind'
  BY <1>1, <1>4 DEF AlertInv, AlertsBehind
<1>8. AlertsDiffer'
  BY <1>4 DEF AlertInv, AlertsDiffer
<1>9. DeliveriesOfStored'
  BY <1>4, <1>5 DEF AlertInv, DeliveriesOfStored
<1>. QED BY <1>6, <1>7, <1>8, <1>9 DEF AlertInv

\* A delivery finds a stored notification, and a message goes out before it is recorded.
DeliveryMoves(n, by) ==
  LET found == {"loaded", "answered", "refused"}
  IN /\ delivery'[n][by] \in found => delivery[n][by] \in found \/ notifications[n].state = "stored"
     /\ delivery'[n][by] = "answered" =>
          delivery[n][by] = "answered" \/ notifications'[n].messages > 0
     /\ notifications'[n].messages > 0 => notifications[n].messages > 0 \/ delivery[n][by] \in found
     /\ notifications'[n].status = "sent" =>
          notifications[n].status = "sent" \/ delivery[n][by] = "answered"

\* What alerts are about stays.
AlertsStay(n) ==
  /\ notifications'[n].state = notifications[n].state
  /\ notifications'[n].monitor = notifications[n].monitor
  /\ notifications'[n].about = notifications[n].about
  /\ notifications'[n].messages >= notifications[n].messages

LEMMA DeliveryStep ==
  ASSUME AlertInv, NEW n \in Notifications, NEW by \in Senders,
         UNCHANGED <<monitors, evaluation>>,
         NEW stage \in Al!Stages, delivery' = [delivery EXCEPT ![n][by] = stage],
         notifications' \in [Notifications -> NotificationRow],
         \A x \in Notifications : x # n => notifications'[x] = notifications[x],
         AlertsStay(n), DeliveryMoves(n, by)
  PROVE  AlertInv'
<1>1. /\ notifications \in [Notifications -> NotificationRow]
      /\ delivery \in [Notifications -> [Senders -> Al!Stages]]
  BY DEF AlertInv, AlertsTyped
<1>2. /\ delivery' \in [Notifications -> [Senders -> Al!Stages]]
      /\ \A x \in Notifications, y \in Senders :
           x # n \/ y # by => delivery'[x][y] = delivery[x][y]
  BY <1>1
<1>3. AlertsTyped' /\ CopiesAhead'
  BY <1>2 DEF AlertInv, AlertsTyped, EvaluationOK, CopiesAhead
<1>4. \A x \in Notifications : /\ notifications'[x].state = notifications[x].state
                               /\ notifications'[x].monitor = notifications[x].monitor
                               /\ notifications'[x].about = notifications[x].about
  BY DEF AlertsStay
<1>5. AlertsBehind' /\ AlertsDiffer'
  BY <1>4 DEF AlertInv, AlertsBehind, AlertsDiffer
<1>6. DeliveriesOfStored'
  <2>1. SUFFICES ASSUME NEW x \in Notifications, NEW y \in Senders
                 PROVE  /\ delivery'[x][y] \in {"loaded", "answered", "refused"}
                             \/ notifications'[x].messages > 0 =>
                               notifications'[x].state \in {"stored", "deleted"}
                        /\ delivery'[x][y] = "answered" \/ notifications'[x].status = "sent" =>
                               notifications'[x].messages > 0
    BY DEF DeliveriesOfStored
  <2>2. CASE x # n
    BY <1>2, <2>2 DEF AlertInv, DeliveriesOfStored
  <2>3. CASE x = n
    <3>1. \A z \in Senders :
            /\ delivery[n][z] \in {"loaded", "answered", "refused"} \/ notifications[n].messages > 0
                 => notifications[n].state \in {"stored", "deleted"}
            /\ delivery[n][z] = "answered" \/ notifications[n].status = "sent" =>
                 notifications[n].messages > 0
      BY DEF AlertInv, DeliveriesOfStored
    <3>2. notifications[n].messages > 0 => notifications'[n].messages > 0
      <4>1. notifications[n].messages \in Nat /\ notifications'[n].messages \in Nat
        BY <1>1 DEF NotificationRow
      <4>. QED BY <4>1 DEF AlertsStay
    <3>3. y # by => delivery'[n][y] = delivery[n][y]
      BY <1>2
    <3>. QED BY <1>4, <2>3, <3>1, <3>2, <3>3 DEF DeliveryMoves
  <2>. QED BY <2>2, <2>3
<1>. QED BY <1>3, <1>5, <1>6 DEF AlertInv

LEMMA DeliveryKeeps ==
  ASSUME AlertInv, NEW n \in Notifications, NEW by \in Senders,
         Al!Load(n, by) \/ Al!Send(n, by) \/ Al!Record(n, by) \/ Al!Lose(n, by)
  PROVE  AlertInv'
<1>1. /\ notifications \in [Notifications -> NotificationRow]
      /\ notifications[n] \in NotificationRow /\ notifications[n].messages \in Nat
      /\ delivery \in [Notifications -> [Senders -> Al!Stages]]
  BY DEF AlertInv, AlertsTyped, NotificationRow
<1>2. /\ {"none", "started", "loaded", "answered", "refused"} = Al!Stages
      /\ UNCHANGED <<monitors, evaluation>>
  BY DEF Al!Stages, Al!Load, Al!Send, Al!Record, Al!Lose
<1>3. \A stage : delivery' = [delivery EXCEPT ![n][by] = stage] => delivery'[n][by] = stage
  BY <1>1
<1>4. notifications' = notifications => AlertsStay(n)
  BY <1>1 DEF AlertsStay
<1>5. CASE Al!Load(n, by)
  <2>1. PICK stage : stage = IF notifications[n].state = "stored" THEN "loaded" ELSE "none"
    OBVIOUS
  <2>2. delivery' = [delivery EXCEPT ![n][by] = stage] /\ UNCHANGED notifications
    BY <1>5, <2>1 DEF Al!Load
  <2>3. DeliveryMoves(n, by)
    BY <1>3, <2>1, <2>2 DEF DeliveryMoves
  <2>. QED BY <1>1, <1>2, <1>4, <2>1, <2>2, <2>3, DeliveryStep
<1>6. CASE Al!Lose(n, by)
  <2>1. delivery' = [delivery EXCEPT ![n][by] = "none"] /\ UNCHANGED notifications
    BY <1>6 DEF Al!Lose
  <2>2. DeliveryMoves(n, by)
    BY <1>3, <2>1 DEF DeliveryMoves
  <2>. QED BY <1>1, <1>2, <1>4, <2>1, <2>2, DeliveryStep
<1>7. CASE Al!Send(n, by)
  <2>1. delivery[n][by] = "loaded"
    BY <1>7 DEF Al!Send
  <2>2. CASE /\ notifications' = [notifications EXCEPT ![n].messages = @ + 1]
             /\ delivery' = [delivery EXCEPT ![n][by] = "answered"]
    <3>1. notifications'[n] = [notifications[n] EXCEPT !.messages = @ + 1]
      BY <1>1, <2>2
    <3>2. /\ notifications'[n] \in NotificationRow /\ AlertsStay(n)
          /\ notifications'[n].messages = notifications[n].messages + 1
          /\ notifications'[n].status = notifications[n].status
      BY <1>1, <3>1 DEF NotificationRow, AlertsStay
    <3>3. /\ notifications' \in [Notifications -> NotificationRow]
          /\ \A x \in Notifications : x # n => notifications'[x] = notifications[x]
      BY <1>1, <2>2, <3>2
    <3>4. DeliveryMoves(n, by)
      BY <1>1, <1>3, <2>1, <2>2, <3>2 DEF DeliveryMoves
    <3>. QED BY <1>2, <2>2, <3>2, <3>3, <3>4, DeliveryStep
  <2>3. CASE delivery' = [delivery EXCEPT ![n][by] = "refused"] /\ UNCHANGED notifications
    <3>1. DeliveryMoves(n, by)
      BY <1>3, <2>1, <2>3 DEF DeliveryMoves
    <3>. QED BY <1>1, <1>2, <1>4, <2>3, <3>1, DeliveryStep
  <2>. QED BY <1>7, <2>2, <2>3 DEF Al!Send
<1>8. CASE Al!Record(n, by)
  <2>1. PICK status \in {"sent", "failed"} :
          /\ status = IF delivery[n][by] = "answered" THEN "sent" ELSE "failed"
          /\ notifications' = [notifications EXCEPT ![n].status = status]
    BY <1>8 DEF Al!Record
  <2>2. delivery' = [delivery EXCEPT ![n][by] = "none"]
    BY <1>8 DEF Al!Record
  <2>3. notifications'[n] = [notifications[n] EXCEPT !.status = status]
    BY <1>1, <2>1
  <2>4. /\ notifications'[n] \in NotificationRow /\ AlertsStay(n)
        /\ notifications'[n].messages = notifications[n].messages
        /\ notifications'[n].status = status
    BY <1>1, <2>3 DEF NotificationRow, AlertsStay
  <2>5. /\ notifications' \in [Notifications -> NotificationRow]
        /\ \A x \in Notifications : x # n => notifications'[x] = notifications[x]
    BY <1>1, <2>1, <2>4
  <2>6. DeliveryMoves(n, by)
    BY <1>3, <2>1, <2>2, <2>4 DEF DeliveryMoves
  <2>. QED BY <1>2, <2>2, <2>4, <2>5, <2>6, DeliveryStep
<1>. QED BY <1>5, <1>6, <1>7, <1>8

\* send_notification finds a row and starts a delivery of its own.
LEMMA SendManuallyKeeps ==
  ASSUME AlertInv, NEW n \in Notifications, Al!SendManually(n) PROVE AlertInv'
<1>1. /\ notifications \in [Notifications -> NotificationRow]
      /\ notifications[n].messages \in Nat
      /\ delivery \in [Notifications -> [Senders -> Al!Stages]]
      /\ "manual" \in Senders /\ "started" \in Al!Stages
  BY DEF AlertInv, AlertsTyped, NotificationRow, Senders, Al!Stages
<1>2. /\ delivery' = [delivery EXCEPT ![n]["manual"] = "started"]
      /\ UNCHANGED <<monitors, evaluation, notifications>>
  BY DEF Al!SendManually
<1>3. delivery'[n]["manual"] = "started"
  BY <1>1, <1>2
<1>4. AlertsStay(n) /\ DeliveryMoves(n, "manual")
  BY <1>1, <1>2, <1>3 DEF AlertsStay, DeliveryMoves
<1>. QED BY <1>1, <1>2, <1>4, DeliveryStep

LEMMA NextAlertInv == AlertInv /\ [Al!Next]_Al!vars => AlertInv'
<1>. SUFFICES ASSUME AlertInv, [Al!Next]_Al!vars PROVE AlertInv'
  OBVIOUS
<1>1. CASE \E m \in Monitors : Al!CreateMonitor(m) \/ Al!PatchMonitor(m) \/ Al!DeleteMonitor(m)
  BY <1>1, MonitorRequestsKeep, DeleteMonitorKeeps
<1>2. ASSUME UNCHANGED <<monitors, notifications, evaluation, delivery>> PROVE AlertInv'
  BY <1>2 DEF AlertInv, AlertsTyped, EvaluationOK, CopiesAhead, AlertsBehind, AlertsDiffer,
              DeliveriesOfStored
<1>3. CASE \E m \in Monitors, t \in Al!Times : Al!RecordReading(m, t)
  <2>1. UNCHANGED <<monitors, notifications, evaluation, delivery>>
    BY <1>3 DEF Al!RecordReading
  <2>. QED BY <1>2, <2>1
<1>4. CASE Al!Stamp
  <2>1. CASE Monitors = {}
    <3>1. monitors' = monitors /\ UNCHANGED <<notifications, evaluation, delivery>>
      BY <1>4, <2>1 DEF Al!Stamp, AlertInv, AlertsTyped
    <3>. QED BY <1>2, <3>1
  <2>2. CASE Monitors # {}
    BY <1>4, <2>2, MonitorRequestsKeep
  <2>. QED BY <2>1, <2>2
<1>5. CASE Al!Begin \/ Al!Commit \/ Al!End \/ Al!Abort
  BY <1>5, BeginKeeps, CommitKeeps, EvaluationEndsKeeps
<1>6. CASE \E m \in Monitors : Al!Quiet(m) \/ Al!Skipped(m) \/ \E n \in Notifications : Al!Trigger(m, n)
  BY <1>6, PassedKeeps, TriggerKeeps
<1>7. CASE \E n \in Notifications :
             \/ Al!SendManually(n)
             \/ \E by \in {"task", "manual"} :
                  Al!Load(n, by) \/ Al!Send(n, by) \/ Al!Record(n, by) \/ Al!Lose(n, by)
  <2>1. {"task", "manual"} = Senders /\ "task" \in Senders
    BY DEF Senders
  <2>. QED BY <1>7, <2>1, DeliveryKeeps, SendManuallyKeeps
<1>8. CASE UNCHANGED Al!vars
  BY <1>2, <1>8 DEF Al!vars
<1>. QED BY <1>1, <1>3, <1>4, <1>5, <1>6, <1>7, <1>8 DEF Al!Next

\* One reading raises one alert at most, although _evaluate_monitors_async is repeated,
\* fails at its commit and starts again; and _send_notification_async, which starts before
\* that commit, sends only what was stored.
THEOREM AlertsStayTrue == DeskSpec => []AlertsAreTrue
<1>1. AlertInv => Al!AlertsAreTrue
  <2>. SUFFICES ASSUME AlertInv PROVE Al!AlertsAreTrue
    OBVIOUS
  <2>1. Al!OneAlertPerReading
    BY DEF AlertInv, AlertsDiffer, Al!OneAlertPerReading
  <2>2. Al!OnlyStoredIsSent
    BY DEF AlertInv, DeliveriesOfStored, Senders, Al!OnlyStoredIsSent
  <2>. QED BY <2>1, <2>2 DEF Al!AlertsAreTrue
<1>. DEFINE Held == component = "alerts" => AlertInv
<1>2. DeskInit => Held
  BY InitAlertInv DEF DeskInit
<1>3. Held /\ [DeskNext]_deskVars => Held'
  BY OneMoves, NextAlertInv
<1>4. Held => AlertsAreTrue
  BY <1>1 DEF AlertsAreTrue
<1>. QED BY <1>2, <1>3, <1>4, PTL DEF DeskSpec

-----------------------------------------------------------------------------
(* Positions and disagreement.                                             *)

RecordingRow == [analyst: Analysts \cup {Pos!None}, found: BOOLEAN, position: Pos!PositionType]

PositionsTyped ==
  positions \in [Analysts -> Pos!PositionType] /\ recording \in [Requests -> RecordingRow]

LEMMA PositionsTypedAlways ==
  /\ Pos!Init => PositionsTyped
  /\ PositionsTyped /\ [Pos!Next]_Pos!vars => PositionsTyped'
<1>1. Pos!Absent \in Pos!PositionType
  BY DEF Pos!Absent, Pos!PositionType, Pos!Stances, Pos!None, Pos!NoScore
<1>2. Pos!Quiet \in RecordingRow
  BY <1>1 DEF Pos!Quiet, RecordingRow
<1>3. Pos!Init => PositionsTyped
  BY <1>1, <1>2 DEF Pos!Init, PositionsTyped
<1>. SUFFICES ASSUME PositionsTyped, [Pos!Next]_Pos!vars PROVE PositionsTyped'
  BY <1>3
<1>4. ASSUME NEW q \in Requests, NEW a \in Analysts, Pos!Find(q, a) PROVE PositionsTyped'
  <2>1. PICK stance \in Pos!Stances, score \in Scores \cup {Pos!NoScore} :
          recording' = [recording EXCEPT ![q] =
            [analyst |-> a, found |-> positions[a].state = "stored",
             position |-> Pos!Position(stance, score)]]
    BY <1>4 DEF Pos!Find
  <2>2. Pos!Position(stance, score) \in Pos!PositionType
    BY DEF Pos!Position, Pos!PositionType
  <2>3. PICK p \in Pos!PositionType : p = Pos!Position(stance, score)
    BY <2>2
  <2>4. PICK f \in BOOLEAN : f = (positions[a].state = "stored")
    OBVIOUS
  <2>5. PICK r \in RecordingRow : r = [analyst |-> a, found |-> f, position |-> p]
    BY DEF RecordingRow
  <2>6. recording' = [recording EXCEPT ![q] = r]
    BY <2>1, <2>3, <2>4, <2>5
  <2>. QED BY <1>4, <2>6 DEF Pos!Find, PositionsTyped
<1>5. ASSUME NEW q \in Requests, Pos!Record(q) PROVE PositionsTyped'
  BY <1>2, <1>5 DEF Pos!Record, PositionsTyped, RecordingRow
<1>6. ASSUME NEW q \in Requests, Pos!Leave(q) PROVE PositionsTyped'
  BY <1>2, <1>6 DEF Pos!Leave, PositionsTyped
<1>7. CASE UNCHANGED Pos!vars
  BY <1>7 DEF Pos!vars, PositionsTyped
<1>. QED BY <1>4, <1>5, <1>6, <1>7 DEF Pos!Next

LEMMA PositionTypes == PositionsTyped => Pos!TypeOK
BY DEF PositionsTyped, RecordingRow, Pos!TypeOK

\* The instance counts as the library does.
LEMMA SameCardinality ==
  ASSUME NEW S PROVE Pos!Cardinality(S) = Cardinality(S)
BY DEF Pos!Cardinality, Cardinality

\* Two members make two.
LEMMA TwoOf ==
  ASSUME NEW S, IsFiniteSet(S)
  PROVE  Cardinality(S) >= 2 <=> \E x, y \in S : x # y
<1>1. ASSUME NEW x \in S, NEW y \in S, x # y PROVE Cardinality(S) >= 2
  <2>1. IsFiniteSet({x}) /\ Cardinality({x}) = 1
    BY FS_Singleton
  <2>2. IsFiniteSet({x} \cup {y}) /\ Cardinality({x} \cup {y}) = 2
    <3>1. ASSUME NEW one, IsFiniteSet(one), Cardinality(one) = 1, y \notin one
          PROVE  IsFiniteSet(one \cup {y}) /\ Cardinality(one \cup {y}) = 2
      BY <3>1, FS_AddElement
    <3>2. y \notin {x}
      BY <1>1
    <3>. QED BY <2>1, <3>1, <3>2
  <2>3. {x} \cup {y} \in SUBSET S
    OBVIOUS
  <2>4. Cardinality({x} \cup {y}) <= Cardinality(S)
    BY <2>3, FS_Subset
  <2>. QED BY <2>2, <2>4, FS_CardinalityType
<1>2. ASSUME Cardinality(S) >= 2 PROVE \E x, y \in S : x # y
  <2>1. S # {}
    BY <1>2, FS_EmptySet
  <2>2. PICK x \in S : TRUE
    BY <2>1
  <2>3. S # {x}
    BY <1>2, FS_Singleton
  <2>. QED BY <2>2, <2>3
<1>. QED BY <1>1, <1>2

\* One score has no spread: it is its own maximum and minimum.
LEMMA NoSpreadOfOne ==
  ASSUME PositionsTyped, Scores \subseteq Int, NEW a \in Pos!Scored,
         \A b \in Pos!Scored : b = a
  PROVE  Pos!Spread = 0
<1>1. {positions[b].score : b \in Pos!Scored} = {positions[a].score}
  OBVIOUS
<1>2. positions[a].score \in Int
  BY DEF Pos!Scored, Pos!Stored, Pos!NoScore, Pos!PositionType, PositionsTyped
<1>3. \A x \in Int : Pos!Max({x}) = x /\ Pos!Min({x}) = x
  BY DEF Pos!Max, Pos!Min
<1>. QED BY <1>1, <1>2, <1>3 DEF Pos!Spread

\* The list's query and classify_disagreement agree on every subject, whoever has
\* recorded or left out what, for finitely many analysts and a threshold of at
\* least one.
THEOREM QueryAgrees == DeskSpec => []DisagreementsAgree
<1>1. PositionsTyped => Pos!DisagreementsAgree
  <2>. SUFFICES ASSUME PositionsTyped
                PROVE  Pos!Spread >= Threshold =>
                         (Pos!Scored # {} <=> Cardinality(Pos!Scored) >= 2)
    BY SameCardinality DEF Pos!DisagreementsAgree, Pos!Listed, Pos!ClassifyDisagreement
  <2>1. Pos!Scored \subseteq Analysts /\ IsFiniteSet(Pos!Scored)
    BY FS_Subset, DeskAssumption DEF Pos!Scored, Pos!Stored
  <2>2. SUFFICES ASSUME Pos!Spread >= Threshold, NEW a \in Pos!Scored,
                        \A x, y \in Pos!Scored : x = y
                 PROVE  FALSE
    BY <2>1, TwoOf, DeskAssumption
  <2>3. Pos!Spread = 0
    BY <2>2, NoSpreadOfOne, DeskAssumption
  <2>. QED BY <2>2, <2>3, DeskAssumption
<1>. DEFINE Held == component = "positions" => PositionsTyped
<1>2. DeskInit => Held
  BY PositionsTypedAlways DEF DeskInit
<1>3. Held /\ [DeskNext]_deskVars => Held'
  BY OneMoves, PositionsTypedAlways
<1>4. Held => DisagreementsAgree
  BY <1>1 DEF DisagreementsAgree
<1>. QED BY <1>2, <1>3, <1>4, PTL DEF DeskSpec

-----------------------------------------------------------------------------
(* Imagery.                                                                *)

ImageRow == [state: {"unused", "live", "deleted"}, content: Contents \cup {Img!None},
             status: Img!VerificationStatuses, seen: SUBSET ImageIds]
SubmissionRow == [stage: {"none", "fetched", "new"},
                  content: Contents \cup {Img!None}, seen: SUBSET ImageIds]

ImagesTyped ==
  images \in [ImageIds -> ImageRow] /\ submission \in [Requests -> SubmissionRow]

\* What was committed at a look-up that found nothing: it has been stored, and while it
\* is there it has another content.
Unlike(seen, content) ==
  \A i \in seen : images[i].state = "deleted" \/ (images[i].state = "live" /\ images[i].content # content)

ImageInv ==
  /\ ImagesTyped
  /\ \A i \in ImageIds : images[i].state = "live" => Unlike(images[i].seen, images[i].content)
  /\ \A q \in Requests : submission[q].stage = "new" =>
       Unlike(submission[q].seen, submission[q].content)

LEMMA InitImageInv == Img!Init => ImageInv
<1>. SUFFICES ASSUME Img!Init PROVE ImageInv
  OBVIOUS
<1>1. Img!Unused \in ImageRow /\ Img!Quiet \in SubmissionRow
  BY DEF Img!Unused, Img!Quiet, ImageRow, SubmissionRow, Img!VerificationStatuses
<1>2. \A i \in ImageIds : images[i].state # "live"
  BY DEF Img!Init, Img!Unused
<1>3. \A q \in Requests : submission[q].stage # "new"
  BY DEF Img!Init, Img!Quiet
<1>. QED BY <1>1, <1>2, <1>3 DEF Img!Init, ImagesTyped, ImageInv

\* An image that was seen is never stored anew, and what is stored keeps its content.
ImagesGoOn ==
  \A i \in ImageIds :
    \/ images'[i] = images[i] \/ images'[i].state = "deleted"
    \/ /\ images'[i].state = "live" /\ images[i].state = "live"
       /\ images'[i].content = images[i].content /\ images'[i].seen = images[i].seen
    \/ images[i].state = "unused"

LEMMA UnlikeStays ==
  ASSUME ImagesGoOn, NEW seen \in SUBSET ImageIds, NEW content, Unlike(seen, content)
  PROVE  Unlike(seen, content)'
BY DEF ImagesGoOn, Unlike

\* Steps of a submission write its own record.
LEMMA SubmissionKeeps ==
  ASSUME ImageInv, UNCHANGED images, NEW q \in Requests, NEW w \in SubmissionRow,
         submission' = [submission EXCEPT ![q] = w],
         w.stage = "new" => Unlike(w.seen, w.content)
  PROVE  ImageInv'
<1>1. /\ submission' \in [Requests -> SubmissionRow]
      /\ \A p \in Requests : submission'[p] = IF p = q THEN w ELSE submission[p]
  BY DEF ImageInv, ImagesTyped
<1>. QED BY <1>1 DEF ImageInv, ImagesTyped, Unlike

\* Requests about images leave submissions alone and store nothing.
LEMMA ImageKeeps ==
  ASSUME ImageInv, images' \in [ImageIds -> ImageRow], ImagesGoOn,
         submission' \in [Requests -> SubmissionRow],
         \A q \in Requests : \/ submission'[q] = submission[q]
                             \/ submission'[q].stage = "none",
         \A i \in ImageIds : images'[i].state = "live" /\ images[i].state = "unused" =>
                               Unlike(images'[i].seen, images'[i].content)
  PROVE  ImageInv'
<1>1. ASSUME NEW i \in ImageIds, images'[i].state = "live"
      PROVE  Unlike(images[i].seen, images[i].content)'
  <2>1. images'[i].seen \in SUBSET ImageIds
    BY DEF ImageRow
  <2>2. Unlike(images'[i].seen, images'[i].content)
    BY <1>1 DEF ImagesGoOn, ImageInv
  <2>. QED BY <2>1, <2>2 DEF ImagesGoOn, Unlike
<1>2. ASSUME NEW q \in Requests, submission'[q].stage = "new"
      PROVE  Unlike(submission[q].seen, submission[q].content)'
  <2>1. submission'[q] = submission[q] /\ submission[q].seen \in SUBSET ImageIds
    BY <1>2 DEF ImageInv, ImagesTyped, SubmissionRow
  <2>2. Unlike(submission[q].seen, submission[q].content)
    BY <1>2, <2>1 DEF ImageInv
  <2>. QED BY <2>1, <2>2 DEF ImagesGoOn, Unlike
<1>. QED BY <1>1, <1>2 DEF ImageInv, ImagesTyped

LEMMA NextImageInv == ImageInv /\ [Img!Next]_Img!vars => ImageInv'
<1>. SUFFICES ASSUME ImageInv, [Img!Next]_Img!vars PROVE ImageInv'
  OBVIOUS
<1>1. images \in [ImageIds -> ImageRow] /\ submission \in [Requests -> SubmissionRow]
  BY DEF ImageInv, ImagesTyped
<1>2. Img!Quiet \in SubmissionRow /\ Img!Quiet.stage = "none"
  BY DEF Img!Quiet, SubmissionRow
<1>3. ASSUME NEW q \in Requests, NEW content \in Contents, Img!Fetch(q, content) PROVE ImageInv'
  <2>1. PICK w : w = [Img!Quiet EXCEPT !.stage = "fetched", !.content = content]
    OBVIOUS
  <2>2. w \in SubmissionRow /\ w.stage = "fetched"
    BY <2>1 DEF Img!Quiet, SubmissionRow
  <2>. QED BY <1>3, <2>1, <2>2, SubmissionKeeps DEF Img!Fetch
<1>4. ASSUME NEW q \in Requests, Img!LookUp(q) PROVE ImageInv'
  <2>1. PICK w : w = IF Img!SameContent(submission[q].content) # {} THEN Img!Quiet
                     ELSE [submission[q] EXCEPT !.stage = "new", !.seen = Img!Live]
    OBVIOUS
  <2>2. submission' = [submission EXCEPT ![q] = w] /\ UNCHANGED images
    BY <1>4, <2>1 DEF Img!LookUp
  <2>3. CASE Img!SameContent(submission[q].content) # {}
    BY <1>2, <2>1, <2>2, <2>3, SubmissionKeeps
  <2>4. CASE Img!SameContent(submission[q].content) = {}
    <3>1. w = [submission[q] EXCEPT !.stage = "new", !.seen = Img!Live]
      BY <2>1, <2>4
    <3>2. submission[q] \in SubmissionRow /\ Img!Live \in SUBSET ImageIds
      BY <1>1 DEF Img!Live
    <3>3. w \in SubmissionRow /\ w.seen = Img!Live /\ w.content = submission[q].content
      BY <3>1, <3>2 DEF SubmissionRow
    <3>4. Unlike(w.seen, w.content)
      BY <2>4, <3>3 DEF Unlike, Img!SameContent, Img!Live
    <3>. QED BY <2>2, <3>3, <3>4, SubmissionKeeps
  <2>. QED BY <2>3, <2>4
<1>6. ASSUME NEW q \in Requests, Img!Fail(q) PROVE ImageInv'
  BY <1>2, <1>6, SubmissionKeeps DEF Img!Fail
<1>7. ASSUME NEW q \in Requests, Img!Store(q) PROVE ImageInv'
  <2>1. PICK j \in ImageIds : /\ j = CHOOSE i \in Img!Fresh : TRUE
                              /\ images[j].state = "unused"
    BY <1>7 DEF Img!Store, Img!Fresh
  <2>2. PICK v : v = [Img!Unused EXCEPT !.state = "live", !.content = submission[q].content,
                                        !.seen = submission[q].seen]
    OBVIOUS
  <2>3. v \in ImageRow /\ v.seen = submission[q].seen /\ v.content = submission[q].content
    <3>1. submission[q].content \in Contents \cup {Img!None} /\ submission[q].seen \in SUBSET ImageIds
      BY <1>1 DEF SubmissionRow
    <3>. QED BY <2>2, <3>1 DEF Img!Unused, ImageRow, Img!VerificationStatuses
  <2>4. /\ images' = [images EXCEPT ![j] = v]
        /\ submission' = [submission EXCEPT ![q] = Img!Quiet]
        /\ submission[q].stage = "new"
    BY <1>7, <2>1, <2>2 DEF Img!Store
  <2>5. /\ images' \in [ImageIds -> ImageRow]
        /\ \A i \in ImageIds : images'[i] = IF i = j THEN v ELSE images[i]
    BY <1>1, <2>3, <2>4
  <2>6. /\ submission' \in [Requests -> SubmissionRow]
        /\ \A p \in Requests : submission'[p] = IF p = q THEN Img!Quiet ELSE submission[p]
    BY <1>1, <1>2, <2>4
  <2>7. Unlike(v.seen, v.content)
    BY <2>3, <2>4 DEF ImageInv
  <2>8. ImagesGoOn
    BY <2>1, <2>5 DEF ImagesGoOn
  <2>. QED BY <1>2, <2>1, <2>5, <2>6, <2>7, <2>8, ImageKeeps
<1>8. ASSUME NEW i \in ImageIds, Img!Patch(i) PROVE ImageInv'
  <2>1. PICK status \in Img!VerificationStatuses : images' = [images EXCEPT ![i].status = status]
    BY <1>8 DEF Img!Patch
  <2>2. PICK v : v = [images[i] EXCEPT !.status = status]
    OBVIOUS
  <2>3. /\ v \in ImageRow /\ v.state = "live"
        /\ v.content = images[i].content /\ v.seen = images[i].seen
    BY <1>1, <1>8, <2>2 DEF ImageRow, Img!Patch
  <2>4. /\ images' \in [ImageIds -> ImageRow]
        /\ \A j \in ImageIds : images'[j] = IF j = i THEN v ELSE images[j]
    BY <1>1, <2>1, <2>2, <2>3
  <2>5. ImagesGoOn /\ images[i].state = "live" /\ UNCHANGED submission
    BY <1>8, <2>3, <2>4 DEF ImagesGoOn, Img!Patch
  <2>. QED BY <1>1, <2>4, <2>5, ImageKeeps
<1>9. ASSUME NEW i \in ImageIds, Img!Delete(i) PROVE ImageInv'
  <2>1. Img!Deleted \in ImageRow /\ Img!Deleted.state = "deleted"
    BY DEF Img!Deleted, Img!Unused, ImageRow, Img!VerificationStatuses
  <2>2. /\ images' \in [ImageIds -> ImageRow]
        /\ \A j \in ImageIds : images'[j] = IF j = i THEN Img!Deleted ELSE images[j]
    BY <1>1, <1>9, <2>1 DEF Img!Delete
  <2>3. ImagesGoOn /\ UNCHANGED submission
    BY <1>9, <2>1, <2>2 DEF ImagesGoOn, Img!Delete
  <2>. QED BY <1>1, <2>1, <2>2, <2>3, ImageKeeps
<1>10. ASSUME UNCHANGED <<images, submission>> PROVE ImageInv'
  BY <1>10 DEF ImageInv, ImagesTyped, Unlike
<1>11. ASSUME NEW i \in ImageIds, NEW b \in Bundles, Img!LinkToBundle(i, b) PROVE ImageInv'
  BY <1>10, <1>11 DEF Img!LinkToBundle
<1>12. CASE UNCHANGED Img!vars
  BY <1>10, <1>12 DEF Img!vars
<1>. QED BY <1>3, <1>4, <1>6, <1>7, <1>8, <1>9, <1>11, <1>12 DEF Img!Next

\* submit_image makes two images of one content only in a race: an image that was
\* committed when a content was looked for has another content as long as it exists.
THEOREM DuplicatesOnlyInRaces == DeskSpec => []DuplicatesOverlap
<1>1. ImageInv => Img!DuplicatesOverlap
  BY DEF ImageInv, Unlike, Img!DuplicatesOverlap, Img!Live
<1>. DEFINE Held == component = "imagery" => ImageInv
<1>2. DeskInit => Held
  BY InitImageInv DEF DeskInit
<1>3. Held /\ [DeskNext]_deskVars => Held'
  BY OneMoves, NextImageInv
<1>4. Held => DuplicatesOverlap
  BY <1>1 DEF DuplicatesOverlap
<1>. QED BY <1>2, <1>3, <1>4, PTL DEF DeskSpec

-----------------------------------------------------------------------------
(* Scenarios.                                                              *)

Pending == {"begun", "read"}

RequestFields == {"stage", "family", "left", "current", "at", "previous", "first", "own"}

ScenariosTyped ==
  /\ DOMAIN scenarios = ScenarioIds
  /\ DOMAIN updates = Requests /\ \A q \in Requests : DOMAIN updates[q] = RequestFields
  /\ scenarioClock \in Nat
  /\ \A a \in assessments : a.at \in Nat

\* No two assessments are of one time: what is pending is of none that is written.
TimesDiffer ==
  \A q \in Requests : updates[q].stage \in Pending =>
    /\ updates[q].at \in 0..scenarioClock
    /\ \A a \in assessments : a.at # updates[q].at
    /\ \A p \in Requests : /\ \A a \in updates[p].own : a.at # updates[q].at
                           /\ p # q /\ updates[p].stage \in Pending => updates[p].at # updates[q].at

TimesPassed ==
  /\ \A a \in assessments : a.at <= scenarioClock
  /\ \A q \in Requests : \A a \in updates[q].own : a.at \in 0..scenarioClock

\* What a request has read is committed and earlier, as long as its scenario is there.
PreviousIsEarlier ==
  \A q \in Requests :
    updates[q].stage = "read" /\ updates[q].current \in Sc!Live =>
      /\ updates[q].first <=> updates[q].previous = {}
      /\ \A b \in updates[q].previous :
           b \in assessments /\ b.scenario = updates[q].current /\ b.at < updates[q].at

\* A deleted scenario does not come back under a request that is at work on it.
PendingExist ==
  \A q \in Requests : updates[q].stage \in Pending =>
    updates[q].current \in ScenarioIds /\ scenarios[updates[q].current].state # "unused"

Repeats(a) ==
  ~a.model => IF a.first THEN a.range = Sc!Full
              ELSE \E b \in assessments : b.scenario = a.scenario /\ b.at < a.at /\ b.range = a.range

ScenarioInv ==
  /\ ScenariosTyped /\ TimesDiffer /\ TimesPassed /\ PendingExist /\ PreviousIsEarlier
  /\ \A a \in assessments : Repeats(a)
  /\ \A q \in Requests : \A a \in updates[q].own : Repeats(a)

LEMMA InitScenarioInv == Sc!Init => ScenarioInv
<1>. SUFFICES ASSUME Sc!Init PROVE ScenarioInv
  OBVIOUS
<1>1. assessments = {} /\ scenarioClock = 0 /\ \A q \in Requests : updates[q] = Sc!Quiet
  BY DEF Sc!Init
<1>2. Sc!Quiet.own = {} /\ Sc!Quiet.stage = "none" /\ DOMAIN Sc!Quiet = RequestFields
  BY DEF Sc!Quiet, Sc!None, RequestFields
<1>3. ScenariosTyped
  BY <1>1, <1>2 DEF Sc!Init, ScenariosTyped
<1>. QED BY <1>1, <1>2, <1>3 DEF ScenarioInv, TimesDiffer, TimesPassed, PendingExist,
                              PreviousIsEarlier, Pending

ScenariosGoOn ==
  /\ DOMAIN scenarios' = ScenarioIds
  /\ \A s \in ScenarioIds :
       /\ scenarios[s].state # "unused" => scenarios'[s].state # "unused"
       /\ scenarios'[s].state = "live" => scenarios[s].state \in {"unused", "live"}

\* A request that begins nothing and writes nothing, whatever becomes of scenarios.
LEMMA RequestMoves ==
  ASSUME ScenarioInv, NEW q \in Requests, NEW w, DOMAIN w = RequestFields,
         updates' = [updates EXCEPT ![q] = w], UNCHANGED <<assessments, scenarioClock>>, ScenariosGoOn,
         w.own \subseteq updates[q].own,
         w.stage \in Pending => /\ updates[q].stage \in Pending
                                /\ w.at = updates[q].at /\ w.current = updates[q].current,
         w.stage = "read" /\ w.current \in Sc!Live =>
           /\ w.first <=> w.previous = {}
           /\ \A b \in w.previous : b \in assessments /\ b.scenario = w.current /\ b.at < w.at
  PROVE  ScenarioInv'
<1>1. /\ DOMAIN updates' = Requests
      /\ \A p \in Requests : updates'[p] = IF p = q THEN w ELSE updates[p]
  BY DEF ScenarioInv, ScenariosTyped
<1>2. ScenariosTyped'
  BY <1>1 DEF ScenarioInv, ScenariosTyped, ScenariosGoOn
<1>3. \A p \in Requests :
        /\ updates'[p].own \subseteq updates[p].own
        /\ updates'[p].stage \in Pending =>
             /\ updates[p].stage \in Pending /\ updates'[p].at = updates[p].at
             /\ updates'[p].current = updates[p].current
  BY <1>1
<1>4. TimesDiffer'
  BY <1>3 DEF ScenarioInv, TimesDiffer
<1>5. TimesPassed'
  BY <1>3 DEF ScenarioInv, TimesPassed
<1>6. PendingExist'
  BY <1>3 DEF ScenarioInv, PendingExist, ScenariosGoOn
<1>7. PreviousIsEarlier'
  <2>1. SUFFICES ASSUME NEW p \in Requests, updates'[p].stage = "read",
                        updates'[p].current \in Sc!Live'
                 PROVE  /\ updates'[p].first <=> updates'[p].previous = {}
                        /\ \A b \in updates'[p].previous :
                             /\ b \in assessments /\ b.scenario = updates'[p].current
                             /\ b.at < updates'[p].at
    BY DEF PreviousIsEarlier
  <2>2. updates'[p].current \in Sc!Live
    <3>1. updates'[p].current = updates[p].current /\ updates[p].stage \in Pending
      BY <1>3, <2>1 DEF Pending
    <3>2. updates[p].current \in ScenarioIds /\ scenarios[updates[p].current].state # "unused"
      BY <3>1 DEF ScenarioInv, PendingExist
    <3>. QED BY <2>1, <3>1, <3>2 DEF Sc!Live, ScenariosGoOn
  <2>3. CASE p = q
    BY <1>1, <2>1, <2>2, <2>3
  <2>4. CASE p # q
    BY <1>1, <2>1, <2>2, <2>4 DEF ScenarioInv, PreviousIsEarlier
  <2>. QED BY <2>3, <2>4
<1>8. \A a : Repeats(a)' <=> Repeats(a)
  BY DEF Repeats
<1>. QED BY <1>2, <1>3, <1>4, <1>5, <1>6, <1>7, <1>8 DEF ScenarioInv

LEMMA QuietWrites ==
  /\ DOMAIN Sc!Quiet = RequestFields /\ Sc!Quiet.own = {} /\ Sc!Quiet.stage \notin Pending
BY DEF Sc!Quiet, Sc!None, RequestFields, Pending

LEMMA ScenariosSame ==
  ASSUME ScenarioInv, UNCHANGED scenarios PROVE ScenariosGoOn
BY DEF ScenarioInv, ScenariosTyped, ScenariosGoOn

\* Requests that begin, end or give up without an assessment.
LEMMA IdleKeeps ==
  ASSUME ScenarioInv, NEW q \in Requests, NEW family, NEW s,
         Sc!LookUpFamily(q, family) \/ Sc!Create(q, s) \/ Sc!Start(q) \/ Sc!Fail(q)
  PROVE  ScenarioInv'
<1>1. CASE Sc!LookUpFamily(q, family)
  <2>1. PICK w : w = [Sc!Quiet EXCEPT !.stage = "creating", !.family = family]
    OBVIOUS
  <2>2. DOMAIN w = RequestFields /\ w.own = {} /\ w.stage = "creating"
    BY <2>1 DEF Sc!Quiet, RequestFields
  <2>3. w.stage \notin Pending
    BY <2>2 DEF Pending
  <2>. QED BY <1>1, <2>1, <2>2, <2>3, RequestMoves, ScenariosSame DEF Sc!LookUpFamily
<1>2. CASE Sc!Create(q, s)
  <2>1. ScenariosGoOn
    BY <1>2 DEF Sc!Create, ScenarioInv, ScenariosTyped, ScenariosGoOn
  <2>2. Sc!Quiet.stage # "read"
    BY DEF Sc!Quiet, Sc!None
  <2>. QED BY <1>2, <2>1, <2>2, QuietWrites, RequestMoves DEF Sc!Create
<1>3. CASE Sc!Start(q)
  <2>1. PICK chosen : updates' = [updates EXCEPT ![q] = [Sc!Quiet EXCEPT !.stage = "walking",
                                                                        !.left = chosen]]
    BY <1>3 DEF Sc!Start
  <2>2. PICK w : w = [Sc!Quiet EXCEPT !.stage = "walking", !.left = chosen]
    OBVIOUS
  <2>3. DOMAIN w = RequestFields /\ w.own = {} /\ w.stage = "walking"
    BY <2>2 DEF Sc!Quiet, RequestFields
  <2>4. w.stage \notin Pending
    BY <2>3 DEF Pending
  <2>. QED BY <1>3, <2>1, <2>2, <2>3, <2>4, RequestMoves, ScenariosSame DEF Sc!Start
<1>4. CASE Sc!Fail(q)
  <2>1. Sc!Quiet.stage # "read"
    BY DEF Sc!Quiet, Sc!None
  <2>. QED BY <1>4, <2>1, QuietWrites, RequestMoves, ScenariosSame DEF Sc!Fail
<1>. QED BY <1>1, <1>2, <1>3, <1>4

\* The latest assessments up to a time are there if any is.
LEMMA LatestExists ==
  ASSUME ScenarioInv, NEW s, NEW at \in Nat
  PROVE  /\ \A b \in Sc!Latest(s, at) : b \in assessments /\ b.scenario = s /\ b.at <= at
         /\ Sc!Latest(s, at) = {} <=> \A a \in assessments : a.scenario # s \/ a.at > at
<1>. DEFINE known == {a \in assessments : a.scenario = s /\ a.at <= at}
            times == {a.at : a \in known}
<1>1. Sc!Latest(s, at) = {a \in known : \A b \in known : b.at <= a.at}
  BY DEF Sc!Latest
<1>2. times \in SUBSET (0..at)
  BY DEF ScenarioInv, ScenariosTyped
<1>3. ASSUME known # {} PROVE Sc!Latest(s, at) # {}
  <2>1. times # {}
    BY <1>3
  <2>2. Max(times) \in times /\ \A t \in times : t <= Max(times)
    <3>. HIDE DEF times
    <3>. QED BY <1>2, <2>1, GreatestOf
  <2>3. PICK a \in known : a.at = Max(times)
    BY <2>2
  <2>4. \A b \in known : b.at <= a.at
    BY <2>2, <2>3
  <2>. QED BY <1>1, <2>4
<1>4. known = {} <=> \A a \in assessments : a.scenario # s \/ a.at > at
  BY DEF ScenarioInv, ScenariosTyped
<1>. QED BY <1>1, <1>3, <1>4

LEMMA ReadPreviousKeeps ==
  ASSUME ScenarioInv, NEW q \in Requests, Sc!ReadPrevious(q) PROVE ScenarioInv'
<1>. DEFINE none == \A a \in assessments : a.scenario # updates[q].current \/ a.at > updates[q].at
<1>1. PICK w : w = [updates[q] EXCEPT !.stage = "read",
                      !.previous = Sc!Latest(updates[q].current, updates[q].at), !.first = none]
  OBVIOUS
<1>2. /\ updates' = [updates EXCEPT ![q] = w] /\ updates[q].stage = "begun"
      /\ UNCHANGED <<scenarios, assessments, scenarioClock>>
  BY <1>1 DEF Sc!ReadPrevious
<1>3. DOMAIN updates[q] = RequestFields /\ updates[q].at \in Nat
      /\ \A a \in assessments : a.at \in Nat /\ a.at # updates[q].at
  BY <1>2 DEF ScenarioInv, ScenariosTyped, TimesDiffer, Pending
<1>4. /\ DOMAIN w = RequestFields /\ w.stage = "read" /\ w.own = updates[q].own
      /\ w.at = updates[q].at /\ w.current = updates[q].current
      /\ w.previous = Sc!Latest(updates[q].current, updates[q].at) /\ w.first = none
  BY <1>1, <1>3 DEF RequestFields
<1>5. /\ w.first <=> w.previous = {}
      /\ \A b \in w.previous : b \in assessments /\ b.scenario = w.current /\ b.at < w.at
  BY <1>3, <1>4, LatestExists
<1>. QED BY <1>2, <1>4, <1>5, RequestMoves, ScenariosSame DEF Pending

\* A request that begins takes a time of its own.
LEMMA BeginScenarioKeeps ==
  ASSUME ScenarioInv, NEW q \in Requests, NEW s \in ScenarioIds, Sc!Begin(q, s)
  PROVE  ScenarioInv'
<1>1. DOMAIN updates[q] = RequestFields /\ updates[q].stage = "walking" /\ scenarioClock \in Nat
  BY DEF Sc!Begin, ScenarioInv, ScenariosTyped
<1>2. CASE s \in Sc!Live
  <2>1. PICK w : w = [updates[q] EXCEPT !.stage = "begun", !.left = @ \ {s}, !.current = s,
                                        !.at = scenarioClock + 1]
    OBVIOUS
  <2>2. /\ updates' = [updates EXCEPT ![q] = w] /\ scenarioClock' = scenarioClock + 1
        /\ UNCHANGED <<scenarios, assessments>>
    BY <1>2, <2>1 DEF Sc!Begin
  <2>3. /\ DOMAIN w = RequestFields /\ w.stage = "begun" /\ w.at = scenarioClock + 1 /\ w.current = s
        /\ w.own = updates[q].own
    BY <1>1, <2>1 DEF RequestFields
  <2>4. /\ DOMAIN updates' = Requests
        /\ \A p \in Requests : updates'[p] = IF p = q THEN w ELSE updates[p]
    BY <2>2 DEF ScenarioInv, ScenariosTyped
  <2>5. \A p \in Requests : updates'[p].own = updates[p].own
    BY <2>3, <2>4
  <2>6. ScenariosTyped'
    BY <1>1, <2>2, <2>3, <2>4 DEF ScenarioInv, ScenariosTyped
  <2>7. TimesPassed'
    BY <1>1, <2>2, <2>5 DEF ScenarioInv, ScenariosTyped, TimesPassed
  <2>8. TimesDiffer'
    <3>1. \A a \in assessments : a.at \in Nat /\ a.at <= scenarioClock
      BY DEF ScenarioInv, ScenariosTyped, TimesPassed
    <3>2. \A p \in Requests :
            /\ \A a \in updates[p].own : a.at \in 0..scenarioClock
            /\ updates[p].stage \in Pending => updates[p].at \in 0..scenarioClock
      BY DEF ScenarioInv, TimesPassed, TimesDiffer
    <3>3. SUFFICES ASSUME NEW p \in Requests, updates'[p].stage \in Pending
                   PROVE  /\ updates'[p].at \in 0..scenarioClock'
                          /\ \A a \in assessments : a.at # updates'[p].at
                          /\ \A o \in Requests :
                               /\ \A a \in updates'[o].own : a.at # updates'[p].at
                               /\ o # p /\ updates'[o].stage \in Pending =>
                                    updates'[o].at # updates'[p].at
      BY <2>2 DEF TimesDiffer
    <3>4. CASE p = q
      <4>1. updates'[p].at = scenarioClock + 1 /\ scenarioClock' = scenarioClock + 1
        BY <2>2, <2>3, <2>4, <3>4
      <4>2. \A o \in Requests : o # p => updates'[o] = updates[o]
        BY <2>4, <3>4
      <4>3. \A t \in 0..scenarioClock : t # scenarioClock + 1
        BY <1>1
      <4>4. \A a \in assessments : a.at # scenarioClock + 1
        BY <1>1, <3>1
      <4>5. \A o \in Requests : /\ \A a \in updates'[o].own : a.at # scenarioClock + 1
                                /\ o # p /\ updates'[o].stage \in Pending =>
                                     updates'[o].at # scenarioClock + 1
        BY <2>5, <3>2, <4>2, <4>3
      <4>. QED BY <1>1, <4>1, <4>4, <4>5
    <3>5. CASE p # q
      <4>1. updates'[p] = updates[p] /\ updates[p].stage \in Pending
        BY <2>4, <3>3, <3>5
      <4>2. updates[p].at \in 0..scenarioClock /\ updates[p].at # scenarioClock + 1
        BY <1>1, <3>2, <4>1
      <4>3. \A o \in Requests : o # p /\ updates'[o].stage \in Pending =>
              updates'[o].at # updates[p].at
        BY <2>3, <2>4, <4>1, <4>2 DEF ScenarioInv, TimesDiffer
      <4>4. /\ \A a \in assessments : a.at # updates[p].at
            /\ \A o \in Requests : \A a \in updates'[o].own : a.at # updates[p].at
        BY <2>5, <4>1 DEF ScenarioInv, TimesDiffer
      <4>5. updates[p].at \in 0..scenarioClock'
        BY <1>1, <2>2, <4>2
      <4>. QED BY <4>1, <4>3, <4>4, <4>5
    <3>. QED BY <3>4, <3>5
  <2>9. PendingExist'
    BY <1>2, <2>2, <2>3, <2>4 DEF ScenarioInv, PendingExist, Sc!Live
  <2>10. PreviousIsEarlier'
    BY <2>2, <2>3, <2>4 DEF ScenarioInv, PreviousIsEarlier, Sc!Live
  <2>11. \A a : Repeats(a)' <=> Repeats(a)
    BY <2>2 DEF Repeats
  <2>. QED BY <2>2, <2>5, <2>6, <2>7, <2>8, <2>9, <2>10, <2>11 DEF ScenarioInv
<1>3. CASE s \notin Sc!Live
  <2>1. PICK w : w = [updates[q] EXCEPT !.left = @ \ {s}]
    OBVIOUS
  <2>2. /\ updates' = [updates EXCEPT ![q] = w]
        /\ UNCHANGED <<scenarios, assessments, scenarioClock>>
    BY <1>3, <2>1 DEF Sc!Begin
  <2>3. DOMAIN w = RequestFields /\ w.stage = "walking" /\ w.own = updates[q].own
    BY <1>1, <2>1 DEF RequestFields
  <2>4. w.stage \notin Pending
    BY <2>3 DEF Pending
  <2>. QED BY <2>2, <2>3, <2>4, RequestMoves, ScenariosSame
<1>. QED BY <1>2, <1>3

\* What a request writes is of its own time and repeats what it has read.
LEMMA AssessKeeps ==
  ASSUME ScenarioInv, NEW q \in Requests, Sc!Assess(q) PROVE ScenarioInv'
<1>a. PICK row \in Sc!Updates(updates[q]) :
        updates' = [updates EXCEPT ![q] = Sc!Written(updates[q], row)]
  BY DEF Sc!Assess
<1>b. PICK w : w = Sc!Written(updates[q], row)
  OBVIOUS
<1>1. /\ w = Sc!Written(updates[q], row) /\ updates' = [updates EXCEPT ![q] = w]
      /\ row.at = updates[q].at /\ row.scenario = updates[q].current
      /\ row.first <=> updates[q].first
      /\ ~row.model => row.range = Sc!FallbackUpdate(updates[q].previous)
  BY <1>a, <1>b DEF Sc!Updates
<1>2. /\ updates[q].stage = "read" /\ updates[q].current \in Sc!Live
      /\ UNCHANGED <<scenarios, assessments, scenarioClock>>
  BY DEF Sc!Assess
<1>3. /\ DOMAIN w = RequestFields /\ w.stage = "walking" /\ w.own = updates[q].own \cup {row}
      /\ w.stage \notin Pending
  BY <1>1 DEF Sc!Written, Sc!Quiet, RequestFields, Pending
<1>4. /\ DOMAIN updates' = Requests
      /\ \A p \in Requests : updates'[p] = IF p = q THEN w ELSE updates[p]
  BY <1>1 DEF ScenarioInv, ScenariosTyped
<1>5. updates[q].at \in 0..scenarioClock /\ updates[q].stage \in Pending
  BY <1>2 DEF ScenarioInv, TimesDiffer, Pending
<1>6. Repeats(row)
  <2>1. CASE row.first
    <3>1. updates[q].previous = {}
      BY <1>1, <1>2, <2>1 DEF ScenarioInv, PreviousIsEarlier
    <3>. QED BY <1>1, <2>1, <3>1 DEF Repeats, Sc!FallbackUpdate
  <2>2. CASE ~row.first
    <3>1. /\ updates[q].previous # {}
          /\ \A b \in updates[q].previous :
               b \in assessments /\ b.scenario = updates[q].current /\ b.at < updates[q].at
      BY <1>1, <1>2, <2>2 DEF ScenarioInv, PreviousIsEarlier
    <3>2. PICK b \in updates[q].previous : b = CHOOSE a \in updates[q].previous : TRUE
      BY <3>1
    <3>3. ~row.model => row.range = b.range
      BY <1>1, <3>1, <3>2 DEF Sc!FallbackUpdate
    <3>. QED BY <1>1, <2>2, <3>1, <3>3 DEF Repeats
  <2>. QED BY <2>1, <2>2
<1>7. ScenariosTyped'
  BY <1>2, <1>3, <1>4 DEF ScenarioInv, ScenariosTyped
<1>8. TimesPassed'
  BY <1>1, <1>2, <1>3, <1>4, <1>5 DEF ScenarioInv, TimesPassed
<1>9. TimesDiffer'
  <2>1. SUFFICES ASSUME NEW p \in Requests, updates'[p].stage \in Pending
                 PROVE  /\ updates'[p].at \in 0..scenarioClock
                        /\ \A a \in assessments : a.at # updates'[p].at
                        /\ \A o \in Requests :
                             /\ \A a \in updates'[o].own : a.at # updates'[p].at
                             /\ o # p /\ updates'[o].stage \in Pending =>
                                  updates'[o].at # updates'[p].at
    BY <1>2 DEF TimesDiffer
  <2>2. p # q /\ updates'[p] = updates[p]
    BY <1>3, <1>4, <2>1
  <2>3. /\ updates[p].at \in 0..scenarioClock /\ updates[p].at # updates[q].at
        /\ \A a \in assessments : a.at # updates[p].at
        /\ \A o \in Requests : /\ \A a \in updates[o].own : a.at # updates[p].at
                               /\ o # p /\ updates[o].stage \in Pending =>
                                    updates[o].at # updates[p].at
    BY <1>5, <2>1, <2>2 DEF ScenarioInv, TimesDiffer
  <2>4. ASSUME NEW o \in Requests
        PROVE  /\ \A a \in updates'[o].own : a.at # updates[p].at
               /\ o # p /\ updates'[o].stage \in Pending => updates'[o].at # updates[p].at
    BY <1>1, <1>3, <1>4, <2>3
  <2>. QED BY <2>2, <2>3, <2>4
<1>10. PendingExist' /\ PreviousIsEarlier'
  BY <1>2, <1>3, <1>4 DEF ScenarioInv, PendingExist, PreviousIsEarlier, Sc!Live
<1>11. \A a : Repeats(a)' <=> Repeats(a)
  BY <1>2 DEF Repeats
<1>12. ASSUME NEW p \in Requests, NEW a \in updates'[p].own PROVE Repeats(a)
  BY <1>3, <1>4, <1>6 DEF ScenarioInv
<1>. QED BY <1>2, <1>7, <1>8, <1>9, <1>10, <1>11, <1>12 DEF ScenarioInv

\* A commit adds assessments of times that nothing pending has.
LEMMA CommitScenarioKeeps ==
  ASSUME ScenarioInv, NEW q \in Requests, Sc!Commit(q) PROVE ScenarioInv'
<1>1. /\ updates' = [updates EXCEPT ![q] = Sc!Quiet]
      /\ assessments' = assessments \cup updates[q].own
      /\ UNCHANGED <<scenarios, scenarioClock>>
  BY DEF Sc!Commit
<1>2. /\ DOMAIN updates' = Requests
      /\ \A p \in Requests : updates'[p] = IF p = q THEN Sc!Quiet ELSE updates[p]
  BY <1>1 DEF ScenarioInv, ScenariosTyped
<1>3. \A p \in Requests :
        /\ updates'[p].own \subseteq updates[p].own
        /\ updates'[p].stage \in Pending \/ updates'[p].stage = "read" => updates'[p] = updates[p]
  BY <1>2, QuietWrites DEF Pending
<1>4. ScenariosTyped'
  BY <1>1, <1>2, QuietWrites DEF ScenarioInv, ScenariosTyped, TimesPassed
<1>5. TimesPassed'
  BY <1>1, <1>3 DEF ScenarioInv, TimesPassed
<1>6. TimesDiffer'
  BY <1>1, <1>3 DEF ScenarioInv, TimesDiffer
<1>7. PendingExist' /\ PreviousIsEarlier'
  BY <1>1, <1>3 DEF ScenarioInv, PendingExist, PreviousIsEarlier, Sc!Live
<1>8. \A a : Repeats(a) => Repeats(a)'
  BY <1>1 DEF Repeats
<1>. QED BY <1>1, <1>3, <1>4, <1>5, <1>6, <1>7, <1>8 DEF ScenarioInv

\* Deletion takes all assessments of a scenario, and waits for who has written one.
LEMMA DeleteScenarioKeeps ==
  ASSUME ScenarioInv, NEW s \in ScenarioIds, Sc!Delete(s) PROVE ScenarioInv'
<1>1. /\ \A q \in Requests : \A a \in updates[q].own : a.scenario # s
      /\ scenarios' = [scenarios EXCEPT ![s] = Sc!Deleted]
      /\ assessments' = {a \in assessments : a.scenario # s}
      /\ UNCHANGED <<updates, scenarioClock>>
  BY DEF Sc!Delete
<1>2. /\ DOMAIN scenarios' = ScenarioIds
      /\ \A x \in ScenarioIds : scenarios'[x] = IF x = s THEN Sc!Deleted ELSE scenarios[x]
  BY <1>1 DEF ScenarioInv, ScenariosTyped
<1>3. Sc!Deleted.state = "deleted"
  BY DEF Sc!Deleted, Sc!Unused
<1>4. ScenariosTyped' /\ TimesPassed' /\ TimesDiffer'
  BY <1>1, <1>2 DEF ScenarioInv, ScenariosTyped, TimesPassed, TimesDiffer
<1>5. PendingExist'
  BY <1>1, <1>2, <1>3 DEF ScenarioInv, PendingExist
<1>6. PreviousIsEarlier'
  BY <1>1, <1>2, <1>3 DEF ScenarioInv, PreviousIsEarlier, Sc!Live
<1>7. \A a : a.scenario # s /\ Repeats(a) => Repeats(a)'
  BY <1>1 DEF Repeats
<1>. QED BY <1>1, <1>4, <1>5, <1>6, <1>7 DEF ScenarioInv

LEMMA PatchScenarioKeeps ==
  ASSUME ScenarioInv, NEW s \in ScenarioIds, Sc!Patch(s) PROVE ScenarioInv'
<1>1. PICK family \in Families : scenarios' = [scenarios EXCEPT ![s].family = family]
  BY DEF Sc!Patch
<1>2. UNCHANGED <<assessments, updates, scenarioClock>> /\ scenarios[s].state = "live"
  BY DEF Sc!Patch
<1>3. /\ DOMAIN scenarios' = ScenarioIds
      /\ \A x \in ScenarioIds : scenarios'[x].state = scenarios[x].state
  BY <1>1 DEF ScenarioInv, ScenariosTyped
<1>. QED BY <1>2, <1>3 DEF ScenarioInv, ScenariosTyped, TimesPassed, TimesDiffer, PendingExist,
                           PreviousIsEarlier, Sc!Live, Repeats

LEMMA NextScenarioInv == ScenarioInv /\ [Sc!Next]_Sc!vars => ScenarioInv'
<1>. SUFFICES ASSUME ScenarioInv, [Sc!Next]_Sc!vars PROVE ScenarioInv'
  OBVIOUS
<1>1. CASE \E q \in Requests, family \in Families : Sc!LookUpFamily(q, family)
  BY <1>1, IdleKeeps
<1>2. CASE \E q \in Requests, s \in ScenarioIds : Sc!Create(q, s) \/ Sc!Begin(q, s)
  BY <1>2, IdleKeeps, BeginScenarioKeeps
<1>3. CASE \E s \in ScenarioIds : Sc!Patch(s) \/ Sc!Delete(s)
  BY <1>3, PatchScenarioKeeps, DeleteScenarioKeeps
<1>4. CASE \E q \in Requests : \/ Sc!Start(q) \/ Sc!ReadPrevious(q) \/ Sc!Assess(q)
                               \/ Sc!Commit(q) \/ Sc!Fail(q)
  BY <1>4, IdleKeeps, ReadPreviousKeeps, AssessKeeps, CommitScenarioKeeps
<1>5. CASE UNCHANGED Sc!vars
  BY <1>5 DEF Sc!vars, ScenarioInv, ScenariosTyped, TimesPassed, TimesDiffer, PendingExist,
              PreviousIsEarlier, Sc!Live, Repeats
<1>. QED BY <1>1, <1>2, <1>3, <1>4, <1>5 DEF Sc!Next

\* update_scenario invents no assessment when no model answers: it repeats an earlier one
\* of the scenario that is still stored, or stands for full uncertainty when there was none,
\* however updates overlap, end out of order, are rolled back or meet deletions.
THEOREM NothingIsInvented == DeskSpec => []CarriedForward
<1>1. ScenarioInv => Sc!CarriedForward
  BY DEF ScenarioInv, Repeats, Sc!CarriedForward
<1>. DEFINE Held == component = "scenarios" => ScenarioInv
<1>2. DeskInit => Held
  BY InitScenarioInv DEF DeskInit
<1>3. Held /\ [DeskNext]_deskVars => Held'
  BY OneMoves, NextScenarioInv
<1>4. Held => CarriedForward
  BY <1>1 DEF CarriedForward
<1>. QED BY <1>2, <1>3, <1>4, PTL DEF DeskSpec

-----------------------------------------------------------------------------
(* Investigations.                                                         *)

ExecutionRow ==
  [owner: {Inv!None, "request", "worker"}, case: Cases \cup {Inv!None}, at: 0..Inv!Last,
   found: Inv!Findings \cup {Inv!None}, loaded: Inv!Findings \cup {Inv!None, "failure"},
   raised: BOOLEAN]

\* An execution past the searches has found something, were it nothing; a request's row
\* is new and has no result.
ExecutionsFound ==
  /\ cases \in [Cases -> Inv!CaseType]
  /\ DOMAIN briefs = Cases
  /\ session \in [Sessions -> ExecutionRow]
  /\ \A s \in Sessions :
       /\ session[s].owner # Inv!None => session[s].case \in Cases
       /\ session[s].at >= 2 => session[s].found \in Inv!Findings
       /\ session[s].owner = "request" => session[s].loaded = Inv!None

LEMMA InitExecutionsFound == Inv!Init => ExecutionsFound
<1>1. Inv!Unused \in Inv!CaseType
  BY DEF Inv!Unused, Inv!CaseType, Inv!Statuses
<1>2. /\ Inv!Idle \in ExecutionRow /\ Inv!Idle.owner = Inv!None /\ Inv!Idle.at = 0
      /\ Inv!Idle.loaded = Inv!None
  BY DEF Inv!Idle, Inv!Last, Inv!None, ExecutionRow
<1>. QED BY <1>1, <1>2 DEF Inv!Init, ExecutionsFound

\* What a commit stores of an execution is a row.
LEMMA StoredIsCase ==
  ASSUME ExecutionsFound, NEW s \in Sessions, NEW row \in Inv!CaseType
  PROVE  Inv!Stored(row, session[s]) \in Inv!CaseType
<1>. DEFINE w == session[s]
<1>1. /\ w.at \in 0..9 /\ w.found \in Inv!Findings \cup {Inv!None} /\ w.raised \in BOOLEAN
      /\ row.steps \in [Inv!Steps -> Inv!Statuses]
  BY DEF ExecutionsFound, ExecutionRow, Inv!Last, Inv!CaseType
<1>. HIDE DEF w
<1>2. \A k \in Inv!Steps : Inv!StepStatus(row.steps[k], k, w.at) \in Inv!Statuses
  BY <1>1 DEF Inv!StepStatus, Inv!Statuses
<1>3. Inv!CaseStatus(w.at) \in Inv!Statuses
  BY DEF Inv!CaseStatus, Inv!Statuses
<1>4. Inv!Image(row, w) \in Inv!CaseType
  BY <1>1, <1>2, <1>3 DEF Inv!Image, Inv!CaseType
<1>5. ASSUME NEW r \in Inv!CaseType PROVE Inv!Failed(r) \in Inv!CaseType
  <2>1. \A k \in Inv!Steps : (IF r.steps[k] \in {"pending", "running"} THEN "failed" ELSE r.steps[k])
                              \in Inv!Statuses
    BY DEF Inv!CaseType, Inv!Statuses
  <2>. QED BY <2>1 DEF Inv!Failed, Inv!CaseType, Inv!Statuses
<1>6. Inv!Stored(row, w) \in Inv!CaseType
  BY <1>4, <1>5 DEF Inv!Stored
<1>. QED BY <1>6 DEF w

\* A completed image has been through all steps, and its result is its last step's if the
\* row has the result that was loaded.
LEMMA CompletedImage ==
  ASSUME ExecutionsFound, NEW s \in Sessions, NEW row \in Inv!CaseType,
         Inv!Stored(row, session[s]).status = "completed"
  PROVE  /\ \A k \in Inv!Steps : Inv!Stored(row, session[s]).steps[k] = "completed"
         /\ session[s].loaded = row.result => Inv!Stored(row, session[s]).result = session[s].found
         /\ Inv!Stored(row, session[s]).output = session[s].found
         /\ session[s].at >= 8 /\ session[s].found # Inv!None
<1>. DEFINE w == session[s]
<1>1. w.at \in 0..9 /\ w.raised \in BOOLEAN /\ (w.at >= 2 => w.found \in Inv!Findings)
  BY DEF ExecutionsFound, ExecutionRow, Inv!Last
<1>2. DOMAIN row = {"state", "status", "steps", "output", "result", "linked"}
  BY DEF Inv!CaseType
<1>. HIDE DEF w
<1>3. ~w.raised
  <2>1. ASSUME NEW r \in Inv!CaseType PROVE Inv!Failed(r).status = "failed"
    BY DEF Inv!Failed, Inv!CaseType
  <2>2. w.raised => Inv!Stored(row, w).status = "failed"
    <3>1. Inv!Image(row, w) \in [state: {row.state}, status: {Inv!CaseStatus(w.at)},
            steps: {Inv!Image(row, w).steps}, output: {Inv!Image(row, w).output},
            result: {Inv!Image(row, w).result}, linked: {Inv!Image(row, w).linked}]
      BY DEF Inv!Image, Inv!CaseType
    <3>. QED BY <3>1 DEF Inv!Stored, Inv!Failed
  <2>. QED BY <2>2 DEF w
<1>4. Inv!Stored(row, w) = Inv!Image(row, w)
  BY <1>3 DEF Inv!Stored
<1>5. /\ Inv!Image(row, w).status = Inv!CaseStatus(w.at)
      /\ Inv!Image(row, w).steps = [k \in Inv!Steps |-> Inv!StepStatus(row.steps[k], k, w.at)]
      /\ Inv!Image(row, w).output = IF w.at >= 7 THEN w.found ELSE row.output
      /\ Inv!Image(row, w).result = IF w.at >= 8 /\ w.found # w.loaded THEN w.found ELSE row.result
  BY <1>2 DEF Inv!Image
<1>6. w.at >= 8
  BY <1>4, <1>5 DEF Inv!CaseStatus, w
<1>7. \A k \in Inv!Steps : Inv!StepStatus(row.steps[k], k, w.at) = "completed"
  BY <1>1, <1>6 DEF Inv!StepStatus, Inv!Steps
<1>8. w.found # Inv!None
  <2>1. w.found \in Inv!Findings
    BY <1>1, <1>6
  <2>. QED BY <2>1 DEF Inv!Findings, Inv!None
<1>9. /\ \A k \in Inv!Steps : Inv!Stored(row, w).steps[k] = "completed"
      /\ w.loaded = row.result => Inv!Stored(row, w).result = w.found
      /\ Inv!Stored(row, w).output = w.found
  BY <1>1, <1>4, <1>5, <1>6, <1>7
<1>. QED BY <1>6, <1>8, <1>9 DEF w

\* Steps of the sessions write their own record.
LEMMA SessionStepsKeep ==
  ASSUME ExecutionsFound, NEW s \in Sessions,
         \/ \E c \in Cases : Inv!Launch(s, c) \/ Inv!WorkerStarts(s, c)
         \/ Inv!Advance(s) \/ Inv!Raises(s) \/ Inv!Aborts(s)
  PROVE  ExecutionsFound' /\ cases' = cases /\ briefs' = briefs
<1>. DEFINE Sound(w) == /\ w \in ExecutionRow
                        /\ w.owner # Inv!None => w.case \in Cases
                        /\ w.at >= 2 => w.found \in Inv!Findings
                        /\ w.owner = "request" => w.loaded = Inv!None
<1>1. /\ Inv!Idle \in ExecutionRow /\ Inv!Idle.owner = Inv!None /\ Inv!Idle.at = 0
      /\ Inv!Idle.loaded = Inv!None
  BY DEF Inv!Idle, Inv!Last, Inv!None, ExecutionRow
<1>2. Sound(session[s])
  BY DEF ExecutionsFound
<1>3. ASSUME NEW w, Sound(w), session' = [session EXCEPT ![s] = w], cases' = cases, briefs' = briefs
      PROVE  ExecutionsFound'
  BY <1>3 DEF ExecutionsFound
<1>4. ASSUME NEW c \in Cases, Inv!Launch(s, c) \/ Inv!WorkerStarts(s, c)
      PROVE  ExecutionsFound' /\ cases' = cases /\ briefs' = briefs
  <2>1. CASE Inv!Launch(s, c)
    <3>. DEFINE w == [Inv!Idle EXCEPT !.owner = "request", !.case = c]
    <3>1. w \in ExecutionRow
      BY <1>1 DEF ExecutionRow
    <3>2. w.case = c /\ w.at = 0 /\ w.loaded = Inv!None
      BY <1>1 DEF ExecutionRow
    <3>3. Sound(w)
      BY <3>1, <3>2
    <3>4. session' = [session EXCEPT ![s] = w] /\ cases' = cases /\ briefs' = briefs
      BY <2>1 DEF Inv!Launch
    <3>. HIDE DEF Sound, w
    <3>. QED BY <1>3, <3>3, <3>4
  <2>2. CASE Inv!WorkerStarts(s, c)
    <3>. DEFINE w == [Inv!Idle EXCEPT !.owner = "worker", !.case = c, !.loaded = cases[c].result]
    <3>1. cases[c].result \in Inv!Findings \cup {Inv!None, "failure"}
      BY DEF ExecutionsFound, Inv!CaseType
    <3>2. w \in ExecutionRow
      BY <1>1, <3>1 DEF ExecutionRow
    <3>3. w.case = c /\ w.at = 0 /\ w.owner = "worker"
      BY <1>1 DEF ExecutionRow
    <3>4. Sound(w)
      BY <3>2, <3>3
    <3>5. session' = [session EXCEPT ![s] = w] /\ cases' = cases /\ briefs' = briefs
      BY <2>2 DEF Inv!WorkerStarts
    <3>. HIDE DEF Sound, w
    <3>. QED BY <1>3, <3>4, <3>5
  <2>. QED BY <1>4, <2>1, <2>2
<1>5. ASSUME Inv!Advance(s) PROVE ExecutionsFound' /\ cases' = cases /\ briefs' = briefs
  <2>1. PICK found \in IF session[s].at = 1 THEN Inv!Findings ELSE {session[s].found} :
          session' = [session EXCEPT ![s].at = session[s].at + 1, ![s].found = found]
    BY <1>5 DEF Inv!Advance
  <2>2. session[s].at < Inv!Last /\ cases' = cases /\ briefs' = briefs
    BY <1>5 DEF Inv!Advance
  <2>. DEFINE w == [session[s] EXCEPT !.at = session[s].at + 1, !.found = found]
  <2>3. session' = [session EXCEPT ![s] = w]
    BY <2>1, <1>2 DEF ExecutionsFound, ExecutionRow
  <2>4. /\ found \in Inv!Findings \cup {Inv!None}
        /\ session[s].at + 1 >= 2 => found \in Inv!Findings
        /\ session[s].at + 1 \in 0..Inv!Last
    <3>1. session[s].at \in 0..Inv!Last /\ session[s].found \in Inv!Findings \cup {Inv!None}
      BY <1>2 DEF ExecutionRow
    <3>2. session[s].at = 1 => found \in Inv!Findings
      BY <2>1
    <3>3. session[s].at # 1 => found = session[s].found
      BY <2>1
    <3>. QED BY <1>2, <2>2, <3>1, <3>2, <3>3 DEF Inv!Last
  <2>5. Sound(w)
    BY <1>2, <2>4 DEF ExecutionRow
  <2>. HIDE DEF Sound, w
  <2>. QED BY <1>3, <2>2, <2>3, <2>5
<1>6. ASSUME Inv!Raises(s) PROVE ExecutionsFound' /\ cases' = cases /\ briefs' = briefs
  <2>1. session' = [session EXCEPT ![s] = [session[s] EXCEPT !.raised = TRUE]]
    BY <1>6 DEF Inv!Raises, ExecutionsFound
  <2>2. Sound([session[s] EXCEPT !.raised = TRUE])
    BY <1>2 DEF ExecutionRow
  <2>. HIDE DEF Sound
  <2>. QED BY <1>3, <1>6, <2>1, <2>2 DEF Inv!Raises
<1>7. ASSUME Inv!Aborts(s) PROVE ExecutionsFound' /\ cases' = cases /\ briefs' = briefs
  <2>1. Sound(Inv!Idle)
    BY <1>1 DEF Inv!None
  <2>. HIDE DEF Sound
  <2>. QED BY <1>3, <1>7, <2>1 DEF Inv!Aborts
<1>. QED BY <1>4, <1>5, <1>6, <1>7

\* A commit stores a row for its case, over one that has the result it loaded if the
\* committed row has, and the brief that goes with it.
LEMMA CommitStores ==
  ASSUME ExecutionsFound, NEW s \in Sessions, Inv!RequestCommits(s) \/ Inv!WorkerCommits(s)
  PROVE  /\ session[s].case \in Cases
         /\ \E row \in Inv!CaseType :
              /\ cases' = [cases EXCEPT ![session[s].case] = Inv!Stored(row, session[s])]
              /\ session[s].loaded = cases[session[s].case].result => session[s].loaded = row.result
         /\ briefs' = [briefs EXCEPT ![session[s].case] = Inv!Briefs(session[s].case, session[s])]
         /\ session' = [session EXCEPT ![s] = Inv!Idle]
<1>1. session[s].case \in Cases
  BY DEF ExecutionsFound, Inv!RequestCommits, Inv!WorkerCommits, Inv!None
<1>2. /\ [Inv!Unused EXCEPT !.state = "live"] \in Inv!CaseType
      /\ [Inv!Unused EXCEPT !.state = "live"].result = Inv!None
  BY DEF Inv!Unused, Inv!CaseType, Inv!Statuses
<1>3. cases[session[s].case] \in Inv!CaseType
  BY <1>1 DEF ExecutionsFound
<1>4. session[s].owner = "request" => session[s].loaded = Inv!None
  BY DEF ExecutionsFound
<1>5. CASE Inv!RequestCommits(s)
  BY <1>1, <1>2, <1>4, <1>5 DEF Inv!RequestCommits
<1>6. CASE Inv!WorkerCommits(s)
  BY <1>1, <1>3, <1>6 DEF Inv!WorkerCommits
<1>. QED BY <1>5, <1>6

LEMMA InvestigationCommitKeeps ==
  ASSUME ExecutionsFound, NEW s \in Sessions, Inv!RequestCommits(s) \/ Inv!WorkerCommits(s)
  PROVE  ExecutionsFound'
<1>1. PICK row \in Inv!CaseType :
        cases' = [cases EXCEPT ![session[s].case] = Inv!Stored(row, session[s])]
  BY CommitStores
<1>2. Inv!Stored(row, session[s]) \in Inv!CaseType
  BY StoredIsCase
<1>3. Inv!Idle \in ExecutionRow /\ Inv!Idle.owner = Inv!None /\ Inv!Idle.at = 0
  BY DEF Inv!Idle, Inv!Last, Inv!None, ExecutionRow
<1>4. cases' \in [Cases -> Inv!CaseType] /\ DOMAIN briefs' = Cases
  BY <1>1, <1>2, CommitStores DEF ExecutionsFound
<1>. QED BY <1>3, <1>4, CommitStores DEF ExecutionsFound, Inv!None

LEMMA EditsKeepExecutions ==
  ASSUME ExecutionsFound, NEW c \in Cases, Inv!Patch(c) \/ Inv!Delete(c) \/ Inv!DeleteBrief(c)
  PROVE  ExecutionsFound' /\ session' = session
<1>1. Inv!Deleted \in Inv!CaseType
  BY DEF Inv!Deleted, Inv!Unused, Inv!CaseType, Inv!Statuses
<1>2. ASSUME NEW row \in Inv!CaseType
      PROVE  /\ \A status \in Inv!Statuses : [row EXCEPT !.status = status] \in Inv!CaseType
             /\ \A linked \in BOOLEAN : [row EXCEPT !.linked = linked] \in Inv!CaseType
  BY DEF Inv!CaseType
<1>3. cases[c] \in Inv!CaseType /\ cases[c].linked \in BOOLEAN
  BY DEF ExecutionsFound, Inv!CaseType
<1>4. \E row \in Inv!CaseType : cases' = [cases EXCEPT ![c] = row]
  BY <1>1, <1>2, <1>3 DEF Inv!Patch, Inv!Delete, Inv!DeleteBrief, ExecutionsFound
<1>5. session' = session /\ DOMAIN briefs' = Cases
  BY DEF Inv!Patch, Inv!Delete, Inv!DeleteBrief, ExecutionsFound
<1>. QED BY <1>4, <1>5 DEF ExecutionsFound

LEMMA NextExecutionsFound == ExecutionsFound /\ [Inv!Next]_Inv!vars => ExecutionsFound'
<1>1. ExecutionsFound /\ UNCHANGED Inv!vars => ExecutionsFound'
  BY DEF Inv!vars, ExecutionsFound
<1>. QED BY <1>1, SessionStepsKeep, InvestigationCommitKeeps, EditsKeepExecutions DEF Inv!Next

\* execute_investigation, cut off wherever a request's commit finds it, stores a completed
\* investigation only with all steps completed, one brief, and the result of its last step
\* unless another execution has committed a result since this one loaded the row.
THEOREM InvestigationsAreWhole == DeskSpec => CompletedIsWhole
<1>. DEFINE Whole(c, s) ==
       cases'[c].status = "completed" /\ cases[c].status # "completed" /\ session'[s] # session[s] =>
         /\ session[s].case = c /\ \A k \in Inv!Steps : cases'[c].steps[k] = "completed"
         /\ session[s].loaded = cases[c].result =>
              cases'[c].result # Inv!None /\ cases'[c].result = cases'[c].output
         /\ briefs'[c] = briefs[c] + 1
<1>1. ASSUME ExecutionsFound, Inv!Next, NEW c \in Cases, NEW s \in Sessions PROVE Whole(c, s)
  <2>1. ASSUME NEW z \in Sessions, Inv!RequestCommits(z) \/ Inv!WorkerCommits(z) PROVE Whole(c, s)
    <3>. DEFINE d == session[z].case
    <3>1. PICK row \in Inv!CaseType :
            /\ cases' = [cases EXCEPT ![d] = Inv!Stored(row, session[z])]
            /\ session[z].loaded = cases[d].result => session[z].loaded = row.result
      BY <1>1, <2>1, CommitStores
    <3>2. /\ d \in Cases
          /\ briefs' = [briefs EXCEPT ![d] = Inv!Briefs(d, session[z])]
          /\ session' = [session EXCEPT ![z] = Inv!Idle]
      BY <1>1, <2>1, CommitStores
    <3>3. CASE c # d
      BY <1>1, <3>1, <3>2, <3>3 DEF ExecutionsFound
    <3>4. CASE s # z
      BY <1>1, <3>2, <3>4 DEF ExecutionsFound
    <3>5. CASE c = d /\ s = z
      <4>1. cases'[c] = Inv!Stored(row, session[s]) /\ briefs'[c] = Inv!Briefs(c, session[s])
        BY <1>1, <3>1, <3>2, <3>5 DEF ExecutionsFound
      <4>. SUFFICES ASSUME cases'[c].status = "completed"
                    PROVE  /\ \A k \in Inv!Steps : cases'[c].steps[k] = "completed"
                           /\ session[s].loaded = cases[c].result =>
                                cases'[c].result # Inv!None /\ cases'[c].result = cases'[c].output
                           /\ briefs'[c] = briefs[c] + 1
        BY <3>5
      <4>2. session[s].at >= 8 /\ session[s].found # Inv!None
        BY <1>1, <4>1, CompletedImage
      <4>3. briefs'[c] = briefs[c] + 1
        BY <4>1, <4>2 DEF Inv!Briefs
      <4>4. session[s].loaded = cases[c].result => session[s].loaded = row.result
        BY <3>1, <3>5
      <4>. QED BY <1>1, <4>1, <4>2, <4>3, <4>4, CompletedImage
    <3>. QED BY <3>3, <3>4, <3>5
  <2>. QED BY <1>1, <2>1, SessionStepsKeep, EditsKeepExecutions DEF Inv!Next
<1>2. ASSUME ExecutionsFound, [Inv!Next]_Inv!vars
      PROVE  [\A c \in Cases, s \in Sessions : Whole(c, s)]_Inv!vars
  BY <1>1, <1>2
<1>. DEFINE Held == component = "investigations" => ExecutionsFound
<1>3. DeskInit => Held
  BY InitExecutionsFound DEF DeskInit
<1>4. Held /\ [DeskNext]_deskVars => Held' /\ [\A c \in Cases, s \in Sessions : Whole(c, s)]_Inv!vars
  BY <1>2, OneMoves, NextExecutionsFound
<1>. QED BY <1>3, <1>4, PTL DEF DeskSpec, CompletedIsWhole, Inv!CompletedIsWhole

-----------------------------------------------------------------------------
(* Forecasts.                                                              *)

\* What a report has read of a forecast is the row, unless the forecast has moved.
ReadExactly(f) ==
  /\ f \in DOMAIN calibration.resolved <=> f \in Fc!Live /\ forecasts[f].status = "resolved"
  /\ f \in DOMAIN calibration.resolved =>
       calibration.resolved[f] = [outcome |-> forecasts[f].outcome,
                             probability |-> forecasts[f].probability]

ForecastInv ==
  /\ DOMAIN forecasts = ForecastIds
  /\ \A f \in ForecastIds :
       /\ DOMAIN forecasts[f] = {"state", "probability", "status", "outcome", "brier"}
       /\ forecasts[f].probability \in Int
  /\ DOMAIN calibration = {"stage", "resolved", "open", "moved"}
  /\ calibration.stage \in {"none", "half", "whole"}
  /\ calibration.stage # "none" => \A f \in ForecastIds \ calibration.moved : ReadExactly(f)
  /\ calibration.stage = "whole" =>
       \A f \in ForecastIds : f \in calibration.open <=> f \in Fc!Live /\ forecasts[f].status = "open"

LEMMA InitForecastInv == Fc!Init => ForecastInv
BY DEF Fc!Init, Fc!Unused, Fc!NoReport, ForecastInv

\* A row that changes is noted by a report that has read the rows that are resolved.
LEMMA MovesKeep ==
  ASSUME ForecastInv, NEW f \in ForecastIds, NEW row,
         DOMAIN row = {"state", "probability", "status", "outcome", "brier"},
         row.probability \in Int, calibration.stage # "whole",
         forecasts' = [forecasts EXCEPT ![f] = row], Fc!Moves(f)
  PROVE  ForecastInv'
<1>1. \A x \in ForecastIds : forecasts'[x] = IF x = f THEN row ELSE forecasts[x]
  BY DEF ForecastInv
<1>2. \A x \in ForecastIds : x # f => (x \in Fc!Live' <=> x \in Fc!Live)
  BY <1>1 DEF Fc!Live
<1>3. /\ DOMAIN calibration' = {"stage", "resolved", "open", "moved"}
      /\ calibration'.stage = calibration.stage /\ calibration'.resolved = calibration.resolved
      /\ calibration.stage = "half" => calibration'.moved = calibration.moved \cup {f}
  BY DEF Fc!Moves, ForecastInv
<1>4. ASSUME calibration'.stage # "none", NEW x \in ForecastIds \ calibration'.moved PROVE ReadExactly(x)'
  <2>1. x # f /\ x \notin calibration.moved /\ calibration.stage = "half"
    BY <1>3, <1>4 DEF ForecastInv
  <2>2. ReadExactly(x)
    BY <2>1 DEF ForecastInv
  <2>. QED BY <1>1, <1>2, <1>3, <2>1, <2>2 DEF ReadExactly
<1>5. /\ DOMAIN forecasts' = ForecastIds
      /\ \A x \in ForecastIds :
           /\ DOMAIN forecasts'[x] = {"state", "probability", "status", "outcome", "brier"}
           /\ forecasts'[x].probability \in Int
  BY <1>1 DEF ForecastInv
<1>. QED BY <1>3, <1>4, <1>5 DEF ForecastInv

LEMMA EditsAreNoted ==
  ASSUME ForecastInv, Issued \cup Edited \subseteq Int, NEW f \in ForecastIds,
         Fc!Issue(f) \/ Fc!Patch(f) \/ Fc!Delete(f)
  PROVE  ForecastInv'
<1>. DEFINE Sound(row) ==
       /\ DOMAIN row = {"state", "probability", "status", "outcome", "brier"}
       /\ row.probability \in Int
<1>1. Sound(forecasts[f]) /\ Sound(Fc!Deleted) /\ Sound(Fc!Unused)
  BY DEF ForecastInv, Fc!Deleted, Fc!Unused
<1>2. ASSUME NEW row, Sound(row)
      PROVE  /\ \A p \in Int : /\ Sound([row EXCEPT !.probability = p])
                               /\ Sound([row EXCEPT !.state = "live", !.probability = p])
             /\ \A status : Sound([row EXCEPT !.status = status])
  BY <1>2
<1>. HIDE DEF Sound
<1>3. \E row : Sound(row) /\ forecasts' = [forecasts EXCEPT ![f] = row]
  <2>1. CASE Fc!Issue(f)
    BY <1>1, <1>2, <2>1 DEF Fc!Issue
  <2>2. CASE Fc!Patch(f)
    <3>1. \/ \E p \in Edited : forecasts' = [forecasts EXCEPT ![f] =
                                              [forecasts[f] EXCEPT !.probability = p]]
          \/ \E status : forecasts' = [forecasts EXCEPT ![f] =
                                        [forecasts[f] EXCEPT !.status = status]]
      BY <2>2 DEF Fc!Patch, ForecastInv
    <3>. QED BY <1>1, <1>2, <3>1
  <2>3. CASE Fc!Delete(f)
    BY <1>1, <2>3 DEF Fc!Delete
  <2>. QED BY <2>1, <2>2, <2>3
<1>4. PICK row : Sound(row) /\ forecasts' = [forecasts EXCEPT ![f] = row]
  BY <1>3
<1>5. calibration.stage # "whole" /\ Fc!Moves(f)
  BY DEF Fc!Issue, Fc!Patch, Fc!Delete
<1>. QED BY <1>4, <1>5, MovesKeep DEF Sound

\* A resolution leaves the probability alone.
LEMMA ResolveIsNoted ==
  ASSUME ForecastInv, NEW q \in Requests, Fc!Resolve(q),
         forecastResolution[q].forecast \in ForecastIds
  PROVE  ForecastInv'
<1>. DEFINE f == forecastResolution[q].forecast
            Resolved(old) == [c \in DOMAIN Fc!Unused |->
              IF c \in DOMAIN Fc!Keep /\ forecastResolution[q].writes[c] # Fc!Keep[c]
              THEN forecastResolution[q].writes[c] ELSE old[c]]
<1>1. forecasts' = [forecasts EXCEPT ![f] = Resolved(forecasts[f])]
  BY DEF Fc!Resolve, ForecastInv
<1>2. DOMAIN Fc!Unused = {"state", "probability", "status", "outcome", "brier"}
  BY DEF Fc!Unused
<1>3. "probability" \notin DOMAIN Fc!Keep
  BY DEF Fc!Keep
<1>4. /\ DOMAIN Resolved(forecasts[f]) = {"state", "probability", "status", "outcome", "brier"}
      /\ Resolved(forecasts[f]).probability = forecasts[f].probability
  BY <1>2, <1>3
<1>5. calibration.stage # "whole" /\ Fc!Moves(f) /\ forecasts[f].probability \in Int
  BY DEF Fc!Resolve, ForecastInv
<1>. HIDE DEF Resolved
<1>. QED BY <1>1, <1>4, <1>5, MovesKeep

ResolutionsNamed ==
  /\ DOMAIN forecastResolution = Requests
  /\ \A q \in Requests : forecastResolution[q].forecast \in ForecastIds \cup {Fc!None}

LEMMA InitResolutionsNamed == Fc!Init => ResolutionsNamed
BY DEF Fc!Init, Fc!Quiet, ResolutionsNamed

LEMMA NextResolutionsNamed == ResolutionsNamed /\ [Fc!Next]_Fc!vars => ResolutionsNamed'
<1>. SUFFICES ASSUME ResolutionsNamed, [Fc!Next]_Fc!vars PROVE ResolutionsNamed'
  OBVIOUS
<1>1. ASSUME NEW q \in Requests, NEW w, w.forecast \in ForecastIds \cup {Fc!None},
             forecastResolution' = [forecastResolution EXCEPT ![q] = w]
      PROVE  ResolutionsNamed'
  BY <1>1 DEF ResolutionsNamed
<1>2. Fc!Quiet.forecast = Fc!None
  BY DEF Fc!Quiet
<1>3. ASSUME NEW q \in Requests, NEW f \in ForecastIds, Fc!AskResolve(q, f)
      PROVE  ResolutionsNamed'
  <2>1. PICK outcome : forecastResolution' = [forecastResolution EXCEPT
          ![q] = [forecast |-> f, writes |-> Fc!Writes(forecasts[f], outcome)]]
    BY <1>3 DEF Fc!AskResolve
  <2>. QED BY <1>1, <2>1
<1>4. ASSUME NEW q \in Requests, Fc!Resolve(q) \/ Fc!Fail(q) PROVE ResolutionsNamed'
  <2>1. forecastResolution' = [forecastResolution EXCEPT ![q] = Fc!Quiet]
    BY <1>4 DEF Fc!Resolve, Fc!Fail
  <2>. QED BY <1>1, <1>2, <2>1
<1>5. ASSUME UNCHANGED forecastResolution PROVE ResolutionsNamed'
  BY <1>5 DEF ResolutionsNamed
<1>. QED BY <1>3, <1>4, <1>5 DEF Fc!Next, Fc!vars, Fc!Issue, Fc!Patch, Fc!Delete,
                                 Fc!ReadResolved, Fc!ReadOpen, Fc!Answer

\* Nothing else moves a row, and each query reads the rows of one moment.
LEMMA ReportingKeeps ==
  ASSUME ForecastInv, UNCHANGED forecasts,
         Fc!ReadResolved \/ Fc!ReadOpen \/ Fc!Answer \/ UNCHANGED calibration
  PROVE  ForecastInv'
<1>1. Fc!Live' = Fc!Live
  BY DEF Fc!Live
<1>2. CASE Fc!ReadResolved
  <2>. DEFINE r == [f \in {x \in Fc!Live : forecasts[x].status = "resolved"} |->
                      [outcome |-> forecasts[f].outcome, probability |-> forecasts[f].probability]]
  <2>1. /\ DOMAIN calibration' = {"stage", "resolved", "open", "moved"}
        /\ calibration'.stage = "half" /\ calibration'.resolved = r
    BY <1>2 DEF Fc!ReadResolved, Fc!NoReport
  <2>2. \A f \in ForecastIds : ReadExactly(f)'
    BY <1>1, <2>1 DEF ReadExactly
  <2>. QED BY <2>1, <2>2 DEF ForecastInv
<1>3. CASE Fc!ReadOpen
  <2>1. /\ calibration.stage = "half"
        /\ calibration' = [calibration EXCEPT !.stage = "whole",
                        !.open = {f \in Fc!Live : forecasts[f].status = "open"}]
    BY <1>3 DEF Fc!ReadOpen
  <2>2. /\ DOMAIN calibration' = {"stage", "resolved", "open", "moved"}
        /\ calibration'.stage = "whole" /\ calibration'.resolved = calibration.resolved
        /\ calibration'.moved = calibration.moved
        /\ calibration'.open = {f \in Fc!Live : forecasts[f].status = "open"}
    BY <2>1 DEF ForecastInv
  <2>3. \A f \in ForecastIds \ calibration.moved : ReadExactly(f)'
    BY <1>1, <2>1, <2>2 DEF ForecastInv, ReadExactly
  <2>. QED BY <1>1, <2>2, <2>3 DEF ForecastInv
<1>4. CASE Fc!Answer
  BY <1>4 DEF Fc!Answer, Fc!NoReport, ForecastInv
<1>5. CASE UNCHANGED calibration
  BY <1>1, <1>5 DEF ForecastInv, ReadExactly
<1>. QED BY <1>2, <1>3, <1>4, <1>5

LEMMA NextForecastInv ==
  ASSUME Issued \cup Edited \subseteq Int, ForecastInv, ResolutionsNamed, [Fc!Next]_Fc!vars
  PROVE  ForecastInv'
<1>1. ASSUME NEW q \in Requests, Fc!Resolve(q) PROVE ForecastInv'
  <2>1. forecastResolution[q].forecast \in ForecastIds
    BY <1>1 DEF Fc!Resolve, ResolutionsNamed
  <2>. QED BY <1>1, <2>1, ResolveIsNoted
<1>2. ASSUME UNCHANGED <<forecasts, calibration>> PROVE ForecastInv'
  BY <1>2, ReportingKeeps
<1>3. CASE Fc!ReadResolved \/ Fc!ReadOpen \/ Fc!Answer
  BY <1>3, ReportingKeeps DEF Fc!ReadResolved, Fc!ReadOpen, Fc!Answer
<1>. QED BY <1>1, <1>2, <1>3, EditsAreNoted DEF Fc!Next, Fc!AskResolve, Fc!Fail, Fc!vars

\* A probability is put into the bucket whose bounds it lies in.
LEMMA BucketFits ==
  ASSUME BucketCount \in Nat \ {0}, NEW p \in Int, NEW b \in 0..BucketCount - 1
  PROVE  Fc!BucketIndex(p) = b <=> Fc!Falls(p, b)
<1>. DEFINE x == p * BucketCount
<1>1. x \in Int /\ (p < 0 => x < 0) /\ (p >= 0 => x >= 0)
  OBVIOUS
<1>2. /\ Fc!BucketIndex(p) = LET index == IF p < 0 THEN 0 ELSE x \div 100
                             IN IF index >= BucketCount THEN BucketCount - 1 ELSE index
      /\ Fc!Falls(p, b) <=> /\ b = 0 \/ 100 * b <= x
                            /\ b = BucketCount - 1 \/ x < 100 * (b + 1)
  BY DEF Fc!BucketIndex, Fc!Falls
<1>. HIDE DEF x
<1>3. CASE p < 0
  BY <1>1, <1>2, <1>3
<1>4. CASE p >= 0
  <2>1. PICK i \in Nat : i = x \div 100 /\ 100 * i <= x /\ x < 100 * (i + 1)
    BY <1>1, <1>4
  <2>. QED BY <1>1, <1>2, <1>4, <2>1
<1>. QED BY <1>3, <1>4

\* calibration_report counts every forecast that no request changed while it read, once,
\* and in the bucket it falls in, for any forecasts, whole-number probabilities (those that
\* edits have set outside 0 and 100 included) and at least one bucket.
THEOREM CalibrationCountsOnce == DeskSpec => []CalibrationIsExact
<1>1. ASSUME ForecastInv PROVE Fc!CalibrationIsExact
  <2>. SUFFICES ASSUME calibration.stage = "whole", NEW f \in Fc!Live \ calibration.moved
       PROVE  /\ f \in DOMAIN calibration.resolved <=> forecasts[f].status = "resolved"
              /\ f \in calibration.open <=> forecasts[f].status = "open"
              /\ (forecasts[f].status = "resolved" /\ forecasts[f].outcome \in {"yes", "no"}) =>
                   \A b \in 0..BucketCount - 1 :
                     f \in Fc!Buckets[b] <=> Fc!Falls(forecasts[f].probability, b)
    BY DEF Fc!CalibrationIsExact
  <2>1. f \in ForecastIds /\ ReadExactly(f) /\ forecasts[f].probability \in Int
    BY <1>1 DEF ForecastInv, Fc!Live
  <2>2. f \in calibration.open <=> forecasts[f].status = "open"
    BY <1>1, <2>1 DEF ForecastInv
  <2>3. ASSUME forecasts[f].status = "resolved", forecasts[f].outcome \in {"yes", "no"},
               NEW b \in 0..BucketCount - 1
        PROVE  f \in Fc!Buckets[b] <=> Fc!Falls(forecasts[f].probability, b)
    <3>1. f \in Fc!Scorable /\ calibration.resolved[f].probability = forecasts[f].probability
      BY <2>1, <2>3 DEF ReadExactly, Fc!Scorable
    <3>2. f \in Fc!Buckets[b] <=> Fc!BucketIndex(forecasts[f].probability) = b
      BY <3>1 DEF Fc!Buckets
    <3>. QED BY <2>1, <3>2, BucketFits, DeskAssumption
  <2>. QED BY <2>1, <2>2, <2>3 DEF ReadExactly
<1>. DEFINE Held == component = "forecasts" => ForecastInv /\ ResolutionsNamed
<1>2. DeskInit => Held
  BY InitForecastInv, InitResolutionsNamed DEF DeskInit
<1>3. Held /\ [DeskNext]_deskVars => Held'
  BY OneMoves, NextForecastInv, NextResolutionsNamed, DeskAssumption
<1>4. Held => CalibrationIsExact
  BY <1>1 DEF CalibrationIsExact
<1>. QED BY <1>2, <1>3, <1>4, PTL DEF DeskSpec

-----------------------------------------------------------------------------
(* Crawl.                                                                  *)

CrawlState == [stage: {"none", "hub", "links", "page", "done"}, discovered: SUBSET Siblings,
               todo: SUBSET Siblings, articles: SUBSET Siblings, page: {Hub} \cup Siblings]

CrawlTyped ==
  /\ crawl \in CrawlState
  /\ fetch \in [url: Cr!URLs, left: Nat]
  /\ tried \in [Siblings -> Nat] /\ requests \in Nat

\* The links that were tried.
Scraped == crawl.discovered \ crawl.todo

\* Requests made and requests that the fetch under way may still make.
Budget == requests + fetch.left <= (MaxRedirects + 1) * (1 + Cardinality(Scraped))

CrawlInv ==
  /\ CrawlTyped
  /\ crawl.todo \subseteq crawl.discovered
  /\ crawl.stage \in {"none", "hub"} => crawl.discovered = {}
  /\ crawl.stage = "none" => requests = 0
  /\ crawl.stage = "done" => crawl.todo = {}
  /\ crawl.stage = "page" => crawl.page \in Scraped
  /\ crawl.stage \notin {"hub", "page"} => fetch.left = 0
  /\ Budget
  /\ \A p \in Siblings : tried[p] = IF p \in Scraped THEN 1 ELSE 0

LEMMA CrawlCardinality ==
  ASSUME NEW S PROVE Cr!Cardinality(S) = Cardinality(S)
BY DEF Cr!Cardinality, Cardinality

\* The allowance with no link tried, and with one more.
LEMMA Allowance ==
  ASSUME MaxRedirects \in Nat, NEW n \in Nat
  PROVE  /\ (MaxRedirects + 1) * (1 + 0) = MaxRedirects + 1
         /\ (MaxRedirects + 1) * (1 + (n + 1)) =
              (MaxRedirects + 1) * (1 + n) + (MaxRedirects + 1)
         /\ (MaxRedirects + 1) * (1 + n) \in Nat
OBVIOUS

LEMMA InitCrawlInv == MaxRedirects \in Nat /\ Cr!Init => CrawlInv
<1>. SUFFICES ASSUME MaxRedirects \in Nat, Cr!Init PROVE CrawlInv
  OBVIOUS
<1>1. CrawlTyped /\ crawl.stage = "none" /\ crawl.discovered = {} /\ crawl.todo = {}
      /\ fetch.left = 0 /\ requests = 0 /\ tried = [p \in Siblings |-> 0]
  BY DEF Cr!Init, Cr!NoCrawl, Cr!Quiet, Cr!URLs, CrawlTyped, CrawlState
<1>2. Scraped = {} /\ Cardinality(Scraped) = 0
  BY <1>1, FS_EmptySet DEF Scraped
<1>. QED BY <1>1, <1>2, Allowance DEF CrawlInv, Budget

\* What neither leaves the links nor adds to what was requested or may be.
LEMMA WithinBudget ==
  ASSUME CrawlInv, MaxRedirects \in Nat, IsFiniteSet(Siblings),
         Scraped' = Scraped, fetch'.left \in Nat, requests' \in Nat,
         requests' + fetch'.left <= requests + fetch.left
  PROVE  Budget'
<1>1. IsFiniteSet(Scraped) /\ Cardinality(Scraped) \in Nat
  BY FS_Subset, FS_CardinalityType DEF Scraped, CrawlInv, CrawlTyped, CrawlState
<1>2. requests \in Nat /\ fetch.left \in Nat
  BY DEF CrawlInv, CrawlTyped, CrawlState
<1>. DEFINE top == (MaxRedirects + 1) * (1 + Cardinality(Scraped))
<1>3. top \in Nat
  BY <1>1, Allowance
<1>4. requests + fetch.left <= top
  BY DEF CrawlInv, Budget
<1>5. requests' + fetch'.left <= top
  <2>. HIDE DEF top
  <2>. QED BY <1>2, <1>3, <1>4
<1>. QED BY <1>5 DEF Budget

LEMMA StartKeeps ==
  ASSUME CrawlInv, MaxRedirects \in Nat, Cr!Start PROVE CrawlInv'
<1>1. /\ crawl.stage = "none" /\ crawl' = [Cr!NoCrawl EXCEPT !.stage = "hub"]
      /\ fetch' = [url |-> Hub, left |-> MaxRedirects + 1]
      /\ UNCHANGED <<tried, requests>>
  BY DEF Cr!Start, Cr!FetchOf
<1>2. /\ crawl'.stage = "hub" /\ crawl'.discovered = {} /\ crawl'.todo = {}
      /\ crawl' \in CrawlState
  BY <1>1 DEF Cr!NoCrawl, CrawlState
<1>3. Scraped = {} /\ Scraped' = {} /\ Cardinality(Scraped') = 0
  BY <1>1, <1>2, FS_EmptySet DEF CrawlInv, Scraped
<1>4. requests' = 0 /\ fetch'.left = MaxRedirects + 1
  BY <1>1 DEF CrawlInv
<1>5. Budget'
  BY <1>3, <1>4, Allowance DEF Budget
<1>6. CrawlTyped'
  BY <1>1, <1>2 DEF CrawlInv, CrawlTyped, CrawlState, Cr!URLs
<1>. QED BY <1>1, <1>2, <1>3, <1>5, <1>6 DEF CrawlInv

LEMMA RedirectKeeps ==
  ASSUME CrawlInv, MaxRedirects \in Nat, IsFiniteSet(Siblings), Cr!Redirect PROVE CrawlInv'
<1>1. PICK url \in Cr!URLs : fetch' = [url |-> url, left |-> Cr!Hop(fetch.left)]
  BY DEF Cr!Redirect
<1>2. /\ UNCHANGED <<crawl, tried>> /\ requests' = requests + 1
      /\ crawl.stage \in {"hub", "page"} /\ fetch.left > 0
  BY DEF Cr!Redirect, Cr!Fetching, Cr!Allowed
<1>3. fetch'.left = fetch.left - 1 /\ fetch.left \in Nat /\ requests \in Nat
  BY <1>1 DEF Cr!Hop, CrawlInv, CrawlTyped, CrawlState
<1>4. Scraped' = Scraped
  BY <1>2 DEF Scraped
<1>5. Budget'
  BY <1>2, <1>3, <1>4, WithinBudget
<1>. QED BY <1>1, <1>2, <1>3, <1>4, <1>5 DEF CrawlInv, CrawlTyped, CrawlState

LEMMA GiveUpKeeps ==
  ASSUME CrawlInv, MaxRedirects \in Nat, IsFiniteSet(Siblings),
         NEW made \in 0..1, made <= fetch.left, Cr!Fetching, Cr!GiveUp(made)
  PROVE  CrawlInv'
<1>1. fetch' = [url |-> Hub, left |-> 0] /\ tried' = tried
  BY DEF Cr!GiveUp, Cr!Quiet
<1>2. requests \in Nat /\ fetch.left \in Nat
  BY DEF CrawlInv, CrawlTyped, CrawlState
<1>3. CASE crawl.stage = "hub"
  <2>1. crawl' = Cr!NoCrawl /\ requests' = 0
    BY <1>3 DEF Cr!GiveUp
  <2>2. /\ crawl'.stage = "none" /\ crawl'.discovered = {} /\ crawl'.todo = {}
        /\ crawl' \in CrawlState
    BY <2>1 DEF Cr!NoCrawl, CrawlState
  <2>3. Scraped' = Scraped
    BY <1>3, <2>2 DEF CrawlInv, Scraped
  <2>4. Budget'
    BY <1>1, <1>2, <2>1, <2>3, WithinBudget
  <2>. QED BY <1>1, <2>1, <2>2, <2>3, <2>4 DEF CrawlInv, CrawlTyped, CrawlState, Cr!URLs
<1>4. CASE crawl.stage # "hub"
  <2>1. /\ crawl' = [crawl EXCEPT !.stage = "links"] /\ requests' = requests + made
    BY <1>4 DEF Cr!GiveUp
  <2>2. /\ crawl'.stage = "links" /\ crawl'.discovered = crawl.discovered
        /\ crawl'.todo = crawl.todo
    BY <2>1 DEF CrawlInv, CrawlTyped, CrawlState
  <2>3. Scraped' = Scraped
    BY <2>2 DEF Scraped
  <2>4. Budget'
    BY <1>1, <1>2, <2>1, <2>3, WithinBudget
  <2>5. CrawlTyped'
    BY <1>1, <1>2, <2>1 DEF CrawlInv, CrawlTyped, CrawlState, Cr!URLs
  <2>. QED BY <1>1, <2>2, <2>3, <2>4, <2>5 DEF CrawlInv
<1>. QED BY <1>3, <1>4

LEMMA DiscoverKeeps ==
  ASSUME CrawlInv, MaxRedirects \in Nat, IsFiniteSet(Siblings), Cr!Discover PROVE CrawlInv'
<1>1. PICK found \in SUBSET Siblings :
        crawl' = [crawl EXCEPT !.stage = "links", !.discovered = found, !.todo = found]
  BY DEF Cr!Discover
<1>2. /\ crawl.stage = "hub" /\ fetch.left > 0 /\ requests' = requests + 1
      /\ fetch' = [url |-> Hub, left |-> 0] /\ tried' = tried
  BY DEF Cr!Discover, Cr!Allowed, Cr!Quiet
<1>3. requests \in Nat /\ fetch.left \in Nat
  BY DEF CrawlInv, CrawlTyped, CrawlState
<1>4. /\ crawl'.stage = "links" /\ crawl'.discovered = found /\ crawl'.todo = found
  BY <1>1 DEF CrawlInv, CrawlTyped, CrawlState
<1>5. Scraped' = Scraped
  BY <1>2, <1>4 DEF CrawlInv, Scraped
<1>6. Budget'
  BY <1>2, <1>3, <1>5, WithinBudget
<1>7. crawl' \in CrawlState
  BY <1>1 DEF CrawlInv, CrawlTyped, CrawlState
<1>8. CrawlTyped'
  BY <1>2, <1>3, <1>7 DEF CrawlInv, CrawlTyped, Cr!URLs
<1>. QED BY <1>2, <1>4, <1>5, <1>6, <1>8 DEF CrawlInv

\* A link that is taken up brings the requests of one fetch with it.
LEMMA ScrapeKeeps ==
  ASSUME CrawlInv, MaxRedirects \in Nat, IsFiniteSet(Siblings),
         NEW page \in Siblings, Cr!Scrape(page)
  PROVE  CrawlInv'
<1>1. /\ crawl.stage = "links" /\ page \in crawl.todo
      /\ crawl' = [crawl EXCEPT !.stage = "page", !.page = page, !.todo = crawl.todo \ {page}]
      /\ tried' = [tried EXCEPT ![page] = tried[page] + 1]
      /\ fetch' = [url |-> page, left |-> MaxRedirects + 1] /\ requests' = requests
  BY DEF Cr!Scrape, Cr!FetchOf, CrawlInv, CrawlTyped, CrawlState
<1>2. /\ crawl'.stage = "page" /\ crawl'.discovered = crawl.discovered
      /\ crawl'.todo = crawl.todo \ {page}
  BY <1>1 DEF CrawlInv, CrawlTyped, CrawlState
<1>3. Scraped' = Scraped \cup {page} /\ page \notin Scraped
  BY <1>1, <1>2 DEF CrawlInv, Scraped
<1>4. Cardinality(Scraped') = Cardinality(Scraped) + 1 /\ Cardinality(Scraped) \in Nat
  <2>1. IsFiniteSet(Scraped)
    BY FS_Subset DEF Scraped, CrawlInv, CrawlTyped, CrawlState
  <2>. QED BY <1>3, <2>1, FS_AddElement, FS_CardinalityType
<1>5. Budget'
  <2>. DEFINE top == (MaxRedirects + 1) * (1 + Cardinality(Scraped))
  <2>1. /\ (MaxRedirects + 1) * (1 + Cardinality(Scraped')) = top + (MaxRedirects + 1)
        /\ top \in Nat
    BY <1>4, Allowance
  <2>2. requests <= top /\ requests \in Nat
    BY <1>1 DEF CrawlInv, CrawlTyped, CrawlState, Budget
  <2>. HIDE DEF top
  <2>3. requests' + fetch'.left <= top + (MaxRedirects + 1)
    BY <1>1, <2>1, <2>2
  <2>. QED BY <2>1, <2>3 DEF Budget
<1>6. \A p \in Siblings : tried'[p] = IF p \in Scraped' THEN 1 ELSE 0
  BY <1>1, <1>3 DEF CrawlInv, CrawlTyped, CrawlState
<1>7. crawl' \in CrawlState /\ crawl'.page = page
  BY <1>1 DEF CrawlInv, CrawlTyped, CrawlState
<1>8. CrawlTyped'
  BY <1>1, <1>7 DEF CrawlInv, CrawlTyped, Cr!URLs
<1>. QED BY <1>2, <1>3, <1>5, <1>6, <1>7, <1>8 DEF CrawlInv

LEMMA ExtractKeeps ==
  ASSUME CrawlInv, MaxRedirects \in Nat, IsFiniteSet(Siblings), Cr!Extract PROVE CrawlInv'
<1>0. crawl.page \in Siblings
  BY DEF Cr!Extract, CrawlInv, CrawlTyped, CrawlState, Scraped
<1>1. PICK found \in {{}, {crawl.page}} :
        crawl' = [crawl EXCEPT !.stage = "links", !.articles = crawl.articles \cup found]
  BY DEF Cr!Extract, CrawlInv, CrawlTyped, CrawlState
<1>2. /\ crawl.stage = "page" /\ fetch.left > 0 /\ requests' = requests + 1
      /\ fetch' = [url |-> Hub, left |-> 0] /\ tried' = tried
  BY DEF Cr!Extract, Cr!Allowed, Cr!Quiet
<1>3. requests \in Nat /\ fetch.left \in Nat
  BY DEF CrawlInv, CrawlTyped, CrawlState
<1>4. /\ crawl'.stage = "links" /\ crawl'.discovered = crawl.discovered
      /\ crawl'.todo = crawl.todo
  BY <1>1 DEF CrawlInv, CrawlTyped, CrawlState
<1>5. Scraped' = Scraped
  BY <1>4 DEF Scraped
<1>6. Budget'
  BY <1>2, <1>3, <1>5, WithinBudget
<1>7. crawl' \in CrawlState
  BY <1>0, <1>1 DEF CrawlInv, CrawlTyped, CrawlState
<1>8. CrawlTyped'
  BY <1>2, <1>3, <1>7 DEF CrawlInv, CrawlTyped, Cr!URLs
<1>. QED BY <1>2, <1>4, <1>5, <1>6, <1>8 DEF CrawlInv

LEMMA FinishKeeps ==
  ASSUME CrawlInv, MaxRedirects \in Nat, IsFiniteSet(Siblings), Cr!Finish PROVE CrawlInv'
<1>1. /\ crawl.stage = "links" /\ crawl.todo = {}
      /\ crawl' = [crawl EXCEPT !.stage = "done"] /\ UNCHANGED <<fetch, tried, requests>>
  BY DEF Cr!Finish
<1>2. /\ crawl'.stage = "done" /\ crawl'.discovered = crawl.discovered
      /\ crawl'.todo = crawl.todo
  BY <1>1 DEF CrawlInv, CrawlTyped, CrawlState
<1>3. Scraped' = Scraped
  BY <1>2 DEF Scraped
<1>4. requests' \in Nat /\ fetch'.left \in Nat /\ requests + fetch.left \in Nat
  BY <1>1 DEF CrawlInv, CrawlTyped, CrawlState
<1>5. Budget'
  BY <1>1, <1>3, <1>4, WithinBudget
<1>6. CrawlTyped'
  BY <1>1 DEF CrawlInv, CrawlTyped, CrawlState
<1>. QED BY <1>1, <1>2, <1>3, <1>5, <1>6 DEF CrawlInv

LEMMA NextCrawlInv ==
  ASSUME CrawlInv, MaxRedirects \in Nat, IsFiniteSet(Siblings), [Cr!Next]_Cr!vars
  PROVE  CrawlInv'
<1>1. CASE Cr!Refuse \/ Cr!Stop
  <2>1. PICK made \in 0..1 : made <= fetch.left /\ Cr!Fetching /\ Cr!GiveUp(made)
    <3>1. fetch.left \in Nat
      BY DEF CrawlInv, CrawlTyped
    <3>. QED BY <1>1, <3>1 DEF Cr!Refuse, Cr!Stop, Cr!Allowed
  <2>. QED BY <2>1, GiveUpKeeps
<1>2. CASE UNCHANGED Cr!vars
  BY <1>2 DEF Cr!vars, CrawlInv, CrawlTyped, Budget, Scraped
<1>. QED BY <1>1, <1>2, StartKeeps, RedirectKeeps, DiscoverKeeps, ScrapeKeeps, ExtractKeeps,
            FinishKeeps DEF Cr!Next

\* Fetching and crawling, for any number of redirects and links: a crawl never makes more
\* requests than one fetch with its redirects for the hub and for each link it has taken
\* up, and when it ends each link it discovered was tried once.
THEOREM CrawlsEnd == DeskSpec => []CrawlIsBounded
<1>1. ASSUME CrawlInv PROVE Cr!CrawlIsBounded
  <2>1. requests <= (MaxRedirects + 1) * (1 + Cardinality(Scraped))
    <3>. DEFINE top == (MaxRedirects + 1) * (1 + Cardinality(Scraped))
    <3>1. Cardinality(Scraped) \in Nat
      BY <1>1, FS_Subset, FS_CardinalityType, DeskAssumption DEF Scraped, CrawlInv, CrawlTyped, CrawlState
    <3>2. top \in Nat /\ requests + fetch.left <= top
      BY <1>1, <3>1, Allowance, DeskAssumption DEF CrawlInv, Budget
    <3>. HIDE DEF top
    <3>3. requests <= top
      BY <1>1, <3>2 DEF CrawlInv, CrawlTyped
    <3>. QED BY <3>3 DEF top
  <2>2. crawl.stage = "done" =>
          \A p \in Siblings : tried[p] = IF p \in crawl.discovered THEN 1 ELSE 0
    BY <1>1 DEF CrawlInv, Scraped
  <2>. QED BY <2>1, <2>2, CrawlCardinality DEF Cr!CrawlIsBounded, Scraped
<1>. DEFINE Held == component = "crawl" => CrawlInv
<1>2. DeskInit => Held
  BY InitCrawlInv, DeskAssumption DEF DeskInit
<1>3. Held /\ [DeskNext]_deskVars => Held'
  BY OneMoves, NextCrawlInv, DeskAssumption
<1>4. Held => CrawlIsBounded
  BY <1>1 DEF CrawlIsBounded
<1>. QED BY <1>2, <1>3, <1>4, PTL DEF DeskSpec

-----------------------------------------------------------------------------
(* Records.                                                                *)

\* A reference the schema has: a required one cascades, one that cascades is required or
\* of a whole that takes its parts along, and so is one of an owned collection, except
\* that the executions of a schedule are only in the model's collection; a schedule is
\* nobody's part.
Orderly(ref) ==
  LET pair == <<ref.parent, ref.child>>
  IN /\ ref.required => ref.rule = "cascade"
     /\ ref.rule = "cascade" => ref.required \/ pair \in Rec!TakenAlong
     /\ pair \in Rec!Owned => ref.rule = "cascade" \/ pair = <<"job_schedules", "job_executions">>
     /\ ref.child # "job_schedules"

LEMMA PartsAreOrderly ==
  ASSUME NEW child, NEW column, NEW parent, child # "job_schedules"
  PROVE  Orderly(Rec!Part(child, column, parent))
BY DEF Orderly, Rec!Part, Rec!Reference

LEMMA OwnedPairs ==
  Rec!Owned = {<<"users", "user_roles">>, <<"users", "api_keys">>, <<"actors", "actor_aliases">>,
               <<"sources", "source_endpoints">>, <<"documents", "document_chunks">>,
               <<"events", "event_actors">>, <<"events", "event_locations">>,
               <<"events", "event_impacts">>, <<"claims", "claim_evidence">>,
               <<"evidence_bundles", "evidence_bundle_items">>,
               <<"investigations", "investigation_steps">>, <<"monitors", "notifications">>,
               <<"job_schedules", "job_executions">>}
BY DEF Rec!Owned, Rec!UserParts, Rec!ActorParts, Rec!SourceParts, Rec!DocumentParts,
       Rec!EventParts, Rec!ClaimParts, Rec!BundleParts, Rec!InvestigationParts,
       Rec!MonitorParts, Rec!ScheduleParts

LEMMA LinksAreOrderly ==
  ASSUME NEW child, NEW column, NEW parent, child # "job_schedules",
         <<parent, child>> \notin Rec!Owned
  PROVE  Orderly(Rec!Link(child, column, parent))
BY DEF Orderly, Rec!Link, Rec!Reference

LEMMA EvidenceIsOrderly ==
  ASSUME NEW child, child # "job_schedules", child # "evidence_bundle_items"
  PROVE  Orderly(Rec!Evidenced(child))
<1>1. <<"evidence_bundles", child>> \notin Rec!Owned
  BY OwnedPairs
<1>. QED BY <1>1, LinksAreOrderly DEF Rec!Evidenced

LEMMA SchemaIsOrderly == \A ref \in Rec!Schema : Orderly(ref)
<1>1. \A ref \in Rec!IdentitySchema : Orderly(ref)
  BY PartsAreOrderly DEF Rec!IdentitySchema
<1>2. \A ref \in Rec!ActorSchema : Orderly(ref)
  <2>1. <<"actors", "actors">> \notin Rec!Owned
    BY OwnedPairs
  <2>. QED BY <2>1, PartsAreOrderly, LinksAreOrderly, EvidenceIsOrderly DEF Rec!ActorSchema
<1>3. \A ref \in Rec!DocumentSchema \cup Rec!DuplicateSchema : Orderly(ref)
  <2>1. <<"documents", "documents">> \notin Rec!Owned
    BY OwnedPairs
  <2>. QED BY <2>1, PartsAreOrderly, LinksAreOrderly DEF Rec!DocumentSchema, Rec!DuplicateSchema
<1>4. \A ref \in Rec!EventSchema : Orderly(ref)
  <2>1. <<"events", "events">> \notin Rec!Owned /\ <<"actors", "event_locations">> \notin Rec!Owned
    BY OwnedPairs
  <2>. QED BY <2>1, PartsAreOrderly, LinksAreOrderly, EvidenceIsOrderly DEF Rec!EventSchema
<1>5. \A ref \in Rec!ClaimSchema : Orderly(ref)
  <2>1. /\ <<"actors", "claims">> \notin Rec!Owned /\ <<"events", "claims">> \notin Rec!Owned
        /\ <<"document_chunks", "claim_evidence">> \notin Rec!Owned
    BY OwnedPairs
  <2>. QED BY <2>1, PartsAreOrderly, LinksAreOrderly DEF Rec!ClaimSchema
<1>6. \A ref \in Rec!RelationshipSchema \cup Rec!RiskSchema \cup Rec!ScenarioSchema : Orderly(ref)
  BY PartsAreOrderly, EvidenceIsOrderly
     DEF Rec!RelationshipSchema, Rec!RiskSchema, Rec!ScenarioSchema
<1>7. \A ref \in Rec!InvestigationSchema : Orderly(ref)
  <2>1. /\ <<"reports", "investigations">> \notin Rec!Owned
        /\ <<"reports", "notifications">> \notin Rec!Owned
    BY OwnedPairs
  <2>2. Orderly(Rec!Reference("notifications", "monitor", "monitors", FALSE, "cascade"))
    BY DEF Orderly, Rec!Reference, Rec!TakenAlong
  <2>. QED BY <2>1, <2>2, PartsAreOrderly, LinksAreOrderly DEF Rec!InvestigationSchema
<1>8. \A ref \in Rec!AnalysisSchema : Orderly(ref)
  <2>1. /\ <<"users", "analyst_assessments">> \notin Rec!Owned
        /\ <<"sources", "image_evidence">> \notin Rec!Owned
        /\ <<"documents", "image_evidence">> \notin Rec!Owned
    BY OwnedPairs
  <2>. QED BY <2>1, PartsAreOrderly, LinksAreOrderly, EvidenceIsOrderly DEF Rec!AnalysisSchema
<1>9. \A ref \in Rec!ScheduleSchema : Orderly(ref)
  <2>. DEFINE ref == Rec!Link("job_executions", "schedule", "job_schedules")
  <2>1. /\ ref.required = FALSE /\ ref.rule = "set null"
        /\ ref.child = "job_executions" /\ ref.parent = "job_schedules"
    BY DEF Rec!Link, Rec!Reference
  <2>. HIDE DEF ref
  <2>2. Orderly(ref)
    BY <2>1 DEF Orderly
  <2>. QED BY <2>2 DEF Rec!ScheduleSchema, ref
<1>. QED BY <1>1, <1>2, <1>3, <1>4, <1>5, <1>6, <1>7, <1>8, <1>9 DEF Rec!Schema

-----------------------------------------------------------------------------
LinksTyped ==
  \A l \in links : /\ l.from \in rows /\ l.to \in rows
                   /\ l.ref \in Rec!Schema
                   /\ l.ref.child = l.from.table /\ l.ref.parent = l.to.table

\* No row is deleted twice at once.
RootsDiffer == \A d, e \in deleting : d.root = e.root => d = e

\* A row that a deletion has loaded, while it exists, refers to the row that is deleted.
LoadedRefer ==
  \A d \in deleting : \A row \in d.loaded \cap rows :
    \E l \in links : l.from = row /\ l.to = d.root /\ <<d.root.table, row.table>> \in Rec!Owned

RecordInv == LinksTyped /\ RootsDiffer /\ LoadedRefer

LEMMA InitRecordInv == Rec!Init => RecordInv
BY DEF Rec!Init, RecordInv, LinksTyped, RootsDiffer, LoadedRefer

\* What the database deletes is closed, and has no row that nothing led to.
LEMMA CascadeIsLeast ==
  ASSUME LinksTyped, NEW start \in SUBSET rows
  PROVE  /\ start \subseteq Rec!Cascade(start) /\ Rec!Cascade(start) \subseteq rows
         /\ Rec!Closed(Rec!Cascade(start))
         /\ \A row \in Rec!Cascade(start) \ start :
              \E l \in links : /\ l.from = row /\ l.to \in Rec!Cascade(start)
                               /\ l.ref.rule = "cascade"
<1>. DEFINE gone == Rec!Cascade(start)
<1>1. /\ start \subseteq gone /\ gone \subseteq rows
      /\ \A set \in SUBSET rows : start \subseteq set /\ Rec!Closed(set) => gone \subseteq set
  BY DEF Rec!Cascade
<1>2. Rec!Closed(gone)
  BY DEF Rec!Closed, Rec!Cascade, LinksTyped
<1>3. ASSUME NEW row \in gone \ start,
             ~\E l \in links : l.from = row /\ l.to \in gone /\ l.ref.rule = "cascade"
      PROVE  FALSE
  <2>1. Rec!Closed(gone \ {row})
    BY <1>2, <1>3 DEF Rec!Closed
  <2>. QED BY <1>1, <1>3, <2>1
<1>. QED BY <1>1, <1>2, <1>3

LEMMA FlushKeepsRecords ==
  ASSUME RecordInv, NEW d \in deleting, Rec!Flush(d)
  PROVE  RecordInv'
<1>. DEFINE start == (d.loaded \cup {d.root}) \cap rows
            gone == Rec!Cascade(start)
<1>1. /\ rows' = rows \ gone /\ deleting' = deleting \ {d}
      /\ links' = {l \in links : l.from \notin gone /\ l.to \notin gone}
  BY DEF Rec!Flush
<1>2. /\ gone \subseteq rows /\ Rec!Closed(gone)
      /\ \A row \in gone \ start : \E l \in links : /\ l.from = row /\ l.to \in gone
                                                    /\ l.ref.rule = "cascade"
  BY CascadeIsLeast DEF RecordInv
<1>. HIDE DEF gone
<1>3. LinksTyped'
  BY <1>1 DEF RecordInv, LinksTyped
<1>4. RootsDiffer'
  BY <1>1 DEF RecordInv, RootsDiffer
<1>5. ASSUME NEW e \in deleting', NEW row \in e.loaded \cap rows'
      PROVE  \E l \in links' : /\ l.from = row /\ l.to = e.root
                               /\ <<e.root.table, row.table>> \in Rec!Owned
  <2>1. PICK l \in links : /\ l.from = row /\ l.to = e.root
                           /\ <<e.root.table, row.table>> \in Rec!Owned
    BY <1>1, <1>5 DEF RecordInv, LoadedRefer
  <2>2. e \in deleting /\ e # d /\ e.root # d.root /\ row \notin gone
    BY <1>1, <1>5 DEF RecordInv, RootsDiffer
  <2>3. Orderly(l.ref) /\ l.ref.parent = e.root.table /\ l.ref.child = row.table
    BY <2>1, SchemaIsOrderly DEF RecordInv, LinksTyped
  <2>4. ASSUME e.root \in gone PROVE FALSE
    <3>1. l.ref.rule # "cascade"
      BY <1>2, <2>1, <2>2, <2>4 DEF Rec!Closed
    <3>2. e.root.table = "job_schedules"
      BY <2>1, <2>3, <3>1 DEF Orderly
    <3>3. e.root \notin start
      <4>1. \A table : <<table, "job_schedules">> \notin Rec!Owned
        BY OwnedPairs
      <4>2. ASSUME e.root \in d.loaded \cap rows PROVE FALSE
        BY <3>2, <4>1, <4>2 DEF RecordInv, LoadedRefer
      <4>. QED BY <2>2, <4>2
    <3>4. PICK m \in links : m.from = e.root
      BY <1>2, <2>4, <3>3
    <3>5. m.ref.child = "job_schedules" /\ Orderly(m.ref)
      BY <3>2, <3>4, SchemaIsOrderly DEF RecordInv, LinksTyped
    <3>. QED BY <3>5 DEF Orderly
  <2>. QED BY <1>1, <2>1, <2>2, <2>4
<1>. QED BY <1>3, <1>4, <1>5 DEF RecordInv, LoadedRefer

LEMMA InsertKeepsRecords ==
  ASSUME RecordInv, NEW row \in population, Rec!Insert(row) PROVE RecordInv'
<1>1. PICK chosen \in SUBSET Rec!LinksOf(row) : links' = links \cup chosen
  BY DEF Rec!Insert
<1>2. /\ rows' = rows \cup {row} /\ deleting' = deleting
      /\ \A d \in deleting : row \notin d.loaded
  BY DEF Rec!Insert
<1>3. \A l \in chosen : /\ l.from = row /\ l.to \in rows /\ l.ref \in Rec!Schema
                        /\ l.ref.child = row.table /\ l.ref.parent = l.to.table
  BY DEF Rec!LinksOf, Rec!LinkOf, Rec!Of, Rec!References
<1>4. LinksTyped'
  BY <1>1, <1>2, <1>3 DEF RecordInv, LinksTyped
<1>5. RootsDiffer' /\ LoadedRefer'
  BY <1>1, <1>2 DEF RecordInv, RootsDiffer, LoadedRefer
<1>. QED BY <1>4, <1>5 DEF RecordInv

LEMMA RequestKeepsRecords ==
  ASSUME RecordInv, NEW row \in population, Rec!RequestDelete(row) PROVE RecordInv'
<1>. DEFINE d == [root |-> row,
                  loaded |-> {l.from : l \in {m \in links :
                                /\ m.to = row /\ <<row.table, m.from.table>> \in Rec!Owned}}]
<1>1. /\ deleting' = deleting \cup {d} /\ rows' = rows /\ links' = links
      /\ \A e \in deleting : e.root # row
  BY DEF Rec!RequestDelete
<1>2. /\ d.root = row
      /\ \A x \in d.loaded : \E l \in links : /\ l.from = x /\ l.to = row
                                              /\ <<row.table, x.table>> \in Rec!Owned
  OBVIOUS
<1>. HIDE DEF d
<1>3. LinksTyped' /\ RootsDiffer'
  BY <1>1, <1>2 DEF RecordInv, LinksTyped, RootsDiffer
<1>4. LoadedRefer'
  BY <1>1, <1>2 DEF RecordInv, LoadedRefer
<1>. QED BY <1>3, <1>4 DEF RecordInv

LEMMA NextRecordInv == RecordInv /\ [Rec!Next]_Rec!vars => RecordInv'
<1>1. RecordInv /\ UNCHANGED <<rows, links>> /\ deleting' \subseteq deleting => RecordInv'
  BY DEF RecordInv, LinksTyped, RootsDiffer, LoadedRefer
<1>. QED BY <1>1, FlushKeepsRecords, InsertKeepsRecords, RequestKeepsRecords
         DEF Rec!Next, Rec!Fail, Rec!vars

\* A deletion, for any rows and any deletions and insertions at once: only what was asked
\* for goes, and what is required to go with it or is a part of it; and what stays keeps
\* every reference it requires.
THEOREM DeletionsTakeParts == DeskSpec => OnlyPartsGo
<1>. DEFINE Parts ==
       LET gone == rows \ rows'
           asked == {d.root : d \in deleting}
       IN /\ \A row \in gone \ asked :
               \E l \in links : l.from = row /\ l.to \in gone /\
                 (l.ref.required \/ <<l.to.table, row.table>> \in Rec!TakenAlong)
          /\ \A l \in links : (l.from \in rows' /\ l.ref.required) => l \in links'
<1>1. ASSUME RecordInv, NEW d \in deleting, Rec!Flush(d) PROVE Parts
  <2>. DEFINE start == (d.loaded \cup {d.root}) \cap rows
              gone == Rec!Cascade(start)
  <2>1. /\ rows' = rows \ gone
        /\ links' = {l \in links : l.from \notin gone /\ l.to \notin gone}
    BY <1>1 DEF Rec!Flush
  <2>2. /\ start \subseteq gone /\ gone \subseteq rows /\ Rec!Closed(gone)
        /\ \A row \in gone \ start : \E l \in links : /\ l.from = row /\ l.to \in gone
                                                      /\ l.ref.rule = "cascade"
    BY <1>1, CascadeIsLeast DEF RecordInv
  <2>. HIDE DEF gone
  <2>3. ASSUME NEW l \in links
        PROVE  /\ Orderly(l.ref)
               /\ l.ref.parent = l.to.table /\ l.ref.child = l.from.table
    BY <1>1, SchemaIsOrderly DEF RecordInv, LinksTyped
  <2>4. ASSUME NEW row \in gone, \A e \in deleting : row # e.root
        PROVE  \E l \in links : l.from = row /\ l.to \in gone /\
                 (l.ref.required \/ <<l.to.table, row.table>> \in Rec!TakenAlong)
    <3>1. CASE row \in start
      <4>1. PICK l \in links : /\ l.from = row /\ l.to = d.root
                               /\ <<d.root.table, row.table>> \in Rec!Owned
        BY <1>1, <2>4, <3>1 DEF RecordInv, LoadedRefer
      <4>2. d.root \in gone
        BY <1>1, <2>2, <4>1 DEF RecordInv, LinksTyped
      <4>3. l.ref.required \/ <<l.to.table, row.table>> \in Rec!TakenAlong
        BY <2>3, <4>1 DEF Orderly, Rec!TakenAlong
      <4>. QED BY <4>1, <4>2, <4>3
    <3>2. CASE row \notin start
      <4>1. PICK l \in links : l.from = row /\ l.to \in gone /\ l.ref.rule = "cascade"
        BY <2>2, <2>4, <3>2
      <4>. QED BY <2>3, <4>1 DEF Orderly
    <3>. QED BY <3>1, <3>2
  <2>5. ASSUME NEW l \in links, l.from \in rows', l.ref.required PROVE l \in links'
    <3>1. l.ref.rule = "cascade"
      BY <2>3, <2>5 DEF Orderly
    <3>2. l.from \notin gone /\ l.to \notin gone
      BY <2>1, <2>2, <2>5, <3>1 DEF Rec!Closed
    <3>. QED BY <2>1, <3>2
  <2>6. rows \ rows' = gone
    BY <2>1, <2>2
  <2>. QED BY <2>4, <2>5, <2>6
<1>2. ASSUME rows \subseteq rows', links \subseteq links' PROVE Parts
  BY <1>2
<1>3. ASSUME RecordInv, [Rec!Next]_Rec!vars PROVE [Parts]_Rec!vars
  <2>. HIDE DEF Parts
  <2>1. (\E d \in deleting : Rec!Flush(d)) => Parts
    BY <1>1, <1>3
  <2>2. (\E row \in population : Rec!Insert(row) \/ Rec!RequestDelete(row))
          \/ (\E d \in deleting : Rec!Fail(d)) => Parts
    BY <1>2 DEF Rec!Insert, Rec!RequestDelete, Rec!Fail
  <2>. QED BY <1>3, <2>1, <2>2 DEF Rec!Next
<1>. DEFINE Held == component = "records" => RecordInv
<1>4. DeskInit => Held
  BY InitRecordInv DEF DeskInit
<1>5. Held /\ [DeskNext]_deskVars => Held' /\ [Parts]_Rec!vars
  <2>. HIDE DEF Parts
  <2>. QED BY <1>3, OneMoves, NextRecordInv
<1>. QED BY <1>4, <1>5, PTL DEF DeskSpec, OnlyPartsGo, Rec!OnlyPartsGo

-----------------------------------------------------------------------------
(* The registry.                                                           *)

ActorsTyped ==
  /\ DOMAIN actors = Actors
  /\ \A a \in Actors :
       /\ DOMAIN actors[a] = {"live", "name", "type", "aliases"}
       /\ actors[a].name \in Names
       /\ actors[a].aliases = {} \/ \E n \in Names : actors[a].aliases = {n}

ResolvingTyped ==
  /\ DOMAIN resolution = {"stage", "hint", "pool", "names", "moved", "linked", "surfaced"}
  /\ resolution.stage \in {"idle", "by name", "by alias", "read", "rank", "linked", "queued"}

\* Whoever has not moved did not bear the mention when it was looked for.
NobodyBears ==
  /\ resolution.stage \in {"by alias", "read", "rank"} =>
       \A b \in Reg!Still : actors[b].name # Mention
  /\ resolution.stage \in {"read", "rank"} =>
       \A b \in Reg!Still : Mention \notin Reg!Known(b)

\* Whoever has not moved is a candidate exactly if its type suits, under the name it has.
CandidatesKnown ==
  resolution.stage = "rank" =>
    /\ resolution.pool \subseteq Actors
    /\ \A b \in Actors \ resolution.moved :
         /\ b \in resolution.pool <=> b \in Reg!Live /\ Reg!Suits(b, resolution.hint)
         /\ b \in resolution.pool => resolution.names[b] = {actors[b].name}

RegistryInv ==
  ActorsTyped /\ ResolvingTyped /\ NobodyBears /\ CandidatesKnown /\ Reg!LinksAreClear

LEMMA InitRegistryInv == Mention \in Names /\ Reg!Init => RegistryInv
<1>. SUFFICES ASSUME Mention \in Names, Reg!Init PROVE RegistryInv
  OBVIOUS
<1>1. actors = [a \in Actors |-> Reg!Free] /\ resolution = Reg!Idle
  BY DEF Reg!Init
<1>2. ActorsTyped
  BY <1>1 DEF ActorsTyped, Reg!Free
<1>3. ResolvingTyped /\ resolution.stage = "idle"
  BY <1>1 DEF ResolvingTyped, Reg!Idle
<1>. QED BY <1>2, <1>3 DEF RegistryInv, NobodyBears, CandidatesKnown, Reg!LinksAreClear

\* What has not moved is what it was, and was live if it is.
LEMMA ChangedKeeps ==
  ASSUME RegistryInv, resolution.stage \notin {"linked", "queued"},
         NEW a \in Actors, NEW row, Reg!Changed(a, row),
         DOMAIN row = {"live", "name", "type", "aliases"}, row.name \in Names,
         row.aliases = {} \/ \E n \in Names : row.aliases = {n}
  PROVE  RegistryInv'
<1>1. /\ DOMAIN actors' = Actors
      /\ \A b \in Actors : actors'[b] = IF b = a THEN row ELSE actors[b]
  BY DEF Reg!Changed, RegistryInv, ActorsTyped
<1>2. ActorsTyped'
  BY <1>1 DEF RegistryInv, ActorsTyped
<1>3. CASE resolution.stage = "idle"
  <2>1. resolution' = Reg!Idle
    BY <1>3 DEF Reg!Changed
  <2>2. ResolvingTyped' /\ resolution'.stage = "idle"
    BY <2>1 DEF ResolvingTyped, Reg!Idle
  <2>. QED BY <1>2, <2>2 DEF RegistryInv, NobodyBears, CandidatesKnown, Reg!LinksAreClear
<1>4. CASE resolution.stage # "idle"
  <2>1. resolution' = [resolution EXCEPT !.moved = resolution.moved \cup {a}]
    BY <1>4 DEF Reg!Changed, RegistryInv, ResolvingTyped
  <2>2. /\ ResolvingTyped' /\ resolution'.moved = resolution.moved \cup {a}
        /\ resolution'.stage = resolution.stage /\ resolution'.hint = resolution.hint
        /\ resolution'.pool = resolution.pool /\ resolution'.names = resolution.names
    BY <2>1 DEF RegistryInv, ResolvingTyped
  <2>3. \A b \in Actors \ resolution'.moved :
          /\ b \notin resolution.moved /\ actors'[b] = actors[b]
          /\ b \in Reg!Live' <=> b \in Reg!Live
          /\ Reg!Known(b)' = Reg!Known(b)
          /\ Reg!Suits(b, resolution.hint)' <=> Reg!Suits(b, resolution.hint)
    BY <1>1, <2>2 DEF Reg!Live, Reg!Known, Reg!Suits
  <2>4. Reg!Still' \subseteq Reg!Still /\ Reg!Still' \subseteq Actors \ resolution'.moved
    BY <2>2, <2>3 DEF Reg!Still, Reg!Live
  <2>5. NobodyBears'
    BY <2>2, <2>3, <2>4 DEF RegistryInv, NobodyBears, Reg!Known
  <2>6. CandidatesKnown'
    BY <2>2, <2>3 DEF RegistryInv, CandidatesKnown, Reg!Suits
  <2>7. Reg!LinksAreClear'
    BY <2>2 DEF Reg!LinksAreClear
  <2>. QED BY <1>2, <2>2, <2>5, <2>6, <2>7 DEF RegistryInv
<1>. QED BY <1>3, <1>4

LEMMA EditsKeepRegistry ==
  ASSUME RegistryInv, Mention \in Names, resolution.stage \notin {"linked", "queued"},
         \/ \E a \in Actors, name \in Names, type \in ActorTypes :
              Reg!Create(a, name, type) \/ Reg!Update(a, name, type)
         \/ \E a \in Actors : Reg!Delete(a) \/ \E name \in Names : Reg!AddAlias(a, name)
         \/ \E path, a \in Actors : Reg!DeleteAlias(path, a)
  PROVE  RegistryInv'
<1>. DEFINE Row(row) == /\ DOMAIN row = {"live", "name", "type", "aliases"} /\ row.name \in Names
                        /\ row.aliases = {} \/ \E n \in Names : row.aliases = {n}
<1>1. \A a \in Actors : Row(actors[a])
  BY DEF RegistryInv, ActorsTyped
<1>2. \A row, name, type : Row(row) /\ name \in Names =>
        /\ Row([row EXCEPT !.name = name, !.type = type])
        /\ Row([row EXCEPT !.aliases = {name}]) /\ Row([row EXCEPT !.aliases = {}])
  OBVIOUS
<1>3. Row(Reg!Free) /\ \A name \in Names : \A type :
        Row([live |-> TRUE, name |-> name, type |-> type, aliases |-> {}])
  BY DEF Reg!Free
<1>. HIDE DEF Row
<1>4. \E a \in Actors : \E row : Row(row) /\ Reg!Changed(a, row)
  <2>1. ASSUME NEW a \in Actors, NEW name \in Names, NEW type, Reg!Create(a, name, type)
        PROVE  \E row : Row(row) /\ Reg!Changed(a, row)
    BY <1>3, <2>1 DEF Reg!Create
  <2>2. ASSUME NEW a \in Actors, NEW name \in Names, NEW type, Reg!Update(a, name, type)
        PROVE  \E row : Row(row) /\ Reg!Changed(a, row)
    <3>1. Row([actors[a] EXCEPT !.name = name, !.type = type])
      BY <1>1, <1>2
    <3>. QED BY <2>2, <3>1 DEF Reg!Update
  <2>3. ASSUME NEW a \in Actors, Reg!Delete(a) PROVE \E row : Row(row) /\ Reg!Changed(a, row)
    BY <1>3, <2>3 DEF Reg!Delete
  <2>4. ASSUME NEW a \in Actors, NEW name \in Names, Reg!AddAlias(a, name)
        PROVE  \E row : Row(row) /\ Reg!Changed(a, row)
    <3>1. Row([actors[a] EXCEPT !.aliases = {name}])
      BY <1>1, <1>2
    <3>. QED BY <2>4, <3>1 DEF Reg!AddAlias
  <2>5. ASSUME NEW path, NEW a \in Actors, Reg!DeleteAlias(path, a)
        PROVE  \E row : Row(row) /\ Reg!Changed(a, row)
    <3>1. Row([actors[a] EXCEPT !.aliases = {}])
      BY <1>1, <1>2
    <3>. QED BY <2>5, <3>1 DEF Reg!DeleteAlias
  <2>. QED BY <2>1, <2>2, <2>3, <2>4, <2>5
<1>5. PICK a \in Actors : \E row : Row(row) /\ Reg!Changed(a, row)
  BY <1>4
<1>. QED BY <1>5, ChangedKeeps DEF Row

\* Steps of the resolution that look at names leave the registry and its history alone.
LEMMA LookingKeeps ==
  ASSUME RegistryInv, Mention \in Names,
         \/ \E hint \in ActorTypes \cup {Reg!NoHint} : Reg!Start(hint)
         \/ Reg!FindByName \/ Reg!FindByAlias \/ Reg!Done
  PROVE  RegistryInv'
<1>1. ASSUME actors' = actors, ResolvingTyped', resolution'.stage \in {"idle", "by name"}
      PROVE  RegistryInv'
  BY <1>1 DEF RegistryInv, ActorsTyped, NobodyBears, CandidatesKnown, Reg!LinksAreClear
<1>2. CASE \E hint \in ActorTypes \cup {Reg!NoHint} : Reg!Start(hint)
  <2>1. PICK hint : resolution' = [Reg!Idle EXCEPT !.stage = "by name", !.hint = hint]
    BY <1>2 DEF Reg!Start
  <2>2. ResolvingTyped' /\ resolution'.stage = "by name"
    BY <2>1 DEF ResolvingTyped, Reg!Idle
  <2>. QED BY <1>1, <1>2, <2>2 DEF Reg!Start
<1>3. CASE Reg!Done
  <2>1. resolution' = Reg!Idle /\ actors' = actors
    BY <1>3 DEF Reg!Done
  <2>2. ResolvingTyped' /\ resolution'.stage = "idle"
    BY <2>1 DEF ResolvingTyped, Reg!Idle
  <2>. QED BY <1>1, <2>1, <2>2
<1>4. ASSUME NEW a \in Reg!Live, Reg!Linked(a), Mention \in Reg!Known(a) PROVE RegistryInv'
  <2>1. /\ resolution' = [resolution EXCEPT !.stage = "linked", !.linked = {a}, !.pool = {}]
        /\ actors' = actors
    BY <1>4 DEF Reg!Linked
  <2>2. ResolvingTyped' /\ resolution'.stage = "linked" /\ resolution'.linked = {a}
    BY <2>1 DEF RegistryInv, ResolvingTyped
  <2>3. Mention \in Reg!Known(a)'
    BY <1>4, <2>1 DEF Reg!Known
  <2>. QED BY <2>1, <2>2, <2>3
       DEF RegistryInv, ActorsTyped, NobodyBears, CandidatesKnown, Reg!LinksAreClear
<1>5. ASSUME NEW stage \in {"by alias", "read"}, Reg!To(stage),
             \A b \in Reg!Still : actors[b].name # Mention,
             stage = "read" => \A b \in Reg!Still : Mention \notin Reg!Known(b)
      PROVE  RegistryInv'
  <2>1. resolution' = [resolution EXCEPT !.stage = stage] /\ actors' = actors
    BY <1>5 DEF Reg!To
  <2>2. ResolvingTyped' /\ resolution'.stage = stage /\ resolution'.moved = resolution.moved
    BY <2>1 DEF RegistryInv, ResolvingTyped
  <2>3. Reg!Still' = Reg!Still
    BY <2>1, <2>2 DEF Reg!Still, Reg!Live
  <2>. QED BY <1>5, <2>1, <2>2, <2>3
       DEF RegistryInv, ActorsTyped, NobodyBears, CandidatesKnown, Reg!LinksAreClear, Reg!Known
<1>6. CASE Reg!FindByName
  <2>. DEFINE bearers == {a \in Reg!Live : actors[a].name = Mention}
  <2>1. CASE bearers = {}
    <3>1. Reg!To("by alias")
      BY <1>6, <2>1 DEF Reg!FindByName
    <3>. QED BY <1>5, <2>1, <3>1 DEF Reg!Still
  <2>2. CASE bearers # {}
    <3>1. PICK a \in bearers : Reg!Linked(a)
      BY <1>6, <2>2 DEF Reg!FindByName
    <3>. QED BY <1>4, <3>1 DEF Reg!Known
  <2>. QED BY <2>1, <2>2
<1>7. CASE Reg!FindByAlias
  <2>. DEFINE bearers == {a \in Reg!Live : Mention \in actors[a].aliases}
  <2>1. CASE bearers = {}
    <3>1. Reg!To("read") /\ resolution.stage = "by alias"
      BY <1>7, <2>1 DEF Reg!FindByAlias
    <3>2. \A b \in Reg!Still : actors[b].name # Mention
      BY <3>1 DEF RegistryInv, NobodyBears
    <3>3. \A b \in Reg!Still : Mention \notin Reg!Known(b)
      BY <2>1, <3>2 DEF Reg!Still, Reg!Known
    <3>. QED BY <1>5, <3>1, <3>2, <3>3
  <2>2. CASE bearers # {}
    <3>1. PICK a \in bearers : Reg!Linked(a)
      BY <1>7, <2>2 DEF Reg!FindByAlias
    <3>. QED BY <1>4, <3>1 DEF Reg!Known
  <2>. QED BY <2>1, <2>2
<1>. QED BY <1>2, <1>3, <1>6, <1>7

LEMMA ListCandidatesKeeps ==
  ASSUME RegistryInv, Reg!ListCandidates PROVE RegistryInv'
<1>. DEFINE pool == {a \in Reg!Live : Reg!Suits(a, resolution.hint)}
            names == [a \in Actors |-> IF a \in pool THEN {actors[a].name} ELSE {}]
<1>1. /\ resolution' = [resolution EXCEPT !.stage = "rank", !.pool = pool, !.names = names]
      /\ actors' = actors /\ resolution.stage = "read"
  BY DEF Reg!ListCandidates
<1>2. /\ ResolvingTyped' /\ resolution'.stage = "rank" /\ resolution'.moved = resolution.moved
      /\ resolution'.hint = resolution.hint /\ resolution'.pool = pool /\ resolution'.names = names
  BY <1>1 DEF RegistryInv, ResolvingTyped
<1>3. Reg!Live' = Reg!Live /\ Reg!Still' = Reg!Still
  BY <1>1, <1>2 DEF Reg!Still, Reg!Live
<1>4. NobodyBears'
  BY <1>1, <1>2, <1>3 DEF RegistryInv, NobodyBears, Reg!Known
<1>5. CandidatesKnown'
  BY <1>1, <1>2, <1>3 DEF CandidatesKnown, Reg!Suits, Reg!Live
<1>. QED BY <1>1, <1>2, <1>4, <1>5 DEF RegistryInv, ActorsTyped, Reg!LinksAreClear

\* How near an actor is to the mention is a number.
LEMMA NearnessIsNumber ==
  ASSUME ActorsTyped, \A n \in Names : Similarity(n) \in Int, NEW a \in Actors
  PROVE  Reg!Nearness(a) \in Int
<1>1. PICK m \in Names : Reg!Known(a) = {actors[a].name, m}
  <2>1. CASE actors[a].aliases = {}
    <3>1. Reg!Known(a) = {actors[a].name, actors[a].name}
      BY <2>1 DEF Reg!Known
    <3>. QED BY <3>1 DEF ActorsTyped
  <2>2. ASSUME NEW n \in Names, actors[a].aliases = {n}
        PROVE  Reg!Known(a) = {actors[a].name, n}
    BY <2>2 DEF Reg!Known
  <2>. QED BY <2>1, <2>2 DEF ActorsTyped
<1>. DEFINE x == Similarity(actors[a].name)
            y == Similarity(m)
<1>2. x \in Int /\ y \in Int
  BY DEF ActorsTyped
<1>3. {Similarity(n) : n \in Reg!Known(a)} = {x, y}
  BY <1>1
<1>. HIDE DEF x, y
<1>4. \E z \in {x, y} : \A other \in {x, y} : z >= other
  BY <1>2
<1>5. Reg!Max({x, y}) \in {x, y}
  BY <1>4 DEF Reg!Max
<1>. QED BY <1>2, <1>3, <1>5 DEF Reg!Nearness, Reg!Best

\* Ranking: what it says of actors that have not moved, it says of the names they have.
LEMMA RankKeeps ==
  ASSUME RegistryInv, \A n \in Names : Similarity(n) \in Int, Reg!Rank PROVE RegistryInv'
<1>. DEFINE pool == resolution.pool
            score == [a \in pool |-> Reg!Best(resolution.names[a] \cup actors[a].aliases)]
            clear == {a \in pool : /\ \A other \in pool : score[other] <= score[a]
                                   /\ Reg!IsAutoResolvable(score, pool, a)}
<1>1. resolution.stage = "rank"
  BY DEF Reg!Rank
<1>2. /\ \A b \in Reg!Still : Mention \notin Reg!Known(b)
      /\ \A b \in Reg!Still : Reg!Suits(b, resolution.hint) => b \in pool
      /\ \A b \in Actors \ resolution.moved : b \in pool =>
           /\ b \in Reg!Live /\ Reg!Suits(b, resolution.hint)
           /\ resolution.names[b] = {actors[b].name}
  BY <1>1 DEF RegistryInv, NobodyBears, CandidatesKnown, Reg!Still, Reg!Live
<1>3. \A b \in Reg!Still : b \in pool => score[b] = Reg!Nearness(b)
  BY <1>2 DEF Reg!Nearness, Reg!Known, Reg!Still, Reg!Live
<1>4. actors' = actors
  BY DEF Reg!Rank, Reg!Linked
<1>5. Reg!Live' = Reg!Live
  BY <1>4 DEF Reg!Live
<1>6. \A b : /\ Reg!Known(b)' = Reg!Known(b) /\ Reg!Nearness(b)' = Reg!Nearness(b)
             /\ \A hint : Reg!Suits(b, hint)' <=> Reg!Suits(b, hint)
  BY <1>4 DEF Reg!Known, Reg!Nearness, Reg!Suits
<1>7. CASE clear # {}
  <2>1. PICK a \in clear : Reg!Linked(a)
    BY <1>7 DEF Reg!Rank
  <2>2. resolution' = [resolution EXCEPT !.stage = "linked", !.linked = {a}, !.pool = {}]
    BY <2>1 DEF Reg!Linked
  <2>3. /\ ResolvingTyped' /\ resolution'.stage = "linked" /\ resolution'.linked = {a}
        /\ resolution'.moved = resolution.moved /\ resolution'.hint = resolution.hint
    BY <2>2 DEF RegistryInv, ResolvingTyped
  <2>4. Reg!Still' = Reg!Still /\ \A x : Reg!Rivals(x)' = Reg!Rivals(x)
    BY <1>4, <1>5, <2>3 DEF Reg!Still, Reg!Rivals, Reg!Suits
  <2>5. ASSUME a \in Reg!Still
        PROVE  /\ Reg!Nearness(a) >= AutoThreshold
               /\ \A b \in Reg!Rivals(a) : Reg!Nearness(a) - Reg!Nearness(b) >= Reg!AmbiguityGap
    BY <1>2, <1>3, <2>1, <2>5 DEF Reg!IsAutoResolvable, Reg!Rivals
  <2>6. Reg!LinksAreClear'
    BY <1>2, <1>6, <2>3, <2>4, <2>5 DEF Reg!LinksAreClear
  <2>. QED BY <1>4, <2>3, <2>6 DEF RegistryInv, ActorsTyped, NobodyBears, CandidatesKnown
<1>8. CASE clear = {}
  <2>1. resolution' = [resolution EXCEPT !.stage = "queued",
                        !.surfaced = {a \in pool : score[a] >= ReviewThreshold}]
    BY <1>8 DEF Reg!Rank
  <2>2. /\ ResolvingTyped' /\ resolution'.stage = "queued"
        /\ resolution'.surfaced = {a \in pool : score[a] >= ReviewThreshold}
        /\ resolution'.moved = resolution.moved /\ resolution'.hint = resolution.hint
    BY <2>1 DEF RegistryInv, ResolvingTyped
  <2>3. Reg!Still' = Reg!Still /\ \A x : Reg!Rivals(x)' = Reg!Rivals(x)
    BY <1>4, <1>5, <2>2 DEF Reg!Still, Reg!Rivals, Reg!Suits
  <2>4. {a \in Reg!Still : Reg!Suits(a, resolution.hint) /\ Reg!Nearness(a) >= ReviewThreshold}
          \subseteq resolution'.surfaced
    BY <1>2, <1>3, <2>2
  <2>5. ASSUME resolution.moved = {}, NEW a \in Reg!Still, Reg!Suits(a, resolution.hint),
               Reg!Nearness(a) >= AutoThreshold,
               \A b \in Reg!Rivals(a) : Reg!Nearness(a) - Reg!Nearness(b) >= Reg!AmbiguityGap
        PROVE  FALSE
    <3>1. a \in pool /\ score[a] = Reg!Nearness(a) /\ Reg!Nearness(a) \in Int
      BY <1>2, <1>3, <2>5, NearnessIsNumber DEF RegistryInv, Reg!Still, Reg!Live
    <3>2. ASSUME NEW other \in pool, other # a
          PROVE  score[a] - score[other] >= Reg!AmbiguityGap /\ score[other] <= score[a]
      <4>1. other \in Reg!Rivals(a) /\ other \in Actors
        BY <1>1, <1>2, <2>5, <3>2 DEF Reg!Rivals, Reg!Still, Reg!Live, RegistryInv, CandidatesKnown
      <4>2. score[other] = Reg!Nearness(other) /\ Reg!Nearness(other) \in Int
        BY <1>3, <3>2, <4>1, NearnessIsNumber DEF RegistryInv, Reg!Rivals
      <4>. QED BY <2>5, <3>1, <4>1, <4>2 DEF Reg!AmbiguityGap
    <3>3. a \in clear
      <4>1. ASSUME NEW other \in pool PROVE score[other] <= score[a]
        <5>. HIDE DEF score
        <5>1. CASE other = a
          BY <3>1, <5>1
        <5>. QED BY <3>2, <5>1
      <4>2. /\ score[a] >= AutoThreshold
            /\ \A other \in pool \ {a} : score[a] - score[other] >= Reg!AmbiguityGap
        BY <2>5, <3>1, <3>2
      <4>. HIDE DEF score
      <4>3. Reg!IsAutoResolvable(score, pool, a)
        BY <4>2 DEF Reg!IsAutoResolvable
      <4>. QED BY <3>1, <4>1, <4>3
    <3>. QED BY <1>8, <3>3
  <2>6. Reg!LinksAreClear'
    BY <1>2, <1>6, <2>2, <2>3, <2>4, <2>5 DEF Reg!LinksAreClear
  <2>. QED BY <1>4, <2>2, <2>6 DEF RegistryInv, ActorsTyped, NobodyBears, CandidatesKnown
<1>. QED BY <1>7, <1>8

LEMMA NextRegistryInv ==
  ASSUME RegistryInv, Mention \in Names, \A n \in Names : Similarity(n) \in Int,
         [Reg!Next]_Reg!vars
  PROVE  RegistryInv'
<1>1. CASE UNCHANGED Reg!vars
  <2>1. actors' = actors /\ resolution' = resolution
    BY <1>1 DEF Reg!vars
  <2>2. Reg!Live' = Reg!Live /\ Reg!Still' = Reg!Still
    BY <2>1 DEF Reg!Live, Reg!Still
  <2>3. \A b : /\ Reg!Known(b)' = Reg!Known(b) /\ Reg!Nearness(b)' = Reg!Nearness(b)
               /\ Reg!Rivals(b)' = Reg!Rivals(b)
               /\ \A hint : Reg!Suits(b, hint)' <=> Reg!Suits(b, hint)
    BY <2>1, <2>2 DEF Reg!Known, Reg!Nearness, Reg!Suits, Reg!Rivals
  <2>4. ActorsTyped' /\ ResolvingTyped'
    BY <2>1 DEF RegistryInv, ActorsTyped, ResolvingTyped
  <2>5. NobodyBears' /\ CandidatesKnown'
    BY <2>1, <2>2, <2>3 DEF RegistryInv, NobodyBears, CandidatesKnown
  <2>6. Reg!LinksAreClear'
    BY <2>1, <2>2, <2>3 DEF RegistryInv, Reg!LinksAreClear
  <2>. QED BY <2>4, <2>5, <2>6 DEF RegistryInv
<1>. QED BY <1>1, EditsKeepRegistry, LookingKeeps, ListCandidatesKeeps, RankKeeps DEF Reg!Next

-----------------------------------------------------------------------------
(* Relationships.                                                          *)

\* An observation is dated with a time that has come; a relationship that is still to be
\* created is a row of its own.
RelationsTyped ==
  /\ DOMAIN relationships = Rel!Ids
  /\ \A r \in Rel!Ids : DOMAIN relationships[r] = {"state", "pair", "type"}
  /\ observations \in [Rel!Ids -> SUBSET [at: 1..MaxObservations, score: Int]]
  /\ \A a \in assessing : a.id \in Rel!Ids /\ a.at \in 1..relationshipClock
  /\ relationshipClock \in 0..MaxObservations /\ started \in 0..MaxRelationships

CreationsApart ==
  /\ \A c \in creating : c.id \in 1..started /\ relationships[c.id].state = "unused"
  /\ \A c, d \in creating : c.id = d.id => c = d
  /\ \A r \in Rel!Ids : r > started => relationships[r].state = "unused"

\* The relationships whose edges the graph has.
Done == Rel!Listed \ graph.todo

\* Each pair's edge is that of its oldest relationship so far, with a weight it had.
EdgesSoFar ==
  /\ DOMAIN graph.edges = {relationships[r].pair : r \in Done}
  /\ \A p \in DOMAIN graph.edges :
       LET edge == graph.edges[p]
       IN /\ edge.id \in Done /\ edge.weight \in graph.seen[edge.id]
          /\ relationships[edge.id].pair = p
          /\ \A r \in Done : relationships[r].pair = p => edge.id <= r

GraphTyped ==
  /\ DOMAIN graph = {"stage", "todo", "edges", "seen"}
  /\ graph.stage \in {"none", "building", "built"}
  /\ graph.todo \subseteq Rel!Listed /\ Rel!Listed \subseteq Rel!Ids
  /\ graph.stage = "building" <=> graph.todo # {}
  /\ \A r \in Rel!Listed : relationships[r].state # "unused"
  /\ \A r \in Done, t \in graph.todo : t < r

\* What an edge would say now is among what it could say.
SeenNow ==
  graph.stage = "building" =>
    \A r \in Rel!Listed : Rel!Weight(Rel!Latest(observations[r])) \in graph.seen[r]

ComparisonTyped ==
  /\ DOMAIN comparison = {"stage", "id", "current", "previous"}
  /\ comparison.stage \in {"none", "current", "answered"}
  /\ comparison.stage = "current" =>
       /\ comparison.id \in Rel!Ids
       /\ comparison.current.at \in 1..MaxObservations /\ comparison.current.score \in Int

RelationInv ==
  /\ RelationsTyped /\ CreationsApart
  /\ GraphTyped /\ EdgesSoFar /\ SeenNow
  /\ ComparisonTyped /\ Rel!ComparisonsAreTrue

\* The latest of some observations is one of them, and none is later.
LEMMA LatestOf ==
  ASSUME MaxObservations \in Nat, NEW set \in SUBSET [at: 1..MaxObservations, score: Int], set # {}
  PROVE  Rel!Latest(set) \in set /\ \A o \in set : o.at <= Rel!Latest(set).at
<1>. DEFINE times == {o.at : o \in set}
<1>1. times \in SUBSET (0..MaxObservations) /\ times # {}
  OBVIOUS
<1>2. Max(times) \in times /\ \A t \in times : t <= Max(times)
  BY <1>1, GreatestOf
<1>3. \E o \in set : \A other \in set : other.at <= o.at
  BY <1>2
<1>. QED BY <1>3 DEF Rel!Latest

LEMMA InitRelationInv ==
  MaxObservations \in Nat /\ MaxRelationships \in Nat /\ Rel!Init => RelationInv
<1>. SUFFICES ASSUME MaxObservations \in Nat, MaxRelationships \in Nat, Rel!Init PROVE RelationInv
  OBVIOUS
<1>1. /\ relationships = [r \in Rel!Ids |-> Rel!Unused] /\ observations = [r \in Rel!Ids |-> {}]
      /\ creating = {} /\ assessing = {} /\ started = 0 /\ relationshipClock = 0
      /\ graph = Rel!NoGraph /\ comparison = Rel!NoComparison
  BY DEF Rel!Init
<1>2. RelationsTyped /\ CreationsApart
  BY <1>1 DEF RelationsTyped, CreationsApart, Rel!Unused
<1>3. /\ DOMAIN graph = {"stage", "todo", "edges", "seen"} /\ graph.stage = "none"
      /\ graph.todo = {} /\ DOMAIN graph.edges = {} /\ Rel!Listed = {}
  BY <1>1 DEF Rel!NoGraph, Rel!Listed
<1>4. GraphTyped /\ EdgesSoFar /\ SeenNow
  BY <1>3 DEF GraphTyped, EdgesSoFar, SeenNow, Done
<1>5. ComparisonTyped /\ comparison.stage = "none"
  BY <1>1 DEF ComparisonTyped, Rel!NoComparison
<1>. QED BY <1>2, <1>4, <1>5 DEF RelationInv, Rel!ComparisonsAreTrue

\* A graph under way goes on when its relationships keep their pairs, and it notes what
\* their edges could say.
LEMMA GraphGoesOn ==
  ASSUME RelationInv,
         \A r \in Rel!Listed : /\ relationships'[r].pair = relationships[r].pair
                               /\ relationships'[r].state # "unused",
         DOMAIN graph' = {"stage", "todo", "edges", "seen"},
         graph'.stage = graph.stage, graph'.todo = graph.todo, graph'.edges = graph.edges,
         DOMAIN graph'.seen = DOMAIN graph.seen,
         \A r \in Rel!Listed : graph.seen[r] \subseteq graph'.seen[r],
         SeenNow'
  PROVE  GraphTyped' /\ EdgesSoFar'
<1>1. Rel!Listed' = Rel!Listed /\ Done' = Done /\ Done \subseteq Rel!Listed
  BY DEF Rel!Listed, Done
<1>2. GraphTyped'
  BY <1>1 DEF RelationInv, GraphTyped
<1>3. DOMAIN graph'.edges = {relationships'[r].pair : r \in Done'}
  BY <1>1 DEF RelationInv, EdgesSoFar
<1>4. ASSUME NEW p \in DOMAIN graph'.edges
      PROVE  /\ graph'.edges[p].id \in Done'
             /\ graph'.edges[p].weight \in graph'.seen[graph'.edges[p].id]
             /\ relationships'[graph'.edges[p].id].pair = p
             /\ \A r \in Done' : relationships'[r].pair = p => graph'.edges[p].id <= r
  BY <1>1, <1>4 DEF RelationInv, EdgesSoFar
<1>. QED BY <1>2, <1>3, <1>4 DEF EdgesSoFar

\* Observations change: the graph under way notes the latest ones.
LEMMA NotesGoOn ==
  ASSUME RelationInv, MaxObservations \in Nat,
         \A r \in Rel!Listed : /\ relationships'[r].pair = relationships[r].pair
                               /\ relationships'[r].state # "unused",
         observations' \in [Rel!Ids -> SUBSET [at: 1..MaxObservations, score: Int]],
         graph' = Rel!Notes(observations')
  PROVE  GraphTyped' /\ EdgesSoFar' /\ SeenNow'
<1>1. CASE graph.stage # "building"
  <2>1. graph' = graph
    BY <1>1 DEF Rel!Notes
  <2>2. SeenNow'
    BY <1>1, <2>1 DEF SeenNow
  <2>. QED BY <2>1, <2>2, GraphGoesOn DEF RelationInv, GraphTyped
<1>2. CASE graph.stage = "building"
  <2>. DEFINE Latest(r) == {o \in observations'[r] : \A y \in observations'[r] : y.at <= o.at}
              seen == [r \in DOMAIN graph.seen |->
                         graph.seen[r] \cup {Rel!Weight(o) : o \in Latest(r)}
                           \cup IF observations'[r] = {} THEN {Rel!DefaultWeight} ELSE {}]
  <2>1. graph' = [graph EXCEPT !.seen = seen]
    BY <1>2 DEF Rel!Notes, RelationInv, GraphTyped
  <2>2. /\ DOMAIN graph' = {"stage", "todo", "edges", "seen"} /\ graph'.seen = seen
        /\ graph'.stage = graph.stage /\ graph'.todo = graph.todo /\ graph'.edges = graph.edges
    BY <2>1 DEF RelationInv, GraphTyped
  <2>3. DOMAIN seen = DOMAIN graph.seen /\ \A r \in Rel!Listed : graph.seen[r] \subseteq seen[r]
    BY DEF Rel!Listed
  <2>4. ASSUME NEW r \in Rel!Listed PROVE Rel!Weight(Rel!Latest(observations'[r])) \in seen[r]
    <3>1. r \in Rel!Ids
      BY DEF RelationInv, GraphTyped
    <3>2. CASE observations'[r] = {}
      <4>1. Rel!Weight(Rel!Latest(observations'[r])) = Rel!DefaultWeight
        BY <3>2 DEF Rel!Weight, Rel!Latest, Rel!NoObservation
      <4>. QED BY <3>2, <4>1 DEF Rel!Listed
    <3>3. CASE observations'[r] # {}
      <4>1. Rel!Latest(observations'[r]) \in Latest(r)
        BY <3>1, <3>3, LatestOf
      <4>. HIDE DEF Latest
      <4>. QED BY <4>1 DEF Rel!Listed
    <3>. QED BY <3>2, <3>3
  <2>. HIDE DEF seen
  <2>5. Rel!Listed' = Rel!Listed
    BY <2>2, <2>3 DEF Rel!Listed
  <2>6. SeenNow'
    BY <2>2, <2>4, <2>5 DEF SeenNow
  <2>. QED BY <2>2, <2>3, <2>6, GraphGoesOn
<1>. QED BY <1>1, <1>2

\* What no reader has looked at yet.
LEMMA ReadersStay ==
  ASSUME RelationInv, comparison' = comparison,
         comparison.stage # "answered" \/ observations' = observations
  PROVE  ComparisonTyped' /\ Rel!ComparisonsAreTrue'
<1>1. ComparisonTyped'
  BY DEF RelationInv, ComparisonTyped
<1>. QED BY <1>1 DEF RelationInv, Rel!ComparisonsAreTrue

LEMMA CreationKeeps ==
  ASSUME RelationInv, MaxRelationships \in Nat,
         \/ \E pair \in Rel!Pairs, type \in RelationTypes : Rel!BeginCreation(pair, type)
         \/ \E c \in creating : Rel!Create(c)
  PROVE  RelationInv'
<1>1. CASE \E pair \in Rel!Pairs, type \in RelationTypes : Rel!BeginCreation(pair, type)
  <2>0. PICK pair \in Rel!Pairs, type \in RelationTypes :
          creating' = creating \cup {[id |-> started', pair |-> pair, type |-> type]}
    BY <1>1 DEF Rel!BeginCreation
  <2>. DEFINE c == [id |-> started', pair |-> pair, type |-> type]
  <2>1. creating' = creating \cup {c} /\ c.id = started'
    BY <2>0
  <2>. HIDE DEF c
  <2>2. /\ started' = started + 1 /\ started < MaxRelationships
        /\ UNCHANGED <<relationships, observations, assessing, relationshipClock, graph, comparison>>
    BY <1>1 DEF Rel!BeginCreation
  <2>3. RelationsTyped'
    BY <2>2 DEF RelationInv, RelationsTyped
  <2>4. CreationsApart'
    <3>1. started \in Nat /\ started + 1 \in Rel!Ids
      BY <2>2 DEF RelationInv, RelationsTyped, Rel!Ids
    <3>2. relationships[started + 1].state = "unused"
      BY <3>1 DEF RelationInv, CreationsApart
    <3>3. \A d \in creating : d.id \in 1..started
      BY DEF RelationInv, CreationsApart
    <3>4. \A d \in creating' : d.id \in 1..started' /\ relationships'[d.id].state = "unused"
      BY <2>1, <2>2, <3>1, <3>2, <3>3 DEF RelationInv, CreationsApart
    <3>5. \A d, e \in creating' : d.id = e.id => d = e
      BY <2>1, <2>2, <3>1, <3>3 DEF RelationInv, CreationsApart
    <3>6. \A r \in Rel!Ids : r > started' => relationships'[r].state = "unused"
      BY <2>2, <3>1 DEF RelationInv, CreationsApart, Rel!Ids
    <3>. QED BY <3>4, <3>5, <3>6 DEF CreationsApart
  <2>5. SeenNow'
    BY <2>2 DEF RelationInv, SeenNow, Rel!Listed
  <2>6. GraphTyped' /\ EdgesSoFar'
    BY <2>2, <2>5, GraphGoesOn DEF RelationInv, GraphTyped
  <2>. QED BY <2>2, <2>3, <2>4, <2>5, <2>6, ReadersStay DEF RelationInv
<1>2. ASSUME NEW c \in creating, Rel!Create(c) PROVE RelationInv'
  <2>. DEFINE row == [state |-> "live", pair |-> c.pair, type |-> c.type]
  <2>1. /\ creating' = creating \ {c} /\ relationships' = [relationships EXCEPT ![c.id] = row]
        /\ UNCHANGED <<observations, assessing, started, relationshipClock, graph, comparison>>
    BY <1>2 DEF Rel!Create
  <2>2. c.id \in 1..started /\ relationships[c.id].state = "unused"
    BY DEF RelationInv, CreationsApart
  <2>3. /\ DOMAIN relationships' = Rel!Ids
        /\ \A r \in Rel!Ids : relationships'[r] = IF r = c.id THEN row ELSE relationships[r]
    BY <2>1 DEF RelationInv, RelationsTyped
  <2>4. RelationsTyped'
    BY <2>1, <2>3 DEF RelationInv, RelationsTyped
  <2>5. CreationsApart'
    <3>1. \A d \in creating' : d \in creating /\ d.id # c.id
      BY <2>1 DEF RelationInv, CreationsApart
    <3>2. started \in 0..MaxRelationships /\ \A d \in creating : d.id \in Rel!Ids
      BY DEF RelationInv, CreationsApart, RelationsTyped, Rel!Ids
    <3>3. \A r \in Rel!Ids : r > started => r # c.id
      BY <2>2, <3>2 DEF Rel!Ids
    <3>. QED BY <2>1, <2>3, <3>1, <3>2, <3>3 DEF RelationInv, CreationsApart
  <2>6. \A r \in Rel!Listed : relationships'[r] = relationships[r]
    BY <2>2, <2>3 DEF RelationInv, GraphTyped
  <2>7. SeenNow'
    BY <2>1 DEF RelationInv, SeenNow, Rel!Listed
  <2>8. GraphTyped' /\ EdgesSoFar'
    BY <2>1, <2>6, <2>7, GraphGoesOn DEF RelationInv, GraphTyped
  <2>. QED BY <2>1, <2>4, <2>5, <2>7, <2>8, ReadersStay DEF RelationInv
<1>. QED BY <1>1, <1>2

LEMMA ObservationKeeps ==
  ASSUME RelationInv, MaxObservations \in Nat, RelationScores \subseteq Int, comparison.stage # "answered",
         \/ \E r \in Rel!Ids : Rel!BeginObservation(r)
         \/ \E a \in assessing : Rel!RecordObservation(a)
  PROVE  RelationInv'
<1>1. ASSUME NEW r \in Rel!Ids, Rel!BeginObservation(r) PROVE RelationInv'
  <2>1. /\ relationshipClock' = relationshipClock + 1 /\ relationshipClock < MaxObservations
        /\ assessing' = assessing \cup {[id |-> r, at |-> relationshipClock']}
        /\ UNCHANGED <<relationships, observations, creating, started, graph, comparison>>
    BY <1>1 DEF Rel!BeginObservation
  <2>2. RelationsTyped'
    <3>1. relationshipClock \in Nat /\ relationshipClock' \in 0..MaxObservations
      BY <2>1 DEF RelationInv, RelationsTyped
    <3>2. \A a \in assessing' : a.id \in Rel!Ids /\ a.at \in 1..relationshipClock'
      BY <2>1, <3>1 DEF RelationInv, RelationsTyped
    <3>. QED BY <2>1, <3>1, <3>2 DEF RelationInv, RelationsTyped
  <2>3. CreationsApart'
    BY <2>1 DEF RelationInv, CreationsApart
  <2>4. SeenNow'
    BY <2>1 DEF RelationInv, SeenNow, Rel!Listed
  <2>5. GraphTyped' /\ EdgesSoFar'
    BY <2>1, <2>4, GraphGoesOn DEF RelationInv, GraphTyped
  <2>. QED BY <2>1, <2>2, <2>3, <2>4, <2>5, ReadersStay DEF RelationInv
<1>2. ASSUME NEW a \in assessing, Rel!RecordObservation(a) PROVE RelationInv'
  <2>1. PICK score \in RelationScores \cup {Rel!NoScore} :
          observations' = [observations EXCEPT
            ![a.id] = observations[a.id] \cup {[at |-> a.at, score |-> score]}]
    BY <1>2 DEF Rel!RecordObservation
  <2>2. /\ assessing' = assessing \ {a} /\ graph' = Rel!Notes(observations')
        /\ UNCHANGED <<relationships, creating, started, relationshipClock, comparison>>
    BY <1>2 DEF Rel!RecordObservation
  <2>3. observations' \in [Rel!Ids -> SUBSET [at: 1..MaxObservations, score: Int]]
    <3>1. a.id \in Rel!Ids /\ a.at \in 1..MaxObservations /\ score \in Int
      BY DEF RelationInv, RelationsTyped, Rel!NoScore
    <3>. QED BY <2>1, <3>1 DEF RelationInv, RelationsTyped
  <2>4. RelationsTyped'
    BY <2>2, <2>3 DEF RelationInv, RelationsTyped
  <2>5. CreationsApart'
    BY <2>2 DEF RelationInv, CreationsApart
  <2>6. GraphTyped' /\ EdgesSoFar' /\ SeenNow'
    BY <2>2, <2>3, NotesGoOn DEF RelationInv, GraphTyped
  <2>. QED BY <2>2, <2>4, <2>5, <2>6, ReadersStay DEF RelationInv
<1>. QED BY <1>1, <1>2

\* An actor takes its relationships along, and a graph under way still has their pairs.
LEMMA DeleteActorKeeps ==
  ASSUME RelationInv, MaxObservations \in Nat, MaxRelationships \in Nat, comparison.stage # "answered",
         NEW actor \in Actors, Rel!DeleteActor(actor)
  PROVE  RelationInv'
<1>. DEFINE gone == {r \in Rel!Live : actor \in relationships[r].pair}
<1>1. /\ relationships' = [r \in Rel!Ids |-> IF r \in gone
                             THEN [relationships[r] EXCEPT !.state = "deleted"]
                             ELSE relationships[r]]
      /\ observations' = [r \in Rel!Ids |-> IF r \in gone THEN {} ELSE observations[r]]
      /\ creating' \subseteq creating /\ graph' = Rel!Notes(observations')
      /\ UNCHANGED <<assessing, started, relationshipClock, comparison>>
  BY DEF Rel!DeleteActor
<1>2. \A r \in Rel!Ids :
        /\ DOMAIN relationships'[r] = {"state", "pair", "type"}
        /\ relationships'[r].pair = relationships[r].pair
        /\ relationships'[r].state = IF r \in gone THEN "deleted" ELSE relationships[r].state
        /\ relationships[r].state = "unused" => r \notin gone
  BY <1>1 DEF RelationInv, RelationsTyped, Rel!Live
<1>3. observations' \in [Rel!Ids -> SUBSET [at: 1..MaxObservations, score: Int]]
  BY <1>1 DEF RelationInv, RelationsTyped
<1>4. RelationsTyped'
  BY <1>1, <1>2, <1>3 DEF RelationInv, RelationsTyped
<1>5. CreationsApart'
  <2>1. \A c \in creating' : c \in creating /\ c.id \in Rel!Ids
    BY <1>1 DEF RelationInv, CreationsApart, RelationsTyped, Rel!Ids
  <2>. QED BY <1>1, <1>2, <2>1 DEF RelationInv, CreationsApart
<1>6. GraphTyped' /\ EdgesSoFar' /\ SeenNow'
  <2>1. \A r \in Rel!Listed : /\ relationships'[r].pair = relationships[r].pair
                              /\ relationships'[r].state # "unused"
    BY <1>2 DEF RelationInv, GraphTyped
  <2>. QED BY <1>1, <1>3, <2>1, NotesGoOn
<1>. QED BY <1>1, <1>4, <1>5, <1>6, ReadersStay DEF RelationInv

\* Readers and failures leave the rows alone.
LEMMA RowsStay ==
  ASSUME RelationInv, creating' \subseteq creating, assessing' \subseteq assessing,
         UNCHANGED <<relationships, observations, started, relationshipClock>>
  PROVE  RelationsTyped' /\ CreationsApart'
BY DEF RelationInv, RelationsTyped, CreationsApart

LEMMA GraphStays ==
  ASSUME RelationInv, UNCHANGED <<relationships, observations, graph>>
  PROVE  GraphTyped' /\ EdgesSoFar' /\ SeenNow'
<1>1. SeenNow'
  BY DEF RelationInv, SeenNow, Rel!Listed
<1>. QED BY <1>1, GraphGoesOn DEF RelationInv, GraphTyped

LEMMA GraphStepsKeep ==
  ASSUME RelationInv, MaxRelationships \in Nat, Rel!List \/ Rel!AddEdge \/ Rel!Answer
  PROVE  RelationInv'
<1>. SUFFICES GraphTyped' /\ EdgesSoFar' /\ SeenNow'
  BY RowsStay, ReadersStay DEF Rel!List, Rel!AddEdge, Rel!Answer, RelationInv
<1>1. CASE Rel!List
  <2>. DEFINE seen == [r \in Rel!Live |-> {Rel!Weight(Rel!Latest(observations[r]))}]
  <2>1. /\ graph' = [Rel!NoGraph EXCEPT !.stage = "building", !.todo = Rel!Live, !.seen = seen]
        /\ Rel!Live # {} /\ relationships' = relationships /\ observations' = observations
    BY <1>1 DEF Rel!List
  <2>2. /\ DOMAIN graph' = {"stage", "todo", "edges", "seen"} /\ graph'.stage = "building"
        /\ graph'.todo = Rel!Live /\ DOMAIN graph'.edges = {} /\ graph'.seen = seen
    BY <2>1 DEF Rel!NoGraph
  <2>3. Rel!Listed' = Rel!Live /\ Done' = {}
    BY <2>2 DEF Rel!Listed, Done
  <2>4. SeenNow'
    BY <2>1, <2>2, <2>3 DEF SeenNow
  <2>. QED BY <2>1, <2>2, <2>3, <2>4 DEF GraphTyped, EdgesSoFar, Rel!Live
<1>2. CASE Rel!AddEdge
  <2>. DEFINE r == Rel!Newest(graph.todo)
              weight == Rel!Weight(Rel!Latest(observations[r]))
              rest == graph.todo \ {r}
              pair == relationships[r].pair
              edges == [p \in DOMAIN graph.edges \cup {pair} |->
                          IF p = pair THEN [id |-> r, weight |-> weight] ELSE graph.edges[p]]
              stage == IF rest = {} THEN "built" ELSE "building"
  <2>1. /\ graph' = [graph EXCEPT !.todo = rest, !.stage = stage, !.edges = edges]
        /\ graph.stage = "building" /\ relationships' = relationships
        /\ observations' = observations
    BY <1>2 DEF Rel!AddEdge, RelationInv, GraphTyped
  <2>2. /\ DOMAIN graph' = {"stage", "todo", "edges", "seen"} /\ graph'.stage = stage
        /\ graph'.todo = rest /\ graph'.edges = edges /\ graph'.seen = graph.seen
    BY <2>1 DEF RelationInv, GraphTyped
  <2>3. r \in graph.todo /\ \A t \in graph.todo : t <= r
    <3>1. graph.todo # {} /\ graph.todo \in SUBSET (0..MaxRelationships)
      BY <2>1 DEF RelationInv, GraphTyped, Rel!Ids
    <3>2. Max(graph.todo) \in graph.todo /\ \A t \in graph.todo : t <= Max(graph.todo)
      BY <3>1, GreatestOf
    <3>3. r = Max(graph.todo)
      BY DEF Rel!Newest, Rel!Max, Max
    <3>. QED BY <3>2, <3>3
  <2>4. weight \in graph.seen[r] /\ r \in Rel!Listed /\ Rel!Listed \subseteq Nat
    BY <2>1, <2>3 DEF RelationInv, GraphTyped, SeenNow, Rel!Ids
  <2>5. Rel!Listed' = Rel!Listed /\ Done' = Done \cup {r} /\ r \notin Done
    BY <2>2, <2>3, <2>4 DEF Rel!Listed, Done
  <2>. HIDE DEF r, weight
  <2>6. \A x \in Done : r < x /\ x \in Nat
    BY <2>3, <2>4 DEF RelationInv, GraphTyped, Done
  <2>6a. r \in Nat /\ \A x \in Done' : x = r \/ x \in Done
    BY <2>4, <2>5
  <2>7. GraphTyped'
    <3>1. \A x \in Done', t \in rest : t < x
      <4>1. \A t \in rest : t \in Nat /\ t < r
        <5>1. \A t \in graph.todo : t \in Nat
          BY <2>4 DEF RelationInv, GraphTyped
        <5>. QED BY <2>3, <2>6a, <5>1
      <4>2. \A x \in Done, t \in rest : t < x
        BY DEF RelationInv, GraphTyped
      <4>. HIDE DEF rest
      <4>. QED BY <2>6a, <4>1, <4>2
    <3>2. stage = "building" <=> rest # {}
      OBVIOUS
    <3>. HIDE DEF stage, rest
    <3>3. rest \subseteq Rel!Listed /\ stage \in {"none", "building", "built"}
      BY DEF RelationInv, GraphTyped, rest, stage
    <3>. QED BY <2>1, <2>2, <2>5, <3>1, <3>2, <3>3 DEF RelationInv, GraphTyped
  <2>8. DOMAIN graph'.edges = {relationships'[x].pair : x \in Done'}
    BY <2>1, <2>2, <2>5 DEF RelationInv, EdgesSoFar
  <2>9. ASSUME NEW p \in DOMAIN graph'.edges
        PROVE  /\ graph'.edges[p].id \in Done'
               /\ graph'.edges[p].weight \in graph'.seen[graph'.edges[p].id]
               /\ relationships'[graph'.edges[p].id].pair = p
               /\ \A x \in Done' : relationships'[x].pair = p => graph'.edges[p].id <= x
    <3>1. CASE p = pair
      <4>1. graph'.edges[p] = [id |-> r, weight |-> weight]
        BY <2>2, <3>1
      <4>2. \A x \in Done' : r <= x
        BY <2>6, <2>6a
      <4>. QED BY <2>1, <2>2, <2>4, <2>5, <3>1, <4>1, <4>2
    <3>2. CASE p # pair
      <4>1. graph'.edges[p] = graph.edges[p] /\ p \in DOMAIN graph.edges
        BY <2>2, <2>9, <3>2
      <4>. QED BY <2>1, <2>2, <2>5, <3>2, <4>1 DEF RelationInv, EdgesSoFar
    <3>. QED BY <3>1, <3>2
  <2>10. EdgesSoFar'
    BY <2>8, <2>9 DEF EdgesSoFar
  <2>11. SeenNow'
    BY <2>1, <2>2, <2>5 DEF RelationInv, SeenNow
  <2>. QED BY <2>7, <2>10, <2>11
<1>3. CASE Rel!Answer
  <2>1. graph' = Rel!NoGraph
    BY <1>3 DEF Rel!Answer
  <2>2. /\ DOMAIN graph' = {"stage", "todo", "edges", "seen"} /\ graph'.stage = "none"
        /\ graph'.todo = {} /\ DOMAIN graph'.edges = {} /\ Rel!Listed' = {}
    BY <2>1 DEF Rel!NoGraph, Rel!Listed
  <2>. QED BY <2>2 DEF GraphTyped, EdgesSoFar, SeenNow, Done
<1>. QED BY <1>1, <1>2, <1>3

\* An answer's two observations are neighbours, for the second is the latest before the
\* first, and a trend is told by scores that differ.
LEMMA ComparisonStepsKeep ==
  ASSUME RelationInv, MaxObservations \in Nat,
         \/ \E r \in Rel!Ids : Rel!ReadLatest(r)
         \/ Rel!ReadPrevious \/ Rel!Compared
  PROVE  RelationInv'
<1>. SUFFICES ComparisonTyped' /\ Rel!ComparisonsAreTrue'
  BY RowsStay, GraphStays DEF Rel!ReadLatest, Rel!ReadPrevious, Rel!Compared, RelationInv
<1>1. ASSUME NEW r \in Rel!Ids, Rel!ReadLatest(r)
      PROVE  ComparisonTyped' /\ Rel!ComparisonsAreTrue'
  <2>1. PICK asOf \in 0..relationshipClock :
          /\ {o \in observations[r] : o.at <= asOf} # {}
          /\ comparison' = [Rel!NoComparison EXCEPT !.stage = "current", !.id = r,
               !.current = Rel!Latest({o \in observations[r] : o.at <= asOf})]
    BY <1>1 DEF Rel!ReadLatest
  <2>. DEFINE known == {o \in observations[r] : o.at <= asOf}
  <2>2. known \in SUBSET [at: 1..MaxObservations, score: Int]
    BY DEF RelationInv, RelationsTyped
  <2>3. Rel!Latest(known) \in [at: 1..MaxObservations, score: Int]
    BY <2>1, <2>2, LatestOf
  <2>4. /\ DOMAIN comparison' = {"stage", "id", "current", "previous"}
        /\ comparison'.stage = "current" /\ comparison'.id = r
        /\ comparison'.current = Rel!Latest(known)
    BY <2>1 DEF Rel!NoComparison
  <2>. HIDE DEF known
  <2>. QED BY <2>3, <2>4 DEF ComparisonTyped, Rel!ComparisonsAreTrue
<1>2. CASE Rel!ReadPrevious
  <2>. DEFINE r == comparison.id
              current == comparison.current
              before == {o \in observations[r] : o.at < current.at}
              previous == Rel!Latest(before)
  <2>1. /\ comparison.stage = "current" /\ observations' = observations
        /\ comparison' = [comparison EXCEPT !.stage = "answered", !.previous = previous]
    BY <1>2 DEF Rel!ReadPrevious
  <2>2. /\ DOMAIN comparison' = {"stage", "id", "current", "previous"}
        /\ comparison'.stage = "answered" /\ comparison'.id = r
        /\ comparison'.current = current /\ comparison'.previous = previous
    BY <2>1 DEF RelationInv, ComparisonTyped
  <2>3. r \in Rel!Ids /\ current.at \in 1..MaxObservations /\ current.score \in Int
    BY <2>1 DEF RelationInv, ComparisonTyped
  <2>4. /\ before \in SUBSET [at: 1..MaxObservations, score: Int]
        /\ observations[r] \in SUBSET [at: 1..MaxObservations, score: Int]
    BY <2>3 DEF RelationInv, RelationsTyped
  <2>5. /\ previous.at < current.at /\ previous.score \in Int
        /\ \A o \in before : o.at <= previous.at
        /\ previous.at \in Nat
    <3>1. CASE before = {}
      <4>1. previous = Rel!NoObservation
        BY <3>1 DEF Rel!Latest
      <4>. QED BY <2>3, <3>1, <4>1 DEF Rel!NoObservation, Rel!NoScore
    <3>2. CASE before # {}
      <4>1. previous \in before /\ \A o \in before : o.at <= previous.at
        BY <2>4, <3>2, LatestOf
      <4>. HIDE DEF previous
      <4>. QED BY <2>4, <4>1
    <3>. QED BY <3>1, <3>2
  <2>. HIDE DEF previous
  <2>6. ~\E o \in observations'[r] : previous.at < o.at /\ o.at < current.at
    BY <2>1, <2>4, <2>5
  <2>. HIDE DEF current, r
  <2>7. ASSUME previous.score # Rel!NoScore, current.score # Rel!NoScore
        PROVE  /\ Rel!Trend(current, previous) = "rising" => previous.score < current.score
               /\ Rel!Trend(current, previous) = "falling" => current.score < previous.score
    <3>1. Rel!Trend(current, previous) =
            CASE current.score - previous.score > 2 -> "rising"
              [] current.score - previous.score < -2 -> "falling"
              [] OTHER -> "stable"
      BY <2>3, <2>5, <2>7 DEF Rel!Trend
    <3>2. Rel!Trend(current, previous) = "rising" => current.score - previous.score > 2
      BY <3>1
    <3>3. Rel!Trend(current, previous) = "falling" => current.score - previous.score < -2
      BY <2>3, <2>5, <3>1
    <3>. QED BY <2>3, <2>5, <3>2, <3>3 DEF current
  <2>. QED BY <2>2, <2>5, <2>6, <2>7 DEF ComparisonTyped, Rel!ComparisonsAreTrue
<1>3. CASE Rel!Compared
  <2>1. comparison' = Rel!NoComparison
    BY <1>3 DEF Rel!Compared
  <2>. QED BY <2>1 DEF Rel!NoComparison, ComparisonTyped, Rel!ComparisonsAreTrue
<1>. QED BY <1>1, <1>2, <1>3

LEMMA NextRelationInv ==
  ASSUME RelationInv, MaxObservations \in Nat, MaxRelationships \in Nat, RelationScores \subseteq Int,
         [Rel!Next]_Rel!vars
  PROVE  RelationInv'
<1>1. CASE Rel!Fail
  BY <1>1, RowsStay, GraphStays, ReadersStay DEF Rel!Fail, RelationInv
<1>2. CASE UNCHANGED Rel!vars
  BY <1>2, RowsStay, GraphStays, ReadersStay DEF Rel!vars, RelationInv
<1>. QED BY <1>1, <1>2, CreationKeeps, ObservationKeeps, DeleteActorKeeps, GraphStepsKeep,
            ComparisonStepsKeep DEF Rel!Next

\* build_actor_graph and the comparison of a relationship's last two observations, for any
\* relationships, recorded, deleted and read in any order: every edge is the oldest
\* relationship's of its pair with a weight it had while the graph was built, and a
\* comparison is of neighbours, its trend of the sign of their difference.
LEMMA ReadingsAreTrue ==
  ASSUME RelationInv
  PROVE  Rel!ReadsAreTrue
<1>1. ASSUME graph.stage = "built" PROVE Done = Rel!Listed
  BY <1>1 DEF RelationInv, GraphTyped, Done
<1>2. Rel!EdgesAreTrue
  BY <1>1 DEF RelationInv, EdgesSoFar, Rel!EdgesAreTrue
<1>. QED BY <1>2 DEF RelationInv, Rel!ReadsAreTrue

\* Whatever is written between the reads of an actor graph, of a comparison or of the
\* resolution of a mention, the answer is true of what did not change meanwhile: every
\* edge is the oldest relationship's of its pair with a weight it had while the graph was
\* built; compared observations are neighbours, their trend of the sign of their
\* difference; a mention is linked only to an actor that bears it or is clearly the
\* nearest, and queued only if there is none, with all that are near.
THEOREM AnswersStayTrue == DeskSpec => []AnswersAreTrue
<1>. DEFINE Held == /\ component = "relationships" => RelationInv
                    /\ component = "registry" => RegistryInv
<1>1. DeskInit => Held
  BY InitRelationInv, InitRegistryInv, DeskAssumption DEF DeskInit
<1>2. Held /\ [DeskNext]_deskVars => Held'
  BY OneMoves, NextRelationInv, NextRegistryInv, DeskAssumption
<1>3. Held => AnswersAreTrue
  BY ReadingsAreTrue DEF RegistryInv, AnswersAreTrue
<1>. QED BY <1>1, <1>2, <1>3, PTL DEF DeskSpec

-----------------------------------------------------------------------------
(* Types of the crawl.                                                     *)

CrawlFits == fetch.left <= MaxRedirects + 1 /\ crawl.articles \subseteq crawl.discovered

LEMMA CrawlFitsAlways ==
  ASSUME MaxRedirects \in Nat, CrawlInv
  PROVE  /\ Cr!Init => CrawlFits
         /\ CrawlFits /\ [Cr!Next]_Cr!vars => CrawlFits'
<1>1. Cr!Init => CrawlFits
  BY DEF Cr!Init, Cr!NoCrawl, Cr!Quiet, CrawlFits
<1>. SUFFICES ASSUME CrawlFits, [Cr!Next]_Cr!vars PROVE CrawlFits'
  BY <1>1
<1>2. fetch.left \in Nat /\ crawl \in CrawlState
  BY DEF CrawlInv, CrawlTyped
<1>3. CASE Cr!Start
  BY <1>3 DEF Cr!Start, Cr!FetchOf, Cr!NoCrawl, CrawlFits
<1>4. CASE Cr!Redirect
  BY <1>2, <1>4 DEF Cr!Redirect, Cr!Hop, CrawlFits
<1>5. CASE \E made \in 0..1 : Cr!GiveUp(made)
  BY <1>2, <1>5 DEF Cr!GiveUp, Cr!NoCrawl, Cr!Quiet, CrawlState, CrawlFits
<1>6. CASE Cr!Discover
  <2>1. crawl.articles = {} \/ crawl.articles \subseteq crawl.discovered
    BY DEF CrawlFits
  <2>2. crawl.articles = {}
    BY <1>6, <2>1 DEF Cr!Discover, CrawlInv
  <2>. QED BY <1>2, <1>6, <2>2 DEF Cr!Discover, Cr!Quiet, CrawlState, CrawlFits
<1>7. CASE Cr!Extract
  <2>1. crawl.page \in crawl.discovered
    BY <1>7 DEF Cr!Extract, CrawlInv, Scraped
  <2>. QED BY <1>2, <1>7, <2>1 DEF Cr!Extract, Cr!Quiet, CrawlState, CrawlFits
<1>8. CASE Cr!Finish
  BY <1>2, <1>8 DEF Cr!Finish, CrawlState, CrawlFits
<1>9. ASSUME NEW page \in Siblings, Cr!Scrape(page) PROVE CrawlFits'
  BY <1>2, <1>9 DEF Cr!Scrape, Cr!FetchOf, CrawlState, CrawlFits
<1>10. CASE UNCHANGED Cr!vars
  BY <1>10 DEF Cr!vars, CrawlFits
<1>. QED BY <1>3, <1>4, <1>5, <1>6, <1>7, <1>8, <1>9, <1>10 DEF Cr!Next, Cr!Refuse, Cr!Stop

LEMMA CrawlTypes == MaxRedirects \in Nat /\ CrawlInv /\ CrawlFits => Cr!TypeOK
<1>. SUFFICES ASSUME MaxRedirects \in Nat, CrawlInv, CrawlFits PROVE Cr!TypeOK
  OBVIOUS
<1>1. fetch \in [url: Cr!URLs, left: 0..MaxRedirects + 1]
  BY DEF CrawlInv, CrawlTyped, CrawlFits
<1>. QED BY <1>1 DEF CrawlInv, CrawlTyped, CrawlState, CrawlFits, Cr!TypeOK

-----------------------------------------------------------------------------
(* Types of investigations.                                                *)

\* What a request has launched has no row before its commit, and nobody else's; a worker
\* is at a case that has or had one, and only such a case has briefs.
BriefsWithin ==
  /\ briefs \in [Cases -> 0..MaxBriefs]
  /\ \A c \in Cases : cases[c].state = "unused" => briefs[c] = 0
  /\ \A s \in Sessions :
       /\ session[s].owner = "request" => cases[session[s].case].state = "unused"
       /\ session[s].owner = "worker" => cases[session[s].case].state # "unused"
  /\ \A s, z \in Sessions :
       s # z /\ session[s].owner = "request" /\ session[z].owner # Inv!None =>
         session[s].case # session[z].case

LEMMA StoredState ==
  ASSUME NEW row \in Inv!CaseType, NEW w
  PROVE  Inv!Stored(row, w).state = row.state
<1>1. DOMAIN row = {"state", "status", "steps", "output", "result", "linked"}
  BY DEF Inv!CaseType
<1>2. DOMAIN Inv!Image(row, w) = DOMAIN row /\ Inv!Image(row, w).state = row.state
  BY <1>1 DEF Inv!Image
<1>3. Inv!Failed(Inv!Image(row, w)).state = Inv!Image(row, w).state
  BY <1>1, <1>2 DEF Inv!Failed
<1>. QED BY <1>2, <1>3 DEF Inv!Stored

\* A commit of s leaves a case that has a row, and one brief more at most.
LEMMA CommitBriefs ==
  ASSUME MaxBriefs \in Nat \ {0}, ExecutionsFound, BriefsWithin, NEW s \in Sessions,
         Inv!RequestCommits(s) \/ Inv!WorkerCommits(s)
  PROVE  BriefsWithin'
<1>. DEFINE c == session[s].case
            w == session[s]
<1>1. c \in Cases /\ w.at \in 0..9
  BY CommitStores DEF ExecutionsFound, ExecutionRow, Inv!Last
<1>2. /\ [Inv!Unused EXCEPT !.state = "live"] \in Inv!CaseType
      /\ [Inv!Unused EXCEPT !.state = "live"].state = "live"
      /\ Inv!Idle.owner = Inv!None
  BY DEF Inv!Unused, Inv!CaseType, Inv!Statuses, Inv!Idle
<1>3. cases[c] \in Inv!CaseType
  BY <1>1 DEF ExecutionsFound
<1>4. PICK row \in Inv!CaseType :
        /\ row.state # "unused"
        /\ cases' = [cases EXCEPT ![c] = Inv!Stored(row, w)]
  BY <1>2, <1>3 DEF Inv!RequestCommits, Inv!WorkerCommits, BriefsWithin
<1>5. /\ briefs' = [briefs EXCEPT ![c] = Inv!Briefs(c, w)]
      /\ session' = [session EXCEPT ![s] = Inv!Idle]
      /\ w.owner # Inv!None
  BY DEF Inv!RequestCommits, Inv!WorkerCommits, Inv!None
<1>6. Inv!Briefs(c, w) \in 0..MaxBriefs
  <2>1. briefs[c] \in 0..MaxBriefs
    BY <1>1 DEF BriefsWithin
  <2>2. briefs[c] + 1 \in 0..MaxBriefs
    <3>1. CASE Inv!RequestCommits(s)
      BY <1>1, <3>1, <2>1 DEF BriefsWithin, Inv!RequestCommits
    <3>2. CASE Inv!WorkerCommits(s)
      BY <3>2, <2>1 DEF Inv!WorkerCommits
    <3>. QED BY <3>1, <3>2
  <2>. QED BY <2>1, <2>2 DEF Inv!Briefs
<1>7. Inv!Stored(row, w).state # "unused"
  BY <1>4, StoredState
<1>. HIDE DEF w
<1>8. /\ \A d \in Cases : cases'[d] = IF d = c THEN Inv!Stored(row, w) ELSE cases[d]
      /\ \A z \in Sessions : session'[z] = IF z = s THEN Inv!Idle ELSE session[z]
      /\ \A d \in Cases : briefs'[d] = IF d = c THEN Inv!Briefs(c, w) ELSE briefs[d]
      /\ briefs' \in [Cases -> 0..MaxBriefs]
  BY <1>1, <1>4, <1>5, <1>6 DEF ExecutionsFound, BriefsWithin
<1>9. \A z \in Sessions : z # s /\ session[z].owner # Inv!None => session[z].case \in Cases
  BY DEF ExecutionsFound
<1>10. Inv!None # "request" /\ Inv!None # "worker"
  BY DEF Inv!None
<1>11. \A z \in Sessions : z # s /\ session[z].owner = "request" => session[z].case # c
  BY <1>5, <1>10 DEF BriefsWithin, w
<1>. HIDE DEF c
<1>12. \A d \in Cases : cases'[d].state = "unused" => briefs'[d] = 0
  BY <1>7, <1>8 DEF BriefsWithin
<1>13. \A z \in Sessions :
       /\ session'[z].owner = "request" => cases'[session'[z].case].state = "unused"
       /\ session'[z].owner = "worker" => cases'[session'[z].case].state # "unused"
  <2>. SUFFICES ASSUME NEW z \in Sessions, session'[z].owner # Inv!None
                PROVE  /\ session'[z].owner = "request" => cases'[session'[z].case].state = "unused"
                       /\ session'[z].owner = "worker" => cases'[session'[z].case].state # "unused"
    BY <1>10
  <2>1. z # s /\ session'[z] = session[z] /\ session[z].case \in Cases
    BY <1>2, <1>8, <1>9
  <2>. QED BY <1>7, <1>8, <1>10, <1>11, <2>1 DEF BriefsWithin
<1>14. \A y, z \in Sessions :
         y # z /\ session'[y].owner = "request" /\ session'[z].owner # Inv!None =>
           session'[y].case # session'[z].case
  BY <1>2, <1>8, <1>10 DEF BriefsWithin
<1>. QED BY <1>8, <1>12, <1>13, <1>14 DEF BriefsWithin

\* Steps of a session, but for its commit, write no row.
LEMMA SessionBriefs ==
  ASSUME ExecutionsFound, BriefsWithin, NEW s \in Sessions,
         \/ \E c \in Cases : Inv!Launch(s, c) \/ Inv!WorkerStarts(s, c)
         \/ Inv!Advance(s) \/ Inv!Raises(s) \/ Inv!Aborts(s)
  PROVE  BriefsWithin'
<1>1. cases' = cases /\ briefs' = briefs
  BY SessionStepsKeep
<1>2. Inv!None # "request" /\ Inv!None # "worker" /\ Inv!Idle.owner = Inv!None
  BY DEF Inv!None, Inv!Idle
<1>3. /\ \A z \in Sessions \ {s} : session'[z] = session[z]
      /\ \A z \in Sessions : session[z].owner # Inv!None => session[z].case \in Cases
  <2>1. \E w : session' = [session EXCEPT ![s] = w]
    <3>1. CASE \E c \in Cases : Inv!Launch(s, c) \/ Inv!WorkerStarts(s, c)
      BY <3>1 DEF Inv!Launch, Inv!WorkerStarts
    <3>2. CASE Inv!Advance(s)
      BY <3>2 DEF Inv!Advance, ExecutionsFound
    <3>3. CASE Inv!Raises(s) \/ Inv!Aborts(s)
      BY <3>3 DEF Inv!Raises, Inv!Aborts, ExecutionsFound
    <3>. QED BY <3>1, <3>2, <3>3
  <2>2. PICK w : session' = [session EXCEPT ![s] = w]
    BY <2>1
  <2>3. DOMAIN session = Sessions
    BY DEF ExecutionsFound
  <2>4. \A z \in Sessions \ {s} : session'[z] = session[z]
    BY <2>2, <2>3
  <2>. QED BY <2>4 DEF ExecutionsFound
<1>4. CASE session'[s].owner = session[s].owner /\ session'[s].case = session[s].case
  BY <1>1, <1>3, <1>4 DEF BriefsWithin
<1>5. CASE session'[s].owner = Inv!None
  BY <1>1, <1>2, <1>3, <1>5 DEF BriefsWithin
<1>6. ASSUME NEW c \in Cases, Inv!Launch(s, c) PROVE BriefsWithin'
  <2>1. session'[s].owner = "request" /\ session'[s].case = c
    BY <1>6 DEF Inv!Launch, Inv!Idle, ExecutionsFound
  <2>2. cases[c].state = "unused" /\ \A z \in Sessions : session[z].case # c
    BY <1>6 DEF Inv!Launch
  <2>. QED BY <1>1, <1>3, <2>1, <2>2 DEF BriefsWithin
<1>7. ASSUME NEW c \in Cases, Inv!WorkerStarts(s, c) PROVE BriefsWithin'
  <2>1. session'[s].owner = "worker" /\ session'[s].case = c
    BY <1>7 DEF Inv!WorkerStarts, Inv!Idle, ExecutionsFound
  <2>2. cases[c].state = "live"
    BY <1>7 DEF Inv!WorkerStarts
  <2>. QED BY <1>1, <1>3, <2>1, <2>2 DEF BriefsWithin
<1>8. CASE Inv!Advance(s)
  <2>1. session'[s].owner = session[s].owner /\ session'[s].case = session[s].case
    <3>1. PICK found : session' = [session EXCEPT ![s].at = session[s].at + 1, ![s].found = found]
      BY <1>8 DEF Inv!Advance
    <3>2. /\ DOMAIN session = Sessions
          /\ DOMAIN session[s] = {"owner", "case", "at", "found", "loaded", "raised"}
      BY DEF ExecutionsFound, ExecutionRow
    <3>. QED BY <3>1, <3>2
  <2>. QED BY <1>4, <2>1
<1>9. CASE Inv!Raises(s)
  <2>1. session'[s].owner = session[s].owner /\ session'[s].case = session[s].case
    BY <1>9 DEF Inv!Raises, ExecutionsFound
  <2>. QED BY <1>4, <2>1
<1>10. CASE Inv!Aborts(s)
  <2>1. session'[s].owner = Inv!None
    BY <1>2, <1>10 DEF Inv!Aborts, ExecutionsFound
  <2>. QED BY <1>5, <2>1
<1>. QED BY <1>6, <1>7, <1>8, <1>9, <1>10

\* An edit or a deletion is of a case that has a row, or takes a brief away.
LEMMA EditBriefs ==
  ASSUME MaxBriefs \in Nat, ExecutionsFound, BriefsWithin, NEW c \in Cases,
         Inv!Patch(c) \/ Inv!Delete(c) \/ Inv!DeleteBrief(c)
  PROVE  BriefsWithin'
<1>1. session' = session /\ \A d \in Cases \ {c} : cases'[d] = cases[d] /\ briefs'[d] = briefs[d]
  BY DEF Inv!Patch, Inv!Delete, Inv!DeleteBrief, ExecutionsFound, BriefsWithin
<1>2. cases[c].state # "unused"
  BY DEF Inv!Patch, Inv!Delete, Inv!DeleteBrief, BriefsWithin
<1>3. cases'[c].state # "unused"
  <2>1. cases[c] \in Inv!CaseType
    BY DEF ExecutionsFound
  <2>2. Inv!Deleted.state = "deleted"
    BY DEF Inv!Deleted, Inv!Unused
  <2>. QED BY <1>2, <2>1, <2>2 DEF Inv!Patch, Inv!Delete, Inv!DeleteBrief, Inv!CaseType, ExecutionsFound
<1>4. briefs' \in [Cases -> 0..MaxBriefs]
  <2>1. briefs[c] \in 0..MaxBriefs
    BY DEF BriefsWithin
  <2>. QED BY <2>1 DEF Inv!Patch, Inv!Delete, Inv!DeleteBrief, BriefsWithin
<1>5. \A s \in Sessions : session[s].owner # Inv!None => session[s].case \in Cases
  BY DEF ExecutionsFound
<1>6. Inv!None # "request" /\ Inv!None # "worker"
  BY DEF Inv!None
<1>. QED BY <1>1, <1>2, <1>3, <1>4, <1>5, <1>6 DEF BriefsWithin

LEMMA BriefsWithinAlways ==
  ASSUME MaxBriefs \in Nat \ {0}, ExecutionsFound
  PROVE  /\ Inv!Init => BriefsWithin
         /\ BriefsWithin /\ [Inv!Next]_Inv!vars => BriefsWithin'
<1>1. Inv!Init => BriefsWithin
  BY DEF Inv!Init, Inv!Unused, Inv!Idle, Inv!None, BriefsWithin
<1>2. BriefsWithin /\ UNCHANGED Inv!vars => BriefsWithin'
  BY DEF Inv!vars, BriefsWithin
<1>. QED BY <1>1, <1>2, CommitBriefs, SessionBriefs, EditBriefs DEF Inv!Next

LEMMA InvestigationTypes == ExecutionsFound /\ BriefsWithin => Inv!TypeOK
BY DEF ExecutionsFound, ExecutionRow, BriefsWithin, Inv!TypeOK, Inv!Findings, Inv!None

-----------------------------------------------------------------------------
(* Types of imagery.                                                       *)

\* What is live has a content, and what hangs in a bundle is live.
ContentsHold ==
  /\ \A i \in ImageIds : images[i].state = "live" => images[i].content \in Contents
  /\ \A q \in Requests : submission[q].stage # "none" => submission[q].content \in Contents
  /\ items \subseteq Bundles \X {i \in ImageIds : images[i].state = "live"}

LEMMA ContentsHoldAlways ==
  ASSUME ImagesTyped
  PROVE  /\ Img!Init => ContentsHold
         /\ ContentsHold /\ [Img!Next]_Img!vars => ContentsHold'
<1>1. Img!Init => ContentsHold
  BY DEF Img!Init, Img!Unused, Img!Quiet, ContentsHold
<1>. SUFFICES ASSUME ContentsHold, [Img!Next]_Img!vars PROVE ContentsHold'
  BY <1>1
<1>2. Img!Quiet.stage = "none"
  BY DEF Img!Quiet
\* A submission's own steps.
<1>3. ASSUME NEW q \in Requests, NEW w, submission' = [submission EXCEPT ![q] = w],
             w.stage # "none" => w.content \in Contents, UNCHANGED <<images, items>>
      PROVE  ContentsHold'
  <2>1. \A p \in Requests : submission'[p] = IF p = q THEN w ELSE submission[p]
    BY <1>3 DEF ImagesTyped
  <2>. QED BY <1>3, <2>1 DEF ContentsHold
<1>4. ASSUME NEW q \in Requests, NEW content \in Contents, Img!Fetch(q, content) PROVE ContentsHold'
  <2>1. PICK w : w = [Img!Quiet EXCEPT !.stage = "fetched", !.content = content]
    OBVIOUS
  <2>2. w.stage = "fetched" /\ w.content = content
    BY <2>1 DEF Img!Quiet
  <2>. QED BY <1>3, <1>4, <2>1, <2>2 DEF Img!Fetch, ContentsHold
<1>5. ASSUME NEW q \in Requests, Img!LookUp(q) PROVE ContentsHold'
  <2>1. PICK w : w = IF Img!SameContent(submission[q].content) # {} THEN Img!Quiet
                     ELSE [submission[q] EXCEPT !.stage = "new", !.seen = Img!Live]
    OBVIOUS
  <2>2. submission' = [submission EXCEPT ![q] = w]
    BY <1>5, <2>1 DEF Img!LookUp
  <2>3. submission[q] \in SubmissionRow /\ submission[q].content \in Contents
    BY <1>5 DEF ImagesTyped, ContentsHold, Img!LookUp
  <2>4. w = Img!Quiet \/ (w.stage = "new" /\ w.content = submission[q].content)
    BY <2>1, <2>3 DEF SubmissionRow
  <2>. QED BY <1>2, <1>3, <1>5, <2>2, <2>3, <2>4 DEF Img!LookUp, ContentsHold
<1>7. ASSUME NEW q \in Requests, Img!Fail(q) PROVE ContentsHold'
  BY <1>2, <1>3, <1>7 DEF Img!Fail, ContentsHold
<1>8. ASSUME NEW q \in Requests, Img!Store(q) PROVE ContentsHold'
  <2>. DEFINE new == CHOOSE i \in Img!Fresh : TRUE
              row == [Img!Unused EXCEPT !.state = "live", !.content = submission[q].content,
                                        !.seen = submission[q].seen]
  <2>1. new \in ImageIds /\ images[new].state = "unused"
    <3>1. new \in Img!Fresh
      BY <1>8 DEF Img!Store
    <3>. QED BY <3>1 DEF Img!Fresh
  <2>2. row.state = "live" /\ row.content = submission[q].content
    BY DEF Img!Unused
  <2>3. images' = [images EXCEPT ![new] = row]
    BY <1>8 DEF Img!Store
  <2>4. submission[q].content \in Contents
    BY <1>8 DEF Img!Store, ContentsHold
  <2>. HIDE DEF new, row
  <2>5. \A i \in ImageIds : images'[i] = IF i = new THEN row ELSE images[i]
    BY <2>1, <2>3 DEF ImagesTyped
  <2>6. {i \in ImageIds : images[i].state = "live"} \subseteq {i \in ImageIds : images'[i].state = "live"}
    BY <2>1, <2>5
  <2>7. \A p \in Requests : submission'[p] = IF p = q THEN Img!Quiet ELSE submission[p]
    BY <1>8 DEF Img!Store, ImagesTyped
  <2>8. UNCHANGED items
    BY <1>8 DEF Img!Store
  <2>9. items' \subseteq Bundles \X {i \in ImageIds : images'[i].state = "live"}
    BY <2>6, <2>8 DEF ContentsHold
  <2>10. \A i \in ImageIds : images'[i].state = "live" => images'[i].content \in Contents
    BY <2>2, <2>4, <2>5, <2>8 DEF ContentsHold
  <2>. QED BY <1>2, <2>7, <2>8, <2>9, <2>10 DEF ContentsHold
<1>9. ASSUME NEW i \in ImageIds, Img!Patch(i) PROVE ContentsHold'
  <2>1. \A j \in ImageIds : images'[j].state = images[j].state /\ images'[j].content = images[j].content
    BY <1>9 DEF Img!Patch, ImagesTyped, ImageRow
  <2>2. UNCHANGED <<items, submission>>
    BY <1>9 DEF Img!Patch
  <2>. QED BY <2>1, <2>2 DEF ContentsHold
<1>10. ASSUME NEW i \in ImageIds, NEW b \in Bundles, Img!LinkToBundle(i, b) PROVE ContentsHold'
  BY <1>10 DEF Img!LinkToBundle, ContentsHold
<1>11. ASSUME NEW i \in ImageIds, Img!Delete(i) PROVE ContentsHold'
  <2>1. \A j \in ImageIds : images'[j] = IF j = i THEN Img!Deleted ELSE images[j]
    BY <1>11 DEF Img!Delete, ImagesTyped
  <2>2. Img!Deleted.state = "deleted"
    BY DEF Img!Deleted, Img!Unused
  <2>3. /\ UNCHANGED submission
        /\ items' = {x \in items : x[2] # i}
    BY <1>11 DEF Img!Delete
  <2>4. items' \subseteq Bundles \X {j \in ImageIds : images'[j].state = "live"}
    BY <2>1, <2>3 DEF ContentsHold
  <2>. QED BY <2>1, <2>2, <2>3, <2>4 DEF ContentsHold
<1>12. CASE UNCHANGED Img!vars
  BY <1>12 DEF Img!vars, ContentsHold
<1>. QED BY <1>4, <1>5, <1>7, <1>8, <1>9, <1>10, <1>11, <1>12 DEF Img!Next

LEMMA ImageTypes == ImagesTyped /\ ContentsHold => Img!TypeOK
<1>. SUFFICES ASSUME ImagesTyped, ContentsHold PROVE Img!TypeOK
  OBVIOUS
<1>1. /\ \A i \in ImageIds : images[i] \in ImageRow
      /\ \A q \in Requests : submission[q] \in SubmissionRow
  BY DEF ImagesTyped
<1>. QED BY <1>1 DEF ImageRow, SubmissionRow, ContentsHold, Img!TypeOK

-----------------------------------------------------------------------------
(* Types of forecasts.                                                     *)

Asked == Issued \cup Edited

Rated(brier) ==
  brier = Fc!NoScore \/ \E p \in Asked, o \in {"yes", "no"} : brier = Fc!BrierScore(p, o)

\* A forecast that was issued has one of the probabilities of its issue and its edits;
\* a score is made with an outcome.
ForecastOK(row) ==
  /\ DOMAIN row = {"state", "probability", "status", "outcome", "brier"}
  /\ row.state \in {"unused", "live", "deleted"}
  /\ row.probability \in Asked \cup {0}
  /\ row.state = "live" => row.probability \in Asked
  /\ row.status \in Fc!Statuses
  /\ row.outcome \in Fc!Outcomes \cup {Fc!None}
  /\ Rated(row.brier)
  /\ row.outcome = Fc!None => row.brier = Fc!NoScore
  /\ row.state = "unused" => row.outcome = Fc!None

WritesOK(w) ==
  /\ w.status \in {"keep", "resolved"} /\ w.outcome \in Fc!Outcomes \cup {"keep"}
  /\ w.brier = Fc!Keep.brier \/ Rated(w.brier)

\* A resolution that leaves the outcome alone found one, and while the forecast lives it
\* keeps one.
ForecastsTyped ==
  /\ DOMAIN forecasts = ForecastIds /\ \A f \in ForecastIds : ForecastOK(forecasts[f])
  /\ DOMAIN forecastResolution = Requests
  /\ \A q \in Requests :
       LET f == forecastResolution[q].forecast
           w == forecastResolution[q].writes
       IN f # Fc!None =>
            /\ f \in ForecastIds /\ WritesOK(w)
            /\ forecasts[f].state # "unused"
            /\ w.outcome = "keep" /\ forecasts[f].state = "live" => forecasts[f].outcome # Fc!None
  /\ calibration.stage \in {"none", "half", "whole"}
  /\ DOMAIN calibration = {"stage", "resolved", "open", "moved"}
  /\ DOMAIN calibration.resolved \cup calibration.open \cup calibration.moved \subseteq ForecastIds

LEMMA BlankForecasts ==
  ASSUME NEW p \in Asked
  PROVE  /\ ForecastOK(Fc!Unused) /\ ForecastOK(Fc!Deleted)
         /\ Fc!Unused.state = "unused" /\ Fc!Deleted.state = "deleted"
         /\ ForecastOK([Fc!Unused EXCEPT !.state = "live", !.probability = p])
         /\ [Fc!Unused EXCEPT !.state = "live", !.probability = p].state = "live"
BY DEF ForecastOK, Fc!Unused, Fc!Deleted, Fc!Statuses, Rated

LEMMA UnusedForecast ==
  /\ ForecastOK(Fc!Unused) /\ ForecastOK(Fc!Deleted)
  /\ Fc!Unused.state = "unused" /\ Fc!Deleted.state = "deleted"
BY DEF ForecastOK, Fc!Unused, Fc!Deleted, Fc!Statuses, Rated

LEMMA InitForecastsTyped == Fc!Init => ForecastsTyped
<1>. SUFFICES ASSUME Fc!Init PROVE ForecastsTyped
  OBVIOUS
<1>1. /\ DOMAIN forecasts = ForecastIds /\ \A f \in ForecastIds : ForecastOK(forecasts[f])
  BY UnusedForecast DEF Fc!Init
<1>2. /\ DOMAIN forecastResolution = Requests
      /\ \A q \in Requests : forecastResolution[q].forecast = Fc!None
  BY DEF Fc!Init, Fc!Quiet
<1>3. /\ calibration.stage = "none"
      /\ DOMAIN calibration = {"stage", "resolved", "open", "moved"}
      /\ DOMAIN calibration.resolved = {} /\ calibration.open = {} /\ calibration.moved = {}
  BY DEF Fc!Init, Fc!NoReport
<1>. QED BY <1>1, <1>2, <1>3 DEF ForecastsTyped

\* The report's notes of what moves stay ids.
LEMMA MovesTyped ==
  ASSUME ForecastsTyped, NEW f \in ForecastIds, Fc!Moves(f)
  PROVE  /\ calibration'.stage = calibration.stage
         /\ DOMAIN calibration' = {"stage", "resolved", "open", "moved"}
         /\ DOMAIN calibration'.resolved \cup calibration'.open \cup calibration'.moved
              \subseteq ForecastIds
<1>1. CASE calibration.stage = "half"
  <2>1. calibration' = [calibration EXCEPT !.moved = calibration.moved \cup {f}]
    BY <1>1 DEF Fc!Moves
  <2>2. /\ DOMAIN calibration' = {"stage", "resolved", "open", "moved"}
        /\ calibration'.stage = calibration.stage /\ calibration'.resolved = calibration.resolved
        /\ calibration'.open = calibration.open /\ calibration'.moved = calibration.moved \cup {f}
    BY <2>1 DEF ForecastsTyped
  <2>. QED BY <2>2 DEF ForecastsTyped
<1>2. CASE calibration.stage # "half"
  BY <1>2 DEF Fc!Moves, ForecastsTyped
<1>. QED BY <1>1, <1>2

\* A row is written that keeps an outcome it has, and is not unused.
LEMMA ForecastWritten ==
  ASSUME ForecastsTyped, NEW f \in ForecastIds, NEW row, ForecastOK(row), row.state # "unused",
         forecasts[f].state = "deleted" => row.state # "live",
         forecasts[f].outcome # Fc!None /\ row.state = "live" => row.outcome # Fc!None,
         forecasts' = [forecasts EXCEPT ![f] = row], Fc!Moves(f),
         \/ UNCHANGED forecastResolution
         \/ \E q \in Requests : forecastResolution' = [forecastResolution EXCEPT ![q] = Fc!Quiet]
  PROVE  ForecastsTyped'
<1>1. \A x \in ForecastIds : forecasts'[x] = IF x = f THEN row ELSE forecasts[x]
  BY DEF ForecastsTyped
<1>2. /\ DOMAIN forecasts' = ForecastIds /\ \A x \in ForecastIds : ForecastOK(forecasts'[x])
  BY <1>1 DEF ForecastsTyped
<1>3. /\ DOMAIN forecastResolution' = Requests
      /\ \A q \in Requests : \/ forecastResolution'[q] = forecastResolution[q]
                             \/ forecastResolution'[q].forecast = Fc!None
  <2>1. Fc!Quiet.forecast = Fc!None
    BY DEF Fc!Quiet
  <2>. QED BY <2>1 DEF ForecastsTyped
<1>4. ASSUME NEW q \in Requests, forecastResolution'[q].forecast # Fc!None
      PROVE  LET x == forecastResolution'[q].forecast
                 w == forecastResolution'[q].writes
             IN /\ x \in ForecastIds /\ WritesOK(w)
                /\ forecasts'[x].state # "unused"
                /\ w.outcome = "keep" /\ forecasts'[x].state = "live" => forecasts'[x].outcome # Fc!None
  <2>1. forecastResolution'[q] = forecastResolution[q] /\ forecastResolution[q].forecast # Fc!None
    BY <1>3, <1>4
  <2>2. forecasts[f].state \in {"unused", "live", "deleted"}
    BY DEF ForecastsTyped, ForecastOK
  <2>. QED BY <1>1, <2>1, <2>2 DEF ForecastsTyped
<1>. QED BY <1>2, <1>3, <1>4, MovesTyped DEF ForecastsTyped

\* A step of a resolution that writes no row.
LEMMA ResolutionTyped ==
  ASSUME ForecastsTyped, UNCHANGED <<forecasts, calibration>>, NEW q \in Requests, NEW r,
         forecastResolution' = [forecastResolution EXCEPT ![q] = r],
         r.forecast # Fc!None =>
           /\ r.forecast \in ForecastIds /\ WritesOK(r.writes)
           /\ forecasts[r.forecast].state # "unused"
           /\ r.writes.outcome = "keep" => forecasts[r.forecast].outcome # Fc!None
  PROVE  ForecastsTyped'
<1>1. /\ DOMAIN forecastResolution' = Requests
      /\ \A p \in Requests : forecastResolution'[p] = IF p = q THEN r ELSE forecastResolution[p]
  BY DEF ForecastsTyped
<1>. QED BY <1>1 DEF ForecastsTyped

\* What a resolution of a live forecast will write.
LEMMA WritesTyped ==
  ASSUME NEW row, ForecastOK(row), row.state = "live", NEW outcome \in Fc!Outcomes
  PROVE  LET w == Fc!Writes(row, outcome)
         IN WritesOK(w) /\ (w.outcome = "keep" => row.outcome # Fc!None)
<1>. DEFINE score == Fc!BrierScore(row.probability, outcome)
            w == Fc!Writes(row, outcome)
<1>1. Rated(score)
  <2>1. row.probability \in Asked
    BY DEF ForecastOK
  <2>2. CASE outcome = "ambiguous"
    BY <2>2 DEF Rated, Fc!BrierScore
  <2>3. CASE outcome \in {"yes", "no"}
    BY <2>1, <2>3 DEF Rated
  <2>. QED BY <2>2, <2>3 DEF Fc!Outcomes
<1>. HIDE DEF score
<1>2. Fc!Resolved(row, outcome) = [status |-> "resolved", outcome |-> outcome, brier |-> score]
  BY DEF Fc!Resolved, score
<1>3. DOMAIN Fc!Keep = {"status", "outcome", "brier"} /\ Fc!Keep.status = "keep" /\ Fc!Keep.outcome = "keep"
  BY DEF Fc!Keep
<1>4. /\ w.status = IF row.status = "resolved" THEN "keep" ELSE "resolved"
      /\ w.outcome = IF row.outcome = outcome THEN "keep" ELSE outcome
      /\ w.brier = IF row.brier = score THEN Fc!Keep.brier ELSE score
  BY <1>2, <1>3 DEF Fc!Writes
<1>5. outcome # "keep" /\ outcome # Fc!None
  BY DEF Fc!Outcomes, Fc!None
<1>. HIDE DEF w
<1>6. WritesOK(w) /\ (w.outcome = "keep" => row.outcome # Fc!None)
  BY <1>1, <1>4, <1>5 DEF WritesOK
<1>. QED BY <1>6 DEF w

LEMMA NextForecastsTyped == ForecastsTyped /\ [Fc!Next]_Fc!vars => ForecastsTyped'
<1>. SUFFICES ASSUME ForecastsTyped, [Fc!Next]_Fc!vars PROVE ForecastsTyped'
  OBVIOUS
<1>1. ASSUME NEW f \in ForecastIds, Fc!Issue(f) PROVE ForecastsTyped'
  <2>1. PICK p \in Issued : forecasts' = [forecasts EXCEPT ![f] =
                              [Fc!Unused EXCEPT !.state = "live", !.probability = p]]
    BY <1>1 DEF Fc!Issue
  <2>2. PICK row : row = [Fc!Unused EXCEPT !.state = "live", !.probability = p]
    OBVIOUS
  <2>3. p \in Asked
    BY DEF Asked
  <2>4. ForecastOK(row) /\ row.state = "live"
    BY <2>2, <2>3, BlankForecasts
  <2>5. forecasts[f].state = "unused" /\ Fc!Moves(f) /\ UNCHANGED forecastResolution
    BY <1>1 DEF Fc!Issue
  <2>6. forecasts[f].outcome = Fc!None
    BY <2>5 DEF ForecastsTyped, ForecastOK
  <2>. QED BY <2>1, <2>2, <2>4, <2>5, <2>6, ForecastWritten
<1>2. ASSUME NEW f \in ForecastIds, Fc!Patch(f) PROVE ForecastsTyped'
  <2>1. ForecastOK(forecasts[f]) /\ forecasts[f].state = "live"
    BY <1>2 DEF ForecastsTyped, Fc!Patch
  <2>2. \/ \E p \in Edited : forecasts' = [forecasts EXCEPT ![f] =
                                            [forecasts[f] EXCEPT !.probability = p]]
        \/ \E status \in Fc!Statuses : forecasts' = [forecasts EXCEPT ![f] =
                                            [forecasts[f] EXCEPT !.status = status]]
    BY <1>2 DEF Fc!Patch, ForecastsTyped
  <2>3. \A p \in Edited : LET row == [forecasts[f] EXCEPT !.probability = p]
                         IN ForecastOK(row) /\ row.state = "live" /\ row.outcome = forecasts[f].outcome
    BY <2>1 DEF ForecastOK, Asked
  <2>4. \A status \in Fc!Statuses : LET row == [forecasts[f] EXCEPT !.status = status]
                         IN ForecastOK(row) /\ row.state = "live" /\ row.outcome = forecasts[f].outcome
    BY <2>1 DEF ForecastOK
  <2>5. PICK row : /\ ForecastOK(row) /\ row.state = "live" /\ row.outcome = forecasts[f].outcome
                   /\ forecasts' = [forecasts EXCEPT ![f] = row]
    BY <2>2, <2>3, <2>4
  <2>6. Fc!Moves(f) /\ UNCHANGED forecastResolution
    BY <1>2 DEF Fc!Patch
  <2>. QED BY <2>1, <2>5, <2>6, ForecastWritten
<1>3. ASSUME NEW f \in ForecastIds, Fc!Delete(f) PROVE ForecastsTyped'
  <2>1. /\ forecasts' = [forecasts EXCEPT ![f] = Fc!Deleted]
        /\ Fc!Moves(f) /\ UNCHANGED forecastResolution
    BY <1>3 DEF Fc!Delete
  <2>. QED BY <2>1, UnusedForecast, ForecastWritten
<1>4. ASSUME NEW q \in Requests, Fc!Resolve(q) PROVE ForecastsTyped'
  <2>. DEFINE f == forecastResolution[q].forecast
              w == forecastResolution[q].writes
              old == forecasts[f]
              row == [c \in DOMAIN Fc!Unused |->
                        IF c \in DOMAIN Fc!Keep /\ w[c] # Fc!Keep[c] THEN w[c] ELSE old[c]]
  <2>1. /\ f \in ForecastIds /\ WritesOK(w) /\ old.state = "live" /\ ForecastOK(old)
        /\ w.outcome = "keep" => old.outcome # Fc!None
    BY <1>4 DEF Fc!Resolve, ForecastsTyped
  <2>2. /\ forecasts' = [forecasts EXCEPT ![f] = row]
        /\ Fc!Moves(f) /\ forecastResolution' = [forecastResolution EXCEPT ![q] = Fc!Quiet]
    BY <1>4 DEF Fc!Resolve, ForecastsTyped
  <2>3. /\ DOMAIN Fc!Unused = {"state", "probability", "status", "outcome", "brier"}
        /\ DOMAIN Fc!Keep = {"status", "outcome", "brier"}
        /\ Fc!Keep.status = "keep" /\ Fc!Keep.outcome = "keep"
    BY DEF Fc!Unused, Fc!Keep
  <2>4. /\ DOMAIN row = {"state", "probability", "status", "outcome", "brier"}
        /\ row.state = old.state /\ row.probability = old.probability
        /\ row.status = IF w.status # "keep" THEN w.status ELSE old.status
        /\ row.outcome = IF w.outcome # "keep" THEN w.outcome ELSE old.outcome
        /\ row.brier = IF w.brier # Fc!Keep.brier THEN w.brier ELSE old.brier
    BY <2>3
  <2>. HIDE DEF row, w, old
  <2>5. row.outcome # Fc!None
    BY <2>1, <2>4 DEF WritesOK, Fc!Outcomes, Fc!None
  <2>6. ForecastOK(row)
    <3>1. Rated(row.brier)
      BY <2>1, <2>4 DEF WritesOK, ForecastOK
    <3>2. row.status \in Fc!Statuses /\ row.outcome \in Fc!Outcomes \cup {Fc!None}
      BY <2>1, <2>4 DEF WritesOK, ForecastOK, Fc!Statuses
    <3>. QED BY <2>1, <2>4, <2>5, <3>1, <3>2 DEF ForecastOK
  <2>. HIDE DEF f
  <2>7. forecasts[f] = old
    BY DEF old
  <2>. QED BY <2>1, <2>2, <2>4, <2>5, <2>6, <2>7, ForecastWritten
<1>5. ASSUME NEW q \in Requests, NEW f \in ForecastIds, Fc!AskResolve(q, f) PROVE ForecastsTyped'
  <2>1. PICK outcome \in Fc!Outcomes : forecastResolution' = [forecastResolution EXCEPT
          ![q] = [forecast |-> f, writes |-> Fc!Writes(forecasts[f], outcome)]]
    BY <1>5 DEF Fc!AskResolve
  <2>2. PICK w : w = Fc!Writes(forecasts[f], outcome)
    OBVIOUS
  <2>3. /\ forecasts[f].state = "live" /\ ForecastOK(forecasts[f])
        /\ UNCHANGED <<forecasts, calibration>>
    BY <1>5 DEF Fc!AskResolve, ForecastsTyped
  <2>4. WritesOK(w) /\ (w.outcome = "keep" => forecasts[f].outcome # Fc!None)
    BY <2>2, <2>3, WritesTyped
  <2>5. PICK r : r = [forecast |-> f, writes |-> w]
    OBVIOUS
  <2>6. r.forecast = f /\ r.writes = w /\ forecastResolution' = [forecastResolution EXCEPT ![q] = r]
    BY <2>1, <2>2, <2>5
  <2>. QED BY <2>3, <2>4, <2>6, ResolutionTyped
<1>6. ASSUME NEW q \in Requests, Fc!Fail(q) PROVE ForecastsTyped'
  <2>1. Fc!Quiet.forecast = Fc!None
    BY DEF Fc!Quiet
  <2>. QED BY <1>6, <2>1, ResolutionTyped DEF Fc!Fail
<1>7. ASSUME UNCHANGED <<forecasts, forecastResolution>>,
             calibration'.stage \in {"none", "half", "whole"},
             DOMAIN calibration' = {"stage", "resolved", "open", "moved"},
             DOMAIN calibration'.resolved \cup calibration'.open \cup calibration'.moved
               \subseteq ForecastIds
      PROVE  ForecastsTyped'
  BY <1>7 DEF ForecastsTyped
<1>8. CASE Fc!ReadResolved
  <2>. DEFINE r == [f \in {x \in Fc!Live : forecasts[x].status = "resolved"} |->
                      [outcome |-> forecasts[f].outcome, probability |-> forecasts[f].probability]]
  <2>1. calibration' = [stage |-> "half", resolved |-> r, open |-> {}, moved |-> {}]
    BY <1>8 DEF Fc!ReadResolved, Fc!NoReport
  <2>2. DOMAIN r \subseteq ForecastIds
    BY DEF Fc!Live
  <2>. HIDE DEF r
  <2>3. UNCHANGED <<forecasts, forecastResolution>>
    BY <1>8 DEF Fc!ReadResolved
  <2>4. /\ calibration'.stage = "half" /\ DOMAIN calibration' = {"stage", "resolved", "open", "moved"}
        /\ calibration'.resolved = r /\ calibration'.open = {} /\ calibration'.moved = {}
    BY <2>1
  <2>5. DOMAIN calibration'.resolved \cup calibration'.open \cup calibration'.moved \subseteq ForecastIds
    BY <2>2, <2>4
  <2>. QED BY <1>7, <2>3, <2>4, <2>5
<1>9. CASE Fc!ReadOpen
  <2>1. /\ DOMAIN calibration' = {"stage", "resolved", "open", "moved"}
        /\ calibration'.stage = "whole" /\ calibration'.resolved = calibration.resolved
        /\ calibration'.moved = calibration.moved
        /\ calibration'.open = {f \in Fc!Live : forecasts[f].status = "open"}
    BY <1>9 DEF Fc!ReadOpen, ForecastsTyped
  <2>2. calibration'.open \subseteq ForecastIds
    BY <2>1 DEF Fc!Live
  <2>. QED BY <1>7, <1>9, <2>1, <2>2 DEF Fc!ReadOpen, ForecastsTyped
<1>10. CASE Fc!Answer
  <2>1. calibration' = [stage |-> "none", resolved |-> [f \in {} |-> 0], open |-> {}, moved |-> {}]
    BY <1>10 DEF Fc!Answer, Fc!NoReport
  <2>. QED BY <1>7, <1>10, <2>1 DEF Fc!Answer
<1>11. CASE UNCHANGED Fc!vars
  BY <1>11 DEF Fc!vars, ForecastsTyped
<1>. QED BY <1>1, <1>2, <1>3, <1>4, <1>5, <1>6, <1>8, <1>9, <1>10, <1>11 DEF Fc!Next

LEMMA ForecastTypes == ForecastsTyped => Fc!TypeOK
<1>. SUFFICES ASSUME ForecastsTyped PROVE Fc!TypeOK
  OBVIOUS
<1>1. ASSUME NEW f \in ForecastIds
      PROVE  LET row == forecasts[f]
             IN /\ row.state \in {"unused", "live", "deleted"}
                /\ row.probability \in Issued \cup Edited \cup {0}
                /\ row.status \in Fc!Statuses
                /\ row.outcome \in Fc!Outcomes \cup {Fc!None}
                /\ row.brier # Fc!NoScore => \E p \in Issued \cup Edited, o \in {"yes", "no"} :
                                               row.brier = Fc!BrierScore(p, o)
                /\ row.outcome = Fc!None => row.brier = Fc!NoScore
  BY DEF ForecastsTyped, ForecastOK, Rated, Asked
<1>2. ASSUME NEW q \in Requests, forecastResolution[q].forecast # Fc!None
      PROVE  /\ forecastResolution[q].forecast \in ForecastIds
             /\ forecastResolution[q].writes.status \in {"keep", "resolved"}
             /\ forecastResolution[q].writes.outcome \in Fc!Outcomes \cup {"keep"}
  BY <1>2 DEF ForecastsTyped, WritesOK
<1>. QED BY <1>1, <1>2 DEF ForecastsTyped, Fc!TypeOK

-----------------------------------------------------------------------------
(* Types of the registry.                                                  *)

\* A free id is blank, and what a resolution comes to fits where it stands.
RegistryFits ==
  /\ \A a \in Actors :
       IF actors[a].live THEN actors[a].type \in ActorTypes ELSE actors[a] = Reg!Free
  /\ resolution.hint \in ActorTypes \cup {Reg!NoHint}
  /\ resolution.pool \cup resolution.moved \subseteq Actors
  /\ IF resolution.stage = "linked" THEN \E a \in Actors : resolution.linked = {a}
     ELSE resolution.linked = {}
  /\ IF resolution.stage = "queued" THEN resolution.surfaced \subseteq resolution.pool
     ELSE resolution.surfaced = {}

\* A step of the resolution: what it makes of its record fits.
LEMMA ResolvingFits ==
  ASSUME RegistryFits, UNCHANGED actors,
         resolution'.hint \in ActorTypes \cup {Reg!NoHint},
         resolution'.pool \cup resolution'.moved \subseteq Actors,
         IF resolution'.stage = "linked" THEN \E a \in Actors : resolution'.linked = {a}
         ELSE resolution'.linked = {},
         IF resolution'.stage = "queued" THEN resolution'.surfaced \subseteq resolution'.pool
         ELSE resolution'.surfaced = {}
  PROVE  RegistryFits'
BY DEF RegistryFits

\* An edit leaves a row that fits, and notes at most that it moved.
LEMMA ChangedFits ==
  ASSUME ActorsTyped, ResolvingTyped, RegistryFits, NEW a \in Actors, NEW row, Reg!Changed(a, row),
         IF row.live THEN row.type \in ActorTypes ELSE row = Reg!Free
  PROVE  RegistryFits'
<1>1. \A b \in Actors : actors'[b] = IF b = a THEN row ELSE actors[b]
  BY DEF Reg!Changed, ActorsTyped
<1>2. \A b \in Actors :
        IF actors'[b].live THEN actors'[b].type \in ActorTypes ELSE actors'[b] = Reg!Free
  BY <1>1 DEF RegistryFits
<1>3. CASE resolution.stage = "idle"
  <2>1. resolution' = Reg!Idle
    BY <1>3 DEF Reg!Changed
  <2>. QED BY <1>2, <2>1 DEF RegistryFits, Reg!Idle
<1>4. CASE resolution.stage # "idle"
  <2>1. resolution' = [resolution EXCEPT !.moved = resolution.moved \cup {a}]
    BY <1>4 DEF Reg!Changed
  <2>2. /\ resolution'.stage = resolution.stage /\ resolution'.hint = resolution.hint
        /\ resolution'.pool = resolution.pool /\ resolution'.moved = resolution.moved \cup {a}
        /\ resolution'.linked = resolution.linked /\ resolution'.surfaced = resolution.surfaced
    BY <2>1 DEF ResolvingTyped
  <2>. QED BY <1>2, <2>2 DEF RegistryFits
<1>. QED BY <1>3, <1>4

LEMMA RegistryFitsAlways ==
  ASSUME ActorsTyped, ResolvingTyped
  PROVE  /\ Reg!Init => RegistryFits
         /\ RegistryFits /\ [Reg!Next]_Reg!vars => RegistryFits'
<1>1. Reg!Init => RegistryFits
  BY DEF Reg!Init, Reg!Free, Reg!Idle, RegistryFits
<1>. SUFFICES ASSUME RegistryFits, [Reg!Next]_Reg!vars PROVE RegistryFits'
  BY <1>1
<1>. DEFINE Fits(row) == IF row.live THEN row.type \in ActorTypes ELSE row = Reg!Free
<1>2. ASSUME NEW a \in Actors, NEW name, NEW type \in ActorTypes,
             Reg!Create(a, name, type) \/ Reg!Update(a, name, type)
      PROVE  RegistryFits'
  <2>1. DOMAIN actors[a] = {"live", "name", "type", "aliases"}
    BY DEF ActorsTyped
  <2>2. Reg!Update(a, name, type) => actors[a].live
    BY DEF Reg!Update, Reg!Live
  <2>3. CASE Reg!Create(a, name, type)
    <3>1. Fits([live |-> TRUE, name |-> name, type |-> type, aliases |-> {}])
      OBVIOUS
    <3>. QED BY <2>3, <3>1, ChangedFits DEF Reg!Create
  <2>4. CASE Reg!Update(a, name, type)
    <3>1. PICK row : row = [actors[a] EXCEPT !.name = name, !.type = type]
      OBVIOUS
    <3>2. row.live = actors[a].live /\ row.type = type
      BY <2>1, <3>1
    <3>3. Fits(row)
      BY <2>2, <2>4, <3>2
    <3>. QED BY <2>4, <3>1, <3>3, ChangedFits DEF Reg!Update
  <2>. QED BY <1>2, <2>3, <2>4
<1>3. ASSUME NEW a \in Actors, Reg!Delete(a) PROVE RegistryFits'
  <2>1. Fits(Reg!Free)
    BY DEF Reg!Free
  <2>. QED BY <1>3, <2>1, ChangedFits DEF Reg!Delete
<1>4. ASSUME NEW a \in Actors, NEW names, actors[a].live,
             Reg!Changed(a, [actors[a] EXCEPT !.aliases = names])
      PROVE  RegistryFits'
  <2>1. PICK row : row = [actors[a] EXCEPT !.aliases = names]
    OBVIOUS
  <2>2. DOMAIN actors[a] = {"live", "name", "type", "aliases"}
    BY DEF ActorsTyped
  <2>3. row.live = actors[a].live /\ row.type = actors[a].type
    BY <2>1, <2>2
  <2>4. Fits(row)
    BY <1>4, <2>3 DEF RegistryFits
  <2>. QED BY <1>4, <2>1, <2>4, ChangedFits
<1>5. ASSUME NEW a \in Actors, NEW name, Reg!AddAlias(a, name) PROVE RegistryFits'
  BY <1>4, <1>5 DEF Reg!AddAlias, Reg!Live
<1>6. ASSUME NEW path, NEW a \in Actors, Reg!DeleteAlias(path, a) PROVE RegistryFits'
  BY <1>4, <1>6 DEF Reg!DeleteAlias, Reg!Live
<1>7. ASSUME NEW hint \in ActorTypes \cup {Reg!NoHint}, Reg!Start(hint) PROVE RegistryFits'
  <2>1. /\ resolution'.stage = "by name" /\ resolution'.hint = hint /\ resolution'.pool = {}
        /\ resolution'.moved = {} /\ resolution'.linked = {} /\ resolution'.surfaced = {}
    BY <1>7 DEF Reg!Start, Reg!Idle
  <2>. QED BY <1>7, <2>1, ResolvingFits DEF Reg!Start
<1>8. ASSUME NEW stage \in {"by alias", "read"}, resolution.stage \notin {"linked", "queued"},
             Reg!To(stage)
      PROVE  RegistryFits'
  <2>1. /\ resolution'.stage = stage /\ resolution'.hint = resolution.hint
        /\ resolution'.pool = resolution.pool /\ resolution'.moved = resolution.moved
        /\ resolution'.linked = resolution.linked /\ resolution'.surfaced = resolution.surfaced
    BY <1>8 DEF Reg!To, ResolvingTyped
  <2>2. UNCHANGED actors
    BY <1>8 DEF Reg!To
  <2>3. stage # "linked" /\ stage # "queued"
    BY <1>8
  <2>. QED BY <1>8, <2>1, <2>2, <2>3, ResolvingFits DEF RegistryFits
<1>9. ASSUME NEW a \in Actors, resolution.stage \notin {"linked", "queued"}, Reg!Linked(a)
      PROVE  RegistryFits'
  <2>1. /\ resolution'.stage = "linked" /\ resolution'.hint = resolution.hint
        /\ resolution'.pool = {} /\ resolution'.moved = resolution.moved
        /\ resolution'.linked = {a} /\ resolution'.surfaced = resolution.surfaced
    BY <1>9 DEF Reg!Linked, ResolvingTyped
  <2>2. UNCHANGED actors
    BY <1>9 DEF Reg!Linked
  <2>3. resolution.surfaced = {}
    BY <1>9 DEF RegistryFits
  <2>. QED BY <2>1, <2>2, <2>3, ResolvingFits DEF RegistryFits
<1>10. CASE Reg!FindByName
  <2>1. resolution.stage \notin {"linked", "queued"}
    BY <1>10 DEF Reg!FindByName
  <2>. QED BY <1>8, <1>9, <1>10, <2>1 DEF Reg!FindByName, Reg!Live
<1>11. CASE Reg!FindByAlias
  <2>1. resolution.stage \notin {"linked", "queued"}
    BY <1>11 DEF Reg!FindByAlias
  <2>. QED BY <1>8, <1>9, <1>11, <2>1 DEF Reg!FindByAlias, Reg!Live
<1>12. CASE Reg!ListCandidates
  <2>. DEFINE pool == {a \in Reg!Live : Reg!Suits(a, resolution.hint)}
  <2>1. /\ resolution'.stage = "rank" /\ resolution'.hint = resolution.hint
        /\ resolution'.pool = pool /\ resolution'.moved = resolution.moved
        /\ resolution'.linked = resolution.linked /\ resolution'.surfaced = resolution.surfaced
    BY <1>12 DEF Reg!ListCandidates, ResolvingTyped
  <2>2. pool \subseteq Actors
    BY DEF Reg!Live
  <2>3. resolution.stage = "read" /\ UNCHANGED actors
    BY <1>12 DEF Reg!ListCandidates
  <2>. HIDE DEF pool
  <2>. QED BY <2>1, <2>2, <2>3, ResolvingFits DEF RegistryFits
<1>13. CASE Reg!Rank
  <2>1. resolution.stage = "rank" /\ resolution.pool \subseteq Actors
    BY <1>13 DEF Reg!Rank, RegistryFits
  <2>2. \/ \E a \in resolution.pool : Reg!Linked(a)
        \/ \E set \in SUBSET resolution.pool :
             /\ resolution' = [resolution EXCEPT !.stage = "queued", !.surfaced = set]
             /\ UNCHANGED actors
    BY <1>13 DEF Reg!Rank
  <2>3. ASSUME NEW set \in SUBSET resolution.pool,
               resolution' = [resolution EXCEPT !.stage = "queued", !.surfaced = set],
               UNCHANGED actors
        PROVE  RegistryFits'
    <3>1. /\ resolution'.stage = "queued" /\ resolution'.hint = resolution.hint
          /\ resolution'.pool = resolution.pool /\ resolution'.moved = resolution.moved
          /\ resolution'.linked = resolution.linked /\ resolution'.surfaced = set
      BY <2>3 DEF ResolvingTyped
    <3>. QED BY <2>1, <2>3, <3>1, ResolvingFits DEF RegistryFits
  <2>. QED BY <1>9, <2>1, <2>2, <2>3
<1>14. CASE Reg!Done
  <2>1. resolution' = Reg!Idle /\ UNCHANGED actors
    BY <1>14 DEF Reg!Done
  <2>. QED BY <2>1 DEF RegistryFits, Reg!Idle
<1>15. CASE UNCHANGED Reg!vars
  BY <1>15 DEF Reg!vars, RegistryFits
<1>. QED BY <1>2, <1>3, <1>5, <1>6, <1>7, <1>10, <1>11, <1>12, <1>13, <1>14, <1>15 DEF Reg!Next

LEMMA RegistryCardinality ==
  ASSUME NEW S PROVE Reg!Cardinality(S) = Cardinality(S)
BY DEF Reg!Cardinality, Cardinality

LEMMA RegistryTypes == ActorsTyped /\ ResolvingTyped /\ RegistryFits => Reg!TypeOK
<1>. SUFFICES ASSUME ActorsTyped, ResolvingTyped, RegistryFits PROVE Reg!TypeOK
  OBVIOUS
<1>1. ASSUME NEW a \in Actors
      PROVE  IF a \in Reg!Live
             THEN /\ actors[a].type \in ActorTypes /\ Reg!Known(a) \subseteq Names
                  /\ Cardinality(actors[a].aliases) <= 1
             ELSE actors[a] = Reg!Free
  <2>1. Cardinality(actors[a].aliases) <= 1
    <3>1. actors[a].aliases = {} \/ \E n \in Names : actors[a].aliases = {n}
      BY DEF ActorsTyped
    <3>2. Cardinality({}) = 0
      BY FS_EmptySet
    <3>3. \A n \in Names : Cardinality({n}) = 1
      BY FS_Singleton
    <3>. QED BY <3>1, <3>2, <3>3
  <2>. QED BY <2>1 DEF Reg!Live, Reg!Known, ActorsTyped, RegistryFits
<1>2. Cardinality(resolution.linked) = (IF resolution.stage = "linked" THEN 1 ELSE 0)
  BY FS_EmptySet, FS_Singleton DEF RegistryFits
<1>3. resolution.surfaced \subseteq resolution.pool
  BY DEF RegistryFits
<1>. QED BY <1>1, <1>2, <1>3, RegistryCardinality DEF ResolvingTyped, RegistryFits, Reg!TypeOK

-----------------------------------------------------------------------------
(* Types of scenarios.                                                     *)

ScenarioRow == [state: {"unused", "live", "deleted"}, family: Families]

\* What is committed, and what open transactions have written.
WrittenRows == assessments \cup UNION {updates[q].own : q \in Requests}

UpdateOK(w) ==
  /\ w.stage \in {Sc!None, "creating", "walking", "begun", "read"}
  /\ w.left \subseteq ScenarioIds
  /\ w.stage = "creating" => w.family \in Families
  /\ w.stage \in Pending => w.current \in ScenarioIds /\ w.at \in 1..MaxUpdates
  /\ w.first \in BOOLEAN
  /\ w.previous \subseteq Sc!AssessmentType /\ \A a, b \in w.previous : a = b

\* A scenario with an assessment, written or committed, is live, and no two assessments
\* are of one time.
AssessmentsTyped ==
  /\ scenarios \in [ScenarioIds -> ScenarioRow]
  /\ scenarioClock \in 0..MaxUpdates
  /\ WrittenRows \subseteq Sc!AssessmentType
  /\ \A a \in WrittenRows : scenarios[a.scenario].state = "live"
  /\ \A a, b \in WrittenRows : a.at = b.at => a = b
  /\ \A q \in Requests : UpdateOK(updates[q])

LEMMA InitAssessmentsTyped ==
  ASSUME MaxUpdates \in Nat, Families # {}
  PROVE  Sc!Init => AssessmentsTyped
<1>. SUFFICES ASSUME Sc!Init PROVE AssessmentsTyped
  OBVIOUS
<1>1. Sc!Unused \in ScenarioRow
  BY DEF Sc!Unused, ScenarioRow
<1>2. UpdateOK(Sc!Quiet) /\ Sc!Quiet.own = {}
  BY DEF Sc!Quiet, UpdateOK, Pending, Sc!None
<1>3. WrittenRows = {}
  BY <1>2 DEF Sc!Init, WrittenRows
<1>. QED BY <1>1, <1>2, <1>3 DEF Sc!Init, AssessmentsTyped

\* A step of a transaction that writes nothing, and the beginning of an assessment.
LEMMA UpdateMoves ==
  ASSUME ScenariosTyped, AssessmentsTyped, NEW q \in Requests, NEW w, UpdateOK(w),
         updates' = [updates EXCEPT ![q] = w], w.own \subseteq updates[q].own,
         UNCHANGED <<scenarios, assessments>>, scenarioClock' \in 0..MaxUpdates
  PROVE  AssessmentsTyped'
<1>1. \A p \in Requests : updates'[p] = IF p = q THEN w ELSE updates[p]
  BY DEF ScenariosTyped
<1>2. WrittenRows' \subseteq WrittenRows
  BY <1>1 DEF WrittenRows
<1>. QED BY <1>1, <1>2 DEF AssessmentsTyped

\* Rows of scenarios are written; nothing that has an assessment stops being live.
LEMMA ScenarioWritten ==
  ASSUME AssessmentsTyped, NEW s \in ScenarioIds, NEW row \in ScenarioRow,
         scenarios' = [scenarios EXCEPT ![s] = row],
         row.state = "live" \/ \A a \in WrittenRows' : a.scenario # s,
         WrittenRows' \subseteq WrittenRows, UNCHANGED scenarioClock,
         \A q \in Requests : UpdateOK(updates'[q])
  PROVE  AssessmentsTyped'
<1>1. /\ scenarios' \in [ScenarioIds -> ScenarioRow]
      /\ \A x \in ScenarioIds : scenarios'[x] = IF x = s THEN row ELSE scenarios[x]
  BY DEF AssessmentsTyped
<1>2. \A a \in WrittenRows : a.scenario \in ScenarioIds
  BY DEF AssessmentsTyped, Sc!AssessmentType
<1>3. \A a \in WrittenRows' : scenarios'[a.scenario].state = "live"
  BY <1>1, <1>2 DEF AssessmentsTyped
<1>. QED BY <1>1, <1>3 DEF AssessmentsTyped

\* The bounds a model returns, put in order, are a range; so is what stood before.
LEMMA UpdatesTyped ==
  ASSUME Points \subseteq Int, NEW w, UpdateOK(w), w.stage \in Pending, NEW row \in Sc!Updates(w)
  PROVE  row \in Sc!AssessmentType /\ row.at = w.at /\ row.scenario = w.current
<1>1. Sc!Full \in Sc!Ranges
  BY DEF Sc!Ranges
<1>2. ASSUME NEW low \in Points, NEW high \in Points
      PROVE  Sc!NormalizeProbabilityRange(low, high) \in Sc!Ranges
  <2>1. /\ Min({low, high}) \in {low, high} /\ Max({low, high}) \in {low, high}
        /\ Min({low, high}) <= Max({low, high})
    BY <1>2 DEF Min, Max
  <2>2. Sc!Min({low, high}) = Min({low, high}) /\ Sc!Max({low, high}) = Max({low, high})
    BY DEF Sc!Min, Min, Sc!Max, Max
  <2>. QED BY <1>2, <2>1, <2>2 DEF Sc!NormalizeProbabilityRange, Sc!Ranges
<1>3. Sc!FallbackUpdate(w.previous) \in Sc!Ranges
  <2>1. CASE w.previous = {}
    BY <1>1, <2>1 DEF Sc!FallbackUpdate
  <2>2. CASE w.previous # {}
    <3>1. PICK a : a = CHOOSE x \in w.previous : TRUE
      OBVIOUS
    <3>2. a \in w.previous
      BY <2>2, <3>1
    <3>. QED BY <2>2, <3>1, <3>2 DEF Sc!FallbackUpdate, UpdateOK, Sc!AssessmentType
  <2>. QED BY <2>1, <2>2
<1>. DEFINE Row(range, model) == [scenario |-> w.current, at |-> w.at, range |-> range,
                                  model |-> model, first |-> w.first]
<1>4. \/ \E low, high \in Points : row = Row(Sc!NormalizeProbabilityRange(low, high), TRUE)
      \/ row = Row(Sc!FallbackUpdate(w.previous), FALSE)
  BY DEF Sc!Updates
<1>6. PICK range \in Sc!Ranges, model \in BOOLEAN : row = Row(range, model)
  BY <1>2, <1>3, <1>4
<1>5. w.current \in ScenarioIds /\ w.at \in 1..MaxUpdates /\ w.first \in BOOLEAN
  BY DEF UpdateOK
<1>. QED BY <1>6, <1>5 DEF Sc!AssessmentType

LEMMA AssessTyped ==
  ASSUME Points \subseteq Int, ScenariosTyped, TimesDiffer, AssessmentsTyped, NEW q \in Requests,
         Sc!Assess(q)
  PROVE  AssessmentsTyped'
<1>1. PICK row \in Sc!Updates(updates[q]) :
        updates' = [updates EXCEPT ![q] = Sc!Written(updates[q], row)]
  BY DEF Sc!Assess
<1>2. /\ updates[q].stage \in Pending /\ updates[q].current \in Sc!Live
      /\ UNCHANGED <<scenarios, assessments, scenarioClock>> /\ UpdateOK(updates[q])
  BY DEF Sc!Assess, Pending, AssessmentsTyped
<1>3. row \in Sc!AssessmentType /\ row.at = updates[q].at /\ row.scenario = updates[q].current
  BY <1>2, UpdatesTyped
<1>4. PICK w : w = Sc!Written(updates[q], row)
  OBVIOUS
<1>5. UpdateOK(w) /\ w.own = updates[q].own \cup {row}
  BY <1>2, <1>4 DEF Sc!Written, Sc!Quiet, UpdateOK, Pending
<1>6. \A p \in Requests : updates'[p] = IF p = q THEN w ELSE updates[p]
  BY <1>1, <1>4 DEF ScenariosTyped
<1>7. WrittenRows' \subseteq WrittenRows \cup {row}
  BY <1>2, <1>5, <1>6 DEF WrittenRows
<1>8. \A a \in WrittenRows : a.at # row.at
  BY <1>2, <1>3 DEF WrittenRows, TimesDiffer
<1>9. scenarios[row.scenario].state = "live"
  BY <1>2, <1>3 DEF Sc!Live
<1>. QED BY <1>2, <1>3, <1>5, <1>6, <1>7, <1>8, <1>9 DEF AssessmentsTyped

LEMMA ReadPreviousTyped ==
  ASSUME ScenarioInv, AssessmentsTyped, NEW q \in Requests, Sc!ReadPrevious(q)
  PROVE  AssessmentsTyped'
<1>. DEFINE first == \A a \in assessments : a.scenario # updates[q].current \/ a.at > updates[q].at
            latest == Sc!Latest(updates[q].current, updates[q].at)
<1>1. PICK w : w = [updates[q] EXCEPT !.stage = "read", !.previous = latest, !.first = first]
  OBVIOUS
<1>2. /\ updates' = [updates EXCEPT ![q] = w] /\ updates[q].stage = "begun"
      /\ UNCHANGED <<scenarios, assessments, scenarioClock>>
  BY <1>1 DEF Sc!ReadPrevious
<1>3. DOMAIN updates[q] = RequestFields /\ UpdateOK(updates[q])
  BY DEF ScenarioInv, ScenariosTyped, AssessmentsTyped
<1>4. /\ w.stage = "read" /\ w.left = updates[q].left /\ w.own = updates[q].own
      /\ w.at = updates[q].at /\ w.current = updates[q].current
      /\ w.previous = latest /\ w.first = first
  BY <1>1, <1>3 DEF RequestFields
<1>5. first \in BOOLEAN
  OBVIOUS
<1>6. latest \subseteq assessments /\ \A a, b \in latest : a.at <= b.at
  BY DEF Sc!Latest
<1>. HIDE DEF latest, first
<1>7. assessments \subseteq Sc!AssessmentType /\ \A a, b \in assessments : a.at = b.at => a = b
  BY DEF AssessmentsTyped, WrittenRows
<1>8. \A a, b \in latest : a = b
  <2>1. \A a \in latest : a.at \in Nat
    BY <1>6 DEF ScenarioInv, ScenariosTyped
  <2>. QED BY <1>6, <1>7, <2>1
<1>9. UpdateOK(w)
  BY <1>2, <1>3, <1>4, <1>5, <1>6, <1>7, <1>8 DEF UpdateOK, Pending
<1>. QED BY <1>2, <1>4, <1>9, UpdateMoves DEF ScenarioInv, AssessmentsTyped

LEMMA BeginTyped ==
  ASSUME MaxUpdates \in Nat, ScenariosTyped, AssessmentsTyped, NEW q \in Requests,
         NEW s \in ScenarioIds, Sc!Begin(q, s)
  PROVE  AssessmentsTyped'
<1>1. DOMAIN updates[q] = RequestFields /\ UpdateOK(updates[q]) /\ updates[q].stage = "walking"
  BY DEF ScenariosTyped, AssessmentsTyped, Sc!Begin
<1>2. CASE s \in Sc!Live
  <2>1. PICK w : w = [updates[q] EXCEPT !.stage = "begun", !.left = updates[q].left \ {s},
                                        !.current = s, !.at = scenarioClock + 1]
    OBVIOUS
  <2>2. /\ w.stage = "begun" /\ w.left = updates[q].left \ {s} /\ w.own = updates[q].own
        /\ w.at = scenarioClock + 1 /\ w.current = s
        /\ w.previous = updates[q].previous /\ w.first = updates[q].first
    BY <1>1, <2>1 DEF RequestFields
  <2>3. /\ updates' = [updates EXCEPT ![q].stage = "begun", ![q].left = @ \ {s},
                                        ![q].current = s, ![q].at = scenarioClock + 1]
        /\ scenarioClock < MaxUpdates /\ scenarioClock' = scenarioClock + 1
        /\ UNCHANGED <<scenarios, assessments>>
    BY <1>2 DEF Sc!Begin
  <2>7. scenarioClock + 1 \in 1..MaxUpdates /\ scenarioClock + 1 \in 0..MaxUpdates
    BY <2>3 DEF AssessmentsTyped
  <2>8. updates' = [updates EXCEPT ![q] = w]
    BY <2>1, <2>3 DEF ScenariosTyped
  <2>4. UpdateOK(w)
    BY <1>1, <2>2, <2>7 DEF UpdateOK, Pending
  <2>. QED BY <2>2, <2>3, <2>4, <2>7, <2>8, UpdateMoves
<1>3. CASE s \notin Sc!Live
  <2>1. PICK w : w = [updates[q] EXCEPT !.left = updates[q].left \ {s}]
    OBVIOUS
  <2>2. /\ w.stage = "walking" /\ w.left = updates[q].left \ {s} /\ w.own = updates[q].own
        /\ w.previous = updates[q].previous /\ w.first = updates[q].first
    BY <1>1, <2>1 DEF RequestFields
  <2>3. updates' = [updates EXCEPT ![q] = w] /\ UNCHANGED <<scenarios, assessments, scenarioClock>>
    BY <1>3, <2>1 DEF Sc!Begin, ScenariosTyped
  <2>4. UpdateOK(w)
    BY <1>1, <2>2 DEF UpdateOK, Pending
  <2>. QED BY <2>2, <2>3, <2>4, UpdateMoves DEF AssessmentsTyped
<1>. QED BY <1>2, <1>3

\* Requests that begin or give up, and those about the row of a scenario.
LEMMA RequestsTyped ==
  ASSUME ScenariosTyped, AssessmentsTyped, NEW q \in Requests,
         \/ \E family \in Families : Sc!LookUpFamily(q, family)
         \/ \E s \in ScenarioIds : Sc!Create(q, s)
         \/ Sc!Start(q) \/ Sc!Commit(q) \/ Sc!Fail(q)
  PROVE  AssessmentsTyped'
<1>1. UpdateOK(Sc!Quiet) /\ Sc!Quiet.own = {}
  BY DEF Sc!Quiet, UpdateOK, Pending, Sc!None
<1>2. ASSUME NEW family \in Families, Sc!LookUpFamily(q, family) PROVE AssessmentsTyped'
  <2>1. PICK w : w = [Sc!Quiet EXCEPT !.stage = "creating", !.family = family]
    OBVIOUS
  <2>2. UpdateOK(w) /\ w.own = {}
    BY <2>1 DEF Sc!Quiet, UpdateOK, Pending
  <2>. QED BY <1>2, <2>1, <2>2, UpdateMoves DEF Sc!LookUpFamily, AssessmentsTyped
<1>3. ASSUME NEW s \in ScenarioIds, Sc!Create(q, s) PROVE AssessmentsTyped'
  <2>1. PICK row : row = [state |-> "live", family |-> updates[q].family]
    OBVIOUS
  <2>2. row \in ScenarioRow /\ row.state = "live"
    BY <1>3, <2>1 DEF Sc!Create, AssessmentsTyped, UpdateOK, ScenarioRow
  <2>3. \A p \in Requests : updates'[p] = IF p = q THEN Sc!Quiet ELSE updates[p]
    BY <1>3 DEF Sc!Create, ScenariosTyped
  <2>4. WrittenRows' \subseteq WrittenRows
    BY <1>1, <1>3, <2>3 DEF Sc!Create, WrittenRows
  <2>5. \A p \in Requests : UpdateOK(updates'[p])
    BY <1>1, <2>3 DEF AssessmentsTyped
  <2>. QED BY <1>3, <2>1, <2>2, <2>4, <2>5, ScenarioWritten DEF Sc!Create
<1>4. CASE Sc!Start(q)
  <2>1. PICK chosen \in {Sc!Live} \cup {{s} : s \in Sc!Live} :
          updates' = [updates EXCEPT ![q] = [Sc!Quiet EXCEPT !.stage = "walking", !.left = chosen]]
    BY <1>4 DEF Sc!Start
  <2>2. chosen \subseteq ScenarioIds
    BY DEF Sc!Live
  <2>3. PICK w : w = [Sc!Quiet EXCEPT !.stage = "walking", !.left = chosen]
    OBVIOUS
  <2>4. UpdateOK(w) /\ w.own = {}
    BY <2>2, <2>3 DEF Sc!Quiet, UpdateOK, Pending
  <2>. QED BY <1>4, <2>1, <2>3, <2>4, UpdateMoves DEF Sc!Start, AssessmentsTyped
<1>5. CASE Sc!Commit(q)
  <2>1. \A p \in Requests : updates'[p] = IF p = q THEN Sc!Quiet ELSE updates[p]
    BY <1>5 DEF Sc!Commit, ScenariosTyped
  <2>2. WrittenRows' \subseteq WrittenRows
    BY <1>1, <1>5, <2>1 DEF Sc!Commit, WrittenRows
  <2>3. UNCHANGED <<scenarios, scenarioClock>>
    BY <1>5 DEF Sc!Commit
  <2>. QED BY <1>1, <2>1, <2>2, <2>3 DEF AssessmentsTyped
<1>6. CASE Sc!Fail(q)
  BY <1>1, <1>6, UpdateMoves DEF Sc!Fail, AssessmentsTyped
<1>. QED BY <1>2, <1>3, <1>4, <1>5, <1>6

LEMMA ScenarioRequestsTyped ==
  ASSUME AssessmentsTyped, Families # {}, NEW s \in ScenarioIds, Sc!Patch(s) \/ Sc!Delete(s)
  PROVE  AssessmentsTyped'
<1>1. scenarios[s] \in ScenarioRow /\ updates' = updates /\ scenarioClock' = scenarioClock
      /\ \A q \in Requests : UpdateOK(updates'[q])
  BY DEF AssessmentsTyped, Sc!Patch, Sc!Delete
<1>2. CASE Sc!Patch(s)
  <2>1. PICK family \in Families : scenarios' = [scenarios EXCEPT ![s].family = family]
    BY <1>2 DEF Sc!Patch
  <2>2. PICK row : row = [scenarios[s] EXCEPT !.family = family]
    OBVIOUS
  <2>3. row \in ScenarioRow /\ row.state = "live" /\ scenarios' = [scenarios EXCEPT ![s] = row]
    BY <1>1, <1>2, <2>1, <2>2 DEF ScenarioRow, Sc!Patch, AssessmentsTyped
  <2>4. WrittenRows' \subseteq WrittenRows
    BY <1>1, <1>2 DEF Sc!Patch, WrittenRows
  <2>. QED BY <1>1, <2>3, <2>4, ScenarioWritten
<1>3. CASE Sc!Delete(s)
  <2>1. Sc!Deleted \in ScenarioRow
    BY DEF Sc!Deleted, Sc!Unused, ScenarioRow
  <2>2. /\ WrittenRows' \subseteq WrittenRows
        /\ \A a \in WrittenRows' : a.scenario # s
    BY <1>1, <1>3 DEF Sc!Delete, WrittenRows
  <2>. QED BY <1>1, <1>3, <2>1, <2>2, ScenarioWritten DEF Sc!Delete
<1>. QED BY <1>2, <1>3

LEMMA NextAssessmentsTyped ==
  ASSUME MaxUpdates \in Nat, Families # {}, Points \subseteq Int, ScenarioInv, AssessmentsTyped,
         [Sc!Next]_Sc!vars
  PROVE  AssessmentsTyped'
<1>1. CASE UNCHANGED Sc!vars
  <2>1. WrittenRows' = WrittenRows
    BY <1>1 DEF Sc!vars, WrittenRows
  <2>. QED BY <1>1, <2>1 DEF Sc!vars, AssessmentsTyped
<1>. QED BY <1>1, RequestsTyped, ScenarioRequestsTyped, BeginTyped, ReadPreviousTyped, AssessTyped
         DEF Sc!Next, ScenarioInv

LEMMA ScenarioCardinality ==
  ASSUME NEW S PROVE Sc!Cardinality(S) = Cardinality(S)
BY DEF Sc!Cardinality, Cardinality

LEMMA ScenarioTypes == AssessmentsTyped => Sc!TypeOK
<1>. SUFFICES ASSUME AssessmentsTyped PROVE Sc!TypeOK
  OBVIOUS
<1>1. assessments \subseteq WrittenRows /\ \A q \in Requests : updates[q].own \subseteq WrittenRows
  BY DEF WrittenRows
<1>2. ASSUME NEW q \in Requests
      PROVE  /\ updates[q].stage \in {Sc!None, "creating", "walking", "begun", "read"}
             /\ updates[q].left \subseteq ScenarioIds
             /\ updates[q].own \subseteq Sc!AssessmentType
             /\ Sc!Cardinality(updates[q].previous) <= 1
  <2>1. /\ UpdateOK(updates[q]) /\ updates[q].own \subseteq Sc!AssessmentType
    BY <1>1 DEF AssessmentsTyped
  <2>2. PICK S : S = updates[q].previous
    OBVIOUS
  <2>3. Cardinality(S) <= 1
    <3>1. S = {} \/ \E a : S = {a}
      <4>1. \A a, b \in S : a = b
        BY <2>1, <2>2 DEF UpdateOK
      <4>2. CASE S # {}
        <5>1. PICK a : a \in S
          BY <4>2
        <5>2. S = {a}
          BY <4>1, <5>1
        <5>. QED BY <5>2
      <4>. QED BY <4>2
    <3>2. CASE S = {}
      BY <3>2, FS_EmptySet
    <3>3. CASE \E a : S = {a}
      <4>1. PICK a : S = {a}
        BY <3>3
      <4>2. Cardinality({a}) = 1
        BY FS_Singleton
      <4>. QED BY <4>1, <4>2
    <3>. QED BY <3>1, <3>2, <3>3
  <2>5. Sc!Cardinality(updates[q].previous) <= 1
    BY <2>2, <2>3, ScenarioCardinality
  <2>. QED BY <2>1, <2>5 DEF UpdateOK
<1>. QED BY <1>1, <1>2 DEF AssessmentsTyped, ScenarioRow, Sc!TypeOK

-----------------------------------------------------------------------------
(* Types of alerts.                                                        *)

ReadingsTyped == readings \in [Monitors -> [Al!Times -> Al!Values \cup {Al!NoReading}]]

MonitorFits(row) == row.lastTriggered <= MaxReadings

EvaluationFits ==
  /\ evaluation.stage \in {"none", "walking", "committed"} /\ evaluation.now <= MaxReadings
  /\ \A m \in DOMAIN evaluation.copies : MonitorFits(evaluation.copies[m])

\* An alert that is written is about a reading.
NotificationFits(row) ==
  /\ row.about <= MaxReadings /\ row.messages <= MaxMessages
  /\ row.state \in {"flushed", "stored"} => row.about # 0

AlertsFit ==
  /\ ReadingsTyped /\ EvaluationFits
  /\ \A m \in Monitors : MonitorFits(monitors[m])
  /\ \A n \in Notifications : NotificationFits(notifications[n])

LEMMA InitAlertsFit ==
  ASSUME MaxReadings \in Nat, MaxMessages \in Nat PROVE Al!Init => AlertsFit
BY DEF Al!Init, Al!Unused, Al!Blank, Al!Finished, AlertsFit, ReadingsTyped, EvaluationFits,
       MonitorFits, NotificationFits

\* Nothing moves but monitors, and no time they triggered at.
LEMMA MonitorRequestsFit ==
  ASSUME MaxReadings \in Nat, AlertInv, AlertsFit, NEW m \in Monitors,
         Al!CreateMonitor(m) \/ Al!PatchMonitor(m) \/ Al!Stamp
  PROVE  AlertsFit'
<1>1. UNCHANGED <<readings, notifications, evaluation>>
  BY DEF Al!CreateMonitor, Al!PatchMonitor, Al!Stamp
<1>2. \A x \in Monitors : MonitorFits(monitors[x]) /\ monitors[x] \in MonitorRow
  BY DEF AlertsFit, AlertInv, AlertsTyped
<1>3. ASSUME NEW x \in Monitors PROVE MonitorFits(monitors'[x])
  <2>1. monitors'[x].lastTriggered \in {0, monitors[x].lastTriggered}
    <3>1. CASE Al!CreateMonitor(m)
      BY <3>1 DEF Al!CreateMonitor, Al!Unused, AlertInv, AlertsTyped
    <3>2. CASE Al!PatchMonitor(m)
      <4>1. PICK condition, enabled :
              monitors' = [monitors EXCEPT ![m].enabled = enabled, ![m].condition = condition]
        BY <3>2 DEF Al!PatchMonitor
      <4>2. DOMAIN monitors = Monitors /\ monitors[x] \in MonitorRow
        BY DEF AlertInv, AlertsTyped
      <4>. QED BY <4>1, <4>2 DEF MonitorRow
    <3>3. CASE Al!Stamp
      BY <1>2, <3>3 DEF Al!Stamp, MonitorRow
    <3>. QED BY <3>1, <3>2, <3>3
  <2>. QED BY <1>2, <2>1 DEF MonitorFits
<1>. QED BY <1>1, <1>3 DEF AlertsFit, ReadingsTyped, EvaluationFits

LEMMA DeleteMonitorFits ==
  ASSUME MaxReadings \in Nat, AlertInv, AlertsFit, NEW m \in Monitors, Al!DeleteMonitor(m)
  PROVE  AlertsFit'
<1>1. /\ UNCHANGED <<readings, evaluation>> /\ monitors' = [monitors EXCEPT ![m] = Al!Deleted]
      /\ DOMAIN monitors = Monitors
  BY DEF Al!DeleteMonitor, AlertInv, AlertsTyped
<1>2. \A x \in Monitors : MonitorFits(monitors'[x])
  BY <1>1 DEF Al!Deleted, Al!Unused, MonitorFits, AlertsFit
<1>3. ASSUME NEW n \in Notifications PROVE NotificationFits(notifications'[n])
  <2>1. notifications'[n] \in {notifications[n], [notifications[n] EXCEPT !.state = "deleted"]}
    BY DEF Al!DeleteMonitor
  <2>2. notifications[n] \in NotificationRow /\ NotificationFits(notifications[n])
    BY DEF AlertInv, AlertsTyped, AlertsFit
  <2>. QED BY <2>1, <2>2 DEF NotificationRow, NotificationFits
<1>. QED BY <1>1, <1>2, <1>3 DEF AlertsFit, ReadingsTyped, EvaluationFits

LEMMA RecordReadingFits ==
  ASSUME AlertsFit, NEW m \in Monitors, NEW t \in Al!Times, Al!RecordReading(m, t)
  PROVE  AlertsFit'
<1>1. UNCHANGED <<monitors, notifications, evaluation>>
  BY DEF Al!RecordReading
<1>2. ReadingsTyped'
  BY DEF Al!RecordReading, AlertsFit, ReadingsTyped
<1>. QED BY <1>1, <1>2 DEF AlertsFit, EvaluationFits

LEMMA BeginFits ==
  ASSUME MaxReadings \in Nat, AlertInv, AlertsFit, Al!Begin PROVE AlertsFit'
<1>. DEFINE enabled == {m \in Monitors : monitors[m].state = "live" /\ monitors[m].enabled}
<1>1. PICK now \in evaluation.now..MaxReadings :
        evaluation' = [stage |-> "walking", now |-> now, left |-> enabled,
                       copies |-> [m \in enabled |-> monitors[m]]]
  BY DEF Al!Begin
<1>2. UNCHANGED <<monitors, readings, notifications>>
  BY DEF Al!Begin
<1>3. now <= MaxReadings
  BY DEF AlertInv, AlertsTyped, EvaluationOK
<1>4. EvaluationFits'
  BY <1>1, <1>3 DEF EvaluationFits, AlertsFit
<1>. QED BY <1>2, <1>4 DEF AlertsFit, ReadingsTyped

LEMMA PassedFits ==
  ASSUME AlertInv, AlertsFit, NEW m, Al!Quiet(m) \/ Al!Skipped(m) PROVE AlertsFit'
<1>1. UNCHANGED <<monitors, readings, notifications>>
  BY DEF Al!Quiet, Al!Skipped
<1>2. /\ evaluation'.now = evaluation.now /\ evaluation'.stage = evaluation.stage
      /\ DOMAIN evaluation'.copies \subseteq DOMAIN evaluation.copies
      /\ \A x \in DOMAIN evaluation'.copies : evaluation'.copies[x] = evaluation.copies[x]
  <2>1. DOMAIN evaluation = {"stage", "now", "copies", "left"}
    BY DEF AlertInv, AlertsTyped, EvaluationOK
  <2>2. CASE Al!Quiet(m)
    BY <2>1, <2>2 DEF Al!Quiet, Al!Evaluated
  <2>3. CASE Al!Skipped(m)
    BY <2>1, <2>3 DEF Al!Skipped
  <2>. QED BY <2>2, <2>3
<1>3. EvaluationFits'
  BY <1>2 DEF AlertsFit, EvaluationFits
<1>. QED BY <1>1, <1>3 DEF AlertsFit, ReadingsTyped

\* An alert is about a reading of a time that has come.
LEMMA TriggerFits ==
  ASSUME MaxReadings \in Nat, MaxMessages \in Nat, AlertInv, AlertsFit, NEW m \in Monitors,
         NEW n \in Notifications, Al!Trigger(m, n)
  PROVE  AlertsFit'
<1>1. PICK t : t = Al!Max(Al!Known(m, evaluation.now))
  OBVIOUS
<1>2. /\ m \in evaluation.left /\ UNCHANGED <<monitors, readings>>
      /\ notifications' = [notifications EXCEPT ![n] = [Al!Blank EXCEPT !.state = "flushed",
                                                          !.monitor = m, !.about = t]]
      /\ evaluation' = [Al!Evaluated(m) EXCEPT !.copies[m].lastTriggered = t]
      /\ Al!Known(m, evaluation.now) # {}
  BY <1>1 DEF Al!Trigger, Al!Triggers
<1>3. t \in 1..MaxReadings
  <2>1. evaluation.now \in Nat /\ evaluation.now <= MaxReadings
    BY DEF AlertInv, AlertsTyped, EvaluationOK, AlertsFit, EvaluationFits
  <2>2. t \in 1..evaluation.now
    BY <1>1, <1>2, <2>1, LatestKnown
  <2>. QED BY <2>1, <2>2
<1>4. ASSUME NEW x \in Notifications PROVE NotificationFits(notifications'[x])
  <2>1. NotificationFits([Al!Blank EXCEPT !.state = "flushed", !.monitor = m, !.about = t])
    BY <1>3 DEF Al!Blank, NotificationFits
  <2>2. notifications'[x] = IF x = n THEN [Al!Blank EXCEPT !.state = "flushed", !.monitor = m,
                                                             !.about = t]
                            ELSE notifications[x]
    BY <1>2 DEF AlertInv, AlertsTyped
  <2>. QED BY <2>1, <2>2 DEF AlertsFit
<1>5. /\ evaluation'.now = evaluation.now /\ evaluation'.stage = evaluation.stage
      /\ evaluation'.copies = [evaluation.copies EXCEPT ![m].lastTriggered = t]
  <2>1. DOMAIN evaluation = {"stage", "now", "copies", "left"}
    BY DEF AlertInv, AlertsTyped, EvaluationOK
  <2>. QED BY <1>2, <2>1 DEF Al!Evaluated
<1>6. ASSUME NEW x \in DOMAIN evaluation'.copies PROVE MonitorFits(evaluation'.copies[x])
  <2>1. x \in DOMAIN evaluation.copies
    BY <1>5, <1>6
  <2>2. evaluation.copies[x] \in MonitorRow /\ MonitorFits(evaluation.copies[x])
    BY <2>1 DEF AlertInv, AlertsTyped, EvaluationOK, AlertsFit, EvaluationFits
  <2>3. evaluation'.copies[x] = IF x = m THEN [evaluation.copies[x] EXCEPT !.lastTriggered = t]
                                ELSE evaluation.copies[x]
    BY <1>5, <2>1
  <2>. QED BY <1>3, <2>2, <2>3 DEF MonitorRow, MonitorFits
<1>7. EvaluationFits'
  BY <1>5, <1>6 DEF AlertsFit, EvaluationFits
<1>. QED BY <1>2, <1>4, <1>7 DEF AlertsFit, ReadingsTyped

\* Monitors take the times their copies triggered at.
LEMMA EndingsFit ==
  ASSUME AlertInv, AlertsFit, Al!Commit \/ Al!End \/ Al!Abort
  PROVE  AlertsFit'
<1>1. \A m \in Monitors : MonitorFits(monitors[m]) /\ monitors[m] \in MonitorRow
  BY DEF AlertsFit, AlertInv, AlertsTyped
<1>2. ASSUME NEW m \in Monitors PROVE MonitorFits(monitors'[m])
  <2>1. CASE Al!Commit
    <3>1. monitors'[m] = IF m \in DOMAIN evaluation.copies
                         THEN [monitors[m] EXCEPT !.evaluated = TRUE,
                                 !.lastTriggered = evaluation.copies[m].lastTriggered]
                         ELSE monitors[m]
      BY <2>1 DEF Al!Commit
    <3>2. \A x \in DOMAIN evaluation.copies : MonitorFits(evaluation.copies[x])
      BY DEF AlertsFit, EvaluationFits
    <3>. QED BY <1>1, <3>1, <3>2 DEF MonitorFits, MonitorRow
  <2>2. CASE Al!End \/ Al!Abort
    BY <1>1, <2>2 DEF Al!End, Al!Abort
  <2>. QED BY <2>1, <2>2
<1>3. ASSUME NEW n \in Notifications PROVE NotificationFits(notifications'[n])
  <2>1. \/ notifications'[n] = notifications[n]
        \/ /\ notifications[n].state = "flushed"
           /\ \E state \in {"stored", "lost"} :
                notifications'[n] = [notifications[n] EXCEPT !.state = state]
    BY DEF Al!Commit, Al!End, Al!Abort
  <2>2. notifications[n] \in NotificationRow /\ NotificationFits(notifications[n])
    BY DEF AlertInv, AlertsTyped, AlertsFit
  <2>. QED BY <2>1, <2>2 DEF NotificationRow, NotificationFits
<1>4. EvaluationFits'
  <2>1. /\ evaluation'.now = evaluation.now /\ evaluation'.stage \in {"none", "committed"}
        /\ DOMAIN evaluation'.copies = {}
    <3>1. PICK e : e = Al!Finished(evaluation.now)
      OBVIOUS
    <3>2. /\ DOMAIN e = {"stage", "now", "copies", "left"} /\ e.now = evaluation.now
          /\ e.stage = "none" /\ DOMAIN e.copies = {}
      BY <3>1 DEF Al!Finished
    <3>3. evaluation' = e \/ evaluation' = [e EXCEPT !.stage = "committed"]
      BY <3>1 DEF Al!Commit, Al!End, Al!Abort
    <3>. QED BY <3>2, <3>3
  <2>. QED BY <2>1 DEF AlertsFit, EvaluationFits
<1>5. UNCHANGED readings
  BY DEF Al!Commit, Al!End, Al!Abort
<1>. QED BY <1>2, <1>3, <1>4, <1>5 DEF AlertsFit, ReadingsTyped

LEMMA DeliveryFits ==
  ASSUME MaxMessages \in Nat, AlertInv, AlertsFit, NEW n \in Notifications, NEW by,
         \/ Al!SendManually(n)
         \/ Al!Load(n, by) \/ Al!Send(n, by) \/ Al!Record(n, by) \/ Al!Lose(n, by)
  PROVE  AlertsFit'
<1>1. UNCHANGED <<monitors, readings, evaluation>>
  BY DEF Al!SendManually, Al!Load, Al!Send, Al!Record, Al!Lose
<1>2. notifications \in [Notifications -> NotificationRow]
  BY DEF AlertInv, AlertsTyped
<1>3. ASSUME NEW x \in Notifications PROVE NotificationFits(notifications'[x])
  <2>1. notifications[x] \in NotificationRow /\ NotificationFits(notifications[x])
    BY <1>2 DEF AlertsFit
  <2>2. CASE UNCHANGED notifications
    BY <2>1, <2>2
  <2>3. CASE Al!Send(n, by) /\ ~UNCHANGED notifications
    <3>1. /\ notifications[n].messages < MaxMessages
          /\ notifications' = [notifications EXCEPT ![n].messages = @ + 1]
      BY <2>3 DEF Al!Send
    <3>. QED BY <1>2, <2>1, <3>1 DEF NotificationRow, NotificationFits
  <2>4. CASE Al!Record(n, by)
    <3>1. PICK status : notifications' = [notifications EXCEPT ![n].status = status]
      BY <2>4 DEF Al!Record
    <3>. QED BY <1>2, <2>1, <3>1 DEF NotificationRow, NotificationFits
  <2>. QED BY <2>2, <2>3, <2>4 DEF Al!SendManually, Al!Load, Al!Lose
<1>. QED BY <1>1, <1>3 DEF AlertsFit, ReadingsTyped, EvaluationFits

LEMMA AlertsFitAlways ==
  ASSUME MaxReadings \in Nat, MaxMessages \in Nat, AlertInv, AlertsFit, [Al!Next]_Al!vars
  PROVE  AlertsFit'
<1>1. CASE UNCHANGED Al!vars
  BY <1>1 DEF Al!vars, AlertsFit, ReadingsTyped, EvaluationFits
<1>2. CASE Al!Stamp /\ Monitors = {}
  BY <1>2 DEF Al!Stamp, AlertsFit, ReadingsTyped, EvaluationFits
<1>3. CASE Al!Stamp /\ Monitors # {}
  BY <1>3, MonitorRequestsFit
<1>. QED BY <1>1, <1>2, <1>3, MonitorRequestsFit, DeleteMonitorFits, RecordReadingFits, BeginFits,
            PassedFits, TriggerFits, EndingsFit, DeliveryFits DEF Al!Next

LEMMA AlertTypes ==
  ASSUME Conditions # {}, MaxReadings \in Nat, MaxMessages \in Nat, AlertInv, AlertsFit
  PROVE  Al!TypeOK
<1>1. Al!Unused.condition \in Conditions
  BY DEF Al!Unused
<1>2. ASSUME NEW row \in MonitorRow, MonitorFits(row) PROVE row \in Al!MonitorType
  BY <1>1, <1>2 DEF MonitorRow, MonitorFits, Al!MonitorType
<1>3. monitors \in [Monitors -> Al!MonitorType]
  BY <1>2 DEF AlertInv, AlertsTyped, AlertsFit
<1>4. /\ evaluation.now \in 0..MaxReadings
      /\ evaluation.left \subseteq DOMAIN evaluation.copies
      /\ \A m \in DOMAIN evaluation.copies : evaluation.copies[m] \in Al!MonitorType
      /\ evaluation.stage \in {"none", "walking", "committed"}
  BY <1>2 DEF AlertInv, AlertsTyped, EvaluationOK, AlertsFit, EvaluationFits
<1>5. ASSUME NEW n \in Notifications
      PROVE  /\ notifications[n].state \in {"unused", "flushed", "stored", "lost", "deleted"}
             /\ notifications[n].about \in 0..MaxReadings
             /\ notifications[n].status \in {"pending", "sent", "failed"}
             /\ notifications[n].messages \in 0..MaxMessages
             /\ notifications[n].state \in {"flushed", "stored"} =>
                  /\ notifications[n].monitor \in Monitors
                  /\ notifications[n].about \in Al!Times
             /\ \A by \in {"task", "manual"} : delivery[n][by] \in Al!Stages
             /\ notifications[n].state = "flushed" => evaluation.stage = "walking"
  <2>1. notifications[n] \in NotificationRow /\ NotificationFits(notifications[n])
    BY DEF AlertInv, AlertsTyped, AlertsFit
  <2>2. delivery[n] \in [Senders -> Al!Stages]
    BY DEF AlertInv, AlertsTyped
  <2>3. notifications[n].state \in {"flushed", "stored"} => notifications[n].monitor \in Monitors
    BY DEF AlertInv, AlertsTyped, EvaluationOK, AlertsBehind
  <2>4. notifications[n].state = "flushed" => evaluation.stage = "walking"
    BY DEF AlertInv, AlertsTyped, EvaluationOK, AlertsBehind
  <2>. QED BY <2>1, <2>2, <2>3, <2>4 DEF NotificationRow, NotificationFits, Senders, Al!Times
<1>. QED BY <1>3, <1>4, <1>5 DEF Al!TypeOK, AlertsFit, ReadingsTyped

-----------------------------------------------------------------------------
(* Types of relationships.                                                 *)

RelationFits(row) ==
  /\ row.state \in {"unused", "live", "deleted"}
  /\ row.state # "unused" => row.pair \in Rel!Pairs /\ row.type \in RelationTypes

\* Only a live relationship has observations.
ObservationsFit ==
  \A r \in Rel!Ids : /\ observations[r] \subseteq Rel!Observation
                     /\ r \notin Rel!Live => observations[r] = {}

RelationsFit ==
  /\ \A r \in Rel!Ids : RelationFits(relationships[r])
  /\ ObservationsFit
  /\ \A c \in creating : c.pair \in Rel!Pairs /\ c.type \in RelationTypes
  /\ assessing \subseteq [id: Rel!Ids, at: 1..relationshipClock]
  /\ {comparison.current, comparison.previous} \subseteq Rel!Observation

LEMMA InitRelationsFit ==
  ASSUME MaxObservations \in Nat PROVE Rel!Init => RelationsFit
<1>. SUFFICES ASSUME Rel!Init PROVE RelationsFit
  OBVIOUS
<1>1. Rel!NoObservation \in Rel!Observation
  BY DEF Rel!NoObservation, Rel!Observation
<1>2. RelationFits(Rel!Unused)
  BY DEF Rel!Unused, RelationFits
<1>. QED BY <1>1, <1>2 DEF Rel!Init, Rel!NoComparison, RelationsFit, ObservationsFit

LEMMA CreationsFit ==
  ASSUME RelationInv, RelationsFit,
         \/ \E pair \in Rel!Pairs, type \in RelationTypes : Rel!BeginCreation(pair, type)
         \/ \E c \in creating : Rel!Create(c)
  PROVE  RelationsFit'
<1>1. CASE \E pair \in Rel!Pairs, type \in RelationTypes : Rel!BeginCreation(pair, type)
  <2>1. PICK pair \in Rel!Pairs, type \in RelationTypes :
          creating' = creating \cup {[id |-> started', pair |-> pair, type |-> type]}
    BY <1>1 DEF Rel!BeginCreation
  <2>2. UNCHANGED <<relationships, observations, assessing, relationshipClock, comparison>>
    BY <1>1 DEF Rel!BeginCreation
  <2>3. \A c \in creating' : c.pair \in Rel!Pairs /\ c.type \in RelationTypes
    BY <2>1 DEF RelationsFit
  <2>. QED BY <2>2, <2>3 DEF RelationsFit, ObservationsFit, Rel!Live
<1>2. ASSUME NEW c \in creating, Rel!Create(c) PROVE RelationsFit'
  <2>1. PICK row : row = [state |-> "live", pair |-> c.pair, type |-> c.type]
    OBVIOUS
  <2>2. /\ creating' = creating \ {c} /\ relationships' = [relationships EXCEPT ![c.id] = row]
        /\ UNCHANGED <<observations, assessing, relationshipClock, comparison>>
    BY <1>2, <2>1 DEF Rel!Create
  <2>3. RelationFits(row) /\ row.state = "live"
    BY <2>1 DEF RelationsFit, RelationFits
  <2>4. \A r \in Rel!Ids : relationships'[r] = IF r = c.id THEN row ELSE relationships[r]
    BY <2>2 DEF RelationInv, RelationsTyped
  <2>5. ObservationsFit'
    BY <2>2, <2>3, <2>4 DEF RelationsFit, ObservationsFit, Rel!Live
  <2>. QED BY <2>2, <2>3, <2>4, <2>5 DEF RelationsFit
<1>. QED BY <1>1, <1>2

LEMMA RecordingFits ==
  ASSUME RelationInv, RelationsFit, MaxObservations \in Nat,
         \/ \E r \in Rel!Ids : Rel!BeginObservation(r)
         \/ \E a \in assessing : Rel!RecordObservation(a)
  PROVE  RelationsFit'
<1>1. ASSUME NEW r \in Rel!Ids, Rel!BeginObservation(r) PROVE RelationsFit'
  <2>1. /\ relationshipClock' = relationshipClock + 1
        /\ assessing' = assessing \cup {[id |-> r, at |-> relationshipClock']}
        /\ UNCHANGED <<relationships, observations, creating, comparison>>
    BY <1>1 DEF Rel!BeginObservation
  <2>2. assessing' \subseteq [id: Rel!Ids, at: 1..relationshipClock']
    <3>1. relationshipClock \in Nat
      BY DEF RelationInv, RelationsTyped
    <3>. QED BY <2>1, <3>1 DEF RelationsFit
  <2>. QED BY <2>1, <2>2 DEF RelationsFit, ObservationsFit, Rel!Live
<1>2. ASSUME NEW a \in assessing, Rel!RecordObservation(a) PROVE RelationsFit'
  <2>1. PICK score \in RelationScores \cup {Rel!NoScore} :
          observations' = [observations EXCEPT
            ![a.id] = observations[a.id] \cup {[at |-> a.at, score |-> score]}]
    BY <1>2 DEF Rel!RecordObservation
  <2>2. /\ assessing' = assessing \ {a} /\ a.id \in Rel!Live
        /\ UNCHANGED <<relationships, creating, relationshipClock, comparison>>
    BY <1>2 DEF Rel!RecordObservation
  <2>3. [at |-> a.at, score |-> score] \in Rel!Observation
    <3>1. a.at \in 1..relationshipClock /\ relationshipClock \in 0..MaxObservations
      BY DEF RelationInv, RelationsTyped
    <3>. QED BY <3>1 DEF Rel!Observation
  <2>4. ASSUME NEW r \in Rel!Ids
        PROVE  observations'[r] \subseteq Rel!Observation /\ (r \notin Rel!Live => observations'[r] = {})
    <3>1. DOMAIN observations = Rel!Ids
      BY DEF RelationInv, RelationsTyped
    <3>. QED BY <2>1, <2>2, <2>3, <3>1 DEF RelationsFit, ObservationsFit
  <2>5. Rel!Live' = Rel!Live
    BY <2>2 DEF Rel!Live
  <2>. QED BY <2>2, <2>4, <2>5 DEF RelationsFit, ObservationsFit
<1>. QED BY <1>1, <1>2

LEMMA DeleteActorFits ==
  ASSUME RelationInv, RelationsFit, NEW actor \in Actors, Rel!DeleteActor(actor)
  PROVE  RelationsFit'
<1>. DEFINE gone == {r \in Rel!Live : actor \in relationships[r].pair}
<1>1. /\ relationships' = [r \in Rel!Ids |-> IF r \in gone
                             THEN [relationships[r] EXCEPT !.state = "deleted"]
                             ELSE relationships[r]]
      /\ observations' = [r \in Rel!Ids |-> IF r \in gone THEN {} ELSE observations[r]]
      /\ creating' \subseteq creating
      /\ UNCHANGED <<assessing, relationshipClock, comparison>>
  BY DEF Rel!DeleteActor
<1>. HIDE DEF gone
<1>2. ASSUME NEW r \in Rel!Ids
      PROVE  /\ RelationFits(relationships'[r])
             /\ r \notin gone => relationships'[r] = relationships[r]
  <2>1. DOMAIN relationships[r] = {"state", "pair", "type"} /\ RelationFits(relationships[r])
    BY DEF RelationInv, RelationsTyped, RelationsFit
  <2>2. r \in gone => relationships[r].state = "live"
    BY DEF gone, Rel!Live
  <2>. QED BY <1>1, <2>1, <2>2 DEF RelationFits
<1>3. ObservationsFit'
  BY <1>1, <1>2 DEF RelationsFit, ObservationsFit, Rel!Live
<1>. QED BY <1>1, <1>2, <1>3 DEF RelationsFit

\* Whatever is compared was observed, or stands for nothing.
LEMMA LatestFits ==
  ASSUME MaxObservations \in Nat, RelationInv, RelationsFit, NEW r \in Rel!Ids,
         NEW set \in SUBSET observations[r]
  PROVE  Rel!Latest(set) \in Rel!Observation
<1>1. CASE set = {}
  BY <1>1 DEF Rel!Latest, Rel!NoObservation, Rel!Observation
<1>2. CASE set # {}
  <2>1. set \in SUBSET [at: 1..MaxObservations, score: Int]
    BY DEF RelationInv, RelationsTyped
  <2>2. Rel!Latest(set) \in set
    BY <1>2, <2>1, LatestOf
  <2>. QED BY <2>2 DEF RelationsFit, ObservationsFit
<1>. QED BY <1>1, <1>2

LEMMA ComparisonsFit ==
  ASSUME MaxObservations \in Nat, RelationInv, RelationsFit,
         \/ \E r \in Rel!Ids : Rel!ReadLatest(r)
         \/ Rel!ReadPrevious \/ Rel!Compared
  PROVE  RelationsFit'
<1>0. Rel!NoObservation \in Rel!Observation
  BY DEF Rel!NoObservation, Rel!Observation
<1>1. UNCHANGED <<relationships, observations, creating, assessing, relationshipClock>>
  BY DEF Rel!ReadLatest, Rel!ReadPrevious, Rel!Compared
<1>2. SUFFICES comparison'.current \in Rel!Observation /\ comparison'.previous \in Rel!Observation
  BY <1>1 DEF RelationsFit, ObservationsFit, Rel!Live
<1>3. ASSUME NEW r \in Rel!Ids, Rel!ReadLatest(r)
      PROVE  comparison'.current \in Rel!Observation /\ comparison'.previous \in Rel!Observation
  <2>1. PICK known \in SUBSET observations[r] :
          comparison' = [Rel!NoComparison EXCEPT !.stage = "current", !.id = r,
                                                 !.current = Rel!Latest(known)]
    <3>1. PICK asOf :
            comparison' = [Rel!NoComparison EXCEPT !.stage = "current", !.id = r,
              !.current = Rel!Latest({o \in observations[r] : o.at <= asOf})]
      BY <1>3 DEF Rel!ReadLatest
    <3>. QED BY <3>1
  <2>2. Rel!Latest(known) \in Rel!Observation
    BY LatestFits
  <2>. QED BY <1>0, <2>1, <2>2 DEF Rel!NoComparison
<1>4. CASE Rel!ReadPrevious
  <2>1. PICK before : before = {o \in observations[comparison.id] : o.at < comparison.current.at}
    OBVIOUS
  <2>2. comparison.stage = "current" /\ comparison' = [comparison EXCEPT !.stage = "answered",
                                                         !.previous = Rel!Latest(before)]
    BY <1>4, <2>1 DEF Rel!ReadPrevious
  <2>3. comparison.id \in Rel!Ids /\ DOMAIN comparison = {"stage", "id", "current", "previous"}
    BY <2>2 DEF RelationInv, ComparisonTyped
  <2>4. Rel!Latest(before) \in Rel!Observation
    BY <2>1, <2>3, LatestFits
  <2>. QED BY <2>2, <2>3, <2>4 DEF RelationsFit
<1>5. CASE Rel!Compared
  BY <1>0, <1>5 DEF Rel!Compared, Rel!NoComparison
<1>. QED BY <1>3, <1>4, <1>5

LEMMA RelationsFitAlways ==
  ASSUME MaxObservations \in Nat, RelationInv, RelationsFit, [Rel!Next]_Rel!vars
  PROVE  RelationsFit'
<1>1. ASSUME creating' \subseteq creating, assessing' \subseteq assessing,
             UNCHANGED <<relationships, observations, relationshipClock, comparison>>
      PROVE  RelationsFit'
  BY <1>1 DEF RelationsFit, ObservationsFit, Rel!Live
<1>2. CASE UNCHANGED Rel!vars
  BY <1>1, <1>2 DEF Rel!vars
<1>3. CASE Rel!Fail \/ Rel!List \/ Rel!AddEdge \/ Rel!Answer
  BY <1>1, <1>3 DEF Rel!Fail, Rel!List, Rel!AddEdge, Rel!Answer
<1>. QED BY <1>2, <1>3, CreationsFit, RecordingFits, DeleteActorFits, ComparisonsFit DEF Rel!Next

LEMMA RelationTypesHold ==
  ASSUME RelationInv, RelationsFit PROVE Rel!TypeOK
<1>1. DOMAIN graph.edges \subseteq Rel!Pairs
  <2>1. ASSUME NEW r \in Done PROVE relationships[r].pair \in Rel!Pairs
    BY DEF Done, RelationInv, GraphTyped, RelationsFit, RelationFits
  <2>. QED BY <2>1 DEF RelationInv, EdgesSoFar
<1>2. \A r \in Rel!Ids :
        /\ relationships[r].state \in {"unused", "live", "deleted"}
        /\ r \in Rel!Live => relationships[r].pair \in Rel!Pairs /\ relationships[r].type \in RelationTypes
        /\ observations[r] \subseteq Rel!Observation
        /\ r \notin Rel!Live => observations[r] = {}
  BY DEF RelationsFit, RelationFits, ObservationsFit, Rel!Live
<1>3. \A c \in creating : c.id \in 1..started /\ c.pair \in Rel!Pairs /\ c.type \in RelationTypes
  BY DEF RelationInv, CreationsApart, RelationsFit
<1>. QED BY <1>1, <1>2, <1>3
         DEF Rel!TypeOK, RelationInv, RelationsTyped, RelationsFit, GraphTyped, ComparisonTyped

-----------------------------------------------------------------------------
(* Types of records.                                                       *)

\* A reference that a row has is one the schema gives its table, to a row that exists.
LEMMA LinksAre ==
  ASSUME NEW row, NEW l
  PROVE  l \in Rec!LinksOf(row) <=>
           \E ref \in Rec!References(row), to \in rows :
             to.table = ref.parent /\ l = [from |-> row, ref |-> ref, to |-> to]
BY DEF Rec!LinksOf, Rec!LinkOf, Rec!Of

\* Rows come or go, and a reference that stays is between rows that stay.
LEMMA LinksStay ==
  ASSUME NEW row, NEW l \in Rec!LinksOf(row), l.to \in rows'
  PROVE  l \in Rec!LinksOf(row)'
<1>1. PICK ref \in Rec!References(row), to \in rows :
        to.table = ref.parent /\ l = [from |-> row, ref |-> ref, to |-> to]
  BY LinksAre
<1>2. to \in rows'
  BY <1>1
<1>3. l \in UNION {{Rec!LinkOf(row, r, x) : x \in {x \in rows' : x.table = r.parent}} :
                     r \in Rec!References(row)}
  BY <1>1, <1>2 DEF Rec!LinkOf
<1>. QED BY <1>3 DEF Rec!LinksOf, Rec!Of, Rec!LinkOf, Rec!References

LEMMA RecordTypesAlways ==
  ASSUME Rec!TypeOK, [Rec!Next]_Rec!vars PROVE Rec!TypeOK'
<1>1. ASSUME UNCHANGED population, rows' \subseteq population,
             \A l \in links' : l.from \in rows' /\ l.to \in rows' /\ l \in Rec!LinksOf(l.from),
             \A d \in deleting' : d.root \in population /\ d.loaded \subseteq population
      PROVE  Rec!TypeOK'
  BY <1>1, LinksStay DEF Rec!TypeOK
<1>2. \A l \in links : l.from \in rows /\ l.to \in rows /\ l \in Rec!LinksOf(l.from)
  BY LinksAre DEF Rec!TypeOK
<1>3. rows \subseteq population
      /\ \A d \in deleting : d.root \in population /\ d.loaded \subseteq population
  BY DEF Rec!TypeOK
<1>4. ASSUME NEW row \in population, Rec!Insert(row) PROVE Rec!TypeOK'
  <2>1. PICK chosen \in SUBSET Rec!LinksOf(row) : links' = links \cup chosen
    BY <1>4 DEF Rec!Insert
  <2>2. rows' = rows \cup {row} /\ UNCHANGED <<population, deleting>>
    BY <1>4 DEF Rec!Insert
  <2>3. \A l \in chosen : l.from = row /\ l.to \in rows
    BY LinksAre
  <2>. QED BY <1>1, <1>2, <1>3, <2>1, <2>2, <2>3
<1>5. ASSUME NEW row \in population, Rec!RequestDelete(row) PROVE Rec!TypeOK'
  <2>1. PICK d : /\ deleting' = deleting \cup {d} /\ d.root = row
                 /\ \A x \in d.loaded : \E l \in links : l.from = x
    <3>. DEFINE d == [root |-> row,
                      loaded |-> {l.from : l \in {m \in links :
                                    /\ m.to = row /\ <<row.table, m.from.table>> \in Rec!Owned}}]
    <3>1. deleting' = deleting \cup {d}
      BY <1>5 DEF Rec!RequestDelete
    <3>2. d.root = row /\ \A x \in d.loaded : \E l \in links : l.from = x
      OBVIOUS
    <3>. QED BY <3>1, <3>2
  <2>2. UNCHANGED <<population, rows, links>>
    BY <1>5 DEF Rec!RequestDelete
  <2>3. d.root \in population /\ d.loaded \subseteq population
    BY <1>2, <1>3, <2>1
  <2>. QED BY <1>1, <1>2, <1>3, <2>1, <2>2, <2>3
<1>6. ASSUME NEW d \in deleting, Rec!Flush(d) PROVE Rec!TypeOK'
  <2>1. PICK gone : /\ rows' = rows \ gone /\ deleting' = deleting \ {d} /\ UNCHANGED population
                    /\ links' = {l \in links : l.from \notin gone /\ l.to \notin gone}
    BY <1>6 DEF Rec!Flush
  <2>. QED BY <1>1, <1>2, <1>3, <2>1
<1>7. ASSUME NEW d \in deleting, Rec!Fail(d) PROVE Rec!TypeOK'
  <2>1. deleting' = deleting \ {d} /\ UNCHANGED <<population, rows, links>>
    BY <1>7 DEF Rec!Fail
  <2>. QED BY <1>1, <1>2, <1>3, <2>1
<1>8. CASE UNCHANGED Rec!vars
  <2>1. UNCHANGED <<population, rows, links, deleting>>
    BY <1>8 DEF Rec!vars
  <2>. QED BY <1>1, <1>2, <1>3, <2>1
<1>. QED BY <1>4, <1>5, <1>6, <1>7, <1>8 DEF Rec!Next

-----------------------------------------------------------------------------
(* Types of the whole.                                                     *)

\* What of each component is typed: its inductive invariant, and what its types need on
\* top of that.
ComponentsTyped ==
  /\ component \in Components
  /\ component = "reports" => IInv
  /\ component = "investigations" => ExecutionsFound /\ BriefsWithin
  /\ component = "alerts" => AlertInv /\ AlertsFit
  /\ component = "imagery" => ImageInv /\ ContentsHold
  /\ component = "scenarios" => ScenarioInv /\ AssessmentsTyped
  /\ component = "forecasts" => ForecastsTyped
  /\ component = "positions" => PositionsTyped
  /\ component = "relationships" => RelationInv /\ RelationsFit
  /\ component = "registry" => RegistryInv /\ RegistryFits
  /\ component = "records" => Rec!TypeOK
  /\ component = "crawl" => CrawlInv /\ CrawlFits

LEMMA InitComponentsTyped == DeskInit => ComponentsTyped
<1>. SUFFICES ASSUME DeskInit PROVE ComponentsTyped
  OBVIOUS
<1>1. IInv /\ ExecutionsFound /\ BriefsWithin
  BY InitIInv, InitExecutionsFound, BriefsWithinAlways, DeskAssumption DEF DeskInit
<1>2. AlertInv /\ AlertsFit /\ ImageInv /\ ContentsHold
  <2>1. AlertInv /\ AlertsFit
    BY InitAlertInv, InitAlertsFit, DeskAssumption DEF DeskInit
  <2>2. ImageInv
    BY InitImageInv DEF DeskInit
  <2>3. ContentsHold
    BY <2>2, ContentsHoldAlways DEF DeskInit, ImageInv
  <2>. QED BY <2>1, <2>2, <2>3
<1>3. ScenarioInv /\ AssessmentsTyped /\ ForecastsTyped
  BY InitScenarioInv, InitAssessmentsTyped, InitForecastsTyped, DeskAssumption DEF DeskInit
<1>4. PositionsTyped
  BY PositionsTypedAlways DEF DeskInit
<1>5. RelationInv /\ RelationsFit
  BY InitRelationInv, InitRelationsFit, DeskAssumption DEF DeskInit
<1>6. RegistryInv /\ RegistryFits
  <2>1. RegistryInv
    BY InitRegistryInv, DeskAssumption DEF DeskInit
  <2>. QED BY <2>1, RegistryFitsAlways DEF RegistryInv, DeskInit
<1>7. Rec!TypeOK
  BY DEF DeskInit, Rec!Init, Rec!TypeOK
<1>8. CrawlInv /\ CrawlFits
  <2>1. CrawlInv
    BY InitCrawlInv, DeskAssumption DEF DeskInit
  <2>. QED BY <2>1, CrawlFitsAlways, DeskAssumption DEF DeskInit
<1>. QED BY <1>1, <1>2, <1>3, <1>4, <1>5, <1>6, <1>7, <1>8 DEF ComponentsTyped, DeskInit

LEMMA NextComponentsTyped == ComponentsTyped /\ [DeskNext]_deskVars => ComponentsTyped'
<1>. SUFFICES ASSUME ComponentsTyped, [DeskNext]_deskVars PROVE ComponentsTyped'
  OBVIOUS
<1>0. component' = component
  BY OneMoves
<1>1. CASE component = "reports"
  BY <1>0, <1>1, OneMoves, NextKeeps DEF ComponentsTyped
<1>2. CASE component = "investigations"
  BY <1>0, <1>2, OneMoves, NextExecutionsFound, BriefsWithinAlways, DeskAssumption DEF ComponentsTyped
<1>3. CASE component = "alerts"
  BY <1>0, <1>3, OneMoves, NextAlertInv, AlertsFitAlways, DeskAssumption DEF ComponentsTyped
<1>4. CASE component = "imagery"
  <2>1. ImageInv /\ ContentsHold /\ [Img!Next]_Img!vars
    BY <1>4, OneMoves DEF ComponentsTyped
  <2>. QED BY <1>0, <1>4, <2>1, NextImageInv, ContentsHoldAlways DEF ComponentsTyped, ImageInv
<1>5. CASE component = "scenarios"
  <2>1. ScenarioInv /\ AssessmentsTyped /\ [Sc!Next]_Sc!vars
    BY <1>5, OneMoves DEF ComponentsTyped
  <2>. QED BY <1>0, <1>5, <2>1, NextScenarioInv, NextAssessmentsTyped, DeskAssumption DEF ComponentsTyped
<1>6. CASE component = "forecasts"
  BY <1>0, <1>6, OneMoves, NextForecastsTyped DEF ComponentsTyped
<1>7. CASE component = "positions"
  BY <1>0, <1>7, OneMoves, PositionsTypedAlways DEF ComponentsTyped
<1>8. CASE component = "relationships"
  <2>1. RelationInv /\ RelationsFit /\ [Rel!Next]_Rel!vars
    BY <1>8, OneMoves DEF ComponentsTyped
  <2>. QED BY <1>0, <1>8, <2>1, NextRelationInv, RelationsFitAlways, DeskAssumption DEF ComponentsTyped
<1>9. CASE component = "registry"
  <2>1. RegistryInv /\ RegistryFits /\ [Reg!Next]_Reg!vars
    BY <1>9, OneMoves DEF ComponentsTyped
  <2>2. RegistryInv'
    BY <2>1, NextRegistryInv, DeskAssumption
  <2>3. RegistryFits'
    BY <2>1, RegistryFitsAlways DEF RegistryInv
  <2>. QED BY <1>0, <1>9, <2>2, <2>3 DEF ComponentsTyped
<1>10. CASE component = "records"
  BY <1>0, <1>10, OneMoves, RecordTypesAlways DEF ComponentsTyped
<1>11. CASE component = "crawl"
  <2>1. CrawlInv /\ CrawlFits /\ [Cr!Next]_Cr!vars
    BY <1>11, OneMoves DEF ComponentsTyped
  <2>2. CrawlInv'
    BY <2>1, NextCrawlInv, DeskAssumption
  <2>3. CrawlFits'
    BY <2>1, CrawlFitsAlways, DeskAssumption
  <2>. QED BY <1>0, <1>11, <2>2, <2>3 DEF ComponentsTyped
<1>. QED BY <1>1, <1>2, <1>3, <1>4, <1>5, <1>6, <1>7, <1>8, <1>9, <1>10, <1>11
         DEF ComponentsTyped, Components

LEMMA ComponentTypes == ComponentsTyped => DeskTypeOK
<1>. SUFFICES ASSUME ComponentsTyped PROVE DeskTypeOK
  OBVIOUS
<1>1. component = "reports" => TypeOK
  BY IInvGivesTypes DEF ComponentsTyped
<1>2. component = "investigations" => Inv!TypeOK
  BY InvestigationTypes DEF ComponentsTyped
<1>3. component = "alerts" => Al!TypeOK
  BY AlertTypes, DeskAssumption DEF ComponentsTyped
<1>4. component = "imagery" => Img!TypeOK
  BY ImageTypes DEF ComponentsTyped, ImageInv
<1>5. component = "scenarios" => Sc!TypeOK
  BY ScenarioTypes DEF ComponentsTyped
<1>6. component = "forecasts" => Fc!TypeOK
  BY ForecastTypes DEF ComponentsTyped
<1>7. component = "positions" => Pos!TypeOK
  BY PositionTypes DEF ComponentsTyped
<1>8. component = "relationships" => Rel!TypeOK
  BY RelationTypesHold DEF ComponentsTyped
<1>9. component = "registry" => Reg!TypeOK
  BY RegistryTypes DEF ComponentsTyped, RegistryInv
<1>10. component = "crawl" => Cr!TypeOK
  BY CrawlTypes, DeskAssumption DEF ComponentsTyped
<1>. QED BY <1>1, <1>2, <1>3, <1>4, <1>5, <1>6, <1>7, <1>8, <1>9, <1>10 DEF ComponentsTyped, DeskTypeOK

\* Each component's variables keep their types, for any values of the constants: what
\* requests, jobs and detached tasks write, whatever they have read, is a row of its table.
THEOREM DeskIsTyped == DeskSpec => []DeskTypeOK
<1>. QED BY InitComponentsTyped, NextComponentsTyped, ComponentTypes, PTL DEF DeskSpec

\* Seen from reports alone, the desk is Reports: what is proved of one holds of the other.
THEOREM DeskShowsReports == DeskSpec => Spec
<1>1. DeskInit => Init
  BY DEF DeskInit
<1>2. [DeskNext]_deskVars => [Next]_vars
  BY OneMoves
<1>. QED BY <1>1, <1>2, PTL DEF DeskSpec, Spec
====================================================================================
