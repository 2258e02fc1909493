------------------------------ MODULE RiskAlerts ------------------------------
(***************************************************************************)
(* What follows a drift event, for one stock row: whoever has written it   *)
(* counts the row's events of the last 24 hours, overwrites the risk       *)
(* snapshot, and sends the alerts that are due.  Each is a separate call   *)
(* to Postgres or Slack, so calls for the same row overlap.                *)
(*                                                                         *)
(* Calls are scans and rechecks reporting a drift or a failure, a post of  *)
(* the drift-events endpoint, and a fix attempt that ends for good.        *)
(***************************************************************************)
EXTENDS Integers, Sequences, FiniteSetsExt

CONSTANTS
  Callers,        \* concurrent scans, requests and fixes
  HighThreshold,  \* DRIFT_RISK_HIGH_THRESHOLD (3 unless set)
  MaxEvents,      \* bound: drift events of the row
  Cost,           \* what the environment may do, and what each time takes
  Mishaps         \* bound: what it may spend altogether

ASSUME RiskAssumption ==
  /\ HighThreshold \in Nat \ {0}
  /\ MaxEvents \in Nat /\ Mishaps \in Nat
  /\ \A what \in DOMAIN Cost : Cost[what] \in Nat

\* "FIX_QUEUED" stands for every open status (DETECTED, FIXING and RETRYING
\* too), "CLOSED" for RESOLVED and IGNORED.
Statuses == {"FIX_QUEUED", "FAILED_MANUAL", "CLOSED"}
Alerts   == [kind : {"detected", "manual", "high"}, event : Nat]

VARIABLES
  events,    \* statuses of the row's drift events, oldest first
  recent,    \* how many of them are younger than 24 hours
  snapshot,  \* driftCount24h of the row's risk snapshot, 0 while there is none
  log,       \* alerts with an alert_delivery_log row, SENT, FAILED or SKIPPED
  call,      \* what each caller is doing
  lost,      \* history: alerts owed by calls that failed or died
  silent,    \* history: events posted in a status that nothing announces
  budget     \* mishaps left

vars == <<events, recent, snapshot, log, call, lost, silent, budget>>

Unread == -1

Call == [pc      : {"idle", "find", "write", "refresh", "high", "alert"},
         status  : Statuses,                     \* what is reported
         event   : Nat,                          \* the event found, 0 for none
         before  : Statuses \cup {"none"},       \* and its status
         again   : BOOLEAN,                      \* the index has refused a new event
         guarded : BOOLEAN,                      \* a failure lands in processRow's catch
         alerts  : SUBSET Alerts,                \* alerts due for the event once written
         new     : BOOLEAN,                      \* the call has created it
         level   : {"unread", "LOW", "MEDIUM", "HIGH"},  \* the snapshot's, as read
         count   : Nat \cup {Unread}]            \* the number of recent events, as read

NoCall == [pc |-> "idle", status |-> "CLOSED", event |-> 0, before |-> "none",
           again |-> FALSE, guarded |-> FALSE, alerts |-> {}, new |-> FALSE,
           level |-> "unread", count |-> Unread]

Doing(c, what) == call' = [call EXCEPT ![c] = what]

Spend(what) == /\ what \in DOMAIN Cost
               /\ budget >= Cost[what]
               /\ budget' = budget - Cost[what]

Init ==
  /\ events = <<>>
  /\ recent = 0
  /\ snapshot = 0
  /\ log = {}
  /\ call = [c \in Callers |-> NoCall]
  /\ lost = {}
  /\ silent = {}
  /\ budget = Mishaps

-------------------------------------------------------------------------------
(* The alerts a call owes *)

LevelForCount(n) ==
  CASE n >= HighThreshold -> "HIGH"
    [] n < HighThreshold /\ n >= 2 -> "MEDIUM"
    [] OTHER -> "LOW"

HighAlert        == [kind |-> "high", event |-> 0]
DetectedAlert(e) == [kind |-> "detected", event |-> e]
ManualAlert(e)   == [kind |-> "manual", event |-> e]

\* Mutant: only new events are announced
AlertsOfCreations(e, status, before) ==
  CASE status = "FIX_QUEUED" /\ before = "none" -> {DetectedAlert(e)}
    [] status = "FAILED_MANUAL" /\ before = "none" -> {ManualAlert(e)}
    [] OTHER -> {}

\* afterDriftMutation: a new drift is announced, and so is an event that has become
\* FAILED_MANUAL.
EventAlerts(e, status, before) ==
  CASE status = "FIX_QUEUED" /\ before = "none" -> {DetectedAlert(e)}
    [] status = "FAILED_MANUAL" /\ before # "FAILED_MANUAL" -> {ManualAlert(e)}
    [] OTHER -> {}

\* afterDriftCreated: of a posted event DETECTED and FIX_QUEUED are announced, and
\* FAILED_MANUAL, but not FIXING and RETRYING, RESOLVED and IGNORED.
PostAlerts(e, status) ==
  CASE status = "FIX_QUEUED" -> {{DetectedAlert(e)}, {}}
    [] status = "FAILED_MANUAL" -> {{ManualAlert(e)}}
    [] OTHER -> {{}}

\* What a call still has to send.
Owed(k) == k.alerts \cup IF k.pc = "high" THEN {HighAlert} ELSE {}

\* A call that has created an event and not yet judged the row by it; if it goes on
\* to see so many events, it owes the alert for the row.
Judging(k)   == k.pc = "refresh" /\ k.new
WouldRise(k) == Judging(k) /\ (IF k.count = Unread THEN recent ELSE k.count) >= HighThreshold

OnTheWay == UNION {Owed(call[c]) : c \in Callers}
Lose(c) ==
  lost' = lost \cup Owed(call[c]) \cup IF WouldRise(call[c]) THEN {HighAlert} ELSE {}

-------------------------------------------------------------------------------
(* Drift events are written *)

OpenEvents == {e \in DOMAIN events : events[e] = "FIX_QUEUED"}

\* The partial unique index: e may be open if no other event of the row is.
MayOpen(e) == OpenEvents \subseteq {e}

\* The newest event a scan may use again, 0 if there is none.
NewestReusable ==
  LET found == {e \in DOMAIN events : events[e] # "CLOSED"}
  IN  IF found = {} THEN 0 ELSE Max(found)

\* A scan or recheck reports a drift, from within its try block, or a row
\* without a mapping or in the OMS.
Report(c, status) ==
  /\ call[c] = NoCall
  /\ Doing(c, [NoCall EXCEPT !.pc = "find", !.status = status,
                             !.guarded = (status = "FIX_QUEUED")])
  /\ UNCHANGED <<events, recent, snapshot, log, lost, silent, budget>>

\* A failure in the try block is reported as FAILED_MANUAL, any other is the end.
Caught(c) ==
  Doing(c, IF call[c].guarded
           THEN [NoCall EXCEPT !.pc = "find", !.status = "FAILED_MANUAL"] ELSE NoCall)

FindReusable(c) ==
  LET e == NewestReusable
  IN  /\ call[c].pc = "find"
      /\ IF e = 0 /\ call[c].again
         THEN Caught(c)
         ELSE Doing(c, [call[c] EXCEPT !.pc = "write", !.event = e,
                                       !.before = IF e = 0 THEN "none" ELSE events[e]])
      /\ UNCHANGED <<events, recent, snapshot, log, lost, silent, budget>>

\* The event is written; the snapshot is next, then the alerts.
Written(c, alerts, new) ==
  Doing(c, [NoCall EXCEPT !.pc = "refresh", !.guarded = call[c].guarded,
                          !.alerts = alerts, !.new = new])

\* The event found is overwritten, whatever has become of it since.
UpdateDrift(c) ==
  LET k == call[c]
  IN  /\ k.pc = "write" /\ k.event # 0
      /\ IF k.status = "FIX_QUEUED" => MayOpen(k.event)
         THEN /\ events' = [events EXCEPT ![k.event] = k.status]
              /\ Written(c, EventAlerts(k.event, k.status, k.before), FALSE)
         ELSE Caught(c) /\ UNCHANGED events
      /\ UNCHANGED <<recent, snapshot, log, lost, silent, budget>>

Insert(status) ==
  /\ Len(events) < MaxEvents
  /\ events' = Append(events, status)
  /\ recent' = recent + 1

\* When the index refuses a new event the scan looks once more for an old one.
CreateDrift(c) ==
  LET k == call[c]
  IN  /\ k.pc = "write" /\ k.event = 0
      /\ IF k.status = "FIX_QUEUED" /\ OpenEvents # {}
         THEN /\ Doing(c, [k EXCEPT !.pc = "find", !.again = TRUE])
              /\ UNCHANGED <<events, recent>>
         ELSE /\ Insert(k.status)
              /\ Written(c, EventAlerts(Len(events) + 1, k.status, "none"), TRUE)
      /\ UNCHANGED <<snapshot, log, lost, silent, budget>>

\* An event posted by hand, in any status; what the index refuses fails the request.
CreateEvent(c, status) ==
  LET e == Len(events) + 1
  IN  /\ call[c] = NoCall
      /\ status = "FIX_QUEUED" => OpenEvents = {}
      /\ Insert(status)
      /\ \E alerts \in PostAlerts(e, status) :
           /\ Written(c, alerts, TRUE)
           /\ IF alerts = {} THEN Spend("silence") /\ silent' = silent \cup {e}
                              ELSE UNCHANGED <<silent, budget>>
      /\ UNCHANGED <<snapshot, log, lost>>

\* A fix attempt gives up, whatever has become of the event: it alerts, and leaves
\* the snapshot alone.
FixFails(c, e) ==
  /\ call[c] = NoCall
  /\ e \in DOMAIN events
  /\ IF e \in OpenEvents THEN UNCHANGED budget ELSE Spend("overtaken")
  /\ events' = [events EXCEPT ![e] = "FAILED_MANUAL"]
  /\ Doing(c, [NoCall EXCEPT !.pc = "alert", !.alerts = {ManualAlert(e)}])
  /\ UNCHANGED <<recent, snapshot, log, lost, silent>>

\* A fix or a scan in sync resolves the event, or an operator ignores it.
Close(e) ==
  /\ e \in DOMAIN events /\ events[e] # "CLOSED"
  /\ events' = [events EXCEPT ![e] = "CLOSED"]
  /\ UNCHANGED <<recent, snapshot, log, call, lost, silent, budget>>

\* An operator retries an event, which may have been closed since it was checked, or
\* a fix that is still running writes FIXING or RETRYING over it.
Retry(e) ==
  /\ Spend("retry")
  /\ e \in DOMAIN events /\ MayOpen(e)
  /\ events' = [events EXCEPT ![e] = "FIX_QUEUED"]
  /\ UNCHANGED <<recent, snapshot, log, call, lost, silent>>

-------------------------------------------------------------------------------
(* refreshForEvent *)

\* The snapshot and the count are read side by side.
ReadLevel(c) ==
  /\ call[c].pc = "refresh" /\ call[c].level = "unread"
  /\ Doing(c, [call[c] EXCEPT !.level = LevelForCount(snapshot)])
  /\ UNCHANGED <<events, recent, snapshot, log, lost, silent, budget>>

ReadCount(c) ==
  /\ call[c].pc = "refresh" /\ call[c].count = Unread
  /\ Doing(c, [call[c] EXCEPT !.count = recent])
  /\ UNCHANGED <<events, recent, snapshot, log, lost, silent, budget>>

\* What was read is not looked at again.
Judged(c, pc) ==
  Doing(c, [NoCall EXCEPT !.pc = pc, !.guarded = call[c].guarded,
                          !.alerts = call[c].alerts])

\* The call goes on to the event's own alerts, if there are any.
AfterRefresh(c) == IF call[c].alerts = {} THEN Doing(c, NoCall) ELSE Judged(c, "alert")

\* Mutant: only a MEDIUM row can rise to HIGH
UpsertFromMedium(c) ==
  LET k == call[c]
  IN  /\ k.pc = "refresh" /\ k.level # "unread" /\ k.count # Unread
      /\ snapshot' = k.count
      /\ IF k.level = "MEDIUM" /\ LevelForCount(k.count) = "HIGH"
         THEN Judged(c, "high") ELSE AfterRefresh(c)
      /\ UNCHANGED <<events, recent, log, lost, silent, budget>>

\* The snapshot is overwritten with what was counted.  The row has risen to HIGH
\* if it was not HIGH when it was read.
Upsert(c) ==
  LET k == call[c]
  IN  /\ k.pc = "refresh" /\ k.level # "unread" /\ k.count # Unread
      /\ snapshot' = k.count
      /\ IF k.level # "HIGH" /\ LevelForCount(k.count) = "HIGH"
         THEN Judged(c, "high") ELSE AfterRefresh(c)
      /\ UNCHANGED <<events, recent, log, lost, silent, budget>>

-------------------------------------------------------------------------------
(* sendSlack: the delivery is logged whether or not Slack has taken it *)

NotifyHigh(c) ==
  /\ call[c].pc = "high"
  /\ log' = log \cup {HighAlert}
  /\ AfterRefresh(c)
  /\ UNCHANGED <<events, recent, snapshot, lost, silent, budget>>

Notify(c) ==
  /\ call[c].pc = "alert"
  /\ log' = log \cup call[c].alerts
  /\ Doing(c, NoCall)
  /\ UNCHANGED <<events, recent, snapshot, lost, silent, budget>>

-------------------------------------------------------------------------------
(* What goes wrong *)

\* A statement of the call rejects: what it still had to send is not sent.
CallFails(c) ==
  /\ call[c] # NoCall
  /\ Spend("failure")
  /\ Lose(c)
  /\ Caught(c)
  /\ UNCHANGED <<events, recent, snapshot, log, silent>>

\* Its process dies.
CallDies(c) ==
  /\ call[c] # NoCall
  /\ Spend("crash")
  /\ Lose(c)
  /\ Doing(c, NoCall)
  /\ UNCHANGED <<events, recent, snapshot, log, silent>>

\* An event becomes older than 24 hours; nothing is told.
Age ==
  /\ Spend("age")
  /\ recent > 0
  /\ recent' = recent - 1
  /\ UNCHANGED <<events, snapshot, log, call, lost, silent>>

-------------------------------------------------------------------------------
(* Specification *)

Step(c) ==
  \/ FindReusable(c) \/ UpdateDrift(c) \/ CreateDrift(c)
  \/ ReadLevel(c) \/ ReadCount(c) \/ Upsert(c) \/ NotifyHigh(c) \/ Notify(c)

Begin(c) ==
  \/ \E s \in {"FIX_QUEUED", "FAILED_MANUAL"} : Report(c, s)
  \/ \E s \in Statuses : CreateEvent(c, s)
  \/ \E e \in 1..MaxEvents : FixFails(c, e)

Next ==
  \/ \E c \in Callers : Begin(c) \/ Step(c) \/ CallFails(c) \/ CallDies(c)
  \/ \E e \in 1..MaxEvents : Close(e) \/ Retry(e)
  \/ Age

Spec == Init /\ [][Next]_vars

-------------------------------------------------------------------------------
(* Properties *)

\* Type correctness: alerts and calls name events that exist.
TypeOK ==
  /\ events \in Seq(Statuses) /\ Len(events) <= MaxEvents
  /\ recent \in 0..Len(events)
  /\ snapshot \in Nat
  /\ log \subseteq Alerts /\ lost \subseteq Alerts
  /\ silent \subseteq DOMAIN events
  /\ call \in [Callers -> Call]
  /\ \A c \in Callers : call[c].event \in DOMAIN events \cup {0}
  /\ \A c \in Callers : \A a \in call[c].alerts : a.event \in DOMAIN events
  /\ budget \in Nat

Sent(a) == a \in log \cup lost \cup OnTheWay

\* A row whose snapshot says HIGH has been announced as high-risk or is about to
\* be, whichever refreshes have overtaken each other, unless the call that owed
\* the alert has failed (risk.service 80-87).
HighRiskAlerted == snapshot >= HighThreshold => Sent(HighAlert)

\* A row that has drifted often enough in 24 hours is announced, although its
\* snapshot may say less: the call of its newest event counts them all.
BurstsAlerted ==
  recent >= HighThreshold /\ (\A c \in Callers : ~Judging(call[c])) => Sent(HighAlert)

\* An event that is FAILED_MANUAL has been announced as such, whichever of the
\* scans, posts and fixes has written it, and although a scan that finds it
\* failed already keeps silent.
ManualAlerted ==
  \A e \in DOMAIN events : events[e] = "FAILED_MANUAL" => Sent(ManualAlert(e))

\* A drift that a scan or a recheck has reported, or that was posted as detected or
\* failed, has been announced as one or the other.  An event that was posted as being
\* fixed or as done with is not.
EventsAnnounced ==
  \A e \in DOMAIN events \ silent : Sent(DetectedAlert(e)) \/ Sent(ManualAlert(e))

\* What the alerts promise of rows: neither a HIGH snapshot nor a burst of drifts
\* goes unannounced.
RowsAnnounced == HighRiskAlerted /\ BurstsAlerted

\* What they promise of events: each that is reported is announced, and each that
\* fails for good, however it came into the table.
DriftsAnnounced == EventsAnnounced /\ ManualAlerted

AtRest == \A c \in Callers : call[c] = NoCall

\* With no call in progress the snapshot says how often the row has drifted in the
\* last 24 hours (README.md:447 "Rule-based SKU risk scoring using drift frequency
\* in the last 24 hours.").
RiskCurrent == AtRest => snapshot = recent

\* With no call in progress an open event, which a scan has found or a person has
\* posted as detected, has an alert for the drift (README.md:445 "Slack alert delivery logs for
\* detected drift, terminal fix failure, and high-risk SKUs.").
DetectionsLogged ==
  AtRest => \A e \in OpenEvents \ silent : DetectedAlert(e) \in log \cup lost
===============================================================================
