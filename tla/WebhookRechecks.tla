---------------------------- MODULE WebhookRechecks ----------------------------
(***************************************************************************)
(* How a change of Shopify's number for one stock row is noticed: Shopify  *)
(* announces it with an inventory_levels/update webhook until it gets a    *)
(* 2xx answer, the handler stores a recheck event and a drift.recheck job  *)
(* with the event's id, and a worker compares the row and closes the event.*)
(* What the comparison does to drift events and fixes is DriftRepair's.    *)
(*                                                                         *)
(* Change number v is announced by webhook v.  Rows do not meet here, and  *)
(* the numbers themselves do not matter: only which change was read last.  *)
(***************************************************************************)
EXTENDS Integers, Sequences

CONSTANTS
  Handlers,    \* concurrent webhook requests
  Workers,     \* concurrent executions of the recheck worker (5 per process)
  Attempts,    \* BullMQ attempts of a recheck job (8 in the code)
  StallLimit,  \* how often BullMQ hands a stalled job on (1 by default)
  MaxChanges,  \* bound: changes of Shopify's number
  Cost,        \* what the environment may do, and what each time takes
  Mishaps      \* bound: what it may spend altogether

ASSUME WebhookAssumption ==
  /\ Attempts \in Nat \ {0}
  /\ StallLimit \in Nat /\ MaxChanges \in Nat /\ Mishaps \in Nat
  /\ \A what \in DOMAIN Cost : Cost[what] \in Nat \ {0}

\* What has to be in place: the webhook secret, the shop's active channel
\* config, the sku mapping, and the row in the OMS.
Settings == {"secret", "config", "mapping", "omsRow"}

VARIABLES
  changed,   \* how often Shopify's number has changed
  compared,  \* the newest change a recheck has read
  mail,      \* per webhook: what Shopify makes of it
  setup,     \* the settings in place
  handler,   \* what each request is doing
  events,    \* webhook_recheck_event rows [hook, status], oldest first
  job,       \* per event: its BullMQ job
  work,      \* what each worker is doing
  verdicts,  \* events whose FAILED update has been sent and not awaited
  skipped,   \* history: events a worker found no active config for
  stranded,  \* history: events nobody will close
  budget     \* mishaps left

intake == <<mail, handler>>
store  == <<events, job>>
ghosts == <<skipped, stranded>>
vars   == <<changed, compared, intake, setup, store, work, verdicts, ghosts, budget>>

Request == [pc : {"idle", "verify", "mapping", "refuse", "create", "add", "answer"},
            hook : Nat, event : Nat]
Recheck == [hook : Nat \ {0}, status : {"QUEUED", "PROCESSED", "FAILED"}]
Job     == [state : {"absent", "waiting", "active", "done", "failed"}, made : Nat, stalls : Nat]
Work    == [pc : {"idle", "config", "row", "mapping", "compare", "write", "report", "update"},
            event : Nat, end : {"compared", "manual", "skipped"}]

NoRequest == [pc |-> "idle", hook |-> 0, event |-> 0]
NoJob     == [state |-> "absent", made |-> 0, stalls |-> 0]
NoWork    == [pc |-> "idle", event |-> 0, end |-> "skipped"]

Spend(what) == /\ what \in DOMAIN Cost
               /\ budget >= Cost[what]
               /\ budget' = budget - Cost[what]

Init ==
  /\ changed = 0
  /\ compared = 0
  /\ mail = [v \in 1..MaxChanges |-> "none"]
  /\ setup = Settings
  /\ handler = [h \in Handlers |-> NoRequest]
  /\ events = <<>>
  /\ job = <<>>
  /\ work = [w \in Workers |-> NoWork]
  /\ verdicts = {}
  /\ skipped = {}
  /\ stranded = {}
  /\ budget = Mishaps

-------------------------------------------------------------------------------
(* Shopify and the operator *)

\* A sale, a merchant or a fix changes the number, and a webhook falls due.
Change ==
  /\ changed < MaxChanges
  /\ changed' = changed + 1
  /\ mail' = [mail EXCEPT ![changed'] = "due"]
  /\ UNCHANGED <<compared, setup, handler, store, work, verdicts, ghosts, budget>>

\* Shopify sends a webhook until it is accepted; if the answer is late, again
\* while the first request still runs.
Deliver(h, v) ==
  /\ mail[v] = "due"
  /\ handler[h] = NoRequest
  /\ handler' = [handler EXCEPT ![h] = [pc |-> "verify", hook |-> v, event |-> 0]]
  /\ IF \E g \in Handlers : handler[g].hook = v THEN Spend("timeout") ELSE UNCHANGED budget
  /\ UNCHANGED <<changed, compared, mail, setup, store, work, verdicts, ghosts>>

\* After two days of refusals Shopify stops.
GiveUp(v) ==
  /\ mail[v] = "due"
  /\ Spend("giveUp")
  /\ mail' = [mail EXCEPT ![v] = "dropped"]
  /\ UNCHANGED <<changed, compared, setup, handler, store, work, verdicts, ghosts>>

\* A secret, config, mapping or row goes missing, and is put back.
Break(x) ==
  /\ x \in setup
  /\ Spend("setting")
  /\ setup' = setup \ {x}
  /\ UNCHANGED <<changed, compared, intake, store, work, verdicts, ghosts>>

Restore(x) ==
  /\ x \notin setup
  /\ setup' = setup \cup {x}
  /\ UNCHANGED <<changed, compared, intake, store, work, verdicts, ghosts, budget>>

-------------------------------------------------------------------------------
(* The webhook handler *)

Continue(h, pc) == handler' = [handler EXCEPT ![h].pc = pc]
Answered(h)  == handler' = [handler EXCEPT ![h] = NoRequest]

\* verify() needs the secret; the domain must be that of an active config.
Signed    == "secret" \in setup
KnownShop == "config" \in setup

\* Mutant: every request is answered 2xx.
AdmitOrAccept(h) ==
  /\ handler[h].pc = "verify"
  /\ IF Signed /\ KnownShop THEN Continue(h, "mapping") ELSE Continue(h, "answer")
  /\ UNCHANGED <<changed, compared, mail, setup, store, work, verdicts, ghosts, budget>>

\* A bad signature and an unknown shop are errors, which Shopify will retry.
Admit(h) ==
  /\ handler[h].pc = "verify"
  /\ IF Signed /\ KnownShop THEN Continue(h, "mapping") ELSE Answered(h)
  /\ UNCHANGED <<changed, compared, mail, setup, store, work, verdicts, ghosts, budget>>

FindMapping(h) ==
  /\ handler[h].pc = "mapping"
  /\ Continue(h, IF "mapping" \in setup THEN "create" ELSE "refuse")
  /\ UNCHANGED <<changed, compared, mail, setup, store, work, verdicts, ghosts, budget>>

\* One event row per delivery, the same webhook or not.
Insert(h, status) ==
  /\ events' = Append(events, [hook |-> handler[h].hook, status |-> status])
  /\ job' = Append(job, NoJob)
  /\ UNCHANGED <<changed, compared, mail, setup, work, verdicts, ghosts, budget>>

\* An unmapped item is accepted as a FAILED event.
Refuse(h) ==
  /\ handler[h].pc = "refuse"
  /\ Insert(h, "FAILED")
  /\ Continue(h, "answer")

CreateEvent(h) ==
  /\ handler[h].pc = "create"
  /\ Insert(h, "QUEUED")
  /\ handler' = [handler EXCEPT ![h].pc = "add", ![h].event = Len(events) + 1]

\* Mutant: one job per row is thought to be enough.
AddOneAtATime(h) ==
  /\ handler[h].pc = "add"
  /\ job' = IF \E e \in DOMAIN job : job[e].state \in {"waiting", "active"}
            THEN job ELSE [job EXCEPT ![handler[h].event].state = "waiting"]
  /\ Continue(h, "answer")
  /\ UNCHANGED <<changed, compared, mail, setup, events, work, verdicts, ghosts, budget>>

\* The event's id is the job's, so every event gets a job of its own.
AddJob(h) ==
  /\ handler[h].pc = "add"
  /\ job' = [job EXCEPT ![handler[h].event].state = "waiting"]
  /\ Continue(h, "answer")
  /\ UNCHANGED <<changed, compared, mail, setup, events, work, verdicts, ghosts, budget>>

\* A 2xx answer reaches Shopify.
Accept(h) ==
  /\ handler[h].pc = "answer"
  /\ mail' = [mail EXCEPT ![handler[h].hook] = "accepted"]
  /\ Answered(h)
  /\ UNCHANGED <<changed, compared, setup, store, work, verdicts, ghosts, budget>>

\* A call rejects, the process dies or the answer is lost: no 2xx.  The event
\* of a request that ends before its job is added stays QUEUED.
RequestFails(h) ==
  /\ handler[h].pc # "idle"
  /\ Spend("request")
  /\ stranded' = IF handler[h].pc = "add" THEN stranded \cup {handler[h].event} ELSE stranded
  /\ Answered(h)
  /\ UNCHANGED <<changed, compared, mail, setup, store, work, verdicts, skipped>>

-------------------------------------------------------------------------------
(* The recheck worker *)

EventOf(w) == work[w].event
Goto(w, pc)     == work' = [work EXCEPT ![w].pc = pc]
Ending(w, end)  == work' = [work EXCEPT ![w].pc = "update", ![w].end = end]
Leave(w)        == work' = [work EXCEPT ![w] = NoWork]

Take(w, e) ==
  /\ e \in DOMAIN job
  /\ job[e].state = "waiting"
  /\ work[w] = NoWork
  /\ job' = [job EXCEPT ![e].state = "active"]
  /\ work' = [work EXCEPT ![w] = [pc |-> "config", event |-> e, end |-> "skipped"]]
  /\ UNCHANGED <<changed, compared, intake, setup, events, verdicts, ghosts, budget>>

\* Without an active config the recheck ends well and has compared nothing.
ReadConfig(w) ==
  /\ work[w].pc = "config"
  /\ IF "config" \in setup THEN Goto(w, "row") ELSE Ending(w, "skipped")
  /\ UNCHANGED <<changed, compared, intake, setup, store, verdicts, ghosts, budget>>

ReadRow(w) ==
  /\ work[w].pc = "row"
  /\ Goto(w, IF "omsRow" \in setup THEN "mapping" ELSE "report")
  /\ UNCHANGED <<changed, compared, intake, setup, store, verdicts, ghosts, budget>>

ReadMapping(w) ==
  /\ work[w].pc = "mapping"
  /\ Goto(w, IF "mapping" \in setup THEN "compare" ELSE "report")
  /\ UNCHANGED <<changed, compared, intake, setup, store, verdicts, ghosts, budget>>

\* Shopify's number is read; what it says is written in further statements.
Compare(w) ==
  /\ work[w].pc = "compare"
  /\ compared' = changed
  /\ Goto(w, "write")
  /\ UNCHANGED <<changed, intake, setup, store, verdicts, ghosts, budget>>

WriteDrift(w) ==
  /\ work[w].pc = "write"
  /\ Ending(w, "compared")
  /\ UNCHANGED <<changed, compared, intake, setup, store, verdicts, ghosts, budget>>

\* The try block turns a failed comparison into a FAILED_MANUAL drift.
CompareFails(w) ==
  /\ work[w].pc \in {"compare", "write"}
  /\ Spend("failure")
  /\ Goto(w, "report")
  /\ UNCHANGED <<changed, compared, intake, setup, store, verdicts, ghosts>>

ReportManual(w) ==
  /\ work[w].pc = "report"
  /\ Ending(w, "manual")
  /\ UNCHANGED <<changed, compared, intake, setup, store, verdicts, ghosts, budget>>

\* Mutant: what the comparison says is not looked at.
CloseProcessed(w) ==
  LET e == EventOf(w)
  IN  /\ work[w].pc = "update"
      /\ events' = [events EXCEPT ![e].status = "PROCESSED"]
      /\ job' = [job EXCEPT ![e].state = "done"]
      /\ skipped' = IF work[w].end = "skipped" THEN skipped \cup {e} ELSE skipped
      /\ Leave(w)
      /\ UNCHANGED <<changed, compared, intake, setup, verdicts, stranded, budget>>

\* The event is told how its recheck has ended.
Record(w) ==
  LET e == EventOf(w)
  IN  /\ work[w].pc = "update"
      /\ events' = [events EXCEPT ![e].status =
                      IF work[w].end = "manual" THEN "FAILED" ELSE "PROCESSED"]
      /\ skipped' = IF work[w].end = "skipped" THEN skipped \cup {e} ELSE skipped

\* The event is closed and the job completes.
CloseEvent(w) ==
  /\ Record(w)
  /\ job' = [job EXCEPT ![EventOf(w)].state = "done"]
  /\ Leave(w)
  /\ UNCHANGED <<changed, compared, intake, setup, verdicts, stranded, budget>>

\* An attempt that ends before its job is completed may have closed the event.
Interrupted(w) == Record(w) \/ UNCHANGED <<events, skipped>>

\* Mutant: off by one in isTerminalFailure.
ThrowsOnceTooOften(w) ==
  LET e    == EventOf(w)
      made == job[e].made + 1
  IN  /\ work[w].pc \in {"config", "row", "mapping", "report", "update"}
      /\ Spend("failure")
      /\ job' = [job EXCEPT ![e].made = made,
                            ![e].state = IF made >= Attempts THEN "failed" ELSE "waiting"]
      /\ verdicts' = IF made > Attempts THEN verdicts \cup {e} ELSE verdicts
      /\ Leave(w)
      /\ UNCHANGED <<changed, compared, intake, setup, events, ghosts>>

\* A statement outside the try block rejects, or its answer is lost.  After its last attempt the
\* failed handler sends the event's FAILED update and does not wait for it.
Throws(w) ==
  LET e    == EventOf(w)
      made == job[e].made + 1
  IN  /\ work[w].pc \in {"config", "row", "mapping", "report", "update"}
      /\ Spend("failure")
      /\ job' = [job EXCEPT ![e].made = made,
                            ![e].state = IF made >= Attempts THEN "failed" ELSE "waiting"]
      /\ verdicts' = IF made >= Attempts THEN verdicts \cup {e} ELSE verdicts
      /\ Interrupted(w)
      /\ Leave(w)
      /\ UNCHANGED <<changed, compared, intake, setup, stranded>>

VerdictArrives(e) ==
  /\ e \in verdicts
  /\ events' = [events EXCEPT ![e].status = "FAILED"]
  /\ verdicts' = verdicts \ {e}
  /\ UNCHANGED <<changed, compared, intake, setup, job, work, ghosts, budget>>

VerdictLost(e) ==
  /\ e \in verdicts
  /\ Spend("request")
  /\ verdicts' = verdicts \ {e}
  /\ stranded' = stranded \cup {e}
  /\ UNCHANGED <<changed, compared, intake, setup, store, work, skipped>>

\* A worker's process dies.  BullMQ hands the stalled job on, or fails it when
\* it has stalled too often: attempts are left then, so the failed handler does
\* not take the failure for terminal and leaves the event QUEUED.
WorkerDies(w) ==
  LET e == EventOf(w)
  IN  /\ work[w].pc # "idle"
      /\ Spend("death")
      /\ job' = [job EXCEPT ![e].stalls = @ + 1,
                            ![e].state = IF job[e].stalls < StallLimit THEN "waiting" ELSE "failed"]
      /\ stranded' = IF job[e].stalls < StallLimit THEN stranded ELSE stranded \cup {e}
      /\ Interrupted(w)
      /\ Leave(w)
      /\ UNCHANGED <<changed, compared, intake, setup, verdicts>>

-------------------------------------------------------------------------------
HandlerStep(h) ==
  \/ Admit(h) \/ FindMapping(h) \/ Refuse(h) \/ CreateEvent(h) \/ AddJob(h) \/ Accept(h)

WorkerStep(w) ==
  \/ ReadConfig(w) \/ ReadRow(w) \/ ReadMapping(w) \/ Compare(w)
  \/ WriteDrift(w) \/ ReportManual(w) \/ CloseEvent(w)

Next ==
  \/ Change
  \/ \E v \in 1..MaxChanges : GiveUp(v) \/ \E h \in Handlers : Deliver(h, v)
  \/ \E x \in Settings : Break(x) \/ Restore(x)
  \/ \E h \in Handlers : HandlerStep(h) \/ RequestFails(h)
  \/ \E w \in Workers : \/ WorkerStep(w) \/ CompareFails(w) \/ Throws(w) \/ WorkerDies(w)
                        \/ \E e \in DOMAIN job : Take(w, e)
  \/ \E e \in DOMAIN events : VerdictArrives(e) \/ VerdictLost(e)

Spec == Init /\ [][Next]_vars

\* Shopify sends what is due, requests and workers go on, BullMQ hands its jobs
\* out, and an update that is not lost arrives.  Nobody has to mend a setting.
Fairness ==
  /\ \A v \in 1..MaxChanges : WF_vars(\E h \in Handlers : Deliver(h, v))
  /\ \A h \in Handlers : WF_vars(HandlerStep(h))
  /\ \A w \in Workers : WF_vars(WorkerStep(w))
  /\ \A e \in 1..(MaxChanges + Mishaps) :
       /\ WF_vars(\E w \in Workers : Take(w, e))
       /\ WF_vars(VerdictArrives(e))

LiveSpec == Spec /\ Fairness

-------------------------------------------------------------------------------
(* Properties *)

TypeOK ==
  /\ changed \in 0..MaxChanges /\ compared \in 0..changed
  /\ mail \in [1..MaxChanges -> {"none", "due", "accepted", "dropped"}]
  /\ setup \subseteq Settings
  /\ handler \in [Handlers -> Request]
  /\ events \in Seq(Recheck) /\ job \in Seq(Job) /\ Len(job) = Len(events)
  /\ work \in [Workers -> Work]
  /\ verdicts \subseteq DOMAIN events
  /\ skipped \subseteq DOMAIN events /\ stranded \subseteq DOMAIN events
  /\ budget \in 0..Mishaps

\* An event will still be rechecked, or says or will say that it was not.
Minded(e) ==
  \/ job[e].state \in {"waiting", "active"}
  \/ events[e].status = "FAILED"
  \/ e \in verdicts \cup skipped
  \/ job[e].state = "failed" /\ e \in stranded

\* A change of Shopify's number that no recheck has read is still announced, was
\* given up by Shopify, or has an event that leads to a recheck or to a record
\* of its failure; redeliveries, crashes and concurrent rechecks lose none.
UnseenChangesCovered ==
  \A v \in (compared + 1)..changed :
    \/ mail[v] \in {"due", "dropped"}
    \/ \E e \in DOMAIN events : events[e].hook = v /\ Minded(e)

\* A PROCESSED event means that Shopify was read after the change it announces,
\* or that the channel was not active.
EventsTruthful ==
  \A e \in DOMAIN events :
    events[e].status = "PROCESSED" => compared >= events[e].hook \/ e \in skipped

Queued(e) == e \in DOMAIN events /\ events[e].status = "QUEUED"

\* An event that is QUEUED is closed in the end, unless a crash stranded it.
EventsSettle ==
  \A e \in 1..(MaxChanges + Mishaps) : Queued(e) ~> (e \in stranded \/ ~Queued(e))

Told(v) ==
  \/ compared >= v
  \/ mail[v] = "dropped"
  \/ \E e \in DOMAIN events :
       /\ events[e].hook = v
       /\ \/ events[e].status = "FAILED"
          \/ e \in skipped
          \/ job[e].state = "failed" /\ e \in stranded

\* Once secret and config stay in place, every change is read by a recheck, given
\* up by Shopify, or has an event that failed.
ChangesNoticed ==
  <>[]({"secret", "config"} \subseteq setup)
    => \A v \in 1..MaxChanges : (changed >= v) ~> Told(v)
=============================================================================
