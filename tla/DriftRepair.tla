------------------------------ MODULE DriftRepair ------------------------------
(***************************************************************************)
(* How a difference between the OMS and Shopify is found and repaired, for *)
(* one stock row (tenant, sku, location): scans and rechecks that compare  *)
(* the two numbers and leave a drift event and a drift.fix job, the fix    *)
(* workers with their row lock and idempotency records, and the operator   *)
(* who retries or ignores an event.                                        *)
(*                                                                         *)
(* A job's id and its idempotency record's key are both built from the     *)
(* target quantity and the scan window, not from the event, so a key names *)
(* the job and the record.  The row is the unit of the lock, of the index  *)
(* that allows one open event, and of Shopify's number; rows do not meet.  *)
(***************************************************************************)
EXTENDS Integers, Sequences, FiniteSetsExt

CONSTANTS
  Fixers,        \* concurrent executions of the fix worker (8 per process)
  Scanners,      \* concurrent scans and rechecks of the row
  Operators,     \* concurrent admin requests
  Quantities,    \* available quantities
  Starts,        \* what the OMS and Shopify may show at first
  ScanWindows,   \* scan windows and recheck sources
  RetryWindows,  \* instants of manual retries
  Threshold,     \* DRIFT_THRESHOLD
  Attempts,      \* BullMQ attempts of a fix job (8 in the code)
  StallLimit,    \* stalls BullMQ forgives a job (maxStalledCount, 1)
  Posted,        \* statuses of events posted by hand
  None,          \* no key, window or quantity
  ScanRuns,      \* bound: how often one scan window is run
  MaxEvents,     \* bound: drift events
  Cost,          \* what the environment may do, and what it costs
  Mishaps        \* bound: what all of it may cost

Windows == ScanWindows \cup RetryWindows
Keys    == [target : Quantities, window : Windows]

Open     == {"DETECTED", "FIX_QUEUED", "FIXING", "RETRYING"}
Reusable == Open \cup {"FAILED_MANUAL"}
Statuses == Reusable \cup {"RESOLVED", "IGNORED"}

FixPCs   == {"idle", "lock", "reserve", "find", "config", "manual", "fixing",
             "read", "set", "resolve", "catch", "unlock", "settle", "dlq"}
ScanPCs  == {"idle", "compare", "find", "write", "enqueue", "inSync"}
AdminPCs == {"idle", "add", "mark", "ignore"}

ASSUME DriftAssumption ==
  /\ Quantities \subseteq Nat
  /\ Starts \subseteq Quantities \X Quantities
  /\ ScanWindows \cap RetryWindows = {}
  /\ None \notin Keys \cup Windows \cup Quantities
  /\ {"free", "orphan"} \cap Fixers = {}
  /\ Threshold \in Nat /\ Attempts \in Nat \ {0} /\ StallLimit \in Nat
  /\ Posted \subseteq Statuses
  /\ ScanRuns \in Nat /\ MaxEvents \in Nat /\ Mishaps \in Nat
  /\ \A what \in DOMAIN Cost : Cost[what] \in Nat

VARIABLES
  oms,       \* what the OMS says is available
  channel,   \* what Shopify shows
  link,      \* "ok", "inactive" (channel config) or "unmapped" (sku mapping)
  events,    \* drift_event rows [status, oms], oldest first
  job,       \* per key: its BullMQ job
  idem,      \* per key: the status of its idempotency record
  dlq,       \* keys in drift.dlq
  lock,      \* the row's Redis key: a fixer, "free", or "orphan" of a dead holder
  fix,       \* what each fixer is doing
  scan,      \* what each scanner is doing
  admin,     \* what each operator's request is doing
  runs,      \* how often each window has been used
  budget,    \* mishaps left
  wanted,    \* history: target of the newest fix a scan has queued, None once in sync
  stranded,  \* history: open events that lost their job
  unburied,  \* history: jobs that failed without a dead letter
  expired    \* history: the lock's TTL has run out under a live fix

stock  == <<oms, channel, link>>
queue  == <<job, dlq, unburied>>
redis  == <<lock, expired>>
limits == <<runs, budget>>
vars   == <<stock, events, queue, idem, redis, fix, scan, admin, limits, wanted, stranded>>

Event   == [status : Statuses, oms : Quantities]
FixJob  == [state : {"absent", "waiting", "active", "done"}, made : Nat, event : Nat,
            stalls : Nat]
Fix     == [pc : FixPCs, key : Keys \cup {None}, end : {"done", "manual", "throw"},
            clean : BOOLEAN]
Scan    == [pc : ScanPCs, window : ScanWindows \cup {None}, oms : Quantities \cup {None},
            status : Statuses, found : Nat, again : BOOLEAN]
Request == [pc : AdminPCs, event : Nat, key : Keys \cup {None}]

NoFix     == [pc |-> "idle", key |-> None, end |-> "done", clean |-> FALSE]
NoScan    == [pc |-> "idle", window |-> None, oms |-> None, status |-> "FIX_QUEUED",
              found |-> 0, again |-> FALSE]
NoRequest == [pc |-> "idle", event |-> 0, key |-> None]
NoJob     == [state |-> "absent", made |-> 0, event |-> 0, stalls |-> 0]

KeyOf(f)   == fix[f].key
EventOf(f) == job[KeyOf(f)].event
LastTry(k) == job[k].made + 1 >= Attempts

Spend(what) == /\ what \in DOMAIN Cost
               /\ budget >= Cost[what]
               /\ budget' = budget - Cost[what]

Init ==
  /\ \E start \in Starts : oms = start[1] /\ channel = start[2]
  /\ link = "ok"
  /\ events = <<>>
  /\ job = [k \in Keys |-> NoJob]
  /\ idem = [k \in Keys |-> "none"]
  /\ dlq = {}
  /\ lock = "free"
  /\ fix = [f \in Fixers |-> NoFix]
  /\ scan = [s \in Scanners |-> NoScan]
  /\ admin = [a \in Operators |-> NoRequest]
  /\ runs = [w \in Windows |-> 0]
  /\ budget = Mishaps
  /\ wanted = None
  /\ stranded = {}
  /\ unburied = {}
  /\ expired = FALSE

-------------------------------------------------------------------------------
(* Drift events *)

OpenEvents == {e \in DOMAIN events : events[e].status \in Open}

\* The partial unique index: e may be open if no other event of the row is.
MayOpen(e) == OpenEvents \subseteq {e}

SetStatus(e, s) == events' = [events EXCEPT ![e].status = s]

\* The newest event a scan may use again, 0 if there is none.
NewestReusable ==
  LET found == {e \in DOMAIN events : events[e].status \in Reusable}
  IN  IF found = {} THEN 0 ELSE Max(found)

-------------------------------------------------------------------------------
(* Scans and rechecks *)

Saying(s, c) == scan' = [scan EXCEPT ![s] = c]

\* A scan or recheck begins with an active channel: it reads the row from the
\* OMS.  A window is run again when its job is retried or its webhook repeated.
StartScan(s, w) ==
  /\ scan[s] = NoScan
  /\ runs[w] < ScanRuns
  /\ link # "inactive"
  /\ Saying(s, [NoScan EXCEPT !.pc = "compare", !.window = w, !.oms = oms])
  /\ runs' = [runs EXCEPT ![w] = @ + 1]
  /\ UNCHANGED <<stock, events, queue, idem, redis, fix, admin, budget, wanted, stranded>>

\* The event is going to be written with this status.
Report(s, status) ==
  Saying(s, [scan[s] EXCEPT !.pc = "find", !.status = status, !.again = FALSE])

\* compareInventory: further apart than the threshold.
HasDrift(n) == n - channel > Threshold \/ channel - n > Threshold

\* Without the sku mapping nothing is compared.
Compare(s) ==
  /\ scan[s].pc = "compare"
  /\ CASE link = "unmapped"      -> Report(s, "FAILED_MANUAL")
       [] link # "unmapped" /\ HasDrift(scan[s].oms) -> Report(s, "FIX_QUEUED")
       [] OTHER                   -> Saying(s, [scan[s] EXCEPT !.pc = "inSync"])
  /\ UNCHANGED <<stock, events, queue, idem, redis, fix, admin, limits, wanted, stranded>>

\* The catch block reports FAILED_MANUAL; what fails there ends the scan.
Caught(s) ==
  IF scan[s].status = "FAILED_MANUAL"
  THEN Saying(s, NoScan) ELSE Report(s, "FAILED_MANUAL")

\* The scan has queued an event and must add its job, or report that it failed.
OwesWork(s) ==
  /\ scan[s].found # 0
  /\ \/ scan[s].pc = "enqueue"
     \/ scan[s].pc \in {"find", "write"} /\ scan[s].status = "FAILED_MANUAL"

\* A failure may be reported on another event than the one that was queued.
FindReusable(s) ==
  /\ scan[s].pc = "find"
  /\ IF NewestReusable = 0 /\ scan[s].again
     THEN Caught(s)
     ELSE Saying(s, [scan[s] EXCEPT !.pc = "write", !.found = NewestReusable])
  /\ stranded' = IF OwesWork(s) /\ scan[s].found # NewestReusable
                 THEN stranded \cup {scan[s].found} ELSE stranded
  /\ UNCHANGED <<stock, events, queue, idem, redis, fix, admin, limits, wanted>>

\* A reported drift goes on to its job, a failure is the end.
Written(s, e) ==
  Saying(s, IF scan[s].status = "FIX_QUEUED"
            THEN [scan[s] EXCEPT !.pc = "enqueue", !.found = e] ELSE NoScan)

\* The event found is overwritten, whatever has become of it since.
UpdateDrift(s) ==
  LET c == scan[s]
      e == c.found
  IN  /\ c.pc = "write" /\ e # 0
      /\ IF c.status \in Open => MayOpen(e)
         THEN /\ events' = [events EXCEPT ![e] = [status |-> c.status, oms |-> c.oms]]
              /\ Written(s, e)
         ELSE Caught(s) /\ UNCHANGED events
      /\ UNCHANGED <<stock, queue, idem, redis, fix, admin, limits, wanted, stranded>>

\* When the index refuses a new event the scan looks once more for an old one.
CreateDrift(s) ==
  LET c == scan[s]
  IN  /\ c.pc = "write" /\ c.found = 0
      /\ IF c.status \in Open /\ OpenEvents # {}
         THEN /\ Saying(s, [c EXCEPT !.pc = "find", !.again = TRUE])
              /\ UNCHANGED events
         ELSE /\ Len(events) < MaxEvents
              /\ events' = Append(events, [status |-> c.status, oms |-> c.oms])
              /\ Written(s, Len(events) + 1)
      /\ UNCHANGED <<stock, queue, idem, redis, fix, admin, limits, wanted, stranded>>

\* BullMQ takes the job unless it knows one of that id.
AddJob(k, e) ==
  job' = IF job[k].state = "absent"
         THEN [job EXCEPT ![k] = [NoJob EXCEPT !.state = "waiting", !.event = e]]
         ELSE job

EnqueueFix(s) ==
  LET c == scan[s]
      k == [target |-> c.oms, window |-> c.window]
  IN  /\ c.pc = "enqueue"
      /\ AddJob(k, c.found)
      /\ stranded' = IF job[k].state = "absent" THEN stranded \ {c.found}
                     ELSE stranded \cup {c.found}
      /\ wanted' = c.oms
      /\ Saying(s, NoScan)
      /\ UNCHANGED <<stock, events, dlq, unburied, idem, redis, fix, admin, limits>>

\* Without drift every open event of the row is resolved.
ResolveInSync(s) ==
  /\ scan[s].pc = "inSync"
  /\ events' = [e \in DOMAIN events |->
                  IF e \in OpenEvents THEN [status |-> "RESOLVED", oms |-> scan[s].oms]
                  ELSE events[e]]
  /\ wanted' = None
  /\ Saying(s, NoScan)
  /\ UNCHANGED <<stock, queue, idem, redis, fix, admin, limits, stranded>>

\* A call to Shopify, Postgres or Redis rejects within the try block.
ScanFails(s) ==
  /\ scan[s].pc # "idle" /\ scan[s].status = "FIX_QUEUED"
  /\ Spend("failure")
  /\ Caught(s)
  /\ UNCHANGED <<stock, events, queue, idem, redis, fix, admin, runs, wanted, stranded>>

\* The scan ends at any statement: an error outside the try block, or a crash.
ScanDies(s) ==
  /\ scan[s].pc # "idle"
  /\ Spend("crash")
  /\ stranded' = IF OwesWork(s) THEN stranded \cup {scan[s].found} ELSE stranded
  /\ Saying(s, NoScan)
  /\ UNCHANGED <<stock, events, queue, idem, redis, fix, admin, runs, wanted>>

-------------------------------------------------------------------------------
(* Fix attempts *)

Goto(f, pc)   == fix' = [fix EXCEPT ![f].pc = pc]
Ending(f, end) == fix' = [fix EXCEPT ![f].pc = "unlock", ![f].end = end]

\* Mutant: a backed-off job is not picked up again
TakeFresh(f, k) ==
  /\ fix[f] = NoFix
  /\ job[k].state = "waiting" /\ job[k].made = 0
  /\ job' = [job EXCEPT ![k].state = "active"]
  /\ fix' = [fix EXCEPT ![f] = [NoFix EXCEPT !.pc = "lock", !.key = k]]
  /\ UNCHANGED <<stock, events, dlq, unburied, idem, redis, scan, admin, limits, wanted,
                 stranded>>

\* The worker picks up a job; backed-off jobs come back in any order.
Take(f, k) ==
  /\ fix[f] = NoFix
  /\ job[k].state = "waiting"
  /\ job' = [job EXCEPT ![k].state = "active"]
  /\ fix' = [fix EXCEPT ![f] = [NoFix EXCEPT !.pc = "lock", !.key = k]]
  /\ UNCHANGED <<stock, events, dlq, unburied, idem, redis, scan, admin, limits, wanted,
                 stranded>>

\* Mutant: the attempt goes on without the lock
AcquireAnyway(f) ==
  /\ fix[f].pc = "lock"
  /\ lock' = f
  /\ Goto(f, "reserve")
  /\ UNCHANGED <<stock, events, queue, idem, expired, scan, admin, limits, wanted,
                 stranded>>

\* SET NX: a lock that is held is not waited for, the attempt throws at once.
Acquire(f) ==
  /\ fix[f].pc = "lock"
  /\ IF lock = "free"
     THEN lock' = f /\ Goto(f, "reserve")
     ELSE fix' = [fix EXCEPT ![f].pc = "settle", ![f].end = "throw"] /\ UNCHANGED lock
  /\ UNCHANGED <<stock, events, queue, idem, expired, scan, admin, limits, wanted,
                 stranded>>

\* Mutant: a completed record is reserved again
ReserveAgain(f) ==
  LET k == KeyOf(f)
  IN  /\ fix[f].pc = "reserve"
      /\ IF idem[k] = "STARTED"
         THEN Goto(f, "catch") /\ UNCHANGED idem
         ELSE idem' = [idem EXCEPT ![k] = "STARTED"] /\ Goto(f, "find")
      /\ UNCHANGED <<stock, events, queue, redis, scan, admin, limits, wanted, stranded>>

\* reserveIdempotency: what is completed is skipped, whatever its event is, and
\* what is in progress and not yet lapsed is refused.
Reserve(f) ==
  LET k == KeyOf(f)
  IN  /\ fix[f].pc = "reserve"
      /\ CASE idem[k] = "COMPLETED" -> Ending(f, "done") /\ UNCHANGED idem
           [] idem[k] = "STARTED"   -> Goto(f, "catch") /\ UNCHANGED idem
           [] OTHER -> idem' = [idem EXCEPT ![k] = "STARTED"] /\ Goto(f, "find")
      /\ stranded' = IF idem[k] = "COMPLETED" THEN stranded \cup {EventOf(f)} ELSE stranded
      /\ UNCHANGED <<stock, events, queue, redis, scan, admin, limits, wanted>>

\* A job of a closed event is completed without a look at its target.
FindEvent(f) ==
  /\ fix[f].pc = "find"
  /\ IF events[EventOf(f)].status \in {"RESOLVED", "IGNORED"}
     THEN idem' = [idem EXCEPT ![KeyOf(f)] = "COMPLETED"] /\ Ending(f, "done")
     ELSE Goto(f, "config") /\ UNCHANGED idem
  /\ UNCHANGED <<stock, events, queue, redis, scan, admin, limits, wanted, stranded>>

ReadConfig(f) ==
  /\ fix[f].pc = "config"
  /\ Goto(f, IF link = "ok" THEN "fixing" ELSE "manual")
  /\ UNCHANGED <<stock, events, queue, idem, redis, scan, admin, limits, wanted, stranded>>

\* failManual is returned and not awaited: the finally block may release the
\* lock before its transaction commits.
ReleaseEarly(f) ==
  /\ fix[f].pc = "manual" /\ lock = f
  /\ lock' = "free"
  /\ UNCHANGED <<stock, events, queue, idem, expired, fix, scan, admin, limits, wanted,
                 stranded>>

\* Mutant: the event is left as it is
FailManualSilently(f) ==
  /\ fix[f].pc = "manual"
  /\ idem' = [idem EXCEPT ![KeyOf(f)] = "FAILED"]
  /\ Ending(f, "manual")
  /\ UNCHANGED <<stock, events, queue, redis, scan, admin, limits, wanted, stranded>>

FailManual(f) ==
  /\ fix[f].pc = "manual"
  /\ SetStatus(EventOf(f), "FAILED_MANUAL")
  /\ idem' = [idem EXCEPT ![KeyOf(f)] = "FAILED"]
  /\ Ending(f, "manual")
  /\ UNCHANGED <<stock, queue, redis, scan, admin, limits, wanted, stranded>>

\* The event may have been closed since it was read; it is opened again.
MarkFixing(f) ==
  /\ fix[f].pc = "fixing"
  /\ IF MayOpen(EventOf(f))
     THEN SetStatus(EventOf(f), "FIXING") /\ Goto(f, "read")
     ELSE Goto(f, "catch") /\ UNCHANGED events
  /\ UNCHANGED <<stock, queue, idem, redis, scan, admin, limits, wanted, stranded>>

\* The channel has been seen to show the target or been set to it.
Matched(f) == fix' = [fix EXCEPT ![f].pc = "resolve", ![f].clean = TRUE]

ReadChannel(f) ==
  /\ fix[f].pc = "read"
  /\ IF channel = KeyOf(f).target THEN Matched(f) ELSE Goto(f, "set")
  /\ UNCHANGED <<stock, events, queue, idem, redis, scan, admin, limits, wanted, stranded>>

SetChannel(f) ==
  /\ fix[f].pc = "set"
  /\ channel' = KeyOf(f).target
  /\ Matched(f)
  /\ UNCHANGED <<oms, link, events, queue, idem, redis, scan, admin, limits, wanted,
                 stranded>>

Resolve(f) ==
  /\ fix[f].pc = "resolve"
  /\ events' = [events EXCEPT ![EventOf(f)] =
                  [status |-> "RESOLVED", oms |-> KeyOf(f).target]]
  /\ idem' = [idem EXCEPT ![KeyOf(f)] = "COMPLETED"]
  /\ Ending(f, "done")
  /\ UNCHANGED <<stock, queue, redis, scan, admin, limits, wanted, stranded>>

\* Mutant: the last attempt throws like the others, but is not buried
CatchAlwaysDone(f) ==
  LET k == KeyOf(f)
  IN  /\ fix[f].pc = "catch"
      /\ SetStatus(EventOf(f), IF LastTry(k) THEN "FAILED_MANUAL" ELSE "RETRYING")
      /\ idem' = [idem EXCEPT ![k] = "FAILED"]
      /\ Ending(f, IF LastTry(k) THEN "done" ELSE "throw")
      /\ UNCHANGED <<stock, queue, redis, scan, admin, limits, wanted, stranded>>

\* markRetryableFailure is one transaction: it changes nothing when the record
\* is missing or the event may not be open again, and then the attempt throws.
Catch(f) ==
  LET k  == KeyOf(f)
      ok == idem[k] # "none" /\ (LastTry(k) \/ MayOpen(EventOf(f)))
  IN  /\ fix[f].pc = "catch"
      /\ IF ok
         THEN /\ SetStatus(EventOf(f), IF LastTry(k) THEN "FAILED_MANUAL" ELSE "RETRYING")
              /\ idem' = [idem EXCEPT ![k] = "FAILED"]
         ELSE UNCHANGED <<events, idem>>
      /\ Ending(f, IF ok /\ LastTry(k) THEN "manual" ELSE "throw")
      /\ UNCHANGED <<stock, queue, redis, scan, admin, limits, wanted, stranded>>

Unlock(f) ==
  /\ fix[f].pc = "unlock"
  /\ lock' = IF lock = f THEN "free" ELSE lock
  /\ Goto(f, "settle")
  /\ UNCHANGED <<stock, events, queue, idem, expired, scan, admin, limits, wanted,
                 stranded>>

\* A FAILED_MANUAL result is put in the dead-letter queue and completes the job.
Settle(f) ==
  LET k == KeyOf(f)
  IN  /\ fix[f].pc = "settle" /\ fix[f].end # "throw"
      /\ job' = [job EXCEPT ![k].state = "done"]
      /\ dlq' = IF fix[f].end = "manual" THEN dlq \cup {k} ELSE dlq
      /\ fix' = [fix EXCEPT ![f] = NoFix]
      /\ UNCHANGED <<stock, events, unburied, idem, redis, scan, admin, limits, wanted,
                     stranded>>

\* A thrown attempt is backed off; the last one fails the job, and its event
\* keeps the status it has.
Throw(f) ==
  LET k == KeyOf(f)
  IN  /\ fix[f].pc = "settle" /\ fix[f].end = "throw"
      /\ job' = [job EXCEPT ![k].state = IF LastTry(k) THEN "done" ELSE "waiting",
                            ![k].made = @ + 1]
      /\ fix' = [fix EXCEPT ![f] = IF LastTry(k) THEN [@ EXCEPT !.pc = "dlq"] ELSE NoFix]
      /\ stranded' = IF LastTry(k) THEN stranded \cup {EventOf(f)} ELSE stranded
      /\ UNCHANGED <<stock, events, dlq, unburied, idem, redis, scan, admin, limits,
                     wanted>>

\* The failed event's handler adds the dead letter; nobody waits for it.
Bury(f) ==
  /\ fix[f].pc = "dlq"
  /\ dlq' = dlq \cup {KeyOf(f)}
  /\ fix' = [fix EXCEPT ![f] = NoFix]
  /\ UNCHANGED <<stock, events, job, unburied, idem, redis, scan, admin, limits, wanted,
                 stranded>>

InTry == {"reserve", "find", "config", "fixing", "read", "set", "resolve"}

\* A call to Postgres or Shopify rejects; a refused set may have been applied.
\* What fails in failManual or in the catch block is not caught.
CallFails(f) ==
  /\ Spend("failure")
  /\ \/ fix[f].pc \in InTry /\ Goto(f, "catch")
     \/ fix[f].pc \in {"manual", "catch"} /\ Ending(f, "throw")
  /\ channel' \in IF fix[f].pc = "set" THEN {channel, KeyOf(f).target} ELSE {channel}
  /\ UNCHANGED <<oms, link, events, queue, idem, redis, scan, admin, runs, wanted,
                 stranded>>

\* Redis rejects the lock's SET or its release, after or without doing it; the
\* attempt throws and the key stays until its TTL.
LockFails(f) ==
  /\ Spend("failure")
  /\ \/ /\ fix[f].pc = "lock"
        /\ lock' \in IF lock = "free" THEN {"free", "orphan"} ELSE {lock}
     \/ /\ fix[f].pc = "unlock"
        /\ lock' \in IF lock = f THEN {"free", "orphan"} ELSE {lock}
  /\ fix' = [fix EXCEPT ![f].pc = "settle", ![f].end = "throw"]
  /\ UNCHANGED <<stock, events, queue, idem, expired, scan, admin, runs, wanted, stranded>>

\* Adding the dead letter fails: within the attempt that throws, after it the
\* job has failed without one.
BuryFails(f) ==
  /\ Spend("failure")
  /\ \/ /\ fix[f].pc = "settle" /\ fix[f].end = "manual"
        /\ fix' = [fix EXCEPT ![f].end = "throw"]
        /\ UNCHANGED unburied
     \/ /\ fix[f].pc = "dlq"
        /\ fix' = [fix EXCEPT ![f] = NoFix]
        /\ unburied' = unburied \cup {KeyOf(f)}
  /\ UNCHANGED <<stock, events, job, dlq, idem, redis, scan, admin, runs, wanted, stranded>>

FixFails(f) == CallFails(f) \/ LockFails(f) \/ BuryFails(f)

\* A worker dies: its lock outlives it, and BullMQ hands its stalled job on.  A
\* job that has stalled too often fails instead; that is no terminal failure to
\* the failed event's handler, which adds no dead letter.
Crash(f) ==
  LET k == KeyOf(f)
  IN  /\ fix[f].pc # "idle"
      /\ Spend("crash")
      /\ lock' = IF lock = f THEN "orphan" ELSE lock
      /\ \/ /\ fix[f].pc = "dlq"
            /\ unburied' = unburied \cup {k}
            /\ UNCHANGED <<job, stranded>>
         \/ /\ fix[f].pc # "dlq" /\ job[k].stalls < StallLimit
            /\ job' = [job EXCEPT ![k].state = "waiting", ![k].stalls = @ + 1]
            /\ UNCHANGED <<unburied, stranded>>
         \/ /\ fix[f].pc # "dlq" /\ job[k].stalls >= StallLimit
            /\ job' = [job EXCEPT ![k].state = "done"]
            /\ unburied' = unburied \cup {k}
            /\ stranded' = stranded \cup {EventOf(f)}
      /\ fix' = [fix EXCEPT ![f] = NoFix]
      /\ UNCHANGED <<stock, events, dlq, idem, expired, scan, admin, runs, wanted>>

-------------------------------------------------------------------------------
(* Time: the TTL of the lock, and lockedUntil, which ends after it *)

OrphanExpires ==
  /\ lock = "orphan"
  /\ lock' = "free"
  /\ UNCHANGED <<stock, events, queue, idem, expired, fix, scan, admin, limits, wanted,
                 stranded>>

\* The lock is not renewed while a fix waits for Shopify.
HeldExpires ==
  /\ lock \in Fixers
  /\ Spend("expiry")
  /\ lock' = "free"
  /\ expired' = TRUE
  /\ UNCHANGED <<stock, events, queue, idem, fix, scan, admin, runs, wanted, stranded>>

LeaseLapses(k) ==
  /\ idem[k] = "STARTED"
  /\ \A f \in Fixers : KeyOf(f) = k => lock # f
  /\ idem' = [idem EXCEPT ![k] = "LAPSED"]
  /\ UNCHANGED <<stock, events, queue, redis, fix, scan, admin, limits, wanted, stranded>>

-------------------------------------------------------------------------------
(* Operators and the rest of the world *)

Asking(a, c) == admin' = [admin EXCEPT ![a] = c]

\* retry reads the event and makes a job of its own for the quantity stored.
AskRetry(a, e, w) ==
  /\ admin[a] = NoRequest
  /\ e \in DOMAIN events /\ events[e].status \notin {"RESOLVED", "IGNORED"}
  /\ runs[w] = 0
  /\ runs' = [runs EXCEPT ![w] = 1]
  /\ Asking(a, [pc |-> "add", event |-> e,
                key |-> [target |-> events[e].oms, window |-> w]])
  /\ UNCHANGED <<stock, events, queue, idem, redis, fix, scan, budget, wanted, stranded>>

RetryAdd(a) ==
  /\ admin[a].pc = "add"
  /\ AddJob(admin[a].key, admin[a].event)
  /\ stranded' = stranded \ {admin[a].event}
  /\ Asking(a, [admin[a] EXCEPT !.pc = "mark"])
  /\ UNCHANGED <<stock, events, dlq, unburied, idem, redis, fix, scan, limits, wanted>>

\* The event becomes FIX_QUEUED although its job may have been taken, and may
\* have closed it, already.
RetryMark(a) ==
  LET e == admin[a].event
  IN  /\ admin[a].pc = "mark"
      /\ IF MayOpen(e)
         THEN /\ SetStatus(e, "FIX_QUEUED")
              /\ stranded' = IF job[admin[a].key].state = "waiting"
                             THEN stranded ELSE stranded \cup {e}
         ELSE UNCHANGED <<events, stranded>>
      /\ Asking(a, NoRequest)
      /\ UNCHANGED <<stock, queue, idem, redis, fix, scan, limits, wanted>>

AskIgnore(a, e) ==
  /\ admin[a] = NoRequest
  /\ e \in DOMAIN events /\ events[e].status # "RESOLVED"
  /\ Spend("ignore")
  /\ Asking(a, [NoRequest EXCEPT !.pc = "ignore", !.event = e])
  /\ UNCHANGED <<stock, events, queue, idem, redis, fix, scan, runs, wanted, stranded>>

Ignore(a) ==
  /\ admin[a].pc = "ignore"
  /\ SetStatus(admin[a].event, "IGNORED")
  /\ Asking(a, NoRequest)
  /\ UNCHANGED <<stock, queue, idem, redis, fix, scan, limits, wanted, stranded>>

\* The request dies between its statements.
RequestDies(a) ==
  /\ admin[a].pc # "idle"
  /\ Spend("crash")
  /\ Asking(a, NoRequest)
  /\ UNCHANGED <<stock, events, queue, idem, redis, fix, scan, runs, wanted, stranded>>

\* POST /drift-events: an event of the status asked for, and no job for it.
CreateEvent(s, n) ==
  /\ Len(events) < MaxEvents
  /\ s \in Open => OpenEvents = {}
  /\ Spend("post")
  /\ events' = Append(events, [status |-> s, oms |-> n])
  /\ stranded' = stranded \cup {Len(events) + 1}
  /\ UNCHANGED <<stock, queue, idem, redis, fix, scan, admin, runs, wanted>>

\* Stock moves in the OMS.
Move(n) ==
  /\ n # oms
  /\ Spend("move")
  /\ oms' = n
  /\ UNCHANGED <<channel, link, events, queue, idem, redis, fix, scan, admin, runs, wanted,
                 stranded>>

\* The channel's number changes by a sale or by hand.
Edit(n) ==
  /\ n # channel
  /\ Spend("edit")
  /\ channel' = n
  /\ fix' = [f \in Fixers |-> [fix[f] EXCEPT !.clean = FALSE]]
  /\ UNCHANGED <<oms, link, events, queue, idem, redis, scan, admin, runs, wanted,
                 stranded>>

\* The channel config or the sku mapping is switched.
Relink(l) ==
  /\ l # link
  /\ Spend("relink")
  /\ link' = l
  /\ UNCHANGED <<oms, channel, events, queue, idem, redis, fix, scan, admin, runs, wanted,
                 stranded>>

\* removeOnComplete, removeOnFail: BullMQ forgets finished jobs, long after they
\* were buried.
Evict(k) ==
  /\ job[k].state = "done"
  /\ \A f \in Fixers : KeyOf(f) # k
  /\ Spend("eviction")
  /\ job' = [job EXCEPT ![k] = NoJob]
  /\ UNCHANGED <<stock, events, dlq, unburied, idem, redis, fix, scan, admin, runs, wanted,
                 stranded>>

-------------------------------------------------------------------------------
(* The specification *)

ScanStep(s) ==
  \/ Compare(s) \/ FindReusable(s) \/ UpdateDrift(s) \/ CreateDrift(s)
  \/ EnqueueFix(s) \/ ResolveInSync(s)

FixStep(f) ==
  \/ Acquire(f) \/ Reserve(f) \/ FindEvent(f) \/ ReadConfig(f)
  \/ FailManual(f) \/ MarkFixing(f) \/ ReadChannel(f) \/ SetChannel(f)
  \/ Resolve(f) \/ Catch(f) \/ Unlock(f) \/ Settle(f) \/ Throw(f) \/ Bury(f)

AdminStep(a) == RetryAdd(a) \/ RetryMark(a) \/ Ignore(a)

Environment ==
  \/ OrphanExpires \/ HeldExpires
  \/ \E k \in Keys : LeaseLapses(k) \/ Evict(k)
  \/ \E n \in Quantities : \/ Move(n) \/ Edit(n)
                           \/ \E s \in Posted : CreateEvent(s, n)
  \/ \E l \in {"ok", "inactive", "unmapped"} : Relink(l)

Next ==
  \/ \E s \in Scanners : \/ \E w \in ScanWindows : StartScan(s, w)
                         \/ ScanStep(s) \/ ScanFails(s) \/ ScanDies(s)
  \/ \E f \in Fixers : \/ \E k \in Keys : Take(f, k)
                       \/ FixStep(f) \/ ReleaseEarly(f) \/ FixFails(f) \/ Crash(f)
  \/ \E a \in Operators :
       \/ \E e \in 1..MaxEvents : AskIgnore(a, e) \/ \E w \in RetryWindows : AskRetry(a, e, w)
       \/ AdminStep(a) \/ RequestDies(a)
  \/ Environment

\* Workers poll and run on, requests and scans go on, time passes for dead holders.
\* Nobody owes a scan, a retry or an eviction.
Fairness ==
  /\ \A s \in Scanners : WF_vars(ScanStep(s))
  /\ \A f \in Fixers : WF_vars((\E k \in Keys : Take(f, k)) \/ FixStep(f))
  /\ \A a \in Operators : WF_vars(AdminStep(a))
  /\ WF_vars(OrphanExpires \/ \E k \in Keys : LeaseLapses(k))

Spec == Init /\ [][Next]_vars
LiveSpec == Spec /\ Fairness

-------------------------------------------------------------------------------
(* Properties *)

\* Type correctness: calls hold keys and events that exist.
TypeOK ==
  /\ oms \in Quantities /\ channel \in Quantities
  /\ link \in {"ok", "inactive", "unmapped"}
  /\ events \in Seq(Event) /\ Len(events) <= MaxEvents
  /\ job \in [Keys -> FixJob]
  /\ \A k \in Keys : job[k].state # "absent" => job[k].event \in DOMAIN events
  /\ idem \in [Keys -> {"none", "STARTED", "LAPSED", "FAILED", "COMPLETED"}]
  /\ dlq \subseteq Keys /\ unburied \subseteq Keys
  /\ lock \in Fixers \cup {"free", "orphan"}
  /\ fix \in [Fixers -> Fix]
  /\ scan \in [Scanners -> Scan]
  /\ \A s \in Scanners : scan[s].found \in DOMAIN events \cup {0}
  /\ admin \in [Operators -> Request]
  /\ \A a \in Operators : admin[a].event \in DOMAIN events \cup {0}
  /\ runs \in [Windows -> Nat]
  /\ budget \in Nat
  /\ wanted \in Quantities \cup {None}
  /\ stranded \subseteq DOMAIN events
  /\ expired \in BOOLEAN

\* A fix job that has ended has completed its idempotency record or lies in the
\* dead-letter queue, unless it stalled too often or the dead letter of a failed
\* job was lost with its worker or with Redis (drift-fix-worker 41-45, 71-76;
\* README.md:383).
EndedJobsAccounted ==
  \A k \in Keys : job[k].state = "done" =>
    \/ idem[k] = "COMPLETED"
    \/ k \in dlq \cup unburied
    \/ \E f \in Fixers : fix[f].pc = "dlq" /\ KeyOf(f) = k

\* When a fix is about to record success, Shopify shows its target, if nobody
\* but the fix workers has changed the number since and no lock has expired
\* under its holder (README.md:378).
ResolutionsMatch ==
  \A f \in Fixers : fix[f].pc = "resolve" /\ fix[f].clean /\ ~expired
                      => channel = KeyOf(f).target

\* A correction whose record is completed never sets the channel again, also when
\* its job is run again after a crash or added again after BullMQ has forgotten it
\* (README.md:379); only the catch block of an attempt that could not read the
\* record takes the completion back.
CorrectedOnce ==
  [][\A k \in Keys : idem[k] = "COMPLETED" =>
       /\ \/ idem'[k] = "COMPLETED"
          \/ \E f \in Fixers : fix[f].pc = "catch" /\ KeyOf(f) = k
       /\ \A f \in Fixers :
            KeyOf(f) = k /\ fix[f].pc = "set" => fix'[f].pc # "resolve"]_vars

Queued(e) == e \in OpenEvents /\ events[e].status # "DETECTED"
HasWork(e) ==
  \/ \E k \in Keys : job[k].state \in {"waiting", "active"} /\ job[k].event = e
  \/ \E s \in Scanners : OwesWork(s) /\ scan[s].found = e

\* An event waiting for its fix has a job that will look at it, but for the ways
\* of losing it that stranded names.
QueuedEventsHaveWork == \A e \in DOMAIN events \ stranded : Queued(e) => HasWork(e)

\* Such an event is eventually resolved, ignored or failed.
EventsSettle ==
  \A e \in 1..MaxEvents :
    (e \in DOMAIN events /\ Queued(e)) ~> (e \in stranded \/ ~Queued(e))

AtRest == /\ \A f \in Fixers : fix[f] = NoFix
          /\ \A s \in Scanners : scan[s] = NoScan
          /\ \A a \in Operators : admin[a] = NoRequest
          /\ \A k \in Keys : job[k].state \in {"absent", "done"}

\* With every job done and every event of the row RESOLVED, Shopify shows the
\* target of the newest fix a scan has queued (README.md:382 "Marks successful events
\* `RESOLVED` and terminal failures `FAILED_MANUAL`.").
ResolvedMeansRepaired ==
  AtRest /\ wanted # None /\ (\A e \in DOMAIN events : events[e].status = "RESOLVED")
    => channel = wanted
===============================================================================
