------------------------------ MODULE ScanCursor ------------------------------
(***************************************************************************)
(* Which OMS rows the drift scans of one tenant get to see.  Every row     *)
(* carries the time of its last change; a scheduled scan reads the rows    *)
(* changed after a stored cursor (time, row id), at most Limit of them,    *)
(* compares each with Shopify and then moves the cursor behind the last.   *)
(* What a comparison does about a drift is in DriftRepair.                 *)
(*                                                                         *)
(* Several workers run scans of the same tenant, scans fail and are        *)
(* repeated, and a change is visible only some time after it was stamped.  *)
(***************************************************************************)
EXTENDS Integers, FiniteSets

CONSTANTS
  Rows,        \* inventory rows of the tenant
  Order,       \* Order[r]: rank of r's id as the query sorts it
  Text,        \* Text[r]: rank of r's id as the cursor compares it; "" has 0
  Millis,      \* Millis[t]: time t in the precision the code keeps
  Scanners,    \* concurrent executions of the scan worker (2 per process)
  Limit,       \* DRIFT_SCAN_LIMIT
  Interval,    \* DRIFT_SCAN_INTERVAL_MINUTES
  Attempts,    \* BullMQ attempts of a scan (8 in the code)
  StallLimit,  \* stalls BullMQ forgives a job (maxStalledCount, 1)
  None,        \* no cursor
  MaxTime,     \* bound: the clock
  MaxChanges,  \* bound: changes of one row
  MaxOpen,     \* bound: transactions open at once
  MaxJobs,     \* bound: scan jobs waiting
  Asked,       \* bound: windows and rows asked for by hand [rows, start, end]
  Allowed,     \* what the environment may do
  Allowance    \* bound: how often it does any of it

Times == 0..MaxTime

ASSUME ScanAssumption ==
  /\ MaxTime \in Nat \ {0} /\ MaxChanges \in Nat /\ MaxOpen \in Nat /\ MaxJobs \in Nat
  /\ Allowance \in Nat /\ Asked \subseteq [rows : SUBSET Rows, start : Times, end : Times]
  /\ Order \in [Rows -> Nat \ {0}] /\ Text \in [Rows -> Nat \ {0}]
  /\ \A a, b \in Rows : a # b => Order[a] # Order[b] /\ Text[a] # Text[b]
  /\ Millis \in [Times -> Times]
  /\ \A t \in Times : Millis[t] <= t
  /\ Limit \in Nat \ {0} /\ Interval \in Nat /\ Attempts \in Nat \ {0}
  /\ StallLimit \in Nat
  /\ None \notin [at : Times, id : Nat]

VARIABLES
  clock,
  row,      \* per row: its last committed change [at, version]
  writing,  \* per row: the time stamped by an open transaction, 0 if there is none
  cursor,   \* drift_scan_cursor, None as long as lastSeenAt is null
  enabled,  \* the channel config is ACTIVE
  waiting,  \* drift.scan jobs that wait for a worker
  scan,     \* what each scan worker is doing
  allowance, \* how often the environment may still do any of it
  seen,     \* history: newest version of each row that was compared
  horizon,  \* history: newest window end a scheduled scan has read up to
  late,     \* history: rows whose last change was committed behind the horizon
  origin    \* history: newest window start used in place of a cursor

oms      == <<clock, row, writing, late>>
scans    == <<cursor, waiting, scan, horizon, origin>>
scanVars == <<oms, scans, enabled, allowance, seen>>

Cursor  == [at : Times, id : Nat]
Job     == [kind : {"scheduled", "manual"}, rows : SUBSET Rows, start : Times,
            end : Times, made : Nat, stalls : Nat]
Item    == [id : Rows, at : Times, version : Nat]
Scan    == [pc : {"idle", "cursor", "read", "compare"}, job : Job, from : Cursor,
            cold : BOOLEAN, todo : SUBSET Item, next : Cursor \cup {None}]

NoJob     == [kind |-> "manual", rows |-> {}, start |-> 0, end |-> 0, made |-> 0,
              stalls |-> 0]
NoCursor  == [at |-> 0, id |-> 0]
NoScan    == [pc |-> "idle", job |-> NoJob, from |-> NoCursor,
              cold |-> FALSE, todo |-> {}, next |-> None]

Later(a, b) == IF a >= b THEN a ELSE b

Allow(what) == /\ what \in Allowed
               /\ allowance > 0
               /\ allowance' = allowance - 1

ScanInit ==
  /\ clock = 1
  /\ row = [r \in Rows |-> [at |-> 0, version |-> 0]]
  /\ writing = [r \in Rows |-> 0]
  /\ cursor = None
  /\ enabled = TRUE
  /\ waiting = {}
  /\ scan = [s \in Scanners |-> NoScan]
  /\ allowance = Allowance
  /\ seen = [r \in Rows |-> 0]
  /\ horizon = 0
  /\ late = {}
  /\ origin = 0

-------------------------------------------------------------------------------
(* The OMS *)

\* A transaction changes the row: updated_at is the time of the statement.
Change(r) ==
  /\ writing[r] = 0 /\ row[r].version < MaxChanges
  /\ Cardinality({other \in Rows : writing[other] # 0}) < MaxOpen
  /\ writing' = [writing EXCEPT ![r] = clock]
  /\ UNCHANGED <<clock, row, late, scans, enabled, allowance, seen>>

\* Scans see the change from its commit on.
Commit(r) ==
  /\ writing[r] # 0
  /\ row' = [row EXCEPT ![r] = [at |-> writing[r], version |-> @.version + 1]]
  /\ writing' = [writing EXCEPT ![r] = 0]
  /\ late' = IF writing[r] <= horizon THEN late \cup {r} ELSE late \ {r}
  /\ UNCHANGED <<clock, scans, enabled, allowance, seen>>

Switch ==
  /\ Allow("switch")
  /\ enabled' = ~enabled
  /\ UNCHANGED <<oms, scans, seen>>

-------------------------------------------------------------------------------
(* Scan jobs *)

\* A job whose id BullMQ knows is not added again.
AddScan(j) ==
  /\ j \notin waiting /\ Cardinality(waiting) < MaxJobs
  /\ waiting' = waiting \cup {j}
  /\ UNCHANGED <<row, writing, late, cursor, scan, horizon, origin, enabled, seen>>

\* enqueueCycle: every tenant with an active config, one window; time passes from
\* one to the next.
Tick ==
  /\ enabled
  /\ AddScan([kind |-> "scheduled", rows |-> Rows, made |-> 0, stalls |-> 0,
              start |-> IF Interval <= clock THEN Millis[clock - Interval] ELSE 0,
              end |-> Millis[clock]])
  /\ clock' = IF clock < MaxTime THEN clock + 1 ELSE clock
  /\ UNCHANGED allowance

\* POST /scans/trigger: any window, all rows or one.
Trigger(w) ==
  /\ Allow("manual")
  /\ AddScan([kind |-> "manual", rows |-> w.rows, made |-> 0, stalls |-> 0,
              start |-> Millis[w.start], end |-> Millis[w.end]])
  /\ UNCHANGED clock

-------------------------------------------------------------------------------
(* Scans *)

Scanning(s, c) == scan' = [scan EXCEPT ![s] = c]

\* Without an active config the job completes at once.
Take(s, j) ==
  /\ scan[s] = NoScan /\ j \in waiting
  /\ waiting' = waiting \ {j}
  /\ IF enabled THEN Scanning(s, [NoScan EXCEPT !.pc = "cursor", !.job = j])
                ELSE UNCHANGED scan
  /\ UNCHANGED <<oms, cursor, horizon, origin, enabled, allowance, seen>>

\* scanCursorForWindow: scheduled scans resume where the cursor is.
ReadCursor(s) ==
  LET j    == scan[s].job
      cold == j.kind = "manual" \/ cursor = None
  IN  /\ scan[s].pc = "cursor"
      /\ Scanning(s, [scan[s] EXCEPT !.pc = "read", !.cold = cold,
                        !.from = IF cold THEN [at |-> j.start, id |-> 0] ELSE cursor])
      /\ UNCHANGED <<oms, cursor, waiting, horizon, origin, enabled, allowance, seen>>

\* updated_at > cursor, or the same time and a greater id.
After(at, r, c) == at > c.at \/ (at = c.at /\ Text[r] > c.id)

\* ORDER BY updated_at, id
Sooner(a, b) == a.at < b.at \/ (a.at = b.at /\ Order[a.id] < Order[b.id])

Current(r) == [id |-> r, at |-> row[r].at, version |-> row[r].version]
Items      == {Current(r) : r \in Rows}

\* Mutant: the cursor's own row is read again
CandidatesFrom(s) ==
  {i \in Items : /\ i.id \in scan[s].job.rows
                 /\ i.at >= scan[s].from.at
                 /\ i.at <= scan[s].job.end}

\* The rows of the window behind the cursor, the first Limit of them.
Candidates(s) ==
  {i \in Items : /\ i.id \in scan[s].job.rows
                 /\ After(i.at, i.id, scan[s].from)
                 /\ i.at <= scan[s].job.end}
First(found) ==
  {batch \in SUBSET found :
     /\ \A a \in batch, b \in found \ batch : Sooner(a, b)
     /\ \/ Cardinality(batch) = Limit
        \/ Cardinality(batch) < Limit /\ batch = found}

\* nextCursorFromRows: behind the last row, if there is one.
CursorAt(i) == [at |-> Millis[i.at], id |-> Text[i.id]]
Last(batch) == {i \in batch : \A other \in batch \ {i} : Sooner(other, i)}
NextCursor(batch) ==
  IF batch = {} THEN {None} ELSE {CursorAt(i) : i \in Last(batch)}

ReadRows(s) ==
  LET j == scan[s].job
  IN  /\ scan[s].pc = "read"
      /\ \E batch \in First(Candidates(s)) : \E next \in NextCursor(batch) :
           Scanning(s, [scan[s] EXCEPT !.pc = "compare", !.todo = batch,
                                       !.from = NoCursor, !.next = next])
      /\ horizon' = IF j.kind = "scheduled" THEN Later(horizon, j.end) ELSE horizon
      /\ UNCHANGED <<oms, cursor, waiting, origin, enabled, allowance, seen>>

\* processRow: the row as it was read is compared, or its failure is reported.
CompareRow(s) ==
  /\ scan[s].pc = "compare"
  /\ \E i \in scan[s].todo :
       /\ \A other \in scan[s].todo \ {i} : Sooner(i, other)
       /\ Scanning(s, [scan[s] EXCEPT !.todo = @ \ {i}])
       /\ seen' = [seen EXCEPT ![i.id] = Later(@, i.version)]
  /\ UNCHANGED <<oms, cursor, waiting, horizon, origin, enabled, allowance>>

\* A recheck compares the row as it is, beside the cursor.
Recheck(r) ==
  /\ enabled
  /\ Allow("recheck")
  /\ seen' = [seen EXCEPT ![r] = Current(r).version]
  /\ UNCHANGED <<oms, scans, enabled>>

\* Mutant: scans asked for by hand move the cursor, too
StoreAlways(s) ==
  LET c     == scan[s]
      moves == c.next # None
  IN  /\ c.pc = "compare" /\ c.todo = {}
      /\ cursor' = IF moves THEN c.next ELSE cursor
      /\ origin' = IF moves /\ c.cold THEN Later(origin, c.job.start) ELSE origin
      /\ Scanning(s, NoScan)
      /\ UNCHANGED <<oms, waiting, horizon, enabled, allowance, seen>>

\* Only scheduled scans that have read a row move the cursor.
Store(s) ==
  LET c     == scan[s]
      moves == c.job.kind = "scheduled" /\ c.next # None
  IN  /\ c.pc = "compare" /\ c.todo = {}
      /\ cursor' = IF moves THEN c.next ELSE cursor
      /\ origin' = IF moves /\ c.cold THEN Later(origin, c.job.start) ELSE origin
      /\ Scanning(s, NoScan)
      /\ UNCHANGED <<oms, waiting, horizon, enabled, allowance, seen>>

\* A statement throws: the job is tried again, and again from the cursor.
ScanFails(s) ==
  LET j == scan[s].job
  IN  /\ scan[s].pc # "idle"
      /\ Allow("failure")
      /\ waiting' = IF j.made + 1 < Attempts
                    THEN waiting \cup {[j EXCEPT !.made = @ + 1]} ELSE waiting
      /\ Scanning(s, NoScan)
      /\ UNCHANGED <<oms, cursor, horizon, origin, enabled, seen>>

\* The worker dies and BullMQ hands the stalled job on, unless it has stalled too
\* often.
Crash(s) ==
  LET j == scan[s].job
  IN  /\ scan[s].pc # "idle"
      /\ Allow("crash")
      /\ waiting' = IF j.stalls < StallLimit
                    THEN waiting \cup {[j EXCEPT !.stalls = @ + 1]} ELSE waiting
      /\ Scanning(s, NoScan)
      /\ UNCHANGED <<oms, cursor, horizon, origin, enabled, seen>>

-------------------------------------------------------------------------------
(* The specification *)

ScanStep(s) ==
  ReadCursor(s) \/ ReadRows(s) \/ CompareRow(s) \/ Store(s)

ScanNext ==
  \/ Tick \/ Switch
  \/ \E r \in Rows : Change(r) \/ Commit(r) \/ Recheck(r)
  \/ \E w \in Asked : Trigger(w)
  \/ \E s \in Scanners : \/ \E j \in waiting : Take(s, j)
                         \/ ScanStep(s) \/ ScanFails(s) \/ Crash(s)

\* The scheduler's timer fires, workers poll and run on.
Fairness ==
  /\ WF_scanVars(Tick)
  /\ \A s \in Scanners : WF_scanVars((\E j \in waiting : Take(s, j)) \/ ScanStep(s))

ScanSpec == ScanInit /\ [][ScanNext]_scanVars
ScanLiveSpec == ScanSpec /\ Fairness

-------------------------------------------------------------------------------
(* Properties *)

\* Type correctness.
ScanTypeOK ==
  /\ clock \in Times
  /\ row \in [Rows -> [at : Times, version : Nat]]
  /\ writing \in [Rows -> Times]
  /\ cursor \in Cursor \cup {None}
  /\ enabled \in BOOLEAN
  /\ waiting \subseteq Job
  /\ scan \in [Scanners -> Scan]
  /\ allowance \in Nat
  /\ seen \in [Rows -> Nat]
  /\ horizon \in Times /\ origin \in Times
  /\ late \subseteq Rows

Unseen(r) == row[r].version > seen[r] /\ r \notin late

\* A change no scan has compared is still behind the cursor, so that a later scan
\* reads it: whatever order concurrent scans finish in, whichever of them fail.
\* Changes from before the first window, and those committed after a scan has read
\* past their time stamp, are not promised (README.md:301 "so workers know where to
\* resume", 371-373).
NothingSkipped ==
  cursor # None =>
    \A r \in Rows : Unseen(r) /\ row[r].at >= origin => After(row[r].at, r, cursor)

\* Of rows changed at the same time the ones a full scan left over are still behind
\* the cursor (README.md:371 "so rows with the same timestamp are not skipped").
TiesNotSkipped ==
  cursor # None =>
    \A r \in Rows : Unseen(r) /\ row[r].at >= origin /\ row[r].at = cursor.at
                      => After(row[r].at, r, cursor)

\* Once the cursor is stored, a change is eventually compared, also when more rows
\* change at once than one scan reads (README.md:366).
ChangesCompared ==
  \A r \in Rows : cursor # None /\ Unseen(r) /\ row[r].at >= origin
                    ~> ~Unseen(r) \/ row[r].at < origin \/ ~enabled
===============================================================================
