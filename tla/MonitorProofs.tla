----------------------------- MODULE MonitorProofs -----------------------------
(***************************************************************************)
(* What the monitoring of a tenant keeps: the scans that look for drifts   *)
(* (ScanCursor) and the alerts that tell of them (RiskAlerts), each for    *)
(* any number of workers or callers, failures and mishaps.                 *)
(***************************************************************************)
EXTENDS ScanCursor, RiskAlerts, WellFoundedInduction, SequenceTheorems, TLAPS

-----------------------------------------------------------------------------
(***************************************************************************)
(* Scans.  For any rows, limit, number of concurrent scans, failures,      *)
(* crashes and scans asked for by hand: no change is ever in front of the  *)
(* stored cursor unseen, provided ids are compared as they are sorted.     *)
(*                                                                         *)
(* The property alone is not inductive: a scan under way stores its cursor *)
(* long after it has read its rows.  The strengthening (ScanReady) says of *)
(* each scan what the property says of the cursor: whatever is still to be *)
(* compared is behind the place it reads from, and then behind the cursor  *)
(* it is going to store or among the rows it is about to compare.  The     *)
(* horizon separates these rows from the ones that commit later.           *)
(***************************************************************************)

\* Row r still has to be compared, as a change since `from'.
Due(r, from) == Unseen(r) /\ row[r].at >= from

ReadReady(c) ==
  IF c.cold THEN c.from = [at |-> c.job.start, id |-> 0]
  ELSE /\ c.from.at <= horizon
       /\ \A r \in Rows : Due(r, origin) => After(row[r].at, r, c.from)

Bound(c) == IF c.cold THEN c.job.start ELSE origin

ToCompare(c, r) == \E i \in c.todo : i.id = r /\ i.version = row[r].version

CompareReady(c) ==
  c.next # None =>
    /\ c.next.at <= horizon
    /\ \A r \in Rows : Due(r, Bound(c)) => After(row[r].at, r, c.next) \/ ToCompare(c, r)

ScanReady(c) ==
  c.job.kind = "scheduled" =>
    /\ c.pc # "idle" => c.job.rows = Rows
    /\ c.pc = "read" => ReadReady(c)
    /\ c.pc = "compare" => CompareReady(c)

JobsWhole   == \A j \in waiting : j.kind = "scheduled" => j.rows = Rows
CursorKnown == cursor # None => cursor.at <= horizon

ScanIInv == /\ ScanTypeOK /\ JobsWhole /\ CursorKnown /\ NothingSkipped
        /\ \A s \in Scanners : ScanReady(scan[s])

-----------------------------------------------------------------------------
(* Types.                                                                  *)

LEMMA NoScanType == NoScan \in Scan
BY ScanAssumption DEF NoScan, Scan, NoJob, NoCursor, Job, Cursor, Times

LEMMA InitTypeOK == ScanInit => ScanTypeOK
BY NoScanType, ScanAssumption DEF ScanInit, ScanTypeOK, Times

\* A scan that moves on to a scan of the right type.
LEMMA ScanningType ==
  ASSUME NEW s \in Scanners, NEW c \in Scan, scan \in [Scanners -> Scan], Scanning(s, c)
  PROVE  scan' \in [Scanners -> Scan]
BY DEF Scanning

LEMMA OmsType ==
  ASSUME ScanTypeOK, NEW r \in Rows, Change(r) \/ Commit(r) \/ Recheck(r)
  PROVE  ScanTypeOK'
<1>1. CASE Change(r)
  BY <1>1 DEF Change, ScanTypeOK, scans
<1>2. CASE Commit(r)
  <2>1. 0 \in Times
    BY ScanAssumption DEF Times
  <2>2. row' \in [Rows -> [at : Times, version : Nat]] /\ writing' \in [Rows -> Times]
    BY <1>2, <2>1 DEF Commit, ScanTypeOK
  <2>3. late' \subseteq Rows
    BY <1>2 DEF Commit, ScanTypeOK
  <2>4. QED
    BY <1>2, <2>2, <2>3 DEF Commit, ScanTypeOK, scans
<1>3. CASE Recheck(r)
  <2>1. UNCHANGED <<oms, scans, enabled>>
    BY <1>3 DEF Recheck
  <2>2. seen' \in [Rows -> Nat] /\ allowance' \in Nat
    BY <1>3 DEF Recheck, Allow, Current, ScanTypeOK
  <2>3. QED
    BY <2>1, <2>2 DEF ScanTypeOK, scans, oms
<1>4. QED
  BY <1>1, <1>2, <1>3

LEMMA SwitchType ==
  ASSUME ScanTypeOK, Switch
  PROVE  ScanTypeOK'
<1>1. allowance' \in Nat
  BY DEF Switch, Allow, ScanTypeOK
<1>2. enabled' \in BOOLEAN /\ UNCHANGED <<oms, scans, seen>>
  BY DEF Switch
<1>3. QED
  BY <1>1, <1>2 DEF ScanTypeOK, oms, scans

LEMMA TickType ==
  ASSUME ScanTypeOK, Tick
  PROVE  ScanTypeOK'
<1>1. [kind |-> "scheduled", rows |-> Rows, made |-> 0, stalls |-> 0,
       start |-> IF Interval <= clock THEN Millis[clock - Interval] ELSE 0,
       end |-> Millis[clock]] \in Job
  BY ScanAssumption DEF ScanTypeOK, Job, Times
<1>2. clock' \in Times
  BY ScanAssumption DEF Tick, ScanTypeOK, Times
<1>3. QED
  BY <1>1, <1>2 DEF Tick, AddScan, ScanTypeOK

LEMMA TriggerType ==
  ASSUME ScanTypeOK, NEW w \in Asked, Trigger(w)
  PROVE  ScanTypeOK'
<1>1. [kind |-> "manual", rows |-> w.rows, made |-> 0, stalls |-> 0,
       start |-> Millis[w.start], end |-> Millis[w.end]] \in Job
  BY ScanAssumption DEF Job, Times
<1>2. QED
  BY <1>1 DEF Trigger, AddScan, Allow, ScanTypeOK

LEMMA TakeType ==
  ASSUME ScanTypeOK, NEW s \in Scanners, NEW j \in waiting, Take(s, j)
  PROVE  ScanTypeOK'
<1>1. j \in Job
  BY DEF ScanTypeOK
<1>2. [NoScan EXCEPT !.pc = "cursor", !.job = j] \in Scan
  BY <1>1, NoScanType DEF Scan
<1>3. scan' \in [Scanners -> Scan]
  BY <1>2, ScanningType DEF Take, ScanTypeOK
<1>4. QED
  BY <1>3 DEF Take, ScanTypeOK, oms

LEMMA StepType ==
  ASSUME ScanTypeOK, NEW s \in Scanners, ScanStep(s) \/ ScanFails(s) \/ Crash(s)
  PROVE  ScanTypeOK'
<1> DEFINE c == scan[s]
<1>0. c \in Scan /\ c.job \in Job
  BY DEF ScanTypeOK, Scan
<1>1. CASE ReadCursor(s)
  <2>1. [at |-> c.job.start, id |-> 0] \in Cursor
    BY <1>0 DEF Job, Cursor
  <2>2. cursor # None => cursor \in Cursor
    BY DEF ScanTypeOK
  <2>3. PICK f \in Cursor, cold \in BOOLEAN :
          scan' = [scan EXCEPT ![s] = [c EXCEPT !.pc = "read", !.cold = cold, !.from = f]]
    BY <1>1, <2>1, <2>2 DEF ReadCursor, Scanning
  <2>4. [c EXCEPT !.pc = "read", !.cold = cold, !.from = f] \in Scan
    BY <1>0 DEF Scan
  <2>5. QED
    BY <1>1, <2>3, <2>4 DEF ReadCursor, ScanTypeOK, oms
<1>2. CASE ReadRows(s)
  <2>0. PICK batch \in First(Candidates(s)) : \E next \in NextCursor(batch) :
          Scanning(s, [c EXCEPT !.pc = "compare", !.todo = batch,
                                !.from = NoCursor, !.next = next])
    BY <1>2 DEF ReadRows
  <2>1. PICK next \in NextCursor(batch) :
          Scanning(s, [c EXCEPT !.pc = "compare", !.todo = batch,
                                !.from = NoCursor, !.next = next])
    BY <2>0
  <2>2. Items \subseteq Item
    BY DEF Items, Current, Item, ScanTypeOK
  <2>3. batch \subseteq Item
    BY <2>2 DEF First, Candidates
  <2>4. next \in Cursor \cup {None}
    BY <2>3, ScanAssumption DEF NextCursor, Last, CursorAt, Cursor, Item, Times
  <2>5. NoCursor \in Cursor
    BY ScanAssumption DEF NoCursor, Cursor, Times
  <2>6. [c EXCEPT !.pc = "compare", !.todo = batch,
                  !.from = NoCursor, !.next = next] \in Scan
    BY <1>0, <2>3, <2>4, <2>5 DEF Scan
  <2>7. scan' \in [Scanners -> Scan]
    BY <2>1, <2>6, ScanningType DEF ScanTypeOK
  <2>8. horizon' \in Times
    BY <1>0, <1>2 DEF ReadRows, Later, ScanTypeOK, Job
  <2>9. QED
    BY <1>2, <2>7, <2>8 DEF ReadRows, ScanTypeOK, oms
<1>3. CASE CompareRow(s)
  <2>1. PICK i \in c.todo : /\ Scanning(s, [c EXCEPT !.todo = @ \ {i}])
                            /\ seen' = [seen EXCEPT ![i.id] = Later(@, i.version)]
    BY <1>3 DEF CompareRow
  <2>2. i \in Item
    BY <1>0 DEF Scan
  <2>3. [c EXCEPT !.todo = @ \ {i}] \in Scan
    BY <1>0 DEF Scan
  <2>4. scan' \in [Scanners -> Scan]
    BY <2>1, <2>3, ScanningType DEF ScanTypeOK
  <2>5. seen' \in [Rows -> Nat]
    BY <2>1, <2>2 DEF ScanTypeOK, Later, Item
  <2>6. QED
    BY <1>3, <2>4, <2>5 DEF CompareRow, ScanTypeOK, oms
<1>4. CASE Store(s)
  <2>1. scan' \in [Scanners -> Scan]
    BY <1>4, NoScanType, ScanningType DEF Store, ScanTypeOK
  <2>2. cursor' \in Cursor \cup {None}
    BY <1>0, <1>4 DEF Store, ScanTypeOK, Scan
  <2>3. origin' \in Times
    BY <1>0, <1>4 DEF Store, ScanTypeOK, Later, Job
  <2>4. QED
    BY <1>4, <2>1, <2>2, <2>3 DEF Store, ScanTypeOK, oms
<1>5. CASE ScanFails(s)
  <2>1. scan' \in [Scanners -> Scan]
    BY <1>5, NoScanType, ScanningType DEF ScanFails, ScanTypeOK
  <2>2. [c.job EXCEPT !.made = @ + 1] \in Job
    BY <1>0 DEF Job
  <2>3. QED
    BY <1>5, <2>1, <2>2 DEF ScanFails, Allow, ScanTypeOK, oms
<1>6. CASE Crash(s)
  <2>1. scan' \in [Scanners -> Scan]
    BY <1>6, NoScanType, ScanningType DEF Crash, ScanTypeOK
  <2>2. [c.job EXCEPT !.stalls = @ + 1] \in Job
    BY <1>0 DEF Job
  <2>3. QED
    BY <1>6, <2>1, <2>2 DEF Crash, Allow, ScanTypeOK, oms
<1>7. QED
  BY <1>1, <1>2, <1>3, <1>4, <1>5, <1>6 DEF ScanStep

LEMMA NextTypeOK == ScanTypeOK /\ [ScanNext]_scanVars => ScanTypeOK'
<1> SUFFICES ASSUME ScanTypeOK, [ScanNext]_scanVars PROVE ScanTypeOK'
  OBVIOUS
<1>1. CASE Tick \/ Switch
  BY <1>1, TickType, SwitchType
<1>2. CASE \E r \in Rows : Change(r) \/ Commit(r) \/ Recheck(r)
  BY <1>2, OmsType
<1>3. CASE \E w \in Asked : Trigger(w)
  BY <1>3, TriggerType
<1>4. ASSUME NEW s \in Scanners, \E j \in waiting : Take(s, j) PROVE ScanTypeOK'
  BY <1>4, TakeType
<1>5. ASSUME NEW s \in Scanners, ScanStep(s) \/ ScanFails(s) \/ Crash(s) PROVE ScanTypeOK'
  BY <1>5, StepType
<1>6. CASE UNCHANGED scanVars
  BY <1>6 DEF ScanTypeOK, scanVars, oms, scans
<1>7. QED
  BY <1>1, <1>2, <1>3, <1>4, <1>5, <1>6 DEF ScanNext

\* Every variable keeps its type: what waits or runs is a scan job of a window, the
\* cursor a time and an id (scan-processor.service.ts 43-144).
THEOREM ScanTypeCorrect == ScanSpec => []ScanTypeOK
<1>1. QED
  BY InitTypeOK, NextTypeOK, PTL DEF ScanSpec

-----------------------------------------------------------------------------
(* Steps that leave what a scan has read as good as it was.                *)

\* Times and ranks are numbers.
LEMMA Numbers ==
  ASSUME ScanTypeOK
  PROVE  /\ Times \subseteq Nat
         /\ \A r \in Rows : row[r].at \in Nat /\ row[r].version \in Nat /\ Text[r] \in Nat \ {0}
         /\ \A c \in Cursor : c.at \in Nat /\ c.id \in Nat
         /\ \A c \in Scan : /\ c.job.start \in Nat /\ c.job.end \in Nat
                             /\ c.from \in Cursor /\ c.next \in Cursor \cup {None}
                             /\ c.todo \subseteq Item
         /\ horizon \in Nat /\ origin \in Nat
<1>1. Times \subseteq Nat
  BY ScanAssumption DEF Times
<1>2. \A c \in Cursor : c.at \in Nat /\ c.id \in Nat
  BY <1>1 DEF Cursor
<1>3. \A c \in Scan : /\ c.job \in Job /\ c.from \in Cursor
                      /\ c.next \in Cursor \cup {None} /\ c.todo \subseteq Item
  BY DEF Scan
<1>4. \A j \in Job : j.start \in Nat /\ j.end \in Nat
  BY <1>1 DEF Job
<1>5. \A r \in Rows : row[r].at \in Nat /\ row[r].version \in Nat /\ Text[r] \in Nat \ {0}
  BY <1>1, ScanAssumption DEF ScanTypeOK
<1>6. horizon \in Nat /\ origin \in Nat
  BY <1>1 DEF ScanTypeOK
<1>7. QED
  BY <1>1, <1>2, <1>3, <1>4, <1>5, <1>6

\* No row changes, none becomes unseen again; horizon and origin only grow.
Calm == /\ row' = row /\ late' = late
        /\ \A r \in Rows : Unseen(r)' => Unseen(r)
        /\ horizon' >= horizon /\ origin' >= origin

LEMMA CalmTimes ==
  ASSUME ScanTypeOK, ScanTypeOK', Calm, NEW c \in Cursor, c.at <= horizon
  PROVE  c.at <= horizon'
<1>1. c.at \in Nat /\ horizon \in Nat
  BY Numbers
<1>2. horizon' \in Nat
  BY ScanAssumption DEF ScanTypeOK, Times
<1>3. QED
  BY <1>1, <1>2 DEF Calm

LEMMA CalmDue ==
  ASSUME ScanTypeOK, ScanTypeOK', Calm, NEW r \in Rows, NEW from \in Nat
  PROVE  /\ Due(r, from)' => Due(r, from)
         /\ Due(r, origin)' => Due(r, origin)
BY Numbers DEF Due, Calm, ScanTypeOK, Times

\* A commit either is late or has a time behind everything read so far.
LEMMA CommitDue ==
  ASSUME ScanTypeOK, ScanTypeOK', NEW r \in Rows, Commit(r), NEW q \in Rows, NEW from \in Nat,
         Due(q, from)'
  PROVE  \/ q # r /\ Due(q, from) /\ row'[q] = row[q]
         \/ row'[q].at > horizon
<1>1. CASE q = r
  BY <1>1, Numbers DEF Commit, Due, Unseen, ScanTypeOK
<1>2. CASE q # r
  BY <1>2 DEF Commit, Due, Unseen, ScanTypeOK
<1>3. QED
  BY <1>1, <1>2

LEMMA CalmKeeps ==
  ASSUME ScanTypeOK, ScanTypeOK', Calm, NEW c \in Scan, ScanReady(c)
  PROVE  ScanReady(c)'
<1> SUFFICES ASSUME c.job.kind = "scheduled" PROVE ScanReady(c)'
  BY DEF ScanReady
<1>0. row' = row /\ \A r \in Rows : ToCompare(c, r)' <=> ToCompare(c, r)
  BY DEF Calm, ToCompare
<1>1. ASSUME c.pc = "read" PROVE ReadReady(c)'
  <2>1. ReadReady(c)
    BY <1>1 DEF ScanReady
  <2>2. c.from.at <= horizon => c.from.at <= horizon'
    BY Numbers, CalmTimes
  <2>3. QED
    BY <1>0, <2>1, <2>2, CalmDue, Numbers DEF ReadReady, After
<1>2. ASSUME c.pc = "compare" PROVE CompareReady(c)'
  <2>1. CompareReady(c)
    BY <1>2 DEF ScanReady
  <2>2. SUFFICES ASSUME c.next # None PROVE CompareReady(c)'
    BY DEF CompareReady
  <2>3. c.next \in Cursor /\ c.next.at <= horizon
    BY <2>1, <2>2, Numbers DEF CompareReady
  <2>4. c.next.at <= horizon'
    BY <2>3, CalmTimes
  <2>5. ASSUME NEW r \in Rows, Due(r, Bound(c))' PROVE Due(r, Bound(c))
    BY <2>5, CalmDue, Numbers DEF Bound, Due
  <2>6. QED
    BY <1>0, <2>1, <2>2, <2>4, <2>5 DEF CompareReady, After
<1>3. QED
  BY <1>1, <1>2 DEF ScanReady

LEMMA CalmSkipsNothing ==
  ASSUME ScanTypeOK, ScanTypeOK', Calm, cursor' = cursor, NothingSkipped, CursorKnown
  PROVE  NothingSkipped' /\ CursorKnown'
<1>1. NothingSkipped'
  BY CalmDue DEF NothingSkipped, Due, Calm, After
<1>2. CursorKnown'
  BY CalmTimes DEF CursorKnown, ScanTypeOK
<1>3. QED
  BY <1>1, <1>2

LEMMA CommitKeeps ==
  ASSUME ScanTypeOK, ScanTypeOK', NEW r \in Rows, Commit(r), NEW c \in Scan, ScanReady(c)
  PROVE  ScanReady(c)'
<1> SUFFICES ASSUME c.job.kind = "scheduled" PROVE ScanReady(c)'
  BY DEF ScanReady
<1>0. horizon' = horizon /\ origin' = origin
  BY DEF Commit, scans
<1>1. ASSUME c.pc = "read" PROVE ReadReady(c)'
  <2>1. ReadReady(c)
    BY <1>1 DEF ScanReady
  <2>2. ASSUME ~c.cold, NEW q \in Rows, Due(q, origin)' PROVE After(row[q].at, q, c.from)'
    <3>1. c.from.at \in Nat /\ c.from.at <= horizon
      BY <2>1, <2>2, Numbers DEF ReadReady
    <3>2. (Due(q, origin) /\ row'[q] = row[q]) \/ row'[q].at > horizon
      BY <1>0, <2>2, CommitDue, Numbers DEF Due
    <3>3. row'[q].at \in Nat
      BY ScanAssumption DEF ScanTypeOK, Times
    <3>4. QED
      BY <2>1, <2>2, <3>1, <3>2, <3>3, Numbers DEF ReadReady, After
  <2>3. QED
    BY <1>0, <2>1, <2>2 DEF ReadReady
<1>2. ASSUME c.pc = "compare" PROVE CompareReady(c)'
  <2>1. CompareReady(c)
    BY <1>2 DEF ScanReady
  <2>2. ASSUME c.next # None, NEW q \in Rows, Due(q, Bound(c))'
        PROVE  (After(row[q].at, q, c.next) \/ ToCompare(c, q))'
    <3>1. c.next.at \in Nat /\ c.next.at <= horizon
      BY <2>1, <2>2, Numbers DEF CompareReady
    <3>2. Bound(c) \in Nat /\ Bound(c)' = Bound(c)
      BY <1>0, Numbers DEF Bound
    <3>3. (Due(q, Bound(c)) /\ row'[q] = row[q]) \/ row'[q].at > horizon
      BY <2>2, <3>2, CommitDue DEF Due
    <3>4. row'[q].at \in Nat
      BY ScanAssumption DEF ScanTypeOK, Times
    <3>5. QED
      BY <2>1, <2>2, <3>1, <3>3, <3>4, Numbers DEF CompareReady, After, ToCompare
  <2>3. QED
    BY <1>0, <2>1, <2>2 DEF CompareReady
<1>3. QED
  BY <1>1, <1>2 DEF ScanReady

LEMMA CommitSkipsNothing ==
  ASSUME ScanTypeOK, ScanTypeOK', NEW r \in Rows, Commit(r), NothingSkipped, CursorKnown
  PROVE  NothingSkipped' /\ CursorKnown'
<1>0. horizon' = horizon /\ origin' = origin /\ cursor' = cursor
  BY DEF Commit, scans
<1>1. ASSUME cursor # None, NEW q \in Rows, Due(q, origin)' PROVE After(row[q].at, q, cursor)'
  <2>1. cursor.at \in Nat /\ cursor.at <= horizon
    BY <1>1, Numbers DEF CursorKnown, ScanTypeOK
  <2>2. (Due(q, origin) /\ row'[q] = row[q]) \/ row'[q].at > horizon
    BY <1>0, <1>1, CommitDue, Numbers DEF Due
  <2>3. row'[q].at \in Nat
    BY ScanAssumption DEF ScanTypeOK, Times
  <2>4. QED
    BY <1>0, <1>1, <2>1, <2>2, <2>3, Numbers DEF NothingSkipped, Due, After
<1>2. QED
  BY <1>0, <1>1 DEF NothingSkipped, CursorKnown, Due

-----------------------------------------------------------------------------
(* The steps of a scan.                                                    *)

\* Every scan but s stays as it is, and s becomes c.
LEMMA OthersReady ==
  ASSUME ScanTypeOK, ScanTypeOK', Calm, \A t \in Scanners : ScanReady(scan[t]),
         NEW s \in Scanners, NEW c \in Scan, Scanning(s, c), ScanReady(c)'
  PROVE  \A t \in Scanners : ScanReady(scan[t])'
<1> SUFFICES ASSUME NEW t \in Scanners PROVE ScanReady(scan[t])'
  OBVIOUS
<1>1. CASE t = s
  BY <1>1 DEF Scanning, ScanTypeOK, ScanReady, ReadReady, CompareReady, Bound, ToCompare
<1>2. CASE t # s
  <2>1. scan[t]' = scan[t] /\ scan[t] \in Scan
    BY <1>2 DEF Scanning, ScanTypeOK
  <2>2. PICK d \in Scan : d = scan[t]
    BY <2>1
  <2>3. ScanReady(d)'
    BY <2>2, CalmKeeps
  <2>4. QED
    BY <2>1, <2>2, <2>3 DEF ScanReady, ReadReady, CompareReady, Bound, ToCompare
<1>3. QED
  BY <1>1, <1>2

LEMMA IdleReady ==
  /\ ScanReady(NoScan)
  /\ \A j \in Job : (j.kind = "scheduled" => j.rows = Rows) =>
       ScanReady([NoScan EXCEPT !.pc = "cursor", !.job = j])
BY DEF ScanReady, NoScan, NoJob

LEMMA IdleReadyNext ==
  /\ ScanReady(NoScan)'
  /\ \A j \in Job : (j.kind = "scheduled" => j.rows = Rows) =>
       ScanReady([NoScan EXCEPT !.pc = "cursor", !.job = j])'
BY DEF ScanReady, NoScan, NoJob

LEMMA ReadCursorKeeps ==
  ASSUME ScanIInv, ScanTypeOK', NEW s \in Scanners, ReadCursor(s)
  PROVE  ScanIInv'
<1> DEFINE c    == scan[s]
           cold == c.job.kind = "manual" \/ cursor = None
           from == IF cold THEN [at |-> c.job.start, id |-> 0] ELSE cursor
<1>0. /\ ScanTypeOK /\ c \in Scan /\ c.pc = "cursor" /\ ScanReady(c)
      /\ UNCHANGED <<row, late, seen, horizon, origin, cursor, waiting>>
  BY DEF ScanIInv, ScanTypeOK, ReadCursor, oms
<1>1. Calm
  BY <1>0, Numbers DEF Calm, Unseen
<1>2. scan'[s] \in Scan
  BY ScanTypeOK' DEF ScanTypeOK
<1>3. PICK d \in Scan : d = scan'[s]
  BY <1>2
<1>4. /\ Scanning(s, d) /\ d.job = c.job /\ d.pc = "read"
      /\ d.cold = cold /\ d.from = from
  BY <1>0, <1>3 DEF ReadCursor, Scanning, ScanTypeOK, Scan
<1>5. ScanReady(d)'
  <2> SUFFICES ASSUME c.job.kind = "scheduled" PROVE ScanReady(d)'
    BY <1>4 DEF ScanReady
  <2>1. d.job.rows = Rows
    BY <1>0, <1>4 DEF ScanReady
  <2>2. CASE cold
    BY <1>4, <2>1, <2>2 DEF ScanReady, ReadReady
  <2>3. CASE ~cold
    <3>1. d.from = cursor /\ ~d.cold
      BY <1>4, <2>3
    <3>2. d.from.at <= horizon /\ \A r \in Rows : Due(r, origin) => After(row[r].at, r, d.from)
      BY <2>3, <3>1 DEF ScanIInv, CursorKnown, NothingSkipped, Due
    <3>3. ReadReady(d)'
      BY <1>0, <3>1, <3>2 DEF ReadReady, Due, Unseen, After
    <3>4. QED
      BY <1>4, <2>1, <3>3 DEF ScanReady
  <2>4. QED
    BY <2>2, <2>3
<1>6. \A t \in Scanners : ScanReady(scan[t])'
  BY <1>0, <1>1, <1>4, <1>5, OthersReady DEF ScanIInv
<1>7. NothingSkipped' /\ CursorKnown'
  BY <1>0, <1>1, CalmSkipsNothing DEF ScanIInv
<1>8. JobsWhole'
  BY <1>0 DEF ScanIInv, JobsWhole
<1>9. QED
  BY <1>6, <1>7, <1>8 DEF ScanIInv

\* What a scan has read is a prefix of what is due: the rest is behind its last row.
LEMMA ReadRowsKeeps ==
  ASSUME Text = Order, ScanIInv, ScanTypeOK', NEW s \in Scanners, ReadRows(s)
  PROVE  ScanIInv'
<1> DEFINE c == scan[s]
<1>0. /\ ScanTypeOK /\ c \in Scan /\ c.pc = "read" /\ ScanReady(c)
      /\ UNCHANGED <<row, late, seen, origin, cursor, waiting>>
  BY DEF ScanIInv, ScanTypeOK, ReadRows, oms
<1>1. /\ horizon' >= horizon /\ horizon' \in Nat
      /\ c.job.kind = "scheduled" => horizon' >= c.job.end
  <2>1. c.job.end \in Nat /\ horizon \in Nat
    BY <1>0, Numbers
  <2>2. QED
    BY <2>1 DEF ReadRows, Later
<1>2. Calm
  BY <1>0, <1>1, Numbers DEF Calm, Unseen
<1>3. PICK d \in Scan : d = scan'[s]
  BY ScanTypeOK' DEF ScanTypeOK
<1>4. PICK batch \in First(Candidates(s)) :
        /\ Scanning(s, d) /\ d.job = c.job /\ d.pc = "compare" /\ d.cold = c.cold
        /\ d.todo = batch /\ d.next \in NextCursor(batch)
  <2>1. PICK batch \in First(Candidates(s)) : \E next \in NextCursor(batch) :
          Scanning(s, [c EXCEPT !.pc = "compare", !.todo = batch,
                                !.from = NoCursor, !.next = next])
    BY DEF ReadRows
  <2>2. PICK next \in NextCursor(batch) :
          Scanning(s, [c EXCEPT !.pc = "compare", !.todo = batch,
                                !.from = NoCursor, !.next = next])
    BY <2>1
  <2>3. QED
    BY <1>0, <1>3, <2>2 DEF Scanning, ScanTypeOK, Scan
<1>5. ScanReady(d)'
  <2> SUFFICES ASSUME c.job.kind = "scheduled" PROVE ScanReady(d)'
    BY <1>4 DEF ScanReady
  <2>1. d.job.rows = Rows /\ ReadReady(c)
    BY <1>0, <1>4 DEF ScanReady
  <2>2. SUFFICES ASSUME d.next # None PROVE CompareReady(d)'
    BY <1>4, <2>1 DEF ScanReady, CompareReady
  <2>3. PICK last \in batch : /\ d.next = CursorAt(last)
                              /\ \A other \in batch \ {last} : Sooner(other, last)
    BY <1>4, <2>2 DEF NextCursor, Last
  <2>4. /\ batch \subseteq Candidates(s)
        /\ \A b \in Candidates(s) \ batch : Sooner(last, b)
    BY DEF First
  <2>5. /\ last \in Item /\ last.at \in Nat /\ last.id \in Rows /\ last.at <= c.job.end
        /\ d.next.at \in Nat /\ d.next.at <= last.at /\ d.next.id = Text[last.id]
    <3>1. last \in Candidates(s) /\ last \in Item
      BY <2>4, <1>0 DEF Candidates, Items, Current, Item, ScanTypeOK
    <3>2. Millis[last.at] \in Times /\ Millis[last.at] <= last.at
      BY <3>1, ScanAssumption DEF Item
    <3>3. QED
      BY <1>0, <2>3, <3>1, <3>2, Numbers DEF Candidates, CursorAt, Item
  <2>6. d.next.at <= horizon'
    BY <1>0, <1>1, <2>5, Numbers
  <2>7. ASSUME NEW r \in Rows, Due(r, Bound(c))
        PROVE  After(row[r].at, r, d.next) \/ \E i \in batch : i.id = r /\ i.version = row[r].version
    <3>1. After(row[r].at, r, c.from)
      BY <1>0, <2>1, <2>7, Numbers DEF ReadReady, Bound, Due, After
    <3>2. CASE row[r].at <= c.job.end
      <4>1. Current(r) \in Candidates(s)
        BY <1>4, <2>1, <3>1, <3>2 DEF Candidates, Items, Current
      <4>2. CASE Current(r) \in batch
        BY <4>2 DEF Current
      <4>3. CASE Current(r) \notin batch
        <5>1. Sooner(last, Current(r))
          BY <2>4, <4>1, <4>3
        <5>2. row[r].at > last.at \/ (row[r].at = last.at /\ Order[last.id] < Order[r])
          BY <1>0, <2>5, <5>1, Numbers DEF Sooner, Current
        <5>3. QED
          BY <1>0, <2>5, <5>2, Numbers, Text = Order DEF After
      <4>4. QED
        BY <4>2, <4>3
    <3>3. CASE row[r].at > c.job.end
      BY <1>0, <2>5, <3>3, Numbers DEF After
    <3>4. QED
      BY <1>0, <3>2, <3>3, Numbers
  <2>8. QED
    BY <1>0, <1>4, <2>6, <2>7 DEF CompareReady, Bound, Due, Unseen, After, ToCompare
<1>6. \A t \in Scanners : ScanReady(scan[t])'
  BY <1>0, <1>2, <1>4, <1>5, OthersReady DEF ScanIInv
<1>7. NothingSkipped' /\ CursorKnown'
  BY <1>0, <1>2, CalmSkipsNothing DEF ScanIInv
<1>8. JobsWhole'
  BY <1>0 DEF ScanIInv, JobsWhole
<1>9. QED
  BY <1>6, <1>7, <1>8 DEF ScanIInv

\* A compared row is seen in the version that was read, and no longer due if that is
\* still its version.
LEMMA CompareRowKeeps ==
  ASSUME ScanIInv, ScanTypeOK', NEW s \in Scanners, CompareRow(s)
  PROVE  ScanIInv'
<1> DEFINE c == scan[s]
<1>0. /\ ScanTypeOK /\ c \in Scan /\ c.pc = "compare" /\ ScanReady(c)
      /\ UNCHANGED <<row, late, horizon, origin, cursor, waiting>>
  BY DEF ScanIInv, ScanTypeOK, CompareRow, oms
<1>1. PICK i \in c.todo : /\ Scanning(s, [c EXCEPT !.todo = @ \ {i}])
                          /\ seen' = [seen EXCEPT ![i.id] = Later(@, i.version)]
  BY DEF CompareRow
<1>2. i \in Item /\ i.id \in Rows /\ i.version \in Nat
  BY <1>0, Numbers DEF Item
<1>3. /\ \A r \in Rows : seen'[r] >= seen[r]
      /\ seen'[i.id] >= i.version
  BY <1>1, <1>2 DEF ScanIInv, ScanTypeOK, Later
<1>4. \A r \in Rows : seen[r] \in Nat /\ seen'[r] \in Nat /\ row[r].version \in Nat
  BY <1>0, Numbers DEF ScanTypeOK
<1>5. Calm
  BY <1>0, <1>3, <1>4, Numbers DEF Calm, Unseen
<1>6. PICK d \in Scan : d = scan'[s]
  BY ScanTypeOK' DEF ScanTypeOK
<1>7. /\ Scanning(s, d) /\ d.job = c.job /\ d.pc = "compare" /\ d.cold = c.cold
      /\ d.todo = c.todo \ {i} /\ d.next = c.next
  BY <1>0, <1>1, <1>6 DEF Scanning, ScanTypeOK, Scan
<1>8. ScanReady(d)'
  <2> SUFFICES ASSUME c.job.kind = "scheduled", d.next # None PROVE ScanReady(d)'
    BY <1>0, <1>7 DEF ScanReady, CompareReady
  <2>1. d.job.rows = Rows /\ CompareReady(c)
    BY <1>0, <1>7 DEF ScanReady
  <2>2. d.next.at <= horizon'
    BY <1>0, <1>7, <2>1 DEF CompareReady
  <2>3. ASSUME NEW r \in Rows, Due(r, Bound(d))'
        PROVE  (After(row[r].at, r, d.next) \/ ToCompare(d, r))'
    <3>1. Due(r, Bound(c)) /\ row'[r].version > seen'[r]
      BY <1>0, <1>5, <1>7, <2>3 DEF Due, Bound, Calm, Unseen
    <3>2. After(row[r].at, r, c.next) \/ ToCompare(c, r)
      BY <1>7, <2>1, <3>1 DEF CompareReady
    <3>3. ~(i.id = r /\ i.version = row[r].version)
      BY <1>0, <1>2, <1>3, <1>4, <3>1
    <3>4. QED
      BY <1>0, <1>7, <3>2, <3>3 DEF After, ToCompare
  <2>4. QED
    BY <1>7, <2>1, <2>2, <2>3 DEF ScanReady, CompareReady
<1>9. \A t \in Scanners : ScanReady(scan[t])'
  BY <1>0, <1>5, <1>7, <1>8, OthersReady DEF ScanIInv
<1>10. NothingSkipped' /\ CursorKnown'
  BY <1>0, <1>5, CalmSkipsNothing DEF ScanIInv
<1>11. JobsWhole'
  BY <1>0 DEF ScanIInv, JobsWhole
<1>12. QED
  BY <1>9, <1>10, <1>11 DEF ScanIInv

\* The stored cursor is what the finished scan knew of it.
LEMMA StoreKeeps ==
  ASSUME ScanIInv, ScanTypeOK', NEW s \in Scanners, Store(s)
  PROVE  ScanIInv'
<1> DEFINE c     == scan[s]
           moves == c.job.kind = "scheduled" /\ c.next # None
<1>0. /\ ScanTypeOK /\ c \in Scan /\ c.pc = "compare" /\ c.todo = {} /\ ScanReady(c)
      /\ UNCHANGED <<row, late, seen, horizon, waiting>> /\ Scanning(s, NoScan)
      /\ cursor' = IF moves THEN c.next ELSE cursor
      /\ origin' = IF moves /\ c.cold THEN Later(origin, c.job.start) ELSE origin
  BY DEF ScanIInv, ScanTypeOK, Store, oms
<1>1. origin' >= origin /\ (moves => origin' >= Bound(c)) /\ origin' \in Nat
  BY <1>0, Numbers DEF Later, Bound
<1>2. Calm
  BY <1>0, <1>1, Numbers DEF Calm, Unseen
<1>3. \A t \in Scanners : ScanReady(scan[t])'
  BY <1>0, <1>2, NoScanType, IdleReadyNext, OthersReady DEF ScanIInv
<1>4. NothingSkipped' /\ CursorKnown'
  <2>1. CASE moves
    <3>1. CompareReady(c)
      BY <1>0, <2>1 DEF ScanReady
    <3>2. cursor' = c.next /\ c.next.at <= horizon'
      BY <1>0, <2>1, <3>1 DEF CompareReady
    <3>3. ASSUME NEW r \in Rows, Due(r, origin)' PROVE After(row[r].at, r, c.next)
      <4>1. Due(r, Bound(c))
        BY <1>0, <1>1, <2>1, <3>3, Numbers DEF Due, Unseen, Bound
      <4>2. QED
        BY <1>0, <2>1, <3>1, <4>1 DEF CompareReady, ToCompare
    <3>4. QED
      BY <1>0, <3>2, <3>3 DEF NothingSkipped, CursorKnown, Due, After
  <2>2. CASE ~moves
    BY <1>0, <1>2, <2>2, CalmSkipsNothing DEF ScanIInv
  <2>3. QED
    BY <2>1, <2>2
<1>5. JobsWhole'
  BY <1>0 DEF ScanIInv, JobsWhole
<1>6. QED
  BY <1>3, <1>4, <1>5 DEF ScanIInv

\* A scan that is taken, fails or dies has read nothing yet.
LEMMA QueueKeeps ==
  ASSUME ScanIInv, ScanTypeOK', NEW s \in Scanners,
         (\E j \in waiting : Take(s, j)) \/ ScanFails(s) \/ Crash(s)
  PROVE  ScanIInv'
<1> DEFINE c == scan[s]
<1>0. /\ ScanTypeOK /\ c \in Scan /\ c.job \in Job /\ ScanReady(c)
      /\ UNCHANGED <<row, late, seen, horizon, origin, cursor>>
  BY DEF ScanIInv, ScanTypeOK, Take, ScanFails, Crash, Scan, oms
<1>1. Calm
  BY <1>0, Numbers DEF Calm, Unseen
<1>2. \A t \in Scanners : ScanReady(scan[t])'
  <2>1. ASSUME NEW j \in waiting, Take(s, j) PROVE \A t \in Scanners : ScanReady(scan[t])'
    <3>1. j \in Job /\ (j.kind = "scheduled" => j.rows = Rows)
      BY DEF ScanIInv, ScanTypeOK, JobsWhole
    <3>2. PICK d \in Scan : d = [NoScan EXCEPT !.pc = "cursor", !.job = j]
      BY <3>1, NoScanType DEF Scan
    <3>3. ScanReady(d)'
      BY <3>1, <3>2 DEF ScanReady, NoScan
    <3>4. CASE enabled
      BY <1>0, <1>1, <2>1, <3>2, <3>3, <3>4, OthersReady DEF Take, ScanIInv
    <3>5. CASE ~enabled
      <4>1. scan[s] = NoScan /\ scan' = scan
        BY <2>1, <3>5 DEF Take
      <4>2. Scanning(s, NoScan)
        BY <4>1 DEF Scanning, ScanIInv, ScanTypeOK
      <4>3. QED
        BY <1>0, <1>1, <4>2, NoScanType, IdleReadyNext, OthersReady DEF ScanIInv
    <3>6. QED
      BY <3>4, <3>5
  <2>2. CASE ScanFails(s) \/ Crash(s)
    BY <1>0, <1>1, <2>2, NoScanType, IdleReadyNext, OthersReady DEF ScanFails, Crash, ScanIInv
  <2>3. QED
    BY <2>1, <2>2
<1>3. NothingSkipped' /\ CursorKnown'
  BY <1>0, <1>1, CalmSkipsNothing DEF ScanIInv
<1>4. JobsWhole'
  <2>1. ASSUME c.pc # "idle", c.job.kind = "scheduled" PROVE c.job.rows = Rows
    BY <1>0, <2>1 DEF ScanReady
  <2>2. CASE \E j \in waiting : Take(s, j)
    BY <2>2 DEF Take, JobsWhole, ScanIInv
  <2>3. CASE ScanFails(s)
    <3>1. /\ [c.job EXCEPT !.made = @ + 1].kind = c.job.kind
          /\ [c.job EXCEPT !.made = @ + 1].rows = c.job.rows
      BY <1>0 DEF Job
    <3>2. QED
      BY <2>1, <2>3, <3>1 DEF ScanFails, JobsWhole, ScanIInv
  <2>4. CASE Crash(s)
    <3>1. /\ [c.job EXCEPT !.stalls = @ + 1].kind = c.job.kind
          /\ [c.job EXCEPT !.stalls = @ + 1].rows = c.job.rows
      BY <1>0 DEF Job
    <3>2. QED
      BY <2>1, <2>4, <3>1 DEF Crash, JobsWhole, ScanIInv
  <2>5. QED
    BY <2>2, <2>3, <2>4
<1>5. QED
  BY <1>2, <1>3, <1>4 DEF ScanIInv

-----------------------------------------------------------------------------
(* The steps around the scans.                                             *)

LEMMA AroundKeeps ==
  ASSUME ScanIInv, ScanTypeOK', Calm, UNCHANGED <<scan, cursor>>, JobsWhole'
  PROVE  ScanIInv'
<1>1. ASSUME NEW t \in Scanners PROVE ScanReady(scan[t])'
  <2>1. PICK d \in Scan : d = scan[t]
    BY DEF ScanIInv, ScanTypeOK
  <2>2. ScanReady(d)'
    BY <2>1, CalmKeeps DEF ScanIInv
  <2>3. QED
    BY <2>1, <2>2 DEF ScanReady, ReadReady, CompareReady, Bound, ToCompare
<1>2. NothingSkipped' /\ CursorKnown'
  BY CalmSkipsNothing DEF ScanIInv
<1>3. QED
  BY <1>1, <1>2 DEF ScanIInv

LEMMA EnvironmentKeeps ==
  ASSUME ScanIInv, ScanTypeOK',
         \/ Tick \/ Switch \/ \E w \in Asked : Trigger(w)
         \/ \E r \in Rows : Change(r) \/ Recheck(r)
         \/ UNCHANGED scanVars
  PROVE  ScanIInv'
<1>0. ScanTypeOK
  BY DEF ScanIInv
<1>1. CASE Tick
  BY <1>0, <1>1, Numbers, AroundKeeps DEF Tick, AddScan, Calm, Unseen, JobsWhole, ScanIInv
<1>2. ASSUME NEW w \in Asked, Trigger(w) PROVE ScanIInv'
  BY <1>0, <1>2, Numbers, AroundKeeps DEF Trigger, AddScan, Calm, Unseen, JobsWhole, ScanIInv
<1>3. CASE Switch
  BY <1>0, <1>3, Numbers, AroundKeeps DEF Switch, Calm, Unseen, JobsWhole, ScanIInv, oms, scans
<1>4. ASSUME NEW r \in Rows, Change(r) PROVE ScanIInv'
  BY <1>0, <1>4, Numbers, AroundKeeps DEF Change, Calm, Unseen, JobsWhole, ScanIInv, scans
<1>5. ASSUME NEW r \in Rows, Recheck(r) PROVE ScanIInv'
  <2>1. UNCHANGED <<row, late, scan, cursor, waiting, horizon, origin>>
    BY <1>5 DEF Recheck, oms, scans
  <2>2. seen' = [seen EXCEPT ![r] = row[r].version]
    BY <1>5 DEF Recheck, Current
  <2>3. \A q \in Rows : Unseen(q)' => Unseen(q)
    BY <1>0, <2>1, <2>2, Numbers DEF Unseen, ScanTypeOK
  <2>4. QED
    BY <1>0, <2>1, <2>3, Numbers, AroundKeeps DEF Calm, JobsWhole, ScanIInv
<1>6. CASE UNCHANGED scanVars
  BY <1>0, <1>6, Numbers, AroundKeeps DEF scanVars, oms, scans, Calm, Unseen, JobsWhole, ScanIInv
<1>7. QED
  BY <1>1, <1>2, <1>3, <1>4, <1>5, <1>6

LEMMA CommitRowKeeps ==
  ASSUME ScanIInv, ScanTypeOK', NEW r \in Rows, Commit(r)
  PROVE  ScanIInv'
<1>0. ScanTypeOK /\ UNCHANGED <<scan, waiting>>
  BY DEF ScanIInv, Commit, scans
<1>1. ASSUME NEW t \in Scanners PROVE ScanReady(scan[t])'
  <2>1. PICK d \in Scan : d = scan[t]
    BY <1>0 DEF ScanTypeOK
  <2>2. ScanReady(d)'
    BY <1>0, <2>1, CommitKeeps DEF ScanIInv
  <2>3. QED
    BY <1>0, <2>1, <2>2 DEF ScanReady, ReadReady, CompareReady, Bound, ToCompare
<1>2. NothingSkipped' /\ CursorKnown'
  BY <1>0, CommitSkipsNothing DEF ScanIInv
<1>3. QED
  BY <1>0, <1>1, <1>2 DEF ScanIInv, JobsWhole

LEMMA InitReady == ScanInit => ScanIInv
<1> SUFFICES ASSUME ScanInit PROVE ScanIInv
  OBVIOUS
<1>1. ScanTypeOK
  BY InitTypeOK
<1>2. \A s \in Scanners : ScanReady(scan[s])
  BY IdleReady DEF ScanInit
<1>3. QED
  BY <1>1, <1>2 DEF ScanInit, ScanIInv, JobsWhole, CursorKnown, NothingSkipped

LEMMA NextReady == ASSUME Text = Order PROVE ScanIInv /\ [ScanNext]_scanVars => ScanIInv'
<1> SUFFICES ASSUME ScanIInv, [ScanNext]_scanVars PROVE ScanIInv'
  OBVIOUS
<1>0. ScanTypeOK'
  BY NextTypeOK DEF ScanIInv
<1>1. CASE \/ Tick \/ Switch \/ \E w \in Asked : Trigger(w)
           \/ \E r \in Rows : Change(r) \/ Recheck(r)
           \/ UNCHANGED scanVars
  BY <1>0, <1>1, EnvironmentKeeps
<1>2. ASSUME NEW r \in Rows, Commit(r) PROVE ScanIInv'
  BY <1>0, <1>2, CommitRowKeeps
<1>3. ASSUME NEW s \in Scanners, (\E j \in waiting : Take(s, j)) \/ ScanFails(s) \/ Crash(s)
      PROVE  ScanIInv'
  BY <1>0, <1>3, QueueKeeps
<1>4. ASSUME NEW s \in Scanners, ScanStep(s) PROVE ScanIInv'
  <2>1. CASE ReadCursor(s)
    BY <1>0, <2>1, ReadCursorKeeps
  <2>2. CASE ReadRows(s)
    BY <1>0, <2>2, ReadRowsKeeps, Text = Order
  <2>3. CASE CompareRow(s)
    BY <1>0, <2>3, CompareRowKeeps
  <2>4. CASE Store(s)
    BY <1>0, <2>4, StoreKeeps
  <2>5. QED
    BY <1>4, <2>1, <2>2, <2>3, <2>4 DEF ScanStep
<1>5. QED
  BY <1>1, <1>2, <1>3, <1>4 DEF ScanNext

\* Where ids are compared as they are sorted, no change since the oldest promised time is
\* in front of the stored cursor unseen, unless it was committed behind the horizon
\* (scan-processor.service.ts 69-134, scan-cursor.ts).
THEOREM NoChangeSkipped == ASSUME Text = Order PROVE ScanSpec => []NothingSkipped
<1>1. ScanInit => ScanIInv
  BY InitReady
<1>2. ScanIInv /\ [ScanNext]_scanVars => ScanIInv'
  BY NextReady
<1>3. ScanIInv => NothingSkipped
  BY DEF ScanIInv
<1>4. QED
  BY <1>1, <1>2, <1>3, PTL DEF ScanSpec

-----------------------------------------------------------------------------
(***************************************************************************)
(* Alerts.  For any number of callers, events and mishaps and any          *)
(* threshold: no reported event, no failed event and no high-risk row goes *)
(* without its alert.                                                      *)
(*                                                                         *)
(* Alerts are never taken back: what has been sent, lost or is owed stays  *)
(* one of the three (SentStays).  The strengthening says what a call knows *)
(* from what it has read: a snapshot read as HIGH, or an event found       *)
(* FAILED_MANUAL, has its alert; and as long as a burst has none, the call *)
(* of a new event watches it, with the count still to come or high enough. *)
(***************************************************************************)

\* A call that has not written its event owes nothing.
ReadyCall(k) ==
  /\ k.pc \in {"find", "write"} => k.status \in {"FIX_QUEUED", "FAILED_MANUAL"}
  /\ k.pc \in {"find", "write"} => k.alerts = {}

FoundFailed(k) == k.pc = "write" /\ k.event # 0 /\ k.before = "FAILED_MANUAL"

Watching(k) == Judging(k) /\ (k.count = Unread \/ k.count >= HighThreshold)

Ready       == \A c \in Callers : ReadyCall(call[c])
HighSeen    == \A c \in Callers : call[c].level = "HIGH" => Sent(HighAlert)
FailedSeen  == \A c \in Callers : FoundFailed(call[c]) => Sent(ManualAlert(call[c].event))
BurstWatched ==
  recent >= HighThreshold => Sent(HighAlert) \/ \E c \in Callers : Watching(call[c])

Alerted == HighRiskAlerted /\ ManualAlerted /\ EventsAnnounced
Watched == Ready /\ HighSeen /\ FailedSeen /\ BurstWatched

IInv == TypeOK /\ Alerted /\ Watched

-----------------------------------------------------------------------------
(* Facts about events and calls.                                           *)

\* A nonempty set of event numbers has a newest one.
LEMMA NewestExists ==
  ASSUME NEW n \in Nat, NEW S \in SUBSET (1..n), S # {}
  PROVE  Max(S) \in S
<1> DEFINE R == OpToRel(<, Nat)
           T == {i \in Nat : i <= n /\ n - i \in S}
<1>1. T \subseteq Nat /\ T # {}
  <2>1. PICK e \in S : TRUE
    OBVIOUS
  <2>2. n - e \in T
    BY <2>1
  <2>3. QED
    BY <2>2
<1>2. IsWellFoundedOn(R, Nat)
  BY NatLessThanWellFounded
<1>3. PICK i \in T : \A j \in T : ~ (<<j, i>> \in R)
  <2> HIDE DEF R, T
  <2>1. QED
    BY <1>1, <1>2, WFMin, Zenon
<1>4. \A j \in T : ~ (j < i)
  BY <1>1, <1>3 DEF OpToRel
<1>5. \A e \in S : n - i >= e
  <2>1. TAKE e \in S
  <2>2. n - e \in T
    BY <2>1
  <2>3. QED
    BY <1>4, <2>1, <2>2
<1>6. QED
  BY <1>3, <1>5 DEF Max

LEMMA EventFacts ==
  ASSUME TypeOK
  PROVE  /\ events \in Seq(Statuses) /\ Len(events) \in Nat
         /\ DOMAIN events = 1..Len(events)
         /\ \A e \in DOMAIN events : events[e] \in Statuses
BY LenProperties, ElementOfSeq DEF TypeOK

LEMMA NewestKnown ==
  ASSUME TypeOK
  PROVE  NewestReusable \in DOMAIN events \cup {0}
<1> DEFINE S == {e \in DOMAIN events : events[e] # "CLOSED"}
<1>1. S \in SUBSET (1..Len(events)) /\ Len(events) \in Nat
  BY EventFacts
<1>2. S # {} => Max(S) \in S
  <2> HIDE DEF S
  <2>1. QED
    BY <1>1, NewestExists
<1>3. QED
  BY <1>2 DEF NewestReusable

\* Overwriting one event keeps the numbering.
LEMMA EventSet ==
  ASSUME TypeOK, NEW e \in DOMAIN events, NEW s \in Statuses,
         events' = [events EXCEPT ![e] = s]
  PROVE  /\ events' \in Seq(Statuses) /\ Len(events') = Len(events)
         /\ DOMAIN events' = DOMAIN events
BY EventFacts, ExceptSeq

LEMMA EventAdded ==
  ASSUME TypeOK, NEW s \in Statuses, Insert(s)
  PROVE  /\ events' \in Seq(Statuses) /\ Len(events') <= MaxEvents
         /\ Len(events') = Len(events) + 1
         /\ DOMAIN events' = DOMAIN events \cup {Len(events) + 1}
         /\ Len(events) + 1 \notin DOMAIN events
         /\ \A e \in DOMAIN events : events'[e] = events[e]
         /\ events'[Len(events) + 1] = s
         /\ recent' \in 0..Len(events')
<1>1. /\ events' \in Seq(Statuses) /\ Len(events') = Len(events) + 1
      /\ events'[Len(events) + 1] = s
      /\ \A e \in 1..Len(events) : events'[e] = events[e]
  BY EventFacts, AppendProperties DEF Insert
<1>2. DOMAIN events' = 1..(Len(events) + 1)
  BY <1>1, LenProperties
<1>3. recent \in 0..Len(events) /\ recent' = recent + 1
  BY DEF Insert, TypeOK
<1>4. Len(events) + 1 <= MaxEvents
  BY EventFacts, RiskAssumption DEF Insert
<1>5. QED
  BY <1>1, <1>2, <1>3, <1>4, EventFacts

LEMMA NoCallFacts == NoCall \in Call /\ ReadyCall(NoCall) /\ Owed(NoCall) = {}
                     /\ ~Watching(NoCall) /\ ~FoundFailed(NoCall)
BY DEF NoCall, Call, ReadyCall, Owed, Watching, Judging, FoundFailed, Statuses, Unread

LEMMA AlertFacts ==
  ASSUME NEW e \in Nat, NEW status \in {"FIX_QUEUED", "FAILED_MANUAL"}, NEW before
  PROVE  /\ EventAlerts(e, status, before) \in SUBSET Alerts
         /\ \A a \in EventAlerts(e, status, before) : a.event = e
         /\ status = "FAILED_MANUAL" /\ before # "FAILED_MANUAL"
              => ManualAlert(e) \in EventAlerts(e, status, before)
         /\ before = "none" => \/ DetectedAlert(e) \in EventAlerts(e, status, before)
                               \/ ManualAlert(e) \in EventAlerts(e, status, before)
BY DEF EventAlerts, Alerts, ManualAlert, DetectedAlert
-----------------------------------------------------------------------------
(* What every step of a call keeps.                                        *)

LEMMA CallMoved ==
  ASSUME TypeOK, NEW c \in Callers, NEW k \in Call, Doing(c, k),
         DOMAIN events \subseteq DOMAIN events', k.event \in DOMAIN events' \cup {0},
         \A a \in k.alerts : a.event \in DOMAIN events'
  PROVE  /\ call' \in [Callers -> Call]
         /\ \A d \in Callers : call'[d].event \in DOMAIN events' \cup {0}
         /\ \A d \in Callers : \A a \in call'[d].alerts : a.event \in DOMAIN events'
<1>1. call \in [Callers -> Call] /\ call' \in [Callers -> Call]
  BY DEF TypeOK, Doing
<1>2. \A d \in Callers : call'[d] = IF d = c THEN k ELSE call[d]
  BY <1>1 DEF Doing
<1>3. \A d \in Callers : /\ call[d].event \in DOMAIN events \cup {0}
                         /\ \A a \in call[d].alerts : a.event \in DOMAIN events
  BY DEF TypeOK
<1>4. QED
  BY <1>1, <1>2, <1>3

\* What was owed is sent, lost or still owed.
Keeps(c, k) == /\ log \subseteq log' /\ lost \subseteq lost'
               /\ Owed(call[c]) \subseteq Owed(k) \cup log' \cup lost'

LEMMA SentStays ==
  ASSUME TypeOK, NEW c \in Callers, NEW k \in Call, Doing(c, k), Keeps(c, k)
  PROVE  /\ \A a : Sent(a) => Sent(a)'
         /\ \A a \in Owed(k) : Sent(a)'
<1>1. \A d \in Callers : call'[d] = IF d = c THEN k ELSE call[d]
  BY DEF TypeOK, Doing
<1>2. ASSUME NEW a, NEW d \in Callers, a \in Owed(call[d])
      PROVE  a \in log' \cup lost' \cup OnTheWay'
  BY <1>1, <1>2 DEF Keeps, OnTheWay
<1>3. \A a \in Owed(k) : a \in OnTheWay'
  BY <1>1 DEF OnTheWay
<1>4. \A a : Sent(a) => Sent(a)'
  BY <1>2 DEF Sent, OnTheWay, Keeps
<1>5. QED
  BY <1>3, <1>4 DEF Sent

\* A call that learns nothing it may not learn, and stops watching a burst only
\* once its alert is due, keeps the strengthening.
Learns(c, k) ==
  /\ ReadyCall(k)
  /\ k.level = "HIGH" => call[c].level = "HIGH" \/ Sent(HighAlert)
  /\ FoundFailed(k) => Sent(ManualAlert(k.event))
  /\ Watching(call[c]) /\ recent >= HighThreshold =>
       Watching(k) \/ Sent(HighAlert) \/ HighAlert \in Owed(k) \cup lost'
  /\ recent' <= recent \/ Watching(k)

LEMMA StaysWatched ==
  ASSUME TypeOK, Watched, NEW c \in Callers, NEW k \in Call, Doing(c, k), Keeps(c, k),
         Learns(c, k), recent' \in Nat
  PROVE  Watched'
<1>1. \A d \in Callers : call'[d] = IF d = c THEN k ELSE call[d]
  BY DEF TypeOK, Doing
<1>2. /\ \A a : Sent(a) => Sent(a)'
      /\ \A a \in Owed(k) : Sent(a)'
  BY SentStays
<1>3. HighAlert \in lost' => Sent(HighAlert)'
  BY DEF Sent, HighAlert
<1>4. recent \in Nat /\ HighThreshold \in Nat
  BY RiskAssumption DEF TypeOK
<1>5. Ready'
  BY <1>1 DEF Watched, Ready, Learns
<1>6. HighSeen'
  <2>1. SUFFICES ASSUME NEW d \in Callers, call'[d].level = "HIGH" PROVE Sent(HighAlert)'
    BY DEF HighSeen, HighAlert
  <2>2. Sent(HighAlert)
    BY <1>1, <2>1 DEF Watched, HighSeen, Learns
  <2>3. QED
    BY <1>2, <2>2
<1>7. FailedSeen'
  <2>1. SUFFICES ASSUME NEW d \in Callers, FoundFailed(call[d])'
                 PROVE  Sent(ManualAlert(call[d].event))'
    BY DEF FailedSeen
  <2>2. FoundFailed(call'[d])
    BY <2>1 DEF FoundFailed
  <2>3. Sent(ManualAlert(call'[d].event))
    BY <1>1, <2>2 DEF Watched, FailedSeen, Learns
  <2>4. ManualAlert(call'[d].event) \in log' \cup lost' \cup OnTheWay'
    BY <1>2, <2>3 DEF Sent
  <2>5. QED
    BY <2>4 DEF Sent, ManualAlert
<1>8. BurstWatched'
  <2>1. SUFFICES ASSUME recent' >= HighThreshold, ~Sent(HighAlert)'
                 PROVE  \E d \in Callers : Watching(call'[d])
    BY DEF BurstWatched, Watching, Judging, HighAlert
  <2>2. CASE Watching(k)
    BY <1>1, <2>2
  <2>3. CASE ~Watching(k)
    <3>1. recent >= HighThreshold /\ ~Sent(HighAlert)
      BY <1>2, <1>4, <2>1, <2>3 DEF Learns
    <3>2. PICK d \in Callers : Watching(call[d])
      BY <3>1 DEF Watched, BurstWatched
    <3>3. d # c
      BY <1>2, <1>3, <2>1, <2>3, <3>1, <3>2 DEF Learns
    <3>4. QED
      BY <1>1, <3>2, <3>3
  <2>4. QED
    BY <2>2, <2>3
<1>9. QED
  BY <1>5, <1>6, <1>7, <1>8 DEF Watched

\* The events and the snapshot a step leaves are announced by alerts that have been
\* sent or that the call now owes.
Tells(k) ==
  /\ silent \subseteq silent'
  /\ \A e \in DOMAIN events' \ (DOMAIN events \cup silent') :
       DetectedAlert(e) \in Owed(k) \/ ManualAlert(e) \in Owed(k)
  /\ \A e \in DOMAIN events' : events'[e] = "FAILED_MANUAL" =>
       \/ e \in DOMAIN events /\ events[e] = "FAILED_MANUAL"
       \/ ManualAlert(e) \in Owed(k) \/ Sent(ManualAlert(e))
  /\ snapshot' >= HighThreshold =>
       snapshot >= HighThreshold \/ HighAlert \in Owed(k) \/ Sent(HighAlert)

LEMMA StaysAlerted ==
  ASSUME TypeOK, Alerted, NEW c \in Callers, NEW k \in Call, Doing(c, k), Keeps(c, k),
         Tells(k)
  PROVE  Alerted'
<1>1. /\ \A a : Sent(a) => Sent(a)'
      /\ \A a \in Owed(k) : Sent(a)'
  BY SentStays
<1>2. HighRiskAlerted'
  <2>1. SUFFICES ASSUME snapshot' >= HighThreshold PROVE Sent(HighAlert)'
    BY DEF HighRiskAlerted, HighAlert
  <2>2. Sent(HighAlert) \/ HighAlert \in Owed(k)
    BY <2>1 DEF Tells, Alerted, HighRiskAlerted
  <2>3. QED
    BY <1>1, <2>2
<1>3. ManualAlerted'
  <2>1. SUFFICES ASSUME NEW e \in DOMAIN events', events'[e] = "FAILED_MANUAL"
                 PROVE  Sent(ManualAlert(e))'
    BY DEF ManualAlerted
  <2>2. Sent(ManualAlert(e)) \/ ManualAlert(e) \in Owed(k)
    BY <2>1 DEF Tells, Alerted, ManualAlerted
  <2>3. QED
    BY <1>1, <2>2
<1>4. EventsAnnounced'
  <2>1. SUFFICES ASSUME NEW e \in DOMAIN events' \ silent'
                 PROVE  Sent(DetectedAlert(e))' \/ Sent(ManualAlert(e))'
    BY DEF EventsAnnounced
  <2>2. \/ Sent(DetectedAlert(e)) \/ Sent(ManualAlert(e))
        \/ DetectedAlert(e) \in Owed(k) \/ ManualAlert(e) \in Owed(k)
    BY <2>1 DEF Tells, Alerted, EventsAnnounced
  <2>3. QED
    BY <1>1, <2>2
<1>5. QED
  BY <1>2, <1>3, <1>4 DEF Alerted

LEMMA CallStep ==
  ASSUME IInv, NEW c \in Callers, NEW k \in Call, Doing(c, k),
         events' \in Seq(Statuses), Len(events') <= MaxEvents,
         DOMAIN events \subseteq DOMAIN events', recent' \in 0..Len(events'),
         snapshot' \in Nat, log' \subseteq Alerts, lost' \subseteq Alerts, budget' \in Nat,
         silent' \subseteq DOMAIN events',
         k.event \in DOMAIN events' \cup {0}, \A a \in k.alerts : a.event \in DOMAIN events',
         Keeps(c, k), Learns(c, k), Tells(k)
  PROVE  IInv'
<1>1. TypeOK'
  BY CallMoved DEF IInv, TypeOK
<1>2. recent' \in Nat
  BY <1>1, EventFacts, LenProperties DEF TypeOK
<1>3. Watched'
  BY <1>2, StaysWatched DEF IInv
<1>4. Alerted'
  BY StaysAlerted DEF IInv
<1>5. QED
  BY <1>1, <1>3, <1>4 DEF IInv

\* A step that neither writes an event nor the snapshot.
LEMMA QuietStep ==
  ASSUME IInv, NEW c \in Callers, NEW k \in Call, Doing(c, k),
         UNCHANGED <<events, recent, snapshot, silent>>,
         log' \subseteq Alerts, lost' \subseteq Alerts, budget' \in Nat,
         k.event \in DOMAIN events \cup {0}, \A a \in k.alerts : a.event \in DOMAIN events,
         Keeps(c, k), Learns(c, k)
  PROVE  IInv'
<1>1. /\ events' \in Seq(Statuses) /\ Len(events') <= MaxEvents
      /\ recent' \in 0..Len(events') /\ snapshot' \in Nat
  BY DEF IInv, TypeOK
<1>2. Tells(k)
  BY DEF Tells
<1>3. DOMAIN events' = DOMAIN events /\ silent' \subseteq DOMAIN events'
  BY DEF IInv, TypeOK
<1>4. QED
  BY <1>1, <1>2, <1>3, CallStep

-----------------------------------------------------------------------------
(* One lemma per action.                                                   *)

LEMMA CallFacts ==
  ASSUME TypeOK, NEW c \in Callers
  PROVE  /\ call[c] \in Call /\ DOMAIN events \subseteq Nat
         /\ call[c].event \in DOMAIN events \cup {0}
         /\ \A a \in call[c].alerts : a.event \in DOMAIN events
         /\ call[c].alerts \subseteq Alerts /\ call[c].event \in Nat
         /\ log \subseteq Alerts /\ lost \subseteq Alerts
<1>1. DOMAIN events = 1..Len(events) /\ Len(events) \in Nat
  BY EventFacts
<1>2. DOMAIN events \subseteq Nat
  BY <1>1
<1>3. call[c] \in Call
  BY DEF TypeOK
<1>4. call[c].alerts \subseteq Alerts /\ call[c].event \in Nat
  BY <1>3 DEF Call
<1>5. QED
  BY <1>2, <1>3, <1>4 DEF TypeOK

LEMMA SpendFacts ==
  ASSUME TypeOK, NEW what, Spend(what)
  PROVE  budget' \in Nat
<1>1. Cost[what] \in Nat
  BY RiskAssumption DEF Spend
<1>2. budget \in Nat /\ Cost[what] <= budget /\ budget' = budget - Cost[what]
  BY DEF TypeOK, Spend
<1>3. QED
  BY <1>1, <1>2

\* A fresh call that is about to look for an event.
Seeking(status, guarded) ==
  [NoCall EXCEPT !.pc = "find", !.status = status, !.guarded = guarded]

LEMMA SeekingFacts ==
  ASSUME NEW status \in {"FIX_QUEUED", "FAILED_MANUAL"}, NEW guarded \in BOOLEAN
  PROVE  LET k == Seeking(status, guarded)
         IN  /\ k \in Call /\ ReadyCall(k) /\ Owed(k) = {} /\ k.event = 0 /\ k.alerts = {}
             /\ k.level = "unread" /\ ~FoundFailed(k)
BY DEF Seeking, NoCall, Call, ReadyCall, Owed, FoundFailed, Statuses, Unread

LEMMA ReportStep ==
  ASSUME IInv, NEW c \in Callers, NEW status \in {"FIX_QUEUED", "FAILED_MANUAL"},
         Report(c, status)
  PROVE  IInv'
<1> DEFINE k == Seeking(status, status = "FIX_QUEUED")
<1>1. /\ k \in Call /\ ReadyCall(k) /\ Owed(k) = {} /\ k.event = 0 /\ k.alerts = {}
      /\ k.level = "unread" /\ ~FoundFailed(k)
  BY SeekingFacts
<1>2. Doing(c, k)
  BY DEF Report, Seeking
<1>3. call[c] = NoCall /\ UNCHANGED <<events, recent, snapshot, log, lost, silent, budget>>
  BY DEF Report
<1> HIDE DEF k
<1>4. Keeps(c, k)
  BY <1>3, NoCallFacts DEF Keeps
<1>5. Learns(c, k)
  BY <1>1, <1>3, NoCallFacts DEF Learns, IInv, TypeOK
<1>6. budget' \in Nat /\ log' \subseteq Alerts /\ lost' \subseteq Alerts
  BY <1>3 DEF IInv, TypeOK
<1>7. QED
  BY <1>1, <1>2, <1>3, <1>4, <1>5, <1>6, QuietStep

\* A call ends, or starts again as a report of its failure, once its alerts are
\* sent or lost.
LEMMA EndStep ==
  ASSUME IInv, NEW c \in Callers, UNCHANGED <<events, recent, snapshot, silent>>,
         Doing(c, NoCall) \/ Caught(c), budget' \in Nat,
         log \subseteq log', lost \subseteq lost', log' \subseteq Alerts, lost' \subseteq Alerts,
         Owed(call[c]) \subseteq log' \cup lost',
         Watching(call[c]) /\ recent >= HighThreshold => Sent(HighAlert) \/ HighAlert \in lost'
  PROVE  IInv'
<1>1. PICK k \in {NoCall, Seeking("FAILED_MANUAL", FALSE)} : Doing(c, k)
  <2>1. NoCall.guarded = FALSE
    BY DEF NoCall
  <2>2. QED
    BY <2>1 DEF Caught, Seeking, NoCall
<1>2. /\ k \in Call /\ ReadyCall(k) /\ Owed(k) = {} /\ k.event = 0 /\ k.alerts = {}
      /\ k.level = "unread" /\ ~FoundFailed(k)
  <2>1. CASE k = NoCall
    BY <2>1, NoCallFacts DEF NoCall
  <2>2. CASE k = Seeking("FAILED_MANUAL", FALSE)
    BY <2>2, SeekingFacts
  <2>3. QED
    BY <1>1, <2>1, <2>2
<1>3. Keeps(c, k)
  BY <1>2 DEF Keeps
<1>4. Learns(c, k)
  BY <1>2 DEF Learns, IInv, TypeOK
<1>5. QED
  BY <1>1, <1>2, <1>3, <1>4, QuietStep

LEMMA FindStep ==
  ASSUME IInv, NEW c \in Callers, FindReusable(c)
  PROVE  IInv'
<1> DEFINE e == NewestReusable
           before == IF e = 0 THEN "none" ELSE events[e]
           k == [call[c] EXCEPT !.pc = "write", !.event = e, !.before = before]
<1>1. /\ call[c].pc = "find" /\ UNCHANGED <<events, recent, snapshot, log, lost, silent, budget>>
      /\ Caught(c) \/ Doing(c, k)
  BY DEF FindReusable
<1>2. /\ call[c] \in Call /\ call[c].alerts = {}
      /\ call[c].status \in {"FIX_QUEUED", "FAILED_MANUAL"}
      /\ call[c].level = "HIGH" => Sent(HighAlert)
  BY <1>1, CallFacts DEF IInv, Watched, Ready, ReadyCall, HighSeen
<1>3. Owed(call[c]) = {} /\ ~Watching(call[c])
  BY <1>1, <1>2 DEF Owed, Watching, Judging
<1>4. budget' \in Nat /\ log' \subseteq Alerts /\ lost' \subseteq Alerts
  BY <1>1 DEF IInv, TypeOK
<1>5. CASE Caught(c)
  BY <1>1, <1>3, <1>4, <1>5, EndStep
<1>6. CASE Doing(c, k)
  <2>1. e \in DOMAIN events \cup {0} /\ DOMAIN events \subseteq Nat
    BY NewestKnown, CallFacts DEF IInv
  <2>2. before \in Statuses \cup {"none"}
    BY <2>1, EventFacts DEF IInv
  <2>3. /\ k \in Call /\ k.pc = "write" /\ k.event = e /\ k.before = before
        /\ k.alerts = {} /\ k.level = call[c].level /\ k.status = call[c].status
    <3> HIDE DEF e, before
    <3>1. e \in Nat
      BY <2>1
    <3>2. QED
      BY <1>2, <2>2, <3>1 DEF Call
  <2>4. e # 0 /\ before = "FAILED_MANUAL" => Sent(ManualAlert(e))
    BY <2>1 DEF IInv, Alerted, ManualAlerted
  <2> HIDE DEF k, e, before
  <2>5. Keeps(c, k)
    BY <1>1, <1>3 DEF Keeps
  <2>6. Learns(c, k)
    BY <1>1, <1>2, <1>3, <2>3, <2>4 DEF Learns, ReadyCall, FoundFailed, IInv, TypeOK
  <2>7. QED
    BY <1>1, <1>4, <1>6, <2>1, <2>3, <2>5, <2>6, QuietStep
<1>7. QED
  BY <1>1, <1>5, <1>6

\* A call that has written an event.
Writer(guarded, alerts, new) ==
  [NoCall EXCEPT !.pc = "refresh", !.guarded = guarded, !.alerts = alerts, !.new = new]

LEMMA WriterFacts ==
  ASSUME NEW guarded \in BOOLEAN, NEW alerts \in SUBSET Alerts, NEW new \in BOOLEAN
  PROVE  LET k == Writer(guarded, alerts, new)
         IN  /\ k \in Call /\ ReadyCall(k) /\ k.event = 0 /\ k.level = "unread"
             /\ ~FoundFailed(k) /\ Owed(k) = k.alerts /\ k.alerts = alerts
             /\ new => Watching(k)
BY DEF Writer, NoCall, Call, ReadyCall, FoundFailed, Owed, Watching, Judging, Statuses,
       Unread

LEMMA UpdateStep ==
  ASSUME IInv, NEW c \in Callers, UpdateDrift(c)
  PROVE  IInv'
<1> DEFINE e == call[c].event
           status == call[c].status
           before == call[c].before
           alerts == EventAlerts(e, status, before)
           k == Writer(call[c].guarded, alerts, FALSE)
<1>1. /\ call[c].pc = "write" /\ e # 0
      /\ UNCHANGED <<recent, snapshot, log, lost, silent, budget>>
      /\ \/ events' = [events EXCEPT ![e] = status] /\ Doing(c, k)
         \/ UNCHANGED events /\ Caught(c)
  BY DEF UpdateDrift, Written, Writer
<1>2. /\ call[c] \in Call /\ call[c].alerts = {} /\ e \in DOMAIN events /\ e \in Nat
      /\ status \in {"FIX_QUEUED", "FAILED_MANUAL"}
      /\ before = "FAILED_MANUAL" => Sent(ManualAlert(e))
  BY <1>1, CallFacts DEF IInv, Watched, Ready, ReadyCall, FailedSeen, FoundFailed
<1>3. Owed(call[c]) = {} /\ ~Watching(call[c])
  BY <1>1, <1>2 DEF Owed, Watching, Judging
<1>4. budget' \in Nat /\ log' \subseteq Alerts /\ lost' \subseteq Alerts
  BY <1>1 DEF IInv, TypeOK
<1>5. CASE UNCHANGED events /\ Caught(c)
  BY <1>1, <1>3, <1>4, <1>5, EndStep
<1>6. CASE events' = [events EXCEPT ![e] = status] /\ Doing(c, k)
  <2>0. call[c].guarded \in BOOLEAN
    BY <1>2 DEF Call
  <2>1. /\ alerts \in SUBSET Alerts /\ \A a \in alerts : a.event = e
        /\ status = "FAILED_MANUAL" /\ before # "FAILED_MANUAL" => ManualAlert(e) \in alerts
    BY <1>2, AlertFacts
  <2>2. /\ k \in Call /\ ReadyCall(k) /\ k.event = 0 /\ k.level = "unread"
        /\ ~FoundFailed(k) /\ Owed(k) = k.alerts /\ k.alerts = alerts
    <3> HIDE DEF alerts
    <3>1. QED
      BY <2>0, <2>1, WriterFacts
  <2>3. /\ events' \in Seq(Statuses) /\ Len(events') = Len(events)
        /\ DOMAIN events' = DOMAIN events
    BY <1>2, <1>6, EventSet DEF IInv, Statuses
  <2>4. \A f \in DOMAIN events : events'[f] = IF f = e THEN status ELSE events[f]
    BY <1>6, EventFacts DEF IInv
  <2> HIDE DEF k, e, status, before, alerts
  <2>5. Keeps(c, k)
    BY <1>1, <1>3 DEF Keeps
  <2>6. Learns(c, k)
    BY <1>1, <1>3, <2>2 DEF Learns, IInv, TypeOK
  <2>7. Tells(k)
    BY <1>1, <1>2, <2>1, <2>2, <2>3, <2>4 DEF Tells
  <2>8. /\ Len(events') <= MaxEvents /\ recent' \in 0..Len(events') /\ snapshot' \in Nat
        /\ silent' \subseteq DOMAIN events'
    BY <1>1, <2>3 DEF IInv, TypeOK
  <2>9. QED
    BY <1>1, <1>2, <1>4, <1>6, <2>1, <2>2, <2>3, <2>5, <2>6, <2>7, <2>8, CallStep
<1>7. QED
  BY <1>1, <1>5, <1>6

\* A new event and its call.
LEMMA InsertStep ==
  ASSUME IInv, NEW c \in Callers, NEW guarded \in BOOLEAN, NEW status \in Statuses,
         NEW alerts \in SUBSET Alerts, Insert(status),
         Doing(c, Writer(guarded, alerts, TRUE)), Owed(call[c]) = {},
         UNCHANGED <<snapshot, log, lost>>, budget' \in Nat,
         NEW e, e = Len(events) + 1,
         \A a \in alerts : a.event = e,
         status = "FAILED_MANUAL" => ManualAlert(e) \in alerts,
         e \in silent' \/ DetectedAlert(e) \in alerts \/ ManualAlert(e) \in alerts,
         silent \subseteq silent', silent' \subseteq silent \cup {e}
  PROVE  IInv'
<1> DEFINE k == Writer(guarded, alerts, TRUE)
<1>1. /\ k \in Call /\ ReadyCall(k) /\ k.event = 0 /\ k.level = "unread"
      /\ ~FoundFailed(k) /\ Owed(k) = k.alerts /\ k.alerts = alerts /\ Watching(k)
  BY WriterFacts
<1>2. /\ events' \in Seq(Statuses) /\ Len(events') <= MaxEvents
      /\ DOMAIN events' = DOMAIN events \cup {e}
      /\ \A f \in DOMAIN events : events'[f] = events[f]
      /\ events'[e] = status /\ recent' \in 0..Len(events')
  BY EventAdded DEF IInv
<1>3. Doing(c, k)
  OBVIOUS
<1> HIDE DEF k
<1>4. Keeps(c, k)
  BY DEF Keeps
<1>5. Learns(c, k)
  BY <1>1 DEF Learns
<1>6. Tells(k)
  BY <1>1, <1>2 DEF Tells
<1>7. /\ snapshot' \in Nat /\ log' \subseteq Alerts /\ lost' \subseteq Alerts
      /\ silent' \subseteq DOMAIN events'
  BY <1>2 DEF IInv, TypeOK
<1>8. QED
  BY <1>1, <1>2, <1>3, <1>4, <1>5, <1>6, <1>7, CallStep

LEMMA CreateStep ==
  ASSUME IInv, NEW c \in Callers, CreateDrift(c)
  PROVE  IInv'
<1> DEFINE k == [call[c] EXCEPT !.pc = "find", !.again = TRUE]
           e == Len(events) + 1
           alerts == EventAlerts(e, call[c].status, "none")
<1>1. /\ call[c].pc = "write" /\ call[c].event = 0
      /\ UNCHANGED <<snapshot, log, lost, silent, budget>>
      /\ \/ Doing(c, k) /\ UNCHANGED <<events, recent>>
         \/ /\ Insert(call[c].status)
            /\ Doing(c, Writer(call[c].guarded, alerts, TRUE))
  BY DEF CreateDrift, Written, Writer
<1>2. /\ call[c] \in Call /\ call[c].alerts = {}
      /\ call[c].status \in {"FIX_QUEUED", "FAILED_MANUAL"}
      /\ call[c].level = "HIGH" => Sent(HighAlert)
  BY <1>1, CallFacts DEF IInv, Watched, Ready, ReadyCall, HighSeen
<1>3. Owed(call[c]) = {} /\ ~Watching(call[c])
  BY <1>1, <1>2 DEF Owed, Watching, Judging
<1>4. CASE Doing(c, k) /\ UNCHANGED <<events, recent>>
  <2>1. /\ k \in Call /\ k.pc = "find" /\ k.event = 0 /\ k.alerts = {}
        /\ k.level = call[c].level /\ k.status = call[c].status
    BY <1>1, <1>2 DEF Call
  <2> HIDE DEF k
  <2>2. Keeps(c, k)
    BY <1>1, <1>3 DEF Keeps
  <2>3. Learns(c, k)
    BY <1>2, <1>3, <1>4, <2>1 DEF Learns, ReadyCall, FoundFailed, IInv, TypeOK
  <2>4. budget' \in Nat /\ log' \subseteq Alerts /\ lost' \subseteq Alerts
    BY <1>1 DEF IInv, TypeOK
  <2>5. QED
    BY <1>1, <1>4, <2>1, <2>2, <2>3, <2>4, QuietStep
<1>5. CASE /\ Insert(call[c].status)
           /\ Doing(c, Writer(call[c].guarded, alerts, TRUE))
  <2>1. call[c].guarded \in BOOLEAN /\ call[c].status \in Statuses /\ e \in Nat
    BY <1>2, EventFacts DEF Call, IInv
  <2>2. /\ alerts \in SUBSET Alerts /\ \A a \in alerts : a.event = e
        /\ call[c].status = "FAILED_MANUAL" => ManualAlert(e) \in alerts
        /\ DetectedAlert(e) \in alerts \/ ManualAlert(e) \in alerts
    BY <1>2, <2>1, AlertFacts
  <2>3. /\ UNCHANGED <<snapshot, log, lost>> /\ silent' = silent /\ budget' \in Nat
    BY <1>1 DEF IInv, TypeOK
  <2> HIDE DEF alerts
  <2>4. QED
    BY <1>3, <1>5, <2>1, <2>2, <2>3, InsertStep
<1>6. QED
  BY <1>1, <1>4, <1>5

LEMMA PostStep ==
  ASSUME IInv, NEW c \in Callers, NEW status \in Statuses, CreateEvent(c, status)
  PROVE  IInv'
<1> DEFINE e == Len(events) + 1
           guarded == NoCall.guarded
<1>1. guarded \in BOOLEAN /\ e \in Nat
  BY EventFacts DEF NoCall, IInv
<1>2. PICK alerts \in PostAlerts(e, status) :
        /\ Written(c, alerts, TRUE)
        /\ IF alerts = {} THEN Spend("silence") /\ silent' = silent \cup {e}
                          ELSE UNCHANGED <<silent, budget>>
  BY DEF CreateEvent
<1>3. /\ call[c] = NoCall /\ Insert(status) /\ UNCHANGED <<snapshot, log, lost>>
      /\ Doing(c, Writer(guarded, alerts, TRUE))
  BY <1>1, <1>2 DEF CreateEvent, Written, Writer
<1>4. /\ alerts \in SUBSET Alerts /\ \A a \in alerts : a.event = e
      /\ status = "FAILED_MANUAL" => ManualAlert(e) \in alerts
      /\ alerts = {} \/ DetectedAlert(e) \in alerts \/ ManualAlert(e) \in alerts
  BY <1>1, <1>2 DEF PostAlerts, Alerts, DetectedAlert, ManualAlert
<1>5. /\ silent \subseteq silent' /\ silent' \subseteq silent \cup {e}
      /\ alerts = {} => e \in silent'
      /\ budget' \in Nat
  BY <1>2, SpendFacts DEF IInv, TypeOK
<1>6. /\ Owed(call[c]) = {} /\ e = Len(events) + 1
      /\ e \in silent' \/ DetectedAlert(e) \in alerts \/ ManualAlert(e) \in alerts
  BY <1>3, <1>4, <1>5, NoCallFacts
<1> HIDE DEF guarded
<1>7. /\ guarded \in BOOLEAN /\ status \in Statuses /\ alerts \in SUBSET Alerts
      /\ Insert(status) /\ Doing(c, Writer(guarded, alerts, TRUE))
      /\ Owed(call[c]) = {} /\ UNCHANGED <<snapshot, log, lost>> /\ budget' \in Nat
  BY <1>1, <1>3, <1>4, <1>5, <1>6
<1>8. /\ e = Len(events) + 1 /\ \A a \in alerts : a.event = e
      /\ status = "FAILED_MANUAL" => ManualAlert(e) \in alerts
      /\ e \in silent' \/ DetectedAlert(e) \in alerts \/ ManualAlert(e) \in alerts
      /\ silent \subseteq silent' /\ silent' \subseteq silent \cup {e}
  BY <1>4, <1>5, <1>6
<1>9. QED
  BY <1>1, <1>7, <1>8, InsertStep

LEMMA FixFailsStep ==
  ASSUME IInv, NEW c \in Callers, NEW e \in 1..MaxEvents, FixFails(c, e)
  PROVE  IInv'
<1> DEFINE k == [NoCall EXCEPT !.pc = "alert", !.alerts = {ManualAlert(e)}]
<1>1. /\ call[c] = NoCall /\ e \in DOMAIN events /\ Doing(c, k)
      /\ events' = [events EXCEPT ![e] = "FAILED_MANUAL"]
      /\ UNCHANGED <<recent, snapshot, log, lost, silent>> /\ budget' \in Nat
  BY SpendFacts DEF FixFails, IInv, TypeOK
<1>2. {ManualAlert(e)} \in SUBSET Alerts /\ ManualAlert(e).event = e
  BY RiskAssumption DEF ManualAlert, Alerts
<1>3. /\ k \in Call /\ ReadyCall(k) /\ k.event = 0 /\ k.level = "unread"
      /\ ~FoundFailed(k) /\ Owed(k) = k.alerts /\ k.alerts = {ManualAlert(e)}
  <2> DEFINE alerts == {ManualAlert(e)}
  <2> HIDE DEF alerts
  <2>1. alerts \in SUBSET Alerts
    BY <1>2 DEF alerts
  <2>2. k = [NoCall EXCEPT !.pc = "alert", !.alerts = alerts]
    BY DEF alerts
  <2> HIDE DEF k
  <2>3. /\ k \in Call /\ ReadyCall(k) /\ k.event = 0 /\ k.level = "unread"
        /\ ~FoundFailed(k) /\ Owed(k) = k.alerts /\ k.alerts = alerts
    BY <2>1, <2>2 DEF NoCall, Call, ReadyCall, FoundFailed, Owed, Statuses, Unread
  <2>4. QED
    BY <2>3 DEF alerts
<1>4. /\ events' \in Seq(Statuses) /\ Len(events') = Len(events)
      /\ DOMAIN events' = DOMAIN events
  BY <1>1, EventSet DEF IInv, Statuses
<1>5. \A f \in DOMAIN events : events'[f] = IF f = e THEN "FAILED_MANUAL" ELSE events[f]
  BY <1>1, EventFacts DEF IInv
<1> HIDE DEF k
<1>6. Keeps(c, k)
  BY <1>1, NoCallFacts DEF Keeps
<1>7. Learns(c, k)
  BY <1>1, <1>3, NoCallFacts DEF Learns, IInv, TypeOK
<1>8. Tells(k)
  BY <1>1, <1>3, <1>4, <1>5 DEF Tells
<1>9. /\ Len(events') <= MaxEvents /\ recent' \in 0..Len(events') /\ snapshot' \in Nat
      /\ budget' \in Nat /\ log' \subseteq Alerts /\ lost' \subseteq Alerts
      /\ silent' \subseteq DOMAIN events'
  BY <1>1, <1>4 DEF IInv, TypeOK
<1>10. QED
  BY <1>1, <1>2, <1>3, <1>4, <1>6, <1>7, <1>8, <1>9, CallStep

LEMMA ReadLevelStep ==
  ASSUME IInv, NEW c \in Callers, ReadLevel(c)
  PROVE  IInv'
<1> DEFINE level == LevelForCount(snapshot)
           k == [call[c] EXCEPT !.level = level]
<1>1. /\ call[c].pc = "refresh" /\ Doing(c, k)
      /\ UNCHANGED <<events, recent, snapshot, log, lost, silent, budget>>
  BY DEF ReadLevel
<1>2. level \in {"LOW", "MEDIUM", "HIGH"} /\ (level = "HIGH" => Sent(HighAlert))
  BY RiskAssumption DEF LevelForCount, IInv, Alerted, HighRiskAlerted, TypeOK
<1> HIDE DEF level
<1>3. /\ k \in Call /\ k.pc = "refresh" /\ k.event = call[c].event /\ k.level = level
      /\ k.alerts = call[c].alerts /\ k.new = call[c].new /\ k.count = call[c].count
  BY <1>1, <1>2, CallFacts DEF IInv, Call
<1> HIDE DEF k
<1>4. Owed(k) = Owed(call[c]) /\ (Watching(call[c]) => Watching(k))
  BY <1>1, <1>3 DEF Owed, Watching, Judging
<1>5. Keeps(c, k)
  BY <1>1, <1>4 DEF Keeps
<1>6. Learns(c, k)
  BY <1>1, <1>2, <1>3, <1>4 DEF Learns, ReadyCall, FoundFailed, IInv, TypeOK
<1>7. budget' \in Nat /\ log' \subseteq Alerts /\ lost' \subseteq Alerts
  BY <1>1 DEF IInv, TypeOK
<1>8. k.event \in DOMAIN events \cup {0} /\ \A a \in k.alerts : a.event \in DOMAIN events
  BY <1>3, CallFacts DEF IInv
<1>9. QED
  BY <1>1, <1>3, <1>5, <1>6, <1>7, <1>8, QuietStep

LEMMA ReadCountStep ==
  ASSUME IInv, NEW c \in Callers, ReadCount(c)
  PROVE  IInv'
<1> DEFINE k == [call[c] EXCEPT !.count = recent]
<1>1. /\ call[c].pc = "refresh" /\ Doing(c, k)
      /\ UNCHANGED <<events, recent, snapshot, log, lost, silent, budget>>
  BY DEF ReadCount
<1>2. recent \in Nat
  BY EventFacts DEF IInv, TypeOK
<1>3. /\ k \in Call /\ k.pc = "refresh" /\ k.event = call[c].event
      /\ k.level = call[c].level /\ k.count = recent
      /\ k.alerts = call[c].alerts /\ k.new = call[c].new
  BY <1>1, <1>2, CallFacts DEF IInv, Call
<1>4. call[c].level = "HIGH" => Sent(HighAlert)
  BY DEF IInv, Watched, HighSeen
<1> HIDE DEF k
<1>5. /\ Owed(k) = Owed(call[c])
      /\ Watching(call[c]) /\ recent >= HighThreshold => Watching(k)
  BY <1>1, <1>3 DEF Owed, Watching, Judging
<1>6. Keeps(c, k)
  BY <1>1, <1>5 DEF Keeps
<1>7. Learns(c, k)
  BY <1>1, <1>2, <1>3, <1>4, <1>5 DEF Learns, ReadyCall, FoundFailed
<1>8. budget' \in Nat /\ log' \subseteq Alerts /\ lost' \subseteq Alerts
  BY <1>1 DEF IInv, TypeOK
<1>9. k.event \in DOMAIN events \cup {0} /\ \A a \in k.alerts : a.event \in DOMAIN events
  BY <1>3, CallFacts DEF IInv
<1>10. QED
  BY <1>1, <1>3, <1>6, <1>7, <1>8, <1>9, QuietStep

\* A call that goes on to its alerts.
Sender(c, pc) == [NoCall EXCEPT !.pc = pc, !.guarded = call[c].guarded,
                                !.alerts = call[c].alerts]

LEMMA SenderFacts ==
  ASSUME TypeOK, NEW c \in Callers, NEW pc \in {"high", "alert"}
  PROVE  LET k == Sender(c, pc)
         IN  /\ k \in Call /\ ReadyCall(k) /\ k.event = 0 /\ k.level = "unread"
             /\ ~FoundFailed(k) /\ k.alerts = call[c].alerts
             /\ Owed(k) = call[c].alerts \cup IF pc = "high" THEN {HighAlert} ELSE {}
<1> DEFINE alerts == call[c].alerts
           guarded == call[c].guarded
<1>1. alerts \in SUBSET Alerts /\ guarded \in BOOLEAN
  BY CallFacts DEF Call
<1> HIDE DEF alerts, guarded
<1> DEFINE k == [NoCall EXCEPT !.pc = pc, !.guarded = guarded, !.alerts = alerts]
<1>2. /\ k \in Call /\ ReadyCall(k) /\ k.event = 0 /\ k.level = "unread"
      /\ ~FoundFailed(k) /\ k.alerts = alerts
      /\ Owed(k) = alerts \cup IF pc = "high" THEN {HighAlert} ELSE {}
  BY <1>1 DEF NoCall, Call, ReadyCall, FoundFailed, Owed, Statuses, Unread
<1>3. QED
  BY <1>2 DEF Sender, alerts, guarded

\* After the refresh the event's alerts are still owed, whichever way the call goes.
LEMMA AfterRefreshFacts ==
  ASSUME TypeOK, NEW c \in Callers, AfterRefresh(c)
  PROVE  \E k \in Call : /\ Doing(c, k) /\ ReadyCall(k) /\ k.event = 0
                         /\ k.level = "unread" /\ ~FoundFailed(k)
                         /\ k.alerts = call[c].alerts /\ Owed(k) = call[c].alerts
<1>1. CASE call[c].alerts = {}
  <2>1. Doing(c, NoCall)
    BY <1>1 DEF AfterRefresh
  <2>2. /\ NoCall.event = 0 /\ NoCall.level = "unread" /\ NoCall.alerts = {}
    BY DEF NoCall
  <2>3. QED
    BY <1>1, <2>1, <2>2, NoCallFacts
<1>2. CASE call[c].alerts # {}
  <2> DEFINE k == Sender(c, "alert")
  <2>1. Doing(c, k)
    BY <1>2 DEF AfterRefresh, Judged, Sender
  <2>2. /\ k \in Call /\ ReadyCall(k) /\ k.event = 0 /\ k.level = "unread"
        /\ ~FoundFailed(k) /\ k.alerts = call[c].alerts /\ Owed(k) = call[c].alerts
    BY SenderFacts
  <2> HIDE DEF k
  <2>3. QED
    BY <2>1, <2>2
<1>3. QED
  BY <1>1, <1>2

LEMMA UpsertStep ==
  ASSUME IInv, NEW c \in Callers, Upsert(c)
  PROVE  IInv'
<1> DEFINE n == call[c].count
           high == call[c].level # "HIGH" /\ LevelForCount(n) = "HIGH"
<1>1. /\ call[c].pc = "refresh" /\ n # Unread /\ snapshot' = n
      /\ UNCHANGED <<events, recent, log, lost, silent, budget>>
      /\ high => Doing(c, Sender(c, "high"))
      /\ ~high => AfterRefresh(c)
  BY DEF Upsert, Judged, Sender
<1>2. n \in Nat /\ HighThreshold \in Nat
  BY <1>1, CallFacts, RiskAssumption DEF IInv, Call
<1>3. n >= HighThreshold => high \/ Sent(HighAlert)
  BY <1>2 DEF LevelForCount, IInv, Watched, HighSeen
<1>4. Owed(call[c]) = call[c].alerts
  BY <1>1 DEF Owed
<1>5. Watching(call[c]) => n >= HighThreshold
  BY <1>1 DEF Watching
<1>6. PICK k \in Call :
        /\ Doing(c, k) /\ ReadyCall(k) /\ k.event = 0 /\ k.level = "unread"
        /\ ~FoundFailed(k) /\ k.alerts = call[c].alerts
        /\ call[c].alerts \subseteq Owed(k) /\ (high => HighAlert \in Owed(k))
  <2>1. CASE high
    <3>1. Doing(c, Sender(c, "high"))
      BY <1>1, <2>1
    <3>2. QED
      BY <3>1, SenderFacts DEF IInv
  <2>2. CASE ~high
    BY <1>1, <2>2, AfterRefreshFacts DEF IInv
  <2>3. QED
    BY <2>1, <2>2
<1>7. Keeps(c, k)
  BY <1>1, <1>4, <1>6 DEF Keeps
<1>8. Learns(c, k)
  BY <1>1, <1>3, <1>5, <1>6 DEF Learns, IInv, TypeOK
<1>9. Tells(k)
  BY <1>1, <1>3, <1>6 DEF Tells
<1>10. /\ events' \in Seq(Statuses) /\ Len(events') <= MaxEvents
       /\ recent' \in 0..Len(events') /\ snapshot' \in Nat
       /\ budget' \in Nat /\ log' \subseteq Alerts /\ lost' \subseteq Alerts
       /\ DOMAIN events' = DOMAIN events /\ silent' \subseteq DOMAIN events'
  BY <1>1, <1>2 DEF IInv, TypeOK
<1>11. \A a \in k.alerts : a.event \in DOMAIN events'
  BY <1>6, <1>10, CallFacts DEF IInv
<1>12. QED
  BY <1>6, <1>7, <1>8, <1>9, <1>10, <1>11, CallStep

LEMMA NotifyHighStep ==
  ASSUME IInv, NEW c \in Callers, NotifyHigh(c)
  PROVE  IInv'
<1>1. /\ call[c].pc = "high" /\ log' = log \cup {HighAlert} /\ AfterRefresh(c)
      /\ UNCHANGED <<events, recent, snapshot, lost, silent, budget>>
  BY DEF NotifyHigh
<1>2. PICK k \in Call : /\ Doing(c, k) /\ ReadyCall(k) /\ k.event = 0
                        /\ k.level = "unread" /\ ~FoundFailed(k)
                        /\ k.alerts = call[c].alerts /\ Owed(k) = call[c].alerts
  BY <1>1, AfterRefreshFacts DEF IInv
<1>3. Keeps(c, k)
  BY <1>1, <1>2 DEF Keeps, Owed
<1>4. Learns(c, k)
  BY <1>1, <1>2 DEF Learns, Watching, Judging, IInv, TypeOK
<1>5. budget' \in Nat /\ log' \subseteq Alerts /\ lost' \subseteq Alerts
  BY <1>1 DEF IInv, TypeOK, HighAlert, Alerts
<1>6. \A a \in k.alerts : a.event \in DOMAIN events
  BY <1>2, CallFacts DEF IInv
<1>7. QED
  BY <1>1, <1>2, <1>3, <1>4, <1>5, <1>6, QuietStep

LEMMA NotifyStep ==
  ASSUME IInv, NEW c \in Callers, Notify(c)
  PROVE  IInv'
<1>1. /\ call[c].pc = "alert" /\ log' = log \cup call[c].alerts /\ Doing(c, NoCall)
      /\ UNCHANGED <<events, recent, snapshot, lost, silent, budget>>
  BY DEF Notify
<1>2. Owed(call[c]) \subseteq log' /\ ~Watching(call[c])
  BY <1>1 DEF Owed, Watching, Judging
<1>3. /\ budget' \in Nat /\ log' \subseteq Alerts /\ lost' \subseteq Alerts
  BY <1>1, CallFacts DEF IInv, TypeOK
<1>4. QED
  BY <1>1, <1>2, <1>3, EndStep

\* What a failed or dead call owed is lost, the alert for its row too if it was
\* going to see a burst.
LEMMA LoseStep ==
  ASSUME IInv, NEW c \in Callers, Lose(c), Doing(c, NoCall) \/ Caught(c),
         budget' \in Nat, UNCHANGED <<events, recent, snapshot, log, silent>>
  PROVE  IInv'
<1>1. lost' = lost \cup Owed(call[c]) \cup IF WouldRise(call[c]) THEN {HighAlert} ELSE {}
  BY DEF Lose
<1>2. HighAlert \in Alerts
  BY DEF HighAlert, Alerts
<1>3. Owed(call[c]) \subseteq Alerts /\ log \subseteq Alerts /\ lost \subseteq Alerts
  BY <1>2, CallFacts DEF IInv, Owed
<1>4. lost' \subseteq Alerts /\ lost \subseteq lost' /\ Owed(call[c]) \subseteq lost'
  BY <1>1, <1>2, <1>3
<1>5. Watching(call[c]) /\ recent >= HighThreshold => HighAlert \in lost'
  BY <1>1 DEF Watching, WouldRise
<1>6. QED
  BY <1>3, <1>4, <1>5, EndStep

\* An event is closed, retried or grows old: no call moves.
LEMMA OutsideStep ==
  ASSUME IInv, UNCHANGED <<snapshot, log, call, lost, silent>>, budget' \in Nat,
         events' \in Seq(Statuses), Len(events') = Len(events),
         DOMAIN events' = DOMAIN events,
         \A e \in DOMAIN events : events'[e] = "FAILED_MANUAL" => events[e] = "FAILED_MANUAL",
         recent' \in 0..Len(events'), recent' <= recent
  PROVE  IInv'
<1>1. \A a : Sent(a)' <=> Sent(a)
  BY DEF Sent, OnTheWay
<1>2. TypeOK'
  BY DEF IInv, TypeOK
<1>3. recent \in Nat /\ recent' \in Nat /\ HighThreshold \in Nat
  BY <1>2, EventFacts, LenProperties, RiskAssumption DEF IInv, TypeOK
<1>4. HighRiskAlerted' /\ ManualAlerted' /\ EventsAnnounced'
  BY <1>1 DEF IInv, Alerted, HighRiskAlerted, ManualAlerted, EventsAnnounced, HighAlert
<1>5. Ready'
  BY DEF IInv, Watched, Ready
<1>6. HighSeen'
  BY <1>1 DEF IInv, Watched, HighSeen, HighAlert
<1>7. FailedSeen'
  BY DEF IInv, Watched, FailedSeen, FoundFailed, Sent, OnTheWay, ManualAlert
<1>8. BurstWatched'
  BY <1>1, <1>3 DEF IInv, Watched, BurstWatched, HighAlert, Watching, Judging
<1>9. QED
  BY <1>2, <1>4, <1>5, <1>6, <1>7, <1>8 DEF IInv, Alerted, Watched

LEMMA CloseStep ==
  ASSUME IInv, NEW e \in 1..MaxEvents, Close(e) \/ Retry(e)
  PROVE  IInv'
<1>1. PICK s \in {"CLOSED", "FIX_QUEUED"} :
        /\ e \in DOMAIN events /\ events' = [events EXCEPT ![e] = s]
        /\ UNCHANGED <<recent, snapshot, log, call, lost, silent>> /\ budget' \in Nat
  BY SpendFacts DEF Close, Retry, IInv, TypeOK
<1>2. /\ events' \in Seq(Statuses) /\ Len(events') = Len(events)
      /\ DOMAIN events' = DOMAIN events
  BY <1>1, EventSet DEF IInv, Statuses
<1>3. \A f \in DOMAIN events : events'[f] = IF f = e THEN s ELSE events[f]
  BY <1>1, EventFacts DEF IInv
<1>4. recent' \in 0..Len(events') /\ recent' <= recent
  BY <1>1, <1>2, EventFacts DEF IInv, TypeOK
<1>5. \A f \in DOMAIN events : events'[f] = "FAILED_MANUAL" => events[f] = "FAILED_MANUAL"
  BY <1>3
<1>6. QED
  BY <1>1, <1>2, <1>4, <1>5, OutsideStep

LEMMA AgeStep ==
  ASSUME IInv, Age
  PROVE  IInv'
<1>1. recent \in 0..Len(events) /\ Len(events) \in Nat
  BY EventFacts DEF IInv, TypeOK
<1>2. recent' \in 0..Len(events) /\ recent' <= recent
  BY <1>1 DEF Age
<1>3. UNCHANGED <<events, snapshot, log, call, lost, silent>> /\ budget' \in Nat
  BY SpendFacts DEF Age, IInv
<1>4. events \in Seq(Statuses)
  BY DEF IInv, TypeOK
<1>5. QED
  BY <1>2, <1>3, <1>4, OutsideStep

-----------------------------------------------------------------------------
(* The theorems.                                                           *)

LEMMA InitInv == Init => IInv
<1> SUFFICES ASSUME Init PROVE IInv
  OBVIOUS
<1>1. events = <<>> /\ events \in Seq(Statuses) /\ Len(events) = 0 /\ DOMAIN events = {}
  BY DEF Init
<1>2. \A c \in Callers : call[c] = NoCall
  BY DEF Init
<1>3. TypeOK
  <2>1. call \in [Callers -> Call]
    BY NoCallFacts DEF Init
  <2>2. \A c \in Callers : call[c].event = 0 /\ call[c].alerts = {}
    BY <1>2 DEF NoCall
  <2>3. QED
    BY <1>1, <2>1, <2>2, RiskAssumption DEF TypeOK, Init
<1>4. Alerted
  BY <1>1, RiskAssumption DEF Init, Alerted, HighRiskAlerted, ManualAlerted, EventsAnnounced
<1>5. Watched
  <2>1. Ready /\ FailedSeen
    BY <1>2, NoCallFacts DEF Ready, FailedSeen
  <2>2. HighSeen
    BY <1>2 DEF HighSeen, NoCall
  <2>3. BurstWatched
    BY RiskAssumption DEF Init, BurstWatched
  <2>4. QED
    BY <2>1, <2>2, <2>3 DEF Watched
<1>6. QED
  BY <1>3, <1>4, <1>5 DEF IInv

LEMMA NextInv == IInv /\ [Next]_vars => IInv'
<1> SUFFICES ASSUME IInv, [Next]_vars PROVE IInv'
  OBVIOUS
<1>1. CASE UNCHANGED vars
  <2>1. UNCHANGED <<events, recent, snapshot, log, call, lost, silent, budget>>
    BY <1>1 DEF vars
  <2>2. /\ events \in Seq(Statuses) /\ recent \in 0..Len(events) /\ Len(events) \in Nat
        /\ budget \in Nat
    BY EventFacts DEF IInv, TypeOK
  <2>3. QED
    BY <2>1, <2>2, OutsideStep
<1>2. ASSUME NEW c \in Callers, Begin(c) PROVE IInv'
  BY <1>2, ReportStep, PostStep, FixFailsStep DEF Begin
<1>3. ASSUME NEW c \in Callers, Step(c) PROVE IInv'
  BY <1>3, FindStep, UpdateStep, CreateStep, ReadLevelStep, ReadCountStep, UpsertStep,
     NotifyHighStep, NotifyStep DEF Step
<1>4. ASSUME NEW c \in Callers, CallFails(c) \/ CallDies(c) PROVE IInv'
  <2>1. budget' \in Nat
    BY <1>4, SpendFacts DEF CallFails, CallDies, IInv
  <2>2. /\ Lose(c) /\ UNCHANGED <<events, recent, snapshot, log, silent>>
        /\ Doing(c, NoCall) \/ Caught(c)
    BY <1>4 DEF CallFails, CallDies
  <2>3. QED
    BY <2>1, <2>2, LoseStep
<1>5. CASE \E c \in Callers : Begin(c) \/ Step(c) \/ CallFails(c) \/ CallDies(c)
  BY <1>2, <1>3, <1>4, <1>5
<1>6. CASE \E e \in 1..MaxEvents : Close(e) \/ Retry(e)
  BY <1>6, CloseStep
<1>7. CASE Age
  BY <1>7, AgeStep
<1>8. QED
  BY <1>1, <1>5, <1>6, <1>7 DEF Next

LEMMA Invariance == Spec => []IInv
BY InitInv, NextInv, PTL DEF Spec

\* The types hold: a call's alerts name events that exist.
THEOREM RiskTypeCorrect == Spec => []TypeOK
<1>1. IInv => TypeOK
  BY DEF IInv
<1>2. QED
  BY <1>1, Invariance, PTL

\* A row whose snapshot says HIGH, and one that has drifted often enough although a
\* late refresh has overwritten its snapshot with less, has its alert
\* (refreshForEvent).
THEOREM RowsAreAnnounced == Spec => []RowsAnnounced
<1>1. IInv => HighRiskAlerted
  BY DEF IInv, Alerted
<1>2. IInv => BurstsAlerted
  BY DEF IInv, Watched, BurstWatched, BurstsAlerted, Watching
<1>3. IInv => RowsAnnounced
  BY <1>1, <1>2 DEF RowsAnnounced
<1>4. QED
  BY <1>3, Invariance, PTL

\* A drift that is reported, or posted as detected or failed, has its alert, and no
\* event is FAILED_MANUAL without one: not even one that was posted in silence, nor
\* when the scan that writes it keeps silent because it was failed before
\* (afterDriftMutation, afterDriftCreated).
THEOREM DriftsAreAnnounced == Spec => []DriftsAnnounced
<1>1. IInv => DriftsAnnounced
  BY DEF IInv, Alerted, DriftsAnnounced
<1>2. QED
  BY <1>1, Invariance, PTL
================================================================================
