--------------------------- MODULE DriftRepairProofs ---------------------------
(***************************************************************************)
(* For any number of fix workers, scans, operators, windows, attempts and  *)
(* mishaps: a fix that is about to record success has Shopify at its       *)
(* target, an ended job is completed or buried, a completed correction is  *)
(* not made again, and an event that waits for its fix has work.           *)
(*                                                                         *)
(* The strengthening (FixShape) says what a fixer's position knows: its    *)
(* job is active and its own, the row is locked by it as long as no lock   *)
(* has expired, its record is open while it works and completed when it    *)
(* ends as done.  For the waiting events (WInv) every one has a job that   *)
(* has not been done with it, or a scan that still owes it one.            *)
(***************************************************************************)
EXTENDS DriftRepair, WellFoundedInduction, SequenceTheorems, TLAPS

Working == {"find", "config", "manual", "fixing", "read", "set", "resolve"}

Shape(f, x) ==
  /\ x.pc # "idle" => /\ x.key \in Keys
                      /\ job[x.key].state = IF x.pc = "dlq" THEN "done" ELSE "active"
  /\ x.pc \in Working => idem[x.key] \in {"STARTED", "LAPSED"}
  /\ x.pc \in {"unlock", "settle"} /\ x.end = "done" => idem[x.key] = "COMPLETED"
  /\ x.pc \in InTry /\ ~expired => lock = f
  /\ x.pc = "resolve" /\ x.clean /\ ~expired => channel = x.key.target

Busy(f)     == fix[f].pc # "idle"
OthersOf(f) == {g \in Fixers \ {f} : Busy(g)}

FixShape ==
  \A f \in Fixers : /\ Shape(f, fix[f])
                    /\ Busy(f) => \A g \in OthersOf(f) : KeyOf(g) # KeyOf(f)

ScanReady(c) ==
  c.pc # "idle" => /\ c.window \in ScanWindows /\ c.oms \in Quantities
                   /\ c.pc = "enqueue" => c.found # 0

RequestReady(c) ==
  c.pc # "idle" => c.event # 0 /\ (c.pc # "ignore" => c.key \in Keys)

CallShape ==
  /\ \A s \in Scanners : ScanReady(scan[s])
  /\ \A a \in Operators : RequestReady(admin[a])

IInv == TypeOK /\ CallShape /\ FixShape /\ EndedJobsAccounted

-----------------------------------------------------------------------------
(* Facts about events, fixers, scans and requests.                         *)

\* A nonempty set of event numbers has a newest one.
LEMMA NewestExists ==
  ASSUME NEW n \in Nat, NEW S \in SUBSET (1..n), S # {}
  PROVE  Max(S) \in S
<1> DEFINE R == OpToRel(<, Nat)
           T == {i \in Nat : i <= n /\ n - i \in S}
<1>1. T \subseteq Nat /\ T # {}
  <2>1. PICK e \in S : TRUE
    OBVIOUS
  <2>2. n - e \in T
    BY <2>1
  <2>3. QED
    BY <2>2
<1>2. IsWellFoundedOn(R, Nat)
  BY NatLessThanWellFounded
<1>3. PICK i \in T : \A j \in T : ~ (<<j, i>> \in R)
  <2> HIDE DEF R, T
  <2>1. QED
    BY <1>1, <1>2, WFMin, Zenon
<1>4. \A j \in T : ~ (j < i)
  BY <1>1, <1>3 DEF OpToRel
<1>5. \A e \in S : n - i >= e
  <2>1. TAKE e \in S
  <2>2. n - e \in T
    BY <2>1
  <2>3. QED
    BY <1>4, <2>1, <2>2
<1>6. QED
  BY <1>3, <1>5 DEF Max

LEMMA EventFacts ==
  ASSUME TypeOK
  PROVE  /\ events \in Seq(Event) /\ Len(events) \in Nat
         /\ DOMAIN events = 1..Len(events)
         /\ \A e \in DOMAIN events : events[e] \in Event
BY LenProperties, ElementOfSeq DEF TypeOK

LEMMA NewestKnown ==
  ASSUME TypeOK
  PROVE  NewestReusable \in DOMAIN events \cup {0}
<1> DEFINE S == {e \in DOMAIN events : events[e].status \in Reusable}
<1>1. S \in SUBSET (1..Len(events)) /\ Len(events) \in Nat
  BY EventFacts
<1>2. S # {} => Max(S) \in S
  <2> HIDE DEF S
  <2>1. QED
    BY <1>1, NewestExists
<1>3. QED
  BY <1>2 DEF NewestReusable

\* Overwriting one event keeps the numbering.
LEMMA EventSet ==
  ASSUME TypeOK, NEW e \in DOMAIN events, NEW r \in Event,
         events' = [events EXCEPT ![e] = r]
  PROVE  events' \in Seq(Event) /\ Len(events') = Len(events) /\ DOMAIN events' = DOMAIN events
BY EventFacts, ExceptSeq

LEMMA StatusSet ==
  ASSUME TypeOK, NEW e \in DOMAIN events, NEW s \in Statuses, SetStatus(e, s)
  PROVE  events' \in Seq(Event) /\ Len(events') = Len(events) /\ DOMAIN events' = DOMAIN events
<1>1. [events[e] EXCEPT !.status = s] \in Event
  BY EventFacts DEF Event
<1>2. events' = [events EXCEPT ![e] = [events[e] EXCEPT !.status = s]]
  BY DEF SetStatus
<1>3. QED
  BY <1>1, <1>2, EventSet

LEMMA EventAdded ==
  ASSUME TypeOK, NEW r \in Event, events' = Append(events, r), Len(events) < MaxEvents
  PROVE  /\ events' \in Seq(Event) /\ Len(events') <= MaxEvents
         /\ Len(events) + 1 \in DOMAIN events' /\ DOMAIN events \subseteq DOMAIN events'
<1>1. events' \in Seq(Event) /\ Len(events') = Len(events) + 1
  BY EventFacts, AppendProperties
<1>2. DOMAIN events' = 1..(Len(events) + 1)
  BY <1>1, LenProperties
<1>3. QED
  BY <1>1, <1>2, EventFacts, DriftAssumption DEF DriftAssumption

\* Rewriting every event keeps the numbering.
LEMMA EventsMapped ==
  ASSUME TypeOK, NEW h, events' = [e \in DOMAIN events |-> h[e]],
         \A e \in DOMAIN events : h[e] \in Event
  PROVE  events' \in Seq(Event) /\ Len(events') = Len(events) /\ DOMAIN events' = DOMAIN events
<1>1. events' \in [1..Len(events) -> Event] /\ Len(events) \in Nat
  BY EventFacts
<1>2. events' \in Seq(Event)
  BY <1>1, SeqDef
<1>3. DOMAIN events' = 1..Len(events) /\ DOMAIN events' = 1..Len(events')
  BY <1>1, <1>2, LenProperties
<1>4. Len(events') \in Nat
  BY <1>2, LenProperties
<1>5. QED
  BY <1>1, <1>2, <1>3, <1>4, EventFacts

\* What the environment does is paid for.
LEMMA SpendTyped ==
  ASSUME IInv, NEW what, Spend(what)
  PROVE  budget' \in Nat
<1>1. Cost[what] \in Nat /\ budget \in Nat
  BY DriftAssumption DEF DriftAssumption, Spend, IInv, TypeOK
<1>2. QED
  BY <1>1 DEF Spend

-----------------------------------------------------------------------------
(* Steps of one actor.                                                     *)

LEMMA ScanMoved ==
  ASSUME IInv, NEW s \in Scanners, NEW c \in Scan, ScanReady(c), Saying(s, c),
         c.found \in DOMAIN events' \cup {0}, DOMAIN events \subseteq DOMAIN events'
  PROVE  /\ scan' \in [Scanners -> Scan]
         /\ \A t \in Scanners : /\ scan'[t].found \in DOMAIN events' \cup {0}
                              /\ ScanReady(scan'[t])
BY DEF IInv, TypeOK, CallShape, ScanReady, Saying

LEMMA RequestMoved ==
  ASSUME IInv, NEW a \in Operators, NEW c \in Request, RequestReady(c), Asking(a, c),
         c.event \in DOMAIN events' \cup {0}, DOMAIN events \subseteq DOMAIN events'
  PROVE  /\ admin' \in [Operators -> Request]
         /\ \A b \in Operators : /\ admin'[b].event \in DOMAIN events' \cup {0}
                               /\ RequestReady(admin'[b])
BY DEF IInv, TypeOK, CallShape, RequestReady, Asking

LEMMA JobAdded ==
  ASSUME TypeOK, NEW k \in Keys, NEW e \in DOMAIN events, AddJob(k, e)
  PROVE  /\ job' \in [Keys -> FixJob]
         /\ \A j \in Keys : job'[j].state # "absent" => job'[j].event \in DOMAIN events
         /\ \A j \in Keys : job'[j].state # job[j].state =>
                              job[j].state = "absent" /\ job'[j].state = "waiting"
<1>1. DOMAIN events \subseteq Nat
  BY EventFacts
<1>2. [NoJob EXCEPT !.state = "waiting", !.event = e] \in FixJob
  BY <1>1 DEF FixJob, NoJob
<1>3. QED
  BY <1>2 DEF TypeOK, AddJob, NoJob

\* A step beside the fixers that starts or keeps jobs.
LEMMA Aside ==
  ASSUME IInv, UNCHANGED <<fix, idem, redis, channel, dlq, unburied>>,
         \A k \in Keys : job'[k].state # job[k].state =>
                           job[k].state = "absent" /\ job'[k].state = "waiting"
  PROVE  FixShape' /\ EndedJobsAccounted'
<1>1. FixShape'
  BY DEF IInv, FixShape, Shape, Busy, OthersOf, KeyOf, redis
<1>2. EndedJobsAccounted'
  BY DEF IInv, EndedJobsAccounted, KeyOf
<1>3. QED
  BY <1>1, <1>2

-----------------------------------------------------------------------------
(* Scans.                                                                  *)

\* What a scan may change besides jobs: its own position, events and histories.
LEMMA ScanFrame ==
  ASSUME IInv, NEW s \in Scanners, NEW c \in Scan, ScanReady(c), Saying(s, c),
         UNCHANGED <<stock, queue, idem, redis, fix, admin>>,
         runs' \in [Windows -> Nat], budget' \in Nat, wanted' \in Quantities \cup {None},
         events' \in Seq(Event), Len(events') <= MaxEvents,
         DOMAIN events \subseteq DOMAIN events', stranded' \subseteq DOMAIN events',
         c.found \in DOMAIN events' \cup {0}
  PROVE  IInv'
<1>1. TypeOK
  BY DEF IInv
<1>2. /\ scan' \in [Scanners -> Scan]
      /\ \A t \in Scanners : scan'[t].found \in DOMAIN events' \cup {0} /\ ScanReady(scan'[t])
  BY ScanMoved
<1>3. TypeOK'
  BY <1>1, <1>2 DEF TypeOK, stock, queue, redis
<1>4. CallShape'
  BY <1>2 DEF IInv, CallShape, ScanReady, RequestReady
<1>5. FixShape' /\ EndedJobsAccounted'
  BY Aside DEF stock, queue
<1>6. QED
  BY <1>3, <1>4, <1>5 DEF IInv

LEMMA ScanFacts ==
  ASSUME IInv, NEW s \in Scanners
  PROVE  /\ scan[s] \in Scan /\ ScanReady(scan[s]) /\ scan[s].found \in DOMAIN events \cup {0}
         /\ runs \in [Windows -> Nat] /\ budget \in Nat /\ wanted \in Quantities \cup {None}
         /\ stranded \subseteq DOMAIN events /\ Len(events) <= MaxEvents
         /\ events \in Seq(Event) /\ oms \in Quantities
BY DEF IInv, TypeOK, CallShape

LEMMA NoScanTyped == NoScan \in Scan /\ NoScan.found = 0 /\ ScanReady(NoScan)
BY DriftAssumption, EventFacts DEF NoScan, Scan, ScanPCs, Statuses, Reusable, Open, ScanReady

\* Where the catch block and a written event leave the scan.
LEMMA CaughtScan ==
  ASSUME IInv, NEW s \in Scanners, scan[s].pc # "idle", Caught(s)
  PROVE  \E c \in Scan : /\ Saying(s, c) /\ ScanReady(c)
                         /\ c.found \in DOMAIN events \cup {0}
<1> DEFINE d == [scan[s] EXCEPT !.pc = "find", !.status = "FAILED_MANUAL", !.again = FALSE]
<1>1. d \in Scan /\ d.found = scan[s].found /\ ScanReady(d)
  BY ScanFacts DEF Scan, ScanPCs, Statuses, Reusable, ScanReady
<1>2. Saying(s, NoScan) \/ Saying(s, d)
  BY DEF Caught, Report
<1>3. QED
  BY <1>1, <1>2, NoScanTyped, ScanFacts

LEMMA WrittenScan ==
  ASSUME IInv, NEW s \in Scanners, scan[s].pc # "idle", NEW e \in Nat \ {0}, Written(s, e)
  PROVE  \E c \in Scan : Saying(s, c) /\ ScanReady(c) /\ c.found \in {0, e}
<1> DEFINE d == [scan[s] EXCEPT !.pc = "enqueue", !.found = e]
<1>1. d \in Scan /\ d.found = e /\ ScanReady(d)
  BY ScanFacts DEF Scan, ScanPCs, ScanReady
<1>2. Saying(s, NoScan) \/ Saying(s, d)
  BY DEF Written
<1>3. QED
  BY <1>1, <1>2, NoScanTyped

LEMMA StartScanStep ==
  ASSUME IInv, NEW s \in Scanners, NEW w \in ScanWindows, StartScan(s, w)
  PROVE  IInv'
<1> DEFINE c == [NoScan EXCEPT !.pc = "compare", !.window = w, !.oms = oms]
<1>1. c \in Scan /\ c.found = 0 /\ ScanReady(c)
  BY ScanFacts DEF NoScan, Scan, ScanPCs, Statuses, Reusable, Open, ScanReady
<1>2. Saying(s, c) /\ UNCHANGED <<stock, queue, idem, redis, fix, admin, events>>
      /\ UNCHANGED <<budget, wanted, stranded>>
  BY DEF StartScan
<1>3. runs' \in [Windows -> Nat]
  <2>1. w \in Windows
    BY DEF Windows
  <2>2. QED
    BY <2>1, ScanFacts DEF StartScan
<1> HIDE DEF c
<1>4. QED
  BY <1>1, <1>2, <1>3, ScanFacts, ScanFrame

LEMMA CompareStep ==
  ASSUME IInv, NEW s \in Scanners, Compare(s)
  PROVE  IInv'
<1> DEFINE d(st) == [scan[s] EXCEPT !.pc = "find", !.status = st, !.again = FALSE]
           i     == [scan[s] EXCEPT !.pc = "inSync"]
<1>1. scan[s].pc # "idle"
  BY DEF Compare
<1>2. \A st \in Statuses : d(st) \in Scan /\ d(st).found = scan[s].found /\ ScanReady(d(st))
  BY <1>1, ScanFacts DEF Scan, ScanPCs, ScanReady
<1>3. i \in Scan /\ i.found = scan[s].found /\ ScanReady(i)
  BY <1>1, ScanFacts DEF Scan, ScanPCs, ScanReady
<1>4. Saying(s, d("FAILED_MANUAL")) \/ Saying(s, d("FIX_QUEUED")) \/ Saying(s, i)
  BY DEF Compare, Report
<1>5. UNCHANGED <<stock, queue, idem, redis, fix, admin, events>>
      /\ UNCHANGED <<runs, budget, wanted, stranded>>
  BY DEF Compare, limits
<1>6. {"FAILED_MANUAL", "FIX_QUEUED"} \subseteq Statuses
  BY DEF Statuses, Reusable, Open
<1>7. PICK c \in Scan : Saying(s, c) /\ c.found = scan[s].found /\ ScanReady(c)
  BY <1>2, <1>3, <1>4, <1>6
<1>8. QED
  BY <1>5, <1>7, ScanFacts, ScanFrame

LEMMA FindReusableStep ==
  ASSUME IInv, NEW s \in Scanners, FindReusable(s)
  PROVE  IInv'
<1> DEFINE d == [scan[s] EXCEPT !.pc = "write", !.found = NewestReusable]
<1>1. /\ NewestReusable \in DOMAIN events \cup {0} /\ NewestReusable \in Nat
      /\ scan[s].pc = "find"
  BY NewestKnown, EventFacts DEF IInv, FindReusable
<1>2. d \in Scan /\ d.found = NewestReusable /\ ScanReady(d)
  <2> HIDE DEF NewestReusable
  <2>1. QED
    BY <1>1, ScanFacts DEF Scan, ScanPCs, ScanReady
<1>3. UNCHANGED <<stock, queue, idem, redis, fix, admin, events>>
      /\ UNCHANGED <<runs, budget, wanted>>
  BY DEF FindReusable, limits
<1>4. stranded' \subseteq DOMAIN events
  BY <1>1, ScanFacts DEF FindReusable, OwesWork
<1>5. PICK c \in Scan : Saying(s, c) /\ ScanReady(c) /\ c.found \in DOMAIN events \cup {0}
  <2> HIDE DEF d
  <2>1. Caught(s) \/ Saying(s, d)
    BY DEF FindReusable, d
  <2>2. QED
    BY <1>1, <1>2, <2>1, CaughtScan
<1>6. QED
  BY <1>3, <1>4, <1>5, ScanFacts, ScanFrame

LEMMA UpdateDriftStep ==
  ASSUME IInv, NEW s \in Scanners, UpdateDrift(s)
  PROVE  IInv'
<1> DEFINE e == scan[s].found
           r == [status |-> scan[s].status, oms |-> scan[s].oms]
<1>1. /\ TypeOK /\ e \in DOMAIN events /\ e \in Nat \ {0}
      /\ scan[s].pc # "idle" /\ r \in Event
  BY ScanFacts, EventFacts DEF IInv, UpdateDrift, Event, Scan, ScanReady
<1>2. UNCHANGED <<stock, queue, idem, redis, fix, admin>>
      /\ UNCHANGED <<runs, budget, wanted, stranded>>
  BY DEF UpdateDrift, limits
<1>3. CASE events' = [events EXCEPT ![e] = r] /\ Written(s, e)
  <2>1. events' \in Seq(Event) /\ Len(events') = Len(events) /\ DOMAIN events' = DOMAIN events
    BY <1>1, <1>3, EventSet
  <2>2. PICK c \in Scan : Saying(s, c) /\ ScanReady(c) /\ c.found \in {0, e}
    BY <1>1, <1>3, WrittenScan
  <2>3. QED
    BY <1>1, <1>2, <2>1, <2>2, ScanFacts, ScanFrame
<1>4. CASE Caught(s) /\ UNCHANGED events
  <2>1. PICK c \in Scan : Saying(s, c) /\ ScanReady(c) /\ c.found \in DOMAIN events \cup {0}
    BY <1>1, <1>4, CaughtScan
  <2>2. QED
    BY <1>1, <1>2, <1>4, <2>1, ScanFacts, ScanFrame
<1>5. QED
  BY <1>3, <1>4 DEF UpdateDrift

LEMMA CreateDriftStep ==
  ASSUME IInv, NEW s \in Scanners, CreateDrift(s)
  PROVE  IInv'
<1> DEFINE r == [status |-> scan[s].status, oms |-> scan[s].oms]
           d == [scan[s] EXCEPT !.pc = "find", !.again = TRUE]
<1>1. /\ TypeOK /\ scan[s].pc # "idle" /\ r \in Event
      /\ Len(events) + 1 \in Nat \ {0} /\ DOMAIN events \subseteq Nat
  BY ScanFacts, EventFacts DEF IInv, CreateDrift, Event, Scan, ScanReady
<1>2. UNCHANGED <<stock, queue, idem, redis, fix, admin>>
      /\ UNCHANGED <<runs, budget, wanted, stranded>>
  BY DEF CreateDrift, limits
<1>3. CASE Saying(s, d) /\ UNCHANGED events
  <2>1. d \in Scan /\ d.found = scan[s].found /\ ScanReady(d)
    BY <1>1, ScanFacts DEF Scan, ScanPCs, ScanReady
  <2> HIDE DEF d
  <2>2. QED
    BY <1>2, <1>3, <2>1, ScanFacts, ScanFrame
<1>4. CASE /\ Len(events) < MaxEvents /\ events' = Append(events, r)
           /\ Written(s, Len(events) + 1)
  <2>1. PICK c \in Scan : Saying(s, c) /\ ScanReady(c) /\ c.found \in {0, Len(events) + 1}
    BY <1>1, <1>4, WrittenScan
  <2>2. /\ events' \in Seq(Event) /\ Len(events') <= MaxEvents
        /\ Len(events) + 1 \in DOMAIN events' /\ DOMAIN events \subseteq DOMAIN events'
    BY <1>1, <1>4, EventAdded
  <2>3. QED
    BY <1>2, <2>1, <2>2, ScanFacts, ScanFrame
<1>5. QED
  BY <1>3, <1>4 DEF CreateDrift

LEMMA EnqueueFixStep ==
  ASSUME IInv, NEW s \in Scanners, EnqueueFix(s)
  PROVE  IInv'
<1> DEFINE k == [target |-> scan[s].oms, window |-> scan[s].window]
<1>1. TypeOK /\ k \in Keys /\ scan[s].found \in DOMAIN events
  BY ScanFacts DEF IInv, EnqueueFix, ScanReady, Keys, Windows
<1>2. /\ UNCHANGED <<stock, events, dlq, unburied, idem, redis, fix, admin, limits>>
      /\ AddJob(k, scan[s].found) /\ Saying(s, NoScan) /\ wanted' = scan[s].oms
  BY DEF EnqueueFix
<1> HIDE DEF k
<1>3. /\ job' \in [Keys -> FixJob]
      /\ \A j \in Keys : job'[j].state # "absent" => job'[j].event \in DOMAIN events
      /\ \A j \in Keys : job'[j].state # job[j].state =>
                           job[j].state = "absent" /\ job'[j].state = "waiting"
  BY <1>1, <1>2, JobAdded
<1>4. stranded' \subseteq DOMAIN events /\ wanted' \in Quantities
  BY <1>1, <1>2, ScanFacts DEF EnqueueFix, ScanReady
<1>5. /\ scan' \in [Scanners -> Scan]
      /\ \A t \in Scanners : scan'[t].found \in DOMAIN events' \cup {0} /\ ScanReady(scan'[t])
  BY <1>2, NoScanTyped, ScanMoved
<1>6. TypeOK'
  BY <1>1, <1>2, <1>3, <1>4, <1>5 DEF TypeOK, stock, redis, limits
<1>7. CallShape'
  BY <1>2, <1>5 DEF IInv, CallShape, ScanReady, RequestReady
<1>8. FixShape' /\ EndedJobsAccounted'
  BY <1>2, <1>3, Aside DEF stock
<1>9. QED
  BY <1>6, <1>7, <1>8 DEF IInv

LEMMA ResolveInSyncStep ==
  ASSUME IInv, NEW s \in Scanners, ResolveInSync(s)
  PROVE  IInv'
<1> DEFINE h == [e \in DOMAIN events |->
                   IF e \in OpenEvents THEN [status |-> "RESOLVED", oms |-> scan[s].oms]
                   ELSE events[e]]
<1>1. TypeOK /\ scan[s].oms \in Quantities /\ Saying(s, NoScan)
  BY ScanFacts DEF IInv, ResolveInSync, ScanReady
<1>2. UNCHANGED <<stock, queue, idem, redis, fix, admin>>
      /\ UNCHANGED <<runs, budget, stranded>> /\ wanted' = None
  BY DEF ResolveInSync, limits
<1>3. \A e \in DOMAIN events : h[e] \in Event
  BY <1>1, EventFacts DEF Event, Statuses
<1>4. events' = [e \in DOMAIN events |-> h[e]]
  BY DEF ResolveInSync
<1> HIDE DEF h
<1>5. events' \in Seq(Event) /\ Len(events') = Len(events) /\ DOMAIN events' = DOMAIN events
  BY <1>1, <1>3, <1>4, EventsMapped
<1>6. QED
  BY <1>1, <1>2, <1>5, NoScanTyped, ScanFacts, ScanFrame

LEMMA ScanFailsStep ==
  ASSUME IInv, NEW s \in Scanners, ScanFails(s)
  PROVE  IInv'
<1>1. UNCHANGED <<stock, queue, idem, redis, fix, admin, events>>
      /\ UNCHANGED <<runs, wanted, stranded>> /\ budget' \in Nat
  BY SpendTyped DEF ScanFails
<1>2. PICK c \in Scan : Saying(s, c) /\ ScanReady(c) /\ c.found \in DOMAIN events \cup {0}
  BY CaughtScan DEF ScanFails
<1>3. QED
  BY <1>1, <1>2, ScanFacts, ScanFrame

LEMMA ScanDiesStep ==
  ASSUME IInv, NEW s \in Scanners, ScanDies(s)
  PROVE  IInv'
<1>1. UNCHANGED <<stock, queue, idem, redis, fix, admin, events>>
      /\ UNCHANGED <<runs, wanted>> /\ budget' \in Nat /\ Saying(s, NoScan)
  BY SpendTyped DEF ScanDies
<1>2. stranded' \subseteq DOMAIN events
  BY ScanFacts DEF ScanDies, OwesWork
<1>3. QED
  BY <1>1, <1>2, NoScanTyped, ScanFacts, ScanFrame

-----------------------------------------------------------------------------
(* Operators.                                                              *)

LEMMA RequestFrame ==
  ASSUME IInv, NEW a \in Operators, NEW c \in Request, RequestReady(c), Asking(a, c),
         UNCHANGED <<stock, dlq, unburied, idem, redis, fix, scan, wanted>>,
         runs' \in [Windows -> Nat], budget' \in Nat,
         job' \in [Keys -> FixJob],
         \A k \in Keys : job'[k].state # "absent" => job'[k].event \in DOMAIN events,
         \A k \in Keys : job'[k].state # job[k].state =>
                           job[k].state = "absent" /\ job'[k].state = "waiting",
         events' \in Seq(Event), Len(events') <= MaxEvents, DOMAIN events' = DOMAIN events,
         stranded' \subseteq DOMAIN events, c.event \in DOMAIN events \cup {0}
  PROVE  IInv'
<1>1. TypeOK
  BY DEF IInv
<1>2. /\ admin' \in [Operators -> Request]
      /\ \A b \in Operators : /\ admin'[b].event \in DOMAIN events' \cup {0}
                              /\ RequestReady(admin'[b])
  BY RequestMoved
<1>3. TypeOK'
  BY <1>1, <1>2 DEF TypeOK, stock, redis
<1>4. CallShape'
  BY <1>2 DEF IInv, CallShape, ScanReady, RequestReady
<1>5. FixShape' /\ EndedJobsAccounted'
  BY Aside DEF stock
<1>6. QED
  BY <1>3, <1>4, <1>5 DEF IInv

LEMMA RequestFacts ==
  ASSUME IInv, NEW a \in Operators
  PROVE  /\ admin[a] \in Request /\ RequestReady(admin[a])
         /\ admin[a].event \in DOMAIN events \cup {0}
         /\ runs \in [Windows -> Nat] /\ budget \in Nat
         /\ job \in [Keys -> FixJob]
         /\ \A k \in Keys : job[k].state # "absent" => job[k].event \in DOMAIN events
         /\ stranded \subseteq DOMAIN events /\ Len(events) <= MaxEvents
         /\ events \in Seq(Event)
BY DEF IInv, TypeOK, CallShape

LEMMA NoRequestTyped == NoRequest \in Request /\ NoRequest.event = 0 /\ RequestReady(NoRequest)
BY DEF NoRequest, Request, AdminPCs, RequestReady

LEMMA AskRetryStep ==
  ASSUME IInv, NEW a \in Operators, NEW e \in 1..MaxEvents, NEW w \in RetryWindows,
         AskRetry(a, e, w)
  PROVE  IInv'
<1> DEFINE c == [pc |-> "add", event |-> e, key |-> [target |-> events[e].oms, window |-> w]]
<1>1. e \in DOMAIN events /\ e \in Nat /\ e # 0 /\ events[e] \in Event /\ w \in Windows
  BY EventFacts DEF AskRetry, IInv, Windows
<1>2. c \in Request /\ c.event = e /\ RequestReady(c)
  BY <1>1 DEF Request, AdminPCs, Keys, Event, RequestReady
<1>3. Asking(a, c) /\ UNCHANGED <<stock, events, queue, idem, redis, fix, scan, budget>>
      /\ UNCHANGED <<wanted, stranded>>
  BY DEF AskRetry
<1>4. runs' \in [Windows -> Nat]
  BY <1>1, RequestFacts DEF AskRetry
<1> HIDE DEF c
<1>5. QED
  BY <1>1, <1>2, <1>3, <1>4, RequestFacts, RequestFrame DEF queue

LEMMA RetryAddStep ==
  ASSUME IInv, NEW a \in Operators, RetryAdd(a)
  PROVE  IInv'
<1> DEFINE c == [admin[a] EXCEPT !.pc = "mark"]
<1>1. TypeOK /\ admin[a].key \in Keys /\ admin[a].event \in DOMAIN events
  BY RequestFacts DEF IInv, RetryAdd, RequestReady
<1>2. c \in Request /\ c.event = admin[a].event /\ RequestReady(c)
  BY <1>1, RequestFacts DEF Request, AdminPCs, RetryAdd, RequestReady
<1>3. /\ Asking(a, c) /\ UNCHANGED <<stock, events, dlq, unburied, idem, redis, fix, scan>>
      /\ UNCHANGED <<runs, budget, wanted>> /\ stranded' \subseteq stranded
      /\ AddJob(admin[a].key, admin[a].event)
  BY DEF RetryAdd, limits
<1>4. /\ job' \in [Keys -> FixJob]
      /\ \A j \in Keys : job'[j].state # "absent" => job'[j].event \in DOMAIN events
      /\ \A j \in Keys : job'[j].state # job[j].state =>
                           job[j].state = "absent" /\ job'[j].state = "waiting"
  BY <1>1, <1>3, JobAdded
<1> HIDE DEF c
<1>5. QED
  BY <1>1, <1>2, <1>3, <1>4, RequestFacts, RequestFrame

LEMMA RetryMarkStep ==
  ASSUME IInv, NEW a \in Operators, RetryMark(a)
  PROVE  IInv'
<1> DEFINE e == admin[a].event
<1>1. TypeOK /\ e \in DOMAIN events
  BY RequestFacts DEF IInv, RetryMark, RequestReady
<1>2. /\ Asking(a, NoRequest) /\ UNCHANGED <<stock, queue, idem, redis, fix, scan>>
      /\ UNCHANGED <<runs, budget, wanted>>
  BY DEF RetryMark, limits
<1>3. stranded' \subseteq DOMAIN events
  BY <1>1, RequestFacts DEF RetryMark
<1>4. events' \in Seq(Event) /\ Len(events') = Len(events) /\ DOMAIN events' = DOMAIN events
  <2>1. CASE SetStatus(e, "FIX_QUEUED")
    BY <1>1, <2>1, StatusSet DEF Statuses, Reusable, Open
  <2>2. CASE UNCHANGED events
    BY <2>2, RequestFacts
  <2>3. QED
    BY <2>1, <2>2 DEF RetryMark
<1>5. QED
  BY <1>2, <1>3, <1>4, NoRequestTyped, RequestFacts, RequestFrame DEF queue

LEMMA AskIgnoreStep ==
  ASSUME IInv, NEW a \in Operators, NEW e \in 1..MaxEvents, AskIgnore(a, e)
  PROVE  IInv'
<1> DEFINE c == [NoRequest EXCEPT !.pc = "ignore", !.event = e]
<1>1. e \in DOMAIN events /\ e \in Nat \ {0}
  BY EventFacts DEF AskIgnore, IInv
<1>2. c \in Request /\ c.event = e /\ RequestReady(c)
  BY <1>1 DEF NoRequest, Request, AdminPCs, RequestReady
<1>3. /\ Asking(a, c) /\ UNCHANGED <<stock, events, queue, idem, redis, fix, scan>>
      /\ UNCHANGED <<runs, wanted, stranded>> /\ budget' \in Nat
  BY SpendTyped DEF AskIgnore
<1> HIDE DEF c
<1>4. QED
  BY <1>1, <1>2, <1>3, RequestFacts, RequestFrame DEF queue

LEMMA IgnoreStep ==
  ASSUME IInv, NEW a \in Operators, Ignore(a)
  PROVE  IInv'
<1>1. TypeOK /\ admin[a].event \in DOMAIN events
  BY RequestFacts DEF IInv, Ignore, RequestReady
<1>2. events' \in Seq(Event) /\ Len(events') = Len(events) /\ DOMAIN events' = DOMAIN events
  BY <1>1, StatusSet DEF Ignore, Statuses
<1>3. /\ Asking(a, NoRequest) /\ UNCHANGED <<stock, queue, idem, redis, fix, scan>>
      /\ UNCHANGED <<runs, budget, wanted, stranded>>
  BY DEF Ignore, limits
<1>4. QED
  BY <1>2, <1>3, NoRequestTyped, RequestFacts, RequestFrame DEF queue

LEMMA RequestDiesStep ==
  ASSUME IInv, NEW a \in Operators, RequestDies(a)
  PROVE  IInv'
<1>1. /\ Asking(a, NoRequest) /\ UNCHANGED <<stock, events, queue, idem, redis, fix, scan>>
      /\ UNCHANGED <<runs, wanted, stranded>> /\ budget' \in Nat
  BY SpendTyped DEF RequestDies
<1>2. QED
  BY <1>1, NoRequestTyped, RequestFacts, RequestFrame DEF queue

-----------------------------------------------------------------------------
(* The rest of the world.                                                  *)

LEMMA OrphanExpiresStep ==
  ASSUME IInv, OrphanExpires
  PROVE  IInv'
<1>1. /\ UNCHANGED <<stock, events, queue, idem, expired, fix, scan, admin, limits>>
      /\ UNCHANGED <<wanted, stranded>> /\ lock = "orphan" /\ lock' = "free"
  BY DEF OrphanExpires
<1>2. TypeOK'
  BY <1>1 DEF IInv, TypeOK, stock, queue, limits
<1>3. FixShape'
  BY <1>1, DriftAssumption DEF DriftAssumption, IInv, FixShape, Shape, Busy, OthersOf,
                               KeyOf, stock, queue
<1>4. CallShape' /\ EndedJobsAccounted'
  BY <1>1 DEF IInv, CallShape, ScanReady, RequestReady, EndedJobsAccounted, KeyOf, queue
<1>5. QED
  BY <1>2, <1>3, <1>4 DEF IInv

LEMMA HeldExpiresStep ==
  ASSUME IInv, HeldExpires
  PROVE  IInv'
<1>1. /\ UNCHANGED <<stock, events, queue, idem, fix, scan, admin, runs>>
      /\ UNCHANGED <<wanted, stranded>> /\ lock' = "free" /\ expired' = TRUE
      /\ budget' \in Nat
  BY SpendTyped DEF HeldExpires
<1>2. TypeOK'
  BY <1>1 DEF IInv, TypeOK, stock, queue
<1>3. FixShape'
  BY <1>1 DEF IInv, FixShape, Shape, Busy, OthersOf, KeyOf, stock, queue
<1>4. CallShape' /\ EndedJobsAccounted'
  BY <1>1 DEF IInv, CallShape, ScanReady, RequestReady, EndedJobsAccounted, KeyOf, queue
<1>5. QED
  BY <1>2, <1>3, <1>4 DEF IInv

LEMMA LeaseLapsesStep ==
  ASSUME IInv, NEW k \in Keys, LeaseLapses(k)
  PROVE  IInv'
<1>1. /\ UNCHANGED <<stock, events, queue, redis, fix, scan, admin, limits>>
      /\ UNCHANGED <<wanted, stranded>>
      /\ idem[k] = "STARTED" /\ idem' = [idem EXCEPT ![k] = "LAPSED"]
  BY DEF LeaseLapses
<1>2. TypeOK'
  BY <1>1 DEF IInv, TypeOK, stock, queue, redis, limits
<1>3. /\ \A j \in Keys : idem[j] = "COMPLETED" <=> idem'[j] = "COMPLETED"
      /\ \A j \in Keys : idem[j] \in {"STARTED", "LAPSED"} => idem'[j] \in {"STARTED", "LAPSED"}
  BY <1>1 DEF IInv, TypeOK
<1>4. FixShape'
  <2>1. \A f \in Fixers : fix[f].pc \in Working => fix[f].pc # "idle"
    BY DEF Working
  <2>2. QED
    BY <1>1, <1>3, <2>1 DEF IInv, FixShape, Shape, Busy, OthersOf, KeyOf, stock, queue, redis
<1>5. CallShape' /\ EndedJobsAccounted'
  BY <1>1, <1>3 DEF IInv, CallShape, ScanReady, RequestReady, EndedJobsAccounted, KeyOf, queue
<1>6. QED
  BY <1>2, <1>4, <1>5 DEF IInv

LEMMA EvictStep ==
  ASSUME IInv, NEW k \in Keys, Evict(k)
  PROVE  IInv'
<1>1. /\ UNCHANGED <<stock, events, dlq, unburied, idem, redis, fix, scan, admin, runs>>
      /\ UNCHANGED <<wanted, stranded>> /\ budget' \in Nat
      /\ \A f \in Fixers : KeyOf(f) # k
      /\ job' = [job EXCEPT ![k] = NoJob]
  BY SpendTyped DEF Evict
<1>2. NoJob \in FixJob /\ NoJob.state = "absent"
  BY DEF NoJob, FixJob
<1>3. TypeOK'
  BY <1>1, <1>2 DEF IInv, TypeOK, stock, redis
<1>4. \A j \in Keys : j # k => job'[j] = job[j]
  BY <1>1 DEF IInv, TypeOK
<1>5. FixShape'
  BY <1>1, <1>4 DEF IInv, FixShape, Shape, Busy, OthersOf, KeyOf, stock, redis
<1>6. job'[k].state = "absent"
  BY <1>1, <1>2 DEF IInv, TypeOK
<1>7. CallShape' /\ EndedJobsAccounted'
  BY <1>1, <1>4, <1>6 DEF IInv, CallShape, ScanReady, RequestReady, EndedJobsAccounted, KeyOf
<1>8. QED
  BY <1>3, <1>5, <1>7 DEF IInv

LEMMA WorldStep ==
  ASSUME IInv, NEW n \in Quantities, NEW l \in {"ok", "inactive", "unmapped"},
         Move(n) \/ Edit(n) \/ Relink(l)
  PROVE  IInv'
<1>1. /\ UNCHANGED <<events, queue, idem, redis, scan, admin, runs, wanted, stranded>>
      /\ budget' \in Nat /\ oms' \in Quantities /\ channel' \in Quantities
      /\ link' \in {"ok", "inactive", "unmapped"}
  BY SpendTyped DEF Move, Edit, Relink, IInv, TypeOK
<1>2. /\ fix' \in [Fixers -> Fix]
      /\ \A f \in Fixers : /\ fix'[f].pc = fix[f].pc /\ fix'[f].key = fix[f].key
                           /\ fix'[f].end = fix[f].end
                           /\ fix'[f].clean => fix[f].clean /\ channel' = channel
  <2>1. CASE Edit(n)
    <3>1. fix' = [f \in Fixers |-> [fix[f] EXCEPT !.clean = FALSE]]
      BY <2>1 DEF Edit
    <3>2. \A f \in Fixers : fix[f] \in Fix
      BY DEF IInv, TypeOK
    <3>3. \A f \in Fixers : [fix[f] EXCEPT !.clean = FALSE] \in Fix
      BY <3>2 DEF Fix
    <3>4. QED
      BY <3>1, <3>2, <3>3 DEF Fix
  <2>2. CASE Move(n) \/ Relink(l)
    BY <2>2 DEF Move, Relink, IInv, TypeOK
  <2>3. QED
    BY <2>1, <2>2
<1>3. TypeOK'
  BY <1>1, <1>2 DEF IInv, TypeOK, queue, redis
<1>4. FixShape'
  BY <1>1, <1>2 DEF IInv, FixShape, Shape, Busy, OthersOf, KeyOf, queue, redis
<1>5. CallShape' /\ EndedJobsAccounted'
  BY <1>1, <1>2 DEF IInv, CallShape, ScanReady, RequestReady, EndedJobsAccounted, KeyOf, queue
<1>6. QED
  BY <1>3, <1>4, <1>5 DEF IInv

LEMMA CreateEventStep ==
  ASSUME IInv, NEW s \in Posted, NEW n \in Quantities, CreateEvent(s, n)
  PROVE  IInv'
<1>1. [status |-> s, oms |-> n] \in Event /\ TypeOK
  BY DriftAssumption DEF DriftAssumption, Event, IInv
<1>2. /\ UNCHANGED <<stock, queue, idem, redis, fix, scan, admin, runs, wanted>>
      /\ budget' \in Nat /\ stranded' = stranded \cup {Len(events) + 1}
      /\ events' = Append(events, [status |-> s, oms |-> n]) /\ Len(events) < MaxEvents
  BY SpendTyped DEF CreateEvent
<1>3. /\ events' \in Seq(Event) /\ Len(events') <= MaxEvents
      /\ Len(events) + 1 \in DOMAIN events' /\ DOMAIN events \subseteq DOMAIN events'
  BY <1>1, <1>2, EventAdded
<1>4. TypeOK'
  BY <1>1, <1>2, <1>3 DEF TypeOK, stock, queue, redis
<1>5. CallShape'
  BY <1>2 DEF IInv, CallShape, ScanReady, RequestReady
<1>6. FixShape' /\ EndedJobsAccounted'
  BY <1>2, Aside DEF stock, queue
<1>7. QED
  BY <1>4, <1>5, <1>6 DEF IInv

-----------------------------------------------------------------------------
(* Fix attempts.                                                           *)

LEMMA FixFacts ==
  ASSUME IInv, NEW f \in Fixers, Busy(f)
  PROVE  /\ KeyOf(f) \in Keys /\ fix[f] \in Fix /\ fix[f].key = KeyOf(f)
         /\ EventOf(f) \in DOMAIN events /\ events[EventOf(f)] \in Event
         /\ Shape(f, fix[f])
         /\ \A g \in OthersOf(f) : KeyOf(g) # KeyOf(f)
         /\ job \in [Keys -> FixJob] /\ job[KeyOf(f)] \in FixJob
         /\ job[KeyOf(f)].state = IF fix[f].pc = "dlq" THEN "done" ELSE "active"
         /\ \A k \in Keys : job[k].state # "absent" => job[k].event \in DOMAIN events
<1>1. Shape(f, fix[f]) /\ \A g \in OthersOf(f) : KeyOf(g) # KeyOf(f)
  BY DEF IInv, FixShape
<1>2. KeyOf(f) \in Keys /\ job[KeyOf(f)].state \in {"active", "done"}
  BY <1>1 DEF Shape, Busy, KeyOf
<1>3. EventOf(f) \in DOMAIN events
  BY <1>2 DEF EventOf, IInv, TypeOK
<1>4. events[EventOf(f)] \in Event
  BY <1>3, EventFacts DEF IInv
<1>5. QED
  BY <1>1, <1>2, <1>3, <1>4 DEF IInv, TypeOK, KeyOf, Shape, Busy

\* A step of one fixer keeps the invariant if its new position has its shape, and
\* neither the other jobs and records nor the row under another's lock change.
LEMMA FixFrame ==
  ASSUME IInv, NEW f \in Fixers, Busy(f), NEW x \in Fix, fix' = [fix EXCEPT ![f] = x],
         x.pc # "idle" => x.key = KeyOf(f), Shape(f, x)',
         UNCHANGED <<oms, link, scan, admin, runs, wanted, expired>>,
         budget' \in Nat, stranded' \subseteq DOMAIN events,
         events' \in Seq(Event), Len(events') = Len(events), DOMAIN events' = DOMAIN events,
         NEW j \in FixJob, job' = [job EXCEPT ![KeyOf(f)] = j],
         j.event = EventOf(f),
         NEW r \in {"STARTED", "LAPSED", "FAILED", "COMPLETED", "none"},
         idem' = [idem EXCEPT ![KeyOf(f)] = r],
         dlq' \in {dlq, dlq \cup {KeyOf(f)}}, unburied' \in {unburied, unburied \cup {KeyOf(f)}},
         lock' \in Fixers \cup {"free", "orphan"},
         \A g \in Fixers \ {f} : lock = g => lock' = g,
         channel' \in Quantities, channel' # channel /\ ~expired => lock = f,
         j.state = "done" => \/ r = "COMPLETED" \/ x.pc = "dlq"
                             \/ KeyOf(f) \in dlq' \cup unburied'
  PROVE  IInv'
<1> DEFINE k == KeyOf(f)
<1>1. /\ k \in Keys /\ TypeOK /\ EventOf(f) \in DOMAIN events
      /\ \A g \in OthersOf(f) : KeyOf(g) # k
  BY FixFacts DEF IInv
<1>2. /\ fix' \in [Fixers -> Fix] /\ fix'[f] = x
      /\ \A g \in Fixers \ {f} : fix'[g] = fix[g]
  BY <1>1 DEF TypeOK
<1>3. /\ job' \in [Keys -> FixJob] /\ job'[k] = j
      /\ \A i \in Keys \ {k} : job'[i] = job[i]
  BY <1>1 DEF TypeOK
<1>4. /\ idem' \in [Keys -> {"none", "STARTED", "LAPSED", "FAILED", "COMPLETED"}]
      /\ idem'[k] = r /\ \A i \in Keys \ {k} : idem'[i] = idem[i]
  BY <1>1 DEF TypeOK
<1>5. TypeOK'
  BY <1>1, <1>2, <1>3, <1>4 DEF TypeOK
<1>6. CallShape'
  BY DEF IInv, CallShape, ScanReady, RequestReady
<1>7. FixShape'
  <2>1. ASSUME NEW g \in Fixers \ {f}  PROVE Shape(g, fix[g])'
    <3>1. /\ Shape(g, fix[g]) /\ fix'[g] = fix[g]
          /\ fix[g].pc # "idle" => fix[g].key \in Keys \ {k}
      BY <1>1, <1>2, <2>1 DEF IInv, FixShape, Shape, OthersOf, Busy, KeyOf
    <3>2. fix[g].pc # "idle" => /\ job'[fix[g].key] = job[fix[g].key]
                                /\ idem'[fix[g].key] = idem[fix[g].key]
      BY <1>3, <1>4, <3>1
    <3>3. fix[g].pc \in InTry /\ ~expired => lock' = g /\ channel' = channel
      BY <2>1, <3>1 DEF Shape
    <3>4. QED
      BY <3>1, <3>2, <3>3 DEF Shape, Working, InTry
  <2>2. Shape(f, fix[f])'
    BY <1>2 DEF Shape
  <2>3. ASSUME NEW g \in Fixers, NEW h \in Fixers \ {g}, Busy(g)', Busy(h)'
        PROVE  KeyOf(h)' # KeyOf(g)'
    <3>1. CASE g = f
      BY <1>1, <1>2, <2>3, <3>1 DEF OthersOf, Busy, KeyOf
    <3>2. CASE h = f
      BY <1>1, <1>2, <2>3, <3>2 DEF OthersOf, Busy, KeyOf
    <3>3. CASE g # f /\ h # f
      BY <1>2, <2>3, <3>3 DEF OthersOf, Busy, KeyOf, IInv, FixShape
    <3>4. QED
      BY <3>1, <3>2, <3>3
  <2>4. QED
    BY <2>1, <2>2, <2>3 DEF FixShape, OthersOf
<1>8. EndedJobsAccounted'
  <2>1. ASSUME NEW i \in Keys \ {k}, job'[i].state = "done"
        PROVE  \/ idem'[i] = "COMPLETED" \/ i \in dlq' \cup unburied'
               \/ \E g \in Fixers : fix'[g].pc = "dlq" /\ fix'[g].key = i
    BY <1>2, <1>3, <1>4, <2>1 DEF IInv, EndedJobsAccounted, KeyOf
  <2>2. job'[k].state = "done" =>
          \/ idem'[k] = "COMPLETED" \/ k \in dlq' \cup unburied'
          \/ \E g \in Fixers : fix'[g].pc = "dlq" /\ fix'[g].key = k
    BY <1>2, <1>3, <1>4
  <2>3. QED
    BY <2>1, <2>2 DEF EndedJobsAccounted, KeyOf
<1>9. QED
  BY <1>5, <1>6, <1>7, <1>8 DEF IInv

\* The frame for steps that leave the jobs and the dead-letter queue alone.
LEMMA AttemptFrame ==
  ASSUME IInv, NEW f \in Fixers, Busy(f), fix[f].pc # "dlq",
         NEW x \in Fix, fix' = [fix EXCEPT ![f] = x], x.pc \notin {"idle", "dlq"},
         x.key = KeyOf(f), Shape(f, x)',
         UNCHANGED <<oms, link, queue, scan, admin, runs, wanted, expired>>,
         budget' \in Nat, stranded' \subseteq stranded \cup {EventOf(f)},
         \/ UNCHANGED events
         \/ \E s \in Statuses : SetStatus(EventOf(f), s)
         \/ \E n \in Quantities : events' = [events EXCEPT ![EventOf(f)] =
                                                 [status |-> "RESOLVED", oms |-> n]],
         NEW r \in {"STARTED", "LAPSED", "FAILED", "COMPLETED", "none"},
         idem' = [idem EXCEPT ![KeyOf(f)] = r],
         lock' \in Fixers \cup {"free", "orphan"},
         \A g \in Fixers \ {f} : lock = g => lock' = g,
         channel' \in Quantities, channel' # channel /\ ~expired => lock = f
  PROVE  IInv'
<1> DEFINE j == job[KeyOf(f)]
<1>1. /\ TypeOK /\ KeyOf(f) \in Keys /\ EventOf(f) \in DOMAIN events /\ j \in FixJob
      /\ j.state = "active" /\ j.event = EventOf(f) /\ job \in [Keys -> FixJob]
  BY FixFacts DEF IInv, EventOf
<1>2. events' \in Seq(Event) /\ Len(events') = Len(events) /\ DOMAIN events' = DOMAIN events
  <2>1. CASE UNCHANGED events
    BY <2>1, EventFacts DEF IInv
  <2>2. ASSUME NEW s \in Statuses, SetStatus(EventOf(f), s)
        PROVE  events' \in Seq(Event) /\ Len(events') = Len(events) /\ DOMAIN events' = DOMAIN events
    BY <1>1, <2>2, StatusSet
  <2>3. ASSUME NEW n \in Quantities,
               events' = [events EXCEPT ![EventOf(f)] = [status |-> "RESOLVED", oms |-> n]]
        PROVE  events' \in Seq(Event) /\ Len(events') = Len(events) /\ DOMAIN events' = DOMAIN events
    <3>1. [status |-> "RESOLVED", oms |-> n] \in Event
      BY DEF Event, Statuses
    <3>2. QED
      BY <1>1, <2>3, <3>1, EventSet
  <2>4. QED
    BY <2>1, <2>2, <2>3
<1>3. job' = [job EXCEPT ![KeyOf(f)] = j] /\ dlq' = dlq /\ unburied' = unburied
  BY <1>1 DEF queue
<1>4. stranded' \subseteq DOMAIN events
  BY <1>1 DEF TypeOK
<1> HIDE DEF j
<1>5. QED
  BY <1>1, <1>2, <1>3, <1>4, FixFrame

\* Where Goto leaves a fixer.
LEMMA Positions ==
  ASSUME IInv, NEW f \in Fixers, NEW pc \in FixPCs
  PROVE  /\ [fix[f] EXCEPT !.pc = pc] \in Fix
         /\ [fix[f] EXCEPT !.pc = pc].pc = pc /\ [fix[f] EXCEPT !.pc = pc].key = KeyOf(f)
         /\ [fix[f] EXCEPT !.pc = pc].end = fix[f].end
         /\ [fix[f] EXCEPT !.pc = pc].clean = fix[f].clean
<1>1. fix[f] \in Fix
  BY DEF IInv, TypeOK
<1>2. QED
  BY <1>1 DEF Fix, FixPCs, KeyOf

LEMMA GotoFrame ==
  ASSUME IInv, NEW f \in Fixers, fix[f].pc \notin {"idle", "dlq"},
         NEW pc \in FixPCs \ {"idle", "dlq", "resolve"}, Goto(f, pc),
         UNCHANGED <<oms, link, channel, queue, scan, admin, runs, wanted, stranded, expired>>,
         budget' \in Nat,
         UNCHANGED events \/ \E s \in Statuses : SetStatus(EventOf(f), s),
         NEW r \in {"STARTED", "LAPSED", "FAILED", "COMPLETED", "none"},
         idem' = [idem EXCEPT ![KeyOf(f)] = r],
         lock' \in Fixers \cup {"free", "orphan"},
         \A g \in Fixers \ {f} : lock = g => lock' = g,
         pc \in Working => r \in {"STARTED", "LAPSED"},
         pc \in {"unlock", "settle"} /\ fix[f].end = "done" => r = "COMPLETED",
         pc \in InTry /\ ~expired => lock' = f
  PROVE  IInv'
<1>1. PICK x \in Fix : /\ x.pc = pc /\ x.key = KeyOf(f) /\ x.end = fix[f].end
                      /\ fix' = [fix EXCEPT ![f] = x]
  BY Positions DEF Goto
<1>2. /\ KeyOf(f) \in Keys /\ job[KeyOf(f)].state = "active" /\ channel \in Quantities
      /\ job' = job /\ idem'[KeyOf(f)] = r
  BY FixFacts DEF Busy, IInv, TypeOK, queue
<1>3. Shape(f, x)'
  BY <1>1, <1>2 DEF Shape
<1>4. QED
  BY <1>1, <1>2, <1>3, AttemptFrame DEF Busy

LEMMA EndingFrame ==
  ASSUME IInv, NEW f \in Fixers, fix[f].pc \notin {"idle", "dlq"},
         NEW end \in {"done", "manual", "throw"}, Ending(f, end),
         UNCHANGED <<oms, link, channel, queue, redis, scan, admin, runs, wanted>>,
         budget' \in Nat, stranded' \subseteq stranded \cup {EventOf(f)},
         \/ UNCHANGED events
         \/ \E s \in Statuses : SetStatus(EventOf(f), s)
         \/ \E n \in Quantities : events' = [events EXCEPT ![EventOf(f)] =
                                                 [status |-> "RESOLVED", oms |-> n]],
         NEW r \in {"STARTED", "LAPSED", "FAILED", "COMPLETED", "none"},
         idem' = [idem EXCEPT ![KeyOf(f)] = r],
         end = "done" => r = "COMPLETED"
  PROVE  IInv'
<1>1. PICK x \in Fix : /\ x.pc = "unlock" /\ x.key = KeyOf(f) /\ x.end = end
                      /\ fix' = [fix EXCEPT ![f] = x]
  <2>1. fix \in [Fixers -> Fix] /\ fix[f] \in Fix
    BY DEF IInv, TypeOK
  <2> DEFINE d == [fix[f] EXCEPT !.pc = "unlock", !.end = end]
  <2>2. d \in Fix /\ d.pc = "unlock" /\ d.key = KeyOf(f) /\ d.end = end
    BY <2>1 DEF Fix, FixPCs, KeyOf
  <2>3. fix' = [fix EXCEPT ![f] = d]
    BY <2>1 DEF Ending
  <2>4. QED
    BY <2>2, <2>3
<1>2. /\ KeyOf(f) \in Keys /\ job[KeyOf(f)].state = "active" /\ channel \in Quantities
      /\ job' = job /\ idem'[KeyOf(f)] = r /\ lock' = lock /\ expired' = expired
      /\ lock \in Fixers \cup {"free", "orphan"}
  BY FixFacts DEF Busy, IInv, TypeOK, queue, redis
<1>3. Shape(f, x)'
  BY <1>1, <1>2 DEF Shape, Working, InTry
<1>4. QED
  BY <1>1, <1>2, <1>3, AttemptFrame DEF Busy

LEMMA RecordKept ==
  ASSUME IInv, NEW f \in Fixers, Busy(f)
  PROVE  /\ idem = [idem EXCEPT ![KeyOf(f)] = idem[KeyOf(f)]]
         /\ idem[KeyOf(f)] \in {"STARTED", "LAPSED", "FAILED", "COMPLETED", "none"}
         /\ lock \in Fixers \cup {"free", "orphan"} /\ budget \in Nat
BY FixFacts DEF IInv, TypeOK

LEMMA AcquireStep ==
  ASSUME IInv, NEW f \in Fixers, Acquire(f)
  PROVE  IInv'
<1>1. /\ fix[f].pc = "lock" /\ Busy(f)
      /\ UNCHANGED <<oms, link, channel, queue, scan, admin, runs, wanted, stranded, expired>>
      /\ UNCHANGED <<budget, events, idem>>
  BY DEF Acquire, Busy, stock, limits
<1>2. CASE lock = "free" /\ lock' = f /\ Goto(f, "reserve")
  BY <1>1, <1>2, RecordKept, DriftAssumption, GotoFrame
  DEF DriftAssumption, FixPCs, Working, InTry
<1>3. CASE /\ fix' = [fix EXCEPT ![f].pc = "settle", ![f].end = "throw"]
           /\ UNCHANGED lock
  <2> DEFINE d == [fix[f] EXCEPT !.pc = "settle", !.end = "throw"]
  <2>1. fix \in [Fixers -> Fix] /\ fix[f] \in Fix
    BY DEF IInv, TypeOK
  <2>2. d \in Fix /\ d.pc = "settle" /\ d.end = "throw" /\ d.key = KeyOf(f)
    BY <2>1 DEF Fix, FixPCs, KeyOf
  <2>3. PICK x \in Fix : /\ x.pc = "settle" /\ x.end = "throw" /\ x.key = KeyOf(f)
                        /\ fix' = [fix EXCEPT ![f] = x]
    BY <1>3, <2>1, <2>2
  <2>4. job[KeyOf(f)].state = "active" /\ KeyOf(f) \in Keys /\ job' = job
    BY <1>1, FixFacts DEF queue
  <2>5. Shape(f, x)'
    BY <2>3, <2>4 DEF Shape, Working, InTry
  <2>6. channel \in Quantities
    BY DEF IInv, TypeOK
  <2>7. QED
    BY <1>1, <1>3, <2>3, <2>5, <2>6, RecordKept, AttemptFrame
<1>4. QED
  BY <1>2, <1>3 DEF Acquire

LEMMA ReserveStep ==
  ASSUME IInv, NEW f \in Fixers, Reserve(f)
  PROVE  IInv'
<1>1. /\ fix[f].pc = "reserve" /\ Busy(f)
      /\ UNCHANGED <<oms, link, channel, queue, redis, scan, admin, runs, wanted>>
      /\ UNCHANGED <<budget, events>> /\ lock' = lock /\ expired' = expired
  BY DEF Reserve, Busy, stock, limits, redis
<1>2. ~expired => lock = f
  BY <1>1, FixFacts DEF Shape, InTry
<1>3. CASE idem[KeyOf(f)] = "COMPLETED"
  BY <1>1, <1>3, RecordKept, EndingFrame DEF Reserve
<1>4. CASE idem[KeyOf(f)] # "COMPLETED" /\ Goto(f, "catch") /\ UNCHANGED idem
  <2>1. stranded' = stranded
    BY <1>4 DEF Reserve
  <2>2. QED
    BY <1>1, <1>4, <2>1, RecordKept, GotoFrame DEF FixPCs, Working, InTry
<1>5. CASE /\ idem[KeyOf(f)] # "COMPLETED" /\ Goto(f, "find")
           /\ idem' = [idem EXCEPT ![KeyOf(f)] = "STARTED"]
  <2>1. stranded' = stranded /\ "find" \in FixPCs \ {"idle", "dlq", "resolve"}
    BY <1>5 DEF Reserve, FixPCs
  <2>2. lock' \in Fixers \cup {"free", "orphan"} /\ budget' \in Nat
    BY <1>1, RecordKept
  <2>3. QED
    BY <1>1, <1>2, <1>5, <2>1, <2>2, GotoFrame
<1>6. QED
  BY <1>3, <1>4, <1>5 DEF Reserve

\* What a fixer between the lock and the end of the try block may rely on.
LEMMA Holds ==
  ASSUME IInv, NEW f \in Fixers
  PROVE  /\ fix[f].pc \in InTry /\ ~expired => lock = f
         /\ fix[f].pc \in Working => idem[KeyOf(f)] \in {"STARTED", "LAPSED"}
BY DEF IInv, FixShape, Shape, KeyOf

LEMMA FindEventStep ==
  ASSUME IInv, NEW f \in Fixers, FindEvent(f)
  PROVE  IInv'
<1>1. /\ fix[f].pc = "find" /\ Busy(f)
      /\ UNCHANGED <<oms, link, channel, queue, redis, scan, admin, runs, wanted>>
      /\ UNCHANGED <<budget, stranded>> /\ lock' = lock /\ expired' = expired
      /\ UNCHANGED events
  BY DEF FindEvent, Busy, stock, limits, redis
<1>2. ~expired => lock = f
  BY <1>1, Holds DEF InTry
<1>3. CASE Ending(f, "done") /\ idem' = [idem EXCEPT ![KeyOf(f)] = "COMPLETED"]
  BY <1>1, <1>3, RecordKept, EndingFrame
<1>4. CASE Goto(f, "config") /\ UNCHANGED idem
  BY <1>1, <1>2, <1>4, RecordKept, Holds, GotoFrame DEF FixPCs, Working
<1>5. QED
  BY <1>3, <1>4 DEF FindEvent

LEMMA ReadConfigStep ==
  ASSUME IInv, NEW f \in Fixers, ReadConfig(f)
  PROVE  IInv'
<1>1. /\ fix[f].pc = "config" /\ Busy(f)
      /\ UNCHANGED <<oms, link, channel, queue, redis, scan, admin, runs, wanted>>
      /\ UNCHANGED <<budget, stranded>> /\ lock' = lock /\ expired' = expired
      /\ UNCHANGED <<events, idem>>
  BY DEF ReadConfig, Busy, stock, limits, redis
<1>2. (~expired => lock = f) /\ idem[KeyOf(f)] \in {"STARTED", "LAPSED"}
  BY <1>1, Holds DEF InTry, Working
<1>3. CASE Goto(f, "fixing")
  BY <1>1, <1>2, <1>3, RecordKept, GotoFrame DEF FixPCs
<1>4. CASE Goto(f, "manual")
  BY <1>1, <1>2, <1>4, RecordKept, GotoFrame DEF FixPCs, InTry
<1>5. QED
  BY <1>3, <1>4 DEF ReadConfig

LEMMA ReleaseEarlyStep ==
  ASSUME IInv, NEW f \in Fixers, ReleaseEarly(f)
  PROVE  IInv'
<1>1. /\ UNCHANGED <<stock, events, queue, idem, expired, fix, scan, admin, limits>>
      /\ UNCHANGED <<wanted, stranded>> /\ fix[f].pc = "manual" /\ lock = f /\ lock' = "free"
  BY DEF ReleaseEarly
<1>2. TypeOK'
  BY <1>1 DEF IInv, TypeOK, stock, queue, limits
<1>3. FixShape'
  BY <1>1 DEF IInv, FixShape, Shape, InTry, Busy, OthersOf, KeyOf, stock, queue
<1>4. CallShape' /\ EndedJobsAccounted'
  BY <1>1 DEF IInv, CallShape, ScanReady, RequestReady, EndedJobsAccounted, KeyOf, queue
<1>5. QED
  BY <1>2, <1>3, <1>4 DEF IInv

LEMMA FailManualStep ==
  ASSUME IInv, NEW f \in Fixers, FailManual(f)
  PROVE  IInv'
<1>1. /\ fix[f].pc = "manual" /\ Busy(f)
      /\ UNCHANGED <<oms, link, channel, queue, redis, scan, admin, runs, wanted>>
      /\ UNCHANGED <<budget, stranded>> /\ lock' = lock /\ expired' = expired
      /\ SetStatus(EventOf(f), "FAILED_MANUAL") /\ Ending(f, "manual")
      /\ idem' = [idem EXCEPT ![KeyOf(f)] = "FAILED"]
  BY DEF FailManual, Busy, stock, limits, redis
<1>2. "FAILED_MANUAL" \in Statuses
  BY DEF Statuses, Reusable
<1>3. QED
  BY <1>1, <1>2, RecordKept, EndingFrame

LEMMA MarkFixingStep ==
  ASSUME IInv, NEW f \in Fixers, MarkFixing(f)
  PROVE  IInv'
<1>1. /\ fix[f].pc = "fixing" /\ Busy(f)
      /\ UNCHANGED <<oms, link, channel, queue, redis, scan, admin, runs, wanted>>
      /\ UNCHANGED <<budget, stranded>> /\ lock' = lock /\ expired' = expired
      /\ UNCHANGED idem
  BY DEF MarkFixing, Busy, stock, limits, redis
<1>2. (~expired => lock = f) /\ idem[KeyOf(f)] \in {"STARTED", "LAPSED"}
  BY <1>1, Holds DEF InTry, Working
<1>3. CASE SetStatus(EventOf(f), "FIXING") /\ Goto(f, "read")
  <2>1. "FIXING" \in Statuses
    BY DEF Statuses, Reusable, Open
  <2>2. QED
    BY <1>1, <1>2, <1>3, <2>1, RecordKept, GotoFrame DEF FixPCs
<1>4. CASE Goto(f, "catch") /\ UNCHANGED events
  BY <1>1, <1>4, RecordKept, GotoFrame DEF FixPCs, Working, InTry
<1>5. QED
  BY <1>3, <1>4 DEF MarkFixing

\* A fixer that has just seen or set the channel at its target.
LEMMA MatchedFrame ==
  ASSUME IInv, NEW f \in Fixers, fix[f].pc \in {"read", "set"}, Matched(f),
         channel' = KeyOf(f).target,
         UNCHANGED <<oms, link, events, queue, idem, redis, scan, admin, limits, wanted, stranded>>
  PROVE  IInv'
<1>1. PICK x \in Fix : x.pc = "resolve" /\ x.key = KeyOf(f) /\ fix' = [fix EXCEPT ![f] = x]
  <2> DEFINE d == [fix[f] EXCEPT !.pc = "resolve", !.clean = TRUE]
  <2>1. fix \in [Fixers -> Fix] /\ fix[f] \in Fix
    BY DEF IInv, TypeOK
  <2>2. d \in Fix /\ d.pc = "resolve" /\ d.key = KeyOf(f)
    BY <2>1 DEF Fix, FixPCs, KeyOf
  <2>3. fix' = [fix EXCEPT ![f] = d]
    BY <2>1 DEF Matched
  <2>4. QED
    BY <2>2, <2>3
<1>2. /\ Busy(f) /\ KeyOf(f) \in Keys /\ job[KeyOf(f)].state = "active" /\ job' = job
      /\ channel' \in Quantities /\ lock' = lock /\ expired' = expired
      /\ lock \in Fixers \cup {"free", "orphan"}
  BY FixFacts, RecordKept DEF Busy, queue, redis, Keys
<1>3. (~expired => lock = f) /\ idem[KeyOf(f)] \in {"STARTED", "LAPSED"}
  BY Holds DEF InTry, Working
<1>4. Shape(f, x)'
  BY <1>1, <1>2, <1>3 DEF Shape
<1>5. UNCHANGED <<runs, budget>> /\ budget' \in Nat
  BY <1>2, RecordKept DEF limits
<1>6. QED
  BY <1>1, <1>2, <1>3, <1>4, <1>5, RecordKept, AttemptFrame

LEMMA ReadChannelStep ==
  ASSUME IInv, NEW f \in Fixers, ReadChannel(f)
  PROVE  IInv'
<1>1. /\ fix[f].pc = "read" /\ Busy(f)
      /\ UNCHANGED <<oms, link, channel, queue, redis, scan, admin, runs, wanted>>
      /\ UNCHANGED <<budget, stranded>> /\ lock' = lock /\ expired' = expired
      /\ UNCHANGED <<events, idem, limits>>
  BY DEF ReadChannel, Busy, stock, limits, redis
<1>2. (~expired => lock = f) /\ idem[KeyOf(f)] \in {"STARTED", "LAPSED"}
  BY <1>1, Holds DEF InTry, Working
<1>3. CASE channel = KeyOf(f).target /\ Matched(f)
  BY <1>1, <1>3, MatchedFrame
<1>4. CASE Goto(f, "set")
  BY <1>1, <1>2, <1>4, RecordKept, GotoFrame DEF FixPCs
<1>5. QED
  BY <1>3, <1>4 DEF ReadChannel

LEMMA SetChannelStep ==
  ASSUME IInv, NEW f \in Fixers, SetChannel(f)
  PROVE  IInv'
BY MatchedFrame DEF SetChannel

LEMMA ResolveStep ==
  ASSUME IInv, NEW f \in Fixers, Resolve(f)
  PROVE  IInv'
<1>1. /\ fix[f].pc = "resolve" /\ Busy(f)
      /\ UNCHANGED <<oms, link, channel, queue, redis, scan, admin, runs, wanted>>
      /\ UNCHANGED <<budget, stranded>> /\ lock' = lock /\ expired' = expired
      /\ events' = [events EXCEPT ![EventOf(f)] =
                      [status |-> "RESOLVED", oms |-> KeyOf(f).target]]
      /\ idem' = [idem EXCEPT ![KeyOf(f)] = "COMPLETED"] /\ Ending(f, "done")
  BY DEF Resolve, Busy, stock, limits, redis
<1>2. KeyOf(f).target \in Quantities
  BY <1>1, FixFacts DEF Keys
<1>3. QED
  BY <1>1, <1>2, RecordKept, EndingFrame

LEMMA CatchStep ==
  ASSUME IInv, NEW f \in Fixers, Catch(f)
  PROVE  IInv'
<1>1. /\ fix[f].pc = "catch" /\ Busy(f)
      /\ UNCHANGED <<oms, link, channel, queue, redis, scan, admin, runs, wanted>>
      /\ UNCHANGED <<budget, stranded>> /\ lock' = lock /\ expired' = expired
  BY DEF Catch, Busy, stock, limits, redis
<1>2. PICK end \in {"manual", "throw"} : Ending(f, end)
  BY DEF Catch
<1>3. CASE UNCHANGED <<events, idem>>
  BY <1>1, <1>2, <1>3, RecordKept, EndingFrame
<1>4. CASE /\ \E s \in Statuses : SetStatus(EventOf(f), s)
           /\ idem' = [idem EXCEPT ![KeyOf(f)] = "FAILED"]
  BY <1>1, <1>2, <1>4, RecordKept, EndingFrame
<1>5. {"FAILED_MANUAL", "RETRYING"} \subseteq Statuses
  BY DEF Statuses, Reusable, Open
<1>6. QED
  BY <1>3, <1>4, <1>5 DEF Catch

LEMMA UnlockStep ==
  ASSUME IInv, NEW f \in Fixers, Unlock(f)
  PROVE  IInv'
<1>1. /\ fix[f].pc = "unlock" /\ Busy(f) /\ Goto(f, "settle")
      /\ UNCHANGED <<oms, link, channel, queue, scan, admin, runs, wanted, stranded, expired>>
      /\ UNCHANGED <<budget, events, idem>>
      /\ lock' = IF lock = f THEN "free" ELSE lock
  BY DEF Unlock, Busy, stock, limits
<1>2. fix[f].end = "done" => idem[KeyOf(f)] = "COMPLETED"
  BY <1>1, FixFacts DEF Shape
<1>3. /\ lock' \in Fixers \cup {"free", "orphan"}
      /\ \A g \in Fixers \ {f} : lock = g => lock' = g
  BY <1>1, RecordKept
<1>4. QED
  BY <1>1, <1>2, <1>3, RecordKept, GotoFrame DEF FixPCs, Working, InTry

\* The frame for steps that end a fixer's work on its job: to idle or to the dead letter.
LEMMA LeaveFrame ==
  ASSUME IInv, NEW f \in Fixers, Busy(f), NEW x \in Fix, fix' = [fix EXCEPT ![f] = x],
         \/ x = NoFix
         \/ x.pc = "dlq" /\ x.key = KeyOf(f) /\ job'[KeyOf(f)].state = "done",
         UNCHANGED <<oms, link, channel, events, idem, scan, admin, runs, wanted, expired>>,
         budget' \in Nat, stranded' \subseteq stranded \cup {EventOf(f)},
         NEW j \in FixJob, job' = [job EXCEPT ![KeyOf(f)] = j], j.event = EventOf(f),
         dlq' \in {dlq, dlq \cup {KeyOf(f)}}, unburied' \in {unburied, unburied \cup {KeyOf(f)}},
         lock' \in Fixers \cup {"free", "orphan"},
         \A g \in Fixers \ {f} : lock = g => lock' = g,
         j.state = "done" => \/ idem[KeyOf(f)] = "COMPLETED" \/ x.pc = "dlq"
                             \/ KeyOf(f) \in dlq' \cup unburied'
  PROVE  IInv'
<1>1. /\ TypeOK /\ KeyOf(f) \in Keys /\ EventOf(f) \in DOMAIN events /\ job'[KeyOf(f)] = j
      /\ events \in Seq(Event) /\ channel \in Quantities /\ stranded \subseteq DOMAIN events
  BY FixFacts DEF IInv, TypeOK
<1>2. Shape(f, x)'
  <2>1. CASE x = NoFix
    BY <2>1 DEF Shape, NoFix, Working, InTry
  <2>2. CASE x.pc = "dlq" /\ x.key = KeyOf(f) /\ job'[KeyOf(f)].state = "done"
    BY <1>1, <2>2 DEF Shape, Working, InTry
  <2>3. QED
    BY <2>1, <2>2
<1>3. x.pc # "idle" => x.key = KeyOf(f)
  BY DEF NoFix
<1>4. PICK r \in {"STARTED", "LAPSED", "FAILED", "COMPLETED", "none"} :
        r = idem[KeyOf(f)] /\ idem' = [idem EXCEPT ![KeyOf(f)] = r]
  BY RecordKept
<1>5. stranded' \subseteq DOMAIN events'
  BY <1>1
<1>6. QED
  BY <1>1, <1>2, <1>3, <1>4, <1>5, FixFrame

LEMMA NoFixTyped == NoFix \in Fix
BY DEF NoFix, Fix, FixPCs

LEMMA SettleStep ==
  ASSUME IInv, NEW f \in Fixers, Settle(f)
  PROVE  IInv'
<1> DEFINE j == [job[KeyOf(f)] EXCEPT !.state = "done"]
<1>1. /\ fix[f].pc = "settle" /\ fix[f].end # "throw" /\ Busy(f)
      /\ fix' = [fix EXCEPT ![f] = NoFix]
      /\ UNCHANGED <<oms, link, channel, events, idem, scan, admin, runs, wanted, expired>>
      /\ UNCHANGED <<budget, stranded, unburied, lock>>
      /\ dlq' = IF fix[f].end = "manual" THEN dlq \cup {KeyOf(f)} ELSE dlq
  BY DEF Settle, Busy, stock, limits, redis
<1>2. /\ fix[f].end = "done" => idem[KeyOf(f)] = "COMPLETED"
      /\ fix[f].end \in {"done", "manual", "throw"}
  BY <1>1, FixFacts DEF Shape, Fix
<1>3. job \in [Keys -> FixJob] /\ job[KeyOf(f)] \in FixJob /\ KeyOf(f) \in Keys
  BY <1>1, FixFacts
<1>4. j \in FixJob /\ j.event = EventOf(f)
  BY <1>3 DEF FixJob, EventOf
<1>5. job' = [job EXCEPT ![KeyOf(f)] = j]
  BY <1>3 DEF Settle
<1>6. PICK i \in FixJob : i.event = EventOf(f) /\ job' = [job EXCEPT ![KeyOf(f)] = i]
  BY <1>4, <1>5
<1>7. QED
  BY <1>1, <1>2, <1>6, NoFixTyped, RecordKept, LeaveFrame

LEMMA ThrowStep ==
  ASSUME IInv, NEW f \in Fixers, Throw(f)
  PROVE  IInv'
<1> DEFINE k == KeyOf(f)
           st == IF LastTry(k) THEN "done" ELSE "waiting"
           d  == [job[k] EXCEPT !.state = st, !.made = @ + 1]
           y  == [fix[f] EXCEPT !.pc = "dlq"]
<1>1. /\ fix[f].pc = "settle" /\ Busy(f)
      /\ UNCHANGED <<oms, link, channel, events, idem, scan, admin, runs, wanted, expired>>
      /\ UNCHANGED <<budget, dlq, unburied, lock>>
      /\ stranded' \subseteq stranded \cup {EventOf(f)}
  BY DEF Throw, Busy, stock, limits, redis
<1>2. job \in [Keys -> FixJob] /\ job[k] \in FixJob /\ k \in Keys
  BY <1>1, FixFacts
<1>3. d \in FixJob /\ d.event = EventOf(f) /\ d.state = st
  <2>1. /\ st \in {"done", "waiting"} /\ job[k].event = EventOf(f)
        /\ job[k].made + 1 \in Nat
    BY <1>2 DEF EventOf, FixJob
  <2>2. PICK b \in FixJob, n \in Nat, t \in {"done", "waiting"} :
          b = job[k] /\ n = job[k].made + 1 /\ t = st
    BY <1>2, <2>1
  <2>3. d = [b EXCEPT !.state = t, !.made = n]
    BY <2>2
  <2> HIDE DEF d, st
  <2>4. d \in FixJob /\ d.event = b.event /\ d.state = t
    BY <2>3 DEF FixJob
  <2>5. QED
    BY <2>1, <2>2, <2>4
<1>4. job' = [job EXCEPT ![k] = d]
  BY <1>2 DEF Throw
<1>5. PICK i \in FixJob : /\ i.event = EventOf(f) /\ job' = [job EXCEPT ![k] = i]
                          /\ i.state = st
  BY <1>3, <1>4
<1>6. job'[k].state = st
  BY <1>2, <1>5
<1>7. CASE LastTry(k)
  <2>1. y \in Fix /\ y.pc = "dlq" /\ y.key = KeyOf(f) /\ fix' = [fix EXCEPT ![f] = y]
    BY <1>7, Positions DEF Throw, FixPCs
  <2>2. PICK x \in Fix : x.pc = "dlq" /\ x.key = KeyOf(f) /\ fix' = [fix EXCEPT ![f] = x]
    BY <2>1
  <2>3. QED
    BY <1>1, <1>5, <1>6, <1>7, <2>2, RecordKept, LeaveFrame
<1>8. CASE ~LastTry(k)
  <2>1. fix' = [fix EXCEPT ![f] = NoFix]
    BY <1>8 DEF Throw
  <2>2. QED
    BY <1>1, <1>5, <1>8, <2>1, NoFixTyped, RecordKept, LeaveFrame
<1>9. QED
  BY <1>7, <1>8

LEMMA BuryStep ==
  ASSUME IInv, NEW f \in Fixers, Bury(f)
  PROVE  IInv'
<1>1. /\ fix[f].pc = "dlq" /\ Busy(f) /\ fix' = [fix EXCEPT ![f] = NoFix]
      /\ UNCHANGED <<oms, link, channel, events, idem, scan, admin, runs, wanted, expired>>
      /\ UNCHANGED <<budget, stranded, unburied, lock, job>>
      /\ dlq' = dlq \cup {KeyOf(f)}
  BY DEF Bury, Busy, stock, limits, redis
<1>2. PICK i \in FixJob : i.event = EventOf(f) /\ job' = [job EXCEPT ![KeyOf(f)] = i]
  BY <1>1, FixFacts DEF EventOf
<1>3. QED
  BY <1>1, <1>2, NoFixTyped, RecordKept, LeaveFrame

\* The job of a dead worker waits for the next one, or has failed for good.
LEMMA CrashStep ==
  ASSUME IInv, NEW f \in Fixers, Crash(f)
  PROVE  IInv'
<1>1. /\ Busy(f) /\ fix' = [fix EXCEPT ![f] = NoFix]
      /\ UNCHANGED <<oms, link, channel, events, idem, scan, admin, runs, wanted, expired>>
      /\ UNCHANGED dlq /\ budget' \in Nat
      /\ lock' = IF lock = f THEN "orphan" ELSE lock
  BY SpendTyped DEF Crash, Busy, stock
<1>2. job \in [Keys -> FixJob] /\ job[KeyOf(f)] \in FixJob /\ KeyOf(f) \in Keys
  BY <1>1, FixFacts
<1>3. job[KeyOf(f)].stalls + 1 \in Nat /\ job[KeyOf(f)].event = EventOf(f)
  BY <1>2 DEF FixJob, EventOf
<1>4. /\ lock' \in Fixers \cup {"free", "orphan"}
      /\ \A g \in Fixers \ {f} : lock = g => lock' = g
  BY <1>1, RecordKept
<1>5. CASE unburied' = unburied \cup {KeyOf(f)} /\ UNCHANGED <<job, stranded>>
  <2>1. PICK i \in FixJob : i.event = EventOf(f) /\ job' = [job EXCEPT ![KeyOf(f)] = i]
    BY <1>2, <1>5 DEF EventOf
  <2>2. QED
    BY <1>1, <1>4, <1>5, <2>1, NoFixTyped, LeaveFrame
<1>6. CASE /\ job' = [job EXCEPT ![KeyOf(f)].state = "waiting", ![KeyOf(f)].stalls = @ + 1]
           /\ UNCHANGED <<unburied, stranded>>
  <2> DEFINE d == [job[KeyOf(f)] EXCEPT !.state = "waiting", !.stalls = @ + 1]
  <2>1. d \in FixJob /\ d.event = EventOf(f) /\ d.state = "waiting"
    BY <1>2, <1>3 DEF FixJob
  <2>2. job' = [job EXCEPT ![KeyOf(f)] = d]
    BY <1>2, <1>6
  <2>3. PICK i \in FixJob : /\ i.event = EventOf(f) /\ i.state = "waiting"
                            /\ job' = [job EXCEPT ![KeyOf(f)] = i]
    BY <2>1, <2>2
  <2>4. QED
    BY <1>1, <1>4, <1>6, <2>3, NoFixTyped, LeaveFrame
<1>7. CASE /\ job' = [job EXCEPT ![KeyOf(f)].state = "done"]
           /\ unburied' = unburied \cup {KeyOf(f)} /\ stranded' = stranded \cup {EventOf(f)}
  <2> DEFINE d == [job[KeyOf(f)] EXCEPT !.state = "done"]
  <2>1. d \in FixJob /\ d.event = EventOf(f)
    BY <1>2, <1>3 DEF FixJob
  <2>2. job' = [job EXCEPT ![KeyOf(f)] = d]
    BY <1>2, <1>7
  <2>3. PICK i \in FixJob : i.event = EventOf(f) /\ job' = [job EXCEPT ![KeyOf(f)] = i]
    BY <2>1, <2>2
  <2>4. QED
    BY <1>1, <1>4, <1>7, <2>3, NoFixTyped, LeaveFrame
<1>8. QED
  BY <1>5, <1>6, <1>7 DEF Crash

LEMMA CallFailsStep ==
  ASSUME IInv, NEW f \in Fixers, CallFails(f)
  PROVE  IInv'
<1>1. /\ fix[f].pc \in InTry \cup {"manual", "catch"} /\ Busy(f) /\ fix[f].pc # "dlq"
      /\ UNCHANGED <<oms, link, queue, scan, admin, runs, wanted, expired>>
      /\ UNCHANGED <<stranded, events, idem, lock>> /\ budget' \in Nat
  BY SpendTyped DEF CallFails, InTry, Busy, redis
<1>2. /\ channel' \in Quantities
      /\ channel' # channel /\ ~expired => lock = f
  <2>1. KeyOf(f).target \in Quantities /\ channel \in Quantities
    BY <1>1, FixFacts DEF Keys, IInv, TypeOK
  <2>2. fix[f].pc = "set" /\ ~expired => lock = f
    BY Holds DEF InTry
  <2>3. QED
    BY <2>1, <2>2 DEF CallFails
<1>3. PICK x \in Fix : /\ x.pc = "catch" \/ (x.pc = "unlock" /\ x.end = "throw")
                       /\ x.key = KeyOf(f) /\ fix' = [fix EXCEPT ![f] = x]
  <2> DEFINE y == [fix[f] EXCEPT !.pc = "catch"]
             z == [fix[f] EXCEPT !.pc = "unlock", !.end = "throw"]
  <2>1. fix \in [Fixers -> Fix] /\ fix[f] \in Fix
    BY DEF IInv, TypeOK
  <2>2. y \in Fix /\ y.pc = "catch" /\ y.key = KeyOf(f)
    BY Positions DEF FixPCs
  <2>3. z \in Fix /\ z.pc = "unlock" /\ z.end = "throw" /\ z.key = KeyOf(f)
    BY <2>1 DEF Fix, FixPCs, KeyOf
  <2>4. Goto(f, "catch") \/ Ending(f, "throw")
    BY DEF CallFails
  <2>5. fix' = [fix EXCEPT ![f] = y] \/ fix' = [fix EXCEPT ![f] = z]
    BY <2>1, <2>4 DEF Goto, Ending
  <2>6. QED
    BY <2>2, <2>3, <2>5
<1>4. KeyOf(f) \in Keys /\ job[KeyOf(f)].state = "active" /\ job' = job
  BY <1>1, FixFacts DEF queue
<1>5. Shape(f, x)'
  BY <1>3, <1>4 DEF Shape, Working, InTry
<1>6. PICK r \in {"STARTED", "LAPSED", "FAILED", "COMPLETED", "none"} :
        idem' = [idem EXCEPT ![KeyOf(f)] = r]
  BY <1>1, RecordKept
<1>7. QED
  BY <1>1, <1>2, <1>3, <1>5, <1>6, RecordKept, AttemptFrame

\* An attempt that is over as far as the lock goes may turn to throwing.
LEMMA ThrowingFrame ==
  ASSUME IInv, NEW f \in Fixers, fix[f].pc \notin {"idle", "dlq"},
         fix' = [fix EXCEPT ![f].pc = "settle", ![f].end = "throw"],
         UNCHANGED <<oms, link, channel, events, idem, queue, scan, admin, runs, wanted>>,
         UNCHANGED <<stranded, expired>>, budget' \in Nat,
         lock' \in Fixers \cup {"free", "orphan"},
         \A g \in Fixers \ {f} : lock = g => lock' = g
  PROVE  IInv'
<1> DEFINE d == [fix[f] EXCEPT !.pc = "settle", !.end = "throw"]
<1>1. fix \in [Fixers -> Fix] /\ fix[f] \in Fix /\ Busy(f) /\ channel \in Quantities
  BY DEF IInv, TypeOK, Busy
<1>2. d \in Fix /\ d.pc = "settle" /\ d.end = "throw" /\ d.key = KeyOf(f)
  BY <1>1 DEF Fix, FixPCs, KeyOf
<1>3. PICK x \in Fix : /\ x.pc = "settle" /\ x.end = "throw" /\ x.key = KeyOf(f)
                      /\ fix' = [fix EXCEPT ![f] = x]
  BY <1>1, <1>2
<1>4. job[KeyOf(f)].state = "active" /\ KeyOf(f) \in Keys /\ job' = job
  BY <1>1, FixFacts DEF queue
<1>5. Shape(f, x)'
  BY <1>3, <1>4 DEF Shape, Working, InTry
<1>6. PICK r \in {"STARTED", "LAPSED", "FAILED", "COMPLETED", "none"} :
        idem' = [idem EXCEPT ![KeyOf(f)] = r]
  BY <1>1, RecordKept
<1>7. QED
  BY <1>1, <1>3, <1>5, <1>6, AttemptFrame

\* Ending a settling attempt differently leaves it settling.
LEMMA SettledEnd ==
  ASSUME IInv, NEW f \in Fixers, fix[f].pc = "settle",
         fix' = [fix EXCEPT ![f].end = "throw"]
  PROVE  fix' = [fix EXCEPT ![f].pc = "settle", ![f].end = "throw"]
<1>1. fix \in [Fixers -> Fix] /\ fix[f] \in Fix
  BY DEF IInv, TypeOK
<1>2. [fix[f] EXCEPT !.end = "throw"] = [fix[f] EXCEPT !.pc = "settle", !.end = "throw"]
  BY <1>1 DEF Fix
<1>3. fix' = [fix EXCEPT ![f] = [fix[f] EXCEPT !.end = "throw"]]
  BY <1>1
<1>4. fix' = [fix EXCEPT ![f] = [fix[f] EXCEPT !.pc = "settle", !.end = "throw"]]
  BY <1>2, <1>3
<1>5. QED
  BY <1>1, <1>4

LEMMA LockFailsStep ==
  ASSUME IInv, NEW f \in Fixers, LockFails(f)
  PROVE  IInv'
<1>1. /\ fix[f].pc \notin {"idle", "dlq"} /\ Busy(f) /\ budget' \in Nat
      /\ fix' = [fix EXCEPT ![f].pc = "settle", ![f].end = "throw"]
      /\ UNCHANGED <<oms, link, channel, events, idem, queue, scan, admin, runs, wanted>>
      /\ UNCHANGED <<stranded, expired>>
  BY SpendTyped DEF LockFails, Busy, stock
<1>2. /\ lock' \in Fixers \cup {"free", "orphan"}
      /\ \A g \in Fixers \ {f} : lock = g => lock' = g
  BY <1>1, RecordKept, DriftAssumption DEF LockFails, DriftAssumption
<1>3. QED
  BY <1>1, <1>2, ThrowingFrame

LEMMA BuryFailsStep ==
  ASSUME IInv, NEW f \in Fixers, BuryFails(f)
  PROVE  IInv'
<1>1. /\ Busy(f) /\ budget' \in Nat
      /\ UNCHANGED <<oms, link, channel, events, idem, job, dlq, scan, admin, runs, wanted>>
      /\ UNCHANGED <<stranded, expired, lock>>
  BY SpendTyped DEF BuryFails, Busy, stock, redis
<1>2. CASE /\ fix[f].pc = "settle" /\ fix' = [fix EXCEPT ![f].end = "throw"]
           /\ UNCHANGED unburied
  <2>1. fix' = [fix EXCEPT ![f].pc = "settle", ![f].end = "throw"]
    BY <1>2, SettledEnd
  <2>2. QED
    BY <1>1, <1>2, <2>1, RecordKept, ThrowingFrame DEF queue
<1>3. CASE /\ fix[f].pc = "dlq" /\ fix' = [fix EXCEPT ![f] = NoFix]
           /\ unburied' = unburied \cup {KeyOf(f)}
  <2>1. PICK i \in FixJob : i.event = EventOf(f) /\ job' = [job EXCEPT ![KeyOf(f)] = i]
    BY <1>1, FixFacts DEF EventOf
  <2>2. QED
    BY <1>1, <1>3, <2>1, NoFixTyped, RecordKept, LeaveFrame
<1>4. QED
  BY <1>2, <1>3 DEF BuryFails

LEMMA TakeStep ==
  ASSUME IInv, NEW f \in Fixers, NEW k \in Keys, Take(f, k)
  PROVE  IInv'
<1> DEFINE x == [NoFix EXCEPT !.pc = "lock", !.key = k]
           d == [job[k] EXCEPT !.state = "active"]
<1>1. /\ fix[f] = NoFix /\ job[k].state = "waiting"
      /\ job' = [job EXCEPT ![k].state = "active"] /\ fix' = [fix EXCEPT ![f] = x]
      /\ UNCHANGED <<stock, events, dlq, unburied, idem, redis, scan, admin, limits>>
      /\ UNCHANGED <<wanted, stranded>>
  BY DEF Take
<1>2. x \in Fix /\ x.pc = "lock" /\ x.key = k
  BY DEF NoFix, Fix, FixPCs
<1>3. /\ fix' \in [Fixers -> Fix] /\ fix'[f] = x
      /\ \A g \in Fixers \ {f} : fix'[g] = fix[g]
  BY <1>1, <1>2 DEF IInv, TypeOK
<1>4. d \in FixJob /\ d.state = "active" /\ d.event = job[k].event
  BY DEF IInv, TypeOK, FixJob
<1>5. /\ job' \in [Keys -> FixJob] /\ job'[k] = d
      /\ \A i \in Keys \ {k} : job'[i] = job[i]
  BY <1>1, <1>4 DEF IInv, TypeOK
<1> HIDE DEF x, d
<1>6. TypeOK'
  <2>1. \A i \in Keys : job'[i].state # "absent" => job'[i].event \in DOMAIN events
    BY <1>1, <1>4, <1>5 DEF IInv, TypeOK
  <2>2. QED
    BY <1>1, <1>3, <1>5, <2>1 DEF IInv, TypeOK, stock, redis, limits
<1>7. \A g \in Fixers \ {f} : Busy(g) => KeyOf(g) \in Keys \ {k}
  BY <1>1 DEF IInv, FixShape, Shape, Busy, KeyOf
<1>8. FixShape'
  <2>1. ASSUME NEW g \in Fixers \ {f}  PROVE Shape(g, fix[g])'
    <3>1. /\ Shape(g, fix[g]) /\ fix'[g] = fix[g]
          /\ fix[g].pc # "idle" => fix[g].key \in Keys \ {k}
      BY <1>3, <1>7, <2>1 DEF IInv, FixShape, Busy, KeyOf
    <3>2. QED
      BY <1>1, <1>5, <3>1 DEF Shape, stock, redis
  <2>2. Shape(f, fix[f])'
    BY <1>2, <1>3, <1>4, <1>5 DEF Shape, Working, InTry
  <2>3. ASSUME NEW g \in Fixers, NEW h \in Fixers \ {g}, Busy(g)', Busy(h)'
        PROVE  KeyOf(h)' # KeyOf(g)'
    <3>1. CASE g = f
      BY <1>2, <1>3, <1>7, <2>3, <3>1 DEF Busy, KeyOf
    <3>2. CASE h = f
      BY <1>2, <1>3, <1>7, <2>3, <3>2 DEF Busy, KeyOf
    <3>3. CASE g # f /\ h # f
      BY <1>3, <2>3, <3>3 DEF OthersOf, Busy, KeyOf, IInv, FixShape
    <3>4. QED
      BY <3>1, <3>2, <3>3
  <2>4. QED
    BY <2>1, <2>2, <2>3 DEF FixShape, OthersOf
<1>9. EndedJobsAccounted'
  <2>1. ASSUME NEW i \in Keys, job'[i].state = "done"
        PROVE  \/ idem'[i] = "COMPLETED" \/ i \in dlq' \cup unburied'
               \/ \E g \in Fixers : fix'[g].pc = "dlq" /\ fix'[g].key = i
    <3>1. i # k /\ job[i].state = "done"
      BY <1>4, <1>5, <2>1
    <3>2. fix[f].pc # "dlq"
      BY <1>1 DEF NoFix
    <3>3. QED
      BY <1>1, <1>3, <3>1, <3>2 DEF IInv, EndedJobsAccounted, KeyOf
  <2>2. QED
    BY <2>1 DEF EndedJobsAccounted, KeyOf
<1>10. CallShape'
  BY <1>1 DEF IInv, CallShape, ScanReady, RequestReady
<1>11. QED
  BY <1>6, <1>8, <1>9, <1>10 DEF IInv

-----------------------------------------------------------------------------
(* The invariant.                                                          *)

LEMMA InitIInv == Init => IInv
<1> SUFFICES ASSUME Init  PROVE IInv
  OBVIOUS
<1>1. events \in Seq(Event) /\ Len(events) = 0 /\ DOMAIN events = {}
  BY DEF Init
<1>2. NoJob \in FixJob /\ NoFix \in Fix /\ NoScan \in Scan /\ NoRequest \in Request
  BY NoFixTyped, NoScanTyped, NoRequestTyped DEF NoJob, FixJob
<1>3. oms \in Quantities /\ channel \in Quantities
  BY DriftAssumption DEF Init, DriftAssumption
<1>4. job \in [Keys -> FixJob] /\ \A k \in Keys : job[k].state = "absent"
  BY <1>2 DEF Init, NoJob
<1>5. /\ fix \in [Fixers -> Fix] /\ scan \in [Scanners -> Scan]
      /\ admin \in [Operators -> Request]
      /\ \A s \in Scanners : scan[s].found = 0 /\ scan[s].pc = "idle"
      /\ \A a \in Operators : admin[a].event = 0 /\ admin[a].pc = "idle"
      /\ \A f \in Fixers : fix[f].pc = "idle"
  BY <1>2 DEF Init, NoScan, NoRequest, NoFix
<1>6. TypeOK
  <2>1. /\ idem \in [Keys -> {"none", "STARTED", "LAPSED", "FAILED", "COMPLETED"}]
        /\ runs \in [Windows -> Nat] /\ budget \in Nat /\ Len(events) <= MaxEvents
    BY <1>1, DriftAssumption DEF Init, DriftAssumption
  <2>2. /\ link \in {"ok", "inactive", "unmapped"} /\ lock \in Fixers \cup {"free", "orphan"}
        /\ wanted \in Quantities \cup {None} /\ expired \in BOOLEAN
        /\ dlq = {} /\ unburied = {} /\ stranded = {}
    BY DEF Init
  <2>3. QED
    BY <1>1, <1>3, <1>4, <1>5, <2>1, <2>2 DEF TypeOK
<1>7. CallShape
  BY <1>5 DEF CallShape, ScanReady, RequestReady
<1>8. FixShape
  BY <1>5 DEF FixShape, Shape, Working, InTry, Busy, OthersOf
<1>9. EndedJobsAccounted
  BY <1>4 DEF EndedJobsAccounted
<1>10. QED
  BY <1>6, <1>7, <1>8, <1>9 DEF IInv

LEMMA NextIInv == IInv /\ [Next]_vars => IInv'
<1> SUFFICES ASSUME IInv, [Next]_vars  PROVE IInv'
  OBVIOUS
<1>1. ASSUME NEW s \in Scanners, NEW w \in ScanWindows, StartScan(s, w)  PROVE IInv'
  BY <1>1, StartScanStep
<1>2. ASSUME NEW s \in Scanners, ScanStep(s) \/ ScanFails(s) \/ ScanDies(s)  PROVE IInv'
  BY <1>2, CompareStep, FindReusableStep, UpdateDriftStep, CreateDriftStep,
     EnqueueFixStep, ResolveInSyncStep, ScanFailsStep, ScanDiesStep DEF ScanStep
<1>3. ASSUME NEW f \in Fixers, NEW k \in Keys, Take(f, k)  PROVE IInv'
  BY <1>3, TakeStep
<1>4. ASSUME NEW f \in Fixers, FixStep(f)  PROVE IInv'
  BY <1>4, AcquireStep, ReserveStep, FindEventStep, ReadConfigStep, FailManualStep,
     MarkFixingStep, ReadChannelStep, SetChannelStep, ResolveStep, CatchStep,
     UnlockStep, SettleStep, ThrowStep, BuryStep DEF FixStep
<1>5. ASSUME NEW f \in Fixers, ReleaseEarly(f) \/ FixFails(f) \/ Crash(f)  PROVE IInv'
  BY <1>5, ReleaseEarlyStep, CallFailsStep, LockFailsStep, BuryFailsStep, CrashStep DEF FixFails
<1>6. ASSUME NEW a \in Operators, NEW e \in 1..MaxEvents,
             AskIgnore(a, e) \/ \E w \in RetryWindows : AskRetry(a, e, w)
      PROVE  IInv'
  BY <1>6, AskIgnoreStep, AskRetryStep
<1>7. ASSUME NEW a \in Operators, AdminStep(a) \/ RequestDies(a)  PROVE IInv'
  BY <1>7, RetryAddStep, RetryMarkStep, IgnoreStep, RequestDiesStep DEF AdminStep
<1>8. ASSUME Environment  PROVE IInv'
  <2>1. ASSUME NEW k \in Keys, LeaseLapses(k) \/ Evict(k)  PROVE IInv'
    BY <2>1, LeaseLapsesStep, EvictStep
  <2>2. ASSUME NEW n \in Quantities, Move(n) \/ Edit(n)  PROVE IInv'
    BY <2>2, WorldStep
  <2>3. ASSUME NEW n \in Quantities, NEW s \in Posted, CreateEvent(s, n)  PROVE IInv'
    BY <2>3, CreateEventStep
  <2>4. ASSUME NEW l \in {"ok", "inactive", "unmapped"}, Relink(l)  PROVE IInv'
    <3>1. oms \in Quantities
      BY DEF IInv, TypeOK
    <3>2. QED
      BY <2>4, <3>1, WorldStep
  <2>5. QED
    BY <1>8, <2>1, <2>2, <2>3, <2>4, OrphanExpiresStep, HeldExpiresStep DEF Environment
<1>9. CASE UNCHANGED vars
  BY <1>9 DEF vars, stock, queue, redis, limits, IInv, TypeOK, CallShape, ScanReady,
              RequestReady, FixShape, Shape, Busy, OthersOf, KeyOf, EndedJobsAccounted
<1>10. QED
  BY <1>1, <1>2, <1>3, <1>4, <1>5, <1>6, <1>7, <1>8, <1>9 DEF Next

\* A fixer that works on a key has its record open, so a completed key is set by
\* nobody, and only the catch block writes a completed record.
LEMMA NextCorrectedOnce ==
  ASSUME IInv, Next, NEW k \in Keys, idem[k] = "COMPLETED"
  PROVE  /\ \/ idem'[k] = "COMPLETED"
            \/ \E f \in Fixers : fix[f].pc = "catch" /\ KeyOf(f) = k
         /\ \A f \in Fixers :
              KeyOf(f) = k /\ fix[f].pc = "set" => fix'[f].pc # "resolve"
<1>1. \A f \in Fixers : KeyOf(f) = k => fix[f].pc \notin Working
  BY Holds
<1>2. \A f \in Fixers : KeyOf(f) = k => fix[f].pc # "set"
  BY <1>1 DEF Working
<1>3. idem \in [Keys -> {"none", "STARTED", "LAPSED", "FAILED", "COMPLETED"}]
  BY DEF IInv, TypeOK
<1>4. ASSUME NEW f \in Fixers, FixStep(f), idem' # idem, fix[f].pc # "catch"
      PROVE  idem'[k] = "COMPLETED"
  <2>1. CASE Reserve(f)
    <3>1. idem' = [idem EXCEPT ![KeyOf(f)] = "STARTED"] /\ idem[KeyOf(f)] # "COMPLETED"
      BY <1>4, <2>1 DEF Reserve
    <3>2. QED
      BY <1>3, <3>1
  <2>2. CASE FindEvent(f) \/ FailManual(f) \/ Resolve(f)
    <3>1. KeyOf(f) # k
      BY <1>1, <2>2 DEF FindEvent, FailManual, Resolve, Working
    <3>2. PICK r : idem' = [idem EXCEPT ![KeyOf(f)] = r]
      BY <1>4, <2>2 DEF FindEvent, FailManual, Resolve
    <3>3. QED
      BY <1>3, <3>1, <3>2
  <2>3. CASE \/ Acquire(f) \/ ReadConfig(f) \/ MarkFixing(f) \/ ReadChannel(f) \/ SetChannel(f)
             \/ Unlock(f) \/ Settle(f) \/ Throw(f) \/ Bury(f)
    BY <1>4, <2>3 DEF Acquire, ReadConfig, MarkFixing, ReadChannel, SetChannel,
                      Unlock, Settle, Throw, Bury
  <2>4. CASE Catch(f)
    BY <1>4, <2>4 DEF Catch
  <2>5. QED
    BY <1>4, <2>1, <2>2, <2>3, <2>4 DEF FixStep
<1>5. ASSUME NEW f \in Fixers, FixStep(f)
      PROVE  idem'[k] = "COMPLETED" \/ \E g \in Fixers : fix[g].pc = "catch" /\ KeyOf(g) = k
  <2>1. CASE idem' = idem
    BY <2>1
  <2>2. CASE fix[f].pc # "catch" /\ idem' # idem
    BY <1>4, <1>5, <2>2
  <2>3. CASE fix[f].pc = "catch" /\ KeyOf(f) = k
    BY <2>3
  <2>4. CASE fix[f].pc = "catch" /\ KeyOf(f) # k
    <3>1. Catch(f)
      BY <1>5, <2>4 DEF FixStep, Acquire, Reserve, FindEvent, ReadConfig, FailManual,
         MarkFixing, ReadChannel, SetChannel, Resolve, Unlock, Settle, Throw, Bury
    <3>2. idem' = idem \/ idem' = [idem EXCEPT ![KeyOf(f)] = "FAILED"]
      BY <3>1 DEF Catch
    <3>3. QED
      BY <1>3, <2>4, <3>2
  <2>5. QED
    BY <2>1, <2>2, <2>3, <2>4
<1>6. ASSUME NEW i \in Keys, LeaseLapses(i)  PROVE idem'[k] = "COMPLETED"
  BY <1>3, <1>6 DEF LeaseLapses
<1>7. idem'[k] = "COMPLETED" \/ \E f \in Fixers : fix[f].pc = "catch" /\ KeyOf(f) = k
  <2>1. ASSUME NEW s \in Scanners, NEW w \in ScanWindows, StartScan(s, w)
        PROVE  UNCHANGED idem
    BY <2>1 DEF StartScan
  <2>2. ASSUME NEW s \in Scanners, ScanStep(s) \/ ScanFails(s) \/ ScanDies(s)
        PROVE  UNCHANGED idem
    BY <2>2 DEF ScanStep, Compare, FindReusable, UpdateDrift, CreateDrift, EnqueueFix,
                ResolveInSync, ScanFails, ScanDies
  <2>3. ASSUME NEW f \in Fixers,
               ReleaseEarly(f) \/ FixFails(f) \/ Crash(f) \/ \E i \in Keys : Take(f, i)
        PROVE  UNCHANGED idem
    BY <2>3 DEF ReleaseEarly, FixFails, CallFails, LockFails, BuryFails, Crash, Take
  <2>4. ASSUME NEW a \in Operators,
               \/ AdminStep(a) \/ RequestDies(a)
               \/ \E e \in 1..MaxEvents : \/ AskIgnore(a, e)
                                          \/ \E w \in RetryWindows : AskRetry(a, e, w)
        PROVE  UNCHANGED idem
    BY <2>4 DEF AdminStep, RetryAdd, RetryMark, Ignore, RequestDies, AskIgnore, AskRetry
  <2>5. CASE Environment
    <3>1. UNCHANGED idem \/ \E i \in Keys : LeaseLapses(i)
      BY <2>5 DEF Environment, OrphanExpires, HeldExpires, Evict, Move, Edit, CreateEvent, Relink
    <3>2. QED
      BY <1>6, <3>1
  <2>6. QED
    BY <1>5, <2>1, <2>2, <2>3, <2>4, <2>5 DEF Next
<1>8. QED
  BY <1>2, <1>7

-----------------------------------------------------------------------------
(* The theorems.                                                           *)

\* Every reachable state is well typed: jobs, scans and requests name events that
\* exist (scan-processor.service.ts, drift-fix-processor.service.ts).
THEOREM DriftTypeCorrect == Spec => []TypeOK
<1>1. IInv => TypeOK
  BY DEF IInv
<1>2. QED
  BY <1>1, InitIInv, NextIInv, PTL DEF Spec

\* A fix job that has ended has completed its record or is in the dead-letter
\* queue, or its worker died in between (drift-fix-worker.service.ts 41-45, 71-76).
THEOREM EndedJobsAreAccounted == Spec => []EndedJobsAccounted
<1>1. IInv => EndedJobsAccounted
  BY DEF IInv
<1>2. QED
  BY <1>1, InitIInv, NextIInv, PTL DEF Spec

\* Success is recorded only when Shopify shows the target, as long as no lock has
\* expired under its holder and nobody else has edited the number
\* (drift-fix-processor.service.ts 123-153).
THEOREM SuccessShowsTarget == Spec => []ResolutionsMatch
<1>1. IInv => ResolutionsMatch
  BY DEF IInv, FixShape, Shape, ResolutionsMatch, KeyOf
<1>2. QED
  BY <1>1, InitIInv, NextIInv, PTL DEF Spec

\* A completed correction never sets the channel again
\* (drift-fix-processor.service.ts 49-57, 203-213).
THEOREM CorrectionsMadeOnce == Spec => CorrectedOnce
<1>1. IInv /\ [Next]_vars =>
        [\A k \in Keys : idem[k] = "COMPLETED" =>
           /\ \/ idem'[k] = "COMPLETED"
              \/ \E f \in Fixers : fix[f].pc = "catch" /\ KeyOf(f) = k
           /\ \A f \in Fixers :
                KeyOf(f) = k /\ fix[f].pc = "set" => fix'[f].pc # "resolve"]_vars
  BY NextCorrectedOnce
<1>2. QED
  BY <1>1, InitIInv, NextIInv, PTL DEF Spec, CorrectedOnce

-----------------------------------------------------------------------------
(* Queued events have work.  A job that is still active does nothing more   *)
(* for its event once its attempt has ended well or for good, so the        *)
(* invariant asks for work that does (Useful); a retry's job must be the    *)
(* first of its key, which its window, used by nobody else, ensures.        *)

Pending(st) == st \in Open /\ st # "DETECTED"

\* The attempt is over and will not be repeated.
Leaving(f) == fix[f].pc \in {"unlock", "settle"} /\ fix[f].end # "throw"

Useful(k) ==
  /\ job[k].state \in {"waiting", "active"}
  /\ \A f \in Fixers : KeyOf(f) = k => ~Leaving(f)

\* A scan that is in c still owes the work of event e.
Owes(c, e) ==
  /\ c.found = e /\ c.found # 0
  /\ \/ c.pc = "enqueue"
     \/ c.pc \in {"find", "write"} /\ c.status = "FAILED_MANUAL"

Jobbed(e) == \E k \in Keys : Useful(k) /\ job[k].event = e
Worked(e) == Jobbed(e) \/ \E s \in Scanners : Owes(scan[s], e)

Due == {e \in DOMAIN events \ stranded : Pending(events[e].status)}

EventsWorked == \A e \in Due : Worked(e)

ScansReport == \A s \in Scanners : scan[s].status \in {"FIX_QUEUED", "FAILED_MANUAL"}

Retrying(c) == c.pc \in {"add", "mark"}

RetryReady(c) ==
  Retrying(c) => /\ c.key.window \in RetryWindows /\ runs[c.key.window] # 0
                 /\ job[c.key].state # "absent" => c.pc = "mark" /\ job[c.key].event = c.event

RetryShape ==
  /\ \A k \in Keys : k.window \in RetryWindows /\ job[k].state # "absent" => runs[k.window] # 0
  /\ \A a \in Operators : RetryReady(admin[a])
  /\ \A a, b \in Operators : Retrying(admin[a]) /\ Retrying(admin[b])
                            /\ admin[a].key.window = admin[b].key.window => a = b

WInv == EventsWorked /\ ScansReport /\ RetryShape

LEMMA OwesIt ==
  ASSUME NEW s \in Scanners, NEW e
  PROVE  OwesWork(s) /\ scan[s].found = e <=> Owes(scan[s], e)
BY DEF OwesWork, Owes

\* Which events are due after a step that writes event e, or none.
LEMMA OneEvent ==
  ASSUME NEW e \in DOMAIN events, NEW r, events' = [events EXCEPT ![e] = r]
  PROVE  \A d \in Due' : /\ d \notin stranded' /\ d \in DOMAIN events
                         /\ d = e => Pending(r.status)
                         /\ d # e => d \in stranded \cup Due
BY DEF Due, Pending

LEMMA OneStatus ==
  ASSUME NEW e \in DOMAIN events, NEW st, SetStatus(e, st), TypeOK
  PROVE  \A d \in Due' : /\ d \notin stranded' /\ d \in DOMAIN events
                         /\ d = e => Pending(st)
                         /\ d # e => d \in stranded \cup Due
<1>1. [events[e] EXCEPT !.status = st].status = st
  BY EventFacts DEF Event
<1>2. events' = [events EXCEPT ![e] = [events[e] EXCEPT !.status = st]]
  BY DEF SetStatus
<1>3. QED
  BY <1>1, <1>2, OneEvent

LEMMA SameEvents ==
  ASSUME UNCHANGED events
  PROVE  \A d \in Due' : d \notin stranded' /\ d \in stranded \cup Due
BY DEF Due, Pending

LEMMA JobbedKept ==
  ASSUME UNCHANGED fix, \A k \in Keys : job[k].state # "absent" => job'[k] = job[k],
         NEW e, Jobbed(e)
  PROVE  Jobbed(e)'
<1>1. PICK k \in Keys : Useful(k) /\ job[k].event = e
  BY DEF Jobbed
<1>2. job'[k] = job[k]
  BY <1>1 DEF Useful
<1>3. Useful(k)'
  BY <1>1, <1>2 DEF Useful, Leaving, KeyOf
<1>4. QED
  BY <1>1, <1>2, <1>3 DEF Jobbed

LEMMA RetriesKept ==
  ASSUME RetryShape, UNCHANGED admin,
         \A w \in RetryWindows : runs[w] # 0 => runs'[w] # 0,
         \A a \in Operators : Retrying(admin[a]) => admin[a].key \in Keys,
         \A k \in Keys : k.window \in RetryWindows /\ job'[k].state # "absent" =>
                         job[k].state # "absent" /\ job'[k].event = job[k].event
  PROVE  RetryShape'
<1>1. \A k \in Keys : k.window \in RetryWindows /\ job'[k].state # "absent" => runs'[k.window] # 0
  BY DEF RetryShape
<1>2. \A a \in Operators : RetryReady(admin[a])'
  BY DEF RetryShape, RetryReady, Retrying
<1>3. QED
  BY <1>1, <1>2 DEF RetryShape, Retrying

LEMMA RetryKeys ==
  ASSUME IInv
  PROVE  \A a \in Operators : Retrying(admin[a]) => admin[a].key \in Keys
BY DEF IInv, CallShape, RequestReady, Retrying

\* A scan's step: every event that is due was due and keeps what the scan owed it,
\* or is owed its work by the scan now, or has got a job.
LEMMA ScanWorks ==
  ASSUME IInv, WInv, NEW s \in Scanners, NEW c, Saying(s, c), UNCHANGED <<fix, admin>>,
         c.status \in {"FIX_QUEUED", "FAILED_MANUAL"},
         \A w \in RetryWindows : runs'[w] = runs[w],
         \A k \in Keys : job[k].state # "absent" \/ k.window \in RetryWindows => job'[k] = job[k],
         \A e \in Due' : \/ e \in Due /\ (Owes(scan[s], e) => Owes(c, e))
                        \/ Owes(c, e)
                        \/ Jobbed(e)'
  PROVE  WInv'
<1>1. scan' = [scan EXCEPT ![s] = c] /\ scan \in [Scanners -> Scan]
  BY DEF Saying, IInv, TypeOK
<1>2. ScansReport'
  BY <1>1 DEF WInv, ScansReport
<1>3. RetryShape'
  BY RetriesKept, RetryKeys DEF WInv
<1>4. ASSUME NEW e \in Due'
      PROVE  Worked(e)'
  <2>1. CASE Owes(c, e)
    <3>1. Owes(scan'[s], e)
      BY <1>1, <2>1
    <3>2. QED
      BY <3>1 DEF Worked, Owes
  <2>2. CASE Jobbed(e)'
    BY <2>2 DEF Worked
  <2>3. CASE e \in Due /\ ~Owes(scan[s], e)
    <3>1. Worked(e)
      BY <2>3 DEF WInv, EventsWorked
    <3>2. CASE Jobbed(e)
      <4>1. Jobbed(e)'
        BY <3>2, JobbedKept
      <4>2. QED
        BY <4>1 DEF Worked
    <3>3. CASE \E t \in Scanners : Owes(scan[t], e)
      <4>1. PICK t \in Scanners : Owes(scan[t], e) /\ scan'[t] = scan[t]
        BY <1>1, <2>3, <3>3
      <4>2. Owes(scan'[t], e)
        BY <4>1
      <4>3. QED
        BY <4>2 DEF Worked, Owes
    <3>4. QED
      BY <3>1, <3>2, <3>3 DEF Worked
  <2>4. QED
    BY <1>4, <2>1, <2>2, <2>3
<1>5. EventsWorked'
  BY <1>4 DEF EventsWorked
<1>6. QED
  BY <1>2, <1>3, <1>5 DEF WInv

\* Steps of a scan that write no event and add no job.
LEMMA LookingWorks ==
  ASSUME IInv, WInv, NEW s \in Scanners,
         \/ \E w \in ScanWindows : StartScan(s, w)
         \/ Compare(s) \/ FindReusable(s) \/ ScanFails(s) \/ ScanDies(s)
  PROVE  WInv'
<1> DEFINE d(st) == [scan[s] EXCEPT !.pc = "find", !.status = st, !.again = FALSE]
           n     == [scan[s] EXCEPT !.pc = "write", !.found = NewestReusable]
           i     == [scan[s] EXCEPT !.pc = "inSync"]
<1>1. /\ UNCHANGED <<fix, admin, events, job>> /\ stranded \subseteq stranded'
      /\ \A w \in RetryWindows : runs'[w] = runs[w]
      /\ scan[s] \in Scan /\ scan[s].status \in {"FIX_QUEUED", "FAILED_MANUAL"}
  <2>1. UNCHANGED <<fix, admin, events, job>> /\ stranded \subseteq stranded'
    BY DEF StartScan, Compare, FindReusable, ScanFails, ScanDies, queue
  <2>2. \A w \in RetryWindows : runs'[w] = runs[w]
    BY ScanFacts, DriftAssumption
       DEF StartScan, Compare, FindReusable, ScanFails, ScanDies, limits, DriftAssumption, Windows
  <2>3. QED
    BY <2>1, <2>2, ScanFacts DEF WInv, ScansReport
<1>2. \A e \in Due' : e \notin stranded' /\ e \in Due
  BY <1>1, SameEvents
<1>3. /\ \A st : d(st).pc = "find" /\ d(st).status = st /\ d(st).found = scan[s].found
      /\ n.pc = "write" /\ n.status = scan[s].status /\ n.found = NewestReusable
      /\ i.pc = "inSync" /\ i.status = scan[s].status
      /\ NoScan.pc = "idle" /\ NoScan.status = "FIX_QUEUED"
  <2> HIDE DEF NewestReusable
  <2>1. QED
    BY <1>1 DEF NoScan, Scan
<1>4. ASSUME NEW c, Saying(s, c), c.status \in {"FIX_QUEUED", "FAILED_MANUAL"},
             \A e \in Due' : Owes(scan[s], e) => Owes(c, e)
      PROVE  WInv'
  BY <1>1, <1>2, <1>4, ScanWorks
<1> HIDE DEF d, n, i
<1>5. CASE \E w \in ScanWindows : StartScan(s, w)
  <2>1. PICK w \in ScanWindows : StartScan(s, w)
    BY <1>5
  <2> DEFINE c == [NoScan EXCEPT !.pc = "compare", !.window = w, !.oms = oms]
  <2>2. Saying(s, c) /\ c.status = "FIX_QUEUED" /\ scan[s].pc = "idle"
    BY <1>3, <2>1 DEF StartScan, NoScan
  <2>3. \A e : ~Owes(scan[s], e)
    BY <2>2 DEF Owes
  <2> HIDE DEF c
  <2>4. QED
    BY <1>4, <2>2, <2>3
<1>6. CASE Compare(s)
  <2>1. \A e : ~Owes(scan[s], e)
    BY <1>6 DEF Compare, Owes
  <2>2. Saying(s, d("FAILED_MANUAL")) \/ Saying(s, d("FIX_QUEUED")) \/ Saying(s, i)
    BY <1>6 DEF Compare, Report, d, i
  <2>3. QED
    BY <1>1, <1>3, <1>4, <2>1, <2>2
<1>7. CASE FindReusable(s)
  <2>1. scan[s].pc = "find"
    BY <1>7 DEF FindReusable
  <2>2. \A e \in Due' : Owes(scan[s], e) => NewestReusable = e
    <3> HIDE DEF NewestReusable
    <3>1. QED
      BY <1>2, <1>7 DEF FindReusable, OwesWork, Owes
  <2>3. CASE Saying(s, n)
    <3> HIDE DEF NewestReusable
    <3>1. \A e \in Due' : Owes(scan[s], e) => Owes(n, e)
      BY <1>3, <2>1, <2>2 DEF Owes
    <3>2. QED
      BY <1>1, <1>3, <1>4, <2>3, <3>1
  <2>4. CASE NewestReusable = 0 /\ Caught(s)
    <3>1. CASE Saying(s, d("FAILED_MANUAL"))
      <4>1. \A e \in Due' : ~Owes(scan[s], e)
        BY <2>2, <2>4 DEF Owes
      <4>2. QED
        BY <1>3, <1>4, <3>1, <4>1
    <3>2. CASE Saying(s, NoScan)
      <4>1. \A e \in Due' : ~Owes(scan[s], e)
        BY <2>2, <2>4 DEF Owes
      <4>2. QED
        BY <1>3, <1>4, <3>2, <4>1
    <3>3. QED
      BY <2>4, <3>1, <3>2 DEF Caught, Report, d
  <2>5. QED
    BY <1>7, <2>3, <2>4 DEF FindReusable, n
<1>8. CASE ScanFails(s)
  <2>1. scan[s].status = "FIX_QUEUED" /\ Saying(s, d("FAILED_MANUAL"))
    BY <1>8 DEF ScanFails, Caught, Report, d
  <2>2. \A e : Owes(scan[s], e) => Owes(d("FAILED_MANUAL"), e)
    BY <1>3 DEF Owes
  <2>3. QED
    BY <1>3, <1>4, <2>1, <2>2
<1>9. CASE ScanDies(s)
  <2>1. Saying(s, NoScan)
    BY <1>9 DEF ScanDies
  <2>2. \A e \in Due' : ~Owes(scan[s], e)
    BY <1>2, <1>9 DEF ScanDies, OwesWork, Owes
  <2>3. QED
    BY <1>3, <1>4, <2>1, <2>2
<1>10. QED
  BY <1>5, <1>6, <1>7, <1>8, <1>9

LEMMA UpdateDriftWorks ==
  ASSUME IInv, WInv, NEW s \in Scanners, UpdateDrift(s)
  PROVE  WInv'
<1> DEFINE e == scan[s].found
           r == [status |-> scan[s].status, oms |-> scan[s].oms]
           d == [scan[s] EXCEPT !.pc = "find", !.status = "FAILED_MANUAL", !.again = FALSE]
           q == [scan[s] EXCEPT !.pc = "enqueue", !.found = e]
<1>1. /\ UNCHANGED <<fix, admin, job, stranded>> /\ scan[s].pc = "write"
      /\ \A w \in RetryWindows : runs'[w] = runs[w]
      /\ scan[s] \in Scan /\ scan[s].status \in {"FIX_QUEUED", "FAILED_MANUAL"}
      /\ e \in DOMAIN events /\ e # 0
  BY ScanFacts DEF UpdateDrift, queue, limits, WInv, ScansReport
<1>2. /\ d.pc = "find" /\ d.status = "FAILED_MANUAL" /\ d.found = e
      /\ q.pc = "enqueue" /\ q.status = scan[s].status /\ q.found = e
      /\ NoScan.status = "FIX_QUEUED"
  BY <1>1 DEF Scan, NoScan
<1>3. CASE Caught(s) /\ UNCHANGED events /\ scan[s].status \in Open
  <2>1. scan[s].status = "FIX_QUEUED"
    BY <1>1, <1>3 DEF Open
  <2>2. Saying(s, d)
    BY <1>3, <2>1 DEF Caught, Report
  <2>3. \A x : Owes(scan[s], x) => Owes(d, x)
    BY <1>2 DEF Owes
  <2>4. \A x \in Due' : x \in Due
    BY <1>1, <1>3, SameEvents
  <2> HIDE DEF d
  <2>5. QED
    BY <1>1, <1>2, <2>2, <2>3, <2>4, ScanWorks
<1>4. CASE events' = [events EXCEPT ![e] = r] /\ Written(s, e)
  <2>1. \A x \in Due' : (x = e => Pending(r.status)) /\ (x # e => x \in Due)
    <3> HIDE DEF e, r
    <3>1. QED
      BY <1>1, <1>4, OneEvent
  <2>2. \A x : Owes(scan[s], x) => x = e
    BY DEF Owes
  <2>3. CASE scan[s].status = "FIX_QUEUED"
    <3>1. Saying(s, q) /\ Owes(q, e)
      BY <1>1, <1>2, <1>4, <2>3 DEF Written, Owes
    <3> HIDE DEF q, e
    <3>2. QED
      BY <1>1, <1>2, <2>1, <2>2, <3>1, ScanWorks
  <2>4. CASE scan[s].status = "FAILED_MANUAL"
    <3>1. Saying(s, NoScan) /\ ~Pending(r.status)
      BY <1>4, <2>4 DEF Written, Pending, Open
    <3> HIDE DEF e, r
    <3>2. QED
      BY <1>1, <1>2, <2>1, <2>2, <3>1, ScanWorks
  <2>5. QED
    BY <1>1, <2>3, <2>4
<1>5. QED
  BY <1>3, <1>4 DEF UpdateDrift

LEMMA CreateDriftWorks ==
  ASSUME IInv, WInv, NEW s \in Scanners, CreateDrift(s)
  PROVE  WInv'
<1> DEFINE m == Len(events) + 1
           r == [status |-> scan[s].status, oms |-> scan[s].oms]
           d == [scan[s] EXCEPT !.pc = "find", !.again = TRUE]
           q == [scan[s] EXCEPT !.pc = "enqueue", !.found = m]
<1>1. /\ UNCHANGED <<fix, admin, job, stranded>> /\ scan[s].pc = "write" /\ scan[s].found = 0
      /\ \A w \in RetryWindows : runs'[w] = runs[w]
      /\ scan[s] \in Scan /\ scan[s].status \in {"FIX_QUEUED", "FAILED_MANUAL"}
      /\ m \in Nat \ {0} /\ TypeOK /\ scan[s].pc # "idle"
  BY ScanFacts, EventFacts DEF CreateDrift, queue, limits, WInv, ScansReport, IInv
<1>2. /\ d.pc = "find" /\ d.status = scan[s].status
      /\ q.pc = "enqueue" /\ q.status = scan[s].status /\ q.found = m
      /\ NoScan.status = "FIX_QUEUED"
  BY <1>1 DEF Scan, NoScan
<1>3. \A x : ~Owes(scan[s], x)
  BY <1>1 DEF Owes
<1>4. CASE Saying(s, d) /\ UNCHANGED events
  <2>1. \A x \in Due' : x \in Due
    BY <1>1, <1>4, SameEvents
  <2> HIDE DEF d
  <2>2. QED
    BY <1>1, <1>2, <1>3, <1>4, <2>1, ScanWorks
<1>5. CASE events' = Append(events, r) /\ Written(s, m)
  <2>1. \A x \in Due' : (x = m /\ Pending(r.status)) \/ x \in Due
    <3>1. r \in Event /\ events \in Seq(Event)
      BY <1>1, ScanFacts DEF Event, Scan, ScanReady
    <3>2. /\ events' \in Seq(Event) /\ Len(events') = m /\ events'[m] = r
          /\ \A x \in 1..Len(events) : events'[x] = events[x]
      BY <1>5, <3>1, AppendProperties
    <3>3. DOMAIN events' = 1..m /\ DOMAIN events = 1..Len(events) /\ Len(events) \in Nat
      BY <1>1, <3>2, LenProperties, EventFacts
    <3>4. ASSUME NEW x \in Due', x # m
          PROVE  x \in Due
      <4>1. x \in DOMAIN events' /\ x \notin stranded' /\ Pending(events'[x].status)
        BY <3>4 DEF Due, Pending
      <4>2. x \in DOMAIN events
        BY <3>3, <3>4, <4>1
      <4>3. QED
        BY <1>1, <3>2, <3>3, <4>1, <4>2 DEF Due
    <3>5. ASSUME NEW x \in Due', x = m
          PROVE  Pending(r.status)
      BY <3>2, <3>5 DEF Due, Pending
    <3>6. QED
      BY <3>4, <3>5
  <2>2. CASE scan[s].status = "FIX_QUEUED"
    <3>1. Saying(s, q) /\ Owes(q, m)
      BY <1>1, <1>2, <1>5, <2>2 DEF Written, Owes
    <3> HIDE DEF q, m
    <3>2. QED
      BY <1>1, <1>2, <1>3, <2>1, <3>1, ScanWorks
  <2>3. CASE scan[s].status = "FAILED_MANUAL"
    <3>1. Saying(s, NoScan) /\ ~Pending(r.status)
      BY <1>5, <2>3 DEF Written, Pending, Open
    <3> HIDE DEF r, m
    <3>2. QED
      BY <1>1, <1>2, <1>3, <2>1, <3>1, ScanWorks
  <2>4. QED
    BY <1>1, <2>2, <2>3
<1>6. QED
  BY <1>4, <1>5 DEF CreateDrift

LEMMA EnqueueFixWorks ==
  ASSUME IInv, WInv, NEW s \in Scanners, EnqueueFix(s)
  PROVE  WInv'
<1>0. PICK k \in Keys, e \in DOMAIN events :
        k = [target |-> scan[s].oms, window |-> scan[s].window] /\ e = scan[s].found
  BY ScanFacts DEF EnqueueFix, ScanReady, Keys, Windows
<1>1. /\ UNCHANGED <<fix, admin, events>> /\ Saying(s, NoScan) /\ AddJob(k, e)
      /\ stranded' = IF job[k].state = "absent" THEN stranded \ {e} ELSE stranded \cup {e}
      /\ \A w \in RetryWindows : runs'[w] = runs[w]
      /\ NoScan.status = "FIX_QUEUED" /\ job \in [Keys -> FixJob]
  BY <1>0 DEF EnqueueFix, limits, NoScan, IInv, TypeOK
<1>2. k.window \notin RetryWindows
  BY <1>0, ScanFacts, DriftAssumption DEF EnqueueFix, ScanReady, DriftAssumption
<1>3. \A x : Owes(scan[s], x) => x = e
  BY <1>0 DEF Owes
<1>4. \A x \in Due' : x \notin stranded' /\ x \in stranded \cup Due
  BY <1>1, SameEvents
<1>5. \A j \in Keys : job[j].state # "absent" \/ j.window \in RetryWindows => job'[j] = job[j]
  BY <1>1, <1>2 DEF AddJob
<1>6. CASE job[k].state = "absent"
  <2>1. job'[k].state = "waiting" /\ job'[k].event = e
    BY <1>1, <1>2, <1>6 DEF AddJob, NoJob
  <2>2. \A f \in Fixers : KeyOf(f) = k => ~Leaving(f)
    BY <1>6 DEF IInv, FixShape, Shape, Leaving, KeyOf
  <2>3. Useful(k)'
    BY <1>1, <2>1, <2>2 DEF Useful, Leaving, KeyOf
  <2>4. Jobbed(e)'
    BY <1>2, <2>1, <2>3 DEF Jobbed
  <2>5. \A x \in Due' : x = e \/ x \in Due
    BY <1>1, <1>4, <1>6
  <2>6. QED
    BY <1>1, <1>3, <1>5, <2>4, <2>5, ScanWorks
<1>7. CASE job[k].state # "absent"
  <2>1. \A x \in Due' : x # e /\ x \in Due
    BY <1>1, <1>4, <1>7
  <2>2. QED
    BY <1>1, <1>3, <1>5, <2>1, ScanWorks
<1>8. QED
  BY <1>6, <1>7

LEMMA ResolveInSyncWorks ==
  ASSUME IInv, WInv, NEW s \in Scanners, ResolveInSync(s)
  PROVE  WInv'
<1>1. /\ UNCHANGED <<fix, admin, job, stranded>> /\ Saying(s, NoScan)
      /\ \A w \in RetryWindows : runs'[w] = runs[w]
      /\ NoScan.status = "FIX_QUEUED"
  BY DEF ResolveInSync, queue, limits, NoScan
<1>2. Due' = {}
  <2>1. SUFFICES ASSUME NEW e \in Due'  PROVE FALSE
    OBVIOUS
  <2>2. e \in DOMAIN events' /\ Pending(events'[e].status)
    BY <2>1 DEF Due, Pending
  <2>3. /\ e \in DOMAIN events
        /\ events'[e] = IF e \in OpenEvents THEN [status |-> "RESOLVED", oms |-> scan[s].oms]
                        ELSE events[e]
    BY <2>2 DEF ResolveInSync
  <2>4. QED
    BY <2>2, <2>3 DEF OpenEvents, Pending, Open
<1>3. QED
  BY <1>1, <1>2, ScanWorks

\* Another fixer's job stays as useful as it was.
LEMMA OthersUseful ==
  ASSUME IInv, NEW f \in Fixers, NEW x, fix' = [fix EXCEPT ![f] = x],
         x.key = KeyOf(f) \/ x = NoFix,
         NEW k \in Keys, k # KeyOf(f), job'[k] = job[k], Useful(k)
  PROVE  Useful(k)'
<1>1. \A g \in Fixers : fix'[g] = IF g = f THEN x ELSE fix[g]
  BY DEF IInv, TypeOK
<1>2. NoFix.pc = "idle"
  BY DEF NoFix
<1>3. ASSUME NEW g \in Fixers, fix'[g].key = k
      PROVE  ~(fix'[g].pc \in {"unlock", "settle"} /\ fix'[g].end # "throw")
  BY <1>1, <1>2, <1>3 DEF Useful, Leaving, KeyOf
<1>4. QED
  BY <1>3 DEF Useful, Leaving, KeyOf

\* A fixer's job is useful while the attempt goes on or will be repeated.
LEMMA OwnUseful ==
  ASSUME IInv, NEW f \in Fixers, Busy(f), NEW x, fix' = [fix EXCEPT ![f] = x],
         \/ x = NoFix
         \/ x.key = KeyOf(f) /\ (x.pc \notin {"unlock", "settle"} \/ x.end = "throw"),
         NEW k \in Keys, k = KeyOf(f), job'[k].state \in {"waiting", "active"}
  PROVE  Useful(k)'
<1>1. \A g \in Fixers : fix'[g] = IF g = f THEN x ELSE fix[g]
  BY DEF IInv, TypeOK
<1>2. NoFix.pc = "idle"
  BY DEF NoFix
<1>3. \A g \in Fixers \ {f} : Busy(g) => fix[g].key # k
  BY FixFacts DEF OthersOf, KeyOf
<1>4. ASSUME NEW g \in Fixers, fix'[g].key = k
      PROVE  ~(fix'[g].pc \in {"unlock", "settle"} /\ fix'[g].end # "throw")
  BY <1>1, <1>2, <1>3, <1>4 DEF Busy
<1>5. QED
  BY <1>4 DEF Useful, Leaving, KeyOf

\* A fixer's step: what is due was due or is the event of the attempt, whose job
\* stays useful, was not, or is not needed any more.
LEMMA FixWorks ==
  ASSUME IInv, WInv, NEW f \in Fixers, Busy(f), NEW x, fix' = [fix EXCEPT ![f] = x],
         x.key = KeyOf(f) \/ x = NoFix,
         UNCHANGED <<scan, admin, runs>>,
         NEW k \in Keys, k = KeyOf(f), NEW e, e = EventOf(f),
         \A i \in Keys \ {k} : job'[i] = job[i],
         job'[k].event = e, job'[k].state # "absent",
         \/ /\ job'[k].state \in {"waiting", "active"}
            /\ x = NoFix \/ x.pc \notin {"unlock", "settle"} \/ x.end = "throw"
            /\ \A d \in Due' : d \in Due \/ d = e
         \/ /\ ~Useful(k) \/ e \notin Due'
            /\ \A d \in Due' : d \in Due
  PROVE  WInv'
<1> DEFINE kept == /\ job'[k].state \in {"waiting", "active"}
                   /\ x = NoFix \/ x.pc \notin {"unlock", "settle"} \/ x.end = "throw"
                   /\ \A d \in Due' : d \in Due \/ d = e
<1>1. job[k].state \in {"active", "done"} /\ job[k].event = e
  BY FixFacts DEF EventOf
<1>2. RetryShape'
  <2>1. \A i \in Keys : i.window \in RetryWindows /\ job'[i].state # "absent" =>
                        job[i].state # "absent" /\ job'[i].event = job[i].event
    BY <1>1
  <2>2. QED
    BY <2>1, RetriesKept, RetryKeys DEF WInv
<1>3. kept => Jobbed(e)'
  <2>1. kept => Useful(k)'
    BY OwnUseful
  <2>2. QED
    BY <2>1 DEF Jobbed
<1>4. ASSUME NEW d \in Due'
      PROVE  Worked(d)'
  <2>1. CASE d = e /\ kept
    BY <1>3, <2>1 DEF Worked
  <2>2. CASE ~(d = e /\ kept)
    <3>1. d \in Due /\ Worked(d)
      BY <1>4, <2>2 DEF WInv, EventsWorked
    <3>2. CASE Jobbed(d)
      <4>1. PICK i \in Keys : Useful(i) /\ job[i].event = d
        BY <3>2 DEF Jobbed
      <4>2. i # k
        BY <1>1, <1>4, <2>2, <4>1
      <4>3. Useful(i)' /\ job'[i].event = d
        BY <4>1, <4>2, OthersUseful
      <4>4. QED
        BY <4>3 DEF Worked, Jobbed
    <3>3. CASE \E s \in Scanners : Owes(scan[s], d)
      BY <3>3 DEF Worked, Owes
    <3>4. QED
      BY <3>1, <3>2, <3>3 DEF Worked
  <2>3. QED
    BY <2>1, <2>2
<1>5. QED
  BY <1>2, <1>4 DEF WInv, EventsWorked, ScansReport

LEMMA FixerKeeps ==
  ASSUME IInv, NEW f \in Fixers, NEW x, fix' = [fix EXCEPT ![f] = x]
  PROVE  fix'[f] = x /\ fix[f] \in Fix
BY DEF IInv, TypeOK

\* The job of an attempt that goes on is useful.
LEMMA StaysWorks ==
  ASSUME IInv, WInv, NEW f \in Fixers, fix[f].pc \notin {"idle", "dlq"},
         NEW x, fix' = [fix EXCEPT ![f] = x], x.key = KeyOf(f),
         x.pc \notin {"unlock", "settle"} \/ x.end = "throw",
         UNCHANGED <<scan, admin, runs, job>>,
         \A d \in Due' : d \in Due \/ d = EventOf(f)
  PROVE  WInv'
<1>1. PICK k \in Keys, e \in DOMAIN events :
        /\ k = KeyOf(f) /\ e = EventOf(f) /\ Busy(f)
        /\ job[k].state = "active" /\ job[k].event = e
  BY FixFacts DEF Busy, EventOf
<1>2. /\ job'[k].state = "active" /\ job'[k].event = e /\ job'[k].state # "absent"
      /\ \A i \in Keys \ {k} : job'[i] = job[i]
  BY <1>1
<1>3. \A d \in Due' : d \in Due \/ d = e
  BY <1>1
<1>4. QED
  BY <1>1, <1>2, <1>3, FixWorks

\* An attempt goes on, or throws: its job will be looked at again.
LEMMA GoingWorks ==
  ASSUME IInv, WInv, NEW f \in Fixers, fix[f].pc \notin {"idle", "dlq"},
         UNCHANGED <<scan, admin, runs, job>>, stranded \subseteq stranded',
         \/ \E pc \in FixPCs \ {"idle", "dlq", "unlock", "settle"} :
               \E c \in BOOLEAN : \/ fix' = [fix EXCEPT ![f].pc = pc]
                                 \/ fix' = [fix EXCEPT ![f].pc = pc, ![f].clean = c]
         \/ \E pc \in {"unlock", "settle"} : fix' = [fix EXCEPT ![f].pc = pc, ![f].end = "throw"],
         UNCHANGED events \/ \E st \in Statuses : SetStatus(EventOf(f), st)
  PROVE  WInv'
<1>1. PICK k \in Keys, e \in DOMAIN events :
        /\ k = KeyOf(f) /\ e = EventOf(f) /\ Busy(f) /\ TypeOK
        /\ job[k].state = "active" /\ job[k].event = e
  BY FixFacts DEF Busy, EventOf, IInv
<1>2. PICK x : /\ fix' = [fix EXCEPT ![f] = x] /\ x.key = KeyOf(f)
               /\ x.pc \notin {"unlock", "settle"} \/ x.end = "throw"
  <2>1. fix \in [Fixers -> Fix] /\ fix[f] \in Fix
    BY DEF IInv, TypeOK
  <2>2. ASSUME NEW pc \in FixPCs \ {"idle", "dlq", "unlock", "settle"},
               fix' = [fix EXCEPT ![f].pc = pc]
        PROVE  \E x : /\ fix' = [fix EXCEPT ![f] = x] /\ x.key = KeyOf(f)
                      /\ x.pc \notin {"unlock", "settle"} \/ x.end = "throw"
    <3> DEFINE d == [fix[f] EXCEPT !.pc = pc]
    <3>1. d.pc = pc /\ d.key = KeyOf(f) /\ fix' = [fix EXCEPT ![f] = d]
      BY <2>1, <2>2 DEF Fix, KeyOf
    <3> HIDE DEF d
    <3>2. QED
      BY <3>1
  <2>3. ASSUME NEW pc \in FixPCs \ {"idle", "dlq", "unlock", "settle"}, NEW c \in BOOLEAN,
               fix' = [fix EXCEPT ![f].pc = pc, ![f].clean = c]
        PROVE  \E x : /\ fix' = [fix EXCEPT ![f] = x] /\ x.key = KeyOf(f)
                      /\ x.pc \notin {"unlock", "settle"} \/ x.end = "throw"
    <3> DEFINE d == [fix[f] EXCEPT !.pc = pc, !.clean = c]
    <3>1. d.pc = pc /\ d.key = KeyOf(f) /\ fix' = [fix EXCEPT ![f] = d]
      BY <2>1, <2>3 DEF Fix, KeyOf
    <3> HIDE DEF d
    <3>2. QED
      BY <3>1
  <2>4. ASSUME NEW pc \in {"unlock", "settle"},
               fix' = [fix EXCEPT ![f].pc = pc, ![f].end = "throw"]
        PROVE  \E x : /\ fix' = [fix EXCEPT ![f] = x] /\ x.key = KeyOf(f)
                      /\ x.pc \notin {"unlock", "settle"} \/ x.end = "throw"
    <3> DEFINE d == [fix[f] EXCEPT !.pc = pc, !.end = "throw"]
    <3>1. d.end = "throw" /\ d.key = KeyOf(f) /\ fix' = [fix EXCEPT ![f] = d]
      BY <2>1, <2>4 DEF Fix, KeyOf
    <3> HIDE DEF d
    <3>2. QED
      BY <3>1
  <2>5. QED
    BY <2>2, <2>3, <2>4
<1>3. \A d \in Due' : d \in Due \/ d = e
  <2>1. CASE UNCHANGED events
    BY <2>1, SameEvents
  <2>2. CASE \E st \in Statuses : SetStatus(e, st)
    BY <1>1, <2>2, OneStatus
  <2>3. QED
    BY <1>1, <2>1, <2>2
<1>4. QED
  BY <1>1, <1>2, <1>3, StaysWorks

\* An attempt ends well or for good: its event is not due any more, or is stranded.
LEMMA EndingWorks ==
  ASSUME IInv, WInv, NEW f \in Fixers, fix[f].pc \notin {"idle", "dlq"},
         UNCHANGED <<scan, admin, runs, job>>, stranded \subseteq stranded',
         NEW end \in {"done", "manual"}, Ending(f, end),
         \/ UNCHANGED events
         \/ \E st \in {"FAILED_MANUAL"} : SetStatus(EventOf(f), st)
         \/ \E r : /\ events' = [events EXCEPT ![EventOf(f)] = r]
                   /\ ~Pending(r.status),
         UNCHANGED events =>
           EventOf(f) \in stranded' \/ ~Pending(events[EventOf(f)].status)
  PROVE  WInv'
<1>1. PICK k \in Keys, e \in DOMAIN events :
        /\ k = KeyOf(f) /\ e = EventOf(f) /\ Busy(f) /\ TypeOK
        /\ job[k].state = "active" /\ job[k].event = e
  BY FixFacts DEF Busy, EventOf, IInv
<1>2. PICK x : fix' = [fix EXCEPT ![f] = x] /\ x.key = KeyOf(f)
  <2> DEFINE d == [fix[f] EXCEPT !.pc = "unlock", !.end = end]
  <2>0. fix \in [Fixers -> Fix] /\ fix[f] \in Fix
    BY DEF IInv, TypeOK
  <2>1. d.key = KeyOf(f) /\ fix' = [fix EXCEPT ![f] = d]
    BY <2>0 DEF Ending, Fix, KeyOf
  <2> HIDE DEF d
  <2>2. QED
    BY <2>1
<1>3. \A d \in Due' : d \in Due /\ d # e
  <2>1. CASE UNCHANGED events
    BY <1>1, <2>1, SameEvents DEF Due
  <2>2. CASE SetStatus(e, "FAILED_MANUAL")
    <3>1. ~Pending("FAILED_MANUAL")
      BY DEF Pending, Open
    <3>2. QED
      BY <1>1, <2>2, <3>1, OneStatus
  <2>3. CASE \E r : events' = [events EXCEPT ![e] = r] /\ ~Pending(r.status)
    BY <1>1, <2>3, OneEvent
  <2>4. QED
    BY <1>1, <2>1, <2>2, <2>3
<1>4. QED
  BY <1>1, <1>2, <1>3, FixWorks

\* The statements of an attempt up to the release of the lock.
LEMMA AttemptWorks ==
  ASSUME IInv, WInv, NEW f \in Fixers,
         \/ Acquire(f) \/ Reserve(f) \/ FindEvent(f) \/ ReadConfig(f) \/ FailManual(f)
         \/ MarkFixing(f) \/ ReadChannel(f) \/ SetChannel(f) \/ Resolve(f) \/ Catch(f)
         \/ CallFails(f) \/ LockFails(f)
  PROVE  WInv'
<1>1. /\ fix[f].pc \notin {"idle", "dlq"} /\ UNCHANGED <<scan, admin, runs, job>>
      /\ stranded \subseteq stranded'
  BY DEF Acquire, Reserve, FindEvent, ReadConfig, FailManual, MarkFixing, ReadChannel, SetChannel,
         Resolve, Catch, CallFails, LockFails, InTry, queue, limits
<1>2. {"reserve", "find", "config", "manual", "fixing", "read", "set", "resolve", "catch"}
        \subseteq FixPCs \ {"idle", "dlq", "unlock", "settle"}
  BY DEF FixPCs
<1>3. {"FIXING", "RETRYING", "FAILED_MANUAL"} \subseteq Statuses
  BY DEF Statuses, Reusable, Open
<1>4. ASSUME NEW pc \in {"reserve", "find", "config", "manual", "fixing", "read", "set", "catch"},
             Goto(f, pc), UNCHANGED events \/ \E st \in Statuses : SetStatus(EventOf(f), st)
      PROVE  WInv'
  <2>1. pc \in FixPCs \ {"idle", "dlq", "unlock", "settle"}
    BY <1>2
  <2>2. fix' = [fix EXCEPT ![f].pc = pc]
    BY <1>4 DEF Goto
  <2>3. QED
    BY <1>1, <1>4, <2>1, <2>2, GoingWorks
<1>5. CASE Acquire(f)
  BY <1>1, <1>4, <1>5, GoingWorks DEF Acquire
<1>6. CASE Reserve(f)
  <2>1. CASE idem[KeyOf(f)] = "COMPLETED"
    <3>1. Ending(f, "done") /\ UNCHANGED events /\ EventOf(f) \in stranded'
      BY <1>6, <2>1 DEF Reserve
    <3>2. QED
      BY <1>1, <3>1, EndingWorks
  <2>2. CASE idem[KeyOf(f)] # "COMPLETED"
    BY <1>4, <1>6, <2>2 DEF Reserve
  <2>3. QED
    BY <2>1, <2>2
<1>7. CASE FindEvent(f)
  <2>1. CASE events[EventOf(f)].status \in {"RESOLVED", "IGNORED"}
    <3>1. Ending(f, "done") /\ UNCHANGED events /\ ~Pending(events[EventOf(f)].status)
      BY <1>7, <2>1 DEF FindEvent, Pending, Open
    <3>2. QED
      BY <1>1, <3>1, EndingWorks
  <2>2. CASE events[EventOf(f)].status \notin {"RESOLVED", "IGNORED"}
    BY <1>4, <1>7, <2>2 DEF FindEvent
  <2>3. QED
    BY <2>1, <2>2
<1>8. CASE ReadConfig(f)
  BY <1>4, <1>8 DEF ReadConfig
<1>9. ASSUME NEW end \in {"done", "manual"}, Ending(f, end),
             SetStatus(EventOf(f), "FAILED_MANUAL")
      PROVE  WInv'
  <2>1. UNCHANGED events => ~Pending(events[EventOf(f)].status)
    <3>1. EventOf(f) \in DOMAIN events /\ events[EventOf(f)] \in Event
      BY <1>1, FixFacts DEF Busy
    <3>2. events'[EventOf(f)].status = "FAILED_MANUAL"
      BY <1>9, <3>1 DEF SetStatus, Event
    <3>3. QED
      BY <3>2 DEF Pending, Open
  <2>2. QED
    BY <1>1, <1>9, <2>1, EndingWorks
<1>10. CASE FailManual(f)
  BY <1>9, <1>10 DEF FailManual
<1>11. CASE MarkFixing(f)
  BY <1>3, <1>4, <1>11 DEF MarkFixing
<1>12. CASE ReadChannel(f) \/ SetChannel(f)
  <2>1. CASE Matched(f)
    <3>1. fix' = [fix EXCEPT ![f].pc = "resolve", ![f].clean = TRUE] /\ UNCHANGED events
      BY <1>12, <2>1 DEF Matched, ReadChannel, SetChannel
    <3>2. QED
      BY <1>1, <1>2, <3>1, GoingWorks
  <2>2. CASE Goto(f, "set")
    BY <1>4, <1>12, <2>2 DEF ReadChannel, SetChannel
  <2>3. QED
    BY <1>12, <2>1, <2>2 DEF ReadChannel, SetChannel
<1>13. CASE Resolve(f)
  <2> DEFINE r == [status |-> "RESOLVED", oms |-> KeyOf(f).target]
  <2>1. Ending(f, "done") /\ events' = [events EXCEPT ![EventOf(f)] = r] /\ ~Pending(r.status)
    BY <1>13 DEF Resolve, Pending, Open
  <2>2. UNCHANGED events => ~Pending(events[EventOf(f)].status)
    <3>1. EventOf(f) \in DOMAIN events
      BY <1>1, FixFacts DEF Busy
    <3>2. QED
      BY <2>1, <3>1
  <2> HIDE DEF r
  <2>3. QED
    BY <1>1, <2>1, <2>2, EndingWorks
<1>14. CASE Catch(f)
  <2>1. CASE Ending(f, "manual") /\ SetStatus(EventOf(f), "FAILED_MANUAL")
    BY <1>9, <2>1
  <2>2. CASE /\ Ending(f, "throw")
             /\ UNCHANGED events \/ SetStatus(EventOf(f), "RETRYING")
    BY <1>1, <1>3, <2>2, GoingWorks DEF Ending
  <2>3. QED
    BY <1>14, <2>1, <2>2 DEF Catch
<1>15. CASE CallFails(f)
  <2>1. UNCHANGED events /\ (Goto(f, "catch") \/ Ending(f, "throw"))
    BY <1>15 DEF CallFails
  <2>2. CASE Ending(f, "throw")
    BY <1>1, <2>1, <2>2, GoingWorks DEF Ending
  <2>3. QED
    BY <1>4, <2>1, <2>2
<1>16. CASE LockFails(f)
  <2>1. UNCHANGED events /\ fix' = [fix EXCEPT ![f].pc = "settle", ![f].end = "throw"]
    BY <1>16 DEF LockFails
  <2>2. QED
    BY <1>1, <2>1, GoingWorks
<1>17. QED
  BY <1>5, <1>6, <1>7, <1>8, <1>10, <1>11, <1>12, <1>13, <1>14, <1>15, <1>16

LEMMA UnlockWorks ==
  ASSUME IInv, WInv, NEW f \in Fixers, Unlock(f)
  PROVE  WInv'
<1>1. /\ fix[f].pc = "unlock" /\ UNCHANGED <<scan, admin, runs, job, events, stranded>>
      /\ Goto(f, "settle")
  BY DEF Unlock, queue, limits
<1>2. PICK x : /\ fix' = [fix EXCEPT ![f] = x] /\ x.key = KeyOf(f) /\ x.end = fix[f].end
  <2> DEFINE d == [fix[f] EXCEPT !.pc = "settle"]
  <2>1. d.key = KeyOf(f) /\ d.end = fix[f].end /\ fix' = [fix EXCEPT ![f] = d]
    BY <1>1, Positions DEF Goto, FixPCs
  <2> HIDE DEF d
  <2>2. QED
    BY <2>1
<1>3. \A d \in Due' : d \in Due
  BY <1>1, SameEvents
<1>4. CASE fix[f].end = "throw"
  BY <1>1, <1>2, <1>3, <1>4, StaysWorks
<1>5. CASE fix[f].end # "throw"
  <2>1. PICK k \in Keys, e \in DOMAIN events :
          /\ k = KeyOf(f) /\ e = EventOf(f) /\ Busy(f)
          /\ job[k].state = "active" /\ job[k].event = e
    BY <1>1, FixFacts DEF Busy, EventOf
  <2>2. ~Useful(k)
    BY <1>1, <1>5, <2>1 DEF Useful, Leaving
  <2>3. /\ job'[k].event = e /\ job'[k].state # "absent" /\ \A i \in Keys \ {k} : job'[i] = job[i]
    BY <1>1, <2>1
  <2>4. QED
    BY <1>1, <1>2, <1>3, <2>1, <2>2, <2>3, FixWorks
<1>6. QED
  BY <1>4, <1>5

\* The fixer leaves its job: the job is done and its event does not need it, is
\* stranded, or the job goes back to the queue.
LEMMA LeavingWorks ==
  ASSUME IInv, WInv, NEW f \in Fixers,
         Settle(f) \/ Throw(f) \/ Bury(f) \/ BuryFails(f) \/ Crash(f)
  PROVE  WInv'
<1>1. /\ Busy(f) /\ UNCHANGED <<scan, admin, runs, events>> /\ stranded \subseteq stranded'
  BY DEF Settle, Throw, Bury, BuryFails, Crash, Busy, limits
<1>2. PICK k \in Keys, e \in DOMAIN events :
        /\ k = KeyOf(f) /\ e = EventOf(f) /\ job[k].event = e
        /\ job[k].state = (IF fix[f].pc = "dlq" THEN "done" ELSE "active")
        /\ job \in [Keys -> FixJob]
  BY <1>1, FixFacts DEF EventOf
<1>3. \A d \in Due' : d \in Due
  BY <1>1, SameEvents
<1>4. \A d \in Due' : d \in Due \/ d = e
  BY <1>3
<1>5. CASE Settle(f)
  <2>1. ~Useful(k) /\ fix' = [fix EXCEPT ![f] = NoFix]
    BY <1>2, <1>5 DEF Settle, Useful, Leaving
  <2>2. job' = [job EXCEPT ![k].state = "done"]
    BY <1>2, <1>5 DEF Settle
  <2>3. /\ job'[k].event = e /\ job'[k].state # "absent" /\ \A i \in Keys \ {k} : job'[i] = job[i]
    BY <1>2, <2>2 DEF FixJob
  <2>4. QED
    BY <1>1, <1>2, <1>3, <2>1, <2>3, FixWorks
<1>6. CASE Throw(f)
  <2>1. job' = [job EXCEPT ![k].state = IF LastTry(k) THEN "done" ELSE "waiting",
                           ![k].made = @ + 1]
    BY <1>2, <1>6 DEF Throw
  <2>2. /\ job'[k].event = e /\ job'[k].state = (IF LastTry(k) THEN "done" ELSE "waiting")
        /\ \A i \in Keys \ {k} : job'[i] = job[i]
    BY <1>2, <2>1 DEF FixJob
  <2>3. job'[k].state # "absent"
    BY <2>2
  <2>4. CASE LastTry(k)
    <3>1. e \notin Due'
      BY <1>2, <1>6, <2>4 DEF Throw, Due
    <3>2. PICK x : fix' = [fix EXCEPT ![f] = x] /\ x.key = KeyOf(f)
      <4> DEFINE d == [fix[f] EXCEPT !.pc = "dlq"]
      <4>1. d.key = KeyOf(f) /\ fix' = [fix EXCEPT ![f] = d]
        BY <1>2, <1>6, <2>4, Positions DEF Throw, FixPCs
      <4> HIDE DEF d
      <4>2. QED
        BY <4>1
    <3>3. QED
      BY <1>1, <1>2, <1>3, <2>2, <2>3, <3>1, <3>2, FixWorks
  <2>5. CASE ~LastTry(k)
    <3>1. fix' = [fix EXCEPT ![f] = NoFix] /\ job'[k].state = "waiting"
      BY <1>2, <1>6, <2>2, <2>5 DEF Throw
    <3>2. QED
      BY <1>1, <1>2, <1>4, <2>2, <2>3, <3>1, FixWorks
  <2>6. QED
    BY <2>4, <2>5
<1>7. CASE Bury(f) \/ ((BuryFails(f) \/ Crash(f)) /\ fix[f].pc = "dlq")
  <2>1. ~Useful(k) /\ fix' = [fix EXCEPT ![f] = NoFix] /\ UNCHANGED job
    BY <1>2, <1>7 DEF Bury, BuryFails, Crash, Useful
  <2>2. /\ job'[k].event = e /\ job'[k].state # "absent" /\ \A i \in Keys \ {k} : job'[i] = job[i]
    BY <1>2, <2>1
  <2>3. QED
    BY <1>1, <1>2, <1>3, <2>1, <2>2, FixWorks
<1>8. CASE BuryFails(f) /\ fix[f].pc # "dlq"
  <2>1. /\ fix[f].pc = "settle" /\ UNCHANGED job
        /\ fix' = [fix EXCEPT ![f].pc = "settle", ![f].end = "throw"]
    BY <1>8, SettledEnd DEF BuryFails
  <2>2. QED
    BY <1>1, <2>1, GoingWorks
<1>9. CASE Crash(f) /\ fix[f].pc # "dlq"
  <2>1. fix' = [fix EXCEPT ![f] = NoFix]
    BY <1>9 DEF Crash
  <2>2. CASE job' = [job EXCEPT ![k].state = "waiting", ![k].stalls = @ + 1]
    <3>1. /\ job'[k].event = e /\ job'[k].state = "waiting" /\ job'[k].state # "absent"
          /\ \A i \in Keys \ {k} : job'[i] = job[i]
      BY <1>2, <2>2 DEF FixJob
    <3>2. QED
      BY <1>1, <1>2, <1>4, <2>1, <3>1, FixWorks
  <2>3. CASE job' = [job EXCEPT ![k].state = "done"] /\ e \in stranded'
    <3>1. /\ job'[k].event = e /\ job'[k].state # "absent"
          /\ \A i \in Keys \ {k} : job'[i] = job[i]
      BY <1>2, <2>3 DEF FixJob
    <3>2. e \notin Due'
      BY <2>3 DEF Due
    <3>3. QED
      BY <1>1, <1>2, <1>3, <2>1, <3>1, <3>2, FixWorks
  <2>4. QED
    BY <1>2, <1>9, <2>2, <2>3 DEF Crash
<1>10. QED
  BY <1>5, <1>6, <1>7, <1>8, <1>9

\* A step beside scans and fixers takes no useful job away.
LEMMA EventsStay ==
  ASSUME WInv, UNCHANGED scan,
         \A f \in Fixers : fix'[f].pc \in {"unlock", "settle"} /\ fix'[f].end # "throw" =>
                            Leaving(f) /\ fix'[f].key = KeyOf(f),
         \A k \in Keys : job[k].state \in {"waiting", "active"} =>
                         job'[k].state \in {"waiting", "active"} /\ job'[k].event = job[k].event,
         \A e \in Due' : e \in Due \/ Jobbed(e)'
  PROVE  EventsWorked' /\ ScansReport'
<1>1. ASSUME NEW k \in Keys, Useful(k)
      PROVE  Useful(k)' /\ job'[k].event = job[k].event
  BY <1>1 DEF Useful, Leaving, KeyOf
<1>2. ASSUME NEW e \in Due', e \in Due
      PROVE  Worked(e)'
  <2>1. Worked(e)
    BY <1>2 DEF WInv, EventsWorked
  <2>2. CASE Jobbed(e)
    BY <1>1, <2>2 DEF Jobbed, Worked
  <2>3. CASE \E s \in Scanners : Owes(scan[s], e)
    BY <2>3 DEF Worked, Owes
  <2>4. QED
    BY <2>1, <2>2, <2>3 DEF Worked
<1>3. QED
  BY <1>2 DEF EventsWorked, Worked, WInv, ScansReport

LEMMA WorldWorks ==
  ASSUME IInv, WInv, UNCHANGED <<scan, admin, runs, events>>, stranded \subseteq stranded',
         \A f \in Fixers : fix'[f].pc \in {"unlock", "settle"} /\ fix'[f].end # "throw" =>
                            Leaving(f) /\ fix'[f].key = KeyOf(f),
         \A k \in Keys : job[k].state \in {"waiting", "active"} =>
                         job'[k].state \in {"waiting", "active"} /\ job'[k].event = job[k].event,
         \A k \in Keys : job'[k].state # "absent" =>
                         job[k].state # "absent" /\ job'[k].event = job[k].event
  PROVE  WInv'
<1>1. \A e \in Due' : e \in Due
  BY SameEvents
<1>2. EventsWorked' /\ ScansReport'
  BY <1>1, EventsStay
<1>3. RetryShape'
  BY RetriesKept, RetryKeys DEF WInv
<1>4. QED
  BY <1>2, <1>3 DEF WInv

\* Time, eviction, stock that moves, and a worker that takes a job.
LEMMA EnvironmentWorks ==
  ASSUME IInv, WInv,
         \/ OrphanExpires \/ HeldExpires
         \/ \E k \in Keys : LeaseLapses(k) \/ Evict(k)
         \/ \E n \in Quantities : Move(n) \/ Edit(n)
         \/ \E l \in {"ok", "inactive", "unmapped"} : Relink(l)
         \/ \E f \in Fixers : ReleaseEarly(f) \/ \E k \in Keys : Take(f, k)
  PROVE  WInv'
<1>1. UNCHANGED <<scan, admin, runs, events, stranded>>
  BY DEF OrphanExpires, HeldExpires, LeaseLapses, Evict, Move, Edit, Relink, ReleaseEarly, Take,
         limits
<1>2. /\ fix \in [Fixers -> Fix] /\ job \in [Keys -> FixJob]
  BY DEF IInv, TypeOK
<1>3. ASSUME NEW k \in Keys, Evict(k)
      PROVE  WInv'
  <2>1. job[k].state = "done" /\ job' = [job EXCEPT ![k] = NoJob] /\ UNCHANGED fix
    BY <1>3 DEF Evict
  <2>2. NoJob.state = "absent"
    BY DEF NoJob
  <2>3. \A i \in Keys : job'[i] = IF i = k THEN NoJob ELSE job[i]
    BY <1>2, <2>1
  <2>4. QED
    BY <1>1, <2>1, <2>2, <2>3, WorldWorks DEF Leaving, KeyOf
<1>4. ASSUME NEW n \in Quantities, Edit(n)
      PROVE  WInv'
  <2>1. UNCHANGED job /\ fix' = [f \in Fixers |-> [fix[f] EXCEPT !.clean = FALSE]]
    BY <1>4 DEF Edit, queue
  <2>2. \A f \in Fixers : /\ fix'[f].pc = fix[f].pc /\ fix'[f].end = fix[f].end
                          /\ fix'[f].key = fix[f].key
    BY <1>2, <2>1 DEF Fix
  <2>3. QED
    BY <1>1, <2>1, <2>2, WorldWorks DEF Leaving, KeyOf
<1>5. ASSUME NEW f \in Fixers, NEW k \in Keys, Take(f, k)
      PROVE  WInv'
  <2> DEFINE x == [NoFix EXCEPT !.pc = "lock", !.key = k]
  <2>1. /\ job[k].state = "waiting" /\ job' = [job EXCEPT ![k].state = "active"]
        /\ fix' = [fix EXCEPT ![f] = x] /\ x.pc = "lock"
    BY <1>5 DEF Take, NoFix
  <2> HIDE DEF x
  <2>2. \A g \in Fixers : fix'[g] = IF g = f THEN x ELSE fix[g]
    BY <1>2, <2>1
  <2>3. \A i \in Keys : /\ job'[i].event = job[i].event
                        /\ job'[i].state = IF i = k THEN "active" ELSE job[i].state
    BY <1>2, <2>1 DEF FixJob
  <2>4. QED
    BY <1>1, <2>1, <2>2, <2>3, WorldWorks DEF Leaving, KeyOf
<1>6. CASE UNCHANGED <<fix, job>>
  BY <1>1, <1>6, WorldWorks DEF Leaving, KeyOf
<1>7. QED
  BY <1>3, <1>4, <1>5, <1>6
     DEF OrphanExpires, HeldExpires, LeaseLapses, Move, Relink, ReleaseEarly, queue

\* An event posted by hand gets no job and is counted among the stranded.
LEMMA CreateEventWorks ==
  ASSUME IInv, WInv, NEW n \in Quantities, NEW st \in Posted, CreateEvent(st, n)
  PROVE  WInv'
<1> DEFINE m == Len(events) + 1
           r == [status |-> st, oms |-> n]
<1>1. /\ UNCHANGED <<scan, admin, runs, job, fix>> /\ stranded' = stranded \cup {m}
      /\ events' = Append(events, r) /\ TypeOK /\ r \in Event
  BY DriftAssumption DEF CreateEvent, queue, IInv, Event, DriftAssumption
<1>2. \A e \in Due' : e \in Due
  <2>1. events \in Seq(Event) /\ Len(events) \in Nat /\ DOMAIN events = 1..Len(events)
    BY <1>1, EventFacts
  <2>2. /\ events' \in Seq(Event) /\ Len(events') = m
        /\ \A x \in 1..Len(events) : events'[x] = events[x]
    BY <1>1, <2>1, AppendProperties
  <2>3. DOMAIN events' = 1..m
    BY <2>2, LenProperties
  <2>4. QED
    BY <1>1, <2>1, <2>2, <2>3 DEF Due, Pending
<1>3. EventsWorked' /\ ScansReport'
  BY <1>1, <1>2, EventsStay DEF Leaving, KeyOf
<1>4. RetryShape'
  BY <1>1, RetriesKept, RetryKeys DEF WInv
<1>5. QED
  BY <1>3, <1>4 DEF WInv

\* A request ends, or goes on without a retry.
LEMMA RetriesLess ==
  ASSUME IInv, WInv, NEW a \in Operators, NEW c, Asking(a, c), ~Retrying(c),
         UNCHANGED <<job, runs>>
  PROVE  RetryShape'
<1>1. \A b \in Operators : admin'[b] = IF b = a THEN c ELSE admin[b]
  BY DEF Asking, IInv, TypeOK
<1>2. \A b \in Operators : RetryReady(admin[b])'
  BY <1>1 DEF WInv, RetryShape, RetryReady, Retrying
<1>3. QED
  BY <1>1, <1>2 DEF WInv, RetryShape, Retrying

LEMMA NoRequestIdle == ~Retrying(NoRequest) /\ NoRequest.pc = "idle"
BY DEF NoRequest, Retrying

LEMMA AskRetryWorks ==
  ASSUME IInv, WInv, NEW a \in Operators, NEW e \in 1..MaxEvents, NEW w \in RetryWindows,
         AskRetry(a, e, w)
  PROVE  WInv'
<1>1. PICK c : /\ Asking(a, c) /\ c.pc = "add" /\ c.key.window = w /\ c.event = e
               /\ c.key \in Keys
  <2> DEFINE d == [pc |-> "add", event |-> e, key |-> [target |-> events[e].oms, window |-> w]]
  <2>1. events[e] \in Event /\ w \in Windows
    BY EventFacts DEF AskRetry, IInv, Windows
  <2>2. Asking(a, d) /\ d.pc = "add" /\ d.key.window = w /\ d.event = e /\ d.key \in Keys
    BY <2>1 DEF AskRetry, Keys, Event
  <2> HIDE DEF d
  <2>3. QED
    BY <2>2
<1>2. /\ UNCHANGED <<scan, job, fix, events, stranded>> /\ runs[w] = 0
      /\ runs' = [runs EXCEPT ![w] = 1] /\ runs \in [Windows -> Nat] /\ w \in Windows
  BY DEF AskRetry, queue, IInv, TypeOK, Windows
<1>3. \A b \in Operators : admin'[b] = IF b = a THEN c ELSE admin[b]
  BY <1>1 DEF Asking, IInv, TypeOK
<1>4. \A v \in RetryWindows : runs'[v] = IF v = w THEN 1 ELSE runs[v]
  BY <1>2
<1>5. EventsWorked' /\ ScansReport'
  BY <1>2, SameEvents, EventsStay DEF Leaving, KeyOf
<1>6. job[c.key].state = "absent"
  BY <1>1, <1>2 DEF WInv, RetryShape
<1>7. ASSUME NEW b \in Operators
      PROVE  RetryReady(admin[b])'
  <2>1. CASE b = a
    BY <1>1, <1>2, <1>3, <1>4, <1>6, <2>1 DEF RetryReady, Retrying
  <2>2. CASE b # a
    BY <1>2, <1>3, <1>4, <2>2 DEF WInv, RetryShape, RetryReady, Retrying
  <2>3. QED
    BY <2>1, <2>2
<1>8. \A b \in Operators \ {a} : Retrying(admin[b]) => admin[b].key.window # w
  BY <1>2 DEF WInv, RetryShape, RetryReady
<1>9. \A k \in Keys : k.window \in RetryWindows /\ job'[k].state # "absent" => runs'[k.window] # 0
  BY <1>2, <1>4 DEF WInv, RetryShape
<1>10. \A b, d \in Operators : Retrying(admin'[b]) /\ Retrying(admin'[d])
          /\ admin'[b].key.window = admin'[d].key.window => b = d
  BY <1>1, <1>3, <1>8 DEF WInv, RetryShape
<1>11. RetryShape'
  BY <1>7, <1>9, <1>10 DEF RetryShape, Retrying
<1>12. QED
  BY <1>5, <1>11 DEF WInv

LEMMA RetryAddWorks ==
  ASSUME IInv, WInv, NEW a \in Operators, RetryAdd(a)
  PROVE  WInv'
<1>1. PICK k \in Keys, e \in DOMAIN events :
        /\ k = admin[a].key /\ e = admin[a].event /\ admin[a].pc = "add"
        /\ k.window \in RetryWindows /\ runs[k.window] # 0 /\ job[k].state = "absent"
  BY RequestFacts DEF RetryAdd, RequestReady, WInv, RetryShape, RetryReady, Retrying
<1>2. /\ UNCHANGED <<scan, fix, events, runs>> /\ stranded' = stranded \ {e}
      /\ job' = [job EXCEPT ![k] = [NoJob EXCEPT !.state = "waiting", !.event = e]]
  BY <1>1 DEF RetryAdd, AddJob, limits
<1>3. /\ job'[k].state = "waiting" /\ job'[k].event = e
      /\ \A i \in Keys \ {k} : job'[i] = job[i]
  BY <1>1, <1>2 DEF IInv, TypeOK, NoJob
<1>4. PICK c : Asking(a, c) /\ c.pc = "mark" /\ c.key = k /\ c.event = e
  <2> DEFINE d == [admin[a] EXCEPT !.pc = "mark"]
  <2>1. Asking(a, d) /\ d.pc = "mark" /\ d.key = k /\ d.event = e
    BY <1>1, RequestFacts DEF RetryAdd, Request
  <2> HIDE DEF d
  <2>2. QED
    BY <2>1
<1>5. \A b \in Operators : admin'[b] = IF b = a THEN c ELSE admin[b]
  BY <1>4 DEF Asking, IInv, TypeOK
<1>6. Jobbed(e)'
  <2>1. \A f \in Fixers : KeyOf(f) = k => ~Leaving(f)
    BY <1>1 DEF IInv, FixShape, Shape, Leaving, KeyOf
  <2>2. Useful(k)'
    BY <1>2, <1>3, <2>1 DEF Useful, Leaving, KeyOf
  <2>3. QED
    BY <1>3, <2>2 DEF Jobbed
<1>7. EventsWorked' /\ ScansReport'
  <2>1. \A x \in Due' : x \in Due \/ Jobbed(x)'
    BY <1>2, <1>6, SameEvents
  <2>2. \A i \in Keys : job[i].state \in {"waiting", "active"} => job'[i] = job[i]
    BY <1>1, <1>3
  <2>3. QED
    BY <1>2, <2>1, <2>2, EventsStay DEF Leaving, KeyOf
<1>8. ASSUME NEW b \in Operators
      PROVE  RetryReady(admin[b])'
  <2>1. CASE b = a
    BY <1>1, <1>2, <1>3, <1>4, <1>5, <2>1 DEF RetryReady
  <2>2. CASE b # a /\ Retrying(admin[b])
    <3>1. admin[b].key \in Keys /\ admin[b].key.window # k.window
      BY <1>1, <2>2, RetryKeys DEF WInv, RetryShape, Retrying
    <3>2. job'[admin[b].key] = job[admin[b].key] /\ admin'[b] = admin[b]
      BY <1>3, <1>5, <2>2, <3>1
    <3>3. QED
      BY <1>2, <2>2, <3>2 DEF WInv, RetryShape, RetryReady, Retrying
  <2>3. CASE b # a /\ ~Retrying(admin[b])
    BY <1>5, <2>3 DEF RetryReady, Retrying
  <2>4. QED
    BY <2>1, <2>2, <2>3
<1>9. \A i \in Keys : i.window \in RetryWindows /\ job'[i].state # "absent" => runs'[i.window] # 0
  BY <1>1, <1>2, <1>3 DEF WInv, RetryShape
<1>10. \A b, d \in Operators : Retrying(admin'[b]) /\ Retrying(admin'[d])
          /\ admin'[b].key.window = admin'[d].key.window => b = d
  BY <1>1, <1>4, <1>5 DEF WInv, RetryShape, Retrying
<1>11. RetryShape'
  BY <1>8, <1>9, <1>10 DEF RetryShape, Retrying
<1>12. QED
  BY <1>7, <1>11 DEF WInv

LEMMA RetryMarkWorks ==
  ASSUME IInv, WInv, NEW a \in Operators, RetryMark(a)
  PROVE  WInv'
<1>1. PICK k \in Keys, e \in DOMAIN events :
        /\ k = admin[a].key /\ e = admin[a].event /\ admin[a].pc = "mark"
        /\ job[k].state # "absent" => job[k].event = e
  BY RequestFacts DEF RetryMark, RequestReady, WInv, RetryShape, RetryReady, Retrying
<1>2. UNCHANGED <<scan, fix, job, runs>> /\ Asking(a, NoRequest) /\ TypeOK
  BY DEF RetryMark, queue, limits, IInv
<1>3. RetryShape'
  BY <1>2, NoRequestIdle, RetriesLess
<1>4. CASE job[k].state = "waiting"
  <2>1. \A f \in Fixers : KeyOf(f) = k => ~Leaving(f)
    BY <1>4 DEF IInv, FixShape, Shape, Leaving, KeyOf
  <2>2. Useful(k)' /\ job'[k].event = e
    BY <1>1, <1>2, <1>4, <2>1 DEF Useful, Leaving, KeyOf
  <2>3. Jobbed(e)'
    BY <2>2 DEF Jobbed
  <2>4. stranded' = stranded /\ (SetStatus(e, "FIX_QUEUED") \/ UNCHANGED events)
    BY <1>1, <1>4 DEF RetryMark
  <2>5. \A x \in Due' : x \in Due \/ x = e
    <3>1. CASE SetStatus(e, "FIX_QUEUED")
      BY <1>2, <2>4, <3>1, OneStatus
    <3>2. CASE UNCHANGED events
      BY <2>4, <3>2, SameEvents
    <3>3. QED
      BY <2>4, <3>1, <3>2
  <2>6. EventsWorked' /\ ScansReport'
    BY <1>2, <2>3, <2>5, EventsStay DEF Leaving, KeyOf
  <2>7. QED
    BY <1>3, <2>6 DEF WInv
<1>5. CASE job[k].state # "waiting"
  <2>1. \/ SetStatus(e, "FIX_QUEUED") /\ stranded' = stranded \cup {e}
        \/ UNCHANGED <<events, stranded>>
    BY <1>1, <1>5 DEF RetryMark
  <2>2. \A x \in Due' : x \in Due
    <3>1. CASE SetStatus(e, "FIX_QUEUED") /\ stranded' = stranded \cup {e}
      BY <1>2, <3>1, OneStatus
    <3>2. CASE UNCHANGED <<events, stranded>>
      BY <3>2, SameEvents
    <3>3. QED
      BY <2>1, <3>1, <3>2
  <2>3. EventsWorked' /\ ScansReport'
    BY <1>2, <2>2, EventsStay DEF Leaving, KeyOf
  <2>4. QED
    BY <1>3, <2>3 DEF WInv
<1>6. QED
  BY <1>4, <1>5

LEMMA RequestWorks ==
  ASSUME IInv, WInv, NEW a \in Operators,
         Ignore(a) \/ RequestDies(a) \/ \E e \in 1..MaxEvents : AskIgnore(a, e)
  PROVE  WInv'
<1>1. UNCHANGED <<scan, fix, job, runs, stranded>> /\ TypeOK
  BY DEF Ignore, RequestDies, AskIgnore, queue, limits, IInv
<1>2. RetryShape'
  <2>1. CASE Ignore(a) \/ RequestDies(a)
    BY <1>1, <2>1, NoRequestIdle, RetriesLess DEF Ignore, RequestDies
  <2>2. ASSUME NEW e \in 1..MaxEvents, AskIgnore(a, e)
        PROVE  RetryShape'
    <3> DEFINE c == [NoRequest EXCEPT !.pc = "ignore", !.event = e]
    <3>1. Asking(a, c) /\ ~Retrying(c)
      BY <2>2 DEF AskIgnore, NoRequest, Retrying
    <3> HIDE DEF c
    <3>2. QED
      BY <1>1, <3>1, RetriesLess
  <2>3. QED
    BY <2>1, <2>2
<1>3. \A x \in Due' : x \in Due
  <2>1. CASE Ignore(a)
    <3>1. admin[a].event \in DOMAIN events /\ SetStatus(admin[a].event, "IGNORED")
      BY <2>1, RequestFacts DEF Ignore, RequestReady
    <3>2. ~Pending("IGNORED")
      BY DEF Pending, Open
    <3>3. QED
      BY <1>1, <3>1, <3>2, OneStatus
  <2>2. CASE UNCHANGED events
    BY <1>1, <2>2, SameEvents
  <2>3. QED
    BY <2>1, <2>2 DEF RequestDies, AskIgnore
<1>4. EventsWorked' /\ ScansReport'
  BY <1>1, <1>3, EventsStay DEF Leaving, KeyOf
<1>5. QED
  BY <1>2, <1>4 DEF WInv

LEMMA InitWInv == Init => WInv
<1> SUFFICES ASSUME Init PROVE WInv
  OBVIOUS
<1>1. EventsWorked
  BY DEF Init, EventsWorked, Due
<1>2. ScansReport
  BY DEF Init, ScansReport, NoScan
<1>3. RetryShape
  BY NoRequestIdle DEF Init, RetryShape, RetryReady, NoJob
<1>4. QED
  BY <1>1, <1>2, <1>3 DEF WInv

LEMMA NextWInv == IInv /\ WInv /\ [Next]_vars => WInv'
<1> SUFFICES ASSUME IInv, WInv, [Next]_vars  PROVE WInv'
  OBVIOUS
<1>1. ASSUME NEW s \in Scanners,
             \/ \E w \in ScanWindows : StartScan(s, w)
             \/ ScanStep(s) \/ ScanFails(s) \/ ScanDies(s)
      PROVE  WInv'
  BY <1>1, LookingWorks, UpdateDriftWorks, CreateDriftWorks, EnqueueFixWorks,
     ResolveInSyncWorks DEF ScanStep
<1>2. ASSUME NEW f \in Fixers,
             \/ \E k \in Keys : Take(f, k)
             \/ FixStep(f) \/ ReleaseEarly(f) \/ FixFails(f) \/ Crash(f)
      PROVE  WInv'
  BY <1>2, AttemptWorks, UnlockWorks, LeavingWorks, EnvironmentWorks DEF FixStep, FixFails
<1>3. ASSUME NEW a \in Operators, NEW e \in 1..MaxEvents,
             AskIgnore(a, e) \/ \E w \in RetryWindows : AskRetry(a, e, w)
      PROVE  WInv'
  BY <1>3, RequestWorks, AskRetryWorks
<1>4. ASSUME NEW a \in Operators, AdminStep(a) \/ RequestDies(a)
      PROVE  WInv'
  BY <1>4, RetryAddWorks, RetryMarkWorks, RequestWorks DEF AdminStep
<1>5. CASE Environment
  BY <1>5, EnvironmentWorks, CreateEventWorks DEF Environment
<1>6. CASE UNCHANGED vars
  <2>1. UNCHANGED <<scan, admin, runs, events, stranded, fix, job>>
    BY <1>6 DEF vars, queue, limits
  <2>2. QED
    BY <2>1, WorldWorks DEF Leaving, KeyOf
<1>7. QED
  BY <1>1, <1>2, <1>3, <1>4, <1>5, <1>6 DEF Next

\* Whatever fails, dies, expires or is asked for, an event that waits for its fix
\* has a job that will look at it, or a scan that is about to add one, unless it
\* lost its job in one of the ways stranded names (scan-processor.service.ts
\* 234-281, drift-fix-processor.service.ts, drift-events.service.ts 196-230).
THEOREM QueuedEventsAreWorked == Spec => []QueuedEventsHaveWork
<1>1. WInv => QueuedEventsHaveWork
  <2>1. SUFFICES ASSUME WInv, NEW e \in DOMAIN events \ stranded, Queued(e)
                 PROVE  HasWork(e)
    BY DEF QueuedEventsHaveWork
  <2>2. e \in Due
    BY <2>1 DEF Due, Pending, Queued, OpenEvents
  <2>3. Worked(e)
    BY <2>1, <2>2 DEF WInv, EventsWorked
  <2>4. QED
    BY <2>3, OwesIt DEF Worked, Jobbed, Useful, HasWork
<1>2. QED
  BY <1>1, InitIInv, NextIInv, InitWInv, NextWInv, PTL DEF Spec
===============================================================================
