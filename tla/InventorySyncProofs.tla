-------------------------- MODULE InventorySyncProofs --------------------------
(***************************************************************************)
(* For any number of rows, workers, attempts, retries and failures: what   *)
(* is recorded as SUCCEEDED has reached Shopify, and an unfinished outbox  *)
(* row has a job unless it lost it in one of the ways forgotten names.     *)
(*                                                                         *)
(* The strengthening (WorkShape) says what a worker's position knows: its  *)
(* job is an outbox row that BullMQ has handed to this worker alone, and a *)
(* worker about to record success has pushed.  A job that will do no more  *)
(* for its row - a worker has returned with it - leaves the row settled,   *)
(* with a request that is adding the job again, or forgotten (SpentJobs).  *)
(***************************************************************************)
EXTENDS InventorySync, TLAPS

Shape(x) ==
  /\ x.pc # "idle" => x.job \in DOMAIN outbox /\ bull[x.job].state = "active"
  /\ x.pc = "succeed" => x.job \in pushed

Busy(w)     == work[w].pc # "idle"
OthersOf(w) == {v \in Workers \ {w} : Busy(v)}

WorkShape ==
  \A w \in Workers : /\ Shape(work[w])
                     /\ Busy(w) => \A v \in OthersOf(w) : JobOf(v) # JobOf(w)

\* BullMQ knows jobs of committed outbox rows only.
KnownToBull == \A j \in Jobs : bull[j].state # "absent" => j \in DOMAIN outbox

Spent(j) == \E w \in Workers : work[w].pc = "return" /\ JobOf(w) = j

SpentJobs == \A j \in Jobs \ forgotten : Open(j) /\ Spent(j) => j \in adding

IInv == /\ TypeOK /\ WorkShape /\ KnownToBull /\ SucceededReached
        /\ OpenJobsHaveWork /\ SpentJobs

-----------------------------------------------------------------------------
(* Facts about one worker and one outbox row.                              *)

LEMMA OutboxFacts ==
  ASSUME TypeOK
  PROVE  /\ DOMAIN outbox \subseteq Jobs
         /\ \A j \in DOMAIN outbox : outbox[j] \in Row
BY SyncAssumption DEF TypeOK, Jobs, SyncAssumption

LEMMA WorkerFacts ==
  ASSUME IInv, NEW w \in Workers, work[w].pc # "idle"
  PROVE  /\ JobOf(w) \in Jobs
         /\ JobOf(w) \in DOMAIN outbox
         /\ outbox[JobOf(w)] \in Row
         /\ bull[JobOf(w)] \in BullJob
         /\ bull[JobOf(w)].state = "active"
         /\ \A v \in OthersOf(w) : JobOf(v) # JobOf(w)
BY OutboxFacts DEF IInv, WorkShape, Shape, Busy, OthersOf, JobOf, TypeOK, Busy

\* Setting the status of one row keeps every other row and the numbering.
LEMMA StatusSet ==
  ASSUME TypeOK, NEW j \in DOMAIN outbox, NEW s \in Statuses, SetStatus(j, s)
  PROVE  /\ outbox' \in Seq(Row)
         /\ Len(outbox') = Len(outbox)
         /\ DOMAIN outbox' = DOMAIN outbox
         /\ outbox'[j].status = s
         /\ \A i \in DOMAIN outbox : /\ i # j => outbox'[i] = outbox[i]
                                     /\ outbox'[i].row = outbox[i].row
<1>1. outbox \in Seq(Row) /\ outbox[j] \in Row
  BY DEF TypeOK
<1>2. outbox' = [outbox EXCEPT ![j] = [outbox[j] EXCEPT !.status = s]]
  BY DEF SetStatus
<1>3. [outbox[j] EXCEPT !.status = s] \in Row
  BY <1>1 DEF Row
<1>4. QED
  BY <1>1, <1>2, <1>3 DEF Row

\* A step that moves one worker: its new position has its shape and its job is
\* no other worker's.
LEMMA MovedShape ==
  ASSUME IInv, NEW w \in Workers, NEW x \in Work,
         work' = [work EXCEPT ![w] = x], Shape(x)',
         x.pc # "idle" => \A v \in OthersOf(w) : JobOf(v) # x.job,
         \A v \in OthersOf(w) : bull'[JobOf(v)] = bull[JobOf(v)],
         DOMAIN outbox \subseteq DOMAIN outbox', pushed \subseteq pushed'
  PROVE  work' \in [Workers -> Work] /\ WorkShape'
<1>1. work \in [Workers -> Work]
  BY DEF IInv, TypeOK
<1>2. work' \in [Workers -> Work] /\ work'[w] = x
      /\ \A v \in Workers \ {w} : work'[v] = work[v]
  BY <1>1
<1>3. \A v \in Workers \ {w} : Shape(work[v])'
  BY <1>2 DEF IInv, WorkShape, Shape, Busy, OthersOf, JobOf, OthersOf, Busy, JobOf
<1>4. \A v \in Workers : Shape(work[v])'
  BY <1>2, <1>3 DEF Shape
<1>5. ASSUME NEW v \in Workers, NEW u \in Workers, u # v, Busy(v)', Busy(u)'
      PROVE  JobOf(u)' # JobOf(v)'
  <2>1. CASE v = w
    BY <1>2, <1>5, <2>1 DEF OthersOf, Busy, JobOf
  <2>2. CASE u = w
    BY <1>2, <1>5, <2>2 DEF OthersOf, Busy, JobOf
  <2>3. CASE v # w /\ u # w
    BY <1>2, <1>5, <2>3 DEF OthersOf, Busy, JobOf, IInv, WorkShape
  <2>4. QED
    BY <2>1, <2>2, <2>3
<1>6. QED
  BY <1>2, <1>4, <1>5 DEF WorkShape, OthersOf

LEMMA IdleWork == Idle \in Work /\ Shape(Idle) /\ Shape(Idle)'
BY DEF Idle, Work, PCs, Shape

\* A worker that moves to anything but its return spends no job.
LEMMA SpentKept ==
  ASSUME TypeOK, NEW w \in Workers, NEW x \in Work, work' = [work EXCEPT ![w] = x],
         x.pc # "return"
  PROVE  \A j \in Jobs : Spent(j)' => Spent(j)
BY DEF TypeOK, Spent, JobOf

-----------------------------------------------------------------------------
(* Steps that leave the workers alone.                                     *)

LEMMA RequestStep ==
  ASSUME IInv, Request
  PROVE  IInv'
<1>1. DOMAIN outbox \subseteq Jobs /\ outbox \in Seq(Row)
  BY OutboxFacts DEF IInv, TypeOK
<1>2. ASSUME NEW r \in Rows, NEW n \in Quantities, Change(r, n)  PROVE IInv'
  <2> DEFINE new == [row |-> r, target |-> n, status |-> "QUEUED"]
             k   == Len(outbox) + 1
  <2>1. new \in Row /\ outbox' = Append(outbox, new) /\ adding' = adding \cup {k}
    BY <1>2 DEF Change, Row, Statuses
  <2>2. /\ outbox' \in Seq(Row) /\ Len(outbox') = k /\ Len(outbox') <= MaxJobs
        /\ DOMAIN outbox' = DOMAIN outbox \cup {k}
        /\ outbox'[k] = new /\ k \notin DOMAIN outbox
        /\ \A i \in DOMAIN outbox : outbox'[i] = outbox[i]
    BY <1>1, <1>2, <2>1, SyncAssumption DEF Change, SyncAssumption
  <2>3. TypeOK'
    BY <1>2, <2>1, <2>2 DEF Change, IInv, TypeOK, shopify
  <2>4. WorkShape'
    BY <1>2, <2>2 DEF Change, shopify, IInv, WorkShape, Shape, Busy, OthersOf, JobOf
  <2>5. SucceededReached'
    BY <1>2, <2>1, <2>2 DEF Change, shopify, IInv, SucceededReached
  <2>6. OpenJobsHaveWork'
    BY <1>2, <2>1, <2>2 DEF Change, IInv, OpenJobsHaveWork, Open, HasWork
  <2>7. KnownToBull'
    BY <1>2, <2>2 DEF Change, IInv, KnownToBull
  <2>8. SpentJobs'
    BY <1>2, <2>1, <2>2 DEF Change, IInv, SpentJobs, Spent, Open, JobOf
  <2>9. QED
    BY <2>3, <2>4, <2>5, <2>6, <2>7, <2>8 DEF IInv
<1>3. ASSUME NEW j \in Jobs, Retry(j)  PROVE IInv'
  <2>1. /\ outbox' \in Seq(Row) /\ Len(outbox') = Len(outbox)
        /\ DOMAIN outbox' = DOMAIN outbox /\ outbox'[j].status = "QUEUED"
        /\ \A i \in DOMAIN outbox : i # j => outbox'[i] = outbox[i]
    BY <1>3, StatusSet DEF Retry, IInv, Statuses
  <2>2. TypeOK'
    BY <1>3, <2>1 DEF Retry, Spend, shopify, IInv, TypeOK
  <2>3. WorkShape'
    BY <1>3, <2>1 DEF Retry, shopify, IInv, WorkShape, Shape, Busy, OthersOf, JobOf
  <2>4. SucceededReached' /\ OpenJobsHaveWork' /\ KnownToBull'
    BY <1>3, <2>1 DEF Retry, shopify, IInv, SucceededReached, OpenJobsHaveWork,
                      Open, HasWork, KnownToBull
  <2>5. SpentJobs'
    BY <1>3, <2>1 DEF Retry, IInv, SpentJobs, Spent, Open, JobOf
  <2>6. QED
    BY <2>2, <2>3, <2>4, <2>5 DEF IInv
<1>4. ASSUME NEW j \in Jobs, EnqueueJob(j)  PROVE IInv'
  <2>1. bull \in [Jobs -> BullJob] /\ adding \subseteq DOMAIN outbox
    BY DEF IInv, TypeOK
  <2>2. /\ bull' \in [Jobs -> BullJob]
        /\ \A i \in Jobs : i # j => bull'[i] = bull[i]
        /\ bull'[j].state # "finished" => bull'[j].state \in {"waiting", "active"}
        /\ bull'[j].state = "finished" => j \in forgotten'
        /\ \A i \in Jobs : bull[i].state = "active" => bull'[i].state = "active"
    BY <1>4, <2>1 DEF EnqueueJob, Returned, BullJob
  <2>3. /\ UNCHANGED <<outbox, sellable, channel, pushed, overtaken, linked, work, budget>>
        /\ adding' = adding \ {j} /\ j \in DOMAIN outbox
        /\ forgotten' \subseteq forgotten \cup {j} /\ forgotten \subseteq forgotten' \cup {j}
    BY <1>4, <2>1 DEF EnqueueJob, tables, shopify
  <2>4. TypeOK'
    BY <2>2, <2>3 DEF IInv, TypeOK
  <2>5. WorkShape' /\ SucceededReached'
    BY <1>1, <2>2, <2>3 DEF IInv, WorkShape, Shape, Busy, OthersOf, JobOf,
                            SucceededReached
  <2>6. OpenJobsHaveWork'
    BY <2>2, <2>3 DEF IInv, OpenJobsHaveWork, Open, HasWork
  <2>7. KnownToBull'
    BY <2>2, <2>3 DEF IInv, KnownToBull
  <2>8. SpentJobs'
    BY <1>4, <2>3 DEF EnqueueJob, Returned, IInv, SpentJobs, Spent, Open, JobOf
  <2>9. QED
    BY <2>4, <2>5, <2>6, <2>7, <2>8 DEF IInv
<1>5. ASSUME NEW j \in Jobs, LoseJob(j)  PROVE IInv'
  <2>1. j \in DOMAIN outbox /\ budget' \in Nat
    BY <1>5 DEF LoseJob, Spend, IInv, TypeOK
  <2>2. TypeOK'
    BY <1>5, <2>1 DEF LoseJob, tables, shopify, IInv, TypeOK
  <2>3. WorkShape' /\ SucceededReached' /\ OpenJobsHaveWork' /\ KnownToBull'
    BY <1>5 DEF LoseJob, tables, shopify, IInv, WorkShape, Shape, Busy, OthersOf, JobOf,
                SucceededReached, OpenJobsHaveWork, Open, HasWork, KnownToBull
  <2>4. SpentJobs'
    BY <1>5 DEF LoseJob, tables, IInv, SpentJobs, Spent, Open, JobOf
  <2>5. QED
    BY <2>2, <2>3, <2>4 DEF IInv
<1>6. ASSUME NEW j \in Jobs, Evict(j)  PROVE IInv'
  <2>1. bull \in [Jobs -> BullJob] /\ budget' \in Nat
    BY <1>6 DEF Evict, Spend, IInv, TypeOK
  <2>2. bull' \in [Jobs -> BullJob] /\ \A i \in Jobs : i # j => bull'[i] = bull[i]
    BY <1>6, <2>1 DEF Evict, Absent, BullJob
  <2>3. TypeOK'
    BY <1>6, <2>1, <2>2 DEF Evict, tables, shopify, IInv, TypeOK
  <2>4. WorkShape' /\ SucceededReached'
    BY <1>6 DEF Evict, tables, shopify, IInv, WorkShape, Shape, Busy, OthersOf, JobOf, SucceededReached
  <2>5. OpenJobsHaveWork' /\ KnownToBull'
    BY <1>6, <2>1, <2>2 DEF Evict, tables, IInv, OpenJobsHaveWork, Open, HasWork,
                            KnownToBull
  <2>6. SpentJobs'
    BY <1>6 DEF Evict, tables, IInv, SpentJobs, Spent, Open, JobOf
  <2>7. QED
    BY <2>3, <2>4, <2>5, <2>6 DEF IInv
<1>7. ASSUME NEW r \in Rows, Toggle(r)  PROVE IInv'
  <2>1. TypeOK'
    BY <1>7 DEF Toggle, Spend, tables, shopify, IInv, TypeOK
  <2>2. WorkShape' /\ SucceededReached' /\ OpenJobsHaveWork' /\ KnownToBull'
    BY <1>7 DEF Toggle, tables, shopify, IInv, WorkShape, Shape, Busy, OthersOf, JobOf,
                SucceededReached, OpenJobsHaveWork, Open, HasWork, KnownToBull
  <2>3. SpentJobs'
    BY <1>7 DEF Toggle, tables, IInv, SpentJobs, Spent, Open, JobOf
  <2>4. QED
    BY <2>1, <2>2, <2>3 DEF IInv
<1>8. QED
  BY <1>2, <1>3, <1>4, <1>5, <1>6, <1>7 DEF Request

-----------------------------------------------------------------------------
(* Steps of a worker.                                                      *)

\* A step that moves a worker and leaves every table alone.
LEMMA MoveStep ==
  ASSUME IInv, NEW w \in Workers, Busy(w), NEW x \in Work, Shape(x),
         x.job = JobOf(w), work' = [work EXCEPT ![w] = x], budget' \in Nat,
         x.pc = "return" => ~Open(JobOf(w)),
         UNCHANGED <<tables, shopify, linked, adding, bull, forgotten>>
  PROVE  IInv'
<1>1. UNCHANGED <<sellable, outbox, channel, pushed, overtaken, linked, adding,
                  bull, forgotten>>
  BY DEF tables, shopify
<1>2. Shape(x)'
  BY <1>1 DEF Shape
<1>3. work' \in [Workers -> Work] /\ WorkShape'
  BY <1>1, <1>2, WorkerFacts, MovedShape DEF Busy
<1>4. TypeOK'
  BY <1>1, <1>3 DEF IInv, TypeOK
<1>5. SucceededReached' /\ OpenJobsHaveWork' /\ KnownToBull'
  BY <1>1 DEF IInv, SucceededReached, OpenJobsHaveWork, Open, HasWork, KnownToBull
<1>6. SpentJobs'
  <2>1. \A j \in Jobs : Spent(j)' => Spent(j) \/ (j = JobOf(w) /\ ~Open(j))
    BY DEF IInv, TypeOK, Spent, JobOf
  <2>2. QED
    BY <1>1, <2>1 DEF IInv, SpentJobs, Open
<1>7. QED
  BY <1>3, <1>4, <1>5, <1>6 DEF IInv

\* A worker that hands its job back or drops it: the job is finished only when
\* its row is settled or forgotten.
LEMMA LeaveStep ==
  ASSUME IInv, NEW w \in Workers, NEW b \in BullJob, work[w].pc # "idle",
         work' = [work EXCEPT ![w] = Idle],
         bull' = [bull EXCEPT ![JobOf(w)] = b],
         UNCHANGED <<sellable, shopify, linked, adding>>, budget' \in Nat,
         forgotten \subseteq forgotten', forgotten' \subseteq forgotten \cup {JobOf(w)},
         outbox' \in Seq(Row), Len(outbox') = Len(outbox),
         DOMAIN outbox' = DOMAIN outbox,
         \A i \in DOMAIN outbox : i # JobOf(w) => outbox'[i] = outbox[i],
         outbox'[JobOf(w)].status = "SUCCEEDED" => JobOf(w) \in pushed,
         JobOf(w) \notin forgotten' /\ outbox'[JobOf(w)].status \in {"QUEUED", "SYNCING"}
           => b.state = "waiting" \/ JobOf(w) \in adding
  PROVE  IInv'
<1> DEFINE j == JobOf(w)
<1>1. j \in Jobs /\ j \in DOMAIN outbox
  BY WorkerFacts
<1>2. UNCHANGED <<channel, pushed, overtaken>>
  BY DEF shopify
<1>3. work' \in [Workers -> Work] /\ WorkShape'
  <2>1. \A v \in OthersOf(w) : bull'[JobOf(v)] = bull[JobOf(v)]
    BY <1>1, WorkerFacts DEF IInv, TypeOK, OthersOf, Busy
  <2>2. Idle.pc = "idle" /\ Idle \in Work /\ Shape(Idle)'
    BY IdleWork DEF Idle
  <2>3. QED
    BY <1>2, <2>1, <2>2, MovedShape
<1>4. /\ bull' \in [Jobs -> BullJob] /\ bull'[j] = b
      /\ \A i \in Jobs : i # j => bull'[i] = bull[i]
  BY <1>1 DEF IInv, TypeOK
<1>5. TypeOK'
  BY <1>1, <1>2, <1>3, <1>4 DEF IInv, TypeOK
<1>6. SucceededReached'
  BY <1>1, <1>2 DEF IInv, SucceededReached
<1>7. OpenJobsHaveWork' /\ KnownToBull'
  BY <1>1, <1>4 DEF IInv, OpenJobsHaveWork, Open, HasWork, KnownToBull
<1>8. SpentJobs'
  <2>1. \A i \in Jobs : Spent(i)' => Spent(i) /\ i # j
    <3>1. work \in [Workers -> Work] /\ work'[w] = Idle
          /\ \A v \in Workers \ {w} : work'[v] = work[v]
      BY DEF IInv, TypeOK
    <3>2. \A v \in Workers \ {w} : work[v].pc = "return" => JobOf(v) # j
      BY WorkerFacts DEF OthersOf, Busy
    <3>3. QED
      BY <3>1, <3>2 DEF Spent, JobOf, Idle
  <2>2. QED
    BY <1>1, <2>1 DEF IInv, SpentJobs, Open
<1>9. QED
  BY <1>3, <1>5, <1>6, <1>7, <1>8 DEF IInv

LEMMA TakeStep ==
  ASSUME IInv, NEW w \in Workers, NEW j \in Jobs, Take(w, j)
  PROVE  IInv'
<1> DEFINE x == [Idle EXCEPT !.pc = "load", !.job = j]
<1>1. UNCHANGED <<sellable, outbox, channel, pushed, overtaken, linked, adding,
                  budget, forgotten>>
  BY DEF Take, tables, shopify
<1>2. bull \in [Jobs -> BullJob] /\ bull[j].state = "waiting"
  BY DEF Take, IInv, TypeOK
<1>3. /\ bull' \in [Jobs -> BullJob] /\ bull'[j].state = "active"
      /\ \A i \in Jobs : i # j => bull'[i] = bull[i]
  BY <1>2 DEF Take, BullJob
<1>4. j \in DOMAIN outbox
  BY <1>2 DEF IInv, KnownToBull
<1>5. x \in Work /\ x.job = j /\ Shape(x)'
  BY <1>1, <1>3, <1>4 DEF Idle, Work, PCs, Shape
<1>6. work' \in [Workers -> Work] /\ WorkShape'
  <2>1. \A v \in OthersOf(w) : JobOf(v) # j /\ bull'[JobOf(v)] = bull[JobOf(v)]
    BY <1>2, <1>3, WorkerFacts DEF OthersOf, Busy
  <2>2. work' = [work EXCEPT ![w] = x]
    BY DEF Take
  <2> HIDE DEF x
  <2>3. QED
    BY <1>1, <1>5, <2>1, <2>2, MovedShape
<1>7. TypeOK'
  BY <1>1, <1>3, <1>6 DEF IInv, TypeOK
<1>8. SucceededReached' /\ OpenJobsHaveWork' /\ KnownToBull'
  BY <1>1, <1>3, <1>4 DEF IInv, SucceededReached, OpenJobsHaveWork, Open, HasWork,
                          KnownToBull
<1>9. SpentJobs'
  <2>1. x \in Work /\ work' = [work EXCEPT ![w] = x] /\ x.pc # "return"
    BY <1>5 DEF Take, Idle
  <2>2. \A i \in Jobs : Spent(i)' => Spent(i)
    <3> HIDE DEF x
    <3>1. QED
      BY <2>1, SpentKept DEF IInv
  <2>3. QED
    BY <1>1, <2>2 DEF IInv, SpentJobs, Open
<1>10. QED
  BY <1>6, <1>7, <1>8, <1>9 DEF IInv

\* A row that has succeeded is settled: its worker may return.
LEMMA LoadStep ==
  ASSUME IInv, NEW w \in Workers, Load(w)
  PROVE  IInv'
<1> DEFINE x == [work[w] EXCEPT !.pc =
                   IF outbox[JobOf(w)].status = "SUCCEEDED" THEN "return" ELSE "begin"]
<1>1. work[w] \in Work /\ budget' \in Nat /\ Busy(w)
  BY DEF Load, IInv, TypeOK, Busy
<1>2. JobOf(w) \in DOMAIN outbox /\ bull[JobOf(w)].state = "active"
  BY <1>1, WorkerFacts DEF Busy
<1>3. x \in Work /\ Shape(x) /\ x.job = JobOf(w)
  BY <1>1, <1>2 DEF Work, PCs, Shape, JobOf
<1>4. x.pc = "return" => ~Open(JobOf(w))
  BY <1>1 DEF Work, Open
<1>5. work' = [work EXCEPT ![w] = x]
  BY DEF Load, Goto
<1>6. UNCHANGED <<tables, shopify, linked, adding, bull, forgotten>>
  BY DEF Load
<1> HIDE DEF x
<1>7. QED
  BY <1>1, <1>3, <1>4, <1>5, <1>6, MoveStep

\* A worker that records a status of its row and keeps its job: it returns with a
\* settled row only, and records a success that Shopify has taken.
LEMMA RecordStep ==
  ASSUME IInv, NEW w \in Workers, Busy(w), NEW s \in Statuses, SetStatus(JobOf(w), s),
         NEW pc \in PCs \ {"idle", "succeed"}, Goto(w, pc),
         pc = "return" => s \notin {"QUEUED", "SYNCING"},
         s = "SUCCEEDED" => JobOf(w) \in pushed,
         UNCHANGED <<sellable, shopify, linked, adding, bull, budget, forgotten>>
  PROVE  IInv'
<1> DEFINE j == JobOf(w)
           x == [work[w] EXCEPT !.pc = pc]
<1>1. /\ j \in Jobs /\ j \in DOMAIN outbox /\ work[w] \in Work /\ bull[j].state = "active"
      /\ \A v \in OthersOf(w) : JobOf(v) # j
  BY WorkerFacts DEF Busy, IInv, TypeOK
<1>2. /\ outbox' \in Seq(Row) /\ Len(outbox') = Len(outbox)
      /\ DOMAIN outbox' = DOMAIN outbox /\ outbox'[j].status = s
      /\ \A i \in DOMAIN outbox : i # j => outbox'[i] = outbox[i]
  BY <1>1, StatusSet DEF IInv
<1>3. UNCHANGED <<sellable, channel, pushed, overtaken, linked, adding, bull,
                  budget, forgotten>>
  BY DEF shopify
<1>4. PICK y \in Work : /\ y.pc = pc /\ y.job = j
                        /\ work' = [work EXCEPT ![w] = y]
  <2>1. x \in Work /\ x.pc = pc /\ x.job = j /\ work' = [work EXCEPT ![w] = x]
    BY <1>1 DEF Goto, Work, JobOf
  <2> HIDE DEF x
  <2>2. QED
    BY <2>1
<1>5. work' \in [Workers -> Work] /\ WorkShape'
  <2>1. Shape(y)'
    BY <1>1, <1>2, <1>3, <1>4 DEF Shape
  <2>2. QED
    BY <1>1, <1>2, <1>3, <1>4, <2>1, MovedShape
<1>6. TypeOK'
  BY <1>2, <1>3, <1>5 DEF IInv, TypeOK
<1>7. SucceededReached' /\ KnownToBull'
  BY <1>2, <1>3 DEF IInv, SucceededReached, KnownToBull
<1>8. OpenJobsHaveWork'
  BY <1>1, <1>2, <1>3 DEF IInv, OpenJobsHaveWork, Open, HasWork
<1>9. SpentJobs'
  <2>1. \A i \in Jobs : Spent(i)' /\ i # j => Spent(i)
    BY <1>4 DEF IInv, TypeOK, Spent, JobOf
  <2>2. \A i \in Jobs : i = j /\ Spent(i)' => pc = "return"
    <3>1. \A v \in Workers \ {w} : work'[v] = work[v]
      BY <1>4 DEF IInv, TypeOK
    <3>2. work'[w].pc = pc
      BY <1>4 DEF IInv, TypeOK
    <3>3. QED
      BY <1>1, <3>1, <3>2 DEF Spent, JobOf, OthersOf, Busy
  <2>3. QED
    BY <1>1, <1>2, <1>3, <2>1, <2>2 DEF IInv, SpentJobs, Open
<1>10. QED
  BY <1>5, <1>6, <1>7, <1>8, <1>9 DEF IInv

LEMMA BeginStep ==
  ASSUME IInv, NEW w \in Workers, Begin(w)
  PROVE  IInv'
<1>1. /\ "SYNCING" \in Statuses /\ "config" \in PCs \ {"idle", "succeed"}
      /\ "config" # "return" /\ "SYNCING" # "SUCCEEDED"
  BY DEF Statuses, PCs
<1>2. /\ Busy(w) /\ SetStatus(JobOf(w), "SYNCING") /\ Goto(w, "config")
      /\ UNCHANGED <<sellable, shopify, linked, adding, bull, budget, forgotten>>
  BY DEF Begin, Busy
<1>3. QED
  BY <1>1, <1>2, RecordStep

\* Without an active configuration the attempt goes on to fail.
LEMMA ReadConfigStep ==
  ASSUME IInv, NEW w \in Workers, ReadConfig(w)
  PROVE  IInv'
<1> DEFINE p == [work[w] EXCEPT !.pc = "push"]
           x == [work[w] EXCEPT !.pc = "fail", !.terminal = TRUE]
<1>1. work[w] \in Work /\ work[w].pc = "config" /\ budget' \in Nat
  BY DEF ReadConfig, IInv, TypeOK
<1>2. JobOf(w) \in DOMAIN outbox /\ bull[JobOf(w)].state = "active" /\ Busy(w)
  BY <1>1, WorkerFacts DEF Busy
<1>3. p \in Work /\ Shape(p) /\ p.job = JobOf(w) /\ x \in Work /\ Shape(x) /\ x.job = JobOf(w)
  BY <1>1, <1>2 DEF Work, PCs, Shape, JobOf
<1>4. work' = [work EXCEPT ![w] = p] \/ work' = [work EXCEPT ![w] = x]
  BY DEF ReadConfig, Goto
<1>5. UNCHANGED <<tables, shopify, linked, adding, bull, forgotten>>
  BY DEF ReadConfig
<1>6. p.pc # "return" /\ x.pc # "return"
  BY <1>1 DEF Work
<1> HIDE DEF p, x
<1>7. QED
  BY <1>1, <1>2, <1>3, <1>4, <1>5, <1>6, MoveStep

\* A call of Shopify may add its job to pushed and changes no table.
LEMMA ShopifyStep ==
  ASSUME IInv, NEW w \in Workers, NEW x \in Work, work[w].pc = "push",
         UNCHANGED shopify \/ Applied(w), Shape(x)', x.job = JobOf(w), x.pc # "return",
         work' = [work EXCEPT ![w] = x], budget' \in Nat,
         UNCHANGED <<tables, linked, adding, bull, forgotten>>
  PROVE  IInv'
<1>1. JobOf(w) \in DOMAIN outbox /\ outbox[JobOf(w)] \in Row
  BY WorkerFacts
<1>2. UNCHANGED <<sellable, outbox, linked, adding, bull, forgotten>>
  BY DEF tables
<1>3. /\ channel' \in [Rows -> Quantities] /\ overtaken' \subseteq Rows
      /\ pushed \subseteq pushed' /\ pushed' \subseteq DOMAIN outbox
  BY <1>1 DEF Applied, shopify, RowOf, Row, IInv, TypeOK
<1>4. work' \in [Workers -> Work] /\ WorkShape'
  BY <1>2, <1>3, WorkerFacts, MovedShape
<1>5. TypeOK'
  BY <1>2, <1>3, <1>4 DEF IInv, TypeOK
<1>6. SucceededReached' /\ OpenJobsHaveWork' /\ KnownToBull'
  BY <1>2, <1>3 DEF IInv, SucceededReached, OpenJobsHaveWork, Open, HasWork, KnownToBull
<1>7. SpentJobs'
  BY <1>2, SpentKept DEF IInv, SpentJobs, Open
<1>8. QED
  BY <1>4, <1>5, <1>6, <1>7 DEF IInv

\* A worker reaches succeed only by a push that Shopify took.
LEMMA PushStep ==
  ASSUME IInv, NEW w \in Workers, Push(w)
  PROVE  IInv'
<1> DEFINE x == [work[w] EXCEPT !.pc = "succeed"]
<1>1. work[w] \in Work /\ work[w].pc = "push" /\ budget' \in Nat
  BY DEF Push, IInv, TypeOK
<1>2. JobOf(w) \in DOMAIN outbox /\ bull[JobOf(w)].state = "active"
  BY <1>1, WorkerFacts
<1>3. JobOf(w) \in pushed' /\ outbox' = outbox /\ bull' = bull
  BY DEF Push, Applied, tables
<1>4. PICK y \in Work : /\ y.pc = "succeed" /\ y.job = JobOf(w)
                        /\ work' = [work EXCEPT ![w] = y]
  <2>1. x \in Work /\ x.pc = "succeed" /\ x.job = JobOf(w)
        /\ work' = [work EXCEPT ![w] = x]
    BY <1>1 DEF Push, Goto, Work, PCs, JobOf
  <2> HIDE DEF x
  <2>2. QED
    BY <2>1
<1>5. UNCHANGED <<tables, linked, adding, bull, forgotten>>
      /\ (UNCHANGED shopify \/ Applied(w))
  BY DEF Push
<1>6. Shape(y)'
  BY <1>2, <1>3, <1>4 DEF Shape
<1>7. QED
  BY <1>1, <1>4, <1>5, <1>6, ShopifyStep

LEMMA CaughtWork ==
  ASSUME IInv, NEW w \in Workers, work[w].pc # "idle", Caught(w)
  PROVE  \E x \in Work : /\ x.pc = "fail" /\ x.job = JobOf(w)
                         /\ work' = [work EXCEPT ![w] = x]
<1> DEFINE x == [work[w] EXCEPT !.pc = "fail",
                                !.terminal = bull[JobOf(w)].made + 1 >= Attempts]
<1>1. work[w] \in Work /\ JobOf(w) \in DOMAIN outbox
  BY WorkerFacts DEF IInv, TypeOK
<1>2. (bull[JobOf(w)].made + 1 >= Attempts) \in BOOLEAN
  OBVIOUS
<1>3. x \in Work /\ x.pc = "fail" /\ x.job = JobOf(w)
  BY <1>1, <1>2 DEF Work, PCs, JobOf
<1>4. work' = [work EXCEPT ![w] = x]
  BY DEF Caught
<1>5. QED
  BY <1>3, <1>4

LEMMA RefusedStep ==
  ASSUME IInv, NEW w \in Workers, Refused(w)
  PROVE  IInv'
<1>1. work[w].pc = "push" /\ Caught(w) /\ budget' \in Nat
  BY DEF Refused, Spend, IInv, TypeOK
<1>2. PICK x \in Work : /\ x.pc = "fail" /\ x.job = JobOf(w)
                        /\ work' = [work EXCEPT ![w] = x]
  BY <1>1, CaughtWork
<1>3. UNCHANGED <<tables, linked, adding, bull, forgotten>>
      /\ (UNCHANGED shopify \/ Applied(w))
  BY DEF Refused
<1>4. Shape(x)'
  BY <1>1, <1>2, <1>3, WorkerFacts DEF Shape, tables
<1>5. QED
  BY <1>1, <1>2, <1>3, <1>4, ShopifyStep

LEMMA SucceedStep ==
  ASSUME IInv, NEW w \in Workers, Succeed(w)
  PROVE  IInv'
<1>1. /\ "SUCCEEDED" \in Statuses \ {"QUEUED", "SYNCING"}
      /\ "return" \in PCs \ {"idle", "succeed"}
  BY DEF Statuses, PCs
<1>2. /\ Busy(w) /\ SetStatus(JobOf(w), "SUCCEEDED") /\ Goto(w, "return")
      /\ UNCHANGED <<sellable, shopify, linked, adding, bull, budget, forgotten>>
  BY DEF Succeed, Busy
<1>3. JobOf(w) \in pushed
  BY DEF Succeed, IInv, WorkShape, Shape, JobOf
<1>4. QED
  BY <1>1, <1>2, <1>3, RecordStep

\* A last attempt settles the row before its worker returns.
LEMMA FailStep ==
  ASSUME IInv, NEW w \in Workers, Fail(w)
  PROVE  IInv'
<1> DEFINE s  == IF work[w].terminal THEN "FAILED" ELSE "QUEUED"
           pc == IF work[w].terminal THEN "return" ELSE "throw"
<1>1. /\ s \in Statuses /\ s # "SUCCEEDED" /\ pc \in PCs \ {"idle", "succeed"}
      /\ pc = "return" => s \notin {"QUEUED", "SYNCING"}
  BY DEF Statuses, PCs
<1>2. /\ Busy(w) /\ SetStatus(JobOf(w), s) /\ Goto(w, pc)
      /\ UNCHANGED <<sellable, shopify, linked, adding, bull, budget, forgotten>>
  BY DEF Fail, Busy
<1> HIDE DEF s, pc
<1>3. QED
  BY <1>1, <1>2, RecordStep

LEMMA DatabaseFailsStep ==
  ASSUME IInv, NEW w \in Workers, DatabaseFails(w)
  PROVE  IInv'
<1>1. /\ UNCHANGED <<tables, shopify, linked, adding, bull, forgotten>> /\ budget' \in Nat
      /\ work[w].pc \in PCs \ {"idle"} /\ Busy(w)
  BY DEF DatabaseFails, Spend, IInv, TypeOK, PCs, Busy
<1>2. JobOf(w) \in DOMAIN outbox /\ bull[JobOf(w)].state = "active"
  BY <1>1, WorkerFacts DEF Busy
<1>3. PICK x \in Work : /\ x.pc \in {"fail", "throw"} /\ x.job = JobOf(w)
                        /\ work' = [work EXCEPT ![w] = x]
  <2>1. CASE Caught(w)
    BY <1>1, <2>1, CaughtWork DEF Busy
  <2>2. CASE Goto(w, "throw")
    <3> DEFINE x == [work[w] EXCEPT !.pc = "throw"]
    <3>1. x \in Work /\ x.pc = "throw" /\ x.job = JobOf(w) /\ work' = [work EXCEPT ![w] = x]
      BY <2>2 DEF Goto, IInv, TypeOK, Work, PCs, JobOf
    <3> HIDE DEF x
    <3>2. QED
      BY <3>1
  <2>3. QED
    BY <2>1, <2>2 DEF DatabaseFails
<1>4. Shape(x) /\ x.pc # "return"
  BY <1>2, <1>3 DEF Shape
<1>5. QED
  BY <1>1, <1>3, <1>4, MoveStep

\* A processor that has returned leaves a settled row, a forgotten one, or one
\* whose job is being added again.
LEMMA CompleteStep ==
  ASSUME IInv, NEW w \in Workers, Complete(w)
  PROVE  IInv'
<1> DEFINE j == JobOf(w)
           b == [bull[j] EXCEPT !.state = "finished"]
<1>1. /\ j \in Jobs /\ j \in DOMAIN outbox /\ bull[j] \in BullJob
      /\ work[w].pc = "return" /\ outbox \in Seq(Row)
  BY WorkerFacts DEF Complete, IInv, TypeOK
<1>2. /\ UNCHANGED <<sellable, outbox, shopify, linked, adding, forgotten>>
      /\ budget' \in Nat /\ work' = [work EXCEPT ![w] = Idle]
      /\ bull' = [bull EXCEPT ![j] = b]
  BY DEF Complete, tables, IInv, TypeOK
<1>3. b \in BullJob
  BY <1>1 DEF BullJob
<1>4. outbox'[j].status = "SUCCEEDED" => j \in pushed
  BY <1>1, <1>2 DEF IInv, SucceededReached
<1>5. j \notin forgotten /\ Open(j) => j \in adding
  BY <1>1 DEF IInv, SpentJobs, Spent
<1>6. j \notin forgotten' /\ outbox'[j].status \in {"QUEUED", "SYNCING"}
        => b.state = "waiting" \/ j \in adding
  BY <1>1, <1>2, <1>5 DEF Open
<1> HIDE DEF b
<1>7. QED
  BY <1>1, <1>2, <1>3, <1>4, <1>6, LeaveStep

\* A job that its worker gives back waits or, the last time, is forgotten.
LEMMA GiveBackStep ==
  ASSUME IInv, NEW w \in Workers, Throw(w) \/ Crash(w)
  PROVE  IInv'
<1> DEFINE j == JobOf(w)
<1>1. /\ UNCHANGED <<sellable, outbox, shopify, linked, adding>>
      /\ budget' \in Nat /\ work[w].pc # "idle" /\ work' = [work EXCEPT ![w] = Idle]
  BY DEF Throw, Crash, Spend, tables, IInv, TypeOK
<1>2. /\ j \in Jobs /\ j \in DOMAIN outbox /\ bull[j] \in BullJob /\ outbox \in Seq(Row)
      /\ bull \in [Jobs -> BullJob]
  BY <1>1, WorkerFacts DEF IInv, TypeOK
<1>3. PICK b \in BullJob :
        /\ bull' = [bull EXCEPT ![j] = b]
        /\ \/ b.state = "waiting" /\ forgotten' = forgotten
           \/ forgotten' = forgotten \cup {j}
  <2>1. CASE Throw(w)
    <3> DEFINE last == bull[j].made + 1 >= Attempts
               b    == [bull[j] EXCEPT !.state = IF last THEN "finished" ELSE "waiting",
                                       !.made = bull[j].made + 1]
    <3>0. last \in BOOLEAN /\ bull[j].made + 1 \in Nat
      BY <1>2 DEF BullJob
    <3>1. b \in BullJob /\ bull' = [bull EXCEPT ![j] = b]
      <4>1. b \in BullJob
        BY <1>2, <3>0 DEF BullJob
      <4>2. bull' = [bull EXCEPT ![j].state = IF last THEN "finished" ELSE "waiting",
                                 ![j].made = @ + 1]
        BY <2>1 DEF Throw
      <4> HIDE DEF last
      <4>3. QED
        BY <1>2, <4>1, <4>2
    <3>2. \/ b.state = "waiting" /\ forgotten' = forgotten
          \/ forgotten' = forgotten \cup {j}
      BY <1>2, <2>1 DEF Throw, BullJob
    <3> HIDE DEF b
    <3>3. QED
      BY <3>1, <3>2
  <2>2. CASE Crash(w)
    <3> DEFINE last == bull[j].stalls >= StallLimit
               b    == [bull[j] EXCEPT !.state = IF last THEN "finished" ELSE "waiting",
                                       !.stalls = bull[j].stalls + 1]
    <3>0. last \in BOOLEAN /\ bull[j].stalls + 1 \in Nat
      BY <1>2 DEF BullJob
    <3>1. b \in BullJob /\ bull' = [bull EXCEPT ![j] = b]
      <4>1. b \in BullJob
        BY <1>2, <3>0 DEF BullJob
      <4>2. bull' = [bull EXCEPT ![j].state = IF last THEN "finished" ELSE "waiting",
                                 ![j].stalls = @ + 1]
        BY <2>2 DEF Crash
      <4> HIDE DEF last
      <4>3. QED
        BY <1>2, <4>1, <4>2
    <3>2. \/ b.state = "waiting" /\ forgotten' = forgotten
          \/ forgotten' = forgotten \cup {j}
      BY <1>2, <2>2 DEF Crash, BullJob
    <3> HIDE DEF b
    <3>3. QED
      BY <3>1, <3>2
  <2>3. QED
    BY <2>1, <2>2
<1>4. outbox'[j].status = "SUCCEEDED" => j \in pushed
  BY <1>1, <1>2 DEF IInv, SucceededReached
<1>5. QED
  BY <1>1, <1>2, <1>3, <1>4, LeaveStep

-----------------------------------------------------------------------------
(* The invariant.                                                          *)

LEMMA InitIInv == Init => IInv
<1> SUFFICES ASSUME Init  PROVE IInv
  OBVIOUS
<1>1. DOMAIN outbox = {} /\ outbox \in Seq(Row) /\ Len(outbox) = 0
  BY DEF Init
<1>2. TypeOK
  BY <1>1, SyncAssumption DEF Init, TypeOK, BullJob, Absent, Work, PCs, Idle, SyncAssumption
<1>3. WorkShape /\ KnownToBull
  BY DEF Init, WorkShape, Shape, OthersOf, Busy, Idle, Absent, KnownToBull
<1>4. SucceededReached /\ OpenJobsHaveWork /\ SpentJobs
  BY <1>1 DEF SucceededReached, OpenJobsHaveWork, SpentJobs, Open
<1>5. QED
  BY <1>2, <1>3, <1>4 DEF IInv

LEMMA NextIInv == IInv /\ [Next]_vars => IInv'
<1> SUFFICES ASSUME IInv, [Next]_vars  PROVE IInv'
  OBVIOUS
<1>1. ASSUME Request  PROVE IInv'
  BY <1>1, RequestStep
<1>2. ASSUME NEW w \in Workers, NEW j \in Jobs, Take(w, j)  PROVE IInv'
  BY <1>2, TakeStep
<1>3. ASSUME NEW w \in Workers, Process(w)  PROVE IInv'
  BY <1>3, LoadStep, BeginStep, ReadConfigStep, PushStep, SucceedStep, FailStep,
     CompleteStep, GiveBackStep DEF Process
<1>4. ASSUME NEW w \in Workers, Refused(w) \/ DatabaseFails(w) \/ Crash(w)  PROVE IInv'
  BY <1>4, RefusedStep, DatabaseFailsStep, GiveBackStep
<1>5. CASE UNCHANGED vars
  BY <1>5 DEF vars, tables, shopify, IInv, TypeOK, WorkShape, Shape, OthersOf, Busy,
              JobOf, KnownToBull, SucceededReached, OpenJobsHaveWork, Open, HasWork,
              SpentJobs, Spent
<1>6. QED
  BY <1>1, <1>2, <1>3, <1>4, <1>5 DEF Next

-----------------------------------------------------------------------------
(* The channel.                                                            *)

\* The newest outbox row of a stock row carries what may be sold; a stock row
\* that never changed is still what the channel was given at the start.
NewestCarries(r) ==
  \/ (\A j \in DOMAIN outbox : RowOf(j) # r) /\ channel[r] = sellable[r]
  \/ \E j \in DOMAIN outbox : /\ RowOf(j) = r
                              /\ outbox[j].target = sellable[r]
                              /\ \A i \in DOMAIN outbox : RowOf(i) = r => i <= j

\* Unless an older target came last, the channel shows the newest one it took.
ShowsNewest(r) ==
  \A j \in pushed :
    /\ RowOf(j) = r
    /\ \A i \in pushed : RowOf(i) = r => i <= j
    => channel[r] = outbox[j].target

Tracks == /\ \A r \in Rows : NewestCarries(r)
          /\ \A r \in Rows \ overtaken : ShowsNewest(r)

LEMMA InitTracks == Init => Tracks
BY DEF Init, Tracks, NewestCarries, ShowsNewest

\* A step that changes at most the status of outbox rows.
LEMMA StatusTracks ==
  ASSUME IInv, Tracks, UNCHANGED <<sellable, shopify>>, DOMAIN outbox' = DOMAIN outbox,
         \A j \in DOMAIN outbox : /\ outbox'[j].row = outbox[j].row
                                  /\ outbox'[j].target = outbox[j].target
  PROVE  Tracks'
<1>1. pushed \subseteq DOMAIN outbox
  BY DEF IInv, TypeOK
<1>2. \A r \in Rows : NewestCarries(r)'
  BY DEF Tracks, NewestCarries, RowOf, shopify
<1>3. \A r \in Rows \ overtaken' : ShowsNewest(r)'
  BY <1>1 DEF Tracks, ShowsNewest, RowOf, shopify
<1>4. QED
  BY <1>2, <1>3 DEF Tracks

LEMMA SetStatusTracks ==
  ASSUME IInv, Tracks, UNCHANGED <<sellable, shopify>>,
         NEW j \in DOMAIN outbox, NEW s \in Statuses, SetStatus(j, s)
  PROVE  Tracks'
<1>1. outbox \in Seq(Row) /\ outbox[j] \in Row
  BY DEF IInv, TypeOK
<1>2. outbox' = [outbox EXCEPT ![j] = [outbox[j] EXCEPT !.status = s]]
  BY DEF SetStatus
<1>3. /\ DOMAIN outbox' = DOMAIN outbox
      /\ \A i \in DOMAIN outbox : /\ outbox'[i].row = outbox[i].row
                                  /\ outbox'[i].target = outbox[i].target
  BY <1>1, <1>2 DEF Row
<1>4. QED
  BY <1>3, StatusTracks

\* The new outbox row is the newest of its stock row and carries its quantity.
LEMMA ChangeTracks ==
  ASSUME IInv, Tracks, NEW r \in Rows, NEW n \in Quantities, Change(r, n)
  PROVE  Tracks'
<1> DEFINE k == Len(outbox) + 1
<1>1. outbox \in Seq(Row) /\ pushed \subseteq DOMAIN outbox /\ sellable \in [Rows -> Quantities]
  BY DEF IInv, TypeOK
<1>2. /\ DOMAIN outbox' = DOMAIN outbox \cup {k} /\ k \notin DOMAIN outbox
      /\ outbox'[k].row = r /\ outbox'[k].target = n
      /\ \A i \in DOMAIN outbox : i \in Nat /\ i <= k /\ outbox'[i] = outbox[i]
  BY <1>1 DEF Change
<1>3. /\ channel' = channel /\ pushed' = pushed /\ overtaken' = overtaken
      /\ sellable'[r] = n /\ \A q \in Rows : q # r => sellable'[q] = sellable[q]
  BY <1>1 DEF Change, shopify
<1>4. NewestCarries(r)'
  <2>1. k <= k
    BY <1>1
  <2>2. QED
    BY <1>2, <1>3, <2>1 DEF NewestCarries, RowOf
<1>5. ASSUME NEW q \in Rows, q # r  PROVE NewestCarries(q)'
  BY <1>2, <1>3, <1>5 DEF Tracks, NewestCarries, RowOf
<1>6. \A q \in Rows \ overtaken' : ShowsNewest(q)'
  BY <1>1, <1>2, <1>3 DEF Tracks, ShowsNewest, RowOf
<1>7. QED
  BY <1>4, <1>5, <1>6 DEF Tracks

\* A target that Shopify takes after no newer one is the newest it has taken.
LEMMA AppliedTracks ==
  ASSUME IInv, Tracks, NEW w \in Workers, work[w].pc # "idle", Applied(w), UNCHANGED tables
  PROVE  Tracks'
<1> DEFINE j == JobOf(w)
           r == RowOf(j)
<1>1. /\ j \in DOMAIN outbox /\ r \in Rows /\ channel \in [Rows -> Quantities]
      /\ pushed \subseteq DOMAIN outbox /\ DOMAIN outbox \subseteq Nat
  BY WorkerFacts, OutboxFacts DEF IInv, TypeOK, Row, RowOf, Jobs
<1>2. /\ channel'[r] = outbox[j].target /\ pushed' = pushed \cup {j}
      /\ \A q \in Rows : q # r => channel'[q] = channel[q]
      /\ outbox' = outbox /\ sellable' = sellable
  BY <1>1 DEF Applied, tables
<1>3. /\ overtaken \subseteq overtaken' /\ overtaken' \subseteq overtaken \cup {r}
      /\ r \notin overtaken' => \A i \in pushed : RowOf(i) = r => ~(i > j)
  BY DEF Applied
<1>4. ASSUME NEW q \in Rows  PROVE NewestCarries(q)'
  <2>1. CASE q = r
    BY <1>1, <1>2, <2>1 DEF Tracks, NewestCarries, RowOf
  <2>2. CASE q # r
    BY <1>1, <1>2, <2>2 DEF Tracks, NewestCarries, RowOf
  <2>3. QED
    BY <2>1, <2>2
<1>5. ASSUME NEW q \in Rows \ overtaken'  PROVE ShowsNewest(q)'
  <2>1. CASE q = r
    <3>1. ASSUME NEW i \in pushed', RowOf(i)' = r,
                 \A h \in pushed' : RowOf(h)' = r => h <= i
          PROVE  channel'[r] = outbox'[i].target
      <4>1. RowOf(i) = r /\ j <= i /\ i \in Nat /\ j \in Nat
        BY <1>1, <1>2, <3>1 DEF RowOf
      <4>2. i = j
        BY <1>2, <1>3, <1>5, <2>1, <3>1, <4>1
      <4>3. QED
        BY <1>2, <4>2
    <3>2. QED
      BY <2>1, <3>1 DEF ShowsNewest
  <2>2. CASE q # r
    <3>1. ShowsNewest(q)
      BY <1>3, <1>5 DEF Tracks
    <3>2. QED
      BY <1>2, <2>2, <3>1 DEF ShowsNewest, RowOf
  <2>3. QED
    BY <2>1, <2>2
<1>6. QED
  BY <1>4, <1>5 DEF Tracks

LEMMA NextTracks == IInv /\ Tracks /\ [Next]_vars => Tracks'
<1> SUFFICES ASSUME IInv, Tracks, [Next]_vars  PROVE Tracks'
  OBVIOUS
<1>1. ASSUME UNCHANGED <<tables, shopify>>  PROVE Tracks'
  BY <1>1, StatusTracks DEF tables
<1>2. ASSUME NEW r \in Rows, NEW n \in Quantities, Change(r, n)  PROVE Tracks'
  BY <1>2, ChangeTracks
<1>3. ASSUME NEW j \in Jobs, Retry(j)  PROVE Tracks'
  BY <1>3, SetStatusTracks DEF Retry, Statuses
<1>4. ASSUME NEW w \in Workers, Begin(w) \/ Succeed(w) \/ Fail(w)  PROVE Tracks'
  <2>1. JobOf(w) \in DOMAIN outbox /\ UNCHANGED <<sellable, shopify>>
    BY <1>4, WorkerFacts DEF Begin, Succeed, Fail
  <2>2. PICK s \in Statuses : SetStatus(JobOf(w), s)
    BY <1>4 DEF Begin, Succeed, Fail, Statuses
  <2>3. QED
    BY <2>1, <2>2, SetStatusTracks
<1>5. ASSUME NEW w \in Workers, Push(w) \/ Refused(w)  PROVE Tracks'
  <2>1. work[w].pc # "idle" /\ UNCHANGED tables /\ (UNCHANGED shopify \/ Applied(w))
    BY <1>5 DEF Push, Refused
  <2>2. QED
    BY <1>1, <2>1, AppliedTracks
<1>6. ASSUME NEW w \in Workers, \/ Load(w) \/ ReadConfig(w) \/ DatabaseFails(w)
                                \/ Complete(w) \/ Throw(w) \/ Crash(w)
      PROVE  Tracks'
  BY <1>1, <1>6 DEF Load, ReadConfig, DatabaseFails, Complete, Throw, Crash
<1>7. ASSUME NEW w \in Workers, NEW j \in Jobs, Take(w, j)  PROVE Tracks'
  BY <1>1, <1>7 DEF Take
<1>8. ASSUME NEW j \in Jobs, EnqueueJob(j) \/ LoseJob(j) \/ Evict(j)  PROVE Tracks'
  BY <1>1, <1>8 DEF EnqueueJob, LoseJob, Evict
<1>9. ASSUME NEW r \in Rows, Toggle(r)  PROVE Tracks'
  BY <1>1, <1>9 DEF Toggle
<1>10. CASE UNCHANGED vars
  BY <1>1, <1>10 DEF vars
<1>11. QED
  BY <1>2, <1>3, <1>4, <1>5, <1>6, <1>7, <1>8, <1>9, <1>10 DEF Next, Request, Process

\* When all outbox rows of a stock row have succeeded, each has reached Shopify;
\* the newest is the one it shows, and that one carries what may be sold.
LEMMA TracksCurrent == IInv /\ Tracks => ChannelCurrent
<1> SUFFICES ASSUME IInv, Tracks, NEW r \in Rows \ overtaken, Synced(r)
             PROVE  channel[r] = sellable[r]
  BY DEF ChannelCurrent
<1>1. NewestCarries(r) /\ ShowsNewest(r)
  BY DEF Tracks
<1>2. CASE \A j \in DOMAIN outbox : RowOf(j) # r
  BY <1>1, <1>2 DEF NewestCarries
<1>3. ASSUME NEW j \in DOMAIN outbox, RowOf(j) = r, outbox[j].target = sellable[r],
             \A i \in DOMAIN outbox : RowOf(i) = r => i <= j
      PROVE  channel[r] = sellable[r]
  <2>1. j \in pushed /\ pushed \subseteq DOMAIN outbox
    BY <1>3 DEF Synced, IInv, SucceededReached, TypeOK
  <2>2. QED
    BY <1>1, <1>3, <2>1 DEF ShowsNewest
<1>4. QED
  BY <1>1, <1>2, <1>3 DEF NewestCarries

\* Every reachable state is well typed; a worker's job is a committed outbox row
\* (inventory-sync-outbox.service.ts, shopify-sync-processor.service.ts).
THEOREM SyncTypeCorrect == Spec => []TypeOK
<1>1. IInv => TypeOK
  BY DEF IInv
<1>2. QED
  BY <1>1, InitIInv, NextIInv, PTL DEF Spec

\* A row recorded as SUCCEEDED has reached Shopify, whatever attempts fail, crash
\* or are repeated (shopify-sync-processor.service.ts 101-126).
THEOREM SuccessReachedShopify == Spec => []SucceededReached
<1>1. IInv => SucceededReached
  BY DEF IInv
<1>2. QED
  BY <1>1, InitIInv, NextIInv, PTL DEF Spec

\* An unfinished row has a request that is adding its job, or a job that waits or
\* runs, unless the job was lost in one of the ways forgotten records.
THEOREM UnfinishedRowsHaveWork == Spec => []OpenJobsHaveWork
<1>1. IInv => OpenJobsHaveWork
  BY DEF IInv
<1>2. QED
  BY <1>1, InitIInv, NextIInv, PTL DEF Spec

\* Once every outbox row of a stock row is SUCCEEDED, Shopify shows what may be
\* sold, if no older target was taken after a newer one
\* (shopify-sync-processor.service.ts 101-126).
THEOREM ChannelEndsCurrent == Spec => []ChannelCurrent
<1>1. Init => IInv /\ Tracks
  BY InitIInv, InitTracks
<1>2. (IInv /\ Tracks) /\ [Next]_vars => (IInv /\ Tracks)'
  BY NextIInv, NextTracks
<1>3. QED
  BY <1>1, <1>2, TracksCurrent, PTL DEF Spec
=============================================================================
