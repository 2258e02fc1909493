--------------------------- MODULE HybridDriftProofs ---------------------------
(***************************************************************************)
(* For any number of rows, orders, detections, workers, attempts and       *)
(* mishaps: a fix never leaves more reserved than there is, a queued drift *)
(* has a job coming, and to the order engine a fix is one more adjustment. *)
(*                                                                         *)
(* The strengthening (FixShape) says what a worker's position knows: its   *)
(* job is active and no other worker's, and between the lock and its       *)
(* release the row is its own, so that the reserved quantity it has read   *)
(* is the row's when it writes.                                            *)
(***************************************************************************)
EXTENDS HybridDrift, SequenceTheorems, TLAPS

Holding == {"readRow", "writeRow", "unlock"}

\* Position x of worker w, given the jobs, the locks and the reservations.
Shape(w, x, queue, locks, held) ==
  /\ x.pc # "idle" => x.job \in JobIds /\ queue[x.job].state = "active"
  /\ x.pc \notin {"idle", "read"} => x.sku \in Skus
  /\ x.pc \in Holding => locks[x.sku] = w
  /\ x.pc = "writeRow" => x.amount = held[x.sku]
  /\ x.pc = "unlock" => x.next \in {"resolve", "throw"}

OthersOf(w) == {v \in Workers \ {w} : Busy(v)}

FixShape ==
  \A w \in Workers : /\ Shape(w, fix[w], jobs, lock, reserved)
                     /\ Busy(w) => \A v \in OthersOf(w) : fix[v].job # fix[w].job

IInv == TypeOK /\ FixShape /\ NoOverselling /\ QueuedDriftsHaveJob

-----------------------------------------------------------------------------
(* Facts about drifts, calls and workers.                                  *)

LEMMA Blank == /\ NoCall \in Call /\ CallOK(NoCall, DOMAIN drifts) /\ NoFix \in Fix
               /\ NoJob \in Job /\ JobOK(NoJob, DOMAIN drifts)
               /\ CallOK(NoCall, DOMAIN drifts') /\ JobOK(NoJob, DOMAIN drifts') /\ NoCall.drift = 0
               /\ NoCall.pc = "idle" /\ NoFix.pc = "idle" /\ NoJob.state = "absent"
BY HybridDriftAssumption DEF HybridDriftAssumption, NoCall, Call, CallOK, NoFix, Fix,
   NoJob, Job, JobOK, Zeros, CallPCs, FixPCs, Statuses, Open

\* What the environment does leaves its budget within bounds.
LEMMA Spent ==
  ASSUME budget \in 0..Mishaps
  PROVE  \A what : Spend(what) => budget' \in 0..Mishaps
BY HybridDriftAssumption DEF HybridDriftAssumption, Spend

\* Setting the status of one drift keeps the numbering and every other drift.
LEMMA StatusSet ==
  ASSUME drifts \in Seq(Drift), NEW d \in DOMAIN drifts, NEW s \in Statuses, SetDrift(d, s)
  PROVE  /\ drifts' \in Seq(Drift) /\ Len(drifts') = Len(drifts)
         /\ DOMAIN drifts' = DOMAIN drifts
         /\ drifts'[d].status = s
         /\ \A e \in DOMAIN drifts : e # d => drifts'[e] = drifts[e]
<1>1. drifts[d] \in Drift
  OBVIOUS
<1>2. drifts' = [drifts EXCEPT ![d] = [drifts[d] EXCEPT !.status = s]]
  BY DEF SetDrift
<1>3. [drifts[d] EXCEPT !.status = s] \in Drift
  BY <1>1 DEF Drift
<1>4. QED
  BY <1>1, <1>2, <1>3 DEF Drift

\* Calls and jobs keep their type when drifts are only added.
LEMMA KeptOK ==
  ASSUME drifts \in Seq(Drift), drifts' \in Seq(Drift), Len(drifts) <= Len(drifts')
  PROVE  /\ DOMAIN drifts \subseteq DOMAIN drifts'
         /\ \A c : CallOK(c, DOMAIN drifts) => CallOK(c, DOMAIN drifts')
         /\ \A j : JobOK(j, DOMAIN drifts) => JobOK(j, DOMAIN drifts')
BY DEF CallOK, JobOK

\* A call that moves, and what it makes of the other calls.
LEMMA CallMoved ==
  ASSUME TypeOK, NEW p \in Callers, NEW x, Calling(p, x), CallOK(x, DOMAIN drifts'),
         drifts' \in Seq(Drift), Len(drifts) <= Len(drifts')
  PROVE  /\ DOMAIN call' = Callers /\ \A q \in Callers : CallOK(call'[q], DOMAIN drifts')
         /\ call'[p] = x /\ \A q \in Callers \ {p} : call'[q] = call[q]
<1>1. /\ DOMAIN call' = Callers /\ call'[p] = x
      /\ \A q \in Callers \ {p} : call'[q] = call[q]
  BY DEF TypeOK, Calling
<1>2. \A q \in Callers : CallOK(call'[q], DOMAIN drifts')
  BY <1>1, KeptOK DEF TypeOK, CallOK
<1>3. QED
  BY <1>1, <1>2

LEMMA OnwardOK ==
  ASSUME NEW c \in Call, NEW todo \in SUBSET Skus
  PROVE  /\ CallOK(Onward(c, todo), DOMAIN drifts) /\ CallOK(Onward(c, todo), DOMAIN drifts')
         /\ Onward(c, todo).pc # "add"
<1>1. [c EXCEPT !.pc = "next", !.todo = todo, !.sku = None, !.drift = 0,
                !.status = "DETECTED"] \in Call
  BY DEF Call, CallPCs, Statuses, Open
<1>2. QED
  BY <1>1, Blank DEF Onward, CallOK, Call

\* A worker that moves within its job.
LEMMA WorkerFacts ==
  ASSUME IInv, NEW w \in Workers, Busy(w)
  PROVE  /\ fix[w].job \in JobIds /\ JobOf(w) \in Job /\ JobOf(w).state = "active"
         /\ DriftOf(w) \in DOMAIN drifts /\ drifts[DriftOf(w)] \in Drift
         /\ fix[w] \in Fix
         /\ \A v \in OthersOf(w) : fix[v].job # fix[w].job
<1>1. /\ fix[w].job \in JobIds /\ JobOf(w).state = "active" /\ fix[w] \in Fix
      /\ \A v \in OthersOf(w) : fix[v].job # fix[w].job
  BY DEF IInv, TypeOK, FixShape, Shape, Busy, JobOf
<1>2. JobOf(w) \in Job /\ DriftOf(w) \in DOMAIN drifts
  BY <1>1 DEF IInv, TypeOK, JobOf, DriftOf, JobOK
<1>3. drifts[DriftOf(w)] \in Drift
  BY <1>2 DEF IInv, TypeOK
<1>4. QED
  BY <1>1, <1>2, <1>3

-----------------------------------------------------------------------------
(* Detections and fix requests.  None of their steps moves stock, lock or  *)
(* workers.                                                                *)

Still == UNCHANGED <<shop, lock, fix>>

LEMMA StillShape ==
  ASSUME IInv, Still, \A j \in JobIds : jobs[j].state = "active" => jobs'[j] = jobs[j]
  PROVE  FixShape' /\ NoOverselling'
<1>1. fix' = fix /\ lock' = lock /\ physical' = physical /\ reserved' = reserved
  BY DEF Still, shop, stock
<1>2. \A w \in Workers : Shape(w, fix[w], jobs, lock, reserved)
                          => Shape(w, fix[w], jobs', lock, reserved)
  BY DEF Shape
<1>3. QED
  BY <1>1, <1>2 DEF IInv, FixShape, NoOverselling, OthersOf, Busy, Sellable

\* A call moves from one position to another that adds no job; drifts stay.
LEMMA CallOnly ==
  ASSUME IInv, NEW p \in Callers, NEW x, Calling(p, x), CallOK(x, DOMAIN drifts), Still,
         UNCHANGED <<drifts, jobs>>, budget' \in 0..Mishaps,
         stranded' \subseteq DOMAIN drifts, stranded \subseteq stranded',
         call[p].pc = "add" => call[p].drift \in stranded'
  PROVE  IInv'
<1>1. /\ DOMAIN call' = Callers /\ \A q \in Callers : CallOK(call'[q], DOMAIN drifts')
      /\ call'[p] = x /\ \A q \in Callers \ {p} : call'[q] = call[q]
  <2>1. CallOK(x, DOMAIN drifts')
    BY DEF CallOK
  <2>2. QED
    BY <2>1, CallMoved DEF IInv, TypeOK
<1>2. TypeOK'
  BY <1>1 DEF IInv, TypeOK, Still, shop, stock, JobOK
<1>3. QueuedDriftsHaveJob'
  <2>1. SUFFICES ASSUME NEW d \in DOMAIN drifts, drifts[d].status = "FIX_QUEUED",
                        d \notin stranded'
                 PROVE  Expected(d)'
    BY DEF QueuedDriftsHaveJob
  <2>2. Expected(d)
    BY <2>1 DEF IInv, QueuedDriftsHaveJob
  <2>3. ASSUME NEW q \in Callers, call[q].pc = "add", call[q].drift = d
        PROVE  call'[q] = call[q]
    BY <1>1, <2>1, <2>3
  <2>4. QED
    BY <2>2, <2>3 DEF Expected, Still, DriftOf, JobOf
<1>4. QED
  BY <1>2, <1>3, StillShape DEF IInv

LEMMA ReadStep ==
  ASSUME IInv, NEW p \in Callers,
         \/ RunCycle(p) \/ DetectOnly(p) \/ ReadInternal(p) \/ ReadExternal(p)
         \/ CallDies(p)
         \/ \E k \in Skus : FindOpen(p, k)
         \/ \E d \in DOMAIN drifts, s \in Strategies : AskFix(p, d, s)
  PROVE  IInv'
<1>0. /\ call[p] \in Call /\ CallOK(call[p], DOMAIN drifts) /\ budget \in 0..Mishaps
      /\ stranded \subseteq DOMAIN drifts /\ Mishaps \in Nat
  BY HybridDriftAssumption DEF IInv, TypeOK, CallOK, HybridDriftAssumption
<1>1. ASSUME NEW auto \in BOOLEAN, Detecting(p, auto), budget' \in 0..Mishaps  PROVE IInv'
  <2> DEFINE x == [NoCall EXCEPT !.pc = "readBoth", !.auto = auto, !.todo = Skus]
  <2>1. CallOK(x, DOMAIN drifts) /\ call[p].pc = "idle"
    BY <1>1, Blank DEF Detecting, CallOK, Call, CallPCs
  <2>2. QED
    BY <1>0, <1>1, <2>1, CallOnly DEF Detecting, Still
<1>2. CASE RunCycle(p)
  BY <1>0, <1>1, <1>2, Spent DEF RunCycle
<1>3. CASE DetectOnly(p)
  BY <1>0, <1>1, <1>3, Spent DEF DetectOnly
<1>4. CASE ReadInternal(p)
  <2> DEFINE x == [call[p] EXCEPT
                     !.pc = IF call[p].pc = "readBoth" THEN "readExternal" ELSE "next",
                     !.expected = [k \in Skus |-> Sellable(k)]]
  <2>1. [k \in Skus |-> Sellable(k)] \in [Skus -> Nat]
    BY DEF IInv, TypeOK, NoOverselling, Sellable
  <2>2. CallOK(x, DOMAIN drifts)
    BY <1>0, <2>1 DEF CallOK, Call, CallPCs
  <2>3. QED
    BY <1>0, <1>4, <2>2, CallOnly DEF ReadInternal, Still
<1>5. CASE ReadExternal(p)
  <2> DEFINE x == [call[p] EXCEPT
                     !.pc = IF call[p].pc = "readBoth" THEN "readInternal" ELSE "next",
                     !.actual = ext]
  <2>1. CallOK(x, DOMAIN drifts)
    BY <1>0 DEF CallOK, Call, CallPCs, IInv, TypeOK
  <2>2. QED
    BY <1>0, <1>5, <2>1, CallOnly DEF ReadExternal, Still
<1>6. CASE CallDies(p)
  <2>1. call[p].pc = "add" => call[p].drift \in DOMAIN drifts
    BY <1>0 DEF CallOK
  <2>2. QED
    BY <1>0, <1>6, <2>1, Blank, CallOnly, Spent DEF CallDies, Still
<1>7. ASSUME NEW k \in Skus, FindOpen(p, k)  PROVE IInv'
  <2>1. PICK d \in OpenDrifts(k) \cup {0} :
          Calling(p, [call[p] EXCEPT !.pc = "upsert", !.sku = k, !.drift = d,
                        !.status = IF d # 0 /\ drifts[d].status = "FIXING"
                                   THEN "FIXING" ELSE "DETECTED"])
    BY <1>7 DEF FindOpen
  <2> DEFINE x == [call[p] EXCEPT !.pc = "upsert", !.sku = k, !.drift = d,
                        !.status = IF d # 0 /\ drifts[d].status = "FIXING"
                                   THEN "FIXING" ELSE "DETECTED"]
  <2>2. d \in DOMAIN drifts \cup {0} /\ d \in Nat
    BY DEF OpenDrifts, IInv, TypeOK
  <2>3. CallOK(x, DOMAIN drifts)
    BY <1>0, <2>2 DEF CallOK, Call, CallPCs, Statuses, Open
  <2>4. QED
    BY <1>0, <1>7, <2>1, <2>3, CallOnly DEF FindOpen, Still
<1>8. ASSUME NEW d \in DOMAIN drifts, NEW s \in Strategies, AskFix(p, d, s)  PROVE IInv'
  <2> DEFINE x == [NoCall EXCEPT !.pc = "mark", !.drift = d, !.strategy = s]
  <2>1. d \in Nat /\ d # 0
    BY DEF IInv, TypeOK
  <2>2. CallOK(x, DOMAIN drifts) /\ call[p].pc = "idle"
    BY <1>8, <2>1, Blank DEF AskFix, CallOK, Call, CallPCs
  <2>3. QED
    BY <1>0, <1>8, <2>2, CallOnly, Spent DEF AskFix, Still
<1>9. QED
  BY <1>2, <1>3, <1>4, <1>5, <1>6, <1>7, <1>8

\* A call that writes drifts leaves none queued that was not queued before.
LEMMA DriftsWritten ==
  ASSUME IInv, NEW p \in Callers, NEW x, Calling(p, x), CallOK(x, DOMAIN drifts'), Still,
         UNCHANGED <<jobs, budget, stranded>>, call[p].pc # "add",
         drifts' \in Seq(Drift), Len(drifts) <= Len(drifts'), Len(drifts') <= MaxDrifts,
         \A d \in DOMAIN drifts' : drifts'[d].status = "FIX_QUEUED"
                                   => d \in DOMAIN drifts /\ drifts[d].status = "FIX_QUEUED"
  PROVE  IInv'
<1>1. /\ DOMAIN call' = Callers /\ \A q \in Callers : CallOK(call'[q], DOMAIN drifts')
      /\ call'[p] = x /\ \A q \in Callers \ {p} : call'[q] = call[q]
  BY CallMoved DEF IInv, TypeOK
<1>2. DOMAIN drifts \subseteq DOMAIN drifts' /\ \A j \in JobIds : JobOK(jobs'[j], DOMAIN drifts')
  BY KeptOK DEF IInv, TypeOK, JobOK
<1>3. TypeOK'
  BY <1>1, <1>2 DEF IInv, TypeOK, Still, shop, stock
<1>4. QueuedDriftsHaveJob'
  <2>1. SUFFICES ASSUME NEW d \in DOMAIN drifts', drifts'[d].status = "FIX_QUEUED",
                        d \notin stranded
                 PROVE  Expected(d)'
    BY DEF QueuedDriftsHaveJob
  <2>2. Expected(d)
    BY <2>1 DEF IInv, QueuedDriftsHaveJob
  <2>3. QED
    BY <1>1, <2>2 DEF Expected, Still, DriftOf, JobOf
<1>5. QED
  BY <1>3, <1>4, StillShape DEF IInv

LEMMA UpsertStep ==
  ASSUME IInv, NEW p \in Callers,
         \/ UpdateOpen(p) \/ InsertDrift(p) \/ \E k \in Skus : ResolveMatched(p, k)
  PROVE  IInv'
<1> DEFINE c == call[p]
<1>0. /\ c \in Call /\ CallOK(c, DOMAIN drifts) /\ drifts \in Seq(Drift) /\ Len(drifts) <= MaxDrifts
      /\ MaxDrifts \in Nat
  BY HybridDriftAssumption DEF IInv, TypeOK, CallOK, HybridDriftAssumption
<1>1. c.pc = "upsert" => Measured(c) \in Drift /\ Measured(c).status # "FIX_QUEUED"
  BY <1>0 DEF CallOK, Call, Measured, Drift, Statuses, Open
<1>2. ASSUME NEW d \in Nat, d # 0, d \in DOMAIN drifts', drifts' \in Seq(Drift),
             c.pc = "upsert"
      PROVE  CallOK(Upserted(c, d), DOMAIN drifts') /\ Upserted(c, d).pc # "add"
  <2>1. CASE c.auto
    <3> DEFINE x == [c EXCEPT !.pc = "mark", !.drift = d, !.status = "DETECTED",
                              !.expected[c.sku] = 0, !.actual[c.sku] = 0]
    <3>1. x \in Call /\ x.drift = d /\ x.pc = "mark"
      BY <1>0, <1>2 DEF Call, CallPCs
    <3>2. QED
      BY <1>2, <2>1, <3>1 DEF Upserted, CallOK
  <2>2. CASE ~c.auto
    <3>1. c.todo \ {c.sku} \in SUBSET Skus
      BY <1>0 DEF Call
    <3>2. QED
      BY <1>0, <2>2, <3>1, OnwardOK DEF Upserted
  <2>3. QED
    BY <2>1, <2>2
<1>3. CASE UpdateOpen(p)
  <2>1. c.drift \in DOMAIN drifts /\ c.pc = "upsert" /\ c.drift \in Nat /\ c.drift # 0
    BY <1>0, <1>3 DEF UpdateOpen, CallOK, Call
  <2>2. /\ drifts' \in Seq(Drift) /\ Len(drifts') = Len(drifts)
        /\ DOMAIN drifts' = DOMAIN drifts /\ drifts'[c.drift] = Measured(c)
        /\ \A e \in DOMAIN drifts : e # c.drift => drifts'[e] = drifts[e]
    BY <1>0, <1>1, <1>3, <2>1 DEF UpdateOpen
  <2>3. CallOK(Upserted(c, c.drift), DOMAIN drifts')
    BY <1>2, <2>1, <2>2
  <2>4. QED
    BY <1>0, <1>1, <1>3, <2>1, <2>2, <2>3, DriftsWritten DEF UpdateOpen, Still
<1>4. CASE InsertDrift(p)
  <2>1. c.pc = "upsert" /\ Len(drifts) < MaxDrifts /\ Len(drifts) \in Nat
    BY <1>0, <1>4 DEF InsertDrift
  <2>2. /\ drifts' \in Seq(Drift) /\ Len(drifts') = Len(drifts) + 1
        /\ drifts'[Len(drifts) + 1] = Measured(c)
        /\ \A e \in DOMAIN drifts : drifts'[e] = drifts[e]
        /\ DOMAIN drifts' = DOMAIN drifts \cup {Len(drifts) + 1}
    BY <1>0, <1>1, <1>4, <2>1 DEF InsertDrift
  <2> DEFINE n == Len(drifts) + 1
  <2>3. n \in Nat /\ n # 0 /\ n \in DOMAIN drifts'
    BY <2>1, <2>2
  <2> HIDE DEF n
  <2>4. CallOK(Upserted(c, n), DOMAIN drifts')
    BY <1>2, <2>1, <2>2, <2>3
  <2>5. Calling(p, Upserted(c, n)) /\ Still /\ UNCHANGED <<jobs, budget, stranded>>
    BY <1>4 DEF InsertDrift, Still, n
  <2>6. \A d \in DOMAIN drifts' : drifts'[d].status = "FIX_QUEUED"
                                  => d \in DOMAIN drifts /\ drifts[d].status = "FIX_QUEUED"
    BY <1>1, <2>1, <2>2
  <2>7. Len(drifts) <= Len(drifts') /\ Len(drifts') <= MaxDrifts
    BY <1>0, <2>1, <2>2
  <2>8. QED
    BY <2>1, <2>2, <2>4, <2>5, <2>6, <2>7, DriftsWritten
<1>5. ASSUME NEW k \in Skus, ResolveMatched(p, k)  PROVE IInv'
  <2> DEFINE new(d) == IF d \in OpenDrifts(k)
                       THEN [drifts[d] EXCEPT !.status = "RESOLVED"] ELSE drifts[d]
  <2>1. drifts' = [d \in DOMAIN drifts |-> new(d)]
    BY <1>5 DEF ResolveMatched
  <2>2. \A d \in DOMAIN drifts : new(d) \in Drift /\ new(d).status \in {drifts[d].status, "RESOLVED"}
    <3>1. \A d \in DOMAIN drifts : drifts[d] \in Drift
      BY <1>0
    <3>2. QED
      BY <3>1 DEF Drift, Statuses
  <2>3. drifts' \in [1..Len(drifts) -> Drift] /\ Len(drifts) \in Nat
    BY <1>0, <2>1, <2>2
  <2>4. drifts' \in Seq(Drift) /\ Len(drifts') = Len(drifts) /\ DOMAIN drifts' = DOMAIN drifts
    BY <1>0, <2>3
  <2>5. \A d \in DOMAIN drifts' : drifts'[d].status = "FIX_QUEUED"
                                  => drifts[d].status = "FIX_QUEUED"
    BY <2>1, <2>2
  <2>6. c.todo \ {k} \in SUBSET Skus
    BY <1>0 DEF Call
  <2>7. CallOK(Onward(c, c.todo \ {k}), DOMAIN drifts')
    BY <1>0, <2>6, OnwardOK
  <2>8. QED
    BY <1>0, <1>5, <2>4, <2>5, <2>7, DriftsWritten DEF ResolveMatched, Still
<1>6. QED
  BY <1>3, <1>4, <1>5

\* QueueMark leaves the call about to add the job, QueueAdd adds it.
LEMMA QueueStep ==
  ASSUME IInv, NEW p \in Callers, QueueMark(p) \/ \E j \in JobIds : QueueAdd(p, j)
  PROVE  IInv'
<1> DEFINE c == call[p]
<1>0. c \in Call /\ CallOK(c, DOMAIN drifts) /\ drifts \in Seq(Drift) /\ Len(drifts) <= MaxDrifts
  BY DEF IInv, TypeOK, CallOK
<1>1. CASE QueueMark(p)
  <2>1. c.drift \in DOMAIN drifts /\ c.pc = "mark"
    BY <1>0, <1>1 DEF QueueMark, CallOK
  <2>2. /\ drifts' \in Seq(Drift) /\ Len(drifts') = Len(drifts)
        /\ DOMAIN drifts' = DOMAIN drifts
        /\ \A e \in DOMAIN drifts : e # c.drift => drifts'[e] = drifts[e]
    BY <1>0, <1>1, <2>1, StatusSet DEF QueueMark, Statuses, Open
  <2> DEFINE x == [c EXCEPT !.pc = "add"]
  <2>3. CallOK(x, DOMAIN drifts') /\ x.pc = "add" /\ x.drift = c.drift
    BY <1>0, <2>1, <2>2 DEF CallOK, Call, CallPCs
  <2>4. Calling(p, x) /\ Still /\ UNCHANGED <<jobs, budget, stranded>>
    BY <1>1 DEF QueueMark, Still
  <2>5. /\ DOMAIN call' = Callers /\ \A q \in Callers : CallOK(call'[q], DOMAIN drifts')
        /\ call'[p] = x /\ \A q \in Callers \ {p} : call'[q] = call[q]
    BY <2>2, <2>3, <2>4, <1>0, CallMoved DEF IInv
  <2>6. TypeOK'
    BY <1>0, <2>2, <2>4, <2>5 DEF IInv, TypeOK, Still, shop, stock, JobOK
  <2>7. QueuedDriftsHaveJob'
    <3>1. SUFFICES ASSUME NEW d \in DOMAIN drifts, drifts'[d].status = "FIX_QUEUED",
                          d \notin stranded
                   PROVE  Expected(d)'
      BY <2>2, <2>4 DEF QueuedDriftsHaveJob
    <3>2. CASE d = c.drift
      BY <2>3, <2>5, <3>2 DEF Expected
    <3>3. CASE d # c.drift
      <4>1. Expected(d)
        BY <2>2, <3>1, <3>3 DEF IInv, QueuedDriftsHaveJob
      <4>2. QED
        BY <2>1, <2>4, <2>5, <4>1 DEF Expected, Still, DriftOf, JobOf
    <3>4. QED
      BY <3>2, <3>3
  <2>8. QED
    BY <2>4, <2>6, <2>7, StillShape DEF IInv
<1>2. ASSUME NEW j \in JobIds, QueueAdd(p, j)  PROVE IInv'
  <2> DEFINE new == [state |-> "waiting", drift |-> c.drift, strategy |-> c.strategy,
                     made |-> 0, stalls |-> 0]
             x   == Onward(c, c.todo \ {c.sku})
  <2>1. /\ c.pc = "add" /\ c.drift \in DOMAIN drifts /\ jobs[j].state = "absent"
        /\ Still /\ UNCHANGED <<drifts, budget>> /\ Calling(p, x)
        /\ stranded' = stranded \ {c.drift} /\ jobs' = [jobs EXCEPT ![j] = new]
    BY <1>0, <1>2 DEF QueueAdd, FirstFree, Still, CallOK
  <2>2. JobOK(new, DOMAIN drifts') /\ c.todo \ {c.sku} \in SUBSET Skus
    BY <1>0, <2>1 DEF JobOK, Job, Call
  <2>3. /\ DOMAIN jobs' = JobIds /\ jobs'[j] = new
        /\ \A i \in JobIds \ {j} : jobs'[i] = jobs[i]
    BY <2>1 DEF IInv, TypeOK
  <2>4. \A i \in JobIds : JobOK(jobs'[i], DOMAIN drifts')
    BY <2>1, <2>2, <2>3 DEF IInv, TypeOK, JobOK
  <2>5. CallOK(x, DOMAIN drifts')
    BY <1>0, <2>2, OnwardOK
  <2>6. /\ DOMAIN call' = Callers /\ \A q \in Callers : CallOK(call'[q], DOMAIN drifts')
        /\ \A q \in Callers \ {p} : call'[q] = call[q]
    BY <1>0, <2>1, <2>5, CallMoved DEF IInv
  <2>7. TypeOK'
    BY <2>1, <2>3, <2>4, <2>6 DEF IInv, TypeOK, Still, shop, stock
  <2>8. QueuedDriftsHaveJob'
    <3>1. SUFFICES ASSUME NEW d \in DOMAIN drifts, drifts[d].status = "FIX_QUEUED",
                          d \notin stranded'
                   PROVE  Expected(d)'
      BY <2>1 DEF QueuedDriftsHaveJob
    <3>2. CASE d = c.drift
      BY <2>3, <3>2 DEF Expected
    <3>3. CASE d # c.drift
      <4>1. Expected(d)
        BY <2>1, <3>1, <3>3 DEF IInv, QueuedDriftsHaveJob
      <4>2. CASE \E i \in JobIds : jobs[i].state = "waiting" /\ jobs[i].drift = d
        BY <2>1, <2>3, <4>2 DEF Expected
      <4>3. CASE \E w \in Workers : fix[w].pc \in {"read", "mark"} /\ DriftOf(w) = d
        <5>1. PICK w \in Workers : fix[w].pc \in {"read", "mark"} /\ DriftOf(w) = d
          BY <4>3
        <5>2. fix[w].job \in JobIds /\ JobOf(w).state = "active"
          BY <5>1, WorkerFacts DEF Busy
        <5>3. jobs'[fix[w].job] = jobs[fix[w].job]
          BY <2>1, <2>3, <5>2 DEF JobOf
        <5>4. QED
          BY <2>1, <5>1, <5>3 DEF Expected, Still, DriftOf, JobOf
      <4>4. CASE \E q \in Callers : call[q].pc = "add" /\ call[q].drift = d
        BY <2>6, <3>3, <4>4 DEF Expected
      <4>5. QED
        BY <4>1, <4>2, <4>3, <4>4 DEF Expected
    <3>4. QED
      BY <3>2, <3>3
  <2>9. FixShape' /\ NoOverselling'
    BY <2>1, <2>3, StillShape
  <2>10. QED
    BY <2>7, <2>8, <2>9 DEF IInv
<1>3. QED
  BY <1>1, <1>2

-----------------------------------------------------------------------------
(* The fix workers.                                                        *)

\* A worker that moves: the others keep their jobs and their locks.
LEMMA WorkerMoved ==
  ASSUME IInv, NEW w \in Workers, NEW x \in Fix, Fixing(w, x),
         Shape(w, x, jobs', lock', reserved'),
         x.pc # "idle" => \A v \in OthersOf(w) : fix[v].job # x.job,
         \A v \in OthersOf(w) : jobs'[fix[v].job] = jobs[fix[v].job],
         \A v \in OthersOf(w), k \in Skus : lock[k] = v => lock'[k] = v,
         reserved' = reserved
  PROVE  /\ FixShape' /\ fix' \in [Workers -> Fix]
         /\ fix'[w] = x /\ \A v \in Workers \ {w} : fix'[v] = fix[v]
<1>1. fix' \in [Workers -> Fix] /\ fix'[w] = x /\ \A v \in Workers \ {w} : fix'[v] = fix[v]
  BY DEF IInv, TypeOK, Fixing
<1>2. \A v \in Workers \ {w} : Shape(v, fix[v], jobs', lock', reserved')
  BY DEF IInv, FixShape, Shape, OthersOf, Busy, Holding
<1>3. \A v \in Workers : Shape(v, fix'[v], jobs', lock', reserved')
  BY <1>1, <1>2
<1>4. ASSUME NEW v \in Workers, NEW u \in Workers, u # v,
             fix'[v].pc # "idle", fix'[u].pc # "idle"
      PROVE  fix'[u].job # fix'[v].job
  <2>1. CASE v = w
    BY <1>1, <1>4, <2>1 DEF OthersOf, Busy
  <2>2. CASE u = w
    BY <1>1, <1>4, <2>2 DEF OthersOf, Busy
  <2>3. CASE v # w /\ u # w
    BY <1>1, <1>4, <2>3 DEF OthersOf, Busy, IInv, FixShape
  <2>4. QED
    BY <2>1, <2>2, <2>3
<1>5. QED
  BY <1>1, <1>3, <1>4 DEF FixShape, OthersOf, Busy

\* What a step of one worker must show of queued drifts: those that wait for the
\* worker itself.
LEMMA QueuedKept ==
  ASSUME IInv, NEW w \in Workers, UNCHANGED call, DOMAIN drifts' = DOMAIN drifts,
         stranded \subseteq stranded',
         \A v \in Workers \ {w} : fix'[v] = fix[v],
         \A i \in JobIds : jobs[i].state = "waiting" => jobs'[i] = jobs[i],
         \A v \in OthersOf(w) : jobs'[fix[v].job] = jobs[fix[v].job],
         \A d \in DOMAIN drifts : drifts'[d].status = "FIX_QUEUED"
                                  => drifts[d].status = "FIX_QUEUED",
         \A d \in DOMAIN drifts : /\ drifts'[d].status = "FIX_QUEUED" /\ d \notin stranded'
                                  /\ fix[w].pc \in {"read", "mark"} /\ DriftOf(w) = d
                                  => Expected(d)'
  PROVE  QueuedDriftsHaveJob'
<1>1. SUFFICES ASSUME NEW d \in DOMAIN drifts, drifts'[d].status = "FIX_QUEUED",
                      d \notin stranded'
               PROVE  Expected(d)'
  BY DEF QueuedDriftsHaveJob
<1>2. Expected(d)
  BY <1>1 DEF IInv, QueuedDriftsHaveJob
<1>3. CASE \E i \in JobIds : jobs[i].state = "waiting" /\ jobs[i].drift = d
  BY <1>3 DEF Expected
<1>4. CASE \E v \in Workers : fix[v].pc \in {"read", "mark"} /\ DriftOf(v) = d
  <2>1. PICK v \in Workers : fix[v].pc \in {"read", "mark"} /\ DriftOf(v) = d
    BY <1>4
  <2>2. CASE v = w
    BY <1>1, <2>1, <2>2
  <2>3. CASE v # w
    <3>1. v \in OthersOf(w)
      BY <2>1, <2>3 DEF OthersOf, Busy
    <3>2. fix'[v] = fix[v] /\ jobs'[fix[v].job] = jobs[fix[v].job]
      BY <2>3, <3>1
    <3>3. QED
      BY <2>1, <3>2 DEF Expected, DriftOf, JobOf
  <2>4. QED
    BY <2>2, <2>3
<1>5. CASE \E q \in Callers : call[q].pc = "add" /\ call[q].drift = d
  BY <1>5 DEF Expected
<1>6. QED
  BY <1>2, <1>3, <1>4, <1>5 DEF Expected

LEMMA JobSet ==
  ASSUME TypeOK, NEW j \in JobIds, NEW y, jobs' = [jobs EXCEPT ![j] = y],
         JobOK(y, DOMAIN drifts)
  PROVE  /\ DOMAIN jobs' = JobIds /\ \A i \in JobIds : JobOK(jobs'[i], DOMAIN drifts)
         /\ jobs'[j] = y /\ \A i \in JobIds \ {j} : jobs'[i] = jobs[i]
BY DEF TypeOK

\* What a worker knows of its row from FixRead on.
LEMMA RowFacts ==
  ASSUME IInv, NEW w \in Workers, fix[w].pc \notin {"idle", "read"}
  PROVE  /\ fix[w].sku \in Skus
         /\ fix[w].pc \in Holding => lock[fix[w].sku] = w
         /\ fix[w].pc = "writeRow" => fix[w].amount = reserved[fix[w].sku]
         /\ fix[w].pc = "unlock" => fix[w].next \in {"resolve", "throw"}
BY DEF IInv, FixShape, Shape

\* A worker is no marker of an unheld or orphaned lock.
LEMMA LockNames == \A w \in Workers : w # "free" /\ w # "orphan"
BY HybridDriftAssumption DEF HybridDriftAssumption

LEMMA TakeStep ==
  ASSUME IInv, NEW w \in Workers, NEW j \in JobIds, Take(w, j)
  PROVE  IInv'
<1> DEFINE x == [NoFix EXCEPT !.pc = "read", !.job = j]
           y == [jobs[j] EXCEPT !.state = "active"]
<1>0. j \in Nat
  BY DEF JobIds
<1>1. /\ x \in Fix /\ x.job = j /\ x.pc = "read"
  BY <1>0, Blank DEF Fix, FixPCs
<1>2. JobOK(jobs[j], DOMAIN drifts) /\ jobs[j].state = "waiting"
  BY DEF Take, IInv, TypeOK
<1>3. JobOK(y, DOMAIN drifts) /\ y.state = "active" /\ y.drift = jobs[j].drift
  BY <1>2 DEF JobOK, Job
<1>4. /\ jobs' = [jobs EXCEPT ![j] = y] /\ Fixing(w, x) /\ fix[w].pc = "idle"
      /\ UNCHANGED <<shop, lock, drifts, call, budget, stranded>>
  BY DEF Take, Busy
<1>5. /\ DOMAIN jobs' = JobIds /\ \A i \in JobIds : JobOK(jobs'[i], DOMAIN drifts)
      /\ jobs'[j] = y /\ \A i \in JobIds \ {j} : jobs'[i] = jobs[i]
  BY <1>3, <1>4, JobSet DEF IInv
<1>6. \A v \in OthersOf(w) : fix[v].job # j /\ fix[v].job \in JobIds
  BY <1>2, WorkerFacts DEF OthersOf, JobOf
<1>7. Shape(w, x, jobs', lock', reserved')
  BY <1>1, <1>3, <1>5 DEF Shape, Holding
<1> HIDE DEF x, y
<1>8. /\ FixShape' /\ fix' \in [Workers -> Fix]
      /\ fix'[w] = x /\ \A v \in Workers \ {w} : fix'[v] = fix[v]
  <2>1. reserved' = reserved /\ lock' = lock
    BY <1>4 DEF shop, stock
  <2>2. \A v \in OthersOf(w) : jobs'[fix[v].job] = jobs[fix[v].job]
    BY <1>5, <1>6
  <2>3. QED
    BY <1>1, <1>4, <1>6, <1>7, <2>1, <2>2, WorkerMoved
<1>9. TypeOK' /\ NoOverselling'
  BY <1>4, <1>5, <1>8 DEF IInv, TypeOK, NoOverselling, shop, stock
<1>10. QueuedDriftsHaveJob'
  <2>1. SUFFICES ASSUME NEW d \in DOMAIN drifts, drifts[d].status = "FIX_QUEUED",
                        d \notin stranded
                 PROVE  Expected(d)'
    BY <1>4 DEF QueuedDriftsHaveJob
  <2>2. Expected(d)
    BY <2>1 DEF IInv, QueuedDriftsHaveJob
  <2>3. CASE jobs[j].drift = d
    BY <1>1, <1>3, <1>5, <1>8, <2>3 DEF Expected, DriftOf, JobOf
  <2>4. CASE \E i \in JobIds \ {j} : jobs[i].state = "waiting" /\ jobs[i].drift = d
    BY <1>5, <2>4 DEF Expected
  <2>5. CASE \E v \in Workers : fix[v].pc \in {"read", "mark"} /\ DriftOf(v) = d
    <3>1. PICK v \in Workers : fix[v].pc \in {"read", "mark"} /\ DriftOf(v) = d
      BY <2>5
    <3>2. v \in OthersOf(w)
      BY <1>4, <3>1 DEF OthersOf, Busy
    <3>3. fix'[v] = fix[v] /\ jobs'[fix[v].job] = jobs[fix[v].job]
      BY <1>5, <1>6, <1>8, <3>2 DEF OthersOf
    <3>4. QED
      BY <3>1, <3>3 DEF Expected, DriftOf, JobOf
  <2>6. CASE \E q \in Callers : call[q].pc = "add" /\ call[q].drift = d
    BY <1>4, <2>6 DEF Expected
  <2>7. QED
    BY <2>2, <2>3, <2>4, <2>5, <2>6 DEF Expected
<1>11. QED
  BY <1>8, <1>9, <1>10 DEF IInv

\* A worker moves on with its job; stock, drifts and queue stay.
LEMMA PositionOnly ==
  ASSUME IInv, NEW w \in Workers, NEW x \in Fix, Fixing(w, x), Busy(w),
         x.job = fix[w].job, x.pc # "idle",
         Shape(w, x, jobs, lock', reserved),
         UNCHANGED <<stock, late, drifts, jobs, call, stranded>>,
         budget' \in 0..Mishaps, ext' \in [Skus -> Nat],
         lock' \in [Skus -> Workers \cup {"free", "orphan"}],
         \A v \in OthersOf(w), k \in Skus : lock[k] = v => lock'[k] = v,
         fix[w].pc \in {"read", "mark"} => x.pc \in {"read", "mark"}
  PROVE  IInv'
<1>1. /\ FixShape' /\ fix' \in [Workers -> Fix]
      /\ fix'[w] = x /\ \A v \in Workers \ {w} : fix'[v] = fix[v]
  BY WorkerFacts, WorkerMoved DEF stock
<1>2. TypeOK' /\ NoOverselling'
  BY <1>1 DEF IInv, TypeOK, NoOverselling, stock, JobOK, CallOK
<1>3. QueuedDriftsHaveJob'
  BY <1>1, QueuedKept DEF Expected, DriftOf, JobOf
<1>4. QED
  BY <1>1, <1>2, <1>3 DEF IInv

\* A worker ends with its job, which fails, waits again or is gone.
LEMMA JobLeft ==
  ASSUME IInv, NEW w \in Workers, Busy(w), NEW y, JobOK(y, DOMAIN drifts),
         jobs' = [jobs EXCEPT ![fix[w].job] = y], Fixing(w, NoFix),
         drifts' \in Seq(Drift), Len(drifts') = Len(drifts),
         \A d \in DOMAIN drifts : drifts'[d].status = "FIX_QUEUED"
                                  => drifts[d].status = "FIX_QUEUED",
         UNCHANGED <<shop, call>>, budget' \in 0..Mishaps,
         stranded \subseteq stranded', stranded' \subseteq DOMAIN drifts,
         lock' \in [Skus -> Workers \cup {"free", "orphan"}],
         \A v \in OthersOf(w), k \in Skus : lock[k] = v => lock'[k] = v,
         fix[w].pc \in {"read", "mark"} =>
           \/ y.state = "waiting" /\ y.drift = DriftOf(w)
           \/ DriftOf(w) \in stranded'
           \/ drifts'[DriftOf(w)].status # "FIX_QUEUED"
  PROVE  IInv'
<1> DEFINE j == fix[w].job
<1>1. /\ j \in JobIds /\ JobOf(w).state = "active"
      /\ \A v \in OthersOf(w) : fix[v].job # j /\ fix[v].job \in JobIds
  BY WorkerFacts DEF OthersOf
<1>2. /\ DOMAIN jobs' = JobIds /\ \A i \in JobIds : JobOK(jobs'[i], DOMAIN drifts)
      /\ jobs'[j] = y /\ \A i \in JobIds \ {j} : jobs'[i] = jobs[i]
  BY <1>1, JobSet DEF IInv
<1>3. DOMAIN drifts' = DOMAIN drifts
  BY DEF IInv, TypeOK
<1>4. /\ FixShape' /\ fix' \in [Workers -> Fix]
      /\ fix'[w] = NoFix /\ \A v \in Workers \ {w} : fix'[v] = fix[v]
  <2>1. reserved' = reserved
    BY DEF shop, stock
  <2>2. NoFix \in Fix /\ Shape(w, NoFix, jobs', lock', reserved') /\ NoFix.pc = "idle"
    BY Blank DEF Shape, Holding
  <2>3. QED
    BY <1>1, <1>2, <2>1, <2>2, WorkerMoved
<1>5. TypeOK' /\ NoOverselling'
  BY <1>2, <1>3, <1>4 DEF IInv, TypeOK, NoOverselling, shop, stock
<1>6. QueuedDriftsHaveJob'
  <2>1. \A i \in JobIds : jobs[i].state = "waiting" => jobs'[i] = jobs[i]
    BY <1>1, <1>2 DEF JobOf
  <2>2. ASSUME NEW d \in DOMAIN drifts, DriftOf(w) = d, fix[w].pc \in {"read", "mark"},
               d \notin stranded', drifts'[d].status = "FIX_QUEUED"
        PROVE  Expected(d)'
    <3>1. jobs'[j].state = "waiting" /\ jobs'[j].drift = d
      BY <1>2, <2>2
    <3>2. QED
      BY <1>1, <1>2, <1>4, <3>1 DEF Expected
  <2>3. QED
    BY <1>1, <1>2, <1>3, <1>4, <2>1, <2>2, QueuedKept DEF shop
<1>7. QED
  BY <1>4, <1>5, <1>6 DEF IInv

\* The attempt is over: its job waits again, or it is gone and the drift is stranded.
LEMMA GivesUpLeaves ==
  ASSUME IInv, NEW w \in Workers, Busy(w), NEW again \in BOOLEAN,
         NEW j \in Job, j.state = "waiting", j.drift = DriftOf(w), GivesUp(w, again, j),
         UNCHANGED <<shop, drifts, call>>, budget' \in 0..Mishaps,
         lock' \in [Skus -> Workers \cup {"free", "orphan"}],
         \A v \in OthersOf(w), k \in Skus : lock[k] = v => lock'[k] = v
  PROVE  IInv'
<1> DEFINE y == IF again THEN j ELSE NoJob
<1>1. DriftOf(w) \in DOMAIN drifts /\ drifts \in Seq(Drift) /\ stranded \subseteq DOMAIN drifts
  BY WorkerFacts DEF IInv, TypeOK
<1>2. JobOK(y, DOMAIN drifts) /\ (again => y.state = "waiting" /\ y.drift = DriftOf(w))
  BY <1>1, Blank DEF JobOK
<1>3. jobs' = [jobs EXCEPT ![fix[w].job] = y]
  BY DEF GivesUp
<1>4. /\ Fixing(w, NoFix)
      /\ stranded \subseteq stranded' /\ stranded' \subseteq DOMAIN drifts
      /\ fix[w].pc \in {"read", "mark"} /\ ~again => DriftOf(w) \in stranded'
  BY <1>1 DEF GivesUp
<1> HIDE DEF y
<1>5. QED
  BY <1>1, <1>2, <1>3, <1>4, JobLeft

\* A job that waits again keeps its drift.
LEMMA WaitsAgain ==
  ASSUME IInv, NEW w \in Workers, Busy(w)
  PROVE  /\ JobOf(w).made + 1 \in Nat /\ JobOf(w).stalls + 1 \in Nat
         /\ \A n \in Nat :
              LET j == [JobOf(w) EXCEPT !.state = "waiting", !.made = n]
                  i == [JobOf(w) EXCEPT !.state = "waiting", !.stalls = n]
              IN  /\ j \in Job /\ j.state = "waiting" /\ j.drift = DriftOf(w)
                  /\ i \in Job /\ i.state = "waiting" /\ i.drift = DriftOf(w)
<1>1. JobOf(w) \in Job
  BY WorkerFacts
<1>2. JobOf(w).made + 1 \in Nat /\ JobOf(w).stalls + 1 \in Nat
  BY <1>1 DEF Job
<1>3. ASSUME NEW n \in Nat
      PROVE  LET j == [JobOf(w) EXCEPT !.state = "waiting", !.made = n]
                 i == [JobOf(w) EXCEPT !.state = "waiting", !.stalls = n]
             IN  /\ j \in Job /\ j.state = "waiting" /\ j.drift = DriftOf(w)
                 /\ i \in Job /\ i.state = "waiting" /\ i.drift = DriftOf(w)
  BY <1>1 DEF Job, DriftOf
<1>4. QED
  BY <1>2, <1>3

LEMMA ThrowsLeave ==
  ASSUME IInv, NEW w \in Workers, Busy(w), Throws(w),
         UNCHANGED <<shop, lock, drifts, call>>, budget' \in 0..Mishaps
  PROVE  IInv'
<1>0. lock \in [Skus -> Workers \cup {"free", "orphan"}]
  BY DEF IInv, TypeOK
<1>1. JobOf(w).made + 1 \in Nat
  BY WaitsAgain
<1>2. PICK again \in BOOLEAN, j \in Job :
        j.state = "waiting" /\ j.drift = DriftOf(w) /\ GivesUp(w, again, j)
  <2> DEFINE d == [JobOf(w) EXCEPT !.state = "waiting", !.made = JobOf(w).made + 1]
             again == JobOf(w).made + 1 < Attempts
  <2>1. d \in Job /\ d.state = "waiting" /\ d.drift = DriftOf(w)
    BY <1>1, WaitsAgain
  <2>2. GivesUp(w, again, d)
    BY DEF Throws
  <2>3. again \in BOOLEAN
    OBVIOUS
  <2> HIDE DEF d, again
  <2>4. QED
    BY <2>1, <2>2, <2>3
<1>3. /\ lock' \in [Skus -> Workers \cup {"free", "orphan"}]
      /\ \A v \in OthersOf(w), k \in Skus : lock[k] = v => lock'[k] = v
  BY <1>0
<1>4. QED
  BY <1>2, <1>3, GivesUpLeaves

LEMMA EndStep ==
  ASSUME IInv, NEW w \in Workers,
         Resolve(w) \/ Throw(w) \/ LockBusy(w) \/ FixFails(w) \/ Crash(w)
  PROVE  IInv'
<1>1. /\ budget \in 0..Mishaps
      /\ drifts \in Seq(Drift) /\ stranded \subseteq DOMAIN drifts
      /\ lock \in [Skus -> Workers \cup {"free", "orphan"}]
  BY HybridDriftAssumption DEF IInv, TypeOK, HybridDriftAssumption
<1>2. CASE Resolve(w)
  <2>1. Busy(w) /\ fix[w].pc = "resolve"
    BY <1>2 DEF Resolve, Busy
  <2>2. DriftOf(w) \in DOMAIN drifts
    BY <2>1, WorkerFacts
  <2>3. /\ drifts' \in Seq(Drift) /\ Len(drifts') = Len(drifts)
        /\ \A d \in DOMAIN drifts : drifts'[d].status = "FIX_QUEUED"
                                    => drifts[d].status = "FIX_QUEUED"
    BY <1>1, <1>2, <2>2, StatusSet DEF Resolve, Statuses
  <2>4. QED
    BY <1>1, <1>2, <2>1, <2>3, Blank, JobLeft DEF Resolve, EndJob
<1>3. CASE Throw(w)
  BY <1>1, <1>3, ThrowsLeave DEF Throw, Busy, Holding
<1>4. CASE LockBusy(w)
  BY <1>1, <1>4, ThrowsLeave DEF LockBusy, Busy, Holding
<1>5. CASE FixFails(w)
  <2>1. budget' \in 0..Mishaps /\ UNCHANGED <<shop, lock, drifts, call>>
    BY <1>1, <1>5, Spent DEF FixFails
  <2>2. CASE fix[w].pc \in {"read", "mark", "set", "acquire", "resolve"} /\ Throws(w)
    BY <2>1, <2>2, ThrowsLeave DEF Busy, Holding
  <2>3. CASE /\ fix[w].pc \in {"readRow", "writeRow"}
             /\ Unlocking(w, "throw") /\ UNCHANGED <<jobs, stranded>>
    <3> DEFINE x == [fix[w] EXCEPT !.pc = "unlock", !.next = "throw"]
    <3>1. Busy(w) /\ fix[w] \in Fix /\ fix[w].job \in JobIds /\ JobOf(w).state = "active"
      BY <2>3, WorkerFacts DEF Busy
    <3>2. fix[w].sku \in Skus /\ lock[fix[w].sku] = w
      BY <2>3, RowFacts DEF Holding
    <3>3. /\ x \in Fix /\ x.job = fix[w].job /\ x.pc = "unlock" /\ x.sku = fix[w].sku
          /\ x.next = "throw"
      BY <3>1 DEF Fix, FixPCs
    <3> HIDE DEF x
    <3>4. Shape(w, x, jobs, lock, reserved)
      BY <3>1, <3>2, <3>3 DEF Shape, Holding, JobOf
    <3>5. ext' \in [Skus -> Nat] /\ UNCHANGED <<stock, late>> /\ lock' = lock
      BY <2>1 DEF shop, IInv, TypeOK
    <3>6. Fixing(w, x)
      BY <2>3 DEF Unlocking, x
    <3>7. QED
      BY <1>1, <2>1, <2>3, <3>1, <3>3, <3>4, <3>5, <3>6, PositionOnly
  <2>4. QED
    BY <1>5, <2>2, <2>3 DEF FixFails
<1>6. CASE Crash(w)
  <2>1. Busy(w)
    BY <1>6 DEF Crash
  <2>2. JobOf(w).stalls + 1 \in Nat
    BY <2>1, WaitsAgain
  <2>3. PICK again \in BOOLEAN, j \in Job :
          j.state = "waiting" /\ j.drift = DriftOf(w) /\ GivesUp(w, again, j)
    <3> DEFINE d == [JobOf(w) EXCEPT !.state = "waiting", !.stalls = JobOf(w).stalls + 1]
               again == JobOf(w).stalls < StallLimit
    <3>1. d \in Job /\ d.state = "waiting" /\ d.drift = DriftOf(w)
      BY <2>1, <2>2, WaitsAgain
    <3>2. GivesUp(w, again, d)
      BY <1>6 DEF Crash
    <3>3. again \in BOOLEAN
      OBVIOUS
    <3> HIDE DEF d, again
    <3>4. QED
      BY <3>1, <3>2, <3>3
  <2>4. /\ lock' \in [Skus -> Workers \cup {"free", "orphan"}]
        /\ \A v \in OthersOf(w), k \in Skus : lock[k] = v => lock'[k] = v
    BY <1>1, <1>6 DEF Crash, OthersOf
  <2>5. UNCHANGED <<shop, drifts, call>> /\ budget' \in 0..Mishaps
    BY <1>1, <1>6, Spent DEF Crash
  <2>6. QED
    BY <2>1, <2>3, <2>4, <2>5, GivesUpLeaves
<1>7. QED
  BY <1>2, <1>3, <1>4, <1>5, <1>6

\* Steps within a job that write no drift.
LEMMA WorkStep ==
  ASSUME IInv, NEW w \in Workers,
         FixRead(w) \/ SetAvailable(w) \/ Acquire(w) \/ ReadRow(w) \/ Unlock(w)
  PROVE  IInv'
<1>1. /\ budget \in 0..Mishaps /\ ext \in [Skus -> Nat] /\ reserved \in [Skus -> Nat]
      /\ lock \in [Skus -> Workers \cup {"free", "orphan"}]
      /\ drifts \in Seq(Drift) /\ stranded \subseteq DOMAIN drifts
  BY DEF IInv, TypeOK
<1>2. /\ Busy(w) /\ fix[w] \in Fix /\ fix[w].job \in JobIds /\ JobOf(w).state = "active"
      /\ drifts[DriftOf(w)] \in Drift /\ jobs[fix[w].job].state = "active"
  BY WorkerFacts DEF FixRead, SetAvailable, Acquire, ReadRow, Unlock, Busy, JobOf
<1>3. CASE FixRead(w) /\ drifts[DriftOf(w)].status = "RESOLVED"
  BY <1>1, <1>2, <1>3, Blank, JobLeft DEF FixRead, EndJob
<1>4. CASE FixRead(w) /\ drifts[DriftOf(w)].status # "RESOLVED"
  <2> DEFINE x == [fix[w] EXCEPT !.pc = "mark", !.sku = drifts[DriftOf(w)].sku,
                                 !.target = TargetOf(w)]
  <2>1. TargetOf(w) \in Nat /\ drifts[DriftOf(w)].sku \in Skus
    BY <1>2 DEF TargetOf, Drift
  <2>2. /\ x \in Fix /\ x.job = fix[w].job /\ x.pc = "mark"
        /\ x.sku = drifts[DriftOf(w)].sku
    BY <1>2, <2>1 DEF Fix, FixPCs
  <2>3. Fixing(w, x) /\ UNCHANGED <<shop, lock, drifts, jobs, call, budget, stranded>>
    BY <1>4 DEF FixRead
  <2> HIDE DEF x
  <2>4. Shape(w, x, jobs, lock, reserved)
    BY <1>2, <2>1, <2>2 DEF Shape, Holding
  <2>5. QED
    BY <1>1, <1>2, <2>2, <2>3, <2>4, PositionOnly DEF shop
<1>5. ASSUME fix[w].pc \notin {"idle", "read", "mark"}, NEW pc \in FixPCs,
             pc \notin {"idle", "unlock"}, NEW n \in Nat,
             Fixing(w, [fix[w] EXCEPT !.pc = pc, !.amount = n]),
             UNCHANGED <<stock, late, drifts, jobs, call, stranded, budget>>,
             lock' \in [Skus -> Workers \cup {"free", "orphan"}],
             \A v \in OthersOf(w), k \in Skus : lock[k] = v => lock'[k] = v,
             ext' \in [Skus -> Nat],
             pc \in Holding => lock'[fix[w].sku] = w,
             pc = "writeRow" => n = reserved[fix[w].sku]
      PROVE  IInv'
  <2> DEFINE x == [fix[w] EXCEPT !.pc = pc, !.amount = n]
  <2>1. fix[w].sku \in Skus
    BY <1>5, RowFacts
  <2>2. x \in Fix /\ x.job = fix[w].job /\ x.pc = pc /\ x.sku = fix[w].sku /\ x.amount = n
    BY <1>2, <1>5 DEF Fix
  <2>3. Fixing(w, x)
    BY <1>5
  <2> HIDE DEF x
  <2>4. Shape(w, x, jobs, lock', reserved)
    BY <1>2, <1>5, <2>1, <2>2 DEF Shape
  <2>5. QED
    BY <1>1, <1>2, <1>5, <2>2, <2>3, <2>4, PositionOnly
<1>6. fix[w].amount \in Nat /\ \A pc \in FixPCs : [fix[w] EXCEPT !.pc = pc]
                                 = [fix[w] EXCEPT !.pc = pc, !.amount = fix[w].amount]
  BY <1>2 DEF Fix
<1>7. \A pc \in FixPCs : Goto(w, pc) => Fixing(w, [fix[w] EXCEPT !.pc = pc,
                                                         !.amount = fix[w].amount])
  BY <1>6 DEF Goto, Fixing, IInv, TypeOK
<1>8. CASE SetAvailable(w)
  <2>1. fix[w].sku \in Skus /\ fix[w].target \in Nat
    BY <1>2, <1>8, RowFacts DEF SetAvailable, Fix
  <2>2. ext' \in [Skus -> Nat] /\ lock' = lock
    BY <1>1, <1>8, <2>1 DEF SetAvailable
  <2>3. "resolve" \in FixPCs /\ "resolve" \notin Holding
    BY DEF FixPCs, Holding
  <2>4. Fixing(w, [fix[w] EXCEPT !.pc = "resolve", !.amount = fix[w].amount])
    BY <1>7, <1>8, <2>3 DEF SetAvailable
  <2>5. /\ UNCHANGED <<stock, late, drifts, jobs, call, stranded, budget>>
        /\ fix[w].pc \notin {"idle", "read", "mark"}
    BY <1>8 DEF SetAvailable, shop
  <2>6. QED
    BY <1>1, <1>5, <1>6, <2>2, <2>3, <2>4, <2>5
<1>9. CASE Acquire(w)
  <2>1. fix[w].sku \in Skus /\ lock[fix[w].sku] = "free"
    BY <1>9, RowFacts DEF Acquire
  <2>2. /\ lock' \in [Skus -> Workers \cup {"free", "orphan"}] /\ lock'[fix[w].sku] = w
        /\ \A v \in OthersOf(w), k \in Skus : lock[k] = v => lock'[k] = v
    BY <1>1, <1>9, <2>1, LockNames DEF Acquire, OthersOf
  <2>3. "readRow" \in FixPCs /\ ext' = ext
    BY <1>9 DEF FixPCs, Acquire, shop
  <2>4. Fixing(w, [fix[w] EXCEPT !.pc = "readRow", !.amount = fix[w].amount])
    BY <1>7, <1>9, <2>3 DEF Acquire
  <2>5. /\ UNCHANGED <<stock, late, drifts, jobs, call, stranded, budget>>
        /\ fix[w].pc \notin {"idle", "read", "mark"}
    BY <1>9 DEF Acquire, shop
  <2>6. QED
    BY <1>1, <1>5, <1>6, <2>2, <2>3, <2>4, <2>5
<1>10. CASE ReadRow(w)
  <2>1. fix[w].sku \in Skus /\ lock[fix[w].sku] = w
    BY <1>10, RowFacts DEF ReadRow, Holding
  <2>2. reserved[fix[w].sku] \in Nat /\ "writeRow" \in FixPCs
    BY <1>1, <2>1 DEF FixPCs
  <2>3. lock' = lock /\ ext' = ext
    BY <1>10 DEF ReadRow, shop
  <2>4. QED
    BY <1>1, <1>5, <1>10, <2>1, <2>2, <2>3 DEF ReadRow, shop
<1>11. CASE Unlock(w)
  <2>1. /\ fix[w].sku \in Skus /\ lock[fix[w].sku] = w
        /\ fix[w].next \in {"resolve", "throw"}
    BY <1>11, RowFacts DEF Unlock, Holding
  <2>2. /\ lock' \in [Skus -> Workers \cup {"free", "orphan"}]
        /\ \A v \in OthersOf(w), k \in Skus : lock[k] = v => lock'[k] = v
    BY <1>1, <1>11, <2>1 DEF Unlock, OthersOf
  <2>3. fix[w].next \in FixPCs /\ fix[w].next \notin Holding /\ ext' = ext
    BY <1>11, <2>1 DEF FixPCs, Holding, Unlock, shop
  <2>4. Fixing(w, [fix[w] EXCEPT !.pc = fix[w].next, !.amount = fix[w].amount])
    BY <1>7, <1>11, <2>3 DEF Unlock
  <2>5. /\ UNCHANGED <<stock, late, drifts, jobs, call, stranded, budget>>
        /\ fix[w].pc \notin {"idle", "read", "mark"}
    BY <1>11 DEF Unlock, shop
  <2>6. QED
    BY <1>1, <1>5, <1>6, <2>1, <2>2, <2>3, <2>4, <2>5
<1>12. QED
  BY <1>3, <1>4, <1>8, <1>9, <1>10, <1>11

LEMMA MarkStep ==
  ASSUME IInv, NEW w \in Workers, MarkFixing(w)
  PROVE  IInv'
<1> DEFINE next == IF JobOf(w).strategy = "EXTERNAL_TO_INTERNAL" THEN "acquire" ELSE "set"
           x == [fix[w] EXCEPT !.pc = next]
<1>1. /\ Busy(w) /\ fix[w] \in Fix /\ fix[w].job \in JobIds /\ fix[w].sku \in Skus
      /\ jobs[fix[w].job].state = "active" /\ DriftOf(w) \in DOMAIN drifts
      /\ \A v \in OthersOf(w) : fix[v].job # fix[w].job
  BY WorkerFacts, RowFacts DEF MarkFixing, Busy, JobOf
<1>2. /\ drifts' \in Seq(Drift) /\ Len(drifts') = Len(drifts)
      /\ DOMAIN drifts' = DOMAIN drifts /\ drifts'[DriftOf(w)].status = "FIXING"
      /\ \A e \in DOMAIN drifts : e # DriftOf(w) => drifts'[e] = drifts[e]
  BY <1>1, StatusSet DEF MarkFixing, IInv, TypeOK, Statuses, Open
<1>3. /\ x \in Fix /\ x.job = fix[w].job /\ x.pc \in {"acquire", "set"}
      /\ x.sku = fix[w].sku
  BY <1>1 DEF Fix, FixPCs
<1>4. Fixing(w, x) /\ UNCHANGED <<shop, lock, jobs, call, budget, stranded>>
  BY DEF MarkFixing, Goto, Fixing
<1> HIDE DEF next, x
<1>5. Shape(w, x, jobs', lock', reserved')
  BY <1>1, <1>3, <1>4 DEF Shape, Holding
<1>6. /\ FixShape' /\ fix' \in [Workers -> Fix]
      /\ fix'[w] = x /\ \A v \in Workers \ {w} : fix'[v] = fix[v]
  BY <1>1, <1>3, <1>4, <1>5, WorkerMoved DEF shop, stock
<1>7. TypeOK' /\ NoOverselling'
  BY <1>2, <1>4, <1>6 DEF IInv, TypeOK, NoOverselling, shop, stock, JobOK, CallOK
<1>8. QueuedDriftsHaveJob'
  BY <1>1, <1>2, <1>4, <1>6, QueuedKept
<1>9. QED
  BY <1>6, <1>7, <1>8 DEF IInv

\* The row is written while its lock is held: what was read as reserved is reserved.
LEMMA WriteStep ==
  ASSUME IInv, NEW w \in Workers, WriteRow(w)
  PROVE  /\ IInv'
         /\ fix[w].sku \in Skus /\ fix[w].target + fix[w].amount \in Nat
         /\ fix[w].target + fix[w].amount >= reserved[fix[w].sku]
<1> DEFINE x == [fix[w] EXCEPT !.pc = "unlock", !.next = "resolve"]
           n == fix[w].target + fix[w].amount
<1>1. /\ Busy(w) /\ fix[w] \in Fix /\ fix[w].job \in JobIds /\ fix[w].sku \in Skus
      /\ jobs[fix[w].job].state = "active" /\ lock[fix[w].sku] = w
      /\ fix[w].amount = reserved[fix[w].sku] /\ fix[w].pc = "writeRow"
      /\ \A v \in OthersOf(w) : fix[v].job # fix[w].job
  BY WorkerFacts, RowFacts DEF WriteRow, Busy, JobOf, Holding
<1>2. n \in Nat /\ n >= reserved[fix[w].sku]
  BY <1>1 DEF Fix, IInv, TypeOK
<1>3. /\ x \in Fix /\ x.job = fix[w].job /\ x.pc = "unlock" /\ x.next = "resolve"
      /\ x.sku = fix[w].sku
  BY <1>1 DEF Fix, FixPCs
<1>4. /\ Fixing(w, x) /\ physical' = [physical EXCEPT ![fix[w].sku] = n]
      /\ UNCHANGED <<reserved, status, ext, late, lock, drifts, jobs, call, budget, stranded>>
  BY DEF WriteRow, Unlocking
<1> HIDE DEF x, n
<1>5. Shape(w, x, jobs', lock', reserved')
  BY <1>1, <1>3, <1>4 DEF Shape, Holding
<1>6. /\ FixShape' /\ fix' \in [Workers -> Fix]
      /\ fix'[w] = x /\ \A v \in Workers \ {w} : fix'[v] = fix[v]
  BY <1>1, <1>3, <1>4, <1>5, WorkerMoved
<1>7. TypeOK' /\ NoOverselling'
  BY <1>1, <1>2, <1>4, <1>6 DEF IInv, TypeOK, NoOverselling, JobOK, CallOK
<1>8. QueuedDriftsHaveJob'
  BY <1>1, <1>4, <1>6, QueuedKept
<1>9. QED
  BY <1>1, <1>2, <1>6, <1>7, <1>8 DEF IInv, n

-----------------------------------------------------------------------------
(* What else moves the numbers.                                            *)

\* A request that moves numbers: rows whose reservations change are locked by no
\* worker.
LEMMA NumbersMoved ==
  ASSUME IInv, UNCHANGED <<drifts, jobs, call, fix, stranded>>,
         physical' \in [Skus -> Nat], reserved' \in [Skus -> Nat],
         status' \in [Orders -> {"NONE", "CREATED", "RESERVED", "CONFIRMED", "FAILED"}],
         ext' \in [Skus -> Nat], late' \subseteq Late, budget' \in 0..Mishaps,
         lock' \in [Skus -> Workers \cup {"free", "orphan"}],
         \A k \in Skus : lock[k] \in Workers => lock'[k] = lock[k] /\ reserved'[k] = reserved[k],
         \A k \in Skus : reserved'[k] <= physical'[k]
  PROVE  IInv'
<1>1. TypeOK' /\ NoOverselling'
  BY DEF IInv, TypeOK, NoOverselling, JobOK, CallOK
<1>2. \A w \in Workers : Shape(w, fix[w], jobs, lock', reserved')
  BY DEF IInv, FixShape, Shape, Holding
<1>3. FixShape'
  BY <1>2 DEF IInv, FixShape, OthersOf, Busy
<1>4. QueuedDriftsHaveJob'
  BY DEF IInv, QueuedDriftsHaveJob, Expected, DriftOf, JobOf
<1>5. QED
  BY <1>1, <1>3, <1>4 DEF IInv

LEMMA Numeric ==
  ASSUME IInv
  PROVE  /\ physical \in [Skus -> Nat] /\ reserved \in [Skus -> Nat] /\ ext \in [Skus -> Nat]
         /\ late \subseteq Late /\ budget \in 0..Mishaps
          /\ lock \in [Skus -> Workers \cup {"free", "orphan"}]
         /\ status \in [Orders -> {"NONE", "CREATED", "RESERVED", "CONFIRMED", "FAILED"}]
         /\ \A k \in Skus : reserved[k] <= physical[k]
         /\ \A w \in Workers : w # "free" /\ w # "orphan"
BY HybridDriftAssumption, LockNames DEF IInv, TypeOK, NoOverselling, HybridDriftAssumption

LEMMA ChannelStep ==
  ASSUME IInv,
         \/ \E k \in Skus : \/ SyncBegins(k) \/ OrphanExpires(k)
                            \/ \E n \in Numbers : Adjust(k, n) \/ WebhookSet(k, n)
                            \/ \E n \in Sales : SaleBegins(k, n)
         \/ Arrives
         \/ \E m \in late : LateLost(m)
  PROVE  IInv'
<1>0. Sales \subseteq Nat /\ Numbers \subseteq Nat
  BY HybridDriftAssumption DEF HybridDriftAssumption
<1>1. ASSUME NEW k \in Skus, SyncBegins(k)  PROVE IInv'
  <2>1. Sellable(k) \in Nat
    BY Numeric DEF Sellable
  <2>2. late' \subseteq Late /\ budget' \in 0..Mishaps
    BY <1>1, <2>1, Numeric, Spent DEF SyncBegins, Send, Late
  <2>3. QED
    BY <1>1, <2>2, Numeric, NumbersMoved DEF SyncBegins, stock
<1>2. ASSUME NEW k \in Skus, OrphanExpires(k)  PROVE IInv'
  <2>1. /\ lock' \in [Skus -> Workers \cup {"free", "orphan"}]
        /\ \A i \in Skus : lock[i] \in Workers => lock'[i] = lock[i]
    BY <1>2, Numeric DEF OrphanExpires
  <2>2. QED
    BY <1>2, <2>1, Numeric, NumbersMoved DEF OrphanExpires, shop, stock
<1>3. ASSUME NEW k \in Skus, NEW n \in Numbers, Adjust(k, n)  PROVE IInv'
  <2>1. /\ n >= reserved[k] /\ physical' = [physical EXCEPT ![k] = n]
        /\ UNCHANGED <<reserved, status>>
    BY <1>3 DEF Adjust, Engine!Restock
  <2>2. physical' \in [Skus -> Nat] /\ \A i \in Skus : reserved[i] <= physical'[i]
    BY <1>0, <2>1, Numeric
  <2>3. QED
    BY <1>3, <2>1, <2>2, Numeric, NumbersMoved, Spent DEF Adjust
<1>4. ASSUME NEW k \in Skus, NEW n \in Numbers, WebhookSet(k, n)  PROVE IInv'
  <2>1. late' \subseteq Late /\ budget' \in 0..Mishaps /\ ext' \in [Skus -> Nat]
    BY <1>0, <1>4, Numeric, Spent DEF WebhookSet, Send, Late
  <2>2. QED
    BY <1>4, <2>1, Numeric, NumbersMoved DEF WebhookSet, stock
<1>5. ASSUME NEW k \in Skus, NEW n \in Sales, SaleBegins(k, n)  PROVE IInv'
  <2>1. (IF ext[k] > n THEN ext[k] - n ELSE 0) \in Nat
    BY <1>0, Numeric
  <2>2. late' \subseteq Late /\ budget' \in 0..Mishaps
    BY <1>5, <2>1, Numeric, Spent DEF SaleBegins, Send, Late
  <2>3. QED
    BY <1>5, <2>2, Numeric, NumbersMoved DEF SaleBegins, stock
<1>6. ASSUME NEW m \in late, ChannelWrite(m)  PROVE IInv'
  <2>1. ext' \in [Skus -> Nat] /\ late' \subseteq Late
    BY <1>6, Numeric DEF ChannelWrite, Late
  <2>2. QED
    BY <1>6, <2>1, Numeric, NumbersMoved DEF ChannelWrite, stock
<1>7. ASSUME NEW m \in late, StockWrite(m)  PROVE IInv'
  <2>1. m.sku \in Skus /\ m.qty \in Nat /\ reserved[m.sku] \in Nat
    BY Numeric DEF Late
  <2>2. /\ physical' \in [Skus -> Nat] /\ late' \subseteq Late
        /\ \A i \in Skus : reserved[i] <= physical'[i]
    BY <1>7, <2>1, Numeric DEF StockWrite
  <2>3. QED
    BY <1>7, <2>2, Numeric, NumbersMoved DEF StockWrite
<1>8. ASSUME NEW m \in late, LateLost(m)  PROVE IInv'
  BY <1>8, Numeric, NumbersMoved, Spent DEF LateLost, stock
<1>9. QED
  BY <1>1, <1>2, <1>3, <1>4, <1>5, <1>6, <1>7, <1>8 DEF Arrives

LEMMA OrderStep ==
  ASSUME IInv, NEW o \in Orders, OrderMoves(o)
  PROVE  IInv'
<1> DEFINE k == SkuOf[o]
<1>1. k \in Skus /\ Qty[o] \in Nat
  BY HybridDriftAssumption DEF HybridDriftAssumption
<1>2. UNCHANGED <<ext, late, lock, drifts, jobs, call, fix, stranded>>
  BY DEF OrderMoves
<1>3. CASE Engine!Place(o) /\ Spend("order")
  BY <1>2, <1>3, Spent, Numeric, NumbersMoved DEF Engine!Place, Engine!Becomes
<1>4. CASE Engine!Reject(o) /\ UNCHANGED budget
  BY <1>2, <1>4, Numeric, NumbersMoved DEF Engine!Reject, Engine!Becomes
<1>5. CASE Engine!Renew(o) /\ Spend("renew")
  BY <1>2, <1>5, Numeric, NumbersMoved, Spent DEF Engine!Renew, Engine!Becomes
<1>6. CASE lock[k] = "free" /\ UNCHANGED budget /\ Engine!Reserve(o)
  <2>1. /\ reserved' = [reserved EXCEPT ![k] = reserved[k] + Qty[o]] /\ physical' = physical
        /\ reserved[k] + Qty[o] <= physical[k] /\ reserved[k] + Qty[o] \in Nat
        /\ status' \in [Orders -> {"NONE", "CREATED", "RESERVED", "CONFIRMED", "FAILED"}]
    BY <1>1, <1>6, Numeric DEF Engine!Reserve, Engine!Becomes
  <2>2. /\ reserved' \in [Skus -> Nat] /\ \A i \in Skus : reserved'[i] <= physical'[i]
        /\ \A i \in Skus : lock[i] \in Workers => reserved'[i] = reserved[i]
    BY <1>1, <1>6, <2>1, Numeric
  <2>3. QED
    BY <1>2, <1>6, <2>1, <2>2, Numeric, NumbersMoved
<1>7. CASE /\ lock[k] = "free" /\ UNCHANGED budget
           /\ Engine!Sell(o) /\ reserved[k] >= Qty[o] /\ physical[k] >= Qty[o]
  <2>1. /\ reserved' = [reserved EXCEPT ![k] = reserved[k] - Qty[o]]
        /\ physical' = [physical EXCEPT ![k] = physical[k] - Qty[o]]
        /\ reserved[k] - Qty[o] \in Nat /\ physical[k] - Qty[o] \in Nat
        /\ reserved[k] - Qty[o] <= physical[k] - Qty[o]
        /\ status' \in [Orders -> {"NONE", "CREATED", "RESERVED", "CONFIRMED", "FAILED"}]
    BY <1>1, <1>7, Numeric DEF Engine!Sell, Engine!Becomes
  <2>2. /\ reserved' \in [Skus -> Nat] /\ physical' \in [Skus -> Nat]
        /\ \A i \in Skus : reserved'[i] <= physical'[i]
        /\ \A i \in Skus : lock[i] \in Workers => reserved'[i] = reserved[i]
    BY <1>1, <1>7, <2>1, Numeric
  <2>3. QED
    BY <1>2, <1>7, <2>1, <2>2, Numeric, NumbersMoved
<1>8. CASE /\ lock[k] = "free" /\ UNCHANGED budget
           /\ Engine!GiveBack(o) /\ reserved[k] >= Qty[o]
  <2>1. /\ reserved' = [reserved EXCEPT ![k] = reserved[k] - Qty[o]] /\ physical' = physical
        /\ reserved[k] - Qty[o] \in Nat /\ reserved[k] - Qty[o] <= physical[k]
        /\ status' \in [Orders -> {"NONE", "CREATED", "RESERVED", "CONFIRMED", "FAILED"}]
    BY <1>1, <1>8, Numeric DEF Engine!GiveBack, Engine!Becomes
  <2>2. /\ reserved' \in [Skus -> Nat] /\ \A i \in Skus : reserved'[i] <= physical'[i]
        /\ \A i \in Skus : lock[i] \in Workers => reserved'[i] = reserved[i]
    BY <1>1, <1>8, <2>1, Numeric
  <2>3. QED
    BY <1>2, <1>8, <2>1, <2>2, Numeric, NumbersMoved
<1>9. QED
  BY <1>3, <1>4, <1>5, <1>6, <1>7, <1>8 DEF OrderMoves

-----------------------------------------------------------------------------
(* The theorems.                                                           *)

LEMMA Initially == Init => IInv
<1> SUFFICES ASSUME Init PROVE IInv
  OBVIOUS
<1>1. PICK start \in [Skus -> Starts] : /\ physical = [k \in Skus |-> start[k][1]]
                                        /\ ext = [k \in Skus |-> start[k][2]]
  BY DEF Init
<1>2. \A k \in Skus : start[k] \in Nat \X Nat
  BY HybridDriftAssumption DEF HybridDriftAssumption
<1>3. physical \in [Skus -> Nat] /\ ext \in [Skus -> Nat] /\ reserved = [k \in Skus |-> 0]
  BY <1>1, <1>2 DEF Init, Zeros
<1>4. drifts = <<>> /\ drifts \in Seq(Drift) /\ DOMAIN drifts = {} /\ Len(drifts) <= MaxDrifts
  BY HybridDriftAssumption DEF Init, HybridDriftAssumption
<1>5. CallOK(NoCall, {}) /\ JobOK(NoJob, {})
  BY Blank DEF CallOK, JobOK
<1>6. TypeOK
  BY <1>3, <1>4, <1>5, Blank, HybridDriftAssumption DEF Init, TypeOK, HybridDriftAssumption
<1>7. FixShape
  BY Blank DEF Init, FixShape, Shape, Holding, Busy
<1>8. NoOverselling /\ QueuedDriftsHaveJob
  BY <1>3, <1>4 DEF NoOverselling, QueuedDriftsHaveJob
<1>9. QED
  BY <1>6, <1>7, <1>8 DEF IInv

LEMMA Inductive == IInv /\ [Next]_vars => IInv'
<1> SUFFICES ASSUME IInv, [Next]_vars PROVE IInv'
  OBVIOUS
<1>1. ASSUME NEW p \in Callers, CallStep(p) \/ RunCycle(p)  PROVE IInv'
  BY <1>1, ReadStep, UpsertStep, QueueStep DEF CallStep
<1>2. ASSUME NEW w \in Workers, FixStep(w)  PROVE IInv'
  BY <1>2, TakeStep, WorkStep, MarkStep, WriteStep, EndStep DEF FixStep
<1>3. CASE Arrives \/ \E k \in Skus : OrphanExpires(k)
  BY <1>3, ChannelStep
<1>4. CASE Request
  BY <1>4, ReadStep, OrderStep, ChannelStep DEF Request
<1>5. CASE Mishap
  BY <1>5, ReadStep, EndStep, ChannelStep DEF Mishap
<1>6. CASE UNCHANGED vars
  BY <1>6 DEF vars, shop, stock, IInv, TypeOK, FixShape, Shape, OthersOf, Busy, NoOverselling,
     QueuedDriftsHaveJob, Expected, DriftOf, JobOf
<1>7. QED
  BY <1>1, <1>2, <1>3, <1>4, <1>5, <1>6 DEF Next

LEMMA AlwaysIInv == Spec => []IInv
<1>1. Init => IInv
  BY Initially
<1>2. IInv /\ [Next]_vars => IInv'
  BY Inductive
<1>3. QED
  BY <1>1, <1>2, PTL DEF Spec

\* The variables stay in their domains: no number of the shop or of the channel
\* becomes negative, and jobs and calls refer to drifts that exist.
THEOREM TypeCorrect == Spec => []TypeOK
<1>1. IInv => TypeOK
  BY DEF IInv
<1>2. QED
  BY <1>1, AlwaysIInv, PTL

\* No row has more reserved than there is, although fixInternalFromExternal
\* overwrites the physical quantity with the channel's number.
THEOREM FixesNeverOversell == Spec => []NoOverselling
<1>1. IInv => NoOverselling
  BY DEF IInv
<1>2. QED
  BY <1>1, AlwaysIInv, PTL

\* A drift left FIX_QUEUED by queueFix has a job coming, or its request died between
\* row and queue, or its job failed for good.
THEOREM QueuedDriftsAreFixed == Spec => []QueuedDriftsHaveJob
<1>1. IInv => QueuedDriftsHaveJob
  BY DEF IInv
<1>2. QED
  BY <1>1, AlwaysIInv, PTL

-----------------------------------------------------------------------------
(* The refinement: what the order engine sees of all this.                 *)

\* Setting the physical stock of one row, not below what is reserved, is the
\* engine's Restock.
LEMMA SetIsRestock ==
  ASSUME IInv, NEW k \in Skus, NEW n, n >= reserved[k],
         physical' = [physical EXCEPT ![k] = n], UNCHANGED <<reserved, status>>
  PROVE  Engine!Next
<1>1. physical'[k] = n /\ physical' = [physical EXCEPT ![k] = physical'[k]]
  BY Numeric
<1>2. Engine!Restock(k, physical'[k])
  BY <1>1 DEF Engine!Restock
<1>3. QED
  BY <1>2 DEF Engine!Next

LEMMA StepsRefine == IInv /\ [Next]_vars => [Engine!Next]_(Engine!vars)
<1> SUFFICES ASSUME IInv, [Next]_vars PROVE Engine!Next \/ UNCHANGED stock
  BY DEF Engine!vars, stock
<1>0. Numbers \subseteq Nat
  BY HybridDriftAssumption DEF HybridDriftAssumption
<1>1. ASSUME NEW p \in Callers, CallStep(p) \/ RunCycle(p)  PROVE UNCHANGED stock
  BY <1>1 DEF CallStep, RunCycle, Detecting, ReadInternal, ReadExternal, ResolveMatched,
     FindOpen, UpdateOpen, InsertDrift, QueueMark, QueueAdd, shop
<1>2. ASSUME NEW w \in Workers, FixStep(w)  PROVE Engine!Next \/ UNCHANGED stock
  <2>1. CASE WriteRow(w)
    BY <2>1, WriteStep, SetIsRestock DEF WriteRow
  <2>2. CASE ~WriteRow(w)
    BY <1>2, <2>2 DEF FixStep, Take, FixRead, MarkFixing, SetAvailable, Acquire, LockBusy,
       ReadRow, Unlock, Resolve, Throw, shop
  <2>3. QED
    BY <2>1, <2>2
<1>3. CASE \E k \in Skus : OrphanExpires(k)
  BY <1>3 DEF OrphanExpires, shop
<1>4. CASE Arrives
  <2>1. ASSUME NEW m \in late, StockWrite(m)  PROVE Engine!Next
    <3>1. m.sku \in Skus /\ m.qty \in Nat /\ reserved[m.sku] \in Nat
      BY Numeric DEF Late
    <3>2. m.qty + reserved[m.sku] >= reserved[m.sku]
      BY <3>1
    <3>3. QED
      BY <2>1, <3>1, <3>2, SetIsRestock DEF StockWrite
  <2>2. ASSUME NEW m \in late, ChannelWrite(m)  PROVE UNCHANGED stock
    BY <2>2 DEF ChannelWrite
  <2>3. QED
    BY <1>4, <2>1, <2>2 DEF Arrives
<1>5. CASE Request
  <2>1. ASSUME NEW o \in Orders, OrderMoves(o)  PROVE Engine!Next
    BY <2>1 DEF OrderMoves, Engine!Next
  <2>2. ASSUME NEW k \in Skus, NEW n \in Numbers, Adjust(k, n)  PROVE Engine!Next
    <3>1. n >= reserved[k] /\ physical' = [physical EXCEPT ![k] = n]
          /\ UNCHANGED <<reserved, status>>
      BY <2>2 DEF Adjust, Engine!Restock
    <3>2. QED
      BY <3>1, SetIsRestock
  <2>3. ASSUME NEW k \in Skus, \/ SyncBegins(k)
                               \/ \E n \in Numbers : WebhookSet(k, n)
                               \/ \E n \in Sales : SaleBegins(k, n)
        PROVE  UNCHANGED stock
    BY <2>3 DEF SyncBegins, WebhookSet, SaleBegins
  <2>4. ASSUME NEW p \in Callers, \/ DetectOnly(p)
                                  \/ \E d \in DOMAIN drifts, s \in Strategies : AskFix(p, d, s)
        PROVE  UNCHANGED stock
    BY <2>4 DEF DetectOnly, Detecting, AskFix, shop
  <2>5. QED
    BY <1>5, <2>1, <2>2, <2>3, <2>4 DEF Request
<1>6. CASE Mishap
  BY <1>6 DEF Mishap, CallDies, FixFails, Crash, LateLost, shop
<1>7. CASE UNCHANGED vars
  BY <1>7 DEF vars, shop
<1>8. QED
  BY <1>1, <1>2, <1>3, <1>4, <1>5, <1>6, <1>7 DEF Next

LEMMA InitRefines == Init => Engine!Init
<1> SUFFICES ASSUME Init PROVE Engine!Init
  OBVIOUS
<1>1. IInv
  BY Initially
<1>2. QED
  BY <1>1, Numeric DEF Init, Engine!Init, Zeros

\* Every step of detections, fixes, webhooks and channel sales is, to the order
\* engine, a step of AtomicOrders or none: a fix is one more adjustment.
THEOREM FixesAreAdjustments == Spec => EngineUndisturbed
<1>1. Init => Engine!Init
  BY InitRefines
<1>2. IInv /\ [Next]_vars => [Engine!Next]_(Engine!vars)
  BY StepsRefine
<1>3. QED
  BY <1>1, <1>2, AlwaysIInv, PTL DEF Spec, EngineUndisturbed, Engine!Spec
=============================================================================
