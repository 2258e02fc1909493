------------------------------ MODULE HybridDrift ------------------------------
(***************************************************************************)
(* The drift detector of the hybrid shop: detections that compare every    *)
(* stock row with the channel's number and leave drift rows, the queue     *)
(* hybrid.drift.fix, and the fix workers that overwrite one of the two     *)
(* numbers with what the drift row says.                                   *)
(*                                                                         *)
(* The order engine is here only what it promises (AtomicOrders): whole    *)
(* orders move, and whatever moves stock needs the lock of its row, which  *)
(* a fix that writes stock takes as well.  Numbers on their way to the     *)
(* channel or from it are members of late: they were read or received      *)
(* earlier and are written whenever their request comes to it.             *)
(***************************************************************************)
EXTENDS Integers, Sequences, FiniteSetsExt

CONSTANTS
  Skus,         \* stock rows
  Orders,       \* order ids
  SkuOf,        \* [Orders -> Skus]
  Qty,          \* [Orders -> Nat \ {0}]
  Callers,      \* concurrent detections and fix requests
  Workers,      \* concurrent executions of the fix worker (5 per process)
  None,         \* no row
  Starts,       \* physical stock and channel number at the start
  Strategy,     \* HYBRID_DRIFT_FIX_STRATEGY
  Attempts,     \* BullMQ attempts of a fix job (3 in the code)
  StallLimit,   \* stalls BullMQ forgives a job (maxStalledCount, 1)
  Sales,        \* quantities sold on the channel
  Numbers,      \* numbers the inventory webhook brings and adjustments set
  MaxDrifts,    \* bound: drift rows
  MaxJobs,      \* bound: fix jobs at the same time
  Cost,         \* what the environment may do, and what each time takes
  Mishaps       \* bound: what it may spend altogether

Strategies == {"INTERNAL_TO_EXTERNAL", "EXTERNAL_TO_INTERNAL"}
Open       == {"DETECTED", "FIX_QUEUED", "FIXING"}
Statuses   == Open \cup {"RESOLVED"}
JobIds     == 1..MaxJobs

CallPCs == {"idle", "readBoth", "readInternal", "readExternal", "next", "upsert",
            "mark", "add"}
FixPCs  == {"idle", "read", "mark", "set", "acquire", "readRow", "writeRow",
            "unlock", "resolve", "throw"}

ASSUME HybridDriftAssumption ==
  /\ SkuOf \in [Orders -> Skus]
  /\ Qty \in [Orders -> Nat \ {0}]
  /\ Starts \subseteq Nat \X Nat
  /\ Strategy \in Strategies
  /\ Attempts \in Nat \ {0} /\ StallLimit \in Nat
  /\ Sales \subseteq Nat /\ Numbers \subseteq Nat
  /\ MaxDrifts \in Nat /\ MaxJobs \in Nat /\ Mishaps \in Nat
  /\ \A what \in DOMAIN Cost : Cost[what] \in Nat
  /\ None \notin Skus /\ {"free", "orphan"} \cap Workers = {}

VARIABLES
  physical,  \* inventory.physical_quantity
  reserved,  \* inventory.reserved_quantity
  status,    \* orders.status
  ext,       \* external_inventory.available_quantity
  lock,      \* Redis key of each row: a worker, "free", or "orphan" of a dead one
  late,      \* numbers that a request will write to the channel or to the stock
  drifts,    \* inventory_drift rows, oldest first
  jobs,      \* hybrid.drift.fix
  call,      \* what each detection or fix request is doing
  fix,       \* what each worker is doing
  budget,    \* mishaps left
  stranded   \* history: drift rows whose job failed or was never added

stock == <<physical, reserved, status>>
shop  == <<stock, ext, late>>
vars  == <<shop, lock, drifts, jobs, call, fix, budget, stranded>>

Drift == [sku : Skus, status : Statuses, expected : Nat, actual : Nat]
Job   == [state : {"absent", "waiting", "active"}, drift : Nat,
          strategy : Strategies, made : Nat, stalls : Nat]
Late  == [to : {"channel", "stock"}, sku : Skus, qty : Nat]
Call  == [pc : CallPCs, auto : BOOLEAN, todo : SUBSET Skus,
          expected : [Skus -> Nat], actual : [Skus -> Nat],
          sku : Skus \cup {None}, drift : Nat, status : {"DETECTED", "FIXING"},
          strategy : Strategies]
Fix   == [pc : FixPCs, job : Nat, sku : Skus \cup {None}, target : Nat, amount : Nat,
          next : FixPCs]

Zeros  == [k \in Skus |-> 0]
NoCall == [pc |-> "idle", auto |-> FALSE, todo |-> {}, expected |-> Zeros,
           actual |-> Zeros, sku |-> None, drift |-> 0, status |-> "DETECTED",
           strategy |-> Strategy]
NoFix  == [pc |-> "idle", job |-> 0, sku |-> None, target |-> 0, amount |-> 0,
           next |-> "idle"]
NoJob  == [state |-> "absent", drift |-> 0, strategy |-> Strategy, made |-> 0, stalls |-> 0]

Sellable(k) == physical[k] - reserved[k]
JobOf(w)    == jobs[fix[w].job]
DriftOf(w)  == JobOf(w).drift

Calling(p, c) == call' = [call EXCEPT ![p] = c]
Fixing(w, f)  == fix' = [fix EXCEPT ![w] = f]
Goto(w, pc)   == fix' = [fix EXCEPT ![w].pc = pc]

Spend(what) == /\ what \in DOMAIN Cost
               /\ budget >= Cost[what]
               /\ budget' = budget - Cost[what]

\* What the order engine promises of the same rows.
Engine == INSTANCE AtomicOrders
            WITH Orders <- Orders, Skus <- Skus, SkuOf <- SkuOf, Qty <- Qty,
                 physical <- physical, reserved <- reserved, status <- status

Init ==
  /\ \E start \in [Skus -> Starts] : /\ physical = [k \in Skus |-> start[k][1]]
                                     /\ ext = [k \in Skus |-> start[k][2]]
  /\ reserved = Zeros
  /\ status = [o \in Orders |-> "NONE"]
  /\ lock = [k \in Skus |-> "free"]
  /\ late = {}
  /\ drifts = <<>>
  /\ jobs = [j \in JobIds |-> NoJob]
  /\ call = [p \in Callers |-> NoCall]
  /\ fix = [w \in Workers |-> NoFix]
  /\ budget = Mishaps
  /\ stranded = {}

-------------------------------------------------------------------------------
(* Detection *)

SetDrift(d, s) == drifts' = [drifts EXCEPT ![d].status = s]

OpenDrifts(k) == {d \in DOMAIN drifts : drifts[d].sku = k /\ drifts[d].status \in Open}

Detecting(p, auto) ==
  /\ call[p] = NoCall
  /\ Calling(p, [NoCall EXCEPT !.pc = "readBoth", !.auto = auto, !.todo = Skus])
  /\ UNCHANGED <<shop, lock, drifts, jobs, fix, stranded>>

\* The scheduler's cycle, with autoFix.  The interval does not wait for the cycle
\* before, so a slow one is overtaken.
RunCycle(p) ==
  /\ Detecting(p, TRUE)
  /\ IF \A q \in Callers : call[q].todo = {} THEN UNCHANGED budget ELSE Spend("overtake")

\* POST /drift/run without autoFix.
DetectOnly(p) == Detecting(p, FALSE) /\ Spend("run")

\* The two queries run side by side and do not see the same instant.
ReadInternal(p) ==
  LET c == call[p] IN
  /\ c.pc \in {"readBoth", "readInternal"}
  /\ Calling(p, [c EXCEPT !.pc = IF c.pc = "readBoth" THEN "readExternal" ELSE "next",
                          !.expected = [k \in Skus |-> Sellable(k)]])
  /\ UNCHANGED <<shop, lock, drifts, jobs, fix, budget, stranded>>

ReadExternal(p) ==
  LET c == call[p] IN
  /\ c.pc \in {"readBoth", "readExternal"}
  /\ Calling(p, [c EXCEPT !.pc = IF c.pc = "readBoth" THEN "readInternal" ELSE "next",
                          !.actual = ext])
  /\ UNCHANGED <<shop, lock, drifts, jobs, fix, budget, stranded>>

\* The call goes on with the rows of todo; what it knew of a drift is forgotten.
Onward(c, todo) ==
  IF todo = {} THEN NoCall
  ELSE [c EXCEPT !.pc = "next", !.todo = todo, !.sku = None, !.drift = 0,
                 !.status = "DETECTED"]

\* Mutant: a drift that is being fixed is left to its fix
ResolveUnfixed(p, k) ==
  LET c == call[p] IN
  /\ c.pc = "next" /\ k \in c.todo
  /\ c.expected[k] = c.actual[k]
  /\ drifts' = [d \in DOMAIN drifts |->
                  IF d \in OpenDrifts(k) /\ drifts[d].status # "FIXING"
                  THEN [drifts[d] EXCEPT !.status = "RESOLVED"] ELSE drifts[d]]
  /\ Calling(p, Onward(c, c.todo \ {k}))
  /\ UNCHANGED <<shop, lock, jobs, fix, budget, stranded>>

\* Equal numbers resolve every open drift of the row.
ResolveMatched(p, k) ==
  LET c == call[p] IN
  /\ c.pc = "next" /\ k \in c.todo
  /\ c.expected[k] = c.actual[k]
  /\ drifts' = [d \in DOMAIN drifts |->
                  IF d \in OpenDrifts(k) THEN [drifts[d] EXCEPT !.status = "RESOLVED"]
                  ELSE drifts[d]]
  /\ Calling(p, Onward(c, c.todo \ {k}))
  /\ UNCHANGED <<shop, lock, jobs, fix, budget, stranded>>

\* upsertOpenDrift looks for the newest open drift of the row; 0 if there is none.
FindOpen(p, k) ==
  LET c == call[p] IN
  /\ c.pc = "next" /\ k \in c.todo
  /\ c.expected[k] # c.actual[k]
  /\ \E d \in OpenDrifts(k) \cup {0} :
       /\ \A e \in OpenDrifts(k) : e <= d
       /\ Calling(p, [c EXCEPT !.pc = "upsert", !.sku = k, !.drift = d,
                               !.status = IF d # 0 /\ drifts[d].status = "FIXING"
                                          THEN "FIXING" ELSE "DETECTED"])
  /\ UNCHANGED <<shop, lock, drifts, jobs, fix, budget, stranded>>

\* With autoFix the drift's job follows.
Upserted(c, d) ==
  IF c.auto
  THEN [c EXCEPT !.pc = "mark", !.drift = d, !.status = "DETECTED",
                 !.expected[c.sku] = 0, !.actual[c.sku] = 0]
  ELSE Onward(c, c.todo \ {c.sku})

Measured(c) == [sku |-> c.sku, status |-> c.status, expected |-> c.expected[c.sku],
                actual |-> c.actual[c.sku]]

\* Mutant: the drift keeps the numbers it was found with
UpdateStatusOnly(p) ==
  LET c == call[p] IN
  /\ c.pc = "upsert" /\ c.drift # 0
  /\ SetDrift(c.drift, c.status)
  /\ Calling(p, Upserted(c, c.drift))
  /\ UNCHANGED <<shop, lock, jobs, fix, budget, stranded>>

\* The drift is overwritten with what was read, whatever has become of it since:
\* a resolved one is open again.
UpdateOpen(p) ==
  LET c == call[p] IN
  /\ c.pc = "upsert" /\ c.drift # 0
  /\ drifts' = [drifts EXCEPT ![c.drift] = Measured(c)]
  /\ Calling(p, Upserted(c, c.drift))
  /\ UNCHANGED <<shop, lock, jobs, fix, budget, stranded>>

\* No index keeps a second open drift of the row out.
InsertDrift(p) ==
  LET c == call[p] IN
  /\ c.pc = "upsert" /\ c.drift = 0
  /\ Len(drifts) < MaxDrifts
  /\ drifts' = Append(drifts, Measured(c))
  /\ Calling(p, Upserted(c, Len(drifts) + 1))
  /\ UNCHANGED <<shop, lock, jobs, fix, budget, stranded>>

-------------------------------------------------------------------------------
(* queueFix *)

\* POST /drift/:id/fix: any drift, resolved ones too, and either strategy.
AskFix(p, d, s) ==
  /\ call[p] = NoCall
  /\ d \in DOMAIN drifts
  /\ Spend("ask")
  /\ Calling(p, [NoCall EXCEPT !.pc = "mark", !.drift = d, !.strategy = s])
  /\ UNCHANGED <<shop, lock, drifts, jobs, fix, stranded>>

QueueMark(p) ==
  /\ call[p].pc = "mark"
  /\ SetDrift(call[p].drift, "FIX_QUEUED")
  /\ Calling(p, [call[p] EXCEPT !.pc = "add"])
  /\ UNCHANGED <<shop, lock, jobs, fix, budget, stranded>>

FirstFree(j) == /\ jobs[j].state = "absent"
                /\ \A i \in JobIds : i < j => jobs[i].state # "absent"

\* Mutant: one job per drift at a time
AddUnlessKnown(p, j) ==
  LET c == call[p] IN
  /\ c.pc = "add"
  /\ FirstFree(j)
  /\ jobs' = IF \E i \in JobIds : jobs[i].state # "absent" /\ jobs[i].drift = c.drift
             THEN jobs
             ELSE [jobs EXCEPT ![j] = [state |-> "waiting", drift |-> c.drift,
                                       strategy |-> c.strategy, made |-> 0, stalls |-> 0]]
  /\ stranded' = stranded \ {c.drift}
  /\ Calling(p, Onward(c, c.todo \ {c.sku}))
  /\ UNCHANGED <<shop, lock, drifts, fix, budget>>

\* The job's id has the time in it: every request adds a job of its own.
QueueAdd(p, j) ==
  LET c == call[p] IN
  /\ c.pc = "add"
  /\ FirstFree(j)
  /\ jobs' = [jobs EXCEPT ![j] = [state |-> "waiting", drift |-> c.drift,
                                  strategy |-> c.strategy, made |-> 0, stalls |-> 0]]
  /\ stranded' = stranded \ {c.drift}
  /\ Calling(p, Onward(c, c.todo \ {c.sku}))
  /\ UNCHANGED <<shop, lock, drifts, fix, budget>>

\* A statement rejects or the process dies: the rest of the rows is not looked at,
\* and nobody resumes the call.
CallDies(p) ==
  /\ call[p] # NoCall
  /\ Spend("death")
  /\ stranded' = IF call[p].pc = "add" THEN stranded \cup {call[p].drift} ELSE stranded
  /\ Calling(p, NoCall)
  /\ UNCHANGED <<shop, lock, drifts, jobs, fix>>

-------------------------------------------------------------------------------
(* The fix worker *)

Busy(w) == fix[w].pc # "idle"

EndJob(w) == jobs' = [jobs EXCEPT ![fix[w].job] = NoJob]

Take(w, j) ==
  /\ ~Busy(w)
  /\ jobs[j].state = "waiting"
  /\ jobs' = [jobs EXCEPT ![j].state = "active"]
  /\ Fixing(w, [NoFix EXCEPT !.pc = "read", !.job = j])
  /\ UNCHANGED <<shop, lock, drifts, call, budget, stranded>>

\* The number the strategy takes from the drift row.
TargetOf(w) == LET d == drifts[DriftOf(w)] IN
  IF JobOf(w).strategy = "EXTERNAL_TO_INTERNAL" THEN d.actual ELSE d.expected

\* What the drift says now is what the fix will write, however long it takes.
FixRead(w) ==
  LET d == drifts[DriftOf(w)] IN
  /\ fix[w].pc = "read"
  /\ IF d.status = "RESOLVED"
     THEN EndJob(w) /\ Fixing(w, NoFix)
     ELSE /\ Fixing(w, [fix[w] EXCEPT !.pc = "mark", !.sku = d.sku, !.target = TargetOf(w)])
          /\ UNCHANGED jobs
  /\ UNCHANGED <<shop, lock, drifts, call, budget, stranded>>

MarkFixing(w) ==
  /\ fix[w].pc = "mark"
  /\ SetDrift(DriftOf(w), "FIXING")
  /\ Goto(w, IF JobOf(w).strategy = "EXTERNAL_TO_INTERNAL" THEN "acquire" ELSE "set")
  /\ UNCHANGED <<shop, lock, jobs, call, budget, stranded>>

\* INTERNAL_TO_EXTERNAL: the channel's number is overwritten, under no lock.
SetAvailable(w) ==
  /\ fix[w].pc = "set"
  /\ ext' = [ext EXCEPT ![fix[w].sku] = fix[w].target]
  /\ Goto(w, "resolve")
  /\ UNCHANGED <<stock, late, lock, drifts, jobs, call, budget, stranded>>

\* Mutant: the stock is written without its lock
AcquireNothing(w) ==
  /\ fix[w].pc = "acquire"
  /\ Goto(w, "readRow")
  /\ UNCHANGED <<shop, lock, drifts, jobs, call, budget, stranded>>

\* EXTERNAL_TO_INTERNAL: the stock row is read and overwritten under its lock.
Acquire(w) ==
  /\ fix[w].pc = "acquire"
  /\ lock[fix[w].sku] = "free"
  /\ lock' = [lock EXCEPT ![fix[w].sku] = w]
  /\ Goto(w, "readRow")
  /\ UNCHANGED <<shop, drifts, jobs, call, budget, stranded>>

ReadRow(w) ==
  /\ fix[w].pc = "readRow"
  /\ Fixing(w, [fix[w] EXCEPT !.pc = "writeRow", !.amount = reserved[fix[w].sku]])
  /\ UNCHANGED <<shop, lock, drifts, jobs, call, budget, stranded>>

Unlocking(w, next) == Fixing(w, [fix[w] EXCEPT !.pc = "unlock", !.next = next])

\* The upsert leaves reserved_quantity alone.
WriteRow(w) ==
  /\ fix[w].pc = "writeRow"
  /\ physical' = [physical EXCEPT ![fix[w].sku] = fix[w].target + fix[w].amount]
  /\ Unlocking(w, "resolve")
  /\ UNCHANGED <<reserved, status, ext, late, lock, drifts, jobs, call, budget,
                 stranded>>

Unlock(w) ==
  /\ fix[w].pc = "unlock"
  /\ lock' = [lock EXCEPT ![fix[w].sku] = "free"]
  /\ Goto(w, fix[w].next)
  /\ UNCHANGED <<shop, drifts, jobs, call, budget, stranded>>

\* The drift is resolved whatever a detection has made of it since.
Resolve(w) ==
  /\ fix[w].pc = "resolve"
  /\ SetDrift(DriftOf(w), "RESOLVED")
  /\ EndJob(w)
  /\ Fixing(w, NoFix)
  /\ UNCHANGED <<shop, lock, call, budget, stranded>>

\* The attempt is over: its job waits again as j, or fails for good.  A drift whose
\* last job fails before it is FIXING stays queued.
GivesUp(w, again, j) ==
  /\ jobs' = [jobs EXCEPT ![fix[w].job] = IF again THEN j ELSE NoJob]
  /\ stranded' = IF ~again /\ fix[w].pc \in {"read", "mark"}
                 THEN stranded \cup {DriftOf(w)} ELSE stranded
  /\ Fixing(w, NoFix)

\* The attempt ends with an error: BullMQ starts the job again until its attempts
\* are used up.
Throws(w) ==
  GivesUp(w, JobOf(w).made + 1 < Attempts,
          [JobOf(w) EXCEPT !.state = "waiting", !.made = @ + 1])

Throw(w) ==
  /\ fix[w].pc = "throw"
  /\ Throws(w)
  /\ UNCHANGED <<shop, lock, drifts, call, budget>>

\* The lock is still held when the wait for it ends.
LockBusy(w) ==
  /\ fix[w].pc = "acquire"
  /\ lock[fix[w].sku] # "free"
  /\ Throws(w)
  /\ UNCHANGED <<shop, lock, drifts, call, budget>>

\* A statement rejects, or the order engine holds the lock for too long.
FixFails(w) ==
  /\ Spend("failure")
  /\ \/ /\ fix[w].pc \in {"read", "mark", "set", "acquire", "resolve"}
        /\ Throws(w)
     \/ /\ fix[w].pc \in {"readRow", "writeRow"}
        /\ Unlocking(w, "throw")
        /\ UNCHANGED <<jobs, stranded>>
  /\ UNCHANGED <<shop, lock, drifts, call>>

\* A worker dies: its lock outlives it, and BullMQ hands its stalled job on, or
\* fails it when it has stalled too often.
Crash(w) ==
  /\ Busy(w)
  /\ Spend("crash")
  /\ lock' = [k \in Skus |-> IF lock[k] = w THEN "orphan" ELSE lock[k]]
  /\ GivesUp(w, JobOf(w).stalls < StallLimit,
             [JobOf(w) EXCEPT !.state = "waiting", !.stalls = @ + 1])
  /\ UNCHANGED <<shop, drifts, call>>

OrphanExpires(k) ==
  /\ lock[k] = "orphan"
  /\ lock' = [lock EXCEPT ![k] = "free"]
  /\ UNCHANGED <<shop, drifts, jobs, call, fix, budget, stranded>>

-------------------------------------------------------------------------------
(* What else moves the two numbers *)

\* Orders move as the engine promises; those that move stock do it under the lock
\* and behind the engine's own checks.
OrderMoves(o) ==
  LET k == SkuOf[o] IN
  /\ \/ Engine!Place(o) /\ Spend("order")
     \/ Engine!Reject(o) /\ UNCHANGED budget
     \/ Engine!Renew(o) /\ Spend("renew")
     \/ /\ lock[k] = "free" /\ UNCHANGED budget
        /\ \/ Engine!Reserve(o)
           \/ Engine!Sell(o) /\ reserved[k] >= Qty[o] /\ physical[k] >= Qty[o]
           \/ Engine!GiveBack(o) /\ reserved[k] >= Qty[o]
  /\ UNCHANGED <<ext, late, lock, drifts, jobs, call, fix, stranded>>

Adjust(k, n) ==
  /\ Spend("adjust")
  /\ lock[k] = "free"
  /\ Engine!Restock(k, n)
  /\ UNCHANGED <<ext, late, lock, drifts, jobs, call, fix, stranded>>

\* A request is on its way to the channel or to the stock with n.
Send(to, k, n) == late' = late \cup {[to |-> to, sku |-> k, qty |-> n]}

\* After a sale or an adjustment the sellable quantity is read for the channel.
SyncBegins(k) ==
  /\ Spend("sync")
  /\ Send("channel", k, Sellable(k))
  /\ UNCHANGED <<stock, ext, lock, drifts, jobs, call, fix, stranded>>

\* A sale on the channel reads the channel's number and will write what is left.
SaleBegins(k, n) ==
  /\ Spend("sale")
  /\ Send("channel", k, IF ext[k] > n THEN ext[k] - n ELSE 0)
  /\ UNCHANGED <<stock, ext, lock, drifts, jobs, call, fix, stranded>>

\* An inventory webhook sets the channel's number, then the stock.
WebhookSet(k, n) ==
  /\ Spend("webhook")
  /\ ext' = [ext EXCEPT ![k] = n]
  /\ Send("stock", k, n)
  /\ UNCHANGED <<stock, lock, drifts, jobs, call, fix, stranded>>

ChannelWrite(m) ==
  /\ m \in late /\ m.to = "channel"
  /\ ext' = [ext EXCEPT ![m.sku] = m.qty]
  /\ late' = late \ {m}
  /\ UNCHANGED <<stock, lock, drifts, jobs, call, fix, budget, stranded>>

\* The webhook's second half: read and write of the row are one step, as nobody
\* else writes the row under its lock.
StockWrite(m) ==
  /\ m \in late /\ m.to = "stock"
  /\ lock[m.sku] = "free"
  /\ physical' = [physical EXCEPT ![m.sku] = m.qty + reserved[m.sku]]
  /\ late' = late \ {m}
  /\ UNCHANGED <<reserved, status, ext, lock, drifts, jobs, call, fix, budget, stranded>>

\* A request dies between its read and its write.
LateLost(m) ==
  /\ m \in late
  /\ Spend("loss")
  /\ late' = late \ {m}
  /\ UNCHANGED <<stock, ext, lock, drifts, jobs, call, fix, stranded>>

-------------------------------------------------------------------------------
(* The specification *)

CallStep(p) ==
  \/ ReadInternal(p) \/ ReadExternal(p)
  \/ \E k \in Skus : ResolveMatched(p, k) \/ FindOpen(p, k)
  \/ UpdateOpen(p) \/ InsertDrift(p)
  \/ QueueMark(p) \/ \E j \in JobIds : QueueAdd(p, j)

FixStep(w) ==
  \/ \E j \in JobIds : Take(w, j)
  \/ FixRead(w) \/ MarkFixing(w) \/ SetAvailable(w)
  \/ Acquire(w) \/ LockBusy(w) \/ ReadRow(w) \/ WriteRow(w) \/ Unlock(w)
  \/ Resolve(w) \/ Throw(w)

Arrives == \E m \in late : ChannelWrite(m) \/ StockWrite(m)

Request ==
  \/ \E p \in Callers : \/ DetectOnly(p)
                         \/ \E d \in DOMAIN drifts, s \in Strategies : AskFix(p, d, s)
  \/ \E o \in Orders : OrderMoves(o)
  \/ \E k \in Skus : \/ SyncBegins(k)
                     \/ \E n \in Numbers : Adjust(k, n) \/ WebhookSet(k, n)
                     \/ \E n \in Sales : SaleBegins(k, n)

Mishap ==
  \/ \E p \in Callers : CallDies(p)
  \/ \E w \in Workers : FixFails(w) \/ Crash(w)
  \/ \E m \in late : LateLost(m)

Next ==
  \/ \E p \in Callers : CallStep(p) \/ RunCycle(p)
  \/ \E w \in Workers : FixStep(w)
  \/ \E k \in Skus : OrphanExpires(k)
  \/ Arrives
  \/ Request
  \/ Mishap

Spec == Init /\ [][Next]_vars

\* The scheduler begins a cycle again and again; calls and workers run on, requests
\* under way arrive, and Redis drops the key of a dead holder.
FairSpec ==
  /\ Spec
  /\ WF_vars(\E p \in Callers : RunCycle(p))
  /\ \A p \in Callers : WF_vars(CallStep(p))
  /\ \A w \in Workers : WF_vars(FixStep(w))
  /\ WF_vars(Arrives)
  /\ \A k \in Skus : WF_vars(OrphanExpires(k))

-------------------------------------------------------------------------------
(* Properties *)

\* What a call and a job may refer to, given the drifts there are.
CallOK(c, known) ==
  /\ c \in Call
  /\ c.drift \in known \cup {0}
  /\ c.pc \in {"mark", "add"} => c.drift # 0
  /\ c.pc = "upsert" => c.sku \in Skus

JobOK(j, known) == j \in Job /\ (j.state # "absent" => j.drift \in known)

\* Every variable stays in its domain; in particular the two numbers of a stock row
\* and of the channel never become negative, and every job and call that refers to
\* a drift refers to one that exists.
TypeOK ==
  /\ physical \in [Skus -> Nat] /\ reserved \in [Skus -> Nat]
  /\ status \in [Orders -> {"NONE", "CREATED", "RESERVED", "CONFIRMED", "FAILED"}]
  /\ ext \in [Skus -> Nat]
  /\ lock \in [Skus -> Workers \cup {"free", "orphan"}]
  /\ late \subseteq Late
  /\ drifts \in Seq(Drift) /\ Len(drifts) <= MaxDrifts
  /\ DOMAIN jobs = JobIds /\ \A j \in JobIds : JobOK(jobs[j], DOMAIN drifts)
  /\ DOMAIN call = Callers /\ \A p \in Callers : CallOK(call[p], DOMAIN drifts)
  /\ fix \in [Workers -> Fix]
  /\ budget \in 0..Mishaps
  /\ stranded \subseteq DOMAIN drifts

\* The flag GET /metrics reports: no row has more reserved than there is, whatever
\* fixes overwrite while orders reserve and sell.
NoOverselling == \A k \in Skus : reserved[k] <= physical[k]

\* What holds a queued drift: a job that waits, a worker that has not marked it yet,
\* or the request that is about to add its job.
Expected(d) ==
  \/ \E j \in JobIds : jobs[j].state = "waiting" /\ jobs[j].drift = d
  \/ \E w \in Workers : fix[w].pc \in {"read", "mark"} /\ DriftOf(w) = d
  \/ \E p \in Callers : call[p].pc = "add" /\ call[p].drift = d

\* A drift that says FIX_QUEUED has a job coming, unless the request died between
\* the row and the queue or the drift's job failed for good: two requests for one
\* drift, redeliveries and a fix that ends meanwhile do not leave it waiting.
QueuedDriftsHaveJob ==
  \A d \in DOMAIN drifts :
    drifts[d].status = "FIX_QUEUED" /\ d \notin stranded => Expected(d)

\* To the order engine a fix is one more adjustment: orders and stock go on moving
\* as AtomicOrders says, and a fix changes physical stock only, never below what
\* is reserved.
EngineUndisturbed == Engine!Spec

\* Once requests and mishaps end, the channel and the stock agree for good, although
\* every fix writes a number its drift row had earlier.
ChannelConverges == <>[](\A k \in Skus : ext[k] = Sellable(k))

\* ... and no drift stays open, those included whose job failed, whose request died
\* or that two detections inserted twice.
DriftsClose == <>[](\A d \in DOMAIN drifts : drifts[d].status = "RESOLVED")

===============================================================================
