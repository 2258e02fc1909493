----------------------------- MODULE HybridOrders -----------------------------
(***************************************************************************)
(* The hybrid order engine: stock rows guarded by a Redis lock, the order  *)
(* table, the BullMQ order queue and the mock external channel.            *)
(*                                                                         *)
(* Every HTTP request and every worker attempt runs in a slot.  A slot     *)
(* that is not idle is inside one call; call[p].pc names the next          *)
(* statement of that call that touches shared state.  Work done under the  *)
(* inventory lock is a Postgres READ COMMITTED transaction: one step reads *)
(* and decides, a later step commits, and between the two any other slot   *)
(* may move.                                                               *)
(*                                                                         *)
(* Inventory rows are never deleted and a missing row acts as a row of two *)
(* zeros in every handler (an order has quantity >= 1), so a missing row   *)
(* is modelled as 0/0.                                                     *)
(***************************************************************************)
EXTENDS Integers, FiniteSets, FiniteSetsExt

CONSTANTS
  Orders,          \* order ids
  Skus,            \* stock rows: a (tenant, sku, location) triple each
  Slots,           \* concurrent executions (HTTP requests, worker slots)
  None,            \* model value: no order / no stock row
  SkuOf,           \* [Orders -> Skus]: the row an order is placed on
  Qty,             \* [Orders -> Nat \ {0}]: the quantity ordered
  InitialStock,    \* [Skus -> Nat]: physical stock at the start
  Attempts,        \* BullMQ attempts of an order job (3 in the code)
  StallLimit,      \* stalls BullMQ forgives a job (maxStalledCount, 1)
  Deltas,          \* physicalDelta values of POST /inventory/adjust
  Quantities,      \* quantities of the inventory webhook and of external orders
  MaxRetries,      \* bound: POST /orders/:id/retry calls per order
  Budgets,         \* bounds on crashes, failing statements and manual requests
  Fragile,         \* operations in which a statement may fail
  LockMayExpire,   \* a lock may outlive its TTL while its holder still works
  LockWaitMayFail  \* withLock may run out of acquire attempts

Status    == {"NONE", "CREATED", "RESERVED", "CONFIRMED", "FAILED"}
Ops       == {"none", "create", "retry", "job", "adjust", "webhook", "sale"}
Reads     == {"reserveRead", "confirmRead", "releaseRead", "adjustRead",
              "webhookRead"}
Commits   == {"reserveCommit", "confirmCommit", "releaseCommit", "failCommit",
              "adjustCommit", "webhookCommit"}
Critical  == Reads \cup Commits
Outside   == {"idle", "throw", "enqueue", "queuedAt", "reset", "push",
              "pushInsert", "syncRead", "syncSet", "markSynced", "terminal",
              "markFailed", "dlq", "webhookSet", "saleRead", "saleCommit"}
PCs       == Critical \cup Outside \cup {"acquire", "unlock"}
Limits    == {"crash", "fault", "request"}

ASSUME HybridAssumption ==
  /\ SkuOf \in [Orders -> Skus]
  /\ Qty \in [Orders -> Nat \ {0}]
  /\ InitialStock \in [Skus -> Nat]
  /\ Attempts \in Nat \ {0}
  /\ StallLimit \in Nat
  /\ Deltas \subseteq Int
  /\ Quantities \subseteq Nat
  /\ MaxRetries \in Nat
  /\ Budgets \subseteq [Limits -> Nat]
  /\ Fragile \subseteq Ops
  /\ LockMayExpire \in BOOLEAN
  /\ LockWaitMayFail \in BOOLEAN
  /\ Slots \cap {"free", "orphan"} = {}

VARIABLES
  physical,  \* inventory.physical_quantity
  reserved,  \* inventory.reserved_quantity
  product,   \* stock rows whose product exists
  ext,       \* external_inventory.available_quantity
  status,    \* orders.status, "NONE" before the insert
  synced,    \* orders with external_synced_at set
  pushed,    \* orders with an external_orders row (unique core_order_id)
  lock,      \* Redis: the slot whose token is stored, "free" or "orphan"
  waiting,   \* BullMQ: order jobs waiting or backing off
  dlq,       \* order jobs recorded in the dead-letter queue
  retries,   \* retry requests made so far, per order
  stranded,  \* history: orders whose last call ended and left no job behind
  call,      \* what each slot is doing
  budget     \* what is left of the bounds

table == <<physical, reserved, product, ext, status, synced, pushed>>
queue == <<waiting, dlq, retries, stranded>>
vars  == <<table, lock, queue, call, budget>>

Job  == [order : Orders, id : Nat, made : Nat, stalls : Nat]
Call == [op : Ops, pc : PCs, next : PCs, order : Orders \cup {None},
         sku : Skus \cup {None}, amount : Int, id : Nat, made : Nat,
         stalls : Nat, phase : {"try", "catch"}]

Idle == [op |-> "none", pc |-> "idle", next |-> "idle", order |-> None,
         sku |-> None, amount |-> 0, id |-> 0, made |-> 0, stalls |-> 0,
         phase |-> "try"]

NewCall(op, o, k) == [Idle EXCEPT !.op = op, !.order = o, !.sku = k]

\* The call c continued at pc s; a call that returns leaves its slot idle.
At(c, s) == IF s = "idle" THEN Idle ELSE [c EXCEPT !.pc = s, !.next = "idle"]

\* withLock: wait for the lock and then run the work that starts at s.
Locking(c, s) == [c EXCEPT !.pc = "acquire", !.next = s]

\* The finally block of withLock: release, then go on at s.
Unlocking(c, s) == [c EXCEPT !.pc = "unlock", !.next = s]

Goto(p, c) == call' = [call EXCEPT ![p] = c]

JobOf(c) == [order |-> c.order, id |-> c.id, made |-> c.made,
             stalls |-> c.stalls]

\* The order a call leaves behind when it ends and no job of it waits.
Behind(c) == (Orders \cap {c.order}) \ {j.order : j \in waiting}

\* Mutant: reservations are not subtracted
SellableIgnoringReserved(k) == physical[k]

Sellable(k) == physical[k] - reserved[k]

AtLeastZero(n) == IF n < 0 THEN 0 ELSE n

Spend(what) == /\ budget[what] > 0
               /\ budget' = [budget EXCEPT ![what] = @ - 1]

Init ==
  /\ physical = InitialStock
  /\ reserved = [k \in Skus |-> 0]
  /\ product = {}
  /\ ext = [k \in Skus |-> 0]
  /\ status = [o \in Orders |-> "NONE"]
  /\ synced = {}
  /\ pushed = {}
  /\ lock = [k \in Skus |-> "free"]
  /\ waiting = {}
  /\ dlq = {}
  /\ retries = [o \in Orders |-> 0]
  /\ stranded = {}
  /\ call = [p \in Slots |-> Idle]
  /\ budget \in Budgets

-----------------------------------------------------------------------------
(* The inventory lock.                                                     *)

\* SET key token PX ttl NX succeeds.
Acquire(p) ==
  /\ call[p].pc = "acquire"
  /\ lock[call[p].sku] = "free"
  /\ lock' = [lock EXCEPT ![call[p].sku] = p]
  /\ Goto(p, At(call[p], call[p].next))
  /\ UNCHANGED <<table, queue, budget>>

\* The last acquire attempt found the key set: ConflictException.
LockBusy(p) ==
  /\ LockWaitMayFail
  /\ call[p].pc = "acquire"
  /\ lock[call[p].sku] # "free"
  /\ Goto(p, At(call[p], "throw"))
  /\ UNCHANGED <<table, lock, queue, budget>>

\* Mutant: delete without comparing the token
ReleaseAnyway(p) ==
  /\ call[p].pc = "unlock"
  /\ lock' = [lock EXCEPT ![call[p].sku] = "free"]
  /\ Goto(p, At(call[p], call[p].next))
  /\ UNCHANGED <<table, queue, budget>>

\* Compare the token and delete: another holder's lock is left alone.
Release(p) ==
  /\ call[p].pc = "unlock"
  /\ lock' = IF lock[call[p].sku] = p
             THEN [lock EXCEPT ![call[p].sku] = "free"]
             ELSE lock
  /\ Goto(p, At(call[p], call[p].next))
  /\ UNCHANGED <<table, queue, budget>>

\* The TTL of a lock whose holder is gone runs out.
OrphanExpires(k) ==
  /\ lock[k] = "orphan"
  /\ lock' = [lock EXCEPT ![k] = "free"]
  /\ UNCHANGED <<table, queue, call, budget>>

\* The TTL runs out although the holder still works: nothing renews it.
HeldExpires(k) ==
  /\ LockMayExpire
  /\ lock[k] \in Slots
  /\ lock' = [lock EXCEPT ![k] = "free"]
  /\ UNCHANGED <<table, queue, call, budget>>

-----------------------------------------------------------------------------
(* Reserving, confirming and releasing an order.                           *)

ReserveRead(p) ==
  LET c == call[p] IN
  /\ c.pc = "reserveRead"
  /\ Goto(p, IF status[c.order] \in {"RESERVED", "CONFIRMED"}
             THEN Unlocking(c, "enqueue")
             ELSE IF /\ status[c.order] # "FAILED"
                     /\ c.sku \in product
                     /\ Sellable(c.sku) >= Qty[c.order]
                  THEN At(c, "reserveCommit")
                  ELSE Unlocking(c, "throw"))
  /\ UNCHANGED <<table, lock, queue, budget>>

ReserveCommit(p) ==
  LET c == call[p] IN
  /\ c.pc = "reserveCommit"
  /\ reserved' = [reserved EXCEPT ![c.sku] = @ + Qty[c.order]]
  /\ status' = [status EXCEPT ![c.order] = "RESERVED"]
  /\ Goto(p, Unlocking(c, "enqueue"))
  /\ UNCHANGED <<physical, product, ext, synced, pushed, lock, queue, budget>>

ConfirmRead(p) ==
  LET c == call[p] IN
  /\ c.pc = "confirmRead"
  /\ Goto(p, IF /\ status[c.order] = "RESERVED"
                /\ reserved[c.sku] >= Qty[c.order]
                /\ physical[c.sku] >= Qty[c.order]
             THEN At(c, "confirmCommit")
             ELSE Unlocking(c, "throw"))
  /\ UNCHANGED <<table, lock, queue, budget>>

ConfirmCommit(p) ==
  LET c == call[p] IN
  /\ c.pc = "confirmCommit"
  /\ physical' = [physical EXCEPT ![c.sku] = @ - Qty[c.order]]
  /\ reserved' = [reserved EXCEPT ![c.sku] = @ - Qty[c.order]]
  /\ status' = [status EXCEPT ![c.order] = "CONFIRMED"]
  /\ Goto(p, Unlocking(c, "push"))
  /\ UNCHANGED <<product, ext, synced, pushed, lock, queue, budget>>

\* A worker attempt that failed for good still has to write its DLQ record.
AfterTerminal(c) == IF c.op = "job" THEN "dlq" ELSE "idle"

\* Mutant: the failed order keeps its reservation
ReleaseForgotten(p) ==
  /\ call[p].pc = "releaseRead"
  /\ Goto(p, At(call[p], "failCommit"))
  /\ UNCHANGED <<table, lock, queue, budget>>

ReleaseRead(p) ==
  LET c == call[p] IN
  /\ c.pc = "releaseRead"
  /\ Goto(p, At(c, IF status[c.order] = "RESERVED"
                   THEN "releaseCommit" ELSE "failCommit"))
  /\ UNCHANGED <<table, lock, queue, budget>>

ReleaseCommit(p) ==
  LET c == call[p] IN
  /\ c.pc \in {"releaseCommit", "failCommit"}
  /\ reserved' = IF c.pc = "releaseCommit"
                 THEN [reserved EXCEPT ![c.sku] = AtLeastZero(@ - Qty[c.order])]
                 ELSE reserved
  /\ status' = [status EXCEPT ![c.order] = "FAILED"]
  /\ Goto(p, Unlocking(c, AfterTerminal(c)))
  /\ UNCHANGED <<physical, product, ext, synced, pushed, lock, queue, budget>>

-----------------------------------------------------------------------------
(* handleTerminalFailure: the order is read without the lock.              *)

\* Mutant: a reserved order is left as it is
TerminalKeeps(p) ==
  LET c == call[p] IN
  /\ c.pc = "terminal"
  /\ Goto(p, At(c, IF status[c.order] \in {"CONFIRMED", "RESERVED"}
                   THEN AfterTerminal(c) ELSE "markFailed"))
  /\ UNCHANGED <<table, lock, queue, budget>>

Terminal(p) ==
  LET c == call[p] IN
  /\ c.pc = "terminal"
  /\ Goto(p, IF status[c.order] = "CONFIRMED"
             THEN At(c, AfterTerminal(c))
             ELSE IF status[c.order] = "RESERVED"
                  THEN Locking(c, "releaseRead")
                  ELSE At(c, "markFailed"))
  /\ UNCHANGED <<table, lock, queue, budget>>

MarkFailed(p) ==
  LET c == call[p] IN
  /\ c.pc = "markFailed"
  /\ status' = [status EXCEPT ![c.order] = "FAILED"]
  /\ Goto(p, At(c, AfterTerminal(c)))
  /\ UNCHANGED <<physical, reserved, product, ext, synced, pushed, lock, queue,
                 budget>>

\* The call runs its failure handler from here on.
Failing(c) == [c EXCEPT !.phase = "catch"]

\* Mutant: a failed attempt is not queued again
CatchForgets(p) ==
  LET c == call[p] IN
  /\ c.pc = "throw"
  /\ \/ /\ c.phase = "try"
        /\ \/ c.op = "create"
           \/ c.op = "job" /\ c.made + 1 >= Attempts
        /\ Goto(p, [At(Failing(c), "terminal") EXCEPT !.amount = 0])
        /\ UNCHANGED stranded
     \/ /\ c.phase = "try"
        /\ c.op = "job" /\ c.made + 1 < Attempts
        /\ Goto(p, Idle)
        /\ UNCHANGED stranded
     \/ /\ c.phase = "catch" \/ c.op \notin {"create", "job"}
        /\ Goto(p, Idle)
        /\ stranded' = stranded \cup Behind(c)
  /\ UNCHANGED <<table, lock, waiting, dlq, retries, budget>>

\* An exception leaves the work of a call.  create() and the last attempt of a
\* job handle it once; an earlier attempt goes back to the queue; everything
\* else ends with the exception, the handler of a last attempt too: the job has
\* failed then, without a dead letter, and its order is left as it is.
Catch(p) ==
  LET c == call[p] IN
  /\ c.pc = "throw"
  /\ \/ /\ c.phase = "try"
        /\ \/ c.op = "create"
           \/ c.op = "job" /\ c.made + 1 >= Attempts
        /\ Goto(p, [At(Failing(c), "terminal") EXCEPT !.amount = 0])
        /\ UNCHANGED <<waiting, stranded>>
     \/ /\ c.phase = "try"
        /\ c.op = "job" /\ c.made + 1 < Attempts
        /\ Goto(p, Idle)
        /\ waiting' = waiting \cup {[JobOf(c) EXCEPT !.made = @ + 1]}
        /\ UNCHANGED stranded
     \/ /\ c.phase = "catch" \/ c.op \notin {"create", "job"}
        /\ Goto(p, Idle)
        /\ stranded' = stranded \cup Behind(c)
        /\ UNCHANGED waiting
  /\ UNCHANGED <<table, lock, dlq, retries, budget>>

MoveToDlq(p) ==
  /\ call[p].pc = "dlq"
  /\ dlq' = dlq \cup {JobOf(call[p])}
  /\ Goto(p, Idle)
  /\ UNCHANGED <<table, lock, waiting, retries, stranded, budget>>

-----------------------------------------------------------------------------
(* POST /orders, POST /orders/:id/retry and the order worker.              *)

CreateOrder(p, o) ==
  /\ call[p] = Idle
  /\ status[o] = "NONE"
  /\ status' = [status EXCEPT ![o] = "CREATED"]
  /\ Goto(p, Locking(NewCall("create", o, SkuOf[o]), "reserveRead"))
  /\ UNCHANGED <<physical, reserved, product, ext, synced, pushed, lock, queue,
                 budget>>

RetryOrder(p, o) ==
  LET c == [NewCall("retry", o, SkuOf[o]) EXCEPT !.id = retries[o] + 1] IN
  /\ call[p] = Idle
  /\ retries[o] < MaxRetries
  /\ Spend("request")
  /\ status[o] # "NONE"
  /\ ~(status[o] = "CONFIRMED" /\ o \in synced)
  /\ retries' = [retries EXCEPT ![o] = @ + 1]
  /\ Goto(p, At(c, IF status[o] = "FAILED" THEN "reset" ELSE "enqueue"))
  /\ UNCHANGED <<table, lock, waiting, dlq, stranded>>

\* The retry writes CREATED whatever the order has become since it was read.
ResetOrder(p) ==
  LET c == call[p] IN
  /\ c.pc = "reset"
  /\ status' = [status EXCEPT ![c.order] = "CREATED"]
  /\ Goto(p, Locking(c, "reserveRead"))
  /\ UNCHANGED <<physical, reserved, product, ext, synced, pushed, lock, queue,
                 budget>>

\* Every enqueue has a jobId of its own, so no job is ever deduplicated.
Enqueue(p) ==
  /\ call[p].pc = "enqueue"
  /\ waiting' = waiting \cup {JobOf(call[p])}
  /\ stranded' = stranded \ {call[p].order}
  /\ Goto(p, At(call[p], "queuedAt"))
  /\ UNCHANGED <<table, lock, dlq, retries, budget>>

\* The queued_at update; no decision reads it, but it can fail.
QueuedAt(p) ==
  /\ call[p].pc = "queuedAt"
  /\ Goto(p, Idle)
  /\ UNCHANGED <<table, lock, queue, budget>>

\* A worker takes a job; confirm() reads the order before it locks.
TakeJob(p, j) ==
  LET o == j.order
      c == [NewCall("job", o, SkuOf[o])
              EXCEPT !.id = j.id, !.made = j.made, !.stalls = j.stalls] IN
  /\ call[p] = Idle
  /\ j \in waiting
  /\ waiting' = waiting \ {j}
  /\ Goto(p, IF status[o] # "CONFIRMED" THEN Locking(c, "confirmRead")
             ELSE IF o \in synced THEN Idle ELSE At(c, "push"))
  /\ UNCHANGED <<table, lock, dlq, retries, stranded, budget>>

-----------------------------------------------------------------------------
(* The external channel.                                                   *)

\* Mutant: the order is never sent, only the stock is
PushSkipped(p) ==
  /\ call[p].pc = "push"
  /\ Goto(p, At(call[p], "syncRead"))
  /\ UNCHANGED <<table, lock, queue, budget>>

\* createOrder looks for an external order of this core order.
PushOrder(p) ==
  LET c == call[p] IN
  /\ c.pc = "push"
  /\ Goto(p, At(c, IF c.order \in pushed THEN "syncRead" ELSE "pushInsert"))
  /\ UNCHANGED <<table, lock, queue, budget>>

\* The insert; the unique index on core_order_id rejects a second one.
PushInsert(p) ==
  LET c == call[p] IN
  /\ c.pc = "pushInsert"
  /\ pushed' = pushed \cup {c.order}
  /\ Goto(p, At(c, IF c.order \in pushed THEN "throw" ELSE "syncRead"))
  /\ UNCHANGED <<physical, reserved, product, ext, status, synced, lock, queue,
                 budget>>

\* syncInventoryFromInternal reads the row without the lock ...
SyncRead(p) ==
  LET c == call[p] IN
  /\ c.pc = "syncRead"
  /\ Goto(p, [At(c, "syncSet") EXCEPT !.amount = Sellable(c.sku)])
  /\ UNCHANGED <<table, lock, queue, budget>>

\* ... and setAvailable overwrites the external row with what was read.
SyncSet(p) ==
  LET c == call[p] IN
  /\ c.pc = "syncSet"
  /\ ext' = [ext EXCEPT ![c.sku] = c.amount]
  /\ Goto(p, IF c.op = "job" THEN [At(c, "markSynced") EXCEPT !.amount = 0]
             ELSE Idle)
  /\ UNCHANGED <<physical, reserved, product, status, synced, pushed, lock,
                 queue, budget>>

MarkSynced(p) ==
  /\ call[p].pc = "markSynced"
  /\ synced' = synced \cup {call[p].order}
  /\ Goto(p, Idle)
  /\ UNCHANGED <<physical, reserved, product, ext, status, pushed, lock, queue,
                 budget>>

\* POST /external/orders: a sale on the channel reads and rewrites its stock.
StartSale(p, k, n) ==
  /\ call[p] = Idle
  /\ Spend("request")
  /\ Goto(p, [At(NewCall("sale", None, k), "saleRead") EXCEPT !.amount = n])
  /\ UNCHANGED <<table, lock, queue>>

SaleRead(p) ==
  LET c == call[p] IN
  /\ c.pc = "saleRead"
  /\ Goto(p, [At(c, "saleCommit") EXCEPT
                !.amount = AtLeastZero(ext[c.sku] - c.amount)])
  /\ UNCHANGED <<table, lock, queue, budget>>

SaleCommit(p) ==
  LET c == call[p] IN
  /\ c.pc = "saleCommit"
  /\ ext' = [ext EXCEPT ![c.sku] = c.amount]
  /\ Goto(p, Idle)
  /\ UNCHANGED <<physical, reserved, product, status, synced, pushed, lock,
                 queue, budget>>

-----------------------------------------------------------------------------
(* Stock requests: product upsert, adjustment and inventory webhook.       *)

CreateProduct(k) ==
  /\ k \notin product
  /\ product' = product \cup {k}
  /\ UNCHANGED <<physical, reserved, ext, status, synced, pushed, lock, queue,
                 call, budget>>

StartAdjust(p, k, d) ==
  /\ call[p] = Idle
  /\ Spend("request")
  /\ Goto(p, [Locking(NewCall("adjust", None, k), "adjustRead")
                EXCEPT !.amount = d])
  /\ UNCHANGED <<table, lock, queue>>

\* Mutant: the new total is not compared with the reservations
AdjustUnchecked(p) ==
  LET c == call[p]
      n == physical[c.sku] + c.amount IN
  /\ c.pc = "adjustRead"
  /\ Goto(p, IF c.sku \in product /\ n >= 0
             THEN [At(c, "adjustCommit") EXCEPT !.amount = n]
             ELSE Unlocking(c, "throw"))
  /\ UNCHANGED <<table, lock, queue, budget>>

AdjustRead(p) ==
  LET c == call[p]
      n == physical[c.sku] + c.amount IN
  /\ c.pc = "adjustRead"
  /\ Goto(p, IF c.sku \in product /\ n >= 0 /\ reserved[c.sku] <= n
             THEN [At(c, "adjustCommit") EXCEPT !.amount = n]
             ELSE Unlocking(c, "throw"))
  /\ UNCHANGED <<table, lock, queue, budget>>

\* The upsert writes the total computed from the read; the caller may have
\* asked for no external sync.
AdjustCommit(p) ==
  LET c == call[p] IN
  /\ c.pc = "adjustCommit"
  /\ physical' = [physical EXCEPT ![c.sku] = c.amount]
  /\ \E s \in {"syncSet", "idle"} :
        Goto(p, [Unlocking(c, s) EXCEPT !.amount = c.amount - reserved[c.sku]])
  /\ UNCHANGED <<reserved, product, ext, status, synced, pushed, lock, queue,
                 budget>>

StartWebhook(p, k, n) ==
  /\ call[p] = Idle
  /\ Spend("request")
  /\ Goto(p, [At(NewCall("webhook", None, k), "webhookSet")
                EXCEPT !.amount = n])
  /\ UNCHANGED <<table, lock, queue>>

\* The channel's number is stored before the lock is taken.
WebhookSet(p) ==
  LET c == call[p] IN
  /\ c.pc = "webhookSet"
  /\ ext' = [ext EXCEPT ![c.sku] = c.amount]
  /\ Goto(p, Locking(c, "webhookRead"))
  /\ UNCHANGED <<physical, reserved, product, status, synced, pushed, lock,
                 queue, budget>>

WebhookRead(p) ==
  LET c == call[p] IN
  /\ c.pc = "webhookRead"
  /\ Goto(p, [At(c, "webhookCommit") EXCEPT
                !.amount = c.amount + reserved[c.sku]])
  /\ UNCHANGED <<table, lock, queue, budget>>

WebhookCommit(p) ==
  LET c == call[p] IN
  /\ c.pc = "webhookCommit"
  /\ physical' = [physical EXCEPT ![c.sku] = c.amount]
  /\ Goto(p, Unlocking(c, "idle"))
  /\ UNCHANGED <<reserved, product, ext, status, synced, pushed, lock, queue,
                 budget>>

-----------------------------------------------------------------------------
(* Failures.                                                               *)

\* A statement of the call fails (Postgres or Redis unreachable): the
\* transaction is rolled back, the lock released, the exception goes up.  When
\* the release itself fails the key stays until its TTL.
Fault(p) ==
  LET c == call[p] IN
  /\ c.pc \notin {"idle", "throw"} /\ c.op \in Fragile
  /\ Spend("fault")
  /\ lock' = IF c.pc = "unlock" /\ lock[c.sku] = p
             THEN [lock EXCEPT ![c.sku] = "orphan"] ELSE lock
  /\ Goto(p, IF c.pc \in Critical THEN Unlocking(c, "throw")
             ELSE At(c, "throw"))
  /\ UNCHANGED <<table, queue>>

\* The process dies: its lock stays until the TTL, its transaction is rolled
\* back, and BullMQ hands a stalled job to another worker, StallLimit times; at
\* the next stall it fails the job, which no code of the engine hears of.  A
\* dying request that has not enqueued its order leaves it behind.
Crash(p) ==
  LET c == call[p] IN
  /\ c.pc # "idle"
  /\ Spend("crash")
  /\ lock' = [k \in Skus |-> IF lock[k] = p THEN "orphan" ELSE lock[k]]
  /\ \/ /\ c.op = "job" /\ c.stalls < StallLimit
        /\ waiting' = waiting \cup {[JobOf(c) EXCEPT !.stalls = @ + 1]}
        /\ UNCHANGED stranded
     \/ /\ c.op # "job" \/ c.stalls >= StallLimit
        /\ stranded' = IF c.pc = "queuedAt" THEN stranded
                       ELSE stranded \cup Behind(c)
        /\ UNCHANGED waiting
  /\ Goto(p, Idle)
  /\ UNCHANGED <<table, dlq, retries>>

-----------------------------------------------------------------------------
Work(p) ==
  \/ Acquire(p) \/ LockBusy(p) \/ Release(p)
  \/ ReserveRead(p) \/ ReserveCommit(p)
  \/ ConfirmRead(p) \/ ConfirmCommit(p)
  \/ ReleaseRead(p) \/ ReleaseCommit(p)
  \/ Terminal(p) \/ MarkFailed(p) \/ Catch(p) \/ MoveToDlq(p)
  \/ ResetOrder(p) \/ Enqueue(p) \/ QueuedAt(p)
  \/ PushOrder(p) \/ PushInsert(p) \/ SyncRead(p) \/ SyncSet(p) \/ MarkSynced(p)
  \/ SaleRead(p) \/ SaleCommit(p)
  \/ AdjustRead(p) \/ AdjustCommit(p)
  \/ WebhookSet(p) \/ WebhookRead(p) \/ WebhookCommit(p)

Request(p) ==
  \/ \E o \in Orders : CreateOrder(p, o) \/ RetryOrder(p, o)
  \/ \E k \in Skus :
        \/ \E d \in Deltas : StartAdjust(p, k, d)
        \/ \E n \in Quantities : StartWebhook(p, k, n) \/ StartSale(p, k, n)

Next ==
  \/ \E p \in Slots : Work(p) \/ Request(p) \/ Fault(p) \/ Crash(p)
  \/ \E p \in Slots, j \in waiting : TakeJob(p, j)
  \/ \E k \in Skus : CreateProduct(k) \/ OrphanExpires(k) \/ HeldExpires(k)

Spec == Init /\ [][Next]_vars

\* Running code goes on, workers poll the queue and Redis expires keys.
\* Clients owe nothing.
Fairness ==
  /\ \A p \in Slots : WF_vars(Work(p))
  /\ WF_vars(\E p \in Slots, j \in waiting : TakeJob(p, j))
  /\ \A k \in Skus : WF_vars(OrphanExpires(k))

FairSpec == Spec /\ Fairness

-----------------------------------------------------------------------------
(* Properties.                                                             *)

\* Every variable has its type; a lock names a slot only while the slot is in
\* the call that took it.
TypeOK ==
  /\ physical \in [Skus -> Int]
  /\ reserved \in [Skus -> Int]
  /\ product \in SUBSET Skus
  /\ ext \in [Skus -> Int]
  /\ status \in [Orders -> Status]
  /\ synced \in SUBSET Orders
  /\ pushed \in SUBSET Orders
  /\ lock \in [Skus -> Slots \cup {"free", "orphan"}]
  /\ waiting \in SUBSET Job
  /\ dlq \in SUBSET Job
  /\ retries \in [Orders -> Nat]
  /\ stranded \in SUBSET Orders
  /\ call \in [Slots -> Call]
  /\ budget \in [Limits -> Nat]

\* metrics.inventory.noOverselling (hybrid-metrics.service.ts): no row reserves
\* more than it holds and no stock is negative, whatever orders, adjustments
\* and webhooks race, as long as no lock expires under its holder.
NoOverselling ==
  \A k \in Skus : 0 <= reserved[k] /\ reserved[k] <= physical[k]

\* withLock is a mutual exclusion: two calls are never both between acquire and
\* release of the same row's lock, crashes and orphaned keys included.
LockExclusion ==
  \A p, q \in Slots :
     /\ call[p].pc \in Critical
     /\ call[q].pc \in Critical
     /\ call[p].sku = call[q].sku
     => p = q

\* The quantity orders of row k in status s stand for.
Held(k, s) ==
  SumFunctionOnSet(Qty, {o \in Orders : SkuOf[o] = k /\ status[o] = s})

\* Reservations are neither lost nor leaked: a row's reserved quantity is what
\* its RESERVED orders ask for.
ReservationsBacked == \A k \in Skus : reserved[k] = Held(k, "RESERVED")

\* Every interleaving of calls, crashes and redelivered jobs looks to a reader
\* of the tables like whole orders moving one at a time (AtomicOrders): nothing
\* is sold twice, a reservation ends in exactly one sale or one release.
Atomic == INSTANCE AtomicOrders
            WITH Orders <- Orders, Skus <- Skus, SkuOf <- SkuOf, Qty <- Qty,
                 physical <- physical, reserved <- reserved, status <- status
ImplementsAtomic == Atomic!Spec

\* The channel is told of an order only once its stock is sold, and the order
\* is marked synced only once the channel has it.
PushAfterSale ==
  /\ \A o \in pushed : status[o] = "CONFIRMED"
  /\ synced \subseteq pushed

\* release() frees only the key that still holds the releaser's own token: a
\* call whose lock expired never frees the lock of the call that took over.
ReleaseOwnOnly ==
  [][\A k \in Skus, p, q \in Slots :
        /\ lock[k] = p
        /\ lock'[k] # p
        /\ call'[q] # call[q]
        => q = p]_vars

\* What is left to do for an order is in somebody's hands: a reservation has a
\* waiting job or a running call that will confirm or release it, whatever
\* fails, dies or gives up on the lock, unless the order was left behind when a
\* call about it ended: by a request or a last attempt whose failure handling
\* failed, by a dying request, or by a job that stalled too often.
NoStrandedReservation ==
  \A o \in Orders \ stranded :
     status[o] = "RESERVED" =>
        \/ \E j \in waiting : j.order = o
        \/ \E p \in Slots : call[p].order = o

\* An order is settled when it failed, or when it is sold and the channel has
\* it or an operator finds it in the dead-letter queue.
Settled(o) ==
  \/ status[o] = "FAILED"
  \/ status[o] = "CONFIRMED" /\ (o \in synced \/ \E j \in dlq : j.order = o)

\* Every accepted order is eventually settled, through failing statements, dying
\* processes and busy locks, unless it was left behind or somebody retries it
\* by hand: a retry that fails to reserve leaves its order CREATED with no job.
OrdersSettle ==
  \A o \in Orders :
     (status[o] = "CREATED" /\ retries[o] = 0)
        ~> (Settled(o) \/ retries[o] > 0 \/ o \in stranded)
=============================================================================
