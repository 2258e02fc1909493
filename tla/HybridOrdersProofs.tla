-------------------------- MODULE HybridOrdersProofs --------------------------
(***************************************************************************)
(* The order engine never oversells, for any number of orders, rows, slots *)
(* and requests, as long as no lock expires under its holder.              *)
(*                                                                         *)
(* NoOverselling is not inductive: a commit writes what an earlier read    *)
(* allowed.  The strengthening says that a call between acquire and        *)
(* release owns the lock (LockOwned) and that what it read still holds     *)
(* when it commits (CommitsAllowed).                                       *)
(*                                                                         *)
(* Without manual retries an order is in one pair of hands at a time       *)
(* (Tokens), so that it never goes back and is pushed only once it is      *)
(* sold; and every reservation is carried by a job or by a call that will  *)
(* settle it or leave it behind (Carried).                                 *)
(*                                                                         *)
(* A row reserves exactly what its RESERVED orders add up to (Backed: a    *)
(* sum over orders, moved by one order at a time), only an order's own     *)
(* release gives its units back, and seen through the commits alone the    *)
(* engine is AtomicOrders.                                                 *)
(***************************************************************************)
EXTENDS HybridOrders, FiniteSetTheorems, WellFoundedInduction, TLAPS

OrderOps == {"create", "retry", "job"}
OrderPCs == {"reserveRead", "reserveCommit", "confirmRead", "confirmCommit",
             "releaseRead", "releaseCommit", "failCommit", "enqueue",
             "queuedAt", "reset", "push", "pushInsert", "markSynced",
             "terminal", "markFailed", "dlq"}

\* Where a call goes on after the lock is released.
Resumes == {"throw", "enqueue", "push", "dlq", "syncSet", "idle"}

\* What a call is about: a call that runs has its row, an order call its order
\* with the row of that order; the lock is taken to read and released to leave.
Shape(c) ==
  /\ c.pc # "idle" => c.sku \in Skus
  /\ c.op \in OrderOps => c.order \in Orders /\ c.sku = SkuOf[c.order]
  /\ c.pc \in OrderPCs => c.op \in OrderOps
  /\ c.next \in OrderPCs => c.op \in OrderOps
  /\ c.pc = "acquire" => c.next \in Reads
  /\ c.pc = "unlock" => c.next \in Resumes

CallShape == \A p \in Slots : Shape(call[p])

\* A call inside the work of withLock still owns the lock of its row.
LockOwned ==
  \A p \in Slots : call[p].pc \in Critical => lock[call[p].sku] = p

\* What a call is about to commit keeps its row sound.
CommitAllowed(c) ==
  /\ c.pc = "reserveCommit" =>
        reserved[c.sku] + Qty[c.order] <= physical[c.sku]
  /\ c.pc = "confirmCommit" => /\ Qty[c.order] <= reserved[c.sku]
                               /\ Qty[c.order] <= physical[c.sku]
  /\ c.pc \in {"adjustCommit", "webhookCommit"} => reserved[c.sku] <= c.amount
  /\ c.pc \in {"webhookSet", "webhookRead"} \/ c.next = "webhookRead"
        => c.amount >= 0

CommitsAllowed == \A p \in Slots : CommitAllowed(call[p])

StockSafe == LockOwned /\ CommitsAllowed /\ NoOverselling

IInv == TypeOK /\ CallShape /\ StockSafe

-----------------------------------------------------------------------------
(* Types and shapes of calls.                                              *)

LEMMA PCSets ==
  /\ Critical \subseteq PCs
  /\ Resumes \subseteq PCs
  /\ Reads \subseteq Critical
  /\ OrderPCs \subseteq PCs
  /\ {"idle", "throw", "acquire", "unlock", "syncRead", "syncSet", "webhookSet",
      "saleRead", "saleCommit"} \subseteq PCs \ (Critical \cup OrderPCs)
BY DEF PCs, Critical, Reads, Commits, Outside, Resumes, OrderPCs

LEMMA IdleShape == Idle \in Call /\ Shape(Idle)
BY PCSets DEF Idle, Call, Shape, Ops, OrderOps

\* A call that goes on at s keeps everything else.
LEMMA AtShape ==
  ASSUME NEW c \in Call, NEW s \in PCs, Shape(c), c.pc # "idle",
         s \notin {"acquire", "unlock"},
         s \in OrderPCs => c.op \in OrderOps
  PROVE  At(c, s) \in Call /\ Shape(At(c, s))
<1>1. CASE s = "idle"
  BY <1>1, IdleShape DEF At
<1>2. CASE s # "idle"
  BY <1>2, PCSets DEF At, Call, Shape
<1>3. QED
  BY <1>1, <1>2

LEMMA LockingShape ==
  ASSUME NEW c \in Call, NEW s \in Reads, Shape(c), c.sku \in Skus,
         s \in OrderPCs => c.op \in OrderOps
  PROVE  Locking(c, s) \in Call /\ Shape(Locking(c, s))
BY PCSets DEF Locking, Call, Shape

LEMMA UnlockingShape ==
  ASSUME NEW c \in Call, NEW s \in Resumes, Shape(c), c.pc # "idle",
         s \in OrderPCs => c.op \in OrderOps
  PROVE  Unlocking(c, s) \in Call /\ Shape(Unlocking(c, s))
BY PCSets DEF Unlocking, Call, Shape

LEMMA AmountShape ==
  ASSUME NEW c \in Call, NEW n \in Int, Shape(c)
  PROVE  [c EXCEPT !.amount = n] \in Call /\ Shape([c EXCEPT !.amount = n])
BY DEF Call, Shape

LEMMA NewCallShape ==
  ASSUME NEW op \in Ops, NEW o \in Orders \cup {None}, NEW k \in Skus,
         op \in OrderOps => o \in Orders /\ k = SkuOf[o]
  PROVE  NewCall(op, o, k) \in Call /\ Shape(NewCall(op, o, k))
<1>1. NewCall(op, o, k) \in Call
  BY IdleShape DEF NewCall, Call
<1>2. /\ NewCall(op, o, k).op = op
      /\ NewCall(op, o, k).order = o
      /\ NewCall(op, o, k).sku = k
      /\ NewCall(op, o, k).pc = "idle"
      /\ NewCall(op, o, k).next = "idle"
  BY DEF NewCall, Idle
<1>3. "idle" \notin OrderPCs
  BY DEF OrderPCs
<1>4. QED
  BY <1>1, <1>2, <1>3 DEF Shape

LEMMA GotoShape ==
  ASSUME call \in [Slots -> Call], CallShape, NEW p \in Slots, NEW c \in Call,
         Shape(c), Goto(p, c)
  PROVE  call' \in [Slots -> Call] /\ CallShape'
BY DEF Goto, CallShape, Shape

-----------------------------------------------------------------------------
(* The type invariant, one step per action.                                *)

\* Continuing call p at s, with the tables' types kept, keeps both parts.
LEMMA StepAt ==
  ASSUME TypeOK, CallShape, NEW p \in Slots, NEW s \in PCs,
         call[p].pc # "idle", s \notin {"acquire", "unlock"},
         s \in OrderPCs => call[p].op \in OrderOps,
         Goto(p, At(call[p], s))
  PROVE  call' \in [Slots -> Call] /\ CallShape'
<1>1. call[p] \in Call /\ Shape(call[p])
  BY DEF TypeOK, CallShape
<1>2. QED
  BY <1>1, AtShape, GotoShape DEF TypeOK

LEMMA StepAmount ==
  ASSUME TypeOK, CallShape, NEW p \in Slots, NEW s \in PCs, NEW n \in Int,
         call[p].pc # "idle", s \notin {"acquire", "unlock"},
         s \in OrderPCs => call[p].op \in OrderOps,
         Goto(p, [At(call[p], s) EXCEPT !.amount = n])
  PROVE  call' \in [Slots -> Call] /\ CallShape'
<1>1. call[p] \in Call /\ Shape(call[p])
  BY DEF TypeOK, CallShape
<1>2. At(call[p], s) \in Call /\ Shape(At(call[p], s))
  BY <1>1, AtShape
<1>3. QED
  BY <1>2, AmountShape, GotoShape DEF TypeOK

LEMMA StepLocking ==
  ASSUME TypeOK, CallShape, NEW p \in Slots, NEW s \in Reads,
         call[p].pc # "idle", s \in OrderPCs => call[p].op \in OrderOps,
         Goto(p, Locking(call[p], s))
  PROVE  call' \in [Slots -> Call] /\ CallShape'
<1>1. call[p] \in Call /\ Shape(call[p]) /\ call[p].sku \in Skus
  BY DEF TypeOK, CallShape, Shape
<1>2. QED
  BY <1>1, LockingShape, GotoShape DEF TypeOK

LEMMA StepUnlocking ==
  ASSUME TypeOK, CallShape, NEW p \in Slots, NEW s \in Resumes,
         call[p].pc # "idle", s \in OrderPCs => call[p].op \in OrderOps,
         Goto(p, Unlocking(call[p], s))
  PROVE  call' \in [Slots -> Call] /\ CallShape'
<1>1. call[p] \in Call /\ Shape(call[p])
  BY DEF TypeOK, CallShape
<1>2. QED
  BY <1>1, UnlockingShape, GotoShape DEF TypeOK

LEMMA StepIdle ==
  ASSUME TypeOK, CallShape, NEW p \in Slots, Goto(p, Idle)
  PROVE  call' \in [Slots -> Call] /\ CallShape'
BY IdleShape, GotoShape DEF TypeOK

\* An order call knows its order and the row of it.
LEMMA OrderCall ==
  ASSUME TypeOK, CallShape, NEW p \in Slots, call[p].op \in OrderOps
  PROVE  /\ call[p].order \in Orders
         /\ call[p].sku = SkuOf[call[p].order]
         /\ call[p].sku \in Skus
         /\ Qty[call[p].order] \in Nat /\ Qty[call[p].order] > 0
<1>1. Shape(call[p])
  BY DEF CallShape
<1>2. call[p].order \in Orders /\ call[p].sku = SkuOf[call[p].order]
  BY <1>1 DEF Shape
<1>3. QED
  BY <1>2, HybridAssumption DEF HybridAssumption

\* What it enqueues or requeues is a job.
LEMMA OrderJob ==
  ASSUME TypeOK, CallShape, NEW p \in Slots, call[p].op \in OrderOps
  PROVE  /\ JobOf(call[p]) \in Job
         /\ [JobOf(call[p]) EXCEPT !.made = @ + 1] \in Job
         /\ [JobOf(call[p]) EXCEPT !.stalls = @ + 1] \in Job
<1>1. call[p].id \in Nat /\ call[p].made \in Nat /\ call[p].stalls \in Nat
  BY DEF TypeOK, Call
<1>2. QED
  BY <1>1, OrderCall DEF JobOf, Job

\* What it leaves behind is an order.
LEMMA BehindOrder ==
  ASSUME TypeOK, NEW p \in Slots
  PROVE  Behind(call[p]) \subseteq Orders
BY DEF Behind, TypeOK, Call

LEMMA FailingShape ==
  ASSUME NEW c \in Call, Shape(c)
  PROVE  /\ Failing(c) \in Call
         /\ Shape(Failing(c))
         /\ Failing(c).pc = c.pc
         /\ Failing(c).op = c.op
BY DEF Failing, Call, Shape

LEMMA InitShape == Init => TypeOK /\ CallShape
<1>1. ASSUME Init PROVE TypeOK
  BY <1>1, IdleShape, HybridAssumption DEF Init, TypeOK, Status, HybridAssumption
<1>2. ASSUME Init PROVE CallShape
  BY <1>2, IdleShape DEF Init, CallShape
<1>3. QED
  BY <1>1, <1>2

\* The steps of a running call.
LEMMA WorkShape ==
  ASSUME TypeOK, CallShape, NEW p \in Slots, Work(p)
  PROVE  TypeOK' /\ CallShape'
<1> DEFINE c == call[p]
<1>0. /\ c \in Call /\ Shape(c)
      /\ c.pc # "idle" => c.sku \in Skus
      /\ c.amount \in Int
  BY DEF TypeOK, CallShape, Shape, Call
<1>. USE DEF table, queue
<1>1. CASE Acquire(p)
  <2>1. c.next \in PCs /\ c.next \notin {"acquire", "unlock"} /\ c.pc # "idle"
        /\ (c.next \in OrderPCs => c.op \in OrderOps)
    BY <1>0, <1>1, PCSets DEF Acquire, Shape, Reads
  <2>2. QED
    BY <1>1, <2>1, StepAt DEF Acquire, TypeOK
<1>2. CASE LockBusy(p)
  BY <1>2, StepAt, PCSets DEF LockBusy, TypeOK
<1>3. CASE Release(p)
  <2>1. c.next \in PCs /\ c.next \notin {"acquire", "unlock"} /\ c.pc # "idle"
        /\ (c.next \in OrderPCs => c.op \in OrderOps)
    BY <1>0, <1>3, PCSets DEF Release, Shape, Resumes
  <2>2. QED
    BY <1>3, <2>1, StepAt DEF Release, TypeOK
<1>4. CASE ReserveRead(p)
  BY <1>0, <1>4, StepAt, StepUnlocking, PCSets
     DEF ReserveRead, TypeOK, Shape, OrderPCs, Resumes
<1>5. CASE ReserveCommit(p)
  <2>1. c.op \in OrderOps
    BY <1>0, <1>5 DEF ReserveCommit, Shape, OrderPCs
  <2>2. call' \in [Slots -> Call] /\ CallShape'
    BY <1>5, <2>1, StepUnlocking DEF ReserveCommit, Resumes
  <2>3. Qty[c.order] \in Int /\ c.sku \in Skus
    BY <2>1, OrderCall
  <2>4. physical' \in [Skus -> Int] /\ reserved' \in [Skus -> Int]
    BY <1>5, <2>3 DEF ReserveCommit, TypeOK, AtLeastZero
  <2>5. status' \in [Orders -> Status]
    BY <1>5 DEF ReserveCommit, TypeOK, Status
  <2>6. QED
    BY <1>5, <2>2, <2>4, <2>5 DEF ReserveCommit, TypeOK
<1>6. CASE ConfirmRead(p)
  BY <1>0, <1>6, StepAt, StepUnlocking, PCSets
     DEF ConfirmRead, TypeOK, Shape, OrderPCs, Resumes
<1>7. CASE ConfirmCommit(p)
  <2>1. c.op \in OrderOps
    BY <1>0, <1>7 DEF ConfirmCommit, Shape, OrderPCs
  <2>2. call' \in [Slots -> Call] /\ CallShape'
    BY <1>7, <2>1, StepUnlocking DEF ConfirmCommit, Resumes
  <2>3. Qty[c.order] \in Int /\ c.sku \in Skus
    BY <2>1, OrderCall
  <2>4. physical' \in [Skus -> Int] /\ reserved' \in [Skus -> Int]
    BY <1>7, <2>3 DEF ConfirmCommit, TypeOK, AtLeastZero
  <2>5. status' \in [Orders -> Status]
    BY <1>7 DEF ConfirmCommit, TypeOK, Status
  <2>6. QED
    BY <1>7, <2>2, <2>4, <2>5 DEF ConfirmCommit, TypeOK
<1>8. CASE ReleaseRead(p)
  BY <1>0, <1>8, StepAt, PCSets DEF ReleaseRead, TypeOK, Shape, OrderPCs
<1>9. CASE ReleaseCommit(p)
  <2>1. c.op \in OrderOps
    BY <1>0, <1>9 DEF ReleaseCommit, Shape, OrderPCs
  <2>2. call' \in [Slots -> Call] /\ CallShape'
    BY <1>9, <2>1, StepUnlocking DEF ReleaseCommit, Resumes, AfterTerminal
  <2>3. Qty[c.order] \in Int /\ c.sku \in Skus
    BY <2>1, OrderCall
  <2>4. physical' \in [Skus -> Int] /\ reserved' \in [Skus -> Int]
    BY <1>9, <2>3 DEF ReleaseCommit, TypeOK, AtLeastZero
  <2>5. status' \in [Orders -> Status]
    BY <1>9 DEF ReleaseCommit, TypeOK, Status
  <2>6. QED
    BY <1>9, <2>2, <2>4, <2>5 DEF ReleaseCommit, TypeOK
<1>10. CASE Terminal(p)
  BY <1>0, <1>10, StepAt, StepLocking, PCSets
     DEF Terminal, TypeOK, Shape, OrderPCs, Reads, AfterTerminal, OrderOps
<1>11. CASE MarkFailed(p)
  BY <1>0, <1>11, StepAt, PCSets
     DEF MarkFailed, TypeOK, Shape, OrderPCs, AfterTerminal, OrderOps, Status
<1>12. CASE Catch(p)
  <2>1. CASE Goto(p, Idle)
    <3>1. waiting' \in SUBSET Job
      BY <1>12, OrderJob DEF Catch, TypeOK, OrderOps
    <3>2. stranded' \in SUBSET Orders
      BY <1>12, BehindOrder DEF Catch, TypeOK
    <3>3. QED
      BY <1>12, <2>1, <3>1, <3>2, StepIdle DEF Catch, TypeOK
  <2>2. CASE /\ c.op \in {"create", "job"}
             /\ UNCHANGED <<waiting, stranded>>
             /\ Goto(p, [At(Failing(c), "terminal") EXCEPT !.amount = 0])
    <3>1. /\ At(Failing(c), "terminal") \in Call
          /\ Shape(At(Failing(c), "terminal"))
      BY <1>0, <1>12, <2>2, AtShape, FailingShape, PCSets
         DEF Catch, OrderOps, OrderPCs
    <3>2. /\ [At(Failing(c), "terminal") EXCEPT !.amount = 0] \in Call
          /\ Shape([At(Failing(c), "terminal") EXCEPT !.amount = 0])
      BY <3>1, AmountShape
    <3>3. call' \in [Slots -> Call] /\ CallShape'
      BY <2>2, <3>2, GotoShape DEF TypeOK
    <3>4. QED
      BY <1>12, <2>2, <3>3 DEF Catch, TypeOK
  <2>3. QED
    BY <1>12, <2>1, <2>2 DEF Catch
<1>13. CASE MoveToDlq(p)
  BY <1>0, <1>13, StepIdle, OrderJob
     DEF MoveToDlq, TypeOK, Shape, OrderPCs
<1>14. CASE ResetOrder(p)
  BY <1>0, <1>14, StepLocking
     DEF ResetOrder, TypeOK, Shape, OrderPCs, Reads, Status
<1>15. CASE Enqueue(p)
  BY <1>0, <1>15, StepAt, OrderJob, PCSets
     DEF Enqueue, TypeOK, Shape, OrderPCs
<1>16. CASE QueuedAt(p)
  BY <1>16, StepIdle DEF QueuedAt, TypeOK
<1>17. CASE PushOrder(p)
  BY <1>0, <1>17, StepAt, PCSets DEF PushOrder, TypeOK, Shape, OrderPCs
<1>18. CASE PushInsert(p)
  BY <1>0, <1>18, StepAt, OrderCall, PCSets
     DEF PushInsert, TypeOK, Shape, OrderPCs
<1>19. CASE SyncRead(p)
  <2>1. Sellable(c.sku) \in Int
    BY <1>0, <1>19 DEF SyncRead, TypeOK, Sellable
  <2>2. call' \in [Slots -> Call] /\ CallShape'
    BY <1>19, <2>1, StepAmount, PCSets DEF SyncRead
  <2>3. QED
    BY <1>19, <2>2 DEF SyncRead, TypeOK
<1>20. CASE SyncSet(p)
  <2>1. CASE c.op = "job"
    <3>1. Goto(p, [At(c, "markSynced") EXCEPT !.amount = 0])
      BY <1>20, <2>1 DEF SyncSet
    <3>2. "markSynced" \in PCs
      BY PCSets DEF OrderPCs
    <3>3. call' \in [Slots -> Call] /\ CallShape'
      BY <1>20, <2>1, <3>1, <3>2, StepAmount DEF SyncSet, OrderOps
    <3>4. QED
      BY <1>0, <1>20, <3>3 DEF SyncSet, TypeOK
  <2>2. CASE c.op # "job"
    BY <1>0, <1>20, <2>2, StepIdle DEF SyncSet, TypeOK
  <2>3. QED
    BY <2>1, <2>2
<1>21. CASE MarkSynced(p)
  BY <1>0, <1>21, StepIdle, OrderCall DEF MarkSynced, TypeOK, Shape, OrderPCs
<1>22. CASE SaleRead(p)
  <2>1. AtLeastZero(ext[c.sku] - c.amount) \in Int
    BY <1>0, <1>22 DEF SaleRead, TypeOK, AtLeastZero
  <2>2. call' \in [Slots -> Call] /\ CallShape'
    BY <1>22, <2>1, StepAmount, PCSets DEF SaleRead
  <2>3. QED
    BY <1>22, <2>2 DEF SaleRead, TypeOK
<1>23. CASE SaleCommit(p)
  BY <1>0, <1>23, StepIdle DEF SaleCommit, TypeOK
<1>24. CASE AdjustRead(p)
  <2> DEFINE n == physical[c.sku] + c.amount
  <2>1. n \in Int
    BY <1>0, <1>24 DEF AdjustRead, TypeOK
  <2>2. \/ Goto(p, [At(c, "adjustCommit") EXCEPT !.amount = n])
        \/ Goto(p, Unlocking(c, "throw"))
    BY <1>24 DEF AdjustRead
  <2>3. "adjustCommit" \in PCs /\ "adjustCommit" \notin OrderPCs
    BY DEF PCs, Critical, Commits, OrderPCs
  <2>4. call' \in [Slots -> Call] /\ CallShape'
    BY <1>24, <2>1, <2>2, <2>3, StepAmount, StepUnlocking, PCSets
       DEF AdjustRead, Resumes
  <2>5. QED
    BY <1>24, <2>4 DEF AdjustRead, TypeOK
<1>25. CASE AdjustCommit(p)
  <2>1. PICK s \in {"syncSet", "idle"} :
          Goto(p, [Unlocking(c, s) EXCEPT !.amount = c.amount - reserved[c.sku]])
    BY <1>25 DEF AdjustCommit
  <2>2. Unlocking(c, s) \in Call /\ Shape(Unlocking(c, s))
    BY <1>0, <1>25, UnlockingShape DEF AdjustCommit, Resumes, OrderPCs
  <2>3. c.amount - reserved[c.sku] \in Int
    BY <1>0, <1>25 DEF AdjustCommit, TypeOK
  <2>4. QED
    BY <1>0, <1>25, <2>1, <2>2, <2>3, AmountShape, GotoShape
       DEF AdjustCommit, TypeOK
<1>26. CASE WebhookSet(p)
  BY <1>0, <1>26, StepLocking DEF WebhookSet, TypeOK, Reads, OrderPCs
<1>27. CASE WebhookRead(p)
  <2>1. c.amount + reserved[c.sku] \in Int
    BY <1>0, <1>27 DEF WebhookRead, TypeOK
  <2>2. "webhookCommit" \in PCs /\ "webhookCommit" \notin OrderPCs
    BY DEF PCs, Critical, Commits, OrderPCs
  <2>3. call' \in [Slots -> Call] /\ CallShape'
    BY <1>27, <2>1, <2>2, StepAmount DEF WebhookRead
  <2>4. QED
    BY <1>27, <2>3 DEF WebhookRead, TypeOK
<1>28. CASE WebhookCommit(p)
  BY <1>0, <1>28, StepUnlocking DEF WebhookCommit, TypeOK, Resumes, OrderPCs
<1>29. QED
  BY <1>1, <1>2, <1>3, <1>4, <1>5, <1>6, <1>7, <1>8, <1>9, <1>10, <1>11,
     <1>12, <1>13, <1>14, <1>15, <1>16, <1>17, <1>18, <1>19, <1>20, <1>21,
     <1>22, <1>23, <1>24, <1>25, <1>26, <1>27, <1>28, Work(p) DEF Work

LEMMA SpendShape ==
  ASSUME budget \in [Limits -> Nat], NEW what \in Limits, Spend(what)
  PROVE  budget' \in [Limits -> Nat]
<1>1. budget[what] - 1 \in Nat
  BY DEF Spend
<1>2. QED
  BY <1>1 DEF Spend

\* A stock request that starts outside the lock.
LEMMA StockRequestShape ==
  ASSUME TypeOK, CallShape, NEW p \in Slots, NEW k \in Skus, NEW n \in Int,
         NEW op \in {"webhook", "sale"}, NEW s \in {"webhookSet", "saleRead"},
         Goto(p, [At(NewCall(op, None, k), s) EXCEPT !.amount = n])
  PROVE  call' \in [Slots -> Call] /\ CallShape'
<1> DEFINE c == NewCall(op, None, k)
<1>1. c \in Call /\ c.sku = k /\ c.op = op
  BY NewCallShape DEF Ops, OrderOps, NewCall, Idle
<1>2. At(c, s) = [c EXCEPT !.pc = s, !.next = "idle"]
  BY DEF At
<1>3. At(c, s) \in Call /\ Shape(At(c, s))
  <2> HIDE DEF c
  <2>1. s \in PCs /\ "idle" \in PCs
    BY PCSets
  <2>2. At(c, s) \in Call
    BY <1>1, <1>2, <2>1 DEF Call
  <2>3. /\ At(c, s).op = op /\ At(c, s).sku = k
        /\ At(c, s).pc = s /\ At(c, s).next = "idle"
    BY <1>1, <1>2 DEF Call
  <2>4. QED
    BY <2>2, <2>3 DEF Shape, OrderOps, OrderPCs
<1>4. /\ [At(c, s) EXCEPT !.amount = n] \in Call
      /\ Shape([At(c, s) EXCEPT !.amount = n])
  BY <1>3, AmountShape
<1>5. QED
  BY <1>4, GotoShape DEF TypeOK

\* What clients ask for.
LEMMA RequestShape ==
  ASSUME TypeOK, CallShape, NEW p \in Slots, Request(p)
  PROVE  TypeOK' /\ CallShape'
<1>. USE DEF table, queue
<1>1. ASSUME NEW o \in Orders, CreateOrder(p, o)
      PROVE  TypeOK' /\ CallShape'
  <2> DEFINE c == NewCall("create", o, SkuOf[o])
  <2>1. SkuOf[o] \in Skus
    BY HybridAssumption DEF HybridAssumption
  <2>2. c \in Call /\ Shape(c)
    BY <2>1, NewCallShape DEF Ops
  <2>3. c.op = "create" /\ c.sku \in Skus
    BY <2>1 DEF NewCall, Idle
  <2>4. Locking(c, "reserveRead") \in Call /\ Shape(Locking(c, "reserveRead"))
    BY <2>2, <2>3, LockingShape DEF Reads, OrderOps
  <2>5. call' \in [Slots -> Call] /\ CallShape'
    BY <1>1, <2>4, GotoShape DEF CreateOrder, TypeOK
  <2>6. QED
    BY <1>1, <2>5 DEF CreateOrder, TypeOK, Status
<1>2. ASSUME NEW o \in Orders, RetryOrder(p, o)
      PROVE  TypeOK' /\ CallShape'
  <2> DEFINE n == NewCall("retry", o, SkuOf[o])
             c == [n EXCEPT !.id = retries[o] + 1]
             s == IF status[o] = "FAILED" THEN "reset" ELSE "enqueue"
  <2>1. SkuOf[o] \in Skus
    BY HybridAssumption DEF HybridAssumption
  <2>2. n \in Call /\ Shape(n)
    BY <2>1, NewCallShape DEF Ops
  <2>3. n.op = "retry" /\ n.sku = SkuOf[o] /\ n.order = o
        /\ n.pc = "idle" /\ n.next = "idle"
    BY DEF NewCall, Idle
  <2>4. retries[o] + 1 \in Nat
    BY DEF TypeOK
  <2>5. c \in Call
    <3> HIDE DEF n
    <3>1. QED
      BY <2>2, <2>4 DEF Call
  <2>6. /\ c.op = "retry" /\ c.sku = SkuOf[o] /\ c.order = o
        /\ c.next = "idle" /\ c.pc = "idle"
    <3> HIDE DEF n
    <3>1. QED
      BY <2>2, <2>3 DEF Call
  <2>7. At(c, s) = [c EXCEPT !.pc = s, !.next = "idle"]
    BY DEF At
  <2>8. At(c, s) \in Call
    <3> HIDE DEF c
    <3>1. s \in PCs /\ "idle" \in PCs
      BY PCSets DEF OrderPCs
    <3>2. QED
      BY <2>5, <2>7, <3>1 DEF Call
  <2>9. Shape(At(c, s))
    <3> HIDE DEF c
    <3>1. /\ At(c, s).op = "retry" /\ At(c, s).sku = SkuOf[o]
          /\ At(c, s).order = o /\ At(c, s).pc = s /\ At(c, s).next = "idle"
      BY <2>5, <2>6, <2>7 DEF Call
    <3>2. QED
      BY <2>1, <3>1 DEF Shape, OrderOps, OrderPCs
  <2>10. call' \in [Slots -> Call] /\ CallShape'
    BY <1>2, <2>8, <2>9, GotoShape DEF RetryOrder, TypeOK
  <2>11. QED
    BY <1>2, <2>10, <2>4, SpendShape DEF RetryOrder, TypeOK, Limits
<1>3. ASSUME NEW k \in Skus, NEW d \in Deltas, StartAdjust(p, k, d)
      PROVE  TypeOK' /\ CallShape'
  <2> DEFINE c == NewCall("adjust", None, k)
  <2>1. c \in Call /\ Shape(c) /\ c.sku = k
    BY NewCallShape DEF Ops, OrderOps, NewCall, Idle
  <2>2. Locking(c, "adjustRead") \in Call /\ Shape(Locking(c, "adjustRead"))
    BY <2>1, LockingShape DEF Reads, OrderPCs
  <2>3. d \in Int
    BY HybridAssumption DEF HybridAssumption
  <2>4. call' \in [Slots -> Call] /\ CallShape'
    <3>1. /\ [Locking(c, "adjustRead") EXCEPT !.amount = d] \in Call
          /\ Shape([Locking(c, "adjustRead") EXCEPT !.amount = d])
      BY <2>2, <2>3, AmountShape
    <3>2. Goto(p, [Locking(c, "adjustRead") EXCEPT !.amount = d])
      BY <1>3 DEF StartAdjust
    <3>3. QED
      BY <3>1, <3>2, GotoShape DEF TypeOK
  <2>5. QED
    BY <1>3, <2>4, SpendShape DEF StartAdjust, TypeOK, Limits
<1>4. ASSUME NEW k \in Skus, NEW n \in Quantities, StartWebhook(p, k, n)
      PROVE  TypeOK' /\ CallShape'
  <2>1. n \in Int
    BY HybridAssumption DEF HybridAssumption
  <2>2. Goto(p, [At(NewCall("webhook", None, k), "webhookSet")
                   EXCEPT !.amount = n])
    BY <1>4 DEF StartWebhook
  <2>3. call' \in [Slots -> Call] /\ CallShape'
    BY <2>1, <2>2, StockRequestShape
  <2>4. QED
    BY <1>4, <2>3, SpendShape DEF StartWebhook, TypeOK, Limits
<1>5. ASSUME NEW k \in Skus, NEW n \in Quantities, StartSale(p, k, n)
      PROVE  TypeOK' /\ CallShape'
  <2>1. n \in Int
    BY HybridAssumption DEF HybridAssumption
  <2>2. Goto(p, [At(NewCall("sale", None, k), "saleRead") EXCEPT !.amount = n])
    BY <1>5 DEF StartSale
  <2>3. call' \in [Slots -> Call] /\ CallShape'
    BY <2>1, <2>2, StockRequestShape
  <2>4. QED
    BY <1>5, <2>3, SpendShape DEF StartSale, TypeOK, Limits
<1>6. QED
  BY <1>1, <1>2, <1>3, <1>4, <1>5 DEF Request

\* A worker takes a job.
LEMMA TakeJobShape ==
  ASSUME TypeOK, CallShape, NEW p \in Slots, NEW j \in waiting, TakeJob(p, j)
  PROVE  TypeOK' /\ CallShape'
<1> DEFINE o == j.order
           n == NewCall("job", o, SkuOf[o])
           c == [n EXCEPT !.id = j.id, !.made = j.made, !.stalls = j.stalls]
<1>1. o \in Orders /\ j.id \in Nat /\ j.made \in Nat /\ j.stalls \in Nat
  BY DEF TypeOK, Job
<1>2. SkuOf[o] \in Skus
  BY <1>1, HybridAssumption DEF HybridAssumption
<1>3. n \in Call /\ n.op = "job" /\ n.sku = SkuOf[o] /\ n.order = o
  BY <1>1, <1>2, NewCallShape DEF Ops, NewCall, Idle
<1>4. /\ c \in Call /\ c.op = "job" /\ c.sku = SkuOf[o] /\ c.order = o
  <2> HIDE DEF n
  <2>1. QED
    BY <1>1, <1>3 DEF Call
<1>5. /\ At(c, "push") \in Call /\ Shape(At(c, "push"))
      /\ Locking(c, "confirmRead") \in Call
      /\ Shape(Locking(c, "confirmRead"))
  <2> HIDE DEF c
  <2>1. {"push", "confirmRead", "acquire", "idle"} \subseteq PCs
    BY PCSets DEF OrderPCs
  <2>2. /\ At(c, "push") = [c EXCEPT !.pc = "push", !.next = "idle"]
        /\ Locking(c, "confirmRead")
              = [c EXCEPT !.pc = "acquire", !.next = "confirmRead"]
    BY DEF At, Locking
  <2>3. At(c, "push") \in Call /\ Locking(c, "confirmRead") \in Call
    BY <1>4, <2>1, <2>2 DEF Call
  <2>4. /\ At(c, "push").op = "job" /\ At(c, "push").order = o
        /\ At(c, "push").sku = SkuOf[o]
        /\ At(c, "push").pc = "push" /\ At(c, "push").next = "idle"
    BY <1>4, <2>2 DEF Call
  <2>5. LET l == Locking(c, "confirmRead") IN
        /\ l.op = "job" /\ l.order = o /\ l.sku = SkuOf[o]
        /\ l.pc = "acquire" /\ l.next = "confirmRead"
    BY <1>4, <2>2 DEF Call
  <2>6. Shape(At(c, "push"))
    BY <1>1, <1>2, <2>4 DEF Shape, OrderOps, OrderPCs
  <2>7. Shape(Locking(c, "confirmRead"))
    BY <1>1, <1>2, <2>5 DEF Shape, OrderOps, OrderPCs, Reads
  <2>8. QED
    BY <2>3, <2>6, <2>7
<1>6. \/ Goto(p, Locking(c, "confirmRead"))
      \/ Goto(p, Idle)
      \/ Goto(p, At(c, "push"))
  BY DEF TakeJob
<1>7. call' \in [Slots -> Call] /\ CallShape'
  <2> HIDE DEF c
  <2>1. QED
    BY <1>5, <1>6, IdleShape, GotoShape DEF TypeOK
<1>8. QED
  BY <1>7 DEF TakeJob, TypeOK, table

\* Failures and the steps of no slot.
LEMMA FaultShape ==
  ASSUME TypeOK, CallShape, NEW p \in Slots, Fault(p)
  PROVE  TypeOK' /\ CallShape'
<1>1. call' \in [Slots -> Call] /\ CallShape'
  <2>1. \/ Goto(p, Unlocking(call[p], "throw"))
        \/ Goto(p, At(call[p], "throw"))
    BY DEF Fault
  <2>2. call[p].pc # "idle"
    BY DEF Fault
  <2>3. QED
    BY <2>1, <2>2, StepAt, StepUnlocking, PCSets DEF Resumes
<1>2. lock' \in [Skus -> Slots \cup {"free", "orphan"}]
  BY DEF Fault, TypeOK
<1>3. budget' \in [Limits -> Nat]
  BY SpendShape DEF Fault, TypeOK, Limits
<1>4. QED
  BY <1>1, <1>2, <1>3 DEF Fault, TypeOK, table, queue

LEMMA CrashShape ==
  ASSUME TypeOK, CallShape, NEW p \in Slots, Crash(p)
  PROVE  TypeOK' /\ CallShape'
<1>1. call' \in [Slots -> Call] /\ CallShape'
  BY StepIdle DEF Crash
<1>2. lock' \in [Skus -> Slots \cup {"free", "orphan"}]
  BY DEF Crash, TypeOK
<1>3. budget' \in [Limits -> Nat]
  BY SpendShape DEF Crash, TypeOK, Limits
<1>4. waiting' \in SUBSET Job
  BY OrderJob DEF Crash, TypeOK, OrderOps
<1>5. stranded' \in SUBSET Orders
  BY BehindOrder DEF Crash, TypeOK
<1>6. QED
  BY <1>1, <1>2, <1>3, <1>4, <1>5 DEF Crash, TypeOK, table

LEMMA RowShape ==
  ASSUME TypeOK, CallShape, NEW k \in Skus,
         CreateProduct(k) \/ OrphanExpires(k) \/ HeldExpires(k)
  PROVE  TypeOK' /\ CallShape'
BY DEF CreateProduct, OrphanExpires, HeldExpires, TypeOK, CallShape, Shape,
       table, queue

LEMMA StepShape == TypeOK /\ CallShape /\ [Next]_vars => TypeOK' /\ CallShape'
<1> SUFFICES ASSUME TypeOK, CallShape, [Next]_vars
             PROVE  TypeOK' /\ CallShape'
  OBVIOUS
<1>1. CASE UNCHANGED vars
  BY <1>1 DEF vars, table, queue, TypeOK, CallShape, Shape
<1>2. ASSUME NEW p \in Slots, Work(p) \/ Request(p) \/ Fault(p) \/ Crash(p)
      PROVE  TypeOK' /\ CallShape'
  BY <1>2, WorkShape, RequestShape, FaultShape, CrashShape
<1>3. ASSUME NEW p \in Slots, NEW j \in waiting, TakeJob(p, j)
      PROVE  TypeOK' /\ CallShape'
  BY <1>3, TakeJobShape
<1>4. QED
  BY <1>1, <1>2, <1>3, RowShape DEF Next

\* Every reachable state is well-typed: no handler forgets to set a part of a
\* call that a later statement of it reads.
THEOREM TypeCorrect == Spec => []TypeOK
<1>1. Init => TypeOK /\ CallShape
  BY InitShape
<1>2. TypeOK /\ CallShape /\ [Next]_vars => TypeOK' /\ CallShape'
  BY StepShape
<1>3. QED
  BY <1>1, <1>2, PTL DEF Spec

-----------------------------------------------------------------------------
(* The stock rows, one step per action.                                    *)

\* The frame of a step of slot p: another slot inside its critical section
\* finds its lock and its row as it left them.
LEMMA OthersKeep ==
  ASSUME IInv, NEW p \in Slots, NEW q \in Slots \ {p}, call'[q] = call[q],
         \A k \in Skus : lock[k] = q => /\ lock'[k] = lock[k]
                                       /\ physical'[k] = physical[k]
                                       /\ reserved'[k] = reserved[k]
  PROVE  /\ call'[q].pc \in Critical => lock'[call'[q].sku] = q
         /\ CommitAllowed(call[q])'
<1>1. call[q].pc # "idle" => call[q].sku \in Skus
  BY DEF IInv, CallShape, Shape
<1>2. call[q].pc \in Critical
        => /\ lock[call[q].sku] = q
           /\ call[q].sku \in Skus
  BY <1>1, PCSets DEF IInv, StockSafe, LockOwned
<1>3. call[q].pc \in Critical
        => /\ lock'[call[q].sku] = q
           /\ physical'[call[q].sku] = physical[call[q].sku]
           /\ reserved'[call[q].sku] = reserved[call[q].sku]
  BY <1>2
<1>4. CommitAllowed(call[q])
  BY DEF IInv, StockSafe, CommitsAllowed
<1>5. QED
  BY <1>3, <1>4 DEF CommitAllowed, Critical, Commits

\* Every step of slot p: the others are framed, p itself is inside its critical
\* section with a commit that is allowed, and the rows stay sound.
LEMMA SlotStep ==
  ASSUME IInv, NEW p \in Slots, NEW c \in Call, Goto(p, c),
         \A k \in Skus : lock[k] \in Slots \ {p}
            => /\ lock'[k] = lock[k]
               /\ physical'[k] = physical[k]
               /\ reserved'[k] = reserved[k],
         c.pc \in Critical => lock'[c.sku] = p,
         CommitAllowed(c)',
         NoOverselling'
  PROVE  StockSafe'
<1>1. call' = [call EXCEPT ![p] = c] /\ call \in [Slots -> Call]
  BY DEF Goto, IInv, TypeOK
<1>2. call'[p] = c
  BY <1>1
<1>3. \A q \in Slots \ {p} : call'[q] = call[q]
  BY <1>1
<1>4. ASSUME NEW q \in Slots
      PROVE  /\ call'[q].pc \in Critical => lock'[call'[q].sku] = q
             /\ CommitAllowed(call[q])'
  <2>1. CASE q = p
    BY <1>2, <2>1 DEF CommitAllowed
  <2>2. CASE q # p
    BY <1>3, <2>2, OthersKeep
  <2>3. QED
    BY <2>1, <2>2
<1>5. LockOwned'
  BY <1>4 DEF LockOwned
<1>6. CommitsAllowed'
  BY <1>4 DEF CommitsAllowed
<1>7. QED
  BY <1>5, <1>6 DEF StockSafe

\* A step that leaves stock and lock alone and ends outside the lock's work.
LEMMA QuietStep ==
  ASSUME IInv, NEW p \in Slots, NEW c \in Call, Goto(p, c),
         UNCHANGED <<physical, reserved>>,
         \A k \in Skus : lock[k] \in Slots \ {p} => lock'[k] = lock[k],
         c.pc \notin Critical,
         c.pc = "webhookSet" \/ c.next = "webhookRead" => c.amount >= 0
  PROVE  StockSafe'
<1>1. CommitAllowed(c)'
  BY DEF CommitAllowed, Critical, Reads, Commits
<1>2. NoOverselling'
  BY DEF IInv, StockSafe, NoOverselling
<1>3. QED
  BY <1>1, <1>2, SlotStep

\* What a call looks like at its next statement.
LEMMA AtFields ==
  ASSUME NEW c \in Call, NEW s \in PCs
  PROVE  /\ At(c, s).pc = s
         /\ At(c, s).next = "idle"
         /\ s # "idle" => /\ At(c, s).op = c.op
                          /\ At(c, s).order = c.order
                          /\ At(c, s).sku = c.sku
                          /\ At(c, s).amount = c.amount
BY DEF At, Idle, Call

LEMMA UnlockingFields ==
  ASSUME NEW c \in Call, NEW s
  PROVE  /\ Unlocking(c, s).pc = "unlock"
         /\ Unlocking(c, s).next = s
BY DEF Unlocking, Call

LEMMA LockingFields ==
  ASSUME NEW c \in Call, NEW s
  PROVE  /\ Locking(c, s).pc = "acquire"
         /\ Locking(c, s).next = s
         /\ Locking(c, s).amount = c.amount
BY DEF Locking, Call

LEMMA AmountFields ==
  ASSUME NEW c \in Call, NEW n \in Int
  PROVE  /\ [c EXCEPT !.amount = n].pc = c.pc
         /\ [c EXCEPT !.amount = n].next = c.next
         /\ [c EXCEPT !.amount = n].op = c.op
         /\ [c EXCEPT !.amount = n].order = c.order
         /\ [c EXCEPT !.amount = n].sku = c.sku
         /\ [c EXCEPT !.amount = n].amount = n
BY DEF Call

LEMMA OutsidePCs ==
  /\ Resumes \cap Critical = {}
  /\ "webhookRead" \notin Resumes
  /\ "webhookSet" \notin Resumes
  /\ Outside \cap Critical = {}
  /\ Outside \subseteq PCs
  /\ {"idle", "acquire", "unlock"} \cap Critical = {}
BY DEF PCs, Resumes, Outside, Critical, Reads, Commits

\* The call goes on at s, outside the lock.
LEMMA QuietAt ==
  ASSUME IInv, NEW p \in Slots, NEW s \in Outside, s # "webhookSet",
         Goto(p, At(call[p], s)), UNCHANGED <<physical, reserved>>,
         \A k \in Skus : lock[k] \in Slots \ {p} => lock'[k] = lock[k],
         TypeOK'
  PROVE  StockSafe'
<1> DEFINE c == At(call[p], s)
<1>1. call \in [Slots -> Call] /\ call' \in [Slots -> Call]
  BY DEF IInv, TypeOK
<1>2. c \in Call
  BY <1>1 DEF Goto
<1>3. c.pc = s /\ c.next = "idle"
  BY <1>1, AtFields, OutsidePCs
<1>4. QED
  <2> HIDE DEF c
  <2>1. Goto(p, c)
    BY DEF c
  <2>2. QED
    BY <1>2, <1>3, <2>1, OutsidePCs, QuietStep

LEMMA QuietUnlocking ==
  ASSUME IInv, NEW p \in Slots, NEW s \in Resumes,
         Goto(p, Unlocking(call[p], s)),
         UNCHANGED <<physical, reserved, lock>>,
         TypeOK'
  PROVE  StockSafe'
<1> DEFINE c == Unlocking(call[p], s)
<1>1. call \in [Slots -> Call] /\ call' \in [Slots -> Call]
  BY DEF IInv, TypeOK
<1>2. c \in Call
  BY <1>1 DEF Goto
<1>3. c.pc = "unlock" /\ c.next = s
  BY <1>1, UnlockingFields
<1>4. QED
  <2> HIDE DEF c
  <2>1. Goto(p, c)
    BY DEF c
  <2>2. QED
    BY <1>2, <1>3, <2>1, OutsidePCs, QuietStep

LEMMA QuietLocking ==
  ASSUME IInv, NEW p \in Slots, NEW s \in Reads,
         Goto(p, Locking(call[p], s)),
         s = "webhookRead" => call[p].amount >= 0,
         UNCHANGED <<physical, reserved, lock>>,
         TypeOK'
  PROVE  StockSafe'
<1> DEFINE c == Locking(call[p], s)
<1>1. call \in [Slots -> Call] /\ call' \in [Slots -> Call]
  BY DEF IInv, TypeOK
<1>2. c \in Call
  BY <1>1 DEF Goto
<1>3. c.pc = "acquire" /\ c.next = s /\ c.amount = call[p].amount
  BY <1>1, LockingFields
<1>4. QED
  <2> HIDE DEF c
  <2>1. Goto(p, c)
    BY DEF c
  <2>2. QED
    BY <1>2, <1>3, <2>1, OutsidePCs, QuietStep

LEMMA QuietIdle ==
  ASSUME IInv, NEW p \in Slots, Goto(p, Idle),
         UNCHANGED <<physical, reserved>>,
         \A k \in Skus : lock[k] \in Slots \ {p} => lock'[k] = lock[k]
  PROVE  StockSafe'
<1>1. Idle.pc = "idle" /\ Idle.next = "idle"
  BY DEF Idle
<1>2. QED
  BY <1>1, IdleShape, OutsidePCs, QuietStep


\* A call gets the lock and goes on with the read of its row.
LEMMA EnterRead ==
  ASSUME IInv, NEW p \in Slots, NEW c \in Call, Goto(p, c),
         UNCHANGED <<physical, reserved>>,
         \A k \in Skus : lock[k] \in Slots \ {p} => lock'[k] = lock[k],
         lock'[c.sku] = p, c.pc \in Reads, c.next = "idle",
         c.pc = "webhookRead" => c.amount >= 0
  PROVE  StockSafe'
<1>1. CommitAllowed(c)'
  BY DEF CommitAllowed, Reads
<1>2. NoOverselling'
  BY DEF IInv, StockSafe, NoOverselling
<1>3. QED
  BY <1>1, <1>2, SlotStep

\* The read of a critical section that goes on to its commit: the caller has
\* checked that the commit is allowed, and the lock keeps it so.
LEMMA EnterCommit ==
  ASSUME IInv, NEW p \in Slots, NEW c \in Call, Goto(p, c),
         UNCHANGED <<physical, reserved, lock>>,
         call[p].pc \in Critical, c.sku = call[p].sku, c.next # "webhookRead",
         c.pc \in Commits, CommitAllowed(c)
  PROVE  StockSafe'
<1>1. lock[c.sku] = p
  BY DEF IInv, StockSafe, LockOwned
<1>2. CommitAllowed(c)'
  BY DEF CommitAllowed
<1>3. NoOverselling'
  BY DEF IInv, StockSafe, NoOverselling
<1>4. QED
  BY <1>1, <1>2, <1>3, SlotStep

\* A commit writes the row whose lock the call owns, and leaves it sound.
LEMMA CommitStep ==
  ASSUME IInv, NEW p \in Slots, NEW s \in Resumes, NEW c \in Call, Goto(p, c),
         c.pc = "unlock", c.next = s, UNCHANGED lock,
         call[p].pc \in Critical,
         \A k \in Skus \ {call[p].sku} : /\ physical'[k] = physical[k]
                                        /\ reserved'[k] = reserved[k],
         0 <= reserved'[call[p].sku],
         reserved'[call[p].sku] <= physical'[call[p].sku]
  PROVE  StockSafe'
<1>1. lock[call[p].sku] = p
  BY DEF IInv, StockSafe, LockOwned
<1>2. c.pc \notin Critical /\ c.next # "webhookRead"
  BY OutsidePCs
<1>3. CommitAllowed(c)'
  BY <1>2 DEF CommitAllowed, Critical, Commits, Reads
<1>4. NoOverselling'
  <2> SUFFICES ASSUME NEW k \in Skus
               PROVE  (0 <= reserved[k] /\ reserved[k] <= physical[k])'
    BY DEF NoOverselling
  <2>1. CASE k = call[p].sku
    BY <2>1
  <2>2. CASE k # call[p].sku
    BY <2>2 DEF IInv, StockSafe, NoOverselling
  <2>3. QED
    BY <2>1, <2>2
<1>5. \A k \in Skus : lock[k] \in Slots \ {p} => k # call[p].sku
  BY <1>1
<1>6. QED
  BY <1>2, <1>3, <1>4, <1>5, SlotStep

LEMMA CommitUnlocking ==
  ASSUME IInv, TypeOK', NEW p \in Slots, NEW s \in Resumes,
         Goto(p, Unlocking(call[p], s)), UNCHANGED lock,
         call[p].pc \in Critical,
         \A k \in Skus \ {call[p].sku} : /\ physical'[k] = physical[k]
                                        /\ reserved'[k] = reserved[k],
         0 <= reserved'[call[p].sku],
         reserved'[call[p].sku] <= physical'[call[p].sku]
  PROVE  StockSafe'
<1> DEFINE c == Unlocking(call[p], s)
<1>1. call \in [Slots -> Call] /\ call' \in [Slots -> Call]
  BY DEF IInv, TypeOK
<1>2. c \in Call
  BY <1>1 DEF Goto
<1>3. c.pc = "unlock" /\ c.next = s
  BY <1>1, UnlockingFields
<1>4. Goto(p, c)
  OBVIOUS
<1>5. QED
  <2> HIDE DEF c
  <2>1. QED
    BY <1>2, <1>3, <1>4, CommitStep

LEMMA CallFacts ==
  ASSUME IInv, NEW p \in Slots
  PROVE  /\ call[p] \in Call /\ Shape(call[p]) /\ CommitAllowed(call[p])
         /\ call[p].amount \in Int
         /\ call[p].pc # "idle" => /\ call[p].sku \in Skus
                                  /\ physical[call[p].sku] \in Int
                                  /\ reserved[call[p].sku] \in Int
                                  /\ 0 <= reserved[call[p].sku]
                                  /\ reserved[call[p].sku] <= physical[call[p].sku]
<1>1. call[p] \in Call /\ Shape(call[p]) /\ CommitAllowed(call[p])
  BY DEF IInv, TypeOK, CallShape, StockSafe, CommitsAllowed
<1>2. call[p].pc # "idle" => call[p].sku \in Skus
  BY <1>1 DEF Shape
<1>3. call[p].amount \in Int
  BY <1>1 DEF Call
<1>4. QED
  BY <1>1, <1>2, <1>3 DEF IInv, TypeOK, StockSafe, NoOverselling

\* The call goes on at s, outside the lock, with the amount n in hand.
LEMMA QuietAmount ==
  ASSUME IInv, TypeOK', NEW p \in Slots, NEW s \in Outside, NEW n \in Int,
         s # "idle", s = "webhookSet" => n >= 0,
         Goto(p, [At(call[p], s) EXCEPT !.amount = n]),
         UNCHANGED <<physical, reserved, lock>>
  PROVE  StockSafe'
<1> DEFINE c == At(call[p], s)
           d == [c EXCEPT !.amount = n]
<1>1. call[p] \in Call /\ s \in PCs
  BY OutsidePCs DEF IInv, TypeOK
<1>2. c.pc = s /\ c.next = "idle"
  BY <1>1, AtFields
<1>3. c \in Call
  BY <1>1, PCSets DEF At, Call
<1>4. d.pc = s /\ d.next = "idle" /\ d.amount = n /\ d \in Call
  <2> HIDE DEF c
  <2>1. QED
    BY <1>2, <1>3, AmountFields DEF Call
<1>5. Goto(p, d)
  OBVIOUS
<1>6. QED
  <2> HIDE DEF d
  <2>1. QED
    BY <1>4, <1>5, OutsidePCs, QuietStep

\* A stock call has read the row and goes on to write n.
LEMMA EnterAmount ==
  ASSUME IInv, TypeOK', NEW p \in Slots, NEW n \in Int,
         NEW s \in {"adjustCommit", "webhookCommit"},
         call[p].pc \in {"adjustRead", "webhookRead"},
         reserved[call[p].sku] <= n,
         Goto(p, [At(call[p], s) EXCEPT !.amount = n]),
         UNCHANGED <<physical, reserved, lock>>
  PROVE  StockSafe'
<1> DEFINE c == At(call[p], s)
           d == [c EXCEPT !.amount = n]
<1>1. call[p] \in Call /\ s \in PCs /\ s # "idle"
  BY DEF IInv, TypeOK, PCs, Critical, Commits
<1>2. c.pc = s /\ c.next = "idle" /\ c.sku = call[p].sku
  BY <1>1, AtFields
<1>3. c \in Call
  BY <1>1, PCSets DEF At, Call
<1>4. /\ d.pc = s /\ d.next = "idle" /\ d.amount = n
      /\ d.sku = call[p].sku /\ d \in Call
  <2> HIDE DEF c
  <2>1. QED
    BY <1>2, <1>3, AmountFields DEF Call
<1>5. Goto(p, d)
  OBVIOUS
<1>6. QED
  <2> HIDE DEF d
  <2>1. CommitAllowed(d) /\ d.pc \in Commits /\ call[p].pc \in Critical
    BY <1>4 DEF CommitAllowed, Commits, Critical, Reads
  <2>2. QED
    BY <1>4, <1>5, <2>1, EnterCommit

\* Every step of a running call keeps the rows sound.
LEMMA WorkStock ==
  ASSUME IInv, TypeOK', NEW p \in Slots, Work(p)
  PROVE  StockSafe'
<1> DEFINE c == call[p]
           k == c.sku
<1>0. /\ c \in Call /\ Shape(c) /\ CommitAllowed(c)
      /\ c.amount \in Int
      /\ c.pc # "idle" => /\ k \in Skus
                         /\ physical[k] \in Int
                         /\ reserved[k] \in Int
                         /\ 0 <= reserved[k]
                         /\ reserved[k] <= physical[k]
  BY CallFacts
<1>. USE DEF table, queue
<1>1. CASE Acquire(p)
  <2> DEFINE d == At(c, c.next)
  <2>1. c.next \in Reads /\ c.pc = "acquire"
    BY <1>0, <1>1 DEF Acquire, Shape
  <2>2. d.pc = c.next /\ d.next = "idle" /\ d.sku = k /\ d.amount = c.amount
    BY <1>0, <2>1, AtFields, PCSets DEF Critical, Reads
  <2>3. d \in Call
    <3>1. call \in [Slots -> Call] /\ call' \in [Slots -> Call]
      BY DEF IInv, TypeOK
    <3>2. QED
      BY <1>1, <3>1 DEF Acquire, Goto
  <2>4. lock'[k] = p /\ lock[k] = "free"
    BY <1>0, <1>1, <2>1 DEF Acquire, IInv, TypeOK
  <2>5. \A j \in Skus : lock[j] \in Slots \ {p} => lock'[j] = lock[j]
    BY <1>1, <2>4, HybridAssumption DEF Acquire, IInv, TypeOK, HybridAssumption
  <2>6. d.pc = "webhookRead" => d.amount >= 0
    BY <1>0, <2>1, <2>2 DEF CommitAllowed
  <2>7. Goto(p, d) /\ UNCHANGED <<physical, reserved>>
    BY <1>1 DEF Acquire
  <2>8. QED
    <3> HIDE DEF d
    <3>1. QED
      BY <2>1, <2>2, <2>3, <2>4, <2>5, <2>6, <2>7, EnterRead
<1>2. CASE LockBusy(p)
  BY <1>2, QuietAt DEF LockBusy, Outside
<1>3. CASE Release(p)
  <2>1. c.next \in Resumes
    BY <1>0, <1>3 DEF Release, Shape
  <2>2. c.next \in Outside /\ c.next # "webhookSet"
    BY <2>1 DEF Resumes, Outside
  <2>3. \A j \in Skus : lock[j] \in Slots \ {p} => lock'[j] = lock[j]
    BY <1>0, <1>3 DEF Release, IInv, TypeOK
  <2>4. QED
    BY <1>3, <2>2, <2>3, QuietAt DEF Release
<1>4. CASE ReserveRead(p)
  <2>1. CASE Goto(p, Unlocking(c, "enqueue")) \/ Goto(p, Unlocking(c, "throw"))
    BY <1>4, <2>1, QuietUnlocking DEF ReserveRead, Resumes
  <2>2. CASE /\ Sellable(k) >= Qty[c.order]
             /\ Goto(p, At(c, "reserveCommit"))
    <3> DEFINE d == At(c, "reserveCommit")
    <3>1. /\ d.pc = "reserveCommit" /\ d.next = "idle" /\ d.sku = k
          /\ d.order = c.order /\ d \in Call
      BY <1>0, AtFields, <1>4, <2>2 DEF PCs, Critical, Commits, Goto, IInv, TypeOK
    <3>2. Qty[c.order] \in Nat
      BY <1>0, <1>4, OrderCall DEF ReserveRead, Shape, OrderPCs, IInv
    <3>3. reserved[k] + Qty[c.order] <= physical[k]
      BY <1>0, <1>4, <2>2, <3>2 DEF ReserveRead, Sellable
    <3>4. QED
      <4>1. Goto(p, d) /\ UNCHANGED <<physical, reserved, lock>>
            /\ c.pc \in Critical
        BY <1>4, <2>2 DEF ReserveRead, Critical, Reads
      <4> HIDE DEF d
      <4>2. CommitAllowed(d) /\ d.pc \in Commits
        BY <3>1, <3>3 DEF CommitAllowed, Commits
      <4>3. QED
        BY <3>1, <4>1, <4>2, EnterCommit
  <2>3. QED
    BY <1>4, <2>1, <2>2 DEF ReserveRead
<1>5. CASE ReserveCommit(p)
  <2>1. Qty[c.order] \in Nat /\ c.pc \in Critical
    BY <1>0, <1>5, OrderCall
       DEF ReserveCommit, Shape, OrderPCs, IInv, Critical, Commits
  <2>2. reserved[k] + Qty[c.order] <= physical[k]
    BY <1>0, <1>5 DEF ReserveCommit, CommitAllowed
  <2>3. /\ reserved'[k] = reserved[k] + Qty[c.order]
        /\ physical' = physical
        /\ \A j \in Skus \ {k} : reserved'[j] = reserved[j]
    BY <1>0, <1>5 DEF ReserveCommit, IInv, TypeOK
  <2>4. QED
    BY <1>0, <1>5, <2>1, <2>2, <2>3, CommitUnlocking
       DEF ReserveCommit, Resumes
<1>6. CASE ConfirmRead(p)
  <2>1. CASE Goto(p, Unlocking(c, "throw"))
    BY <1>6, <2>1, QuietUnlocking DEF ConfirmRead, Resumes
  <2>2. CASE /\ reserved[k] >= Qty[c.order]
             /\ physical[k] >= Qty[c.order]
             /\ Goto(p, At(c, "confirmCommit"))
    <3> DEFINE d == At(c, "confirmCommit")
    <3>1. /\ d.pc = "confirmCommit" /\ d.next = "idle" /\ d.sku = k
          /\ d.order = c.order /\ d \in Call
      BY <1>0, AtFields, <1>6, <2>2 DEF PCs, Critical, Commits, Goto, IInv, TypeOK
    <3>2. Qty[c.order] \in Nat
      BY <1>0, <1>6, OrderCall DEF ConfirmRead, Shape, OrderPCs, IInv
    <3>3. Qty[c.order] <= reserved[k] /\ Qty[c.order] <= physical[k]
      BY <1>0, <1>6, <2>2, <3>2 DEF ConfirmRead
    <3>4. QED
      <4>1. Goto(p, d) /\ UNCHANGED <<physical, reserved, lock>>
            /\ c.pc \in Critical
        BY <1>6, <2>2 DEF ConfirmRead, Critical, Reads
      <4> HIDE DEF d
      <4>2. CommitAllowed(d) /\ d.pc \in Commits
        BY <3>1, <3>3 DEF CommitAllowed, Commits
      <4>3. QED
        BY <3>1, <4>1, <4>2, EnterCommit
  <2>3. QED
    BY <1>6, <2>1, <2>2 DEF ConfirmRead
<1>7. CASE ConfirmCommit(p)
  <2>1. Qty[c.order] \in Nat /\ c.pc \in Critical
    BY <1>0, <1>7, OrderCall
       DEF ConfirmCommit, Shape, OrderPCs, IInv, Critical, Commits
  <2>2. Qty[c.order] <= reserved[k]
    BY <1>0, <1>7 DEF ConfirmCommit, CommitAllowed
  <2>3. /\ reserved'[k] = reserved[k] - Qty[c.order]
        /\ physical'[k] = physical[k] - Qty[c.order]
        /\ \A j \in Skus \ {k} : /\ physical'[j] = physical[j]
                                 /\ reserved'[j] = reserved[j]
    BY <1>0, <1>7 DEF ConfirmCommit, IInv, TypeOK
  <2>4. 0 <= reserved'[k] /\ reserved'[k] <= physical'[k]
    BY <1>0, <1>7, <2>1, <2>2, <2>3 DEF ConfirmCommit
  <2>5. QED
    BY <1>7, <2>1, <2>3, <2>4, CommitUnlocking DEF ConfirmCommit, Resumes
<1>8. CASE ReleaseRead(p)
  <2> DEFINE s == IF status[c.order] = "RESERVED"
                  THEN "releaseCommit" ELSE "failCommit"
             d == At(c, s)
  <2>1. Goto(p, d) /\ UNCHANGED <<physical, reserved, lock>>
        /\ c.pc \in Critical
    BY <1>8 DEF ReleaseRead, Critical, Reads
  <2>2. d \in Call /\ d.pc = s /\ d.next = "idle" /\ d.sku = k
    BY <1>0, <1>8, AtFields, <2>1 DEF PCs, Critical, Commits, Goto, IInv, TypeOK
  <2>3. CommitAllowed(d) /\ d.pc \in Commits
    <3> HIDE DEF d
    <3>1. QED
      BY <2>2 DEF CommitAllowed, Commits
  <2>4. QED
    <3> HIDE DEF d
    <3>1. QED
      BY <2>1, <2>2, <2>3, EnterCommit
<1>9. CASE ReleaseCommit(p)
  <2>1. Qty[c.order] \in Nat /\ c.pc \in Critical
    BY <1>0, <1>9, OrderCall
       DEF ReleaseCommit, Shape, OrderPCs, IInv, Critical, Commits
  <2>2. /\ reserved'[k] = reserved[k] \/ reserved'[k] = AtLeastZero(reserved[k] - Qty[c.order])
        /\ physical' = physical
        /\ \A j \in Skus \ {k} : reserved'[j] = reserved[j]
    BY <1>0, <1>9 DEF ReleaseCommit, IInv, TypeOK
  <2>3. 0 <= reserved'[k] /\ reserved'[k] <= physical'[k]
    BY <1>0, <1>9, <2>1, <2>2 DEF ReleaseCommit, AtLeastZero
  <2>4. QED
    BY <1>9, <2>1, <2>2, <2>3, CommitUnlocking
       DEF ReleaseCommit, Resumes, AfterTerminal
<1>10. CASE Terminal(p)
  BY <1>10, QuietAt, QuietLocking
     DEF Terminal, AfterTerminal, Outside, Reads
<1>11. CASE MarkFailed(p)
  BY <1>11, QuietAt DEF MarkFailed, AfterTerminal, Outside
<1>12. CASE Catch(p)
  <2>1. CASE Goto(p, Idle)
    BY <1>12, <2>1, QuietIdle DEF Catch
  <2>2. CASE Goto(p, [At(Failing(c), "terminal") EXCEPT !.amount = 0])
    <3> DEFINE f == Failing(c)
               d == At(f, "terminal")
               e == [d EXCEPT !.amount = 0]
    <3>1. f \in Call /\ "terminal" \in PCs
      BY <1>0, FailingShape, OutsidePCs DEF Outside
    <3>2. d.pc = "terminal" /\ d.next = "idle"
      BY <3>1, AtFields
    <3>3. d \in Call
      <4> HIDE DEF f
      <4>1. QED
        BY <3>1, PCSets DEF At, Call
    <3>4. e.pc = "terminal" /\ e.next = "idle" /\ e \in Call
      <4> HIDE DEF d
      <4>1. QED
        BY <3>2, <3>3, AmountFields DEF Call
    <3>5. Goto(p, e) /\ UNCHANGED <<physical, reserved, lock>>
      BY <1>12, <2>2 DEF Catch
    <3>6. QED
      <4> HIDE DEF e
      <4>1. QED
        BY <3>4, <3>5, OutsidePCs, QuietStep DEF Outside
  <2>3. QED
    BY <1>12, <2>1, <2>2 DEF Catch
<1>13. CASE MoveToDlq(p)
  BY <1>13, QuietIdle DEF MoveToDlq
<1>14. CASE ResetOrder(p)
  BY <1>14, QuietLocking DEF ResetOrder, Reads
<1>15. CASE Enqueue(p)
  BY <1>15, QuietAt DEF Enqueue, Outside
<1>16. CASE QueuedAt(p)
  BY <1>16, QuietIdle DEF QueuedAt
<1>17. CASE PushOrder(p)
  BY <1>17, QuietAt DEF PushOrder, Outside
<1>18. CASE PushInsert(p)
  BY <1>18, QuietAt DEF PushInsert, Outside
<1>19. CASE SyncRead(p)
  <2>1. Sellable(k) \in Int
    BY <1>0, <1>19 DEF SyncRead, Sellable
  <2>2. /\ Goto(p, [At(c, "syncSet") EXCEPT !.amount = Sellable(k)])
        /\ UNCHANGED <<physical, reserved, lock>>
    BY <1>19 DEF SyncRead
  <2>3. QED
    BY <2>1, <2>2, QuietAmount DEF Outside
<1>20. CASE SyncSet(p)
  <2>1. UNCHANGED <<physical, reserved, lock>>
    BY <1>20 DEF SyncSet
  <2>2. CASE Goto(p, [At(c, "markSynced") EXCEPT !.amount = 0])
    BY <2>1, <2>2, QuietAmount DEF Outside
  <2>3. CASE Goto(p, Idle)
    BY <2>1, <2>3, QuietIdle
  <2>4. QED
    BY <1>20, <2>2, <2>3 DEF SyncSet
<1>21. CASE MarkSynced(p)
  BY <1>21, QuietIdle DEF MarkSynced
<1>22. CASE SaleRead(p)
  <2>1. AtLeastZero(ext[k] - c.amount) \in Int
    BY <1>0, <1>22 DEF SaleRead, IInv, TypeOK, AtLeastZero
  <2>2. QED
    BY <1>22, <2>1, QuietAmount DEF SaleRead, Outside
<1>23. CASE SaleCommit(p)
  BY <1>23, QuietIdle DEF SaleCommit
<1>24. CASE AdjustRead(p)
  <2> DEFINE n == physical[k] + c.amount
  <2>1. CASE Goto(p, Unlocking(c, "throw"))
    BY <1>24, <2>1, QuietUnlocking DEF AdjustRead, Resumes
  <2>2. CASE reserved[k] <= n /\ Goto(p, [At(c, "adjustCommit") EXCEPT !.amount = n])
    <3>1. n \in Int
      BY <1>0, <1>24 DEF AdjustRead
    <3>2. QED
      BY <1>0, <1>24, <2>2, <3>1, EnterAmount DEF AdjustRead
  <2>3. QED
    BY <1>24, <2>1, <2>2 DEF AdjustRead
<1>25. CASE AdjustCommit(p)
  <2>1. PICK s \in {"syncSet", "idle"} :
          Goto(p, [Unlocking(c, s) EXCEPT !.amount = c.amount - reserved[k]])
    BY <1>25 DEF AdjustCommit
  <2> DEFINE u == Unlocking(c, s)
             n == c.amount - reserved[k]
             d == [u EXCEPT !.amount = n]
  <2>2. s \in Resumes /\ c.pc \in Critical /\ c.pc # "idle" /\ n \in Int
    BY <1>0, <1>25 DEF AdjustCommit, Resumes, Critical, Commits
  <2>3. u \in Call
    BY <1>0, <2>2, UnlockingShape DEF Resumes, OrderPCs
  <2>4. u.pc = "unlock" /\ u.next = s
    BY <1>0, UnlockingFields
  <2>5. d \in Call /\ d.pc = "unlock" /\ d.next = s
    <3> HIDE DEF u, n
    <3>1. QED
      BY <2>2, <2>3, <2>4, AmountFields DEF Call
  <2>6. reserved[k] <= c.amount
    BY <1>0, <1>25 DEF AdjustCommit, CommitAllowed
  <2>7. /\ physical'[k] = c.amount
        /\ reserved' = reserved
        /\ \A j \in Skus \ {k} : physical'[j] = physical[j]
    BY <1>0, <1>25 DEF AdjustCommit, IInv, TypeOK
  <2>8. Goto(p, d) /\ UNCHANGED lock
    BY <1>25, <2>1 DEF AdjustCommit
  <2>9. 0 <= reserved'[k] /\ reserved'[k] <= physical'[k]
    BY <1>0, <2>2, <2>6, <2>7
  <2>10. QED
    <3> HIDE DEF d
    <3>1. QED
      BY <2>2, <2>5, <2>7, <2>8, <2>9, CommitStep
<1>26. CASE WebhookSet(p)
  BY <1>0, <1>26, QuietLocking DEF WebhookSet, Reads, CommitAllowed
<1>27. CASE WebhookRead(p)
  <2> DEFINE n == c.amount + reserved[k]
  <2>1. reserved[k] <= n /\ n \in Int
    BY <1>0, <1>27 DEF WebhookRead, CommitAllowed
  <2>2. Goto(p, [At(c, "webhookCommit") EXCEPT !.amount = n])
    BY <1>27 DEF WebhookRead
  <2>3. QED
    BY <1>0, <1>27, <2>1, <2>2, EnterAmount DEF WebhookRead
<1>28. CASE WebhookCommit(p)
  <2>1. c.pc \in Critical /\ reserved[k] <= c.amount
    BY <1>0, <1>28 DEF WebhookCommit, CommitAllowed, Critical, Commits
  <2>2. /\ physical'[k] = c.amount
        /\ reserved' = reserved
        /\ \A j \in Skus \ {k} : physical'[j] = physical[j]
    BY <1>0, <1>28 DEF WebhookCommit, IInv, TypeOK
  <2>3. 0 <= reserved'[k] /\ reserved'[k] <= physical'[k]
    BY <1>0, <1>28, <2>1, <2>2 DEF WebhookCommit
  <2>4. QED
    BY <1>28, <2>1, <2>2, <2>3, CommitUnlocking DEF WebhookCommit, Resumes
<1>29. QED
  BY <1>1, <1>2, <1>3, <1>4, <1>5, <1>6, <1>7, <1>8, <1>9, <1>10, <1>11,
     <1>12, <1>13, <1>14, <1>15, <1>16, <1>17, <1>18, <1>19, <1>20, <1>21,
     <1>22, <1>23, <1>24, <1>25, <1>26, <1>27, <1>28, Work(p) DEF Work

LEMMA NewCallFields ==
  ASSUME NEW op \in Ops, NEW o \in Orders \cup {None}, NEW k \in Skus
  PROVE  /\ NewCall(op, o, k) \in Call
         /\ NewCall(op, o, k).amount = 0
         /\ NewCall(op, o, k).pc = "idle"
         /\ NewCall(op, o, k).next = "idle"
BY IdleShape DEF NewCall, Idle, Call

\* A call that starts has no lock yet and nothing to commit.
LEMMA StartStep ==
  ASSUME IInv, TypeOK', NEW p \in Slots, NEW c, Goto(p, c),
         UNCHANGED <<physical, reserved, lock>>,
         c.pc \notin Critical,
         c.pc = "webhookSet" => c.amount >= 0,
         c.next # "webhookRead"
  PROVE  StockSafe'
<1>1. c \in Call
  BY DEF Goto, IInv, TypeOK
<1>2. QED
  BY <1>1, QuietStep

LEMMA RequestStock ==
  ASSUME IInv, TypeOK', NEW p \in Slots, Request(p)
  PROVE  StockSafe'
<1>. USE DEF table, queue
<1>1. ASSUME NEW o \in Orders, CreateOrder(p, o)
      PROVE  StockSafe'
  <2> DEFINE c == Locking(NewCall("create", o, SkuOf[o]), "reserveRead")
  <2>1. c.pc = "acquire" /\ c.next = "reserveRead"
    BY HybridAssumption, NewCallFields, LockingFields DEF HybridAssumption, Ops
  <2>2. Goto(p, c) /\ UNCHANGED <<physical, reserved, lock>>
    BY <1>1 DEF CreateOrder
  <2>3. QED
    <3> HIDE DEF c
    <3>1. QED
      BY <2>1, <2>2, StartStep, OutsidePCs
<1>2. ASSUME NEW o \in Orders, RetryOrder(p, o)
      PROVE  StockSafe'
  <2> DEFINE n == NewCall("retry", o, SkuOf[o])
             c == [n EXCEPT !.id = retries[o] + 1]
             s == IF status[o] = "FAILED" THEN "reset" ELSE "enqueue"
             d == At(c, s)
  <2>1. n \in Call
    BY HybridAssumption, NewCallFields DEF HybridAssumption, Ops
  <2>2. c \in Call
    <3> HIDE DEF n
    <3>1. retries[o] + 1 \in Nat
      BY DEF IInv, TypeOK
    <3>2. QED
      BY <2>1, <3>1 DEF Call
  <2>3. s \in {"reset", "enqueue"} /\ {"reset", "enqueue"} \subseteq Outside
    BY DEF Outside
  <2>4. d.pc = s /\ d.next = "idle"
    <3> HIDE DEF c, s
    <3>1. QED
      BY <2>2, <2>3, AtFields, OutsidePCs
  <2>5. Goto(p, d) /\ UNCHANGED <<physical, reserved, lock>>
    BY <1>2 DEF RetryOrder
  <2>6. QED
    <3> HIDE DEF d, s
    <3>1. QED
      BY <2>3, <2>4, <2>5, StartStep, OutsidePCs
<1>3. ASSUME NEW k \in Skus, NEW d \in Deltas, StartAdjust(p, k, d)
      PROVE  StockSafe'
  <2> DEFINE n == NewCall("adjust", None, k)
             l == Locking(n, "adjustRead")
             c == [l EXCEPT !.amount = d]
  <2>1. n \in Call /\ d \in Int
    BY HybridAssumption, NewCallFields DEF HybridAssumption, Ops
  <2>2. l \in Call /\ l.pc = "acquire" /\ l.next = "adjustRead"
    <3> HIDE DEF n
    <3>1. {"acquire", "adjustRead"} \subseteq PCs
      BY DEF PCs, Critical, Reads
    <3>2. QED
      BY <2>1, <3>1 DEF Locking, Call
  <2>3. c.pc = "acquire" /\ c.next = "adjustRead"
    <3> HIDE DEF l
    <3>1. QED
      BY <2>1, <2>2, AmountFields
  <2>4. Goto(p, c) /\ UNCHANGED <<physical, reserved, lock>>
    BY <1>3 DEF StartAdjust
  <2>5. QED
    <3> HIDE DEF c
    <3>1. QED
      BY <2>3, <2>4, StartStep, OutsidePCs
<1>4. ASSUME NEW k \in Skus, NEW n \in Quantities,
             StartWebhook(p, k, n) \/ StartSale(p, k, n)
      PROVE  StockSafe'
  <2>1. n \in Nat /\ n \in Int
    BY HybridAssumption DEF HybridAssumption
  <2>2. ASSUME NEW op \in Ops, NEW s \in Outside,
               Goto(p, [At(NewCall(op, None, k), s) EXCEPT !.amount = n]),
               s # "idle", UNCHANGED <<physical, reserved, lock>>
        PROVE  StockSafe'
    <3> DEFINE m == NewCall(op, None, k)
               l == At(m, s)
               c == [l EXCEPT !.amount = n]
    <3>1. m \in Call
      BY NewCallFields
    <3>2. l \in Call /\ l.pc = s /\ l.next = "idle"
      <4> HIDE DEF m
      <4>1. QED
        BY <3>1, <2>2, AtFields, OutsidePCs, PCSets DEF At, Call
    <3>3. c.pc = s /\ c.next = "idle" /\ c.amount = n
      <4> HIDE DEF l
      <4>1. QED
        BY <2>1, <3>2, AmountFields
    <3>4. Goto(p, c)
      BY <2>2
    <3>5. QED
      <4> HIDE DEF c
      <4>1. QED
        BY <2>1, <2>2, <3>3, <3>4, StartStep, OutsidePCs
  <2>3. CASE StartWebhook(p, k, n)
    BY <2>2, <2>3 DEF StartWebhook, Ops, Outside
  <2>4. CASE StartSale(p, k, n)
    BY <2>2, <2>4 DEF StartSale, Ops, Outside
  <2>5. QED
    BY <1>4, <2>3, <2>4
<1>5. QED
  BY <1>1, <1>2, <1>3, <1>4 DEF Request

LEMMA TakeJobStock ==
  ASSUME IInv, TypeOK', NEW p \in Slots, NEW j \in waiting, TakeJob(p, j)
  PROVE  StockSafe'
<1> DEFINE o == j.order
           n == NewCall("job", o, SkuOf[o])
           c == [n EXCEPT !.id = j.id, !.made = j.made, !.stalls = j.stalls]
           l == Locking(c, "confirmRead")
           d == At(c, "push")
<1>1. o \in Orders /\ j.id \in Nat /\ j.made \in Nat /\ j.stalls \in Nat
  BY DEF IInv, TypeOK, Job
<1>2. n \in Call
  BY <1>1, HybridAssumption, NewCallFields DEF HybridAssumption, Ops
<1>3. c \in Call
  <2> HIDE DEF n
  <2>1. QED
    BY <1>1, <1>2 DEF Call
<1>4. /\ l.pc = "acquire" /\ l.next = "confirmRead"
      /\ d.pc = "push" /\ d.next = "idle"
  <2> HIDE DEF c
  <2>1. "push" \in PCs
    BY OutsidePCs DEF Outside
  <2>2. QED
    BY <1>3, <2>1, LockingFields, AtFields
<1>5. Goto(p, l) \/ Goto(p, d) \/ Goto(p, Idle)
  BY DEF TakeJob
<1>6. UNCHANGED <<physical, reserved, lock>>
  BY DEF TakeJob, table
<1>7. QED
  <2> HIDE DEF l, d
  <2>1. "push" \notin Critical
    BY DEF Critical, Reads, Commits
  <2>2. QED
    BY <1>4, <1>5, <1>6, <2>1, StartStep, QuietIdle, OutsidePCs

LEMMA FaultStock ==
  ASSUME IInv, TypeOK', NEW p \in Slots, Fault(p)
  PROVE  StockSafe'
<1>1. \A k \in Skus : lock[k] \in Slots \ {p} => lock'[k] = lock[k]
  BY DEF Fault, IInv, TypeOK
<1>2. UNCHANGED <<physical, reserved>>
  BY DEF Fault, table
<1>3. CASE call[p].pc \in Critical
  <2>1. Goto(p, Unlocking(call[p], "throw")) /\ UNCHANGED lock
    BY <1>3, OutsidePCs DEF Fault
  <2>2. QED
    BY <1>2, <2>1, QuietUnlocking DEF Resumes
<1>4. CASE call[p].pc \notin Critical
  <2>1. Goto(p, At(call[p], "throw"))
    BY <1>4 DEF Fault
  <2>2. QED
    BY <1>1, <1>2, <2>1, QuietAt DEF Outside
<1>5. QED
  BY <1>3, <1>4

LEMMA CrashStock ==
  ASSUME IInv, TypeOK', NEW p \in Slots, Crash(p)
  PROVE  StockSafe'
<1>1. \A k \in Skus : lock[k] \in Slots \ {p} => lock'[k] = lock[k]
  BY DEF Crash, IInv, TypeOK
<1>2. UNCHANGED <<physical, reserved>> /\ Goto(p, Idle)
  BY DEF Crash, table
<1>3. QED
  BY <1>1, <1>2, QuietIdle

\* The steps of no slot: only the expiry of a held lock could hurt.
LEMMA RowStock ==
  ASSUME IInv, ~LockMayExpire, NEW k \in Skus,
         CreateProduct(k) \/ OrphanExpires(k) \/ HeldExpires(k)
  PROVE  StockSafe'
<1>1. ~HeldExpires(k)
  BY DEF HeldExpires
<1>2. UNCHANGED <<physical, reserved, call>>
  BY <1>1 DEF CreateProduct, OrphanExpires, table
<1>3. \A j \in Skus : lock[j] \in Slots => lock'[j] = lock[j]
  BY <1>1, HybridAssumption
     DEF CreateProduct, OrphanExpires, IInv, TypeOK, HybridAssumption
<1>4. LockOwned'
  <2> SUFFICES ASSUME NEW q \in Slots, call[q].pc \in Critical
               PROVE  lock'[call[q].sku] = q
    BY <1>2 DEF LockOwned
  <2>1. lock[call[q].sku] = q
    BY DEF IInv, StockSafe, LockOwned
  <2>2. call[q].sku \in Skus
    BY OutsidePCs DEF IInv, CallShape, Shape
  <2>3. QED
    BY <1>3, <2>1, <2>2
<1>5. CommitsAllowed' /\ NoOverselling'
  BY <1>2 DEF IInv, StockSafe, CommitsAllowed, CommitAllowed, NoOverselling
<1>6. QED
  BY <1>4, <1>5 DEF StockSafe

LEMMA InitStock == Init => IInv
<1> SUFFICES ASSUME Init PROVE StockSafe
  BY InitShape DEF IInv
<1>1. \A p \in Slots : call[p] = Idle
  BY DEF Init
<1>2. Idle.pc = "idle" /\ Idle.next = "idle"
  BY DEF Idle
<1>3. LockOwned
  BY <1>1, <1>2, OutsidePCs DEF LockOwned
<1>4. CommitsAllowed
  BY <1>1, <1>2 DEF CommitsAllowed, CommitAllowed
<1>5. NoOverselling
  BY HybridAssumption DEF Init, NoOverselling, HybridAssumption
<1>6. QED
  BY <1>3, <1>4, <1>5 DEF StockSafe

LEMMA StepStock ==
  ASSUME ~LockMayExpire, IInv, [Next]_vars
  PROVE  IInv'
<1>1. TypeOK' /\ CallShape'
  BY StepShape DEF IInv
<1>2. CASE UNCHANGED vars
  BY <1>1, <1>2 DEF vars, table, queue, IInv, StockSafe, LockOwned,
                    CommitsAllowed, CommitAllowed, NoOverselling
<1>3. ASSUME NEW p \in Slots, Work(p) \/ Request(p) \/ Fault(p) \/ Crash(p)
      PROVE  StockSafe'
  BY <1>1, <1>3, WorkStock, RequestStock, FaultStock, CrashStock
<1>4. ASSUME NEW p \in Slots, NEW j \in waiting, TakeJob(p, j)
      PROVE  StockSafe'
  BY <1>1, <1>4, TakeJobStock
<1>5. QED
  BY <1>1, <1>2, <1>3, <1>4, RowStock DEF Next, IInv

\* As long as no lock expires under its holder, no interleaving of orders,
\* retries, jobs, adjustments, webhooks, faults and crashes reserves more than a
\* row holds or drives stock negative (metrics.inventory.noOverselling).
THEOREM NoOversold == ASSUME ~LockMayExpire PROVE Spec => []NoOverselling
<1>1. Init => IInv
  BY InitStock
<1>2. IInv /\ [Next]_vars => IInv'
  BY StepStock
<1>3. IInv => NoOverselling
  BY DEF IInv, StockSafe
<1>4. QED
  BY <1>1, <1>2, <1>3, PTL DEF Spec

\* Under the same proviso withLock excludes every other holder of the same row.
THEOREM LocksExclude == ASSUME ~LockMayExpire PROVE Spec => []LockExclusion
<1>1. Init => IInv
  BY InitStock
<1>2. IInv /\ [Next]_vars => IInv'
  BY StepStock
<1>3. IInv => LockExclusion
  BY DEF IInv, StockSafe, LockOwned, LockExclusion
<1>4. QED
  BY <1>1, <1>2, <1>3, PTL DEF Spec

-----------------------------------------------------------------------------
(* One attempt at a time.  Without manual retries, and when create() itself *)
(* does not fail once its job is queued, an order is in one pair of hands:  *)
(* the request that creates it, then its one job, waiting or running.       *)

Started == {"RESERVED", "CONFIRMED", "FAILED"}
Pushing == {"push", "pushInsert", "syncRead", "syncSet", "markSynced"}
JobPCs == Pushing \cup {"acquire", "unlock", "confirmRead", "confirmCommit", "releaseRead",
                        "releaseCommit", "throw", "terminal", "markFailed", "dlq"}

\* Call c has order o in hand.
Token(c, o) == c.order = o /\ (c.op = "job" \/ (c.op = "create" /\ c.pc # "queuedAt"))

CreateAt(c) ==
  c.op = "create" =>
    \/ c.pc = "queuedAt"
    \/ /\ c.pc = "enqueue" \/ (c.pc = "unlock" /\ c.next = "enqueue")
       /\ status[c.order] = "RESERVED"
    \/ /\ \/ c.pc \in {"reserveRead", "reserveCommit", "throw", "terminal", "markFailed"}
          \/ (c.pc = "acquire" /\ c.next = "reserveRead")
          \/ (c.pc = "unlock" /\ c.next = "throw")
       /\ status[c.order] = "CREATED"

JobAt(c) ==
  c.op = "job" =>
    /\ c.pc \in JobPCs
    /\ c.pc = "acquire" => c.next \in {"confirmRead", "releaseRead"}
    /\ c.pc = "unlock" => c.next \in {"throw", "push", "dlq"}
    /\ status[c.order] \in Started
    /\ \/ c.pc \in {"confirmCommit", "releaseRead", "releaseCommit"}
       \/ (c.pc = "acquire" /\ c.next = "releaseRead")
       => status[c.order] = "RESERVED"
    /\ c.pc \in Pushing \/ (c.pc = "unlock" /\ c.next = "push")
       => status[c.order] = "CONFIRMED"
    /\ c.pc = "markFailed" => status[c.order] = "FAILED"
    /\ c.pc \in {"syncRead", "syncSet", "markSynced"} => c.order \in pushed

OneHolder ==
  /\ \A p, q \in Slots : \A o \in Orders :
        Token(call[p], o) /\ Token(call[q], o) => p = q
  /\ \A p \in Slots : \A j \in waiting : ~Token(call[p], j.order)
  /\ \A i, j \in waiting : i.order = j.order => i = j

Tokens ==
  /\ OneHolder
  /\ \A j \in waiting : status[j.order] \in Started
  /\ \A p \in Slots : call[p].op # "retry" /\ CreateAt(call[p]) /\ JobAt(call[p])

\* Where call p goes in this step, the call it is staying the same.
Went(p, s, n) == /\ call'[p].pc = s /\ call'[p].next = n
                 /\ call'[p].op = call[p].op /\ call'[p].order = call[p].order
Others(p) == \A q \in Slots \ {p} : call'[q] = call[q]

LEMMA Goes ==
  ASSUME TypeOK, NEW p \in Slots
  PROVE  /\ \A s \in PCs \ {"idle"} : Goto(p, At(call[p], s)) => Went(p, s, "idle")
         /\ \A s \in PCs \ {"idle"} : \A n :
              Goto(p, [At(call[p], s) EXCEPT !.amount = n]) => Went(p, s, "idle")
         /\ \A s : Goto(p, Locking(call[p], s)) => Went(p, "acquire", s)
         /\ \A s : Goto(p, Unlocking(call[p], s)) => Went(p, "unlock", s)
         /\ \A s, n : Goto(p, [Unlocking(call[p], s) EXCEPT !.amount = n])
                        => Went(p, "unlock", s)
         /\ Goto(p, Idle) \/ Goto(p, At(call[p], "idle")) => call'[p] = Idle
         /\ \A c : Goto(p, c) => Others(p)
<1>1. call[p] \in Call /\ call \in [Slots -> Call]
  BY DEF TypeOK
<1>2. ASSUME NEW s \in PCs \ {"idle"}, Goto(p, At(call[p], s))  PROVE Went(p, s, "idle")
  BY <1>1, <1>2 DEF Goto, At, Went, Call
<1>3. ASSUME NEW s \in PCs \ {"idle"}, NEW n, Goto(p, [At(call[p], s) EXCEPT !.amount = n])
      PROVE  Went(p, s, "idle")
  BY <1>1, <1>3 DEF Goto, At, Went, Call
<1>4. ASSUME NEW s, Goto(p, Locking(call[p], s))  PROVE Went(p, "acquire", s)
  BY <1>1, <1>4 DEF Goto, Locking, Went, Call
<1>5. ASSUME NEW s, Goto(p, Unlocking(call[p], s))  PROVE Went(p, "unlock", s)
  BY <1>1, <1>5 DEF Goto, Unlocking, Went, Call
<1>6. ASSUME NEW s, NEW n, Goto(p, [Unlocking(call[p], s) EXCEPT !.amount = n])
      PROVE  Went(p, "unlock", s)
  BY <1>1, <1>6 DEF Goto, Unlocking, Went, Call
<1>7. Goto(p, Idle) \/ Goto(p, At(call[p], "idle")) => call'[p] = Idle
  BY <1>1 DEF Goto, At
<1>8. \A c : Goto(p, c) => Others(p)
  BY <1>1 DEF Goto, Others
<1>9. QED
  BY <1>2, <1>3, <1>4, <1>5, <1>6, <1>7, <1>8

\* A step that leaves orders and queue alone and gets the call no other order.
LEMMA QuietTokens ==
  ASSUME TypeOK, Tokens, NEW p \in Slots, Others(p), UNCHANGED <<status, waiting, pushed>>,
         call'[p].op # "retry", CreateAt(call'[p]), JobAt(call'[p]),
         \A o \in Orders : Token(call'[p], o) => Token(call[p], o)
  PROVE  Tokens'
<1>1. \A q \in Slots : \A o \in Orders : Token(call'[q], o) => Token(call[q], o)
  BY DEF Others
<1>2. ASSUME NEW q \in Slots
      PROVE  call'[q].op # "retry" /\ CreateAt(call'[q]) /\ JobAt(call'[q])
  BY DEF Others, Tokens
<1>3. \A q \in Slots : (call[q].op # "retry" /\ CreateAt(call[q]) /\ JobAt(call[q]))'
  BY <1>2 DEF CreateAt, JobAt
<1>4. OneHolder'
  <2>1. \A j \in waiting : j.order \in Orders
    BY DEF TypeOK, Job
  <2>2. \A q \in Slots : \A o \in Orders : Token(call[q], o)' <=> Token(call'[q], o)
    BY DEF Token
  <2>3. QED
    BY <1>1, <2>1, <2>2 DEF Tokens, OneHolder
<1>5. QED
  BY <1>3, <1>4 DEF Tokens

LEMMA IdleToken ==
  /\ CreateAt(Idle) /\ JobAt(Idle) /\ Idle.op # "retry"
  /\ \A o : ~Token(Idle, o)
BY DEF Idle, CreateAt, JobAt, Token

\* A call that is no order's.
LEMMA StockToken ==
  ASSUME NEW c, c.op \notin {"create", "job"}
  PROVE  CreateAt(c) /\ JobAt(c) /\ \A o : ~Token(c, o)
BY DEF CreateAt, JobAt, Token

\* The holder of order o moves its status, which is not CONFIRMED.
LEMMA HolderTokens ==
  ASSUME TypeOK, CallShape, Tokens, NEW p \in Slots, Others(p), UNCHANGED <<waiting, pushed>>,
         NEW o \in Orders, Token(call[p], o),
         \A x \in Orders \ {o} : status'[x] = status[x],
         call'[p].op # "retry", (CreateAt(call[p]) /\ JobAt(call[p]))',
         \A x \in Orders : Token(call'[p], x) => x = o
  PROVE  Tokens'
<1>1. \A q \in Slots : \A x \in Orders : Token(call'[q], x) => Token(call[q], x)
  BY DEF Others
<1>2. \A j \in waiting : j.order \in Orders /\ j.order # o
  BY DEF Tokens, OneHolder, TypeOK, Job
<1>3. ASSUME NEW q \in Slots \ {p}
      PROVE  (call[q].op # "retry" /\ CreateAt(call[q]) /\ JobAt(call[q]))'
  <2>1. call'[q] = call[q] /\ ~Token(call[q], o)
    BY DEF Others, Tokens, OneHolder
  <2>2. call[q].op # "retry" /\ CreateAt(call[q]) /\ JobAt(call[q])
    BY DEF Tokens
  <2>3. call[q].op \in {"create", "job"} /\ call[q].pc # "queuedAt" =>
          call[q].order \in Orders /\ call[q].order # o
    BY <2>1 DEF Token, CallShape, Shape, OrderOps
  <2>4. CreateAt(call[q])'
    BY <2>1, <2>2, <2>3 DEF CreateAt
  <2>5. JobAt(call[q])'
    <3>1. call[q].op = "job" => status'[call[q].order] = status[call[q].order]
      <4>1. call[q].op = "job" => call[q].pc # "queuedAt"
        BY <2>2 DEF JobAt, JobPCs, Pushing
      <4>2. QED
        BY <2>3, <4>1
    <3>2. QED
      BY <2>1, <2>2, <3>1 DEF JobAt
  <2>6. QED
    BY <2>1, <2>2, <2>4, <2>5
<1>4. OneHolder'
  <2>1. \A q \in Slots : \A x \in Orders : Token(call[q], x)' <=> Token(call'[q], x)
    BY DEF Token
  <2>2. QED
    BY <1>1, <1>2, <2>1 DEF Tokens, OneHolder
<1>5. QED
  BY <1>2, <1>3, <1>4 DEF Tokens

LEMMA GoingTokens ==
  ASSUME TypeOK, Tokens, NEW p \in Slots, NEW s, NEW n, Went(p, s, n), Others(p),
         call[p].pc # "queuedAt", UNCHANGED <<status, waiting, pushed>>,
         CreateAt(call'[p]), JobAt(call'[p])
  PROVE  Tokens'
<1>1. call'[p].op = call[p].op /\ call'[p].order = call[p].order /\ call[p].op # "retry"
  BY DEF Went, Tokens
<1>2. \A o \in Orders : Token(call'[p], o) => Token(call[p], o)
  BY <1>1 DEF Token
<1>3. QED
  BY <1>1, <1>2, QuietTokens

LEMMA LeavingTokens ==
  ASSUME TypeOK, Tokens, NEW p \in Slots, call'[p] = Idle, Others(p),
         UNCHANGED <<status, waiting, pushed>>
  PROVE  Tokens'
BY IdleToken, QuietTokens

\* A call that is not an order's goes on.
LEMMA OtherTokens ==
  ASSUME TypeOK, Tokens, NEW p \in Slots, NEW s, NEW n, Went(p, s, n), Others(p),
         call[p].op \notin {"create", "job"}, UNCHANGED <<status, waiting, pushed>>
  PROVE  Tokens'
<1>1. call'[p].op \notin {"create", "job", "retry"}
  BY DEF Went, Tokens
<1>2. QED
  BY <1>1, StockToken, QuietTokens

\* What a call has in hand, by the statement it is at.
LEMMA TokenFacts ==
  ASSUME TypeOK, CallShape, Tokens, NEW p \in Slots
  PROVE  LET c == call[p]
         IN  /\ c \in Call /\ c.op # "retry" /\ CreateAt(c) /\ JobAt(c)
             /\ c.op \in {"create", "job"} => c.order \in Orders
             /\ c.pc \in {"reserveRead", "reserveCommit", "enqueue", "queuedAt"} => c.op = "create"
             /\ c.pc \in {"confirmRead", "confirmCommit", "releaseRead", "releaseCommit",
                          "dlq", "push", "pushInsert", "markSynced"} => c.op = "job"
             /\ c.pc \in {"terminal", "markFailed"} => c.op \in {"create", "job"}
             /\ c.pc \in {"syncRead", "syncSet"} => c.op # "create"
             /\ c.pc \notin {"failCommit", "reset"}
             /\ c.pc \in {"saleRead", "saleCommit", "adjustRead", "adjustCommit", "webhookSet",
                          "webhookRead", "webhookCommit"} => c.op \notin {"create", "job"}
<1> DEFINE c == call[p]
<1>1. c \in Call /\ Shape(c) /\ c.op # "retry" /\ CreateAt(c) /\ JobAt(c)
  BY DEF TypeOK, CallShape, Tokens
<1>2. c.pc \in OrderPCs => c.op \in {"create", "job"}
  BY <1>1 DEF Shape, OrderOps
<1>3. c.op = "create" => c.pc \in {"queuedAt", "enqueue", "unlock", "reserveRead",
                                   "reserveCommit", "throw", "terminal", "markFailed", "acquire"}
  BY <1>1 DEF CreateAt
<1>4. c.op = "job" => c.pc \in JobPCs
  BY <1>1 DEF JobAt
<1>5. QED
  BY <1>1, <1>2, <1>3, <1>4 DEF OrderPCs, JobPCs, Pushing, Shape, OrderOps

LEMMA LockTokens ==
  ASSUME TypeOK, CallShape, Tokens, NEW p \in Slots,
         Acquire(p) \/ LockBusy(p) \/ Release(p)
  PROVE  Tokens'
<1> DEFINE c == call[p]
<1>1. c.op # "retry" /\ CreateAt(c) /\ JobAt(c) /\ Shape(c)
  BY TokenFacts DEF CallShape
<1>2. UNCHANGED <<status, waiting, pushed>> /\ Others(p)
  BY Goes DEF Acquire, LockBusy, Release, table, queue
<1>3. CASE Acquire(p)
  <2>1. c.pc = "acquire" /\ c.next \in PCs \ {"idle"}
    BY <1>1, <1>3, PCSets DEF Acquire, Shape
  <2>2. Went(p, c.next, "idle")
    BY <1>3, <2>1, Goes DEF Acquire
  <2>3. CreateAt(call'[p])
    BY <1>1, <2>1, <2>2 DEF CreateAt, Went
  <2>4. JobAt(call'[p])
    BY <1>1, <2>1, <2>2 DEF JobAt, Went, JobPCs, Pushing
  <2>5. QED
    BY <1>2, <2>1, <2>2, <2>3, <2>4, GoingTokens
<1>4. CASE LockBusy(p)
  <2>1. c.pc = "acquire" /\ Went(p, "throw", "idle")
    BY <1>4, Goes, PCSets DEF LockBusy
  <2>2. CreateAt(call'[p])
    BY <1>1, <2>1 DEF CreateAt, Went
  <2>3. JobAt(call'[p])
    BY <1>1, <2>1 DEF JobAt, Went, JobPCs, Pushing
  <2>4. QED
    BY <1>2, <2>1, <2>2, <2>3, GoingTokens
<1>5. CASE Release(p)
  <2>1. c.pc = "unlock" /\ c.next \in Resumes
    BY <1>1, <1>5 DEF Release, Shape
  <2>2. CASE c.next = "idle"
    BY <1>2, <1>5, <2>2, Goes, LeavingTokens DEF Release
  <2>3. CASE c.next # "idle"
    <3>1. Went(p, c.next, "idle")
      BY <1>5, <2>1, <2>3, Goes, PCSets DEF Release
    <3>2. CreateAt(call'[p])
      BY <1>1, <2>1, <2>3, <3>1 DEF CreateAt, Went
    <3>3. JobAt(call'[p])
      BY <1>1, <2>1, <2>3, <3>1 DEF JobAt, Went, JobPCs, Pushing
    <3>4. QED
      BY <1>2, <2>1, <3>1, <3>2, <3>3, GoingTokens
  <2>4. QED
    BY <2>2, <2>3
<1>6. QED
  BY <1>3, <1>4, <1>5

\* The decisions of an order call.
LEMMA ReadTokens ==
  ASSUME TypeOK, CallShape, Tokens, NEW p \in Slots,
         ReserveRead(p) \/ ConfirmRead(p) \/ ReleaseRead(p) \/ Terminal(p)
  PROVE  Tokens'
<1> DEFINE c == call[p]
<1>1. c.op # "retry" /\ CreateAt(c) /\ JobAt(c) /\ c.op \in {"create", "job"}
      /\ c.pc # "queuedAt"
  BY TokenFacts DEF ReserveRead, ConfirmRead, ReleaseRead, Terminal
<1>2. UNCHANGED <<status, waiting, pushed>> /\ Others(p)
  BY Goes DEF ReserveRead, ConfirmRead, ReleaseRead, Terminal, table, queue
<1>3. {"reserveCommit", "confirmCommit", "releaseCommit", "failCommit", "markFailed", "dlq"}
        \subseteq PCs \ {"idle"}
  BY DEF PCs, Critical, Commits, Outside
<1>4. CASE ReserveRead(p)
  <2>1. c.op = "create" /\ c.pc = "reserveRead" /\ status[c.order] = "CREATED"
    BY <1>1, <1>4, TokenFacts DEF ReserveRead, CreateAt
  <2>2. Went(p, "reserveCommit", "idle") \/ Went(p, "unlock", "throw")
    BY <1>3, <1>4, <2>1, Goes DEF ReserveRead
  <2>3. CreateAt(call'[p]) /\ JobAt(call'[p])
    BY <2>1, <2>2 DEF CreateAt, JobAt, Went
  <2>4. QED
    BY <1>1, <1>2, <2>2, <2>3, GoingTokens
<1>5. CASE ConfirmRead(p)
  <2>1. c.op = "job" /\ status[c.order] \in Started
    BY <1>1, <1>5, TokenFacts DEF ConfirmRead, JobAt
  <2>2. (Went(p, "confirmCommit", "idle") /\ status[c.order] = "RESERVED")
        \/ Went(p, "unlock", "throw")
    BY <1>3, <1>5, <2>1, Goes DEF ConfirmRead
  <2>3. CreateAt(call'[p]) /\ JobAt(call'[p])
    BY <2>1, <2>2 DEF CreateAt, JobAt, Went, JobPCs, Pushing
  <2>4. QED
    BY <1>1, <1>2, <2>2, <2>3, GoingTokens
<1>6. CASE ReleaseRead(p)
  <2>1. c.op = "job" /\ status[c.order] = "RESERVED"
    BY <1>1, <1>6, TokenFacts DEF ReleaseRead, JobAt
  <2>2. Went(p, "releaseCommit", "idle")
    BY <1>3, <1>6, <2>1, Goes DEF ReleaseRead
  <2>3. CreateAt(call'[p]) /\ JobAt(call'[p])
    BY <2>1, <2>2 DEF CreateAt, JobAt, Went, JobPCs, Pushing, Started
  <2>4. QED
    BY <1>1, <1>2, <2>2, <2>3, GoingTokens
<1>7. CASE Terminal(p)
  <2>1. c.pc = "terminal"
    BY <1>7 DEF Terminal
  <2>2. CASE c.op = "create"
    <3>1. status[c.order] = "CREATED"
      BY <1>1, <2>1, <2>2 DEF CreateAt
    <3>2. Went(p, "markFailed", "idle")
      BY <1>3, <1>7, <3>1, Goes DEF Terminal
    <3>3. CreateAt(call'[p]) /\ JobAt(call'[p])
      BY <2>2, <3>1, <3>2 DEF CreateAt, JobAt, Went
    <3>4. QED
      BY <1>1, <1>2, <3>2, <3>3, GoingTokens
  <2>3. CASE c.op = "job"
    <3>1. status[c.order] \in Started
      BY <1>1, <2>3 DEF JobAt
    <3>2. \/ Went(p, "dlq", "idle")
          \/ Went(p, "acquire", "releaseRead") /\ status[c.order] = "RESERVED"
          \/ Went(p, "markFailed", "idle") /\ status[c.order] = "FAILED"
      BY <1>3, <1>7, <2>3, <3>1, Goes DEF Terminal, AfterTerminal, Started
    <3>3. CreateAt(call'[p]) /\ JobAt(call'[p])
      BY <2>3, <3>1, <3>2 DEF CreateAt, JobAt, Went, JobPCs, Pushing
    <3>4. QED
      BY <1>1, <1>2, <3>2, <3>3, GoingTokens
  <2>4. QED
    BY <1>1, <2>2, <2>3
<1>8. QED
  BY <1>4, <1>5, <1>6, <1>7

\* The steps that write an order's status.
LEMMA CommitTokens ==
  ASSUME TypeOK, CallShape, Tokens, NEW p \in Slots,
         ReserveCommit(p) \/ ConfirmCommit(p) \/ ReleaseCommit(p) \/ MarkFailed(p)
  PROVE  Tokens'
<1> DEFINE c == call[p]
           o == c.order
<1>1. /\ c.op # "retry" /\ CreateAt(c) /\ JobAt(c) /\ c.op \in {"create", "job"}
      /\ c.pc # "queuedAt" /\ o \in Orders
  BY TokenFacts DEF ReserveCommit, ConfirmCommit, ReleaseCommit, MarkFailed
<1>2. UNCHANGED <<waiting, pushed>> /\ Others(p)
  BY Goes DEF ReserveCommit, ConfirmCommit, ReleaseCommit, MarkFailed, queue
<1>3. status \in [Orders -> Status]
  BY DEF TypeOK
<1>4. \A x \in Orders \ {o} : status'[x] = status[x]
  BY <1>3 DEF ReserveCommit, ConfirmCommit, ReleaseCommit, MarkFailed
<1>5. Token(c, o)
  BY <1>1 DEF Token
<1>6. "dlq" \in PCs \ {"idle"}
  BY DEF PCs, Outside
<1>7. ASSUME NEW s, NEW n, Went(p, s, n), (CreateAt(call[p]) /\ JobAt(call[p]))'
      PROVE  Tokens'
  <2>1. \A x \in Orders : Token(call'[p], x) => x = o
    BY <1>7 DEF Went, Token
  <2>2. call'[p].op # "retry"
    BY <1>1, <1>7 DEF Went
  <2>3. QED
    BY <1>1, <1>2, <1>4, <1>5, <1>7, <2>1, <2>2, HolderTokens
<1>8. CASE ReserveCommit(p)
  <2>1. c.op = "create" /\ status'[o] = "RESERVED"
    BY <1>1, <1>3, <1>8, TokenFacts DEF ReserveCommit
  <2>2. Went(p, "unlock", "enqueue")
    BY <1>8, Goes DEF ReserveCommit
  <2>3. (CreateAt(call[p]) /\ JobAt(call[p]))'
    BY <2>1, <2>2 DEF CreateAt, JobAt, Went
  <2>4. QED
    BY <1>7, <2>2, <2>3
<1>9. CASE ConfirmCommit(p)
  <2>1. c.op = "job" /\ status'[o] = "CONFIRMED"
    BY <1>1, <1>3, <1>9, TokenFacts DEF ConfirmCommit
  <2>2. Went(p, "unlock", "push")
    BY <1>9, Goes DEF ConfirmCommit
  <2>3. (CreateAt(call[p]) /\ JobAt(call[p]))'
    BY <2>1, <2>2 DEF CreateAt, JobAt, Went, JobPCs, Pushing, Started
  <2>4. QED
    BY <1>7, <2>2, <2>3
<1>10. CASE ReleaseCommit(p)
  <2>1. c.op = "job" /\ status'[o] = "FAILED"
    BY <1>1, <1>3, <1>10, TokenFacts DEF ReleaseCommit
  <2>2. Went(p, "unlock", "dlq")
    BY <1>10, <2>1, Goes DEF ReleaseCommit, AfterTerminal
  <2>3. (CreateAt(call[p]) /\ JobAt(call[p]))'
    BY <2>1, <2>2 DEF CreateAt, JobAt, Went, JobPCs, Pushing, Started
  <2>4. QED
    BY <1>7, <2>2, <2>3
<1>11. CASE MarkFailed(p)
  <2>1. status'[o] = "FAILED"
    BY <1>1, <1>3, <1>11 DEF MarkFailed
  <2>2. CASE c.op = "job"
    <3>1. Went(p, "dlq", "idle")
      BY <1>6, <1>11, <2>2, Goes DEF MarkFailed, AfterTerminal
    <3>2. (CreateAt(call[p]) /\ JobAt(call[p]))'
      BY <2>1, <2>2, <3>1 DEF CreateAt, JobAt, Went, JobPCs, Pushing, Started
    <3>3. QED
      BY <1>7, <3>1, <3>2
  <2>3. CASE c.op = "create"
    <3>1. call'[p] = Idle
      BY <1>11, <2>3, Goes DEF MarkFailed, AfterTerminal
    <3>2. (CreateAt(call[p]) /\ JobAt(call[p]))'
      BY <3>1 DEF CreateAt, JobAt, Idle
    <3>3. /\ call'[p].op # "retry"
          /\ \A x \in Orders : Token(call'[p], x) => x = o
      BY <3>1, IdleToken
    <3>4. QED
      BY <1>1, <1>2, <1>4, <1>5, <3>2, <3>3, HolderTokens
  <2>4. QED
    BY <1>1, <2>2, <2>3
<1>12. QED
  BY <1>8, <1>9, <1>10, <1>11

\* The order of call p, and the job it carries, go back to the queue.
LEMMA GivenTokens ==
  ASSUME TypeOK, CallShape, Tokens, NEW p \in Slots, Others(p),
         UNCHANGED <<status, pushed>>, Token(call[p], call[p].order),
         call'[p].op # "retry", CreateAt(call'[p]), JobAt(call'[p]),
         \A x \in Orders : ~Token(call'[p], x),
         status[call[p].order] \in Started,
         NEW i \in Job, i.order = call[p].order, waiting' = waiting \cup {i}
  PROVE  Tokens'
<1> DEFINE o == call[p].order
<1>1. o \in Orders
  BY DEF Job
<1>2. \A q \in Slots : \A x \in Orders :
         Token(call'[q], x) => q # p /\ Token(call[q], x)
  BY DEF Others
<1>3. \A j \in waiting : j.order \in Orders /\ j.order # o
  BY DEF Tokens, OneHolder, TypeOK, Job
<1>4. \A q \in Slots : \A x \in Orders : Token(call'[q], x) => x # o
  BY <1>1, <1>2 DEF Tokens, OneHolder
<1>5. ASSUME NEW q \in Slots
      PROVE  call'[q].op # "retry" /\ CreateAt(call'[q]) /\ JobAt(call'[q])
  BY DEF Others, Tokens
<1>6. \A q \in Slots : (call[q].op # "retry" /\ CreateAt(call[q]) /\ JobAt(call[q]))'
  BY <1>5 DEF CreateAt, JobAt
<1>7. OneHolder'
  <2>1. \A q \in Slots : \A x \in Orders : Token(call[q], x)' <=> Token(call'[q], x)
    BY DEF Token
  <2>2. \A j \in waiting' : j \in waiting \/ j.order = o
    OBVIOUS
  <2>3. \A q, r \in Slots : \A x \in Orders :
          Token(call'[q], x) /\ Token(call'[r], x) => q = r
    BY <1>2 DEF Tokens, OneHolder
  <2>4. \A q \in Slots : \A j \in waiting' : ~Token(call'[q], j.order)
    BY <1>1, <1>2, <1>3, <1>4, <2>2 DEF Tokens, OneHolder
  <2>5. \A j, k \in waiting' : j.order = k.order => j = k
    BY <1>3 DEF Tokens, OneHolder
  <2>6. QED
    BY <1>3, <2>1, <2>2, <2>3, <2>4, <2>5 DEF OneHolder, Token
<1>8. \A j \in waiting' : status'[j.order] \in Started
  BY DEF Tokens
<1>9. QED
  BY <1>6, <1>7, <1>8 DEF Tokens

\* How an exception leaves an order call, and how a finished one leaves.
LEMMA CatchTokens ==
  ASSUME TypeOK, CallShape, Tokens, NEW p \in Slots, Catch(p)
  PROVE  Tokens'
<1> DEFINE c == call[p]
<1>1. c \in Call /\ c.op # "retry" /\ CreateAt(c) /\ JobAt(c) /\ c.pc = "throw"
  BY TokenFacts DEF Catch
<1>2. UNCHANGED <<status, pushed>> /\ Others(p)
  BY Goes DEF Catch, table
<1>3. CASE UNCHANGED waiting /\ call'[p] = Idle
  BY <1>2, <1>3, LeavingTokens
<1>4. CASE /\ UNCHANGED waiting /\ c.op \in {"create", "job"}
           /\ Goto(p, [At(Failing(c), "terminal") EXCEPT !.amount = 0])
  <2>1. Went(p, "terminal", "idle")
    BY <1>1, <1>4 DEF Goto, At, Failing, Went, Call, TypeOK
  <2>2. CreateAt(call'[p]) /\ JobAt(call'[p])
    BY <1>1, <1>4, <2>1 DEF CreateAt, JobAt, Went, JobPCs, Pushing
  <2>3. QED
    BY <1>1, <1>2, <1>4, <2>1, <2>2, GoingTokens
<1>5. CASE /\ c.op = "job" /\ call'[p] = Idle
           /\ waiting' = waiting \cup {[JobOf(c) EXCEPT !.made = @ + 1]}
  <2>1. [JobOf(c) EXCEPT !.made = @ + 1] \in Job
        /\ [JobOf(c) EXCEPT !.made = @ + 1].order = c.order
    BY <1>1, <1>5, TokenFacts DEF JobOf, Job, Call
  <2>2. Token(c, c.order) /\ status[c.order] \in Started
    BY <1>1, <1>5 DEF Token, JobAt
  <2>3. QED
    BY <1>2, <1>5, <2>1, <2>2, IdleToken, GivenTokens
<1>6. Goto(p, Idle) => call'[p] = Idle
  BY Goes
<1>7. QED
  BY <1>3, <1>4, <1>5, <1>6 DEF Catch

LEMMA EnqueueTokens ==
  ASSUME TypeOK, CallShape, Tokens, NEW p \in Slots, Enqueue(p)
  PROVE  Tokens'
<1> DEFINE c == call[p]
<1>1. /\ c \in Call /\ c.op = "create" /\ c.pc = "enqueue" /\ c.order \in Orders
      /\ status[c.order] = "RESERVED"
  BY TokenFacts DEF Enqueue, CreateAt
<1>2. UNCHANGED <<status, pushed>> /\ Others(p)
  BY Goes DEF Enqueue, table
<1>3. JobOf(c) \in Job /\ JobOf(c).order = c.order
  BY <1>1 DEF JobOf, Job, Call
<1>4. "queuedAt" \in PCs \ {"idle"}
  BY DEF PCs, Outside
<1>5. Went(p, "queuedAt", "idle")
  BY <1>4, Goes DEF Enqueue
<1>6. /\ call'[p].op = "create" /\ CreateAt(call'[p]) /\ JobAt(call'[p])
      /\ \A x \in Orders : ~Token(call'[p], x)
  BY <1>1, <1>5 DEF Went, CreateAt, JobAt, Token
<1>7. Token(c, c.order) /\ status[c.order] \in Started
  BY <1>1 DEF Token, Started
<1>8. waiting' = waiting \cup {JobOf(c)}
  BY DEF Enqueue
<1>9. QED
  BY <1>2, <1>3, <1>6, <1>7, <1>8, GivenTokens

\* What an attempt does once its order is sold, and how a call ends.
LEMMA PushTokens ==
  ASSUME TypeOK, CallShape, Tokens, NEW p \in Slots,
         \/ PushOrder(p) \/ PushInsert(p) \/ SyncRead(p) \/ SyncSet(p)
         \/ MarkSynced(p) \/ MoveToDlq(p) \/ QueuedAt(p)
  PROVE  Tokens'
<1> DEFINE c == call[p]
<1>1. c \in Call /\ c.op # "retry" /\ CreateAt(c) /\ JobAt(c)
  BY TokenFacts
<1>2. UNCHANGED <<status, waiting>> /\ Others(p)
  BY Goes DEF PushOrder, PushInsert, SyncRead, SyncSet, MarkSynced, MoveToDlq, QueuedAt,
              table, queue
<1>3. {"syncRead", "syncSet", "pushInsert", "throw", "markSynced"} \subseteq PCs \ {"idle"}
  BY DEF PCs, Outside
<1>4. CASE PushOrder(p)
  <2>1. c.op = "job" /\ c.pc = "push"
    BY <1>4, TokenFacts DEF PushOrder
  <2>2. (Went(p, "syncRead", "idle") /\ c.order \in pushed) \/ Went(p, "pushInsert", "idle")
    BY <1>3, <1>4, Goes DEF PushOrder
  <2>3. UNCHANGED pushed
    BY <1>4 DEF PushOrder, table
  <2>4. CreateAt(call'[p]) /\ JobAt(call'[p])
    BY <1>1, <2>1, <2>2 DEF CreateAt, JobAt, Went, JobPCs, Pushing
  <2>5. QED
    BY <1>2, <2>1, <2>2, <2>3, <2>4, GoingTokens
<1>5. CASE SyncRead(p)
  <2>1. c.pc = "syncRead" /\ c.op # "create"
    BY <1>5, TokenFacts DEF SyncRead
  <2>2. Went(p, "syncSet", "idle") /\ UNCHANGED pushed
    BY <1>3, <1>5, Goes DEF SyncRead, table
  <2>3. CreateAt(call'[p]) /\ JobAt(call'[p])
    BY <1>1, <2>1, <2>2 DEF CreateAt, JobAt, Went, JobPCs, Pushing
  <2>4. QED
    BY <1>2, <2>1, <2>2, <2>3, GoingTokens
<1>6. CASE SyncSet(p)
  <2>1. c.pc = "syncSet" /\ c.op # "create" /\ UNCHANGED pushed
    BY <1>6, TokenFacts DEF SyncSet
  <2>2. CASE c.op = "job"
    <3>1. Went(p, "markSynced", "idle")
      BY <1>3, <1>6, <2>2, Goes DEF SyncSet
    <3>2. CreateAt(call'[p]) /\ JobAt(call'[p])
      BY <1>1, <2>1, <2>2, <3>1 DEF CreateAt, JobAt, Went, JobPCs, Pushing
    <3>3. QED
      BY <1>2, <2>1, <3>1, <3>2, GoingTokens
  <2>3. CASE c.op # "job"
    BY <1>2, <1>6, <2>1, <2>3, Goes, LeavingTokens DEF SyncSet
  <2>4. QED
    BY <2>2, <2>3
<1>7. CASE MarkSynced(p) \/ MoveToDlq(p) \/ QueuedAt(p)
  <2>1. call'[p] = Idle /\ UNCHANGED pushed
    BY <1>7, Goes DEF MarkSynced, MoveToDlq, QueuedAt, table
  <2>2. QED
    BY <1>2, <2>1, LeavingTokens
<1>8. CASE PushInsert(p)
  <2>1. c.op = "job" /\ c.pc = "pushInsert" /\ status[c.order] = "CONFIRMED"
    BY <1>1, <1>8, TokenFacts DEF PushInsert, JobAt, Pushing
  <2>2. Went(p, "throw", "idle") \/ Went(p, "syncRead", "idle")
    BY <1>3, <1>8, Goes DEF PushInsert
  <2>3. pushed' = pushed \cup {c.order}
    BY <1>8 DEF PushInsert
  <2>4. (CreateAt(call[p]) /\ JobAt(call[p]))'
    BY <1>2, <2>1, <2>2, <2>3 DEF CreateAt, JobAt, Went, JobPCs, Pushing, Started
  <2>5. ASSUME NEW q \in Slots \ {p}
        PROVE  (call[q].op # "retry" /\ CreateAt(call[q]) /\ JobAt(call[q]))'
    <3>1. call'[q] = call[q] /\ call[q].op # "retry" /\ CreateAt(call[q]) /\ JobAt(call[q])
      BY <1>2 DEF Others, Tokens
    <3>2. QED
      BY <1>2, <2>3, <3>1 DEF CreateAt, JobAt
  <2>6. call'[p].op # "retry"
    BY <2>1, <2>2 DEF Went
  <2>7. \A q \in Slots : \A x \in Orders : Token(call'[q], x) => Token(call[q], x)
    BY <1>2, <2>1, <2>2 DEF Others, Went, Token
  <2>8. OneHolder'
    <3>1. \A j \in waiting : j.order \in Orders
      BY DEF TypeOK, Job
    <3>2. \A q \in Slots : \A x \in Orders : Token(call[q], x)' <=> Token(call'[q], x)
      BY DEF Token
    <3>3. QED
      BY <1>2, <2>7, <3>1, <3>2 DEF Tokens, OneHolder
  <2>9. QED
    BY <1>2, <2>4, <2>5, <2>6, <2>8 DEF Tokens
<1>9. QED
  BY <1>4, <1>5, <1>6, <1>7, <1>8

\* Sales on the channel, adjustments and webhooks hold no order.
LEMMA StockTokens ==
  ASSUME TypeOK, CallShape, Tokens, NEW p \in Slots,
         \/ SaleRead(p) \/ SaleCommit(p) \/ AdjustRead(p) \/ AdjustCommit(p)
         \/ WebhookSet(p) \/ WebhookRead(p) \/ WebhookCommit(p)
  PROVE  Tokens'
<1> DEFINE c == call[p]
<1>1. c.op \notin {"create", "job"}
  BY TokenFacts DEF SaleRead, SaleCommit, AdjustRead, AdjustCommit, WebhookSet, WebhookRead,
                    WebhookCommit
<1>2. UNCHANGED <<status, waiting, pushed>> /\ Others(p)
  BY Goes DEF SaleRead, SaleCommit, AdjustRead, AdjustCommit, WebhookSet, WebhookRead,
              WebhookCommit, table, queue
<1>3. {"saleCommit", "adjustCommit", "webhookCommit"} \subseteq PCs \ {"idle"}
  BY DEF PCs, Critical, Commits, Outside
<1>4. CASE SaleCommit(p)
  BY <1>2, <1>4, Goes, LeavingTokens DEF SaleCommit
<1>5. CASE ~SaleCommit(p)
  <2>1. \E s, n : Went(p, s, n)
    <3>1. CASE SaleRead(p)
      BY <1>3, <3>1, Goes DEF SaleRead
    <3>2. CASE AdjustRead(p)
      BY <1>3, <3>2, Goes DEF AdjustRead
    <3>3. CASE AdjustCommit(p)
      BY <3>3, Goes DEF AdjustCommit
    <3>4. CASE WebhookSet(p)
      BY <3>4, Goes DEF WebhookSet
    <3>5. CASE WebhookRead(p)
      BY <1>3, <3>5, Goes DEF WebhookRead
    <3>6. CASE WebhookCommit(p)
      BY <3>6, Goes DEF WebhookCommit
    <3>7. QED
      BY <1>5, <3>1, <3>2, <3>3, <3>4, <3>5, <3>6
  <2>2. QED
    BY <1>1, <1>2, <2>1, OtherTokens
<1>6. QED
  BY <1>4, <1>5

\* A new order: a request takes it in hand.  A retry is never asked for.
LEMMA RequestTokens ==
  ASSUME MaxRetries = 0, TypeOK, CallShape, Tokens, NEW p \in Slots, Request(p)
  PROVE  Tokens'
<1>1. ASSUME NEW o \in Orders, CreateOrder(p, o)
      PROVE  Tokens'
  <2>1. status[o] = "NONE" /\ status' = [status EXCEPT ![o] = "CREATED"]
        /\ UNCHANGED <<waiting, pushed>>
    BY <1>1 DEF CreateOrder, queue
  <2>2. status'[o] = "CREATED" /\ \A x \in Orders \ {o} : status'[x] = status[x]
    BY <2>1 DEF TypeOK
  <2>3. Others(p)
    BY <1>1, Goes DEF CreateOrder
  <2>4. /\ call'[p].op = "create" /\ call'[p].order = o
        /\ call'[p].pc = "acquire" /\ call'[p].next = "reserveRead"
    BY <1>1 DEF CreateOrder, Goto, Locking, NewCall, Idle, TypeOK
  <2>5. ASSUME NEW q \in Slots
        PROVE  ~Token(call[q], o)
    <3>1. CreateAt(call[q]) /\ JobAt(call[q])
      BY DEF Tokens
    <3>2. call[q].order = o /\ call[q].op = "create" => call[q].pc = "queuedAt"
      BY <2>1, <3>1 DEF CreateAt
    <3>3. call[q].order = o => call[q].op # "job"
      BY <2>1, <3>1 DEF JobAt, Started
    <3>4. QED
      BY <3>2, <3>3 DEF Token
  <2>6. \A j \in waiting : j.order \in Orders /\ j.order # o
    BY <2>1 DEF Tokens, TypeOK, Job, Started
  <2>7. ASSUME NEW q \in Slots
        PROVE  (call[q].op # "retry" /\ CreateAt(call[q]) /\ JobAt(call[q]))'
    <3>1. CASE q = p
      BY <2>2, <2>4, <3>1 DEF CreateAt, JobAt
    <3>2. CASE q # p
      <4>1. /\ call'[q] = call[q] /\ ~Token(call[q], o)
            /\ call[q].op # "retry" /\ CreateAt(call[q]) /\ JobAt(call[q])
        BY <2>3, <2>5, <3>2 DEF Others, Tokens
      <4>2. CreateAt(call[q])'
        <5>1. call[q].op = "create" /\ call[q].pc # "queuedAt" =>
                 call[q].order \in Orders /\ call[q].order # o
          BY <4>1, TokenFacts DEF Token
        <5>2. QED
          BY <2>2, <4>1, <5>1 DEF CreateAt
      <4>3. JobAt(call[q])'
        <5>1. call[q].op = "job" => call[q].order \in Orders /\ call[q].order # o
          BY <4>1, TokenFacts DEF Token
        <5>2. QED
          BY <2>1, <2>2, <4>1, <5>1 DEF JobAt
      <4>4. QED
        BY <4>1, <4>2, <4>3
    <3>3. QED
      BY <3>1, <3>2
  <2>8. OneHolder'
    <3>1. \A q \in Slots : \A x \in Orders : Token(call[q], x)' <=> Token(call'[q], x)
      BY DEF Token
    <3>2. \A x \in Orders : Token(call'[p], x) => x = o
      BY <2>4 DEF Token
    <3>3. \A q \in Slots \ {p} : call'[q] = call[q]
      BY <2>3 DEF Others
    <3>4. \A q, r \in Slots : \A x \in Orders :
             Token(call'[q], x) /\ Token(call'[r], x) => q = r
      BY <2>5, <3>2, <3>3 DEF Tokens, OneHolder
    <3>5. \A q \in Slots : \A j \in waiting : ~Token(call'[q], j.order)
      BY <2>6, <3>2, <3>3 DEF Tokens, OneHolder
    <3>6. QED
      BY <2>1, <3>1, <3>4, <3>5 DEF Tokens, OneHolder
  <2>9. \A j \in waiting' : status'[j.order] \in Started
    BY <2>1, <2>2, <2>6 DEF Tokens
  <2>10. QED
    BY <2>7, <2>8, <2>9 DEF Tokens
<1>2. ASSUME NEW o \in Orders, RetryOrder(p, o)
      PROVE  FALSE
  BY <1>2 DEF RetryOrder, TypeOK
<1>3. ASSUME NEW k \in Skus, NEW n,
             StartAdjust(p, k, n) \/ StartWebhook(p, k, n) \/ StartSale(p, k, n)
      PROVE  Tokens'
  <2>1. call'[p].op \in {"adjust", "webhook", "sale"}
    BY <1>3 DEF StartAdjust, StartWebhook, StartSale, Goto, Locking, At, NewCall, Idle, TypeOK
  <2>2. UNCHANGED <<status, waiting, pushed>> /\ Others(p)
    BY <1>3, Goes DEF StartAdjust, StartWebhook, StartSale, table, queue
  <2>3. QED
    BY <2>1, <2>2, StockToken, QuietTokens
<1>4. QED
  BY <1>1, <1>2, <1>3 DEF Request

\* A worker takes the order's job in hand.
LEMMA TakeTokens ==
  ASSUME TypeOK, CallShape, Tokens, NEW p \in Slots, NEW j \in waiting, TakeJob(p, j)
  PROVE  Tokens'
<1> DEFINE o == j.order
<1>1. o \in Orders /\ status[o] \in Started
  BY DEF TypeOK, Job, Tokens
<1>2. UNCHANGED <<status, pushed>> /\ Others(p) /\ waiting' = waiting \ {j}
  BY Goes DEF TakeJob, table
<1>3. \/ call'[p] = Idle
      \/ /\ call'[p].op = "job" /\ call'[p].order = o
         /\ \/ call'[p].pc = "acquire" /\ call'[p].next = "confirmRead"
            \/ call'[p].pc = "push" /\ status[o] = "CONFIRMED"
  BY DEF TakeJob, Goto, Locking, At, NewCall, Idle, TypeOK
<1>4. /\ call'[p].op # "retry" /\ CreateAt(call'[p]) /\ JobAt(call'[p])
      /\ \A x \in Orders : Token(call'[p], x) => x = o
  <2>1. CASE call'[p] = Idle
    BY <2>1, IdleToken
  <2>2. CASE call'[p] # Idle
    BY <1>1, <1>3, <2>2 DEF CreateAt, JobAt, JobPCs, Pushing, Token
  <2>3. QED
    BY <2>1, <2>2
<1>5. \A q \in Slots \ {p} : call'[q] = call[q]
  BY <1>2 DEF Others
<1>6. ASSUME NEW q \in Slots
      PROVE  call'[q].op # "retry" /\ CreateAt(call'[q]) /\ JobAt(call'[q])
  BY <1>4, <1>5 DEF Tokens
<1>7. \A q \in Slots : (call[q].op # "retry" /\ CreateAt(call[q]) /\ JobAt(call[q]))'
  BY <1>2, <1>6 DEF CreateAt, JobAt
<1>8. OneHolder'
  <2>1. \A q \in Slots : \A x \in Orders : Token(call[q], x)' <=> Token(call'[q], x)
    BY DEF Token
  <2>2. \A i \in waiting' : i \in waiting /\ i.order \in Orders /\ i.order # o
    BY <1>2 DEF Tokens, OneHolder, TypeOK, Job
  <2>3. \A q, r \in Slots : \A x \in Orders :
          Token(call'[q], x) /\ Token(call'[r], x) => q = r
    BY <1>4, <1>5 DEF Tokens, OneHolder
  <2>4. \A q \in Slots : \A i \in waiting' : ~Token(call'[q], i.order)
    BY <1>4, <1>5, <2>2 DEF Tokens, OneHolder
  <2>5. QED
    BY <2>1, <2>2, <2>3, <2>4 DEF Tokens, OneHolder
<1>9. QED
  BY <1>2, <1>7, <1>8 DEF Tokens

\* A job that fails keeps its order, one that dies gives it back or has stalled
\* too often; create() does not fail and one that dies leaves its order to
\* nobody.
LEMMA FailTokens ==
  ASSUME "create" \notin Fragile, TypeOK, CallShape, Tokens, NEW p \in Slots,
         Fault(p) \/ Crash(p)
  PROVE  Tokens'
<1> DEFINE c == call[p]
<1>1. c \in Call /\ c.op # "retry" /\ CreateAt(c) /\ JobAt(c)
  BY TokenFacts
<1>2. UNCHANGED <<status, pushed>> /\ Others(p)
  BY Goes DEF Fault, Crash, table
<1>3. CASE Fault(p)
  <2>1. c.op # "create" /\ UNCHANGED waiting
    BY <1>3 DEF Fault, queue
  <2>2. Went(p, "unlock", "throw") \/ Went(p, "throw", "idle")
    BY <1>3, PCSets, Goes DEF Fault
  <2>3. CASE c.op = "job"
    <3>1. CreateAt(call'[p]) /\ JobAt(call'[p])
      BY <1>1, <2>2, <2>3 DEF CreateAt, JobAt, Went, JobPCs, Pushing
    <3>2. c.pc # "queuedAt"
      BY <1>1, <2>3 DEF JobAt, JobPCs, Pushing
    <3>3. QED
      BY <1>2, <2>1, <2>2, <3>1, <3>2, GoingTokens
  <2>4. CASE c.op # "job"
    BY <1>2, <2>1, <2>2, <2>4, OtherTokens
  <2>5. QED
    BY <2>3, <2>4
<1>4. CASE Crash(p)
  <2>1. call'[p] = Idle
    BY <1>4, Goes DEF Crash
  <2>2. CASE c.op = "job" /\ c.stalls < StallLimit
    <3> DEFINE i == [JobOf(c) EXCEPT !.stalls = @ + 1]
    <3>1. i \in Job /\ i.order = c.order
      BY <1>1, <2>2, OrderJob DEF JobOf, OrderOps
    <3>2. Token(c, c.order) /\ status[c.order] \in Started
      BY <1>1, <2>2 DEF Token, JobAt
    <3>3. waiting' = waiting \cup {i}
      <4>1. c.stalls \in Nat /\ StallLimit \in Nat
        BY <1>1, HybridAssumption DEF Call, HybridAssumption
      <4>2. QED
        BY <1>4, <2>2, <4>1 DEF Crash
    <3>4. QED
      <4> HIDE DEF i
      <4>1. QED
        BY <1>2, <2>1, <3>1, <3>2, <3>3, IdleToken, GivenTokens
  <2>3. CASE UNCHANGED waiting
    BY <1>2, <2>1, <2>3, LeavingTokens
  <2>4. QED
    BY <1>4, <2>2, <2>3 DEF Crash
<1>5. QED
  BY <1>3, <1>4

LEMMA InitTokens == Init => Tokens
<1> SUFFICES ASSUME Init PROVE Tokens
  OBVIOUS
<1>1. \A p \in Slots : call[p] = Idle
  BY DEF Init
<1>2. waiting = {}
  BY DEF Init
<1>3. QED
  BY <1>1, <1>2, IdleToken DEF Tokens, OneHolder

LEMMA NextTokens ==
  ASSUME MaxRetries = 0, "create" \notin Fragile, TypeOK, CallShape, Tokens, [Next]_vars
  PROVE  Tokens'
<1>1. CASE UNCHANGED <<status, waiting, pushed, call>>
  BY <1>1 DEF Tokens, OneHolder, Token, CreateAt, JobAt
<1>2. ASSUME NEW p \in Slots, Work(p)
      PROVE  Tokens'
  <2>1. ~ResetOrder(p)
    BY TokenFacts DEF ResetOrder
  <2>2. QED
    BY <1>2, <2>1, LockTokens, ReadTokens, CommitTokens, CatchTokens, EnqueueTokens,
       PushTokens, StockTokens DEF Work
<1>3. ASSUME NEW p \in Slots, Request(p) \/ Fault(p) \/ Crash(p)
      PROVE  Tokens'
  BY <1>3, RequestTokens, FailTokens
<1>4. ASSUME NEW k \in Skus, CreateProduct(k) \/ OrphanExpires(k) \/ HeldExpires(k)
      PROVE  Tokens'
  BY <1>1, <1>4 DEF CreateProduct, OrphanExpires, HeldExpires, table, queue
<1>5. CASE UNCHANGED vars
  BY <1>1, <1>5 DEF vars, table, queue
<1>6. QED
  BY <1>2, <1>3, <1>4, <1>5, TakeTokens DEF Next

-----------------------------------------------------------------------------
(* What follows: an order only moves forward, and a sale is final, so what *)
(* the channel was told stays true.                                        *)

Forward == {<<"NONE", "CREATED">>, <<"CREATED", "RESERVED">>, <<"RESERVED", "CONFIRMED">>,
            <<"CREATED", "FAILED">>, <<"RESERVED", "FAILED">>, <<"FAILED", "FAILED">>}

MovesForward ==
  \A o \in Orders : status'[o] = status[o] \/ <<status[o], status'[o]>> \in Forward

\* Orders are pushed when they are sold and synced when they are pushed.
ToldInOrder ==
  /\ \A o \in pushed' \ pushed : status[o] = "CONFIRMED"
  /\ synced' \subseteq synced \cup pushed
  /\ pushed \subseteq pushed'

LEMMA StepForward ==
  ASSUME MaxRetries = 0, TypeOK, CallShape, Tokens, [Next]_vars
  PROVE  MovesForward /\ ToldInOrder
<1>1. CASE UNCHANGED <<status, pushed, synced>>
  BY <1>1 DEF MovesForward, ToldInOrder
<1>2. ASSUME NEW o \in Orders, NEW s, status' = [status EXCEPT ![o] = s],
             <<status[o], s>> \in Forward, UNCHANGED <<pushed, synced>>
      PROVE  MovesForward /\ ToldInOrder
  BY <1>2 DEF MovesForward, ToldInOrder, TypeOK
<1>3. ASSUME NEW p \in Slots, Work(p)
      PROVE  MovesForward /\ ToldInOrder
  <2> DEFINE c == call[p]
  <2>1. CreateAt(c) /\ JobAt(c) /\ (c.op \in {"create", "job"} => c.order \in Orders)
    BY TokenFacts
  <2>2. CASE ReserveCommit(p)
    <3>1. c.op = "create" /\ status[c.order] = "CREATED"
      BY <2>1, <2>2, TokenFacts DEF ReserveCommit, CreateAt
    <3>2. QED
      BY <1>2, <2>1, <2>2, <3>1 DEF ReserveCommit, Forward
  <2>3. CASE ConfirmCommit(p)
    <3>1. c.op = "job" /\ status[c.order] = "RESERVED"
      BY <2>1, <2>3, TokenFacts DEF ConfirmCommit, JobAt
    <3>2. QED
      BY <1>2, <2>1, <2>3, <3>1 DEF ConfirmCommit, Forward
  <2>4. CASE ReleaseCommit(p)
    <3>1. c.op = "job" /\ status[c.order] = "RESERVED"
      BY <2>1, <2>4, TokenFacts DEF ReleaseCommit, JobAt
    <3>2. QED
      BY <1>2, <2>1, <2>4, <3>1 DEF ReleaseCommit, Forward
  <2>5. CASE MarkFailed(p)
    <3>1. c.op \in {"create", "job"} /\ status[c.order] \in {"CREATED", "FAILED"}
      BY <2>1, <2>5, TokenFacts DEF MarkFailed, CreateAt, JobAt
    <3>2. QED
      BY <1>2, <2>1, <2>5, <3>1 DEF MarkFailed, Forward
  <2>6. CASE PushInsert(p)
    <3>1. status[c.order] = "CONFIRMED"
      BY <2>1, <2>6, TokenFacts DEF PushInsert, JobAt, Pushing
    <3>2. QED
      BY <2>6, <3>1 DEF PushInsert, MovesForward, ToldInOrder
  <2>7. CASE MarkSynced(p)
    <3>1. c.order \in pushed
      BY <2>1, <2>7, TokenFacts DEF MarkSynced, JobAt
    <3>2. QED
      BY <2>7, <3>1 DEF MarkSynced, MovesForward, ToldInOrder
  <2>8. ~ResetOrder(p)
    BY TokenFacts DEF ResetOrder
  <2>9. CASE Acquire(p) \/ LockBusy(p) \/ Release(p) \/ ReserveRead(p) \/ ConfirmRead(p)
             \/ ReleaseRead(p) \/ Terminal(p) \/ Catch(p) \/ MoveToDlq(p) \/ Enqueue(p)
             \/ QueuedAt(p) \/ PushOrder(p) \/ SyncRead(p)
    BY <1>1, <2>9 DEF Acquire, LockBusy, Release, ReserveRead, ConfirmRead, ReleaseRead,
         Terminal, Catch, MoveToDlq, Enqueue, QueuedAt, PushOrder, SyncRead, table
  <2>10. CASE SyncSet(p) \/ SaleRead(p) \/ SaleCommit(p) \/ AdjustRead(p) \/ AdjustCommit(p)
              \/ WebhookSet(p) \/ WebhookRead(p) \/ WebhookCommit(p)
    BY <1>1, <2>10 DEF SyncSet, SaleRead, SaleCommit, AdjustRead, AdjustCommit, WebhookSet,
         WebhookRead, WebhookCommit, table
  <2>11. QED
    BY <1>3, <2>2, <2>3, <2>4, <2>5, <2>6, <2>7, <2>8, <2>9, <2>10 DEF Work
<1>4. ASSUME NEW p \in Slots, Request(p)
      PROVE  MovesForward /\ ToldInOrder
  <2>1. ASSUME NEW o \in Orders, CreateOrder(p, o)
        PROVE  MovesForward /\ ToldInOrder
    BY <1>2, <2>1 DEF CreateOrder, Forward
  <2>2. CASE UNCHANGED table
    BY <1>1, <2>2 DEF table
  <2>3. QED
    BY <1>4, <2>1, <2>2 DEF Request, RetryOrder, StartAdjust, StartWebhook, StartSale
<1>5. CASE \E p \in Slots : Fault(p) \/ Crash(p)
  BY <1>1, <1>5 DEF Fault, Crash, table
<1>6. CASE \E p \in Slots, j \in waiting : TakeJob(p, j)
  BY <1>1, <1>6 DEF TakeJob, table
<1>7. CASE \E k \in Skus : CreateProduct(k) \/ OrphanExpires(k) \/ HeldExpires(k)
  BY <1>1, <1>7 DEF CreateProduct, OrphanExpires, HeldExpires, table
<1>8. CASE UNCHANGED vars
  BY <1>1, <1>8 DEF vars, table
<1>9. QED
  BY <1>3, <1>4, <1>5, <1>6, <1>7, <1>8 DEF Next

\* Without manual retries, and when create() does not fail after its job is
\* queued, two attempts at an order never undo each other: its status only goes
\* CREATED, RESERVED, CONFIRMED, or FAILED from one of the first two, even when
\* a lock expires under its holder (reserve, confirm, release and
\* handleTerminalFailure in hybrid-orders.service.ts).
THEOREM OrdersMoveForward ==
  ASSUME MaxRetries = 0, "create" \notin Fragile
  PROVE  Spec => [][MovesForward]_vars
<1> DEFINE Inv == TypeOK /\ CallShape /\ Tokens
<1>1. Init => Inv
  BY InitShape, InitTokens
<1>2. Inv /\ [Next]_vars => Inv'
  BY StepShape, NextTokens
<1>3. Inv /\ [Next]_vars => [MovesForward]_vars
  BY StepForward
<1>4. QED
  BY <1>1, <1>2, <1>3, PTL DEF Spec

\* Under the same conditions the channel is told of an order only once its
\* stock is sold, and the order is marked synced only once the channel has it.
THEOREM PushesFollowSales ==
  ASSUME MaxRetries = 0, "create" \notin Fragile
  PROVE  Spec => []PushAfterSale
<1> DEFINE Inv == TypeOK /\ CallShape /\ Tokens /\ PushAfterSale
<1>1. Init => Inv
  BY InitShape, InitTokens DEF Init, PushAfterSale
<1>2. Inv /\ [Next]_vars => Inv'
  <2> SUFFICES ASSUME Inv, [Next]_vars  PROVE Inv'
    OBVIOUS
  <2>1. (TypeOK /\ CallShape /\ Tokens)'
    BY StepShape, NextTokens
  <2>2. MovesForward /\ ToldInOrder
    BY StepForward
  <2>3. ASSUME NEW o \in pushed'  PROVE status'[o] = "CONFIRMED"
    <3>1. o \in Orders /\ status[o] = "CONFIRMED"
      BY <2>1, <2>2 DEF TypeOK, PushAfterSale, ToldInOrder
    <3>2. QED
      BY <2>2, <3>1 DEF MovesForward, Forward
  <2>4. synced' \subseteq pushed'
    BY <2>2 DEF PushAfterSale, ToldInOrder
  <2>5. QED
    BY <2>1, <2>3, <2>4 DEF PushAfterSale
<1>3. Inv => PushAfterSale
  OBVIOUS
<1>4. QED
  BY <1>1, <1>2, <1>3, PTL DEF Spec

-----------------------------------------------------------------------------
(* No reservation is stranded.  The property itself is not inductive: a     *)
(* call of the order may be one that will not look at the reservation again.*)
(* The strengthening names the statements from which a call will queue a    *)
(* job, confirm or release, or end in an exception that leaves the order    *)
(* behind.                                                                  *)

Carrying == {"enqueue", "confirmRead", "confirmCommit", "throw", "terminal",
             "releaseRead", "releaseCommit"}

\* Call c is going to queue, confirm or release the reservation of order o, or
\* to leave the order behind.
Carries(c, o) ==
  /\ c.order = o /\ c.op \in OrderOps
  /\ \/ c.pc \in Carrying
     \/ c.pc \in {"acquire", "unlock"} /\ c.next \in Carrying

Carried ==
  \A o \in Orders \ stranded : status[o] = "RESERVED" =>
     \/ \E j \in waiting : j.order = o
     \/ \E p \in Slots : Carries(call[p], o)

LEMMA CarryingPCs == Carrying \subseteq PCs \ {"idle", "acquire", "unlock"}
BY DEF Carrying, PCs, Critical, Reads, Commits, Outside

\* A step of call p that hands on what it carries.
LEMMA CarriedOn ==
  ASSUME Carried, NEW p \in Slots, Others(p), waiting \subseteq waiting',
         \A o \in Orders \ stranded' :
            /\ status'[o] = "RESERVED"
            /\ o \notin stranded /\ status[o] = "RESERVED" => Carries(call[p], o)
            => Carries(call'[p], o) \/ \E j \in waiting' : j.order = o
  PROVE  Carried'
<1> SUFFICES ASSUME NEW o \in Orders \ stranded', status'[o] = "RESERVED"
             PROVE  \/ \E j \in waiting' : j.order = o
                    \/ \E q \in Slots : Carries(call'[q], o)
  BY DEF Carried, Carries
<1>1. CASE o \notin stranded /\ status[o] = "RESERVED" => Carries(call[p], o)
  BY <1>1
<1>2. CASE \E j \in waiting : j.order = o
  BY <1>2
<1>3. CASE \E q \in Slots \ {p} : Carries(call[q], o)
  BY <1>3 DEF Others
<1>4. QED
  BY <1>1, <1>2, <1>3 DEF Carried

LEMMA LockCarried ==
  ASSUME TypeOK, CallShape, Carried, NEW p \in Slots,
         Acquire(p) \/ LockBusy(p) \/ Release(p)
  PROVE  Carried'
<1> DEFINE c == call[p]
<1>1. UNCHANGED <<status, waiting, stranded>> /\ Others(p) /\ Shape(c)
  BY Goes DEF Acquire, LockBusy, Release, table, queue, CallShape
<1>2. CASE Acquire(p) \/ Release(p)
  <2>1. c.pc \in {"acquire", "unlock"} /\ Goto(p, At(c, c.next))
    BY <1>2 DEF Acquire, Release
  <2>2. c.next \in Carrying => Went(p, c.next, "idle")
    BY <2>1, Goes, CarryingPCs
  <2>3. \A o \in Orders : Carries(c, o) => Carries(call'[p], o)
    BY <2>1, <2>2, CarryingPCs DEF Carries, Went
  <2>4. QED
    BY <1>1, <2>3, CarriedOn
<1>3. CASE LockBusy(p)
  <2>1. Went(p, "throw", "idle")
    BY <1>3, Goes, PCSets DEF LockBusy
  <2>2. \A o \in Orders : Carries(c, o) => Carries(call'[p], o)
    BY <2>1 DEF Carries, Went, Carrying
  <2>3. QED
    BY <1>1, <2>2, CarriedOn
<1>4. QED
  BY <1>2, <1>3

LEMMA OrderCarried ==
  ASSUME TypeOK, CallShape, Carried, NEW p \in Slots,
         \/ ReserveCommit(p) \/ ConfirmRead(p) \/ ConfirmCommit(p) \/ ReleaseRead(p)
         \/ ReleaseCommit(p) \/ Terminal(p) \/ Enqueue(p)
  PROVE  Carried'
<1> DEFINE c == call[p]
<1>1. /\ Others(p) /\ waiting \subseteq waiting' /\ status \in [Orders -> Status]
      /\ ~Enqueue(p) => UNCHANGED stranded
  BY Goes DEF ReserveCommit, ConfirmRead, ConfirmCommit, ReleaseRead, ReleaseCommit, Terminal,
              Enqueue, queue, TypeOK
<1>2. {"confirmCommit", "releaseCommit", "queuedAt"} \subseteq PCs \ {"idle"}
  BY DEF PCs, Critical, Commits, Outside
<1>3. CASE ReserveCommit(p)
  <2>1. Went(p, "unlock", "enqueue")
    BY <1>3, Goes DEF ReserveCommit
  <2>2. status' = [status EXCEPT ![c.order] = "RESERVED"]
    BY <1>3 DEF ReserveCommit
  <2>3. Carries(call'[p], c.order) /\ UNCHANGED stranded
    BY <1>3, <2>1 DEF Carries, Went, ReserveCommit, CallShape, Shape, OrderPCs, Carrying, queue
  <2>4. \A o \in Orders : o # c.order => status'[o] = status[o]
    BY <1>1, <2>2
  <2>5. \A o : ~Carries(c, o)
    BY <1>3 DEF Carries, ReserveCommit, Carrying
  <2>6. QED
    BY <1>1, <2>3, <2>4, <2>5, CarriedOn
<1>4. CASE ConfirmRead(p)
  <2>1. Went(p, "confirmCommit", "idle") \/ Went(p, "unlock", "throw")
    BY <1>2, <1>4, Goes DEF ConfirmRead
  <2>2. UNCHANGED <<status, stranded>>
    BY <1>4 DEF ConfirmRead, table, queue
  <2>3. \A o \in Orders : Carries(c, o) => Carries(call'[p], o)
    BY <2>1 DEF Carries, Went, Carrying
  <2>4. QED
    BY <1>1, <2>2, <2>3, CarriedOn
<1>5. CASE ConfirmCommit(p) \/ ReleaseCommit(p)
  <2>1. PICK s \in {"CONFIRMED", "FAILED"} : status' = [status EXCEPT ![c.order] = s]
    BY <1>5 DEF ConfirmCommit, ReleaseCommit
  <2>2. \A o \in Orders : status'[o] = "RESERVED" => o # c.order /\ status[o] = "RESERVED"
    BY <1>1, <2>1
  <2>3. \A o : Carries(c, o) => o = c.order
    BY DEF Carries
  <2>4. UNCHANGED stranded
    BY <1>5 DEF ConfirmCommit, ReleaseCommit, queue
  <2>5. QED
    BY <1>1, <2>2, <2>3, <2>4, CarriedOn
<1>6. CASE ReleaseRead(p)
  <2>1. UNCHANGED <<status, stranded>>
    BY <1>6 DEF ReleaseRead, table, queue
  <2>2. status[c.order] = "RESERVED" => Went(p, "releaseCommit", "idle")
    BY <1>2, <1>6, Goes DEF ReleaseRead
  <2>3. \A o \in Orders : status[o] = "RESERVED" /\ Carries(c, o) => Carries(call'[p], o)
    BY <2>2 DEF Carries, Went, Carrying
  <2>4. QED
    BY <1>1, <2>1, <2>3, CarriedOn
<1>7. CASE Terminal(p)
  <2>1. UNCHANGED <<status, stranded>>
    BY <1>7 DEF Terminal, table, queue
  <2>2. status[c.order] = "RESERVED" => Went(p, "acquire", "releaseRead")
    BY <1>7, Goes DEF Terminal
  <2>3. \A o \in Orders : status[o] = "RESERVED" /\ Carries(c, o) => Carries(call'[p], o)
    BY <2>2 DEF Carries, Went, Carrying
  <2>4. QED
    BY <1>1, <2>1, <2>3, CarriedOn
<1>8. CASE Enqueue(p)
  <2>1. /\ UNCHANGED status /\ stranded' = stranded \ {c.order}
        /\ JobOf(c) \in waiting' /\ JobOf(c).order = c.order
    BY <1>8 DEF Enqueue, table, JobOf
  <2>2. \A o \in Orders : Carries(c, o) => o = c.order
    BY DEF Carries
  <2>3. QED
    BY <1>1, <2>1, <2>2, CarriedOn
<1>9. QED
  BY <1>3, <1>4, <1>5, <1>6, <1>7, <1>8

\* An order is left behind or has a job.
LEMMA LeftBehind ==
  ASSUME NEW c, NEW o \in Orders, c.order = o
  PROVE  o \in Behind(c) \/ \E j \in waiting : j.order = o
BY DEF Behind

LEMMA CatchCarried ==
  ASSUME TypeOK, CallShape, Carried, NEW p \in Slots, Catch(p)
  PROVE  Carried'
<1> DEFINE c == call[p]
<1>1. /\ Others(p) /\ waiting \subseteq waiting' /\ UNCHANGED status
      /\ c \in Call /\ call \in [Slots -> Call] /\ c.pc = "throw"
      /\ stranded \subseteq stranded'
  BY Goes DEF Catch, table, TypeOK
<1>2. SUFFICES ASSUME NEW o \in Orders \ stranded', Carries(c, o)
               PROVE  Carries(call'[p], o) \/ \E j \in waiting' : j.order = o
  BY <1>1, CarriedOn
<1>3. c.op \in OrderOps /\ c.order = o
  BY <1>2 DEF Carries
<1>4. CASE Goto(p, [At(Failing(c), "terminal") EXCEPT !.amount = 0])
  BY <1>1, <1>3, <1>4 DEF Goto, At, Failing, Carries, Call, Carrying
<1>5. CASE waiting' = waiting \cup {[JobOf(c) EXCEPT !.made = @ + 1]}
  <2>1. [JobOf(c) EXCEPT !.made = @ + 1].order = o
    BY <1>3 DEF JobOf
  <2>2. QED
    BY <1>5, <2>1
<1>6. CASE stranded' = stranded \cup Behind(c) /\ UNCHANGED waiting
  BY <1>3, <1>6, LeftBehind
<1>7. QED
  BY <1>4, <1>5, <1>6 DEF Catch

\* A failing statement throws: what the call carried goes to its handler.
LEMMA FaultCarried ==
  ASSUME TypeOK, CallShape, Carried, NEW p \in Slots, Fault(p)
  PROVE  Carried'
<1>1. /\ Others(p) /\ UNCHANGED <<status, waiting, stranded>>
      /\ \/ Goto(p, Unlocking(call[p], "throw"))
         \/ Goto(p, At(call[p], "throw"))
  BY Goes DEF Fault, table, queue
<1>2. Went(p, "throw", "idle") \/ Went(p, "unlock", "throw")
  BY <1>1, Goes, PCSets
<1>3. \A o \in Orders : Carries(call[p], o) => Carries(call'[p], o)
  BY <1>2 DEF Carries, Went, Carrying
<1>4. QED
  BY <1>1, <1>3, CarriedOn

\* A dying process hands its job to another worker or leaves the order behind.
LEMMA CrashCarried ==
  ASSUME TypeOK, CallShape, Carried, NEW p \in Slots, Crash(p)
  PROVE  Carried'
<1> DEFINE c == call[p]
<1>1. /\ Others(p) /\ waiting \subseteq waiting' /\ UNCHANGED status
      /\ stranded \subseteq stranded'
  BY Goes DEF Crash, table
<1>2. SUFFICES ASSUME NEW o \in Orders \ stranded', Carries(c, o)
               PROVE  \E j \in waiting' : j.order = o
  BY <1>1, CarriedOn
<1>3. c.order = o /\ c.pc # "queuedAt"
  BY <1>2 DEF Carries, Carrying
<1>4. CASE waiting' = waiting \cup {[JobOf(c) EXCEPT !.stalls = @ + 1]}
  <2>1. [JobOf(c) EXCEPT !.stalls = @ + 1].order = o
    BY <1>3 DEF JobOf
  <2>2. QED
    BY <1>4, <2>1
<1>5. CASE stranded' = stranded \cup Behind(c) /\ UNCHANGED waiting
  BY <1>3, <1>5, LeftBehind
<1>6. QED
  BY <1>3, <1>4, <1>5 DEF Crash

\* A call at a statement that carries no reservation reserves nothing.
LEMMA LightCarried ==
  ASSUME TypeOK, CallShape, Carried, NEW p \in Slots,
         \/ ReserveRead(p) \/ MarkFailed(p) \/ MoveToDlq(p) \/ ResetOrder(p) \/ QueuedAt(p)
         \/ PushOrder(p) \/ PushInsert(p) \/ SyncRead(p) \/ SyncSet(p) \/ MarkSynced(p)
         \/ SaleRead(p) \/ SaleCommit(p) \/ AdjustRead(p) \/ AdjustCommit(p)
         \/ WebhookSet(p) \/ WebhookRead(p) \/ WebhookCommit(p)
  PROVE  Carried'
<1> DEFINE c == call[p]
           Light == {"reserveRead", "markFailed", "dlq", "reset", "queuedAt", "push",
                     "pushInsert", "syncRead", "syncSet", "markSynced", "saleRead",
                     "saleCommit", "adjustRead", "adjustCommit", "webhookSet",
                     "webhookRead", "webhookCommit"}
<1>1. Others(p) /\ UNCHANGED <<waiting, stranded>>
  BY Goes DEF ReserveRead, MarkFailed, MoveToDlq, ResetOrder, QueuedAt, PushOrder, PushInsert,
       SyncRead, SyncSet, MarkSynced, SaleRead, SaleCommit, AdjustRead, AdjustCommit,
       WebhookSet, WebhookRead, WebhookCommit, queue
<1>2. c.pc \in Light
  BY DEF ReserveRead, MarkFailed, MoveToDlq, ResetOrder, QueuedAt, PushOrder, PushInsert,
       SyncRead, SyncSet, MarkSynced, SaleRead, SaleCommit, AdjustRead, AdjustCommit,
       WebhookSet, WebhookRead, WebhookCommit
<1>3. \A o : ~Carries(c, o)
  BY <1>2 DEF Carries, Carrying
<1>4. \A o \in Orders : status'[o] = "RESERVED" => status[o] = "RESERVED"
  <2>1. CASE MarkFailed(p) \/ ResetOrder(p)
    BY <2>1 DEF MarkFailed, ResetOrder, TypeOK
  <2>2. CASE UNCHANGED status
    BY <2>2
  <2>3. QED
    BY <2>1, <2>2 DEF ReserveRead, MoveToDlq, QueuedAt, PushOrder, PushInsert,
         SyncRead, SyncSet, MarkSynced, SaleRead, SaleCommit, AdjustRead, AdjustCommit,
         WebhookSet, WebhookRead, WebhookCommit, table
<1>5. QED
  BY <1>1, <1>3, <1>4, CarriedOn

\* An idle slot carries nothing, so it may start anything.
LEMMA RequestCarried ==
  ASSUME TypeOK, Carried, NEW p \in Slots, Request(p)
  PROVE  Carried'
<1>1. call[p] = Idle /\ Others(p) /\ UNCHANGED <<waiting, stranded>>
  BY Goes DEF Request, CreateOrder, RetryOrder, StartAdjust, StartWebhook, StartSale, queue
<1>2. \A o : ~Carries(call[p], o)
  BY <1>1 DEF Idle, Carries, OrderOps
<1>3. \A o \in Orders : status'[o] = "RESERVED" => status[o] = "RESERVED"
  BY DEF Request, CreateOrder, RetryOrder, StartAdjust, StartWebhook, StartSale, table, TypeOK
<1>4. QED
  BY <1>1, <1>2, <1>3, CarriedOn

LEMMA TakeCarried ==
  ASSUME TypeOK, Carried, NEW p \in Slots, NEW j \in waiting, TakeJob(p, j)
  PROVE  Carried'
<1>1. /\ call[p] = Idle /\ Others(p) /\ waiting' = waiting \ {j}
      /\ UNCHANGED <<status, stranded>>
  BY Goes DEF TakeJob, table
<1>2. \A o : ~Carries(call[p], o)
  BY <1>1 DEF Idle, Carries, OrderOps
<1>3. status[j.order] = "RESERVED" => Carries(call'[p], j.order)
  BY DEF TakeJob, Goto, Locking, NewCall, Idle, Carries, TypeOK, OrderOps, Carrying
<1>4. ASSUME NEW o \in Orders \ stranded', status'[o] = "RESERVED"
      PROVE  \/ \E i \in waiting' : i.order = o
             \/ \E q \in Slots : Carries(call'[q], o)
  <2>1. CASE \E i \in waiting : i.order = o
    BY <1>1, <1>3, <1>4, <2>1
  <2>2. CASE \E q \in Slots : Carries(call[q], o)
    BY <1>1, <1>2, <2>2 DEF Others
  <2>3. QED
    BY <1>1, <1>4, <2>1, <2>2 DEF Carried
<1>5. QED
  BY <1>4 DEF Carried, Carries

LEMMA NextCarried ==
  ASSUME TypeOK, CallShape, Carried, [Next]_vars
  PROVE  Carried'
<1>1. CASE UNCHANGED <<status, waiting, stranded, call>>
  BY <1>1 DEF Carried, Carries
<1>2. ASSUME NEW p \in Slots, Work(p) \/ Request(p) \/ Fault(p) \/ Crash(p)
      PROVE  Carried'
  BY <1>2, LockCarried, OrderCarried, CatchCarried, LightCarried, RequestCarried,
     FaultCarried, CrashCarried DEF Work
<1>3. ASSUME NEW p \in Slots, NEW j \in waiting, TakeJob(p, j)
      PROVE  Carried'
  BY <1>3, TakeCarried
<1>4. ASSUME NEW k \in Skus, CreateProduct(k) \/ OrphanExpires(k) \/ HeldExpires(k)
      PROVE  Carried'
  BY <1>1, <1>4 DEF CreateProduct, OrphanExpires, HeldExpires, table, queue
<1>5. CASE UNCHANGED vars
  BY <1>1, <1>5 DEF vars, table, queue
<1>6. QED
  BY <1>2, <1>3, <1>4, <1>5 DEF Next

\* Whatever retries are asked for, whichever statements fail, processes die and
\* locks expire or stay busy, every reserved order that was not left behind has
\* a waiting job or a call that will confirm or release it; an order is left
\* behind only when a call about it ends and no job of it waits.
THEOREM ReservationsNeverStranded == Spec => []NoStrandedReservation
<1> DEFINE Inv == TypeOK /\ CallShape /\ Carried
<1>1. Init => Inv
  BY InitShape DEF Init, Carried
<1>2. Inv /\ [Next]_vars => Inv'
  BY StepShape, NextCarried
<1>3. Inv => NoStrandedReservation
  BY DEF Carried, Carries, NoStrandedReservation
<1>4. QED
  BY <1>1, <1>2, <1>3, PTL DEF Spec

-----------------------------------------------------------------------------
(* Sums over finite sets.  The prover sees SumFunctionOnSet as a choice of a *)
(* recursive function, so that its existence comes first.                    *)

Pick(s) == CHOOSE x \in s : TRUE

\* g adds f over every subset of S.
Adds(g, f, S) ==
  g = [s \in SUBSET S |-> IF s = {} THEN 0 ELSE f[Pick(s)] + g[s \ {Pick(s)}]]

LEMMA SumDef ==
  ASSUME NEW f, NEW S
  PROVE  SumFunctionOnSet(f, S) = (CHOOSE g : Adds(g, f, S))[S]
BY DEF SumFunctionOnSet, FoldFunctionOnSet, MapThenFoldSet, Adds, Pick

\* Of a nonempty set of finite sets one is smallest.
LEMMA Smallest ==
  ASSUME NEW B, B # {}, \A s \in B : IsFiniteSet(s)
  PROVE  \E s \in B : \A t \in B : ~(Cardinality(t) < Cardinality(s))
<1> DEFINE T == {Cardinality(s) : s \in B}
           R == OpToRel(<, Nat)
<1>1. T \subseteq Nat /\ T # {}
  BY FS_CardinalityType
<1>2. PICK n \in T : \A m \in T : ~(<<m, n>> \in R)
  <2>1. IsWellFoundedOn(R, Nat)
    BY NatLessThanWellFounded
  <2> HIDE DEF R, T
  <2>2. QED
    BY <1>1, <2>1, WFMin, Zenon
<1>3. PICK s \in B : n = Cardinality(s)
  OBVIOUS
<1>4. ASSUME NEW t \in B PROVE ~(Cardinality(t) < Cardinality(s))
  <2>1. Cardinality(t) \in T /\ Cardinality(t) \in Nat /\ n \in Nat
    BY <1>1
  <2>2. QED
    BY <1>2, <1>3, <2>1 DEF OpToRel
<1>5. QED
  BY <1>4

\* Two functions that add f do so alike.
LEMMA AddsAlike ==
  ASSUME NEW f, NEW S, NEW T, NEW g, NEW h, Adds(g, f, S), Adds(h, f, T),
         NEW s \in SUBSET (S \cap T), IsFiniteSet(s)
  PROVE  g[s] = h[s]
<1> DEFINE B == {u \in SUBSET s : g[u] # h[u]}
<1>1. ASSUME NEW u \in SUBSET s
      PROVE  /\ g[u] = IF u = {} THEN 0 ELSE f[Pick(u)] + g[u \ {Pick(u)}]
             /\ h[u] = IF u = {} THEN 0 ELSE f[Pick(u)] + h[u \ {Pick(u)}]
  BY <1>1 DEF Adds
<1>2. SUFFICES ASSUME B # {} PROVE FALSE
  BY <1>2
<1>3. \A u \in B : IsFiniteSet(u)
  BY FS_Subset
<1>4. PICK u \in B : \A t \in B : ~(Cardinality(t) < Cardinality(u))
  <2> HIDE DEF B
  <2>1. QED
    BY <1>2, <1>3, Smallest
<1>5. u # {} /\ Pick(u) \in u
  BY <1>1, <1>4 DEF Pick
<1>6. g[u \ {Pick(u)}] # h[u \ {Pick(u)}] /\ u \ {Pick(u)} \in SUBSET s
  BY <1>1, <1>4, <1>5
<1>7. Cardinality(u \ {Pick(u)}) = Cardinality(u) - 1 /\ Cardinality(u) \in Nat
  BY <1>3, <1>4, <1>5, FS_RemoveElement, FS_CardinalityType
<1>8. QED
  BY <1>4, <1>6, <1>7

Added(f, S) == CHOOSE g : Adds(g, f, S)

\* There is such a function.
LEMMA AddsExists ==
  ASSUME NEW f, NEW S, IsFiniteSet(S)
  PROVE  Adds(Added(f, S), f, S)
<1> DEFINE B == {s \in SUBSET S : ~Adds(Added(f, s), f, s)}
<1>1. SUFFICES ASSUME B # {} PROVE FALSE
  BY <1>1
<1>2. \A s \in SUBSET S : IsFiniteSet(s)
  BY FS_Subset
<1>3. PICK s \in B : \A t \in B : ~(Cardinality(t) < Cardinality(s))
  <2>1. \A u \in B : IsFiniteSet(u)
    BY <1>2
  <2> HIDE DEF B
  <2>2. QED
    BY <1>1, <2>1, Smallest
<1>4. s \in SUBSET S /\ ~Adds(Added(f, s), f, s)
  BY <1>3
<1> DEFINE Rest(u) == u \ {Pick(u)}
           g == [u \in SUBSET s |->
                   IF u = {} THEN 0 ELSE f[Pick(u)] + Added(f, Rest(u))[Rest(u)]]
<1>5. ASSUME NEW u \in SUBSET s, u # {}
      PROVE  Rest(u) \in SUBSET s /\ Adds(Added(f, Rest(u)), f, Rest(u))
  <2>1. Pick(u) \in u
    BY <1>5 DEF Pick
  <2>2. Rest(u) \in SUBSET S /\ Rest(u) \in SUBSET s
    BY <1>4
  <2>3. Cardinality(Rest(u)) = Cardinality(u) - 1 /\ Cardinality(u) \in Nat
    BY <1>2, <1>4, <2>1, FS_RemoveElement, FS_CardinalityType
  <2>4. Cardinality(u) <= Cardinality(s) /\ Cardinality(s) \in Nat
    BY <1>2, <1>4, FS_Subset, FS_CardinalityType
  <2>5. Rest(u) \notin B
    BY <1>3, <2>3, <2>4
  <2>6. QED
    BY <2>2, <2>5
<1>6. ASSUME NEW u \in SUBSET s, u # {}
      PROVE  g[Rest(u)] = Added(f, Rest(u))[Rest(u)]
  <2>1. CASE Rest(u) = {}
    <3>1. Adds(Added(f, Rest(u)), f, Rest(u)) /\ Rest(u) \in SUBSET s
      BY <1>5, <1>6
    <3>2. QED
      BY <2>1, <3>1 DEF Adds
  <2>2. CASE Rest(u) # {}
    <3> DEFINE v == Rest(u)
    <3>1. v \in SUBSET s /\ Adds(Added(f, v), f, v)
      BY <1>5, <1>6
    <3>2. Rest(v) \in SUBSET v /\ Rest(v) \in SUBSET s /\ Adds(Added(f, Rest(v)), f, Rest(v))
      BY <1>5, <2>2, <3>1
    <3>3. Added(f, v)[v] = f[Pick(v)] + Added(f, v)[Rest(v)]
      BY <2>2, <3>1 DEF Adds
    <3>4. Added(f, v)[Rest(v)] = Added(f, Rest(v))[Rest(v)]
      <4>1. IsFiniteSet(Rest(v))
        BY <1>2, <1>4, <3>2
      <4>2. Rest(v) \in SUBSET (v \cap Rest(v))
        BY <3>2
      <4> HIDE DEF v, Rest
      <4>3. QED
        BY <3>1, <3>2, <4>1, <4>2, AddsAlike
    <3>5. g[v] = f[Pick(v)] + Added(f, Rest(v))[Rest(v)]
      BY <2>2, <3>1
    <3>6. QED
      BY <3>3, <3>4, <3>5
  <2>3. QED
    BY <2>1, <2>2
<1>7. Adds(g, f, s)
  BY <1>6 DEF Adds
<1>8. QED
  <2> HIDE DEF g
  <2>1. QED
    BY <1>4, <1>7 DEF Added

LEMMA SumOfNothing ==
  ASSUME NEW f
  PROVE  SumFunctionOnSet(f, {}) = 0
BY SumDef, AddsExists, FS_EmptySet DEF Added, Adds

\* Something is added to the sum of the rest.
LEMMA SumOfSome ==
  ASSUME NEW f, NEW S, IsFiniteSet(S), S # {}
  PROVE  SumFunctionOnSet(f, S) = f[Pick(S)] + SumFunctionOnSet(f, S \ {Pick(S)})
<1> DEFINE R == S \ {Pick(S)}
<1>1. IsFiniteSet(R) /\ R \in SUBSET (S \cap R)
  BY FS_Subset
<1>2. Adds(Added(f, S), f, S) /\ Adds(Added(f, R), f, R)
  BY <1>1, AddsExists
<1>3. Added(f, S)[R] = Added(f, R)[R]
  <2> HIDE DEF R
  <2>1. QED
    BY <1>1, <1>2, AddsAlike
<1>4. Added(f, S)[S] = f[Pick(S)] + Added(f, S)[R]
  BY <1>2 DEF Adds
<1>5. QED
  BY <1>3, <1>4, SumDef DEF Added

\* Sums of numbers are numbers, and any element may be taken out first.
LEMMA SumSplits ==
  ASSUME NEW f, NEW D, \A x \in D : f[x] \in Nat, IsFiniteSet(D)
  PROVE  /\ SumFunctionOnSet(f, D) \in Nat
         /\ \A x \in D : SumFunctionOnSet(f, D) = f[x] + SumFunctionOnSet(f, D \ {x})
<1> DEFINE Sm(u) == SumFunctionOnSet(f, u)
           Good(u) == Sm(u) \in Nat /\ \A x \in u : Sm(u) = f[x] + Sm(u \ {x})
           B == {s \in SUBSET D : ~Good(s)}
<1>1. SUFFICES ASSUME B # {} PROVE FALSE
  BY <1>1
<1>2. \A s \in SUBSET D : IsFiniteSet(s)
  BY FS_Subset
<1>3. PICK s \in B : \A t \in B : ~(Cardinality(t) < Cardinality(s))
  <2>1. \A u \in B : IsFiniteSet(u)
    BY <1>2
  <2> HIDE DEF B
  <2>2. QED
    BY <1>1, <2>1, Smallest
<1>4. s \in SUBSET D /\ ~Good(s)
  BY <1>3
<1>5. ASSUME NEW u \in SUBSET s, u # s
      PROVE  Good(u)
  <2>1. Cardinality(u) <= Cardinality(s) /\ Cardinality(u) # Cardinality(s)
    BY <1>2, <1>4, <1>5, FS_Subset
  <2>2. Cardinality(s) \in Nat /\ Cardinality(u) \in Nat
    BY <1>2, <1>4, FS_CardinalityType
  <2>3. u \notin B
    <3> HIDE DEF B
    <3>1. QED
      BY <1>3, <2>1, <2>2
  <2>4. QED
    BY <1>4, <2>3
<1>6. s # {}
  <2> SUFFICES ASSUME s = {} PROVE FALSE
    OBVIOUS
  <2>1. QED
    BY <1>4, SumOfNothing
<1> DEFINE c == Pick(s)
<1>7. c \in s
  BY <1>6 DEF Pick
<1>8. Sm(s) = f[c] + Sm(s \ {c})
  BY <1>2, <1>4, <1>6, SumOfSome
<1> HIDE DEF c, Sm
<1>9. Sm(s) \in Nat
  BY <1>4, <1>5, <1>7, <1>8
<1>10. ASSUME NEW x \in s
       PROVE  Sm(s) = f[x] + Sm(s \ {x})
  <2>1. CASE x = c
    BY <1>8, <2>1
  <2>2. CASE x # c
    <3>1. Sm(s \ {c}) = f[x] + Sm((s \ {c}) \ {x})
      BY <1>5, <1>7, <2>2
    <3>2. Sm(s \ {x}) = f[c] + Sm((s \ {x}) \ {c})
      BY <1>5, <1>7, <2>2
    <3>3. (s \ {c}) \ {x} = (s \ {x}) \ {c}
      OBVIOUS
    <3>4. Sm((s \ {c}) \ {x}) \in Nat
      BY <1>5, <1>7
    <3>5. f[x] \in Nat /\ f[c] \in Nat
      BY <1>4, <1>7
    <3> HIDE DEF Good, B
    <3>6. f[c] + (f[x] + Sm((s \ {c}) \ {x})) = f[x] + (f[c] + Sm((s \ {c}) \ {x}))
      BY <3>4, <3>5
    <3>7. QED
      BY <1>8, <3>1, <3>2, <3>3, <3>6
  <2>3. QED
    BY <2>1, <2>2
<1>11. QED
  BY <1>4, <1>9, <1>10

\* A new element adds its number.
LEMMA SumGrows ==
  ASSUME NEW f, NEW S, IsFiniteSet(S), NEW x, x \notin S,
         \A y \in S \cup {x} : f[y] \in Nat
  PROVE  SumFunctionOnSet(f, S \cup {x}) = f[x] + SumFunctionOnSet(f, S)
<1> DEFINE T == S \cup {x}
<1>1. IsFiniteSet(T) /\ x \in T /\ T \ {x} = S
  BY FS_AddElement
<1>2. \A y \in T : f[y] \in Nat
  OBVIOUS
<1> HIDE DEF T
<1>3. SumFunctionOnSet(f, T) = f[x] + SumFunctionOnSet(f, T \ {x})
  BY <1>1, <1>2, SumSplits
<1>4. QED
  BY <1>1, <1>3 DEF T

-----------------------------------------------------------------------------
(* What reservations stand for.  While an order is in one pair of hands each *)
(* of its moves takes its quantity in or out of its row's reservations once. *)

Reserving(k) == {o \in Orders : SkuOf[o] = k /\ status[o] = "RESERVED"}

\* Only what finitely many orders hold adds up.
Backed == /\ \A k \in Skus : IsFiniteSet(Reserving(k))
          /\ ReservationsBacked

LEMMA HeldIs ==
  ASSUME NEW k
  PROVE  Held(k, "RESERVED") = SumFunctionOnSet(Qty, Reserving(k))
BY DEF Held, Reserving

\* An order that is reserved adds its quantity.
LEMMA HeldMore ==
  ASSUME Backed, status \in [Orders -> Status], reserved \in [Skus -> Int],
         NEW o \in Orders, status[o] # "RESERVED",
         status' = [status EXCEPT ![o] = "RESERVED"],
         reserved' = [reserved EXCEPT ![SkuOf[o]] = @ + Qty[o]]
  PROVE  Backed'
<1>1. SkuOf[o] \in Skus /\ Qty \in [Orders -> Nat]
  BY HybridAssumption DEF HybridAssumption
<1>2. ASSUME NEW k \in Skus
      PROVE  IsFiniteSet(Reserving(k)') /\ reserved'[k] = Held(k, "RESERVED")'
  <2>1. IsFiniteSet(Reserving(k)) /\ reserved[k] = SumFunctionOnSet(Qty, Reserving(k))
    BY HeldIs DEF Backed, ReservationsBacked
  <2>2. CASE k # SkuOf[o]
    <3>1. Reserving(k)' = Reserving(k) /\ reserved'[k] = reserved[k]
      BY <1>1, <2>2 DEF Reserving
    <3>2. QED
      BY <2>1, <3>1 DEF Held, Reserving
  <2>3. CASE k = SkuOf[o]
    <3> DEFINE S == Reserving(k)'
    <3>1. S = Reserving(k) \cup {o} /\ S \ {o} = Reserving(k) /\ S \subseteq Orders
      BY <1>1, <2>3 DEF Reserving
    <3>2. IsFiniteSet(S)
      BY <2>1, <3>1, FS_AddElement
    <3>3. SumFunctionOnSet(Qty, S) = Qty[o] + SumFunctionOnSet(Qty, Reserving(k))
      <4>1. o \notin Reserving(k) /\ Reserving(k) \subseteq Orders
        BY DEF Reserving
      <4>2. SumFunctionOnSet(Qty, Reserving(k) \cup {o})
              = Qty[o] + SumFunctionOnSet(Qty, Reserving(k))
        <5>1. \A x \in Reserving(k) \cup {o} : Qty[x] \in Nat
          BY <1>1, <4>1
        <5>2. QED
          BY <2>1, <4>1, <5>1, SumGrows
      <4>3. QED
        BY <3>1, <4>2
    <3>4. reserved'[k] = reserved[k] + Qty[o]
      BY <1>1, <2>3
    <3>5. reserved[k] \in Int /\ Qty[o] \in Nat
      BY <1>1
    <3>6. reserved'[k] = SumFunctionOnSet(Qty, S)
      <4> HIDE DEF S
      <4>1. QED
        BY <2>1, <3>3, <3>4, <3>5
    <3>7. QED
      BY <3>2, <3>6 DEF Held, Reserving
  <2>4. QED
    BY <2>2, <2>3
<1>3. QED
  BY <1>2 DEF Backed, ReservationsBacked

\* One that is sold or given back has been counted.
LEMMA HeldOne ==
  ASSUME Backed, NEW o \in Orders, status[o] = "RESERVED"
  PROVE  Qty[o] <= reserved[SkuOf[o]]
<1> DEFINE S == Reserving(SkuOf[o])
<1>1. SkuOf[o] \in Skus /\ Qty \in [Orders -> Nat]
  BY HybridAssumption DEF HybridAssumption
<1>2. o \in S /\ IsFiniteSet(S) /\ S \subseteq Orders
  BY <1>1 DEF Backed, Reserving
<1>3. reserved[SkuOf[o]] = SumFunctionOnSet(Qty, S)
  BY <1>1, HeldIs DEF Backed, ReservationsBacked
<1>4. SumFunctionOnSet(Qty, S) = Qty[o] + SumFunctionOnSet(Qty, S \ {o})
  <2>1. \A x \in S : Qty[x] \in Nat
    BY <1>1, <1>2
  <2> HIDE DEF S
  <2>2. QED
    BY <1>2, <2>1, SumSplits
<1>5. SumFunctionOnSet(Qty, S \ {o}) \in Nat
  <2>1. \A x \in S \ {o} : Qty[x] \in Nat
    BY <1>1, <1>2
  <2>2. IsFiniteSet(S \ {o})
    BY <1>2, FS_RemoveElement
  <2> HIDE DEF S
  <2>3. QED
    BY <2>1, <2>2, SumSplits
<1>6. QED
  <2> HIDE DEF S
  <2>1. QED
    BY <1>1, <1>3, <1>4, <1>5

LEMMA HeldLess ==
  ASSUME Backed, status \in [Orders -> Status], reserved \in [Skus -> Int],
         NEW o \in Orders, status[o] = "RESERVED", NEW s, s # "RESERVED",
         status' = [status EXCEPT ![o] = s],
         reserved' = [reserved EXCEPT ![SkuOf[o]] = @ - Qty[o]]
  PROVE  Backed'
<1>1. SkuOf[o] \in Skus /\ Qty \in [Orders -> Nat]
  BY HybridAssumption DEF HybridAssumption
<1>2. ASSUME NEW k \in Skus
      PROVE  IsFiniteSet(Reserving(k)') /\ reserved'[k] = Held(k, "RESERVED")'
  <2>1. IsFiniteSet(Reserving(k)) /\ reserved[k] = SumFunctionOnSet(Qty, Reserving(k))
    BY HeldIs DEF Backed, ReservationsBacked
  <2>2. CASE k # SkuOf[o]
    <3>1. Reserving(k)' = Reserving(k) /\ reserved'[k] = reserved[k]
      BY <1>1, <2>2 DEF Reserving
    <3>2. QED
      BY <2>1, <3>1 DEF Held, Reserving
  <2>3. CASE k = SkuOf[o]
    <3> DEFINE S == Reserving(k)
    <3>1. Reserving(k)' = S \ {o} /\ o \in S /\ S \subseteq Orders
      BY <1>1, <2>3 DEF Reserving
    <3>2. IsFiniteSet(S \ {o})
      BY <2>1, FS_RemoveElement
    <3>3. \A x \in S : Qty[x] \in Nat
      BY <1>1, <3>1
    <3>4. reserved'[k] = reserved[k] - Qty[o]
      BY <1>1, <2>3
    <3>5. reserved'[k] = SumFunctionOnSet(Qty, S \ {o})
      <4> HIDE DEF S
      <4>1. SumFunctionOnSet(Qty, S) = Qty[o] + SumFunctionOnSet(Qty, S \ {o})
        BY <2>1, <3>1, <3>3, SumSplits DEF S
      <4>2. SumFunctionOnSet(Qty, S \ {o}) \in Nat
        BY <3>2, <3>3, SumSplits
      <4>3. Qty[o] \in Nat
        BY <1>1
      <4>4. QED
        BY <2>1, <3>4, <4>1, <4>2, <4>3 DEF S
    <3>6. QED
      BY <3>1, <3>2, <3>5 DEF Held, Reserving
  <2>4. QED
    BY <2>2, <2>3
<1>3. QED
  BY <1>2 DEF Backed, ReservationsBacked

\* The steps that move an order or a row.
LEMMA MovingSteps ==
  ASSUME TypeOK, CallShape, Tokens, [Next]_vars
  PROVE  \/ UNCHANGED <<physical, reserved, status>>
         \/ \E p \in Slots : \/ ReserveCommit(p) \/ ConfirmCommit(p) \/ ReleaseCommit(p)
                             \/ MarkFailed(p) \/ AdjustCommit(p) \/ WebhookCommit(p)
                             \/ \E o \in Orders : CreateOrder(p, o)
<1> DEFINE Still == UNCHANGED <<physical, reserved, status>>
           Moving(p) == \/ ReserveCommit(p) \/ ConfirmCommit(p) \/ ReleaseCommit(p)
                        \/ MarkFailed(p) \/ AdjustCommit(p) \/ WebhookCommit(p)
                        \/ \E o \in Orders : CreateOrder(p, o)
<1>1. ASSUME NEW p \in Slots, Work(p)
      PROVE  Still \/ Moving(p)
  <2>1. ~ResetOrder(p)
    BY TokenFacts DEF ResetOrder
  <2>2. CASE Acquire(p) \/ LockBusy(p) \/ Release(p) \/ ReserveRead(p) \/ ConfirmRead(p)
             \/ ReleaseRead(p) \/ Terminal(p) \/ Catch(p) \/ MoveToDlq(p) \/ Enqueue(p)
             \/ QueuedAt(p) \/ PushOrder(p) \/ SyncRead(p)
    BY <2>2 DEF Acquire, LockBusy, Release, ReserveRead, ConfirmRead, ReleaseRead,
         Terminal, Catch, MoveToDlq, Enqueue, QueuedAt, PushOrder, SyncRead, table
  <2>3. CASE PushInsert(p) \/ SyncSet(p) \/ MarkSynced(p) \/ SaleRead(p) \/ SaleCommit(p)
             \/ AdjustRead(p) \/ WebhookSet(p) \/ WebhookRead(p)
    BY <2>3 DEF PushInsert, SyncSet, MarkSynced, SaleRead, SaleCommit, AdjustRead,
         WebhookSet, WebhookRead, table
  <2>4. QED
    BY <1>1, <2>1, <2>2, <2>3 DEF Work
<1>2. ASSUME NEW p \in Slots, Request(p)
      PROVE  Still \/ Moving(p)
  <2>1. CASE UNCHANGED table
    BY <2>1 DEF table
  <2>2. QED
    BY <1>2, <2>1 DEF Request, RetryOrder, StartAdjust, StartWebhook, StartSale
<1>3. CASE \E p \in Slots : Fault(p) \/ Crash(p)
  BY <1>3 DEF Fault, Crash, table
<1>4. CASE \E p \in Slots, j \in waiting : TakeJob(p, j)
  BY <1>4 DEF TakeJob, table
<1>5. CASE \E k \in Skus : CreateProduct(k) \/ OrphanExpires(k) \/ HeldExpires(k)
  BY <1>5 DEF CreateProduct, OrphanExpires, HeldExpires, table
<1>6. CASE UNCHANGED vars
  BY <1>6 DEF vars, table
<1>7. QED
  BY <1>1, <1>2, <1>3, <1>4, <1>5, <1>6 DEF Next

\* What an order call finds when it moves its order.
LEMMA OrderFacts ==
  ASSUME TypeOK, CallShape, Tokens, NEW p \in Slots,
         ReserveCommit(p) \/ ConfirmCommit(p) \/ ReleaseCommit(p) \/ MarkFailed(p)
  PROVE  LET c == call[p]
         IN  /\ c.order \in Orders /\ c.sku = SkuOf[c.order] /\ c.sku \in Skus
             /\ ReserveCommit(p) => status[c.order] = "CREATED"
             /\ ConfirmCommit(p) \/ ReleaseCommit(p) => status[c.order] = "RESERVED"
             /\ ReleaseCommit(p) => c.pc = "releaseCommit"
             /\ MarkFailed(p) => status[c.order] \in {"CREATED", "FAILED"}
<1> DEFINE c == call[p]
<1>1. /\ CreateAt(c) /\ JobAt(c) /\ Shape(c)
      /\ c.pc \in {"reserveCommit", "confirmCommit", "releaseCommit", "failCommit", "markFailed"}
  BY TokenFacts DEF CallShape, ReserveCommit, ConfirmCommit, ReleaseCommit, MarkFailed
<1>2. c.pc # "failCommit" /\ (c.pc = "reserveCommit" => c.op = "create")
      /\ (c.pc \in {"confirmCommit", "releaseCommit"} => c.op = "job")
      /\ (c.pc = "markFailed" => c.op \in {"create", "job"})
  BY TokenFacts
<1>3. c.order \in Orders /\ c.sku = SkuOf[c.order] /\ c.sku \in Skus
  BY <1>1, <1>2 DEF Shape, OrderOps
<1>4. QED
  BY <1>1, <1>2, <1>3 DEF CreateAt, JobAt, ReserveCommit, ConfirmCommit, ReleaseCommit, MarkFailed

LEMMA BackedStays ==
  ASSUME Backed, UNCHANGED reserved, status \in [Orders -> Status],
         NEW o \in Orders, status[o] # "RESERVED", NEW s, s # "RESERVED",
         status' = [status EXCEPT ![o] = s]
  PROVE  Backed'
<1>1. \A k : Reserving(k)' = Reserving(k)
  BY DEF Reserving
<1>2. QED
  BY <1>1 DEF Backed, ReservationsBacked, Held, Reserving

LEMMA NextBacked ==
  ASSUME TypeOK, CallShape, Tokens, Backed, [Next]_vars
  PROVE  Backed'
<1>1. status \in [Orders -> Status] /\ reserved \in [Skus -> Int]
      /\ Qty \in [Orders -> Nat]
  BY HybridAssumption DEF TypeOK, HybridAssumption
<1>2. CASE UNCHANGED <<physical, reserved, status>>
  BY <1>2 DEF Backed, ReservationsBacked, Held, Reserving
<1>3. ASSUME NEW p \in Slots, ReserveCommit(p)
      PROVE  Backed'
  <2>1. call[p].order \in Orders /\ call[p].sku = SkuOf[call[p].order]
        /\ status[call[p].order] # "RESERVED"
    BY <1>3, OrderFacts
  <2>2. QED
    BY <1>1, <1>3, <2>1, HeldMore DEF ReserveCommit
<1>4. ASSUME NEW p \in Slots, ConfirmCommit(p)
      PROVE  Backed'
  <2>1. call[p].order \in Orders /\ call[p].sku = SkuOf[call[p].order]
        /\ status[call[p].order] = "RESERVED"
    BY <1>4, OrderFacts
  <2>2. QED
    BY <1>1, <1>4, <2>1, HeldLess DEF ConfirmCommit
<1>5. ASSUME NEW p \in Slots, ReleaseCommit(p)
      PROVE  Backed'
  <2> DEFINE o == call[p].order
  <2>1. /\ o \in Orders /\ call[p].sku = SkuOf[o] /\ SkuOf[o] \in Skus
        /\ status[o] = "RESERVED" /\ call[p].pc = "releaseCommit"
    BY <1>5, OrderFacts
  <2>2. Qty[o] <= reserved[SkuOf[o]]
    BY <2>1, HeldOne
  <2>3. AtLeastZero(reserved[SkuOf[o]] - Qty[o]) = reserved[SkuOf[o]] - Qty[o]
    <3>1. reserved[SkuOf[o]] \in Int /\ Qty[o] \in Nat
      BY <1>1, <2>1
    <3>2. QED
      BY <2>2, <3>1 DEF AtLeastZero
  <2>4. reserved' = [reserved EXCEPT ![SkuOf[o]] = @ - Qty[o]]
    BY <1>5, <2>1, <2>3 DEF ReleaseCommit
  <2>5. QED
    BY <1>1, <1>5, <2>1, <2>4, HeldLess DEF ReleaseCommit
<1>6. ASSUME NEW p \in Slots, MarkFailed(p)
      PROVE  Backed'
  <2>1. call[p].order \in Orders /\ status[call[p].order] # "RESERVED"
    BY <1>6, OrderFacts
  <2>2. QED
    BY <1>1, <1>6, <2>1, BackedStays DEF MarkFailed
<1>7. ASSUME NEW p \in Slots, NEW o \in Orders, CreateOrder(p, o)
      PROVE  Backed'
  BY <1>1, <1>7, BackedStays DEF CreateOrder
<1>8. ASSUME NEW p \in Slots, AdjustCommit(p) \/ WebhookCommit(p)
      PROVE  Backed'
  <2>1. UNCHANGED <<reserved, status>>
    BY <1>8 DEF AdjustCommit, WebhookCommit
  <2>2. QED
    BY <2>1 DEF Backed, ReservationsBacked, Held, Reserving
<1>9. QED
  BY <1>2, <1>3, <1>4, <1>5, <1>6, <1>7, <1>8, MovingSteps

LEMMA InitBacked == Init => Backed
<1> SUFFICES ASSUME Init PROVE Backed
  OBVIOUS
<1>1. ASSUME NEW k \in Skus
      PROVE  Reserving(k) = {} /\ reserved[k] = 0
  BY <1>1 DEF Init, Reserving
<1>2. QED
  BY <1>1, FS_EmptySet, SumOfNothing, HeldIs DEF Backed, ReservationsBacked

\* Under the conditions of OrdersMoveForward reservations are neither lost nor
\* leaked, whatever jobs fail, die and are given out again, and even when locks
\* expire under their holders (reserve, confirm and release move the reserved
\* quantity by the order's, hybrid-inventory.service.ts).
THEOREM ReservationsAddUp ==
  ASSUME MaxRetries = 0, "create" \notin Fragile
  PROVE  Spec => []ReservationsBacked
<1> DEFINE Inv == TypeOK /\ CallShape /\ Tokens /\ Backed
<1>1. Init => Inv
  BY InitShape, InitTokens, InitBacked
<1>2. Inv /\ [Next]_vars => Inv'
  BY StepShape, NextTokens, NextBacked
<1>3. Inv => ReservationsBacked
  BY DEF Backed
<1>4. QED
  BY <1>1, <1>2, <1>3, PTL DEF Spec

-----------------------------------------------------------------------------
(* Whole orders.  Each step is one of AtomicOrders' or shows nothing.        *)

LEMMA InitAtomic == Init => Atomic!Init
BY HybridAssumption DEF Init, Atomic!Init, HybridAssumption

LEMMA StepAtomic ==
  ASSUME ~LockMayExpire, IInv, Tokens, Backed, [Next]_vars
  PROVE  [Atomic!Next]_(Atomic!vars)
<1>1. TypeOK /\ CallShape /\ CommitsAllowed
  BY DEF IInv, StockSafe
<1>2. status \in [Orders -> Status] /\ reserved \in [Skus -> Int]
      /\ physical \in [Skus -> Int] /\ Qty \in [Orders -> Nat]
  BY <1>1, HybridAssumption DEF TypeOK, HybridAssumption
<1>3. CASE UNCHANGED <<physical, reserved, status>>
  BY <1>3 DEF Atomic!vars
<1>4. ASSUME NEW p \in Slots, ReserveCommit(p)
      PROVE  Atomic!Next
  <2> DEFINE o == call[p].order
  <2>1. o \in Orders /\ call[p].sku = SkuOf[o] /\ SkuOf[o] \in Skus
        /\ status[o] = "CREATED" /\ call[p].pc = "reserveCommit"
    BY <1>1, <1>4, OrderFacts DEF ReserveCommit
  <2>2. reserved[SkuOf[o]] + Qty[o] <= physical[SkuOf[o]]
    BY <1>1, <2>1 DEF CommitsAllowed, CommitAllowed
  <2>3. physical[SkuOf[o]] - reserved[SkuOf[o]] >= Qty[o]
    <3>1. physical[SkuOf[o]] \in Int /\ reserved[SkuOf[o]] \in Int
      BY <1>2, <2>1
    <3>2. Qty[o] \in Nat
      BY <1>2, <2>1
    <3>3. QED
      BY <2>2, <3>1, <3>2
  <2>4. Atomic!Reserve(o)
    BY <1>4, <2>1, <2>3 DEF ReserveCommit, Atomic!Reserve, Atomic!Becomes
  <2>5. QED
    BY <2>1, <2>4 DEF Atomic!Next
<1>5. ASSUME NEW p \in Slots, ConfirmCommit(p)
      PROVE  Atomic!Next
  <2> DEFINE o == call[p].order
  <2>1. o \in Orders /\ call[p].sku = SkuOf[o] /\ status[o] = "RESERVED"
    BY <1>1, <1>5, OrderFacts
  <2>2. Atomic!Sell(o)
    BY <1>5, <2>1 DEF ConfirmCommit, Atomic!Sell, Atomic!Becomes
  <2>3. QED
    BY <2>1, <2>2 DEF Atomic!Next
<1>6. ASSUME NEW p \in Slots, ReleaseCommit(p)
      PROVE  Atomic!Next
  <2> DEFINE o == call[p].order
  <2>1. /\ o \in Orders /\ call[p].sku = SkuOf[o] /\ SkuOf[o] \in Skus
        /\ status[o] = "RESERVED" /\ call[p].pc = "releaseCommit"
    BY <1>1, <1>6, OrderFacts
  <2>2. Qty[o] <= reserved[SkuOf[o]]
    BY <2>1, HeldOne
  <2>3. AtLeastZero(reserved[SkuOf[o]] - Qty[o]) = reserved[SkuOf[o]] - Qty[o]
    <3>1. reserved[SkuOf[o]] \in Int /\ Qty[o] \in Nat
      BY <1>2, <2>1
    <3>2. QED
      BY <2>2, <3>1 DEF AtLeastZero
  <2>4. reserved' = [reserved EXCEPT ![SkuOf[o]] = @ - Qty[o]]
    BY <1>6, <2>1, <2>3 DEF ReleaseCommit
  <2>5. Atomic!GiveBack(o)
    BY <1>6, <2>1, <2>4 DEF ReleaseCommit, Atomic!GiveBack, Atomic!Becomes
  <2>6. QED
    BY <2>1, <2>5 DEF Atomic!Next
<1>7. ASSUME NEW p \in Slots, MarkFailed(p)
      PROVE  Atomic!Next \/ UNCHANGED <<physical, reserved, status>>
  <2> DEFINE o == call[p].order
  <2>1. o \in Orders /\ status[o] \in {"CREATED", "FAILED"}
    BY <1>1, <1>7, OrderFacts
  <2>2. CASE status[o] = "CREATED"
    <3>1. Atomic!Reject(o)
      BY <1>7, <2>2 DEF MarkFailed, Atomic!Reject, Atomic!Becomes
    <3>2. QED
      BY <2>1, <3>1 DEF Atomic!Next
  <2>3. CASE status[o] = "FAILED"
    BY <1>2, <1>7, <2>1, <2>3 DEF MarkFailed
  <2>4. QED
    BY <2>1, <2>2, <2>3
<1>8. ASSUME NEW p \in Slots, NEW o \in Orders, CreateOrder(p, o)
      PROVE  Atomic!Next
  <2>1. Atomic!Place(o)
    BY <1>8 DEF CreateOrder, Atomic!Place, Atomic!Becomes
  <2>2. QED
    BY <2>1 DEF Atomic!Next
<1>9. ASSUME NEW p \in Slots, AdjustCommit(p) \/ WebhookCommit(p)
      PROVE  Atomic!Next
  <2> DEFINE c == call[p]
  <2>1. c.pc \in {"adjustCommit", "webhookCommit"} /\ UNCHANGED <<reserved, status>>
        /\ physical' = [physical EXCEPT ![c.sku] = c.amount]
    BY <1>9 DEF AdjustCommit, WebhookCommit
  <2>2. c.sku \in Skus
    BY <1>1, <2>1 DEF CallShape, Shape
  <2>3. reserved[c.sku] <= c.amount /\ c.amount \in Int /\ reserved[c.sku] \in Int
    BY <1>1, <1>2, <2>1, <2>2, TokenFacts DEF CommitsAllowed, CommitAllowed, Call
  <2>4. physical'[c.sku] = c.amount
    BY <1>2, <2>1, <2>2
  <2>5. Atomic!Restock(c.sku, physical'[c.sku])
    BY <2>1, <2>3, <2>4 DEF Atomic!Restock
  <2>6. QED
    BY <2>2, <2>5 DEF Atomic!Next
<1>10. QED
  BY <1>1, <1>3, <1>4, <1>5, <1>6, <1>7, <1>8, <1>9, MovingSteps DEF Atomic!vars

\* When moreover no lock expires under its holder, the engine does what
\* AtomicOrders promises: to a reader of the tables whole orders move in single
\* steps, none is sold twice, and a reservation ends in one sale or one release.
THEOREM OrdersAreAtomic ==
  ASSUME MaxRetries = 0, "create" \notin Fragile, ~LockMayExpire
  PROVE  Spec => ImplementsAtomic
<1> DEFINE Inv == IInv /\ Tokens /\ Backed
<1>1. Init => Inv
  BY InitStock, InitTokens, InitBacked
<1>2. Inv /\ [Next]_vars => Inv'
  BY StepStock, NextTokens, NextBacked DEF IInv
<1>3. Init => Atomic!Init
  BY InitAtomic
<1>4. Inv /\ [Next]_vars => [Atomic!Next]_(Atomic!vars)
  BY StepAtomic
<1>5. QED
  BY <1>1, <1>2, <1>3, <1>4, PTL DEF Spec, ImplementsAtomic, Atomic!Spec

-----------------------------------------------------------------------------
(* A lock is freed by its holder alone.                                      *)

\* release() compares the token before it deletes the key, and an expiry moves
\* no call: a step of one call never frees another call's lock, with any number
\* of retries, faults, crashes and expired locks.
THEOREM ReleasesAreOwn == Spec => ReleaseOwnOnly
<1>1. TypeOK /\ [Next]_vars =>
        [\A k \in Skus, p, q \in Slots :
           /\ lock[k] = p
           /\ lock'[k] # p
           /\ call'[q] # call[q]
           => q = p]_vars
  <2> SUFFICES ASSUME TypeOK, Next, NEW k \in Skus, NEW p \in Slots, NEW q \in Slots,
                      lock[k] = p, lock'[k] # p, call'[q] # call[q]
               PROVE  q = p
    OBVIOUS
  <2>0. call \in [Slots -> Call] /\ lock \in [Skus -> Slots \cup {"free", "orphan"}]
        /\ p \notin {"free", "orphan"}
    BY HybridAssumption DEF TypeOK, HybridAssumption
  <2>1. ASSUME NEW s \in Slots, NEW c, Goto(s, c)
        PROVE  q = s
    BY <2>0, <2>1 DEF Goto
  <2>2. ASSUME NEW s \in Slots, Work(s)
        PROVE  q = p
    <3>1. CASE Acquire(s)
      BY <2>0, <3>1 DEF Acquire
    <3>2. CASE Release(s)
      BY <2>0, <2>1, <3>2 DEF Release
    <3>3. CASE UNCHANGED lock
      BY <3>3
    <3>4. QED
      BY <2>2, <3>1, <3>2, <3>3 DEF Work, LockBusy, ReserveRead, ReserveCommit, ConfirmRead,
           ConfirmCommit, ReleaseRead, ReleaseCommit, Terminal, MarkFailed, Catch, MoveToDlq,
           ResetOrder, Enqueue, QueuedAt, PushOrder, PushInsert, SyncRead, SyncSet, MarkSynced,
           SaleRead, SaleCommit, AdjustRead, AdjustCommit, WebhookSet, WebhookRead,
           WebhookCommit
  <2>3. ASSUME NEW s \in Slots, Fault(s) \/ Crash(s)
        PROVE  q = p
    BY <2>0, <2>1, <2>3 DEF Fault, Crash
  <2>4. ASSUME NEW s \in Slots, Request(s) \/ \E j \in waiting : TakeJob(s, j)
        PROVE  q = p
    BY <2>4 DEF Request, CreateOrder, RetryOrder, StartAdjust, StartWebhook, StartSale, TakeJob
  <2>5. ASSUME NEW i \in Skus, CreateProduct(i) \/ OrphanExpires(i) \/ HeldExpires(i)
        PROVE  q = p
    BY <2>5 DEF CreateProduct, OrphanExpires, HeldExpires
  <2>6. QED
    BY <2>2, <2>3, <2>4, <2>5 DEF Next
<1>2. QED
  BY <1>1, TypeCorrect, PTL DEF Spec, ReleaseOwnOnly
=============================================================================
