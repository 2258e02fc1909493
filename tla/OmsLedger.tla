------------------------------- MODULE OmsLedger -------------------------------
(***************************************************************************)
(* The OMS inventory ledger: orders with lines, their reservations, the    *)
(* balance of each stock row, the movements applied to it and the outbox   *)
(* of channel sync jobs those movements create.                            *)
(*                                                                         *)
(* A slot runs one HTTP request at a time.  call[p].pc names the next      *)
(* statement of the request that touches Postgres or Redis.  Transactions  *)
(* are READ COMMITTED: a read returns what is committed or what the        *)
(* transaction itself wrote, an update waits for the row lock of another   *)
(* transaction, and what a transaction wrote is in call[p] until Commit.   *)
(***************************************************************************)
EXTENDS Integers, Sequences, FiniteSetsExt

CONSTANTS
  Orders,          \* orders, by (tenant, external order id)
  Rows,            \* (tenant, sku, location) triples with a known sku and location
  Slots,           \* concurrent HTTP requests
  None,            \* model value: no order, no row, nothing written, not given
  Lines,           \* [Orders -> Seq([row, quantity])]: the lines of an order
  InitialStock,    \* [Rows -> Nat \cup {None}]: physical stock, None: no balance yet
  SkuBuffer,       \* [Rows -> Nat]: safety buffer of the row's sku
  Adjustments,     \* the [physical, buffer] bodies of POST /inventory/adjustments
  ReturnQuantities,\* quantities asked for by POST /returns
  Fragile,         \* operations that may be interrupted
  Budget           \* bounds on adjustments, returns and interruptions

Line    == [row : Rows, quantity : Nat \ {0}]
Balance == [physical : Nat, reserved : Nat, buffer : Nat, sellable : Nat]
Limits  == {"adjust", "return", "interrupt"}
Changes == {"create", "cancel", "fulfill"}
Ops     == Changes \cup {"createReturn", "adjust"}
PCs     == {"idle", "insert", "lines", "sum", "check", "read", "write",
            "commit", "enqueue"}

ASSUME OmsAssumption ==
  /\ Lines \in [Orders -> Seq(Line)]
  /\ \A o \in Orders : Lines[o] # <<>>
  /\ InitialStock \in [Rows -> Nat \cup {None}]
  /\ SkuBuffer \in [Rows -> Nat]
  /\ Adjustments \subseteq [physical : Int, buffer : Nat \cup {None}]
  /\ ReturnQuantities \subseteq Nat \ {0}
  /\ Fragile \subseteq Ops
  /\ Budget \in [Limits -> Nat]
  /\ None \notin Int \cup Orders \cup Rows \cup Balance

VARIABLES
  balance,   \* inventory_balance rows, None where there is none
  moved,     \* per row: the sums of the deltas in the ledger
  status,    \* order status, "NONE" before the order is committed
  held,      \* status of the order's stock reservations
  returned,  \* per order and row: RETURN_RESTOCKED units in the ledger
  outbox,    \* inventory_sync_outbox, oldest first
  queued,    \* outbox rows with a BullMQ job
  call,      \* what each slot is doing
  budget,    \* what is left of the bounds
  stale,     \* history: rows written from data that had changed since it was read
  refused    \* history: orders whose request died of a duplicate sync key

stock    == <<balance, moved, stale>>
orders   == <<status, held, returned>>
jobs     == <<outbox, queued>>
vars     == <<stock, orders, jobs, call, budget, refused>>

Sum     == [physical : Int, reserved : Int]
SyncKey == [row : Rows, target : Nat, type : {"ORDER", "RETURN", "MANUAL"},
            source : Orders \cup Nat]

Call == [op : Ops \cup {"none"}, pc : PCs, order : Orders \cup {None},
         row : Rows \cup {None}, line : Nat, change : Int,
         buffer : Nat \cup {None}, source : Nat,
         active : BOOLEAN, sum : Int,
         checked : Balance \cup {None}, seen : Balance \cup {None},
         written : [Rows -> Balance \cup {None}], deltas : [Rows -> Sum],
         created : Seq(SyncKey), tainted : SUBSET Rows]

Nothing == [physical |-> 0, reserved |-> 0]

Idle == [op |-> "none", pc |-> "idle", order |-> None, row |-> None, line |-> 1,
         change |-> 0, buffer |-> None, source |-> 0, active |-> FALSE, sum |-> 0,
         checked |-> None, seen |-> None, written |-> [r \in Rows |-> None],
         deltas |-> [r \in Rows |-> Nothing], created |-> <<>>, tainted |-> {}]

Goto(p, c) == call' = [call EXCEPT ![p] = c]
Spend(what) == /\ budget[what] > 0
               /\ budget' = [budget EXCEPT ![what] = @ - 1]

-------------------------------------------------------------------------------
(* Balances and movements *)

Sellable(physical, reserved, buffer) ==
  IF physical - reserved - buffer < 0 THEN 0 ELSE physical - reserved - buffer

\* The balance a row starts with.
Opened(r) ==
  IF InitialStock[r] = None THEN None
  ELSE [physical |-> InitialStock[r], reserved |-> 0, buffer |-> SkuBuffer[r],
        sellable |-> Sellable(InitialStock[r], 0, SkuBuffer[r])]

SellableOf(b) == IF b = None THEN 0 ELSE b.sellable

\* Mutant: the read goes past the transaction and misses its own writes
VisibleCommitted(p, r) == balance[r]

\* What slot p's transaction reads at row r: its own write, else what is committed.
Visible(p, r) == IF call[p].written[r] # None THEN call[p].written[r] ELSE balance[r]

RowOf(c) == IF c.op \in Changes THEN Lines[c.order][c.line].row ELSE c.row

\* The deltas of the movement that call c is about to apply.
Movement(c) ==
  LET n == IF c.op \in Changes THEN Lines[c.order][c.line].quantity ELSE c.change
  IN  [physical |-> CASE c.op \in {"create", "cancel"} -> 0
                      [] c.op = "fulfill" -> -n
                      [] OTHER -> n,
       reserved |-> CASE c.op = "create" -> n
                      [] c.op \in {"cancel", "fulfill"} -> -n
                      [] OTHER -> 0]

\* The row after movement m applied to what was read, b.
After(b, m, r, buffer) ==
  LET physical == (IF b = None THEN 0 ELSE b.physical) + m.physical
      reserved == (IF b = None THEN 0 ELSE b.reserved) + m.reserved
      kept     == IF buffer # None THEN buffer
                  ELSE IF b # None THEN b.buffer ELSE SkuBuffer[r]
  IN  [physical |-> physical, reserved |-> reserved, buffer |-> kept,
       sellable |-> Sellable(physical, reserved, kept)]

Allowed(b) == b.physical >= 0 /\ b.reserved >= 0 /\ b.reserved <= b.physical

KeyOf(c, target) ==
  [row    |-> RowOf(c), target |-> target,
   type   |-> CASE c.op = "adjust" -> "MANUAL"
                [] c.op = "createReturn" -> "RETURN"
                [] OTHER -> "ORDER",
   source |-> IF c.op = "adjust" THEN c.source ELSE c.order]

\* Mutant: only falling stock is told to the channel
NewJobsOnDecrease(c, b, target) ==
  IF target >= SellableOf(b) THEN <<>> ELSE <<KeyOf(c, target)>>

\* The outbox rows for a movement that took sellable stock from b's to target.
NewJobs(c, b, target) ==
  IF target = SellableOf(b) THEN <<>> ELSE <<KeyOf(c, target)>>

-------------------------------------------------------------------------------
(* Requests: what they read before their transaction *)

Init ==
  /\ balance = [r \in Rows |-> Opened(r)]
  /\ moved = [r \in Rows |-> Nothing]
  /\ status = [o \in Orders |-> "NONE"]
  /\ held = [o \in Orders |-> "NONE"]
  /\ returned = [o \in Orders |-> [r \in Rows |-> 0]]
  /\ outbox = <<>>
  /\ queued = {}
  /\ call = [p \in Slots |-> Idle]
  /\ budget = Budget
  /\ stale = {}
  /\ refused = {}

Unchanged == UNCHANGED <<stock, orders, jobs>>

\* A request for an order that is already committed returns it and does nothing.
Create(p, o) ==
  /\ call[p] = Idle
  /\ status[o] = "NONE"
  /\ Goto(p, [Idle EXCEPT !.op = "create", !.pc = "insert", !.order = o])
  /\ UNCHANGED <<budget, refused>> /\ Unchanged

\* findOrder reads the order first and its lines and reservations after it.
FindOrder(p, o, op) ==
  /\ call[p] = Idle
  /\ status[o] = "RESERVED"
  /\ Goto(p, [Idle EXCEPT !.op = op, !.pc = "lines", !.order = o])
  /\ UNCHANGED <<budget, refused>> /\ Unchanged

Cancel(p, o) == FindOrder(p, o, "cancel")
Fulfill(p, o) == FindOrder(p, o, "fulfill")

CreateReturn(p, o, r, n) ==
  /\ call[p] = Idle
  /\ status[o] = "FULFILLED"
  /\ \E i \in DOMAIN Lines[o] : Lines[o][i].row = r
  /\ Goto(p, [Idle EXCEPT !.op = "createReturn", !.pc = "sum", !.order = o,
                          !.row = r, !.change = n])
  /\ Spend("return")
  /\ UNCHANGED refused /\ Unchanged

\* The ledger entry's id is the source of its sync job; the budget numbers them.
Adjust(p, r, a) ==
  /\ call[p] = Idle
  /\ a.physical # 0 \/ a.buffer # None
  /\ Goto(p, [Idle EXCEPT !.op = "adjust", !.pc = "read", !.row = r,
                          !.change = a.physical, !.buffer = a.buffer,
                          !.source = budget["adjust"]])
  /\ Spend("adjust")
  /\ UNCHANGED refused /\ Unchanged

\* Cancel skips lines without an active reservation, fulfill refuses them.
ReadLines(p) ==
  LET c == call[p]
      active == held[c.order] = "ACTIVE"
  IN  /\ c.pc = "lines"
      /\ Goto(p, IF active THEN [c EXCEPT !.pc = "read", !.active = TRUE]
                 ELSE IF c.op = "cancel" THEN [c EXCEPT !.pc = "commit"] ELSE Idle)
      /\ UNCHANGED <<budget, refused>> /\ Unchanged

\* The quantity of the first line of order o on row r.
LineQuantity(o, r) ==
  Lines[o][CHOOSE i \in DOMAIN Lines[o] :
             /\ Lines[o][i].row = r
             /\ \A j \in 1..(i - 1) : Lines[o][j].row # r].quantity

\* Mutant: earlier returns do not count
SumIgnored(p) ==
  LET c == call[p]
  IN  /\ c.pc = "sum"
      /\ Goto(p, IF c.change > LineQuantity(c.order, c.row) THEN Idle
                 ELSE [c EXCEPT !.pc = "read", !.sum = returned[c.order][c.row]])
      /\ UNCHANGED <<budget, refused>> /\ Unchanged

\* What is already returned is summed before the transaction begins.
SumReturns(p) ==
  LET c == call[p]
      sum == returned[c.order][c.row]
  IN  /\ c.pc = "sum"
      /\ Goto(p, IF sum + c.change > LineQuantity(c.order, c.row) THEN Idle
                 ELSE [c EXCEPT !.pc = "read", !.sum = sum])
      /\ UNCHANGED <<budget, refused>> /\ Unchanged

-------------------------------------------------------------------------------
(* Inside the transaction *)

Inserting(p, o) == /\ call[p].op = "create" /\ call[p].order = o
                   /\ call[p].pc \in {"check", "read", "write", "commit"}

\* Mutant: no unique index on (tenant, external order id)
InsertAnyway(p) ==
  LET c == call[p]
  IN  /\ c.pc = "insert"
      /\ Goto(p, [c EXCEPT !.pc = "check"])
      /\ UNCHANGED <<budget, refused>> /\ Unchanged

\* The unique index makes a second insert of an order wait for the first and
\* then fail.
Insert(p) ==
  LET c == call[p]
  IN  /\ c.pc = "insert"
      /\ \A q \in Slots : ~Inserting(q, c.order)
      /\ Goto(p, IF status[c.order] = "NONE" THEN [c EXCEPT !.pc = "check"] ELSE Idle)
      /\ UNCHANGED <<budget, refused>> /\ Unchanged

\* Mutant: assertSellable forgets the safety buffer
CheckPhysical(p) ==
  LET c == call[p]
      b == Visible(p, RowOf(c))
  IN  /\ c.pc = "check"
      /\ Goto(p, IF b # None /\ b.physical - b.reserved >= Movement(c).reserved
                 THEN [c EXCEPT !.pc = "read", !.checked = b] ELSE Idle)
      /\ UNCHANGED <<budget, refused>> /\ Unchanged

\* assertSellable.
Check(p) ==
  LET c == call[p]
      b == Visible(p, RowOf(c))
  IN  /\ c.pc = "check"
      /\ Goto(p, IF b # None /\ b.sellable >= Movement(c).reserved
                 THEN [c EXCEPT !.pc = "read", !.checked = b] ELSE Idle)
      /\ UNCHANGED <<budget, refused>> /\ Unchanged

\* applyMovementTx up to its first write: a movement it may not make throws.
Read(p) ==
  LET c == call[p]
      b == Visible(p, RowOf(c))
  IN  /\ c.pc = "read"
      /\ Goto(p, IF Allowed(After(b, Movement(c), RowOf(c), c.buffer))
                 THEN [c EXCEPT !.pc = "write", !.seen = b,
                                !.checked = IF c.op = "create" THEN @ ELSE b]
                 ELSE Idle)
      /\ UNCHANGED <<budget, refused>> /\ Unchanged

\* Another transaction has written row r and not ended yet.
Locked(p, r) == \E q \in Slots \ {p} : call[q].written[r] # None

\* What the request decided on is no longer what it would read now.
Outdated(p) ==
  LET c == call[p]
  IN  \/ {c.checked, c.seen} # {Visible(p, RowOf(c))}
      \/ c.op \in {"cancel", "fulfill"} /\ held[c.order] # "ACTIVE"
      \/ c.op = "createReturn" /\ returned[c.order][c.row] # c.sum

MoreLines(c) == c.op \in Changes /\ c.line < Len(Lines[c.order])

\* The call after it wrote balance b to row r, a ledger entry and the jobs new.
Written(p, c, r, b, new) ==
  [c EXCEPT
     !.pc = IF ~MoreLines(c) THEN "commit" ELSE IF c.op = "create" THEN "check" ELSE "read",
     !.line = IF MoreLines(c) THEN @ + 1 ELSE 1,
     !.checked = None, !.seen = None,
     !.written[r] = b,
     !.deltas[r] = [physical |-> @.physical + Movement(c).physical,
                    reserved |-> @.reserved + Movement(c).reserved],
     !.created = @ \o new,
     !.tainted = IF Outdated(p) THEN @ \cup {r} ELSE @]

\* The balance is written with totals computed from the read, the ledger entry
\* and the outbox row follow.  A balance inserted twice and a sync key used
\* before violate unique indexes, and Postgres gives up the transaction: the
\* code's recovery from the duplicate key only meets an aborted transaction.
Write(p) ==
  LET c    == call[p]
      r    == RowOf(c)
      b    == After(c.seen, Movement(c), r, c.buffer)
      new  == NewJobs(c, c.seen, b.sellable)
      lost == c.seen = None /\ Visible(p, r) # None
      used == ~lost /\ Range(new) \cap (Range(outbox) \cup Range(c.created)) # {}
  IN  /\ c.pc = "write"
      /\ ~Locked(p, r)
      /\ Goto(p, IF lost \/ used THEN Idle ELSE Written(p, c, r, b, new))
      /\ refused' = IF used THEN refused \cup {c.order} ELSE refused
      /\ UNCHANGED budget /\ Unchanged

OrderBecomes == [create |-> "RESERVED", cancel |-> "CANCELLED", fulfill |-> "FULFILLED"]
HeldBecomes == [create |-> "ACTIVE", cancel |-> "RELEASED", fulfill |-> "FULFILLED"]

StatusAfter(c) ==
  IF c.op \in Changes THEN [status EXCEPT ![c.order] = OrderBecomes[c.op]] ELSE status

\* Mutant: cancelling an order leaves its reservations active
HeldAfterForgets(c) ==
  IF c.op \in {"create", "fulfill"}
  THEN [held EXCEPT ![c.order] = HeldBecomes[c.op]] ELSE held

\* A cancel that found no active reservation leaves the reservations alone.
HeldAfter(c) ==
  IF c.op \in {"create", "fulfill"} \/ (c.op = "cancel" /\ c.active)
  THEN [held EXCEPT ![c.order] = HeldBecomes[c.op]] ELSE held

\* The transaction commits; what it created goes to the queue next.
Commit(p) ==
  LET c == call[p]
  IN  /\ c.pc = "commit"
      /\ balance' = [r \in Rows |-> Visible(p, r)]
      /\ moved' = [r \in Rows |->
                     [physical |-> moved[r].physical + c.deltas[r].physical,
                      reserved |-> moved[r].reserved + c.deltas[r].reserved]]
      /\ status' = StatusAfter(c)
      /\ held' = HeldAfter(c)
      /\ returned' = IF c.op = "createReturn"
                     THEN [returned EXCEPT ![c.order][c.row] = @ + c.change]
                     ELSE returned
      /\ outbox' = outbox \o c.created
      /\ stale' = stale \cup c.tainted
      /\ Goto(p, IF c.created = <<>> THEN Idle
                 ELSE [Idle EXCEPT !.op = c.op, !.pc = "enqueue", !.order = c.order,
                                   !.row = c.row, !.created = c.created])
      /\ UNCHANGED <<queued, budget, refused>>

\* enqueueAll, enqueueJob.
Enqueue(p) ==
  /\ call[p].pc = "enqueue"
  /\ queued' = queued \cup Range(call[p].created)
  /\ Goto(p, Idle)
  /\ UNCHANGED <<stock, orders, outbox, budget, refused>>

\* The process dies, Postgres or Redis refuses a call, or the transaction
\* times out: what is not committed is rolled back, what is committed stays,
\* and some of its jobs may not reach the queue.
Interrupt(p) ==
  LET c == call[p]
  IN  /\ c.pc # "idle"
      /\ c.op \in Fragile
      /\ Spend("interrupt")
      /\ \E sent \in SUBSET Range(c.created) :
           /\ c.pc # "enqueue" => sent = {}
           /\ queued' = queued \cup sent
      /\ Goto(p, Idle)
      /\ UNCHANGED <<stock, orders, outbox, refused>>

\* Transactions each waiting for a row that another of them wrote.
Deadlocked(D) ==
  \A p \in D : /\ call[p].pc = "write"
               /\ \E q \in D \ {p} : call[q].written[RowOf(call[p])] # None

\* Mutant: nobody breaks a deadlock
DeadlockStays(p) == FALSE /\ UNCHANGED vars

\* Postgres aborts one transaction of a deadlock.
DeadlockVictim(p) ==
  /\ \E D \in SUBSET Slots : p \in D /\ Deadlocked(D)
  /\ Goto(p, Idle)
  /\ UNCHANGED <<budget, refused>> /\ Unchanged

-------------------------------------------------------------------------------
(* The specification *)

Request(p) ==
  \/ \E o \in Orders : Create(p, o) \/ Cancel(p, o) \/ Fulfill(p, o)
  \/ \E o \in Orders, r \in Rows, n \in ReturnQuantities : CreateReturn(p, o, r, n)
  \/ \E r \in Rows, a \in Adjustments : Adjust(p, r, a)

\* A running request goes on.
Step(p) == \/ ReadLines(p) \/ SumReturns(p) \/ Insert(p) \/ Check(p)
           \/ Read(p) \/ Write(p) \/ Commit(p) \/ Enqueue(p)

Next == \E p \in Slots : Request(p) \/ Step(p) \/ Interrupt(p) \/ DeadlockVictim(p)

\* Node keeps running what it awaits; Postgres wakes who waits for a row or a
\* unique key when its holder ends, and breaks deadlocks.
Fairness ==
  \A p \in Slots : /\ WF_vars(Step(p)) /\ WF_vars(DeadlockVictim(p))
                   /\ SF_vars(Write(p)) /\ SF_vars(Insert(p))

Spec == Init /\ [][Next]_vars
LiveSpec == Spec /\ Fairness

-------------------------------------------------------------------------------
(* Properties *)

\* Type correctness: quantities are naturals and every call is a call.
TypeOK ==
  /\ balance \in [Rows -> Balance \cup {None}]
  /\ moved \in [Rows -> Sum]
  /\ status \in [Orders -> {"NONE", "RESERVED", "CANCELLED", "FULFILLED"}]
  /\ held \in [Orders -> {"NONE", "ACTIVE", "RELEASED", "FULFILLED"}]
  /\ returned \in [Orders -> [Rows -> Int]]
  /\ outbox \in Seq(SyncKey)
  /\ queued \subseteq SyncKey
  /\ call \in [Slots -> Call]
  /\ budget \in [Limits -> Nat]
  /\ stale \subseteq Rows
  /\ refused \subseteq Orders \cup {None}

\* A balance's own columns agree, whatever raced: reserved stock is within
\* physical stock and sellable is max(0, physical - reserved - buffer)
\* (inventory-ledger.service 106-120).
Sound(b) == /\ b.reserved <= b.physical
            /\ b.sellable = Sellable(b.physical, b.reserved, b.buffer)
RowsSound == \A r \in Rows : balance[r] # None => Sound(balance[r])

Quantities(o) == [i \in DOMAIN Lines[o] |-> Lines[o][i].quantity]
Units(o, r) == SumFunctionOnSet(Quantities(o), {i \in DOMAIN Lines[o] : Lines[o][i].row = r})
Active == {o \in Orders : held[o] = "ACTIVE"}
ActiveUnits(r) == SumFunctionOnSet([o \in Orders |-> Units(o, r)], Active)
ReservedOf(b) == IF b = None THEN 0 ELSE b.reserved
PhysicalOf(b) == IF b = None THEN 0 ELSE b.physical
InitialUnits(r) == IF InitialStock[r] = None THEN 0 ELSE InitialStock[r]

\* A row's reserved quantity is what its active reservations hold, on every row
\* that no request wrote from outdated data: rollbacks, duplicate requests,
\* repeated lines and deadlocks cost nothing.
ReservationsCounted ==
  \A r \in Rows \ stale : ReservedOf(balance[r]) = ActiveUnits(r)

\* The same without the proviso: what orders reserve stays reserved
\* (START-HERE.md:61 "Orders reserve stock.").
OrdersReserveStock == \A r \in Rows : ReservedOf(balance[r]) = ActiveUnits(r)

\* The ledger explains the balance: the initial stock plus every recorded delta
\* is what the row holds, on rows no request wrote from outdated data.
LedgerExplainsBalance ==
  \A r \in Rows \ stale :
    /\ PhysicalOf(balance[r]) = InitialUnits(r) + moved[r].physical
    /\ ReservedOf(balance[r]) = moved[r].reserved

\* An order has active reservations exactly while it is RESERVED, however its
\* cancellation and fulfilment interleave.
ReservationFollowsOrder ==
  \A o \in Orders : /\ status[o] = "RESERVED" <=> held[o] = "ACTIVE"
                    /\ status[o] = "NONE" <=> held[o] = "NONE"
                    /\ status[o] = "FULFILLED" => held[o] = "FULFILLED"

\* No more comes back than the order's first line on the row shipped, unless the
\* row was written from an outdated sum (orders.service 226-241).
ReturnsBounded ==
  \A o \in Orders, r \in Rows :
    returned[o][r] > 0 /\ r \notin stale =>
      /\ held[o] = "FULFILLED"
      /\ returned[o][r] <= LineQuantity(o, r)

\* The newest sync job of a row carries the row's sellable quantity, so the
\* channel can catch up (inventory-ledger.service 162-171).
LastTarget(r) ==
  LET of == {i \in DOMAIN outbox : outbox[i].row = r}
  IN  IF of = {} THEN SellableOf(Opened(r)) ELSE outbox[Max(of)].target
NewestJobCurrent == \A r \in Rows \ stale : LastTarget(r) = SellableOf(balance[r])

\* An order that reserves leaves the safety buffer alone: reserved units never
\* grow into it on a row that no request wrote from outdated data.
BufferKept ==
  [][\A r \in Rows \ stale' :
       ReservedOf(balance'[r]) > ReservedOf(balance[r]) =>
         balance'[r].physical - balance'[r].reserved >= balance'[r].buffer]_vars

\* No request dies because its own sync job key was used before: cancelling,
\* fulfilling and returning work (START-HERE.md:62).
SyncKeysNeverRefuse == refused = {}

\* Every request comes to an end, also when transactions deadlock.
RequestsEnd == \A p \in Slots : []<>(call[p].pc = "idle")

=============================================================================
