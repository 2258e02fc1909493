----------------------------- MODULE WebhookOrders -----------------------------
(***************************************************************************)
(* Sales made in Shopify: an orders/create webhook is delivered until it   *)
(* gets a 2xx answer, and its handler places one order with the hybrid     *)
(* engine for each line item, one after the other.  A line that fails is   *)
(* named in the answer, and the answer is 2xx all the same.                *)
(*                                                                         *)
(* The engine is the abstract one, AtomicOrders, which HybridOrders        *)
(* implements, but for one step of the requests: a create() that fails     *)
(* after its enqueue may write FAILED over a sale (FailOrder).  An order's *)
(* id is made afresh for each delivery.                                    *)
(***************************************************************************)
EXTENDS Integers, Sequences, FiniteSetsExt

CONSTANTS
  Sales,         \* orders made in Shopify
  Lines,         \* [Sales -> Seq([sku : Skus \cup {None}, qty : Int])]
  Skus,          \* skus, at the default location
  None,          \* no sku
  InitialStock,  \* [Tenants \X Skus -> Nat]
  Handlers,      \* concurrent webhook requests
  Deliveries,    \* how often Shopify sends a webhook before it gives up
  Allowed,       \* what the environment may do
  Mishaps        \* bound: how often it does any of it

\* The tenant of the shop's active channel config, or SHOPIFY_DEFAULT_TENANT_ID.
Tenants == {"shop", "default"}
Rows    == Tenants \X Skus

\* Where a sale's line items are; lines without a sku or a quantity are left out.
Items(s) == {i \in DOMAIN Lines[s] : Lines[s][i].sku # None /\ Lines[s][i].qty > 0}

Orders == UNION {[sale : {s}, line : Items(s), delivery : 1..Deliveries,
                  tenant : Tenants] : s \in Sales}
ItemOf(o) == Lines[o.sale][o.line]
RowOf == [o \in Orders |-> <<o.tenant, ItemOf(o).sku>>]
Qty   == [o \in Orders |-> ItemOf(o).qty]

ASSUME OrderHookAssumption ==
  /\ Lines \in [Sales -> Seq([sku : Skus \cup {None}, qty : Int])]
  /\ InitialStock \in [Rows -> Nat]
  /\ Deliveries \in Nat \ {0} /\ Mishaps \in Nat

VARIABLES
  physical, reserved, status,  \* the engine's stock rows and orders
  jobs,      \* orders with an order.process job
  mail,      \* per sale: what Shopify makes of its webhook
  sent,      \* per sale: deliveries begun
  setup,     \* {"secret", "config"}: the settings in place
  handler,   \* what each request is doing
  answered,  \* lines an accepted answer has called failed
  cut,       \* history: sales with a delivery that died or was overtaken
  stranded,  \* history: orders nobody will finish
  budget     \* mishaps left

engine == <<physical, reserved, status>>
hooks  == <<mail, sent, answered>>
ghosts == <<cut, stranded>>
vars   == <<engine, jobs, hooks, setup, handler, ghosts, budget>>

Engine == INSTANCE AtomicOrders WITH Skus <- Rows, SkuOf <- RowOf

Request == [pc : {"idle", "verify", "tenant", "insert", "reserve", "enqueue", "mark",
                  "failing", "fail", "answer"},
            sale : Sales \cup {None}, delivery : Nat, tenant : Tenants,
            line : Nat, failed : SUBSET Nat]
NoRequest == [pc |-> "idle", sale |-> None, delivery |-> 0, tenant |-> "default",
              line |-> 0, failed |-> {}]

OrderOf(h) == LET r == handler[h]
              IN  [sale |-> r.sale, line |-> r.line, delivery |-> r.delivery,
                   tenant |-> r.tenant]

Spend(what) == /\ what \in Allowed
               /\ budget > 0
               /\ budget' = budget - 1

Init ==
  /\ physical = InitialStock
  /\ reserved = [r \in Rows |-> 0]
  /\ status = [o \in Orders |-> "NONE"]
  /\ jobs = {}
  /\ mail = [s \in Sales |-> "none"]
  /\ sent = [s \in Sales |-> 0]
  /\ setup = {"secret", "config"}
  /\ handler = [h \in Handlers |-> NoRequest]
  /\ answered = {}
  /\ cut = {} /\ stranded = {}
  /\ budget = Mishaps

-------------------------------------------------------------------------------
(* Shopify and the operator *)

Sale(s) ==
  /\ mail[s] = "none"
  /\ mail' = [mail EXCEPT ![s] = "due"]
  /\ UNCHANGED <<engine, jobs, sent, answered, setup, handler, ghosts, budget>>

\* Shopify sends a webhook until it is accepted; if the answer is late, again
\* while the first request still runs.
Deliver(h, s) ==
  LET overtaken == \E g \in Handlers : handler[g].sale = s
  IN  /\ mail[s] = "due" /\ sent[s] < Deliveries
      /\ handler[h] = NoRequest
      /\ IF overtaken THEN Spend("timeout") ELSE UNCHANGED budget
      /\ cut' = IF overtaken THEN cut \cup {s} ELSE cut
      /\ sent' = [sent EXCEPT ![s] = @ + 1]
      /\ handler' = [handler EXCEPT ![h] = [NoRequest EXCEPT
                       !.pc = "verify", !.sale = s, !.delivery = sent'[s]]]
      /\ UNCHANGED <<engine, jobs, mail, answered, setup, stranded>>

GiveUp(s) ==
  /\ mail[s] = "due" /\ sent[s] = Deliveries
  /\ \A h \in Handlers : handler[h].sale # s
  /\ mail' = [mail EXCEPT ![s] = "dropped"]
  /\ UNCHANGED <<engine, jobs, sent, answered, setup, handler, ghosts, budget>>

\* The webhook secret or the shop's config is taken away, and put back.
Switch(x) ==
  /\ x \in setup => Spend("setting")
  /\ x \notin setup => UNCHANGED budget
  /\ setup' = IF x \in setup THEN setup \ {x} ELSE setup \cup {x}
  /\ UNCHANGED <<engine, jobs, hooks, handler, ghosts>>

-------------------------------------------------------------------------------
(* handleOrdersCreate *)

Goto(h, pc) == handler' = [handler EXCEPT ![h].pc = pc]

\* A request that is refused leaves its webhook due.
Verify(h) ==
  /\ handler[h].pc = "verify"
  /\ IF "secret" \in setup
     THEN Goto(h, IF Items(handler[h].sale) = {} THEN "answer" ELSE "tenant")
     ELSE handler' = [handler EXCEPT ![h] = NoRequest]
  /\ UNCHANGED <<engine, jobs, hooks, setup, ghosts, budget>>

\* Without an active config the sale goes to the default tenant.
ResolveTenant(h) ==
  /\ handler[h].pc = "tenant"
  /\ handler' = [handler EXCEPT ![h].pc = "insert",
                   ![h].line = Min(Items(handler[h].sale)),
                   ![h].tenant = IF "config" \in setup THEN "shop" ELSE "default"]
  /\ UNCHANGED <<engine, jobs, hooks, setup, ghosts, budget>>

\* Mutant: a failed line ends the loop
StopAtFailure(h, failed) ==
  LET r    == handler[h]
      rest == {i \in Items(r.sale) : i > r.line /\ failed = {}}
  IN  handler' = [handler EXCEPT ![h] = [r EXCEPT
                    !.pc = IF rest # {} THEN "insert" ELSE "answer",
                    !.line = IF rest # {} THEN Min(rest) ELSE @, !.failed = @ \cup failed]]

\* The line is done, with or without its order.
NextLine(h, failed) ==
  LET r    == handler[h]
      rest == {i \in Items(r.sale) : i > r.line}
  IN  handler' = [handler EXCEPT ![h] = [r EXCEPT
                    !.pc = IF rest # {} THEN "insert" ELSE "answer",
                    !.line = IF rest # {} THEN Min(rest) ELSE @, !.failed = @ \cup failed]]

\* HybridOrdersService.create, called for one line at a time.
Insert(h) ==
  /\ handler[h].pc = "insert"
  /\ Engine!Place(OrderOf(h))
  /\ Goto(h, "reserve")
  /\ UNCHANGED <<jobs, hooks, setup, ghosts, budget>>

Reserve(h) ==
  /\ handler[h].pc = "reserve"
  /\ Engine!Reserve(OrderOf(h))
  /\ Goto(h, "enqueue")
  /\ UNCHANGED <<jobs, hooks, setup, ghosts, budget>>

\* There is not enough sellable stock.
ReserveRefused(h) ==
  LET o == OrderOf(h)
  IN  /\ handler[h].pc = "reserve"
      /\ physical[RowOf[o]] - reserved[RowOf[o]] < Qty[o]
      /\ Goto(h, "failing")
      /\ UNCHANGED <<engine, jobs, hooks, setup, ghosts, budget>>

\* Mutant: the job carries the sale, not its order
EnqueueSale(h) ==
  /\ handler[h].pc = "enqueue"
  /\ jobs' = jobs \cup {handler[h].sale}
  /\ Goto(h, "mark")
  /\ UNCHANGED <<engine, hooks, setup, ghosts, budget>>

\* Mutant: the job's id is the sale's
EnqueueBySale(h) ==
  /\ handler[h].pc = "enqueue"
  /\ jobs' = jobs \cup {o \in {OrderOf(h)} : \A n \in jobs : n.sale # o.sale}
  /\ Goto(h, "mark")
  /\ UNCHANGED <<engine, hooks, setup, ghosts, budget>>

Enqueue(h) ==
  /\ handler[h].pc = "enqueue"
  /\ jobs' = jobs \cup {OrderOf(h)}
  /\ Goto(h, "mark")
  /\ UNCHANGED <<engine, hooks, setup, ghosts, budget>>

\* updateOrderQueuedAt touches nothing else.
Mark(h) ==
  /\ handler[h].pc = "mark"
  /\ NextLine(h, {})
  /\ UNCHANGED <<engine, jobs, hooks, setup, ghosts, budget>>

\* handleTerminalFailure reads the order without its lock.  What a worker has sold
\* by now stays sold; the error goes on to the line's catch.
FindOrder(h) ==
  /\ handler[h].pc = "failing"
  /\ IF status[OrderOf(h)] = "CONFIRMED" THEN NextLine(h, {handler[h].line})
                                         ELSE Goto(h, "fail")
  /\ UNCHANGED <<engine, jobs, hooks, setup, ghosts, budget>>

\* Mutant: a reservation is not given back
FailCreatedOnly(h) ==
  LET o == OrderOf(h)
  IN  /\ handler[h].pc = "fail"
      /\ IF status[o] = "CREATED" THEN Engine!Reject(o) ELSE UNCHANGED engine
      /\ NextLine(h, {handler[h].line})
      /\ UNCHANGED <<jobs, hooks, setup, ghosts, budget>>

\* updateOrderStatus, releaseAndFail: a reservation is given back, and the order is
\* FAILED whatever it has become since it was read.  Of a sale this takes back
\* nothing but the status: no step of AtomicOrders.
FailOrder(h) ==
  LET o == OrderOf(h)
  IN  /\ handler[h].pc = "fail"
      /\ \/ Engine!GiveBack(o)
         \/ /\ status[o] # "RESERVED"
            /\ status' = [status EXCEPT ![o] = "FAILED"]
            /\ UNCHANGED <<physical, reserved>>
      /\ NextLine(h, {handler[h].line})
      /\ UNCHANGED <<jobs, hooks, setup, ghosts, budget>>

\* 2xx, whatever has failed; Shopify no longer waits for an overtaken delivery.
Answer(h) ==
  LET r == handler[h]
      s == r.sale
  IN  /\ r.pc = "answer"
      /\ IF mail[s] = "due" /\ r.delivery = sent[s]
         THEN /\ mail' = [mail EXCEPT ![s] = "accepted"]
              /\ answered' = answered \cup ({s} \X r.failed)
         ELSE UNCHANGED <<mail, answered>>
      /\ handler' = [handler EXCEPT ![h] = NoRequest]
      /\ UNCHANGED <<engine, jobs, sent, setup, ghosts, budget>>

-------------------------------------------------------------------------------
(* The order worker, in as far as the engine's promise shows it *)

\* An order that is no longer RESERVED fails its attempts and stays as it is.
Work(o) ==
  /\ o \in jobs
  /\ \/ Engine!Sell(o)
     \/ status[o] # "RESERVED" /\ UNCHANGED engine
  /\ jobs' = jobs \ {o}
  /\ UNCHANGED <<hooks, setup, handler, ghosts, budget>>

\* The last attempt fails.  The terminal handler gives the reservation back, unless
\* it fails too: the lock stays busy, a statement rejects, or the job is failed by
\* BullMQ because it stalled twice.
WorkFails(o) ==
  /\ o \in jobs
  /\ Spend("failure")
  /\ \/ Engine!GiveBack(o) /\ UNCHANGED stranded
     \/ stranded' = stranded \cup {o} /\ UNCHANGED engine
  /\ jobs' = jobs \ {o}
  /\ UNCHANGED <<hooks, setup, handler, cut>>

-------------------------------------------------------------------------------
(* What goes wrong in the handler *)

Unfinished(h) ==
  IF handler[h].pc \in {"reserve", "enqueue", "failing", "fail"} THEN {OrderOf(h)} ELSE {}

\* Mutant: the request is rejected
LineRejects(h) ==
  /\ handler[h].pc \in {"insert", "reserve", "enqueue", "mark", "failing", "fail"}
  /\ Spend("failure")
  /\ handler' = [handler EXCEPT ![h] = NoRequest]
  /\ stranded' = stranded \cup Unfinished(h)
  /\ UNCHANGED <<engine, jobs, hooks, setup, cut>>

\* A statement rejects before its try block or in its handler: an order that is there,
\* as its answer alone was lost, or that cannot be failed, is left as it is.
LineFails(h) ==
  LET o == OrderOf(h)
  IN  /\ handler[h].pc \in {"insert", "failing", "fail"}
      /\ Spend("failure")
      /\ \/ handler[h].pc = "insert" /\ UNCHANGED <<engine, stranded>>
         \/ handler[h].pc = "insert" /\ Engine!Place(o) /\ stranded' = stranded \cup {o}
         \/ handler[h].pc # "insert" /\ UNCHANGED engine /\ stranded' = stranded \cup {o}
      /\ NextLine(h, {handler[h].line})
      /\ UNCHANGED <<jobs, hooks, setup, cut>>

\* A statement of the try block rejects, with or without effect: the order is failed.
OrderFails(h) ==
  LET o == OrderOf(h)
  IN  /\ handler[h].pc \in {"reserve", "enqueue", "mark"}
      /\ Spend("failure")
      /\ \/ UNCHANGED <<engine, jobs>>
         \/ handler[h].pc = "reserve" /\ Engine!Reserve(o) /\ UNCHANGED jobs
         \/ handler[h].pc = "enqueue" /\ jobs' = jobs \cup {o} /\ UNCHANGED engine
      /\ Goto(h, "failing")
      /\ UNCHANGED <<hooks, setup, ghosts>>

\* The config cannot be read: the request fails as a whole.
ResolveFails(h) ==
  /\ handler[h].pc = "tenant"
  /\ Spend("failure")
  /\ handler' = [handler EXCEPT ![h] = NoRequest]
  /\ UNCHANGED <<engine, jobs, hooks, setup, ghosts>>

RequestDies(h) ==
  /\ handler[h] # NoRequest
  /\ Spend("crash")
  /\ handler' = [handler EXCEPT ![h] = NoRequest]
  /\ cut' = cut \cup {handler[h].sale}
  /\ stranded' = stranded \cup Unfinished(h)
  /\ UNCHANGED <<engine, jobs, hooks, setup>>

-------------------------------------------------------------------------------
(* Specification *)

HandlerStep(h) ==
  \/ Verify(h) \/ ResolveTenant(h) \/ Insert(h) \/ Reserve(h) \/ ReserveRefused(h)
  \/ Enqueue(h) \/ Mark(h) \/ FindOrder(h) \/ FailOrder(h) \/ Answer(h)

Next ==
  \/ \E s \in Sales : Sale(s) \/ GiveUp(s) \/ \E h \in Handlers : Deliver(h, s)
  \/ \E x \in {"secret", "config"} : Switch(x)
  \/ \E h \in Handlers : HandlerStep(h) \/ LineFails(h) \/ OrderFails(h) \/ ResolveFails(h)
                        \/ RequestDies(h)
  \/ \E o \in Orders : Work(o) \/ WorkFails(o)

\* Shopify sends and gives up, requests run on, BullMQ hands jobs out.  Nobody has
\* to buy anything or to mend a setting.
Fairness ==
  /\ \A s \in Sales : WF_vars(GiveUp(s) \/ \E h \in Handlers : Deliver(h, s))
  /\ \A h \in Handlers : WF_vars(HandlerStep(h))
  /\ \A o \in Orders : WF_vars(Work(o))

Spec == Init /\ [][Next]_vars
LiveSpec == Spec /\ Fairness

-------------------------------------------------------------------------------
(* Properties *)

\* Type correctness: a request past its insert is about an order of its sale.
TypeOK ==
  /\ physical \in [Rows -> Nat] /\ reserved \in [Rows -> Nat]
  /\ status \in [Orders -> {"NONE", "CREATED", "RESERVED", "CONFIRMED", "FAILED"}]
  /\ jobs \subseteq Orders /\ stranded \subseteq Orders
  /\ mail \in [Sales -> {"none", "due", "accepted", "dropped"}]
  /\ sent \in [Sales -> 0..Deliveries]
  /\ setup \subseteq {"secret", "config"}
  /\ handler \in [Handlers -> Request]
  /\ \A h \in Handlers : handler[h].pc \in {"reserve", "enqueue", "mark", "failing", "fail"}
                           => OrderOf(h) \in Orders
  /\ answered \subseteq Sales \X Nat
  /\ cut \subseteq Sales
  /\ budget \in Nat

Placed(s, i) == {o \in Orders : o.sale = s /\ o.line = i /\ status[o] # "NONE"}

\* A sale Shopify has been told is accepted has an order for each of its lines, or
\* the answer has named the line as failed (handleOrdersCreate 163-187).
AcceptedLinesAccounted ==
  \A s \in Sales : mail[s] = "accepted" =>
    \A i \in Items(s) : Placed(s, i) # {} \/ <<s, i>> \in answered

\* A sale whose deliveries all got their answer in time has one order per line at
\* most: what is refused has placed none, and what has placed any is accepted
\* although a line failed.
RefusalsPlaceNothing ==
  \A s \in Sales \ cut : \A i \in Items(s) : Cardinality(Placed(s, i)) <= 1

\* An order is in the hands of its request or of a job until it is sold or failed,
\* but for those that died over it or could not fail it.
OrdersInHand ==
  \A o \in Orders \ stranded : status[o] \in {"CREATED", "RESERVED"} =>
    o \in jobs \/ \E h \in Handlers : o \in Unfinished(h)

Settled(s, i) ==
  \/ <<s, i>> \in answered
  \/ \E o \in Placed(s, i) : status[o] \in {"CONFIRMED", "FAILED"} \/ o \in stranded

\* In the end every line of a sale is sold, failed or given back, or Shopify has
\* given the sale up.
SalesSettle ==
  \A s \in Sales :
    mail[s] = "due" ~> \/ mail[s] = "dropped"
                       \/ \A i \in Items(s) : Settled(s, i)
===============================================================================
