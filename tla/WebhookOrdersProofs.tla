-------------------------- MODULE WebhookOrdersProofs --------------------------
(***************************************************************************)
(* What becomes of sales made in Shopify, for any sales, line items,       *)
(* number of concurrent requests, deliveries and mishaps: accepted lines   *)
(* are accounted for, refused deliveries place nothing, and no order is    *)
(* left alone but by those that died over it or could not fail it.         *)
(*                                                                         *)
(* None of it is inductive.  An answer accounts for a sale because every   *)
(* line behind the request has its order or is in the request's list of    *)
(* failures (Covered); a job that finds its order not RESERVED may drop    *)
(* it because what is queued has been reserved before (Reserved); and a    *)
(* sale that is not cut has one request at a time, which is due, is the    *)
(* newest delivery and found no orders when it began (Lone).  That stock   *)
(* is never short is a sum over the RESERVED orders of a row (Stock).      *)
(***************************************************************************)
EXTENDS WebhookOrders, FiniteSetTheorems, WellFoundedInduction, TLAPS

Stages  == {"NONE", "CREATED", "RESERVED", "CONFIRMED", "FAILED"}
AtLine  == {"insert", "reserve", "enqueue", "mark", "failing", "fail"}
Placing == {"reserve", "enqueue", "mark", "failing", "fail"}

\* Where a request is: at a line of a sale that has been delivered that often.
Where(r, deliveries) ==
  /\ r.pc = "idle" => r = NoRequest
  /\ r.pc # "idle" => r.sale \in Sales /\ r.delivery \in 1..deliveries[r.sale]
  /\ r.pc = "tenant" => Items(r.sale) # {}
  /\ r.pc \in AtLine => r.line \in Items(r.sale)

Typed ==
  /\ status \in [Orders -> Stages]
  /\ jobs \subseteq Orders /\ stranded \subseteq Orders
  /\ mail \in [Sales -> {"none", "due", "accepted", "dropped"}]
  /\ sent \in [Sales -> 0..Deliveries]
  /\ setup \subseteq {"secret", "config"}
  /\ handler \in [Handlers -> Request]
  /\ answered \subseteq Sales \X Nat
  /\ cut \subseteq Sales
  /\ budget \in Nat
  /\ \A h \in Handlers : Where(handler[h], sent)

OrderAt(r) == [sale |-> r.sale, line |-> r.line, delivery |-> r.delivery,
               tenant |-> r.tenant]

\* Lines of a sale that have an order by now.
Has(stage, s, i) ==
  \E o \in Orders : o.sale = s /\ o.line = i /\ stage[o] # "NONE"

\* Lines a request is done with, and has not called failed.
Behind(r) ==
  {i \in Items(r.sale) : r.pc = "answer" \/ (r.pc \in AtLine /\ i < r.line)} \ r.failed

Covered == \A h \in Handlers : \A i \in Behind(handler[h]) : Has(status, handler[h].sale, i)
Started == \A h \in Handlers :
             handler[h].pc \in Placing => status[OrderAt(handler[h])] # "NONE"

\* The order a request still has to see through.
Owes(r) == IF r.pc \in {"reserve", "enqueue", "failing", "fail"} THEN {OrderAt(r)} ELSE {}

Open(stage, o) == stage[o] \in {"CREATED", "RESERVED"}
Past(stage, o) == stage[o] \notin {"NONE", "CREATED"}

InHand ==
  \A o \in Orders \ stranded : Open(status, o) =>
    o \in jobs \/ \E h \in Handlers : o \in Owes(handler[h])

\* What a job or an enqueue finds has been reserved before.
Reserved ==
  /\ \A o \in jobs : Past(status, o)
  /\ \A h \in Handlers : handler[h].pc = "enqueue" => Past(status, OrderAt(handler[h]))

\* A sale whose deliveries all get their answer in time has one request at a time,
\* and all of its orders come from the one that placed something.
Active(r, s) == r.pc # "idle" /\ r.sale = s
Given(stage, s) == {o \in Orders : o.sale = s /\ stage[o] # "NONE"}

LoneRequest(s) ==
  \A h \in Handlers : Active(handler[h], s) =>
    /\ mail[s] = "due" /\ handler[h].delivery = sent[s]
    /\ \A g \in Handlers : Active(handler[g], s) => g = h
    /\ handler[h].pc \in {"verify", "tenant"} => Given(status, s) = {}
    /\ \A o \in Given(status, s) : o.delivery = sent[s] /\ o.tenant = handler[h].tenant

LoneOrders(s) ==
  /\ \A o, q \in Given(status, s) : o.delivery = q.delivery /\ o.tenant = q.tenant
  /\ Given(status, s) # {} =>
       mail[s] = "accepted" \/ \E h \in Handlers : Active(handler[h], s)

Lone == \A s \in Sales \ cut : LoneRequest(s) /\ LoneOrders(s)

Accounts == Covered /\ Started /\ AcceptedLinesAccounted
Hands    == InHand /\ Reserved

IInv == Typed /\ Accounts /\ Hands /\ Lone

-----------------------------------------------------------------------------
(* Line items and orders.                                                    *)

LEMMA MinOf ==
  ASSUME NEW S, S \subseteq Nat, S # {}
  PROVE  Min(S) \in S /\ \A y \in S : Min(S) <= y
<1>1. PICK x \in S : \A y \in S : ~(<<y, x>> \in OpToRel(<, Nat))
  BY WFMin, NatLessThanWellFounded
<1>2. \A y \in S : ~(y < x)
  BY <1>1 DEF OpToRel
<1>3. \A y \in S : x <= y
  BY <1>2
<1>4. Min(S) = CHOOSE y \in S : \A z \in S : y <= z
  BY DEF Min
<1>5. QED
  BY <1>3, <1>4

LEMMA ItemsOf ==
  ASSUME NEW s \in Sales, NEW i \in Items(s)
  PROVE  i \in Nat /\ Lines[s][i].sku \in Skus /\ Lines[s][i].qty \in Nat \ {0}
<1> DEFINE L == Lines[s]
           X == [sku : Skus \cup {None}, qty : Int]
<1>1. L \in Seq(X)
  BY OrderHookAssumption
<1>2. i \in DOMAIN L /\ L[i].sku # None /\ L[i].qty > 0
  BY DEF Items
<1>3. i \in Nat /\ L[i] \in X
  <2> HIDE DEF L, X
  <2>1. QED
    BY <1>1, <1>2
<1>4. QED
  BY <1>2, <1>3

\* An order is a sale, one of its lines, a delivery and a tenant.
LEMMA OrdersAre ==
  ASSUME NEW o
  PROVE  o \in Orders <=>
           /\ o = [sale |-> o.sale, line |-> o.line, delivery |-> o.delivery,
                   tenant |-> o.tenant]
           /\ o.sale \in Sales /\ o.line \in Items(o.sale)
           /\ o.delivery \in 1..Deliveries /\ o.tenant \in Tenants
<1>1. ASSUME o \in Orders
      PROVE  \E s \in Sales : o \in [sale : {s}, line : Items(s),
                                     delivery : 1..Deliveries, tenant : Tenants]
  BY <1>1 DEF Orders
<1>2. QED
  BY <1>1 DEF Orders

\* The order of a request that is at a line.
LEMMA OrderOfLine ==
  ASSUME NEW r \in Request, NEW n \in [Sales -> 0..Deliveries], Where(r, n), r.pc \in AtLine
  PROVE  LET o == OrderAt(r)
         IN  /\ o \in Orders /\ o.sale = r.sale /\ o.line = r.line
             /\ o.delivery = r.delivery /\ o.tenant = r.tenant
<1> DEFINE o == OrderAt(r)
<1>1. o = [sale |-> r.sale, line |-> r.line, delivery |-> r.delivery, tenant |-> r.tenant]
  BY DEF OrderAt
<1>2. r.sale \in Sales /\ r.line \in Items(r.sale) /\ r.delivery \in 1..Deliveries
  BY OrderHookAssumption DEF Where, AtLine
<1>3. r.tenant \in Tenants
  BY DEF Request
<1> HIDE DEF o
<1>4. o.sale = r.sale /\ o.line = r.line /\ o.delivery = r.delivery /\ o.tenant = r.tenant
  BY <1>1
<1>5. QED
  BY <1>1, <1>2, <1>3, <1>4, OrdersAre DEF o

LEMMA OrderOfRequest ==
  ASSUME Typed, NEW h \in Handlers, handler[h].pc \in AtLine
  PROVE  LET r == handler[h] o == OrderOf(h)
         IN  /\ o = OrderAt(r) /\ o \in Orders /\ o.sale = r.sale /\ o.line = r.line
             /\ o.delivery = r.delivery /\ o.tenant = r.tenant
             /\ r.sale \in Sales /\ r.line \in Items(r.sale) /\ r.line \in Nat
<1>1. handler[h] \in Request /\ Where(handler[h], sent) /\ sent \in [Sales -> 0..Deliveries]
  BY DEF Typed
<1>2. OrderOf(h) = OrderAt(handler[h])
  BY DEF OrderOf, OrderAt
<1>3. handler[h].sale \in Sales /\ handler[h].line \in Items(handler[h].sale)
  BY <1>1 DEF Where, AtLine
<1>4. QED
  BY <1>1, <1>2, <1>3, OrderOfLine, ItemsOf

-----------------------------------------------------------------------------
(* How a request moves.                                                      *)

\* Only these requests move.
Only(H) == \A g \in Handlers \ H : handler'[g] = handler[g]

\* The request is still about the same delivery of the same sale.
SameSale(r, q) == q.sale = r.sale /\ q.delivery = r.delivery /\ q.tenant = r.tenant

\* The request goes on behind its line, which is done.
Advanced(r, q) ==
  /\ SameSale(r, q)
  /\ \/ /\ q.pc = "insert" /\ q.line \in Items(r.sale)
        /\ \A i \in Items(r.sale) : i < q.line => i <= r.line
     \/ q.pc = "answer" /\ \A i \in Items(r.sale) : i <= r.line

LEMMA Goes ==
  ASSUME handler \in [Handlers -> Request], NEW h \in Handlers,
         NEW pc \in AtLine \cup {"answer", "tenant"}, Goto(h, pc)
  PROVE  LET r == handler[h] q == handler'[h]
         IN  /\ Only({h}) /\ handler' \in [Handlers -> Request]
             /\ SameSale(r, q) /\ q.line = r.line /\ q.failed = r.failed /\ q.pc = pc
<1>1. handler' = [handler EXCEPT ![h] = [handler[h] EXCEPT !.pc = pc]]
  BY DEF Goto
<1>2. [handler[h] EXCEPT !.pc = pc] \in Request
  BY DEF Request, AtLine
<1>3. QED
  BY <1>1, <1>2 DEF Only, SameSale, Request

LEMMA Leaves ==
  ASSUME handler \in [Handlers -> Request], NEW h \in Handlers,
         handler' = [handler EXCEPT ![h] = NoRequest]
  PROVE  /\ Only({h}) /\ handler' \in [Handlers -> Request]
         /\ handler'[h] = NoRequest
<1>1. NoRequest \in Request
  BY DEF NoRequest, Request, Tenants
<1>2. QED
  BY <1>1 DEF Only

LEMMA Advances ==
  ASSUME Typed, NEW h \in Handlers, handler[h].pc \in AtLine,
         NEW failed, failed \subseteq Nat, NextLine(h, failed)
  PROVE  LET r == handler[h] q == handler'[h]
         IN  /\ Only({h}) /\ handler' \in [Handlers -> Request]
             /\ Advanced(r, q) /\ q.failed = r.failed \cup failed
<1> DEFINE r    == handler[h]
           rest == {i \in Items(r.sale) : i > r.line}
           q    == [r EXCEPT !.pc = IF rest # {} THEN "insert" ELSE "answer",
                             !.line = IF rest # {} THEN Min(rest) ELSE @,
                             !.failed = @ \cup failed]
<1>1. handler \in [Handlers -> Request] /\ r \in Request
  BY DEF Typed
<1>2. handler' = [handler EXCEPT ![h] = q]
  BY DEF NextLine
<1>3. r.sale \in Sales /\ r.line \in Nat
  BY <1>1 DEF Typed, Where, AtLine, Request
<1>4. rest \subseteq Nat /\ rest \subseteq Items(r.sale)
  BY <1>3, ItemsOf
<1>5. rest # {} => Min(rest) \in rest /\ \A y \in rest : Min(rest) <= y
  <2> HIDE DEF rest
  <2>1. QED
    BY <1>4, MinOf
<1>6. /\ q.sale = r.sale /\ q.delivery = r.delivery /\ q.tenant = r.tenant
      /\ q.failed = r.failed \cup failed
      /\ q.pc = IF rest # {} THEN "insert" ELSE "answer"
      /\ q.line = IF rest # {} THEN Min(rest) ELSE r.line
      /\ q \in Request
  <2> DEFINE n == Min(rest)
  <2>1. rest # {} => n \in Nat
    BY <1>4, <1>5
  <2> HIDE DEF rest, n
  <2>2. r \in Request /\ (rest # {} => n \in Nat)
    BY <1>1, <2>1
  <2>3. q = [r EXCEPT !.pc = IF rest # {} THEN "insert" ELSE "answer",
                      !.line = IF rest # {} THEN n ELSE @,
                      !.failed = @ \cup failed]
    BY DEF n
  <2> HIDE DEF r, q
  <2>4. QED
    BY <2>2, <2>3 DEF Request, n
<1> HIDE DEF q
<1>7. Advanced(r, q)
  <2>1. CASE rest # {}
    <3>1. \A i \in Items(r.sale) : i < q.line => i <= r.line
      <4> SUFFICES ASSUME NEW i \in Items(r.sale), i < q.line, ~(i <= r.line)
                   PROVE  FALSE
        OBVIOUS
      <4>1. i \in Nat
        BY <1>3, ItemsOf
      <4>4. i > r.line
        BY <1>3, <4>1
      <4>5. i \in rest
        BY <4>4
      <4>2. Min(rest) \in Nat /\ Min(rest) <= i /\ q.line = Min(rest)
        BY <1>4, <1>5, <1>6, <2>1, <4>5
      <4>3. QED
        BY <4>1, <4>2
    <3>2. q.pc = "insert" /\ q.line \in Items(r.sale)
      BY <1>4, <1>5, <1>6, <2>1
    <3>3. QED
      BY <1>6, <3>1, <3>2 DEF Advanced, SameSale
  <2>2. CASE rest = {}
    <3>1. \A i \in Items(r.sale) : i <= r.line
      <4> SUFFICES ASSUME NEW i \in Items(r.sale), ~(i > r.line) PROVE i <= r.line
        BY <2>2
      <4>1. i \in Nat /\ r.line \in Nat
        BY <1>3, ItemsOf
      <4> HIDE DEF r
      <4>2. QED
        BY <4>1
    <3>2. QED
      BY <1>6, <2>2, <3>1 DEF Advanced, SameSale
  <2>3. QED
    BY <2>1, <2>2
<1>8. handler' \in [Handlers -> Request] /\ handler'[h] = q /\ Only({h})
  BY <1>1, <1>2, <1>6 DEF Only
<1>9. QED
  BY <1>6, <1>7, <1>8

-----------------------------------------------------------------------------
(* What a step has to show of the one request or order it moves.             *)

\* Orders only go on.
Onward ==
  \A o \in Orders :
    /\ status[o] # "NONE" => status'[o] # "NONE"
    /\ Past(status, o) => Past(status', o)
    /\ Open(status', o) => Open(status, o) \/ status[o] = "NONE"

\* No order is placed.
NonePlaced == \A o \in Orders : status'[o] # "NONE" => status[o] # "NONE"

LEMMA Still == ASSUME UNCHANGED status PROVE Onward /\ NonePlaced
BY DEF Onward, NonePlaced, Past, Open

LEMMA EngineMove ==
  ASSUME Typed, NEW o \in Orders, NEW from, NEW to \in Stages, Engine!Becomes(o, from, to)
  PROVE  /\ status[o] \in from /\ status' \in [Orders -> Stages] /\ status'[o] = to
         /\ \A q \in Orders : q # o => status'[q] = status[q]
BY DEF Engine!Becomes, Typed

\* releaseAndFail of an order that is not, or no longer, reserved.
Overwrite(o) == /\ status[o] # "RESERVED"
                /\ status' = [status EXCEPT ![o] = "FAILED"]
                /\ UNCHANGED <<physical, reserved>>

\* Steps of the engine; the last four place no order.
LEMMA EngineSteps ==
  ASSUME Typed, NEW o \in Orders
  PROVE  /\ Engine!Place(o) => /\ Onward /\ status' \in [Orders -> Stages]
                               /\ status'[o] # "NONE" /\ ~Past(status', o)
                               /\ \A q \in Orders : q # o => status'[q] = status[q]
         /\ Engine!Reserve(o) => /\ Onward /\ status' \in [Orders -> Stages] /\ NonePlaced
                                 /\ Past(status', o) /\ Open(status, o)
                                 /\ \A q \in Orders : q # o => status'[q] = status[q]
         /\ Engine!Sell(o) \/ Engine!Reject(o) \/ Engine!GiveBack(o) =>
              /\ Onward /\ status' \in [Orders -> Stages] /\ NonePlaced /\ ~Open(status', o)
              /\ \A q \in Orders : q # o => status'[q] = status[q]
<1>1. CASE Engine!Place(o)
  <2>1. Engine!Becomes(o, {"NONE"}, "CREATED")
    BY <1>1 DEF Engine!Place
  <2>2. /\ status[o] \in {"NONE"} /\ status' \in [Orders -> Stages] /\ status'[o] = "CREATED"
        /\ \A q \in Orders : q # o => status'[q] = status[q]
    BY <2>1, EngineMove DEF Stages
  <2>3. QED
    BY <2>2 DEF Onward, Past, Open, Engine!Place, Engine!Reserve, Engine!Sell, Engine!Reject,
                Engine!GiveBack, Engine!Becomes
<1>2. CASE Engine!Reserve(o)
  <2>1. Engine!Becomes(o, {"CREATED"}, "RESERVED")
    BY <1>2 DEF Engine!Reserve
  <2>2. /\ status[o] \in {"CREATED"} /\ status' \in [Orders -> Stages] /\ status'[o] = "RESERVED"
        /\ \A q \in Orders : q # o => status'[q] = status[q]
    BY <2>1, EngineMove DEF Stages
  <2>3. QED
    BY <2>2 DEF Onward, NonePlaced, Past, Open, Engine!Place, Engine!Reserve, Engine!Sell,
                Engine!Reject, Engine!GiveBack, Engine!Becomes
<1>3. CASE Engine!Sell(o) \/ Engine!Reject(o) \/ Engine!GiveBack(o)
  <2>1. \/ Engine!Becomes(o, {"RESERVED"}, "CONFIRMED")
        \/ Engine!Becomes(o, {"CREATED"}, "FAILED")
        \/ Engine!Becomes(o, {"RESERVED"}, "FAILED")
    BY <1>3 DEF Engine!Sell, Engine!Reject, Engine!GiveBack
  <2>2. /\ status[o] \in {"CREATED", "RESERVED"} /\ status' \in [Orders -> Stages]
        /\ status'[o] \in {"CONFIRMED", "FAILED"}
        /\ \A q \in Orders : q # o => status'[q] = status[q]
    BY <2>1, EngineMove DEF Stages
  <2>3. ~Engine!Place(o) /\ ~Engine!Reserve(o)
    BY <1>3, <2>2 DEF Engine!Place, Engine!Reserve, Engine!Becomes
  <2>4. QED
    BY <2>2, <2>3 DEF Onward, NonePlaced, Past, Open
<1>4. QED
  BY <1>1, <1>2, <1>3

LEMMA OverwriteStep ==
  ASSUME Typed, NEW o \in Orders, status[o] # "NONE", Overwrite(o)
  PROVE  /\ Onward /\ status' \in [Orders -> Stages] /\ NonePlaced /\ ~Open(status', o)
         /\ \A q \in Orders : q # o => status'[q] = status[q]
<1>1. /\ status' \in [Orders -> Stages] /\ status'[o] = "FAILED"
      /\ \A q \in Orders : q # o => status'[q] = status[q]
  BY DEF Overwrite, Typed, Stages
<1>2. QED
  BY <1>1 DEF Onward, NonePlaced, Past, Open

\* Lines keep their orders.
LEMMA HasStays ==
  ASSUME Onward, NEW s, NEW i, Has(status, s, i)
  PROVE  Has(status', s, i)
BY DEF Onward, Has

LEMMA PlacedHas ==
  ASSUME NEW s, NEW i
  PROVE  Placed(s, i) # {} <=> Has(status, s, i)
BY DEF Placed, Has

LEMMA AcceptedHave ==
  AcceptedLinesAccounted <=>
    \A s \in Sales : mail[s] = "accepted" =>
      \A i \in Items(s) : Has(status, s, i) \/ <<s, i>> \in answered
BY DEF AcceptedLinesAccounted, Placed, Has

LEMMA AcceptedHaveThen ==
  AcceptedLinesAccounted' <=>
    \A s \in Sales : mail'[s] = "accepted" =>
      \A i \in Items(s) : Has(status', s, i) \/ <<s, i>> \in answered'
BY DEF AcceptedLinesAccounted, Placed, Has

LEMMA AcceptedStay ==
  ASSUME AcceptedLinesAccounted, Onward, answered \subseteq answered',
         \A s \in Sales : mail'[s] = "accepted" => mail[s] = "accepted"
  PROVE  AcceptedLinesAccounted'
BY AcceptedHave, AcceptedHaveThen, HasStays

\* The requests in H move, and maybe an order.
LEMMA CoveredStays ==
  ASSUME Typed, Covered, Started, Onward, NEW H, Only(H),
         \A h \in H : /\ \A i \in Behind(handler'[h]) : Has(status', handler'[h].sale, i)
                      /\ handler'[h].pc \in Placing => status'[OrderAt(handler'[h])] # "NONE"
  PROVE  Covered' /\ Started'
<1>1. ASSUME NEW g \in Handlers, NEW i \in Behind(handler'[g])
      PROVE  Has(status', handler'[g].sale, i)
  <2>1. CASE g \in H
    BY <1>1, <2>1
  <2>2. CASE g \notin H
    <3>1. handler'[g] = handler[g] /\ Has(status, handler[g].sale, i)
      BY <1>1, <2>2 DEF Only, Covered
    <3>2. QED
      BY <3>1, HasStays
  <2>3. QED
    BY <2>1, <2>2
<1>2. ASSUME NEW g \in Handlers, handler'[g].pc \in Placing
      PROVE  status'[OrderAt(handler'[g])] # "NONE"
  <2>1. CASE g \in H
    BY <1>2, <2>1
  <2>2. CASE g \notin H
    <3>1. handler'[g] = handler[g]
      BY <2>2 DEF Only
    <3>2. status[OrderAt(handler[g])] # "NONE" /\ OrderAt(handler[g]) \in Orders
      BY <1>2, <3>1, OrderOfRequest DEF Started, Placing, AtLine
    <3>3. QED
      BY <3>1, <3>2 DEF Onward
  <2>3. QED
    BY <2>1, <2>2
<1>3. QED
  BY <1>1, <1>2 DEF Covered, Started

LEMMA InHandStays ==
  ASSUME InHand, stranded \subseteq stranded', NEW H \in SUBSET Handlers, Only(H),
         \A o \in Orders \ stranded' : Open(status', o) =>
            \/ o \in jobs' \/ \E h \in H : o \in Owes(handler'[h])
            \/ /\ Open(status, o) /\ (o \in jobs => o \in jobs')
               /\ \A h \in H : o \notin Owes(handler[h])
  PROVE  InHand'
<1> SUFFICES ASSUME NEW o \in Orders \ stranded', Open(status', o)
             PROVE  o \in jobs' \/ \E g \in Handlers : o \in Owes(handler'[g])
  BY DEF InHand
<1>1. CASE o \in jobs' \/ \E h \in H : o \in Owes(handler'[h])
  BY <1>1
<1>2. CASE /\ Open(status, o) /\ (o \in jobs => o \in jobs')
            /\ \A h \in H : o \notin Owes(handler[h])
  <2>1. o \in jobs \/ \E g \in Handlers : o \in Owes(handler[g])
    BY <1>2 DEF InHand
  <2>2. CASE o \in jobs
    BY <1>2, <2>2
  <2>3. ASSUME NEW g \in Handlers, o \in Owes(handler[g])
        PROVE  o \in Owes(handler'[g])
    BY <1>2, <2>3 DEF Only
  <2>4. QED
    BY <2>1, <2>2, <2>3
<1>3. QED
  BY <1>1, <1>2

LEMMA ReservedStays ==
  ASSUME Typed, Reserved, Onward, NEW H, Only(H),
         \A o \in jobs' \ jobs : Past(status', o),
         \A h \in H : handler'[h].pc = "enqueue" => Past(status', OrderAt(handler'[h]))
  PROVE  Reserved'
<1>1. ASSUME NEW o \in jobs' PROVE Past(status', o)
  BY <1>1 DEF Reserved, Onward, Typed
<1>2. ASSUME NEW g \in Handlers, handler'[g].pc = "enqueue"
      PROVE  Past(status', OrderAt(handler'[g]))
  <2>1. CASE g \in H
    BY <1>2, <2>1
  <2>2. CASE g \notin H
    <3>1. handler'[g] = handler[g]
      BY <2>2 DEF Only
    <3>2. Past(status, OrderAt(handler[g])) /\ OrderAt(handler[g]) \in Orders
      BY <1>2, <3>1, OrderOfRequest DEF Reserved, AtLine
    <3>3. QED
      BY <3>1, <3>2 DEF Onward
  <2>3. QED
    BY <2>1, <2>2
<1>3. QED
  BY <1>1, <1>2 DEF Reserved

-----------------------------------------------------------------------------
(* One request per sale.                                                     *)

\* Request h moves on with its sale; all it may place is its own order.
LEMMA LoneGoesOn ==
  ASSUME Typed, Lone, NEW h \in Handlers, Only({h}), UNCHANGED <<mail, sent>>,
         cut \subseteq cut', handler[h].pc # "idle", handler'[h].pc # "idle",
         handler'[h].sale = handler[h].sale, handler'[h].delivery = handler[h].delivery,
         \/ handler[h].pc \in {"verify", "tenant"} /\ UNCHANGED status
         \/ /\ handler'[h].tenant = handler[h].tenant
            /\ handler'[h].pc \notin {"verify", "tenant"}
            /\ \A o \in Orders : status'[o] # "NONE" =>
                 \/ status[o] # "NONE"
                 \/ /\ o.sale = handler[h].sale /\ o.tenant = handler[h].tenant
                    /\ o.delivery = handler[h].delivery
  PROVE  \A s \in Sales \ cut' : LoneRequest(s)' /\ LoneOrders(s)'
<1> SUFFICES ASSUME NEW s \in Sales \ cut' PROVE LoneRequest(s)' /\ LoneOrders(s)'
  OBVIOUS
<1>1. LoneRequest(s) /\ LoneOrders(s)
  BY DEF Lone
<1>2. \A g \in Handlers : Active(handler'[g], s) <=> Active(handler[g], s)
  BY DEF Only, Active
<1>3. CASE ~Active(handler[h], s)
  <2>1. handler[h].sale # s
    BY <1>3 DEF Active
  <2>2. \A o \in Given(status', s) : o \in Given(status, s)
    BY <2>1 DEF Given
  <2>3. \A g \in Handlers : Active(handler[g], s) => handler'[g] = handler[g]
    BY <1>3 DEF Only
  <2>4. LoneRequest(s)'
    BY <1>1, <1>2, <2>2, <2>3 DEF LoneRequest
  <2>5. LoneOrders(s)'
    BY <1>1, <1>2, <2>2 DEF LoneOrders
  <2>6. QED
    BY <2>4, <2>5
<1>4. CASE Active(handler[h], s)
  <2>1. handler[h].sale = s /\ \A g \in Handlers : Active(handler[g], s) => g = h
    BY <1>1, <1>4 DEF LoneRequest, Active
  <2>2. /\ mail[s] = "due" /\ handler[h].delivery = sent[s]
        /\ handler[h].pc \in {"verify", "tenant"} => Given(status, s) = {}
        /\ \A o \in Given(status, s) : o.delivery = sent[s] /\ o.tenant = handler[h].tenant
    BY <1>1, <1>4 DEF LoneRequest
  <2>3. \A o \in Given(status', s) : o.delivery = sent[s] /\ o.tenant = handler'[h].tenant
    BY <2>1, <2>2 DEF Given
  <2>4. handler'[h].pc \in {"verify", "tenant"} => Given(status', s) = {}
    BY <2>2 DEF Given
  <2>5. LoneRequest(s)'
    BY <1>2, <2>1, <2>2, <2>3, <2>4 DEF LoneRequest
  <2>6. LoneOrders(s)'
    BY <1>2, <1>4, <2>3 DEF LoneOrders
  <2>7. QED
    BY <2>5, <2>6
<1>5. QED
  BY <1>3, <1>4

\* Request h leaves: its sale has no orders, is accepted, or is cut.
LEMMA LoneLeaves ==
  ASSUME Typed, Lone, NEW h \in Handlers, Only({h}), UNCHANGED <<sent, status>>,
         cut \subseteq cut', handler'[h].pc = "idle",
         \A s \in Sales \ cut' :
            \/ UNCHANGED mail /\ (Active(handler[h], s) => Given(status, s) = {})
            \/ ~Active(handler[h], s) /\ mail'[s] = mail[s]
            \/ Active(handler[h], s) /\ mail'[s] = "accepted"
  PROVE  \A s \in Sales \ cut' : LoneRequest(s)' /\ LoneOrders(s)'
<1> SUFFICES ASSUME NEW s \in Sales \ cut' PROVE LoneRequest(s)' /\ LoneOrders(s)'
  OBVIOUS
<1>1. LoneRequest(s) /\ LoneOrders(s)
  BY DEF Lone
<1>2. \A g \in Handlers : Active(handler'[g], s) <=> Active(handler[g], s) /\ g # h
  BY DEF Only, Active
<1>3. CASE ~Active(handler[h], s)
  <2>1. \A g \in Handlers : Active(handler[g], s) => handler'[g] = handler[g]
    BY <1>3 DEF Only
  <2>2. mail'[s] = mail[s]
    BY <1>3
  <2>3. QED
    BY <1>1, <1>2, <1>3, <2>1, <2>2 DEF LoneRequest, LoneOrders
<1>4. CASE Active(handler[h], s)
  <2>1. \A g \in Handlers : ~Active(handler'[g], s)
    BY <1>1, <1>2, <1>4 DEF LoneRequest
  <2>2. Given(status, s) = {} \/ mail'[s] = "accepted"
    BY <1>4
  <2>3. QED
    BY <1>1, <2>1, <2>2 DEF LoneRequest, LoneOrders
<1>5. QED
  BY <1>3, <1>4

\* No request moves and no order is placed; the mail of an idle sale may.
LEMMA LoneStays ==
  ASSUME Typed, Lone, UNCHANGED <<handler, sent, cut>>, Onward, NonePlaced,
         \A s \in Sales : mail'[s] # mail[s] =>
            /\ mail[s] # "accepted"
            /\ \A h \in Handlers : ~Active(handler[h], s) \/ mail[s] # "due"
  PROVE  \A s \in Sales \ cut' : LoneRequest(s)' /\ LoneOrders(s)'
<1> SUFFICES ASSUME NEW s \in Sales \ cut PROVE LoneRequest(s)' /\ LoneOrders(s)'
  OBVIOUS
<1>1. LoneRequest(s) /\ LoneOrders(s)
  BY DEF Lone
<1>2. Given(status', s) \subseteq Given(status, s)
  BY DEF NonePlaced, Given
<1>3. CASE mail'[s] = mail[s]
  BY <1>1, <1>2, <1>3 DEF LoneRequest, LoneOrders
<1>4. CASE mail'[s] # mail[s]
  <2>1. \A h \in Handlers : ~Active(handler[h], s)
    BY <1>1, <1>4 DEF LoneRequest
  <2>2. Given(status', s) = {}
    BY <1>1, <1>2, <1>4, <2>1 DEF LoneOrders
  <2>3. QED
    BY <2>1, <2>2 DEF LoneRequest, LoneOrders
<1>5. QED
  BY <1>3, <1>4

-----------------------------------------------------------------------------
(* Steps that move no request.                                               *)

LEMMA WhereStays ==
  ASSUME Typed, NEW H, Only(H), \A s \in Sales : sent'[s] \in 0..Deliveries /\ sent'[s] >= sent[s],
         \A h \in H : Where(handler'[h], sent')
  PROVE  \A g \in Handlers : Where(handler'[g], sent')
<1> SUFFICES ASSUME NEW g \in Handlers, g \notin H PROVE Where(handler'[g], sent')
  OBVIOUS
<1>1. handler'[g] = handler[g] /\ Where(handler[g], sent)
  BY DEF Only, Typed
<1>2. \A s \in Sales : sent[s] \in 0..Deliveries /\ Deliveries \in Nat
  BY OrderHookAssumption DEF Typed
<1>3. QED
  BY <1>1, <1>2 DEF Where

\* What the requests do not see.
LEMMA QuietKept ==
  ASSUME IInv, UNCHANGED <<handler, sent, cut, answered>>,
         stranded \subseteq stranded', stranded' \subseteq Orders,
         Onward, NonePlaced, status' \in [Orders -> Stages], jobs' \subseteq jobs,
         \A o \in jobs \ jobs' : ~Open(status', o) \/ o \in stranded',
         mail' \in [Sales -> {"none", "due", "accepted", "dropped"}],
         \A s \in Sales : mail'[s] # mail[s] =>
            /\ mail[s] # "accepted" /\ mail'[s] # "accepted"
            /\ \A h \in Handlers : ~Active(handler[h], s) \/ mail[s] # "due",
         setup' \subseteq {"secret", "config"}, budget' \in Nat
  PROVE  IInv'
<1>1. Typed /\ Only({})
  BY DEF IInv, Only
<1>2. Typed'
  BY <1>1 DEF Typed
<1>3. Covered' /\ Started'
  BY <1>1, CoveredStays DEF IInv, Accounts
<1>4. AcceptedLinesAccounted'
  <2>1. \A s \in Sales : mail'[s] = "accepted" => mail[s] = "accepted"
    OBVIOUS
  <2>2. QED
    BY <2>1, AcceptedStay DEF IInv, Accounts
<1>5. InHand'
  <2>1. \A o \in Orders : Open(status', o) => Open(status, o)
    BY DEF Onward, NonePlaced, Open
  <2>2. QED
    BY <1>1, <2>1, InHandStays DEF IInv, Hands
<1>6. Reserved'
  BY <1>1, ReservedStays DEF IInv, Hands
<1>7. Lone'
  <2>1. \A s \in Sales \ cut' : LoneRequest(s)' /\ LoneOrders(s)'
    BY <1>1, LoneStays DEF IInv
  <2>2. QED
    BY <2>1 DEF Lone
<1>8. QED
  BY <1>2, <1>3, <1>4, <1>5, <1>6, <1>7 DEF IInv, Accounts, Hands

LEMMA Spent ==
  ASSUME Typed, NEW what, Spend(what)
  PROVE  budget' \in Nat
BY DEF Typed, Spend

LEMMA ShopifyKept ==
  ASSUME IInv, NEW s \in Sales, Sale(s) \/ GiveUp(s)
  PROVE  IInv'
<1>1. UNCHANGED <<handler, sent, cut, stranded, answered, status, jobs, setup, budget>>
  BY DEF Sale, GiveUp, engine, ghosts
<1>2. Typed /\ Onward /\ NonePlaced
  BY <1>1, Still DEF IInv
<1>3. /\ mail' \in [Sales -> {"none", "due", "accepted", "dropped"}]
      /\ \A z \in Sales : mail'[z] # mail[z] =>
            /\ mail[z] # "accepted" /\ mail'[z] # "accepted"
            /\ \A h \in Handlers : ~Active(handler[h], z) \/ mail[z] # "due"
  <2>1. CASE Sale(s)
    BY <1>2, <2>1 DEF Sale, Typed
  <2>2. CASE GiveUp(s)
    <3>1. \A h \in Handlers : ~Active(handler[h], s)
      BY <2>2 DEF GiveUp, Active
    <3>2. QED
      BY <1>2, <2>2, <3>1 DEF GiveUp, Typed
  <2>3. QED
    BY <2>1, <2>2
<1>4. /\ status' \in [Orders -> Stages] /\ setup' \subseteq {"secret", "config"} /\ budget' \in Nat
      /\ stranded' \subseteq Orders
  BY <1>1, <1>2 DEF Typed
<1>5. QED
  BY <1>1, <1>2, <1>3, <1>4, QuietKept

LEMMA SwitchKept ==
  ASSUME IInv, NEW x \in {"secret", "config"}, Switch(x)
  PROVE  IInv'
<1>1. UNCHANGED <<handler, sent, cut, stranded, answered, status, jobs, mail>>
  BY DEF Switch, engine, ghosts, hooks
<1>2. Typed /\ Onward /\ NonePlaced
  BY <1>1, Still DEF IInv
<1>3. setup' \subseteq {"secret", "config"} /\ budget' \in Nat
  BY <1>2, Spent DEF Switch, Typed
<1>4. /\ status' \in [Orders -> Stages] /\ stranded' \subseteq Orders
      /\ mail' \in [Sales -> {"none", "due", "accepted", "dropped"}]
  BY <1>1, <1>2 DEF Typed
<1>5. QED
  BY <1>1, <1>2, <1>3, <1>4, QuietKept

LEMMA WorkKept ==
  ASSUME IInv, NEW o \in Orders, Work(o) \/ WorkFails(o)
  PROVE  IInv'
<1>1. UNCHANGED <<handler, sent, cut, answered, mail, setup>> /\ jobs' = jobs \ {o}
  BY DEF Work, WorkFails, ghosts, hooks
<1>2. Typed /\ o \in jobs /\ Past(status, o)
  BY DEF IInv, Hands, Reserved, Work, WorkFails
<1>3. budget' \in Nat
  BY <1>2, Spent DEF Work, WorkFails, Typed
<1>4. /\ Onward /\ NonePlaced /\ status' \in [Orders -> Stages]
      /\ stranded \subseteq stranded' /\ stranded' \subseteq Orders
      /\ ~Open(status', o) \/ o \in stranded'
  <2>1. CASE (Engine!Sell(o) \/ Engine!GiveBack(o)) /\ UNCHANGED stranded
    BY <1>2, <2>1, EngineSteps DEF Typed
  <2>2. CASE status[o] # "RESERVED" /\ UNCHANGED engine /\ UNCHANGED stranded
    <3>1. UNCHANGED status /\ Onward /\ NonePlaced
      BY <2>2, Still DEF engine
    <3>2. QED
      BY <1>2, <2>2, <3>1 DEF Typed, Past, Open
  <2>3. CASE stranded' = stranded \cup {o} /\ UNCHANGED engine
    <3>1. UNCHANGED status /\ Onward /\ NonePlaced
      BY <2>3, Still DEF engine
    <3>2. QED
      BY <1>2, <2>3, <3>1 DEF Typed
  <2>4. QED
    BY <2>1, <2>2, <2>3 DEF Work, WorkFails, ghosts
<1>5. setup' \subseteq {"secret", "config"} /\ mail' \in [Sales -> {"none", "due", "accepted", "dropped"}]
  BY <1>1, <1>2 DEF Typed
<1>6. QED
  BY <1>1, <1>3, <1>4, <1>5, QuietKept

-----------------------------------------------------------------------------
(* Steps of a request at a line.                                             *)

\* What such a step has to show: q is the request after it, o its order.
Kept(r, q, o) ==
  /\ SameSale(r, q) /\ q.pc \in AtLine \cup {"answer"}
  /\ q.pc \in AtLine => q.line \in Items(r.sale)
  /\ q.pc \in Placing => q.line = r.line /\ status'[o] # "NONE"
  /\ q.pc = "enqueue" => Past(status', o)
  /\ \A i \in Behind(q) : i \in Behind(r) \/ (i = r.line /\ status'[o] # "NONE")
  /\ \A x \in Orders : x # o => status'[x] = status[x]
  /\ \/ jobs' = jobs
     \/ jobs' = jobs \cup {o} /\ Past(status', o)
  /\ Open(status', o) => \/ o \in jobs' \cup stranded' \cup Owes(q)
                         \/ r.pc \in {"insert", "mark"} /\ Open(status, o)

LEMMA LineKept ==
  ASSUME IInv, NEW h \in Handlers, Only({h}), handler' \in [Handlers -> Request],
         handler[h].pc \in AtLine, Kept(handler[h], handler'[h], OrderOf(h)),
         Onward, status' \in [Orders -> Stages], budget' \in Nat,
         UNCHANGED <<mail, sent, setup, answered, cut>>,
         stranded' \in {stranded, stranded \cup {OrderOf(h)}}
  PROVE  IInv'
<1> DEFINE r == handler[h]
           q == handler'[h]
           o == OrderOf(h)
<1>1. /\ Typed /\ o = OrderAt(r) /\ o \in Orders /\ o.sale = r.sale /\ o.line = r.line
      /\ o.delivery = r.delivery /\ o.tenant = r.tenant
      /\ r.sale \in Sales /\ r.line \in Items(r.sale) /\ r.line \in Nat
  BY OrderOfRequest DEF IInv
<1>2. Kept(r, q, o) /\ Where(r, sent) /\ r.pc \in AtLine
  BY <1>1 DEF Typed
<1>3. q.pc \in Placing => OrderAt(q) = o
  BY <1>1, <1>2 DEF Kept, SameSale, OrderAt
<1>4. Owes(r) \subseteq {o}
  BY <1>1 DEF Owes
<1> HIDE DEF r, q, o
<1>5. Typed'
  <2>1. Where(q, sent')
    <3>1. q.pc # "idle" /\ r.pc # "idle" /\ sent' = sent
      BY <1>2 DEF Kept, AtLine
    <3>2. QED
      BY <1>2, <3>1 DEF Kept, Where, SameSale
  <2>2. \A g \in Handlers : Where(handler'[g], sent')
    <3>1. \A s \in Sales : sent'[s] \in 0..Deliveries /\ sent'[s] >= sent[s]
      BY <1>1 DEF Typed
    <3>2. QED
      BY <1>1, <2>1, <3>1, WhereStays DEF q
  <2>3. jobs' \subseteq Orders /\ stranded' \subseteq Orders
    BY <1>1, <1>2 DEF Typed, Kept, o
  <2>4. QED
    BY <1>1, <2>2, <2>3 DEF Typed
<1>6. Covered' /\ Started'
  <2>1. \A i \in Behind(q) : Has(status', q.sale, i)
    <3> SUFFICES ASSUME NEW i \in Behind(q) PROVE Has(status', q.sale, i)
      OBVIOUS
    <3>1. CASE i \in Behind(r)
      <4>1. Has(status, r.sale, i)
        BY <3>1 DEF IInv, Accounts, Covered, r
      <4>2. q.sale = r.sale
        BY <1>2 DEF Kept, SameSale
      <4>3. QED
        BY <4>1, <4>2, HasStays
    <3>2. CASE i = r.line /\ status'[o] # "NONE"
      BY <1>1, <1>2, <3>2 DEF Has, Kept, SameSale
    <3>3. QED
      BY <1>2, <3>1, <3>2 DEF Kept
  <2>2. q.pc \in Placing => status'[OrderAt(q)] # "NONE"
    BY <1>2, <1>3 DEF Kept
  <2>3. QED
    BY <1>1, <2>1, <2>2, CoveredStays DEF IInv, Accounts, q
<1>7. AcceptedLinesAccounted'
  BY AcceptedStay DEF IInv, Accounts
<1>8. InHand'
  <2>1. \A x \in Orders \ stranded' : Open(status', x) =>
            \/ x \in jobs' \/ x \in Owes(q)
            \/ /\ Open(status, x) /\ (x \in jobs => x \in jobs')
               /\ x \notin Owes(r)
    <3> SUFFICES ASSUME NEW x \in Orders \ stranded', Open(status', x)
                 PROVE  \/ x \in jobs' \/ x \in Owes(q)
                        \/ /\ Open(status, x) /\ (x \in jobs => x \in jobs')
                           /\ x \notin Owes(r)
      OBVIOUS
    <3>1. CASE x # o
      BY <1>2, <1>4, <3>1 DEF Kept, Open
    <3>2. CASE x = o
      BY <1>2, <3>2 DEF Kept, Owes
    <3>3. QED
      BY <3>1, <3>2
  <2>2. stranded \subseteq stranded'
    OBVIOUS
  <2>3. QED
    BY <2>1, <2>2, InHandStays DEF IInv, Hands, r, q
<1>9. Reserved'
  <2>1. \A x \in jobs' \ jobs : Past(status', x)
    BY <1>2 DEF Kept
  <2>2. q.pc = "enqueue" => Past(status', OrderAt(q))
    BY <1>2, <1>3 DEF Kept, Placing
  <2>3. QED
    BY <1>1, <2>1, <2>2, ReservedStays DEF IInv, Hands, q
<1>10. Lone'
  <2>1. r.pc # "idle" /\ q.pc # "idle" /\ q.sale = r.sale /\ q.delivery = r.delivery
        /\ q.tenant = r.tenant /\ q.pc \notin {"verify", "tenant"}
    BY <1>2 DEF Kept, SameSale, AtLine, r
  <2>2. \A x \in Orders : status'[x] # "NONE" =>
          \/ status[x] # "NONE"
          \/ x.sale = r.sale /\ x.tenant = r.tenant /\ x.delivery = r.delivery
    BY <1>1, <1>2 DEF Kept
  <2>3. \A s \in Sales \ cut' : LoneRequest(s)' /\ LoneOrders(s)'
    BY <1>1, <2>1, <2>2, LoneGoesOn DEF IInv, r, q
  <2>4. QED
    BY <2>3 DEF Lone
<1>11. QED
  BY <1>5, <1>6, <1>7, <1>8, <1>9, <1>10 DEF IInv, Accounts, Hands

LEMMA BehindSame ==
  ASSUME NEW r, NEW q, SameSale(r, q), q.line = r.line, q.failed = r.failed,
         r.pc \in AtLine, q.pc \in AtLine
  PROVE  Behind(q) = Behind(r)
BY DEF Behind, SameSale, AtLine

\* Behind a line that is done, that line is new.
LEMMA BehindAdvanced ==
  ASSUME NEW r \in Request, NEW q, r.pc \in AtLine, r.sale \in Sales, Advanced(r, q),
         NEW failed, q.failed = r.failed \cup failed
  PROVE  /\ \A i \in Behind(q) : i \in Behind(r) \/ (i = r.line /\ i \notin failed)
         /\ SameSale(r, q) /\ q.pc \in {"insert", "answer"}
         /\ q.pc \in AtLine => q.line \in Items(r.sale)
<1>1. r.line \in Nat /\ \A i \in Items(r.sale) : i \in Nat
  BY ItemsOf DEF Request
<1>2. SameSale(r, q) /\ q.pc \in {"insert", "answer"}
      /\ (q.pc \in AtLine => q.line \in Items(r.sale))
  BY DEF Advanced, AtLine
<1>3. ASSUME NEW i \in Behind(q)
      PROVE  i \in Behind(r) \/ (i = r.line /\ i \notin failed)
  <2>1. i \in Items(r.sale) /\ i \notin r.failed /\ i \notin failed /\ i \in Nat
    BY <1>1, <1>2, <1>3 DEF Behind, SameSale
  <2>2. i <= r.line
    BY <1>3, <2>1 DEF Behind, Advanced, AtLine
  <2>3. i < r.line \/ i = r.line
    BY <1>1, <2>1, <2>2
  <2>4. QED
    BY <2>1, <2>3 DEF Behind
<1>4. QED
  BY <1>2, <1>3

LEMMA InsertKept ==
  ASSUME IInv, NEW h \in Handlers, Insert(h)
  PROVE  IInv'
<1> DEFINE r == handler[h]
           q == handler'[h]
           o == OrderOf(h)
<1>1. r.pc = "insert" /\ r.pc \in AtLine /\ Typed
  BY DEF Insert, AtLine, IInv
<1>2. /\ o = OrderAt(r) /\ o \in Orders /\ o.line = r.line /\ r.line \in Items(r.sale)
  BY <1>1, OrderOfRequest
<1>3. /\ Only({h}) /\ handler' \in [Handlers -> Request] /\ SameSale(r, q)
      /\ q.line = r.line /\ q.failed = r.failed /\ q.pc = "reserve"
  BY <1>1, Goes DEF Insert, Typed, AtLine
<1>4. /\ Onward /\ status' \in [Orders -> Stages] /\ status'[o] # "NONE"
      /\ \A x \in Orders : x # o => status'[x] = status[x]
  BY <1>1, <1>2, EngineSteps DEF Insert
<1>5. OrderAt(q) = o
  BY <1>2, <1>3 DEF OrderAt, SameSale
<1>6. UNCHANGED <<jobs, mail, sent, setup, answered, cut, stranded, budget>>
  BY DEF Insert, hooks, ghosts
<1>7. Behind(q) = Behind(r)
  BY <1>1, <1>3, BehindSame DEF AtLine
<1>8. Kept(r, q, o)
  BY <1>1, <1>2, <1>3, <1>4, <1>5, <1>6, <1>7 DEF Kept, AtLine, Placing, Owes
<1>9. budget' \in Nat
  BY <1>1, <1>6 DEF Typed
<1>10. QED
  BY <1>1, <1>3, <1>4, <1>6, <1>8, <1>9, LineKept

LEMMA ReserveKept ==
  ASSUME IInv, NEW h \in Handlers, Reserve(h) \/ ReserveRefused(h)
  PROVE  IInv'
<1> DEFINE r == handler[h]
           q == handler'[h]
           o == OrderOf(h)
<1>1. r.pc = "reserve" /\ r.pc \in AtLine /\ Typed
  BY DEF Reserve, ReserveRefused, AtLine, IInv
<1>2. /\ o = OrderAt(r) /\ o \in Orders /\ o.line = r.line /\ r.line \in Items(r.sale)
      /\ status[o] # "NONE"
  BY <1>1, OrderOfRequest DEF IInv, Accounts, Started, Placing
<1>3. /\ Only({h}) /\ handler' \in [Handlers -> Request] /\ SameSale(r, q)
      /\ q.line = r.line /\ q.failed = r.failed /\ q.pc \in {"enqueue", "failing"}
      /\ q.pc = "enqueue" => Reserve(h)
  <2>1. ASSUME NEW pc \in {"enqueue", "failing"}, Goto(h, pc)
        PROVE  /\ Only({h}) /\ handler' \in [Handlers -> Request] /\ SameSale(r, q)
               /\ q.line = r.line /\ q.failed = r.failed /\ q.pc = pc
    BY <1>1, <2>1, Goes DEF Typed, AtLine
  <2>2. CASE Reserve(h)
    BY <2>1, <2>2 DEF Reserve
  <2>3. CASE ReserveRefused(h)
    BY <2>1, <2>3 DEF ReserveRefused
  <2>4. QED
    BY <2>2, <2>3
<1>4. /\ Onward /\ status' \in [Orders -> Stages] /\ (Reserve(h) => Past(status', o))
      /\ \A x \in Orders : x # o => status'[x] = status[x]
  <2>1. CASE Reserve(h)
    BY <1>1, <1>2, <2>1, EngineSteps DEF Reserve
  <2>2. CASE ReserveRefused(h) /\ ~Reserve(h)
    BY <1>1, <2>2, Still DEF ReserveRefused, engine, Typed
  <2>3. QED
    BY <2>1, <2>2
<1>5. OrderAt(q) = o
  BY <1>2, <1>3 DEF OrderAt, SameSale
<1>6. UNCHANGED <<jobs, mail, sent, setup, answered, cut, stranded, budget>>
  BY DEF Reserve, ReserveRefused, hooks, ghosts
<1>7. Behind(q) = Behind(r)
  BY <1>1, <1>3, BehindSame DEF AtLine
<1>8. status'[o] # "NONE"
  BY <1>2, <1>4 DEF Onward
<1>9. Kept(r, q, o)
  BY <1>1, <1>2, <1>3, <1>4, <1>5, <1>6, <1>7, <1>8 DEF Kept, AtLine, Placing, Owes
<1>10. budget' \in Nat
  BY <1>1, <1>6 DEF Typed
<1>11. QED
  BY <1>1, <1>3, <1>4, <1>6, <1>9, <1>10, LineKept

LEMMA EnqueueKept ==
  ASSUME IInv, NEW h \in Handlers, Enqueue(h)
  PROVE  IInv'
<1> DEFINE r == handler[h]
           q == handler'[h]
           o == OrderOf(h)
<1>1. r.pc = "enqueue" /\ r.pc \in AtLine /\ Typed
  BY DEF Enqueue, AtLine, IInv
<1>2. /\ o = OrderAt(r) /\ o \in Orders /\ o.line = r.line /\ r.line \in Items(r.sale)
      /\ status[o] # "NONE" /\ Past(status, o)
  BY <1>1, OrderOfRequest DEF IInv, Accounts, Started, Placing, Hands, Reserved
<1>3. /\ Only({h}) /\ handler' \in [Handlers -> Request] /\ SameSale(r, q)
      /\ q.line = r.line /\ q.failed = r.failed /\ q.pc = "mark"
  BY <1>1, Goes DEF Enqueue, Typed, AtLine
<1>4. UNCHANGED <<status, mail, sent, setup, answered, cut, stranded, budget>>
      /\ jobs' = jobs \cup {o}
  BY DEF Enqueue, hooks, ghosts, engine
<1>5. Behind(q) = Behind(r)
  BY <1>1, <1>3, BehindSame DEF AtLine
<1>6. Onward /\ status' \in [Orders -> Stages] /\ budget' \in Nat
  BY <1>1, <1>4, Still DEF Typed
<1>7. Kept(r, q, o)
  BY <1>1, <1>2, <1>3, <1>4, <1>5 DEF Kept, AtLine, Placing, Past
<1>8. QED
  BY <1>1, <1>3, <1>4, <1>6, <1>7, LineKept

LEMMA MarkKept ==
  ASSUME IInv, NEW h \in Handlers, Mark(h)
  PROVE  IInv'
<1> DEFINE r == handler[h]
           q == handler'[h]
           o == OrderOf(h)
<1>1. r.pc = "mark" /\ r.pc \in AtLine /\ Typed /\ r \in Request
  BY DEF Mark, AtLine, IInv, Typed
<1>2. /\ o \in Orders /\ r.sale \in Sales /\ status[o] # "NONE"
  BY <1>1, OrderOfRequest DEF IInv, Accounts, Started, Placing
<1>3. /\ Only({h}) /\ handler' \in [Handlers -> Request]
      /\ Advanced(r, q) /\ q.failed = r.failed \cup {}
  BY <1>1, Advances DEF Mark
<1>4. UNCHANGED <<status, jobs, mail, sent, setup, answered, cut, stranded, budget>>
  BY DEF Mark, hooks, ghosts, engine
<1>5. /\ \A i \in Behind(q) : i \in Behind(r) \/ i = r.line
      /\ SameSale(r, q) /\ q.pc \in {"insert", "answer"}
      /\ q.pc \in AtLine => q.line \in Items(r.sale)
  BY <1>1, <1>2, <1>3, BehindAdvanced
<1>6. Onward /\ status' \in [Orders -> Stages] /\ budget' \in Nat
  BY <1>1, <1>4, Still DEF Typed
<1>7. Kept(r, q, o)
  BY <1>1, <1>2, <1>4, <1>5 DEF Kept, AtLine, Placing, Open
<1>8. QED
  BY <1>1, <1>3, <1>4, <1>6, <1>7, LineKept

LEMMA FindOrderKept ==
  ASSUME IInv, NEW h \in Handlers, FindOrder(h)
  PROVE  IInv'
<1> DEFINE r == handler[h]
           q == handler'[h]
           o == OrderOf(h)
<1>1. r.pc = "failing" /\ r.pc \in AtLine /\ Typed /\ r \in Request
  BY DEF FindOrder, AtLine, IInv, Typed
<1>2. /\ o = OrderAt(r) /\ o \in Orders /\ r.sale \in Sales /\ r.line \in Nat
      /\ r.line \in Items(r.sale) /\ status[o] # "NONE"
  BY <1>1, OrderOfRequest DEF IInv, Accounts, Started, Placing
<1>3. UNCHANGED <<status, jobs, mail, sent, setup, answered, cut, stranded, budget>>
  BY DEF FindOrder, hooks, ghosts, engine
<1>4. Onward /\ status' \in [Orders -> Stages] /\ budget' \in Nat
  BY <1>1, <1>3, Still DEF Typed
<1>5. CASE status[o] = "CONFIRMED" /\ NextLine(h, {r.line})
  <2>1. /\ Only({h}) /\ handler' \in [Handlers -> Request]
        /\ Advanced(r, q) /\ q.failed = r.failed \cup {r.line}
    BY <1>1, <1>2, <1>5, Advances
  <2>2. /\ \A i \in Behind(q) : i \in Behind(r)
        /\ SameSale(r, q) /\ q.pc \in {"insert", "answer"}
        /\ q.pc \in AtLine => q.line \in Items(r.sale)
    BY <1>1, <1>2, <2>1, BehindAdvanced
  <2>3. Kept(r, q, o)
    BY <1>2, <1>3, <1>5, <2>2 DEF Kept, AtLine, Placing, Open
  <2>4. QED
    BY <1>1, <1>3, <1>4, <2>1, <2>3, LineKept
<1>6. CASE Goto(h, "fail")
  <2>1. /\ Only({h}) /\ handler' \in [Handlers -> Request] /\ SameSale(r, q)
        /\ q.line = r.line /\ q.failed = r.failed /\ q.pc = "fail"
    BY <1>1, <1>6, Goes DEF Typed, AtLine
  <2>2. Behind(q) = Behind(r)
    BY <1>1, <2>1, BehindSame DEF AtLine
  <2>3. OrderAt(q) = o
    BY <1>2, <2>1 DEF OrderAt, SameSale
  <2>4. Kept(r, q, o)
    BY <1>2, <1>3, <2>1, <2>2, <2>3 DEF Kept, AtLine, Placing, Owes
  <2>5. QED
    BY <1>1, <1>3, <1>4, <2>1, <2>4, LineKept
<1>7. QED
  BY <1>5, <1>6 DEF FindOrder

LEMMA FailOrderKept ==
  ASSUME IInv, NEW h \in Handlers, FailOrder(h)
  PROVE  IInv'
<1> DEFINE r == handler[h]
           q == handler'[h]
           o == OrderOf(h)
<1>1. r.pc = "fail" /\ r.pc \in AtLine /\ Typed /\ r \in Request
  BY DEF FailOrder, AtLine, IInv, Typed
<1>2. o \in Orders /\ r.sale \in Sales /\ r.line \in Nat /\ status[o] # "NONE"
  BY <1>1, OrderOfRequest DEF IInv, Accounts, Started, Placing
<1>3. /\ Only({h}) /\ handler' \in [Handlers -> Request]
      /\ Advanced(r, q) /\ q.failed = r.failed \cup {r.line}
  BY <1>1, <1>2, Advances DEF FailOrder
<1>4. UNCHANGED <<jobs, mail, sent, setup, answered, cut, stranded, budget>>
  BY DEF FailOrder, hooks, ghosts
<1>5. /\ \A i \in Behind(q) : i \in Behind(r)
      /\ SameSale(r, q) /\ q.pc \in {"insert", "answer"}
      /\ q.pc \in AtLine => q.line \in Items(r.sale)
  BY <1>1, <1>2, <1>3, BehindAdvanced
<1>6. /\ Onward /\ status' \in [Orders -> Stages] /\ ~Open(status', o)
      /\ \A x \in Orders : x # o => status'[x] = status[x]
  <2>1. CASE Engine!GiveBack(o)
    BY <1>1, <1>2, <2>1, EngineSteps
  <2>2. CASE Overwrite(o)
    BY <1>1, <1>2, <2>2, OverwriteStep
  <2>3. QED
    BY <2>1, <2>2 DEF FailOrder, Overwrite
<1>7. Kept(r, q, o)
  BY <1>1, <1>2, <1>4, <1>5, <1>6 DEF Kept, AtLine, Placing
<1>8. budget' \in Nat
  BY <1>1, <1>4 DEF Typed
<1>9. QED
  BY <1>1, <1>3, <1>4, <1>6, <1>7, <1>8, LineKept

LEMMA LineFailsKept ==
  ASSUME IInv, NEW h \in Handlers, LineFails(h)
  PROVE  IInv'
<1> DEFINE r == handler[h]
           q == handler'[h]
           o == OrderOf(h)
<1>1. /\ r.pc \in {"insert", "failing", "fail"} /\ r.pc \in AtLine /\ Typed
      /\ r \in Request /\ budget' \in Nat
  BY Spent DEF LineFails, AtLine, IInv, Typed
<1>2. /\ o = OrderAt(r) /\ o \in Orders /\ r.sale \in Sales /\ r.line \in Nat
      /\ r.line \in Items(r.sale)
  BY <1>1, OrderOfRequest
<1>3. UNCHANGED <<jobs, mail, sent, setup, answered, cut>> /\ NextLine(h, {r.line})
  BY DEF LineFails, hooks
<1>4. /\ Onward /\ status' \in [Orders -> Stages]
      /\ \A x \in Orders : x # o => status'[x] = status[x]
      /\ \/ stranded' = stranded \cup {o}
         \/ r.pc = "insert" /\ status' = status /\ stranded' = stranded
  <2>1. CASE Engine!Place(o) /\ stranded' = stranded \cup {o}
    BY <1>1, <1>2, <2>1, EngineSteps
  <2>2. CASE /\ UNCHANGED engine
             /\ \/ stranded' = stranded \cup {o}
                \/ r.pc = "insert" /\ stranded' = stranded
    BY <1>1, <2>2, Still DEF engine, Typed
  <2>3. QED
    BY <2>1, <2>2 DEF LineFails
<1>5. /\ Only({h}) /\ handler' \in [Handlers -> Request]
      /\ Advanced(r, q) /\ q.failed = r.failed \cup {r.line}
  BY <1>1, <1>2, <1>3, Advances
<1>6. /\ \A i \in Behind(q) : i \in Behind(r)
      /\ SameSale(r, q) /\ q.pc \in {"insert", "answer"}
      /\ q.pc \in AtLine => q.line \in Items(r.sale)
  BY <1>1, <1>2, <1>5, BehindAdvanced
<1>7. Kept(r, q, o)
  BY <1>2, <1>3, <1>4, <1>6 DEF Kept, AtLine, Placing, Open
<1>8. QED
  BY <1>1, <1>3, <1>4, <1>5, <1>7, LineKept

LEMMA OrderFailsKept ==
  ASSUME IInv, NEW h \in Handlers, OrderFails(h)
  PROVE  IInv'
<1> DEFINE r == handler[h]
           q == handler'[h]
           o == OrderOf(h)
<1>1. /\ r.pc \in {"reserve", "enqueue", "mark"} /\ r.pc \in AtLine /\ r.pc \in Placing
      /\ Typed /\ r \in Request /\ budget' \in Nat
  BY Spent DEF OrderFails, AtLine, Placing, IInv, Typed
<1>2. /\ o = OrderAt(r) /\ o \in Orders /\ r.line \in Items(r.sale) /\ status[o] # "NONE"
      /\ r.pc = "enqueue" => Past(status, o)
  BY <1>1, OrderOfRequest DEF IInv, Accounts, Started, Hands, Reserved
<1>3. UNCHANGED <<mail, sent, setup, answered, cut, stranded>> /\ Goto(h, "failing")
  BY DEF OrderFails, hooks, ghosts
<1>4. /\ Onward /\ status' \in [Orders -> Stages]
      /\ \A x \in Orders : x # o => status'[x] = status[x]
      /\ jobs' = jobs \/ (jobs' = jobs \cup {o} /\ Past(status', o))
  <2>1. CASE Engine!Reserve(o) /\ UNCHANGED jobs
    BY <1>1, <1>2, <2>1, EngineSteps
  <2>2. CASE UNCHANGED engine /\ (jobs' = jobs \/ (r.pc = "enqueue" /\ jobs' = jobs \cup {o}))
    BY <1>1, <1>2, <2>2, Still DEF engine, Typed
  <2>3. QED
    BY <2>1, <2>2 DEF OrderFails
<1>5. /\ Only({h}) /\ handler' \in [Handlers -> Request] /\ SameSale(r, q)
      /\ q.line = r.line /\ q.failed = r.failed /\ q.pc = "failing"
  BY <1>1, <1>3, Goes DEF Typed, AtLine
<1>6. Behind(q) = Behind(r)
  BY <1>1, <1>5, BehindSame DEF AtLine
<1>7. OrderAt(q) = o /\ status'[o] # "NONE"
  BY <1>2, <1>4, <1>5 DEF OrderAt, SameSale, Onward
<1>8. Kept(r, q, o)
  BY <1>2, <1>4, <1>5, <1>6, <1>7 DEF Kept, AtLine, Placing, Owes
<1>9. QED
  BY <1>1, <1>3, <1>4, <1>5, <1>8, LineKept

-----------------------------------------------------------------------------
(* Requests come, find their sale's lines and tenant, and go.                *)

\* A request that is not at a line is new or is leaving.
LEMMA EntersKept ==
  ASSUME IInv, NEW h \in Handlers, Only({h}), handler' \in [Handlers -> Request],
         handler[h].pc \in {"verify", "tenant"},
         handler'[h].pc \in {"tenant", "insert", "answer"},
         handler'[h].sale = handler[h].sale, handler'[h].delivery = handler[h].delivery,
         handler'[h].pc = "tenant" => Items(handler[h].sale) # {},
         handler'[h].pc = "insert" => handler'[h].line \in Items(handler[h].sale),
         Behind(handler'[h]) = {},
         UNCHANGED <<status, jobs, mail, sent, setup, answered, cut, stranded, budget>>
  PROVE  IInv'
<1>1. Typed /\ Onward
  BY Still DEF IInv
<1>2. Where(handler[h], sent)
  BY <1>1 DEF Typed
<1>3. Typed'
  <2>1. Where(handler'[h], sent')
    BY <1>2 DEF Where, AtLine
  <2>2. \A g \in Handlers : Where(handler'[g], sent')
    <3>1. \A s \in Sales : sent'[s] \in 0..Deliveries /\ sent'[s] >= sent[s]
      BY <1>1 DEF Typed
    <3>2. QED
      BY <1>1, <2>1, <3>1, WhereStays
  <2>3. QED
    BY <1>1, <2>2 DEF Typed
<1>4. handler'[h].pc \notin Placing /\ Owes(handler'[h]) = {} /\ Owes(handler[h]) = {}
  BY DEF Placing, Owes
<1>5. Covered' /\ Started'
  BY <1>1, <1>4, CoveredStays DEF IInv, Accounts
<1>6. AcceptedLinesAccounted'
  BY <1>1, AcceptedStay DEF IInv, Accounts
<1>7. InHand'
  BY <1>1, <1>4, InHandStays DEF IInv, Hands
<1>8. Reserved'
  <2>1. handler'[h].pc # "enqueue"
    OBVIOUS
  <2>2. QED
    BY <1>1, <2>1, ReservedStays DEF IInv, Hands
<1>9. Lone'
  <2>1. handler[h].pc # "idle" /\ handler'[h].pc # "idle"
    OBVIOUS
  <2>2. \A s \in Sales \ cut' : LoneRequest(s)' /\ LoneOrders(s)'
    BY <1>1, <2>1, LoneGoesOn DEF IInv
  <2>3. QED
    BY <2>2 DEF Lone
<1>10. QED
  BY <1>3, <1>5, <1>6, <1>7, <1>8, <1>9 DEF IInv, Accounts, Hands

\* A request that ends owes nothing or is given up as stranded.
LEMMA LeavesKept ==
  ASSUME IInv, NEW h \in Handlers, handler' = [handler EXCEPT ![h] = NoRequest],
         UNCHANGED <<status, jobs, sent, setup>>, budget' \in Nat,
         mail' \in [Sales -> {"none", "due", "accepted", "dropped"}],
         answered' \subseteq Sales \X Nat, AcceptedLinesAccounted',
         cut \subseteq cut', cut' \subseteq Sales,
         stranded' = stranded \cup Owes(handler[h]), Owes(handler[h]) \subseteq Orders,
         \A s \in Sales \ cut' :
            \/ UNCHANGED mail /\ (Active(handler[h], s) => Given(status, s) = {})
            \/ ~Active(handler[h], s) /\ mail'[s] = mail[s]
            \/ Active(handler[h], s) /\ mail'[s] = "accepted"
  PROVE  IInv'
<1>1. /\ Typed /\ Onward /\ Only({h}) /\ handler' \in [Handlers -> Request]
      /\ handler'[h] = NoRequest
  BY Still, Leaves DEF IInv, Typed
<1>2. handler'[h].pc = "idle" /\ Behind(handler'[h]) = {} /\ Owes(handler'[h]) = {}
  BY <1>1 DEF NoRequest, Behind, Owes, AtLine
<1>3. Typed'
  <2>1. Where(handler'[h], sent')
    BY <1>1, <1>2 DEF Where, AtLine
  <2>2. \A g \in Handlers : Where(handler'[g], sent')
    <3>1. \A s \in Sales : sent'[s] \in 0..Deliveries /\ sent'[s] >= sent[s]
      BY <1>1 DEF Typed
    <3>2. QED
      BY <1>1, <2>1, <3>1, WhereStays
  <2>3. stranded' \subseteq Orders
    BY <1>1 DEF Typed
  <2>4. QED
    BY <1>1, <2>2, <2>3 DEF Typed
<1>4. Covered' /\ Started'
  BY <1>1, <1>2, CoveredStays DEF IInv, Accounts, Placing
<1>5. InHand'
  BY <1>1, <1>2, InHandStays DEF IInv, Hands
<1>6. Reserved'
  BY <1>1, <1>2, ReservedStays DEF IInv, Hands
<1>7. Lone'
  <2>1. \A s \in Sales \ cut' : LoneRequest(s)' /\ LoneOrders(s)'
    BY <1>1, <1>2, LoneLeaves DEF IInv
  <2>2. QED
    BY <2>1 DEF Lone
<1>8. QED
  BY <1>3, <1>4, <1>5, <1>6, <1>7 DEF IInv, Accounts, Hands

\* What a request still owes is an order.
LEMMA OwesOrders ==
  ASSUME Typed, NEW h \in Handlers
  PROVE  Owes(handler[h]) \subseteq Orders /\ Unfinished(h) = Owes(handler[h])
<1>1. CASE handler[h].pc \in {"reserve", "enqueue", "failing", "fail"}
  BY <1>1, OrderOfRequest DEF Owes, Unfinished, AtLine
<1>2. CASE handler[h].pc \notin {"reserve", "enqueue", "failing", "fail"}
  BY <1>2 DEF Owes, Unfinished
<1>3. QED
  BY <1>1, <1>2

\* Before its first line a request of a sale that is not cut finds no orders of it.
LEMMA FirstFindsNothing ==
  ASSUME IInv, NEW h \in Handlers, handler[h].pc \in {"verify", "tenant"},
         NEW s \in Sales \ cut, Active(handler[h], s)
  PROVE  Given(status, s) = {}
BY DEF IInv, Lone, LoneRequest

LEMMA VerifyKept ==
  ASSUME IInv, NEW h \in Handlers, Verify(h)
  PROVE  IInv'
<1> DEFINE r == handler[h]
           q == handler'[h]
<1>1. /\ Typed /\ r.pc = "verify" /\ r \in Request
      /\ UNCHANGED <<status, jobs, mail, sent, setup, answered, cut, stranded, budget>>
  BY DEF IInv, Typed, Verify, engine, hooks, ghosts
<1>2. CASE "secret" \in setup
  <2>1. PICK pc \in {"tenant", "answer"} :
          Goto(h, pc) /\ (pc = "answer" <=> Items(r.sale) = {})
    BY <1>2 DEF Verify
  <2>2. /\ Only({h}) /\ handler' \in [Handlers -> Request] /\ SameSale(r, q)
        /\ q.line = r.line /\ q.failed = r.failed /\ q.pc = pc
    BY <1>1, <2>1, Goes DEF Typed
  <2>3. Behind(q) = {}
    BY <2>1, <2>2 DEF Behind, AtLine, SameSale
  <2>4. q.pc \in {"tenant", "insert", "answer"} /\ q.pc # "insert"
        /\ (q.pc = "tenant" => Items(r.sale) # {}) /\ q.sale = r.sale /\ q.delivery = r.delivery
    BY <2>1, <2>2 DEF SameSale
  <2>5. QED
    BY <1>1, <2>2, <2>3, <2>4, EntersKept
<1>3. CASE "secret" \notin setup
  <2>1. handler' = [handler EXCEPT ![h] = NoRequest]
    BY <1>3 DEF Verify
  <2>2. AcceptedLinesAccounted'
    BY <1>1, Still, AcceptedStay DEF IInv, Accounts
  <2>3. Owes(r) = {}
    BY <1>1 DEF Owes
  <2>4. \A s \in Sales \ cut' : UNCHANGED mail /\ (Active(r, s) => Given(status, s) = {})
    BY <1>1, FirstFindsNothing
  <2>5. /\ mail' \in [Sales -> {"none", "due", "accepted", "dropped"}]
        /\ answered' \subseteq Sales \X Nat /\ cut' \subseteq Sales /\ budget' \in Nat
    BY <1>1 DEF Typed
  <2>6. QED
    BY <1>1, <2>1, <2>2, <2>3, <2>4, <2>5, LeavesKept
<1>4. QED
  BY <1>2, <1>3

LEMMA TenantKept ==
  ASSUME IInv, NEW h \in Handlers, ResolveTenant(h)
  PROVE  IInv'
<1> DEFINE r == handler[h]
           q == handler'[h]
           n == Min(Items(r.sale))
<1>1. /\ Typed /\ r.pc = "tenant" /\ r \in Request /\ Where(r, sent)
      /\ UNCHANGED <<status, jobs, mail, sent, setup, answered, cut, stranded, budget>>
  BY DEF IInv, Typed, ResolveTenant, engine, hooks, ghosts
<1>2. r.sale \in Sales /\ Items(r.sale) # {}
  BY <1>1 DEF Where
<1>3. n \in Items(r.sale) /\ n \in Nat /\ \A i \in Items(r.sale) : i \in Nat /\ ~(i < n)
  <2>1. Items(r.sale) \subseteq Nat
    BY <1>2, ItemsOf
  <2> DEFINE X == Items(r.sale)
  <2> HIDE DEF X
  <2>2. Min(X) \in X /\ \A y \in X : Min(X) <= y
    BY <1>2, <2>1, MinOf DEF X
  <2>3. X \subseteq Nat
    BY <2>1 DEF X
  <2>4. ASSUME NEW i \in X PROVE i \in Nat /\ ~(i < Min(X))
    <3> DEFINE m == Min(X)
    <3>1. i \in Nat /\ m \in Nat /\ m <= i
      BY <2>2, <2>3
    <3> HIDE DEF m
    <3>2. ~(i < m)
      BY <3>1
    <3>3. QED
      BY <3>1, <3>2 DEF m
  <2>5. QED
    BY <2>2, <2>4 DEF X
<1> HIDE DEF n
<1>4. PICK tn \in Tenants : q = [r EXCEPT !.pc = "insert", !.line = n, !.tenant = tn]
                            /\ handler' = [handler EXCEPT ![h] = q]
  <2> DEFINE tn == IF "config" \in setup THEN "shop" ELSE "default"
  <2>1. tn \in Tenants
    BY DEF Tenants
  <2>0. handler' = [handler EXCEPT ![h].pc = "insert", ![h].line = n, ![h].tenant = tn]
    BY DEF ResolveTenant, n
  <2> HIDE DEF tn
  <2>2. handler' = [handler EXCEPT ![h] = [r EXCEPT !.pc = "insert", !.line = n, !.tenant = tn]]
    BY <1>1, <2>0 DEF Typed, Request
  <2>3. q = [r EXCEPT !.pc = "insert", !.line = n, !.tenant = tn]
    BY <1>1, <2>2 DEF Typed
  <2>4. QED
    BY <2>1, <2>2, <2>3
<1>5. /\ q \in Request /\ q.pc = "insert" /\ q.line = n /\ q.sale = r.sale
      /\ q.delivery = r.delivery
  BY <1>1, <1>3, <1>4 DEF Request
<1>6. Only({h}) /\ handler' \in [Handlers -> Request]
  BY <1>1, <1>4, <1>5 DEF Only, Typed
<1>7. Behind(q) = {}
  BY <1>3, <1>5 DEF Behind
<1>8. QED
  BY <1>1, <1>3, <1>5, <1>6, <1>7, EntersKept

LEMMA ResolveFailsKept ==
  ASSUME IInv, NEW h \in Handlers, ResolveFails(h)
  PROVE  IInv'
<1> DEFINE r == handler[h]
<1>1. /\ Typed /\ r.pc = "tenant" /\ handler' = [handler EXCEPT ![h] = NoRequest]
      /\ UNCHANGED <<status, jobs, mail, sent, setup, answered, cut, stranded>>
  BY DEF IInv, ResolveFails, engine, hooks, ghosts
<1>2. AcceptedLinesAccounted'
  BY <1>1, Still, AcceptedStay DEF IInv, Accounts
<1>3. Owes(r) = {}
  BY <1>1 DEF Owes
<1>4. \A s \in Sales \ cut' : UNCHANGED mail /\ (Active(r, s) => Given(status, s) = {})
  BY <1>1, FirstFindsNothing
<1>5. budget' \in Nat
  BY <1>1, Spent DEF ResolveFails
<1>6. /\ mail' \in [Sales -> {"none", "due", "accepted", "dropped"}]
      /\ answered' \subseteq Sales \X Nat /\ cut' \subseteq Sales
  BY <1>1 DEF Typed
<1>7. QED
  BY <1>1, <1>2, <1>3, <1>4, <1>5, <1>6, LeavesKept

LEMMA DiesKept ==
  ASSUME IInv, NEW h \in Handlers, RequestDies(h)
  PROVE  IInv'
<1> DEFINE r == handler[h]
<1>1. /\ Typed /\ r # NoRequest /\ handler' = [handler EXCEPT ![h] = NoRequest]
      /\ UNCHANGED <<status, jobs, mail, sent, setup, answered>>
      /\ cut' = cut \cup {r.sale} /\ stranded' = stranded \cup Unfinished(h)
  BY DEF IInv, RequestDies, engine, hooks
<1>2. AcceptedLinesAccounted'
  BY <1>1, Still, AcceptedStay DEF IInv, Accounts
<1>3. Owes(r) \subseteq Orders /\ Unfinished(h) = Owes(r)
  BY <1>1, OwesOrders
<1>4. r.sale \in Sales
  BY <1>1 DEF Typed, Where
<1>5. \A s \in Sales \ cut' : UNCHANGED mail /\ (Active(r, s) => Given(status, s) = {})
  BY <1>1 DEF Active
<1>6. budget' \in Nat
  BY <1>1, Spent DEF RequestDies
<1>7. /\ mail' \in [Sales -> {"none", "due", "accepted", "dropped"}]
      /\ answered' \subseteq Sales \X Nat /\ cut \subseteq cut' /\ cut' \subseteq Sales
  BY <1>1, <1>4 DEF Typed
<1>8. QED
  BY <1>1, <1>2, <1>3, <1>5, <1>6, <1>7, LeavesKept

\* An accepted answer names every line that has no order.
LEMMA AnswerKept ==
  ASSUME IInv, NEW h \in Handlers, Answer(h)
  PROVE  IInv'
<1> DEFINE r == handler[h]
           z == r.sale
<1>1. /\ Typed /\ r.pc = "answer" /\ handler' = [handler EXCEPT ![h] = NoRequest]
      /\ UNCHANGED <<status, jobs, sent, setup, cut, stranded, budget>>
  BY DEF IInv, Answer, engine, ghosts
<1>2. z \in Sales /\ r.failed \subseteq Nat
  BY <1>1 DEF Typed, Where, Request
<1>3. Owes(r) = {}
  BY <1>1 DEF Owes
<1>4. \A i \in Items(z) : Has(status, z, i) \/ i \in r.failed
  BY <1>1 DEF IInv, Accounts, Covered, Behind
<1>5. budget' \in Nat /\ cut' \subseteq Sales
  BY <1>1 DEF Typed
<1>6. CASE mail[z] = "due" /\ r.delivery = sent[z]
  <2>1. mail' = [mail EXCEPT ![z] = "accepted"] /\ answered' = answered \cup ({z} \X r.failed)
    BY <1>6 DEF Answer
  <2>2. AcceptedLinesAccounted'
    <3>1. ASSUME NEW s \in Sales, mail'[s] = "accepted", NEW i \in Items(s)
          PROVE  Has(status', s, i) \/ <<s, i>> \in answered'
      <4>1. CASE s = z
        BY <1>1, <1>4, <2>1, <3>1, <4>1
      <4>2. CASE s # z
        <5>1. mail[s] = "accepted"
          BY <1>1, <2>1, <3>1, <4>2 DEF Typed
        <5>2. Has(status, s, i) \/ <<s, i>> \in answered
          BY <3>1, <5>1, AcceptedHave DEF IInv, Accounts
        <5>3. QED
          BY <1>1, <2>1, <5>2
      <4>3. QED
        BY <4>1, <4>2
    <3>2. QED
      BY <3>1, AcceptedHaveThen
  <2>3. /\ mail' \in [Sales -> {"none", "due", "accepted", "dropped"}]
        /\ answered' \subseteq Sales \X Nat
    BY <1>1, <1>2, <2>1 DEF Typed
  <2>4. \A s \in Sales \ cut' :
            \/ ~Active(r, s) /\ mail'[s] = mail[s]
            \/ Active(r, s) /\ mail'[s] = "accepted"
    BY <1>1, <1>2, <2>1 DEF Active, Typed
  <2>5. QED
    BY <1>1, <1>3, <1>5, <2>2, <2>3, <2>4, LeavesKept
<1>7. CASE ~(mail[z] = "due" /\ r.delivery = sent[z])
  <2>1. UNCHANGED <<mail, answered>>
    BY <1>7 DEF Answer
  <2>2. AcceptedLinesAccounted'
    BY <1>1, <2>1, Still, AcceptedStay DEF IInv, Accounts
  <2>3. \A s \in Sales \ cut' : ~Active(r, s) /\ mail'[s] = mail[s]
    BY <1>1, <1>7, <2>1 DEF IInv, Lone, LoneRequest, Active
  <2>4. /\ mail' \in [Sales -> {"none", "due", "accepted", "dropped"}]
        /\ answered' \subseteq Sales \X Nat
    BY <1>1, <2>1 DEF Typed
  <2>5. QED
    BY <1>1, <1>3, <1>5, <2>2, <2>3, <2>4, LeavesKept
<1>8. QED
  BY <1>6, <1>7

\* A new delivery finds no order of its sale, or the sale is cut.
LEMMA DeliverKept ==
  ASSUME IInv, NEW s \in Sales, NEW h \in Handlers, Deliver(h, s)
  PROVE  IInv'
<1> DEFINE q == [NoRequest EXCEPT !.pc = "verify", !.sale = s, !.delivery = sent'[s]]
           n == sent[s] + 1
           free == \A g \in Handlers : handler[g].sale # s
<1>1. /\ Typed /\ mail[s] = "due" /\ sent[s] < Deliveries /\ handler[h] = NoRequest
      /\ sent' = [sent EXCEPT ![s] = @ + 1] /\ handler' = [handler EXCEPT ![h] = q]
      /\ UNCHANGED <<status, jobs, mail, answered, setup, stranded>>
      /\ cut \subseteq cut' /\ cut' \subseteq Sales /\ budget' \in Nat
      /\ s \in cut' \/ free
  <2>1. Typed
    BY DEF IInv
  <2>2. budget' \in Nat
    BY <2>1, Spent DEF Deliver, Typed
  <2>3. QED
    BY <2>1, <2>2 DEF Deliver, engine, Typed
<1>2. /\ sent[s] \in Nat /\ Deliveries \in Nat /\ sent'[s] = n /\ n \in 1..Deliveries
      /\ sent' \in [Sales -> 0..Deliveries]
      /\ \A z \in Sales : sent'[z] >= sent[z] /\ (z # s => sent'[z] = sent[z])
  <2>1. /\ sent \in [Sales -> 0..Deliveries] /\ Deliveries \in Nat
        /\ sent' = [sent EXCEPT ![s] = sent[s] + 1] /\ sent[s] < Deliveries
    BY <1>1, OrderHookAssumption DEF Typed
  <2>2. sent[s] \in 0..Deliveries /\ n \in 1..Deliveries
    BY <2>1
  <2>3. sent'[s] = n /\ \A z \in Sales : z # s => sent'[z] = sent[z]
    BY <2>1
  <2>4. \A z \in Sales : sent[z] \in 0..Deliveries
    BY <2>1
  <2>5. \A z \in Sales : sent'[z] >= sent[z]
    BY <2>2, <2>3, <2>4
  <2>6. sent' \in [Sales -> 0..Deliveries]
    BY <2>1, <2>2, <2>3
  <2>7. QED
    BY <2>1, <2>2, <2>3, <2>5, <2>6
<1>3. /\ q \in Request /\ q.pc = "verify" /\ q.sale = s /\ q.delivery = n
      /\ Behind(q) = {} /\ Owes(q) = {}
  <2>1. q \in Request /\ q.pc = "verify" /\ q.sale = s /\ q.delivery = n
    <3>1. sent'[s] = n /\ n \in Nat
      BY <1>2
    <3> HIDE DEF n
    <3>2. QED
      BY <3>1 DEF Request, NoRequest, Tenants
  <2> HIDE DEF q
  <2>2. QED
    BY <2>1 DEF Behind, Owes, AtLine
<1> HIDE DEF q, n
<1>4. Only({h}) /\ handler' \in [Handlers -> Request] /\ handler'[h] = q
  BY <1>1, <1>3 DEF Only, Typed
<1>5. Onward
  BY <1>1, Still
<1>6. Typed'
  <2>1. Where(q, sent')
    BY <1>1, <1>2, <1>3 DEF Where, AtLine
  <2>2. \A g \in Handlers : Where(handler'[g], sent')
    BY <1>1, <1>2, <1>4, <2>1, WhereStays
  <2>3. QED
    BY <1>1, <1>2, <1>4, <2>2 DEF Typed
<1>7. Covered' /\ Started'
  BY <1>1, <1>3, <1>4, <1>5, CoveredStays DEF IInv, Accounts, Placing
<1>8. AcceptedLinesAccounted'
  BY <1>1, <1>5, AcceptedStay DEF IInv, Accounts
<1>9. InHand'
  <2>1. Owes(handler[h]) = {}
    BY <1>1 DEF NoRequest, Owes
  <2>2. QED
    BY <1>1, <1>4, <2>1, InHandStays DEF IInv, Hands
<1>10. Reserved'
  BY <1>1, <1>3, <1>4, <1>5, ReservedStays DEF IInv, Hands
<1>11. ASSUME NEW z \in Sales \ cut'
       PROVE  LoneRequest(z)' /\ LoneOrders(z)'
  <2>1. LoneRequest(z) /\ LoneOrders(z)
    BY <1>1 DEF IInv, Lone
  <2>2. CASE z # s
    <3>1. \A g \in Handlers : Active(handler'[g], z) <=> Active(handler[g], z)
      BY <1>1, <1>3, <1>4, <2>2 DEF Only, Active, NoRequest
    <3>2. \A g \in Handlers : Active(handler[g], z) => handler'[g] = handler[g]
      BY <1>1, <1>4 DEF Only, Active, NoRequest
    <3>3. QED
      BY <1>1, <1>2, <2>1, <2>2, <3>1, <3>2 DEF LoneRequest, LoneOrders
  <2>3. CASE z = s
    <3>1. \A g \in Handlers : ~Active(handler[g], s)
      BY <1>1, <2>3 DEF Active
    <3>2. Given(status, s) = {}
      BY <1>1, <2>1, <2>3, <3>1 DEF LoneOrders
    <3>3. \A g \in Handlers : Active(handler'[g], s) <=> g = h
      BY <1>3, <1>4, <3>1 DEF Only, Active
    <3>4. QED
      BY <1>1, <1>2, <1>3, <1>4, <2>3, <3>2, <3>3 DEF LoneRequest, LoneOrders
  <2>4. QED
    BY <2>2, <2>3
<1>12. QED
  BY <1>6, <1>7, <1>8, <1>9, <1>10, <1>11 DEF IInv, Accounts, Hands, Lone

-----------------------------------------------------------------------------
(* The invariant.                                                            *)

LEMMA InitKept == Init => IInv
<1> SUFFICES ASSUME Init PROVE IInv
  OBVIOUS
<1>1. \A h \in Handlers : handler[h] = NoRequest /\ Behind(handler[h]) = {} /\ Owes(handler[h]) = {}
  BY DEF Init, Behind, Owes, AtLine, NoRequest
<1>2. Typed
  <2>1. NoRequest \in Request /\ \A n : Where(NoRequest, n)
    BY DEF NoRequest, Request, Tenants, Where, AtLine
  <2>2. QED
    BY <2>1, OrderHookAssumption DEF Init, Typed, Stages
<1>3. Accounts
  BY <1>1, AcceptedHave DEF Init, Accounts, Covered, Started, Placing, NoRequest
<1>4. Hands
  BY <1>1 DEF Init, Hands, InHand, Reserved, Open, NoRequest
<1>5. Lone
  BY <1>1 DEF Init, Lone, LoneRequest, LoneOrders, Given, Active, NoRequest
<1>6. QED
  BY <1>2, <1>3, <1>4, <1>5 DEF IInv

LEMMA NextKept == IInv /\ [Next]_vars => IInv'
<1> SUFFICES ASSUME IInv, [Next]_vars PROVE IInv'
  OBVIOUS
<1>1. ASSUME NEW s \in Sales, Sale(s) \/ GiveUp(s) PROVE IInv'
  BY <1>1, ShopifyKept
<1>2. ASSUME NEW s \in Sales, NEW h \in Handlers, Deliver(h, s) PROVE IInv'
  BY <1>2, DeliverKept
<1>3. ASSUME NEW x \in {"secret", "config"}, Switch(x) PROVE IInv'
  BY <1>3, SwitchKept
<1>4. ASSUME NEW h \in Handlers, HandlerStep(h) PROVE IInv'
  BY <1>4, VerifyKept, TenantKept, InsertKept, ReserveKept, EnqueueKept, MarkKept,
     FindOrderKept, FailOrderKept, AnswerKept DEF HandlerStep
<1>5. ASSUME NEW h \in Handlers,
             LineFails(h) \/ OrderFails(h) \/ ResolveFails(h) \/ RequestDies(h)
      PROVE  IInv'
  BY <1>5, LineFailsKept, OrderFailsKept, ResolveFailsKept, DiesKept
<1>6. ASSUME NEW o \in Orders, Work(o) \/ WorkFails(o) PROVE IInv'
  BY <1>6, WorkKept
<1>7. CASE UNCHANGED vars
  <2>1. UNCHANGED <<handler, sent, cut, stranded, answered, status, jobs, mail, setup, budget>>
    BY <1>7 DEF vars, engine, hooks, ghosts
  <2>2. Typed /\ Onward /\ NonePlaced
    BY <2>1, Still DEF IInv
  <2>3. /\ status' \in [Orders -> Stages] /\ setup' \subseteq {"secret", "config"} /\ budget' \in Nat
        /\ stranded' \subseteq Orders
        /\ mail' \in [Sales -> {"none", "due", "accepted", "dropped"}]
    BY <2>1, <2>2 DEF Typed
  <2>4. QED
    BY <2>1, <2>2, <2>3, QuietKept
<1>8. QED
  BY <1>1, <1>2, <1>3, <1>4, <1>5, <1>6, <1>7 DEF Next

LEMMA Inductive == Spec => []IInv
<1>1. Init => IInv
  BY InitKept
<1>2. IInv /\ [Next]_vars => IInv'
  BY NextKept
<1>3. QED
  BY <1>1, <1>2, PTL DEF Spec

\* An accepted sale has an order for each of its lines, or the answer named the
\* line as failed (handleOrdersCreate 163-187): whatever fails, dies or is
\* delivered twice.
THEOREM AcceptedLinesAreAccounted == Spec => []AcceptedLinesAccounted
<1>1. IInv => AcceptedLinesAccounted
  BY DEF IInv, Accounts
<1>2. QED
  BY <1>1, Inductive, PTL

\* No order is left alone but by a request that died over it or could not fail it, or
\* by a worker whose terminal handler failed or never ran (create 62-65, process
\* 69-75).
THEOREM OrdersStayInHand == Spec => []OrdersInHand
<1>1. ASSUME IInv PROVE OrdersInHand
  <2>1. \A h \in Handlers : Unfinished(h) = Owes(handler[h])
    BY <1>1, OwesOrders DEF IInv
  <2>2. QED
    BY <1>1, <2>1 DEF IInv, Hands, InHand, OrdersInHand, Open
<1>2. QED
  BY <1>1, Inductive, PTL

\* A refused delivery has placed nothing: a sale whose deliveries all got their
\* answer in time never has two orders for a line, however often it was refused.
THEOREM RefusedPlaceNothing == Spec => []RefusalsPlaceNothing
<1>1. ASSUME IInv PROVE RefusalsPlaceNothing
  <2> SUFFICES ASSUME NEW s \in Sales \ cut, NEW i \in Items(s)
               PROVE  Cardinality(Placed(s, i)) <= 1
    BY DEF RefusalsPlaceNothing
  <2>1. \A o, q \in Placed(s, i) : o = q
    <3> SUFFICES ASSUME NEW o \in Placed(s, i), NEW q \in Placed(s, i) PROVE o = q
      OBVIOUS
    <3>1. o \in Given(status, s) /\ q \in Given(status, s) /\ o \in Orders /\ q \in Orders
          /\ o.sale = q.sale /\ o.line = q.line
      BY DEF Placed, Given
    <3>2. o.delivery = q.delivery /\ o.tenant = q.tenant
      BY <1>1, <3>1 DEF IInv, Lone, LoneOrders
    <3>3. QED
      BY <3>1, <3>2, OrdersAre
  <2>2. CASE Placed(s, i) = {}
    BY <2>2, FS_EmptySet
  <2>3. CASE Placed(s, i) # {}
    <3>1. PICK o \in Placed(s, i) : TRUE
      BY <2>3
    <3>2. Placed(s, i) = {o}
      BY <2>1, <3>1
    <3>3. QED
      BY <3>2, FS_Singleton
  <2>4. QED
    BY <2>2, <2>3
<1>2. QED
  BY <1>1, Inductive, PTL

-----------------------------------------------------------------------------
(* Sums over finite sets.  The prover sees SumFunctionOnSet as a choice of a *)
(* recursive function, so that its existence comes first.                    *)

Pick(s) == CHOOSE x \in s : TRUE

\* g adds f over every subset of S.
Adds(g, f, S) ==
  g = [s \in SUBSET S |-> IF s = {} THEN 0 ELSE f[Pick(s)] + g[s \ {Pick(s)}]]

LEMMA SumDef ==
  ASSUME NEW f, NEW S
  PROVE  SumFunctionOnSet(f, S) = (CHOOSE g : Adds(g, f, S))[S]
BY DEF SumFunctionOnSet, FoldFunctionOnSet, MapThenFoldSet, Adds, Pick

\* Of a nonempty set of finite sets one is smallest.
LEMMA Smallest ==
  ASSUME NEW B, B # {}, \A s \in B : IsFiniteSet(s)
  PROVE  \E s \in B : \A t \in B : ~(Cardinality(t) < Cardinality(s))
<1> DEFINE T == {Cardinality(s) : s \in B}
           R == OpToRel(<, Nat)
<1>1. T \subseteq Nat /\ T # {}
  BY FS_CardinalityType
<1>2. PICK n \in T : \A m \in T : ~(<<m, n>> \in R)
  <2>1. IsWellFoundedOn(R, Nat)
    BY NatLessThanWellFounded
  <2> HIDE DEF R, T
  <2>2. QED
    BY <1>1, <2>1, WFMin, Zenon
<1>3. PICK s \in B : n = Cardinality(s)
  OBVIOUS
<1>4. ASSUME NEW t \in B PROVE ~(Cardinality(t) < Cardinality(s))
  <2>1. Cardinality(t) \in T /\ Cardinality(t) \in Nat /\ n \in Nat
    BY <1>1
  <2>2. QED
    BY <1>2, <1>3, <2>1 DEF OpToRel
<1>5. QED
  BY <1>4

\* Two functions that add f do so alike.
LEMMA AddsAlike ==
  ASSUME NEW f, NEW S, NEW T, NEW g, NEW h, Adds(g, f, S), Adds(h, f, T),
         NEW s \in SUBSET (S \cap T), IsFiniteSet(s)
  PROVE  g[s] = h[s]
<1> DEFINE B == {u \in SUBSET s : g[u] # h[u]}
<1>1. ASSUME NEW u \in SUBSET s
      PROVE  /\ g[u] = IF u = {} THEN 0 ELSE f[Pick(u)] + g[u \ {Pick(u)}]
             /\ h[u] = IF u = {} THEN 0 ELSE f[Pick(u)] + h[u \ {Pick(u)}]
  BY <1>1 DEF Adds
<1>2. SUFFICES ASSUME B # {} PROVE FALSE
  BY <1>2
<1>3. \A u \in B : IsFiniteSet(u)
  BY FS_Subset
<1>4. PICK u \in B : \A t \in B : ~(Cardinality(t) < Cardinality(u))
  <2> HIDE DEF B
  <2>1. QED
    BY <1>2, <1>3, Smallest
<1>5. u # {} /\ Pick(u) \in u
  BY <1>1, <1>4 DEF Pick
<1>6. g[u \ {Pick(u)}] # h[u \ {Pick(u)}] /\ u \ {Pick(u)} \in SUBSET s
  BY <1>1, <1>4, <1>5
<1>7. Cardinality(u \ {Pick(u)}) = Cardinality(u) - 1 /\ Cardinality(u) \in Nat
  BY <1>3, <1>4, <1>5, FS_RemoveElement, FS_CardinalityType
<1>8. QED
  BY <1>4, <1>6, <1>7

Added(f, S) == CHOOSE g : Adds(g, f, S)

\* There is such a function.
LEMMA AddsExists ==
  ASSUME NEW f, NEW S, IsFiniteSet(S)
  PROVE  Adds(Added(f, S), f, S)
<1> DEFINE B == {s \in SUBSET S : ~Adds(Added(f, s), f, s)}
<1>1. SUFFICES ASSUME B # {} PROVE FALSE
  BY <1>1
<1>2. \A s \in SUBSET S : IsFiniteSet(s)
  BY FS_Subset
<1>3. PICK s \in B : \A t \in B : ~(Cardinality(t) < Cardinality(s))
  <2>1. \A u \in B : IsFiniteSet(u)
    BY <1>2
  <2> HIDE DEF B
  <2>2. QED
    BY <1>1, <2>1, Smallest
<1>4. s \in SUBSET S /\ ~Adds(Added(f, s), f, s)
  BY <1>3
<1> DEFINE Rest(u) == u \ {Pick(u)}
           g == [u \in SUBSET s |->
                   IF u = {} THEN 0 ELSE f[Pick(u)] + Added(f, Rest(u))[Rest(u)]]
<1>5. ASSUME NEW u \in SUBSET s, u # {}
      PROVE  Rest(u) \in SUBSET s /\ Adds(Added(f, Rest(u)), f, Rest(u))
  <2>1. Pick(u) \in u
    BY <1>5 DEF Pick
  <2>2. Rest(u) \in SUBSET S /\ Rest(u) \in SUBSET s
    BY <1>4
  <2>3. Cardinality(Rest(u)) = Cardinality(u) - 1 /\ Cardinality(u) \in Nat
    BY <1>2, <1>4, <2>1, FS_RemoveElement, FS_CardinalityType
  <2>4. Cardinality(u) <= Cardinality(s) /\ Cardinality(s) \in Nat
    BY <1>2, <1>4, FS_Subset, FS_CardinalityType
  <2>5. Rest(u) \notin B
    BY <1>3, <2>3, <2>4
  <2>6. QED
    BY <2>2, <2>5
<1>6. ASSUME NEW u \in SUBSET s, u # {}
      PROVE  g[Rest(u)] = Added(f, Rest(u))[Rest(u)]
  <2>1. CASE Rest(u) = {}
    <3>1. Adds(Added(f, Rest(u)), f, Rest(u)) /\ Rest(u) \in SUBSET s
      BY <1>5, <1>6
    <3>2. QED
      BY <2>1, <3>1 DEF Adds
  <2>2. CASE Rest(u) # {}
    <3> DEFINE v == Rest(u)
    <3>1. v \in SUBSET s /\ Adds(Added(f, v), f, v)
      BY <1>5, <1>6
    <3>2. Rest(v) \in SUBSET v /\ Rest(v) \in SUBSET s /\ Adds(Added(f, Rest(v)), f, Rest(v))
      BY <1>5, <2>2, <3>1
    <3>3. Added(f, v)[v] = f[Pick(v)] + Added(f, v)[Rest(v)]
      BY <2>2, <3>1 DEF Adds
    <3>4. Added(f, v)[Rest(v)] = Added(f, Rest(v))[Rest(v)]
      <4>1. IsFiniteSet(Rest(v))
        BY <1>2, <1>4, <3>2
      <4>2. Rest(v) \in SUBSET (v \cap Rest(v))
        BY <3>2
      <4> HIDE DEF v, Rest
      <4>3. QED
        BY <3>1, <3>2, <4>1, <4>2, AddsAlike
    <3>5. g[v] = f[Pick(v)] + Added(f, Rest(v))[Rest(v)]
      BY <2>2, <3>1
    <3>6. QED
      BY <3>3, <3>4, <3>5
  <2>3. QED
    BY <2>1, <2>2
<1>7. Adds(g, f, s)
  BY <1>6 DEF Adds
<1>8. QED
  <2> HIDE DEF g
  <2>1. QED
    BY <1>4, <1>7 DEF Added

LEMMA SumOfNothing ==
  ASSUME NEW f
  PROVE  SumFunctionOnSet(f, {}) = 0
BY SumDef, AddsExists, FS_EmptySet DEF Added, Adds

\* Something is added to the sum of the rest.
LEMMA SumOfSome ==
  ASSUME NEW f, NEW S, IsFiniteSet(S), S # {}
  PROVE  SumFunctionOnSet(f, S) = f[Pick(S)] + SumFunctionOnSet(f, S \ {Pick(S)})
<1> DEFINE R == S \ {Pick(S)}
<1>1. IsFiniteSet(R) /\ R \in SUBSET (S \cap R)
  BY FS_Subset
<1>2. Adds(Added(f, S), f, S) /\ Adds(Added(f, R), f, R)
  BY <1>1, AddsExists
<1>3. Added(f, S)[R] = Added(f, R)[R]
  <2> HIDE DEF R
  <2>1. QED
    BY <1>1, <1>2, AddsAlike
<1>4. Added(f, S)[S] = f[Pick(S)] + Added(f, S)[R]
  BY <1>2 DEF Adds
<1>5. QED
  BY <1>3, <1>4, SumDef DEF Added

\* Sums of numbers are numbers, and any element may be taken out first.
LEMMA SumSplits ==
  ASSUME NEW f, NEW D, \A x \in D : f[x] \in Nat, IsFiniteSet(D)
  PROVE  /\ SumFunctionOnSet(f, D) \in Nat
         /\ \A x \in D : SumFunctionOnSet(f, D) = f[x] + SumFunctionOnSet(f, D \ {x})
<1> DEFINE Sm(u) == SumFunctionOnSet(f, u)
           Good(u) == Sm(u) \in Nat /\ \A x \in u : Sm(u) = f[x] + Sm(u \ {x})
           B == {s \in SUBSET D : ~Good(s)}
<1>1. SUFFICES ASSUME B # {} PROVE FALSE
  BY <1>1
<1>2. \A s \in SUBSET D : IsFiniteSet(s)
  BY FS_Subset
<1>3. PICK s \in B : \A t \in B : ~(Cardinality(t) < Cardinality(s))
  <2>1. \A u \in B : IsFiniteSet(u)
    BY <1>2
  <2> HIDE DEF B
  <2>2. QED
    BY <1>1, <2>1, Smallest
<1>4. s \in SUBSET D /\ ~Good(s)
  BY <1>3
<1>5. ASSUME NEW u \in SUBSET s, u # s
      PROVE  Good(u)
  <2>1. Cardinality(u) <= Cardinality(s) /\ Cardinality(u) # Cardinality(s)
    BY <1>2, <1>4, <1>5, FS_Subset
  <2>2. Cardinality(s) \in Nat /\ Cardinality(u) \in Nat
    BY <1>2, <1>4, FS_CardinalityType
  <2>3. u \notin B
    <3> HIDE DEF B
    <3>1. QED
      BY <1>3, <2>1, <2>2
  <2>4. QED
    BY <1>4, <2>3
<1>6. s # {}
  <2> SUFFICES ASSUME s = {} PROVE FALSE
    OBVIOUS
  <2>1. QED
    BY <1>4, SumOfNothing
<1> DEFINE c == Pick(s)
<1>7. c \in s
  BY <1>6 DEF Pick
<1>8. Sm(s) = f[c] + Sm(s \ {c})
  BY <1>2, <1>4, <1>6, SumOfSome
<1> HIDE DEF c, Sm
<1>9. Sm(s) \in Nat
  BY <1>4, <1>5, <1>7, <1>8
<1>10. ASSUME NEW x \in s
       PROVE  Sm(s) = f[x] + Sm(s \ {x})
  <2>1. CASE x = c
    BY <1>8, <2>1
  <2>2. CASE x # c
    <3>1. Sm(s \ {c}) = f[x] + Sm((s \ {c}) \ {x})
      BY <1>5, <1>7, <2>2
    <3>2. Sm(s \ {x}) = f[c] + Sm((s \ {x}) \ {c})
      BY <1>5, <1>7, <2>2
    <3>3. (s \ {c}) \ {x} = (s \ {x}) \ {c}
      OBVIOUS
    <3>4. Sm((s \ {c}) \ {x}) \in Nat
      BY <1>5, <1>7
    <3>5. f[x] \in Nat /\ f[c] \in Nat
      BY <1>4, <1>7
    <3> HIDE DEF Good, B
    <3>6. f[c] + (f[x] + Sm((s \ {c}) \ {x})) = f[x] + (f[c] + Sm((s \ {c}) \ {x}))
      BY <3>4, <3>5
    <3>7. QED
      BY <1>8, <3>1, <3>2, <3>3, <3>6
  <2>3. QED
    BY <2>1, <2>2
<1>11. QED
  BY <1>4, <1>9, <1>10

\* A new element adds its number.
LEMMA SumGrows ==
  ASSUME NEW f, NEW S, IsFiniteSet(S), NEW x, x \notin S,
         \A y \in S \cup {x} : f[y] \in Nat
  PROVE  SumFunctionOnSet(f, S \cup {x}) = f[x] + SumFunctionOnSet(f, S)
<1> DEFINE T == S \cup {x}
<1>1. IsFiniteSet(T) /\ x \in T /\ T \ {x} = S
  BY FS_AddElement
<1>2. \A y \in T : f[y] \in Nat
  OBVIOUS
<1> HIDE DEF T
<1>3. SumFunctionOnSet(f, T) = f[x] + SumFunctionOnSet(f, T \ {x})
  BY <1>1, <1>2, SumSplits
<1>4. QED
  BY <1>1, <1>3 DEF T

-----------------------------------------------------------------------------
(* Stock.  A row reserves what its RESERVED orders hold, so that no order    *)
(* gives back or sells more than there is.                                   *)

Taken(stage, r) == {o \in Orders : RowOf[o] = r /\ stage[o] = "RESERVED"}

StockOf(stage, r, free, held) ==
  /\ IsFiniteSet(Taken(stage, r))
  /\ held = SumFunctionOnSet(Qty, Taken(stage, r))
  /\ free \in Nat /\ held \in Nat /\ held <= free

Stock ==
  /\ physical \in [Rows -> Nat] /\ reserved \in [Rows -> Nat]
  /\ \A r \in Rows : StockOf(status, r, physical[r], reserved[r])

LEMMA OrderStock ==
  ASSUME NEW o \in Orders
  PROVE  RowOf[o] \in Rows /\ Qty[o] \in Nat
<1>1. o.sale \in Sales /\ o.line \in Items(o.sale) /\ o.tenant \in Tenants
  BY OrdersAre
<1>2. ItemOf(o).sku \in Skus /\ ItemOf(o).qty \in Nat
  BY <1>1, ItemsOf DEF ItemOf
<1>3. RowOf[o] = <<o.tenant, ItemOf(o).sku>> /\ Qty[o] = ItemOf(o).qty
  BY DEF RowOf, Qty
<1>4. QED
  BY <1>1, <1>2, <1>3 DEF Rows

\* Another order's quantity joins the row's reservations.
LEMMA TakenMore ==
  ASSUME NEW stage, NEW next, NEW o \in Orders, NEW r, RowOf[o] = r,
         stage[o] # "RESERVED", next[o] = "RESERVED",
         \A q \in Orders : q # o => next[q] = stage[q],
         IsFiniteSet(Taken(stage, r))
  PROVE  /\ IsFiniteSet(Taken(next, r))
         /\ SumFunctionOnSet(Qty, Taken(next, r)) = Qty[o] + SumFunctionOnSet(Qty, Taken(stage, r))
<1> DEFINE S == Taken(stage, r)
<1>1. Taken(next, r) = S \cup {o} /\ o \notin S /\ S \subseteq Orders
  BY DEF Taken
<1>2. \A y \in S \cup {o} : Qty[y] \in Nat
  BY <1>1, OrderStock
<1>3. IsFiniteSet(S)
  OBVIOUS
<1> HIDE DEF S
<1>4. IsFiniteSet(S \cup {o})
  BY <1>3, FS_AddElement
<1>5. SumFunctionOnSet(Qty, S \cup {o}) = Qty[o] + SumFunctionOnSet(Qty, S)
  BY <1>1, <1>2, <1>3, SumGrows
<1>6. QED
  BY <1>1, <1>4, <1>5 DEF S

\* It leaves them.
LEMMA TakenLess ==
  ASSUME NEW stage, NEW next, NEW o \in Orders, NEW r, RowOf[o] = r,
         stage[o] = "RESERVED", next[o] # "RESERVED",
         \A q \in Orders : q # o => next[q] = stage[q],
         IsFiniteSet(Taken(stage, r))
  PROVE  /\ IsFiniteSet(Taken(next, r)) /\ SumFunctionOnSet(Qty, Taken(next, r)) \in Nat
         /\ SumFunctionOnSet(Qty, Taken(stage, r)) = Qty[o] + SumFunctionOnSet(Qty, Taken(next, r))
<1> DEFINE S == Taken(stage, r)
           T == Taken(next, r)
<1>1. T = S \ {o} /\ o \in S /\ S \subseteq Orders
  BY DEF Taken
<1>2. \A y \in S : Qty[y] \in Nat
  BY <1>1, OrderStock
<1>3. IsFiniteSet(S)
  OBVIOUS
<1> HIDE DEF S, T
<1>4. IsFiniteSet(T)
  BY <1>1, <1>3, FS_Subset
<1>5. \A y \in T : Qty[y] \in Nat
  BY <1>1, <1>2
<1>6. SumFunctionOnSet(Qty, T) \in Nat
  BY <1>4, <1>5, SumSplits
<1>7. SumFunctionOnSet(Qty, S) = Qty[o] + SumFunctionOnSet(Qty, S \ {o})
  BY <1>1, <1>2, <1>3, SumSplits
<1>8. QED
  BY <1>1, <1>4, <1>6, <1>7 DEF S, T

LEMMA TakenElsewhere ==
  ASSUME NEW stage, NEW next, NEW o \in Orders, NEW r, RowOf[o] # r,
         \A q \in Orders : q # o => next[q] = stage[q]
  PROVE  Taken(next, r) = Taken(stage, r)
BY DEF Taken

\* The engine's steps keep the stock; moves that reserve or release change one row.
LEMMA EngineStock ==
  ASSUME Typed, Stock, NEW o \in Orders,
         Engine!Place(o) \/ Engine!Reserve(o) \/ Engine!Sell(o) \/ Engine!Reject(o)
           \/ Engine!GiveBack(o)
  PROVE  Stock'
<1> DEFINE r == RowOf[o]
           n == Qty[o]
<1>1. /\ r \in Rows /\ n \in Nat
      /\ physical \in [Rows -> Nat] /\ reserved \in [Rows -> Nat]
      /\ \A k \in Rows : StockOf(status, k, physical[k], reserved[k])
  BY OrderStock DEF Stock
<1>2. \A q \in Orders : q # o => status'[q] = status[q]
  BY EngineSteps
<1>3. \A k \in Rows : k # r => Taken(status', k) = Taken(status, k)
  BY <1>2, TakenElsewhere
<1> HIDE DEF r, n
<1>4. ASSUME NEW p \in Nat, NEW d \in Nat, StockOf(status', r, p, d),
             physical' = [physical EXCEPT ![r] = p], reserved' = [reserved EXCEPT ![r] = d]
      PROVE  Stock'
  BY <1>1, <1>3, <1>4 DEF Stock, StockOf
<1>5. StockOf(status, r, physical[r], reserved[r]) /\ physical[r] \in Nat /\ reserved[r] \in Nat
  BY <1>1
<1>6. CASE Engine!Place(o) \/ Engine!Reject(o)
  <2>1. UNCHANGED <<physical, reserved>>
    BY <1>6 DEF Engine!Place, Engine!Reject
  <2>2. status[o] # "RESERVED" /\ status'[o] # "RESERVED"
    BY <1>6 DEF Engine!Place, Engine!Reject, Engine!Becomes, Typed
  <2>3. Taken(status', r) = Taken(status, r)
    BY <1>2, <2>2 DEF Taken
  <2>4. QED
    BY <1>1, <1>3, <2>1, <2>3 DEF Stock, StockOf
<1>7. CASE Engine!Reserve(o)
  <2>1. /\ status[o] # "RESERVED" /\ status'[o] = "RESERVED"
        /\ physical[r] - reserved[r] >= n
        /\ reserved' = [reserved EXCEPT ![r] = @ + n] /\ physical' = physical
    BY <1>7 DEF Engine!Reserve, Engine!Becomes, Typed, r, n
  <2>2. /\ IsFiniteSet(Taken(status', r))
        /\ SumFunctionOnSet(Qty, Taken(status', r)) = n + SumFunctionOnSet(Qty, Taken(status, r))
    BY <1>2, <1>5, <2>1, TakenMore DEF StockOf, r, n
  <2>3. StockOf(status', r, physical[r], reserved[r] + n) /\ reserved[r] + n \in Nat
    BY <1>1, <1>5, <2>1, <2>2 DEF StockOf
  <2>4. QED
    BY <1>1, <1>4, <1>5, <2>1, <2>3
<1>8. CASE Engine!Sell(o) \/ Engine!GiveBack(o)
  <2>1. PICK m \in {0, n} : /\ reserved' = [reserved EXCEPT ![r] = @ - n]
                            /\ physical' = [physical EXCEPT ![r] = @ - m]
    <3>1. CASE Engine!Sell(o)
      BY <3>1 DEF Engine!Sell, r, n
    <3>2. CASE Engine!GiveBack(o)
      <4>1. reserved' = [reserved EXCEPT ![r] = @ - n] /\ physical' = physical
        BY <3>2 DEF Engine!GiveBack, r, n
      <4>2. physical' = [physical EXCEPT ![r] = @ - 0]
        BY <1>1, <4>1
      <4>3. QED
        BY <4>1, <4>2
    <3>3. QED
      BY <1>8, <3>1, <3>2
  <2>2. status[o] = "RESERVED" /\ status'[o] # "RESERVED"
    BY <1>8 DEF Engine!Sell, Engine!GiveBack, Engine!Becomes, Typed
  <2>3. /\ IsFiniteSet(Taken(status', r)) /\ SumFunctionOnSet(Qty, Taken(status', r)) \in Nat
        /\ SumFunctionOnSet(Qty, Taken(status, r)) = n + SumFunctionOnSet(Qty, Taken(status', r))
    <3>1. IsFiniteSet(Taken(status, r)) /\ RowOf[o] = r /\ n = Qty[o]
      BY <1>5 DEF StockOf, r, n
    <3>2. QED
      BY <1>2, <2>2, <3>1, TakenLess
  <2>4. /\ StockOf(status', r, physical[r] - m, reserved[r] - n)
        /\ physical[r] - m \in Nat /\ reserved[r] - n \in Nat
    BY <1>1, <1>5, <2>3 DEF StockOf
  <2>5. QED
    BY <1>4, <2>1, <2>4
<1>9. QED
  BY <1>6, <1>7, <1>8

\* FAILED over a sale or a failure leaves the row's reservations alone.
LEMMA OverwriteStock ==
  ASSUME Typed, Stock, NEW o \in Orders, Overwrite(o)
  PROVE  Stock'
<1>1. /\ UNCHANGED <<physical, reserved>> /\ status[o] # "RESERVED" /\ status'[o] # "RESERVED"
      /\ \A q \in Orders : q # o => status'[q] = status[q]
  BY DEF Overwrite, Typed
<1>2. \A r \in Rows : Taken(status', r) = Taken(status, r)
  BY <1>1 DEF Taken
<1>3. QED
  BY <1>1, <1>2 DEF Stock, StockOf

\* The shop moves the engine by its operations, but for that.
LEMMA EngineUsed ==
  ASSUME Typed, [Next]_vars
  PROVE  \/ UNCHANGED engine
         \/ \E o \in Orders : \/ Engine!Place(o) \/ Engine!Reserve(o) \/ Engine!Sell(o)
                              \/ Engine!Reject(o) \/ Engine!GiveBack(o) \/ Overwrite(o)
<1>1. ASSUME NEW h \in Handlers, \/ Insert(h) \/ Reserve(h) \/ FailOrder(h)
                                 \/ LineFails(h) \/ OrderFails(h)
      PROVE  OrderOf(h) \in Orders
  BY <1>1, OrderOfRequest DEF Insert, Reserve, FailOrder, LineFails, OrderFails, AtLine
<1>2. ASSUME NEW h \in Handlers, HandlerStep(h)
      PROVE  \/ UNCHANGED engine
             \/ \E o \in Orders : Engine!Place(o) \/ Engine!Reserve(o) \/ Overwrite(o)
                                  \/ Engine!GiveBack(o)
  BY <1>1, <1>2 DEF HandlerStep, Verify, ResolveTenant, Insert, Reserve, ReserveRefused,
     Enqueue, Mark, FindOrder, FailOrder, Overwrite, Answer
<1>3. ASSUME NEW o \in Orders, Work(o) \/ WorkFails(o)
      PROVE  UNCHANGED engine \/ Engine!Sell(o) \/ Engine!GiveBack(o)
  BY <1>3 DEF Work, WorkFails
<1>4. ASSUME NEW h \in Handlers,
             LineFails(h) \/ OrderFails(h) \/ ResolveFails(h) \/ RequestDies(h)
      PROVE  \/ UNCHANGED engine
             \/ \E o \in Orders : Engine!Place(o) \/ Engine!Reserve(o)
  BY <1>1, <1>4 DEF LineFails, OrderFails, ResolveFails, RequestDies
<1>5. ASSUME NEW s \in Sales, Sale(s) \/ GiveUp(s) \/ \E h \in Handlers : Deliver(h, s)
      PROVE  UNCHANGED engine
  BY <1>5 DEF Sale, GiveUp, Deliver
<1>6. ASSUME NEW x \in {"secret", "config"}, Switch(x) PROVE UNCHANGED engine
  BY <1>6 DEF Switch
<1>7. CASE UNCHANGED vars
  BY <1>7 DEF vars
<1>8. QED
  BY <1>2, <1>3, <1>4, <1>5, <1>6, <1>7 DEF Next

LEMMA InitStock == Init => Stock
<1> SUFFICES ASSUME Init PROVE Stock
  OBVIOUS
<1>1. physical \in [Rows -> Nat] /\ reserved \in [Rows -> Nat]
  BY OrderHookAssumption DEF Init
<1>2. ASSUME NEW r \in Rows PROVE StockOf(status, r, physical[r], reserved[r])
  <2>1. Taken(status, r) = {} /\ reserved[r] = 0 /\ physical[r] \in Nat
    BY <1>1 DEF Init, Taken
  <2>2. QED
    BY <2>1, SumOfNothing, FS_EmptySet DEF StockOf
<1>3. QED
  BY <1>1, <1>2 DEF Stock

LEMMA NextStock == Typed /\ Stock /\ [Next]_vars => Stock'
<1> SUFFICES ASSUME Typed, Stock, [Next]_vars PROVE Stock'
  OBVIOUS
<1>1. CASE UNCHANGED engine
  BY <1>1 DEF engine, Stock
<1>2. ASSUME NEW o \in Orders, Engine!Place(o) \/ Engine!Reserve(o) \/ Engine!Sell(o)
                               \/ Engine!Reject(o) \/ Engine!GiveBack(o)
      PROVE  Stock'
  BY <1>2, EngineStock
<1>3. ASSUME NEW o \in Orders, Overwrite(o) PROVE Stock'
  BY <1>3, OverwriteStock
<1>4. QED
  BY <1>1, <1>2, <1>3, EngineUsed

\* A row reserves what the RESERVED orders of webhooks add up to on it, and no more
\* than it has, although an order that fails late is overwritten (reserveUnderLock,
\* confirmUnderLock, releaseAndFail).
THEOREM WebhookStockAddsUp == Spec => []Stock
<1>1. Init => Stock
  BY InitStock
<1>2. IInv /\ Stock /\ [Next]_vars => Stock'
  BY NextStock DEF IInv
<1>3. QED
  BY <1>1, <1>2, Inductive, PTL DEF Spec

\* Every variable keeps its type; stock and reservations are never negative.
THEOREM WebhookOrdersTypeCorrect == Spec => []TypeOK
<1>1. ASSUME IInv, Stock PROVE TypeOK
  <2>1. Typed
    BY <1>1 DEF IInv
  <2>2. \A h \in Handlers : handler[h].pc \in {"reserve", "enqueue", "mark", "failing", "fail"}
                              => OrderOf(h) \in Orders
    BY <2>1, OrderOfRequest DEF AtLine
  <2>3. QED
    BY <1>1, <2>1, <2>2 DEF Typed, Stock, TypeOK, Stages
<1>2. QED
  BY <1>1, Inductive, WebhookStockAddsUp, PTL
================================================================================
