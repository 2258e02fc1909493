---------------------------- MODULE OmsLedgerProofs ----------------------------
(***************************************************************************)
(* What the OMS ledger keeps under every interleaving, for any number of   *)
(* orders, lines, rows and requests: a balance's own columns agree, an     *)
(* order has active reservations exactly while it is RESERVED, and on rows *)
(* no request wrote from outdated data ledger, outbox, safety buffer and   *)
(* returns agree with the balance.                                         *)
(*                                                                         *)
(* None of it is inductive.  A commit installs balances written steps      *)
(* before, so every written balance must be sound and every movement about *)
(* to be written allowed (Shape); it moves an order by what an earlier     *)
(* read found, so a create in its transaction must still be the only one   *)
(* and its order new, and what a cancel skipped must stay released         *)
(* (OrderFacts, OneInserter); and what it adds to the ledger and the       *)
(* outbox must account for what it wrote (Account).                        *)
(*                                                                         *)
(* That the reserved units of a row are those of its active reservations   *)
(* is a sum over lines: Settled says how far a call in its transaction has *)
(* moved the one and not yet the other.                                    *)
(***************************************************************************)
EXTENDS OmsLedger, FiniteSetTheorems, WellFoundedInduction, TLAPS

InTransaction == {"check", "read", "write", "commit"}

\* What a call is about, by its operation and its next statement.
Shape(c) ==
  /\ c.pc = "idle" <=> c.op = "none"
  /\ c.op \in Changes => c.order \in Orders /\ c.line \in DOMAIN Lines[c.order]
  /\ c.op = "createReturn" => c.order \in Orders
  /\ c.op \in {"createReturn", "adjust"} => c.row \in Rows
  /\ c.pc = "lines" => c.op \in {"cancel", "fulfill"}
  /\ c.pc \in {"insert", "check"} => c.op = "create"
  /\ c.pc = "sum" => c.op = "createReturn"
  /\ c.op = "cancel" /\ c.pc \in {"read", "write"} => c.active
  /\ c.pc = "write" => Allowed(After(c.seen, Movement(c), RowOf(c), c.buffer))
  /\ \A r \in Rows : c.written[r] # None => Sound(c.written[r])

\* What a call still knows of its order.
OrderFacts(c) ==
  /\ c.op = "create" /\ c.pc \in InTransaction => status[c.order] = "NONE"
  /\ c.op \in {"cancel", "fulfill"} => status[c.order] # "NONE"
  /\ c.op = "cancel" /\ c.pc = "commit" /\ ~c.active
        => held[c.order] \notin {"NONE", "ACTIVE"}

CallsShaped == \A p \in Slots : Shape(call[p])
OrdersKnown == \A p \in Slots : OrderFacts(call[p])
OneInserter == \A p, q \in Slots : \A o \in Orders :
                 Inserting(p, o) /\ Inserting(q, o) => p = q

IInv == /\ TypeOK /\ CallsShaped /\ OrdersKnown /\ OneInserter
        /\ RowsSound /\ ReservationFollowsOrder

-----------------------------------------------------------------------------
(* Lines, movements and balances.                                          *)

LEMMA LineFacts ==
  ASSUME NEW c \in Call, Shape(c), c.op \in Changes
  PROVE  /\ Lines[c.order] \in Seq(Line)
         /\ Lines[c.order][c.line] \in Line
         /\ c.line \in 1..Len(Lines[c.order])
<1>1. Lines[c.order] \in Seq(Line)
  BY OmsAssumption DEF OmsAssumption, Shape
<1>2. QED
  BY <1>1 DEF Shape

LEMMA FirstLine ==
  ASSUME NEW o \in Orders
  PROVE  1 \in DOMAIN Lines[o]
BY OmsAssumption DEF OmsAssumption

LEMMA RowOfCall ==
  ASSUME NEW c \in Call, Shape(c), c.op # "none"
  PROVE  RowOf(c) \in Rows
<1>1. CASE c.op \in Changes
  BY <1>1, LineFacts DEF RowOf, Line
<1>2. CASE c.op \notin Changes
  BY <1>2 DEF RowOf, Shape, Call, Ops
<1>3. QED
  BY <1>1, <1>2

LEMMA MovementOfCall ==
  ASSUME NEW c \in Call, Shape(c), c.op # "none"
  PROVE  Movement(c) \in Sum
<1> DEFINE n == IF c.op \in Changes THEN Lines[c.order][c.line].quantity ELSE c.change
<1>1. n \in Int
  <2>1. CASE c.op \in Changes
    BY <2>1, LineFacts DEF Line
  <2>2. CASE c.op \notin Changes
    BY <2>2 DEF Call
  <2>3. QED
    BY <2>1, <2>2
<1>2. Movement(c).physical \in Int /\ Movement(c).reserved \in Int
  <2> HIDE DEF n
  <2>1. Movement(c) = [physical |-> CASE c.op \in {"create", "cancel"} -> 0
                                      [] c.op = "fulfill" -> -n
                                      [] OTHER -> n,
                       reserved |-> CASE c.op = "create" -> n
                                      [] c.op \in {"cancel", "fulfill"} -> -n
                                      [] OTHER -> 0]
    BY DEF Movement, n
  <2>2. QED
    BY <1>1, <2>1
<1>3. QED
  BY <1>2 DEF Movement, Sum

\* A movement that is allowed leaves a balance, and a sound one.
LEMMA AllowedAfter ==
  ASSUME NEW b \in Balance \cup {None}, NEW mv \in Sum, NEW r \in Rows,
         NEW buffer \in Nat \cup {None},
         Allowed(After(b, mv, r, buffer))
  PROVE  /\ After(b, mv, r, buffer) \in Balance
         /\ Sound(After(b, mv, r, buffer))
<1> DEFINE a == After(b, mv, r, buffer)
<1>1. a.physical \in Int /\ a.reserved \in Int
  BY DEF After, Balance, Sum
<1>2. a.buffer \in Nat
  BY OmsAssumption DEF After, Balance, OmsAssumption
<1>3. a.sellable = Sellable(a.physical, a.reserved, a.buffer)
  BY DEF After
<1>4. a.sellable \in Nat
  BY <1>1, <1>2, <1>3 DEF Sellable
<1>5. a.physical >= 0 /\ a.reserved >= 0 /\ a.reserved <= a.physical
  BY DEF Allowed
<1>6. a = [physical |-> a.physical, reserved |-> a.reserved, buffer |-> a.buffer,
           sellable |-> a.sellable]
  BY DEF After
<1> HIDE DEF a
<1>7. a \in Balance /\ Sound(a)
  BY <1>1, <1>2, <1>3, <1>4, <1>5, <1>6 DEF Balance, Sound
<1>8. QED
  BY <1>7 DEF a

LEMMA IdleCall == Idle \in Call /\ Shape(Idle) /\ OrderFacts(Idle)
<1>1. Idle \in Call
  BY DEF Idle, Call, Ops, Changes, PCs, Nothing, Sum
<1>2. QED
  BY <1>1 DEF Idle, Shape, OrderFacts, Changes, InTransaction

LEMMA VisibleRow ==
  ASSUME TypeOK, CallsShaped, RowsSound, NEW p \in Slots, NEW r \in Rows
  PROVE  /\ Visible(p, r) \in Balance \cup {None}
         /\ Visible(p, r) # None => Sound(Visible(p, r))
<1>1. call[p] \in Call /\ Shape(call[p])
  BY DEF TypeOK, CallsShaped
<1>2. call[p].written[r] \in Balance \cup {None} /\ balance[r] \in Balance \cup {None}
  BY <1>1 DEF TypeOK, Call
<1>3. QED
  BY <1>1, <1>2 DEF Visible, Shape, RowsSound

LEMMA SpendType ==
  ASSUME TypeOK, NEW w \in Limits, Spend(w)
  PROVE  budget' \in [Limits -> Nat]
BY DEF TypeOK, Spend

-----------------------------------------------------------------------------
(* Steps that only move one call.                                          *)

LEMMA QuietStep ==
  ASSUME IInv, NEW p \in Slots, NEW c \in Call, Shape(c), OrderFacts(c),
         c.op = "create" /\ c.pc \in InTransaction =>
           \A q \in Slots \ {p} : ~Inserting(q, c.order),
         Goto(p, c), Unchanged, budget' \in [Limits -> Nat],
         refused' \subseteq Orders \cup {None}
  PROVE  IInv'
<1>1. call' = [call EXCEPT ![p] = c] /\ call \in [Slots -> Call]
  BY DEF Goto, IInv, TypeOK
<1>2. call'[p] = c /\ \A q \in Slots \ {p} : call'[q] = call[q]
  BY <1>1
<1>3. UNCHANGED <<balance, moved, stale, status, held, returned, outbox, queued>>
  BY DEF Unchanged, stock, orders, jobs
<1>4. TypeOK'
  BY <1>1, <1>3 DEF IInv, TypeOK
<1>5. CallsShaped'
  BY <1>2 DEF IInv, CallsShaped, Shape
<1>6. OrdersKnown'
  BY <1>2, <1>3 DEF IInv, OrdersKnown, OrderFacts
<1>7. OneInserter'
  <2> SUFFICES ASSUME NEW q1 \in Slots, NEW q2 \in Slots, NEW o \in Orders,
                      Inserting(q1, o)', Inserting(q2, o)', q1 # q2
               PROVE  FALSE
    BY DEF OneInserter
  <2>1. \A q \in Slots \ {p} : Inserting(q, o)' => Inserting(q, o)
    BY <1>2 DEF Inserting
  <2>2. Inserting(p, o)' => c.op = "create" /\ c.order = o /\ c.pc \in InTransaction
    BY <1>2 DEF Inserting, InTransaction
  <2>3. CASE q1 # p /\ q2 # p
    BY <2>1, <2>3 DEF IInv, OneInserter
  <2>4. CASE q1 = p
    BY <2>1, <2>2, <2>4
  <2>5. CASE q2 = p
    BY <2>1, <2>2, <2>5
  <2>6. QED
    BY <2>3, <2>4, <2>5
<1>8. RowsSound' /\ ReservationFollowsOrder'
  BY <1>3 DEF IInv, RowsSound, ReservationFollowsOrder, Sound
<1>9. QED
  BY <1>4, <1>5, <1>6, <1>7, <1>8 DEF IInv

LEMMA QuietIdle ==
  ASSUME IInv, NEW p \in Slots, Goto(p, Idle), Unchanged,
         budget' \in [Limits -> Nat], refused' \subseteq Orders \cup {None}
  PROVE  IInv'
<1>1. Idle.op # "create"
  BY DEF Idle
<1>2. QED
  BY <1>1, IdleCall, QuietStep

\* What an action of slot p may use.
LEMMA CallFacts ==
  ASSUME IInv, NEW p \in Slots
  PROVE  /\ call[p] \in Call /\ Shape(call[p]) /\ OrderFacts(call[p])
         /\ budget \in [Limits -> Nat]
         /\ refused \subseteq Orders \cup {None}
BY DEF IInv, TypeOK, CallsShaped, OrdersKnown

\* A create in its transaction is alone with its order.
LEMMA Alone ==
  ASSUME IInv, NEW p \in Slots, call[p].op = "create", call[p].pc \in InTransaction
  PROVE  \A q \in Slots \ {p} : ~Inserting(q, call[p].order)
<1>1. Inserting(p, call[p].order) /\ call[p].order \in Orders
  BY CallFacts DEF Inserting, InTransaction, Shape, Changes
<1>2. QED
  BY <1>1 DEF IInv, OneInserter

-----------------------------------------------------------------------------
(* Requests and the reads before the transaction.                          *)

LEMMA RequestStep ==
  ASSUME IInv, NEW p \in Slots, Request(p)
  PROVE  IInv'
<1>1. budget \in [Limits -> Nat] /\ refused \subseteq Orders \cup {None}
  BY DEF IInv, TypeOK
<1>2. ASSUME NEW o \in Orders, Create(p, o)  PROVE IInv'
  <2> DEFINE c == [Idle EXCEPT !.op = "create", !.pc = "insert", !.order = o]
  <2>1. c \in Call /\ Shape(c) /\ OrderFacts(c) /\ c.pc = "insert"
    <3>1. c \in Call
      BY IdleCall DEF Call, Ops, Changes, PCs
    <3>2. /\ c.op = "create" /\ c.pc = "insert" /\ c.order = o /\ c.line = 1
          /\ c.written = [k \in Rows |-> None]
      BY DEF Idle
    <3> HIDE DEF c
    <3>3. Shape(c)
      BY <3>2, FirstLine DEF Shape, Changes
    <3>4. OrderFacts(c)
      BY <3>2 DEF OrderFacts, InTransaction
    <3>5. QED
      BY <3>1, <3>2, <3>3, <3>4
  <2>2. Goto(p, c) /\ Unchanged /\ budget' = budget /\ refused' = refused
    BY <1>2 DEF Create
  <2>3. QED
    BY <1>1, <2>1, <2>2, QuietStep DEF InTransaction
<1>3. ASSUME NEW o \in Orders, NEW op \in {"cancel", "fulfill"}, FindOrder(p, o, op)
      PROVE  IInv'
  <2> DEFINE c == [Idle EXCEPT !.op = op, !.pc = "lines", !.order = o]
  <2>1. c \in Call /\ Shape(c) /\ OrderFacts(c) /\ c.op # "create"
    <3>1. c \in Call
      BY IdleCall DEF Call, Ops, Changes, PCs
    <3>2. /\ c.op = op /\ c.pc = "lines" /\ c.order = o /\ c.line = 1
          /\ c.written = [k \in Rows |-> None]
      BY DEF Idle
    <3>3. status[o] # "NONE"
      BY <1>3 DEF FindOrder
    <3> HIDE DEF c
    <3>4. Shape(c)
      BY <3>2, FirstLine DEF Shape, Changes
    <3>5. OrderFacts(c)
      BY <3>2, <3>3 DEF OrderFacts
    <3>6. QED
      BY <3>1, <3>2, <3>4, <3>5
  <2>2. Goto(p, c) /\ Unchanged /\ budget' = budget /\ refused' = refused
    BY <1>3 DEF FindOrder
  <2>3. QED
    BY <1>1, <2>1, <2>2, QuietStep
<1>4. ASSUME NEW o \in Orders, NEW r \in Rows, NEW n \in ReturnQuantities,
             CreateReturn(p, o, r, n)
      PROVE  IInv'
  <2> DEFINE c == [Idle EXCEPT !.op = "createReturn", !.pc = "sum", !.order = o,
                               !.row = r, !.change = n]
  <2>1. n \in Int
    BY OmsAssumption DEF OmsAssumption
  <2>2. c \in Call /\ Shape(c) /\ OrderFacts(c) /\ c.op # "create"
    <3>1. c \in Call
      BY IdleCall, <2>1 DEF Call, Ops, PCs
    <3>2. /\ c.op = "createReturn" /\ c.pc = "sum" /\ c.order = o /\ c.row = r
          /\ c.written = [k \in Rows |-> None]
      BY DEF Idle
    <3> HIDE DEF c
    <3>3. QED
      BY <3>1, <3>2 DEF Changes, Shape, OrderFacts
  <2>3. Goto(p, c) /\ Unchanged /\ budget' \in [Limits -> Nat] /\ refused' = refused
    BY <1>4, SpendType DEF CreateReturn, Limits, IInv
  <2>4. QED
    BY <1>1, <2>2, <2>3, QuietStep
<1>5. ASSUME NEW r \in Rows, NEW a \in Adjustments, Adjust(p, r, a)
      PROVE  IInv'
  <2> DEFINE c == [Idle EXCEPT !.op = "adjust", !.pc = "read", !.row = r,
                               !.change = a.physical, !.buffer = a.buffer,
                               !.source = budget["adjust"]]
  <2>1. a.physical \in Int /\ a.buffer \in Nat \cup {None} /\ budget["adjust"] \in Nat
    BY <1>1, OmsAssumption DEF OmsAssumption, Limits
  <2>2. c \in Call /\ Shape(c) /\ OrderFacts(c) /\ c.op # "create"
    <3>1. c \in Call
      BY IdleCall, <2>1 DEF Call, Ops, PCs
    <3>2. /\ c.op = "adjust" /\ c.pc = "read" /\ c.row = r
          /\ c.written = [k \in Rows |-> None]
      BY DEF Idle
    <3> HIDE DEF c
    <3>3. QED
      BY <3>1, <3>2 DEF Changes, Shape, OrderFacts
  <2>3. Goto(p, c) /\ Unchanged /\ budget' \in [Limits -> Nat] /\ refused' = refused
    BY <1>5, SpendType DEF Adjust, Limits, IInv
  <2>4. QED
    BY <1>1, <2>2, <2>3, QuietStep
<1>6. QED
  BY <1>2, <1>3, <1>4, <1>5 DEF Request, Cancel, Fulfill

LEMMA BeforeTransaction ==
  ASSUME IInv, NEW p \in Slots, ReadLines(p) \/ SumReturns(p) \/ Insert(p)
  PROVE  IInv'
<1> DEFINE c == call[p]
<1>1. c \in Call /\ Shape(c) /\ OrderFacts(c)
  BY CallFacts
<1>2. budget' \in [Limits -> Nat] /\ refused' \subseteq Orders \cup {None} /\ Unchanged
  BY CallFacts DEF ReadLines, SumReturns, Insert
<1>3. CASE ReadLines(p)
  <2>1. c.pc = "lines" /\ c.op \in {"cancel", "fulfill"} /\ c.order \in Orders
    BY <1>1, <1>3 DEF ReadLines, Shape, Changes
  <2>2. CASE held[c.order] = "ACTIVE"
    <3> DEFINE d == [c EXCEPT !.pc = "read", !.active = TRUE]
    <3>1. Goto(p, d)
      BY <1>3, <2>2 DEF ReadLines
    <3>2. d \in Call /\ Shape(d) /\ OrderFacts(d) /\ d.op # "create"
      BY <1>1, <2>1 DEF Call, PCs, Shape, OrderFacts
    <3>3. QED
      BY <1>2, <3>1, <3>2, QuietStep
  <2>3. CASE held[c.order] # "ACTIVE" /\ c.op = "cancel"
    <3> DEFINE d == [c EXCEPT !.pc = "commit"]
    <3>1. Goto(p, d)
      BY <1>3, <2>3 DEF ReadLines
    <3>2. held[c.order] # "NONE"
      BY <1>1, <2>1 DEF IInv, ReservationFollowsOrder, OrderFacts
    <3>3. d \in Call /\ Shape(d) /\ OrderFacts(d) /\ d.op # "create"
      BY <1>1, <2>1, <2>3, <3>2 DEF Call, PCs, Shape, OrderFacts
    <3>4. QED
      BY <1>2, <3>1, <3>3, QuietStep
  <2>4. CASE held[c.order] # "ACTIVE" /\ c.op # "cancel"
    BY <1>2, <1>3, <2>4, QuietIdle DEF ReadLines
  <2>5. QED
    BY <2>2, <2>3, <2>4
<1>4. CASE SumReturns(p)
  <2>1. c.pc = "sum" /\ c.op = "createReturn" /\ c.order \in Orders /\ c.row \in Rows
    BY <1>1, <1>4 DEF SumReturns, Shape
  <2> DEFINE d == [c EXCEPT !.pc = "read", !.sum = returned[c.order][c.row]]
  <2>2. returned[c.order][c.row] \in Int
    BY <2>1 DEF IInv, TypeOK
  <2>3. d \in Call /\ Shape(d) /\ OrderFacts(d) /\ d.op # "create"
    BY <1>1, <2>1, <2>2 DEF Call, PCs, Shape, OrderFacts
  <2>4. Goto(p, d) \/ Goto(p, Idle)
    BY <1>4 DEF SumReturns
  <2>5. QED
    BY <1>2, <2>3, <2>4, QuietStep, QuietIdle
<1>5. CASE Insert(p)
  <2>1. c.pc = "insert" /\ c.op = "create" /\ c.order \in Orders
    BY <1>1, <1>5 DEF Insert, Shape, Changes
  <2>2. CASE status[c.order] = "NONE"
    <3> DEFINE d == [c EXCEPT !.pc = "check"]
    <3>1. Goto(p, d) /\ \A q \in Slots : ~Inserting(q, d.order)
      BY <1>5, <2>2 DEF Insert
    <3>2. d \in Call /\ Shape(d) /\ OrderFacts(d)
      BY <1>1, <2>1, <2>2 DEF Call, PCs, Shape, OrderFacts
    <3>3. QED
      BY <1>2, <3>1, <3>2, QuietStep
  <2>3. CASE status[c.order] # "NONE"
    BY <1>2, <1>5, <2>3, QuietIdle DEF Insert
  <2>4. QED
    BY <2>2, <2>3
<1>6. QED
  BY <1>3, <1>4, <1>5

-----------------------------------------------------------------------------
(* Inside the transaction.                                                 *)

LEMMA CheckOrRead ==
  ASSUME IInv, NEW p \in Slots, Check(p) \/ Read(p)
  PROVE  IInv'
<1> DEFINE c == call[p]
           b == Visible(p, RowOf(c))
<1>1. c \in Call /\ Shape(c) /\ OrderFacts(c) /\ c.pc \in {"check", "read"}
  BY CallFacts DEF Check, Read
<1>2. budget' \in [Limits -> Nat] /\ refused' \subseteq Orders \cup {None} /\ Unchanged
  BY CallFacts DEF Check, Read
<1>3. c.op # "none" /\ RowOf(c) \in Rows
  BY <1>1, RowOfCall DEF Shape
<1>4. b \in Balance \cup {None}
  BY <1>3, VisibleRow DEF IInv
<1>5. c.op = "create" => \A q \in Slots \ {p} : ~Inserting(q, c.order)
  BY <1>1, Alone DEF InTransaction
<1>6. ASSUME NEW d \in Call, Shape(d), OrderFacts(d), d.op = c.op,
             d.order = c.order, Goto(p, d)
      PROVE  IInv'
  BY <1>2, <1>5, <1>6, QuietStep
<1>7. CASE Check(p)
  <2> DEFINE d == [c EXCEPT !.pc = "read", !.checked = b]
  <2>1. c.pc = "check" /\ c.op = "create"
    BY <1>1, <1>7 DEF Check, Shape
  <2>2. d \in Call /\ Shape(d) /\ OrderFacts(d) /\ d.op = c.op /\ d.order = c.order
    BY <1>1, <1>4, <2>1 DEF Call, PCs, Shape, OrderFacts, InTransaction, Changes
  <2>3. Goto(p, d) \/ Goto(p, Idle)
    BY <1>7 DEF Check
  <2>4. QED
    BY <1>2, <1>6, <2>2, <2>3, QuietIdle
<1>8. CASE Read(p)
  <2> DEFINE d == [c EXCEPT !.pc = "write", !.seen = b,
                            !.checked = IF c.op = "create" THEN @ ELSE b]
  <2>1. c.pc = "read"
    BY <1>8 DEF Read
  <2>2. CASE Allowed(After(b, Movement(c), RowOf(c), c.buffer))
    <3>1. d \in Call
      <4> DEFINE k == IF c.op = "create" THEN c.checked ELSE b
      <4>1. k \in Balance \cup {None}
        BY <1>1, <1>4 DEF Call
      <4>2. d = [c EXCEPT !.pc = "write", !.seen = b, !.checked = k]
        OBVIOUS
      <4> HIDE DEF k, d, b
      <4>3. QED
        BY <1>1, <1>4, <4>1, <4>2 DEF Call, PCs
    <3>2. /\ d.op = c.op /\ d.order = c.order /\ d.line = c.line /\ d.row = c.row
          /\ d.change = c.change /\ d.buffer = c.buffer /\ d.pc = "write"
          /\ d.seen = b /\ d.active = c.active /\ d.written = c.written
      BY <1>1 DEF Call
    <3>3. Movement(d) = Movement(c) /\ RowOf(d) = RowOf(c)
      BY <3>2 DEF Movement, RowOf
    <3>4. Shape(d)
      BY <1>1, <2>1, <2>2, <3>2, <3>3 DEF Shape
    <3>5. OrderFacts(d)
      BY <1>1, <2>1, <3>2 DEF OrderFacts, InTransaction
    <3>6. Goto(p, d)
      BY <1>8, <2>2 DEF Read
    <3>7. QED
      BY <1>6, <3>1, <3>2, <3>4, <3>5, <3>6
  <2>3. CASE ~Allowed(After(b, Movement(c), RowOf(c), c.buffer))
    BY <1>2, <1>8, <2>3, QuietIdle DEF Read
  <2>4. QED
    BY <2>2, <2>3
<1>9. QED
  BY <1>7, <1>8

LEMMA KeyType ==
  ASSUME NEW c \in Call, Shape(c), c.op # "none", NEW b \in Balance \cup {None},
         NEW target \in Nat
  PROVE  NewJobs(c, b, target) \in Seq(SyncKey)
<1>1. RowOf(c) \in Rows
  BY RowOfCall
<1>2. (IF c.op = "adjust" THEN c.source ELSE c.order) \in Orders \cup Nat
  BY DEF Call, Shape, Ops, Changes
<1>3. KeyOf(c, target) \in SyncKey
  BY <1>1, <1>2 DEF KeyOf, SyncKey
<1>4. QED
  BY <1>3 DEF NewJobs

LEMMA WrittenCall ==
  ASSUME NEW p \in Slots, NEW c \in Call, Shape(c), c.pc = "write",
         NEW r \in Rows, NEW b \in Balance, Sound(b), NEW new \in Seq(SyncKey)
  PROVE  LET d == Written(p, c, r, b, new)
         IN  /\ d \in Call /\ Shape(d) /\ d.op = c.op /\ d.order = c.order
             /\ d.active = c.active /\ d.pc \in InTransaction
<1> DEFINE pc      == IF ~MoreLines(c) THEN "commit"
                      ELSE IF c.op = "create" THEN "check" ELSE "read"
           line    == IF MoreLines(c) THEN c.line + 1 ELSE 1
           written == [c.written EXCEPT ![r] = b]
           sum     == [physical |-> c.deltas[r].physical + Movement(c).physical,
                       reserved |-> c.deltas[r].reserved + Movement(c).reserved]
           deltas  == [c.deltas EXCEPT ![r] = sum]
           created == c.created \o new
           tainted == IF Outdated(p) THEN c.tainted \cup {r} ELSE c.tainted
           d       == Written(p, c, r, b, new)
<1>1. d = [c EXCEPT !.pc = pc, !.line = line, !.checked = None, !.seen = None,
                    !.written = written, !.deltas = deltas, !.created = created,
                    !.tainted = tainted]
  BY DEF Written, Call
<1>2. c.op # "none" /\ c.op \in Ops
  BY DEF Shape, Call
<1>3. pc \in PCs /\ pc \in InTransaction /\ pc # "idle" /\ pc # "write"
      /\ pc # "lines" /\ pc # "insert" /\ pc # "sum" /\ (pc = "check" => c.op = "create")
      /\ pc \in {"commit", "check", "read"}
  BY DEF PCs, InTransaction
<1>4. line \in Nat
  BY DEF Call
<1>5. c.op \in Changes => line \in DOMAIN Lines[c.order]
  <2> SUFFICES ASSUME c.op \in Changes PROVE line \in DOMAIN Lines[c.order]
    OBVIOUS
  <2>1. c.order \in Orders /\ Lines[c.order] \in Seq(Line) /\ c.line \in 1..Len(Lines[c.order])
    BY LineFacts DEF Shape
  <2>2. 1 \in DOMAIN Lines[c.order]
    BY <2>1, FirstLine
  <2>3. MoreLines(c) => c.line < Len(Lines[c.order])
    BY DEF MoreLines
  <2>4. QED
    BY <2>1, <2>2, <2>3
<1>6. written \in [Rows -> Balance \cup {None}]
      /\ \A k \in Rows : written[k] # None => Sound(written[k])
  BY DEF Call, Shape
<1>7. deltas \in [Rows -> Sum]
  <2>1. Movement(c) \in Sum /\ c.deltas \in [Rows -> Sum]
    BY <1>2, MovementOfCall DEF Call
  <2>2. sum \in Sum
    BY <2>1 DEF Sum
  <2>3. QED
    BY <2>1, <2>2
<1>8. created \in Seq(SyncKey) /\ tainted \subseteq Rows
  BY DEF Call
<1> HIDE DEF pc, line, written, deltas, created, tainted, d
<1>9. d \in Call
  BY <1>1, <1>3, <1>4, <1>6, <1>7, <1>8 DEF Call
<1>10. /\ d.op = c.op /\ d.order = c.order /\ d.active = c.active /\ d.row = c.row
       /\ d.pc = pc /\ d.line = line /\ d.written = written
  BY <1>1 DEF Call
<1>11. Shape(d)
  BY <1>2, <1>3, <1>5, <1>6, <1>10 DEF Shape
<1>12. QED
  BY <1>3, <1>9, <1>10, <1>11 DEF d

LEMMA WriteStep ==
  ASSUME IInv, NEW p \in Slots, Write(p)
  PROVE  IInv'
<1> DEFINE c   == call[p]
           r   == RowOf(c)
           b   == After(c.seen, Movement(c), r, c.buffer)
           new == NewJobs(c, c.seen, b.sellable)
           d   == Written(p, c, r, b, new)
<1>1. c \in Call /\ Shape(c) /\ OrderFacts(c) /\ c.pc = "write" /\ c.op # "none"
  BY CallFacts DEF Write, Shape
<1>2. /\ budget' \in [Limits -> Nat] /\ refused' \subseteq Orders \cup {None}
      /\ Unchanged
  BY <1>1, CallFacts DEF Write, Call
<1>3. r \in Rows /\ Movement(c) \in Sum
  BY <1>1, RowOfCall, MovementOfCall
<1>4. b \in Balance /\ Sound(b)
  <2>1. c.seen \in Balance \cup {None} /\ c.buffer \in Nat \cup {None}
    BY <1>1 DEF Call
  <2>2. Allowed(After(c.seen, Movement(c), r, c.buffer))
    BY <1>1 DEF Shape
  <2>3. QED
    BY <1>3, <2>1, <2>2, AllowedAfter
<1>5. new \in Seq(SyncKey)
  <2>1. c.seen \in Balance \cup {None} /\ b.sellable \in Nat
    BY <1>1, <1>4 DEF Call, Balance
  <2>2. QED
    BY <1>1, <2>1, KeyType
<1>6. Goto(p, Idle) \/ Goto(p, d)
  BY DEF Write
<1>7. CASE Goto(p, Idle)
  BY <1>2, <1>7, QuietIdle
<1>8. CASE Goto(p, d)
  <2> HIDE DEF b, new, d, r
  <2>1. /\ d \in Call /\ Shape(d) /\ d.op = c.op /\ d.order = c.order
        /\ d.active = c.active /\ d.pc \in InTransaction
    BY <1>1, <1>3, <1>4, <1>5, WrittenCall DEF d
  <2>2. OrderFacts(d)
    BY <1>1, <2>1 DEF OrderFacts, Shape, InTransaction
  <2>3. d.op = "create" => \A q \in Slots \ {p} : ~Inserting(q, d.order)
    BY <1>1, <2>1, Alone DEF InTransaction
  <2>4. QED
    BY <1>2, <1>8, <2>1, <2>2, <2>3, QuietStep
<1>9. QED
  BY <1>6, <1>7, <1>8

-----------------------------------------------------------------------------
(* Commit and after it.                                                    *)

LEMMA CommitStep ==
  ASSUME IInv, NEW p \in Slots, Commit(p)
  PROVE  IInv'
<1> DEFINE c == call[p]
           d == [Idle EXCEPT !.op = c.op, !.pc = "enqueue", !.order = c.order,
                             !.row = c.row, !.created = c.created]
<1>1. c \in Call /\ Shape(c) /\ OrderFacts(c) /\ c.pc = "commit" /\ c.op \in Ops
  BY CallFacts DEF Commit, Shape, Call
<1>2. \E e \in {Idle, d} : call' = [call EXCEPT ![p] = e]
  BY DEF Commit, Goto
<1>3. d \in Call /\ Shape(d) /\ d.pc = "enqueue" /\ d.op = c.op /\ d.order = c.order
  <2>1. d \in Call
    BY <1>1, IdleCall DEF Call, PCs
  <2>2. /\ d.op = c.op /\ d.pc = "enqueue" /\ d.order = c.order /\ d.row = c.row
        /\ d.line = 1 /\ d.written = [r \in Rows |-> None]
    BY DEF Idle
  <2>3. c.op # "none" /\ (c.op \in Changes => 1 \in DOMAIN Lines[c.order])
    BY <1>1, FirstLine DEF Shape
  <2>4. QED
    BY <1>1, <2>1, <2>2, <2>3 DEF Shape
<1>4. PICK e \in Call : /\ call' = [call EXCEPT ![p] = e] /\ Shape(e)
                        /\ e.pc \notin InTransaction
                        /\ e.op \in {"cancel", "fulfill"} => e.op = c.op /\ e.order = c.order
  <2>1. Idle.pc = "idle" /\ Idle.op = "none"
    BY DEF Idle
  <2> HIDE DEF d
  <2>2. QED
    BY <1>2, <1>3, <2>1, IdleCall DEF InTransaction
<1>5. call'[p] = e /\ \A q \in Slots \ {p} : call'[q] = call[q]
  BY <1>4 DEF IInv, TypeOK
<1>6. \A r \in Rows : balance'[r] = Visible(p, r)
  BY DEF Commit
<1>7. RowsSound'
  <2>1. \A r \in Rows : balance'[r] # None => Sound(balance'[r])
    BY <1>6, VisibleRow DEF IInv
  <2>2. QED
    BY <2>1 DEF RowsSound, Sound
<1>8. /\ status' \in [Orders -> {"NONE", "RESERVED", "CANCELLED", "FULFILLED"}]
      /\ held' \in [Orders -> {"NONE", "ACTIVE", "RELEASED", "FULFILLED"}]
      /\ \A o \in Orders :
           /\ status'[o] = IF c.op \in Changes /\ c.order = o
                           THEN OrderBecomes[c.op] ELSE status[o]
           /\ held'[o] = IF /\ c.op \in {"create", "fulfill"}
                               \/ (c.op = "cancel" /\ c.active)
                            /\ c.order = o
                         THEN HeldBecomes[c.op] ELSE held[o]
  <2>1. /\ status \in [Orders -> {"NONE", "RESERVED", "CANCELLED", "FULFILLED"}]
        /\ held \in [Orders -> {"NONE", "ACTIVE", "RELEASED", "FULFILLED"}]
    BY DEF IInv, TypeOK
  <2>2. status' = StatusAfter(c) /\ held' = HeldAfter(c)
    BY DEF Commit
  <2>3. c.op \in Changes => /\ OrderBecomes[c.op] \in {"RESERVED", "CANCELLED", "FULFILLED"}
                            /\ HeldBecomes[c.op] \in {"ACTIVE", "RELEASED", "FULFILLED"}
    BY DEF Changes, OrderBecomes, HeldBecomes
  <2>4. c.op \in {"create", "fulfill", "cancel"} <=> c.op \in Changes
    BY DEF Changes
  <2>5. QED
    BY <2>1, <2>2, <2>3, <2>4 DEF StatusAfter, HeldAfter
<1>9. TypeOK'
  <2>1. balance' \in [Rows -> Balance \cup {None}]
    <3>1. balance' = [r \in Rows |-> Visible(p, r)]
      BY DEF Commit
    <3>2. \A r \in Rows : Visible(p, r) \in Balance \cup {None}
      BY VisibleRow DEF IInv
    <3>3. QED
      BY <3>1, <3>2
  <2>2. moved' \in [Rows -> Sum]
    <3>1. moved \in [Rows -> Sum] /\ c.deltas \in [Rows -> Sum]
      BY <1>1 DEF IInv, TypeOK, Call
    <3>2. moved' = [r \in Rows |->
                      [physical |-> moved[r].physical + c.deltas[r].physical,
                       reserved |-> moved[r].reserved + c.deltas[r].reserved]]
      BY DEF Commit
    <3>3. QED
      BY <3>1, <3>2 DEF Sum
  <2>3. status' \in [Orders -> {"NONE", "RESERVED", "CANCELLED", "FULFILLED"}]
    BY <1>8
  <2>4. held' \in [Orders -> {"NONE", "ACTIVE", "RELEASED", "FULFILLED"}]
    BY <1>8
  <2>5. returned' \in [Orders -> [Rows -> Int]]
    <3>1. returned \in [Orders -> [Rows -> Int]] /\ c.change \in Int
      BY <1>1 DEF IInv, TypeOK, Call
    <3>2. QED
      BY <1>1, <3>1 DEF Commit, Shape
  <2>6. outbox' \in Seq(SyncKey) /\ stale' \subseteq Rows
    BY <1>1 DEF Commit, IInv, TypeOK, Call
  <2>7. call' \in [Slots -> Call]
    BY <1>4 DEF IInv, TypeOK
  <2>8. QED
    BY <2>1, <2>2, <2>3, <2>4, <2>5, <2>6, <2>7 DEF Commit, IInv, TypeOK
<1>10. CallsShaped'
  BY <1>4, <1>5 DEF IInv, CallsShaped, Shape
<1>11. ReservationFollowsOrder'
  <2> SUFFICES ASSUME NEW o \in Orders
               PROVE  /\ status'[o] = "RESERVED" <=> held'[o] = "ACTIVE"
                      /\ status'[o] = "NONE" <=> held'[o] = "NONE"
                      /\ status'[o] = "FULFILLED" => held'[o] = "FULFILLED"
    BY DEF ReservationFollowsOrder
  <2>1. /\ status[o] = "RESERVED" <=> held[o] = "ACTIVE"
        /\ status[o] = "NONE" <=> held[o] = "NONE"
        /\ status[o] = "FULFILLED" => held[o] = "FULFILLED"
    BY DEF IInv, ReservationFollowsOrder
  <2>2. c.order = o /\ c.op = "cancel" /\ ~c.active => held[o] \notin {"NONE", "ACTIVE"}
    BY <1>1 DEF OrderFacts
  <2>3. c.active \in BOOLEAN
    BY <1>1 DEF Call
  <2>4. QED
    BY <1>8, <2>1, <2>2, <2>3 DEF Changes, OrderBecomes, HeldBecomes
<1>12. OneInserter'
  BY <1>4, <1>5 DEF IInv, OneInserter, Inserting, InTransaction
<1>13. OrdersKnown'
  <2> SUFFICES ASSUME NEW q \in Slots PROVE OrderFacts(call[q])'
    BY DEF OrdersKnown
  <2>1. CASE q = p
    <3>1. c.op \in {"cancel", "fulfill"} => /\ c.order \in Orders
                                            /\ status'[c.order] # "NONE"
      BY <1>1, <1>8 DEF OrderBecomes, Shape, Changes
    <3>2. QED
      BY <1>4, <1>5, <2>1, <3>1 DEF OrderFacts, InTransaction
  <2>2. CASE q # p
    <3> DEFINE x == call[q]
               o == call[q].order
    <3>1. call'[q] = x /\ Shape(x) /\ OrderFacts(x) /\ x \in Call
      BY <1>5, <2>2, CallFacts
    <3>2. CASE x.op \notin Changes
      BY <3>1, <3>2 DEF OrderFacts, Changes
    <3>3. CASE x.op = "create" /\ x.pc \in InTransaction
      <4>1. o \in Orders /\ status[o] = "NONE"
        BY <3>1, <3>3 DEF Shape, OrderFacts, Changes
      <4>2. c.order = o => c.op # "create"
        BY <1>1, <2>2, <3>3, <4>1, Alone DEF Inserting, InTransaction
      <4>3. c.order = o => c.op \notin {"cancel", "fulfill"}
        BY <1>1, <4>1 DEF OrderFacts
      <4>4. status'[o] = "NONE"
        BY <1>8, <4>1, <4>2, <4>3 DEF Changes
      <4>5. QED
        BY <3>1, <3>3, <4>4 DEF OrderFacts
    <3>4. CASE x.op \in {"cancel", "fulfill"}
      <4>1. o \in Orders /\ status[o] # "NONE"
        BY <3>1, <3>4 DEF Shape, OrderFacts, Changes
      <4>2. status'[o] # "NONE"
        BY <1>8, <4>1 DEF Changes, OrderBecomes
      <4>3. c.order = o => c.op # "create"
        BY <1>1, <4>1 DEF OrderFacts, InTransaction
      <4>4. held[o] \notin {"NONE", "ACTIVE"} => held'[o] \notin {"NONE", "ACTIVE"}
        BY <1>8, <4>1, <4>3 DEF HeldBecomes
      <4>5. QED
        BY <3>1, <3>4, <4>2, <4>4 DEF OrderFacts
    <3>5. CASE x.op = "create" /\ x.pc \notin InTransaction
      BY <3>1, <3>5 DEF OrderFacts
    <3>6. QED
      BY <3>2, <3>3, <3>4, <3>5 DEF Changes
  <2>3. QED
    BY <2>1, <2>2
<1>14. QED
  BY <1>7, <1>9, <1>10, <1>11, <1>12, <1>13 DEF IInv

LEMMA AfterCommit ==
  ASSUME IInv, NEW p \in Slots,
         Enqueue(p) \/ Interrupt(p) \/ DeadlockVictim(p)
  PROVE  IInv'
<1> DEFINE c == call[p]
<1>1. c \in Call /\ Range(c.created) \subseteq SyncKey
  <2>1. c \in Call
    BY CallFacts
  <2>2. c.created \in Seq(SyncKey)
    BY <2>1 DEF Call
  <2>3. QED
    BY <2>1, <2>2 DEF Range
<1>2. /\ Goto(p, Idle) /\ budget' \in [Limits -> Nat] /\ refused' = refused
      /\ UNCHANGED <<balance, moved, stale, status, held, returned, outbox>>
      /\ queued' \subseteq SyncKey
  <2>1. budget \in [Limits -> Nat] /\ queued \subseteq SyncKey
    BY DEF IInv, TypeOK
  <2>2. CASE Enqueue(p)
    BY <1>1, <2>1, <2>2 DEF Enqueue, stock, orders
  <2>3. CASE Interrupt(p)
    BY <1>1, <2>1, <2>3, SpendType DEF Interrupt, Limits, IInv, stock, orders
  <2>4. CASE DeadlockVictim(p)
    BY <2>1, <2>4 DEF DeadlockVictim, Unchanged, stock, orders, jobs
  <2>5. QED
    BY <2>2, <2>3, <2>4
<1>3. call'[p] = Idle /\ \A q \in Slots \ {p} : call'[q] = call[q]
  BY <1>2 DEF Goto, IInv, TypeOK
<1>4. TypeOK'
  BY <1>2, IdleCall DEF Goto, IInv, TypeOK
<1>5. CallsShaped'
  BY <1>3, IdleCall DEF IInv, CallsShaped, Shape
<1>6. OrdersKnown'
  BY <1>2, <1>3, IdleCall DEF IInv, OrdersKnown, OrderFacts
<1>7. OneInserter'
  <2>1. Idle.op # "create"
    BY DEF Idle
  <2>2. QED
    BY <1>3, <2>1 DEF IInv, OneInserter, Inserting
<1>8. RowsSound' /\ ReservationFollowsOrder'
  BY <1>2 DEF IInv, RowsSound, ReservationFollowsOrder, Sound
<1>9. QED
  BY <1>4, <1>5, <1>6, <1>7, <1>8 DEF IInv

-----------------------------------------------------------------------------
(* The invariant of the specification.                                     *)

LEMMA OpenedRow ==
  ASSUME NEW r \in Rows
  PROVE  /\ Opened(r) \in Balance \cup {None}
         /\ Opened(r) # None => Sound(Opened(r))
<1>1. InitialStock[r] \in Nat \cup {None} /\ SkuBuffer[r] \in Nat
  BY OmsAssumption DEF OmsAssumption
<1>2. CASE InitialStock[r] = None
  BY <1>2 DEF Opened
<1>3. CASE InitialStock[r] \in Nat /\ InitialStock[r] # None
  BY <1>1, <1>3 DEF Opened, Balance, Sound, Sellable
<1>4. QED
  BY <1>1, <1>2, <1>3

LEMMA InitIInv == Init => IInv
<1> SUFFICES ASSUME Init PROVE IInv
  OBVIOUS
<1>1. \A p \in Slots : call[p] = Idle
  BY DEF Init
<1>2. TypeOK
  BY OpenedRow, IdleCall, OmsAssumption DEF Init, TypeOK, OmsAssumption, Nothing, Sum
<1>3. CallsShaped
  BY <1>1, IdleCall DEF CallsShaped
<1>4. OrdersKnown
  BY <1>1, IdleCall DEF OrdersKnown
<1>5. OneInserter
  BY <1>1 DEF OneInserter, Inserting, Idle
<1>6. RowsSound
  BY OpenedRow DEF Init, RowsSound
<1>7. ReservationFollowsOrder
  BY DEF Init, ReservationFollowsOrder
<1>8. QED
  BY <1>2, <1>3, <1>4, <1>5, <1>6, <1>7 DEF IInv

LEMMA NextIInv == IInv /\ [Next]_vars => IInv'
<1> SUFFICES ASSUME IInv, [Next]_vars PROVE IInv'
  OBVIOUS
<1>1. CASE UNCHANGED vars
  <2>1. UNCHANGED <<balance, moved, stale, status, held, returned, outbox, queued,
                    call, budget, refused>>
    BY <1>1 DEF vars, stock, orders, jobs
  <2>2. TypeOK' /\ CallsShaped' /\ OrdersKnown' /\ OneInserter'
    BY <2>1 DEF IInv, TypeOK, CallsShaped, Shape, OrdersKnown, OrderFacts,
                OneInserter, Inserting
  <2>3. RowsSound' /\ ReservationFollowsOrder'
    BY <2>1 DEF IInv, RowsSound, Sound, ReservationFollowsOrder
  <2>4. QED
    BY <2>2, <2>3 DEF IInv
<1>2. ASSUME NEW p \in Slots, Step(p)
      PROVE  IInv'
  BY <1>2, BeforeTransaction, CheckOrRead, WriteStep, CommitStep, AfterCommit DEF Step
<1>3. ASSUME NEW p \in Slots, Request(p) \/ Interrupt(p) \/ DeadlockVictim(p)
      PROVE  IInv'
  BY <1>3, RequestStep, AfterCommit
<1>4. QED
  BY <1>1, <1>2, <1>3 DEF Next

-----------------------------------------------------------------------------
(* The books: ledger, outbox, buffer and returns.                          *)
(*                                                                         *)
(* Only one transaction at a time has written a row, and nobody else       *)
(* changes the row until that transaction ends.  A row that it wrote from  *)
(* current data (Clean) therefore is what the committed row and the        *)
(* transaction's own ledger entries, outbox rows and checks say.           *)

Wrote(c, r) == c.written[r] # None
Clean(c, r) == Wrote(c, r) /\ r \notin stale /\ r \notin c.tainted
LineRows(o) == {Lines[o][i].row : i \in DOMAIN Lines[o]}

\* What balance b says when the deltas d are added to row r's ledger.
Tallied(b, r, d) ==
  /\ PhysicalOf(b) = InitialUnits(r) + moved[r].physical + d.physical
  /\ ReservedOf(b) = moved[r].reserved + d.reserved

\* The newest sync job of row r in s carries now; without one, nothing changed.
Carries(s, r, before, now) ==
  \/ (\A i \in DOMAIN s : s[i].row # r) /\ now = before
  \/ \E j \in DOMAIN s : /\ s[j].row = r /\ s[j].target = now
                         /\ \A i \in DOMAIN s : s[i].row = r => i <= j

Explained(c) ==
  \A r \in Rows : /\ ~Wrote(c, r) => c.deltas[r] = Nothing
                  /\ Clean(c, r) => Tallied(c.written[r], r, c.deltas[r])

Told(c) ==
  c.pc # "enqueue" =>
    \A r \in Rows :
      /\ ~Wrote(c, r) => \A i \in DOMAIN c.created : c.created[i].row # r
      /\ Clean(c, r) => Carries(c.created, r, SellableOf(balance[r]),
                                SellableOf(c.written[r]))

\* A create has checked what it is about to reserve, every other call reserves
\* no more than there was.
Reserving(c) ==
  /\ c.op # "adjust" => c.buffer = None
  /\ c.op = "create" /\ c.pc \in {"read", "write"} =>
       /\ c.checked # None /\ Sound(c.checked)
       /\ c.checked.sellable >= Movement(c).reserved
  /\ \A r \in Rows : Clean(c, r) =>
       IF c.op = "create"
       THEN c.written[r].physical - c.written[r].reserved >= c.written[r].buffer
       ELSE c.written[r].reserved <= ReservedOf(balance[r])

\* A transaction on an order writes the rows of its lines in their order.
Progress(c) ==
  /\ c.pc = "lines" => ~c.active
  /\ c.op \in Changes /\ c.pc # "enqueue" =>
       /\ \A r \in Rows : Wrote(c, r) => r \in LineRows(c.order)
       /\ c.pc # "commit" => \A i \in 1..(c.line - 1) : Wrote(c, Lines[c.order][i].row)
       /\ c.pc = "commit" /\ (c.op = "cancel" => c.active) =>
            \A r \in LineRows(c.order) : Wrote(c, r)

\* What cancel, fulfill and createReturn have read of their order is still so.
Ordered(c) ==
  /\ c.op \in {"cancel", "fulfill"} /\ c.pc # "enqueue" =>
       \A r \in Rows : Clean(c, r) => held[c.order] = "ACTIVE"
  /\ c.op = "createReturn" /\ c.pc # "enqueue" =>
       /\ c.row \in LineRows(c.order)
       /\ c.row \notin stale => held[c.order] = "FULFILLED"
       /\ c.pc # "sum" => c.sum + c.change <= LineQuantity(c.order, c.row)
       /\ c.pc = "commit" => Wrote(c, c.row)
       /\ Clean(c, c.row) => returned[c.order][c.row] = c.sum

Account(c) == Explained(c) /\ Told(c) /\ Reserving(c) /\ Progress(c) /\ Ordered(c)

WroteAlone == \A p, q \in Slots : \A r \in Rows :
                Wrote(call[p], r) /\ Wrote(call[q], r) => p = q

JobsCarry == \A r \in Rows \ stale :
               Carries(outbox, r, SellableOf(Opened(r)), SellableOf(balance[r]))

\* ReturnsBounded, and that only rows of the order's lines are returned.
ReturnsOfLines ==
  /\ ReturnsBounded
  /\ \A o \in Orders, r \in Rows : returned[o][r] # 0 => r \in LineRows(o)

Books == /\ WroteAlone /\ \A p \in Slots : Account(call[p])
         /\ LedgerExplainsBalance /\ JobsCarry /\ ReturnsOfLines

-----------------------------------------------------------------------------
(* Facts about sync jobs and lines.                                        *)

LEMMA CarriesNothing ==
  ASSUME NEW s, NEW r, NEW x, \A i \in DOMAIN s : s[i].row # r
  PROVE  Carries(s, r, x, x)
BY DEF Carries

LEMMA CarriesThrough ==
  ASSUME NEW s \in Seq(SyncKey), NEW t \in Seq(SyncKey), NEW r, NEW x, NEW y, NEW z,
         Carries(s, r, x, y), Carries(t, r, y, z)
  PROVE  Carries(s \o t, r, x, z)
<1> DEFINE u == s \o t
<1>1. /\ u \in Seq(SyncKey) /\ Len(u) = Len(s) + Len(t)
      /\ DOMAIN u = 1..Len(u) /\ DOMAIN s = 1..Len(s) /\ DOMAIN t = 1..Len(t)
      /\ \A i \in 1..Len(s) : u[i] = s[i]
      /\ \A i \in 1..Len(t) : u[Len(s) + i] = t[i]
      /\ Len(s) \in Nat /\ Len(t) \in Nat
  OBVIOUS
<1>2. \A i \in DOMAIN u : i \in DOMAIN s \/ (i - Len(s) \in DOMAIN t /\ u[i] = t[i - Len(s)])
  <2> SUFFICES ASSUME NEW i \in DOMAIN u, i \notin DOMAIN s
               PROVE  i - Len(s) \in DOMAIN t /\ u[i] = t[i - Len(s)]
    OBVIOUS
  <2>1. i - Len(s) \in 1..Len(t) /\ Len(s) + (i - Len(s)) = i
    BY <1>1
  <2>2. QED
    BY <1>1, <2>1
<1> HIDE DEF u
<1>3. CASE (\A i \in DOMAIN t : t[i].row # r) /\ z = y
  <2>1. CASE (\A i \in DOMAIN s : s[i].row # r) /\ y = x
    BY <1>1, <1>2, <1>3, <2>1 DEF Carries, u
  <2>2. ASSUME NEW j \in DOMAIN s, s[j].row = r, s[j].target = y,
               \A i \in DOMAIN s : s[i].row = r => i <= j
        PROVE  Carries(u, r, x, z)
    <3>1. j \in DOMAIN u /\ u[j].row = r /\ u[j].target = z
      BY <1>1, <1>3, <2>2
    <3>2. \A i \in DOMAIN u : u[i].row = r => i <= j
      BY <1>1, <1>2, <1>3, <2>2
    <3>3. QED
      BY <3>1, <3>2 DEF Carries
  <2>3. QED
    BY <2>1, <2>2 DEF Carries, u
<1>4. ASSUME NEW j \in DOMAIN t, t[j].row = r, t[j].target = z,
             \A i \in DOMAIN t : t[i].row = r => i <= j
      PROVE  Carries(u, r, x, z)
  <2> DEFINE k == Len(s) + j
  <2>1. k \in DOMAIN u /\ u[k].row = r /\ u[k].target = z
    BY <1>1, <1>4
  <2>2. \A i \in DOMAIN u : u[i].row = r => i <= k
    <3> SUFFICES ASSUME NEW i \in DOMAIN u, u[i].row = r  PROVE i <= k
      OBVIOUS
    <3>1. CASE i \in DOMAIN s
      BY <1>1, <3>1
    <3>2. CASE i - Len(s) \in DOMAIN t /\ u[i] = t[i - Len(s)]
      <4>1. i - Len(s) <= j
        BY <1>4, <3>2
      <4>2. QED
        BY <1>1, <4>1
    <3>3. QED
      BY <1>2, <3>1, <3>2
  <2>3. QED
    BY <2>1, <2>2 DEF Carries
<1>5. QED
  BY <1>3, <1>4 DEF Carries, u

\* The outbox row of a movement, if its row's sellable quantity changed.
LEMMA NewJobsCarry ==
  ASSUME NEW c, NEW b, NEW target, NEW r
  PROVE  /\ r = RowOf(c) => Carries(NewJobs(c, b, target), r, SellableOf(b), target)
         /\ r # RowOf(c) => \A i \in DOMAIN NewJobs(c, b, target) :
                              NewJobs(c, b, target)[i].row # r
<1>1. CASE target = SellableOf(b)
  BY <1>1 DEF NewJobs, Carries
<1>2. CASE target # SellableOf(b)
  <2>1. NewJobs(c, b, target) = <<KeyOf(c, target)>>
    BY <1>2 DEF NewJobs
  <2>2. KeyOf(c, target).row = RowOf(c) /\ KeyOf(c, target).target = target
    BY DEF KeyOf
  <2>3. QED
    BY <2>1, <2>2 DEF Carries
<1>3. QED
  BY <1>1, <1>2

\* The first of an order's lines on a row has a quantity.
LEMMA LineQuantityType ==
  ASSUME NEW o \in Orders, NEW r \in LineRows(o)
  PROVE  LineQuantity(o, r) \in Nat
<1> DEFINE on == {i \in DOMAIN Lines[o] : Lines[o][i].row = r}
           first(i) == Lines[o][i].row = r /\ \A j \in 1..(i - 1) : Lines[o][j].row # r
<1>1. Lines[o] \in Seq(Line)
  BY OmsAssumption DEF OmsAssumption
<1>2. on \subseteq Nat /\ on # {} /\ DOMAIN Lines[o] = 1..Len(Lines[o])
      /\ Len(Lines[o]) \in Nat
  BY <1>1 DEF LineRows
<1>3. PICK i \in on : \A j \in on : ~(<<j, i>> \in OpToRel(<, Nat))
  BY <1>2, WFMin, NatLessThanWellFounded
<1>4. \A j \in on : ~(j < i)
  BY <1>2, <1>3 DEF OpToRel
<1>5. i \in DOMAIN Lines[o] /\ first(i)
  BY <1>2, <1>4
<1>6. LineQuantity(o, r) = Lines[o][CHOOSE n \in DOMAIN Lines[o] : first(n)].quantity
  BY DEF LineQuantity
<1>7. (CHOOSE n \in DOMAIN Lines[o] : first(n)) \in DOMAIN Lines[o]
  BY <1>5
<1>8. \A n \in DOMAIN Lines[o] : Lines[o][n].quantity \in Nat
  <2>1. \A n \in DOMAIN Lines[o] : Lines[o][n] \in Line
    BY <1>1
  <2>2. QED
    BY <2>1 DEF Line
<1>9. QED
  BY <1>6, <1>7, <1>8

LEMMA LineRow ==
  ASSUME NEW c \in Call, Shape(c), c.op \in Changes
  PROVE  RowOf(c) \in LineRows(c.order) /\ RowOf(c) = Lines[c.order][c.line].row
BY LineFacts DEF RowOf, LineRows, Shape

LEMMA IdleAccount == Account(Idle)
BY DEF Idle, Account, Explained, Told, Reserving, Progress, Ordered, Wrote, Clean, Changes

LEMMA NoneThrough ==
  ASSUME NEW s \in Seq(SyncKey), NEW t \in Seq(SyncKey), NEW r,
         \A i \in DOMAIN s : s[i].row # r, \A i \in DOMAIN t : t[i].row # r
  PROVE  \A i \in DOMAIN (s \o t) : (s \o t)[i].row # r
<1> SUFFICES ASSUME NEW i \in DOMAIN (s \o t)
             PROVE  (s \o t)[i].row # r
  OBVIOUS
<1>1. i \in 1..(Len(s) + Len(t)) /\ Len(s) \in Nat /\ Len(t) \in Nat
  OBVIOUS
<1>2. CASE i \in 1..Len(s)
  BY <1>1, <1>2
<1>3. CASE i \notin 1..Len(s)
  <2>1. i - Len(s) \in DOMAIN t /\ (s \o t)[i] = t[i - Len(s)]
    BY <1>1, <1>3
  <2>2. QED
    BY <2>1
<1>4. QED
  BY <1>2, <1>3

-----------------------------------------------------------------------------
(* Steps of a call that commit nothing.                                    *)

LEMMA QuietBooks ==
  ASSUME IInv, Books, NEW p \in Slots, NEW d, call' = [call EXCEPT ![p] = d],
         UNCHANGED <<balance, moved, stale, status, held, returned, outbox>>,
         Account(d),
         \A r \in Rows : Wrote(d, r) => \A q \in Slots \ {p} : ~Wrote(call[q], r)
  PROVE  Books'
<1>1. call'[p] = d /\ \A q \in Slots \ {p} : call'[q] = call[q]
  BY DEF IInv, TypeOK
<1>2. \A q \in Slots : Account(call'[q])
  BY <1>1 DEF Books
<1>3. ASSUME NEW q \in Slots  PROVE Account(call[q])'
  <2>1. Explained(call[q])'
    BY <1>2 DEF Account, Explained, Wrote, Clean, Tallied
  <2>2. Told(call[q])'
    BY <1>2 DEF Account, Told, Wrote, Clean, Carries
  <2>3. Reserving(call[q])'
    BY <1>2 DEF Account, Reserving, Clean, Wrote, Movement, Sound
  <2>4. Progress(call[q])'
    BY <1>2 DEF Account, Progress, Wrote
  <2>5. Ordered(call[q])'
    BY <1>2 DEF Account, Ordered, Clean, Wrote
  <2>6. QED
    BY <2>1, <2>2, <2>3, <2>4, <2>5 DEF Account
<1>4. WroteAlone'
  <2> SUFFICES ASSUME NEW q1 \in Slots, NEW q2 \in Slots, NEW r \in Rows,
                      Wrote(call'[q1], r), Wrote(call'[q2], r), q1 # q2
               PROVE  FALSE
    BY DEF WroteAlone, Wrote
  <2>1. CASE q1 # p /\ q2 # p
    BY <1>1, <2>1 DEF Books, WroteAlone
  <2>2. CASE q1 = p \/ q2 = p
    BY <1>1, <2>2
  <2>3. QED
    BY <2>1, <2>2
<1>5. LedgerExplainsBalance' /\ JobsCarry'
  BY DEF Books, LedgerExplainsBalance, JobsCarry, Carries
<1>6. ReturnsOfLines'
  BY DEF Books, ReturnsOfLines, ReturnsBounded
<1>7. QED
  BY <1>3, <1>4, <1>5, <1>6 DEF Books

LEMMA QuietIdleBooks ==
  ASSUME IInv, Books, NEW p \in Slots, Goto(p, Idle),
         UNCHANGED <<balance, moved, stale, status, held, returned, outbox>>
  PROVE  Books'
<1>1. \A r \in Rows : ~Wrote(Idle, r)
  BY DEF Wrote, Idle
<1>2. QED
  BY <1>1, IdleAccount, QuietBooks DEF Goto

\* A call that goes on and has written no more than before.
LEMMA SameWrites ==
  ASSUME IInv, Books, NEW p \in Slots, NEW d, Goto(p, d), Unchanged, Account(d),
         d.written = call[p].written
  PROVE  Books'
<1>1. \A r \in Rows : Wrote(d, r) => \A q \in Slots \ {p} : ~Wrote(call[q], r)
  BY DEF Wrote, Books, WroteAlone
<1>2. UNCHANGED <<balance, moved, stale, status, held, returned, outbox>>
  BY DEF Unchanged, stock, orders, jobs
<1>3. QED
  BY <1>1, <1>2, QuietBooks DEF Goto

\* A request that has just come in.
LEMMA FreshBooks ==
  ASSUME IInv, Books, NEW p \in Slots, NEW d, Goto(p, d), Unchanged, Account(d),
         d.written = [r \in Rows |-> None]
  PROVE  Books'
<1>1. \A r \in Rows : ~Wrote(d, r)
  BY DEF Wrote
<1>2. UNCHANGED <<balance, moved, stale, status, held, returned, outbox>>
  BY DEF Unchanged, stock, orders, jobs
<1>3. QED
  BY <1>1, <1>2, QuietBooks DEF Goto

LEMMA RequestBooks ==
  ASSUME IInv, Books, NEW p \in Slots, Request(p)
  PROVE  Books'
<1>1. ASSUME NEW o \in Orders, Create(p, o)  PROVE Books'
  <2> DEFINE d == [Idle EXCEPT !.op = "create", !.pc = "insert", !.order = o]
  <2>1. Account(d) /\ d.written = [r \in Rows |-> None]
    BY DEF Idle, Account, Explained, Told, Reserving, Progress, Ordered, Wrote, Clean, Changes
  <2>2. QED
    BY <1>1, <2>1, FreshBooks DEF Create
<1>2. ASSUME NEW o \in Orders, NEW op \in {"cancel", "fulfill"}, FindOrder(p, o, op)
      PROVE  Books'
  <2> DEFINE d == [Idle EXCEPT !.op = op, !.pc = "lines", !.order = o]
  <2>1. Account(d) /\ d.written = [r \in Rows |-> None]
    BY DEF Idle, Account, Explained, Told, Reserving, Progress, Ordered, Wrote, Clean, Changes
  <2>2. QED
    BY <1>2, <2>1, FreshBooks DEF FindOrder
<1>3. ASSUME NEW o \in Orders, NEW r \in Rows, NEW n \in ReturnQuantities,
             CreateReturn(p, o, r, n)
      PROVE  Books'
  <2> DEFINE d == [Idle EXCEPT !.op = "createReturn", !.pc = "sum", !.order = o,
                               !.row = r, !.change = n]
  <2>1. held[o] = "FULFILLED" /\ r \in LineRows(o)
    BY <1>3 DEF CreateReturn, IInv, ReservationFollowsOrder, LineRows
  <2>2. Account(d) /\ d.written = [k \in Rows |-> None]
    BY <2>1 DEF Idle, Account, Explained, Told, Reserving, Progress, Ordered, Wrote,
                Clean, Changes
  <2>3. QED
    BY <1>3, <2>2, FreshBooks DEF CreateReturn
<1>4. ASSUME NEW r \in Rows, NEW a \in Adjustments, Adjust(p, r, a)  PROVE Books'
  <2> DEFINE d == [Idle EXCEPT !.op = "adjust", !.pc = "read", !.row = r,
                               !.change = a.physical, !.buffer = a.buffer,
                               !.source = budget["adjust"]]
  <2>1. Account(d) /\ d.written = [k \in Rows |-> None]
    BY DEF Idle, Account, Explained, Told, Reserving, Progress, Ordered, Wrote, Clean, Changes
  <2>2. QED
    BY <1>4, <2>1, FreshBooks DEF Adjust
<1>5. QED
  BY <1>1, <1>2, <1>3, <1>4 DEF Request, Cancel, Fulfill

\* A step that moves a call's pc and perhaps what it has read: its writes and what
\* they are about stay.
LEMMA MovedAccount ==
  ASSUME IInv, Books, NEW p \in Slots, NEW d \in Call,
         d.op = call[p].op, d.order = call[p].order, d.row = call[p].row,
         d.line = call[p].line, d.change = call[p].change, d.buffer = call[p].buffer,
         d.written = call[p].written, d.deltas = call[p].deltas,
         d.created = call[p].created, d.tainted = call[p].tainted,
         call[p].pc # "enqueue", d.pc # "enqueue",
         Reserving(d), Progress(d), Ordered(d)
  PROVE  Account(d)
<1>1. Account(call[p])
  BY DEF Books
<1>2. Explained(d)
  BY <1>1 DEF Account, Explained, Wrote, Clean
<1>3. Told(d)
  BY <1>1 DEF Account, Told, Wrote, Clean
<1>4. QED
  BY <1>2, <1>3 DEF Account

LEMMA BeforeTransactionBooks ==
  ASSUME IInv, Books, NEW p \in Slots, ReadLines(p) \/ SumReturns(p) \/ Insert(p)
  PROVE  Books'
<1> DEFINE c == call[p]
<1>1. c \in Call /\ Shape(c) /\ Account(c)
  BY CallFacts DEF Books
<1>2. Unchanged /\ UNCHANGED <<balance, moved, stale, status, held, returned, outbox>>
  BY DEF ReadLines, SumReturns, Insert, Unchanged, stock, orders, jobs
<1>3. CASE ReadLines(p)
  <2>1. c.pc = "lines" /\ c.op \in {"cancel", "fulfill"}
    BY <1>1, <1>3 DEF ReadLines, Shape
  <2> DEFINE d == [c EXCEPT !.pc = "read", !.active = TRUE]
             e == [c EXCEPT !.pc = "commit"]
  <2>2. d \in Call /\ e \in Call
    BY <1>1 DEF Call, PCs
  <2>3. Reserving(d) /\ Progress(d) /\ Ordered(d)
    BY <1>1, <2>1 DEF Call, Account, Reserving, Progress, Ordered, Wrote, Clean, Changes
  <2>4. c.op = "cancel" => Reserving(e) /\ Progress(e) /\ Ordered(e)
    BY <1>1, <2>1 DEF Call, Account, Reserving, Progress, Ordered, Wrote, Clean, Changes
  <2>5. Account(d) /\ d.written = c.written
    BY <1>1, <2>1, <2>2, <2>3, MovedAccount DEF Call
  <2>6. c.op = "cancel" => Account(e) /\ e.written = c.written
    BY <1>1, <2>1, <2>2, <2>4, MovedAccount DEF Call
  <2>7. Goto(p, d) \/ (c.op = "cancel" /\ Goto(p, e)) \/ Goto(p, Idle)
    BY <1>3 DEF ReadLines
  <2> HIDE DEF d, e
  <2>8. QED
    BY <1>2, <2>5, <2>6, <2>7, SameWrites, QuietIdleBooks
<1>4. CASE SumReturns(p)
  <2>1. c.pc = "sum" /\ c.op = "createReturn" /\ c.order \in Orders /\ c.row \in Rows
    BY <1>1, <1>4 DEF SumReturns, Shape
  <2> DEFINE sum == returned[c.order][c.row]
             d   == [c EXCEPT !.pc = "read", !.sum = sum]
  <2>2. sum \in Int /\ c.change \in Int /\ LineQuantity(c.order, c.row) \in Nat
    BY <1>1, <2>1, LineQuantityType DEF IInv, TypeOK, Call, Account, Ordered
  <2>3. CASE sum + c.change > LineQuantity(c.order, c.row)
    BY <1>2, <1>4, <2>3, QuietIdleBooks DEF SumReturns
  <2>4. CASE ~(sum + c.change > LineQuantity(c.order, c.row))
    <3>1. Goto(p, d)
      BY <1>4, <2>4 DEF SumReturns
    <3>2. sum + c.change <= LineQuantity(c.order, c.row)
      BY <2>2, <2>4
    <3> HIDE DEF sum
    <3>3. /\ d \in Call /\ d.op = c.op /\ d.order = c.order /\ d.row = c.row
          /\ d.line = c.line /\ d.change = c.change /\ d.buffer = c.buffer
          /\ d.written = c.written /\ d.deltas = c.deltas /\ d.created = c.created
          /\ d.tainted = c.tainted /\ d.pc = "read" /\ d.sum = sum
      BY <1>1, <2>2 DEF Call, PCs
    <3> HIDE DEF d
    <3>4. Reserving(d) /\ Progress(d)
      BY <1>1, <2>1, <3>3 DEF Account, Reserving, Progress, Wrote, Clean, Changes
    <3>5. Ordered(d)
      BY <1>1, <2>1, <3>2, <3>3 DEF Account, Ordered, Wrote, Clean, sum
    <3>6. QED
      BY <1>2, <2>1, <3>1, <3>3, <3>4, <3>5, MovedAccount, SameWrites
  <2>5. QED
    BY <2>3, <2>4
<1>5. CASE Insert(p)
  <2>1. c.pc = "insert" /\ c.op = "create"
    BY <1>1, <1>5 DEF Insert, Shape
  <2> DEFINE d == [c EXCEPT !.pc = "check"]
  <2>2. d \in Call /\ Reserving(d) /\ Progress(d) /\ Ordered(d)
    BY <1>1, <2>1 DEF Call, PCs, Account, Reserving, Progress, Ordered, Wrote, Clean, Changes
  <2>3. Account(d) /\ d.written = c.written
    BY <1>1, <2>1, <2>2, MovedAccount DEF Call
  <2>4. Goto(p, d) \/ Goto(p, Idle)
    BY <1>5 DEF Insert
  <2> HIDE DEF d
  <2>5. QED
    BY <1>2, <2>3, <2>4, SameWrites, QuietIdleBooks
<1>6. QED
  BY <1>3, <1>4, <1>5

LEMMA CheckOrReadBooks ==
  ASSUME IInv, Books, NEW p \in Slots, Check(p) \/ Read(p)
  PROVE  Books'
<1> DEFINE c == call[p]
           b == Visible(p, RowOf(c))
<1>1. c \in Call /\ Shape(c) /\ Account(c) /\ c.op # "none"
  BY CallFacts DEF Books, Shape, Check, Read
<1>2. Unchanged /\ UNCHANGED <<balance, moved, stale, status, held, returned, outbox>>
  BY DEF Check, Read, Unchanged, stock, orders, jobs
<1>3. b \in Balance \cup {None} /\ (b # None => Sound(b))
  BY <1>1, RowOfCall, VisibleRow DEF IInv
<1>4. CASE Check(p)
  <2> DEFINE d == [c EXCEPT !.pc = "read", !.checked = b]
  <2>1. c.pc = "check" /\ c.op = "create"
    BY <1>1, <1>4 DEF Check, Shape
  <2>2. CASE b # None /\ b.sellable >= Movement(c).reserved
    <3>1. Goto(p, d)
      BY <1>4, <2>2 DEF Check
    <3> HIDE DEF b
    <3>2. /\ d \in Call /\ d.op = c.op /\ d.order = c.order /\ d.row = c.row
          /\ d.line = c.line /\ d.change = c.change /\ d.buffer = c.buffer
          /\ d.written = c.written /\ d.deltas = c.deltas /\ d.created = c.created
          /\ d.tainted = c.tainted /\ d.pc = "read" /\ d.checked = b
      BY <1>1, <1>3 DEF Call, PCs
    <3> HIDE DEF d
    <3>3. Movement(d) = Movement(c)
      BY <3>2 DEF Movement
    <3>4. Reserving(d)
      BY <1>1, <1>3, <2>2, <3>2, <3>3 DEF Account, Reserving, Clean, Wrote
    <3>5. Progress(d) /\ Ordered(d)
      BY <1>1, <2>1, <3>2 DEF Account, Progress, Ordered, Wrote, Clean
    <3>6. QED
      BY <1>2, <2>1, <3>1, <3>2, <3>4, <3>5, MovedAccount, SameWrites
  <2>3. CASE ~(b # None /\ b.sellable >= Movement(c).reserved)
    BY <1>2, <1>4, <2>3, QuietIdleBooks DEF Check
  <2>4. QED
    BY <2>2, <2>3
<1>5. CASE Read(p)
  <2> DEFINE k == IF c.op = "create" THEN c.checked ELSE b
             d == [c EXCEPT !.pc = "write", !.seen = b, !.checked = k]
  <2>1. c.pc = "read"
    BY <1>5 DEF Read
  <2>2. Goto(p, d) \/ Goto(p, Idle)
    BY <1>5 DEF Read
  <2>3. k \in Balance \cup {None} /\ (c.op = "create" => k = c.checked)
    BY <1>1, <1>3 DEF Call
  <2> HIDE DEF k, b
  <2>4. /\ d \in Call /\ d.op = c.op /\ d.order = c.order /\ d.row = c.row
        /\ d.line = c.line /\ d.change = c.change /\ d.buffer = c.buffer
        /\ d.written = c.written /\ d.deltas = c.deltas /\ d.created = c.created
        /\ d.tainted = c.tainted /\ d.pc = "write" /\ d.checked = k
        /\ d.sum = c.sum /\ d.active = c.active
    BY <1>1, <1>3, <2>3 DEF Call, PCs
  <2> HIDE DEF d
  <2>5. Movement(d) = Movement(c)
    BY <2>4 DEF Movement
  <2>6. Reserving(d)
    BY <1>1, <2>1, <2>3, <2>4, <2>5 DEF Account, Reserving, Clean, Wrote
  <2>7. Progress(d) /\ Ordered(d)
    BY <1>1, <2>1, <2>4 DEF Account, Progress, Ordered, Wrote, Clean
  <2>8. Account(d)
    BY <2>1, <2>4, <2>6, <2>7, MovedAccount
  <2>9. QED
    BY <1>2, <2>2, <2>4, <2>8, SameWrites, QuietIdleBooks
<1>6. QED
  BY <1>4, <1>5

\* What a call that writes from current data has read: the row as the ledger, the
\* outbox and the call's own entries have it.
LEMMA SeenCurrent ==
  ASSUME IInv, Books, NEW p \in Slots, call[p].pc = "write", ~Outdated(p),
         RowOf(call[p]) \notin stale, RowOf(call[p]) \notin call[p].tainted
  PROVE  LET c == call[p]
             r == RowOf(c)
         IN  /\ c.seen = Visible(p, r) /\ c.checked = Visible(p, r)
             /\ Tallied(c.seen, r, c.deltas[r])
             /\ Carries(c.created, r, SellableOf(balance[r]), SellableOf(c.seen))
             /\ c.op # "create" => ReservedOf(c.seen) <= ReservedOf(balance[r])
<1> DEFINE c == call[p]
           r == RowOf(c)
<1>1. c \in Call /\ Shape(c) /\ Account(c) /\ r \in Rows /\ r \notin stale /\ r \notin c.tainted
  BY CallFacts, RowOfCall DEF Books, Shape
<1>2. {c.checked, c.seen} = {Visible(p, r)}
  BY DEF Outdated
<1>3. c.seen = Visible(p, r) /\ c.checked = Visible(p, r)
  BY <1>2
<1>4. CASE Wrote(c, r)
  <2>1. Clean(c, r) /\ c.seen = c.written[r]
    BY <1>1, <1>3, <1>4 DEF Clean, Wrote, Visible
  <2>2. ReservedOf(c.written[r]) = c.written[r].reserved
    BY <1>4 DEF ReservedOf, Wrote
  <2>3. QED
    BY <1>1, <1>3, <2>1, <2>2 DEF Account, Explained, Told, Reserving
<1>5. CASE ~Wrote(c, r)
  <2>1. c.seen = balance[r] /\ c.deltas[r] = Nothing
    BY <1>1, <1>3, <1>5 DEF Visible, Wrote, Account, Explained
  <2>2. balance[r] \in Balance \cup {None} /\ moved[r] \in Sum
    BY <1>1 DEF IInv, TypeOK
  <2>3. moved[r].physical \in Int /\ moved[r].reserved \in Int /\ InitialUnits(r) \in Int
    BY <1>1, <2>2, OmsAssumption DEF Sum, InitialUnits, OmsAssumption
  <2>4. Tallied(c.seen, r, c.deltas[r])
    BY <1>1, <2>1, <2>3 DEF Tallied, Nothing, Books, LedgerExplainsBalance
  <2>5. Carries(c.created, r, SellableOf(balance[r]), SellableOf(c.seen))
    BY <1>1, <1>5, <2>1, CarriesNothing DEF Account, Told
  <2>6. ReservedOf(c.seen) <= ReservedOf(balance[r])
    BY <1>1, <2>1, <2>2 DEF ReservedOf, Balance
  <2>7. QED
    BY <1>3, <2>4, <2>5, <2>6
<1>6. QED
  BY <1>4, <1>5

\* What a movement makes of the row it was computed from.
LEMMA AfterMovement ==
  ASSUME NEW s \in Balance \cup {None}, NEW mv \in Sum, NEW r \in Rows,
         NEW buffer \in Nat \cup {None}, After(s, mv, r, buffer) \in Balance
  PROVE  LET b == After(s, mv, r, buffer)
         IN  /\ PhysicalOf(b) = PhysicalOf(s) + mv.physical /\ PhysicalOf(b) = b.physical
             /\ ReservedOf(b) = ReservedOf(s) + mv.reserved /\ ReservedOf(b) = b.reserved
             /\ SellableOf(b) = b.sellable /\ b # None
             /\ buffer = None /\ s # None => b.buffer = s.buffer
<1>1. None \notin Balance
  BY OmsAssumption DEF OmsAssumption
<1>2. QED
  BY <1>1 DEF After, PhysicalOf, ReservedOf, SellableOf

LEMMA WriteBooks ==
  ASSUME IInv, Books, NEW p \in Slots, Write(p)
  PROVE  Books'
<1> DEFINE c   == call[p]
           r   == RowOf(c)
           mv  == Movement(c)
           b   == After(c.seen, mv, r, c.buffer)
           new == NewJobs(c, c.seen, b.sellable)
           d   == Written(p, c, r, b, new)
<1>1. c \in Call /\ Shape(c) /\ Account(c) /\ c.pc = "write" /\ c.op # "none"
  BY CallFacts DEF Write, Shape, Books
<1>2. Unchanged /\ UNCHANGED <<balance, moved, stale, status, held, returned, outbox>>
  BY DEF Write, Unchanged, stock, orders, jobs
<1>3. r \in Rows /\ mv \in Sum /\ c.seen \in Balance \cup {None} /\ c.buffer \in Nat \cup {None}
  BY <1>1, RowOfCall, MovementOfCall DEF Call
<1>4. b \in Balance /\ Sound(b)
  <2>1. Allowed(After(c.seen, Movement(c), r, c.buffer))
    BY <1>1 DEF Shape
  <2>2. QED
    BY <1>3, <2>1, AllowedAfter
<1>5. new \in Seq(SyncKey) /\ c.created \in Seq(SyncKey)
  BY <1>1, <1>3, <1>4, KeyType DEF Call, Balance
<1>6. (Goto(p, Idle) \/ Goto(p, d)) /\ ~Locked(p, r)
  BY DEF Write
<1>7. CASE Goto(p, Idle)
  BY <1>2, <1>7, QuietIdleBooks
<1>8. CASE Goto(p, d)
  <2>1. /\ PhysicalOf(b) = PhysicalOf(c.seen) + mv.physical /\ PhysicalOf(b) = b.physical
        /\ ReservedOf(b) = ReservedOf(c.seen) + mv.reserved /\ ReservedOf(b) = b.reserved
        /\ SellableOf(b) = b.sellable /\ b # None
        /\ c.buffer = None /\ c.seen # None => b.buffer = c.seen.buffer
    BY <1>3, <1>4, AfterMovement
  <2>2. /\ Carries(new, r, SellableOf(c.seen), SellableOf(b))
        /\ \A k \in Rows \ {r} : \A i \in DOMAIN new : new[i].row # k
    BY <2>1, NewJobsCarry
  <2>4. c.deltas \in [Rows -> Sum] /\ moved \in [Rows -> Sum] /\ InitialUnits(r) \in Int
    BY <1>1, <1>3, OmsAssumption DEF Call, IInv, TypeOK, InitialUnits, OmsAssumption
  <2> HIDE DEF b, new, mv
  <2>15. /\ d.op = c.op /\ d.order = c.order /\ d.row = c.row /\ d.change = c.change
         /\ d.buffer = c.buffer /\ d.sum = c.sum /\ d.active = c.active
         /\ d.pc = IF ~MoreLines(c) THEN "commit"
                   ELSE IF c.op = "create" THEN "check" ELSE "read"
         /\ d.line = IF MoreLines(c) THEN c.line + 1 ELSE 1
         /\ d.written[r] = b /\ \A k \in Rows \ {r} : d.written[k] = c.written[k]
         /\ d.deltas[r] = [physical |-> c.deltas[r].physical + Movement(c).physical,
                           reserved |-> c.deltas[r].reserved + Movement(c).reserved]
         /\ \A k \in Rows \ {r} : d.deltas[k] = c.deltas[k]
         /\ d.created = c.created \o new
         /\ d.tainted = IF Outdated(p) THEN c.tainted \cup {r} ELSE c.tainted
    <3>1. d = Written(p, c, r, b, new) /\ c \in Call /\ r \in Rows /\ b \in Balance
      BY <1>1, <1>3, <1>4
    <3> HIDE DEF c, d, r
    <3>2. QED
      BY <3>1 DEF Written, Call
  <2> HIDE DEF d
  <2>3. r \notin stale /\ r \notin d.tainted =>
          /\ c.seen = Visible(p, r) /\ c.checked = Visible(p, r)
          /\ Tallied(c.seen, r, c.deltas[r])
          /\ Carries(c.created, r, SellableOf(balance[r]), SellableOf(c.seen))
          /\ c.op # "create" => ReservedOf(c.seen) <= ReservedOf(balance[r])
          /\ ~Outdated(p)
    <3> SUFFICES ASSUME r \notin stale, r \notin d.tainted
                 PROVE  /\ c.seen = Visible(p, r) /\ c.checked = Visible(p, r)
                        /\ Tallied(c.seen, r, c.deltas[r])
                        /\ Carries(c.created, r, SellableOf(balance[r]), SellableOf(c.seen))
                        /\ c.op # "create" => ReservedOf(c.seen) <= ReservedOf(balance[r])
                        /\ ~Outdated(p)
      OBVIOUS
    <3>1. ~Outdated(p) /\ r \notin c.tainted
      BY <2>15
    <3>2. QED
      BY <1>1, <3>1, SeenCurrent
  <2>16. /\ ~MoreLines(c) => d.pc = "commit"
         /\ MoreLines(c) => d.pc \in {"check", "read"} /\ d.line = c.line + 1
         /\ d.op = "create" => d.pc \notin {"read", "write"}
         /\ d.pc \in {"check", "read", "commit"}
    BY <2>15
  <2>5. /\ d.op = c.op /\ d.order = c.order /\ d.row = c.row /\ d.change = c.change
        /\ d.buffer = c.buffer /\ d.sum = c.sum /\ d.active = c.active
        /\ d.written[r] = b /\ \A k \in Rows \ {r} : d.written[k] = c.written[k]
        /\ d.deltas[r] = [physical |-> c.deltas[r].physical + mv.physical,
                          reserved |-> c.deltas[r].reserved + mv.reserved]
        /\ \A k \in Rows \ {r} : d.deltas[k] = c.deltas[k]
        /\ d.created = c.created \o new
        /\ r \in Rows /\ \A k \in Rows \ {r} : k \in d.tainted <=> k \in c.tainted
    BY <1>3, <2>15 DEF mv
  <2>6. \A k \in Rows \ {r} : /\ Wrote(d, k) <=> Wrote(c, k)
                              /\ Clean(d, k) <=> Clean(c, k)
    BY <2>5 DEF Wrote, Clean
  <2>7. Wrote(d, r) /\ (Clean(d, r) => r \notin stale /\ r \notin d.tainted)
    BY <2>1, <2>5 DEF Wrote, Clean
  <2>8. Explained(d)
    <3>1. Clean(d, r) => Tallied(d.written[r], r, d.deltas[r])
      <4> SUFFICES ASSUME Clean(d, r)  PROVE Tallied(d.written[r], r, d.deltas[r])
        OBVIOUS
      <4>1. Tallied(c.seen, r, c.deltas[r])
        BY <2>3, <2>7
      <4>2. /\ c.deltas[r].physical \in Int /\ c.deltas[r].reserved \in Int
            /\ moved[r].physical \in Int /\ moved[r].reserved \in Int
            /\ mv.physical \in Int /\ mv.reserved \in Int
        BY <1>3, <2>4 DEF Sum, mv
      <4>3. QED
        BY <2>1, <2>4, <2>5, <4>1, <4>2 DEF Tallied
    <3>2. \A k \in Rows \ {r} : /\ ~Wrote(d, k) => d.deltas[k] = Nothing
                                /\ Clean(d, k) => Tallied(d.written[k], k, d.deltas[k])
      BY <1>1, <2>5, <2>6 DEF Account, Explained
    <3>3. QED
      BY <2>7, <3>1, <3>2 DEF Explained
  <2>9. Told(d)
    <3>1. Clean(d, r) => Carries(d.created, r, SellableOf(balance[r]), SellableOf(d.written[r]))
      BY <1>5, <2>2, <2>3, <2>5, <2>7, CarriesThrough
    <3>2. ASSUME NEW k \in Rows \ {r}
          PROVE  /\ ~Wrote(d, k) => \A i \in DOMAIN d.created : d.created[i].row # k
                 /\ Clean(d, k) => Carries(d.created, k, SellableOf(balance[k]),
                                           SellableOf(d.written[k]))
      <4>1. \A i \in DOMAIN new : new[i].row # k
        BY <2>2
      <4>2. /\ ~Wrote(c, k) => \A i \in DOMAIN c.created : c.created[i].row # k
            /\ Clean(c, k) => Carries(c.created, k, SellableOf(balance[k]),
                                      SellableOf(c.written[k]))
        BY <1>1 DEF Account, Told
      <4>3. ~Wrote(d, k) => \A i \in DOMAIN d.created : d.created[i].row # k
        <5> SUFFICES ASSUME ~Wrote(d, k)
                     PROVE  \A i \in DOMAIN d.created : d.created[i].row # k
          OBVIOUS
        <5>1. \A i \in DOMAIN c.created : c.created[i].row # k
          BY <2>6, <4>2
        <5>2. \A i \in DOMAIN (c.created \o new) : (c.created \o new)[i].row # k
          BY <1>5, <4>1, <5>1, NoneThrough
        <5>3. QED
          BY <2>5, <5>2
      <4>4. Carries(new, k, SellableOf(c.written[k]), SellableOf(c.written[k]))
        BY <4>1, CarriesNothing
      <4>5. Clean(d, k) => Carries(d.created, k, SellableOf(balance[k]),
                                   SellableOf(d.written[k]))
        BY <1>5, <2>5, <2>6, <4>2, <4>4, CarriesThrough
      <4>6. QED
        BY <4>3, <4>5
    <3>3. QED
      BY <2>7, <3>1, <3>2 DEF Told
  <2>10. Reserving(d)
    <3>1. ASSUME Clean(d, r)
          PROVE  IF d.op = "create"
                 THEN d.written[r].physical - d.written[r].reserved >= d.written[r].buffer
                 ELSE d.written[r].reserved <= ReservedOf(balance[r])
      <4>1. /\ c.seen = c.checked
            /\ c.op # "create" => ReservedOf(c.seen) <= ReservedOf(balance[r])
        BY <2>3, <2>7, <3>1
      <4>2. CASE c.op = "create"
        <5>1. /\ c.seen # None /\ Sound(c.seen) /\ c.seen.sellable >= mv.reserved
              /\ c.buffer = None
          BY <1>1, <4>1, <4>2 DEF Account, Reserving, mv
        <5>2. c.seen \in Balance /\ mv.physical = 0 /\ mv.reserved \in Nat /\ mv.reserved > 0
          BY <1>1, <1>3, <4>2, <5>1, LineFacts DEF Movement, Line, Changes, mv
        <5>3. /\ b.physical = c.seen.physical /\ b.reserved = c.seen.reserved + mv.reserved
              /\ b.buffer = c.seen.buffer
          BY <2>1, <5>1, <5>2 DEF PhysicalOf, ReservedOf, Balance
        <5>4. c.seen.physical - c.seen.reserved - c.seen.buffer >= mv.reserved
          BY <5>1, <5>2 DEF Sound, Sellable, Balance
        <5>5. b.physical - b.reserved >= b.buffer
          BY <5>2, <5>3, <5>4 DEF Balance
        <5>6. QED
          BY <2>5, <4>2, <5>5
      <4>3. CASE c.op # "create"
        <5>1. mv.reserved \in Int /\ mv.reserved <= 0
          <6>1. CASE c.op \in Changes
            <7>1. c.op \in {"cancel", "fulfill"}
              BY <4>3, <6>1 DEF Changes
            <7>2. Lines[c.order][c.line] \in Line
              BY <1>1, <6>1, LineFacts
            <7>3. Lines[c.order][c.line].quantity \in Nat
              BY <7>2 DEF Line
            <7>4. mv.reserved = -Lines[c.order][c.line].quantity
              BY <6>1, <7>1 DEF Movement, mv
            <7>5. QED
              BY <7>3, <7>4
          <6>2. CASE c.op \notin Changes
            BY <6>2 DEF Movement, Changes, mv
          <6>3. QED
            BY <6>1, <6>2
        <5>2. ReservedOf(c.seen) \in Int /\ ReservedOf(balance[r]) \in Int
          BY <1>3 DEF ReservedOf, Balance, IInv, TypeOK
        <5>3. b.reserved <= ReservedOf(balance[r])
          BY <2>1, <4>1, <4>3, <5>1, <5>2
        <5>4. QED
          BY <2>5, <4>3, <5>3
      <4>4. QED
        BY <4>2, <4>3
    <3>2. \A k \in Rows \ {r} : Clean(d, k) =>
            IF d.op = "create"
            THEN d.written[k].physical - d.written[k].reserved >= d.written[k].buffer
            ELSE d.written[k].reserved <= ReservedOf(balance[k])
      BY <1>1, <2>5, <2>6 DEF Account, Reserving
    <3>3. d.op # "adjust" => d.buffer = None
      BY <1>1, <2>5 DEF Account, Reserving
    <3>4. d.op = "create" => d.pc \notin {"read", "write"}
      BY <2>16
    <3>5. QED
      BY <3>1, <3>2, <3>3, <3>4 DEF Reserving
  <2>11. Progress(d)
    <3>1. CASE c.op \notin Changes
      BY <2>5, <2>16, <3>1 DEF Progress
    <3>2. CASE c.op \in Changes
      <4>1. /\ r \in LineRows(c.order) /\ r = Lines[c.order][c.line].row
            /\ c.line \in 1..Len(Lines[c.order]) /\ Len(Lines[c.order]) \in Nat
            /\ DOMAIN Lines[c.order] = 1..Len(Lines[c.order])
            /\ Lines[c.order] \in Seq(Line)
        BY <1>1, <3>2, LineRow, LineFacts
      <4>2. /\ \A k \in Rows : Wrote(c, k) => k \in LineRows(c.order)
            /\ \A i \in 1..(c.line - 1) : Wrote(c, Lines[c.order][i].row)
        BY <1>1, <3>2 DEF Account, Progress
      <4>3. \A k \in Rows : Wrote(d, k) => k \in LineRows(d.order)
        BY <2>5, <2>6, <4>1, <4>2
      <4>4. \A i \in 1..c.line : Wrote(d, Lines[c.order][i].row)
        <5> SUFFICES ASSUME NEW i \in 1..c.line  PROVE Wrote(d, Lines[c.order][i].row)
          OBVIOUS
        <5>1. i \in 1..Len(Lines[c.order])
          BY <4>1
        <5>2. Lines[c.order][i] \in Line
          BY <4>1, <5>1
        <5>3. Lines[c.order][i].row \in Rows
          BY <5>2 DEF Line
        <5>4. CASE i = c.line
          BY <2>7, <4>1, <5>4
        <5>5. CASE i # c.line
          BY <2>6, <2>7, <4>1, <4>2, <5>3, <5>5
        <5>6. QED
          BY <5>4, <5>5
      <4>5. CASE MoreLines(c)
        <5>1. d.line = c.line + 1 /\ d.pc \in {"check", "read"} /\ d.line - 1 = c.line
          BY <2>16, <4>1, <4>5
        <5>2. QED
          BY <2>5, <4>3, <4>4, <5>1 DEF Progress
      <4>6. CASE ~MoreLines(c)
        <5>1. c.line = Len(Lines[c.order]) /\ d.pc = "commit"
          BY <2>16, <3>2, <4>1, <4>6 DEF MoreLines
        <5>2. \A k \in LineRows(c.order) : Wrote(d, k)
          BY <4>1, <4>4, <5>1 DEF LineRows
        <5>3. QED
          BY <2>5, <4>3, <5>1, <5>2 DEF Progress
      <4>7. QED
        BY <4>5, <4>6
    <3>3. QED
      BY <3>1, <3>2
  <2>12. Ordered(d)
    <3>1. Clean(d, r) /\ c.op \in {"cancel", "fulfill"} => held[c.order] = "ACTIVE"
      BY <2>3, <2>7 DEF Outdated
    <3>2. c.op = "createReturn" => r = c.row
      BY DEF RowOf, Changes
    <3>3. c.op = "createReturn" /\ Clean(d, r) => returned[c.order][c.row] = c.sum
      BY <2>3, <2>7 DEF Outdated
    <3>4. Ordered(c)
      BY <1>1 DEF Account
    <3>5. d.op \in {"cancel", "fulfill"} /\ d.pc # "enqueue" =>
            \A k \in Rows : Clean(d, k) => held[d.order] = "ACTIVE"
      BY <1>1, <2>5, <2>6, <3>1, <3>4 DEF Ordered
    <3>6. d.op = "createReturn" /\ d.pc # "enqueue" =>
            /\ d.row \in LineRows(d.order)
            /\ d.row \notin stale => held[d.order] = "FULFILLED"
            /\ d.pc # "sum" => d.sum + d.change <= LineQuantity(d.order, d.row)
            /\ d.pc = "commit" => Wrote(d, d.row)
            /\ Clean(d, d.row) => returned[d.order][d.row] = d.sum
      BY <1>1, <2>5, <2>7, <3>2, <3>3, <3>4 DEF Ordered
    <3>7. QED
      BY <3>5, <3>6 DEF Ordered
  <2>13. \A k \in Rows : Wrote(d, k) => \A q \in Slots \ {p} : ~Wrote(call[q], k)
    <3>1. \A q \in Slots \ {p} : ~Wrote(call[q], r)
      BY <1>6 DEF Locked, Wrote
    <3>2. \A k \in Rows \ {r} : Wrote(d, k) => \A q \in Slots \ {p} : ~Wrote(call[q], k)
      BY <2>6 DEF Books, WroteAlone
    <3>3. QED
      BY <3>1, <3>2
  <2>14. QED
    BY <1>2, <1>8, <2>8, <2>9, <2>10, <2>11, <2>12, <2>13, QuietBooks DEF Account, Goto
<1>9. QED
  BY <1>6, <1>7, <1>8

-----------------------------------------------------------------------------
(* Commit.                                                                 *)

\* What a commit leaves at a row, by whether the transaction has written it.
LEMMA CommittedRow ==
  ASSUME IInv, Books, NEW p \in Slots, Commit(p), NEW r \in Rows
  PROVE  /\ Wrote(call[p], r) => balance'[r] = call[p].written[r]
         /\ ~Wrote(call[p], r) => balance'[r] = balance[r] /\ moved'[r] = moved[r]
         /\ moved'[r].physical = moved[r].physical + call[p].deltas[r].physical
         /\ moved'[r].reserved = moved[r].reserved + call[p].deltas[r].reserved
         /\ r \notin stale' => /\ r \notin stale
                               /\ Wrote(call[p], r) => Clean(call[p], r)
<1> DEFINE c == call[p]
<1>1. c \in Call /\ Explained(c) /\ moved[r] \in Sum
  BY CallFacts DEF Books, Account, IInv, TypeOK
<1>2. balance'[r] = Visible(p, r) /\ stale' = stale \cup c.tainted
  BY DEF Commit
<1>3. moved'[r] = [physical |-> moved[r].physical + c.deltas[r].physical,
                   reserved |-> moved[r].reserved + c.deltas[r].reserved]
  BY DEF Commit
<1>4. ~Wrote(c, r) => moved'[r] = moved[r]
  BY <1>1, <1>3 DEF Explained, Nothing, Sum
<1>5. QED
  BY <1>2, <1>3, <1>4 DEF Visible, Wrote, Clean

LEMMA CommittedLedger ==
  ASSUME IInv, Books, NEW p \in Slots, Commit(p)
  PROVE  LedgerExplainsBalance' /\ JobsCarry'
<1> DEFINE c == call[p]
<1>1. c \in Call /\ Account(c) /\ c.pc = "commit" /\ outbox' = outbox \o c.created
  BY CallFacts DEF Commit, Books
<1>2. outbox \in Seq(SyncKey) /\ c.created \in Seq(SyncKey)
  BY <1>1 DEF IInv, TypeOK, Call
<1>3. ASSUME NEW r \in Rows, r \notin stale'
      PROVE  /\ PhysicalOf(balance'[r]) = InitialUnits(r) + moved'[r].physical
             /\ ReservedOf(balance'[r]) = moved'[r].reserved
             /\ Carries(outbox', r, SellableOf(Opened(r)), SellableOf(balance'[r]))
  <2>1. r \notin stale /\ Carries(outbox, r, SellableOf(Opened(r)), SellableOf(balance[r]))
    BY <1>3, CommittedRow DEF Books, JobsCarry
  <2>2. CASE Wrote(c, r)
    <3>1. Clean(c, r) /\ balance'[r] = c.written[r]
      BY <1>3, <2>2, CommittedRow
    <3>2. Carries(c.created, r, SellableOf(balance[r]), SellableOf(balance'[r]))
      BY <1>1, <3>1 DEF Account, Told
    <3>3. Tallied(balance'[r], r, c.deltas[r])
      BY <1>1, <3>1 DEF Account, Explained
    <3>4. moved[r] \in Sum /\ c.deltas[r] \in Sum /\ InitialUnits(r) \in Int
      BY <1>1, OmsAssumption DEF IInv, TypeOK, Call, InitialUnits, OmsAssumption
    <3>5. /\ PhysicalOf(balance'[r]) = InitialUnits(r) + moved'[r].physical
          /\ ReservedOf(balance'[r]) = moved'[r].reserved
      <4>1. /\ moved[r].physical \in Int /\ moved[r].reserved \in Int
            /\ c.deltas[r].physical \in Int /\ c.deltas[r].reserved \in Int
        BY <3>4 DEF Sum
      <4>2. /\ moved'[r].physical = moved[r].physical + c.deltas[r].physical
            /\ moved'[r].reserved = moved[r].reserved + c.deltas[r].reserved
        BY CommittedRow
      <4>3. QED
        BY <3>3, <3>4, <4>1, <4>2 DEF Tallied
    <3>6. QED
      BY <1>1, <1>2, <2>1, <3>2, <3>5, CarriesThrough
  <2>3. CASE ~Wrote(c, r)
    <3>1. balance'[r] = balance[r] /\ moved'[r] = moved[r]
      BY <2>3, CommittedRow
    <3>2. \A i \in DOMAIN c.created : c.created[i].row # r
      BY <1>1, <2>3 DEF Account, Told
    <3>3. Carries(c.created, r, SellableOf(balance[r]), SellableOf(balance[r]))
      BY <3>2, CarriesNothing
    <3>4. Carries(outbox', r, SellableOf(Opened(r)), SellableOf(balance'[r]))
      BY <1>1, <1>2, <2>1, <3>1, <3>3, CarriesThrough
    <3>5. QED
      BY <2>1, <3>1, <3>4 DEF Books, LedgerExplainsBalance
  <2>4. QED
    BY <2>2, <2>3
<1>4. LedgerExplainsBalance'
  BY <1>3 DEF LedgerExplainsBalance, PhysicalOf, ReservedOf
<1>5. JobsCarry'
  BY <1>3 DEF JobsCarry, Carries, SellableOf
<1>6. QED
  BY <1>4, <1>5

\* A commit leaves an order's reservations alone while a return or another change
\* of the order rests on them and the row is current.
LEMMA CommittedOrder ==
  ASSUME IInv, Books, NEW p \in Slots, Commit(p), NEW o \in Orders,
         NEW r \in LineRows(o), r \in Rows, r \notin stale'
  PROVE  /\ held[o] = "FULFILLED" => held'[o] = "FULFILLED"
         /\ held[o] = "ACTIVE" /\ ~Wrote(call[p], r) => held'[o] = "ACTIVE"
<1> DEFINE c == call[p]
<1>1. c \in Call /\ Shape(c) /\ OrderFacts(c) /\ Account(c) /\ c.pc = "commit"
  BY CallFacts DEF Commit, Books
<1>2. CASE ~(c.op \in Changes /\ c.order = o /\ (c.op = "cancel" => c.active))
  <2>1. held'[o] = held[o]
    BY <1>2 DEF Commit, HeldAfter, IInv, TypeOK, Changes
  <2>2. QED
    BY <2>1
<1>3. CASE c.op \in Changes /\ c.order = o /\ (c.op = "cancel" => c.active)
  <2>1. Wrote(c, r) /\ Clean(c, r)
    BY <1>1, <1>3, CommittedRow DEF Account, Progress
  <2>2. CASE c.op = "create"
    <3>1. held[o] = "NONE"
      BY <1>1, <1>3, <2>2 DEF OrderFacts, InTransaction, IInv, ReservationFollowsOrder
    <3>2. QED
      BY <3>1
  <2>3. CASE c.op = "cancel"
    <3>1. held[o] = "ACTIVE"
      BY <1>1, <1>3, <2>1, <2>3 DEF Account, Ordered
    <3>2. QED
      BY <2>1, <3>1
  <2>4. CASE c.op = "fulfill"
    <3>1. held'[o] = "FULFILLED"
      BY <1>3, <2>4 DEF Commit, HeldAfter, HeldBecomes, IInv, TypeOK
    <3>2. QED
      BY <2>1, <3>1
  <2>5. QED
    BY <1>3, <2>2, <2>3, <2>4 DEF Changes
<1>4. QED
  BY <1>2, <1>3

LEMMA CommittedReturns ==
  ASSUME IInv, Books, NEW p \in Slots, Commit(p)
  PROVE  ReturnsOfLines'
<1> DEFINE c == call[p]
<1>1. c \in Call /\ Shape(c) /\ Account(c) /\ c.pc = "commit"
  BY CallFacts DEF Commit, Books
<1>2. c.op = "createReturn" =>
        /\ c.order \in Orders /\ c.row \in Rows /\ c.row \in LineRows(c.order)
        /\ Wrote(c, c.row) /\ c.sum + c.change <= LineQuantity(c.order, c.row)
        /\ c.row \notin stale => held[c.order] = "FULFILLED"
        /\ Clean(c, c.row) => returned[c.order][c.row] = c.sum
  BY <1>1 DEF Account, Ordered, Shape
<1>3. ASSUME NEW o \in Orders, NEW r \in Rows
      PROVE  \/ c.op = "createReturn" /\ c.order = o /\ c.row = r
                /\ returned'[o][r] = returned[o][r] + c.change
             \/ returned'[o][r] = returned[o][r]
  <2>1. returned \in [Orders -> [Rows -> Int]]
    BY DEF IInv, TypeOK
  <2>2. CASE c.op = "createReturn"
    <3>1. returned' = [returned EXCEPT ![c.order][c.row] = @ + c.change]
      BY <2>2 DEF Commit
    <3>2. QED
      BY <1>2, <2>1, <2>2, <3>1
  <2>3. CASE c.op # "createReturn"
    BY <2>3 DEF Commit
  <2>4. QED
    BY <2>2, <2>3
<1>4. ASSUME NEW o \in Orders, NEW r \in Rows, returned'[o][r] # 0  PROVE r \in LineRows(o)
  BY <1>2, <1>3, <1>4 DEF Books, ReturnsOfLines
<1>5. ASSUME NEW o \in Orders, NEW r \in Rows, returned'[o][r] > 0, r \notin stale'
      PROVE  held'[o] = "FULFILLED" /\ returned'[o][r] <= LineQuantity(o, r)
  <2>1. returned[o][r] \in Int /\ returned'[o][r] # 0 /\ r \notin stale
    <3>1. returned[o][r] \in Int /\ c.change \in Int
      BY <1>1 DEF IInv, TypeOK, Call
    <3>2. returned'[o][r] \in Int
      BY <1>3, <3>1
    <3>3. QED
      BY <1>5, <3>1, <3>2, CommittedRow
  <2>2. CASE c.op = "createReturn" /\ c.order = o /\ c.row = r
             /\ returned'[o][r] = returned[o][r] + c.change
    <3>1. Clean(c, r)
      BY <1>2, <1>5, <2>2, CommittedRow
    <3>2. held[o] = "FULFILLED" /\ returned[o][r] = c.sum
      BY <1>2, <2>1, <2>2, <3>1
    <3>3. QED
      BY <1>2, <1>4, <1>5, <2>1, <2>2, <3>2, CommittedOrder
  <2>3. CASE returned'[o][r] = returned[o][r]
    <3>1. held[o] = "FULFILLED" /\ returned[o][r] <= LineQuantity(o, r)
      BY <1>5, <2>1, <2>3 DEF Books, ReturnsOfLines, ReturnsBounded
    <3>2. held'[o] = "FULFILLED"
      BY <1>4, <1>5, <2>1, <3>1, CommittedOrder
    <3>3. QED
      BY <2>3, <3>1, <3>2
  <2>4. QED
    BY <1>3, <2>2, <2>3
<1>6. ReturnsBounded'
  BY <1>5 DEF ReturnsBounded
<1>7. QED
  BY <1>4, <1>6 DEF ReturnsOfLines

\* What the other calls have written, read and promised still holds.
LEMMA OthersAccount ==
  ASSUME IInv, Books, NEW p \in Slots, Commit(p), NEW q \in Slots \ {p}
  PROVE  Account(call[q])'
<1> DEFINE c == call[p]
           e == call[q]
<1>1. c \in Call /\ Shape(c) /\ Account(c) /\ Account(e) /\ Shape(e) /\ c.pc = "commit"
  BY CallFacts DEF Commit, Books
<1>2. call'[q] = e
  BY DEF Commit, Goto, IInv, TypeOK
<1>3. ASSUME NEW r \in Rows, Wrote(e, r)
      PROVE  ~Wrote(c, r) /\ balance'[r] = balance[r] /\ moved'[r] = moved[r]
  BY <1>3, CommittedRow DEF Books, WroteAlone
<1>4. ASSUME NEW r \in Rows, Wrote(e, r), r \notin stale', r \notin e.tainted
      PROVE  Clean(e, r)
  BY <1>4, CommittedRow DEF Clean
<1>5. Explained(e)'
  <2>1. \A r \in Rows : ~Wrote(e, r) => e.deltas[r] = Nothing
    BY <1>1 DEF Account, Explained
  <2>2. ASSUME NEW r \in Rows, Wrote(e, r), r \notin stale', r \notin e.tainted
        PROVE  /\ PhysicalOf(e.written[r])
                    = InitialUnits(r) + moved'[r].physical + e.deltas[r].physical
               /\ ReservedOf(e.written[r]) = moved'[r].reserved + e.deltas[r].reserved
    <3>1. Tallied(e.written[r], r, e.deltas[r]) /\ moved'[r] = moved[r]
      BY <1>1, <1>3, <1>4, <2>2 DEF Account, Explained
    <3>2. QED
      BY <3>1 DEF Tallied
  <2> HIDE DEF e
  <2>3. QED
    BY <1>2, <2>1, <2>2 DEF Explained, Wrote, Clean, Tallied, PhysicalOf, ReservedOf, e
<1>6. Told(e)'
  <2>1. e.pc # "enqueue" => \A r \in Rows :
          /\ ~Wrote(e, r) => \A i \in DOMAIN e.created : e.created[i].row # r
          /\ Wrote(e, r) /\ r \notin stale' /\ r \notin e.tainted =>
               Carries(e.created, r, SellableOf(balance'[r]), SellableOf(e.written[r]))
    BY <1>1, <1>3, <1>4 DEF Account, Told
  <2>2. QED
    BY <1>2, <2>1 DEF Told, Wrote, Clean, Carries, SellableOf
<1>7. Reserving(e)'
  <2>1. /\ e.op # "adjust" => e.buffer = None
        /\ e.op = "create" /\ e.pc \in {"read", "write"} =>
             /\ e.checked # None /\ Sound(e.checked)
             /\ e.checked.sellable >= Movement(e).reserved
    BY <1>1 DEF Account, Reserving
  <2>2. \A r \in Rows : Wrote(e, r) /\ r \notin stale' /\ r \notin e.tainted =>
          IF e.op = "create"
          THEN e.written[r].physical - e.written[r].reserved >= e.written[r].buffer
          ELSE e.written[r].reserved <= ReservedOf(balance'[r])
    BY <1>1, <1>3, <1>4 DEF Account, Reserving
  <2>3. QED
    BY <1>2, <2>1, <2>2 DEF Reserving, Wrote, Clean, Movement, Sound, Sellable, ReservedOf
<1>8. Progress(e)'
  BY <1>1, <1>2 DEF Account, Progress, Wrote
<1>9. Ordered(e)'
  <2>1. ASSUME e.op \in {"cancel", "fulfill"}, e.pc # "enqueue", NEW r \in Rows,
               Wrote(e, r), r \notin stale', r \notin e.tainted
        PROVE  held'[e.order] = "ACTIVE"
    <3>1. held[e.order] = "ACTIVE" /\ ~Wrote(c, r)
      BY <1>1, <1>3, <1>4, <2>1 DEF Account, Ordered
    <3>2. e.order \in Orders /\ r \in LineRows(e.order)
      BY <1>1, <2>1 DEF Account, Progress, Changes, Shape
    <3>3. QED
      BY <2>1, <3>1, <3>2, CommittedOrder
  <2>2. ASSUME e.op = "createReturn", e.pc # "enqueue"
        PROVE  /\ e.row \in LineRows(e.order)
               /\ e.row \notin stale' => held'[e.order] = "FULFILLED"
               /\ e.pc # "sum" => e.sum + e.change <= LineQuantity(e.order, e.row)
               /\ e.pc = "commit" => Wrote(e, e.row)
               /\ Wrote(e, e.row) /\ e.row \notin stale' /\ e.row \notin e.tainted =>
                    returned'[e.order][e.row] = e.sum
    <3>1. e.order \in Orders /\ e.row \in Rows /\ Ordered(e)
      BY <1>1, <2>2 DEF Shape, Account
    <3>2. e.row \notin stale' => held'[e.order] = "FULFILLED"
      BY <2>2, <3>1, CommittedOrder, CommittedRow DEF Ordered
    <3>3. ASSUME Wrote(e, e.row), e.row \notin stale', e.row \notin e.tainted
          PROVE  returned'[e.order][e.row] = e.sum
      <4>1. returned[e.order][e.row] = e.sum /\ ~Wrote(c, e.row)
        BY <1>3, <1>4, <2>2, <3>1, <3>3 DEF Ordered
      <4>2. ~(c.op = "createReturn" /\ c.order = e.order /\ c.row = e.row)
        BY <1>1, <4>1 DEF Account, Ordered
      <4>3. returned \in [Orders -> [Rows -> Int]]
        BY DEF IInv, TypeOK
      <4>4. CASE c.op = "createReturn"
        <5>1. returned' = [returned EXCEPT ![c.order][c.row] = @ + c.change]
          BY <4>4 DEF Commit
        <5>2. QED
          BY <3>1, <4>1, <4>2, <4>3, <4>4, <5>1
      <4>5. CASE c.op # "createReturn"
        BY <4>1, <4>5 DEF Commit
      <4>6. QED
        BY <4>4, <4>5
    <3>4. QED
      BY <2>2, <3>1, <3>2, <3>3 DEF Ordered
  <2>3. QED
    BY <1>2, <2>1, <2>2 DEF Ordered, Wrote, Clean
<1>10. QED
  BY <1>5, <1>6, <1>7, <1>8, <1>9 DEF Account

LEMMA CommitBooks ==
  ASSUME IInv, Books, NEW p \in Slots, Commit(p)
  PROVE  Books'
<1> DEFINE c == call[p]
           d == [Idle EXCEPT !.op = c.op, !.pc = "enqueue", !.order = c.order,
                             !.row = c.row, !.created = c.created]
<1>1. /\ call'[p] = Idle \/ call'[p] = d
      /\ \A q \in Slots \ {p} : call'[q] = call[q]
  BY DEF Commit, Goto, IInv, TypeOK
<1>2. \A r \in Rows : ~Wrote(call'[p], r)
  <2>1. Idle.written = [r \in Rows |-> None] /\ d.written = [r \in Rows |-> None]
    BY DEF Idle
  <2> HIDE DEF d
  <2>2. QED
    BY <1>1, <2>1 DEF Wrote
<1>3. Account(call[p])'
  <2>1. CASE call'[p] = Idle
    BY <2>1 DEF Idle, Account, Explained, Told, Reserving, Progress, Ordered, Wrote, Clean,
                Changes
  <2>2. CASE call'[p] = d
    <3>1. /\ d.op = c.op /\ d.pc = "enqueue" /\ d.buffer = None
          /\ \A r \in Rows : d.written[r] = None /\ d.deltas[r] = Nothing
      BY DEF Idle
    <3> HIDE DEF d
    <3>2. QED
      BY <2>2, <3>1 DEF Account, Explained, Told, Reserving, Progress, Ordered, Wrote, Clean
  <2>3. QED
    BY <1>1, <2>1, <2>2
<1>4. \A q \in Slots : Account(call[q])'
  BY <1>3, OthersAccount
<1>5. WroteAlone'
  <2> SUFFICES ASSUME NEW q1 \in Slots, NEW q2 \in Slots, NEW r \in Rows,
                      Wrote(call'[q1], r), Wrote(call'[q2], r), q1 # q2
               PROVE  FALSE
    BY DEF WroteAlone, Wrote
  <2>1. q1 # p /\ q2 # p
    BY <1>2
  <2>2. QED
    BY <1>1, <2>1 DEF Books, WroteAlone
<1>6. QED
  BY <1>4, <1>5, CommittedLedger, CommittedReturns DEF Books

LEMMA AfterCommitBooks ==
  ASSUME IInv, Books, NEW p \in Slots, Enqueue(p) \/ Interrupt(p) \/ DeadlockVictim(p)
  PROVE  Books'
<1>1. Goto(p, Idle) /\ UNCHANGED <<balance, moved, stale, status, held, returned, outbox>>
  BY DEF Enqueue, Interrupt, DeadlockVictim, Unchanged, stock, orders, jobs
<1>2. QED
  BY <1>1, QuietIdleBooks

-----------------------------------------------------------------------------
(* The books are kept.                                                     *)

LEMMA InitBooks == Init => Books
<1> SUFFICES ASSUME Init  PROVE Books
  OBVIOUS
<1>1. \A p \in Slots : call[p] = Idle
  BY DEF Init
<1>2. WroteAlone /\ \A p \in Slots : Account(call[p])
  BY <1>1, IdleAccount DEF WroteAlone, Wrote, Idle
<1>3. LedgerExplainsBalance
  <2> SUFFICES ASSUME NEW r \in Rows
               PROVE  /\ PhysicalOf(balance[r]) = InitialUnits(r) + moved[r].physical
                      /\ ReservedOf(balance[r]) = moved[r].reserved
    BY DEF LedgerExplainsBalance
  <2>1. balance[r] = Opened(r) /\ moved[r].physical = 0 /\ moved[r].reserved = 0
    BY DEF Init, Nothing
  <2>2. InitialStock[r] \in Nat \cup {None} /\ SkuBuffer[r] \in Nat /\ None \notin Balance
    BY OmsAssumption DEF OmsAssumption
  <2>3. InitialUnits(r) \in Int /\ PhysicalOf(balance[r]) = InitialUnits(r)
        /\ ReservedOf(balance[r]) = 0
    <3>1. CASE InitialStock[r] = None
      BY <2>1, <3>1 DEF Opened, PhysicalOf, ReservedOf, InitialUnits
    <3>2. CASE InitialStock[r] \in Nat /\ InitialStock[r] # None
      <4>1. balance[r] = [physical |-> InitialStock[r], reserved |-> 0,
                          buffer |-> SkuBuffer[r],
                          sellable |-> Sellable(InitialStock[r], 0, SkuBuffer[r])]
        BY <2>1, <3>2 DEF Opened
      <4>2. balance[r] \in Balance
        BY <2>2, <3>2, <4>1 DEF Balance, Sellable
      <4>3. QED
        BY <2>2, <3>2, <4>1, <4>2 DEF PhysicalOf, ReservedOf, InitialUnits
    <3>3. QED
      BY <2>2, <3>1, <3>2
  <2>4. QED
    BY <2>1, <2>3
<1>4. JobsCarry
  BY DEF Init, JobsCarry, Carries
<1>5. ReturnsOfLines
  BY DEF Init, ReturnsOfLines, ReturnsBounded
<1>6. QED
  BY <1>2, <1>3, <1>4, <1>5 DEF Books

LEMMA StepBooks ==
  ASSUME IInv, Books, NEW p \in Slots,
         Request(p) \/ Step(p) \/ Interrupt(p) \/ DeadlockVictim(p)
  PROVE  Books'
<1>1. CASE Request(p)
  BY <1>1, RequestBooks
<1>2. CASE ReadLines(p) \/ SumReturns(p) \/ Insert(p)
  BY <1>2, BeforeTransactionBooks
<1>3. CASE Check(p) \/ Read(p)
  BY <1>3, CheckOrReadBooks
<1>4. CASE Write(p)
  BY <1>4, WriteBooks
<1>5. CASE Commit(p)
  BY <1>5, CommitBooks
<1>6. CASE Enqueue(p) \/ Interrupt(p) \/ DeadlockVictim(p)
  BY <1>6, AfterCommitBooks
<1>7. QED
  BY <1>1, <1>2, <1>3, <1>4, <1>5, <1>6 DEF Step

LEMMA StutterBooks ==
  ASSUME IInv, Books, UNCHANGED vars
  PROVE  Books'
<1>1. UNCHANGED <<balance, moved, stale, status, held, returned, outbox, call>>
  BY DEF vars, stock, orders, jobs
<1>2. ASSUME NEW p \in Slots  PROVE Books'
  <2>1. call' = [call EXCEPT ![p] = call[p]]
    BY <1>1 DEF IInv, TypeOK
  <2>2. Account(call[p]) /\ \A r \in Rows : Wrote(call[p], r) =>
                              \A q \in Slots \ {p} : ~Wrote(call[q], r)
    BY DEF Books, WroteAlone
  <2>3. QED
    BY <1>1, <2>1, <2>2, QuietBooks
<1>3. CASE Slots = {}
  <2>1. LedgerExplainsBalance' /\ JobsCarry'
    BY <1>1 DEF Books, LedgerExplainsBalance, JobsCarry, Carries
  <2>2. ReturnsOfLines'
    BY <1>1 DEF Books, ReturnsOfLines, ReturnsBounded
  <2>3. QED
    BY <1>3, <2>1, <2>2 DEF Books, WroteAlone
<1>4. QED
  BY <1>2, <1>3

LEMMA NextBooks == IInv /\ Books /\ [Next]_vars => Books'
<1> SUFFICES ASSUME IInv, Books, [Next]_vars  PROVE Books'
  OBVIOUS
<1>1. CASE UNCHANGED vars
  BY <1>1, StutterBooks
<1>2. CASE Next
  BY <1>2, StepBooks DEF Next
<1>3. QED
  BY <1>1, <1>2

\* With the newest job of a row known, LastTarget is its target.
LEMMA NewestCarries ==
  ASSUME IInv, Books
  PROVE  NewestJobCurrent
<1> SUFFICES ASSUME NEW r \in Rows \ stale
             PROVE  LastTarget(r) = SellableOf(balance[r])
  BY DEF NewestJobCurrent
<1> DEFINE of == {i \in DOMAIN outbox : outbox[i].row = r}
<1>1. Carries(outbox, r, SellableOf(Opened(r)), SellableOf(balance[r]))
  BY DEF Books, JobsCarry
<1>2. CASE of = {}
  <2>1. LastTarget(r) = SellableOf(Opened(r))
    BY <1>2 DEF LastTarget
  <2>2. QED
    BY <1>1, <1>2, <2>1 DEF Carries
<1>3. CASE of # {}
  <2>1. LastTarget(r) = outbox[Max(of)].target
    BY <1>3 DEF LastTarget
  <2>2. PICK j \in of : outbox[j].target = SellableOf(balance[r]) /\ \A i \in of : i <= j
    BY <1>1, <1>3 DEF Carries
  <2>3. of \subseteq Nat
    BY DEF IInv, TypeOK
  <2> HIDE DEF of
  <2>4. \A i \in of : (\A y \in of : i >= y) => i = j
    BY <2>2, <2>3
  <2>5. \A y \in of : j >= y
    BY <2>2, <2>3
  <2>6. Max(of) = CHOOSE x \in of : \A y \in of : x >= y
    BY DEF Max
  <2>7. Max(of) = j
    BY <2>2, <2>4, <2>5, <2>6
  <2>8. QED
    BY <2>1, <2>2, <2>7
<1>4. QED
  BY <1>2, <1>3

\* Only a create grows reserved stock on a current row, and it has checked the room.
LEMMA BufferStep ==
  ASSUME IInv, Books, [Next]_vars, NEW r \in Rows \ stale',
         ReservedOf(balance'[r]) > ReservedOf(balance[r])
  PROVE  balance'[r].physical - balance'[r].reserved >= balance'[r].buffer
<1>1. ReservedOf(balance[r]) \in Int
  BY DEF IInv, TypeOK, ReservedOf, Balance
<1>2. balance' # balance
  BY <1>1
<1>3. PICK p \in Slots : Commit(p)
  BY <1>2 DEF Next, Request, Create, Cancel, Fulfill, FindOrder, CreateReturn, Adjust, Step,
              ReadLines, SumReturns, Insert, Check, Read, Write, Enqueue, Interrupt,
              DeadlockVictim, Unchanged, vars, stock
<1> DEFINE c == call[p]
<1>4. c \in Call /\ Reserving(c)
  BY CallFacts DEF Books, Account
<1>5. Wrote(c, r) /\ Clean(c, r) /\ balance'[r] = c.written[r]
  BY <1>1, <1>3, CommittedRow
<1>6. ReservedOf(balance'[r]) = c.written[r].reserved /\ c.written[r].reserved \in Int
  BY <1>4, <1>5 DEF ReservedOf, Wrote, Call, Balance
<1>7. QED
  BY <1>1, <1>4, <1>5, <1>6 DEF Reserving

\* Every quantity stays a natural and every call a call, under any interleaving.
THEOREM OmsTypeCorrect == Spec => []TypeOK
<1>1. IInv => TypeOK
  BY DEF IInv
<1>2. QED
  BY <1>1, InitIInv, NextIInv, PTL DEF Spec

\* Whatever requests race, a committed balance never reserves more than it holds
\* and shows the sellable quantity of its own columns (README.md:489).
THEOREM RowsStaySound == Spec => []RowsSound
<1>1. IInv => RowsSound
  BY DEF IInv
<1>2. QED
  BY <1>1, InitIInv, NextIInv, PTL DEF Spec

\* Whatever cancellations and fulfilments race, an order's reservations are
\* active exactly while the order is RESERVED.
THEOREM ReservationsFollowOrders == Spec => []ReservationFollowsOrder
<1>1. IInv => ReservationFollowsOrder
  BY DEF IInv
<1>2. QED
  BY <1>1, InitIInv, NextIInv, PTL DEF Spec
\* Whatever transactions race, roll back or die, the initial stock plus the ledger
\* is what a row holds, unless a request wrote the row from outdated data.
THEOREM LedgerExplains == Spec => []LedgerExplainsBalance
<1>1. Books => LedgerExplainsBalance
  BY DEF Books
<1>2. QED
  BY <1>1, InitIInv, NextIInv, InitBooks, NextBooks, PTL DEF Spec

\* The newest channel sync job of such a row carries its sellable quantity: no
\* change of the stock goes untold, and no later job tells an older number.
THEOREM NewestJobsCurrent == Spec => []NewestJobCurrent
<1>1. QED
  BY NewestCarries, InitIInv, NextIInv, InitBooks, NextBooks, PTL DEF Spec

\* No more units of an order come back than its first line on the row shipped,
\* unless concurrent returns wrote the row from an outdated sum.
THEOREM ReturnsStayBounded == Spec => []ReturnsBounded
<1>1. Books => ReturnsBounded
  BY DEF Books, ReturnsOfLines
<1>2. QED
  BY <1>1, InitIInv, NextIInv, InitBooks, NextBooks, PTL DEF Spec

\* No interleaving of orders reserves into the safety buffer of a current row.
THEOREM BuffersKept == Spec => BufferKept
<1>1. IInv /\ Books /\ [Next]_vars =>
        [\A r \in Rows \ stale' :
           ReservedOf(balance'[r]) > ReservedOf(balance[r]) =>
             balance'[r].physical - balance'[r].reserved >= balance'[r].buffer]_vars
  BY BufferStep
<1>2. QED
  BY <1>1, InitIInv, NextIInv, InitBooks, NextBooks, PTL DEF Spec, BufferKept

-----------------------------------------------------------------------------
(* Sums over finite sets.  The prover sees SumFunctionOnSet as a choice of a *)
(* recursive function, so that its existence comes first.                    *)

Pick(s) == CHOOSE x \in s : TRUE

\* g adds f over every subset of S.
Adds(g, f, S) ==
  g = [s \in SUBSET S |-> IF s = {} THEN 0 ELSE f[Pick(s)] + g[s \ {Pick(s)}]]

LEMMA SumDef ==
  ASSUME NEW f, NEW S
  PROVE  SumFunctionOnSet(f, S) = (CHOOSE g : Adds(g, f, S))[S]
BY DEF SumFunctionOnSet, FoldFunctionOnSet, MapThenFoldSet, Adds, Pick

\* Of a nonempty set of finite sets one is smallest.
LEMMA Smallest ==
  ASSUME NEW B, B # {}, \A s \in B : IsFiniteSet(s)
  PROVE  \E s \in B : \A t \in B : ~(Cardinality(t) < Cardinality(s))
<1> DEFINE T == {Cardinality(s) : s \in B}
           R == OpToRel(<, Nat)
<1>1. T \subseteq Nat /\ T # {}
  BY FS_CardinalityType
<1>2. PICK n \in T : \A m \in T : ~(<<m, n>> \in R)
  <2>1. IsWellFoundedOn(R, Nat)
    BY NatLessThanWellFounded
  <2> HIDE DEF R, T
  <2>2. QED
    BY <1>1, <2>1, WFMin, Zenon
<1>3. PICK s \in B : n = Cardinality(s)
  OBVIOUS
<1>4. ASSUME NEW t \in B PROVE ~(Cardinality(t) < Cardinality(s))
  <2>1. Cardinality(t) \in T /\ Cardinality(t) \in Nat /\ n \in Nat
    BY <1>1
  <2>2. QED
    BY <1>2, <1>3, <2>1 DEF OpToRel
<1>5. QED
  BY <1>4

\* Two functions that add f do so alike.
LEMMA AddsAlike ==
  ASSUME NEW f, NEW S, NEW T, NEW g, NEW h, Adds(g, f, S), Adds(h, f, T),
         NEW s \in SUBSET (S \cap T), IsFiniteSet(s)
  PROVE  g[s] = h[s]
<1> DEFINE B == {u \in SUBSET s : g[u] # h[u]}
<1>1. ASSUME NEW u \in SUBSET s
      PROVE  /\ g[u] = IF u = {} THEN 0 ELSE f[Pick(u)] + g[u \ {Pick(u)}]
             /\ h[u] = IF u = {} THEN 0 ELSE f[Pick(u)] + h[u \ {Pick(u)}]
  BY <1>1 DEF Adds
<1>2. SUFFICES ASSUME B # {} PROVE FALSE
  BY <1>2
<1>3. \A u \in B : IsFiniteSet(u)
  BY FS_Subset
<1>4. PICK u \in B : \A t \in B : ~(Cardinality(t) < Cardinality(u))
  <2> HIDE DEF B
  <2>1. QED
    BY <1>2, <1>3, Smallest
<1>5. u # {} /\ Pick(u) \in u
  BY <1>1, <1>4 DEF Pick
<1>6. g[u \ {Pick(u)}] # h[u \ {Pick(u)}] /\ u \ {Pick(u)} \in SUBSET s
  BY <1>1, <1>4, <1>5
<1>7. Cardinality(u \ {Pick(u)}) = Cardinality(u) - 1 /\ Cardinality(u) \in Nat
  BY <1>3, <1>4, <1>5, FS_RemoveElement, FS_CardinalityType
<1>8. QED
  BY <1>4, <1>6, <1>7

Added(f, S) == CHOOSE g : Adds(g, f, S)

\* There is such a function.
LEMMA AddsExists ==
  ASSUME NEW f, NEW S, IsFiniteSet(S)
  PROVE  Adds(Added(f, S), f, S)
<1> DEFINE B == {s \in SUBSET S : ~Adds(Added(f, s), f, s)}
<1>1. SUFFICES ASSUME B # {} PROVE FALSE
  BY <1>1
<1>2. \A s \in SUBSET S : IsFiniteSet(s)
  BY FS_Subset
<1>3. PICK s \in B : \A t \in B : ~(Cardinality(t) < Cardinality(s))
  <2>1. \A u \in B : IsFiniteSet(u)
    BY <1>2
  <2> HIDE DEF B
  <2>2. QED
    BY <1>1, <2>1, Smallest
<1>4. s \in SUBSET S /\ ~Adds(Added(f, s), f, s)
  BY <1>3
<1> DEFINE Rest(u) == u \ {Pick(u)}
           g == [u \in SUBSET s |->
                   IF u = {} THEN 0 ELSE f[Pick(u)] + Added(f, Rest(u))[Rest(u)]]
<1>5. ASSUME NEW u \in SUBSET s, u # {}
      PROVE  Rest(u) \in SUBSET s /\ Adds(Added(f, Rest(u)), f, Rest(u))
  <2>1. Pick(u) \in u
    BY <1>5 DEF Pick
  <2>2. Rest(u) \in SUBSET S /\ Rest(u) \in SUBSET s
    BY <1>4
  <2>3. Cardinality(Rest(u)) = Cardinality(u) - 1 /\ Cardinality(u) \in Nat
    BY <1>2, <1>4, <2>1, FS_RemoveElement, FS_CardinalityType
  <2>4. Cardinality(u) <= Cardinality(s) /\ Cardinality(s) \in Nat
    BY <1>2, <1>4, FS_Subset, FS_CardinalityType
  <2>5. Rest(u) \notin B
    BY <1>3, <2>3, <2>4
  <2>6. QED
    BY <2>2, <2>5
<1>6. ASSUME NEW u \in SUBSET s, u # {}
      PROVE  g[Rest(u)] = Added(f, Rest(u))[Rest(u)]
  <2>1. CASE Rest(u) = {}
    <3>1. Adds(Added(f, Rest(u)), f, Rest(u)) /\ Rest(u) \in SUBSET s
      BY <1>5, <1>6
    <3>2. QED
      BY <2>1, <3>1 DEF Adds
  <2>2. CASE Rest(u) # {}
    <3> DEFINE v == Rest(u)
    <3>1. v \in SUBSET s /\ Adds(Added(f, v), f, v)
      BY <1>5, <1>6
    <3>2. Rest(v) \in SUBSET v /\ Rest(v) \in SUBSET s /\ Adds(Added(f, Rest(v)), f, Rest(v))
      BY <1>5, <2>2, <3>1
    <3>3. Added(f, v)[v] = f[Pick(v)] + Added(f, v)[Rest(v)]
      BY <2>2, <3>1 DEF Adds
    <3>4. Added(f, v)[Rest(v)] = Added(f, Rest(v))[Rest(v)]
      <4>1. IsFiniteSet(Rest(v))
        BY <1>2, <1>4, <3>2
      <4>2. Rest(v) \in SUBSET (v \cap Rest(v))
        BY <3>2
      <4> HIDE DEF v, Rest
      <4>3. QED
        BY <3>1, <3>2, <4>1, <4>2, AddsAlike
    <3>5. g[v] = f[Pick(v)] + Added(f, Rest(v))[Rest(v)]
      BY <2>2, <3>1
    <3>6. QED
      BY <3>3, <3>4, <3>5
  <2>3. QED
    BY <2>1, <2>2
<1>7. Adds(g, f, s)
  BY <1>6 DEF Adds
<1>8. QED
  <2> HIDE DEF g
  <2>1. QED
    BY <1>4, <1>7 DEF Added

LEMMA SumOfNothing ==
  ASSUME NEW f
  PROVE  SumFunctionOnSet(f, {}) = 0
BY SumDef, AddsExists, FS_EmptySet DEF Added, Adds

\* Something is added to the sum of the rest.
LEMMA SumOfSome ==
  ASSUME NEW f, NEW S, IsFiniteSet(S), S # {}
  PROVE  SumFunctionOnSet(f, S) = f[Pick(S)] + SumFunctionOnSet(f, S \ {Pick(S)})
<1> DEFINE R == S \ {Pick(S)}
<1>1. IsFiniteSet(R) /\ R \in SUBSET (S \cap R)
  BY FS_Subset
<1>2. Adds(Added(f, S), f, S) /\ Adds(Added(f, R), f, R)
  BY <1>1, AddsExists
<1>3. Added(f, S)[R] = Added(f, R)[R]
  <2> HIDE DEF R
  <2>1. QED
    BY <1>1, <1>2, AddsAlike
<1>4. Added(f, S)[S] = f[Pick(S)] + Added(f, S)[R]
  BY <1>2 DEF Adds
<1>5. QED
  BY <1>3, <1>4, SumDef DEF Added

\* Sums of numbers are numbers, and any element may be taken out first.
LEMMA SumSplits ==
  ASSUME NEW f, NEW D, \A x \in D : f[x] \in Nat, IsFiniteSet(D)
  PROVE  /\ SumFunctionOnSet(f, D) \in Nat
         /\ \A x \in D : SumFunctionOnSet(f, D) = f[x] + SumFunctionOnSet(f, D \ {x})
<1> DEFINE Sm(u) == SumFunctionOnSet(f, u)
           Good(u) == Sm(u) \in Nat /\ \A x \in u : Sm(u) = f[x] + Sm(u \ {x})
           B == {s \in SUBSET D : ~Good(s)}
<1>1. SUFFICES ASSUME B # {} PROVE FALSE
  BY <1>1
<1>2. \A s \in SUBSET D : IsFiniteSet(s)
  BY FS_Subset
<1>3. PICK s \in B : \A t \in B : ~(Cardinality(t) < Cardinality(s))
  <2>1. \A u \in B : IsFiniteSet(u)
    BY <1>2
  <2> HIDE DEF B
  <2>2. QED
    BY <1>1, <2>1, Smallest
<1>4. s \in SUBSET D /\ ~Good(s)
  BY <1>3
<1>5. ASSUME NEW u \in SUBSET s, u # s
      PROVE  Good(u)
  <2>1. Cardinality(u) <= Cardinality(s) /\ Cardinality(u) # Cardinality(s)
    BY <1>2, <1>4, <1>5, FS_Subset
  <2>2. Cardinality(s) \in Nat /\ Cardinality(u) \in Nat
    BY <1>2, <1>4, FS_CardinalityType
  <2>3. u \notin B
    <3> HIDE DEF B
    <3>1. QED
      BY <1>3, <2>1, <2>2
  <2>4. QED
    BY <1>4, <2>3
<1>6. s # {}
  <2> SUFFICES ASSUME s = {} PROVE FALSE
    OBVIOUS
  <2>1. QED
    BY <1>4, SumOfNothing
<1> DEFINE c == Pick(s)
<1>7. c \in s
  BY <1>6 DEF Pick
<1>8. Sm(s) = f[c] + Sm(s \ {c})
  BY <1>2, <1>4, <1>6, SumOfSome
<1> HIDE DEF c, Sm
<1>9. Sm(s) \in Nat
  BY <1>4, <1>5, <1>7, <1>8
<1>10. ASSUME NEW x \in s
       PROVE  Sm(s) = f[x] + Sm(s \ {x})
  <2>1. CASE x = c
    BY <1>8, <2>1
  <2>2. CASE x # c
    <3>1. Sm(s \ {c}) = f[x] + Sm((s \ {c}) \ {x})
      BY <1>5, <1>7, <2>2
    <3>2. Sm(s \ {x}) = f[c] + Sm((s \ {x}) \ {c})
      BY <1>5, <1>7, <2>2
    <3>3. (s \ {c}) \ {x} = (s \ {x}) \ {c}
      OBVIOUS
    <3>4. Sm((s \ {c}) \ {x}) \in Nat
      BY <1>5, <1>7
    <3>5. f[x] \in Nat /\ f[c] \in Nat
      BY <1>4, <1>7
    <3> HIDE DEF Good, B
    <3>6. f[c] + (f[x] + Sm((s \ {c}) \ {x})) = f[x] + (f[c] + Sm((s \ {c}) \ {x}))
      BY <3>4, <3>5
    <3>7. QED
      BY <1>8, <3>1, <3>2, <3>3, <3>6
  <2>3. QED
    BY <2>1, <2>2
<1>11. QED
  BY <1>4, <1>9, <1>10

\* A new element adds its number.
LEMMA SumGrows ==
  ASSUME NEW f, NEW S, IsFiniteSet(S), NEW x, x \notin S,
         \A y \in S \cup {x} : f[y] \in Nat
  PROVE  SumFunctionOnSet(f, S \cup {x}) = f[x] + SumFunctionOnSet(f, S)
<1> DEFINE T == S \cup {x}
<1>1. IsFiniteSet(T) /\ x \in T /\ T \ {x} = S
  BY FS_AddElement
<1>2. \A y \in T : f[y] \in Nat
  OBVIOUS
<1> HIDE DEF T
<1>3. SumFunctionOnSet(f, T) = f[x] + SumFunctionOnSet(f, T \ {x})
  BY <1>1, <1>2, SumSplits
<1>4. QED
  BY <1>1, <1>3 DEF T

-----------------------------------------------------------------------------
(* What the ledger reserves.  A transaction's entries on a row add up to what *)
(* the lines it has behind it ask for, so a commit moves the row's total by    *)
(* the whole order, and the active orders gain or lose that order with it.     *)

\* What the first n lines of order o ask of row r.
UnitsTo(o, r, n) ==
  SumFunctionOnSet(Quantities(o), {i \in 1..n : Lines[o][i].row = r})

\* What call c has reserved on row r so far, less than nothing when it gives back.
ReservedBy(c, r) ==
  LET n == IF c.pc = "commit" THEN Len(Lines[c.order]) ELSE c.line - 1
  IN  IF c.op = "create" THEN UnitsTo(c.order, r, n) ELSE -UnitsTo(c.order, r, n)

Settled(c) ==
  /\ c.op \notin Changes => \A r \in Rows : c.deltas[r].reserved = 0
  /\ c.op \in Changes /\ c.pc # "enqueue" =>
       \A r \in Rows : c.deltas[r].reserved =
         IF c.op = "cancel" /\ ~c.active THEN 0 ELSE ReservedBy(c, r)
  /\ c.pc = "lines" => c.line = 1

Counted == /\ IsFiniteSet(Active)
           /\ \A p \in Slots : Settled(call[p])
           /\ \A r \in Rows \ stale : moved[r].reserved = ActiveUnits(r)

LEMMA LinesOf ==
  ASSUME NEW o \in Orders
  PROVE  /\ DOMAIN Lines[o] = 1..Len(Lines[o]) /\ Len(Lines[o]) \in Nat
         /\ \A i \in 1..Len(Lines[o]) : /\ Quantities(o)[i] = Lines[o][i].quantity
                                        /\ Lines[o][i].quantity \in Nat
                                        /\ Lines[o][i].row \in Rows
<1>1. Lines[o] \in Seq(Line)
  BY OmsAssumption DEF OmsAssumption
<1>2. \A i \in 1..Len(Lines[o]) : Lines[o][i] \in Line
  BY <1>1
<1>3. QED
  BY <1>1, <1>2 DEF Line, Quantities

LEMMA UnitsToType ==
  ASSUME NEW o \in Orders, NEW r, NEW n \in 0..Len(Lines[o])
  PROVE  UnitsTo(o, r, n) \in Nat
<1> DEFINE D == {i \in 1..n : Lines[o][i].row = r}
           q == Quantities(o)
<1>1. \A i \in D : q[i] \in Nat
  BY LinesOf
<1>2. IsFiniteSet(D)
  BY LinesOf, FS_Interval, FS_Subset
<1> HIDE DEF D, q
<1>3. SumFunctionOnSet(q, D) \in Nat
  BY <1>1, <1>2, SumSplits
<1>4. QED
  BY <1>3 DEF UnitsTo, D, q

LEMMA UnitsToNone ==
  ASSUME NEW o \in Orders, NEW r
  PROVE  UnitsTo(o, r, 0) = 0
<1>1. {i \in 1..0 : Lines[o][i].row = r} = {}
  OBVIOUS
<1>2. QED
  BY <1>1, SumOfNothing DEF UnitsTo

\* The next line adds its quantity to its own row and nothing to another.
LEMMA UnitsToNext ==
  ASSUME NEW o \in Orders, NEW r, NEW n \in 1..Len(Lines[o])
  PROVE  UnitsTo(o, r, n) = UnitsTo(o, r, n - 1)
           + (IF Lines[o][n].row = r THEN Lines[o][n].quantity ELSE 0)
<1> DEFINE D(k) == {i \in 1..k : Lines[o][i].row = r}
           q == Quantities(o)
<1>1. IsFiniteSet(D(n - 1)) /\ n \notin D(n - 1)
  <2>1. D(n - 1) \subseteq 1..(n - 1) /\ n - 1 \in Int
    BY LinesOf
  <2>2. IsFiniteSet(1..(n - 1))
    BY <2>1, FS_Interval
  <2>3. n \notin 1..(n - 1)
    BY LinesOf
  <2> HIDE DEF D
  <2>4. QED
    BY <2>1, <2>2, <2>3, FS_Subset
<1>2. CASE Lines[o][n].row = r
  <2>1. D(n) = D(n - 1) \cup {n}
    BY <1>2, LinesOf
  <2>2. \A y \in D(n - 1) \cup {n} : q[y] \in Nat
    BY LinesOf
  <2>3. q[n] = Lines[o][n].quantity /\ q[n] \in Nat
    BY LinesOf
  <2> DEFINE S == D(n - 1)
  <2> HIDE DEF D, q, S
  <2>4. SumFunctionOnSet(q, S \cup {n}) = q[n] + SumFunctionOnSet(q, S)
    <3>1. IsFiniteSet(S) /\ n \notin S /\ \A y \in S \cup {n} : q[y] \in Nat
      BY <1>1, <2>2 DEF S
    <3>2. QED
      BY <3>1, SumGrows
  <2>5. UnitsTo(o, r, n) = q[n] + UnitsTo(o, r, n - 1)
    BY <2>1, <2>4 DEF UnitsTo, D, q, S
  <2>6. UnitsTo(o, r, n - 1) \in Nat
    <3>1. n - 1 \in 0..Len(Lines[o])
      BY LinesOf
    <3>2. QED
      BY <3>1, UnitsToType
  <2>7. QED
    BY <1>2, <2>3, <2>5, <2>6
<1>3. CASE Lines[o][n].row # r
  <2>1. D(n) = D(n - 1)
    BY <1>3, LinesOf
  <2>2. UnitsTo(o, r, n) = UnitsTo(o, r, n - 1)
    BY <2>1 DEF UnitsTo
  <2>3. UnitsTo(o, r, n - 1) \in Nat
    <3>1. n - 1 \in 0..Len(Lines[o])
      BY LinesOf
    <3>2. QED
      BY <3>1, UnitsToType
  <2>4. QED
    BY <1>3, <2>2, <2>3
<1>4. QED
  BY <1>2, <1>3

LEMMA UnitsOfOrder ==
  ASSUME NEW o \in Orders, NEW r
  PROVE  Units(o, r) = UnitsTo(o, r, Len(Lines[o])) /\ Units(o, r) \in Nat
<1>1. Units(o, r) = UnitsTo(o, r, Len(Lines[o]))
  BY LinesOf DEF Units, UnitsTo
<1>2. Len(Lines[o]) \in 0..Len(Lines[o])
  BY LinesOf
<1>3. QED
  BY <1>1, <1>2, UnitsToType

-----------------------------------------------------------------------------
(* Steps that commit nothing.                                              *)

LEMMA IdleSettled == Settled(Idle)
BY DEF Settled, Idle, Nothing, Changes

\* A call that has just come in.
LEMMA FreshSettled ==
  ASSUME NEW d, d.deltas = [r \in Rows |-> Nothing], d.line = 1, ~d.active,
         d.op \in Changes => d.order \in Orders, d.pc # "commit"
  PROVE  Settled(d)
<1>1. \A r \in Rows : d.deltas[r].reserved = 0
  BY DEF Nothing
<1>2. ASSUME d.op \in Changes, NEW r \in Rows  PROVE ReservedBy(d, r) = 0
  BY <1>2, UnitsToNone DEF ReservedBy
<1>3. QED
  BY <1>1, <1>2 DEF Settled

\* A call that goes on with the same line and the same entries.
LEMMA SettledOn ==
  ASSUME NEW c, NEW d, Settled(c), d.op = c.op, d.order = c.order, d.line = c.line,
         d.deltas = c.deltas, c.pc \notin {"commit", "enqueue"},
         d.pc \notin {"commit", "enqueue", "lines"}, d.active = c.active
  PROVE  Settled(d)
<1>1. \A r \in Rows : ReservedBy(d, r) = ReservedBy(c, r)
  BY DEF ReservedBy
<1>2. QED
  BY <1>1 DEF Settled

LEMMA ReadLinesSettled ==
  ASSUME IInv, Books, Counted, NEW p \in Slots, ReadLines(p)
  PROVE  Settled(call'[p])
<1> DEFINE c == call[p]
           d == [c EXCEPT !.pc = "read", !.active = TRUE]
           e == [c EXCEPT !.pc = "commit"]
<1>1. c \in Call /\ Shape(c) /\ Settled(c) /\ Progress(c) /\ c.pc = "lines"
  BY CallFacts DEF ReadLines, Counted, Books, Account
<1>2. c.op \in {"cancel", "fulfill"} /\ c.order \in Orders /\ c.line = 1 /\ ~c.active
  BY <1>1 DEF Shape, Changes, Settled, Progress
<1>3. \A r \in Rows : c.deltas[r].reserved = 0
  <2>1. \A r \in Rows : ReservedBy(c, r) = 0
    BY <1>1, <1>2, UnitsToNone DEF ReservedBy
  <2>2. QED
    BY <1>1, <1>2, <2>1 DEF Settled, Changes
<1>4. Settled(d)
  <2>1. /\ d.op = c.op /\ d.order = c.order /\ d.line = 1 /\ d.pc = "read"
        /\ d.deltas = c.deltas
    BY <1>1, <1>2 DEF Call
  <2> HIDE DEF d, c
  <2>2. \A r \in Rows : ReservedBy(d, r) = 0
    BY <1>2, <2>1, UnitsToNone DEF ReservedBy
  <2>3. QED
    BY <1>2, <1>3, <2>1, <2>2 DEF Settled, Changes
<1>5. c.op = "cancel" => Settled(e)
  <2>1. /\ e.op = c.op /\ ~e.active /\ e.pc = "commit" /\ e.deltas = c.deltas
    BY <1>1, <1>2 DEF Call
  <2> HIDE DEF e, c
  <2>2. QED
    BY <1>3, <2>1 DEF Settled, Changes
<1>6. call'[p] = d \/ (c.op = "cancel" /\ call'[p] = e) \/ call'[p] = Idle
  BY <1>1, <1>2 DEF ReadLines, Goto, IInv, TypeOK
<1>7. QED
  BY <1>4, <1>5, <1>6, IdleSettled

LEMMA QuietSettled ==
  ASSUME IInv, Books, Counted, NEW p \in Slots,
         SumReturns(p) \/ Insert(p) \/ Check(p) \/ Read(p)
  PROVE  Settled(call'[p])
<1> DEFINE c == call[p]
<1>1. c \in Call /\ Settled(c) /\ p \in DOMAIN call
  BY DEF IInv, TypeOK, Counted
<1>2. c.pc \in {"sum", "insert", "check", "read"}
  BY DEF SumReturns, Insert, Check, Read
<1>3. ASSUME call'[p] # Idle
      PROVE  /\ call'[p].op = c.op /\ call'[p].order = c.order /\ call'[p].line = c.line
             /\ call'[p].deltas = c.deltas /\ call'[p].active = c.active
             /\ call'[p].pc \in {"check", "read", "write"}
  <2>1. CASE SumReturns(p)
    BY <1>1, <1>3, <2>1 DEF SumReturns, Goto, Call
  <2>2. CASE Insert(p)
    BY <1>1, <1>3, <2>2 DEF Insert, Goto, Call
  <2>3. CASE Check(p)
    BY <1>1, <1>3, <2>3 DEF Check, Goto, Call
  <2>4. CASE Read(p)
    BY <1>1, <1>3, <2>4 DEF Read, Goto, Call
  <2>5. QED
    BY <2>1, <2>2, <2>3, <2>4
<1> HIDE DEF c
<1>4. QED
  BY <1>1, <1>2, <1>3, IdleSettled, SettledOn

LEMMA RequestSettled ==
  ASSUME IInv, NEW p \in Slots, Request(p)
  PROVE  Settled(call'[p])
<1> DEFINE d == call'[p]
           Fresh == /\ d.deltas = [r \in Rows |-> Nothing] /\ d.line = 1 /\ ~d.active
                    /\ d.op \in Changes => d.order \in Orders
                    /\ d.pc # "commit"
<1>1. p \in DOMAIN call
  BY DEF IInv, TypeOK
<1>2. Fresh
  <2>1. ASSUME NEW o \in Orders, Create(p, o)  PROVE Fresh
    BY <1>1, <2>1 DEF Create, Goto, Idle
  <2>2. ASSUME NEW o \in Orders, NEW op \in {"cancel", "fulfill"}, FindOrder(p, o, op)
        PROVE  Fresh
    BY <1>1, <2>2 DEF FindOrder, Goto, Idle
  <2>3. ASSUME NEW o \in Orders, NEW r \in Rows, NEW n \in ReturnQuantities,
               CreateReturn(p, o, r, n)
        PROVE  Fresh
    BY <1>1, <2>3 DEF CreateReturn, Goto, Idle, Changes
  <2>4. ASSUME NEW r \in Rows, NEW a \in Adjustments, Adjust(p, r, a)  PROVE Fresh
    BY <1>1, <2>4 DEF Adjust, Goto, Idle, Changes
  <2>5. QED
    BY <2>1, <2>2, <2>3, <2>4 DEF Request, Cancel, Fulfill
<1> HIDE DEF d
<1>3. Settled(d)
  BY <1>2, FreshSettled
<1>4. QED
  BY <1>3 DEF d

\* A write puts one more line behind the call.
LEMMA WriteSettled ==
  ASSUME IInv, Counted, NEW p \in Slots, Write(p)
  PROVE  Settled(call'[p])
<1> DEFINE c   == call[p]
           r   == RowOf(c)
           mv  == Movement(c)
           b   == After(c.seen, mv, r, c.buffer)
           new == NewJobs(c, c.seen, b.sellable)
           d   == Written(p, c, r, b, new)
<1>1. c \in Call /\ Shape(c) /\ Settled(c) /\ c.pc = "write" /\ c.op # "none"
  BY CallFacts DEF Write, Shape, Counted
<1>2. r \in Rows /\ mv \in Sum /\ c.deltas \in [Rows -> Sum]
  BY <1>1, RowOfCall, MovementOfCall DEF Call
<1>3. call'[p] = Idle \/ call'[p] = d
  BY DEF Write, Goto, IInv, TypeOK
<1> HIDE DEF b, new
<1>4. /\ d.op = c.op /\ d.order = c.order /\ d.active = c.active
      /\ d.pc = IF ~MoreLines(c) THEN "commit"
                ELSE IF c.op = "create" THEN "check" ELSE "read"
      /\ d.line = IF MoreLines(c) THEN c.line + 1 ELSE 1
      /\ d.deltas[r].reserved = c.deltas[r].reserved + mv.reserved
      /\ \A k \in Rows \ {r} : d.deltas[k] = c.deltas[k]
  <2>1. d = Written(p, c, r, b, new)
    OBVIOUS
  <2> HIDE DEF c, d, r
  <2>2. QED
    BY <1>1, <1>2, <2>1 DEF Written, Call, mv
<1> HIDE DEF d
<1>5. CASE c.op \notin Changes
  <2>1. mv.reserved = 0
    BY <1>5 DEF Movement, Changes
  <2>2. \A k \in Rows : d.deltas[k].reserved = 0
    BY <1>1, <1>2, <1>4, <1>5, <2>1 DEF Settled
  <2>3. d.pc # "lines"
    BY <1>4
  <2>4. QED
    BY <1>3, <1>4, <1>5, <2>2, <2>3, IdleSettled DEF Settled
<1>6. CASE c.op \in Changes
  <2> DEFINE o  == c.order
             n  == c.line
             ln == Lines[o][n]
  <2>1. /\ o \in Orders /\ n \in 1..Len(Lines[o]) /\ Len(Lines[o]) \in Nat
        /\ r = ln.row /\ ln.quantity \in Nat
        /\ c.op = "cancel" => c.active
    BY <1>1, <1>6, LinesOf DEF Shape, RowOf
  <2>2. mv.reserved = IF c.op = "create" THEN ln.quantity ELSE -ln.quantity
    BY <1>6 DEF Movement, Changes
  <2>3. \A k \in Rows : ReservedBy(d, k) = IF c.op = "create" THEN UnitsTo(o, k, n)
                                           ELSE -UnitsTo(o, k, n)
    <3>1. n \in Int /\ Len(Lines[o]) \in Int /\ n <= Len(Lines[o])
      BY <2>1
    <3>2. MoreLines(c) <=> n < Len(Lines[o])
      BY <1>6 DEF MoreLines
    <3>3. d.order = o /\ d.op = c.op
          /\ (MoreLines(c) => d.pc # "commit" /\ d.line = n + 1)
          /\ (~MoreLines(c) => d.pc = "commit")
      BY <1>4
    <3> HIDE DEF o, n, c
    <3>4. CASE MoreLines(c)
      <4>1. d.pc # "commit" /\ d.line - 1 = n
        BY <3>1, <3>3, <3>4
      <4>2. QED
        BY <3>3, <4>1 DEF ReservedBy
    <3>5. CASE ~MoreLines(c)
      <4>1. d.pc = "commit" /\ Len(Lines[o]) = n
        BY <3>1, <3>2, <3>3, <3>5
      <4>2. QED
        BY <3>3, <4>1 DEF ReservedBy
    <3>6. QED
      BY <3>4, <3>5
  <2>4. \A k \in Rows : ReservedBy(c, k) = IF c.op = "create" THEN UnitsTo(o, k, n - 1)
                                           ELSE -UnitsTo(o, k, n - 1)
    BY <1>1 DEF ReservedBy
  <2>5. \A k \in Rows : c.deltas[k].reserved = ReservedBy(c, k)
    BY <1>1, <1>6, <2>1 DEF Settled
  <2>6. \A k \in Rows : /\ UnitsTo(o, k, n) = UnitsTo(o, k, n - 1)
                                                + (IF k = r THEN ln.quantity ELSE 0)
                        /\ UnitsTo(o, k, n - 1) \in Nat
    <3>1. n - 1 \in 0..Len(Lines[o])
      BY <2>1
    <3> HIDE DEF o, n, r
    <3>2. QED
      BY <2>1, <3>1, UnitsToNext, UnitsToType
  <2> HIDE DEF o, n, ln, mv, r, c
  <2>7. \A k \in Rows : d.deltas[k].reserved = ReservedBy(d, k)
    <3> SUFFICES ASSUME NEW k \in Rows  PROVE d.deltas[k].reserved = ReservedBy(d, k)
      OBVIOUS
    <3>1. CASE k = r
      BY <1>4, <2>1, <2>2, <2>3, <2>4, <2>5, <2>6, <3>1
    <3>2. CASE k # r
      BY <1>4, <2>3, <2>4, <2>5, <2>6, <3>2
    <3>3. QED
      BY <3>1, <3>2
  <2>8. d.op = c.op /\ d.pc # "lines" /\ ~(d.op = "cancel" /\ ~d.active)
    BY <1>4, <2>1
  <2>9. Settled(d)
    BY <1>6, <2>7, <2>8 DEF Settled
  <2>10. QED
    BY <1>3, <2>9, IdleSettled DEF c
<1>7. QED
  BY <1>5, <1>6

-----------------------------------------------------------------------------
(* Commit.                                                                 *)

\* An order that becomes active adds what its lines ask, one that ends takes it away.
LEMMA ActiveSum ==
  ASSUME NEW A, A \subseteq Orders, IsFiniteSet(A), NEW r, NEW o \in Orders
  PROVE  LET u == [x \in Orders |-> Units(x, r)]
         IN  /\ SumFunctionOnSet(u, A) \in Nat
             /\ o \notin A => SumFunctionOnSet(u, A \cup {o})
                                = SumFunctionOnSet(u, A) + Units(o, r)
             /\ o \in A => SumFunctionOnSet(u, A \ {o})
                             = SumFunctionOnSet(u, A) - Units(o, r)
<1> DEFINE u == [x \in Orders |-> Units(x, r)]
<1>1. \A x \in Orders : u[x] \in Nat
  BY UnitsOfOrder
<1>2. u[o] = Units(o, r)
  OBVIOUS
<1> HIDE DEF u
<1>3. SumFunctionOnSet(u, A) \in Nat
  BY <1>1, SumSplits
<1>4. ASSUME o \notin A
      PROVE  SumFunctionOnSet(u, A \cup {o}) = u[o] + SumFunctionOnSet(u, A)
  <2>1. \A y \in A \cup {o} : u[y] \in Nat
    BY <1>1
  <2>2. QED
    BY <1>4, <2>1, SumGrows
<1>5. ASSUME o \in A
      PROVE  /\ SumFunctionOnSet(u, A) = u[o] + SumFunctionOnSet(u, A \ {o})
             /\ SumFunctionOnSet(u, A \ {o}) \in Nat
  <2>1. SumFunctionOnSet(u, A) = u[o] + SumFunctionOnSet(u, A \ {o})
    BY <1>1, <1>5, SumSplits
  <2>2. IsFiniteSet(A \ {o}) /\ A \ {o} \subseteq Orders
    BY FS_Subset
  <2> DEFINE B == A \ {o}
  <2> HIDE DEF B
  <2>3. IsFiniteSet(B) /\ B \subseteq Orders
    BY <2>2 DEF B
  <2>4. SumFunctionOnSet(u, B) \in Nat
    BY <1>1, <2>3, SumSplits
  <2>5. QED
    BY <2>1, <2>4 DEF B
<1>6. u[o] \in Nat
  BY <1>1
<1>7. QED
  BY <1>2, <1>3, <1>4, <1>5, <1>6 DEF u

\* What a commit makes of the active orders.
LEMMA CommittedActive ==
  ASSUME IInv, NEW p \in Slots, Commit(p)
  PROVE  LET c == call[p]
         IN  /\ c.op \in Changes => c.order \in Orders
             /\ c.op = "create" => c.order \notin Active /\ Active' = Active \cup {c.order}
             /\ c.op = "fulfill" \/ (c.op = "cancel" /\ c.active) =>
                  Active' = Active \ {c.order}
             /\ c.op \notin Changes \/ (c.op = "cancel" /\ ~c.active) => Active' = Active
<1> DEFINE c == call[p]
           o == c.order
<1>1. /\ c \in Call /\ Shape(c) /\ OrderFacts(c) /\ c.pc = "commit"
      /\ held' = HeldAfter(c) /\ DOMAIN held = Orders
  BY CallFacts DEF Commit, IInv, TypeOK
<1>2. c.op \in Changes => o \in Orders
  BY <1>1 DEF Shape
<1>3. CASE c.op \notin Changes \/ (c.op = "cancel" /\ ~c.active)
  <2>1. held' = held
    BY <1>1, <1>3 DEF HeldAfter, Changes
  <2>2. QED
    BY <1>2, <1>3, <2>1 DEF Active, Changes
<1>4. CASE c.op = "create"
  <2>1. held[o] = "NONE"
    BY <1>1, <1>2, <1>4 DEF OrderFacts, InTransaction, IInv, ReservationFollowsOrder, Changes
  <2>2. held' = [held EXCEPT ![o] = "ACTIVE"]
    BY <1>1, <1>4 DEF HeldAfter, HeldBecomes
  <2>3. QED
    BY <1>1, <1>2, <1>4, <2>1, <2>2 DEF Active, Changes
<1>5. CASE c.op = "fulfill" \/ (c.op = "cancel" /\ c.active)
  <2>1. \/ held' = [held EXCEPT ![o] = "RELEASED"]
        \/ held' = [held EXCEPT ![o] = "FULFILLED"]
    <3>1. CASE c.op = "fulfill"
      BY <1>1, <3>1 DEF HeldAfter, HeldBecomes
    <3>2. CASE c.op = "cancel" /\ c.active
      BY <1>1, <3>2 DEF HeldAfter, HeldBecomes
    <3>3. QED
      BY <1>5, <3>1, <3>2
  <2>2. QED
    BY <1>1, <1>2, <1>5, <2>1 DEF Active, Changes
<1>6. QED
  BY <1>2, <1>3, <1>4, <1>5 DEF Changes

\* What the transaction of a whole order has reserved on each row.
LEMMA CommittedEntries ==
  ASSUME IInv, Books, Counted, NEW p \in Slots, Commit(p), NEW r \in Rows
  PROVE  LET c == call[p]
         IN  /\ c.op = "create" => c.deltas[r].reserved = Units(c.order, r)
             /\ c.op = "fulfill" \/ (c.op = "cancel" /\ c.active) =>
                  c.deltas[r].reserved = -Units(c.order, r)
             /\ c.op \notin Changes \/ (c.op = "cancel" /\ ~c.active) =>
                  c.deltas[r].reserved = 0
<1> DEFINE c == call[p]
<1>1. Settled(c) /\ c.pc = "commit"
  BY DEF Commit, Counted
<1>2. c.op \in Changes => Units(c.order, r) = UnitsTo(c.order, r, Len(Lines[c.order]))
  BY CommittedActive, UnitsOfOrder
<1> HIDE DEF c
<1>3. QED
  BY <1>1, <1>2 DEF Settled, ReservedBy, Changes, c

LEMMA CommitCounted ==
  ASSUME IInv, Books, Counted, NEW p \in Slots, Commit(p)
  PROVE  /\ IsFiniteSet(Active')
         /\ \A r \in Rows \ stale' : moved'[r].reserved = ActiveUnits(r)'
<1> DEFINE c == call[p]
           o == c.order
           gives == c.op = "fulfill" \/ (c.op = "cancel" /\ c.active)
           still == c.op \notin Changes \/ (c.op = "cancel" /\ ~c.active)
<1>1. c.op = "create" \/ gives \/ still
  BY DEF Changes
<1>2. /\ IsFiniteSet(Active) /\ Active \subseteq Orders
      /\ c.op = "create" => /\ o \in Orders /\ o \notin Active
                            /\ Active' = Active \cup {o}
      /\ gives => o \in Orders /\ Active' = Active \ {o}
      /\ still => Active' = Active
  BY CommittedActive DEF Counted, Active, Changes
<1>3. IsFiniteSet(Active')
  BY <1>1, <1>2, FS_AddElement, FS_Subset
<1>4. ASSUME NEW r \in Rows, r \notin stale'
      PROVE  moved'[r].reserved = ActiveUnits(r)'
  <2> DEFINE u == [x \in Orders |-> Units(x, r)]
  <2>1. ActiveUnits(r) = SumFunctionOnSet(u, Active)
        /\ ActiveUnits(r)' = SumFunctionOnSet(u, Active')
    BY DEF ActiveUnits
  <2>2. /\ r \notin stale /\ moved'[r].reserved = moved[r].reserved + c.deltas[r].reserved
        /\ Wrote(c, r) => Clean(c, r)
    BY <1>4, CommittedRow
  <2>3. moved[r].reserved = SumFunctionOnSet(u, Active)
    BY <2>1, <2>2 DEF Counted
  <2>4. /\ c.op = "create" => c.deltas[r].reserved = Units(o, r)
        /\ gives => c.deltas[r].reserved = -Units(o, r)
        /\ still => c.deltas[r].reserved = 0
    BY CommittedEntries
  <2>5. /\ SumFunctionOnSet(u, Active) \in Nat
        /\ o \in Orders /\ o \notin Active =>
             SumFunctionOnSet(u, Active \cup {o}) = SumFunctionOnSet(u, Active) + Units(o, r)
        /\ o \in Orders /\ o \in Active =>
             SumFunctionOnSet(u, Active \ {o}) = SumFunctionOnSet(u, Active) - Units(o, r)
    <3>1. \A x \in Orders : Units(x, r) \in Nat
      BY UnitsOfOrder
    <3>2. SumFunctionOnSet(u, Active) \in Nat
      <4>1. \A x \in Active : u[x] \in Nat
        BY <1>2, <3>1
      <4> HIDE DEF u
      <4>2. QED
        BY <1>2, <4>1, SumSplits
    <3>3. QED
      BY <1>2, <3>2, ActiveSum
  <2>6. gives /\ o \notin Active => c.deltas[r].reserved = 0
    <3> SUFFICES ASSUME gives, o \notin Active  PROVE c.deltas[r].reserved = 0
      OBVIOUS
    <3>1. Ordered(c) /\ Explained(c) /\ c.pc = "commit" /\ held[o] # "ACTIVE"
      BY <1>2 DEF Books, Account, Commit, Active
    <3>2. ~Clean(c, r)
      BY <3>1 DEF Ordered
    <3>3. c.deltas[r] = Nothing
      BY <2>2, <3>1, <3>2 DEF Explained
    <3>4. QED
      BY <3>3 DEF Nothing
  <2> HIDE DEF u, c, o, gives, still
  <2>7. CASE c.op = "create"
    BY <1>2, <2>1, <2>2, <2>3, <2>4, <2>5, <2>7
  <2>8. CASE gives /\ o \in Active
    <3>1. Units(o, r) \in Nat
      BY <1>2, <2>8, UnitsOfOrder
    <3>2. QED
      BY <1>2, <2>1, <2>2, <2>3, <2>4, <2>5, <2>8, <3>1
  <2>9. CASE gives /\ o \notin Active
    <3>1. Active' = Active
      BY <1>2, <2>9
    <3>2. QED
      BY <2>1, <2>2, <2>3, <2>5, <2>6, <2>9, <3>1
  <2>10. CASE still
    BY <1>2, <2>1, <2>2, <2>3, <2>4, <2>5, <2>10
  <2>11. QED
    BY <1>1, <2>7, <2>8, <2>9, <2>10
<1>5. QED
  BY <1>3, <1>4

-----------------------------------------------------------------------------
(* Reservations are counted.                                               *)

\* A step that settles its own call and commits nothing.
LEMMA QuietCounted ==
  ASSUME IInv, Counted, NEW p \in Slots, Settled(call'[p]),
         \A q \in Slots \ {p} : call'[q] = call[q],
         UNCHANGED <<moved, held, stale>>
  PROVE  Counted'
<1>1. \A q \in Slots : Settled(call'[q])
  BY DEF Counted
<1>2. \A q \in Slots : Settled(call[q])'
  BY <1>1 DEF Settled, ReservedBy
<1>3. Active' = Active /\ \A r : ActiveUnits(r)' = ActiveUnits(r)
  BY DEF Active, ActiveUnits
<1>4. QED
  BY <1>2, <1>3 DEF Counted

LEMMA StepCounted ==
  ASSUME IInv, Books, Counted, NEW p \in Slots,
         Request(p) \/ Step(p) \/ Interrupt(p) \/ DeadlockVictim(p)
  PROVE  Counted'
<1>1. \A q \in Slots \ {p} : call'[q] = call[q]
  BY DEF Request, Create, Cancel, Fulfill, FindOrder, CreateReturn, Adjust, Step, ReadLines,
         SumReturns, Insert, Check, Read, Write, Commit, Enqueue, Interrupt, DeadlockVictim,
         Goto, IInv, TypeOK
<1>2. CASE ~Commit(p)
  <2>1. UNCHANGED <<moved, held, stale>>
    BY <1>2 DEF Request, Create, Cancel, Fulfill, FindOrder, CreateReturn, Adjust, Step,
                ReadLines, SumReturns, Insert, Check, Read, Write, Enqueue, Interrupt,
                DeadlockVictim, Unchanged, stock, orders
  <2>2. CASE Enqueue(p) \/ Interrupt(p) \/ DeadlockVictim(p)
    <3>1. call'[p] = Idle
      BY <2>2 DEF Enqueue, Interrupt, DeadlockVictim, Goto, IInv, TypeOK
    <3>2. QED
      BY <1>1, <2>1, <3>1, IdleSettled, QuietCounted
  <2>3. CASE Request(p) \/ ReadLines(p) \/ SumReturns(p) \/ Insert(p) \/ Check(p)
             \/ Read(p) \/ Write(p)
    <3>1. Settled(call'[p])
      BY <2>3, RequestSettled, ReadLinesSettled, QuietSettled, WriteSettled
    <3>2. QED
      BY <1>1, <2>1, <3>1, QuietCounted
  <2>4. QED
    BY <1>2, <2>2, <2>3 DEF Step
<1>3. CASE Commit(p)
  <2> DEFINE c == call[p]
             d == [Idle EXCEPT !.op = c.op, !.pc = "enqueue", !.order = c.order,
                               !.row = c.row, !.created = c.created]
  <2>1. call'[p] = Idle \/ call'[p] = d
    BY <1>3 DEF Commit, Goto, IInv, TypeOK
  <2>2. Settled(d)
    BY DEF Idle, Settled, Nothing
  <2>3. \A q \in Slots : Settled(call'[q])
    BY <1>1, <2>1, <2>2, IdleSettled DEF Counted
  <2>4. \A q \in Slots : Settled(call[q])'
    BY <2>3 DEF Settled, ReservedBy
  <2>5. QED
    BY <1>3, <2>4, CommitCounted DEF Counted
<1>4. QED
  BY <1>2, <1>3

LEMMA NextCounted == IInv /\ Books /\ Counted /\ [Next]_vars => Counted'
<1> SUFFICES ASSUME IInv, Books, Counted, [Next]_vars  PROVE Counted'
  OBVIOUS
<1>1. CASE UNCHANGED vars
  <2>1. UNCHANGED <<moved, held, stale, call>>
    BY <1>1 DEF vars, stock, orders
  <2>2. Active' = Active /\ \A r : ActiveUnits(r)' = ActiveUnits(r)
    BY <2>1 DEF Active, ActiveUnits
  <2>3. \A q \in Slots : Settled(call[q])'
    BY <2>1 DEF Counted, Settled, ReservedBy
  <2>4. QED
    BY <2>1, <2>2, <2>3 DEF Counted
<1>2. CASE Next
  BY <1>2, StepCounted DEF Next
<1>3. QED
  BY <1>1, <1>2

LEMMA InitCounted == Init => Counted
<1> SUFFICES ASSUME Init  PROVE Counted
  OBVIOUS
<1>1. Active = {}
  BY DEF Init, Active
<1>2. \A r : ActiveUnits(r) = 0
  BY <1>1, SumOfNothing DEF ActiveUnits
<1>3. \A r \in Rows : moved[r].reserved = 0
  BY DEF Init, Nothing
<1>4. \A p \in Slots : Settled(call[p])
  BY IdleSettled DEF Init
<1>5. IsFiniteSet(Active)
  BY <1>1, FS_EmptySet
<1>6. QED
  BY <1>2, <1>3, <1>4, <1>5 DEF Counted

\* Whatever creates, cancellations and fulfilments race, roll back or repeat lines,
\* a row that no request wrote from outdated data reserves exactly the units that
\* the lines of the active orders ask of it (START-HERE.md:61).
THEOREM ReservationsAreCounted == Spec => []ReservationsCounted
<1>1. Books /\ Counted => ReservationsCounted
  BY DEF Books, Counted, LedgerExplainsBalance, ReservationsCounted
<1>2. QED
  BY <1>1, InitIInv, NextIInv, InitBooks, NextBooks, InitCounted, NextCounted, PTL DEF Spec
=============================================================================
