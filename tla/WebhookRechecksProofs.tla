------------------------ MODULE WebhookRechecksProofs ------------------------
(***************************************************************************)
(* For any number of requests, workers, changes, attempts and mishaps: a   *)
(* change of Shopify's number that no recheck has read is not forgotten,   *)
(* and a PROCESSED event tells the truth.                                  *)
(*                                                                         *)
(* The strengthening says what each position has secured: a request that   *)
(* is about to answer, and a webhook that Shopify believes accepted, have  *)
(* an event with a job or a recorded failure (Kept); a job ends only with  *)
(* its event closed, or about to be, or stranded (Closed); and a worker    *)
(* that has compared has read Shopify after the change it was told of      *)
(* (Held).                                                                 *)
(***************************************************************************)
EXTENDS WebhookRechecks, SequenceTheorems, TLAPS

\* The event has a job, now or before, or says that it failed.
Good(e) == job[e].state # "absent" \/ events[e].status = "FAILED"

Kept(v) == \E e \in DOMAIN events : events[e].hook = v /\ Good(e)

\* What a request in position r knows.
Knows(r) ==
  /\ r.pc # "idle" => r.hook \in 1..changed
  /\ r.pc = "add" => /\ r.event \in DOMAIN events
                     /\ events[r.event].hook = r.hook
                     /\ job[r.event].state = "absent"
  /\ r.pc = "answer" => Kept(r.hook)

Knowing == \A h \in Handlers : Knows(handler[h])

Apart == \A g, h \in Handlers :
  g # h /\ handler[g].pc = "add" /\ handler[h].pc = "add" => handler[g].event # handler[h].event

Mailed == \A v \in 1..MaxChanges :
  /\ v <= changed <=> mail[v] # "none"
  /\ mail[v] = "accepted" => Kept(v)

Dated == \A e \in DOMAIN events : events[e].hook \in 1..changed

\* What a worker in position x holds.
Holds(x) ==
  x.pc # "idle" =>
    /\ x.event \in DOMAIN job /\ job[x.event].state = "active"
    /\ x.pc = "write" \/ (x.pc = "update" /\ x.end = "compared")
         => compared >= events[x.event].hook

Held == \A w \in Workers : Holds(work[w])

Single == \A w, x \in Workers :
  w # x /\ work[w].pc # "idle" /\ work[x].pc # "idle" => work[w].event # work[x].event

Closed == \A e \in DOMAIN job :
  /\ job[e].state = "done" => events[e].status # "QUEUED"
  /\ job[e].state = "failed" => e \in verdicts \cup stranded \/ events[e].status = "FAILED"

Parts == Knowing /\ Apart /\ Mailed /\ Dated /\ Held /\ Single /\ Closed /\ EventsTruthful
IInv  == TypeOK /\ Parts

-----------------------------------------------------------------------------
(* Facts about rows and positions.                                         *)

LEMMA Blank == NoRequest \in Request /\ NoWork \in Work /\ NoJob \in Job
BY DEF NoRequest, Request, NoWork, Work, NoJob, Job

\* events and job have the same numbering, and entries of the right kind.
LEMMA Rows ==
  ASSUME TypeOK
  PROVE  /\ DOMAIN events = 1..Len(events) /\ DOMAIN job = DOMAIN events /\ Len(events) \in Nat
         /\ \A e \in DOMAIN events : events[e] \in Recheck /\ job[e] \in Job
BY DEF TypeOK

LEMMA KeptStays ==
  ASSUME DOMAIN events \subseteq DOMAIN events',
         \A e \in DOMAIN events : /\ events'[e].hook = events[e].hook
                                  /\ Good(e) => job'[e].state # "absent" \/ events'[e].status = "FAILED",
         NEW v, Kept(v)
  PROVE  Kept(v)'
<1>1. PICK e \in DOMAIN events : events[e].hook = v /\ Good(e)
  BY DEF Kept
<1>2. QED
  BY <1>1 DEF Kept, Good

\* A request that moves while the rows stay.
LEMMA RequestMoved ==
  ASSUME IInv, NEW h \in Handlers, NEW r \in Request,
         handler' = [handler EXCEPT ![h] = r], Knows(r), r.pc # "add",
         UNCHANGED <<changed, store>>
  PROVE  handler' \in [Handlers -> Request] /\ Knowing' /\ Apart'
<1>1. handler' \in [Handlers -> Request] /\ handler'[h] = r
      /\ \A g \in Handlers : g # h => handler'[g] = handler[g]
  BY DEF IInv, TypeOK
<1>2. Knowing'
  <2>1. SUFFICES ASSUME NEW g \in Handlers PROVE Knows(handler[g])'
    BY DEF Knowing
  <2>2. Knows(handler'[g])
    BY <1>1 DEF IInv, Parts, Knowing
  <2>3. QED
    BY <2>2 DEF Knows, Kept, Good, store
<1>3. Apart'
  BY <1>1 DEF IInv, Parts, Apart
<1>4. QED
  BY <1>1, <1>2, <1>3

\* Nothing a request knows changes.
LEMMA RequestsStay ==
  ASSUME IInv, UNCHANGED <<changed, handler, store>>
  PROVE  handler' \in [Handlers -> Request] /\ Knowing' /\ Apart'
BY DEF IInv, TypeOK, Parts, Knowing, Knows, Apart, Kept, Good, store

LEMMA MailStays ==
  ASSUME IInv, UNCHANGED <<changed, mail, store>>
  PROVE  Mailed'
BY DEF IInv, Parts, Mailed, Kept, Good, store

\* The events say no less than before when the rows stay and the histories grow.
LEMMA EventsStay ==
  ASSUME IInv, UNCHANGED store, changed' >= changed, changed' \in Nat, compared' >= compared,
         compared' \in Nat, skipped \subseteq skipped', verdicts \cup stranded \subseteq verdicts' \cup stranded'
  PROVE  Dated' /\ Closed' /\ EventsTruthful'
<1> USE Rows DEF IInv, TypeOK, Parts
<1>1. Dated'
  BY WebhookAssumption DEF Dated, store, WebhookAssumption
<1>2. Closed'
  BY DEF Closed, store
<1>3. EventsTruthful'
  BY DEF EventsTruthful, store, Recheck
<1>4. QED
  BY <1>1, <1>2, <1>3

LEMMA WorkersStay ==
  ASSUME IInv, UNCHANGED <<work, store, compared>>
  PROVE  work' \in [Workers -> Work] /\ Held' /\ Single'
BY DEF IInv, TypeOK, Parts, Held, Holds, Single, store

\* A worker that moves within its job.
LEMMA WorkerMoved ==
  ASSUME IInv, NEW w \in Workers, NEW x \in Work, work[w].pc # "idle",
         work' = [work EXCEPT ![w] = x], x.event = work[w].event, x.pc # "idle",
         UNCHANGED store, compared' >= compared, compared' \in Nat,
         x.pc = "write" \/ (x.pc = "update" /\ x.end = "compared")
           => compared' >= events[x.event].hook
  PROVE  work' \in [Workers -> Work] /\ Held' /\ Single'
<1>1. work' \in [Workers -> Work] /\ work'[w] = x
      /\ \A y \in Workers : y # w => work'[y] = work[y]
  BY DEF IInv, TypeOK
<1>2. Held'
  <2>1. SUFFICES ASSUME NEW y \in Workers, work'[y].pc # "idle"
                 PROVE  /\ work'[y].event \in DOMAIN job /\ job[work'[y].event].state = "active"
                        /\ work'[y].pc = "write" \/ (work'[y].pc = "update" /\ work'[y].end = "compared")
                             => compared' >= events[work'[y].event].hook
    BY DEF Held, Holds, store
  <2>2. Holds(work[y])
    BY DEF IInv, Parts, Held
  <2>3. CASE y = w
    BY <1>1, <2>1, <2>2, <2>3 DEF Holds
  <2>4. CASE y # w
    <3>1. work[y].event \in DOMAIN job /\ events[work[y].event] \in Recheck
      BY <1>1, <2>1, <2>2, <2>4, Rows DEF Holds, IInv
    <3>2. compared \in Nat
      BY DEF IInv, TypeOK
    <3>3. QED
      BY <1>1, <2>1, <2>2, <2>4, <3>1, <3>2 DEF Holds, Recheck
  <2>5. QED
    BY <2>3, <2>4
<1>3. Single'
  BY <1>1 DEF IInv, Parts, Single
<1>4. QED
  BY <1>1, <1>2, <1>3

\* A mishap is paid for.
LEMMA Spent == ASSUME TypeOK, NEW what, Spend(what) PROVE budget' \in 0..Mishaps
<1>1. Cost[what] \in Nat /\ Mishaps \in Nat
  BY WebhookAssumption DEF WebhookAssumption, Spend
<1>2. budget \in 0..Mishaps /\ Cost[what] <= budget /\ budget' = budget - Cost[what]
  BY DEF TypeOK, Spend
<1>3. QED
  BY <1>1, <1>2

-----------------------------------------------------------------------------
(* Steps that leave the rows alone.                                        *)

LEMMA ChangeStep == ASSUME IInv, Change PROVE IInv'
<1> USE DEF Change
<1>1. changed \in Nat /\ compared \in Nat /\ MaxChanges \in Nat /\ changed' = changed + 1
      /\ changed' \in 1..MaxChanges
  BY WebhookAssumption DEF IInv, TypeOK, WebhookAssumption
<1>2. TypeOK'
  BY <1>1 DEF IInv, TypeOK, store, ghosts
<1>3. Dated' /\ Closed' /\ EventsTruthful'
  BY <1>1, EventsStay DEF ghosts
<1>4. Held' /\ Single'
  BY WorkersStay
<1>5. Knowing' /\ Apart'
  BY <1>1 DEF IInv, Parts, Knowing, Knows, Apart, Kept, Good, store
<1>6. Mailed'
  <2>1. SUFFICES ASSUME NEW v \in 1..MaxChanges
                 PROVE  /\ v <= changed' <=> mail'[v] # "none"
                        /\ mail'[v] = "accepted" => Kept(v)
    BY DEF Mailed, Kept, Good, store
  <2>2. mail' = [mail EXCEPT ![changed + 1] = "due"] /\ mail \in [1..MaxChanges -> {"none", "due", "accepted", "dropped"}]
    BY <1>1 DEF IInv, TypeOK
  <2>3. CASE v = changed + 1
    BY <1>1, <2>2, <2>3
  <2>4. CASE v # changed + 1
    <3>1. mail'[v] = mail[v] /\ (v <= changed' <=> v <= changed)
      BY <1>1, <2>2, <2>4
    <3>2. QED
      BY <3>1 DEF IInv, Parts, Mailed
  <2>5. QED
    BY <2>3, <2>4
<1>7. QED
  BY <1>2, <1>3, <1>4, <1>5, <1>6 DEF IInv, Parts

LEMMA DeliverStep == ASSUME IInv, NEW h \in Handlers, NEW v \in 1..MaxChanges, Deliver(h, v) PROVE IInv'
<1> DEFINE r == [pc |-> "verify", hook |-> v, event |-> 0]
<1>1. /\ r \in Request /\ r.pc = "verify" /\ r.hook = v
      /\ handler' = [handler EXCEPT ![h] = r] /\ mail[v] = "due"
      /\ UNCHANGED <<changed, compared, mail, setup, store, work, verdicts, ghosts>>
      /\ budget' \in 0..Mishaps
  <2>1. v \in Nat
    BY WebhookAssumption DEF WebhookAssumption
  <2>2. budget' \in 0..Mishaps
    BY Spent DEF Deliver, IInv, TypeOK
  <2>3. QED
    BY <2>1, <2>2 DEF Deliver, Request
<1> HIDE DEF r
<1>2. v \in 1..changed
  BY <1>1 DEF IInv, Parts, Mailed, TypeOK
<1>3. Knows(r)
  BY <1>1, <1>2 DEF Knows
<1>4. handler' \in [Handlers -> Request] /\ Knowing' /\ Apart'
  BY <1>1, <1>3, RequestMoved
<1>5. Mailed' /\ Dated' /\ Closed' /\ EventsTruthful' /\ Held' /\ Single'
  BY <1>1, MailStays, EventsStay, WorkersStay DEF IInv, TypeOK, ghosts
<1>6. TypeOK'
  BY <1>1, <1>4 DEF IInv, TypeOK, store, ghosts
<1>7. QED
  BY <1>4, <1>5, <1>6 DEF IInv, Parts

LEMMA GiveUpStep == ASSUME IInv, NEW v \in 1..MaxChanges, GiveUp(v) PROVE IInv'
<1>1. /\ mail[v] = "due" /\ mail' = [mail EXCEPT ![v] = "dropped"]
      /\ UNCHANGED <<changed, compared, setup, handler, store, work, verdicts, ghosts>>
      /\ budget' \in 0..Mishaps
  BY Spent DEF GiveUp, IInv, TypeOK
<1>2. TypeOK'
  BY <1>1 DEF IInv, TypeOK, store, ghosts
<1>3. Mailed'
  BY <1>1 DEF IInv, Parts, Mailed, TypeOK, Kept, Good, store
<1>4. QED
  BY <1>1, <1>2, <1>3, RequestsStay, EventsStay, WorkersStay DEF IInv, Parts, TypeOK, ghosts

LEMMA SettingStep == ASSUME IInv, NEW x \in Settings, Break(x) \/ Restore(x) PROVE IInv'
<1>1. /\ UNCHANGED <<changed, compared, intake, store, work, verdicts, ghosts>>
      /\ budget' \in 0..Mishaps /\ setup' \subseteq Settings
  BY Spent DEF Break, Restore, IInv, TypeOK
<1>2. TypeOK'
  BY <1>1 DEF IInv, TypeOK, store, ghosts, intake
<1>3. QED
  BY <1>1, <1>2, RequestsStay, MailStays, EventsStay, WorkersStay DEF IInv, Parts, TypeOK, ghosts, intake

\* A request that moves to a position it may be in, or answers with an error.
LEMMA RequestOnly ==
  ASSUME IInv, NEW h \in Handlers, NEW r \in Request,
         handler' = [handler EXCEPT ![h] = r], Knows(r), r.pc # "add",
         UNCHANGED <<changed, compared, mail, setup, store, work, verdicts, skipped>>,
         stranded \subseteq stranded', stranded' \subseteq DOMAIN events, budget' \in 0..Mishaps
  PROVE  IInv'
<1>1. handler' \in [Handlers -> Request] /\ Knowing' /\ Apart'
  BY RequestMoved
<1>2. TypeOK'
  BY <1>1 DEF IInv, TypeOK, store
<1>3. QED
  BY <1>1, <1>2, MailStays, EventsStay, WorkersStay DEF IInv, Parts, TypeOK

LEMMA LookupStep == ASSUME IInv, NEW h \in Handlers, Admit(h) \/ FindMapping(h) PROVE IInv'
<1>1. handler[h] \in Request /\ Knows(handler[h]) /\ handler[h].pc \in {"verify", "mapping"}
  BY DEF IInv, TypeOK, Parts, Knowing, Admit, FindMapping
<1> DEFINE Moves(r) == /\ handler' = [handler EXCEPT ![h] = r]
                       /\ r.pc \in {"idle", "mapping", "create", "refuse"}
                       /\ r.pc # "idle" => r.hook = handler[h].hook
<1>2. PICK r \in Request : Moves(r)
  <2>1. CASE handler' = [handler EXCEPT ![h] = NoRequest]
    BY <2>1, Blank DEF NoRequest
  <2>2. ASSUME NEW pc \in {"mapping", "create", "refuse"}, handler' = [handler EXCEPT ![h].pc = pc]
        PROVE  \E r \in Request : Moves(r)
    <3> DEFINE r == [handler[h] EXCEPT !.pc = pc]
    <3>1. r \in Request /\ r.pc = pc /\ r.hook = handler[h].hook
      BY <1>1 DEF Request
    <3>2. QED
      BY <2>2, <3>1
  <2>3. \/ handler' = [handler EXCEPT ![h] = NoRequest]
        \/ \E pc \in {"mapping", "create", "refuse"} : handler' = [handler EXCEPT ![h].pc = pc]
    BY DEF Admit, FindMapping, Continue, Answered
  <2>4. QED
    BY <2>1, <2>2, <2>3
<1>3. Knows(r)
  BY <1>1, <1>2 DEF Knows
<1>4. UNCHANGED <<changed, compared, mail, setup, store, work, verdicts, ghosts, budget>>
  BY DEF Admit, FindMapping
<1>5. QED
  BY <1>2, <1>3, <1>4, RequestOnly DEF ghosts, IInv, TypeOK

LEMMA AcceptStep == ASSUME IInv, NEW h \in Handlers, Accept(h) PROVE IInv'
<1> DEFINE v == handler[h].hook
<1>1. /\ mail' = [mail EXCEPT ![v] = "accepted"] /\ handler' = [handler EXCEPT ![h] = NoRequest]
      /\ UNCHANGED <<changed, compared, setup, store, work, verdicts, ghosts, budget>>
  BY DEF Accept, Answered
<1>2. v \in 1..changed /\ Kept(v)
  BY DEF Accept, IInv, Parts, Knowing, Knows
<1> HIDE DEF v
<1>3. handler' \in [Handlers -> Request] /\ Knowing' /\ Apart'
  BY <1>1, Blank, RequestMoved DEF Knows, NoRequest
<1>4. Mailed'
  BY <1>1, <1>2 DEF IInv, Parts, Mailed, TypeOK, Kept, Good, store
<1>5. TypeOK'
  BY <1>1, <1>2, <1>3 DEF IInv, TypeOK, store, ghosts
<1>6. QED
  BY <1>1, <1>3, <1>4, <1>5, EventsStay, WorkersStay DEF IInv, Parts, TypeOK, ghosts

LEMMA RequestFailsStep == ASSUME IInv, NEW h \in Handlers, RequestFails(h) PROVE IInv'
<1>1. /\ handler' = [handler EXCEPT ![h] = NoRequest]
      /\ UNCHANGED <<changed, compared, mail, setup, store, work, verdicts, skipped>>
      /\ stranded' \in {stranded, IF handler[h].pc = "add" THEN stranded \cup {handler[h].event} ELSE stranded}
      /\ budget' \in 0..Mishaps
  BY Spent DEF RequestFails, Answered, IInv, TypeOK
<1>2. stranded \subseteq stranded' /\ stranded' \subseteq DOMAIN events
  BY <1>1 DEF IInv, TypeOK, Parts, Knowing, Knows
<1>3. QED
  BY <1>1, <1>2, Blank, RequestOnly DEF Knows, NoRequest

\* A worker that moves within its job while nothing else does.
LEMMA WorkOnly ==
  ASSUME IInv, NEW w \in Workers, NEW x \in Work, work[w].pc # "idle",
         work' = [work EXCEPT ![w] = x], x.event = work[w].event, x.pc # "idle",
         UNCHANGED <<changed, intake, setup, store, verdicts, ghosts>>,
         compared' >= compared, compared' \in 0..changed, budget' \in 0..Mishaps,
         x.pc = "write" \/ (x.pc = "update" /\ x.end = "compared")
           => compared' >= events[x.event].hook
  PROVE  IInv'
<1>1. compared' \in Nat
  BY DEF IInv, TypeOK
<1>2. work' \in [Workers -> Work] /\ Held' /\ Single'
  BY <1>1, WorkerMoved
<1>3. TypeOK'
  BY <1>1, <1>2 DEF IInv, TypeOK, store, ghosts, intake
<1>4. QED
  BY <1>1, <1>2, <1>3, RequestsStay, MailStays, EventsStay DEF IInv, Parts, TypeOK, ghosts, intake

LEMMA WorkerLocalStep ==
  ASSUME IInv, NEW w \in Workers,
         \/ ReadConfig(w) \/ ReadRow(w) \/ ReadMapping(w) \/ Compare(w)
         \/ WriteDrift(w) \/ ReportManual(w) \/ CompareFails(w)
  PROVE  IInv'
<1>1. /\ work[w] \in Work /\ Holds(work[w]) /\ compared \in Nat /\ changed \in Nat /\ compared <= changed
  BY DEF IInv, TypeOK, Parts, Held
<1>2. /\ work[w].pc # "idle"
      /\ UNCHANGED <<changed, intake, setup, store, verdicts, ghosts>>
      /\ budget' \in 0..Mishaps
  BY Spent DEF ReadConfig, ReadRow, ReadMapping, Compare, WriteDrift, ReportManual, CompareFails, IInv, TypeOK
<1>3. events[work[w].event].hook \in 1..changed
  BY <1>1, <1>2, Rows DEF Holds, IInv, Parts, Dated
<1>4. ASSUME NEW pc \in {"row", "mapping", "compare", "report"}, work' = [work EXCEPT ![w].pc = pc],
             compared' = compared
      PROVE  IInv'
  <2> DEFINE x == [work[w] EXCEPT !.pc = pc]
  <2>1. x \in Work /\ x.pc = pc /\ x.event = work[w].event /\ work' = [work EXCEPT ![w] = x]
    BY <1>1, <1>4 DEF Work
  <2> HIDE DEF x
  <2>2. compared' >= compared /\ compared' \in 0..changed
    BY <1>1, <1>4
  <2>3. x.pc # "idle" /\ ~(x.pc = "write" \/ (x.pc = "update" /\ x.end = "compared"))
    BY <2>1
  <2>4. QED
    BY <1>2, <2>1, <2>2, <2>3, WorkOnly
<1>5. CASE Compare(w)
  <2> DEFINE x == [work[w] EXCEPT !.pc = "write"]
  <2>1. x \in Work /\ x.pc = "write" /\ x.event = work[w].event /\ work' = [work EXCEPT ![w] = x]
    BY <1>1, <1>5 DEF Work, Compare, Goto
  <2>2. compared' = changed
    BY <1>5 DEF Compare
  <2> HIDE DEF x
  <2>3. compared' >= compared /\ compared' \in 0..changed
    BY <1>1, <2>2
  <2>4. compared' >= events[x.event].hook
    BY <1>1, <1>3, <2>1, <2>2
  <2>5. QED
    BY <1>2, <2>1, <2>3, <2>4, WorkOnly
<1>6. ASSUME NEW end \in {"compared", "manual", "skipped"}, compared' = compared,
             work' = [work EXCEPT ![w].pc = "update", ![w].end = end],
             end = "compared" => work[w].pc = "write"
      PROVE  IInv'
  <2> DEFINE x == [work[w] EXCEPT !.pc = "update", !.end = end]
  <2>1. x \in Work /\ x.pc = "update" /\ x.end = end /\ x.event = work[w].event
    BY <1>1 DEF Work
  <2>2. work' = [work EXCEPT ![w] = x]
    BY <1>1, <1>6 DEF Work, IInv, TypeOK
  <2> HIDE DEF x
  <2>3. end = "compared" => compared' >= events[x.event].hook
    BY <1>1, <1>2, <1>6, <2>1 DEF Holds
  <2>4. compared' >= compared /\ compared' \in 0..changed
    BY <1>1, <1>6
  <2>5. QED
    BY <1>2, <2>1, <2>2, <2>3, <2>4, WorkOnly
<1>7. QED
  BY <1>4, <1>5, <1>6 DEF ReadConfig, ReadRow, ReadMapping, WriteDrift, ReportManual, CompareFails, Goto, Ending

-----------------------------------------------------------------------------
(* Steps that add a row or change one.                                     *)

LEMMA Inserted ==
  ASSUME IInv, NEW h \in Handlers, NEW s \in {"QUEUED", "FAILED"}, Insert(h, s),
         handler[h].hook \in 1..changed
  PROVE  /\ events' \in Seq(Recheck) /\ job' \in Seq(Job) /\ Len(job') = Len(events')
         /\ DOMAIN events' = DOMAIN events \cup {Len(events) + 1}
         /\ DOMAIN job' = DOMAIN job \cup {Len(events) + 1}
         /\ Len(events) + 1 \notin DOMAIN events
         /\ \A e \in DOMAIN events : events'[e] = events[e] /\ job'[e] = job[e]
         /\ events'[Len(events) + 1] = [hook |-> handler[h].hook, status |-> s]
         /\ job'[Len(events) + 1] = NoJob
<1> DEFINE row == [hook |-> handler[h].hook, status |-> s]
<1>1. row \in Recheck
  BY DEF IInv, TypeOK, Recheck
<1> HIDE DEF row
<1>2. events' = Append(events, row) /\ job' = Append(job, NoJob)
  BY DEF Insert, row
<1>3. events \in Seq(Recheck) /\ job \in Seq(Job) /\ Len(job) = Len(events)
  BY DEF IInv, TypeOK
<1>4. QED
  BY <1>1, <1>2, <1>3, Blank DEF row

LEMMA InsertKeeps ==
  ASSUME IInv, NEW h \in Handlers, NEW s \in {"QUEUED", "FAILED"}, Insert(h, s),
         handler[h].hook \in 1..changed
  PROVE  /\ \A v : Kept(v) => Kept(v)'
         /\ Mailed' /\ Dated' /\ Held' /\ Single' /\ Closed' /\ EventsTruthful'
<1> DEFINE n == Len(events) + 1
<1>1. /\ DOMAIN events' = DOMAIN events \cup {n} /\ DOMAIN job' = DOMAIN job \cup {n}
      /\ \A e \in DOMAIN events : events'[e] = events[e] /\ job'[e] = job[e]
      /\ events'[n] = [hook |-> handler[h].hook, status |-> s] /\ job'[n] = NoJob
  BY Inserted
<1>2. DOMAIN job = DOMAIN events
  BY Rows DEF IInv
<1>3. UNCHANGED <<changed, compared, mail, setup, work, verdicts, ghosts>>
  BY DEF Insert
<1> HIDE DEF n
<1>4. ASSUME NEW v, Kept(v) PROVE Kept(v)'
  BY <1>1, <1>4, KeptStays DEF Good
<1>5. Mailed'
  BY <1>3, <1>4 DEF IInv, Parts, Mailed
<1>6. Dated'
  BY <1>1, <1>3 DEF IInv, Parts, Dated
<1>7. Held' /\ Single'
  BY <1>1, <1>2, <1>3 DEF IInv, Parts, Held, Holds, Single
<1>8. Closed'
  BY <1>1, <1>2, <1>3 DEF IInv, Parts, Closed, NoJob, ghosts
<1>9. EventsTruthful'
  BY <1>1, <1>3 DEF IInv, Parts, EventsTruthful, ghosts
<1>10. QED
  BY <1>4, <1>5, <1>6, <1>7, <1>8, <1>9

LEMMA RefuseStep == ASSUME IInv, NEW h \in Handlers, Refuse(h) PROVE IInv'
<1> DEFINE r == [handler[h] EXCEPT !.pc = "answer"]
           n == Len(events) + 1
<1>1. /\ r \in Request /\ r.pc = "answer" /\ r.hook = handler[h].hook
      /\ handler' = [handler EXCEPT ![h] = r] /\ handler[h].hook \in 1..changed
      /\ Insert(h, "FAILED")
  BY DEF Refuse, Continue, Request, IInv, TypeOK, Parts, Knowing, Knows
<1>2. /\ events' \in Seq(Recheck) /\ job' \in Seq(Job) /\ Len(job') = Len(events')
      /\ DOMAIN events' = DOMAIN events \cup {n}
      /\ \A e \in DOMAIN events : events'[e] = events[e] /\ job'[e] = job[e]
      /\ events'[n] = [hook |-> handler[h].hook, status |-> "FAILED"]
  BY <1>1, Inserted
<1> HIDE DEF r, n
<1>3. /\ \A v : Kept(v) => Kept(v)'
      /\ Mailed' /\ Dated' /\ Held' /\ Single' /\ Closed' /\ EventsTruthful'
  BY <1>1, InsertKeeps
<1>4. UNCHANGED <<changed, compared, mail, setup, work, verdicts, ghosts, budget>>
  BY <1>1 DEF Insert
<1>5. /\ handler' \in [Handlers -> Request] /\ handler'[h] = r
      /\ \A g \in Handlers \ {h} : handler'[g] = handler[g]
  BY <1>1 DEF IInv, TypeOK
<1>6. Kept(handler[h].hook)'
  <2>1. \E e \in DOMAIN events' : events'[e].hook = handler[h].hook /\ events'[e].status = "FAILED"
    BY <1>2
  <2>2. QED
    BY <1>1, <1>5, <2>1 DEF Kept, Good
<1>7. Knowing'
  <2>1. SUFFICES ASSUME NEW g \in Handlers PROVE Knows(handler[g])'
    BY DEF Knowing
  <2>2. CASE g = h
    BY <1>1, <1>4, <1>5, <1>6, <2>2 DEF Knows
  <2>3. CASE g # h
    BY <1>2, <1>3, <1>4, <1>5, <2>3 DEF IInv, Parts, Knowing, Knows
  <2>4. QED
    BY <2>2, <2>3
<1>8. Apart'
  BY <1>1, <1>5 DEF IInv, Parts, Apart
<1>9. TypeOK'
  BY <1>2, <1>4, <1>5 DEF IInv, TypeOK, ghosts
<1>10. QED
  BY <1>3, <1>7, <1>8, <1>9 DEF IInv, Parts

LEMMA CreateStep == ASSUME IInv, NEW h \in Handlers, CreateEvent(h) PROVE IInv'
<1> DEFINE n == Len(events) + 1
           r == [handler[h] EXCEPT !.pc = "add", !.event = n]
<1>1. n \in Nat /\ handler[h] \in Request /\ handler[h].pc = "create"
  BY Rows DEF CreateEvent, IInv, TypeOK
<1>2. /\ r \in Request /\ r.pc = "add" /\ r.hook = handler[h].hook /\ r.event = n
      /\ handler' = [handler EXCEPT ![h] = r] /\ handler[h].hook \in 1..changed
      /\ Insert(h, "QUEUED")
  BY <1>1 DEF CreateEvent, Request, IInv, TypeOK, Parts, Knowing, Knows
<1>3. /\ events' \in Seq(Recheck) /\ job' \in Seq(Job) /\ Len(job') = Len(events')
      /\ DOMAIN events' = DOMAIN events \cup {n} /\ n \notin DOMAIN events
      /\ \A e \in DOMAIN events : events'[e] = events[e] /\ job'[e] = job[e]
      /\ events'[n] = [hook |-> handler[h].hook, status |-> "QUEUED"] /\ job'[n] = NoJob
  BY <1>2, Inserted
<1> HIDE DEF r, n
<1>4. /\ \A v : Kept(v) => Kept(v)'
      /\ Mailed' /\ Dated' /\ Held' /\ Single' /\ Closed' /\ EventsTruthful'
  BY <1>2, InsertKeeps
<1>5. UNCHANGED <<changed, compared, mail, setup, work, verdicts, ghosts, budget>>
  BY <1>2 DEF Insert
<1>6. /\ handler' \in [Handlers -> Request] /\ handler'[h] = r
      /\ \A g \in Handlers \ {h} : handler'[g] = handler[g]
  BY <1>2 DEF IInv, TypeOK
<1>7. Knowing'
  <2>1. SUFFICES ASSUME NEW g \in Handlers PROVE Knows(handler[g])'
    BY DEF Knowing
  <2>2. CASE g = h
    BY <1>2, <1>3, <1>5, <1>6, <2>2 DEF Knows, NoJob
  <2>3. CASE g # h
    BY <1>3, <1>4, <1>5, <1>6, <2>3 DEF IInv, Parts, Knowing, Knows
  <2>4. QED
    BY <2>2, <2>3
<1>8. Apart'
  <2>1. \A g \in Handlers : handler[g].pc = "add" => handler[g].event # n
    BY <1>3 DEF IInv, Parts, Knowing, Knows
  <2>2. QED
    BY <1>2, <1>6, <2>1 DEF IInv, Parts, Apart
<1>9. TypeOK'
  BY <1>3, <1>5, <1>6 DEF IInv, TypeOK, ghosts
<1>10. QED
  BY <1>4, <1>7, <1>8, <1>9 DEF IInv, Parts

\* The row and the job of event e become [hook, status s] and j.
Becomes(e, j, s) ==
  /\ job' = [job EXCEPT ![e] = j]
  /\ events' = [events EXCEPT ![e] = [hook |-> events[e].hook, status |-> s]]

LEMMA RowSet ==
  ASSUME TypeOK, NEW e \in DOMAIN events, NEW j \in Job, NEW s \in {"QUEUED", "PROCESSED", "FAILED"},
         Becomes(e, j, s)
  PROVE  /\ events' \in Seq(Recheck) /\ job' \in Seq(Job) /\ Len(job') = Len(events')
         /\ DOMAIN events' = DOMAIN events /\ DOMAIN job' = DOMAIN job
         /\ events'[e].hook = events[e].hook /\ events'[e].status = s /\ job'[e] = j
         /\ \A d \in DOMAIN events : d # e => events'[d] = events[d] /\ job'[d] = job[d]
<1>1. [hook |-> events[e].hook, status |-> s] \in Recheck
  BY Rows DEF Recheck
<1>2. QED
  BY <1>1, Rows DEF TypeOK, Becomes

\* Leaving the job alone, and leaving the row alone, are special cases.
LEMMA SameRow ==
  ASSUME TypeOK, NEW e \in DOMAIN events
  PROVE  /\ job[e] \in Job /\ events[e].status \in {"QUEUED", "PROCESSED", "FAILED"}
         /\ job' = job => job' = [job EXCEPT ![e] = job[e]]
         /\ events' = events => events' = [events EXCEPT ![e] = [hook |-> events[e].hook, status |-> events[e].status]]
<1>1. events[e] \in Recheck /\ job[e] \in Job
  BY Rows
<1>2. [hook |-> events[e].hook, status |-> events[e].status] = events[e]
  BY <1>1 DEF Recheck
<1>3. [events EXCEPT ![e] = events[e]] = events /\ [job EXCEPT ![e] = job[e]] = job
  BY DEF TypeOK
<1>4. QED
  BY <1>1, <1>2, <1>3 DEF Recheck

\* What such a change keeps.  A job once added is never absent again.
LEMMA RowKeeps ==
  ASSUME IInv, NEW e \in DOMAIN events, NEW j \in Job, NEW s \in {"QUEUED", "PROCESSED", "FAILED"},
         Becomes(e, j, s), UNCHANGED <<changed, compared>>,
         j.state # "absent" \/ s = "FAILED",
         skipped \subseteq skipped', verdicts \cup stranded \subseteq verdicts' \cup stranded' \cup {e},
         j.state = "done" => s # "QUEUED",
         j.state = "failed" => e \in verdicts' \cup stranded' \/ s = "FAILED",
         s = "PROCESSED" => compared >= events[e].hook \/ e \in skipped'
  PROVE  /\ \A v : Kept(v) => Kept(v)'
         /\ Dated' /\ Closed' /\ EventsTruthful'
<1>1. /\ DOMAIN events' = DOMAIN events /\ DOMAIN job' = DOMAIN job /\ DOMAIN job = DOMAIN events
      /\ events'[e].hook = events[e].hook /\ events'[e].status = s /\ job'[e] = j
      /\ \A d \in DOMAIN events : d # e => events'[d] = events[d] /\ job'[d] = job[d]
  BY RowSet, Rows DEF IInv
<1>2. ASSUME NEW v, Kept(v) PROVE Kept(v)'
  BY <1>1, <1>2, KeptStays DEF Good
<1>3. Dated'
  BY <1>1 DEF IInv, Parts, Dated
<1>4. Closed'
  BY <1>1 DEF IInv, Parts, Closed
<1>5. EventsTruthful'
  BY <1>1 DEF IInv, Parts, EventsTruthful
<1>6. QED
  BY <1>2, <1>3, <1>4, <1>5

\* Requests that stay know no less when it is not their event that changes.
LEMMA RequestsKeep ==
  ASSUME IInv, NEW e \in DOMAIN events, NEW j \in Job, NEW s \in {"QUEUED", "PROCESSED", "FAILED"},
         Becomes(e, j, s), UNCHANGED <<changed, mail, handler>>,
         job[e].state = "absent" => j.state = "absent",
         \A v : Kept(v) => Kept(v)'
  PROVE  handler' \in [Handlers -> Request] /\ Knowing' /\ Apart' /\ Mailed'
<1>1. /\ DOMAIN events' = DOMAIN events
      /\ events'[e].hook = events[e].hook /\ job'[e] = j
      /\ \A d \in DOMAIN events : d # e => events'[d] = events[d] /\ job'[d] = job[d]
  BY RowSet DEF IInv
<1>2. Knowing'
  <2>1. SUFFICES ASSUME NEW g \in Handlers PROVE Knows(handler[g])'
    BY DEF Knowing
  <2>2. Knows(handler[g])
    BY DEF IInv, Parts, Knowing
  <2>3. handler'[g] = handler[g]
    OBVIOUS
  <2>4. QED
    BY <1>1, <2>2, <2>3 DEF Knows
<1>3. Apart'
  BY DEF IInv, Parts, Apart
<1>4. Mailed'
  BY DEF IInv, Parts, Mailed
<1>5. QED
  BY <1>2, <1>3, <1>4 DEF IInv, TypeOK

\* A worker that leaves its job behind, waiting or ended.
LEMMA WorkerLeft ==
  ASSUME IInv, NEW w \in Workers, work[w].pc # "idle", NEW j \in Job,
         NEW s \in {"QUEUED", "PROCESSED", "FAILED"}, Becomes(EventOf(w), j, s),
         Leave(w), UNCHANGED compared
  PROVE  work' \in [Workers -> Work] /\ Held' /\ Single'
<1> DEFINE e == EventOf(w)
<1>1. e \in DOMAIN events /\ e = work[w].event
  BY Rows DEF IInv, Parts, Held, Holds, EventOf
<1> HIDE DEF e
<1>2. /\ DOMAIN job' = DOMAIN job /\ DOMAIN job = DOMAIN events
      /\ \A d \in DOMAIN events : d # e => events'[d] = events[d] /\ job'[d] = job[d]
  <2>1. Becomes(e, j, s)
    BY DEF e
  <2>2. QED
    BY <1>1, <2>1, RowSet, Rows DEF IInv
<1>3. /\ work' \in [Workers -> Work] /\ work'[w].pc = "idle"
      /\ \A x \in Workers : x # w => work'[x] = work[x]
  BY Blank DEF Leave, NoWork, IInv, TypeOK
<1>4. \A x \in Workers : x # w /\ work[x].pc # "idle" => work[x].event # e
  BY <1>1 DEF IInv, Parts, Single
<1>5. Held'
  BY <1>2, <1>3, <1>4 DEF IInv, Parts, Held, Holds
<1>6. Single'
  BY <1>3 DEF IInv, Parts, Single
<1>7. QED
  BY <1>3, <1>5, <1>6

\* Workers hold active jobs, so another job may change under them.
LEMMA WorkersKeep ==
  ASSUME IInv, NEW e \in DOMAIN events, NEW j \in Job, NEW s \in {"QUEUED", "PROCESSED", "FAILED"},
         Becomes(e, j, s), job[e].state = "active" => j.state = "active",
         UNCHANGED <<work, compared>>
  PROVE  work' \in [Workers -> Work] /\ Held' /\ Single'
<1>1. /\ DOMAIN job' = DOMAIN job /\ DOMAIN job = DOMAIN events
      /\ events'[e].hook = events[e].hook /\ job'[e] = j
      /\ \A d \in DOMAIN events : d # e => events'[d] = events[d] /\ job'[d] = job[d]
  BY RowSet, Rows DEF IInv
<1>2. Held'
  BY <1>1 DEF IInv, Parts, Held, Holds
<1>3. QED
  BY <1>2 DEF IInv, TypeOK, Parts, Single

LEMMA AddJobStep == ASSUME IInv, NEW h \in Handlers, AddJob(h) PROVE IInv'
<1> DEFINE e == handler[h].event
           j == [job[e] EXCEPT !.state = "waiting"]
           r == [handler[h] EXCEPT !.pc = "answer"]
           s == events[e].status
<1>1. /\ e \in DOMAIN events /\ job[e].state = "absent" /\ events[e].hook = handler[h].hook
      /\ handler[h].hook \in 1..changed /\ handler[h] \in Request /\ handler[h].pc = "add"
  BY DEF AddJob, IInv, TypeOK, Parts, Knowing, Knows
<1>2. job[e] \in Job /\ s \in {"QUEUED", "PROCESSED", "FAILED"}
  BY <1>1, Rows DEF IInv, Recheck
<1>3. j \in Job /\ j.state = "waiting"
  BY <1>2 DEF Job
<1>4. /\ r \in Request /\ r.pc = "answer" /\ r.hook = handler[h].hook
      /\ handler' = [handler EXCEPT ![h] = r]
  BY <1>1 DEF AddJob, Continue, Request, IInv, TypeOK
<1>5. Becomes(e, j, s)
  <2>1. job' = [job EXCEPT ![e] = j] /\ events' = events
    BY <1>1 DEF AddJob
  <2>2. QED
    BY <1>1, <2>1, SameRow DEF Becomes, IInv
<1>6. UNCHANGED <<changed, compared, mail, setup, work, verdicts, ghosts, budget>>
  BY DEF AddJob
<1>7. s = "PROCESSED" => compared >= events[e].hook \/ e \in skipped'
  BY <1>1, <1>6 DEF IInv, Parts, EventsTruthful, ghosts
<1> HIDE DEF e, j, r, s
<1>8. /\ events' \in Seq(Recheck) /\ job' \in Seq(Job) /\ Len(job') = Len(events')
      /\ DOMAIN events' = DOMAIN events /\ events'[e].hook = events[e].hook /\ job'[e] = j
      /\ \A d \in DOMAIN events : d # e => events'[d] = events[d] /\ job'[d] = job[d]
  BY <1>1, <1>2, <1>3, <1>5, RowSet DEF IInv
<1>9. /\ \A v : Kept(v) => Kept(v)'
      /\ Dated' /\ Closed' /\ EventsTruthful'
  BY <1>1, <1>2, <1>3, <1>5, <1>6, <1>7, RowKeeps DEF ghosts
<1>10. /\ handler' \in [Handlers -> Request] /\ handler'[h] = r
       /\ \A g \in Handlers \ {h} : handler'[g] = handler[g]
  BY <1>4 DEF IInv, TypeOK
<1>11. Knowing'
  <2>1. SUFFICES ASSUME NEW g \in Handlers PROVE Knows(handler[g])'
    BY DEF Knowing
  <2>2. CASE g = h
    BY <1>1, <1>3, <1>4, <1>6, <1>8, <1>10, <2>2 DEF Knows, Kept, Good
  <2>3. CASE g # h
    <3>1. handler[g].pc = "add" => handler[g].event # e
      BY <1>1, <2>3 DEF e, IInv, Parts, Apart
    <3>2. QED
      BY <1>6, <1>8, <1>9, <1>10, <2>3, <3>1 DEF IInv, Parts, Knowing, Knows
  <2>4. QED
    BY <2>2, <2>3
<1>12. Apart'
  BY <1>4, <1>10 DEF IInv, Parts, Apart
<1>13. Mailed'
  BY <1>6, <1>9 DEF IInv, Parts, Mailed
<1>14. Held' /\ Single'
  BY <1>1, <1>2, <1>3, <1>5, <1>6, WorkersKeep
<1>15. TypeOK'
  BY <1>6, <1>8, <1>10 DEF IInv, TypeOK, ghosts
<1>16. QED
  BY <1>9, <1>11, <1>12, <1>13, <1>14, <1>15 DEF IInv, Parts

LEMMA TakeStep == ASSUME IInv, NEW w \in Workers, NEW e \in DOMAIN job, Take(w, e) PROVE IInv'
<1> DEFINE j == [job[e] EXCEPT !.state = "active"]
           s == events[e].status
           x == [pc |-> "config", event |-> e, end |-> "skipped"]
<1>1. /\ e \in DOMAIN events /\ e \in Nat /\ job[e] \in Job /\ s \in {"QUEUED", "PROCESSED", "FAILED"}
      /\ job[e].state = "waiting"
  BY Rows DEF IInv, Recheck, Take
<1>2. j \in Job /\ j.state = "active" /\ x \in Work /\ x.event = e /\ x.pc = "config"
  BY <1>1 DEF Job, Work
<1>3. Becomes(e, j, s)
  <2>1. job' = [job EXCEPT ![e] = j] /\ events' = events
    BY <1>1 DEF Take
  <2>2. QED
    BY <1>1, <2>1, SameRow DEF Becomes, IInv
<1>4. UNCHANGED <<changed, compared, intake, setup, events, verdicts, ghosts, budget>> /\ work' = [work EXCEPT ![w] = x]
  BY DEF Take
<1>5. s = "PROCESSED" => compared >= events[e].hook \/ e \in skipped'
  BY <1>1, <1>4 DEF IInv, Parts, EventsTruthful, ghosts
<1> HIDE DEF j, s, x
<1>6. /\ events' \in Seq(Recheck) /\ job' \in Seq(Job) /\ Len(job') = Len(events')
      /\ DOMAIN events' = DOMAIN events /\ DOMAIN job' = DOMAIN job /\ job'[e] = j
      /\ \A d \in DOMAIN events : d # e => events'[d] = events[d] /\ job'[d] = job[d]
  BY <1>1, <1>2, <1>3, RowSet DEF IInv
<1>7. /\ \A v : Kept(v) => Kept(v)'
      /\ Dated' /\ Closed' /\ EventsTruthful'
  BY <1>1, <1>2, <1>3, <1>4, <1>5, RowKeeps DEF ghosts
<1>8. handler' \in [Handlers -> Request] /\ Knowing' /\ Apart' /\ Mailed'
  BY <1>1, <1>2, <1>3, <1>4, <1>7, RequestsKeep DEF intake
<1>9. /\ work' \in [Workers -> Work] /\ work'[w] = x
      /\ \A y \in Workers : y # w => work'[y] = work[y]
  BY <1>2, <1>4 DEF IInv, TypeOK
<1>10. \A y \in Workers : work[y].pc # "idle" => work[y].event # e
  BY <1>1 DEF IInv, Parts, Held, Holds
<1>11. Held'
  <2>1. SUFFICES ASSUME NEW y \in Workers PROVE Holds(work[y])'
    BY DEF Held
  <2>2. CASE y = w
    BY <1>2, <1>6, <1>9, <2>2 DEF Holds
  <2>3. CASE y # w
    BY <1>1, <1>4, <1>6, <1>9, <1>10, <2>3, Rows DEF IInv, Parts, Held, Holds
  <2>4. QED
    BY <2>2, <2>3
<1>12. Single'
  BY <1>2, <1>9, <1>10 DEF IInv, Parts, Single
<1>13. TypeOK'
  BY <1>4, <1>6, <1>8, <1>9 DEF IInv, TypeOK, ghosts, intake
<1>14. QED
  BY <1>7, <1>8, <1>11, <1>12, <1>13 DEF IInv, Parts

\* A worker ends its job one way or another.
LEMMA JobEnds ==
  ASSUME IInv, NEW w \in Workers, work[w].pc # "idle", NEW e \in DOMAIN events, e = EventOf(w),
         NEW j \in Job, NEW s \in {"QUEUED", "PROCESSED", "FAILED"}, Becomes(e, j, s), Leave(w),
         UNCHANGED <<changed, compared, intake, setup>>, budget' \in 0..Mishaps,
         j.state # "absent",
         verdicts' \subseteq DOMAIN events, skipped' \subseteq DOMAIN events, stranded' \subseteq DOMAIN events,
         skipped \subseteq skipped', verdicts \cup stranded \subseteq verdicts' \cup stranded' \cup {e},
         j.state = "done" => s # "QUEUED",
         j.state = "failed" => e \in verdicts' \cup stranded' \/ s = "FAILED",
         s = "PROCESSED" => compared >= events[e].hook \/ e \in skipped'
  PROVE  IInv'
<1>1. job[e].state = "active"
  BY DEF EventOf, IInv, Parts, Held, Holds
<1>2. /\ events' \in Seq(Recheck) /\ job' \in Seq(Job) /\ Len(job') = Len(events')
      /\ DOMAIN events' = DOMAIN events
  BY RowSet DEF IInv
<1>3. /\ \A v : Kept(v) => Kept(v)'
      /\ Dated' /\ Closed' /\ EventsTruthful'
  BY RowKeeps
<1>4. handler' \in [Handlers -> Request] /\ Knowing' /\ Apart' /\ Mailed'
  BY <1>1, <1>3, RequestsKeep DEF intake
<1>5. work' \in [Workers -> Work] /\ Held' /\ Single'
  BY WorkerLeft
<1>6. TypeOK'
  BY <1>2, <1>4, <1>5 DEF IInv, TypeOK, intake
<1>7. QED
  BY <1>3, <1>4, <1>5, <1>6 DEF IInv, Parts

\* What a busy worker's job and event are.
LEMMA BusyFacts ==
  ASSUME IInv, NEW w \in Workers, work[w].pc # "idle"
  PROVE  /\ EventOf(w) \in DOMAIN events /\ job[EventOf(w)] \in Job /\ events[EventOf(w)] \in Recheck
         /\ work[w] \in Work
         /\ events[EventOf(w)].status \in {"QUEUED", "PROCESSED", "FAILED"}
         /\ events[EventOf(w)].status = "PROCESSED"
              => compared >= events[EventOf(w)].hook \/ EventOf(w) \in skipped
<1>1. EventOf(w) \in DOMAIN events /\ work[w] \in Work
  BY Rows DEF EventOf, IInv, TypeOK, Parts, Held, Holds
<1>2. QED
  BY <1>1, Rows DEF IInv, Parts, EventsTruthful, Recheck

\* What the event's update leaves behind, whether or not its answer arrives.
LEMMA RecordFacts ==
  ASSUME IInv, NEW w \in Workers, Record(w)
  PROVE  \E s \in {"PROCESSED", "FAILED"} :
           LET e == EventOf(w)
           IN  /\ events' = [events EXCEPT ![e] = [hook |-> events[e].hook, status |-> s]]
               /\ skipped \subseteq skipped' /\ skipped' \subseteq DOMAIN events
               /\ s = "PROCESSED" => compared >= events[e].hook \/ e \in skipped'
<1> DEFINE e == EventOf(w)
           s == IF work[w].end = "manual" THEN "FAILED" ELSE "PROCESSED"
<1>1. /\ e \in DOMAIN events /\ events[e] \in Recheck /\ work[w] \in Work
      /\ work[w].pc = "update"
  BY BusyFacts DEF Record
<1>2. events' = [events EXCEPT ![e] = [hook |-> events[e].hook, status |-> s]]
  <2>1. [events[e] EXCEPT !.status = s] = [hook |-> events[e].hook, status |-> s]
    BY <1>1 DEF Recheck
  <2>2. QED
    BY <1>1, <2>1 DEF Record
<1>3. skipped' = IF work[w].end = "skipped" THEN skipped \cup {e} ELSE skipped
  BY DEF Record
<1>4. skipped \subseteq skipped' /\ skipped' \subseteq DOMAIN events
  BY <1>1, <1>3 DEF IInv, TypeOK
<1>5. s = "PROCESSED" => compared >= events[e].hook \/ e \in skipped'
  <2>1. work[w].end \in {"compared", "manual", "skipped"}
    BY <1>1 DEF Work
  <2>2. work[w].end = "compared" => compared >= events[e].hook
    BY <1>1 DEF EventOf, IInv, Parts, Held, Holds
  <2>3. QED
    BY <1>3, <2>1, <2>2
<1>6. s \in {"PROCESSED", "FAILED"}
  OBVIOUS
<1> HIDE DEF s
<1>7. QED
  BY <1>2, <1>4, <1>5, <1>6

\* An attempt that is interrupted leaves its event alone or has closed it.
LEMMA InterruptedFacts ==
  ASSUME IInv, NEW w \in Workers, work[w].pc # "idle", Interrupted(w)
  PROVE  \E s \in {"QUEUED", "PROCESSED", "FAILED"} :
           LET e == EventOf(w)
           IN  /\ events' = [events EXCEPT ![e] = [hook |-> events[e].hook, status |-> s]]
               /\ skipped \subseteq skipped' /\ skipped' \subseteq DOMAIN events
               /\ s = "PROCESSED" => compared >= events[e].hook \/ e \in skipped'
<1>1. CASE Record(w)
  BY <1>1, RecordFacts
<1>2. CASE UNCHANGED <<events, skipped>>
  <2> DEFINE e == EventOf(w)
             s == events[e].status
  <2>1. /\ e \in DOMAIN events /\ s \in {"QUEUED", "PROCESSED", "FAILED"}
        /\ s = "PROCESSED" => compared >= events[e].hook \/ e \in skipped
    BY BusyFacts
  <2>2. events' = [events EXCEPT ![e] = [hook |-> events[e].hook, status |-> s]]
    BY <1>2, <2>1, SameRow DEF IInv
  <2>3. skipped' = skipped /\ skipped \subseteq DOMAIN events
    BY <1>2 DEF IInv, TypeOK
  <2> HIDE DEF s
  <2>4. QED
    BY <2>1, <2>2, <2>3
<1>3. QED
  BY <1>1, <1>2 DEF Interrupted

LEMMA CloseStep == ASSUME IInv, NEW w \in Workers, CloseEvent(w) PROVE IInv'
<1> DEFINE e == EventOf(w)
           j == [job[e] EXCEPT !.state = "done"]
<1>1. e \in DOMAIN events /\ job[e] \in Job /\ work[w].pc = "update"
  BY BusyFacts DEF CloseEvent, Record
<1>2. j \in Job /\ j.state = "done"
  BY <1>1 DEF Job
<1>3. PICK s \in {"PROCESSED", "FAILED"} :
        /\ events' = [events EXCEPT ![e] = [hook |-> events[e].hook, status |-> s]]
        /\ skipped \subseteq skipped' /\ skipped' \subseteq DOMAIN events
        /\ s = "PROCESSED" => compared >= events[e].hook \/ e \in skipped'
  BY RecordFacts DEF CloseEvent
<1>4. Becomes(e, j, s)
  BY <1>1, <1>3 DEF CloseEvent, Becomes, IInv, TypeOK
<1>5. UNCHANGED <<changed, compared, intake, setup, verdicts, stranded, budget>> /\ Leave(w)
  BY DEF CloseEvent
<1> HIDE DEF j
<1>6. QED
  BY <1>1, <1>2, <1>3, <1>4, <1>5, JobEnds DEF IInv, TypeOK

LEMMA ThrowsStep == ASSUME IInv, NEW w \in Workers, Throws(w) PROVE IInv'
<1> DEFINE e == EventOf(w)
           made == job[e].made + 1
           next == IF made >= Attempts THEN "failed" ELSE "waiting"
           j == [job[e] EXCEPT !.made = made, !.state = next]
<1>1. e \in DOMAIN events /\ job[e] \in Job /\ work[w].pc # "idle"
  BY BusyFacts DEF Throws
<1>2. j \in Job /\ j.state = next
  <2>1. next \in {"waiting", "failed"} /\ made \in Nat
    BY <1>1 DEF Job
  <2> HIDE DEF next, made
  <2>2. QED
    BY <1>1, <2>1 DEF Job
<1>3. PICK s \in {"QUEUED", "PROCESSED", "FAILED"} :
        /\ events' = [events EXCEPT ![e] = [hook |-> events[e].hook, status |-> s]]
        /\ skipped \subseteq skipped' /\ skipped' \subseteq DOMAIN events
        /\ s = "PROCESSED" => compared >= events[e].hook \/ e \in skipped'
  BY <1>1, InterruptedFacts DEF Throws
<1>4. Becomes(e, j, s)
  <2>1. job' = [job EXCEPT ![e] = j]
    BY <1>1 DEF Throws, IInv, TypeOK
  <2>2. QED
    BY <1>3, <2>1 DEF Becomes
<1>5. /\ UNCHANGED <<changed, compared, intake, setup, stranded>> /\ Leave(w)
      /\ verdicts' = IF next = "failed" THEN verdicts \cup {e} ELSE verdicts
      /\ budget' \in 0..Mishaps
  BY Spent DEF Throws, IInv
<1>6. next \in {"failed", "waiting"}
  OBVIOUS
<1> HIDE DEF made, next, j
<1>7. QED
  BY <1>1, <1>2, <1>3, <1>4, <1>5, <1>6, JobEnds DEF IInv, TypeOK

LEMMA WorkerDiesStep == ASSUME IInv, NEW w \in Workers, WorkerDies(w) PROVE IInv'
<1> DEFINE e == EventOf(w)
           next == IF job[e].stalls < StallLimit THEN "waiting" ELSE "failed"
           more == job[e].stalls + 1
           j == [job[e] EXCEPT !.stalls = more, !.state = next]
<1>1. e \in DOMAIN events /\ job[e] \in Job /\ work[w].pc # "idle"
  BY BusyFacts DEF WorkerDies
<1>2. j \in Job /\ j.state = next
  <2>1. next \in {"waiting", "failed"} /\ more \in Nat
    BY <1>1 DEF Job
  <2> HIDE DEF next, more
  <2>2. QED
    BY <1>1, <2>1 DEF Job
<1>3. PICK s \in {"QUEUED", "PROCESSED", "FAILED"} :
        /\ events' = [events EXCEPT ![e] = [hook |-> events[e].hook, status |-> s]]
        /\ skipped \subseteq skipped' /\ skipped' \subseteq DOMAIN events
        /\ s = "PROCESSED" => compared >= events[e].hook \/ e \in skipped'
  BY <1>1, InterruptedFacts DEF WorkerDies
<1>4. Becomes(e, j, s)
  <2>1. job' = [job EXCEPT ![e] = j]
    BY <1>1 DEF WorkerDies, IInv, TypeOK
  <2>2. QED
    BY <1>3, <2>1 DEF Becomes
<1>5. /\ UNCHANGED <<changed, compared, intake, setup, verdicts>> /\ Leave(w)
      /\ stranded' = IF next = "failed" THEN stranded \cup {e} ELSE stranded
      /\ budget' \in 0..Mishaps
  BY Spent DEF WorkerDies, IInv
<1>6. next \in {"failed", "waiting"}
  OBVIOUS
<1> HIDE DEF more, next, j
<1>7. QED
  BY <1>1, <1>2, <1>3, <1>4, <1>5, <1>6, JobEnds DEF IInv, TypeOK

LEMMA VerdictStep == ASSUME IInv, NEW e \in DOMAIN events, VerdictArrives(e) PROVE IInv'
<1> DEFINE j == job[e]
<1>1. j \in Job /\ events[e] \in Recheck
  BY Rows DEF IInv
<1>2. Becomes(e, j, "FAILED")
  <2>1. [events[e] EXCEPT !.status = "FAILED"] = [hook |-> events[e].hook, status |-> "FAILED"]
    BY <1>1 DEF Recheck
  <2>2. QED
    BY <2>1, SameRow DEF VerdictArrives, Becomes, IInv
<1>3. /\ UNCHANGED <<changed, compared, intake, setup, job, work, ghosts, budget>>
      /\ verdicts' = verdicts \ {e}
  BY DEF VerdictArrives
<1> HIDE DEF j
<1>4. /\ events' \in Seq(Recheck) /\ job' \in Seq(Job) /\ Len(job') = Len(events')
      /\ DOMAIN events' = DOMAIN events
  BY <1>1, <1>2, RowSet DEF IInv
<1>5. /\ \A v : Kept(v) => Kept(v)'
      /\ Dated' /\ Closed' /\ EventsTruthful'
  BY <1>1, <1>2, <1>3, RowKeeps DEF ghosts
<1>6. handler' \in [Handlers -> Request] /\ Knowing' /\ Apart' /\ Mailed'
  BY <1>1, <1>2, <1>3, <1>5, RequestsKeep DEF intake, j
<1>7. work' \in [Workers -> Work] /\ Held' /\ Single'
  BY <1>1, <1>2, <1>3, WorkersKeep DEF j
<1>8. TypeOK'
  BY <1>3, <1>4, <1>6, <1>7 DEF IInv, TypeOK, intake, ghosts
<1>9. QED
  BY <1>5, <1>6, <1>7, <1>8 DEF IInv, Parts

LEMMA VerdictLostStep == ASSUME IInv, NEW e \in DOMAIN events, VerdictLost(e) PROVE IInv'
<1>1. /\ UNCHANGED <<changed, compared, intake, setup, store, work, skipped>>
      /\ verdicts' = verdicts \ {e} /\ stranded' = stranded \cup {e}
      /\ budget' \in 0..Mishaps
  BY Spent DEF VerdictLost, IInv
<1>2. TypeOK'
  BY <1>1 DEF IInv, TypeOK, store, intake
<1>3. /\ changed' >= changed /\ changed' \in Nat /\ compared' >= compared /\ compared' \in Nat
      /\ skipped \subseteq skipped' /\ verdicts \cup stranded \subseteq verdicts' \cup stranded'
  BY <1>1 DEF IInv, TypeOK
<1>4. Dated' /\ Closed' /\ EventsTruthful'
  BY <1>1, <1>3, EventsStay
<1>5. QED
  BY <1>1, <1>2, <1>4, RequestsStay, MailStays, WorkersStay DEF IInv, Parts, intake

-----------------------------------------------------------------------------
(* The theorems.                                                           *)

LEMMA InvInit == Init => IInv
<1>1. SUFFICES ASSUME Init PROVE IInv
  OBVIOUS
<1>2. events = <<>> /\ job = <<>> /\ DOMAIN events = {} /\ DOMAIN job = {}
  BY <1>1 DEF Init
<1>3. TypeOK
  BY <1>1, <1>2, Blank, WebhookAssumption DEF Init, TypeOK, WebhookAssumption
<1>4. Knowing /\ Apart /\ Held /\ Single
  BY <1>1 DEF Init, Knowing, Knows, Apart, Held, Holds, Single, NoRequest, NoWork
<1>5. Mailed
  BY <1>1 DEF Init, Mailed
<1>6. Dated /\ Closed /\ EventsTruthful
  BY <1>2 DEF Dated, Closed, EventsTruthful
<1>7. QED
  BY <1>3, <1>4, <1>5, <1>6 DEF IInv, Parts

LEMMA InvNext == ASSUME IInv, [Next]_vars PROVE IInv'
<1>1. CASE Change
  BY <1>1, ChangeStep
<1>2. ASSUME NEW v \in 1..MaxChanges, GiveUp(v) PROVE IInv'
  BY <1>2, GiveUpStep
<1>3. ASSUME NEW v \in 1..MaxChanges, NEW h \in Handlers, Deliver(h, v) PROVE IInv'
  BY <1>3, DeliverStep
<1>4. ASSUME NEW x \in Settings, Break(x) \/ Restore(x) PROVE IInv'
  BY <1>4, SettingStep
<1>5. ASSUME NEW h \in Handlers, HandlerStep(h) \/ RequestFails(h) PROVE IInv'
  BY <1>5, LookupStep, RefuseStep, CreateStep, AddJobStep, AcceptStep, RequestFailsStep DEF HandlerStep
<1>6. ASSUME NEW w \in Workers, WorkerStep(w) \/ CompareFails(w) \/ Throws(w) \/ WorkerDies(w)
      PROVE  IInv'
  BY <1>6, WorkerLocalStep, CloseStep, ThrowsStep, WorkerDiesStep DEF WorkerStep
<1>7. ASSUME NEW w \in Workers, NEW e \in DOMAIN job, Take(w, e) PROVE IInv'
  BY <1>7, TakeStep
<1>8. ASSUME NEW e \in DOMAIN events, VerdictArrives(e) \/ VerdictLost(e) PROVE IInv'
  BY <1>8, VerdictStep, VerdictLostStep
<1>9. CASE UNCHANGED vars
  <2>1. UNCHANGED <<changed, compared, intake, setup, store, work, verdicts, ghosts, budget>>
    BY <1>9 DEF vars
  <2>2. TypeOK'
    BY <2>1 DEF IInv, TypeOK, intake, store, ghosts
  <2>3. /\ changed' >= changed /\ changed' \in Nat /\ compared' >= compared /\ compared' \in Nat
        /\ skipped \subseteq skipped' /\ verdicts \cup stranded \subseteq verdicts' \cup stranded'
    BY <2>1 DEF IInv, TypeOK, ghosts
  <2>4. Dated' /\ Closed' /\ EventsTruthful'
    BY <2>1, <2>3, EventsStay
  <2>5. QED
    BY <2>1, <2>2, <2>4, RequestsStay, MailStays, WorkersStay DEF IInv, Parts, intake
<1>10. QED
  BY <1>1, <1>2, <1>3, <1>4, <1>5, <1>6, <1>7, <1>8, <1>9 DEF Next

LEMMA InvAlways == Spec => []IInv
<1>1. Init => IInv
  BY InvInit
<1>2. IInv /\ [Next]_vars => IInv'
  BY InvNext
<1>3. QED
  BY <1>1, <1>2, PTL DEF Spec

\* Every state of the intake has the types TypeOK gives it: recheck events and
\* jobs keep one numbering, and no recheck reads what has not happened.
THEOREM TypeCorrect == Spec => []TypeOK
<1>1. IInv => TypeOK
  BY DEF IInv
<1>2. QED
  BY <1>1, InvAlways, PTL

\* A PROCESSED recheck event is never a lie: Shopify was read after the change it
\* announces (recheck-processor.service.ts, process), or the channel was inactive.
THEOREM ProcessedMeansRead == Spec => []EventsTruthful
<1>1. IInv => EventsTruthful
  BY DEF IInv, Parts
<1>2. QED
  BY <1>1, InvAlways, PTL

\* handleInventoryLevelsUpdate, the queue and the worker between them forget no
\* change that no recheck has read.
THEOREM ChangesCovered == Spec => []UnseenChangesCovered
<1>1. IInv => UnseenChangesCovered
  <2>1. SUFFICES ASSUME IInv, NEW v \in (compared + 1)..changed
                 PROVE  \/ mail[v] \in {"due", "dropped"}
                        \/ \E e \in DOMAIN events : events[e].hook = v /\ Minded(e)
    BY DEF UnseenChangesCovered
  <2>2. v \in 1..MaxChanges /\ v <= changed /\ ~(compared >= v)
    BY <2>1, WebhookAssumption DEF IInv, TypeOK, WebhookAssumption
  <2>3. mail[v] \in {"due", "dropped", "accepted"}
    BY <2>1, <2>2 DEF IInv, TypeOK, Parts, Mailed
  <2>4. SUFFICES ASSUME mail[v] = "accepted"
                 PROVE  \E e \in DOMAIN events : events[e].hook = v /\ Minded(e)
    BY <2>3
  <2>5. PICK e \in DOMAIN events : events[e].hook = v /\ Good(e)
    BY <2>1, <2>2, <2>4 DEF IInv, Parts, Mailed, Kept
  <2>6. /\ e \in DOMAIN job /\ events[e].status \in {"QUEUED", "PROCESSED", "FAILED"}
        /\ job[e].state \in {"absent", "waiting", "active", "done", "failed"}
    BY <2>1, Rows DEF IInv, Recheck, Job
  <2>7. events[e].status = "PROCESSED" => e \in skipped
    BY <2>1, <2>2, <2>5 DEF IInv, Parts, EventsTruthful
  <2>8. Minded(e)
    BY <2>1, <2>5, <2>6, <2>7 DEF IInv, Parts, Closed, Good, Minded
  <2>9. QED
    BY <2>5, <2>8
<1>2. QED
  BY <1>1, InvAlways, PTL
=============================================================================
