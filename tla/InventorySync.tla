----------------------------- MODULE InventorySync -----------------------------
(***************************************************************************)
(* The way of a stock change to the Shopify channel: the outbox row that   *)
(* the movement's transaction leaves, the BullMQ job that carries its id,  *)
(* the sync workers and the channel's own number.                          *)
(*                                                                         *)
(* Outbox rows are numbered in the order they are committed, and BullMQ    *)
(* keeps at most one job per row because the row's id is the job id: while *)
(* a job of that id is known - also as a finished one - adding it again    *)
(* does nothing.  A request's way between its commit and its add is a      *)
(* member of adding; any number of requests may be on that way.            *)
(***************************************************************************)
EXTENDS Integers, Sequences, FiniteSetsExt

CONSTANTS
  Rows,          \* stock rows mapped to Shopify
  Workers,       \* concurrent executions of the sync worker (5 per process)
  Quantities,    \* sellable quantities
  Attempts,      \* BullMQ attempts of a sync job (8 in the code)
  StallLimit,    \* stalls BullMQ hands a job on after (maxStalledCount, 1)
  MaxJobs,       \* bound: outbox rows
  Mishaps        \* bound: retries, evictions, switches and failures, in any mix

Jobs     == 1..MaxJobs
Statuses == {"QUEUED", "SYNCING", "SUCCEEDED", "FAILED"}
PCs      == {"idle", "load", "begin", "config", "push", "succeed", "fail",
             "return", "throw"}

ASSUME SyncAssumption ==
  /\ Quantities \subseteq Nat /\ Quantities # {}
  /\ Attempts \in Nat \ {0}
  /\ StallLimit \in Nat
  /\ MaxJobs \in Nat
  /\ Mishaps \in Nat

VARIABLES
  sellable,  \* inventory_balance.sellable_quantity
  channel,   \* the quantity Shopify shows
  linked,    \* rows whose channel config and sku mapping are active
  outbox,    \* inventory_sync_outbox: [row, target, status], oldest first
  adding,    \* outbox rows whose request is about to add their job
  bull,      \* per outbox row: its BullMQ job
  work,      \* what each worker slot is doing
  budget,    \* mishaps left
  pushed,    \* history: outbox rows whose target Shopify has taken
  overtaken, \* history: stock rows that took an older target after a newer one
  forgotten  \* history: outbox rows whose last job will not run for them (again)

tables  == <<sellable, outbox>>
shopify == <<channel, pushed, overtaken>>
vars    == <<tables, shopify, linked, adding, bull, work, budget, forgotten>>

Row     == [row : Rows, target : Quantities, status : Statuses]
BullJob == [state : {"absent", "waiting", "active", "finished"},
            made : Nat, stalls : Nat]
Work    == [pc : PCs, job : Jobs \cup {0}, terminal : BOOLEAN]

Idle   == [pc |-> "idle", job |-> 0, terminal |-> FALSE]
Absent == [state |-> "absent", made |-> 0, stalls |-> 0]

JobOf(w) == work[w].job
RowOf(j) == outbox[j].row

Goto(w, pc) == work' = [work EXCEPT ![w].pc = pc]
Spend == /\ budget > 0
         /\ budget' = budget - 1
SetStatus(j, s) == outbox' = [outbox EXCEPT ![j].status = s]

Init ==
  /\ sellable \in [Rows -> Quantities]
  /\ channel = sellable
  /\ linked = Rows
  /\ outbox = <<>>
  /\ adding = {}
  /\ bull = [j \in Jobs |-> Absent]
  /\ work = [w \in Workers |-> Idle]
  /\ budget = Mishaps
  /\ pushed = {}
  /\ overtaken = {}
  /\ forgotten = {}

-------------------------------------------------------------------------------
(* Requests *)

\* Mutant: only falling stock leaves an outbox row
ChangeOnDecrease(r, n) ==
  /\ n # sellable[r]
  /\ Len(outbox) < MaxJobs
  /\ sellable' = [sellable EXCEPT ![r] = n]
  /\ IF n < sellable[r]
     THEN /\ outbox' = Append(outbox, [row |-> r, target |-> n, status |-> "QUEUED"])
          /\ adding' = adding \cup {Len(outbox) + 1}
     ELSE UNCHANGED <<outbox, adding>>
  /\ UNCHANGED <<shopify, linked, bull, work, budget, forgotten>>

\* A movement that changes the sellable quantity commits with its outbox row.
Change(r, n) ==
  /\ n # sellable[r]
  /\ Len(outbox) < MaxJobs
  /\ sellable' = [sellable EXCEPT ![r] = n]
  /\ outbox' = Append(outbox, [row |-> r, target |-> n, status |-> "QUEUED"])
  /\ adding' = adding \cup {Len(outbox) + 1}
  /\ UNCHANGED <<shopify, linked, bull, work, budget, forgotten>>

\* Mutant: the job is not added again
RetryForgetsAdd(j) ==
  /\ j \in DOMAIN outbox
  /\ Spend
  /\ SetStatus(j, "QUEUED")
  /\ UNCHANGED <<sellable, shopify, linked, adding, bull, work, forgotten>>

\* retry resets the row whatever its status is and then adds its job.
Retry(j) ==
  /\ j \in DOMAIN outbox
  /\ Spend
  /\ SetStatus(j, "QUEUED")
  /\ adding' = adding \cup {j}
  /\ UNCHANGED <<sellable, shopify, linked, bull, work, forgotten>>

\* The processor has returned for the row: its job, finished or about to be,
\* does nothing more for it.
Returned(j) ==
  \/ bull[j].state = "finished"
  \/ \E w \in Workers : work[w].pc = "return" /\ JobOf(w) = j

\* enqueueJob: BullMQ takes the job unless it knows one of that id, finished or
\* not; the add that is ignored after the processor has returned is lost.
EnqueueJob(j) ==
  /\ j \in adding
  /\ adding' = adding \ {j}
  /\ bull' = IF bull[j].state = "absent"
             THEN [bull EXCEPT ![j].state = "waiting"] ELSE bull
  /\ forgotten' = IF Returned(j) THEN forgotten \cup {j} ELSE forgotten \ {j}
  /\ UNCHANGED <<tables, shopify, linked, work, budget>>

\* The process dies or Redis refuses after the commit: nothing adds the job.
LoseJob(j) ==
  /\ j \in adding
  /\ Spend
  /\ adding' = adding \ {j}
  /\ forgotten' = forgotten \cup {j}
  /\ UNCHANGED <<tables, shopify, linked, bull, work>>

\* removeOnComplete, removeOnFail: BullMQ forgets old finished jobs.
Evict(j) ==
  /\ bull[j].state = "finished"
  /\ Spend
  /\ bull' = [bull EXCEPT ![j] = Absent]
  /\ UNCHANGED <<tables, shopify, linked, adding, work, forgotten>>

\* An operator switches the channel config or the sku mapping.
Toggle(r) ==
  /\ Spend
  /\ linked' = IF r \in linked THEN linked \ {r} ELSE linked \cup {r}
  /\ UNCHANGED <<tables, shopify, adding, bull, work, forgotten>>

-------------------------------------------------------------------------------
(* Workers *)

\* The worker picks up a job; backed-off jobs come back in any order.
Take(w, j) ==
  /\ work[w] = Idle
  /\ bull[j].state = "waiting"
  /\ bull' = [bull EXCEPT ![j].state = "active"]
  /\ work' = [work EXCEPT ![w] = [Idle EXCEPT !.pc = "load", !.job = j]]
  /\ UNCHANGED <<tables, shopify, linked, adding, budget, forgotten>>

\* A row that has succeeded is skipped.
Load(w) ==
  /\ work[w].pc = "load"
  /\ Goto(w, IF outbox[JobOf(w)].status = "SUCCEEDED" THEN "return" ELSE "begin")
  /\ UNCHANGED <<tables, shopify, linked, adding, bull, budget, forgotten>>

\* The attempt is logged and the row set to SYNCING.
Begin(w) ==
  /\ work[w].pc = "begin"
  /\ SetStatus(JobOf(w), "SYNCING")
  /\ Goto(w, "config")
  /\ UNCHANGED <<sellable, shopify, linked, adding, bull, budget, forgotten>>

\* Mutant: a switched-off channel only ends the attempt
ReadConfigSkips(w) ==
  /\ work[w].pc = "config"
  /\ Goto(w, IF RowOf(JobOf(w)) \in linked THEN "push" ELSE "return")
  /\ UNCHANGED <<tables, shopify, linked, adding, bull, budget, forgotten>>

\* Without an active config and mapping the attempt is the last.
ReadConfig(w) ==
  /\ work[w].pc = "config"
  /\ IF RowOf(JobOf(w)) \in linked
     THEN Goto(w, "push")
     ELSE work' = [work EXCEPT ![w].pc = "fail", ![w].terminal = TRUE]
  /\ UNCHANGED <<tables, shopify, linked, adding, bull, budget, forgotten>>

\* Shopify takes the target of the row.
Applied(w) ==
  LET j == JobOf(w)
      r == RowOf(j)
  IN  /\ channel' = [channel EXCEPT ![r] = outbox[j].target]
      /\ pushed' = pushed \cup {j}
      /\ overtaken' = IF \E i \in pushed : RowOf(i) = r /\ i > j
                      THEN overtaken \cup {r} ELSE overtaken

\* The catch block decides whether this attempt was the last.
Caught(w) ==
  work' = [work EXCEPT ![w].pc = "fail",
                       ![w].terminal = bull[JobOf(w)].made + 1 >= Attempts]

Push(w) ==
  /\ work[w].pc = "push"
  /\ Applied(w)
  /\ Goto(w, "succeed")
  /\ UNCHANGED <<tables, linked, adding, bull, budget, forgotten>>

\* Mutant: a refused call is taken for a success
RefusedUnnoticed(w) ==
  /\ work[w].pc = "push"
  /\ Spend
  /\ UNCHANGED shopify \/ Applied(w)
  /\ Goto(w, "succeed")
  /\ UNCHANGED <<tables, linked, adding, bull, forgotten>>

\* Shopify refuses, or its answer is lost after it took the target.
Refused(w) ==
  /\ work[w].pc = "push"
  /\ Spend
  /\ UNCHANGED shopify \/ Applied(w)
  /\ Caught(w)
  /\ UNCHANGED <<tables, linked, adding, bull, forgotten>>

Succeed(w) ==
  /\ work[w].pc = "succeed"
  /\ SetStatus(JobOf(w), "SUCCEEDED")
  /\ Goto(w, "return")
  /\ UNCHANGED <<sellable, shopify, linked, adding, bull, budget, forgotten>>

\* A last attempt is recorded as FAILED and returns, any other throws.
Fail(w) ==
  LET last == work[w].terminal
  IN  /\ work[w].pc = "fail"
      /\ SetStatus(JobOf(w), IF last THEN "FAILED" ELSE "QUEUED")
      /\ Goto(w, IF last THEN "return" ELSE "throw")
      /\ UNCHANGED <<sellable, shopify, linked, adding, bull, budget, forgotten>>

\* A Postgres call rejects: inside the try block the attempt fails, before it
\* and in fail the processor throws.
DatabaseFails(w) ==
  /\ Spend
  /\ \/ work[w].pc \in {"config", "succeed"} /\ Caught(w)
     \/ work[w].pc \in {"load", "begin", "fail"} /\ Goto(w, "throw")
  /\ UNCHANGED <<tables, shopify, linked, adding, bull, forgotten>>

\* The processor has returned: BullMQ completes the job and keeps its id.
Complete(w) ==
  /\ work[w].pc = "return"
  /\ bull' = [bull EXCEPT ![JobOf(w)].state = "finished"]
  /\ work' = [work EXCEPT ![w] = Idle]
  /\ UNCHANGED <<tables, shopify, linked, adding, budget, forgotten>>

\* The processor has thrown: BullMQ backs the job off or, at its last attempt,
\* fails it, and then nothing brings the outbox row to an end.
Throw(w) ==
  LET j    == JobOf(w)
      last == bull[j].made + 1 >= Attempts
  IN  /\ work[w].pc = "throw"
      /\ bull' = [bull EXCEPT ![j].state = IF last THEN "finished" ELSE "waiting",
                              ![j].made = @ + 1]
      /\ work' = [work EXCEPT ![w] = Idle]
      /\ forgotten' = IF last THEN forgotten \cup {j} ELSE forgotten
      /\ UNCHANGED <<tables, shopify, linked, adding, budget>>

\* A worker dies: BullMQ hands its stalled job on, and fails one that has
\* stalled too often, whatever its row's status is.
Crash(w) ==
  LET j    == JobOf(w)
      last == bull[j].stalls >= StallLimit
  IN  /\ work[w].pc # "idle"
      /\ Spend
      /\ bull' = [bull EXCEPT ![j].state = IF last THEN "finished" ELSE "waiting",
                              ![j].stalls = @ + 1]
      /\ work' = [work EXCEPT ![w] = Idle]
      /\ forgotten' = IF last THEN forgotten \cup {j} ELSE forgotten
      /\ UNCHANGED <<tables, shopify, linked, adding>>

-------------------------------------------------------------------------------
(* The specification *)

Request ==
  \/ \E r \in Rows, n \in Quantities : Change(r, n)
  \/ \E r \in Rows : Toggle(r)
  \/ \E j \in Jobs : Retry(j) \/ EnqueueJob(j) \/ LoseJob(j) \/ Evict(j)

Process(w) ==
  \/ Load(w) \/ Begin(w) \/ ReadConfig(w) \/ Push(w) \/ Succeed(w) \/ Fail(w)
  \/ Complete(w) \/ Throw(w)

Next ==
  \/ Request
  \/ \E w \in Workers : \/ \E j \in Jobs : Take(w, j)
                        \/ Process(w) \/ Refused(w) \/ DatabaseFails(w) \/ Crash(w)

\* Requests that have committed go on, workers poll and keep running.
Fairness ==
  /\ \A j \in Jobs : WF_vars(EnqueueJob(j))
  /\ \A w \in Workers : /\ WF_vars(\E j \in Jobs : Take(w, j))
                        /\ WF_vars(Process(w))

Spec == Init /\ [][Next]_vars
LiveSpec == Spec /\ Fairness

-------------------------------------------------------------------------------
(* Properties *)

\* Type correctness: a worker's job is an outbox row and active in BullMQ.
TypeOK ==
  /\ sellable \in [Rows -> Quantities]
  /\ channel \in [Rows -> Quantities]
  /\ linked \subseteq Rows
  /\ outbox \in Seq(Row) /\ Len(outbox) <= MaxJobs
  /\ adding \subseteq DOMAIN outbox
  /\ bull \in [Jobs -> BullJob]
  /\ work \in [Workers -> Work]
  /\ budget \in Nat
  /\ pushed \subseteq DOMAIN outbox
  /\ overtaken \subseteq Rows
  /\ forgotten \subseteq DOMAIN outbox

\* What is recorded as SUCCEEDED has reached Shopify, also when attempts fail,
\* crash and are repeated (shopify-sync-processor 101-126).
SucceededReached ==
  \A j \in DOMAIN outbox : outbox[j].status = "SUCCEEDED" => j \in pushed

Open(j) == j \in DOMAIN outbox /\ outbox[j].status \in {"QUEUED", "SYNCING"}
HasWork(j) == j \in adding \/ bull[j].state \in {"waiting", "active"}

\* An unfinished outbox row always has a job to finish it, but for the ways of
\* losing it that forgotten names: a lost add, one that BullMQ ignores because the
\* processor has already returned for the row, a last attempt that could not be
\* recorded, a job that stalled too often.
OpenJobsHaveWork == \A j \in Jobs \ forgotten : Open(j) => HasWork(j)

Synced(r) == \A j \in DOMAIN outbox : RowOf(j) = r =>
               /\ outbox[j].status = "SUCCEEDED"
               /\ \A w \in Workers : JobOf(w) # j

\* When all of a row's jobs have succeeded Shopify shows what may be sold, if no
\* older target was pushed after a newer one.
ChannelCurrent ==
  \A r \in Rows \ overtaken : Synced(r) => channel[r] = sellable[r]

\* The same without the proviso (START-HERE.md:6 "Push the correct sellable
\* quantity to Shopify when stock changes.").
CorrectQuantityPushed == \A r \in Rows : Synced(r) => channel[r] = sellable[r]

\* Every outbox row that keeps its job ends SUCCEEDED or FAILED.
JobsSettle == \A j \in Jobs : Open(j) ~> (~Open(j) \/ j \in forgotten)
=============================================================================
