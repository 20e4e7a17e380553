--------------------------- MODULE WebhookDelivery ---------------------------
(***************************************************************************)
(* Delivery of verdict webhooks when REDIS_URL is set: the dispatch loop of *)
(* the API (services/api/src/lib/webhooks.ts dispatchWebhooks), the Redis  *)
(* list and sorted set (lib/queue.ts), and the workers that pop, POST and  *)
(* reschedule (worker.ts, and the embedded loop of app.ts).                *)
(*                                                                         *)
(* Each action is the stretch of a handler between two awaits that touch   *)
(* shared state, so that the API, any number of workers and the receivers  *)
(* interleave exactly where the event loops can switch.  A job is reduced  *)
(* to the row it belongs to and its attempt number; url, secret, event and *)
(* payload are functions of the row.  Wall-clock scores are reduced to     *)
(* "due" or not: any delayed job may fall due at any time.                 *)
(***************************************************************************)
EXTENDS Naturals, Sequences, FiniteSets

CONSTANTS
    Verdicts,     \* verification requests whose verdict was saved
    Hooks,        \* rows of webhooks, as listWebhooks() returns them
    Subscribed,   \* <<v, h>>: h.events holds v's event or "*"
    Blocked,      \* hooks whose url isSafeWebhookUrl refuses
    MaxAttempts,  \* BACKOFF_MS.length (8 in the code)
    Workers,      \* concurrent popWebhookJob / processWebhookJob loops
    Embedded,     \* those that share the API process's Redis connection
    MaxFaults,    \* bound: failed calls and crashes in a behaviour
    NoJob, NoHook \* "no value" markers

Deliveries == Verdicts \X Hooks
Job == [delivery : Deliveries, attempt : 0 .. MaxAttempts - 1]

ASSUME MaxAttemptsAssumption == MaxAttempts \in Nat \ {0}
ASSUME MaxFaultsAssumption == MaxFaults \in Nat
ASSUME WorkersAssumption == IsFiniteSet(Workers) /\ Embedded \subseteq Workers
ASSUME SubscribedAssumption == Subscribed \subseteq Deliveries
ASSUME NoJobAssumption == NoJob \notin Job
ASSUME NoHookAssumption == NoHook \notin Hooks

VARIABLES
    dpc, todo, cursor,       \* one dispatchWebhooks call per verdict
    status, attempts,        \* table webhook_deliveries
    queue, delayed, due,     \* otv:webhook:queue, otv:webhook:delayed
    pc, batch, job,          \* one loop per worker
    audit, usage,            \* audit_logs; usage_events, per delivery
    tried, accepts,          \* history: POSTs made, POSTs a receiver took
    faults

dispatchVars == <<dpc, todo, cursor>>
rowVars      == <<status, attempts>>
redisVars    == <<queue, delayed, due>>
workerVars   == <<pc, batch, job>>
historyVars  == <<tried, accepts>>
vars == <<dispatchVars, rowVars, redisVars, workerVars, audit, usage,
          historyVars, faults>>

Status == {"absent", "pending", "retrying", "delivered", "failed"}
AuditRecord == [action : {"webhook.ssrf_blocked", "webhook.delivery_failed"},
                delivery : Deliveries]

\* Where a worker is: "idle" before promoteDelayed, "push"/"remove" inside its
\* pipeline, "pop" in BLPOP, "post" in fetch, the rest in processWebhookJob.
WorkerPc == {"idle", "push", "remove", "pop", "post", "markDelivered", "count",
             "markFailed", "audit", "markRetrying", "delay"}
DispatchPc == {"idle", "next", "push", "done", "error"}

TypeOK ==
    /\ dpc \in [Verdicts -> DispatchPc]
    /\ todo \in [Verdicts -> SUBSET Hooks]
    /\ cursor \in [Verdicts -> Hooks \union {NoHook}]
    /\ status \in [Deliveries -> Status]
    /\ attempts \in [Deliveries -> 0 .. MaxAttempts]
    /\ queue \in Seq(Job)
    /\ delayed \in SUBSET Job
    /\ due \in SUBSET delayed
    /\ pc \in [Workers -> WorkerPc]
    /\ batch \in [Workers -> SUBSET Job]
    /\ job \in [Workers -> Job \union {NoJob}]
    /\ audit \in SUBSET AuditRecord
    /\ usage \in [Deliveries -> Nat]
    /\ tried \in [Deliveries -> SUBSET (0 .. MaxAttempts - 1)]
    /\ accepts \in [Deliveries -> Nat]
    /\ faults \in 0 .. MaxFaults

Init ==
    /\ dpc = [v \in Verdicts |-> "idle"]
    /\ todo = [v \in Verdicts |-> {}]
    /\ cursor = [v \in Verdicts |-> NoHook]
    /\ status = [d \in Deliveries |-> "absent"]
    /\ attempts = [d \in Deliveries |-> 0]
    /\ queue = <<>>
    /\ delayed = {}
    /\ due = {}
    /\ pc = [w \in Workers |-> "idle"]
    /\ batch = [w \in Workers |-> {}]
    /\ job = [w \in Workers |-> NoJob]
    /\ audit = {}
    /\ usage = [d \in Deliveries |-> 0]
    /\ tried = [d \in Deliveries |-> {}]
    /\ accepts = [d \in Deliveries |-> 0]
    /\ faults = 0

-----------------------------------------------------------------------------
(* dispatchWebhooks: the API awaits it after saveVerdict, before replying. *)

\* listWebhooks() returns every project's hooks; the loop filters below.
Dispatch(v) ==
    /\ dpc[v] = "idle"
    /\ dpc' = [dpc EXCEPT ![v] = "next"]
    /\ todo' = [todo EXCEPT ![v] = Hooks]
    /\ UNCHANGED <<cursor, rowVars, redisVars, workerVars, audit, usage,
                   historyVars, faults>>

\* A bug to try: the loop ends at the first hook that does not subscribe.
SkipUnsubscribedEndsLoop(v, h) ==
    /\ dpc[v] = "next"
    /\ h \in todo[v]
    /\ <<v, h>> \notin Subscribed
    /\ todo' = [todo EXCEPT ![v] = {}]
    /\ UNCHANGED <<dpc, cursor, rowVars, redisVars, workerVars, audit, usage,
                   historyVars, faults>>

SkipUnsubscribed(v, h) ==
    /\ dpc[v] = "next"
    /\ h \in todo[v]
    /\ <<v, h>> \notin Subscribed
    /\ todo' = [todo EXCEPT ![v] = @ \ {h}]
    /\ UNCHANGED <<dpc, cursor, rowVars, redisVars, workerVars, audit, usage,
                   historyVars, faults>>

SkipBlocked(v, h) ==
    /\ dpc[v] = "next"
    /\ h \in todo[v] \intersect Blocked
    /\ <<v, h>> \in Subscribed
    /\ todo' = [todo EXCEPT ![v] = @ \ {h}]
    /\ audit' = audit \union {[action |-> "webhook.ssrf_blocked",
                               delivery |-> <<v, h>>]}
    /\ UNCHANGED <<dpc, cursor, rowVars, redisVars, workerVars, usage,
                   historyVars, faults>>

\* enqueueWebhook, first half: store.insertDelivery.
Insert(v, h) ==
    /\ dpc[v] = "next"
    /\ h \in todo[v] \ Blocked
    /\ <<v, h>> \in Subscribed
    /\ status' = [status EXCEPT ![<<v, h>>] = "pending"]
    /\ attempts' = [attempts EXCEPT ![<<v, h>>] = 0]
    /\ todo' = [todo EXCEPT ![v] = @ \ {h}]
    /\ cursor' = [cursor EXCEPT ![v] = h]
    /\ dpc' = [dpc EXCEPT ![v] = "push"]
    /\ UNCHANGED <<redisVars, workerVars, audit, usage, historyVars, faults>>

\* An embedded worker waits in BLPOP on the connection the API uses: Redis
\* serves no later command of that connection until BLPOP answers.
ConnectionBlocked == \E w \in Embedded : pc[w] = "pop"

\* enqueueWebhook, second half: redis.rpush of the job with attempt 0.
Push(v) ==
    /\ dpc[v] = "push"
    /\ ~ConnectionBlocked
    /\ queue' = Append(queue, [delivery |-> <<v, cursor[v]>>, attempt |-> 0])
    /\ cursor' = [cursor EXCEPT ![v] = NoHook]
    /\ dpc' = [dpc EXCEPT ![v] = "next"]
    /\ UNCHANGED <<todo, rowVars, delayed, due, workerVars, audit, usage,
                   historyVars, faults>>

DispatchDone(v) ==
    /\ dpc[v] = "next"
    /\ todo[v] = {}
    /\ dpc' = [dpc EXCEPT ![v] = "done"]
    /\ UNCHANGED <<todo, cursor, rowVars, redisVars, workerVars, audit, usage,
                   historyVars, faults>>

\* A store or Redis call rejects, or the API process dies: the rest of the
\* loop is never run (nothing resumes a dispatch).
DispatchFault(v) ==
    /\ dpc[v] \in {"next", "push"}
    /\ faults < MaxFaults
    /\ faults' = faults + 1
    /\ dpc' = [dpc EXCEPT ![v] = "error"]
    /\ cursor' = [cursor EXCEPT ![v] = NoHook]
    /\ UNCHANGED <<todo, rowVars, redisVars, workerVars, audit, usage,
                   historyVars>>

-----------------------------------------------------------------------------
(* popWebhookJob: promoteDelayed, then a destructive BLPOP.                *)

\* zrangebyscore(otv:webhook:delayed, 0, now).
ReadDue(w) ==
    /\ pc[w] = "idle"
    /\ batch' = [batch EXCEPT ![w] = due]
    /\ pc' = [pc EXCEPT ![w] = IF due = {} THEN "pop" ELSE "push"]
    /\ UNCHANGED <<dispatchVars, rowVars, redisVars, job, audit, usage,
                   historyVars, faults>>

\* The pipeline is no transaction: other clients' commands run between its
\* RPUSH and its ZREM, and whether ZREM removed anything is not looked at.
PromotePush(w) ==
    /\ pc[w] = "push"
    /\ \E j \in batch[w] :
         /\ queue' = Append(queue, j)
         /\ job' = [job EXCEPT ![w] = j]
    /\ pc' = [pc EXCEPT ![w] = "remove"]
    /\ UNCHANGED <<dispatchVars, rowVars, delayed, due, batch, audit, usage,
                   historyVars, faults>>

\* A bug to try: the pipeline only pushes.
PromoteRemoveForgotten(w) ==
    /\ pc[w] = "remove"
    /\ batch' = [batch EXCEPT ![w] = @ \ {job[w]}]
    /\ job' = [job EXCEPT ![w] = NoJob]
    /\ pc' = [pc EXCEPT ![w] = IF batch'[w] = {} THEN "pop" ELSE "push"]
    /\ UNCHANGED <<dispatchVars, rowVars, redisVars, audit, usage,
                   historyVars, faults>>

PromoteRemove(w) ==
    /\ pc[w] = "remove"
    /\ delayed' = delayed \ {job[w]}
    /\ due' = due \ {job[w]}
    /\ batch' = [batch EXCEPT ![w] = @ \ {job[w]}]
    /\ job' = [job EXCEPT ![w] = NoJob]
    /\ pc' = [pc EXCEPT ![w] = IF batch'[w] = {} THEN "pop" ELSE "push"]
    /\ UNCHANGED <<dispatchVars, rowVars, queue, audit, usage, historyVars,
                   faults>>

Pop(w) ==
    /\ pc[w] = "pop"
    /\ queue # <<>>
    /\ job' = [job EXCEPT ![w] = Head(queue)]
    /\ queue' = Tail(queue)
    /\ pc' = [pc EXCEPT ![w] = "post"]
    /\ UNCHANGED <<dispatchVars, rowVars, delayed, due, batch, audit, usage,
                   historyVars, faults>>

PopTimeout(w) ==
    /\ pc[w] = "pop"
    /\ queue = <<>>
    /\ pc' = [pc EXCEPT ![w] = "idle"]
    /\ UNCHANGED <<dispatchVars, rowVars, redisVars, batch, job, audit, usage,
                   historyVars, faults>>

-----------------------------------------------------------------------------
(* processWebhookJob.  Its own isSafeWebhookUrl test cannot fail here: the *)
(* url is the one Insert tested, and the function is pure.                 *)

\* The receiver answers 2xx within the five seconds deliverOnce allows.
PostAccepted(w) ==
    /\ pc[w] = "post"
    /\ LET d == job[w].delivery IN
         /\ tried' = [tried EXCEPT ![d] = @ \union {job[w].attempt}]
         /\ accepts' = [accepts EXCEPT ![d] = @ + 1]
    /\ pc' = [pc EXCEPT ![w] = "markDelivered"]
    /\ UNCHANGED <<dispatchVars, rowVars, redisVars, batch, job, audit, usage,
                   faults>>

\* An error status, a network error or the timeout; in the last two the
\* receiver may have taken the request all the same.
NotConfirmed(w, next) ==
    /\ pc[w] = "post"
    /\ LET d == job[w].delivery IN
         /\ tried' = [tried EXCEPT ![d] = @ \union {job[w].attempt}]
         /\ \E taken \in {0, 1} :
              accepts' = [accepts EXCEPT ![d] = @ + taken]
    /\ pc' = [pc EXCEPT ![w] = next]
    /\ UNCHANGED <<dispatchVars, rowVars, redisVars, batch, job, audit, faults>>

\* Bugs to try: retry once too often, bill every POST, take any answer for 2xx.
PostRetriedTooOften(w) ==
    /\ NotConfirmed(w, IF job[w].attempt >= MaxAttempts THEN "markFailed"
                                                        ELSE "markRetrying")
    /\ UNCHANGED usage
PostAlwaysBilled(w) ==
    /\ NotConfirmed(w, IF job[w].attempt + 1 >= MaxAttempts THEN "markFailed"
                                                            ELSE "markRetrying")
    /\ usage' = [usage EXCEPT ![job[w].delivery] = @ + 1]
PostAnyAnswer(w) == NotConfirmed(w, "markDelivered") /\ UNCHANGED usage

PostNotConfirmed(w) ==
    /\ NotConfirmed(w, IF job[w].attempt + 1 >= MaxAttempts THEN "markFailed"
                                                            ELSE "markRetrying")
    /\ UNCHANGED usage

\* A bug to try: the row keeps the job's old attempt number.
MarkUncounted(w, newStatus, next) ==
    LET d == job[w].delivery IN
    /\ status' = [status EXCEPT ![d] = newStatus]
    /\ attempts' = [attempts EXCEPT ![d] = job[w].attempt]
    /\ pc' = [pc EXCEPT ![w] = next]
    /\ UNCHANGED <<dispatchVars, redisVars, batch, job, audit, usage,
                   historyVars, faults>>

\* updateDelivery patches the row whatever its status is.
Mark(w, newStatus, next) ==
    LET d == job[w].delivery IN
    /\ status' = [status EXCEPT ![d] = newStatus]
    /\ attempts' = [attempts EXCEPT ![d] = job[w].attempt + 1]
    /\ pc' = [pc EXCEPT ![w] = next]
    /\ UNCHANGED <<dispatchVars, redisVars, batch, job, audit, usage,
                   historyVars, faults>>

MarkDelivered(w) == pc[w] = "markDelivered" /\ Mark(w, "delivered", "count")
MarkFailed(w)    == pc[w] = "markFailed" /\ Mark(w, "failed", "audit")
MarkRetrying(w)  == pc[w] = "markRetrying" /\ Mark(w, "retrying", "delay")

Release(w) ==
    /\ pc' = [pc EXCEPT ![w] = "idle"]
    /\ job' = [job EXCEPT ![w] = NoJob]

CountUsage(w) ==
    /\ pc[w] = "count"
    /\ usage' = [usage EXCEPT ![job[w].delivery] = @ + 1]
    /\ Release(w)
    /\ UNCHANGED <<dispatchVars, rowVars, redisVars, batch, audit, historyVars,
                   faults>>

WriteAudit(w) ==
    /\ pc[w] = "audit"
    /\ audit' = audit \union {[action |-> "webhook.delivery_failed",
                               delivery |-> job[w].delivery]}
    /\ Release(w)
    /\ UNCHANGED <<dispatchVars, rowVars, redisVars, batch, usage, historyVars,
                   faults>>

\* zadd: a member that is already there only gets the new, later score.
Reschedule(w, n) ==
    /\ pc[w] = "delay"
    /\ LET next == [delivery |-> job[w].delivery, attempt |-> n] IN
         /\ delayed' = delayed \union {next}
         /\ due' = due \ {next}
    /\ Release(w)
    /\ UNCHANGED <<dispatchVars, rowVars, queue, batch, audit, usage,
                   historyVars, faults>>

\* A bug to try: the attempt is incremented here a second time.
DelayCountsTwice(w) == Reschedule(w, job[w].attempt + 2)

Delay(w) == Reschedule(w, job[w].attempt + 1)

\* A call of the loop rejects and is caught, or the worker dies and restarts:
\* either way it is back at the top and what it held is gone.
Interrupt(w) ==
    /\ pc[w] # "idle"
    /\ faults < MaxFaults
    /\ faults' = faults + 1
    /\ batch' = [batch EXCEPT ![w] = {}]
    /\ Release(w)
    /\ UNCHANGED <<dispatchVars, rowVars, redisVars, audit, usage, historyVars>>

-----------------------------------------------------------------------------
\* The clock passes the score of a delayed job.
FallDue(j) ==
    /\ j \in delayed \ due
    /\ due' = due \union {j}
    /\ UNCHANGED <<dispatchVars, rowVars, queue, delayed, workerVars, audit,
                   usage, historyVars, faults>>

DispatchLoop(v) ==
    \/ Dispatch(v)
    \/ \E h \in Hooks :
         SkipUnsubscribed(v, h) \/ SkipBlocked(v, h) \/ Insert(v, h)
    \/ DispatchDone(v)

WorkerLoop(w) ==
    \/ ReadDue(w) \/ PromotePush(w) \/ PromoteRemove(w)
    \/ Pop(w) \/ PopTimeout(w)
    \/ PostAccepted(w) \/ PostNotConfirmed(w)
    \/ MarkDelivered(w) \/ CountUsage(w)
    \/ MarkFailed(w) \/ WriteAudit(w)
    \/ MarkRetrying(w) \/ Delay(w)

Next ==
    \/ \E v \in Verdicts : DispatchLoop(v) \/ Push(v) \/ DispatchFault(v)
    \/ \E w \in Workers : WorkerLoop(w) \/ Interrupt(w)
    \/ \E j \in Job : FallDue(j)

Spec == Init /\ [][Next]_vars

\* The loops run, and the clock advances.  Push is strongly fair because a
\* command waiting behind BLPOP on a shared connection is served, in order,
\* before the next BLPOP.  Faults and the receiver's answers are not fair.
Fairness ==
    /\ \A v \in Verdicts : WF_vars(DispatchLoop(v)) /\ SF_vars(Push(v))
    /\ \A w \in Workers : WF_vars(WorkerLoop(w))
    /\ \A j \in Job : WF_vars(FallDue(j))

FairSpec == Spec /\ Fairness

-----------------------------------------------------------------------------
(* Properties.                                                             *)

Open     == {"pending", "retrying"}
Terminal == {"delivered", "failed"}

\* The worker has a popped job that it has not yet turned into a terminal
\* status or a delayed job.
InHand(w) == pc[w] \in {"post", "markDelivered", "markFailed", "markRetrying",
                        "delay"}

\* Everything that will still cause an attempt for d.  A delayed member whose
\* copy was already pushed by the pipeline in progress counts once.
Carriers(d) ==
    {<<"dispatch", v>> : v \in {x \in Verdicts : dpc[x] = "push"
                                                  /\ <<x, cursor[x]>> = d}}
    \union {<<"queue", i>> : i \in {x \in 1 .. Len(queue) :
                                      queue[x].delivery = d}}
    \union {<<"delayed", j>> : j \in {x \in delayed : x.delivery = d
                         /\ ~\E w \in Workers : pc[w] = "remove" /\ job[w] = x}}
    \union {<<"worker", w>> : w \in {x \in Workers : InHand(x)
                                       /\ job[x].delivery = d}}

\* With one worker and no faults, an open row has exactly one job somewhere
\* between the dispatch loop, the list, the sorted set and the worker, and a
\* settled row has none: promotion and rescheduling neither drop nor copy it.
OneJobPerOpenDelivery ==
    \A d \in Deliveries :
        IF status[d] \in Open THEN \E c \in Carriers(d) : Carriers(d) = {c}
                              ELSE Carriers(d) = {}

\* The weaker half alone, "durable retries": a row that says "retrying" has a
\* job that will be attempted, whatever crashes (BLPOP takes the job from Redis
\* before the POST, ZADD puts it back after the row was written).
RetryHasJob ==
    \A d \in Deliveries : status[d] = "retrying" => Carriers(d) # {}

\* DELIVERY.md's terminal statuses are terminal: no updateDelivery moves a row
\* out of "delivered" or "failed".
TerminalStatusIsFinal ==
    [][\A d \in Deliveries : status[d] \in Terminal => status'[d] = status[d]]_vars

\* With one worker and no faults, the books close: a delivered row is billed
\* exactly once, a failed one is in the audit log, nothing else is billed
\* (usage and audit are written one await after the status).
SettledIsAccounted ==
    \A d \in Deliveries :
        LET busy(p) == \E w \in Workers : pc[w] = p /\ job[w].delivery = d IN
        /\ usage[d] = IF status[d] = "delivered" /\ ~busy("count") THEN 1 ELSE 0
        /\ [action |-> "webhook.delivery_failed", delivery |-> d] \in audit
             <=> status[d] = "failed" /\ ~busy("audit")

\* Whatever crashes or races, a row says "delivered" only if a receiver took
\* the event with 2xx at some time.
DeliveredWasAccepted ==
    \A d \in Deliveries : status[d] = "delivered" => accepts[d] > 0

\* Whatever crashes or races, a row says "failed" only after a POST was made
\* for each of the MaxAttempts places of the backoff table, and the number of
\* attempts it shows were all made: no path skips a retry.
RecordedAttemptsWereMade ==
    \A d \in Deliveries :
        /\ 0 .. attempts[d] - 1 \subseteq tried[d]
        /\ status[d] = "failed" => attempts[d] = MaxAttempts
        /\ status[d] = "retrying" => attempts[d] \in 1 .. MaxAttempts - 1

\* Whatever crashes or races, a project is never billed for more webhook
\* deliveries than receivers took: each increment follows a POST of its own.
Owed(d) == {w \in Workers : /\ pc[w] \in {"markDelivered", "count"}
                             /\ job[w].delivery = d}
UsageNeverExceedsAccepts ==
    \A d \in Deliveries : usage[d] + Cardinality(Owed(d)) <= accepts[d]

\* When the dispatch loop ends normally, exactly the subscribed hooks with a
\* permitted url have a row, and every other subscribed one is in the audit
\* log (the loop's two filters, over a list it read once).
DispatchIsComplete ==
    \A v \in Verdicts, h \in Hooks :
        dpc[v] = "done" =>
            /\ (status[<<v, h>>] # "absent") <=> (<<v, h>> \in Subscribed
                                                  /\ h \notin Blocked)
            /\ ([action |-> "webhook.ssrf_blocked", delivery |-> <<v, h>>] \in audit)
                 <=> (<<v, h>> \in Subscribed /\ h \in Blocked)

\* However often jobs were copied, delivery work ends: Redis empties and the
\* workers hold nothing, for ever.
Quiet ==
    /\ queue = <<>> /\ delayed = {}
    /\ \A w \in Workers : pc[w] \in {"idle", "pop"}
WorkDrains == <>[]Quiet

\* The row of each delivery behaves as DeliveryContract allows, with one
\* worker and no faults; its fairness gives that no row stays open for ever.
Contract == INSTANCE DeliveryContract
ImplementsContract == Contract!Spec

=============================================================================
