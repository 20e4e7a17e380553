------------------------ MODULE WebhookDeliveryProofs ------------------------
(***************************************************************************)
(* Safety of webhook delivery for every number of verdicts, hooks, workers *)
(* and faults, and every length of the backoff table; and at the end, of   *)
(* the attempts an API without Redis makes itself (InlineDelivery).        *)
(***************************************************************************)
EXTENDS WebhookDelivery, InlineDelivery, FiniteSetTheorems, TLAPS

(***************************************************************************)
(* What a worker's or dispatcher's place in its handler says about the     *)
(* value it holds there.  Without it TypeOK is not inductive: Delay writes *)
(* attempt + 1, and that is a job's attempt number only because            *)
(* PostNotConfirmed compared it with MaxAttempts two steps earlier.        *)
(***************************************************************************)
HoldingPc == WorkerPc \ {"idle", "push", "pop"}

Phases ==
    /\ \A v \in Verdicts : dpc[v] = "push" => cursor[v] \in Hooks
    /\ \A w \in Workers :
         /\ pc[w] \in HoldingPc => job[w] \in Job
         /\ pc[w] = "markFailed" => job[w].attempt + 1 = MaxAttempts
         /\ pc[w] \in {"markRetrying", "delay"} => job[w].attempt + 1 < MaxAttempts

USE DEF Status, WorkerPc, DispatchPc, HoldingPc

\* A job's fields, and the two ways the code builds one (enqueueWebhook's
\* attempt 0 and { ...job, attempt }).
LEMMA JobFields ==
  ASSUME NEW j \in Job
  PROVE  j.delivery \in Deliveries /\ j.attempt \in 0 .. MaxAttempts - 1
  BY DEF Job

\* A record of a delivery and an attempt number in range is a job.
LEMMA JobBuilt ==
  ASSUME NEW d \in Deliveries, NEW a \in 0 .. MaxAttempts - 1
  PROVE  [delivery |-> d, attempt |-> a] \in Job
  BY DEF Job

\* The attempt number of a new job, and of a new row, is in range.
LEMMA AttemptZero == 0 \in 0 .. MaxAttempts - 1 /\ 0 \in 0 .. MaxAttempts
  BY MaxAttemptsAssumption

\* The two records the code puts in the audit log are audit records.
LEMMA AuditBuilt ==
  ASSUME NEW d \in Deliveries
  PROVE  /\ [action |-> "webhook.ssrf_blocked", delivery |-> d] \in AuditRecord
         /\ [action |-> "webhook.delivery_failed", delivery |-> d] \in AuditRecord
  BY DEF AuditRecord

\* A verdict and a hook make a row of webhook_deliveries.
LEMMA DeliveryBuilt ==
  ASSUME NEW v \in Verdicts, NEW h \in Hooks
  PROVE  <<v, h>> \in Deliveries
  BY DEF Deliveries

\* The initial state is well typed.
LEMMA InitTyped == Init => TypeOK /\ Phases
  BY MaxAttemptsAssumption, MaxFaultsAssumption DEF Init, TypeOK, Phases

\* A dispatcher step keeps types and phases: only Push reads what Insert left.
LEMMA DispatchTyped ==
  ASSUME TypeOK, Phases, NEW v \in Verdicts,
         DispatchLoop(v) \/ Push(v) \/ DispatchFault(v)
  PROVE  TypeOK' /\ Phases'
<1> USE DEF dispatchVars, rowVars, redisVars, workerVars, historyVars
<1>1. CASE Dispatch(v)
  BY <1>1 DEF Dispatch, TypeOK, Phases
<1>2. CASE \E h \in Hooks : SkipUnsubscribed(v, h)
  BY <1>2 DEF SkipUnsubscribed, TypeOK, Phases
<1>3. CASE \E h \in Hooks : SkipBlocked(v, h)
  BY <1>3, AuditBuilt, DeliveryBuilt DEF SkipBlocked, TypeOK, Phases
<1>4. ASSUME NEW h \in Hooks, Insert(v, h) PROVE TypeOK' /\ Phases'
  <2>1. <<v, h>> \in Deliveries
    BY DeliveryBuilt
  <2> QED
    BY <1>4, <2>1, AttemptZero DEF Insert, TypeOK, Phases
<1>5. CASE DispatchDone(v)
  BY <1>5 DEF DispatchDone, TypeOK, Phases
<1>6. CASE Push(v)
  <2> DEFINE j == [delivery |-> <<v, cursor[v]>>, attempt |-> 0]
  <2>1. j \in Job
    BY <1>6, DeliveryBuilt, JobBuilt, AttemptZero DEF Push, Phases
  <2>2. queue' \in Seq(Job)
    BY <1>6, <2>1 DEF Push, TypeOK
  <2> QED
    BY <1>6, <2>2 DEF Push, TypeOK, Phases
<1>7. CASE DispatchFault(v)
  BY <1>7, MaxFaultsAssumption DEF DispatchFault, TypeOK, Phases
<1> QED
  BY <1>1, <1>2, <1>3, <1>4, <1>5, <1>6, <1>7 DEF DispatchLoop

\* So does a worker step.
LEMMA WorkerTyped ==
  ASSUME TypeOK, Phases, NEW w \in Workers, WorkerLoop(w) \/ Interrupt(w)
  PROVE  TypeOK' /\ Phases'
<1> USE DEF dispatchVars, rowVars, redisVars, workerVars, historyVars
<1>1. CASE ReadDue(w)
  BY <1>1 DEF ReadDue, TypeOK, Phases
<1>2. CASE PromotePush(w)
  BY <1>2 DEF PromotePush, TypeOK, Phases
<1>3. CASE PromoteRemove(w)
  BY <1>3 DEF PromoteRemove, TypeOK, Phases
<1>4. CASE Pop(w)
  <2>1. Head(queue) \in Job /\ Tail(queue) \in Seq(Job)
    BY <1>4 DEF Pop, TypeOK
  <2> QED
    BY <1>4, <2>1 DEF Pop, TypeOK, Phases
<1>5. CASE PopTimeout(w)
  BY <1>5 DEF PopTimeout, TypeOK, Phases
<1> DEFINE d == job[w].delivery
           a == job[w].attempt
<1>0. pc[w] \in HoldingPc =>
        /\ job[w] \in Job
        /\ d \in Deliveries
        /\ a \in 0 .. MaxAttempts - 1
        /\ a + 1 \in 0 .. MaxAttempts
  BY JobFields, MaxAttemptsAssumption DEF Phases
<1>6. CASE PostAccepted(w)
  <2>1. tried' \in [Deliveries -> SUBSET (0 .. MaxAttempts - 1)]
    BY <1>6, <1>0 DEF PostAccepted, TypeOK
  <2>2. accepts' \in [Deliveries -> Nat]
    BY <1>6, <1>0 DEF PostAccepted, TypeOK
  <2> QED
    BY <1>6, <2>1, <2>2 DEF PostAccepted, TypeOK, Phases
<1>7. CASE PostNotConfirmed(w)
  <2> USE <1>7 DEF PostNotConfirmed, NotConfirmed
  <2>1. tried' \in [Deliveries -> SUBSET (0 .. MaxAttempts - 1)]
    BY <1>0 DEF TypeOK
  <2>2. accepts' \in [Deliveries -> Nat]
    BY <1>0 DEF TypeOK
  <2>3. TypeOK'
    BY <2>1, <2>2 DEF TypeOK
  <2>4. Phases'
    BY <1>0, MaxAttemptsAssumption DEF TypeOK, Phases
  <2> QED
    BY <2>3, <2>4
<1>8. CASE MarkDelivered(w) \/ MarkFailed(w) \/ MarkRetrying(w)
  <2> USE <1>8 DEF MarkDelivered, MarkFailed, MarkRetrying, Mark
  <2>1. attempts' \in [Deliveries -> 0 .. MaxAttempts]
    BY <1>0 DEF TypeOK
  <2>2. status' \in [Deliveries -> Status]
    BY <1>0 DEF TypeOK
  <2>3. TypeOK'
    BY <2>1, <2>2 DEF TypeOK
  <2>4. Phases'
    BY DEF TypeOK, Phases
  <2> QED
    BY <2>3, <2>4
<1>9. CASE CountUsage(w)
  <2>1. usage' \in [Deliveries -> Nat]
    BY <1>9, <1>0 DEF CountUsage, TypeOK
  <2> QED
    BY <1>9, <2>1 DEF CountUsage, Release, TypeOK, Phases
<1>10. CASE WriteAudit(w)
  <2>1. audit' \in SUBSET AuditRecord
    BY <1>10, <1>0, AuditBuilt DEF WriteAudit, TypeOK
  <2> QED
    BY <1>10, <2>1 DEF WriteAudit, Release, TypeOK, Phases
<1>11. CASE Delay(w)
  <2>1. a + 1 \in 0 .. MaxAttempts - 1
    BY <1>11, <1>0, MaxAttemptsAssumption DEF Delay, Reschedule, Phases
  <2>2. [delivery |-> d, attempt |-> a + 1] \in Job
    BY <1>11, <1>0, <2>1, JobBuilt DEF Delay, Reschedule
  <2> QED
    BY <1>11, <2>2 DEF Delay, Reschedule, Release, TypeOK, Phases
<1>12. CASE Interrupt(w)
  BY <1>12, MaxFaultsAssumption DEF Interrupt, Release, TypeOK, Phases
<1> QED
  BY <1>1, <1>2, <1>3, <1>4, <1>5, <1>6, <1>7, <1>8, <1>9, <1>10, <1>11, <1>12
  DEF WorkerLoop

\* So does every step.
LEMMA NextTyped == TypeOK /\ Phases /\ [Next]_vars => TypeOK' /\ Phases'
<1> SUFFICES ASSUME TypeOK, Phases, [Next]_vars PROVE TypeOK' /\ Phases'
  OBVIOUS
<1>1. ASSUME NEW j \in Job, FallDue(j) PROVE TypeOK' /\ Phases'
  BY <1>1 DEF FallDue, TypeOK, Phases,
              dispatchVars, rowVars, redisVars, workerVars, historyVars
<1>2. CASE UNCHANGED vars
  BY <1>2 DEF vars, TypeOK, Phases,
              dispatchVars, rowVars, redisVars, workerVars, historyVars
<1> QED
  BY <1>1, <1>2, DispatchTyped, WorkerTyped DEF Next

\* Every reachable state is well typed: in particular no job ever carries an
\* attempt number outside BACKOFF_MS, for any number of workers and faults.
THEOREM TypeCorrect == Spec => []TypeOK
<1>1. Spec => [](TypeOK /\ Phases)
  BY InitTyped, NextTyped, PTL DEF Spec
<1> QED
  BY <1>1, PTL

-----------------------------------------------------------------------------
(***************************************************************************)
(* The history of a job.  A job with attempt n exists, wherever it is and  *)
(* however often it was copied, only if a POST was made for each of        *)
(* 0 .. n-1; a worker past its POST has made the one of its own job too.   *)
(***************************************************************************)
InSystem(j) ==
    \/ \E i \in 1 .. Len(queue) : queue[i] = j
    \/ j \in delayed
    \/ \E w \in Workers : j \in batch[w] \/ job[w] = j

AfterPost == {"markDelivered", "count", "markFailed", "audit", "markRetrying",
              "delay"}

JobsBacked ==
    \A j \in Job : InSystem(j) => 0 .. j.attempt - 1 \subseteq tried[j.delivery]

WorkersBacked ==
    \A w \in Workers :
        /\ pc[w] \in AfterPost => job[w].attempt \in tried[job[w].delivery]
        /\ pc[w] \in {"markDelivered", "count"} => accepts[job[w].delivery] > 0

History == JobsBacked /\ WorkersBacked

\* History variables never forget: a POST made stays made.
LEMMA HistoryGrows ==
  ASSUME TypeOK, Phases, [Next]_vars
  PROVE  \A d \in Deliveries : tried[d] \subseteq tried'[d] /\ accepts[d] <= accepts'[d]
<1> USE DEF dispatchVars, rowVars, redisVars, workerVars, historyVars
<1>1. CASE UNCHANGED historyVars
  BY <1>1 DEF TypeOK
<1>2. ASSUME NEW w \in Workers, PostAccepted(w) \/ PostNotConfirmed(w)
      PROVE  \A d \in Deliveries : tried[d] \subseteq tried'[d] /\ accepts[d] <= accepts'[d]
  <2>1. tried \in [Deliveries -> SUBSET (0 .. MaxAttempts - 1)]
        /\ accepts \in [Deliveries -> Nat]
    BY DEF TypeOK
  <2>2. PICK n \in {0, 1} :
          /\ tried' = [tried EXCEPT ![job[w].delivery] = @ \union {job[w].attempt}]
          /\ accepts' = [accepts EXCEPT ![job[w].delivery] = @ + n]
    BY <1>2 DEF PostAccepted, PostNotConfirmed, NotConfirmed
  <2> QED
    BY <2>1, <2>2
<1>3. UNCHANGED historyVars
      \/ \E w \in Workers : PostAccepted(w) \/ PostNotConfirmed(w)
  BY DEF Next, vars, DispatchLoop, WorkerLoop, Dispatch, SkipUnsubscribed,
         SkipBlocked, Insert, Push, DispatchDone, DispatchFault, ReadDue,
         PromotePush, PromoteRemove, Pop, PopTimeout, MarkDelivered, MarkFailed,
         MarkRetrying, Mark, CountUsage, WriteAudit, Delay, Reschedule,
         Interrupt, FallDue
<1> QED
  BY <1>1, <1>2, <1>3

\* A step brings no job into the system but attempt 0 of a new row (Push) and
\* the successor of a job whose worker has just recorded a failure (Delay).
NewJob(j) ==
    \/ j.attempt = 0 /\ \E v \in Verdicts : dpc[v] = "push" /\ j.delivery = <<v, cursor[v]>>
    \/ \E w \in Workers : /\ pc[w] = "delay"
                          /\ j.delivery = job[w].delivery
                          /\ j.attempt = job[w].attempt + 1

LEMMA JobsComeFromJobs ==
  ASSUME TypeOK, Phases, [Next]_vars, NEW j \in Job, InSystem(j)'
  PROVE  InSystem(j) \/ NewJob(j)
<1> USE DEF dispatchVars, rowVars, redisVars, workerVars, historyVars
<1>1. CASE UNCHANGED <<queue, delayed, batch, job>>
  BY <1>1 DEF InSystem
<1>2. ASSUME NEW v \in Verdicts, Push(v) PROVE InSystem(j) \/ NewJob(j)
  BY <1>2 DEF Push, InSystem, NewJob, TypeOK
<1>3. ASSUME NEW w \in Workers, ReadDue(w) PROVE InSystem(j) \/ NewJob(j)
  BY <1>3 DEF ReadDue, InSystem, TypeOK
<1>4. ASSUME NEW w \in Workers, PromotePush(w) PROVE InSystem(j) \/ NewJob(j)
  BY <1>4 DEF PromotePush, InSystem, TypeOK
<1>5. ASSUME NEW w \in Workers, PromoteRemove(w) PROVE InSystem(j) \/ NewJob(j)
  BY <1>5, NoJobAssumption DEF PromoteRemove, InSystem, TypeOK
<1>6. ASSUME NEW w \in Workers, Pop(w) PROVE InSystem(j) \/ NewJob(j)
  <2>1. ASSUME NEW i \in 1 .. Len(queue'), queue'[i] = j PROVE InSystem(j)
    <3>1. i + 1 \in 1 .. Len(queue) /\ queue[i + 1] = j
      BY <1>6, <2>1 DEF Pop, TypeOK
    <3> QED
      BY <3>1 DEF InSystem
  <2>2. ASSUME job'[w] = j PROVE InSystem(j)
    BY <1>6, <2>2 DEF Pop, InSystem, TypeOK
  <2> QED
    BY <1>6, <2>1, <2>2 DEF Pop, InSystem, TypeOK
<1>7. ASSUME NEW w \in Workers,
             CountUsage(w) \/ WriteAudit(w) \/ Interrupt(w)
      PROVE  InSystem(j) \/ NewJob(j)
  BY <1>7, NoJobAssumption
  DEF CountUsage, WriteAudit, Interrupt, Release, InSystem, TypeOK
<1>8. ASSUME NEW w \in Workers, Delay(w) PROVE InSystem(j) \/ NewJob(j)
  <2> DEFINE next == [delivery |-> job[w].delivery, attempt |-> job[w].attempt + 1]
  <2>1. /\ UNCHANGED <<queue, batch>>
        /\ delayed' = delayed \union {next}
        /\ job' = [job EXCEPT ![w] = NoJob]
        /\ pc[w] = "delay"
    BY <1>8 DEF Delay, Reschedule, Release
  <2>2. j # NoJob
    BY NoJobAssumption
  <2>3. CASE j = next
    BY <2>1, <2>3 DEF NewJob
  <2>4. CASE j # next
    BY <2>1, <2>2, <2>4 DEF InSystem, TypeOK
  <2> QED
    BY <2>3, <2>4
<1>9. \/ UNCHANGED <<queue, delayed, batch, job>>
      \/ \E v \in Verdicts : Push(v)
      \/ \E w \in Workers :
           \/ ReadDue(w) \/ PromotePush(w) \/ PromoteRemove(w) \/ Pop(w)
           \/ CountUsage(w) \/ WriteAudit(w) \/ Interrupt(w) \/ Delay(w)
  <2> DEFINE Jobless == UNCHANGED <<queue, delayed, batch, job>>
  <2>1. ASSUME NEW v \in Verdicts, DispatchLoop(v) \/ DispatchFault(v) PROVE Jobless
    BY <2>1 DEF DispatchLoop, Dispatch, SkipUnsubscribed, SkipBlocked, Insert,
               DispatchDone, DispatchFault
  <2>2. ASSUME NEW w \in Workers,
               \/ PopTimeout(w) \/ PostAccepted(w) \/ PostNotConfirmed(w)
               \/ MarkDelivered(w) \/ MarkFailed(w) \/ MarkRetrying(w)
        PROVE  Jobless
    BY <2>2 DEF PopTimeout, PostAccepted, PostNotConfirmed, NotConfirmed,
               MarkDelivered, MarkFailed, MarkRetrying, Mark
  <2>3. ASSUME NEW k \in Job, FallDue(k) PROVE Jobless
    BY <2>3 DEF FallDue
  <2>4. UNCHANGED vars => Jobless
    BY DEF vars
  <2> QED
    BY <2>1, <2>2, <2>3, <2>4 DEF Next, WorkerLoop
<1> QED
  BY <1>1, <1>2, <1>3, <1>4, <1>5, <1>6, <1>7, <1>8, <1>9

\* So every job stays backed by the POSTs before it.
LEMMA JobsStayBacked ==
  ASSUME TypeOK, Phases, History, [Next]_vars
  PROVE  JobsBacked'
<1> SUFFICES ASSUME NEW j \in Job, InSystem(j)'
             PROVE  0 .. j.attempt - 1 \subseteq tried'[j.delivery]
  BY DEF JobsBacked
<1>1. j.delivery \in Deliveries /\ j.attempt \in 0 .. MaxAttempts - 1
  BY JobFields
<1>2. tried[j.delivery] \subseteq tried'[j.delivery]
  BY <1>1, HistoryGrows
<1>3. CASE InSystem(j)
  BY <1>2, <1>3 DEF History, JobsBacked
<1>4. CASE j.attempt = 0
  BY <1>4
<1>5. ASSUME NEW w \in Workers, pc[w] = "delay",
             j.delivery = job[w].delivery, j.attempt = job[w].attempt + 1
      PROVE  0 .. j.attempt - 1 \subseteq tried'[j.delivery]
  <2>1. job[w] \in Job /\ InSystem(job[w])
    BY <1>5 DEF Phases, InSystem
  <2>2. job[w].attempt \in 0 .. MaxAttempts - 1
    BY <2>1, JobFields
  <2>3. 0 .. job[w].attempt - 1 \subseteq tried[j.delivery]
    BY <1>5, <2>1 DEF History, JobsBacked
  <2>4. job[w].attempt \in tried[j.delivery]
    BY <1>5 DEF History, WorkersBacked, AfterPost
  <2>5. 0 .. j.attempt - 1 = (0 .. job[w].attempt - 1) \union {job[w].attempt}
    BY <1>5, <2>2, MaxAttemptsAssumption
  <2> QED
    BY <1>2, <2>3, <2>4, <2>5
<1> QED
  BY <1>3, <1>4, <1>5, JobsComeFromJobs DEF NewJob

\* A worker that has posted keeps the record of that POST until it lets go.
LEMMA WorkersStayBacked ==
  ASSUME TypeOK, Phases, History, [Next]_vars
  PROVE  WorkersBacked'
<1> USE DEF dispatchVars, rowVars, redisVars, workerVars, historyVars
<1> SUFFICES ASSUME NEW w \in Workers
             PROVE  /\ pc'[w] \in AfterPost =>
                         job'[w].attempt \in tried'[job'[w].delivery]
                    /\ pc'[w] \in {"markDelivered", "count"} =>
                         accepts'[job'[w].delivery] > 0
  BY DEF WorkersBacked
<1>1. CASE pc'[w] \notin AfterPost
  BY <1>1 DEF AfterPost
<1>2. CASE pc[w] \in AfterPost /\ job'[w] = job[w]
           /\ (pc'[w] = "count" => pc[w] \in {"markDelivered", "count"})
           /\ (pc'[w] = "markDelivered" => pc[w] = "markDelivered")
  <2>1. job[w] \in Job
    BY <1>2 DEF Phases, AfterPost
  <2>2. job[w].delivery \in Deliveries
    BY <2>1, JobFields
  <2>3. /\ accepts[job[w].delivery] \in Nat /\ accepts'[job[w].delivery] \in Nat
        /\ accepts[job[w].delivery] <= accepts'[job[w].delivery]
        /\ tried[job[w].delivery] \subseteq tried'[job[w].delivery]
    BY <2>2, HistoryGrows, NextTyped DEF TypeOK
  <2> QED
    BY <1>2, <2>3 DEF History, WorkersBacked
<1>3. CASE PostAccepted(w) \/ PostNotConfirmed(w)
  <2>1. job[w] \in Job
    BY <1>3 DEF PostAccepted, PostNotConfirmed, NotConfirmed, Phases
  <2>2. job[w].delivery \in Deliveries
    BY <2>1, JobFields
  <2>3. CASE PostAccepted(w)
    BY <2>2, <2>3 DEF PostAccepted, TypeOK
  <2>4. CASE PostNotConfirmed(w)
    BY <2>2, <2>4 DEF PostNotConfirmed, NotConfirmed, TypeOK
  <2> QED
    BY <1>3, <2>3, <2>4
<1>4. \/ pc'[w] \notin AfterPost
      \/ PostAccepted(w) \/ PostNotConfirmed(w)
      \/ /\ pc[w] \in AfterPost /\ job'[w] = job[w]
         /\ pc'[w] = "count" => pc[w] \in {"markDelivered", "count"}
         /\ pc'[w] = "markDelivered" => pc[w] = "markDelivered"
  <2>1. CASE UNCHANGED <<pc, job>>
    BY <2>1
  <2>2. ASSUME NEW x \in Workers, x # w, WorkerLoop(x) \/ Interrupt(x)
        PROVE  pc'[w] = pc[w] /\ job'[w] = job[w]
    BY <2>2 DEF TypeOK, WorkerLoop, ReadDue, PromotePush, PromoteRemove, Pop,
         PopTimeout, PostAccepted, PostNotConfirmed, NotConfirmed,
         MarkDelivered, MarkFailed, MarkRetrying, Mark, CountUsage, WriteAudit,
         Delay, Reschedule, Release, Interrupt
  <2>3. CASE MarkDelivered(w) \/ MarkFailed(w) \/ MarkRetrying(w)
    BY <2>3 DEF MarkDelivered, MarkFailed, MarkRetrying, Mark, TypeOK, AfterPost
  <2>4. CASE ReadDue(w) \/ PromotePush(w) \/ PromoteRemove(w) \/ Pop(w)
             \/ PopTimeout(w)
    BY <2>4 DEF ReadDue, PromotePush, PromoteRemove, Pop, PopTimeout, TypeOK,
                AfterPost
  <2>5. CASE CountUsage(w) \/ WriteAudit(w) \/ Delay(w) \/ Interrupt(w)
    BY <2>5 DEF CountUsage, WriteAudit, Delay, Reschedule, Interrupt, Release,
                TypeOK, AfterPost
  <2>6. \/ UNCHANGED <<pc, job>>
        \/ \E x \in Workers : WorkerLoop(x) \/ Interrupt(x)
    BY DEF Next, vars, DispatchLoop, Dispatch, SkipUnsubscribed, SkipBlocked,
           Insert, Push, DispatchDone, DispatchFault, FallDue
  <2> QED
    BY <2>1, <2>2, <2>3, <2>4, <2>5, <2>6 DEF WorkerLoop, AfterPost
<1> QED
  BY <1>1, <1>2, <1>3, <1>4

-----------------------------------------------------------------------------
(***************************************************************************)
(* What a row may say.                                                     *)
(***************************************************************************)
RowsBacked == DeliveredWasAccepted /\ RecordedAttemptsWereMade

\* The one step that writes a status is Mark (Insert only creates the row), so
\* a row says no more than the worker that wrote it knew.
LEMMA RowsStayBacked ==
  ASSUME TypeOK, Phases, History, RowsBacked, [Next]_vars
  PROVE  RowsBacked'
<1> USE DEF dispatchVars, rowVars, redisVars, workerVars, historyVars
<1> DEFINE Backed(d) ==
             /\ status[d] = "delivered" => accepts[d] > 0
             /\ 0 .. attempts[d] - 1 \subseteq tried[d]
             /\ status[d] = "failed" => attempts[d] = MaxAttempts
             /\ status[d] = "retrying" => attempts[d] \in 1 .. MaxAttempts - 1
<1> SUFFICES ASSUME NEW d \in Deliveries PROVE Backed(d)'
  BY DEF RowsBacked, DeliveredWasAccepted, RecordedAttemptsWereMade
<1>0. /\ Backed(d)
      /\ tried[d] \subseteq tried'[d] /\ accepts[d] <= accepts'[d]
      /\ accepts[d] \in Nat /\ accepts'[d] \in Nat
  BY HistoryGrows, NextTyped
  DEF RowsBacked, DeliveredWasAccepted, RecordedAttemptsWereMade, TypeOK
<1>1. CASE status'[d] = status[d] /\ attempts'[d] = attempts[d]
  BY <1>0, <1>1
<1>2. CASE status'[d] = "pending" /\ attempts'[d] = 0
  BY <1>0, <1>2
<1>3. ASSUME NEW w \in Workers, job[w].delivery = d,
             MarkDelivered(w) \/ MarkFailed(w) \/ MarkRetrying(w)
      PROVE  Backed(d)'
  <2> DEFINE a == job[w].attempt
  <2>1. job[w] \in Job /\ InSystem(job[w]) /\ pc[w] \in AfterPost
    BY <1>3 DEF MarkDelivered, MarkFailed, MarkRetrying, Phases, InSystem,
                AfterPost
  <2>2. a \in 0 .. MaxAttempts - 1
    BY <2>1, JobFields
  <2>3. 0 .. a \subseteq tried[d]
    <3>1. 0 .. a - 1 \subseteq tried[d] /\ a \in tried[d]
      BY <1>3, <2>1 DEF History, JobsBacked, WorkersBacked
    <3> QED
      BY <2>2, <3>1
  <2>4. attempts'[d] = a + 1
    BY <1>3 DEF MarkDelivered, MarkFailed, MarkRetrying, Mark, TypeOK
  <2>5. 0 .. attempts'[d] - 1 \subseteq tried'[d]
    BY <1>0, <2>2, <2>3, <2>4
  <2>6. CASE MarkDelivered(w)
    <3>1. accepts[d] > 0 /\ status'[d] = "delivered"
      BY <1>3, <2>6 DEF MarkDelivered, Mark, History, WorkersBacked, TypeOK
    <3> QED
      BY <1>0, <2>5, <3>1
  <2>7. CASE MarkFailed(w)
    <3>1. a + 1 = MaxAttempts /\ status'[d] = "failed"
      BY <1>3, <2>7 DEF MarkFailed, Mark, Phases, TypeOK
    <3> QED
      BY <2>4, <2>5, <3>1
  <2>8. CASE MarkRetrying(w)
    <3>1. a + 1 < MaxAttempts /\ status'[d] = "retrying"
      BY <1>3, <2>8 DEF MarkRetrying, Mark, Phases, TypeOK
    <3> QED
      BY <2>2, <2>4, <2>5, <3>1, MaxAttemptsAssumption
  <2> QED
    BY <1>3, <2>6, <2>7, <2>8
<1>4. ASSUME NEW w \in Workers, job[w].delivery # d,
             MarkDelivered(w) \/ MarkFailed(w) \/ MarkRetrying(w)
      PROVE  status'[d] = status[d] /\ attempts'[d] = attempts[d]
  BY <1>4 DEF MarkDelivered, MarkFailed, MarkRetrying, Mark, TypeOK
<1>5. ASSUME NEW v \in Verdicts, NEW h \in Hooks, Insert(v, h)
      PROVE  \/ status'[d] = status[d] /\ attempts'[d] = attempts[d]
             \/ status'[d] = "pending" /\ attempts'[d] = 0
  BY <1>5 DEF Insert, TypeOK
<1>6. \/ UNCHANGED rowVars
      \/ \E v \in Verdicts, h \in Hooks : Insert(v, h)
      \/ \E w \in Workers : MarkDelivered(w) \/ MarkFailed(w) \/ MarkRetrying(w)
  BY DEF Next, vars, DispatchLoop, WorkerLoop, Dispatch, SkipUnsubscribed,
         SkipBlocked, Push, DispatchDone, DispatchFault, ReadDue, PromotePush,
         PromoteRemove, Pop, PopTimeout, PostAccepted, PostNotConfirmed,
         NotConfirmed, CountUsage, WriteAudit, Delay, Reschedule, Interrupt,
         FallDue
<1> QED
  BY <1>1, <1>2, <1>3, <1>4, <1>5, <1>6

SafetyInv == TypeOK /\ Phases /\ History /\ RowsBacked

\* The initial state satisfies the invariant.
LEMMA InitSafe == Init => SafetyInv
<1> SUFFICES ASSUME Init PROVE History /\ RowsBacked
  BY InitTyped DEF SafetyInv
<1>1. JobsBacked
  BY NoJobAssumption DEF Init, JobsBacked, InSystem
<1>2. WorkersBacked
  BY DEF Init, WorkersBacked, AfterPost
<1>3. RowsBacked
  BY MaxAttemptsAssumption
  DEF Init, RowsBacked, DeliveredWasAccepted, RecordedAttemptsWereMade
<1> QED
  BY <1>1, <1>2, <1>3 DEF History

\* Every step, of the dispatcher, a worker or the clock, keeps it.
LEMMA NextSafe == SafetyInv /\ [Next]_vars => SafetyInv'
  BY NextTyped, JobsStayBacked, WorkersStayBacked, RowsStayBacked
  DEF SafetyInv, History

\* For any number of workers, crashes and copies of a job: a row says
\* "delivered" only if a receiver took the event.
THEOREM DeliveredIsSound == Spec => []DeliveredWasAccepted
<1>1. Spec => []SafetyInv
  BY InitSafe, NextSafe, PTL DEF Spec
<1>2. SafetyInv => DeliveredWasAccepted
  BY DEF SafetyInv, RowsBacked
<1> QED
  BY <1>1, <1>2, PTL

\* And a row says "failed" only after a POST at every place of BACKOFF_MS: no
\* interleaving makes the retry schedule skip one.
THEOREM NoRetryIsSkipped == Spec => []RecordedAttemptsWereMade
<1>1. Spec => []SafetyInv
  BY InitSafe, NextSafe, PTL DEF Spec
<1>2. SafetyInv => RecordedAttemptsWereMade
  BY DEF SafetyInv, RowsBacked
<1> QED
  BY <1>1, <1>2, PTL

-----------------------------------------------------------------------------
(***************************************************************************)
(* Billing.  UsageNeverExceedsAccepts is inductive over TypeOK and Phases: *)
(* a worker enters Owed(d) by a POST that adds one to accepts[d] and       *)
(* leaves it by adding at most one to usage[d].                            *)
(***************************************************************************)
\* The workers that owe a bill can be counted, as there are finitely many.
LEMMA OwedIsFinite ==
  ASSUME NEW d
  PROVE  IsFiniteSet(Owed(d)) /\ Cardinality(Owed(d)) \in Nat
<1>1. Owed(d) \subseteq Workers
  BY DEF Owed
<1> QED
  BY <1>1, WorkersAssumption, FS_Subset, FS_CardinalityType

\* No step but PostAccepted adds a worker to those that owe a bill.
LEMMA OwedOnlyGrowsByAccept ==
  ASSUME TypeOK, Phases, NEW w \in Workers, NEW d \in Deliveries,
         WorkerLoop(w) \/ Interrupt(w), ~PostAccepted(w)
  PROVE  Owed(d)' \subseteq Owed(d)
<1> SUFFICES ASSUME NEW x \in Owed(d)' PROVE x \in Owed(d)
  OBVIOUS
<1>1. x \in Workers /\ pc'[x] \in {"markDelivered", "count"} /\ job'[x].delivery = d
  BY DEF Owed
<1>2. pc[x] \in {"markDelivered", "count"} /\ job'[x] = job[x]
  BY <1>1 DEF TypeOK, WorkerLoop, ReadDue, PromotePush, PromoteRemove, Pop,
      PopTimeout, PostNotConfirmed, NotConfirmed, MarkDelivered, MarkFailed,
      MarkRetrying, Mark, CountUsage, WriteAudit, Delay, Reschedule, Release,
      Interrupt
<1> QED
  BY <1>1, <1>2 DEF Owed

\* Every step keeps the bound: a bill is owed by an accepted POST only, and
\* CountUsage pays it once.
LEMMA NextBilled ==
  TypeOK /\ Phases /\ UsageNeverExceedsAccepts /\ [Next]_vars
    => UsageNeverExceedsAccepts'
<1> USE DEF dispatchVars, rowVars, redisVars, workerVars, historyVars
<1> SUFFICES ASSUME TypeOK, Phases, UsageNeverExceedsAccepts, [Next]_vars,
                    NEW d \in Deliveries
             PROVE  usage'[d] + Cardinality(Owed(d)') <= accepts'[d]
  BY DEF UsageNeverExceedsAccepts
<1> DEFINE n == Cardinality(Owed(d))
           m == Cardinality(Owed(d)')
<1>0. /\ usage[d] \in Nat /\ usage'[d] \in Nat
      /\ accepts[d] \in Nat /\ accepts'[d] \in Nat
      /\ accepts[d] <= accepts'[d]
      /\ usage[d] + n <= accepts[d]
  BY HistoryGrows, NextTyped DEF TypeOK, UsageNeverExceedsAccepts
<1>1. n \in Nat /\ IsFiniteSet(Owed(d))
  BY OwedIsFinite
<1> HIDE DEF n, m
<1>2. ASSUME Owed(d)' = Owed(d), usage'[d] = usage[d]
      PROVE  usage'[d] + m <= accepts'[d]
  BY <1>0, <1>1, <1>2 DEF n, m
<1>3. ASSUME NEW w \in Workers, PostAccepted(w)
      PROVE  usage'[d] + m <= accepts'[d]
  <2>1. job[w] \in Job /\ job[w].delivery \in Deliveries
    BY <1>3, JobFields DEF PostAccepted, Phases
  <2>2. usage'[d] = usage[d]
    BY <1>3 DEF PostAccepted
  <2>3. CASE job[w].delivery = d
    <3>1. accepts'[d] = accepts[d] + 1
      BY <1>3, <2>3 DEF PostAccepted, TypeOK
    <3>2. Owed(d)' = Owed(d) \union {w} /\ w \notin Owed(d)
      BY <1>3, <2>3 DEF PostAccepted, Owed, TypeOK
    <3>3. m = n + 1
      BY <1>1, <3>2, FS_AddElement DEF n, m
    <3> QED
      BY <1>0, <1>1, <2>2, <3>1, <3>3
  <2>4. CASE job[w].delivery # d
    <3>1. Owed(d)' = Owed(d)
      BY <1>3, <2>4 DEF PostAccepted, Owed, TypeOK
    <3> QED
      BY <1>2, <2>2, <3>1
  <2> QED
    BY <2>3, <2>4
<1>4. ASSUME NEW w \in Workers, CountUsage(w)
      PROVE  usage'[d] + m <= accepts'[d]
  <2>1. job[w] \in Job /\ job[w].delivery \in Deliveries
    BY <1>4, JobFields DEF CountUsage, Phases
  <2>2. CASE job[w].delivery = d
    <3>1. usage'[d] = usage[d] + 1
      BY <1>4, <2>2 DEF CountUsage, TypeOK
    <3>2. Owed(d)' = Owed(d) \ {w} /\ w \in Owed(d)
      BY <1>4, <2>2, NoJobAssumption, JobFields
      DEF CountUsage, Release, Owed, TypeOK
    <3>3. m = n - 1
      BY <1>1, <3>2, FS_RemoveElement DEF n, m
    <3> QED
      BY <1>0, <1>1, <3>1, <3>3
  <2>3. CASE job[w].delivery # d
    <3>1. Owed(d)' = Owed(d)
      BY <1>4, <2>3 DEF CountUsage, Release, Owed, TypeOK
    <3>2. usage'[d] = usage[d]
      BY <1>4, <2>3 DEF CountUsage, TypeOK
    <3> QED
      BY <1>2, <3>1, <3>2
  <2> QED
    BY <2>2, <2>3
<1>5. ASSUME NEW w \in Workers, WorkerLoop(w) \/ Interrupt(w),
             ~PostAccepted(w), ~CountUsage(w)
      PROVE  usage'[d] + m <= accepts'[d]
  <2>1. Owed(d)' \subseteq Owed(d)
    BY <1>5, OwedOnlyGrowsByAccept
  <2>2. m <= n /\ m \in Nat
    BY <1>1, <2>1, FS_Subset, FS_CardinalityType DEF n, m
  <2>3. usage'[d] = usage[d]
    BY <1>5 DEF WorkerLoop, ReadDue, PromotePush, PromoteRemove, Pop,
      PopTimeout, PostNotConfirmed, NotConfirmed, MarkDelivered, MarkFailed,
      MarkRetrying, Mark, WriteAudit, Delay, Reschedule, Interrupt
  <2> QED
    BY <1>0, <1>1, <2>2, <2>3
<1>6. ASSUME UNCHANGED <<pc, job, usage>> PROVE usage'[d] + m <= accepts'[d]
  BY <1>2, <1>6 DEF Owed
<1>7. \/ UNCHANGED <<pc, job, usage>>
      \/ \E w \in Workers : WorkerLoop(w) \/ Interrupt(w)
  BY DEF Next, vars, DispatchLoop, Dispatch, SkipUnsubscribed, SkipBlocked,
         Insert, Push, DispatchDone, DispatchFault, FallDue
<1>8. usage'[d] + m <= accepts'[d]
  BY <1>3, <1>4, <1>5, <1>6, <1>7
<1> QED
  BY <1>8 DEF m

\* However many copies of a job run and wherever workers die, no delivery is
\* billed more often than its receiver took it.
THEOREM BillingIsBounded == Spec => []UsageNeverExceedsAccepts
<1>1. Init => UsageNeverExceedsAccepts
  <2> SUFFICES ASSUME Init, NEW d \in Deliveries
               PROVE  usage[d] + Cardinality(Owed(d)) <= accepts[d]
    BY DEF UsageNeverExceedsAccepts
  <2>1. Owed(d) = {}
    BY DEF Init, Owed
  <2> QED
    BY <2>1, FS_EmptySet DEF Init
<1>2. Spec => [](TypeOK /\ Phases /\ UsageNeverExceedsAccepts)
  BY <1>1, InitTyped, NextTyped, NextBilled, PTL DEF Spec
<1> QED
  BY <1>2, PTL

-----------------------------------------------------------------------------
(***************************************************************************)
(* One worker that never fails.  Custody says where the job of each open   *)
(* row is: in one place only, with the attempt number of the row.  The one *)
(* moment when it is in two places is inside promoteDelayed's pipeline,    *)
(* between RPUSH and ZREM.                                                 *)
(***************************************************************************)
Undisturbed == MaxFaults = 0 /\ \A w, x \in Workers : w = x

Queued(d) == \E i \in 1 .. Len(queue) : queue[i].delivery = d
Delayed(d) == \E j \in delayed : j.delivery = d
InHands(d) == \E w \in Workers : InHand(w) /\ job[w].delivery = d
Dispatched(d) == \E v \in Verdicts : dpc[v] = "push" /\ <<v, cursor[v]>> = d

\* The place of a job excludes the others.
QueueCustody ==
    /\ \A i, k \in 1 .. Len(queue) : queue[i].delivery = queue[k].delivery => i = k
    /\ \A i \in 1 .. Len(queue) : LET j == queue[i] IN
        /\ status[j.delivery] \in Open /\ attempts[j.delivery] = j.attempt
        /\ ~ InHands(j.delivery) /\ ~ Dispatched(j.delivery)

DelayedCustody ==
    /\ \A j, k \in delayed : j.delivery = k.delivery => j = k
    /\ \A j \in delayed :
        /\ status[j.delivery] \in Open /\ attempts[j.delivery] = j.attempt
        /\ ~ InHands(j.delivery) /\ ~ Dispatched(j.delivery)
        /\ Queued(j.delivery) => \E w \in Workers : pc[w] = "remove" /\ job[w] = j

HandCustody ==
    \A w \in Workers :
        /\ InHand(w) =>
              /\ status[job[w].delivery] \in Open /\ ~ Dispatched(job[w].delivery)
              /\ attempts[job[w].delivery] =
                    IF pc[w] = "delay" THEN job[w].attempt + 1 ELSE job[w].attempt
        /\ pc[w] \in {"push", "remove"} => batch[w] \subseteq delayed
        /\ pc[w] = "remove" => job[w] \in batch[w] /\ \E i \in 1 .. Len(queue) : queue[i] = job[w]

RowCustody ==
    /\ \A v \in Verdicts, h \in Hooks :
        dpc[v] = "idle" \/ h \in todo[v] => status[<<v, h>>] = "absent"
    /\ \A v \in Verdicts :
        dpc[v] = "push" => status[<<v, cursor[v]>>] = "pending" /\ attempts[<<v, cursor[v]>>] = 0
    /\ \A d \in Deliveries :
        status[d] \in Open => Queued(d) \/ Delayed(d) \/ InHands(d) \/ Dispatched(d)

\* A worker is at a statement about a row; the row is in the audit log.
Busy(p, d) == \E w \in Workers : pc[w] = p /\ job[w].delivery = d
Audited(d) == [action |-> "webhook.delivery_failed", delivery |-> d] \in audit

\* SettledIsAccounted, and what a settled row will be entered as.
BooksInv ==
    /\ \A d \in Deliveries :
        /\ status[d] = "delivered" /\ ~ Busy("count", d) => usage[d] = 1
        /\ status[d] # "delivered" \/ Busy("count", d) => usage[d] = 0
        /\ Audited(d) <=> status[d] = "failed" /\ ~ Busy("audit", d)
    /\ \A w \in Workers :
        /\ pc[w] = "count" => status[job[w].delivery] = "delivered"
        /\ pc[w] = "audit" => status[job[w].delivery] = "failed"

Custody == QueueCustody /\ DelayedCustody /\ HandCustody /\ RowCustody

CustodyInv == TypeOK /\ Phases /\ Custody /\ BooksInv

\* The initial state has no job and no row.
LEMMA InitCustody == Init => CustodyInv
<1> SUFFICES ASSUME Init PROVE Custody /\ BooksInv
    BY InitTyped DEF CustodyInv
<1>1. Custody
    <2>1. QueueCustody /\ DelayedCustody
        BY DEF Init, QueueCustody, DelayedCustody
    <2>2. HandCustody
        BY DEF Init, HandCustody, InHand
    <2>3. RowCustody
        BY DeliveryBuilt DEF Init, RowCustody, Open
    <2> QED BY <2>1, <2>2, <2>3 DEF Custody
<1>2. BooksInv
    BY DEF Init, BooksInv, Audited
<1> QED BY <1>1, <1>2

\* What the list holds are jobs.
LEMMA ListedJobs ==
    ASSUME TypeOK
    PROVE  /\ Len(queue) \in Nat
           /\ \A i \in 1 .. Len(queue) : queue[i] \in Job /\ queue[i].delivery \in Deliveries
<1>1. Len(queue) \in Nat /\ \A i \in 1 .. Len(queue) : queue[i] \in Job
    BY DEF TypeOK
<1> QED BY <1>1, JobFields

\* A worker step that moves no job and writes no row.
LEMMA SameCustody ==
    ASSUME CustodyInv,
           UNCHANGED <<queue, delayed, status, attempts>>,
           \A d \in Deliveries : InHands(d)' <=> InHands(d),
           \A d \in Deliveries : Dispatched(d)' <=> Dispatched(d),
           HandCustody', RowCustody',
           UNCHANGED <<pc, job>> \/ \A w \in Workers : pc[w] # "remove"
    PROVE  Custody'
<1>1. \A d : Queued(d)' <=> Queued(d)
    BY DEF Queued
<1>2. \A i \in 1 .. Len(queue) : queue[i] \in Job /\ queue[i].delivery \in Deliveries
    BY ListedJobs DEF CustodyInv
<1>3. \A j \in delayed : j \in Job /\ j.delivery \in Deliveries
    BY JobFields DEF CustodyInv, TypeOK
<1>4. QueueCustody'
    BY <1>2 DEF CustodyInv, Custody, QueueCustody
<1>5. DelayedCustody'
    BY <1>1, <1>3 DEF CustodyInv, Custody, DelayedCustody
<1> QED BY <1>4, <1>5 DEF Custody

LEMMA DispatchLoopCustody ==
    ASSUME CustodyInv, NEW v \in Verdicts,
           \/ Dispatch(v) \/ DispatchDone(v)
           \/ \E h \in Hooks : SkipUnsubscribed(v, h) \/ SkipBlocked(v, h)
    PROVE  Custody'
<1> USE DEF rowVars, redisVars, workerVars
<1>1. /\ UNCHANGED <<queue, delayed, status, attempts, pc, job, batch, cursor>>
      /\ \E new \in {"next", "done"} : dpc[v] # "push" /\ dpc' = [dpc EXCEPT ![v] = new]
      /\ dpc[v] = "idle" \/ todo'[v] \subseteq todo[v]
      /\ \A u \in Verdicts \ {v} : todo'[u] = todo[u]
    BY DEF Dispatch, DispatchDone, SkipUnsubscribed, SkipBlocked, CustodyInv, TypeOK
<1>2. \A d : Dispatched(d)' <=> Dispatched(d)
    BY <1>1 DEF Dispatched, CustodyInv, TypeOK
<1>3. \A d : InHands(d)' <=> InHands(d)
    BY <1>1 DEF InHands, InHand
<1>4. HandCustody'
    BY <1>1, <1>2 DEF CustodyInv, Custody, HandCustody, InHand
<1>5. RowCustody'
    <2>1. ASSUME NEW u \in Verdicts, NEW h \in Hooks, dpc'[u] = "idle" \/ h \in todo'[u]
          PROVE  status'[<<u, h>>] = "absent"
        BY <1>1, <2>1 DEF CustodyInv, TypeOK, Custody, RowCustody
    <2>2. ASSUME NEW u \in Verdicts, dpc'[u] = "push"
          PROVE  dpc[u] = "push"
        BY <1>1, <2>2 DEF CustodyInv, TypeOK
    <2>3. \A d : (Queued(d)' <=> Queued(d)) /\ (Delayed(d)' <=> Delayed(d))
        BY <1>1 DEF Queued, Delayed
    <2> QED BY <1>1, <1>2, <1>3, <2>1, <2>2, <2>3 DEF CustodyInv, Custody, RowCustody
<1> QED BY <1>1, <1>2, <1>3, <1>4, <1>5, SameCustody DEF CustodyInv

LEMMA InsertCustody ==
    ASSUME CustodyInv, NEW v \in Verdicts, NEW h \in Hooks, Insert(v, h)
    PROVE  Custody'
<1> USE DEF rowVars, redisVars, workerVars
<1> DEFINE d == <<v, h>>
<1>1. /\ UNCHANGED <<queue, delayed, pc, job, batch>>
      /\ status' = [status EXCEPT ![d] = "pending"] /\ attempts' = [attempts EXCEPT ![d] = 0]
      /\ todo' = [todo EXCEPT ![v] = todo[v] \ {h}] /\ cursor' = [cursor EXCEPT ![v] = h]
      /\ dpc[v] = "next" /\ dpc' = [dpc EXCEPT ![v] = "push"] /\ h \in todo[v]
    BY DEF Insert
<1>2. d \in Deliveries /\ status[d] = "absent"
    BY <1>1, DeliveryBuilt DEF CustodyInv, Custody, RowCustody
<1>3. \A e \in Deliveries : (Queued(e)' <=> Queued(e)) /\ (Delayed(e)' <=> Delayed(e))
                            /\ (InHands(e)' <=> InHands(e))
    BY <1>1 DEF Queued, Delayed, InHands, InHand
<1>4. \A e \in Deliveries : Dispatched(e)' <=> (Dispatched(e) \/ e = d)
    BY <1>1 DEF Dispatched, CustodyInv, TypeOK
<1>5. ~ Queued(d) /\ ~ Delayed(d) /\ ~ InHands(d)
    BY <1>2 DEF Queued, Delayed, InHands, Open, CustodyInv, Custody, QueueCustody,
       DelayedCustody, HandCustody
<1>6. \A e \in Deliveries \ {d} : status'[e] = status[e] /\ attempts'[e] = attempts[e]
    BY <1>1 DEF CustodyInv, TypeOK
<1>7. QueueCustody'
    <2>1. \A i \in 1 .. Len(queue) : queue[i].delivery \in Deliveries \ {d}
        BY <1>5, ListedJobs DEF CustodyInv, Queued
    <2> QED BY <1>1, <1>3, <1>4, <1>6, <2>1 DEF CustodyInv, Custody, QueueCustody
<1>8. DelayedCustody'
    <2>1. \A j \in delayed : j.delivery \in Deliveries \ {d}
        BY <1>5, JobFields DEF CustodyInv, TypeOK, Delayed
    <2> QED BY <1>1, <1>3, <1>4, <1>6, <2>1 DEF CustodyInv, Custody, DelayedCustody
<1>9. HandCustody'
    <2>1. \A w \in Workers : InHand(w) => job[w].delivery \in Deliveries \ {d}
        BY <1>5, JobFields DEF CustodyInv, Phases, InHands, InHand
    <2> QED BY <1>1, <1>4, <1>6, <2>1 DEF CustodyInv, Custody, HandCustody, InHand
<1>10. RowCustody'
    <2>1. ASSUME NEW u \in Verdicts, NEW k \in Hooks, dpc'[u] = "idle" \/ k \in todo'[u]
          PROVE  status'[<<u, k>>] = "absent"
        <3>1. <<u, k>> # d /\ <<u, k>> \in Deliveries
            BY <1>1, <2>1, DeliveryBuilt DEF CustodyInv, TypeOK
        <3>2. dpc[u] = "idle" \/ k \in todo[u]
            BY <1>1, <2>1 DEF CustodyInv, TypeOK
        <3> QED BY <1>6, <3>1, <3>2 DEF CustodyInv, Custody, RowCustody
    <2>2. ASSUME NEW u \in Verdicts, dpc'[u] = "push"
          PROVE  status'[<<u, cursor'[u]>>] = "pending" /\ attempts'[<<u, cursor'[u]>>] = 0
        <3>1. CASE u = v
            BY <1>1, <1>2, <3>1 DEF CustodyInv, TypeOK
        <3>2. CASE u # v
            <4>1. dpc[u] = "push" /\ cursor'[u] = cursor[u] /\ cursor[u] \in Hooks
                BY <1>1, <2>2, <3>2 DEF CustodyInv, TypeOK, Phases
            <4>2. <<u, cursor[u]>> \in Deliveries \ {d}
                BY <3>2, <4>1, DeliveryBuilt
            <4> QED BY <1>6, <4>1, <4>2 DEF CustodyInv, Custody, RowCustody
        <3> QED BY <3>1, <3>2
    <2>3. ASSUME NEW e \in Deliveries, status'[e] \in Open
          PROVE  (Queued(e) \/ Delayed(e) \/ InHands(e) \/ Dispatched(e))'
        <3>1. CASE e = d
            BY <1>4, <3>1
        <3>2. CASE e # d
            BY <1>3, <1>4, <1>6, <2>3, <3>2 DEF CustodyInv, Custody, RowCustody
        <3> QED BY <3>1, <3>2
    <2> QED BY <2>1, <2>2, <2>3 DEF RowCustody, Open
<1> QED BY <1>7, <1>8, <1>9, <1>10 DEF Custody

\* A job appended to the list is on it, once, and the others are where they were.
LEMMA AppendedJob ==
    ASSUME TypeOK, NEW j \in Job, queue' = Append(queue, j)
    PROVE  /\ Len(queue') = Len(queue) + 1 /\ queue'[Len(queue) + 1] = j
           /\ \A i \in 1 .. Len(queue) : queue'[i] = queue[i]
           /\ Len(queue) \in Nat
           /\ \A d : Queued(d)' <=> Queued(d) \/ d = j.delivery
    BY DEF TypeOK, Queued

LEMMA PushCustody ==
    ASSUME CustodyInv, NEW v \in Verdicts, Push(v)
    PROVE  Custody'
<1> USE DEF rowVars, redisVars, workerVars
<1> DEFINE d == <<v, cursor[v]>>
           j == [delivery |-> d, attempt |-> 0]
<1>1. /\ UNCHANGED <<delayed, pc, job, batch, todo, status, attempts>>
      /\ queue' = Append(queue, j) /\ cursor' = [cursor EXCEPT ![v] = NoHook]
      /\ dpc[v] = "push" /\ dpc' = [dpc EXCEPT ![v] = "next"]
    BY DEF Push
<1>2. d \in Deliveries /\ j \in Job /\ j.delivery = d /\ j.attempt = 0
    BY <1>1, DeliveryBuilt, JobBuilt, AttemptZero DEF CustodyInv, Phases
<1> HIDE DEF j
<1>3. /\ Len(queue') = Len(queue) + 1 /\ queue'[Len(queue) + 1] = j
      /\ \A i \in 1 .. Len(queue) : queue'[i] = queue[i]
      /\ Len(queue) \in Nat
      /\ \A e : Queued(e)' <=> Queued(e) \/ e = d
    BY <1>1, <1>2, AppendedJob DEF CustodyInv
<1>4. \A e \in Deliveries : (Delayed(e)' <=> Delayed(e)) /\ (InHands(e)' <=> InHands(e))
    BY <1>1 DEF Delayed, InHands, InHand
<1>5. \A e \in Deliveries : Dispatched(e)' <=> (Dispatched(e) /\ e # d)
    BY <1>1 DEF Dispatched, CustodyInv, TypeOK
<1>6. Dispatched(d) /\ status[d] = "pending" /\ attempts[d] = 0
    BY <1>1, <1>2 DEF Dispatched, CustodyInv, Custody, RowCustody
<1>7. ~ Queued(d) /\ ~ Delayed(d) /\ ~ InHands(d)
    BY <1>6 DEF Queued, Delayed, InHands, CustodyInv, Custody, QueueCustody,
       DelayedCustody, HandCustody
<1>8. QueueCustody'
    <2>1. \A i \in 1 .. Len(queue) : queue[i].delivery \in Deliveries \ {d}
        BY <1>7, ListedJobs DEF CustodyInv, Queued
    <2>2. \A i, k \in 1 .. Len(queue') : queue'[i].delivery = queue'[k].delivery => i = k
        BY <1>2, <1>3, <2>1 DEF CustodyInv, Custody, QueueCustody
    <2>3. ASSUME NEW i \in 1 .. Len(queue')
          PROVE  LET k == queue[i] IN
                 ( /\ status[k.delivery] \in Open /\ attempts[k.delivery] = k.attempt
                   /\ ~ InHands(k.delivery) /\ ~ Dispatched(k.delivery) )'
        <3>1. CASE i = Len(queue) + 1
            BY <1>1, <1>2, <1>3, <1>4, <1>5, <1>6, <1>7, <3>1 DEF Open
        <3>2. CASE i # Len(queue) + 1
            <4>1. i \in 1 .. Len(queue) /\ queue'[i] = queue[i]
                BY <1>3, <3>2
            <4> QED BY <1>1, <1>4, <1>5, <2>1, <4>1 DEF CustodyInv, Custody, QueueCustody
        <3> QED BY <3>1, <3>2
    <2> QED BY <2>2, <2>3 DEF QueueCustody, Open
<1>9. DelayedCustody'
    <2>1. \A k \in delayed : k.delivery \in Deliveries \ {d}
        BY <1>7, JobFields DEF CustodyInv, TypeOK, Delayed
    <2> QED BY <1>1, <1>3, <1>4, <1>5, <2>1 DEF CustodyInv, Custody, DelayedCustody
<1>10. HandCustody'
    <2>1. \A w \in Workers : InHand(w) => job[w].delivery \in Deliveries
        BY JobFields DEF CustodyInv, Phases, InHand
    <2>2. \A w \in Workers : pc[w] = "remove" => \E i \in 1 .. Len(queue') : queue'[i] = job[w]
        BY <1>3 DEF CustodyInv, Custody, HandCustody
    <2> QED BY <1>1, <1>5, <2>1, <2>2 DEF CustodyInv, Custody, HandCustody, InHand
<1>11. RowCustody'
    <2>1. \A u \in Verdicts, k \in Hooks :
            dpc'[u] = "idle" \/ k \in todo'[u] => status'[<<u, k>>] = "absent"
        BY <1>1 DEF CustodyInv, TypeOK, Custody, RowCustody
    <2>2. ASSUME NEW u \in Verdicts, dpc'[u] = "push"
          PROVE  dpc[u] = "push" /\ cursor'[u] = cursor[u]
        BY <1>1, <2>2 DEF CustodyInv, TypeOK
    <2>3. \A e \in Deliveries : status'[e] \in Open =>
            (Queued(e) \/ Delayed(e) \/ InHands(e) \/ Dispatched(e))'
        BY <1>1, <1>3, <1>4, <1>5 DEF CustodyInv, Custody, RowCustody
    <2> QED BY <1>1, <2>1, <2>2, <2>3 DEF CustodyInv, Custody, RowCustody, Open
<1> QED BY <1>8, <1>9, <1>10, <1>11 DEF Custody

LEMMA ReadCustody ==
    ASSUME Undisturbed, CustodyInv, NEW w \in Workers, ReadDue(w) \/ PopTimeout(w)
    PROVE  Custody'
<1> USE DEF rowVars, redisVars, dispatchVars
<1>1. /\ UNCHANGED <<queue, delayed, status, attempts, job, dpc, cursor, todo>>
      /\ pc[w] \in {"idle", "pop"} /\ \E new \in {"idle", "pop", "push"} : pc' = [pc EXCEPT ![w] = new]
    BY DEF ReadDue, PopTimeout
<1>2. \A x \in Workers : x = w
    BY DEF Undisturbed
<1>3. \A d : (Dispatched(d)' <=> Dispatched(d)) /\ (InHands(d)' <=> InHands(d))
             /\ (Queued(d)' <=> Queued(d)) /\ (Delayed(d)' <=> Delayed(d))
    BY <1>1 DEF Dispatched, InHands, InHand, Queued, Delayed, CustodyInv, TypeOK
<1>4. HandCustody'
    BY <1>1, <1>2 DEF ReadDue, PopTimeout, CustodyInv, TypeOK, HandCustody, InHand
<1>5. RowCustody'
    BY <1>1, <1>3 DEF CustodyInv, Custody, RowCustody
<1> QED BY <1>1, <1>2, <1>3, <1>4, <1>5, SameCustody DEF CustodyInv

LEMMA PostCustody ==
    ASSUME Undisturbed, CustodyInv, NEW w \in Workers, PostAccepted(w) \/ PostNotConfirmed(w)
    PROVE  Custody'
<1> USE DEF rowVars, redisVars, dispatchVars
<1>1. /\ UNCHANGED <<queue, delayed, status, attempts, job, dpc, cursor, todo, batch>>
      /\ pc[w] = "post"
      /\ \E new \in {"markDelivered", "markFailed", "markRetrying"} : pc' = [pc EXCEPT ![w] = new]
    BY DEF PostAccepted, PostNotConfirmed, NotConfirmed
<1>2. \A x \in Workers : x = w
    BY DEF Undisturbed
<1>3. \A d : (Dispatched(d)' <=> Dispatched(d)) /\ (InHands(d)' <=> InHands(d))
             /\ (Queued(d)' <=> Queued(d)) /\ (Delayed(d)' <=> Delayed(d))
    BY <1>1 DEF Dispatched, InHands, InHand, Queued, Delayed, CustodyInv, TypeOK
<1>4. HandCustody'
    BY <1>1, <1>2, <1>3 DEF CustodyInv, TypeOK, Custody, HandCustody, InHand
<1>5. RowCustody'
    BY <1>1, <1>3 DEF CustodyInv, Custody, RowCustody
<1> QED BY <1>1, <1>2, <1>3, <1>4, <1>5, SameCustody DEF CustodyInv

LEMMA PromotePushCustody ==
    ASSUME Undisturbed, CustodyInv, NEW w \in Workers, PromotePush(w)
    PROVE  Custody'
<1> USE DEF rowVars, redisVars, dispatchVars
<1>1. PICK j \in batch[w] : queue' = Append(queue, j) /\ job' = [job EXCEPT ![w] = j]
    BY DEF PromotePush
<1>2. /\ UNCHANGED <<delayed, status, attempts, dpc, cursor, todo, batch>>
      /\ pc[w] = "push" /\ pc' = [pc EXCEPT ![w] = "remove"]
    BY DEF PromotePush
<1>3. \A x \in Workers : x = w
    BY DEF Undisturbed
<1>4. j \in delayed /\ j \in Job /\ j.delivery \in Deliveries
    BY <1>1, <1>2, JobFields DEF CustodyInv, TypeOK, Custody, HandCustody
<1>5. /\ Len(queue') = Len(queue) + 1 /\ queue'[Len(queue) + 1] = j
      /\ \A i \in 1 .. Len(queue) : queue'[i] = queue[i]
      /\ Len(queue) \in Nat
      /\ \A e : Queued(e)' <=> Queued(e) \/ e = j.delivery
    BY <1>1, <1>4, AppendedJob DEF CustodyInv
<1>6. \A e : (Delayed(e)' <=> Delayed(e)) /\ (Dispatched(e)' <=> Dispatched(e))
             /\ ~ InHands(e) /\ ~ InHands(e)'
    BY <1>2, <1>3 DEF Delayed, Dispatched, InHands, InHand, CustodyInv, TypeOK
<1>7. \A k \in delayed : ~ Queued(k.delivery)
    BY <1>2, <1>3 DEF CustodyInv, Custody, DelayedCustody
<1>8. /\ status[j.delivery] \in Open /\ attempts[j.delivery] = j.attempt
      /\ ~ Dispatched(j.delivery) /\ ~ Queued(j.delivery)
    BY <1>4, <1>7 DEF CustodyInv, Custody, DelayedCustody
<1>9. QueueCustody'
    <2>1. \A i \in 1 .. Len(queue) : queue[i].delivery \in Deliveries \ {j.delivery}
        BY <1>8, ListedJobs DEF CustodyInv, Queued
    <2>2. \A i, k \in 1 .. Len(queue') : queue'[i].delivery = queue'[k].delivery => i = k
        BY <1>5, <2>1 DEF CustodyInv, Custody, QueueCustody
    <2>3. ASSUME NEW i \in 1 .. Len(queue')
          PROVE  LET k == queue[i] IN
                 ( /\ status[k.delivery] \in Open /\ attempts[k.delivery] = k.attempt
                   /\ ~ InHands(k.delivery) /\ ~ Dispatched(k.delivery) )'
        <3>1. CASE i = Len(queue) + 1
            BY <1>2, <1>5, <1>6, <1>8, <3>1 DEF Open
        <3>2. CASE i # Len(queue) + 1
            <4>1. i \in 1 .. Len(queue) /\ queue'[i] = queue[i]
                BY <1>5, <3>2
            <4> QED BY <1>2, <1>6, <2>1, <4>1 DEF CustodyInv, Custody, QueueCustody, Open
        <3> QED BY <3>1, <3>2
    <2> QED BY <2>2, <2>3 DEF QueueCustody, Open
<1>10. DelayedCustody'
    <2>1. ASSUME NEW k \in delayed, Queued(k.delivery)' PROVE k = j
        BY <1>4, <1>5, <1>7, <2>1 DEF CustodyInv, Custody, DelayedCustody
    <2>2. pc'[w] = "remove" /\ job'[w] = j
        BY <1>1, <1>2 DEF CustodyInv, TypeOK
    <2> QED BY <1>2, <1>6, <2>1, <2>2 DEF CustodyInv, Custody, DelayedCustody, Open
<1>11. HandCustody'
    <2>1. queue'[Len(queue') ] = j /\ Len(queue') \in 1 .. Len(queue')
        BY <1>5
    <2>2. job'[w] = j /\ pc'[w] = "remove" /\ batch'[w] \subseteq delayed'
        BY <1>1, <1>2 DEF CustodyInv, TypeOK, Custody, HandCustody
    <2> QED BY <1>1, <1>2, <1>3, <2>1, <2>2 DEF HandCustody, InHand
<1>12. RowCustody'
    BY <1>2, <1>5, <1>6 DEF CustodyInv, Custody, RowCustody, Open
<1> QED BY <1>9, <1>10, <1>11, <1>12 DEF Custody

LEMMA PromoteRemoveCustody ==
    ASSUME Undisturbed, CustodyInv, NEW w \in Workers, PromoteRemove(w)
    PROVE  Custody'
<1> USE DEF rowVars, redisVars, dispatchVars
<1> DEFINE j == job[w]
<1>1. /\ UNCHANGED <<queue, status, attempts, dpc, cursor, todo>>
      /\ delayed' = delayed \ {j} /\ batch' = [batch EXCEPT ![w] = batch[w] \ {j}]
      /\ job' = [job EXCEPT ![w] = NoJob]
      /\ pc[w] = "remove" /\ \E new \in {"pop", "push"} : pc' = [pc EXCEPT ![w] = new]
    BY DEF PromoteRemove
<1>2. \A x \in Workers : x = w
    BY DEF Undisturbed
<1>3. \A e : (Queued(e)' <=> Queued(e)) /\ (Dispatched(e)' <=> Dispatched(e))
             /\ ~ InHands(e) /\ ~ InHands(e)'
    BY <1>1, <1>2 DEF Queued, Dispatched, InHands, InHand, CustodyInv, TypeOK
<1>4. j \in batch[w] /\ batch[w] \subseteq delayed /\ Queued(j.delivery)
    BY <1>1 DEF CustodyInv, Custody, HandCustody, Queued
<1>5. QueueCustody'
    BY <1>1, <1>3 DEF CustodyInv, Custody, QueueCustody, Open
<1>6. DelayedCustody'
    <2>1. \A k \in delayed : Queued(k.delivery) => k = j
        BY <1>1, <1>2 DEF CustodyInv, Custody, DelayedCustody
    <2> QED BY <1>1, <1>3, <2>1 DEF CustodyInv, Custody, DelayedCustody, Open
<1>7. HandCustody'
    BY <1>1, <1>2, <1>4 DEF CustodyInv, TypeOK, HandCustody, InHand
<1>8. RowCustody'
    <2>1. \A e \in Deliveries : Delayed(e) => Delayed(e)' \/ Queued(e)'
        BY <1>1, <1>3, <1>4 DEF Delayed
    <2> QED BY <1>1, <1>3, <2>1 DEF CustodyInv, Custody, RowCustody, Open
<1> QED BY <1>5, <1>6, <1>7, <1>8 DEF Custody

LEMMA PopCustody ==
    ASSUME Undisturbed, CustodyInv, NEW w \in Workers, Pop(w)
    PROVE  Custody'
<1> USE DEF rowVars, redisVars, dispatchVars
<1> DEFINE j == queue[1]
<1>1. /\ UNCHANGED <<delayed, status, attempts, dpc, cursor, todo, batch>>
      /\ job' = [job EXCEPT ![w] = Head(queue)] /\ queue' = Tail(queue) /\ queue # <<>>
      /\ pc[w] = "pop" /\ pc' = [pc EXCEPT ![w] = "post"]
    BY DEF Pop
<1>2. \A x \in Workers : x = w
    BY DEF Undisturbed
<1>3. /\ Len(queue) \in Nat /\ 1 \in 1 .. Len(queue) /\ Len(queue') = Len(queue) - 1
      /\ \A i \in 1 .. Len(queue') : i + 1 \in 1 .. Len(queue) /\ queue'[i] = queue[i + 1]
      /\ j \in Job /\ j.delivery \in Deliveries
      /\ job'[w] = j
    BY <1>1, ListedJobs DEF CustodyInv, TypeOK
<1>4. /\ status[j.delivery] \in Open /\ attempts[j.delivery] = j.attempt
      /\ ~ InHands(j.delivery) /\ ~ Dispatched(j.delivery)
    BY <1>3 DEF CustodyInv, Custody, QueueCustody
<1>5. \A k \in delayed : ~ Queued(k.delivery)
    BY <1>1, <1>2 DEF CustodyInv, Custody, DelayedCustody
<1>6. \A e : Queued(e)' <=> Queued(e) /\ e # j.delivery
    <2>1. \A i \in 1 .. Len(queue') : queue'[i].delivery # j.delivery
        BY <1>3 DEF CustodyInv, Custody, QueueCustody
    <2>2. ASSUME NEW e, NEW i \in 1 .. Len(queue), queue[i].delivery = e, e # j.delivery
          PROVE  Queued(e)'
        <3>1. i - 1 \in 1 .. Len(queue') /\ queue'[i - 1] = queue[i]
            BY <1>3, <2>2
        <3> QED BY <2>2, <3>1 DEF Queued
    <2> QED BY <1>3, <2>1, <2>2 DEF Queued
<1>7. \A e : (Delayed(e)' <=> Delayed(e)) /\ (Dispatched(e)' <=> Dispatched(e))
             /\ ~ InHands(e) /\ (InHands(e)' <=> e = j.delivery)
    BY <1>1, <1>2, <1>3 DEF Delayed, Dispatched, InHands, InHand, CustodyInv, TypeOK
<1>8. Queued(j.delivery) /\ ~ Delayed(j.delivery)
    BY <1>3, <1>5 DEF Queued, Delayed
<1>9. QueueCustody'
    <2>1. \A i, k \in 1 .. Len(queue') : queue'[i].delivery = queue'[k].delivery => i = k
        BY <1>3 DEF CustodyInv, Custody, QueueCustody
    <2>2. ASSUME NEW i \in 1 .. Len(queue')
          PROVE  LET k == queue[i] IN
                 ( /\ status[k.delivery] \in Open /\ attempts[k.delivery] = k.attempt
                   /\ ~ InHands(k.delivery) /\ ~ Dispatched(k.delivery) )'
        <3>1. queue'[i].delivery # j.delivery
            BY <1>3 DEF CustodyInv, Custody, QueueCustody
        <3> QED BY <1>1, <1>3, <1>7, <3>1 DEF CustodyInv, Custody, QueueCustody, Open
    <2> QED BY <2>1, <2>2 DEF QueueCustody, Open
<1>10. DelayedCustody'
    <2>1. \A k \in delayed : k.delivery # j.delivery /\ ~ Queued(k.delivery)'
        BY <1>5, <1>6, <1>8 DEF Delayed
    <2> QED BY <1>1, <1>7, <2>1 DEF CustodyInv, Custody, DelayedCustody, Open
<1>11. HandCustody'
    <2>1. pc'[w] = "post"
        BY <1>1 DEF CustodyInv, TypeOK
    <2> QED BY <1>1, <1>2, <1>3, <1>4, <1>7, <2>1 DEF HandCustody, Open
<1>12. RowCustody'
    BY <1>1, <1>6, <1>7 DEF CustodyInv, Custody, RowCustody, Open
<1> QED BY <1>9, <1>10, <1>11, <1>12 DEF Custody

\* The row in hand is settled, or waits for its job to be delayed.
LEMMA MarkCustody ==
    ASSUME Undisturbed, CustodyInv, NEW w \in Workers,
           MarkDelivered(w) \/ MarkFailed(w) \/ MarkRetrying(w)
    PROVE  Custody'
<1> USE DEF rowVars, redisVars, dispatchVars
<1> DEFINE d == job[w].delivery
<1>1. /\ UNCHANGED <<queue, delayed, dpc, cursor, todo, batch, job>>
      /\ attempts' = [attempts EXCEPT ![d] = job[w].attempt + 1]
      /\ pc[w] \in {"markDelivered", "markFailed", "markRetrying"}
      /\ \/ status' = [status EXCEPT ![d] = "delivered"] /\ pc' = [pc EXCEPT ![w] = "count"]
         \/ status' = [status EXCEPT ![d] = "failed"] /\ pc' = [pc EXCEPT ![w] = "audit"]
         \/ status' = [status EXCEPT ![d] = "retrying"] /\ pc' = [pc EXCEPT ![w] = "delay"]
    BY DEF MarkDelivered, MarkFailed, MarkRetrying, Mark
<1>2. \A x \in Workers : x = w
    BY DEF Undisturbed
<1>3. job[w] \in Job /\ d \in Deliveries
    BY <1>1, JobFields DEF CustodyInv, Phases
<1>4. InHands(d) /\ ~ Dispatched(d) /\ status[d] \in Open
    BY <1>1 DEF InHands, InHand, CustodyInv, Custody, HandCustody
<1>5. ~ Queued(d) /\ ~ Delayed(d)
    BY <1>4 DEF Queued, Delayed, CustodyInv, Custody, QueueCustody, DelayedCustody
<1>6. \A e \in Deliveries \ {d} : status'[e] = status[e] /\ attempts'[e] = attempts[e]
    BY <1>1, <1>3 DEF CustodyInv, TypeOK
<1>7. attempts'[d] = job[w].attempt + 1
      /\ \/ status'[d] = "retrying" /\ pc'[w] = "delay"
         \/ status'[d] \notin Open /\ pc'[w] \in {"count", "audit"}
    BY <1>1, <1>3 DEF CustodyInv, TypeOK, Open
<1>8. \A e : (Queued(e)' <=> Queued(e)) /\ (Delayed(e)' <=> Delayed(e))
             /\ (Dispatched(e)' <=> Dispatched(e))
             /\ (InHands(e) <=> e = d) /\ (InHands(e)' <=> e = d /\ pc'[w] = "delay")
    BY <1>1, <1>2, <1>7 DEF Queued, Delayed, Dispatched, InHands, InHand
<1>9. QueueCustody'
    <2>1. \A i \in 1 .. Len(queue) : queue[i].delivery \in Deliveries \ {d}
        BY <1>5, ListedJobs DEF CustodyInv, Queued
    <2> QED BY <1>1, <1>6, <1>8, <2>1 DEF CustodyInv, Custody, QueueCustody, Open
<1>10. DelayedCustody'
    <2>1. \A j \in delayed : j.delivery \in Deliveries \ {d}
        BY <1>5, JobFields DEF CustodyInv, TypeOK, Delayed
    <2>2. \A j \in delayed : ~ Queued(j.delivery)
        BY <1>1, <1>2 DEF CustodyInv, Custody, DelayedCustody
    <2> QED BY <1>1, <1>6, <1>8, <2>1, <2>2 DEF CustodyInv, Custody, DelayedCustody, Open
<1>11. HandCustody'
    BY <1>1, <1>2, <1>4, <1>7, <1>8 DEF HandCustody, InHand, Open
<1>12. RowCustody'
    <2>1. \A v \in Verdicts, h \in Hooks :
            dpc'[v] = "idle" \/ h \in todo'[v] => status'[<<v, h>>] = "absent"
        BY <1>1, <1>4, <1>6, DeliveryBuilt DEF CustodyInv, Custody, RowCustody, Open
    <2>2. ASSUME NEW v \in Verdicts, dpc'[v] = "push"
          PROVE  status'[<<v, cursor'[v]>>] = "pending" /\ attempts'[<<v, cursor'[v]>>] = 0
        <3>1. dpc[v] = "push" /\ cursor[v] \in Hooks
            BY <1>1, <2>2 DEF CustodyInv, Phases
        <3>2. <<v, cursor[v]>> \in Deliveries \ {d}
            BY <1>4, <3>1, DeliveryBuilt DEF Dispatched
        <3> QED BY <1>1, <1>6, <3>1, <3>2 DEF CustodyInv, Custody, RowCustody
    <2>3. \A e \in Deliveries : status'[e] \in Open =>
            (Queued(e) \/ Delayed(e) \/ InHands(e) \/ Dispatched(e))'
        BY <1>6, <1>7, <1>8 DEF CustodyInv, Custody, RowCustody
    <2> QED BY <2>1, <2>2, <2>3 DEF RowCustody, Open
<1> QED BY <1>9, <1>10, <1>11, <1>12 DEF Custody

\* The job of a settled row is let go of.
LEMMA LetGoCustody ==
    ASSUME Undisturbed, CustodyInv, NEW w \in Workers, CountUsage(w) \/ WriteAudit(w)
    PROVE  Custody'
<1> USE DEF rowVars, redisVars, dispatchVars
<1>1. /\ UNCHANGED <<queue, delayed, status, attempts, dpc, cursor, todo, batch>>
      /\ pc[w] \in {"count", "audit"} /\ pc' = [pc EXCEPT ![w] = "idle"]
    BY DEF CountUsage, WriteAudit, Release
<1>2. \A x \in Workers : x = w
    BY DEF Undisturbed
<1>3. \A d : (Dispatched(d)' <=> Dispatched(d)) /\ (InHands(d)' <=> InHands(d))
             /\ (Queued(d)' <=> Queued(d)) /\ (Delayed(d)' <=> Delayed(d))
    BY <1>1, <1>2 DEF Dispatched, InHands, InHand, Queued, Delayed, CustodyInv, TypeOK
<1>4. HandCustody'
    BY <1>1, <1>2 DEF CustodyInv, TypeOK, HandCustody, InHand
<1>5. RowCustody'
    BY <1>1, <1>3 DEF CustodyInv, Custody, RowCustody
<1> QED BY <1>1, <1>2, <1>3, <1>4, <1>5, SameCustody DEF CustodyInv

LEMMA DelayCustody ==
    ASSUME Undisturbed, CustodyInv, NEW w \in Workers, Delay(w)
    PROVE  Custody'
<1> USE DEF rowVars, redisVars, dispatchVars
<1> DEFINE d == job[w].delivery
           j == [delivery |-> d, attempt |-> job[w].attempt + 1]
<1>1. /\ UNCHANGED <<queue, status, attempts, dpc, cursor, todo, batch>>
      /\ delayed' = delayed \union {j}
      /\ pc[w] = "delay" /\ pc' = [pc EXCEPT ![w] = "idle"]
    BY DEF Delay, Reschedule, Release
<1>2. \A x \in Workers : x = w
    BY DEF Undisturbed
<1>3. j.delivery = d /\ j.attempt = job[w].attempt + 1 /\ job[w] \in Job /\ d \in Deliveries
    BY <1>1, JobFields DEF CustodyInv, Phases
<1> HIDE DEF j
<1>4. /\ InHands(d) /\ ~ Dispatched(d) /\ status[d] \in Open
      /\ attempts[d] = job[w].attempt + 1
    BY <1>1 DEF InHands, InHand, CustodyInv, Custody, HandCustody
<1>5. ~ Queued(d) /\ ~ Delayed(d)
    BY <1>4 DEF Queued, Delayed, CustodyInv, Custody, QueueCustody, DelayedCustody
<1>6. \A e : (Queued(e)' <=> Queued(e)) /\ (Delayed(e)' <=> Delayed(e) \/ e = d)
             /\ (Dispatched(e)' <=> Dispatched(e))
             /\ (InHands(e) <=> e = d) /\ ~ InHands(e)'
    BY <1>1, <1>2, <1>3 DEF Queued, Delayed, Dispatched, InHands, InHand, CustodyInv, TypeOK
<1>7. QueueCustody'
    BY <1>1, <1>6 DEF CustodyInv, Custody, QueueCustody, Open
<1>8. DelayedCustody'
    <2>1. \A k \in delayed : k.delivery # d /\ ~ Queued(k.delivery)
        BY <1>1, <1>2, <1>5 DEF CustodyInv, Custody, DelayedCustody, Delayed
    <2> QED BY <1>1, <1>3, <1>4, <1>5, <1>6, <2>1
            DEF CustodyInv, Custody, DelayedCustody, Open
<1>9. HandCustody'
    BY <1>1, <1>2 DEF CustodyInv, TypeOK, HandCustody, InHand
<1>10. RowCustody'
    BY <1>1, <1>6 DEF CustodyInv, Custody, RowCustody, Open
<1> QED BY <1>7, <1>8, <1>9, <1>10 DEF Custody

LEMMA FallDueCustody ==
    ASSUME CustodyInv, UNCHANGED <<queue, delayed, status, attempts, dpc, cursor, todo, batch, pc, job>>
    PROVE  Custody'
<1>1. \A d : (Dispatched(d)' <=> Dispatched(d)) /\ (InHands(d)' <=> InHands(d))
             /\ (Queued(d)' <=> Queued(d)) /\ (Delayed(d)' <=> Delayed(d))
    BY DEF Dispatched, InHands, InHand, Queued, Delayed
<1>2. HandCustody' /\ RowCustody'
    BY <1>1 DEF CustodyInv, Custody, HandCustody, InHand, RowCustody
<1> QED BY <1>1, <1>2, SameCustody DEF CustodyInv

\* With no fault to come, the steps are these.
LEMMA UndisturbedSteps ==
    ASSUME Undisturbed, CustodyInv, [Next]_vars
    PROVE  \/ \E v \in Verdicts :
                \/ Dispatch(v) \/ DispatchDone(v) \/ Push(v)
                \/ \E h \in Hooks : SkipUnsubscribed(v, h) \/ SkipBlocked(v, h) \/ Insert(v, h)
           \/ \E w \in Workers : WorkerLoop(w)
           \/ \E j \in Job : FallDue(j)
           \/ UNCHANGED vars
<1>1. faults \in 0 .. MaxFaults /\ MaxFaults = 0
    BY DEF CustodyInv, TypeOK, Undisturbed
<1>2. ~ (faults < MaxFaults)
    BY <1>1
<1> QED BY <1>2 DEF Next, DispatchLoop, DispatchFault, Interrupt

LEMMA NextCustody ==
    ASSUME Undisturbed, CustodyInv, [Next]_vars
    PROVE  Custody'
<1>1. ASSUME NEW w \in Workers, WorkerLoop(w) PROVE Custody'
    BY <1>1, ReadCustody, PromotePushCustody, PromoteRemoveCustody, PopCustody, PostCustody,
       MarkCustody, LetGoCustody, DelayCustody DEF WorkerLoop
<1>2. ASSUME NEW j \in Job, FallDue(j) PROVE Custody'
    BY <1>2, FallDueCustody DEF FallDue, dispatchVars, rowVars, workerVars
<1>3. CASE UNCHANGED vars
    BY <1>3, FallDueCustody DEF vars, dispatchVars, rowVars, redisVars, workerVars
<1> QED BY <1>1, <1>2, <1>3, UndisturbedSteps, DispatchLoopCustody, PushCustody, InsertCustody

\* The books are kept by steps that settle no row and enter nothing.
LEMMA SameBooks ==
    ASSUME Undisturbed, CustodyInv, UNCHANGED <<usage, audit>>,
           \A d \in Deliveries : status'[d] = status[d]
                \/ (status[d] \notin Terminal /\ status'[d] \notin Terminal),
           \A w \in Workers : pc[w] \in {"count", "audit"} \/ pc'[w] \in {"count", "audit"}
                => pc'[w] = pc[w] /\ job'[w] = job[w]
    PROVE  BooksInv'
<1>1. \A w \in Workers : pc[w] \in {"count", "audit"} =>
            job[w] \in Job /\ job[w].delivery \in Deliveries
    BY JobFields DEF CustodyInv, Phases
<1>2. \A d : /\ Busy("count", d)' <=> Busy("count", d)
             /\ Busy("audit", d)' <=> Busy("audit", d)
             /\ Audited(d)' <=> Audited(d)
    BY DEF Busy, Audited
<1>3. \A d \in Deliveries : status'[d] = "delivered" <=> status[d] = "delivered"
    BY DEF Terminal
<1>4. \A d \in Deliveries : status'[d] = "failed" <=> status[d] = "failed"
    BY DEF Terminal
<1> QED BY <1>1, <1>2, <1>3, <1>4 DEF CustodyInv, BooksInv

LEMMA MarkBooks ==
    ASSUME Undisturbed, CustodyInv, NEW w \in Workers, MarkDelivered(w) \/ MarkFailed(w)
    PROVE  BooksInv'
<1> DEFINE d == job[w].delivery
<1>1. /\ UNCHANGED <<usage, audit, job>> /\ pc[w] \in {"markDelivered", "markFailed"}
      /\ \/ status' = [status EXCEPT ![d] = "delivered"] /\ pc' = [pc EXCEPT ![w] = "count"]
         \/ status' = [status EXCEPT ![d] = "failed"] /\ pc' = [pc EXCEPT ![w] = "audit"]
    BY DEF MarkDelivered, MarkFailed, Mark
<1>2. job[w] \in Job /\ d \in Deliveries
    BY <1>1, JobFields DEF CustodyInv, Phases
<1>3. \A x \in Workers : x = w
    BY DEF Undisturbed
<1>4. status[d] \in {"pending", "retrying"}
    BY <1>1 DEF CustodyInv, Custody, HandCustody, InHand, Open
<1>5. \A e \in Deliveries \ {d} : status'[e] = status[e]
    BY <1>1, <1>2 DEF CustodyInv, TypeOK
<1>6. \/ status'[d] = "delivered" /\ pc'[w] = "count"
      \/ status'[d] = "failed" /\ pc'[w] = "audit"
    BY <1>1, <1>2 DEF CustodyInv, TypeOK
<1>7. \A e : /\ ~ Busy("count", e) /\ ~ Busy("audit", e)
             /\ Busy("count", e)' <=> e = d /\ pc'[w] = "count"
             /\ Busy("audit", e)' <=> e = d /\ pc'[w] = "audit"
             /\ Audited(e)' <=> Audited(e)
    BY <1>1, <1>3 DEF Busy, Audited
<1> QED BY <1>1, <1>2, <1>3, <1>4, <1>5, <1>6, <1>7 DEF CustodyInv, BooksInv

LEMMA CountBooks ==
    ASSUME Undisturbed, CustodyInv, NEW w \in Workers, CountUsage(w)
    PROVE  BooksInv'
<1> USE DEF rowVars
<1> DEFINE d == job[w].delivery
<1>1. /\ UNCHANGED <<status, audit>> /\ pc[w] = "count" /\ pc' = [pc EXCEPT ![w] = "idle"]
      /\ usage' = [usage EXCEPT ![d] = usage[d] + 1]
    BY DEF CountUsage, Release
<1>2. d \in Deliveries /\ status[d] = "delivered"
    BY <1>1, JobFields DEF CustodyInv, Phases, BooksInv
<1>3. \A x \in Workers : x = w /\ pc'[x] = "idle"
    BY <1>1 DEF Undisturbed, CustodyInv, TypeOK
<1>4. \A e : /\ Busy("count", e) <=> e = d
             /\ ~ Busy("audit", e) /\ ~ Busy("count", e)' /\ ~ Busy("audit", e)'
             /\ Audited(e)' <=> Audited(e)
    BY <1>1, <1>3 DEF Busy, Audited
<1>5. usage[d] = 0
    BY <1>2, <1>4 DEF CustodyInv, BooksInv
<1>6. usage'[d] = 1 /\ \A e \in Deliveries \ {d} : usage'[e] = usage[e]
    BY <1>1, <1>2, <1>5 DEF CustodyInv, TypeOK
<1> QED BY <1>1, <1>2, <1>3, <1>4, <1>6 DEF CustodyInv, BooksInv

LEMMA AuditBooks ==
    ASSUME Undisturbed, CustodyInv, NEW w \in Workers, WriteAudit(w)
    PROVE  BooksInv'
<1> USE DEF rowVars
<1> DEFINE d == job[w].delivery
<1>1. /\ UNCHANGED <<status, usage>> /\ pc[w] = "audit" /\ pc' = [pc EXCEPT ![w] = "idle"]
      /\ audit' = audit \union {[action |-> "webhook.delivery_failed", delivery |-> d]}
    BY DEF WriteAudit, Release
<1>2. d \in Deliveries /\ status[d] = "failed"
    BY <1>1, JobFields DEF CustodyInv, Phases, BooksInv
<1>3. \A x \in Workers : x = w /\ pc'[x] = "idle"
    BY <1>1 DEF Undisturbed, CustodyInv, TypeOK
<1>4. \A e : /\ Busy("audit", e) <=> e = d
             /\ ~ Busy("count", e) /\ ~ Busy("count", e)' /\ ~ Busy("audit", e)'
    BY <1>1, <1>3 DEF Busy
<1>5. \A e : Audited(e)' <=> Audited(e) \/ e = d
    BY <1>1 DEF Audited
<1> QED BY <1>1, <1>2, <1>3, <1>4, <1>5 DEF CustodyInv, BooksInv

LEMMA NextBooks ==
    ASSUME Undisturbed, CustodyInv, [Next]_vars
    PROVE  BooksInv'
<1> USE DEF dispatchVars, rowVars, redisVars, workerVars, historyVars
<1>1. ASSUME NEW v \in Verdicts, NEW h \in Hooks, Insert(v, h) PROVE BooksInv'
    <2>1. status[<<v, h>>] = "absent" /\ <<v, h>> \in Deliveries
        BY <1>1, DeliveryBuilt DEF Insert, CustodyInv, Custody, RowCustody
    <2>2. \A d \in Deliveries : status'[d] = status[d]
                \/ (status[d] \notin Terminal /\ status'[d] \notin Terminal)
        <3>1. status' = [status EXCEPT ![<<v, h>>] = "pending"]
            BY <1>1 DEF Insert
        <3>2. ASSUME NEW d \in Deliveries, d # <<v, h>> PROVE status'[d] = status[d]
            BY <3>1, <3>2 DEF CustodyInv, TypeOK
        <3>3. status'[<<v, h>>] = "pending"
            BY <2>1, <3>1 DEF CustodyInv, TypeOK
        <3> QED BY <2>1, <3>2, <3>3 DEF Terminal
    <2> QED BY <1>1, <2>2, SameBooks DEF Insert
<1>2. ASSUME NEW v \in Verdicts, NEW h \in Hooks, SkipBlocked(v, h) PROVE BooksInv'
    <2>1. /\ UNCHANGED <<status, usage, pc, job>>
          /\ audit' = audit \union {[action |-> "webhook.ssrf_blocked", delivery |-> <<v, h>>]}
        BY <1>2 DEF SkipBlocked
    <2>2. \A d : /\ Audited(d)' <=> Audited(d)
                 /\ Busy("count", d)' <=> Busy("count", d)
                 /\ Busy("audit", d)' <=> Busy("audit", d)
        BY <2>1 DEF Audited, Busy
    <2> QED BY <2>1, <2>2 DEF CustodyInv, BooksInv
<1>3. ASSUME NEW v \in Verdicts,
             \/ Dispatch(v) \/ DispatchDone(v) \/ Push(v)
             \/ \E h \in Hooks : SkipUnsubscribed(v, h)
      PROVE  BooksInv'
    BY <1>3, SameBooks DEF Dispatch, DispatchDone, Push, SkipUnsubscribed
<1>4. ASSUME NEW w \in Workers,
             \/ ReadDue(w) \/ PromotePush(w) \/ PromoteRemove(w) \/ Pop(w) \/ PopTimeout(w)
             \/ PostAccepted(w) \/ PostNotConfirmed(w) \/ Delay(w)
      PROVE  BooksInv'
    <2>1. UNCHANGED <<status, usage, audit>>
        BY <1>4 DEF ReadDue, PromotePush, PromoteRemove, Pop, PopTimeout, PostAccepted,
           PostNotConfirmed, NotConfirmed, Delay, Reschedule
    <2>2. \A x \in Workers : pc[x] \notin {"count", "audit"} /\ pc'[x] \notin {"count", "audit"}
        BY <1>4 DEF ReadDue, PromotePush, PromoteRemove, Pop, PopTimeout, PostAccepted,
           PostNotConfirmed, NotConfirmed, Delay, Reschedule, Release, Undisturbed,
           CustodyInv, TypeOK
    <2> QED BY <2>1, <2>2, SameBooks
<1>5. ASSUME NEW w \in Workers, MarkRetrying(w) PROVE BooksInv'
    <2>1. job[w].delivery \in Deliveries /\ status[job[w].delivery] \in Open
        BY <1>5, JobFields DEF MarkRetrying, CustodyInv, Phases, Custody, HandCustody, InHand
    <2>2. \A d \in Deliveries : status'[d] = status[d]
                \/ (status[d] \notin Terminal /\ status'[d] \notin Terminal)
        <3> DEFINE e == job[w].delivery
        <3>1. status' = [status EXCEPT ![e] = "retrying"]
            BY <1>5 DEF MarkRetrying, Mark
        <3>2. ASSUME NEW d \in Deliveries, d # e PROVE status'[d] = status[d]
            BY <3>1, <3>2 DEF CustodyInv, TypeOK
        <3>3. status'[e] = "retrying"
            BY <2>1, <3>1 DEF CustodyInv, TypeOK
        <3> QED BY <2>1, <3>2, <3>3 DEF Terminal, Open
    <2>3. \A x \in Workers : pc[x] \notin {"count", "audit"} /\ pc'[x] \notin {"count", "audit"}
        BY <1>5 DEF MarkRetrying, Mark, Undisturbed, CustodyInv, TypeOK
    <2> QED BY <1>5, <2>2, <2>3, SameBooks DEF MarkRetrying, Mark
<1>6. ASSUME NEW j \in Job, FallDue(j) PROVE BooksInv'
    BY <1>6, SameBooks DEF FallDue
<1>7. CASE UNCHANGED vars
    BY <1>7, SameBooks DEF vars
<1> QED BY <1>1, <1>2, <1>3, <1>4, <1>5, <1>6, <1>7, UndisturbedSteps, MarkBooks, CountBooks,
           AuditBooks DEF WorkerLoop

LEMMA CustodyInductive ==
    ASSUME Undisturbed
    PROVE  CustodyInv /\ [Next]_vars => CustodyInv'
    BY NextTyped, NextCustody, NextBooks DEF CustodyInv

\* Custody puts every job of a row in one place.
LEMMA CustodyIsOneJob ==
    ASSUME Undisturbed, CustodyInv
    PROVE  OneJobPerOpenDelivery
<1> SUFFICES ASSUME NEW d \in Deliveries
             PROVE  IF status[d] \in Open THEN \E c \in Carriers(d) : Carriers(d) = {c}
                                          ELSE Carriers(d) = {}
    BY DEF OneJobPerOpenDelivery
<1>1. ASSUME NEW c
      PROVE  c \in Carriers(d) <=>
                \/ \E v \in Verdicts : c = <<"dispatch", v>> /\ dpc[v] = "push" /\ <<v, cursor[v]>> = d
                \/ \E i \in 1 .. Len(queue) : c = <<"queue", i>> /\ queue[i].delivery = d
                \/ \E j \in delayed : /\ c = <<"delayed", j>> /\ j.delivery = d
                                      /\ ~ \E w \in Workers : pc[w] = "remove" /\ job[w] = j
                \/ \E w \in Workers : c = <<"worker", w>> /\ InHand(w) /\ job[w].delivery = d
    BY DEF Carriers
<1>2. (Queued(d) \/ Delayed(d) \/ InHands(d) \/ Dispatched(d)) <=> status[d] \in Open
    <2>1. Dispatched(d) => status[d] \in Open
        BY DEF Dispatched, CustodyInv, Custody, RowCustody, Open
    <2>2. Queued(d) => status[d] \in Open
        BY DEF Queued, CustodyInv, Custody, QueueCustody
    <2>3. Delayed(d) => status[d] \in Open
        BY DEF Delayed, CustodyInv, Custody, DelayedCustody
    <2>4. InHands(d) => status[d] \in Open
        BY DEF InHands, CustodyInv, Custody, HandCustody
    <2>5. status[d] \in Open => Queued(d) \/ Delayed(d) \/ InHands(d) \/ Dispatched(d)
        BY DEF CustodyInv, Custody, RowCustody
    <2> QED BY <2>1, <2>2, <2>3, <2>4, <2>5
<1>3. CASE status[d] \notin Open
    BY <1>1, <1>2, <1>3 DEF Queued, Delayed, InHands, Dispatched
<1>4. CASE Queued(d)
    <2>1. PICK i \in 1 .. Len(queue) : queue[i].delivery = d
        BY <1>4 DEF Queued
    <2>2. ~ InHands(d) /\ ~ Dispatched(d)
        BY <2>1 DEF CustodyInv, Custody, QueueCustody
    <2>3. \A k \in 1 .. Len(queue) : queue[k].delivery = d => k = i
        BY <2>1 DEF CustodyInv, Custody, QueueCustody
    <2>4. \A j \in delayed : j.delivery = d => \E w \in Workers : pc[w] = "remove" /\ job[w] = j
        BY <1>4 DEF CustodyInv, Custody, DelayedCustody
    <2>5. \A c : c \in Carriers(d) <=> c = <<"queue", i>>
        BY <1>1, <2>1, <2>2, <2>3, <2>4 DEF InHands, Dispatched
    <2>6. Carriers(d) = {<<"queue", i>>}
        BY <2>5
    <2>7. status[d] \in Open
        BY <1>2, <1>4
    <2> QED BY <2>6, <2>7
<1>5. CASE Delayed(d) /\ ~ Queued(d)
    <2>1. PICK j \in delayed : j.delivery = d
        BY <1>5 DEF Delayed
    <2>2. ~ InHands(d) /\ ~ Dispatched(d)
        BY <2>1 DEF CustodyInv, Custody, DelayedCustody
    <2>3. \A k \in delayed : k.delivery = d => k = j
        BY <2>1 DEF CustodyInv, Custody, DelayedCustody
    <2>4. ~ \E w \in Workers : pc[w] = "remove" /\ job[w] = j
        BY <1>5, <2>1 DEF CustodyInv, Custody, HandCustody, Queued
    <2>5. \A c : c \in Carriers(d) <=> c = <<"delayed", j>>
        BY <1>1, <1>5, <2>1, <2>2, <2>3, <2>4 DEF InHands, Dispatched, Queued
    <2>6. Carriers(d) = {<<"delayed", j>>}
        BY <2>5
    <2>7. status[d] \in Open
        BY <1>2, <1>5
    <2> QED BY <2>6, <2>7
<1>6. CASE InHands(d) /\ ~ Queued(d) /\ ~ Delayed(d)
    <2>1. PICK w \in Workers : InHand(w) /\ job[w].delivery = d
        BY <1>6 DEF InHands
    <2>2. ~ Dispatched(d)
        BY <2>1 DEF CustodyInv, Custody, HandCustody
    <2>3. \A x \in Workers : x = w
        BY DEF Undisturbed
    <2>4. \A c : c \in Carriers(d) <=> c = <<"worker", w>>
        BY <1>1, <1>6, <2>1, <2>2, <2>3 DEF Delayed, Dispatched, Queued
    <2>5. Carriers(d) = {<<"worker", w>>}
        BY <2>4
    <2>6. status[d] \in Open
        BY <1>2, <1>6
    <2> QED BY <2>5, <2>6
<1>7. CASE Dispatched(d) /\ ~ Queued(d) /\ ~ Delayed(d) /\ ~ InHands(d)
    <2>1. PICK v \in Verdicts : dpc[v] = "push" /\ <<v, cursor[v]>> = d
        BY <1>7 DEF Dispatched
    <2>2. \A u \in Verdicts : <<u, cursor[u]>> = d => u = v
        BY <2>1
    <2>3. \A c : c \in Carriers(d) <=> c = <<"dispatch", v>>
        BY <1>1, <1>7, <2>1, <2>2 DEF Delayed, InHands, Queued
    <2>4. Carriers(d) = {<<"dispatch", v>>}
        BY <2>3
    <2>5. status[d] \in Open
        BY <1>2, <1>7
    <2> QED BY <2>4, <2>5
<1> QED BY <1>2, <1>3, <1>4, <1>5, <1>6, <1>7

\* With one worker and no faults, promotion, BLPOP and rescheduling neither drop nor
\* copy a job, for any number of verdicts and hooks and every backoff table.
THEOREM JobsAreConserved ==
    ASSUME Undisturbed
    PROVE  Spec => []OneJobPerOpenDelivery
<1>1. CustodyInv /\ [Next]_vars => CustodyInv'
    BY CustodyInductive
<1>2. CustodyInv => OneJobPerOpenDelivery
    BY CustodyIsOneJob
<1> QED BY <1>1, <1>2, InitCustody, PTL DEF Spec

\* ... and when a row is settled it is billed once or audited once.
THEOREM BooksClose ==
    ASSUME Undisturbed
    PROVE  Spec => []SettledIsAccounted
<1>1. CustodyInv /\ [Next]_vars => CustodyInv'
    BY CustodyInductive
<1>2. CustodyInv => SettledIsAccounted
    BY DEF CustodyInv, BooksInv, SettledIsAccounted, Busy, Audited
<1> QED BY <1>1, <1>2, InitCustody, PTL DEF Spec

-----------------------------------------------------------------------------
(***************************************************************************)
(* The row of a delivery follows DeliveryContract: insertDelivery creates  *)
(* it, and each updateDelivery is one of the contract's three outcomes,    *)
(* because Custody gives the row the attempt number of the job in hand.    *)
(***************************************************************************)
\* A row that does not exist has no attempts.
Untried == \A d \in Deliveries : status[d] = "absent" => attempts[d] = 0

\* The steps that write a row; all others leave the table alone.
LEMMA RowWrites ==
    ASSUME [Next]_vars
    PROVE  \/ UNCHANGED rowVars
           \/ \E v \in Verdicts, h \in Hooks : Insert(v, h)
           \/ \E w \in Workers : MarkDelivered(w) \/ MarkFailed(w) \/ MarkRetrying(w)
<1> USE DEF dispatchVars, redisVars, workerVars, historyVars
<1> QED BY DEF Next, vars, DispatchLoop, WorkerLoop, Dispatch, SkipUnsubscribed,
         SkipBlocked, Push, DispatchDone, DispatchFault, ReadDue, PromotePush,
         PromoteRemove, Pop, PopTimeout, PostAccepted, PostNotConfirmed,
         NotConfirmed, CountUsage, WriteAudit, Delay, Reschedule, Interrupt, FallDue

\* What Insert and Mark write.
LEMMA InsertWrites ==
    ASSUME TypeOK, NEW v \in Verdicts, NEW h \in Hooks, Insert(v, h)
    PROVE  /\ <<v, h>> \in Deliveries /\ status'[<<v, h>>] = "pending" /\ attempts'[<<v, h>>] = 0
           /\ \A d \in Deliveries \ {<<v, h>>} : status'[d] = status[d] /\ attempts'[d] = attempts[d]
<1>1. /\ status' = [status EXCEPT ![<<v, h>>] = "pending"]
      /\ attempts' = [attempts EXCEPT ![<<v, h>>] = 0]
    BY DEF Insert
<1> QED BY <1>1, DeliveryBuilt DEF TypeOK

LEMMA MarkWrites ==
    ASSUME TypeOK, Phases, NEW w \in Workers, MarkDelivered(w) \/ MarkFailed(w) \/ MarkRetrying(w)
    PROVE  LET d == job[w].delivery IN
           /\ d \in Deliveries
           /\ status' = [status EXCEPT ![d] = status'[d]]
           /\ attempts' = [attempts EXCEPT ![d] = job[w].attempt + 1]
           /\ status'[d] \in {"delivered", "failed", "retrying"}
           /\ MarkDelivered(w) => status'[d] = "delivered"
           /\ MarkFailed(w) => status'[d] = "failed" /\ job[w].attempt + 1 = MaxAttempts
           /\ MarkRetrying(w) => status'[d] = "retrying" /\ job[w].attempt + 1 < MaxAttempts
<1> DEFINE d == job[w].delivery
<1>1. pc[w] \in {"markDelivered", "markFailed", "markRetrying"}
    BY DEF MarkDelivered, MarkFailed, MarkRetrying
<1>2. d \in Deliveries
    BY <1>1, JobFields DEF Phases
<1>3. /\ attempts' = [attempts EXCEPT ![d] = job[w].attempt + 1]
      /\ MarkDelivered(w) => status' = [status EXCEPT ![d] = "delivered"]
      /\ MarkFailed(w) => status' = [status EXCEPT ![d] = "failed"]
      /\ MarkRetrying(w) => status' = [status EXCEPT ![d] = "retrying"]
    BY DEF MarkDelivered, MarkFailed, MarkRetrying, Mark
<1>4. /\ MarkFailed(w) => job[w].attempt + 1 = MaxAttempts
      /\ MarkRetrying(w) => job[w].attempt + 1 < MaxAttempts
    BY DEF MarkFailed, MarkRetrying, Phases
<1> QED BY <1>2, <1>3, <1>4 DEF TypeOK

LEMMA NextUntried ==
    ASSUME TypeOK, Phases, Untried, [Next]_vars
    PROVE  Untried'
<1>1. CASE UNCHANGED rowVars
    BY <1>1 DEF rowVars, Untried
<1>2. ASSUME NEW v \in Verdicts, NEW h \in Hooks, Insert(v, h) PROVE Untried'
    BY <1>2, InsertWrites DEF Untried
<1>3. ASSUME NEW w \in Workers, MarkDelivered(w) \/ MarkFailed(w) \/ MarkRetrying(w)
      PROVE  Untried'
    BY <1>3, MarkWrites DEF Untried, TypeOK
<1> QED BY <1>1, <1>2, <1>3, RowWrites

ContractInv == CustodyInv /\ Untried

LEMMA ContractStep ==
    ASSUME Undisturbed
    PROVE  ContractInv /\ [Next]_vars => [Contract!Next]_Contract!vars
<1> SUFFICES ASSUME ContractInv, [Next]_vars PROVE [Contract!Next]_Contract!vars
    OBVIOUS
<1>1. CASE UNCHANGED rowVars
    BY <1>1 DEF rowVars, Contract!vars
<1>2. ASSUME NEW v \in Verdicts, NEW h \in Hooks, Insert(v, h) PROVE Contract!Next
    <2> DEFINE d == <<v, h>>
    <2>1. d \in Deliveries /\ status[d] = "absent"
        BY <1>2, DeliveryBuilt DEF Insert, ContractInv, CustodyInv, Custody, RowCustody
    <2>2. /\ status' = [status EXCEPT ![d] = "pending"]
          /\ attempts' = [attempts EXCEPT ![d] = 0]
        BY <1>2 DEF Insert
    <2>3. attempts[d] = 0
        BY <2>1 DEF ContractInv, Untried
    <2>4. attempts' = attempts
        BY <2>1, <2>2, <2>3 DEF ContractInv, CustodyInv, TypeOK
    <2> QED BY <2>1, <2>2, <2>4 DEF Contract!Next, Contract!Create
<1>3. ASSUME NEW w \in Workers, MarkDelivered(w) \/ MarkFailed(w) \/ MarkRetrying(w)
      PROVE  Contract!Next
    <2> DEFINE d == job[w].delivery
               a == job[w].attempt
    <2>1. d \in Deliveries /\ a \in 0 .. MaxAttempts - 1
        BY <1>3, JobFields DEF MarkDelivered, MarkFailed, MarkRetrying, ContractInv,
           CustodyInv, Phases
    <2>2. status[d] \in Open /\ attempts[d] = a
        BY <1>3 DEF MarkDelivered, MarkFailed, MarkRetrying, ContractInv, CustodyInv,
           Custody, HandCustody, InHand
    <2>3. attempts' = [attempts EXCEPT ![d] = attempts[d] + 1]
        BY <1>3, <2>2, MarkWrites DEF ContractInv, CustodyInv
    <2>4. CASE MarkDelivered(w)
        <3>1. status' = [status EXCEPT ![d] = "delivered"] /\ attempts[d] < MaxAttempts
            BY <2>1, <2>2, <2>4, MaxAttemptsAssumption DEF MarkDelivered, Mark
        <3> QED BY <2>1, <2>2, <2>3, <3>1 DEF Contract!Next, Contract!Settle,
                   Contract!Deliver, Contract!Attempt, Contract!Open, Open
    <2>5. CASE MarkFailed(w)
        <3>1. status' = [status EXCEPT ![d] = "failed"] /\ attempts[d] + 1 = MaxAttempts
            BY <2>2, <2>5 DEF MarkFailed, Mark, ContractInv, CustodyInv, Phases
        <3> QED BY <2>1, <2>2, <2>3, <3>1 DEF Contract!Next, Contract!Settle,
                   Contract!GiveUp, Contract!Attempt, Contract!Open, Open
    <2>6. CASE MarkRetrying(w)
        <3>1. status' = [status EXCEPT ![d] = "retrying"] /\ attempts[d] + 1 < MaxAttempts
            BY <2>2, <2>6 DEF MarkRetrying, Mark, ContractInv, CustodyInv, Phases
        <3> QED BY <2>1, <2>2, <2>3, <3>1 DEF Contract!Next, Contract!Settle,
                   Contract!Retry, Contract!Attempt, Contract!Open, Open
    <2> QED BY <1>3, <2>4, <2>5, <2>6
<1> QED BY <1>1, <1>2, <1>3, RowWrites

\* With one worker and no faults, every row of webhook_deliveries takes only the steps
\* DeliveryContract allows: the safety part of ImplementsContract, for any number of
\* verdicts and hooks and every backoff table.
THEOREM RowsFollowContract ==
    ASSUME Undisturbed
    PROVE  Spec => Contract!Init /\ [][Contract!Next]_Contract!vars
<1>1. Init => Contract!Init
    BY DEF Init, Contract!Init
<1>2. Init => ContractInv
    BY InitCustody DEF ContractInv, Init, Untried
<1>3. ContractInv /\ [Next]_vars => ContractInv'
    BY CustodyInductive, NextUntried DEF ContractInv, CustodyInv
<1>4. ContractInv /\ [Next]_vars => [Contract!Next]_Contract!vars
    BY ContractStep
<1> QED BY <1>1, <1>2, <1>3, <1>4, PTL DEF Spec

\* The contract's own half: no step of it touches the status of a settled row.
LEMMA ContractKeepsTerminal ==
    ASSUME TypeOK, [Contract!Next]_Contract!vars
    PROVE  \A d \in Deliveries : status[d] \in Terminal => status'[d] = status[d]
<1> SUFFICES ASSUME NEW d \in Deliveries, status[d] \in Terminal
             PROVE  status'[d] = status[d]
    OBVIOUS
<1>1. CASE UNCHANGED Contract!vars
    BY <1>1 DEF Contract!vars
<1>2. ASSUME NEW e \in Deliveries, Contract!Create(e) \/ Contract!Settle(e)
      PROVE  status'[d] = status[d]
    <2>1. status[e] \in {"absent", "pending", "retrying"}
        BY <1>2 DEF Contract!Create, Contract!Settle, Contract!Deliver, Contract!Retry,
           Contract!GiveUp, Contract!Attempt, Contract!Open
    <2>2. e # d
        BY <2>1 DEF Terminal
    <2>3. \E s : status' = [status EXCEPT ![e] = s]
        BY <1>2 DEF Contract!Create, Contract!Settle, Contract!Deliver, Contract!Retry,
           Contract!GiveUp, Contract!Attempt
    <2> QED BY <2>2, <2>3 DEF TypeOK
<1> QED BY <1>1, <1>2 DEF Contract!Next

\* With one worker and no faults a settled row stays settled: what "terminal" in
\* DELIVERY.md needs and what several workers take away, since nothing in updateDelivery
\* looks at the status it overwrites.
THEOREM SettledStaysSettled ==
    ASSUME Undisturbed
    PROVE  Spec => TerminalStatusIsFinal
<1>1. Init => ContractInv
    BY InitCustody DEF ContractInv, Init, Untried
<1>2. ContractInv /\ [Next]_vars => ContractInv'
    BY CustodyInductive, NextUntried DEF ContractInv, CustodyInv
<1>3. ContractInv /\ [Next]_vars =>
          [\A d \in Deliveries : status[d] \in Terminal => status'[d] = status[d]]_vars
    BY ContractStep, ContractKeepsTerminal DEF ContractInv, CustodyInv
<1> QED BY <1>1, <1>2, <1>3, PTL DEF Spec, TerminalStatusIsFinal

\* With one worker and no faults a row that says "retrying" has its job: "durable
\* retries", without the crash between BLPOP and ZADD and without a second worker whose
\* late ZREM takes a job that was put back.
THEOREM RetriesAreDurable ==
    ASSUME Undisturbed
    PROVE  Spec => []RetryHasJob
<1>1. CustodyInv /\ [Next]_vars => CustodyInv'
    BY CustodyInductive
<1>2. CustodyInv => RetryHasJob
    <2> SUFFICES ASSUME CustodyInv, NEW d \in Deliveries, status[d] = "retrying"
                 PROVE  Carriers(d) # {}
        BY DEF RetryHasJob
    <2>1. \E c \in Carriers(d) : Carriers(d) = {c}
        BY CustodyIsOneJob DEF OneJobPerOpenDelivery, Open
    <2> QED BY <2>1
<1> QED BY <1>1, <1>2, InitCustody, PTL DEF Spec

-----------------------------------------------------------------------------
(***************************************************************************)
(* The dispatch loop's two filters, with any number of workers and faults. *)
(***************************************************************************)
Refused(d) == [action |-> "webhook.ssrf_blocked", delivery |-> d] \in audit

\* A hook still to be visited has left no trace, and one that was visited has
\* left the trace its filter gives it.
FilterAt(v, h) == LET d == <<v, h>> IN
    /\ dpc[v] = "idle" \/ h \in todo[v] => status[d] = "absent" /\ ~ Refused(d)
    /\ dpc[v] \in {"next", "push", "done"} /\ h \notin todo[v] =>
          /\ status[d] # "absent" <=> d \in Subscribed /\ h \notin Blocked
          /\ Refused(d) <=> d \in Subscribed /\ h \in Blocked
    /\ dpc[v] = "done" => h \notin todo[v]

FilterInv == \A v \in Verdicts, h \in Hooks : FilterAt(v, h)

\* Whatever will write a row's status belongs to a row that exists.
RowsExist ==
    /\ \A j \in Job : InSystem(j) => status[j.delivery] # "absent"
    /\ \A v \in Verdicts : dpc[v] = "push" => status[<<v, cursor[v]>>] # "absent"

LEMMA NextRowsExist ==
    ASSUME TypeOK, Phases, RowsExist, [Next]_vars
    PROVE  RowsExist' /\ \A d \in Deliveries : status[d] # "absent" => status'[d] # "absent"
<1>1. ASSUME NEW d \in Deliveries, status[d] # "absent" PROVE status'[d] # "absent"
    <2>1. CASE UNCHANGED rowVars
        BY <1>1, <2>1 DEF rowVars
    <2>2. ASSUME NEW v \in Verdicts, NEW h \in Hooks, Insert(v, h) PROVE status'[d] # "absent"
        BY <1>1, <2>2, InsertWrites
    <2>3. ASSUME NEW w \in Workers, MarkDelivered(w) \/ MarkFailed(w) \/ MarkRetrying(w)
          PROVE  status'[d] # "absent"
        BY <1>1, <2>3, MarkWrites DEF TypeOK
    <2> QED BY <2>1, <2>2, <2>3, RowWrites
<1>2. ASSUME NEW j \in Job, InSystem(j)' PROVE status'[j.delivery] # "absent"
    <2>1. InSystem(j) \/ NewJob(j)
        BY <1>2, JobsComeFromJobs
    <2>2. status[j.delivery] # "absent"
        BY <2>1 DEF NewJob, RowsExist, InSystem, Phases
    <2> QED BY <1>1, <2>2, JobFields
<1>3. ASSUME NEW v \in Verdicts, dpc'[v] = "push" PROVE status'[<<v, cursor'[v]>>] # "absent"
    <2>1. (dpc[v] = "push" /\ cursor'[v] = cursor[v]) \/ \E h \in Hooks : Insert(v, h)
        <3>1. UNCHANGED dispatchVars \/ \E u \in Verdicts : DispatchLoop(u) \/ Push(u) \/ DispatchFault(u)
            BY DEF Next, vars, WorkerLoop, ReadDue, PromotePush, PromoteRemove, Pop, PopTimeout,
               PostAccepted, PostNotConfirmed, NotConfirmed, MarkDelivered, MarkFailed,
               MarkRetrying, Mark, CountUsage, WriteAudit, Delay, Reschedule, Interrupt, FallDue
        <3>2. ASSUME NEW u \in Verdicts, DispatchLoop(u) \/ Push(u) \/ DispatchFault(u)
              PROVE  (dpc[v] = "push" /\ cursor'[v] = cursor[v]) \/ \E h \in Hooks : Insert(v, h)
            <4>1. CASE u = v
                BY <1>3, <3>2, <4>1 DEF DispatchLoop, Dispatch, SkipUnsubscribed, SkipBlocked,
                   DispatchDone, DispatchFault, Push, TypeOK
            <4>2. CASE u # v
                BY <1>3, <3>2, <4>2 DEF DispatchLoop, Dispatch, SkipUnsubscribed, SkipBlocked,
                   Insert, DispatchDone, DispatchFault, Push, TypeOK
            <4> QED BY <4>1, <4>2
        <3> QED BY <1>3, <3>1, <3>2 DEF dispatchVars
    <2>2. CASE dpc[v] = "push" /\ cursor'[v] = cursor[v]
        BY <1>1, <2>2, DeliveryBuilt DEF RowsExist, Phases
    <2>3. ASSUME NEW h \in Hooks, Insert(v, h) PROVE status'[<<v, cursor'[v]>>] # "absent"
        <3>1. cursor'[v] = h
            BY <2>3 DEF Insert, TypeOK
        <3> QED BY <2>3, <3>1, InsertWrites
    <2> QED BY <2>1, <2>2, <2>3
<1> QED BY <1>1, <1>2, <1>3 DEF RowsExist

LEMMA NextFilter ==
    ASSUME TypeOK, Phases, RowsExist, FilterInv, [Next]_vars
    PROVE  FilterInv'
<1> USE DEF rowVars, redisVars, workerVars, historyVars
<1>1. ASSUME NEW v \in Verdicts, NEW h \in Hooks, Insert(v, h) PROVE FilterInv'
    <2>1. /\ h \in todo[v] \ Blocked /\ <<v, h>> \in Subscribed /\ UNCHANGED audit
          /\ todo' = [todo EXCEPT ![v] = todo[v] \ {h}]
          /\ dpc[v] = "next" /\ dpc' = [dpc EXCEPT ![v] = "push"]
        BY <1>1 DEF Insert
    <2>2. \A d : Refused(d)' <=> Refused(d)
        BY <2>1 DEF Refused
    <2>3. \A u \in Verdicts, k \in Hooks :
            <<u, k>> # <<v, h>> => status'[<<u, k>>] = status[<<u, k>>]
        BY <1>1, InsertWrites, DeliveryBuilt
    <2>4. status'[<<v, h>>] = "pending"
        BY <1>1, InsertWrites
    <2>5. ASSUME NEW u \in Verdicts, NEW k \in Hooks
          PROVE  LET d == <<u, k>> IN
                 ( /\ dpc[u] = "idle" \/ k \in todo[u] => status[d] = "absent" /\ ~ Refused(d)
                   /\ dpc[u] \in {"next", "push", "done"} /\ k \notin todo[u] =>
                         /\ status[d] # "absent" <=> d \in Subscribed /\ k \notin Blocked
                         /\ Refused(d) <=> d \in Subscribed /\ k \in Blocked
                   /\ dpc[u] = "done" => k \notin todo[u] )'
        <3>1. CASE u = v /\ k = h
            BY <2>1, <2>2, <2>4, <3>1 DEF FilterInv, FilterAt, TypeOK
        <3>2. CASE u = v /\ k # h
            <4>1. status'[<<u, k>>] = status[<<u, k>>]
                BY <2>3, <3>2
            <4> QED BY <2>1, <2>2, <3>2, <4>1 DEF FilterInv, FilterAt, TypeOK
        <3>3. CASE u # v
            <4>1. status'[<<u, k>>] = status[<<u, k>>]
                BY <2>3, <3>3
            <4> QED BY <2>1, <2>2, <3>3, <4>1 DEF FilterInv, FilterAt, TypeOK
        <3> QED BY <3>1, <3>2, <3>3
    <2> QED BY <2>5 DEF FilterInv, FilterAt
<1>2. ASSUME NEW v \in Verdicts, NEW h \in Hooks, SkipUnsubscribed(v, h) PROVE FilterInv'
    <2>1. /\ h \in todo[v] /\ <<v, h>> \notin Subscribed /\ UNCHANGED <<audit, status, dpc>>
          /\ todo' = [todo EXCEPT ![v] = todo[v] \ {h}] /\ dpc[v] = "next"
        BY <1>2 DEF SkipUnsubscribed
    <2>2. \A d : Refused(d)' <=> Refused(d)
        BY <2>1 DEF Refused
    <2> QED BY <2>1, <2>2 DEF FilterInv, FilterAt, TypeOK
<1>3. ASSUME NEW v \in Verdicts, NEW h \in Hooks, SkipBlocked(v, h) PROVE FilterInv'
    <2>1. /\ h \in todo[v] \intersect Blocked /\ <<v, h>> \in Subscribed
          /\ UNCHANGED <<status, dpc>>
          /\ todo' = [todo EXCEPT ![v] = todo[v] \ {h}] /\ dpc[v] = "next"
          /\ audit' = audit \union {[action |-> "webhook.ssrf_blocked", delivery |-> <<v, h>>]}
        BY <1>3 DEF SkipBlocked
    <2>2. \A d : Refused(d)' <=> Refused(d) \/ d = <<v, h>>
        BY <2>1 DEF Refused
    <2> QED BY <2>1, <2>2 DEF FilterInv, FilterAt, TypeOK
<1>4. ASSUME NEW v \in Verdicts,
             Dispatch(v) \/ DispatchDone(v) \/ DispatchFault(v) \/ Push(v)
      PROVE  FilterInv'
    <2>1. /\ UNCHANGED <<audit, status>>
          /\ \/ /\ dpc[v] = "idle" /\ dpc' = [dpc EXCEPT ![v] = "next"]
                /\ todo' = [todo EXCEPT ![v] = Hooks]
             \/ /\ dpc[v] = "next" /\ dpc' = [dpc EXCEPT ![v] = "done"]
                /\ todo[v] = {} /\ UNCHANGED todo
             \/ dpc' = [dpc EXCEPT ![v] = "error"] /\ UNCHANGED todo
             \/ dpc[v] = "push" /\ dpc' = [dpc EXCEPT ![v] = "next"] /\ UNCHANGED todo
        BY <1>4 DEF Dispatch, DispatchDone, DispatchFault, Push
    <2>2. \A d : Refused(d)' <=> Refused(d)
        BY <2>1 DEF Refused
    <2>3. ASSUME NEW u \in Verdicts, u # v PROVE dpc'[u] = dpc[u] /\ todo'[u] = todo[u]
        BY <2>1, <2>3 DEF TypeOK
    <2>4. \/ dpc[v] = "idle" /\ dpc'[v] = "next" /\ todo'[v] = Hooks
          \/ dpc[v] = "next" /\ dpc'[v] = "done" /\ todo[v] = {} /\ todo'[v] = {}
          \/ dpc'[v] = "error" /\ todo'[v] = todo[v]
          \/ dpc[v] = "push" /\ dpc'[v] = "next" /\ todo'[v] = todo[v]
        BY <2>1 DEF TypeOK
    <2>5. ASSUME NEW u \in Verdicts, NEW h \in Hooks, u # v PROVE FilterAt(u, h)'
        BY <2>1, <2>2, <2>3, <2>5 DEF FilterInv, FilterAt
    <2>6. ASSUME NEW h \in Hooks PROVE FilterAt(v, h)'
        BY <2>1, <2>2, <2>4 DEF FilterInv, FilterAt
    <2> QED BY <2>5, <2>6 DEF FilterInv
<1>5. ASSUME UNCHANGED <<dpc, todo>>, \A d : Refused(d)' <=> Refused(d),
             \A d \in Deliveries : status'[d] = "absent" <=> status[d] = "absent"
      PROVE  FilterInv'
    BY <1>5, DeliveryBuilt DEF FilterInv, FilterAt
<1>6. ASSUME NEW w \in Workers, WorkerLoop(w) \/ Interrupt(w) PROVE FilterInv'
    <2>1. UNCHANGED <<dpc, todo>>
        BY <1>6 DEF dispatchVars, WorkerLoop, ReadDue, PromotePush, PromoteRemove, Pop, PopTimeout,
           PostAccepted, PostNotConfirmed, NotConfirmed, MarkDelivered, MarkFailed, MarkRetrying,
           Mark, CountUsage, WriteAudit, Delay, Reschedule, Interrupt
    <2>2. \A d : Refused(d)' <=> Refused(d)
        <3>1. UNCHANGED audit \/ audit' = audit \union
                {[action |-> "webhook.delivery_failed", delivery |-> job[w].delivery]}
            BY <1>6 DEF WorkerLoop, ReadDue, PromotePush, PromoteRemove, Pop, PopTimeout,
               PostAccepted, PostNotConfirmed, NotConfirmed, MarkDelivered, MarkFailed,
               MarkRetrying, Mark, CountUsage, WriteAudit, Delay, Reschedule, Interrupt
        <3> QED BY <3>1 DEF Refused
    <2>3. ASSUME NEW d \in Deliveries, status'[d] # status[d]
          PROVE  status[d] # "absent"
        <3>1. PICK x \in Workers : /\ MarkDelivered(x) \/ MarkFailed(x) \/ MarkRetrying(x)
                                   /\ job[x].delivery = d
            <4>1. \E x \in Workers : MarkDelivered(x) \/ MarkFailed(x) \/ MarkRetrying(x)
                BY <1>6, <2>3 DEF WorkerLoop, ReadDue, PromotePush, PromoteRemove, Pop,
                   PopTimeout, PostAccepted, PostNotConfirmed, NotConfirmed, CountUsage,
                   WriteAudit, Delay, Reschedule, Interrupt
            <4> QED BY <2>3, <4>1, MarkWrites DEF TypeOK
        <3>2. job[x] \in Job /\ InSystem(job[x])
            BY <3>1 DEF MarkDelivered, MarkFailed, MarkRetrying, Phases, InSystem
        <3> QED BY <3>1, <3>2 DEF RowsExist
    <2>4. \A d \in Deliveries : status'[d] = "absent" <=> status[d] = "absent"
        BY <2>3, NextRowsExist
    <2> QED BY <1>5, <2>1, <2>2, <2>4
<1>7. ASSUME NEW j \in Job, FallDue(j) PROVE FilterInv'
    BY <1>5, <1>7 DEF FallDue, dispatchVars, Refused
<1>8. CASE UNCHANGED vars
    BY <1>5, <1>8 DEF vars, dispatchVars, Refused
<1> QED BY <1>1, <1>2, <1>3, <1>4, <1>6, <1>7, <1>8 DEF Next, DispatchLoop

\* A dispatch loop that comes to its end has made a row for exactly the subscribed
\* hooks with a permitted url, and an audit entry for each other subscribed one,
\* whatever the workers and the faults of other dispatches did meanwhile.
THEOREM DispatchCoversHooks == Spec => []DispatchIsComplete
<1> DEFINE Inv == TypeOK /\ Phases /\ RowsExist /\ FilterInv
<1>1. Init => Inv
    <2> SUFFICES ASSUME Init PROVE RowsExist /\ FilterInv
        BY InitTyped
    <2>1. RowsExist
        BY NoJobAssumption DEF Init, RowsExist, InSystem
    <2>2. FilterInv
        BY DeliveryBuilt DEF Init, FilterInv, FilterAt, Refused
    <2> QED BY <2>1, <2>2
<1>2. Inv /\ [Next]_vars => Inv'
    BY NextTyped, NextRowsExist, NextFilter
<1>3. Inv => DispatchIsComplete
    BY DEF FilterInv, FilterAt, DispatchIsComplete, Refused
<1> HIDE DEF Inv
<1>4. Spec => []Inv
    BY <1>1, <1>2, PTL DEF Spec
<1> QED BY <1>3, <1>4, PTL

-----------------------------------------------------------------------------
(* Without Redis: InlineDelivery *)

Left == Unsubscribed \union Unsafe

\* Where a dispatch is, the row it is at counts the attempts made so far; the rows
\* before that one are settled and those behind it are not there yet.
PlaceInv(d) ==
    /\ dispatchAt[d] = "idle" => target[d] = 1
    /\ dispatchAt[d] = "over" /\ d \notin cut => target[d] \notin Targets
    /\ dispatchAt[d] \in {"post", "delivered", "retrying", "bill"} =>
           target[d] \in Targets /\ target[d] \notin Left
    /\ dispatchAt[d] \in {"post", "delivered", "retrying"} =>
           /\ attempt[d] < 3
           /\ row[<<d, target[d]>>] \in {"pending", "retrying"}
           /\ tries[<<d, target[d]>>] = attempt[d]
           /\ posted[<<d, target[d]>>] = IF dispatchAt[d] = "post" THEN attempt[d]
                                         ELSE attempt[d] + 1
    /\ dispatchAt[d] = "delivered" => taken[<<d, target[d]>>] > 0
    /\ dispatchAt[d] = "bill" => row[<<d, target[d]>>] = "delivered"

RowInv(d, t) ==
    /\ t > target[d] \/ (t = target[d] /\ dispatchAt[d] \in {"idle", "hook"}) =>
           row[<<d, t>>] = "absent" /\ tries[<<d, t>>] = 0 /\ posted[<<d, t>>] = 0
    /\ t < target[d] /\ t \notin Left =>
           \/ row[<<d, t>>] = "delivered"
           \/ row[<<d, t>>] = "retrying" /\ tries[<<d, t>>] = 3 /\ posted[<<d, t>>] = 3
    /\ t \in Left => row[<<d, t>>] = "absent"
    /\ row[<<d, t>>] = "delivered" => taken[<<d, t>>] > 0
    /\ tries[<<d, t>>] <= posted[<<d, t>>]

InlineTyped ==
    /\ dispatchAt \in [Dispatches -> {"idle", "hook", "post", "delivered",
                                      "bill", "retrying", "over"}]
    /\ target \in [Dispatches -> Nat] /\ \A d \in Dispatches : target[d] > 0
    /\ attempt \in [Dispatches -> Nat]
    /\ row \in [Rows -> {"absent", "pending", "retrying", "delivered"}]
    /\ tries \in [Rows -> Nat] /\ posted \in [Rows -> Nat]
    /\ taken \in [Rows -> Nat] /\ billed \in Nat /\ cut \subseteq Dispatches

InlineRowsInv ==
    /\ InlineTyped
    /\ \A d \in Dispatches : PlaceInv(d)
    /\ \A d \in Dispatches, t \in Targets : RowInv(d, t)

\* Delivered rows: those that are billed next, and those no request works at.
DeliveredRows == {r \in Rows : row[r] = "delivered"}
BilledNext == {r \in DeliveredRows : dispatchAt[r[1]] = "bill" /\ target[r[1]] = r[2]}
SettledRows == {r \in DeliveredRows : r[1] \notin cut /\ ~AtRow(r)}

BillInv ==
    /\ billed \in Nat /\ IsFiniteSet(DeliveredRows)
    /\ billed + Cardinality(BilledNext) <= Cardinality(DeliveredRows)
    /\ billed >= Cardinality(SettledRows)

InlineInv == InlineRowsInv /\ BillInv

LEMMA TargetsAreNaturals == \A t \in Targets : t \in Nat /\ t > 0 /\ t <= LastTarget
    BY TargetsAssumption DEF Targets

\* A step of one dispatch leaves the rows and the place of the others alone.
LEMMA OthersKeepPlace ==
    ASSUME InlineRowsInv, NEW d \in Dispatches, InlineTyped',
           \A e \in Dispatches \ {d} :
               /\ dispatchAt'[e] = dispatchAt[e] /\ target'[e] = target[e]
               /\ attempt'[e] = attempt[e] /\ (e \in cut' <=> e \in cut)
               /\ \A t \in Targets :
                      /\ row'[<<e, t>>] = row[<<e, t>>] /\ tries'[<<e, t>>] = tries[<<e, t>>]
                      /\ posted'[<<e, t>>] = posted[<<e, t>>]
                      /\ taken'[<<e, t>>] = taken[<<e, t>>],
           PlaceInv(d)', \A t \in Targets : RowInv(d, t)'
    PROVE  InlineRowsInv'
<1>1. ASSUME NEW e \in Dispatches \ {d} PROVE PlaceInv(e)'
    BY DEF InlineRowsInv, PlaceInv
<1>2. ASSUME NEW e \in Dispatches \ {d}, NEW t \in Targets PROVE RowInv(e, t)'
    BY DEF InlineRowsInv, RowInv
<1> QED BY <1>1, <1>2 DEF InlineRowsInv

LEMMA OneMore ==
    ASSUME NEW S, IsFiniteSet(S), NEW x
    PROVE  IsFiniteSet(S \union {x}) /\ Cardinality(S \union {x}) <= Cardinality(S) + 1
<1>1. Cardinality(S) \in Nat
    BY FS_CardinalityType
<1>2. CASE x \in S
    <2> DEFINE T == S \union {x}
    <2>1. T = S
        BY <1>2
    <2> HIDE DEF T
    <2>2. IsFiniteSet(T) /\ Cardinality(T) <= Cardinality(S) + 1
        BY <1>1, <2>1
    <2> QED BY <2>2 DEF T
<1>3. CASE x \notin S
    <2>1. Cardinality(S \union {x}) = Cardinality(S) + 1 /\ IsFiniteSet(S \union {x})
        BY <1>3, FS_AddElement
    <2> QED BY <1>1, <2>1
<1> QED BY <1>2, <1>3

\* Nothing is delivered or billed: fewer rows may wait for the bill or be settled.
LEMMA BooksStand ==
    ASSUME BillInv, DeliveredRows' = DeliveredRows, billed' = billed,
           BilledNext' \subseteq BilledNext, SettledRows' \subseteq SettledRows
    PROVE  BillInv'
<1>1. IsFiniteSet(BilledNext) /\ IsFiniteSet(SettledRows)
    BY FS_Subset DEF BillInv, BilledNext, SettledRows
<1>2. /\ Cardinality(BilledNext') <= Cardinality(BilledNext)
      /\ Cardinality(SettledRows') <= Cardinality(SettledRows)
    BY <1>1, FS_Subset
<1>3. /\ Cardinality(BilledNext) \in Nat /\ Cardinality(SettledRows) \in Nat
      /\ Cardinality(BilledNext') \in Nat /\ Cardinality(SettledRows') \in Nat
      /\ Cardinality(DeliveredRows) \in Nat
    BY <1>1, FS_Subset, FS_CardinalityType DEF BillInv
<1> QED BY <1>2, <1>3 DEF BillInv

LEMMA AnnounceKeepsInv ==
    ASSUME InlineInv, NEW d \in Dispatches, Announce(d) PROVE InlineInv'
<1>1. /\ dispatchAt[d] = "idle" /\ dispatchAt' = [dispatchAt EXCEPT ![d] = "hook"]
      /\ UNCHANGED <<target, attempt, row, tries, posted, taken, billed, cut>>
    BY DEF Announce, MoveOn
<1>2. InlineTyped /\ InlineTyped'
    BY <1>1 DEF InlineInv, InlineRowsInv, InlineTyped
<1>3. dispatchAt'[d] = "hook" /\ \A e \in Dispatches \ {d} : dispatchAt'[e] = dispatchAt[e]
    BY <1>1, <1>2 DEF InlineTyped
<1>4. PlaceInv(d)'
    BY <1>3 DEF PlaceInv
<1>5. ASSUME NEW t \in Targets PROVE RowInv(d, t)'
    BY <1>1, <1>3 DEF RowInv, InlineInv, InlineRowsInv
<1>6. InlineRowsInv'
    BY <1>1, <1>2, <1>3, <1>4, <1>5, OthersKeepPlace DEF InlineInv
<1>7. BilledNext' \subseteq BilledNext /\ SettledRows' \subseteq SettledRows
      /\ DeliveredRows' = DeliveredRows
    <2>1. ASSUME NEW r \in Rows, AtRow(r) PROVE AtRow(r)'
        BY <1>1, <1>3, <2>1 DEF AtRow, Working, Rows
    <2> QED BY <1>1, <1>3, <2>1 DEF BilledNext, SettledRows, DeliveredRows, Rows
<1> QED BY <1>1, <1>6, <1>7, BooksStand DEF InlineInv

\* Passing over a hook moves on past a row that is never made.
LEMMA PassOverKeepsInv ==
    ASSUME InlineInv, NEW d \in Dispatches, PassOver(d) PROVE InlineInv'
<1>1. /\ dispatchAt[d] = "hook" /\ dispatchAt' = [dispatchAt EXCEPT ![d] = "hook"]
      /\ target' = [target EXCEPT ![d] = @ + 1] /\ target[d] \in Left
      /\ UNCHANGED <<attempt, row, tries, posted, taken, billed, cut>>
    BY DEF PassOver, MoveOn, NextTarget, Left
<1>2. InlineTyped /\ InlineTyped'
    BY <1>1 DEF InlineInv, InlineRowsInv, InlineTyped
<1>3. /\ dispatchAt' = dispatchAt /\ target'[d] = target[d] + 1 /\ target[d] \in Nat
      /\ \A e \in Dispatches \ {d} : target'[e] = target[e]
    BY <1>1, <1>2 DEF InlineTyped
<1>4. PlaceInv(d)'
    BY <1>1, <1>3 DEF PlaceInv
<1>5. ASSUME NEW t \in Targets PROVE RowInv(d, t)'
    BY <1>1, <1>3, TargetsAreNaturals DEF RowInv, InlineInv, InlineRowsInv
<1>6. InlineRowsInv'
    BY <1>1, <1>2, <1>3, <1>4, <1>5, OthersKeepPlace DEF InlineInv
<1>7. \A t \in Targets : row[<<d, t>>] = "delivered" => t # target[d]
    BY <1>1 DEF RowInv, InlineInv, InlineRowsInv
<1>8. BilledNext' \subseteq BilledNext /\ SettledRows' \subseteq SettledRows
      /\ DeliveredRows' = DeliveredRows
    <2>1. ASSUME NEW r \in DeliveredRows PROVE AtRow(r) => AtRow(r)'
        BY <1>1, <1>3, <1>7 DEF AtRow, Working, Rows, DeliveredRows
    <2>2. DeliveredRows' = DeliveredRows
        BY <1>1 DEF DeliveredRows
    <2>3. BilledNext' \subseteq BilledNext
        BY <1>1, <1>3, <2>2 DEF BilledNext, DeliveredRows, Rows
    <2> QED BY <1>1, <2>1, <2>2, <2>3 DEF SettledRows
<1> QED BY <1>1, <1>6, <1>8, BooksStand DEF InlineInv

LEMMA EndKeepsInv ==
    ASSUME InlineInv, NEW d \in Dispatches, EndDispatch(d) PROVE InlineInv'
<1>1. /\ dispatchAt[d] = "hook" /\ dispatchAt' = [dispatchAt EXCEPT ![d] = "over"]
      /\ target[d] \notin Targets
      /\ UNCHANGED <<target, attempt, row, tries, posted, taken, billed, cut>>
    BY DEF EndDispatch, MoveOn
<1>2. InlineTyped /\ InlineTyped'
    BY <1>1 DEF InlineInv, InlineRowsInv, InlineTyped
<1>3. dispatchAt'[d] = "over" /\ \A e \in Dispatches \ {d} : dispatchAt'[e] = dispatchAt[e]
    BY <1>1, <1>2 DEF InlineTyped
<1>4. PlaceInv(d)'
    BY <1>1, <1>3 DEF PlaceInv
<1>5. ASSUME NEW t \in Targets PROVE RowInv(d, t)'
    BY <1>1, <1>3 DEF RowInv, InlineInv, InlineRowsInv
<1>6. InlineRowsInv'
    BY <1>1, <1>2, <1>3, <1>4, <1>5, OthersKeepPlace DEF InlineInv
<1>7. BilledNext' \subseteq BilledNext /\ SettledRows' \subseteq SettledRows
      /\ DeliveredRows' = DeliveredRows
    <2>1. ASSUME NEW r \in Rows, AtRow(r) PROVE AtRow(r)'
        BY <1>1, <1>3, <2>1 DEF AtRow, Working, Rows
    <2> QED BY <1>1, <1>3, <2>1 DEF BilledNext, SettledRows, DeliveredRows, Rows
<1> QED BY <1>1, <1>6, <1>7, BooksStand DEF InlineInv

\* A new row is not one of those the request has been past.
LEMMA InsertRowKeepsInv ==
    ASSUME InlineInv, NEW d \in Dispatches, InsertRow(d) PROVE InlineInv'
<1>1. /\ dispatchAt[d] = "hook" /\ dispatchAt' = [dispatchAt EXCEPT ![d] = "post"]
      /\ target[d] \in Targets /\ target[d] \notin Left
      /\ row' = [row EXCEPT ![<<d, target[d]>>] = "pending"]
      /\ attempt' = [attempt EXCEPT ![d] = 0]
      /\ UNCHANGED <<target, tries, posted, taken, billed, cut>>
    BY DEF InsertRow, MoveOn, RowOf, Left
<1>2. InlineTyped /\ InlineTyped'
    BY <1>1 DEF InlineInv, InlineRowsInv, InlineTyped
<1>3. /\ dispatchAt'[d] = "post" /\ attempt'[d] = 0
      /\ \A e \in Dispatches \ {d} : dispatchAt'[e] = dispatchAt[e] /\ attempt'[e] = attempt[e]
      /\ row'[<<d, target[d]>>] = "pending"
      /\ \A e \in Dispatches, t \in Targets : e # d \/ t # target[d] =>
             row'[<<e, t>>] = row[<<e, t>>]
    BY <1>1, <1>2 DEF InlineTyped, Rows
<1>4. /\ row[<<d, target[d]>>] = "absent" /\ tries[<<d, target[d]>>] = 0
      /\ posted[<<d, target[d]>>] = 0
    BY <1>1, TargetsAreNaturals DEF InlineInv, InlineRowsInv, RowInv
<1>5. PlaceInv(d)'
    BY <1>1, <1>3, <1>4 DEF PlaceInv
<1>6. ASSUME NEW t \in Targets PROVE RowInv(d, t)'
    <2>1. CASE t = target[d]
        BY <1>1, <1>3, <1>4, <2>1, TargetsAreNaturals DEF RowInv
    <2>2. CASE t # target[d]
        BY <1>1, <1>3, <2>2 DEF RowInv, InlineInv, InlineRowsInv
    <2> QED BY <2>1, <2>2
<1>7. InlineRowsInv'
    BY <1>1, <1>2, <1>3, <1>5, <1>6, OthersKeepPlace DEF InlineInv
<1>8. DeliveredRows' = DeliveredRows
    BY <1>1, <1>3, <1>4 DEF DeliveredRows, Rows
<1>9. BilledNext' \subseteq BilledNext /\ SettledRows' \subseteq SettledRows
    <2>1. ASSUME NEW r \in Rows, AtRow(r) PROVE AtRow(r)'
        BY <1>1, <1>3, <2>1 DEF AtRow, Working, Rows
    <2> QED BY <1>1, <1>3, <1>8, <2>1 DEF BilledNext, SettledRows, DeliveredRows, Rows
<1> QED BY <1>1, <1>7, <1>8, <1>9, BooksStand DEF InlineInv

\* The receiver decides; a request that has its answer has made one POST more.
LEMMA PostToKeepsInv ==
    ASSUME InlineInv, NEW d \in Dispatches, PostTo(d) PROVE InlineInv'
<1> DEFINE here == <<d, target[d]>>
<1>1. PICK arrived \in BOOLEAN, confirmed \in BOOLEAN :
        /\ confirmed => arrived
        /\ dispatchAt[d] = "post"
        /\ dispatchAt' = [dispatchAt EXCEPT ![d] = IF confirmed THEN "delivered" ELSE "retrying"]
        /\ posted' = [posted EXCEPT ![here] = @ + 1]
        /\ taken' = [taken EXCEPT ![here] = @ + IF arrived THEN 1 ELSE 0]
        /\ UNCHANGED <<target, attempt, row, tries, billed, cut>>
    BY DEF PostTo, MoveOn, RowOf
<1>2. target[d] \in Targets /\ here \in Rows /\ PlaceInv(d) /\ InlineTyped
    BY <1>1 DEF InlineInv, InlineRowsInv, PlaceInv, Rows
<1>3. InlineTyped'
    BY <1>1, <1>2 DEF InlineTyped
<1>4. /\ dispatchAt'[d] = IF confirmed THEN "delivered" ELSE "retrying"
      /\ \A e \in Dispatches \ {d} : dispatchAt'[e] = dispatchAt[e]
      /\ posted'[here] = posted[here] + 1
      /\ posted[here] \in Nat /\ taken[here] \in Nat /\ taken'[here] \in Nat
      /\ confirmed => taken'[here] > 0
      /\ \A e \in Dispatches, t \in Targets : e # d \/ t # target[d] =>
             posted'[<<e, t>>] = posted[<<e, t>>] /\ taken'[<<e, t>>] = taken[<<e, t>>]
    BY <1>1, <1>2 DEF InlineTyped, Rows
<1>5. PlaceInv(d)'
    BY <1>1, <1>2, <1>4 DEF PlaceInv
<1>6. ASSUME NEW t \in Targets PROVE RowInv(d, t)'
    <2>1. CASE t = target[d]
        <3>1. tries[here] \in Nat
            BY <1>2 DEF InlineTyped
        <3> QED BY <1>1, <1>2, <1>4, <2>1, <3>1, TargetsAreNaturals DEF RowInv, PlaceInv,
                   InlineInv, InlineRowsInv
    <2>2. CASE t # target[d]
        BY <1>1, <1>4, <2>2 DEF RowInv, InlineInv, InlineRowsInv
    <2> QED BY <2>1, <2>2
<1>7. InlineRowsInv'
    BY <1>1, <1>3, <1>4, <1>5, <1>6, OthersKeepPlace DEF InlineInv
<1>8. BilledNext' \subseteq BilledNext /\ SettledRows' \subseteq SettledRows
      /\ DeliveredRows' = DeliveredRows
    <2>1. ASSUME NEW r \in Rows, AtRow(r) PROVE AtRow(r)'
        BY <1>1, <1>4, <2>1 DEF AtRow, Working, Rows
    <2> QED BY <1>1, <1>4, <2>1 DEF BilledNext, SettledRows, DeliveredRows, Rows
<1> QED BY <1>1, <1>7, <1>8, BooksStand DEF InlineInv

\* What UpdateRow does to the row at hand, and that it is no other.
LEMMA UpdateRowWrites ==
    ASSUME InlineInv, NEW d \in Dispatches, NEW s, UpdateRow(d, s),
           dispatchAt[d] \in {"delivered", "retrying"}
    PROVE  /\ <<d, target[d]>> \in Rows /\ target[d] \in Targets /\ target[d] \notin Left
           /\ row[<<d, target[d]>>] # "delivered"
           /\ row'[<<d, target[d]>>] = s
           /\ tries'[<<d, target[d]>>] = attempt[d] + 1
           /\ posted[<<d, target[d]>>] = attempt[d] + 1
           /\ attempt[d] \in Nat /\ attempt[d] < 3
           /\ \A e \in Dispatches, t \in Targets : e # d \/ t # target[d] =>
                  row'[<<e, t>>] = row[<<e, t>>] /\ tries'[<<e, t>>] = tries[<<e, t>>]
<1> DEFINE here == <<d, target[d]>>
<1>1. /\ target[d] \in Targets /\ target[d] \notin Left /\ here \in Rows
      /\ row[here] # "delivered" /\ posted[here] = attempt[d] + 1 /\ attempt[d] < 3
    BY DEF InlineInv, InlineRowsInv, PlaceInv, Rows
<1>2. row' = [row EXCEPT ![here] = s] /\ tries' = [tries EXCEPT ![here] = attempt[d] + 1]
    BY DEF UpdateRow, RowOf
<1>3. InlineTyped
    BY DEF InlineInv, InlineRowsInv
<1> QED BY <1>1, <1>2, <1>3 DEF InlineTyped, Rows

\* A row becomes delivered once, and waits for its bill.
LEMMA UpdateDeliveredKeepsInv ==
    ASSUME InlineInv, NEW d \in Dispatches, UpdateDelivered(d) PROVE InlineInv'
<1> DEFINE here == <<d, target[d]>>
<1>1. /\ dispatchAt[d] = "delivered" /\ dispatchAt' = [dispatchAt EXCEPT ![d] = "bill"]
      /\ UpdateRow(d, "delivered")
      /\ row' = [row EXCEPT ![here] = "delivered"]
      /\ tries' = [tries EXCEPT ![here] = attempt[d] + 1]
      /\ UNCHANGED <<target, attempt, posted, taken, billed, cut>>
    BY DEF UpdateDelivered, MoveOn, UpdateRow, RowOf
<1>2. /\ here \in Rows /\ target[d] \in Targets /\ target[d] \notin Left
      /\ row[here] # "delivered" /\ row'[here] = "delivered"
      /\ tries'[here] = attempt[d] + 1 /\ posted[here] = attempt[d] + 1
      /\ attempt[d] \in Nat
      /\ \A e \in Dispatches, t \in Targets : e # d \/ t # target[d] =>
             row'[<<e, t>>] = row[<<e, t>>] /\ tries'[<<e, t>>] = tries[<<e, t>>]
    BY <1>1, UpdateRowWrites
<1>3. InlineTyped /\ InlineTyped'
    BY <1>1, <1>2 DEF InlineInv, InlineRowsInv, InlineTyped
<1>4. dispatchAt'[d] = "bill" /\ \A e \in Dispatches \ {d} : dispatchAt'[e] = dispatchAt[e]
    BY <1>1, <1>3 DEF InlineTyped
<1>5. taken[here] > 0
    BY <1>1 DEF InlineInv, InlineRowsInv, PlaceInv
<1>6. PlaceInv(d)'
    BY <1>1, <1>2, <1>4 DEF PlaceInv
<1>7. ASSUME NEW t \in Targets PROVE RowInv(d, t)'
    <2>1. CASE t = target[d]
        BY <1>1, <1>2, <1>4, <1>5, <2>1, TargetsAreNaturals DEF RowInv
    <2>2. CASE t # target[d]
        BY <1>1, <1>2, <1>4, <2>2 DEF RowInv, InlineInv, InlineRowsInv
    <2> QED BY <2>1, <2>2
<1>8. InlineRowsInv'
    BY <1>1, <1>2, <1>3, <1>4, <1>6, <1>7, OthersKeepPlace DEF InlineInv
<1>9. /\ here \notin DeliveredRows /\ here \notin BilledNext
      /\ DeliveredRows' = DeliveredRows \union {here}
      /\ BilledNext' = BilledNext \union {here} /\ SettledRows' = SettledRows
    <2>1. DeliveredRows' = DeliveredRows \union {here} /\ here \notin DeliveredRows
        BY <1>2 DEF DeliveredRows, Rows
    <2>2. \A r \in Rows : AtRow(r)' <=> AtRow(r)
        BY <1>1, <1>4 DEF AtRow, Working, Rows
    <2>3. AtRow(here)
        BY <1>1 DEF AtRow, Working
    <2>4. DeliveredRows \subseteq Rows /\ here \in Rows
        BY <1>2 DEF DeliveredRows
    <2>5. BilledNext' = BilledNext \union {here}
        BY <1>1, <1>2, <1>4, <2>1, <2>4 DEF BilledNext, Rows
    <2>6. SettledRows' = SettledRows
        BY <1>1, <2>1, <2>2, <2>3, <2>4 DEF SettledRows
    <2> QED BY <2>1, <2>5, <2>6 DEF BilledNext
<1>10. BillInv'
    <2>1. IsFiniteSet(DeliveredRows) /\ IsFiniteSet(BilledNext)
        BY FS_Subset DEF InlineInv, BillInv, BilledNext
    <2>2. /\ Cardinality(DeliveredRows') = Cardinality(DeliveredRows) + 1
          /\ Cardinality(BilledNext') = Cardinality(BilledNext) + 1
          /\ IsFiniteSet(DeliveredRows')
        BY <1>9, <2>1, FS_AddElement
    <2>3. Cardinality(BilledNext) \in Nat /\ Cardinality(DeliveredRows) \in Nat
        BY <2>1, FS_CardinalityType
    <2> QED BY <1>1, <1>9, <2>2, <2>3 DEF InlineInv, BillInv
<1> QED BY <1>8, <1>10 DEF InlineInv

\* The bill is counted as the request leaves the row.
LEMMA BillKeepsInv ==
    ASSUME InlineInv, NEW d \in Dispatches, Bill(d) PROVE InlineInv'
<1> DEFINE here == <<d, target[d]>>
<1>1. /\ dispatchAt[d] = "bill" /\ dispatchAt' = [dispatchAt EXCEPT ![d] = "hook"]
      /\ target' = [target EXCEPT ![d] = @ + 1] /\ billed' = billed + 1
      /\ UNCHANGED <<attempt, row, tries, posted, taken, cut>>
    BY DEF Bill, MoveOn, NextTarget
<1>2. InlineTyped /\ InlineTyped'
    BY <1>1 DEF InlineInv, InlineRowsInv, InlineTyped
<1>3. /\ dispatchAt'[d] = "hook" /\ target'[d] = target[d] + 1 /\ target[d] \in Nat
      /\ \A e \in Dispatches \ {d} : dispatchAt'[e] = dispatchAt[e] /\ target'[e] = target[e]
    BY <1>1, <1>2 DEF InlineTyped
<1>4. here \in Rows /\ row[here] = "delivered" /\ target[d] \in Targets
    BY <1>1 DEF InlineInv, InlineRowsInv, PlaceInv, Rows
<1>5. PlaceInv(d)'
    BY <1>3 DEF PlaceInv
<1>6. ASSUME NEW t \in Targets PROVE RowInv(d, t)'
    <2>1. RowInv(d, t) /\ t \in Nat
        BY TargetsAreNaturals DEF InlineInv, InlineRowsInv
    <2>2. CASE t = target[d]
        BY <1>1, <1>3, <1>4, <2>1, <2>2 DEF RowInv
    <2>3. CASE t # target[d]
        <3>1. t = target'[d] \/ t > target'[d] => dispatchAt'[d] = "post" \/ t > target[d]
            BY <1>1, <1>3, <2>1, <2>3
        <3>2. t < target'[d] => t < target[d]
            BY <1>1, <1>3, <2>1, <2>3
        <3>3. /\ row'[<<d, t>>] = row[<<d, t>>] /\ tries'[<<d, t>>] = tries[<<d, t>>]
              /\ posted'[<<d, t>>] = posted[<<d, t>>] /\ taken'[<<d, t>>] = taken[<<d, t>>]
            BY <1>1, <1>3, <2>3
        <3>4. RowInv(d, t)
            BY <2>1
        <3> QED BY <1>3, <3>1, <3>2, <3>3, <3>4 DEF RowInv
    <2> QED BY <2>2, <2>3
<1>7. InlineRowsInv'
    BY <1>1, <1>2, <1>3, <1>5, <1>6, OthersKeepPlace DEF InlineInv
<1>8. DeliveredRows' = DeliveredRows /\ here \in BilledNext
    BY <1>1, <1>4 DEF DeliveredRows, BilledNext
<1>9. BilledNext' = BilledNext \ {here}
    BY <1>1, <1>3, <1>8 DEF BilledNext, DeliveredRows, Rows
<1>10. SettledRows' \subseteq SettledRows \union {here}
    <2>1. ASSUME NEW r \in Rows, AtRow(r), r # here PROVE AtRow(r)'
        BY <1>1, <1>3, <2>1 DEF AtRow, Working, Rows
    <2> QED BY <1>1, <1>8, <2>1 DEF SettledRows, DeliveredRows
<1>11. BillInv'
    <2>1. IsFiniteSet(BilledNext) /\ IsFiniteSet(SettledRows)
        BY FS_Subset DEF InlineInv, BillInv, BilledNext, SettledRows
    <2>2. Cardinality(BilledNext') = Cardinality(BilledNext) - 1
        BY <1>8, <1>9, <2>1, FS_RemoveElement
    <2>3. /\ IsFiniteSet(SettledRows \union {here})
          /\ Cardinality(SettledRows \union {here}) <= Cardinality(SettledRows) + 1
        BY <2>1, OneMore
    <2>4. Cardinality(SettledRows') <= Cardinality(SettledRows \union {here})
          /\ IsFiniteSet(SettledRows')
        BY <1>10, <2>3, FS_Subset
    <2>5. /\ Cardinality(BilledNext) \in Nat /\ Cardinality(SettledRows) \in Nat
          /\ Cardinality(SettledRows') \in Nat /\ Cardinality(DeliveredRows) \in Nat
          /\ Cardinality(SettledRows \union {here}) \in Nat
        BY <2>1, <2>3, <2>4, FS_CardinalityType DEF InlineInv, BillInv
    <2> QED BY <1>1, <1>8, <2>2, <2>3, <2>4, <2>5 DEF InlineInv, BillInv
<1> QED BY <1>7, <1>11 DEF InlineInv

\* A row that the third attempt leaves open is left with all three made.
LEMMA UpdateRetryingKeepsInv ==
    ASSUME InlineInv, NEW d \in Dispatches, UpdateRetrying(d) PROVE InlineInv'
<1> DEFINE here == <<d, target[d]>>
           more == attempt[d] + 1 < 3
<1>1. /\ dispatchAt[d] = "retrying"
      /\ dispatchAt' = [dispatchAt EXCEPT ![d] = IF more THEN "post" ELSE "hook"]
      /\ target' = IF more THEN target ELSE [target EXCEPT ![d] = @ + 1]
      /\ attempt' = [attempt EXCEPT ![d] = @ + 1]
      /\ UpdateRow(d, "retrying")
      /\ row' = [row EXCEPT ![here] = "retrying"]
      /\ tries' = [tries EXCEPT ![here] = attempt[d] + 1]
      /\ UNCHANGED <<posted, taken, billed, cut>>
    BY DEF UpdateRetrying, MoveOn, NextTarget, TriesLeft, InlineTries, UpdateRow, RowOf
<1>2. /\ here \in Rows /\ target[d] \in Targets /\ target[d] \notin Left
      /\ row[here] # "delivered" /\ row'[here] = "retrying"
      /\ tries'[here] = attempt[d] + 1 /\ posted[here] = attempt[d] + 1
      /\ attempt[d] \in Nat /\ attempt[d] < 3
      /\ \A e \in Dispatches, t \in Targets : e # d \/ t # target[d] =>
             row'[<<e, t>>] = row[<<e, t>>] /\ tries'[<<e, t>>] = tries[<<e, t>>]
    BY <1>1, UpdateRowWrites
<1>3. InlineTyped /\ InlineTyped'
    <2>1. InlineTyped
        BY DEF InlineInv, InlineRowsInv
    <2>2. target' \in [Dispatches -> Nat] /\ \A e \in Dispatches : target'[e] > 0
        BY <1>1, <2>1 DEF InlineTyped
    <2> QED BY <1>1, <1>2, <2>1, <2>2 DEF InlineTyped
<1>4. /\ dispatchAt'[d] = IF more THEN "post" ELSE "hook"
      /\ target'[d] = IF more THEN target[d] ELSE target[d] + 1
      /\ target[d] \in Nat /\ attempt'[d] = attempt[d] + 1
      /\ \A e \in Dispatches \ {d} : /\ dispatchAt'[e] = dispatchAt[e]
                                     /\ target'[e] = target[e] /\ attempt'[e] = attempt[e]
    BY <1>1, <1>3 DEF InlineTyped
<1>5. PlaceInv(d)'
    BY <1>1, <1>2, <1>4 DEF PlaceInv
<1>6. ASSUME NEW t \in Targets PROVE RowInv(d, t)'
    <2>1. RowInv(d, t) /\ t \in Nat
        BY TargetsAreNaturals DEF InlineInv, InlineRowsInv
    <2>2. CASE t = target[d]
        BY <1>1, <1>2, <1>4, <2>1, <2>2 DEF RowInv
    <2>3. CASE t # target[d]
        <3>1. t = target'[d] \/ t > target'[d] => dispatchAt'[d] = "post" \/ t > target[d]
            BY <1>1, <1>2, <1>4, <2>1, <2>3
        <3>2. t < target'[d] => t < target[d]
            BY <1>1, <1>2, <1>4, <2>1, <2>3
        <3>3. /\ row'[<<d, t>>] = row[<<d, t>>] /\ tries'[<<d, t>>] = tries[<<d, t>>]
              /\ posted'[<<d, t>>] = posted[<<d, t>>] /\ taken'[<<d, t>>] = taken[<<d, t>>]
            BY <1>1, <1>2, <1>4, <2>3
        <3>4. RowInv(d, t)
            BY <2>1
        <3> QED BY <1>4, <3>1, <3>2, <3>3, <3>4 DEF RowInv
    <2> QED BY <2>2, <2>3
<1>7. InlineRowsInv'
    BY <1>1, <1>2, <1>3, <1>4, <1>5, <1>6, OthersKeepPlace DEF InlineInv
<1>8. DeliveredRows' = DeliveredRows /\ here \notin DeliveredRows
    BY <1>2 DEF DeliveredRows, Rows
<1>9. BilledNext' \subseteq BilledNext
    BY <1>1, <1>4, <1>8 DEF BilledNext, DeliveredRows, Rows
<1>10. SettledRows' \subseteq SettledRows
    <2>1. ASSUME NEW r \in Rows, AtRow(r), r # here PROVE AtRow(r)'
        BY <1>1, <1>4, <2>1 DEF AtRow, Working, Rows
    <2> QED BY <1>1, <1>8, <2>1 DEF SettledRows, DeliveredRows
<1> QED BY <1>1, <1>7, <1>8, <1>9, <1>10, BooksStand DEF InlineInv

\* A rejected call of the store ends one dispatch, a restart all that are under way.
LEMMA CutKeepsInv ==
    ASSUME InlineInv, NEW D \in SUBSET Dispatches,
           cut' = cut \union D,
           dispatchAt' = [d \in Dispatches |-> IF d \in D THEN "over" ELSE dispatchAt[d]],
           \A d \in D : Working(d),
           UNCHANGED <<target, attempt, row, tries, posted, taken, billed>>
    PROVE  InlineInv'
<1>1. InlineTyped /\ InlineTyped'
    BY DEF InlineInv, InlineRowsInv, InlineTyped
<1>2. ASSUME NEW d \in Dispatches PROVE PlaceInv(d)'
    BY DEF PlaceInv, InlineInv, InlineRowsInv
<1>3. ASSUME NEW d \in Dispatches, NEW t \in Targets PROVE RowInv(d, t)'
    BY DEF RowInv, InlineInv, InlineRowsInv
<1>4. DeliveredRows' = DeliveredRows
    BY DEF DeliveredRows
<1>5. BilledNext' \subseteq BilledNext
    BY <1>4 DEF BilledNext, DeliveredRows, Rows
<1>6. SettledRows' \subseteq SettledRows
    <2>1. ASSUME NEW r \in Rows, r[1] \notin D PROVE AtRow(r)' <=> AtRow(r)
        BY <2>1 DEF AtRow, Working, Rows
    <2> QED BY <1>4, <2>1 DEF SettledRows, DeliveredRows
<1> QED BY <1>1, <1>2, <1>3, <1>4, <1>5, <1>6, BooksStand DEF InlineInv, InlineRowsInv

LEMMA InlineInvInductive == InlineInv /\ [InlineNext]_inlineVars => InlineInv'
<1> SUFFICES ASSUME InlineInv, [InlineNext]_inlineVars PROVE InlineInv'
    OBVIOUS
<1>1. ASSUME NEW d \in Dispatches, StoreRejects(d) PROVE InlineInv'
    <2>1. /\ Working(d) /\ cut' = cut \union {d}
          /\ dispatchAt' = [dispatchAt EXCEPT ![d] = "over"]
          /\ UNCHANGED <<target, attempt, row, tries, posted, taken, billed>>
        BY <1>1 DEF StoreRejects, MoveOn, Working
    <2>2. dispatchAt' = [e \in Dispatches |-> IF e \in {d} THEN "over" ELSE dispatchAt[e]]
        BY <2>1 DEF InlineInv, InlineRowsInv, InlineTyped
    <2> QED BY <2>1, <2>2, CutKeepsInv
<1>2. CASE Restart
    <2> DEFINE D == {d \in Dispatches : Working(d)}
    <2>1. /\ cut' = cut \union D
          /\ dispatchAt' = [d \in Dispatches |-> IF d \in D THEN "over" ELSE dispatchAt[d]]
          /\ UNCHANGED <<target, attempt, row, tries, posted, taken, billed>>
        BY <1>2 DEF Restart
    <2>2. D \in SUBSET Dispatches /\ \A d \in D : Working(d)
        OBVIOUS
    <2> HIDE DEF D
    <2> QED BY <2>1, <2>2, CutKeepsInv
<1>3. CASE UNCHANGED inlineVars
    <2>1. UNCHANGED <<dispatchAt, target, attempt, row, tries, posted, taken, billed, cut>>
        BY <1>3 DEF inlineVars
    <2> QED BY <2>1 DEF InlineInv, InlineRowsInv, InlineTyped, PlaceInv, RowInv, BillInv,
               DeliveredRows, BilledNext, SettledRows, AtRow, Working
<1> QED BY <1>1, <1>2, <1>3, AnnounceKeepsInv, PassOverKeepsInv, EndKeepsInv,
           InsertRowKeepsInv, PostToKeepsInv, UpdateDeliveredKeepsInv, BillKeepsInv,
           UpdateRetryingKeepsInv DEF InlineNext

\* Without Redis a row is tried at once and twice more, or its request was cut short;
\* what is delivered the receiver took, and is billed once: for any number of hooks,
\* verdicts and restarts.
THEOREM InlineRowsAreSettled == InlineSpec => []InlineRowsAreTried
<1>1. InlineInit => InlineInv
    <2> SUFFICES ASSUME InlineInit PROVE InlineInv
        OBVIOUS
    <2>1. InlineTyped
        BY DEF InlineInit, InlineTyped
    <2>2. \A d \in Dispatches : PlaceInv(d)
        BY DEF InlineInit, PlaceInv
    <2>3. \A d \in Dispatches, t \in Targets : RowInv(d, t)
        BY TargetsAreNaturals DEF InlineInit, RowInv, Rows
    <2>4. DeliveredRows = {} /\ BilledNext = {} /\ SettledRows = {}
        BY DEF InlineInit, DeliveredRows, BilledNext, SettledRows
    <2>5. BillInv
        BY <2>4, FS_EmptySet DEF BillInv, InlineInit
    <2> QED BY <2>1, <2>2, <2>3, <2>5 DEF InlineInv, InlineRowsInv
<1>2. InlineInv => InlineRowsAreTried
    <2> SUFFICES ASSUME InlineInv PROVE InlineRowsAreTried
        OBVIOUS
    <2> DEFINE unsettled == {r \in DeliveredRows : r[1] \in cut \/ AtRow(r)}
    <2>1. ASSUME NEW d \in Dispatches, NEW t \in Targets
          PROVE  LET r == <<d, t>> IN
                 /\ ~AtRow(r) /\ row[r] \in {"pending", "retrying"} =>
                        \/ d \in cut
                        \/ row[r] = "retrying" /\ tries[r] = 3 /\ posted[r] = 3
                 /\ row[r] = "delivered" => taken[r] > 0
                 /\ tries[r] <= posted[r]
                 /\ dispatchAt[d] = "over" /\ d \notin cut /\ t \notin Left
                        => row[r] # "absent"
        <3>1. RowInv(d, t) /\ PlaceInv(d)
            BY DEF InlineInv, InlineRowsInv
        <3>2. dispatchAt[d] = "over" /\ d \notin cut => t < target[d]
            <4> SUFFICES ASSUME dispatchAt[d] = "over", d \notin cut PROVE t < target[d]
                OBVIOUS
            <4>1. target[d] \in Nat /\ target[d] > 0 /\ target[d] \notin Targets
                BY <3>1 DEF PlaceInv, InlineInv, InlineRowsInv, InlineTyped
            <4> QED BY <4>1, TargetsAssumption DEF Targets
        <3>3. target[d] \in Nat /\ t \in Nat
            BY TargetsAreNaturals DEF InlineInv, InlineRowsInv, InlineTyped
        <3>4. ~AtRow(<<d, t>>) /\ d \notin cut /\ row[<<d, t>>] # "absent" => t < target[d]
            <4>1. AtRow(<<d, t>>) <=> dispatchAt[d] \notin {"idle", "over"} /\ target[d] = t
                BY DEF AtRow, Working
            <4>2. dispatchAt[d] = "idle" => t >= target[d]
                BY <3>1, TargetsAreNaturals DEF PlaceInv
            <4>3. row[<<d, t>>] # "absent" =>
                      ~(t > target[d]) /\ ~(t = target[d] /\ dispatchAt[d] = "idle")
                BY <3>1 DEF RowInv
            <4> QED BY <3>2, <3>3, <4>1, <4>2, <4>3
        <3>5. row[<<d, t>>] # "absent" => t \notin Left
            BY <3>1 DEF RowInv
        <3> QED BY <3>1, <3>2, <3>4, <3>5 DEF RowInv
    <2>2. DeliveredRows \ unsettled = SettledRows
        BY DEF SettledRows
    <2>3. billed <= Cardinality(DeliveredRows) /\ billed >= Cardinality(SettledRows)
        <3>1. IsFiniteSet(BilledNext)
            BY FS_Subset DEF InlineInv, BillInv, BilledNext
        <3> QED BY <3>1, FS_CardinalityType DEF InlineInv, BillInv
    <2>4. ASSUME NEW r \in Rows PROVE r = <<r[1], r[2]>> /\ r[1] \in Dispatches /\ r[2] \in Targets
        BY DEF Rows
    <2>5. ASSUME NEW r \in Rows
          PROVE  /\ ~AtRow(r) /\ row[r] \in {"pending", "retrying"} =>
                        \/ r[1] \in cut
                        \/ row[r] = "retrying" /\ tries[r] = InlineTries
                                               /\ posted[r] = InlineTries
                 /\ row[r] = "delivered" => taken[r] > 0
                 /\ tries[r] <= posted[r]
                 /\ dispatchAt[r[1]] = "over" /\ r[1] \notin cut
                        /\ r[2] \notin Unsubscribed \union Unsafe => row[r] # "absent"
        BY <2>1, <2>4 DEF InlineTries, Left
    <2>6. LET delivered == {r \in Rows : row[r] = "delivered"}
              open == {r \in delivered : r[1] \in cut \/ AtRow(r)}
          IN  /\ billed <= Cardinality(delivered)
              /\ billed >= Cardinality(delivered \ open)
        BY <2>2, <2>3 DEF DeliveredRows
    <2> QED BY <2>5, <2>6 DEF InlineRowsAreTried
<1> QED BY <1>1, <1>2, InlineInvInductive, PTL DEF InlineSpec

=============================================================================
