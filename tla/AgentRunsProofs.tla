--------------------------- MODULE AgentRunsProofs ---------------------------
(***************************************************************************)
(* Theorems about AgentRuns for every workflow, every number of workers    *)
(* and every limit: the order of Steps and the gate of approvals; then     *)
(* what it does with rows and messages: the Run agrees with its Steps,     *)
(* deliveries are fenced, work is never lost, a dead letter is explained,  *)
(* executions and claims are paid for, and all of it is a RunContract.     *)
(***************************************************************************)
EXTENDS AgentRuns, FiniteSets, FiniteSetTheorems, TLAPS

-----------------------------------------------------------------------------
(* Updates of well-formed rows are well-formed *)

\* The fields of a Run row, one at a time and in the combinations the code uses.
LEMMA RunField ==
  ASSUME NEW r \in Run, NEW onward \in RunStatus, NEW b \in BOOLEAN, NEW n \in Nat
  PROVE  /\ [r EXCEPT !.status = onward] \in Run
         /\ [r EXCEPT !.cancelReq = b] \in Run
         /\ [r EXCEPT !.rejected = b] \in Run
         /\ [r EXCEPT !.retryWait = b] \in Run
         /\ [r EXCEPT !.attempt = n] \in Run
  BY DEF Run

LEMMA RunFields ==
  ASSUME NEW r \in Run, NEW onward \in RunStatus, NEW n \in Nat,
         NEW b \in BOOLEAN, NEW c \in BOOLEAN
  PROVE  /\ [r EXCEPT !.status = onward, !.cancelReq = b] \in Run
         /\ [r EXCEPT !.status = onward, !.retryWait = b] \in Run
         /\ [r EXCEPT !.status = onward, !.rejected = b] \in Run
         /\ [r EXCEPT !.rejected = b, !.status = onward] \in Run
         /\ [r EXCEPT !.status = onward, !.rejected = c, !.retryWait = b] \in Run
         /\ [r EXCEPT !.status = onward, !.attempt = n, !.retryWait = b] \in Run
  BY RunField

LEMMA StepField ==
  ASSUME NEW row \in Step, NEW onward \in StepStatus, NEW n \in Nat,
         NEW lease \in {"none", "live", "expired"}
  PROVE  /\ [row EXCEPT !.status = onward] \in Step
         /\ [row EXCEPT !.rev = n] \in Step
         /\ [row EXCEPT !.attempt = n] \in Step
         /\ [row EXCEPT !.token = n] \in Step
         /\ [row EXCEPT !.lease = lease] \in Step
  BY DEF Step

\* A transition changes the status and the revision of a Step row and nothing else
\* (_transition_step).
LEMMA MovedRow ==
  ASSUME NEW row \in Step, NEW target \in StepStatus
  PROVE  /\ Moved(row, target) \in Step
         /\ Moved(row, target).status = target
         /\ Moved(row, target).attempt = row.attempt
         /\ Moved(row, target).token = row.token
<1>1. row.rev + 1 \in Nat
  BY DEF Step
<1>2. Moved(row, target) \in Step
  BY <1>1, StepField DEF Moved
<1> QED
  BY <1>2 DEF Moved, Step

\* The end of an execution also clears its token and its lease.
LEMMA ReleasedRow ==
  ASSUME NEW row \in Step, NEW target \in StepStatus
  PROVE  /\ Released(row, target) \in Step
         /\ Released(row, target).status = target
         /\ Released(row, target).attempt = row.attempt
<1>1. Moved(row, target) \in Step
  BY MovedRow
<1>2. Released(row, target) \in Step
  BY <1>1, StepField DEF Released
<1> QED
  BY <1>2 DEF Released, Moved, Step

\* A claim counts the attempt and draws its token from it (claim_step).
LEMMA StartedRow ==
  ASSUME NEW row \in Step
  PROVE  /\ Started(row) \in Step
         /\ Started(row).status = "running"
         /\ Started(row).attempt = row.attempt + 1
         /\ Started(row).token = row.attempt + 1
<1>1. "running" \in StepStatus
  BY DEF StepStatus
<1>2. Moved(row, "running") \in Step
  BY <1>1, MovedRow
<1>3. row.attempt + 1 \in Nat /\ Moved(row, "running").attempt + 1 \in Nat
  BY <1>2 DEF Step
<1>4. Started(row) \in Step
  BY <1>1, <1>2, <1>3, StepField DEF Started
<1> QED
  BY <1>4 DEF Started, Moved, Step

LEMMA EventField ==
  ASSUME NEW e \in Event, NEW b \in BOOLEAN, NEW n \in 0 .. PublishLimit,
         NEW onward \in {"pending", "publishing", "published", "failed", "dead_letter"}
  PROVE  /\ [e EXCEPT !.status = onward] \in Event
         /\ [e EXCEPT !.tries = n] \in Event
         /\ [e EXCEPT !.avail = b] \in Event
         /\ [e EXCEPT !.locked = b] \in Event
  BY DEF Event

LEMMA EventFields ==
  ASSUME NEW e \in Event, NEW b \in BOOLEAN, NEW c \in BOOLEAN, NEW n \in 0 .. PublishLimit,
         NEW onward \in {"pending", "publishing", "published", "failed", "dead_letter"}
  PROVE  /\ [e EXCEPT !.status = onward, !.locked = b] \in Event
         /\ [e EXCEPT !.status = onward, !.locked = b, !.tries = n] \in Event
         /\ [e EXCEPT !.status = onward, !.avail = c, !.locked = b] \in Event
  BY EventField

\* _enqueue adds at most one event, which carries the attempt of its Step.
LEMMA EnqueueAdds ==
  ASSUME outbox \in SUBSET Event,
         NEW st \in [Steps -> Step], NEW s \in Steps, NEW available \in BOOLEAN
  PROVE  /\ Enqueue(st, s, available) \in SUBSET Event
         /\ outbox \subseteq Enqueue(st, s, available)
         /\ \A e \in Enqueue(st, s, available) \ outbox :
              e.step = s /\ e.attempt = st[s].attempt
<1>1. st[s].rev \in Nat /\ st[s].attempt \in Nat
  BY DEF Step
<1>2. 0 \in 0 .. PublishLimit
  BY LimitAssumption
<1>3. [ step |-> s, rev |-> st[s].rev, attempt |-> st[s].attempt, status |-> "pending",
        tries |-> 0, avail |-> available, locked |-> FALSE ] \in Event
  BY <1>1, <1>2 DEF Event
<1>4. Enqueue(st, s, available) \in SUBSET Event
  BY <1>3 DEF Enqueue
<1>5. /\ outbox \subseteq Enqueue(st, s, available)
      /\ \A e \in Enqueue(st, s, available) \ outbox :
           e.step = s /\ e.attempt = st[s].attempt
  BY DEF Enqueue
<1> QED
  BY <1>4, <1>5

\* The transition tables name statuses, and none leads to itself or out of a
\* settled status.
LEMMA StepMayRange ==
  ASSUME NEW from \in StepStatus, NEW to, StepMay(from, to)
  PROVE  to \in StepStatus /\ from \notin SettledStep
BY DEF StepMay, StepTransitions, StepStatus, SettledStep

LEMMA QueueAfterNext ==
  ASSUME TypeOK, NEW s \in Steps, NEW done \in Step, NEW onward \in RunStatus,
         QueueAfter(s, done, onward), s # N
  PROVE  /\ steps' = [steps EXCEPT ![s] = done, ![s + 1] = Moved(steps[s + 1], "queued")]
         /\ run' = [run EXCEPT !.status = onward]
         /\ outbox' = Enqueue(steps', s + 1, TRUE)
BY DEF QueueAfter, Steps

\* _queue_after completes one Step and queues the next, or completes the Run.
LEMMA QueueAfterType ==
  ASSUME TypeOK, NEW s \in Steps, NEW done \in Step, NEW onward \in RunStatus,
         QueueAfter(s, done, onward)
  PROVE  run' \in Run /\ steps' \in [Steps -> Step] /\ outbox' \in SUBSET Event
<1>1. CASE s = N
  <2>1. run' = [run EXCEPT !.status = "completed"] /\ outbox' = outbox
    BY <1>1 DEF QueueAfter
  <2>2. "completed" \in RunStatus
    BY DEF RunStatus
  <2>3. run' \in Run
    <3>1. run \in Run /\ FALSE \in BOOLEAN /\ 0 \in Nat
      BY DEF TypeOK
    <3> QED
      BY <2>1, <2>2, <3>1, RunField
  <2>4. steps' = [steps EXCEPT ![s] = done]
    BY <1>1 DEF QueueAfter
  <2> QED
    BY <2>1, <2>3, <2>4 DEF TypeOK
<1>2. CASE s # N
  <2>1. /\ steps' = [steps EXCEPT ![s] = done, ![s + 1] = Moved(steps[s + 1], "queued")]
        /\ run' = [run EXCEPT !.status = onward]
        /\ outbox' = Enqueue(steps', s + 1, TRUE)
    BY <1>2, QueueAfterNext
  <2>2. s + 1 \in Steps /\ s + 1 # s
    BY <1>2, WorkflowAssumption DEF Steps
  <2>3. Moved(steps[s + 1], "queued") \in Step
    BY <2>2, MovedRow DEF TypeOK, StepStatus
  <2>4. steps' \in [Steps -> Step]
    BY <2>1, <2>2, <2>3 DEF TypeOK
  <2>5. run' \in Run
    <3>1. run \in Run /\ FALSE \in BOOLEAN /\ 0 \in Nat
      BY DEF TypeOK
    <3> QED
      BY <2>1, <3>1, RunField
  <2>6. outbox' \in SUBSET Event
    BY <2>1, <2>2, <2>4, EnqueueAdds DEF TypeOK
  <2> QED
    BY <2>4, <2>5, <2>6
<1> QED
  BY <1>1, <1>2

\* _cancel_now keeps the rows well-formed.
LEMMA CancelNowType ==
  ASSUME TypeOK, CancelNow
  PROVE  run' \in Run /\ steps' \in [Steps -> Step] /\ approvals' \in [Steps -> ApprovalStatus]
<1>1. "cancelled" \in StepStatus /\ "cancelled" \in RunStatus /\ "cancelled" \in ApprovalStatus
  BY DEF StepStatus, RunStatus, ApprovalStatus
<1>2. run' \in Run
  <2>1. run' = [run EXCEPT !.status = "cancelled", !.cancelReq = TRUE]
    BY DEF CancelNow
  <2>2. run \in Run /\ TRUE \in BOOLEAN /\ 0 \in Nat
    BY DEF TypeOK
  <2> QED
    BY <1>1, <2>1, <2>2, RunFields
<1>3. \A s \in Steps : Moved(steps[s], "cancelled") \in Step
  BY <1>1, MovedRow DEF TypeOK
<1>4. steps' \in [Steps -> Step]
  BY <1>3 DEF CancelNow, TypeOK
<1>5. approvals' \in [Steps -> ApprovalStatus]
  BY <1>1 DEF CancelNow, TypeOK
<1> QED
  BY <1>2, <1>4, <1>5

\* A worker that is not idle holds a Step and a token.
LEMMA BusyWorker ==
  ASSUME TypeOK, NEW w \in Workers, workers[w].pc \in {"claimed", "failing"}
  PROVE  workers[w] \in [pc: {"claimed", "failing"}, step: Steps, token: Nat, retriable: BOOLEAN]
<1>1. workers[w] \in Worker
  BY DEF TypeOK
<1>2. workers[w] # Idle
  BY DEF Idle
<1> QED
  BY <1>1, <1>2 DEF Worker

LEMMA FailingWorker ==
  ASSUME NEW x \in [pc: {"claimed", "failing"}, step: Steps, token: Nat, retriable: BOOLEAN],
         NEW b \in BOOLEAN
  PROVE  [x EXCEPT !.pc = "failing", !.retriable = b] \in Worker
<1>1. [x EXCEPT !.pc = "failing"]
        \in [pc: {"claimed", "failing"}, step: Steps, token: Nat, retriable: BOOLEAN]
  OBVIOUS
<1>2. [[x EXCEPT !.pc = "failing"] EXCEPT !.retriable = b]
        \in [pc: {"claimed", "failing"}, step: Steps, token: Nat, retriable: BOOLEAN]
  BY <1>1
<1> QED
  BY <1>2 DEF Worker

LEMMA GoIdleType ==
  ASSUME TypeOK, NEW w \in Workers, GoIdle(w)
  PROVE  workers' \in [Workers -> Worker]
BY DEF TypeOK, GoIdle, Worker

LEMMA FaultType ==
  ASSUME TypeOK, Fault \/ UNCHANGED faults
  PROVE  faults' \in 0 .. MaxFaults
BY LimitAssumption DEF TypeOK, Fault

LEMMA AcknowledgeType ==
  ASSUME TypeOK, NEW m \in queue, Acknowledge(m)
  PROVE  queue' \in SUBSET Message /\ faults' \in 0 .. MaxFaults
BY LimitAssumption DEF TypeOK, Acknowledge, Fault

LEMMA StatusNames ==
  /\ {"queued", "running", "waiting_for_approval", "retry_scheduled", "failed", "completed",
      "cancelled", "dead_letter"} = RunStatus
  /\ {"queued", "running", "waiting_for_approval", "retry_scheduled", "failed", "completed",
      "cancelled"} \subseteq StepStatus
BY DEF RunStatus, StepStatus

\* The types of the rows a transaction touches, as separate facts.
LEMMA TypeFacts ==
  ASSUME TypeOK
  PROVE  /\ run \in Run /\ run.attempt \in Nat /\ run.status \in RunStatus
         /\ run.rejected \in BOOLEAN
         /\ \A s \in Steps : steps[s] \in Step
         /\ \A e \in outbox : e \in Event /\ e.step \in Steps /\ e.attempt \in Nat
         /\ \A m \in queue : m \in Message /\ m.step \in Steps /\ m.attempt \in Nat
         /\ TRUE \in BOOLEAN /\ FALSE \in BOOLEAN /\ 0 \in Nat
BY DEF TypeOK, Run, Event, Message

-----------------------------------------------------------------------------
(* Type correctness, one lemma per group of actions *)

LEMMA DeliverType ==
  ASSUME TypeOK, NEW m \in queue, Deliver(m)
  PROVE  TypeOK'
<1> DEFINE s == m.step
<1>1. m \in Message /\ s \in Steps
  BY TypeFacts
<1>2. ASSUME NEW w \in Workers, Claim(w, m) PROVE TypeOK'
  <2> DEFINE old == IF RetryDue(s) THEN Moved(steps[s], "queued") ELSE steps[s]
             row == Started(old)
  <2>1. old \in Step
    BY <1>1, StatusNames, MovedRow DEF TypeOK
  <2>2. row \in Step /\ row.token \in Nat
    BY <2>1, StartedRow DEF Step
  <2>3. /\ run' = [run EXCEPT !.status = "running"]
        /\ steps' = [steps EXCEPT ![s] = row]
        /\ workers' = [workers EXCEPT ![w] =
             [pc |-> "claimed", step |-> s, token |-> row.token, retriable |-> FALSE]]
        /\ Acknowledge(m) /\ UNCHANGED <<approvals, outbox, versions, deadLetters>>
    BY <1>2 DEF Claim
  <2> HIDE DEF row
  <2>4. run' \in Run
    BY <2>3, TypeFacts, StatusNames, RunField
  <2>5. steps' \in [Steps -> Step]
    BY <2>2, <2>3 DEF TypeOK
  <2>6. workers' \in [Workers -> Worker]
    BY <1>1, <2>2, <2>3 DEF TypeOK, Worker
  <2> QED
    BY <2>3, <2>4, <2>5, <2>6, AcknowledgeType DEF TypeOK
<1>3. CASE DeliveryCancels(m)
  BY <1>3, CancelNowType, AcknowledgeType DEF DeliveryCancels, TypeOK
<1>4. CASE DeliveryRequeuesDeadRun(m)
  <2>1. steps' \in [Steps -> Step]
    BY <1>1, <1>4, MovedRow, StatusNames DEF DeliveryRequeuesDeadRun, TypeOK
  <2> QED
    BY <1>4, <2>1, AcknowledgeType DEF DeliveryRequeuesDeadRun, TypeOK
<1>5. CASE DeliveryIgnored(m)
  BY <1>5 DEF DeliveryIgnored, TypeOK
<1> QED
  BY <1>2, <1>3, <1>4, <1>5 DEF Deliver

\* The wait_* Step that follows a request_*_approval Step is a Step.
LEMMA WaitStep ==
  ASSUME NEW s \in RequestSteps
  PROVE  s \in Steps /\ s + 1 \in Steps /\ s + 1 \in WaitSteps /\ s + 1 # s
<1>1. s \in Steps /\ s + 1 \in WaitSteps
  BY WorkflowAssumption DEF WaitSteps
<1>2. s + 1 \in 2 .. (N - 1) /\ N \in Nat
  BY <1>1, WorkflowAssumption
<1> QED
  BY <1>1, <1>2 DEF Steps

LEMMA CommitEffectsType ==
  ASSUME TypeOK, NEW s \in Steps, CommitEffects(s)
  PROVE  versions' \in [Steps -> Nat]
<1>1. versions[s] \in Nat /\ versions[s] + 1 \in Nat
  BY DEF TypeOK
<1> QED
  BY <1>1 DEF TypeOK, CommitEffects

LEMMA FinishType ==
  ASSUME TypeOK, NEW w \in Workers, Finish(w)
  PROVE  TypeOK'
<1> DEFINE s == workers[w].step
<1>0. workers[w].pc \in {"claimed", "failing"} => s \in Steps /\ steps[s] \in Step
  BY BusyWorker, TypeFacts
<1>1. CASE RequestHighCostApproval(w)
  <2>1. s \in Steps /\ steps[s] \in Step
    BY <1>0, <1>1 DEF RequestHighCostApproval
  <2>2. steps' \in [Steps -> Step]
    BY <1>1, <2>1, ReleasedRow, StatusNames DEF RequestHighCostApproval, TypeOK
  <2>3. run' \in Run
    BY <1>1, TypeFacts, StatusNames, RunField DEF RequestHighCostApproval
  <2>4. approvals' \in [Steps -> ApprovalStatus]
    BY <1>1, <2>1 DEF RequestHighCostApproval, CreateApproval, ApprovalStatus, TypeOK
  <2> QED
    BY <1>1, <2>2, <2>3, <2>4, GoIdleType DEF RequestHighCostApproval, TypeOK
<1>2. CASE CompleteStep(w)
  <2>1. s \in Steps /\ steps[s] \in Step
    BY <1>0, <1>2 DEF CompleteStep, Executing
  <2>2. Released(steps[s], "completed") \in Step
    BY <2>1, ReleasedRow, StatusNames
  <2>3. run' \in Run /\ steps' \in [Steps -> Step] /\ outbox' \in SUBSET Event
    BY <1>2, <2>1, <2>2, QueueAfterType, TypeFacts DEF CompleteStep
  <2>4. versions' \in [Steps -> Nat]
    BY <1>2, <2>1, CommitEffectsType DEF CompleteStep
  <2> QED
    BY <1>2, <2>3, <2>4, GoIdleType DEF CompleteStep, TypeOK
<1>3. CASE CompleteRequestStep(w)
  <2>1. s \in Steps /\ steps[s] \in Step /\ s \in RequestSteps
    BY <1>0, <1>3 DEF CompleteRequestStep, Executing
  <2>2. s + 1 \in Steps /\ s + 1 # s
    BY <2>1, WaitStep
  <2>3. steps' = [steps EXCEPT ![s] = Released(steps[s], "completed"),
                               ![s + 1] = Moved(steps[s + 1], "waiting_for_approval")]
    BY <1>3, <2>1, <2>2 DEF CompleteRequestStep, TypeOK
  <2>4. /\ Released(steps[s], "completed") \in Step
        /\ Moved(steps[s + 1], "waiting_for_approval") \in Step
    BY <2>1, <2>2, ReleasedRow, MovedRow, StatusNames, TypeFacts
  <2>5. steps' \in [Steps -> Step]
    BY <2>3, <2>4 DEF TypeOK
  <2>6. run' \in Run
    BY <1>3, TypeFacts, StatusNames, RunField DEF CompleteRequestStep
  <2>7. approvals' \in [Steps -> ApprovalStatus]
    BY <1>3, <2>2 DEF CompleteRequestStep, CreateApproval, ApprovalStatus, TypeOK
  <2> QED
    BY <1>3, <2>5, <2>6, <2>7, GoIdleType DEF CompleteRequestStep, TypeOK
<1>4. CASE CompletionCancels(w)
  <2>1. versions' \in [Steps -> Nat]
    BY <1>0, <1>4, CommitEffectsType DEF CompletionCancels, Executing
  <2> QED
    BY <1>4, <2>1, CancelNowType, GoIdleType DEF CompletionCancels, TypeOK
<1>5. CASE CompletionRefused(w)
  <2>1. versions' \in [Steps -> Nat]
    BY <1>0, <1>5, CommitEffectsType DEF CompletionRefused, TypeOK
  <2> QED
    BY <1>5, <2>1, GoIdleType DEF CompletionRefused, TypeOK
<1>6. CASE ExecutionRaises(w)
  <2>1. PICK b \in BOOLEAN :
          workers' = [workers EXCEPT ![w].pc = "failing", ![w].retriable = b]
    BY <1>6 DEF ExecutionRaises
  <2>2. [workers[w] EXCEPT !.pc = "failing", !.retriable = b] \in Worker
    BY <1>6, BusyWorker, FailingWorker DEF ExecutionRaises
  <2>3. workers' = [workers EXCEPT ![w] = [workers[w] EXCEPT !.pc = "failing", !.retriable = b]]
    BY <2>1 DEF TypeOK
  <2>4. workers' \in [Workers -> Worker]
    BY <2>2, <2>3 DEF TypeOK
  <2> QED
    BY <1>6, <2>4 DEF ExecutionRaises, TypeOK
<1>7. CASE FailStepForRetry(w)
  <2>1. s \in Steps /\ steps[s] \in Step
    BY <1>0, <1>7 DEF FailStepForRetry
  <2>2. steps' \in [Steps -> Step]
    BY <1>7, <2>1, ReleasedRow, StatusNames DEF FailStepForRetry, TypeOK
  <2>3. run' \in Run
    BY <1>7, TypeFacts, StatusNames, RunFields DEF FailStepForRetry
  <2>4. outbox' \in SUBSET Event
    <3>1. outbox' = Enqueue(steps', s, FALSE)
      BY <1>7 DEF FailStepForRetry
    <3>2. outbox \in SUBSET Event
      BY DEF TypeOK
    <3> QED
      BY <2>1, <2>2, <3>1, <3>2, EnqueueAdds
  <2> QED
    BY <1>7, <2>2, <2>3, <2>4, GoIdleType DEF FailStepForRetry, TypeOK
<1>8. CASE FailStepForGood(w)
  <2>1. s \in Steps /\ steps[s] \in Step
    BY <1>0, <1>8 DEF FailStepForGood
  <2>2. steps' \in [Steps -> Step]
    BY <1>8, <2>1, ReleasedRow, StatusNames DEF FailStepForGood, TypeOK
  <2>3. run' \in Run
    <3> DEFINE target == IF workers[w].retriable THEN "dead_letter" ELSE "failed"
    <3>1. target \in RunStatus
      BY StatusNames
    <3>2. run' = [run EXCEPT !.rejected = FALSE, !.status = target]
      BY <1>8 DEF FailStepForGood
    <3> HIDE DEF target
    <3> QED
      BY <3>1, <3>2, TypeFacts, RunFields
  <2>4. deadLetters' \in SUBSET DeadLetter
    BY <1>8, <2>1 DEF FailStepForGood, TypeOK, DeadLetter
  <2> QED
    BY <1>8, <2>2, <2>3, <2>4, GoIdleType DEF FailStepForGood, TypeOK
<1>9. CASE FailureDropped(w)
  BY <1>9, GoIdleType DEF FailureDropped, TypeOK
<1> QED
  BY <1>1, <1>2, <1>3, <1>4, <1>5, <1>6, <1>7, <1>8, <1>9 DEF Finish

\* A Step that is queued again and enqueued: restart, resume, recovery, approval
LEMMA RequeueType ==
  ASSUME TypeOK, NEW s \in Steps, NEW row \in Step,
         steps' = [steps EXCEPT ![s] = row], outbox' = Enqueue(steps', s, TRUE)
  PROVE  steps' \in [Steps -> Step] /\ outbox' \in SUBSET Event
<1>1. steps' \in [Steps -> Step]
  BY DEF TypeOK
<1> QED
  BY <1>1, EnqueueAdds DEF TypeOK

LEMMA UserType ==
  ASSUME TypeOK, User
  PROVE  TypeOK'
<1>1. CASE Cancel
  <2>1. CASE run.status = "running"
    <3>1. run' \in Run
      BY <1>1, <2>1, TypeFacts, RunField DEF Cancel
    <3> QED
      BY <1>1, <2>1, <3>1 DEF Cancel, TypeOK
  <2>2. CASE run.status # "running"
    BY <1>1, <2>2, CancelNowType DEF Cancel, TypeOK
  <2> QED
    BY <2>1, <2>2
<1>2. CASE ResumeCancels
  BY <1>2, CancelNowType DEF ResumeCancels, TypeOK
<1>3. ASSUME NEW s \in Steps, RestartFailed(s) \/ ResumeRetryNow(s) PROVE TypeOK'
  <2>1. Moved(steps[s], "queued") \in Step
    BY MovedRow, StatusNames, TypeFacts
  <2>2. steps' \in [Steps -> Step] /\ outbox' \in SUBSET Event
    BY <1>3, <2>1, RequeueType DEF RestartFailed, ResumeRetryNow
  <2>3. run.attempt + 1 \in Nat
    BY TypeFacts
  <2>4. CASE RestartFailed(s)
    <3>1. run' = [run EXCEPT !.status = "queued", !.attempt = run.attempt + 1, !.retryWait = FALSE]
      BY <2>4 DEF RestartFailed
    <3>2. run' \in Run
      BY <2>3, <3>1, TypeFacts, StatusNames, RunFields
    <3> QED
      BY <2>2, <2>4, <3>2 DEF RestartFailed, TypeOK
  <2>5. CASE ResumeRetryNow(s)
    <3>1. run' \in Run
      BY <2>5, TypeFacts, StatusNames, RunFields DEF ResumeRetryNow
    <3> QED
      BY <2>2, <2>5, <3>1 DEF ResumeRetryNow, TypeOK
  <2> QED
    BY <1>3, <2>4, <2>5
<1>4. ASSUME NEW s \in Steps, ApproveHighCost(s) PROVE TypeOK'
  <2>1. Moved(steps[s], "queued") \in Step
    BY MovedRow, StatusNames, TypeFacts
  <2>2. steps' \in [Steps -> Step] /\ outbox' \in SUBSET Event
    BY <1>4, <2>1, RequeueType DEF ApproveHighCost
  <2>3. run' \in Run
    BY <1>4, TypeFacts, StatusNames, RunField DEF ApproveHighCost
  <2>4. approvals' \in [Steps -> ApprovalStatus]
    BY <1>4 DEF ApproveHighCost, TypeOK, ApprovalStatus
  <2> QED
    BY <1>4, <2>2, <2>3, <2>4 DEF ApproveHighCost, TypeOK
<1>5. ASSUME NEW s \in Steps, ApproveMaterial(s) PROVE TypeOK'
  <2>1. Moved(steps[s], "completed") \in Step
    BY MovedRow, StatusNames, TypeFacts
  <2>2. run' \in Run /\ steps' \in [Steps -> Step] /\ outbox' \in SUBSET Event
    BY <1>5, <2>1, QueueAfterType, StatusNames DEF ApproveMaterial
  <2>3. approvals' \in [Steps -> ApprovalStatus]
    BY <1>5 DEF ApproveMaterial, TypeOK, ApprovalStatus
  <2> QED
    BY <1>5, <2>2, <2>3 DEF ApproveMaterial, TypeOK
<1>6. ASSUME NEW s \in Steps, NEW verdict \in {"rejected", "expired"}, DecisionFails(s, verdict)
      PROVE TypeOK'
  <2>1. Moved(steps[s], "failed") \in Step
    BY MovedRow, StatusNames, TypeFacts
  <2>2. steps' \in [Steps -> Step]
    BY <1>6, <2>1 DEF DecisionFails, TypeOK
  <2>3. run' \in Run
    <3>1. (run.rejected \/ verdict = "rejected") \in BOOLEAN
      BY TypeFacts
    <3> QED
      BY <1>6, <3>1, TypeFacts, StatusNames, RunFields DEF DecisionFails
  <2>4. approvals' \in [Steps -> ApprovalStatus]
    BY <1>6 DEF DecisionFails, TypeOK, ApprovalStatus
  <2> QED
    BY <1>6, <2>2, <2>3, <2>4 DEF DecisionFails, TypeOK
<1> QED
  BY <1>1, <1>2, <1>3, <1>4, <1>5, <1>6 DEF User

\* The dispatcher replaces one event by an updated one.
LEMMA ReplaceType ==
  ASSUME TypeOK, NEW e \in outbox, NEW f \in Event, outbox' = Replace(e, f)
  PROVE  outbox' \in SUBSET Event
BY DEF TypeOK, Replace

LEMMA DispatcherType ==
  ASSUME TypeOK, NEW e \in outbox,
         Dispatch(e) \/ PublishFails(e) \/ PublishInterrupted(e) \/ EventAvailable(e)
  PROVE  TypeOK'
<1>1. e \in Event /\ e.tries \in 0 .. PublishLimit /\ MessageOf(e) \in Message
  BY DEF TypeOK, Event, MessageOf, Message
<1>2. CASE MarkPublishing(e)
  <2> DEFINE n == IF e.tries < PublishLimit THEN e.tries + 1 ELSE e.tries
  <2>1. n \in 0 .. PublishLimit
    BY <1>1, LimitAssumption
  <2>2. outbox' = Replace(e, [e EXCEPT !.status = "publishing", !.locked = TRUE, !.tries = n])
    BY <1>2 DEF MarkPublishing
  <2> HIDE DEF n
  <2>3. outbox' \in SUBSET Event
    BY <1>1, <2>1, <2>2, EventFields, ReplaceType
  <2> QED
    BY <1>2, <2>3 DEF MarkPublishing, TypeOK
<1>3. CASE Publish(e)
  <2>1. outbox' \in SUBSET Event
    BY <1>1, <1>3, EventFields, ReplaceType DEF Publish
  <2> QED
    BY <1>1, <1>3, <2>1 DEF Publish, TypeOK
<1>4. CASE RecoverStalePublication(e)
  <2>1. outbox' \in SUBSET Event
    BY <1>1, <1>4, EventField, ReplaceType DEF RecoverStalePublication
  <2> QED
    BY <1>4, <2>1 DEF RecoverStalePublication, TypeOK
<1>5. CASE RecoverOrphan(e)
  <2>1. outbox' \in SUBSET Event
    BY <1>1, <1>5, EventField, ReplaceType DEF RecoverOrphan
  <2> QED
    BY <1>5, <2>1 DEF RecoverOrphan, TypeOK
<1>6. CASE PublishFails(e)
  <2>1. queue' \in SUBSET Message /\ faults' \in 0 .. MaxFaults
    BY <1>1, <1>6, FaultType DEF PublishFails, MaybeSent, TypeOK
  <2>2. CASE e.tries < PublishLimit
    <3>1. outbox' \in SUBSET Event
      BY <1>1, <1>6, <2>2, EventFields, ReplaceType DEF PublishFails
    <3> QED
      BY <1>6, <2>1, <2>2, <3>1 DEF PublishFails, TypeOK
  <2>3. CASE ~(e.tries < PublishLimit)
    <3>1. outbox' \in SUBSET Event
      BY <1>1, <1>6, <2>3, EventFields, ReplaceType DEF PublishFails
    <3>2. run' \in Run
      BY <1>6, <2>3, TypeFacts, StatusNames, RunField DEF PublishFails
    <3>3. deadLetters' \in SUBSET DeadLetter
      BY <1>6, <2>3, TypeFacts DEF PublishFails, TypeOK, DeadLetter
    <3> QED
      BY <1>6, <2>1, <3>1, <3>2, <3>3 DEF PublishFails, TypeOK
  <2> QED
    BY <2>2, <2>3
<1>7. CASE PublishInterrupted(e)
  <2>1. queue' \in SUBSET Message /\ faults' \in 0 .. MaxFaults
    BY <1>1, <1>7, FaultType DEF PublishInterrupted, MaybeSent, TypeOK
  <2>2. outbox' \in SUBSET Event
    BY <1>1, <1>7, EventField, ReplaceType DEF PublishInterrupted
  <2> QED
    BY <1>7, <2>1, <2>2 DEF PublishInterrupted, TypeOK
<1>8. CASE EventAvailable(e)
  <2>1. outbox' \in SUBSET Event
    BY <1>1, <1>8, EventField, ReplaceType DEF EventAvailable
  <2> QED
    BY <1>8, <2>1 DEF EventAvailable, TypeOK
<1> QED
  BY <1>2, <1>3, <1>4, <1>5, <1>6, <1>7, <1>8 DEF Dispatch

LEMMA MaintenanceType ==
  ASSUME TypeOK, NEW s \in Steps, RecoverExpired(s) \/ RecoveryCancels(s) \/ LeaseExpires(s)
  PROVE  TypeOK'
<1>1. CASE RecoverExpired(s)
  <2>1. Moved(Moved(steps[s], "retry_scheduled"), "queued") \in Step
    BY MovedRow, StatusNames, TypeFacts
  <2>2. steps' \in [Steps -> Step] /\ outbox' \in SUBSET Event
    BY <1>1, <2>1, RequeueType DEF RecoverExpired
  <2>3. run' \in Run
    BY <1>1, TypeFacts, StatusNames, RunFields DEF RecoverExpired
  <2> QED
    BY <1>1, <2>2, <2>3 DEF RecoverExpired, TypeOK
<1>2. CASE RecoveryCancels(s)
  BY <1>2, CancelNowType DEF RecoveryCancels, TypeOK
<1>3. CASE LeaseExpires(s)
  <2>1. [steps[s] EXCEPT !.lease = "expired"] \in Step
    BY TypeFacts, StatusNames, StepField
  <2>2. steps' \in [Steps -> Step]
    BY <1>3, <2>1 DEF LeaseExpires, TypeOK
  <2>3. faults' \in 0 .. MaxFaults
    BY <1>3, FaultType DEF LeaseExpires
  <2> QED
    BY <1>3, <2>2, <2>3 DEF LeaseExpires, TypeOK
<1> QED
  BY <1>1, <1>2, <1>3

LEMMA RestType ==
  ASSUME TypeOK,
         \/ \E m \in queue : MessageLost(m)
         \/ \E w \in Workers : WorkerCrashes(w)
         \/ RetryDelayElapses
         \/ UNCHANGED vars
  PROVE  TypeOK'
<1>1. ASSUME NEW m \in queue, MessageLost(m) PROVE TypeOK'
  BY <1>1, FaultType DEF MessageLost, TypeOK
<1>2. ASSUME NEW w \in Workers, WorkerCrashes(w) PROVE TypeOK'
  BY <1>2, FaultType, GoIdleType DEF WorkerCrashes, TypeOK
<1>3. CASE RetryDelayElapses
  <2>1. run' \in Run
    BY <1>3, TypeFacts, StatusNames, RunField DEF RetryDelayElapses
  <2> QED
    BY <1>3, <2>1 DEF RetryDelayElapses, TypeOK
<1>4. CASE UNCHANGED vars
  BY <1>4 DEF vars, TypeOK
<1> QED
  BY <1>1, <1>2, <1>3, <1>4

LEMMA InitType == ASSUME Init PROVE TypeOK
<1>1. 1 \in Steps
  BY WorkflowAssumption DEF Steps
<1>2. run \in Run
  BY DEF Init, Run, RunStatus
<1>3. steps \in [Steps -> Step]
  BY DEF Init, Step, StepStatus
<1>4. outbox \in SUBSET Event
  BY <1>1, LimitAssumption DEF Init, Event
<1>5. workers \in [Workers -> Worker]
  BY DEF Init, Worker
<1> QED
  BY <1>2, <1>3, <1>4, <1>5, LimitAssumption DEF Init, TypeOK, ApprovalStatus

\* Every transaction of every actor keeps the rows, messages and workers
\* well-formed.
LEMMA NextType == ASSUME TypeOK, [Next]_vars PROVE TypeOK'
BY DeliverType, FinishType, UserType, DispatcherType, MaintenanceType, RestType DEF Next

\* In every reachable state each row has its type: no transaction stores a status
\* its table does not know or an event without a Step (db/models.py).
THEOREM TypeCorrect == Spec => []TypeOK
<1>1. Init => TypeOK
  BY InitType
<1>2. TypeOK /\ [Next]_vars => TypeOK'
  BY NextType
<1> QED
  BY <1>1, <1>2, PTL DEF Spec

-----------------------------------------------------------------------------
(* What the transactions do to the statuses.  The invariants about statuses  *)
(* and approvals are proved from these ten effects; TransactionEffect      *)
(* shows that no action does anything else.                                   *)

StatusOf(s) == steps[s].status

Becomes(s, target) ==
  \A t \in Steps : steps'[t].status = IF t = s THEN target ELSE StatusOf(t)

BecomeBoth(s, target, nextTarget) ==
  \A t \in Steps : steps'[t].status =
    IF t = s THEN target ELSE IF t = s + 1 THEN nextTarget ELSE StatusOf(t)

NoChange ==
  /\ \A t \in Steps : steps'[t].status = StatusOf(t)
  /\ UNCHANGED approvals
  /\ \/ run'.status = run.status
     \/ /\ run.status \in {"queued", "running", "retry_scheduled", "failed"}
        /\ run'.status = "dead_letter"

Starts(s) ==
  /\ StatusOf(s) \in {"queued", "retry_scheduled"}
  /\ run.status \in {"queued", "running", "retry_scheduled"}
  /\ Becomes(s, "running") /\ run'.status = "running"
  /\ UNCHANGED approvals

Requeues(s) ==
  /\ \/ StatusOf(s) = "retry_scheduled" /\ run.status = "dead_letter" /\ run'.status = "dead_letter"
     \/ /\ StatusOf(s) \in {"retry_scheduled", "failed", "running"} /\ run.status = StatusOf(s)
        /\ run'.status = "queued"
  /\ s \notin WaitSteps \/ StatusOf(s) # "failed"
  /\ Becomes(s, "queued") /\ UNCHANGED approvals

Completes(s, onward) ==
  \/ /\ s = N /\ RunMay(onward, "completed")
     /\ Becomes(s, "completed") /\ run'.status = "completed"
  \/ /\ s # N /\ StepMay(StatusOf(s + 1), "queued")
     /\ BecomeBoth(s, "completed", "queued") /\ run'.status = onward

CompletesExecution(s) ==
  /\ StatusOf(s) = "running" /\ s \notin RequestSteps
  /\ s \in HighCost => approvals[s] = "approved"
  /\ Completes(s, run.status) /\ UNCHANGED approvals

Opens(s) == approvals' = [approvals EXCEPT ![s] = IF @ = "none" THEN "pending" ELSE @]

AsksForGate(s) ==
  /\ StatusOf(s) = "running" /\ s \in RequestSteps
  /\ StepMay(StatusOf(s + 1), "waiting_for_approval")
  /\ RunMay(run.status, "waiting_for_approval")
  /\ BecomeBoth(s, "completed", "waiting_for_approval") /\ run'.status = "waiting_for_approval"
  /\ Opens(s + 1)

AsksForCost(s) ==
  /\ StatusOf(s) = "running" /\ s \in HighCost
  /\ RunMay(run.status, "waiting_for_approval")
  /\ Becomes(s, "waiting_for_approval") /\ run'.status = "waiting_for_approval"
  /\ Opens(s)

FailsExecution(s) ==
  /\ StatusOf(s) = "running" /\ RunMay(run.status, "failed")
  /\ \/ Becomes(s, "retry_scheduled") /\ run'.status = "retry_scheduled"
     \/ Becomes(s, "failed") /\ run'.status \in {"failed", "dead_letter"}
  /\ UNCHANGED approvals

Grants(s) ==
  /\ StatusOf(s) = "waiting_for_approval" /\ approvals[s] = "pending"
  /\ RunMay(run.status, "queued")
  /\ approvals' = [approvals EXCEPT ![s] = "approved"]
  /\ \/ s \in ModelSteps /\ Becomes(s, "queued") /\ run'.status = "queued"
     \/ s \in WaitSteps /\ Completes(s, "queued")

Refuses(s) ==
  /\ StatusOf(s) = "waiting_for_approval" /\ approvals[s] = "pending"
  /\ RunMay(run.status, "failed")
  /\ approvals' \in [Steps -> ApprovalStatus]
  /\ \A t \in Steps : t # s => approvals'[t] = approvals[t]
  /\ approvals'[s] \in {"rejected", "expired"}
  /\ Becomes(s, "failed") /\ run'.status = "failed"

CancelsAll ==
  /\ RunMay(run.status, "cancelled")
  /\ \A t \in Steps : steps'[t].status =
       IF StatusOf(t) \in SettledStep THEN StatusOf(t) ELSE "cancelled"
  /\ run'.status = "cancelled"
  /\ approvals' = [t \in Steps |-> IF approvals[t] = "pending" THEN "cancelled" ELSE approvals[t]]

Effect ==
  \/ NoChange \/ CancelsAll
  \/ \E s \in Steps :
       \/ Starts(s) \/ Requeues(s) \/ CompletesExecution(s) \/ AsksForGate(s)
       \/ AsksForCost(s) \/ FailsExecution(s) \/ Grants(s) \/ Refuses(s)

LEMMA SetRow ==
  ASSUME TypeOK, NEW s \in Steps, NEW row, steps' = [steps EXCEPT ![s] = row]
  PROVE  Becomes(s, row.status)
BY DEF TypeOK, Becomes, StatusOf

LEMMA MovesTo ==
  ASSUME TypeOK, NEW s \in Steps, NEW target \in StepStatus,
         steps' = [steps EXCEPT ![s] = Moved(@, target)]
  PROVE  Becomes(s, target)
<1>1. steps[s] \in Step
  BY TypeFacts
<1>2. Moved(steps[s], target).status = target
  BY <1>1, MovedRow
<1> QED
  BY <1>2, SetRow

LEMMA ReleasesTo ==
  ASSUME TypeOK, NEW s \in Steps, NEW target \in StepStatus,
         steps' = [steps EXCEPT ![s] = Released(@, target)]
  PROVE  Becomes(s, target)
<1>1. steps[s] \in Step
  BY TypeFacts
<1>2. Released(steps[s], target).status = target
  BY <1>1, ReleasedRow
<1> QED
  BY <1>2, SetRow

LEMMA RunStatusField ==
  ASSUME TypeOK, NEW onward, NEW b, NEW c, NEW n
  PROVE  /\ [run EXCEPT !.status = onward].status = onward
         /\ [run EXCEPT !.cancelReq = b].status = run.status
         /\ [run EXCEPT !.retryWait = b].status = run.status
         /\ [run EXCEPT !.status = onward, !.cancelReq = b].status = onward
         /\ [run EXCEPT !.status = onward, !.retryWait = b].status = onward
         /\ [run EXCEPT !.status = onward, !.rejected = b].status = onward
         /\ [run EXCEPT !.rejected = b, !.status = onward].status = onward
         /\ [run EXCEPT !.status = onward, !.rejected = c, !.retryWait = b].status = onward
         /\ [run EXCEPT !.status = onward, !.attempt = n, !.retryWait = b].status = onward
BY DEF TypeOK, Run

LEMMA QueueAfterEffect ==
  ASSUME TypeOK, NEW s \in Steps, NEW done \in Step, done.status = "completed",
         NEW onward \in RunStatus, QueueAfter(s, done, onward)
  PROVE  Completes(s, onward)
<1>1. CASE s = N
  <2>1. /\ steps' = [steps EXCEPT ![s] = done] /\ run' = [run EXCEPT !.status = "completed"]
        /\ RunMay(onward, "completed")
    BY <1>1 DEF QueueAfter
  <2>2. Becomes(s, "completed")
    BY <2>1, SetRow
  <2> QED
    BY <1>1, <2>1, <2>2, RunStatusField DEF Completes
<1>2. CASE s # N
  <2>1. s + 1 \in Steps /\ s + 1 # s
    BY <1>2, WorkflowAssumption DEF Steps
  <2>2. /\ steps' = [steps EXCEPT ![s] = done, ![s + 1] = Moved(steps[s + 1], "queued")]
        /\ run' = [run EXCEPT !.status = onward]
    BY <1>2, QueueAfterNext
  <2>3. Moved(steps[s + 1], "queued").status = "queued"
    BY <2>1, MovedRow, StatusNames, TypeFacts
  <2>4. BecomeBoth(s, "completed", "queued")
    BY <2>1, <2>2, <2>3 DEF TypeOK, BecomeBoth, StatusOf
  <2> QED
    BY <1>2, <2>1, <2>4, RunStatusField DEF QueueAfter, Completes, StatusOf
<1> QED
  BY <1>1, <1>2

LEMMA CancelNowEffect ==
  ASSUME TypeOK, CancelNow
  PROVE  CancelsAll
<1>1. \A t \in Steps : Moved(steps[t], "cancelled").status = "cancelled"
  BY MovedRow, StatusNames, TypeFacts
<1>2. \A t \in Steps : steps'[t].status =
        IF StatusOf(t) \in SettledStep THEN StatusOf(t) ELSE "cancelled"
  BY <1>1 DEF CancelNow, StatusOf
<1>3. run'.status = "cancelled"
  BY RunStatusField DEF CancelNow
<1> QED
  BY <1>2, <1>3 DEF CancelNow, CancelsAll

LEMMA DeliverEffect ==
  ASSUME TypeOK, NEW m \in queue, Deliver(m)
  PROVE  Effect
<1> DEFINE s == m.step
<1>0. s \in Steps /\ steps[s] \in Step
  BY TypeFacts
<1>1. ASSUME NEW w \in Workers, Claim(w, m) PROVE Starts(s)
  <2> DEFINE old == IF RetryDue(s) THEN Moved(steps[s], "queued") ELSE steps[s]
             row == Started(old)
  <2>1. old \in Step
    BY <1>0, StatusNames, MovedRow
  <2>2. row.status = "running"
    BY <2>1, StartedRow
  <2>3. /\ run' = [run EXCEPT !.status = "running"] /\ steps' = [steps EXCEPT ![s] = row]
        /\ UNCHANGED approvals
        /\ StatusOf(s) \in {"queued", "retry_scheduled"}
        /\ run.status \in {"queued", "running", "retry_scheduled"}
    BY <1>1 DEF Claim, Claimable, RetryDue, StatusOf
  <2> HIDE DEF row
  <2>4. Becomes(s, "running")
    BY <1>0, <2>2, <2>3, SetRow
  <2> QED
    BY <2>3, <2>4, RunStatusField DEF Starts
<1>2. CASE DeliveryCancels(m)
  BY <1>2, CancelNowEffect DEF DeliveryCancels, Effect
<1>3. CASE DeliveryRequeuesDeadRun(m)
  <2>1. Becomes(s, "queued")
    BY <1>0, <1>3, MovesTo, StatusNames DEF DeliveryRequeuesDeadRun
  <2>2. Requeues(s)
    BY <1>3, <2>1 DEF DeliveryRequeuesDeadRun, RequeuesOnly, RetryDue, Requeues, StatusOf
  <2> QED
    BY <1>0, <2>2 DEF Effect
<1>4. CASE DeliveryIgnored(m)
  BY <1>4 DEF DeliveryIgnored, Effect, NoChange, StatusOf
<1> QED
  BY <1>0, <1>1, <1>2, <1>3, <1>4 DEF Deliver, Effect

LEMMA FinishEffect ==
  ASSUME TypeOK, NEW w \in Workers, Finish(w)
  PROVE  Effect
<1> DEFINE s == workers[w].step
<1>0. workers[w].pc \in {"claimed", "failing"} => s \in Steps /\ steps[s] \in Step
  BY BusyWorker, TypeFacts
<1>1. CASE RequestHighCostApproval(w)
  <2>1. s \in Steps /\ steps[s] \in Step
    BY <1>0, <1>1 DEF RequestHighCostApproval
  <2>2. Becomes(s, "waiting_for_approval")
    BY <1>1, <2>1, ReleasesTo, StatusNames DEF RequestHighCostApproval
  <2>3. AsksForCost(s)
    BY <1>1, <2>2, RunStatusField
    DEF RequestHighCostApproval, AsksForCost, Owns, NeedsHighCostApproval, CreateApproval,
        Opens, StatusOf
  <2> QED
    BY <2>1, <2>3 DEF Effect
<1>2. CASE CompleteStep(w)
  <2>1. s \in Steps /\ steps[s] \in Step
    BY <1>0, <1>2 DEF CompleteStep, Executing
  <2>2. /\ Released(steps[s], "completed") \in Step
        /\ Released(steps[s], "completed").status = "completed"
    BY <2>1, ReleasedRow, StatusNames
  <2>3. Completes(s, run.status)
    BY <1>2, <2>1, <2>2, QueueAfterEffect, TypeFacts DEF CompleteStep
  <2>4. CompletesExecution(s)
    BY <1>2, <2>3
    DEF CompleteStep, Executing, Owns, NeedsHighCostApproval, CompletesExecution, StatusOf
  <2> QED
    BY <2>1, <2>4 DEF Effect
<1>3. CASE CompleteRequestStep(w)
  <2>1. s \in Steps /\ steps[s] \in Step /\ s \in RequestSteps
    BY <1>0, <1>3 DEF CompleteRequestStep, Executing
  <2>2. s + 1 \in Steps /\ s + 1 # s
    BY <2>1, WaitStep
  <2>3. steps' = [steps EXCEPT ![s] = Released(steps[s], "completed"),
                               ![s + 1] = Moved(steps[s + 1], "waiting_for_approval")]
    BY <1>3, <2>1, <2>2 DEF CompleteRequestStep, TypeOK
  <2>4. /\ Released(steps[s], "completed").status = "completed"
        /\ Moved(steps[s + 1], "waiting_for_approval").status = "waiting_for_approval"
    <3>1. /\ steps[s] \in Step /\ steps[s + 1] \in Step
          /\ "completed" \in StepStatus /\ "waiting_for_approval" \in StepStatus
      BY <2>1, <2>2, StatusNames, TypeFacts
    <3>2. Released(steps[s], "completed").status = "completed"
      BY <3>1, ReleasedRow
    <3>3. Moved(steps[s + 1], "waiting_for_approval").status = "waiting_for_approval"
      BY <3>1, MovedRow
    <3> QED
      BY <3>2, <3>3
  <2>5. BecomeBoth(s, "completed", "waiting_for_approval")
    BY <2>2, <2>3, <2>4 DEF TypeOK, BecomeBoth, StatusOf
  <2>6. AsksForGate(s)
    BY <1>3, <2>1, <2>5, RunStatusField
    DEF CompleteRequestStep, AsksForGate, Owns, CreateApproval, Opens, StatusOf
  <2> QED
    BY <2>1, <2>6 DEF Effect
<1>4. CASE CompletionCancels(w)
  BY <1>4, CancelNowEffect DEF CompletionCancels, Effect
<1>5. CASE CompletionRefused(w) \/ ExecutionRaises(w) \/ FailureDropped(w)
  BY <1>5 DEF CompletionRefused, ExecutionRaises, FailureDropped, Effect, NoChange, StatusOf
<1>6. CASE FailStepForRetry(w)
  <2>1. s \in Steps /\ steps[s] \in Step
    BY <1>0, <1>6 DEF FailStepForRetry
  <2>2. Becomes(s, "retry_scheduled")
    BY <1>6, <2>1, ReleasesTo, StatusNames DEF FailStepForRetry
  <2>3. run'.status = "retry_scheduled"
    BY <1>6, RunStatusField DEF FailStepForRetry
  <2>4. RunMay(run.status, "retry_scheduled") => RunMay(run.status, "failed")
    BY TypeFacts DEF RunMay, RunTransitions, RunStatus
  <2>5. FailsExecution(s)
    BY <1>6, <2>2, <2>3, <2>4 DEF FailStepForRetry, FailsExecution, Owns, StatusOf
  <2> QED
    BY <2>1, <2>5 DEF Effect
<1>7. CASE FailStepForGood(w)
  <2>1. s \in Steps /\ steps[s] \in Step
    BY <1>0, <1>7 DEF FailStepForGood
  <2>2. Becomes(s, "failed")
    BY <1>7, <2>1, ReleasesTo, StatusNames DEF FailStepForGood
  <2>3. run'.status \in {"failed", "dead_letter"}
    BY <1>7, RunStatusField DEF FailStepForGood
  <2>4. FailsExecution(s)
    BY <1>7, <2>2, <2>3 DEF FailStepForGood, FailsExecution, Owns, StatusOf
  <2> QED
    BY <2>1, <2>4 DEF Effect
<1> QED
  BY <1>1, <1>2, <1>3, <1>4, <1>5, <1>6, <1>7 DEF Finish

LEMMA UserEffect ==
  ASSUME TypeOK, User
  PROVE  Effect
<1>0. \A s \in Steps : steps[s] \in Step
  BY TypeFacts
<1>1. CASE Cancel
  <2>1. CASE run.status = "running"
    <3>1. run' = [run EXCEPT !.cancelReq = TRUE] /\ UNCHANGED <<steps, approvals>>
      BY <1>1, <2>1 DEF Cancel
    <3>2. NoChange
      BY <3>1, RunStatusField DEF NoChange, StatusOf
    <3> QED
      BY <3>2 DEF Effect
  <2>2. CASE run.status # "running"
    BY <1>1, <2>2, CancelNowEffect DEF Cancel, Effect
  <2> QED
    BY <2>1, <2>2
<1>2. CASE ResumeCancels
  BY <1>2, CancelNowEffect DEF ResumeCancels, Effect
<1>3. ASSUME NEW s \in Steps, RestartFailed(s) \/ ResumeRetryNow(s) PROVE Requeues(s)
  <2>1. /\ steps' = [steps EXCEPT ![s] = Moved(@, "queued")]
        /\ \/ run' = [run EXCEPT !.status = "queued", !.retryWait = FALSE]
           \/ run' = [run EXCEPT !.status = "queued", !.attempt = @ + 1, !.retryWait = FALSE]
    BY <1>3 DEF RestartFailed, ResumeRetryNow
  <2>2. Becomes(s, "queued")
    BY <2>1, MovesTo, StatusNames
  <2>3. run'.status = "queued"
    <3>1. CASE run' = [run EXCEPT !.status = "queued", !.retryWait = FALSE]
      BY <3>1, RunStatusField
    <3>2. CASE run' = [run EXCEPT !.status = "queued", !.attempt = @ + 1, !.retryWait = FALSE]
      BY <3>2, TypeFacts DEF Run
    <3> QED
      BY <2>1, <3>1, <3>2
  <2> QED
    BY <1>3, <2>2, <2>3 DEF RestartFailed, ResumeRetryNow, Requeues, StatusOf
<1>4. ASSUME NEW s \in Steps, ApproveHighCost(s) PROVE Grants(s)
  <2>1. Becomes(s, "queued")
    BY <1>0, <1>4, MovesTo, StatusNames DEF ApproveHighCost
  <2> QED
    BY <1>4, <2>1, RunStatusField DEF ApproveHighCost, Deciding, Grants, StatusOf
<1>5. ASSUME NEW s \in Steps, ApproveMaterial(s) PROVE Grants(s)
  <2>1. /\ Moved(steps[s], "completed") \in Step
        /\ Moved(steps[s], "completed").status = "completed"
    BY <1>0, MovedRow, StatusNames
  <2>2. Completes(s, "queued")
    BY <1>5, <2>1, QueueAfterEffect, StatusNames DEF ApproveMaterial
  <2> QED
    BY <1>5, <2>2 DEF ApproveMaterial, Deciding, Grants, StatusOf
<1>6. ASSUME NEW s \in Steps, NEW verdict \in {"rejected", "expired"}, DecisionFails(s, verdict)
      PROVE Refuses(s)
  <2>1. Becomes(s, "failed")
    BY <1>0, <1>6, MovesTo, StatusNames DEF DecisionFails
  <2>2. run'.status = "failed"
    BY <1>6, RunStatusField DEF DecisionFails
  <2>3. /\ approvals' \in [Steps -> ApprovalStatus] /\ approvals'[s] = verdict
        /\ \A t \in Steps : t # s => approvals'[t] = approvals[t]
    BY <1>6 DEF DecisionFails, TypeOK, ApprovalStatus
  <2> QED
    BY <1>6, <2>1, <2>2, <2>3 DEF DecisionFails, Deciding, Refuses, StatusOf
<1> QED
  BY <1>1, <1>2, <1>3, <1>4, <1>5, <1>6 DEF User, Effect

LEMMA MachineryEffect ==
  ASSUME TypeOK,
         \/ \E e \in outbox :
              Dispatch(e) \/ PublishFails(e) \/ PublishInterrupted(e) \/ EventAvailable(e)
         \/ \E s \in Steps : RecoverExpired(s) \/ RecoveryCancels(s) \/ LeaseExpires(s)
         \/ \E m \in queue : MessageLost(m)
         \/ \E w \in Workers : WorkerCrashes(w)
         \/ RetryDelayElapses
         \/ UNCHANGED vars
  PROVE  Effect
<1>1. ASSUME NEW e \in outbox, Dispatch(e) \/ PublishInterrupted(e) \/ EventAvailable(e)
      PROVE NoChange
  <2>1. UNCHANGED <<run, steps, approvals>>
    <3>1. CASE MarkPublishing(e) \/ Publish(e)
      BY <3>1 DEF MarkPublishing, Publish
    <3>2. CASE RecoverStalePublication(e) \/ RecoverOrphan(e)
      BY <3>2 DEF RecoverStalePublication, RecoverOrphan
    <3>3. CASE PublishInterrupted(e) \/ EventAvailable(e)
      BY <3>3 DEF PublishInterrupted, EventAvailable
    <3> QED
      BY <1>1, <3>1, <3>2, <3>3 DEF Dispatch
  <2> QED
    BY <2>1 DEF NoChange, StatusOf
<1>2. ASSUME NEW e \in outbox, PublishFails(e) PROVE NoChange
  <2>1. run' = run \/ /\ run.status \in {"queued", "running", "retry_scheduled", "failed"}
                      /\ run' = [run EXCEPT !.status = "dead_letter"]
    BY <1>2 DEF PublishFails
  <2>2. UNCHANGED <<steps, approvals>>
    BY <1>2 DEF PublishFails
  <2>3. run \in Run /\ "dead_letter" \in RunStatus
    BY DEF TypeOK, RunStatus
  <2>4. [run EXCEPT !.status = "dead_letter"].status = "dead_letter"
    BY <2>3 DEF Run
  <2> QED
    BY <2>1, <2>2, <2>4 DEF NoChange, StatusOf
<1>3. ASSUME NEW s \in Steps, RecoverExpired(s) PROVE Requeues(s)
  <2>1. Moved(Moved(steps[s], "retry_scheduled"), "queued").status = "queued"
    BY TypeFacts, MovedRow, StatusNames
  <2>2. Becomes(s, "queued")
    BY <1>3, <2>1, SetRow DEF RecoverExpired
  <2> QED
    BY <1>3, <2>2, RunStatusField DEF RecoverExpired, Requeues, StatusOf
<1>4. ASSUME NEW s \in Steps, RecoveryCancels(s) PROVE CancelsAll
  BY <1>4, CancelNowEffect DEF RecoveryCancels
<1>5. ASSUME NEW s \in Steps, LeaseExpires(s) PROVE NoChange
  <2>1. steps' = [steps EXCEPT ![s] = [steps[s] EXCEPT !.lease = "expired"]]
    BY <1>5 DEF LeaseExpires, TypeOK
  <2>2. [steps[s] EXCEPT !.lease = "expired"].status = StatusOf(s)
    BY TypeFacts DEF Step, StatusOf
  <2> QED
    BY <1>5, <2>1, <2>2 DEF LeaseExpires, NoChange, StatusOf, TypeOK
<1>6. CASE \/ \E m \in queue : MessageLost(m)
           \/ \E w \in Workers : WorkerCrashes(w)
           \/ UNCHANGED vars
  BY <1>6 DEF MessageLost, WorkerCrashes, vars, Effect, NoChange, StatusOf
<1>7. CASE RetryDelayElapses
  BY <1>7, RunStatusField DEF RetryDelayElapses, Effect, NoChange, StatusOf
<1> QED
  BY <1>1, <1>2, <1>3, <1>4, <1>5, <1>6, <1>7 DEF Effect

LEMMA TransactionEffect == ASSUME TypeOK, [Next]_vars PROVE Effect
BY DeliverEffect, FinishEffect, UserEffect, MachineryEffect DEF Next

-----------------------------------------------------------------------------
(* The order of the Steps *)

\* A Step that is neither untouched nor settled has everything before it completed
\* and nothing after it begun: at most one Step is in progress.
LEMMA InProgressAlone ==
  ASSUME TypeOK, PrefixOrder, NEW s \in Steps,
         StatusOf(s) \notin {"pending", "cancelled", "completed"}
  PROVE  /\ \A t \in Steps : t < s => StatusOf(t) = "completed"
         /\ \A t \in Steps : s < t => StatusOf(t) \in {"pending", "cancelled"}
BY DEF PrefixOrder, StatusOf

LEMMA Comparable ==
  ASSUME NEW s \in Steps, NEW t \in Steps
  PROVE  s < t \/ s = t \/ t < s
BY WorkflowAssumption DEF Steps

\* A status changes only in the Step in progress and, when that one completes, in
\* its successor.
LEMMA PrefixOrderBecomes ==
  ASSUME TypeOK, PrefixOrder, NEW s \in Steps, NEW target,
         StatusOf(s) \notin {"pending", "cancelled", "completed"}, Becomes(s, target)
  PROVE  PrefixOrder'
<1> SUFFICES ASSUME NEW t \in Steps, NEW u \in Steps, t < u,
                    steps'[u].status \notin {"pending", "cancelled"}
             PROVE  steps'[t].status = "completed"
  BY DEF PrefixOrder
<1>1. u = s \/ u < s
  BY InProgressAlone, Comparable DEF Becomes
<1>2. t < s
  BY <1>1, WorkflowAssumption DEF Steps
<1> QED
  BY <1>2, InProgressAlone, WorkflowAssumption DEF Becomes, Steps

LEMMA PrefixOrderBecomeBoth ==
  ASSUME TypeOK, PrefixOrder, NEW s \in Steps, s + 1 \in Steps, NEW target,
         StatusOf(s) \notin {"pending", "cancelled", "completed"},
         BecomeBoth(s, "completed", target)
  PROVE  PrefixOrder'
<1> SUFFICES ASSUME NEW t \in Steps, NEW u \in Steps, t < u,
                    steps'[u].status \notin {"pending", "cancelled"}
             PROVE  steps'[t].status = "completed"
  BY DEF PrefixOrder
<1>1. u = s + 1 \/ u = s \/ u < s
  BY InProgressAlone, Comparable DEF BecomeBoth
<1>2. t < s \/ t = s
  BY <1>1, WorkflowAssumption DEF Steps
<1> QED
  BY <1>2, InProgressAlone, WorkflowAssumption DEF BecomeBoth, Steps

LEMMA PrefixOrderCompletes ==
  ASSUME TypeOK, PrefixOrder, NEW s \in Steps, NEW onward,
         StatusOf(s) \notin {"pending", "cancelled", "completed"}, Completes(s, onward)
  PROVE  PrefixOrder'
<1>1. CASE s = N
  BY <1>1, PrefixOrderBecomes DEF Completes
<1>2. CASE s # N
  <2>1. s + 1 \in Steps
    BY <1>2, WorkflowAssumption DEF Steps
  <2> QED
    BY <1>2, <2>1, PrefixOrderBecomeBoth DEF Completes
<1> QED
  BY <1>1, <1>2

LEMMA PrefixOrderStep ==
  ASSUME TypeOK, PrefixOrder, Effect
  PROVE  PrefixOrder'
<1>1. CASE NoChange
  BY <1>1 DEF NoChange, PrefixOrder, StatusOf
<1>2. CASE CancelsAll
  BY <1>2 DEF CancelsAll, PrefixOrder, StatusOf, SettledStep
<1>3. ASSUME NEW s \in Steps, Starts(s) \/ Requeues(s) \/ AsksForCost(s) \/ FailsExecution(s)
                              \/ Refuses(s)
      PROVE PrefixOrder'
  BY <1>3, PrefixOrderBecomes DEF Starts, Requeues, AsksForCost, FailsExecution, Refuses
<1>4. ASSUME NEW s \in Steps, CompletesExecution(s) PROVE PrefixOrder'
  BY <1>4, PrefixOrderCompletes DEF CompletesExecution
<1>5. ASSUME NEW s \in Steps, AsksForGate(s) PROVE PrefixOrder'
  BY <1>5, WaitStep, PrefixOrderBecomeBoth DEF AsksForGate
<1>6. ASSUME NEW s \in Steps, Grants(s) PROVE PrefixOrder'
  BY <1>6, PrefixOrderBecomes, PrefixOrderCompletes DEF Grants
<1> QED
  BY <1>1, <1>2, <1>3, <1>4, <1>5, <1>6 DEF Effect

\* In every workflow and through every retry, restart, recovery and cancellation the
\* Steps are worked through in their order (service.py, _queue_after).
THEOREM OrderKept == Spec => []PrefixOrder
<1>1. Init => PrefixOrder
  BY WorkflowAssumption DEF Init, PrefixOrder, Steps
<1>2. TypeOK /\ PrefixOrder /\ [Next]_vars => PrefixOrder'
  BY TransactionEffect, PrefixOrderStep
<1> QED
  BY <1>1, <1>2, TypeCorrect, PTL DEF Spec

-----------------------------------------------------------------------------
(* The approvals *)

\* A wait_* Step is never handed to a worker: only its approval moves it on.
WaitStepsOnlyWait ==
  \A s \in WaitSteps :
    steps[s].status \in {"pending", "waiting_for_approval", "completed", "failed", "cancelled"}

\* Completed gates were approved.
GatesWereApproved ==
  \A s \in WaitSteps \cup HighCost : steps[s].status = "completed" => approvals[s] = "approved"

GateInv == TypeOK /\ PrefixOrder /\ WaitStepsOnlyWait /\ GatesWereApproved

\* The step after one in progress is untouched or cancelled, so StepMay queues or
\* opens it from "pending" alone.
LEMMA SuccessorPending ==
  ASSUME TypeOK, PrefixOrder, NEW s \in Steps, s + 1 \in Steps, NEW to,
         StatusOf(s) \notin {"pending", "cancelled", "completed"}, StepMay(StatusOf(s + 1), to)
  PROVE  StatusOf(s + 1) = "pending"
<1>1. s < s + 1
  BY WorkflowAssumption DEF Steps
<1>2. StatusOf(s + 1) \in {"pending", "cancelled"}
  BY <1>1, InProgressAlone
<1> QED
  BY <1>2 DEF StepMay, StepTransitions

LEMMA WorkflowFacts ==
  /\ WaitSteps \subseteq Steps /\ HighCost \subseteq Steps /\ HighCost \subseteq ModelSteps
  /\ N \notin WaitSteps
  /\ WaitSteps \cap ModelSteps = {} /\ WaitSteps \cap RequestSteps = {}
  /\ \A s \in Steps : s # N => s + 1 \in Steps
  /\ \A s \in Steps : s + 1 \in WaitSteps => s \in RequestSteps
<1>1. WaitSteps \subseteq Steps /\ N \notin WaitSteps
  BY WorkflowAssumption DEF Steps
<1>2. \A s \in Steps : s # N => s + 1 \in Steps
  BY WorkflowAssumption DEF Steps
<1>3. ASSUME NEW s \in Steps, s + 1 \in WaitSteps PROVE s \in RequestSteps
  <2>1. PICK r \in RequestSteps : s + 1 = r + 1
    BY <1>3 DEF WaitSteps
  <2>2. r = s
    BY <2>1, WorkflowAssumption DEF Steps
  <2> QED
    BY <2>2
<1> QED
  BY <1>1, <1>2, <1>3, WorkflowAssumption

\* A step in progress that completes is neither a gate nor an unapproved high-cost
\* Step, and what it queues is not a gate.
LEMMA GateCompletes ==
  ASSUME GateInv, NEW s \in Steps, NEW onward,
         StatusOf(s) \notin {"pending", "cancelled", "completed"}, Completes(s, onward),
         s \notin RequestSteps,
         s \in WaitSteps \cup HighCost => approvals'[s] = "approved",
         \A t \in Steps : approvals[t] = "approved" => approvals'[t] = "approved"
  PROVE  WaitStepsOnlyWait' /\ GatesWereApproved'
<1>1. CASE s = N
  <2>1. Becomes(s, "completed")
    BY <1>1, WorkflowFacts DEF Completes
  <2> QED
    BY <2>1, WorkflowFacts
    DEF Becomes, GateInv, WaitStepsOnlyWait, GatesWereApproved, StatusOf
<1>2. CASE s # N
  <2>1. BecomeBoth(s, "completed", "queued") /\ s + 1 \in Steps
    BY <1>2, WorkflowFacts DEF Completes
  <2>2. s + 1 \notin WaitSteps
    BY WorkflowFacts
  <2> QED
    BY <2>1, <2>2, WorkflowFacts
    DEF BecomeBoth, GateInv, WaitStepsOnlyWait, GatesWereApproved, StatusOf
<1> QED
  BY <1>1, <1>2

LEMMA GateStep ==
  ASSUME GateInv, Effect
  PROVE  WaitStepsOnlyWait' /\ GatesWereApproved'
<1> USE DEF StatusOf
<1>1. CASE NoChange
  BY <1>1, WorkflowFacts DEF NoChange, GateInv, WaitStepsOnlyWait, GatesWereApproved
<1>2. CASE CancelsAll
  BY <1>2, WorkflowFacts
  DEF CancelsAll, GateInv, WaitStepsOnlyWait, GatesWereApproved, SettledStep
<1>3. ASSUME NEW s \in Steps, Starts(s) \/ Requeues(s) \/ FailsExecution(s)
      PROVE WaitStepsOnlyWait' /\ GatesWereApproved'
  <2>1. s \notin WaitSteps
    BY <1>3 DEF Starts, Requeues, FailsExecution, GateInv, WaitStepsOnlyWait
  <2> QED
    BY <1>3, <2>1, WorkflowFacts
    DEF Starts, Requeues, FailsExecution, Becomes, GateInv, WaitStepsOnlyWait, GatesWereApproved
<1>4. ASSUME NEW s \in Steps, CompletesExecution(s)
      PROVE WaitStepsOnlyWait' /\ GatesWereApproved'
  <2>1. s \notin WaitSteps
    BY <1>4 DEF CompletesExecution, GateInv, WaitStepsOnlyWait
  <2> QED
    BY <1>4, <2>1, GateCompletes DEF CompletesExecution
<1>5. ASSUME NEW s \in Steps, AsksForGate(s)
      PROVE WaitStepsOnlyWait' /\ GatesWereApproved'
  <2>1. s + 1 \in Steps /\ s \notin WaitSteps \cup HighCost
    BY <1>5, WaitStep, WorkflowAssumption DEF AsksForGate
  <2>2. \A t \in Steps : approvals[t] = "approved" => approvals'[t] = "approved"
    BY <1>5, <2>1 DEF AsksForGate, Opens, GateInv, TypeOK
  <2> QED
    BY <1>5, <2>1, <2>2, WorkflowFacts
    DEF AsksForGate, BecomeBoth, GateInv, WaitStepsOnlyWait, GatesWereApproved
<1>6. ASSUME NEW s \in Steps, AsksForCost(s)
      PROVE WaitStepsOnlyWait' /\ GatesWereApproved'
  <2>1. \A t \in Steps : approvals[t] = "approved" => approvals'[t] = "approved"
    BY <1>6 DEF AsksForCost, Opens, GateInv, TypeOK
  <2> QED
    BY <1>6, <2>1, WorkflowFacts
    DEF AsksForCost, Becomes, GateInv, WaitStepsOnlyWait, GatesWereApproved
<1>7. ASSUME NEW s \in Steps, Grants(s)
      PROVE WaitStepsOnlyWait' /\ GatesWereApproved'
  <2>1. approvals'[s] = "approved"
        /\ \A t \in Steps : approvals[t] = "approved" => approvals'[t] = "approved"
    BY <1>7 DEF Grants, GateInv, TypeOK
  <2>2. CASE s \in ModelSteps /\ Becomes(s, "queued")
    BY <2>1, <2>2, WorkflowFacts
    DEF Becomes, GateInv, WaitStepsOnlyWait, GatesWereApproved
  <2>3. CASE s \in WaitSteps /\ Completes(s, "queued")
    BY <1>7, <2>1, <2>3, GateCompletes, WorkflowFacts DEF Grants
  <2> QED
    BY <1>7, <2>2, <2>3 DEF Grants
<1>8. ASSUME NEW s \in Steps, Refuses(s)
      PROVE WaitStepsOnlyWait' /\ GatesWereApproved'
  BY <1>8, WorkflowFacts
  DEF Refuses, Becomes, GateInv, WaitStepsOnlyWait, GatesWereApproved
<1> QED
  BY <1>1, <1>2, <1>3, <1>4, <1>5, <1>6, <1>7, <1>8 DEF Effect

\* The gates follow from the order of the Steps: what is behind a gate can only have
\* begun once the gate is completed.
LEMMA GateInvImpliesGate == GateInv => ApprovalGate
BY WorkflowFacts DEF GateInv, PrefixOrder, GatesWereApproved, ApprovalGate

\* No execution reaches work behind a gate, and no high-cost generation completes,
\* without the owner's approval (complete_step, decide_approval, _queue_after).
THEOREM GateKept == Spec => []ApprovalGate
<1>1. Init => GateInv
  <2>1. Init => WaitStepsOnlyWait /\ GatesWereApproved /\ PrefixOrder
    BY WorkflowAssumption
    DEF Init, WaitStepsOnlyWait, GatesWereApproved, PrefixOrder, Steps
  <2> QED
    BY <2>1, InitType DEF GateInv
<1>2. GateInv /\ [Next]_vars => GateInv'
  BY TransactionEffect, PrefixOrderStep, GateStep, NextType DEF GateInv
<1> QED
  BY <1>1, <1>2, GateInvImpliesGate, PTL DEF Spec

\* One request is open at most: the Step it belongs to is the one in progress.
PendingWaits == \A s \in Steps : approvals[s] = "pending" => StatusOf(s) = "waiting_for_approval"

LEMMA PendingStep ==
  ASSUME TypeOK, PrefixOrder, PendingWaits, Effect
  PROVE  PendingWaits'
<1> USE DEF StatusOf
<1>1. CASE NoChange
  BY <1>1 DEF NoChange, PendingWaits
<1>2. CASE CancelsAll
  BY <1>2 DEF CancelsAll, PendingWaits
<1>3. ASSUME NEW s \in Steps, Starts(s) \/ Requeues(s) \/ FailsExecution(s) PROVE PendingWaits'
  BY <1>3 DEF Starts, Requeues, FailsExecution, Becomes, PendingWaits
<1>4. ASSUME NEW s \in Steps, NEW onward, Completes(s, onward), approvals'[s] # "pending",
             StatusOf(s) \notin {"pending", "cancelled", "completed"},
             \A t \in Steps : approvals'[t] = "pending" => approvals[t] = "pending"
      PROVE PendingWaits'
  <2>1. CASE s = N
    BY <1>4, <2>1, WorkflowFacts DEF Completes, Becomes, PendingWaits
  <2>2. CASE s # N
    <3>1. BecomeBoth(s, "completed", "queued") /\ s + 1 \in Steps
      BY <1>4, <2>2, WorkflowFacts DEF Completes
    <3>2. StatusOf(s + 1) = "pending"
      BY <1>4, <2>2, <3>1, SuccessorPending DEF Completes
    <3> QED
      BY <1>4, <3>1, <3>2 DEF BecomeBoth, PendingWaits
  <2> QED
    BY <2>1, <2>2
<1>5. ASSUME NEW s \in Steps, CompletesExecution(s) PROVE PendingWaits'
  BY <1>4, <1>5 DEF CompletesExecution, PendingWaits
<1>6. ASSUME NEW s \in Steps, AsksForGate(s) PROVE PendingWaits'
  <2>1. s + 1 \in Steps /\ s + 1 # s
    BY <1>6, WaitStep DEF AsksForGate
  <2> QED
    BY <1>6, <2>1 DEF AsksForGate, Opens, BecomeBoth, PendingWaits, TypeOK
<1>7. ASSUME NEW s \in Steps, AsksForCost(s) PROVE PendingWaits'
  BY <1>7 DEF AsksForCost, Opens, Becomes, PendingWaits, TypeOK
<1>8. ASSUME NEW s \in Steps, Grants(s) PROVE PendingWaits'
  <2>1. /\ approvals'[s] = "approved"
        /\ \A t \in Steps : approvals'[t] = "pending" => approvals[t] = "pending"
    BY <1>8 DEF Grants, TypeOK
  <2>2. CASE Becomes(s, "queued")
    BY <2>1, <2>2 DEF Becomes, PendingWaits
  <2>3. CASE Completes(s, "queued")
    BY <1>4, <1>8, <2>1, <2>3 DEF Grants
  <2> QED
    BY <1>8, <2>2, <2>3 DEF Grants
<1>9. ASSUME NEW s \in Steps, Refuses(s) PROVE PendingWaits'
  BY <1>9 DEF Refuses, Becomes, PendingWaits
<1> QED
  BY <1>1, <1>2, <1>3, <1>5, <1>6, <1>7, <1>8, <1>9 DEF Effect

\* An open approval request can always be decided and is the only one: no
\* cancellation, expiry, restart or recovery leaves one behind (_cancel_now,
\* decide_approval).
THEOREM PendingDecidable == Spec => []PendingIsDecidable
<1>1. Init => PendingWaits
  BY DEF Init, PendingWaits
<1>2. TypeOK /\ PrefixOrder /\ PendingWaits /\ [Next]_vars => PendingWaits'
  BY TransactionEffect, PendingStep
<1>3. TypeOK /\ PrefixOrder /\ PendingWaits => PendingIsDecidable
  <2> SUFFICES ASSUME TypeOK, PrefixOrder, PendingWaits, NEW s \in Steps, NEW t \in Steps,
                      approvals[s] = "pending"
               PROVE  /\ steps[s].status = "waiting_for_approval"
                      /\ approvals[t] = "pending" => t = s
    BY DEF PendingIsDecidable
  <2>1. StatusOf(s) = "waiting_for_approval"
    BY DEF PendingWaits
  <2>2. approvals[t] = "pending" => StatusOf(t) = "waiting_for_approval"
    BY DEF PendingWaits
  <2> QED
    BY <2>1, <2>2, InProgressAlone, Comparable DEF StatusOf
<1> QED
  BY <1>1, <1>2, <1>3, TypeCorrect, OrderKept, PTL DEF Spec

-----------------------------------------------------------------------------
(* The Run and its Steps *)

\* No transaction skips a Step, although the table would let it.
NoneSkipped == \A s \in Steps : StatusOf(s) # "skipped"

\* The status of the Step in progress and the status of a Run that goes with it
Agree(step, onward) ==
  \/ step \in {"queued", "running", "retry_scheduled", "waiting_for_approval", "failed"}
     /\ onward = step
  \/ step \in {"queued", "running", "retry_scheduled", "failed"} /\ onward = "dead_letter"
  \/ step = "queued" /\ onward = "running"

AgreeInv == TypeOK /\ PrefixOrder /\ RunMatchesSteps /\ NoneSkipped

\* Beside the Step in progress there are completed Steps and untouched ones.
LEMMA OthersRest ==
  ASSUME AgreeInv, NEW s \in Steps, StatusOf(s) \notin {"pending", "cancelled", "completed"}
  PROVE  \A t \in Steps : t # s => StatusOf(t) \in {"completed", "pending"}
<1> SUFFICES ASSUME NEW t \in Steps, t # s PROVE StatusOf(t) \in {"completed", "pending"}
  OBVIOUS
<1>1. StatusOf(t) \in {"completed", "pending", "cancelled"}
  BY Comparable, InProgressAlone DEF AgreeInv
<1>2. StatusOf(t) # "cancelled"
  BY DEF AgreeInv, RunMatchesSteps, StatusOf
<1> QED
  BY <1>1, <1>2

\* One Step in progress whose status goes with the Run's is all it takes.
LEMMA AgreeAfter ==
  ASSUME NEW u \in Steps, \A t \in Steps : t # u => steps'[t].status \in {"completed", "pending"},
         Agree(steps'[u].status, run'.status)
  PROVE  RunMatchesSteps' /\ NoneSkipped'
<1>1. \A s \in Steps : s = u \/ steps'[s].status \in {"completed", "pending"}
  OBVIOUS
<1>2. RunMatchesSteps'
  BY <1>1 DEF RunMatchesSteps, Agree
<1>3. NoneSkipped'
  BY <1>1 DEF NoneSkipped, StatusOf, Agree
<1> QED
  BY <1>2, <1>3

LEMMA AgreeBecomes ==
  ASSUME AgreeInv, NEW s \in Steps, StatusOf(s) \notin {"pending", "cancelled", "completed"},
         NEW target, Becomes(s, target), Agree(target, run'.status)
  PROVE  RunMatchesSteps' /\ NoneSkipped'
<1>1. \A t \in Steps : t # s => steps'[t].status \in {"completed", "pending"}
  BY OthersRest DEF Becomes, StatusOf
<1>2. Agree(steps'[s].status, run'.status)
  BY DEF Becomes
<1> QED
  BY <1>1, <1>2, AgreeAfter

LEMMA AgreeBecomeBoth ==
  ASSUME AgreeInv, NEW s \in Steps, StatusOf(s) \notin {"pending", "cancelled", "completed"},
         s + 1 \in Steps, NEW target, BecomeBoth(s, "completed", target),
         Agree(target, run'.status)
  PROVE  RunMatchesSteps' /\ NoneSkipped'
<1>1. s + 1 # s
  BY WorkflowAssumption DEF Steps
<1>2. \A t \in Steps : t # s + 1 => steps'[t].status \in {"completed", "pending"}
  BY OthersRest DEF BecomeBoth, StatusOf
<1>3. Agree(steps'[s + 1].status, run'.status)
  BY <1>1 DEF BecomeBoth
<1> QED
  BY <1>2, <1>3, AgreeAfter

\* The end of the last Step completes the Run, the end of another one hands it on.
LEMMA AgreeCompletes ==
  ASSUME AgreeInv, NEW s \in Steps, StatusOf(s) \notin {"pending", "cancelled", "completed"},
         NEW onward, Completes(s, onward), Agree("queued", onward)
  PROVE  RunMatchesSteps' /\ NoneSkipped'
<1>1. CASE s = N /\ Becomes(s, "completed") /\ run'.status = "completed"
  <2>1. \A t \in Steps : t # s => t < s
    BY <1>1, WorkflowAssumption DEF Steps
  <2>2. \A t \in Steps : steps'[t].status = "completed"
    BY <1>1, <2>1, InProgressAlone DEF Becomes, AgreeInv, StatusOf
  <2> QED
    BY <1>1, <2>2 DEF RunMatchesSteps, NoneSkipped, StatusOf
<1>2. CASE s # N /\ BecomeBoth(s, "completed", "queued") /\ run'.status = onward
  <2>1. s + 1 \in Steps
    BY <1>2, WorkflowFacts
  <2> QED
    BY <1>2, <2>1, AgreeBecomeBoth
<1> QED
  BY <1>1, <1>2 DEF Completes

LEMMA AgreeStep ==
  ASSUME AgreeInv, Effect
  PROVE  RunMatchesSteps' /\ NoneSkipped'
<1>1. CASE NoChange
  BY <1>1 DEF NoChange, AgreeInv, RunMatchesSteps, NoneSkipped, StatusOf
<1>2. CASE CancelsAll
  <2>1. \A s \in Steps : steps'[s].status \in {"completed", "cancelled"}
    BY <1>2 DEF CancelsAll, SettledStep, AgreeInv, NoneSkipped, StatusOf
  <2> QED
    BY <1>2, <2>1 DEF CancelsAll, RunMatchesSteps, NoneSkipped, StatusOf
<1>3. ASSUME NEW s \in Steps, Starts(s) PROVE RunMatchesSteps' /\ NoneSkipped'
  BY <1>3, AgreeBecomes DEF Starts, Agree
<1>4. ASSUME NEW s \in Steps, Requeues(s) PROVE RunMatchesSteps' /\ NoneSkipped'
  BY <1>4, AgreeBecomes DEF Requeues, Agree
<1>5. ASSUME NEW s \in Steps, CompletesExecution(s) PROVE RunMatchesSteps' /\ NoneSkipped'
  <2>1. run.status \in {"running", "dead_letter"}
    BY <1>5 DEF CompletesExecution, AgreeInv, RunMatchesSteps, StatusOf
  <2> QED
    BY <1>5, <2>1, AgreeCompletes DEF CompletesExecution, Agree
<1>6. ASSUME NEW s \in Steps, AsksForGate(s) PROVE RunMatchesSteps' /\ NoneSkipped'
  BY <1>6, WaitStep, AgreeBecomeBoth DEF AsksForGate, Agree
<1>7. ASSUME NEW s \in Steps, AsksForCost(s) PROVE RunMatchesSteps' /\ NoneSkipped'
  BY <1>7, AgreeBecomes DEF AsksForCost, Agree
<1>8. ASSUME NEW s \in Steps, FailsExecution(s) PROVE RunMatchesSteps' /\ NoneSkipped'
  BY <1>8, AgreeBecomes DEF FailsExecution, Agree
<1>9. ASSUME NEW s \in Steps, Grants(s) PROVE RunMatchesSteps' /\ NoneSkipped'
  <2>1. CASE Becomes(s, "queued") /\ run'.status = "queued"
    BY <1>9, <2>1, AgreeBecomes DEF Grants, Agree
  <2>2. CASE Completes(s, "queued")
    BY <1>9, <2>2, AgreeCompletes DEF Grants, Agree
  <2> QED
    BY <1>9, <2>1, <2>2 DEF Grants
<1>10. ASSUME NEW s \in Steps, Refuses(s) PROVE RunMatchesSteps' /\ NoneSkipped'
  BY <1>10, AgreeBecomes DEF Refuses, Agree
<1> QED
  BY <1>1, <1>2, <1>3, <1>4, <1>5, <1>6, <1>7, <1>8, <1>9, <1>10 DEF Effect

LEMMA AgreeInvariant == Spec => []AgreeInv
<1>1. Init => AgreeInv
  <2>1. Init => PrefixOrder
    BY WorkflowAssumption DEF Init, PrefixOrder, Steps
  <2>2. Init => RunMatchesSteps /\ NoneSkipped
    <3> SUFFICES ASSUME Init PROVE RunMatchesSteps /\ NoneSkipped
      OBVIOUS
    <3>1. 1 \in Steps /\ steps[1].status = "queued" /\ run.status = "queued"
      BY WorkflowAssumption DEF Init, Steps
    <3>2. \A s \in Steps : steps[s].status \in {"queued", "pending"}
      BY DEF Init
    <3> QED
      BY <3>1, <3>2 DEF RunMatchesSteps, NoneSkipped, StatusOf
  <2> QED
    BY <2>1, <2>2, InitType DEF AgreeInv
<1>2. AgreeInv /\ [Next]_vars => AgreeInv'
  BY TransactionEffect, PrefixOrderStep, AgreeStep, NextType DEF AgreeInv
<1> QED
  BY <1>1, <1>2, PTL DEF Spec

\* The Run's status and its Steps' never drift apart, although every transaction moves
\* them by separate assignments (service.py: claim_step, complete_step, fail_step,
\* decide_approval; outbox.py: _record_publish_failure).
THEOREM RunAgreesWithSteps == Spec => []RunMatchesSteps
<1>1. AgreeInv => RunMatchesSteps
  BY DEF AgreeInv
<1> QED
  BY <1>1, AgreeInvariant, PTL

-----------------------------------------------------------------------------
(* What the transactions do to attempts, revisions, events and messages.     *)
(* The invariants about deliveries are proved from these five effects;       *)
(* MessageEffect shows that no action does anything else.                    *)

AttemptsKept ==
  \A t \in Steps : steps'[t].attempt = steps[t].attempt /\ steps'[t].rev >= steps[t].rev

NothingStarts == \A t \in Steps : steps'[t].status = "running" => steps[t].status = "running"

\* A Step that waits to be claimed
Awaiting == {"queued", "retry_scheduled"}

QueuedAlone(s) ==
  \A t \in Steps : t # s /\ steps'[t].status \in Awaiting => steps[t].status \in Awaiting

ExplainedByStep(s) ==
  /\ steps[s].status = "failed" /\ steps[s].attempt >= MaxAttempts
  /\ [reason |-> "retry_exhausted", step |-> s] \in deadLetters

NotAbandoned == run'.status = "dead_letter" => run.status = "dead_letter"

Quiet ==
  /\ AttemptsKept /\ NothingStarts
  /\ \A t \in Steps : steps'[t].status \in Awaiting => steps[t].status \in Awaiting
  /\ NotAbandoned \/ \E s \in Steps : ExplainedByStep(s)'
  /\ UNCHANGED outbox /\ queue' \subseteq queue

StartsDelivered(m) ==
  /\ m.attempt = steps[m.step].attempt
  /\ ~run.cancelReq /\ run.status \in {"queued", "running", "retry_scheduled"}
  /\ \A t \in Steps : t # m.step => steps'[t] = steps[t]
  /\ steps'[m.step].status = "running"
  /\ steps'[m.step].attempt = steps[m.step].attempt + 1
  /\ steps'[m.step].rev >= steps[m.step].rev
  /\ NotAbandoned
  /\ UNCHANGED outbox /\ queue' \subseteq queue

EnqueuesStep(s) ==
  /\ AttemptsKept /\ NothingStarts /\ QueuedAlone(s)
  /\ steps'[s].status \in Awaiting /\ steps'[s].rev > steps[s].rev
  /\ NotAbandoned
  /\ \E available \in BOOLEAN : outbox' = Enqueue(steps', s, available)
  /\ UNCHANGED queue

SameDelivery(e, f) == f.step = e.step /\ f.rev = e.rev /\ f.attempt = e.attempt

Redelivers(e) ==
  /\ UNCHANGED steps /\ NotAbandoned
  /\ \E f : /\ outbox' = Replace(e, f) /\ SameDelivery(e, f)
            /\ f.status = "dead_letter" <=> e.status = "dead_letter"
            /\ e.status = "dead_letter" => f.tries = e.tries
  /\ queue' \subseteq queue \cup {MessageOf(e)}

GivesUp(e) ==
  /\ UNCHANGED steps
  /\ run.status \in {"queued", "running", "retry_scheduled", "failed"} => run'.status = "dead_letter"
  /\ e.status = "publishing"
  /\ [reason |-> "redis_publish_exhausted", step |-> e.step] \in deadLetters'
  /\ \E f : /\ outbox' = Replace(e, f) /\ SameDelivery(e, f)
            /\ f.status = "dead_letter" /\ f.tries >= PublishLimit
  /\ queue' \subseteq queue \cup {MessageOf(e)}

MessageEffect ==
  /\ deadLetters \subseteq deadLetters'
  /\ \/ Quiet
     \/ \E m \in queue : StartsDelivered(m)
     \/ \E s \in Steps : EnqueuesStep(s)
     \/ \E e \in outbox : Redelivers(e) \/ GivesUp(e)

\* Every transition of a row bumps its revision (_transition_step).
LEMMA MovedRevision ==
  ASSUME NEW row \in Step, NEW target \in StepStatus
  PROVE  /\ Moved(row, target).rev = row.rev + 1
         /\ Released(row, target).rev = row.rev + 1
BY DEF Moved, Released, Step

\* A stored row after a transition, or after the end of its execution
LEMMA RowMoved ==
  ASSUME TypeOK, NEW s \in Steps,
         NEW target \in {"queued", "waiting_for_approval", "retry_scheduled", "failed",
                         "completed", "cancelled"}
  PROVE  /\ steps[s] \in Step /\ steps[s].rev \in Nat /\ target \in StepStatus
         /\ Moved(steps[s], target) \in Step /\ Moved(steps[s], target).status = target
         /\ Moved(steps[s], target).attempt = steps[s].attempt
         /\ Moved(steps[s], target).rev > steps[s].rev
         /\ Released(steps[s], target) \in Step /\ Released(steps[s], target).status = target
         /\ Released(steps[s], target).attempt = steps[s].attempt
         /\ Released(steps[s], target).rev > steps[s].rev
<1>1. target \in StepStatus
  BY StatusNames
<1>2. steps[s] \in Step /\ steps[s].rev \in Nat
  BY TypeFacts DEF Step
<1>3. /\ Moved(steps[s], target).rev = steps[s].rev + 1
      /\ Released(steps[s], target).rev = steps[s].rev + 1
  BY <1>1, <1>2, MovedRevision
<1>4. Moved(steps[s], target).rev > steps[s].rev /\ Released(steps[s], target).rev > steps[s].rev
  BY <1>2, <1>3
<1>5. /\ Moved(steps[s], target) \in Step /\ Moved(steps[s], target).status = target
      /\ Moved(steps[s], target).attempt = steps[s].attempt
  BY <1>1, <1>2, MovedRow
<1>6. /\ Released(steps[s], target) \in Step /\ Released(steps[s], target).status = target
      /\ Released(steps[s], target).attempt = steps[s].attempt
  BY <1>1, <1>2, ReleasedRow
<1> QED
  BY <1>1, <1>2, <1>4, <1>5, <1>6

\* One row that is not a start keeps every attempt.
LEMMA RowMoves ==
  ASSUME TypeOK, NEW s \in Steps, NEW row \in Step, steps' = [steps EXCEPT ![s] = row],
         row.attempt = steps[s].attempt, row.rev > steps[s].rev, row.status # "running"
  PROVE  /\ AttemptsKept /\ NothingStarts
         /\ steps'[s] = row /\ \A t \in Steps : t # s => steps'[t] = steps[t]
<1>1. steps'[s] = row /\ \A t \in Steps : t # s => steps'[t] = steps[t]
  BY DEF TypeOK
<1>2. \A t \in Steps : steps[t].rev \in Nat
  BY TypeFacts DEF Step
<1>3. AttemptsKept
  BY <1>1, <1>2 DEF AttemptsKept, Step
<1>4. NothingStarts
  BY <1>1 DEF NothingStarts
<1> QED
  BY <1>1, <1>3, <1>4

LEMMA TwoRowsMove ==
  ASSUME TypeOK, NEW s \in Steps, NEW n \in Steps, n # s,
         NEW row \in Step, NEW following \in Step,
         steps'[s] = row, steps'[n] = following,
         \A t \in Steps : t # s /\ t # n => steps'[t] = steps[t],
         row.attempt = steps[s].attempt, row.rev > steps[s].rev, row.status # "running",
         following.attempt = steps[n].attempt, following.rev > steps[n].rev,
         following.status # "running"
  PROVE  AttemptsKept /\ NothingStarts
<1>1. /\ steps'[s] = row /\ steps'[n] = following
      /\ \A t \in Steps : t # s /\ t # n => steps'[t] = steps[t]
  OBVIOUS
<1>2. \A t \in Steps : steps[t].rev \in Nat
  BY TypeFacts DEF Step
<1>3. AttemptsKept
  <2>1. row.rev \in Nat /\ following.rev \in Nat
    BY DEF Step
  <2> SUFFICES ASSUME NEW t \in Steps
               PROVE  steps'[t].attempt = steps[t].attempt /\ steps'[t].rev >= steps[t].rev
    BY DEF AttemptsKept
  <2>2. CASE t # s /\ t # n
    <3>1. steps'[t] = steps[t] /\ steps[t].rev \in Nat
      BY <1>1, <1>2, <2>2
    <3> QED
      BY <3>1
  <2>3. CASE t = s
    BY <1>1, <1>2, <2>1, <2>3
  <2>4. CASE t = n
    BY <1>1, <1>2, <2>1, <2>4
  <2> QED
    BY <2>2, <2>3, <2>4
<1>4. NothingStarts
  BY <1>1 DEF NothingStarts
<1> QED
  BY <1>3, <1>4

\* _cancel_now starts nothing and queues nothing.
LEMMA CancelNowIsQuiet ==
  ASSUME TypeOK, CancelNow, UNCHANGED outbox, queue' \subseteq queue
  PROVE  Quiet
<1>1. \A t \in Steps : steps'[t] = steps[t] \/ steps'[t] = Moved(steps[t], "cancelled")
  BY DEF CancelNow
<1>2. \A t \in Steps : /\ Moved(steps[t], "cancelled").status = "cancelled"
                        /\ Moved(steps[t], "cancelled").attempt = steps[t].attempt
                        /\ Moved(steps[t], "cancelled").rev > steps[t].rev
                        /\ steps[t].rev \in Nat /\ Moved(steps[t], "cancelled").rev \in Nat
  BY RowMoved DEF Step
<1>3. AttemptsKept
  BY <1>1, <1>2 DEF AttemptsKept
<1>4. NothingStarts /\ \A t \in Steps : steps'[t].status \in Awaiting => steps[t].status \in Awaiting
  BY <1>1, <1>2 DEF NothingStarts, Awaiting
<1>5. run'.status = "cancelled"
  BY RunStatusField DEF CancelNow
<1> QED
  BY <1>3, <1>4, <1>5 DEF Quiet, NotAbandoned

\* Nothing but queue, workers and bounds changes.
LEMMA NothingMoves ==
  ASSUME TypeOK, UNCHANGED <<steps, outbox>>, run'.status = run.status, queue' \subseteq queue
  PROVE  Quiet
BY TypeFacts DEF Quiet, AttemptsKept, NothingStarts, NotAbandoned, Step

LEMMA AcknowledgeRemoves ==
  ASSUME NEW m \in queue, Acknowledge(m)
  PROVE  queue' \subseteq queue
BY DEF Acknowledge

LEMMA DeliverMessage ==
  ASSUME TypeOK, NEW m \in queue, Deliver(m)
  PROVE  MessageEffect
<1> DEFINE s == m.step
<1>0. s \in Steps /\ steps[s] \in Step /\ steps[s].rev \in Nat
  BY TypeFacts DEF Step
<1>1. ASSUME NEW w \in Workers, Claim(w, m) PROVE MessageEffect
  <2> DEFINE old == IF RetryDue(s) THEN Moved(steps[s], "queued") ELSE steps[s]
             row == Started(old)
  <2>1. old \in Step /\ old.attempt = steps[s].attempt /\ old.rev >= steps[s].rev
    <3>1. CASE RetryDue(s)
      <4>1. /\ Moved(steps[s], "queued") \in Step
            /\ Moved(steps[s], "queued").attempt = steps[s].attempt
            /\ Moved(steps[s], "queued").rev > steps[s].rev
        BY <1>0, RowMoved
      <4>2. Moved(steps[s], "queued").rev \in Nat
        BY <4>1 DEF Step
      <4> QED
        BY <1>0, <3>1, <4>1, <4>2
    <3>2. CASE ~RetryDue(s)
      BY <1>0, <3>2
    <3> QED
      BY <3>1, <3>2
  <2>2. row \in Step /\ row.status = "running" /\ row.attempt = steps[s].attempt + 1
    BY <2>1, StartedRow
  <2>3. row.rev >= steps[s].rev
    <3>1. row.rev = old.rev + 1 /\ old.rev \in Nat
      BY <2>1, <2>2 DEF Started, Moved, Step
    <3> QED
      BY <1>0, <2>1, <3>1
  <2>4. steps' = [steps EXCEPT ![s] = row] /\ run' = [run EXCEPT !.status = "running"]
    BY <1>1 DEF Claim
  <2> HIDE DEF row, old
  <2>5. steps'[s] = row /\ \A t \in Steps : t # s => steps'[t] = steps[t]
    BY <1>0, <2>4 DEF TypeOK
  <2>6. run'.status = "running"
    BY <2>4, RunStatusField
  <2>7. /\ m.attempt = steps[s].attempt /\ ~run.cancelReq
        /\ run.status \in {"queued", "running", "retry_scheduled"}
        /\ UNCHANGED <<outbox, deadLetters>> /\ queue' \subseteq queue
    BY <1>1, AcknowledgeRemoves DEF Claim, Claimable
  <2>8. StartsDelivered(m)
    BY <2>2, <2>3, <2>5, <2>6, <2>7 DEF StartsDelivered, NotAbandoned
  <2> QED
    BY <2>7, <2>8 DEF MessageEffect
<1>2. CASE DeliveryCancels(m)
  BY <1>2, AcknowledgeRemoves, CancelNowIsQuiet DEF DeliveryCancels, MessageEffect
<1>3. CASE DeliveryRequeuesDeadRun(m)
  <2>1. /\ steps' = [steps EXCEPT ![s] = Moved(steps[s], "queued")] /\ StatusOf(s) \in Awaiting
        /\ UNCHANGED <<run, outbox, deadLetters>> /\ queue' \subseteq queue
    BY <1>3, AcknowledgeRemoves
    DEF DeliveryRequeuesDeadRun, RequeuesOnly, RetryDue, StatusOf, Awaiting
  <2>2. /\ Moved(steps[s], "queued") \in Step /\ Moved(steps[s], "queued").status = "queued"
        /\ Moved(steps[s], "queued").attempt = steps[s].attempt
        /\ Moved(steps[s], "queued").rev > steps[s].rev
    BY <1>0, RowMoved
  <2>3. AttemptsKept /\ NothingStarts /\ \A t \in Steps : t # s => steps'[t] = steps[t]
    BY <1>0, <2>1, <2>2, RowMoves
  <2> QED
    BY <2>1, <2>3 DEF MessageEffect, Quiet, NotAbandoned, StatusOf
<1>4. CASE DeliveryIgnored(m)
  <2>1. UNCHANGED <<steps, outbox, run, deadLetters>> /\ queue' \subseteq queue
    BY <1>4 DEF DeliveryIgnored
  <2> QED
    BY <2>1, NothingMoves DEF MessageEffect
<1> QED
  BY <1>1, <1>2, <1>3, <1>4 DEF Deliver

\* _queue_after enqueues the Step it queues.
LEMMA QueueAfterMessage ==
  ASSUME TypeOK, NEW s \in Steps, NEW done \in Step, done.status = "completed",
         done.attempt = steps[s].attempt, done.rev > steps[s].rev,
         NEW onward \in RunStatus, onward = "dead_letter" => run.status = "dead_letter",
         QueueAfter(s, done, onward), UNCHANGED <<queue, deadLetters>>
  PROVE  MessageEffect
<1>1. CASE s = N
  <2>1. /\ steps' = [steps EXCEPT ![s] = done] /\ run' = [run EXCEPT !.status = "completed"]
        /\ UNCHANGED outbox
    BY <1>1 DEF QueueAfter
  <2>2. AttemptsKept /\ NothingStarts /\ steps'[s] = done
        /\ \A t \in Steps : t # s => steps'[t] = steps[t]
    BY <2>1, RowMoves
  <2>3. run'.status = "completed"
    BY <2>1, RunStatusField
  <2>4. \A t \in Steps : steps'[t].status \in Awaiting => steps[t].status \in Awaiting
    BY <2>2 DEF Awaiting
  <2> QED
    BY <2>1, <2>2, <2>3, <2>4 DEF MessageEffect, Quiet, NotAbandoned
<1>2. CASE s # N
  <2>1. PICK n \in Steps : n = s + 1 /\ n # s
    BY <1>2, WorkflowAssumption DEF Steps
  <2>2. /\ steps' = [steps EXCEPT ![s] = done, ![n] = Moved(steps[n], "queued")]
        /\ run' = [run EXCEPT !.status = onward] /\ outbox' = Enqueue(steps', n, TRUE)
    BY <1>2, <2>1, QueueAfterNext
  <2>3. PICK following \in Step :
          /\ following = Moved(steps[n], "queued") /\ following.status = "queued"
          /\ following.attempt = steps[n].attempt /\ following.rev > steps[n].rev
    BY RowMoved
  <2>4. /\ AttemptsKept /\ NothingStarts /\ steps'[s] = done /\ steps'[n] = following
        /\ \A t \in Steps : t # s /\ t # n => steps'[t] = steps[t]
    <3>1. done.status # "running" /\ following.status # "running"
      BY <2>3
    <3>2. /\ steps'[s] = done /\ steps'[n] = following
          /\ \A t \in Steps : t # s /\ t # n => steps'[t] = steps[t]
      BY <2>1, <2>2, <2>3 DEF TypeOK
    <3>3. AttemptsKept /\ NothingStarts
      BY <2>1, <2>3, <3>1, <3>2, TwoRowsMove
    <3> QED
      BY <3>2, <3>3
  <2>5. QueuedAlone(n)
    BY <2>4 DEF QueuedAlone, Awaiting
  <2>6. run'.status = onward
    BY <2>2, RunStatusField
  <2>7. EnqueuesStep(n)
    BY <2>2, <2>3, <2>4, <2>5, <2>6 DEF EnqueuesStep, Awaiting, NotAbandoned
  <2> QED
    BY <2>1, <2>7 DEF MessageEffect
<1> QED
  BY <1>1, <1>2

\* A Step that is queued, or whose retry is scheduled, and enqueued in one transaction
LEMMA EnqueueMessage ==
  ASSUME TypeOK, NEW s \in Steps, NEW row \in Step, steps' = [steps EXCEPT ![s] = row],
         row.attempt = steps[s].attempt, row.rev > steps[s].rev, row.status \in Awaiting,
         NEW available \in BOOLEAN, outbox' = Enqueue(steps', s, available),
         run'.status # "dead_letter", UNCHANGED <<queue, deadLetters>>
  PROVE  MessageEffect
<1>1. row.status # "running"
  BY DEF Awaiting
<1>2. /\ AttemptsKept /\ NothingStarts /\ steps'[s] = row
      /\ \A t \in Steps : t # s => steps'[t] = steps[t]
  BY <1>1, RowMoves
<1>3. QueuedAlone(s)
  BY <1>2 DEF QueuedAlone
<1>4. EnqueuesStep(s)
  BY <1>2, <1>3 DEF EnqueuesStep, NotAbandoned
<1> QED
  BY <1>4 DEF MessageEffect

\* A Step that stops, and nothing enqueued
LEMMA StopMessage ==
  ASSUME TypeOK, NEW s \in Steps, NEW row \in Step, steps' = [steps EXCEPT ![s] = row],
         row.attempt = steps[s].attempt, row.rev > steps[s].rev,
         row.status \notin Awaiting, row.status # "running",
         run'.status # "dead_letter" \/ ExplainedByStep(s)',
         UNCHANGED <<outbox, queue>>, deadLetters \subseteq deadLetters'
  PROVE  MessageEffect
<1>1. /\ AttemptsKept /\ NothingStarts /\ steps'[s] = row
      /\ \A t \in Steps : t # s => steps'[t] = steps[t]
  BY RowMoves
<1>2. \A t \in Steps : steps'[t].status \in Awaiting => steps[t].status \in Awaiting
  BY <1>1
<1> QED
  BY <1>1, <1>2 DEF MessageEffect, Quiet, NotAbandoned

LEMMA FinishMessage ==
  ASSUME TypeOK, NEW w \in Workers, Finish(w)
  PROVE  MessageEffect
<1> DEFINE s == workers[w].step
<1>0. workers[w].pc \in {"claimed", "failing"} => s \in Steps /\ steps[s] \in Step
  BY BusyWorker, TypeFacts
<1>1. CASE RequestHighCostApproval(w)
  <2>1. s \in Steps
    BY <1>0, <1>1 DEF RequestHighCostApproval
  <2>2. /\ steps' = [steps EXCEPT ![s] = Released(steps[s], "waiting_for_approval")]
        /\ run' = [run EXCEPT !.status = "waiting_for_approval"]
        /\ UNCHANGED <<outbox, queue, deadLetters>>
    BY <1>1 DEF RequestHighCostApproval
  <2>3. run'.status = "waiting_for_approval"
    BY <2>2, RunStatusField
  <2>4. /\ Released(steps[s], "waiting_for_approval") \in Step
        /\ Released(steps[s], "waiting_for_approval").status = "waiting_for_approval"
        /\ Released(steps[s], "waiting_for_approval").attempt = steps[s].attempt
        /\ Released(steps[s], "waiting_for_approval").rev > steps[s].rev
    BY <2>1, RowMoved
  <2> QED
    BY <2>1, <2>2, <2>3, <2>4, StopMessage DEF Awaiting
<1>2. CASE CompleteStep(w)
  <2>1. s \in Steps
    BY <1>0, <1>2 DEF CompleteStep, Executing
  <2>2. QueueAfter(s, Released(steps[s], "completed"), run.status) /\ UNCHANGED <<queue, deadLetters>>
    BY <1>2 DEF CompleteStep
  <2>3. /\ Released(steps[s], "completed") \in Step
        /\ Released(steps[s], "completed").status = "completed"
        /\ Released(steps[s], "completed").attempt = steps[s].attempt
        /\ Released(steps[s], "completed").rev > steps[s].rev
    BY <2>1, RowMoved
  <2> QED
    BY <2>1, <2>2, <2>3, TypeFacts, QueueAfterMessage
<1>3. CASE CompleteRequestStep(w)
  <2>1. PICK u \in Steps : u = workers[w].step /\ u \in RequestSteps
    BY <1>0, <1>3 DEF CompleteRequestStep, Executing
  <2>2. PICK n \in Steps : n = u + 1 /\ n # u
    BY <2>1, WaitStep
  <2>3. /\ steps' = [steps EXCEPT ![u] = Released(steps[u], "completed"),
                                  ![n] = Moved(steps[n], "waiting_for_approval")]
        /\ run' = [run EXCEPT !.status = "waiting_for_approval"]
        /\ UNCHANGED <<outbox, queue, deadLetters>>
    BY <1>3, <2>1, <2>2 DEF CompleteRequestStep, TypeOK
  <2>4. PICK done \in Step :
          /\ done = Released(steps[u], "completed") /\ done.status = "completed"
          /\ done.attempt = steps[u].attempt /\ done.rev > steps[u].rev
    BY RowMoved
  <2>5. PICK following \in Step :
          /\ following = Moved(steps[n], "waiting_for_approval")
          /\ following.status = "waiting_for_approval"
          /\ following.attempt = steps[n].attempt /\ following.rev > steps[n].rev
    BY RowMoved
  <2>6. run'.status = "waiting_for_approval"
    BY <2>3, RunStatusField
  <2>7. /\ AttemptsKept /\ NothingStarts /\ steps'[u] = done /\ steps'[n] = following
        /\ \A t \in Steps : t # u /\ t # n => steps'[t] = steps[t]
    <3>1. done.status # "running" /\ following.status # "running"
      BY <2>4, <2>5
    <3>2. /\ steps'[u] = done /\ steps'[n] = following
          /\ \A t \in Steps : t # u /\ t # n => steps'[t] = steps[t]
      BY <2>2, <2>3, <2>4, <2>5 DEF TypeOK
    <3>3. AttemptsKept /\ NothingStarts
      BY <2>2, <2>4, <2>5, <3>1, <3>2, TwoRowsMove
    <3> QED
      BY <3>2, <3>3
  <2>8. \A t \in Steps : steps'[t].status \in Awaiting => steps[t].status \in Awaiting
    BY <2>4, <2>5, <2>7 DEF Awaiting
  <2> QED
    BY <2>3, <2>6, <2>7, <2>8 DEF MessageEffect, Quiet, NotAbandoned
<1>4. CASE CompletionCancels(w)
  BY <1>4, CancelNowIsQuiet DEF CompletionCancels, MessageEffect
<1>5. CASE CompletionRefused(w) \/ ExecutionRaises(w) \/ FailureDropped(w)
  <2>1. UNCHANGED <<steps, outbox, run, queue, deadLetters>>
    BY <1>5 DEF CompletionRefused, ExecutionRaises, FailureDropped
  <2> QED
    BY <2>1, NothingMoves DEF MessageEffect
<1>6. CASE FailStepForRetry(w)
  <2>1. s \in Steps
    BY <1>0, <1>6 DEF FailStepForRetry
  <2>2. /\ steps' = [steps EXCEPT ![s] = Released(steps[s], "retry_scheduled")]
        /\ run' = [run EXCEPT !.status = "retry_scheduled", !.rejected = FALSE, !.retryWait = TRUE]
        /\ outbox' = Enqueue(steps', s, FALSE) /\ UNCHANGED <<queue, deadLetters>>
    BY <1>6 DEF FailStepForRetry
  <2>3. run'.status = "retry_scheduled"
    BY <2>2, RunStatusField
  <2>4. /\ Released(steps[s], "retry_scheduled") \in Step
        /\ Released(steps[s], "retry_scheduled").status = "retry_scheduled"
        /\ Released(steps[s], "retry_scheduled").attempt = steps[s].attempt
        /\ Released(steps[s], "retry_scheduled").rev > steps[s].rev
    BY <2>1, RowMoved
  <2> QED
    BY <2>1, <2>2, <2>3, <2>4, EnqueueMessage DEF Awaiting
<1>7. CASE FailStepForGood(w)
  <2>1. PICK u \in Steps : u = workers[w].step
    BY <1>0, <1>7 DEF FailStepForGood
  <2>2. /\ steps' = [steps EXCEPT ![u] = Released(steps[u], "failed")] /\ UNCHANGED <<outbox, queue>>
        /\ deadLetters \subseteq deadLetters'
    BY <1>7, <2>1 DEF FailStepForGood
  <2>3. /\ Released(steps[u], "failed") \in Step /\ Released(steps[u], "failed").status = "failed"
        /\ Released(steps[u], "failed").attempt = steps[u].attempt
        /\ Released(steps[u], "failed").rev > steps[u].rev
    BY RowMoved
  <2>4. CASE workers[w].retriable
    <3>1. /\ ~(steps[u].attempt < MaxAttempts)
          /\ [reason |-> "retry_exhausted", step |-> u] \in deadLetters'
      BY <1>7, <2>1, <2>4 DEF FailStepForGood, MayRetry
    <3>2. steps[u].attempt >= MaxAttempts
      BY <3>1, TypeFacts, LimitAssumption DEF Step
    <3>3. steps'[u] = Released(steps[u], "failed")
      BY <2>2 DEF TypeOK
    <3>4. ExplainedByStep(u)'
      BY <2>3, <3>1, <3>2, <3>3 DEF ExplainedByStep
    <3> QED
      BY <2>2, <2>3, <3>4, StopMessage DEF Awaiting
  <2>5. CASE ~workers[w].retriable
    <3>1. run' = [run EXCEPT !.rejected = FALSE, !.status = "failed"]
      BY <1>7, <2>5 DEF FailStepForGood
    <3>2. run'.status = "failed"
      BY <3>1, RunStatusField
    <3> QED
      BY <2>2, <2>3, <3>2, StopMessage DEF Awaiting
  <2> QED
    BY <2>4, <2>5
<1> QED
  BY <1>1, <1>2, <1>3, <1>4, <1>5, <1>6, <1>7 DEF Finish

LEMMA UserMessage ==
  ASSUME TypeOK, User
  PROVE  MessageEffect
<1>1. CASE Cancel
  <2>1. CASE run.status = "running"
    <3>1. UNCHANGED <<steps, outbox, queue, deadLetters>> /\ run'.status = run.status
      BY ZenonT(60), <1>1, <2>1, RunStatusField DEF Cancel
    <3> QED
      BY <3>1, NothingMoves DEF MessageEffect
  <2>2. CASE run.status # "running"
    BY <1>1, <2>2, CancelNowIsQuiet DEF Cancel, MessageEffect
  <2> QED
    BY <2>1, <2>2
<1>2. CASE ResumeCancels
  BY <1>2, CancelNowIsQuiet DEF ResumeCancels, MessageEffect
<1>3. ASSUME NEW s \in Steps, RestartFailed(s) \/ ResumeRetryNow(s) \/ ApproveHighCost(s)
      PROVE MessageEffect
  <2>1. /\ steps' = [steps EXCEPT ![s] = Moved(steps[s], "queued")]
        /\ outbox' = Enqueue(steps', s, TRUE) /\ UNCHANGED <<queue, deadLetters>>
    BY <1>3 DEF RestartFailed, ResumeRetryNow, ApproveHighCost
  <2>2. run'.status = "queued"
    <3>1. CASE RestartFailed(s)
      <4>1. run' = [run EXCEPT !.status = "queued", !.attempt = run.attempt + 1, !.retryWait = FALSE]
        BY <3>1 DEF RestartFailed
      <4> QED
        BY <4>1, RunStatusField
    <3>2. CASE ResumeRetryNow(s)
      BY <3>2, RunStatusField DEF ResumeRetryNow
    <3>3. CASE ApproveHighCost(s)
      BY <3>3, RunStatusField DEF ApproveHighCost
    <3> QED
      BY <1>3, <3>1, <3>2, <3>3
  <2>3. /\ Moved(steps[s], "queued") \in Step /\ Moved(steps[s], "queued").status = "queued"
        /\ Moved(steps[s], "queued").attempt = steps[s].attempt
        /\ Moved(steps[s], "queued").rev > steps[s].rev
    BY RowMoved
  <2> QED
    BY <2>1, <2>2, <2>3, EnqueueMessage DEF Awaiting
<1>4. ASSUME NEW s \in Steps, ApproveMaterial(s) PROVE MessageEffect
  <2>1. QueueAfter(s, Moved(steps[s], "completed"), "queued") /\ UNCHANGED <<queue, deadLetters>>
    BY <1>4 DEF ApproveMaterial
  <2>2. /\ Moved(steps[s], "completed") \in Step /\ Moved(steps[s], "completed").status = "completed"
        /\ Moved(steps[s], "completed").attempt = steps[s].attempt
        /\ Moved(steps[s], "completed").rev > steps[s].rev
    BY RowMoved
  <2> QED
    BY <2>1, <2>2, StatusNames, QueueAfterMessage
<1>5. ASSUME NEW s \in Steps, NEW verdict \in {"rejected", "expired"}, DecisionFails(s, verdict)
      PROVE MessageEffect
  <2>1. /\ steps' = [steps EXCEPT ![s] = Moved(steps[s], "failed")]
        /\ UNCHANGED <<outbox, queue, deadLetters>>
    BY <1>5 DEF DecisionFails
  <2>2. run'.status = "failed"
    BY <1>5, RunStatusField DEF DecisionFails
  <2>3. /\ Moved(steps[s], "failed") \in Step /\ Moved(steps[s], "failed").status = "failed"
        /\ Moved(steps[s], "failed").attempt = steps[s].attempt
        /\ Moved(steps[s], "failed").rev > steps[s].rev
    BY RowMoved
  <2> QED
    BY <2>1, <2>2, <2>3, StopMessage DEF Awaiting
<1> QED
  BY <1>1, <1>2, <1>3, <1>4, <1>5 DEF User

LEMMA DispatcherMessage ==
  ASSUME TypeOK, NEW e \in outbox,
         Dispatch(e) \/ PublishFails(e) \/ PublishInterrupted(e) \/ EventAvailable(e)
  PROVE  MessageEffect
<1>0. e \in Event /\ e.tries \in Nat
  BY LimitAssumption DEF TypeOK, Event
<1>1. CASE Dispatch(e) \/ PublishInterrupted(e) \/ EventAvailable(e)
  <2>1. UNCHANGED <<steps, run, deadLetters>>
    BY <1>1 DEF Dispatch, MarkPublishing, Publish, RecoverStalePublication, RecoverOrphan,
                PublishInterrupted, EventAvailable
  <2>2. queue' \subseteq queue \cup {MessageOf(e)}
    BY <1>1 DEF Dispatch, MarkPublishing, Publish, RecoverStalePublication, RecoverOrphan,
                PublishInterrupted, EventAvailable, MaybeSent
  <2>3. \E f : /\ outbox' = Replace(e, f) /\ SameDelivery(e, f)
               /\ f.status = "dead_letter" <=> e.status = "dead_letter"
               /\ e.status = "dead_letter" => f.tries = e.tries
    <3>1. CASE MarkPublishing(e)
      BY <1>0, <3>1 DEF MarkPublishing, SameDelivery, Event
    <3>2. CASE Publish(e)
      BY <1>0, <3>2 DEF Publish, SameDelivery, Event
    <3>3. CASE RecoverStalePublication(e)
      BY <1>0, <3>3 DEF RecoverStalePublication, SameDelivery, Event
    <3>4. CASE RecoverOrphan(e)
      BY <1>0, <3>4 DEF RecoverOrphan, SameDelivery, Event
    <3>5. CASE PublishInterrupted(e)
      BY <1>0, <3>5 DEF PublishInterrupted, SameDelivery, Event
    <3>6. CASE EventAvailable(e)
      BY <1>0, <3>6 DEF EventAvailable, SameDelivery, Event
    <3> QED
      BY <1>1, <3>1, <3>2, <3>3, <3>4, <3>5, <3>6 DEF Dispatch
  <2>4. UNCHANGED steps /\ NotAbandoned
    BY <2>1 DEF NotAbandoned
  <2>5. Redelivers(e)
    BY <2>2, <2>3, <2>4 DEF Redelivers
  <2> QED
    BY <2>1, <2>5 DEF MessageEffect
<1>2. CASE PublishFails(e)
  <2>1. UNCHANGED steps /\ e.status = "publishing" /\ queue' \subseteq queue \cup {MessageOf(e)}
    BY <1>2 DEF PublishFails, MaybeSent
  <2>2. CASE e.tries < PublishLimit
    <3> DEFINE f == [e EXCEPT !.status = "failed", !.avail = FALSE, !.locked = FALSE]
    <3>1. outbox' = Replace(e, f) /\ UNCHANGED <<run, deadLetters>>
      BY <1>2, <2>2 DEF PublishFails
    <3>2. SameDelivery(e, f) /\ f.status = "failed"
      BY <1>0 DEF SameDelivery, Event
    <3> HIDE DEF f
    <3>3. Redelivers(e)
      BY <2>1, <3>1, <3>2 DEF Redelivers, NotAbandoned
    <3> QED
      BY <3>1, <3>3 DEF MessageEffect
  <2>3. CASE ~(e.tries < PublishLimit)
    <3> DEFINE f == [e EXCEPT !.status = "dead_letter", !.locked = FALSE]
    <3>1. /\ outbox' = Replace(e, f)
          /\ run' = IF run.status \in {"queued", "running", "retry_scheduled", "failed"}
                      THEN [run EXCEPT !.status = "dead_letter"] ELSE run
          /\ deadLetters' = deadLetters \cup {[reason |-> "redis_publish_exhausted", step |-> e.step]}
      BY <1>2, <2>3 DEF PublishFails
    <3>2. SameDelivery(e, f) /\ f.status = "dead_letter" /\ f.tries = e.tries
      BY <1>0 DEF SameDelivery, Event
    <3>3. f.tries >= PublishLimit
      BY <1>0, <2>3, <3>2, LimitAssumption
    <3>4. run.status \in {"queued", "running", "retry_scheduled", "failed"}
            => run'.status = "dead_letter"
      BY <3>1, RunStatusField
    <3> HIDE DEF f
    <3>5. GivesUp(e)
      BY <2>1, <3>1, <3>2, <3>3, <3>4 DEF GivesUp
    <3> QED
      BY <3>1, <3>5 DEF MessageEffect
  <2> QED
    BY <2>2, <2>3
<1> QED
  BY <1>1, <1>2

LEMMA RestMessage ==
  ASSUME TypeOK,
         \/ \E s \in Steps : RecoverExpired(s) \/ RecoveryCancels(s) \/ LeaseExpires(s)
         \/ \E m \in queue : MessageLost(m)
         \/ \E w \in Workers : WorkerCrashes(w)
         \/ RetryDelayElapses
         \/ UNCHANGED vars
  PROVE  MessageEffect
<1>1. ASSUME NEW s \in Steps, RecoverExpired(s) PROVE MessageEffect
  <2> DEFINE row == Moved(Moved(steps[s], "retry_scheduled"), "queued")
  <2>1. /\ steps' = [steps EXCEPT ![s] = row]
        /\ outbox' = Enqueue(steps', s, TRUE) /\ UNCHANGED <<queue, deadLetters>>
    BY <1>1 DEF RecoverExpired
  <2>2. run'.status = "queued"
    BY <1>1, RunStatusField DEF RecoverExpired
  <2>3. /\ Moved(steps[s], "retry_scheduled") \in Step
        /\ Moved(steps[s], "retry_scheduled").attempt = steps[s].attempt
        /\ Moved(steps[s], "retry_scheduled").rev > steps[s].rev /\ steps[s].rev \in Nat
        /\ "queued" \in StepStatus
    BY RowMoved, StatusNames
  <2>4. /\ row \in Step /\ row.status = "queued" /\ row.attempt = steps[s].attempt
        /\ row.rev = Moved(steps[s], "retry_scheduled").rev + 1
        /\ Moved(steps[s], "retry_scheduled").rev \in Nat
    BY <2>3, MovedRow, MovedRevision DEF Step
  <2>5. row.rev > steps[s].rev
    BY <2>3, <2>4
  <2> HIDE DEF row
  <2> QED
    BY <2>1, <2>2, <2>4, <2>5, EnqueueMessage DEF Awaiting
<1>2. ASSUME NEW s \in Steps, RecoveryCancels(s) PROVE MessageEffect
  BY <1>2, CancelNowIsQuiet DEF RecoveryCancels, MessageEffect
<1>3. ASSUME NEW s \in Steps, LeaseExpires(s) PROVE MessageEffect
  <2> DEFINE row == [steps[s] EXCEPT !.lease = "expired"]
  <2>1. /\ steps' = [steps EXCEPT ![s] = row] /\ UNCHANGED <<run, outbox, queue, deadLetters>>
    BY <1>3 DEF LeaseExpires, TypeOK
  <2>2. row.status = steps[s].status /\ row.attempt = steps[s].attempt /\ row.rev = steps[s].rev
    BY TypeFacts DEF Step
  <2>3. \A t \in Steps : steps[t].rev \in Nat
    BY TypeFacts DEF Step
  <2> HIDE DEF row
  <2>4. \A t \in Steps : /\ steps'[t].status = steps[t].status
                          /\ steps'[t].attempt = steps[t].attempt /\ steps'[t].rev = steps[t].rev
    BY <2>1, <2>2 DEF TypeOK
  <2> QED
    BY <2>1, <2>3, <2>4 DEF MessageEffect, Quiet, AttemptsKept, NothingStarts, NotAbandoned
<1>4. CASE \/ \E m \in queue : MessageLost(m)
           \/ \E w \in Workers : WorkerCrashes(w)
           \/ RetryDelayElapses
           \/ UNCHANGED vars
  <2>1. /\ UNCHANGED <<steps, outbox, deadLetters>> /\ queue' \subseteq queue
        /\ run'.status = run.status
    <3>1. CASE RetryDelayElapses
      BY <3>1, RunStatusField DEF RetryDelayElapses
    <3>2. CASE (\E m \in queue : MessageLost(m)) \/ (\E w \in Workers : WorkerCrashes(w))
      BY <3>2 DEF MessageLost, WorkerCrashes
    <3>3. CASE UNCHANGED vars
      BY <3>3 DEF vars
    <3> QED
      BY <1>4, <3>1, <3>2, <3>3
  <2> QED
    BY <2>1, NothingMoves DEF MessageEffect
<1> QED
  BY <1>1, <1>2, <1>3, <1>4

LEMMA TransactionMessage == ASSUME TypeOK, [Next]_vars PROVE MessageEffect
BY DeliverMessage, FinishMessage, UserMessage, DispatcherMessage, RestMessage DEF Next

-----------------------------------------------------------------------------
(* Deliveries are fenced *)

\* What a delivery d of its Step can at most carry
Behind(d) ==
  /\ d.attempt <= steps[d.step].attempt
  /\ steps[d.step].status = "running" => d.attempt < steps[d.step].attempt

\* _enqueue adds one event to be published, for the Step's revision and attempt.
LEMMA EnqueueFresh ==
  ASSUME TypeOK, TypeOK', NEW s \in Steps, NEW available \in BOOLEAN,
         outbox' = Enqueue(steps', s, available)
  PROVE  /\ outbox \subseteq outbox'
         /\ \A d \in outbox' \ outbox :
              d.step = s /\ d.attempt = steps'[s].attempt /\ d.rev = steps'[s].rev
         /\ (\A d \in outbox : d.step = s => d.rev # steps'[s].rev)
              => \E d \in outbox' : /\ d.step = s /\ d.attempt = steps'[s].attempt
                                    /\ d.status = "pending"
<1> DEFINE known == \E e \in outbox : /\ e.step = s /\ e.rev = steps'[s].rev
                                      /\ e.attempt = steps'[s].attempt
           fresh == [ step |-> s, rev |-> steps'[s].rev, attempt |-> steps'[s].attempt,
                      status |-> "pending", tries |-> 0, avail |-> available, locked |-> FALSE ]
<1>1. outbox' = IF known THEN outbox ELSE outbox \cup {fresh}
  BY DEF Enqueue
<1>2. /\ fresh.step = s /\ fresh.attempt = steps'[s].attempt /\ fresh.rev = steps'[s].rev
      /\ fresh.status = "pending"
  OBVIOUS
<1>3. (\A d \in outbox : d.step = s => d.rev # steps'[s].rev) => ~known
  OBVIOUS
<1> HIDE DEF known, fresh
<1> QED
  BY <1>1, <1>2, <1>3

\* A delivery that is behind stays behind while no Step starts.
LEMMA StaysBehind ==
  ASSUME TypeOK, AttemptsKept, NothingStarts, NEW d, d.step \in Steps, d.attempt \in Nat,
         Behind(d)
  PROVE  Behind(d)'
<1>1. /\ steps'[d.step].attempt = steps[d.step].attempt
      /\ steps'[d.step].status = "running" => steps[d.step].status = "running"
  BY DEF AttemptsKept, NothingStarts
<1> QED
  BY <1>1 DEF Behind

LEMMA FencedStep ==
  ASSUME TypeOK, TypeOK', FencedDeliveries, MessageEffect
  PROVE  FencedDeliveries'
<1>0. \A d \in outbox \cup queue : d.step \in Steps /\ d.attempt \in Nat /\ Behind(d)
  BY TypeFacts DEF FencedDeliveries, Behind
<1>1. \A t \in Steps : steps[t].attempt \in Nat /\ steps'[t].attempt \in Nat
  BY DEF TypeOK, Step
<1> SUFFICES ASSUME NEW d \in outbox' \cup queue' PROVE Behind(d)'
  BY DEF FencedDeliveries, Behind
<1>2. CASE Quiet
  <2>1. d \in outbox \cup queue
    BY <1>2 DEF Quiet
  <2> QED
    BY <1>0, <1>2, <2>1, StaysBehind DEF Quiet
<1>3. ASSUME NEW m \in queue, StartsDelivered(m) PROVE Behind(d)'
  <2>1. d \in outbox \cup queue
    BY <1>3 DEF StartsDelivered
  <2>2. CASE d.step = m.step
    <3>1. /\ d.attempt <= steps[m.step].attempt /\ d.attempt \in Nat
          /\ steps[m.step].attempt \in Nat
          /\ steps'[m.step].attempt = steps[m.step].attempt + 1
      BY <1>0, <1>1, <1>3, <2>1, <2>2 DEF Behind, StartsDelivered
    <3>2. d.attempt < steps'[m.step].attempt
      BY <3>1
    <3> QED
      BY <1>1, <2>2, <3>1, <3>2 DEF Behind
  <2>3. CASE d.step # m.step
    <3>1. steps'[d.step] = steps[d.step]
      BY <1>0, <1>3, <2>1, <2>3 DEF StartsDelivered
    <3> QED
      BY <1>0, <2>1, <3>1 DEF Behind
  <2> QED
    BY <2>2, <2>3
<1>4. ASSUME NEW s \in Steps, EnqueuesStep(s) PROVE Behind(d)'
  <2>1. CASE d \in outbox \cup queue
    BY <1>0, <1>4, <2>1, StaysBehind DEF EnqueuesStep
  <2>2. CASE d \notin outbox \cup queue
    <3>1. d \in outbox' \ outbox
      BY <1>4, <2>2 DEF EnqueuesStep
    <3>2. d.step = s /\ d.attempt = steps'[s].attempt
      BY <1>4, <3>1, EnqueueFresh DEF EnqueuesStep
    <3>3. steps'[s].status # "running"
      BY <1>4 DEF EnqueuesStep, Awaiting
    <3> QED
      BY <1>1, <3>2, <3>3 DEF Behind
  <2> QED
    BY <2>1, <2>2
<1>5. ASSUME NEW e \in outbox, Redelivers(e) \/ GivesUp(e) PROVE Behind(d)'
  <2>1. UNCHANGED steps /\ queue' \subseteq queue \cup {MessageOf(e)}
    BY <1>5 DEF Redelivers, GivesUp
  <2>2. PICK f : outbox' = Replace(e, f) /\ SameDelivery(e, f)
    BY <1>5 DEF Redelivers, GivesUp
  <2>3. \E x \in outbox \cup queue : d.step = x.step /\ d.attempt = x.attempt
    BY <2>1, <2>2 DEF Replace, SameDelivery, MessageOf
  <2> QED
    BY <1>0, <2>1, <2>3 DEF Behind
<1> QED
  BY <1>2, <1>3, <1>4, <1>5 DEF MessageEffect

\* The check of the delivered attempt in claim_step is enough of a fence: no event and no
\* message ever carries the attempt of a Step that is running, or a later one, however
\* often it is published, recovered or delivered (service.py: claim_step, _enqueue;
\* outbox.py: dispatch_batch, recover_orphaned_deliveries).
THEOREM DeliveriesAreFenced == Spec => []FencedDeliveries
<1>1. Init => FencedDeliveries
  <2> SUFFICES ASSUME Init PROVE FencedDeliveries
    OBVIOUS
  <2>1. 1 \in Steps /\ steps[1].attempt = 0 /\ steps[1].status = "queued"
    BY WorkflowAssumption DEF Init, Steps
  <2>2. \A d \in outbox \cup queue : d.step = 1 /\ d.attempt = 0
    BY DEF Init
  <2> QED
    BY <2>1, <2>2 DEF FencedDeliveries
<1>2. TypeOK /\ TypeOK' /\ FencedDeliveries /\ [Next]_vars => FencedDeliveries'
  BY TransactionMessage, FencedStep
<1> QED
  BY <1>1, <1>2, TypeCorrect, PTL DEF Spec

-----------------------------------------------------------------------------
(* Work that waits can be delivered *)

\* A dead-letter Run stays one: the table lets it become nothing else.
LEMMA DeadRunStays ==
  ASSUME Effect, run.status = "dead_letter"
  PROVE  run'.status = "dead_letter"
<1>1. \A target : ~RunMay("dead_letter", target)
  BY DEF RunMay, RunTransitions
<1>2. ~CancelsAll
  BY <1>1 DEF CancelsAll
<1>3. CASE NoChange
  BY <1>3 DEF NoChange
<1>4. ASSUME NEW s \in Steps,
             Starts(s) \/ Requeues(s) \/ CompletesExecution(s) \/ AsksForGate(s)
               \/ AsksForCost(s) \/ FailsExecution(s) \/ Grants(s) \/ Refuses(s)
      PROVE  run'.status = "dead_letter"
  <2>1. ~(Starts(s) \/ AsksForGate(s) \/ AsksForCost(s) \/ FailsExecution(s) \/ Grants(s)
            \/ Refuses(s))
    BY <1>1 DEF Starts, AsksForGate, AsksForCost, FailsExecution, Grants, Refuses
  <2>2. CASE Requeues(s)
    BY <2>2 DEF Requeues
  <2>3. CASE CompletesExecution(s)
    BY <1>1, <2>3 DEF CompletesExecution, Completes
  <2> QED
    BY <1>4, <2>1, <2>2, <2>3
<1> QED
  BY <1>2, <1>3, <1>4 DEF Effect

\* No event is ahead of its Step, so every transition makes the key of _enqueue fresh.
RevisionsBehind == \A e \in outbox : e.rev <= steps[e.step].rev

WorkInv == AgreeInv /\ RevisionsBehind /\ WorkIsNeverLost

LEMMA RevisionsStep ==
  ASSUME TypeOK, TypeOK', RevisionsBehind, MessageEffect
  PROVE  RevisionsBehind'
<1>1. \A t \in Steps : steps[t].rev \in Nat /\ steps'[t].rev \in Nat
  BY DEF TypeOK, Step
<1>2. \A e \in outbox : e.step \in Steps /\ e.rev \in Nat /\ e.rev <= steps[e.step].rev
  BY DEF TypeOK, Event, RevisionsBehind
<1>3. \A t \in Steps : steps'[t].rev >= steps[t].rev
  <2>1. ASSUME NEW m \in queue, StartsDelivered(m) PROVE \A t \in Steps : steps'[t].rev >= steps[t].rev
    <3> SUFFICES ASSUME NEW t \in Steps PROVE steps'[t].rev >= steps[t].rev
      OBVIOUS
    <3>1. CASE t = m.step
      BY <2>1, <3>1 DEF StartsDelivered
    <3>2. CASE t # m.step
      <4>1. steps'[t] = steps[t] /\ steps[t].rev \in Nat
        BY <1>1, <2>1, <3>2 DEF StartsDelivered
      <4> QED
        BY <4>1
    <3> QED
      BY <3>1, <3>2
  <2>2. ASSUME AttemptsKept PROVE \A t \in Steps : steps'[t].rev >= steps[t].rev
    BY <2>2 DEF AttemptsKept
  <2>3. ASSUME UNCHANGED steps PROVE \A t \in Steps : steps'[t].rev >= steps[t].rev
    BY <1>1, <2>3
  <2> QED
    BY <2>1, <2>2, <2>3 DEF MessageEffect, Quiet, EnqueuesStep, Redelivers, GivesUp
<1> SUFFICES ASSUME NEW d \in outbox' PROVE d.rev <= steps'[d.step].rev
  BY DEF RevisionsBehind
<1>4. \/ \E e \in outbox : d.step = e.step /\ d.rev = e.rev
      \/ \E s \in Steps : d.step = s /\ d.rev = steps'[s].rev
  <2>1. CASE d \in outbox
    BY <2>1
  <2>2. ASSUME NEW s \in Steps, EnqueuesStep(s), d \notin outbox
        PROVE  d.step = s /\ d.rev = steps'[s].rev
    BY <2>2, EnqueueFresh DEF EnqueuesStep
  <2>3. ASSUME NEW e \in outbox, Redelivers(e) \/ GivesUp(e), d \notin outbox
        PROVE  d.step = e.step /\ d.rev = e.rev
    BY <2>3 DEF Redelivers, GivesUp, Replace, SameDelivery
  <2> QED
    BY <2>1, <2>2, <2>3 DEF MessageEffect, Quiet, StartsDelivered
<1>5. CASE \E e \in outbox : d.step = e.step /\ d.rev = e.rev
  <2>1. PICK e \in outbox : d.step = e.step /\ d.rev = e.rev
    BY <1>5
  <2>2. /\ e.rev \in Nat /\ e.rev <= steps[e.step].rev /\ steps[e.step].rev \in Nat
        /\ steps'[e.step].rev \in Nat /\ steps'[e.step].rev >= steps[e.step].rev
    BY <1>1, <1>2, <1>3
  <2> QED
    BY <2>1, <2>2
<1>6. CASE \E s \in Steps : d.step = s /\ d.rev = steps'[s].rev
  BY <1>1, <1>6
<1> QED
  BY <1>4, <1>5, <1>6

\* The Step s can be delivered.
Deliverable(s) ==
  \E e \in outbox : e.step = s /\ e.attempt = steps[s].attempt /\ e.status # "dead_letter"

LEMMA WorkStep ==
  ASSUME WorkInv, TypeOK', Effect, MessageEffect
  PROVE  WorkIsNeverLost'
<1> SUFFICES ASSUME run'.status # "dead_letter",
                    NEW t \in Steps, steps'[t].status \in Awaiting
             PROVE  Deliverable(t)'
  BY DEF WorkIsNeverLost, Awaiting, Deliverable
<1>1. run.status # "dead_letter"
  BY DeadRunStays
<1>2. steps[t].status \in Awaiting => Deliverable(t)
  BY <1>1 DEF WorkInv, WorkIsNeverLost, Awaiting, Deliverable
<1>3. TypeOK /\ RunMatchesSteps /\ RevisionsBehind
  BY DEF WorkInv, AgreeInv
<1>4. CASE Quiet
  BY <1>2, <1>4 DEF Quiet, AttemptsKept, Deliverable
<1>5. ASSUME NEW m \in queue, StartsDelivered(m) PROVE Deliverable(t)'
  <2>1. t # m.step
    BY <1>5 DEF StartsDelivered, Awaiting
  <2> QED
    BY <1>2, <1>5, <2>1 DEF StartsDelivered, Deliverable
<1>6. ASSUME NEW s \in Steps, EnqueuesStep(s) PROVE Deliverable(t)'
  <2>1. PICK available \in BOOLEAN : outbox' = Enqueue(steps', s, available)
    BY <1>6 DEF EnqueuesStep
  <2>2. CASE t = s
    <3>1. \A d \in outbox : d.step = s => d.rev # steps'[s].rev
      <4> SUFFICES ASSUME NEW d \in outbox, d.step = s PROVE d.rev # steps'[s].rev
        OBVIOUS
      <4>1. /\ d.rev \in Nat /\ d.rev <= steps[s].rev
            /\ steps[s].rev \in Nat /\ steps'[s].rev \in Nat
        BY <1>3 DEF RevisionsBehind, TypeOK, Event, Step
      <4>2. steps'[s].rev > steps[s].rev
        BY <1>6 DEF EnqueuesStep
      <4> QED
        BY <4>1, <4>2
    <3> QED
      BY <1>3, <2>1, <2>2, <3>1, EnqueueFresh DEF Deliverable
  <2>3. CASE t # s
    <3>1. Deliverable(t) /\ steps'[t].attempt = steps[t].attempt
      BY <1>2, <1>6, <2>3 DEF EnqueuesStep, QueuedAlone, AttemptsKept
    <3>2. outbox \subseteq outbox'
      BY <1>3, <2>1, EnqueueFresh
    <3> QED
      BY <3>1, <3>2 DEF Deliverable
  <2> QED
    BY <2>2, <2>3
<1>7. ASSUME NEW e \in outbox, Redelivers(e) PROVE Deliverable(t)'
  <2>1. Deliverable(t) /\ UNCHANGED steps
    BY <1>2, <1>7 DEF Redelivers
  <2>2. PICK d \in outbox : /\ d.step = t /\ d.attempt = steps[t].attempt
                            /\ d.status # "dead_letter"
    BY <2>1 DEF Deliverable
  <2>3. PICK f : /\ outbox' = Replace(e, f) /\ SameDelivery(e, f)
                 /\ f.status = "dead_letter" <=> e.status = "dead_letter"
    BY <1>7 DEF Redelivers
  <2>4. CASE d = e
    <3>1. f \in outbox'
      BY <2>3 DEF Replace
    <3> QED
      BY <2>1, <2>2, <2>3, <2>4, <3>1 DEF SameDelivery, Deliverable
  <2>5. CASE d # e
    <3>1. d \in outbox'
      BY <2>3, <2>5 DEF Replace
    <3> QED
      BY <2>1, <2>2, <3>1 DEF Deliverable
  <2> QED
    BY <2>4, <2>5
<1>8. ASSUME NEW e \in outbox, GivesUp(e) PROVE FALSE
  <2>1. run.status \notin {"queued", "running", "retry_scheduled"} /\ UNCHANGED steps
    BY <1>8 DEF GivesUp
  <2>2. steps[t].status \in Awaiting
    BY <2>1
  <2> QED
    BY <1>1, <1>3, <2>1, <2>2 DEF RunMatchesSteps, Awaiting
<1> QED
  BY <1>4, <1>5, <1>6, <1>7, <1>8 DEF MessageEffect

\* Work that waits to be claimed is never lost: its event, with the attempt claim_step will
\* ask for, is in the Outbox and has not been given up, through retries, recoveries of
\* leases and orphans, interrupted publications and restarts.
THEOREM WorkStaysDeliverable == Spec => []WorkIsNeverLost
<1>1. Init => RevisionsBehind /\ WorkIsNeverLost
  <2> SUFFICES ASSUME Init PROVE RevisionsBehind /\ WorkIsNeverLost
    OBVIOUS
  <2>1. /\ 1 \in Steps /\ steps[1].attempt = 0 /\ steps[1].rev = 1
        /\ \A s \in Steps : s # 1 => steps[s].status = "pending"
    BY WorkflowAssumption DEF Init, Steps
  <2>2. \E e \in outbox : /\ outbox = {e} /\ e.step = 1 /\ e.rev = 1 /\ e.attempt = 0
                          /\ e.status = "pending"
    BY DEF Init
  <2>3. RevisionsBehind
    BY <2>1, <2>2 DEF RevisionsBehind
  <2>4. WorkIsNeverLost
    BY <2>1, <2>2 DEF WorkIsNeverLost
  <2> QED
    BY <2>3, <2>4
<1>2. AgreeInv /\ AgreeInv' /\ RevisionsBehind /\ WorkIsNeverLost /\ [Next]_vars
        => RevisionsBehind' /\ WorkIsNeverLost'
  BY TransactionEffect, TransactionMessage, RevisionsStep, WorkStep DEF WorkInv, AgreeInv
<1> QED
  BY <1>1, <1>2, AgreeInvariant, PTL DEF Spec

-----------------------------------------------------------------------------
(* A dead letter can be explained *)

ExplainedByEvent(e) ==
  /\ e.status = "dead_letter" /\ e.tries >= PublishLimit
  /\ [reason |-> "redis_publish_exhausted", step |-> e.step] \in deadLetters

\* A failed Step of a dead-letter Run is left alone: every effect needs another status.
LEMMA FailedStays ==
  ASSUME AgreeInv, Effect, run.status = "dead_letter", NEW s \in Steps, StatusOf(s) = "failed"
  PROVE  steps'[s].status = "failed"
<1>1. \A t \in Steps : t # s => StatusOf(t) \in {"completed", "pending"}
  BY OthersRest
<1>2. \A target : ~RunMay("dead_letter", target)
  BY DEF RunMay, RunTransitions
<1>3. ASSUME NEW t \in Steps
      PROVE  ~(Starts(t) \/ Requeues(t) \/ CompletesExecution(t) \/ AsksForGate(t)
                 \/ AsksForCost(t) \/ FailsExecution(t) \/ Grants(t) \/ Refuses(t))
  BY <1>1, <1>2 DEF Starts, Requeues, CompletesExecution, AsksForGate, AsksForCost,
                    FailsExecution, Grants, Refuses
<1> QED
  BY <1>2, <1>3 DEF Effect, NoChange, CancelsAll

LEMMA ExplainedStep ==
  ASSUME AgreeInv, TypeOK', DeadLetterExplained, Effect, MessageEffect
  PROVE  DeadLetterExplained'
<1> SUFFICES ASSUME run'.status = "dead_letter"
             PROVE  (\E s \in Steps : ExplainedByStep(s)') \/ \E e \in outbox' : ExplainedByEvent(e)'
  BY DEF DeadLetterExplained, ExplainedByStep, ExplainedByEvent
<1>0. TypeOK /\ deadLetters \subseteq deadLetters'
  BY DEF AgreeInv, MessageEffect
<1>1. ASSUME NEW e \in outbox, GivesUp(e) PROVE \E d \in outbox' : ExplainedByEvent(d)'
  <2>1. PICK f : /\ outbox' = Replace(e, f) /\ SameDelivery(e, f)
                 /\ f.status = "dead_letter" /\ f.tries >= PublishLimit
    BY <1>1 DEF GivesUp
  <2>2. f \in outbox' /\ f.step = e.step
    BY <2>1 DEF Replace, SameDelivery
  <2>3. [reason |-> "redis_publish_exhausted", step |-> f.step] \in deadLetters'
    BY <1>1, <2>2 DEF GivesUp
  <2> QED
    BY <2>1, <2>2, <2>3 DEF ExplainedByEvent
<1>2. CASE run.status # "dead_letter"
  <2>1. ~NotAbandoned
    BY <1>2 DEF NotAbandoned
  <2> QED
    BY <1>1, <2>1 DEF MessageEffect, Quiet, StartsDelivered, EnqueuesStep, Redelivers
<1>3. ASSUME run.status = "dead_letter", NEW s \in Steps, ExplainedByStep(s)
      PROVE  ExplainedByStep(s)'
  <2>1. steps'[s].status = "failed"
    BY <1>3, FailedStays DEF ExplainedByStep, StatusOf
  <2>2. steps'[s].attempt = steps[s].attempt
    BY <1>3 DEF MessageEffect, Quiet, StartsDelivered, EnqueuesStep, Redelivers, GivesUp,
                AttemptsKept
  <2> QED
    BY <1>0, <1>3, <2>1, <2>2 DEF ExplainedByStep
<1>4. ASSUME run.status = "dead_letter", NEW d \in outbox, ExplainedByEvent(d)
      PROVE  \E x \in outbox' : ExplainedByEvent(x)'
  <2>1. ASSUME NEW x, x \in outbox', x.status = "dead_letter", x.tries = d.tries, x.step = d.step
        PROVE  \E y \in outbox' : ExplainedByEvent(y)'
    BY <1>0, <1>4, <2>1 DEF ExplainedByEvent
  <2>2. CASE d \in outbox'
    BY <1>4, <2>1, <2>2 DEF ExplainedByEvent
  <2>3. CASE d \notin outbox'
    <3>1. ASSUME NEW t \in Steps, EnqueuesStep(t) PROVE FALSE
      BY <1>0, <2>3, <3>1, EnqueueFresh DEF EnqueuesStep
    <3>2. ~Quiet /\ \A m \in queue : ~StartsDelivered(m)
      BY <2>3 DEF Quiet, StartsDelivered
    <3>3. PICK e \in outbox : Redelivers(e) \/ GivesUp(e)
      BY <3>1, <3>2 DEF MessageEffect
    <3>4. CASE GivesUp(e)
      BY <1>1, <3>4
    <3>5. CASE Redelivers(e)
      <4>1. PICK f : /\ outbox' = Replace(e, f) /\ SameDelivery(e, f)
                     /\ f.status = "dead_letter" <=> e.status = "dead_letter"
                     /\ e.status = "dead_letter" => f.tries = e.tries
        BY <3>5 DEF Redelivers
      <4>2. d = e /\ f \in outbox'
        BY <2>3, <4>1 DEF Replace
      <4> QED
        BY <1>4, <2>1, <4>1, <4>2 DEF ExplainedByEvent, SameDelivery
    <3> QED
      BY <3>3, <3>4, <3>5
  <2> QED
    BY <2>2, <2>3
<1> QED
  BY <1>2, <1>3, <1>4 DEF DeadLetterExplained, ExplainedByStep, ExplainedByEvent

\* Whoever finds a Run in dead_letter finds the reason with it: a Step that used up its
\* attempts or an event that used up its publications, and the record of it (service.py:
\* fail_step; outbox.py: _record_publish_failure).
THEOREM DeadLetterHasReason == Spec => []DeadLetterExplained
<1>1. Init => DeadLetterExplained
  BY DEF Init, DeadLetterExplained
<1>2. AgreeInv /\ AgreeInv' /\ DeadLetterExplained /\ [Next]_vars => DeadLetterExplained'
  BY TransactionEffect, TransactionMessage, ExplainedStep DEF AgreeInv
<1> QED
  BY <1>1, <1>2, AgreeInvariant, PTL DEF Spec

-----------------------------------------------------------------------------
(* AgentRuns implements RunContract: every transaction of every actor is a   *)
(* step of the contract or invisible to it.  The mapping counts the          *)
(* completed Steps, so they have to be an initial segment; Progress says so. *)

\* The Steps up to k are completed and no others.
CompletedTo(k) == \A s \in Steps : steps[s].status = "completed" <=> s <= k

Progress == \E k \in 0 .. N : CompletedTo(k)

ContractInv == AgreeInv /\ WaitStepsOnlyWait /\ Progress

-----------------------------------------------------------------------------
(* The refinement mapping *)

\* What is chosen as the number of completed Steps is that number.
LEMMA ChosenDone ==
  ASSUME NEW st, NEW k \in 0 .. N, \A s \in Steps : st[s].status = "completed" <=> s <= k
  PROVE  (CHOOSE j \in 0 .. N : \A s \in Steps : st[s].status = "completed" <=> s <= j) = k
<1> DEFINE P(j) == \A s \in Steps : st[s].status = "completed" <=> s <= j
           c == CHOOSE j \in 0 .. N : P(j)
<1>1. k \in 0 .. N /\ P(k)
  OBVIOUS
<1>2. c \in 0 .. N /\ P(c)
  <2> HIDE DEF P
  <2> QED
    BY <1>1
<1>3. c = k
  <2>1. k \in Steps => k <= c
    BY <1>2
  <2>2. c \in Steps => c <= k
    BY <1>2
  <2> HIDE DEF P, c
  <2> QED
    BY <1>2, <2>1, <2>2, WorkflowAssumption DEF Steps
<1> QED
  BY <1>3

LEMMA DoneIs ==
  ASSUME NEW k \in 0 .. N
  PROVE  /\ CompletedTo(k) => Done = k
         /\ CompletedTo(k)' => Done' = k
<1>1. CompletedTo(k) => Done = k
  BY ChosenDone DEF CompletedTo, Done
<1>2. CompletedTo(k)' => Done' = k
  BY ChosenDone DEF CompletedTo, Done
<1> QED
  BY <1>1, <1>2

LEMMA PhaseIs ==
  /\ run.status \in {"queued", "running", "retry_scheduled"} => Phase = "active"
  /\ run.status = "waiting_for_approval" => Phase = "waiting"
  /\ run.status = "dead_letter" => Phase = "abandoned"
  /\ run.status = "failed" => Phase = "failed"
  /\ run.status = "completed" => Phase = "completed"
  /\ run.status = "cancelled" => Phase = "cancelled"
BY DEF Phase

LEMMA NextPhaseIs ==
  /\ run'.status \in {"queued", "running", "retry_scheduled"} => Phase' = "active"
  /\ run'.status = "waiting_for_approval" => Phase' = "waiting"
  /\ run'.status = "dead_letter" => Phase' = "abandoned"
  /\ run'.status = "failed" => Phase' = "failed"
  /\ run'.status = "completed" => Phase' = "completed"
  /\ run'.status = "cancelled" => Phase' = "cancelled"
BY DEF Phase

-----------------------------------------------------------------------------
(* The Step in progress is the next piece of work *)

LEMMA InProgressIsNext ==
  ASSUME ContractInv, NEW s \in Steps, StatusOf(s) \notin {"pending", "cancelled", "completed"},
         NEW k \in 0 .. N, CompletedTo(k)
  PROVE  s = k + 1
<1>1. ~(s <= k)
  BY DEF CompletedTo, StatusOf
<1>2. \A t \in Steps : t < s => t <= k
  BY InProgressAlone DEF CompletedTo, StatusOf, ContractInv, AgreeInv
<1>3. CASE s = 1
  BY <1>1, <1>3
<1>4. CASE s # 1
  <2>1. s - 1 \in Steps /\ s - 1 < s
    BY <1>4, WorkflowAssumption DEF Steps
  <2>2. s - 1 <= k
    BY <1>2, <2>1
  <2> QED
    BY <1>1, <2>2 DEF Steps
<1> QED
  BY <1>3, <1>4

\* It moves without being completed: the count stays.
LEMMA CountStays ==
  ASSUME ContractInv, NEW s \in Steps, StatusOf(s) \notin {"pending", "cancelled", "completed"},
         NEW target, target # "completed", Becomes(s, target), NEW k \in 0 .. N, CompletedTo(k)
  PROVE  CompletedTo(k)'
<1>1. \A t \in Steps : steps'[t].status = "completed" <=> steps[t].status = "completed"
  BY DEF Becomes, StatusOf
<1> QED
  BY <1>1 DEF CompletedTo

\* It is completed, and its successor is not.
LEMMA CountGrows ==
  ASSUME ContractInv, NEW s \in Steps, StatusOf(s) \notin {"pending", "cancelled", "completed"},
         NEW k \in 0 .. N, CompletedTo(k),
         \/ Becomes(s, "completed")
         \/ \E target : target # "completed" /\ BecomeBoth(s, "completed", target)
  PROVE  s = k + 1 /\ s \in 0 .. N /\ CompletedTo(s)'
<1>1. s = k + 1 /\ s \in 0 .. N
  BY InProgressIsNext DEF Steps
<1>2. \A t \in Steps : t # s => StatusOf(t) \in {"completed", "pending"}
  BY OthersRest DEF ContractInv
<1>3. /\ steps'[s].status = "completed"
      /\ \A t \in Steps : t < s => steps'[t].status = "completed"
      /\ \A t \in Steps : s < t => steps'[t].status # "completed"
  <2>1. \A t \in Steps : t < s => StatusOf(t) = "completed" /\ t # s /\ t # s + 1
    BY <1>1 DEF CompletedTo, StatusOf, Steps
  <2>2. \A t \in Steps : s < t => StatusOf(t) # "completed" /\ t # s
    BY <1>1 DEF CompletedTo, StatusOf, Steps
  <2>3. s # s + 1
    BY DEF Steps
  <2> QED
    BY <2>1, <2>2, <2>3 DEF Becomes, BecomeBoth, StatusOf
<1>4. \A t \in Steps : t < s \/ t = s \/ s < t
  BY Comparable
<1> QED
  BY <1>1, <1>3, <1>4 DEF CompletedTo, Steps

-----------------------------------------------------------------------------
(* Every effect is a step of the contract *)

ContractStep == [Contract!Next]_<<Phase, Done>>

LEMMA StepsOfContract ==
  ASSUME ContractInv, Effect
  PROVE  Progress' /\ ContractStep
<1> USE DEF ContractStep
<1>0. PICK k \in 0 .. N : CompletedTo(k)
  BY DEF ContractInv, Progress
<1>1. Done = k /\ (CompletedTo(k)' => Done' = k /\ Progress')
  BY <1>0, DoneIs DEF Progress
<1>2. \A target : ~RunMay("dead_letter", target)
  BY DEF RunMay, RunTransitions
<1>3. CASE NoChange
  <2>1. CompletedTo(k)'
    BY <1>0, <1>3 DEF NoChange, CompletedTo, StatusOf
  <2>2. CASE run'.status = run.status
    <3>1. Phase' = Phase
      BY <2>2 DEF Phase
    <3> QED
      BY <1>1, <2>1, <3>1
  <2>3. CASE run.status \in {"queued", "running", "retry_scheduled", "failed"}
               /\ run'.status = "dead_letter"
    <3>1. Contract!Abandon
      BY <1>1, <2>1, <2>3, PhaseIs, NextPhaseIs DEF Contract!Abandon
    <3> QED
      BY <1>1, <2>1, <3>1 DEF Contract!Next
  <2> QED
    BY <1>3, <2>2, <2>3 DEF NoChange
<1>4. CASE CancelsAll
  <2>1. \A t \in Steps : steps'[t].status = "completed" <=> steps[t].status = "completed"
    BY <1>4 DEF CancelsAll, SettledStep, StatusOf
  <2>2. CompletedTo(k)'
    BY <1>0, <2>1 DEF CompletedTo
  <2>3. run.status \in {"queued", "running", "retry_scheduled", "waiting_for_approval", "failed"}
    <3>1. run.status \in RunStatus
      BY TypeFacts DEF ContractInv, AgreeInv
    <3>2. RunMay(run.status, "cancelled")
      BY <1>4 DEF CancelsAll
    <3> QED
      BY <3>1, <3>2 DEF RunMay, RunTransitions, RunStatus
  <2>4. Contract!Cancel
    BY <1>1, <1>4, <2>2, <2>3, PhaseIs, NextPhaseIs DEF Contract!Cancel, CancelsAll
  <2> QED
    BY <1>1, <2>2, <2>4 DEF Contract!Next
<1>5. ASSUME NEW s \in Steps, Starts(s) PROVE Progress' /\ ContractStep
  <2>1. CompletedTo(k)'
    BY <1>0, <1>5, CountStays DEF Starts
  <2>2. Phase = "active" /\ Phase' = "active"
    BY <1>5, PhaseIs, NextPhaseIs DEF Starts
  <2> QED
    BY <1>1, <2>1, <2>2
<1>6. ASSUME NEW s \in Steps, Requeues(s) PROVE Progress' /\ ContractStep
  <2>1. CompletedTo(k)' /\ s = k + 1
    BY <1>0, <1>6, CountStays, InProgressIsNext DEF Requeues
  <2>2. CASE run.status = "failed"
    <3>1. Contract!Restart
      BY <1>1, <1>6, <2>1, <2>2, PhaseIs, NextPhaseIs DEF Contract!Restart, Requeues
    <3> QED
      BY <1>1, <2>1, <3>1 DEF Contract!Next
  <2>3. CASE run.status # "failed"
    <3>1. Phase' = Phase
      BY <1>6, <2>3, PhaseIs, NextPhaseIs DEF Requeues
    <3> QED
      BY <1>1, <2>1, <3>1
  <2> QED
    BY <2>2, <2>3
<1>7. ASSUME NEW s \in Steps, CompletesExecution(s) PROVE Progress' /\ ContractStep
  <2>1. s \notin WaitSteps /\ s + 1 \notin WaitSteps
    BY <1>7, WorkflowFacts DEF CompletesExecution, ContractInv, WaitStepsOnlyWait, StatusOf
  <2>2. s = k + 1 /\ CompletedTo(s)' /\ s \in 0 .. N
    BY <1>0, <1>7, CountGrows DEF CompletesExecution, Completes
  <2>3. Done' = s /\ Progress'
    BY <2>2, DoneIs DEF Progress
  <2>4. CASE run.status = "running"
    <3>1. Phase = "active" /\ Phase' = IF s = N THEN "completed" ELSE "active"
      BY <1>7, <2>4, PhaseIs, NextPhaseIs DEF CompletesExecution, Completes
    <3>2. Contract!Work
      BY <1>1, <2>1, <2>2, <2>3, <3>1 DEF Contract!Work
    <3> QED
      BY <2>3, <3>2 DEF Contract!Next
  <2>5. CASE run.status = "dead_letter"
    <3>1. s # N /\ Phase = "abandoned" /\ Phase' = "abandoned"
      BY <1>2, <1>7, <2>5, PhaseIs, NextPhaseIs DEF CompletesExecution, Completes
    <3>2. k + 1 < N
      BY <2>2, <3>1, WorkflowAssumption DEF Steps
    <3>3. Contract!Straggle
      BY <1>1, <2>1, <2>2, <2>3, <3>1, <3>2 DEF Contract!Straggle
    <3> QED
      BY <2>3, <3>3 DEF Contract!Next
  <2>6. run.status \in {"running", "dead_letter"}
    BY <1>7 DEF CompletesExecution, ContractInv, AgreeInv, RunMatchesSteps, StatusOf
  <2> QED
    BY <2>4, <2>5, <2>6
<1>8. ASSUME NEW s \in Steps, StatusOf(s) = "running", run.status # "dead_letter"
      PROVE Phase = "active"
  BY <1>8, PhaseIs DEF ContractInv, AgreeInv, RunMatchesSteps, StatusOf
<1>9. ASSUME NEW s \in Steps, AsksForGate(s) PROVE Progress' /\ ContractStep
  <2>1. s \notin WaitSteps /\ s + 1 \in WaitSteps /\ s # N
    BY <1>9, WorkflowFacts, WaitStep DEF AsksForGate, WaitSteps, Steps
  <2>2. s = k + 1 /\ CompletedTo(s)' /\ s \in 0 .. N
    BY <1>0, <1>9, CountGrows DEF AsksForGate
  <2>3. Done' = s /\ Progress'
    BY <2>2, DoneIs DEF Progress
  <2>4. Phase = "active" /\ Phase' = "waiting"
    BY <1>2, <1>8, <1>9, NextPhaseIs DEF AsksForGate
  <2>5. Contract!Work
    BY <1>1, <2>1, <2>2, <2>3, <2>4 DEF Contract!Work
  <2> QED
    BY <2>3, <2>5 DEF Contract!Next
<1>10. ASSUME NEW s \in Steps, AsksForCost(s) PROVE Progress' /\ ContractStep
  <2>1. CompletedTo(k)'
    BY <1>0, <1>10, CountStays DEF AsksForCost
  <2>2. Phase = "active" /\ Phase' = "waiting"
    BY <1>2, <1>8, <1>10, NextPhaseIs DEF AsksForCost
  <2>3. Contract!AskPermission
    BY <1>1, <2>1, <2>2 DEF Contract!AskPermission
  <2> QED
    BY <1>1, <2>1, <2>3 DEF Contract!Next
<1>11. ASSUME NEW s \in Steps, FailsExecution(s) PROVE Progress' /\ ContractStep
  <2>1. CompletedTo(k)'
    BY <1>0, <1>11, CountStays DEF FailsExecution
  <2>2. Phase = "active" /\ Phase' \in {"active", "failed", "abandoned"}
    BY <1>2, <1>8, <1>11, NextPhaseIs DEF FailsExecution
  <2>3. UNCHANGED <<Phase, Done>> \/ Contract!Fail \/ Contract!Abandon
    BY <1>1, <2>1, <2>2 DEF Contract!Fail, Contract!Abandon
  <2> QED
    BY <1>1, <2>1, <2>3 DEF Contract!Next
<1>12. ASSUME NEW s \in Steps, Grants(s) PROVE Progress' /\ ContractStep
  <2>1. Phase = "waiting"
    BY <1>12, PhaseIs DEF Grants, ContractInv, AgreeInv, RunMatchesSteps, StatusOf
  <2>2. s = k + 1
    BY <1>0, <1>12, InProgressIsNext DEF Grants
  <2>3. CASE s \in ModelSteps /\ Becomes(s, "queued") /\ run'.status = "queued"
    <3>1. CompletedTo(k)' /\ s \notin WaitSteps /\ Phase' = "active"
      BY <1>0, <1>12, <2>3, CountStays, WorkflowFacts, NextPhaseIs DEF Grants
    <3>2. Contract!Grant
      BY <1>1, <2>1, <2>2, <3>1 DEF Contract!Grant
    <3> QED
      BY <1>1, <3>1, <3>2 DEF Contract!Next
  <2>4. CASE s \in WaitSteps /\ Completes(s, "queued")
    <3>1. CompletedTo(s)' /\ s \in 0 .. N
      BY <1>0, <1>12, <2>4, CountGrows DEF Grants, Completes
    <3>2. Done' = s /\ Progress'
      BY <3>1, DoneIs DEF Progress
    <3>3. Phase' = "active"
      BY <2>4, WorkflowFacts, NextPhaseIs DEF Completes
    <3>4. Contract!Grant
      BY <1>1, <2>1, <2>2, <2>4, <3>2, <3>3 DEF Contract!Grant
    <3> QED
      BY <3>2, <3>4 DEF Contract!Next
  <2> QED
    BY <1>12, <2>3, <2>4 DEF Grants
<1>13. ASSUME NEW s \in Steps, Refuses(s) PROVE Progress' /\ ContractStep
  <2>1. CompletedTo(k)'
    BY <1>0, <1>13, CountStays DEF Refuses
  <2>2. Phase = "waiting" /\ Phase' = "failed"
    BY <1>13, PhaseIs, NextPhaseIs
    DEF Refuses, ContractInv, AgreeInv, RunMatchesSteps, StatusOf
  <2>3. Contract!Fail
    BY <1>1, <2>1, <2>2 DEF Contract!Fail
  <2> QED
    BY <1>1, <2>1, <2>3 DEF Contract!Next
<1> QED
  BY <1>3, <1>4, <1>5, <1>6, <1>7, <1>9, <1>10, <1>11, <1>12, <1>13 DEF Effect

\* What the owner is promised: the pieces of work are done in order and once, gates open by
\* approval alone, and a settled Run stays settled, whatever workers, messages, leases,
\* crashes, retries and restarts do underneath (service.py, workflow.py, outbox.py).
THEOREM RunImplementsContract == Spec => ImplementsContract
<1>1. Init => WaitStepsOnlyWait /\ Progress /\ Contract!Init
  <2> SUFFICES ASSUME Init PROVE WaitStepsOnlyWait /\ Progress /\ Contract!Init
    OBVIOUS
  <2>1. WaitStepsOnlyWait
    BY WorkflowAssumption DEF Init, WaitStepsOnlyWait, Steps
  <2>2. 0 \in 0 .. N /\ CompletedTo(0)
    BY WorkflowAssumption DEF Init, CompletedTo, Steps
  <2>3. Done = 0 /\ Progress
    BY <2>2, DoneIs DEF Progress
  <2>4. run.status = "queued"
    BY DEF Init
  <2>5. Phase = "active"
    BY <2>4, PhaseIs
  <2> QED
    BY <2>1, <2>3, <2>5 DEF Contract!Init
<1>2. AgreeInv /\ WaitStepsOnlyWait /\ Progress /\ [Next]_vars
        => Progress' /\ [Contract!Next]_<<Phase, Done>>
  BY TransactionEffect, StepsOfContract DEF ContractInv, AgreeInv, ContractStep
<1>3. AgreeInv /\ WaitStepsOnlyWait /\ GatesWereApproved /\ [Next]_vars
        => WaitStepsOnlyWait' /\ GatesWereApproved'
  BY TransactionEffect, GateStep DEF GateInv, AgreeInv
<1>4. Init => GatesWereApproved
  BY WorkflowFacts DEF Init, GatesWereApproved
<1> QED
  BY <1>1, <1>2, <1>3, <1>4, AgreeInvariant, PTL DEF Spec, ImplementsContract, Contract!Spec

-----------------------------------------------------------------------------
(* Extra executions are paid for by faults: the Material Versions of a     *)
(* Step never outnumber one plus the faults so far.                        *)
(*                                                                         *)
(* Versions alone are not inductive.  The invariant bills a Step for the   *)
(* Versions it committed, for every worker that holds a claim of it and    *)
(* may still commit one, and for the claim that may come next.             *)

\* The workers that hold a claim of Step s and may still commit its work
Executors(s) == {w \in Workers : workers[w].pc = "claimed" /\ workers[w].step = s}

\* Without a fault Step s is not claimed again: it is settled, or the worker that
\* owns it is still at work under its lease.
Spent(s) ==
  \/ steps[s].status \in SettledStep
  \/ /\ steps[s].status = "running" /\ steps[s].lease = "live"
     /\ \E w \in Executors(s) : workers[w].token = steps[s].token

Bill(s) == versions[s] + Cardinality(Executors(s)) + (IF Spent(s) THEN 0 ELSE 1)

\* Every claim of a Step draws a token of its own.
TokensDiffer ==
  \A w \in Workers : workers[w].step \in Steps =>
    /\ workers[w].token <= steps[workers[w].step].attempt
    /\ \A v \in Workers : v # w /\ workers[v].step = workers[w].step
                            => workers[v].token # workers[w].token

BillsPaid == \A s \in Steps : IsFiniteSet(Executors(s)) /\ Bill(s) <= 1 + faults

ExecutionInv == TypeOK /\ TokensDiffer /\ BillsPaid

-----------------------------------------------------------------------------
(* Workers and tokens *)

LEMMA WorkerFacts ==
  ASSUME TypeOK, NEW w \in Workers
  PROVE  /\ workers[w].token \in Nat
         /\ workers[w].step \in Steps => workers[w].pc \in {"claimed", "failing"}
         /\ workers[w].pc \in {"claimed", "failing"} => workers[w].step \in Steps
         /\ workers[w] # Idle => workers[w].step \in Steps
         /\ Idle.step \notin Steps /\ Idle.pc = "idle"
<1>1. Idle.step \notin Steps /\ Idle.pc = "idle" /\ Idle.token \in Nat
  BY DEF Idle, Steps
<1>2. workers[w] \in Worker
  BY DEF TypeOK
<1>3. CASE workers[w] = Idle
  BY <1>1, <1>3
<1>4. CASE workers[w] # Idle
  <2>1. workers[w] \in [pc: {"claimed", "failing"}, step: Steps, token: Nat, retriable: BOOLEAN]
    BY <1>2, <1>4 DEF Worker
  <2> QED
    BY <1>1, <2>1
<1> QED
  BY <1>3, <1>4

\* The execution raises: the worker keeps its Step and its token.
LEMMA RaisingWorker ==
  ASSUME TypeOK, NEW w \in Workers, ExecutionRaises(w)
  PROVE  /\ workers'[w].pc = "failing" /\ workers'[w].step = workers[w].step
         /\ workers'[w].token = workers[w].token
         /\ \A v \in Workers : v # w => workers'[v] = workers[v]
<1>1. workers[w] \in [pc: {"claimed", "failing"}, step: Steps, token: Nat, retriable: BOOLEAN]
  BY BusyWorker DEF ExecutionRaises
<1>2. PICK b \in BOOLEAN :
        workers' = [workers EXCEPT ![w] = [[workers[w] EXCEPT !.pc = "failing"]
                                             EXCEPT !.retriable = b]]
  BY DEF ExecutionRaises, TypeOK
<1>3. workers'[w] = [[workers[w] EXCEPT !.pc = "failing"] EXCEPT !.retriable = b]
  BY <1>2 DEF TypeOK
<1>4. \A v \in Workers : v # w => workers'[v] = workers[v]
  BY <1>2 DEF TypeOK
<1> QED
  BY <1>1, <1>3, <1>4

\* What a transaction does to the workers other than a claim
NoClaim ==
  \A w \in Workers : workers'[w].step \in Steps =>
    workers'[w].step = workers[w].step /\ workers'[w].token = workers[w].token

LEMMA IdleWorker ==
  ASSUME TypeOK, NEW w \in Workers, GoIdle(w)
  PROVE  /\ NoClaim
         /\ \A v \in Workers : v # w => workers'[v] = workers[v]
         /\ \A s \in Steps : Executors(s)' = Executors(s) \ {w}
<1>1. workers'[w] = Idle /\ \A v \in Workers : v # w => workers'[v] = workers[v]
  BY DEF GoIdle, TypeOK
<1>2. Idle.step \notin Steps /\ Idle.pc = "idle"
  BY WorkerFacts
<1> QED
  BY <1>1, <1>2 DEF NoClaim, Executors

LEMMA ClaimingWorker ==
  ASSUME TypeOK, NEW w \in Workers, NEW m \in queue, Claim(w, m)
  PROVE  /\ workers[w] = Idle
         /\ workers'[w].pc = "claimed" /\ workers'[w].step = m.step
         /\ workers'[w].token = steps[m.step].attempt + 1
         /\ \A v \in Workers : v # w => workers'[v] = workers[v]
         /\ steps'[m.step].status = "running" /\ steps'[m.step].lease = "live"
         /\ steps'[m.step].token = steps[m.step].attempt + 1
         /\ steps'[m.step].attempt = steps[m.step].attempt + 1
         /\ \A t \in Steps : t # m.step => steps'[t] = steps[t]
<1>0. m.step \in Steps /\ steps[m.step] \in Step
  BY TypeFacts
<1> DEFINE old == IF RetryDue(m.step) THEN Moved(steps[m.step], "queued") ELSE steps[m.step]
           row == Started(old)
<1>1. old \in Step /\ old.attempt = steps[m.step].attempt
  BY <1>0, StatusNames, MovedRow
<1>2. /\ row.status = "running" /\ row.attempt = steps[m.step].attempt + 1
      /\ row.token = steps[m.step].attempt + 1
  BY <1>1, StartedRow
<1>3. row.lease = "live"
  BY <1>1 DEF Started, Moved, Step
<1>4. /\ workers[w] = Idle /\ steps' = [steps EXCEPT ![m.step] = row]
      /\ workers' = [workers EXCEPT ![w] = [pc |-> "claimed", step |-> m.step,
                                            token |-> row.token, retriable |-> FALSE]]
  BY DEF Claim
<1> HIDE DEF row, old
<1>5. steps'[m.step] = row /\ \A t \in Steps : t # m.step => steps'[t] = steps[t]
  BY <1>0, <1>4 DEF TypeOK
<1>6. /\ workers'[w] = [pc |-> "claimed", step |-> m.step, token |-> row.token,
                        retriable |-> FALSE]
      /\ \A v \in Workers : v # w => workers'[v] = workers[v]
  BY <1>4 DEF TypeOK
<1> QED
  BY <1>2, <1>3, <1>4, <1>5, <1>6

LEMMA WorkersMove ==
  ASSUME TypeOK, [Next]_vars
  PROVE  NoClaim \/ \E w \in Workers, m \in queue : Claim(w, m)
<1>1. ASSUME NEW w \in Workers, Finish(w) \/ WorkerCrashes(w) PROVE NoClaim
  <2>1. CASE ExecutionRaises(w)
    BY <2>1, RaisingWorker DEF NoClaim
  <2>2. CASE GoIdle(w)
    BY <2>2, IdleWorker
  <2> QED
    BY <1>1, <2>1, <2>2
    DEF Finish, WorkerCrashes, RequestHighCostApproval, CompleteStep, CompleteRequestStep,
        CompletionCancels, CompletionRefused, FailStepForRetry, FailStepForGood, FailureDropped
<1>2. ASSUME UNCHANGED workers PROVE NoClaim
  BY <1>2 DEF NoClaim
<1>3. ASSUME NEW m \in queue, DeliveryCancels(m) \/ DeliveryRequeuesDeadRun(m)
                                \/ DeliveryIgnored(m) \/ MessageLost(m)
      PROVE UNCHANGED workers
  BY <1>3 DEF DeliveryCancels, DeliveryRequeuesDeadRun, DeliveryIgnored, MessageLost
<1>4. ASSUME NEW e \in outbox, Dispatch(e) \/ PublishFails(e) \/ PublishInterrupted(e)
                                 \/ EventAvailable(e)
      PROVE UNCHANGED workers
  BY <1>4 DEF Dispatch, MarkPublishing, Publish, RecoverStalePublication, RecoverOrphan,
              PublishFails, PublishInterrupted, EventAvailable
<1>5. ASSUME User PROVE UNCHANGED workers
  BY <1>5 DEF User, Cancel, ResumeCancels, RestartFailed, ResumeRetryNow, ApproveHighCost,
              ApproveMaterial, DecisionFails
<1>6. ASSUME NEW s \in Steps, RecoverExpired(s) \/ RecoveryCancels(s) \/ LeaseExpires(s)
      PROVE UNCHANGED workers
  BY <1>6 DEF RecoverExpired, RecoveryCancels, LeaseExpires
<1>7. ASSUME RetryDelayElapses \/ UNCHANGED vars PROVE UNCHANGED workers
  BY <1>7 DEF RetryDelayElapses, vars
<1> QED
  BY <1>1, <1>2, <1>3, <1>4, <1>5, <1>6, <1>7 DEF Next, Deliver

LEMMA AttemptsGrow ==
  ASSUME TypeOK, TypeOK', MessageEffect, NEW t \in Steps
  PROVE  /\ steps[t].attempt \in Nat /\ steps'[t].attempt \in Nat
         /\ steps[t].attempt <= steps'[t].attempt
<1>1. steps[t].attempt \in Nat /\ steps'[t].attempt \in Nat
  BY DEF TypeOK, Step
<1>2. ASSUME NEW m \in queue, StartsDelivered(m) PROVE steps[t].attempt <= steps'[t].attempt
  <2>1. CASE t = m.step
    BY <1>1, <1>2, <2>1 DEF StartsDelivered
  <2>2. CASE t # m.step
    BY <1>1, <1>2, <2>2 DEF StartsDelivered
  <2> QED
    BY <2>1, <2>2
<1>3. steps'[t].attempt = steps[t].attempt => steps[t].attempt <= steps'[t].attempt
  BY <1>1
<1>4. steps'[t].attempt = steps[t].attempt \/ \E m \in queue : StartsDelivered(m)
  BY DEF MessageEffect, Quiet, EnqueuesStep, Redelivers, GivesUp, AttemptsKept
<1> QED
  BY <1>1, <1>2, <1>3, <1>4

\* The token of a claim is the Step's new attempt, and attempts only grow.
LEMMA TokensStep ==
  ASSUME TypeOK, TypeOK', TokensDiffer, [Next]_vars
  PROVE  TokensDiffer'
<1>0. MessageEffect
  BY TransactionMessage
<1>1. CASE NoClaim
  <2> SUFFICES ASSUME NEW w \in Workers, workers'[w].step \in Steps
               PROVE  /\ workers'[w].token <= steps'[workers'[w].step].attempt
                      /\ \A v \in Workers : v # w /\ workers'[v].step = workers'[w].step
                                              => workers'[v].token # workers'[w].token
    BY DEF TokensDiffer
  <2>1. workers'[w].step = workers[w].step /\ workers'[w].token = workers[w].token
    BY <1>1 DEF NoClaim
  <2>2. workers[w].token <= steps[workers[w].step].attempt /\ workers[w].token \in Nat
    BY <2>1, WorkerFacts DEF TokensDiffer
  <2>3. workers'[w].token <= steps'[workers'[w].step].attempt
    <3>1. PICK t \in Steps : t = workers[w].step
      BY <2>1
    <3> QED
      BY <1>0, <2>1, <2>2, <3>1, AttemptsGrow
  <2>4. ASSUME NEW v \in Workers, v # w, workers'[v].step = workers'[w].step
        PROVE  workers'[v].token # workers'[w].token
    <3>1. workers'[v].step = workers[v].step /\ workers'[v].token = workers[v].token
      BY <1>1, <2>4 DEF NoClaim
    <3> QED
      BY <2>1, <2>4, <3>1 DEF TokensDiffer
  <2> QED
    BY <2>3, <2>4
<1>2. ASSUME NEW x \in Workers, NEW m \in queue, Claim(x, m) PROVE TokensDiffer'
  <2>1. /\ workers'[x].step = m.step /\ workers'[x].token = steps'[m.step].attempt
        /\ steps'[m.step].attempt = steps[m.step].attempt + 1
        /\ m.step \in Steps /\ steps[m.step].attempt \in Nat
        /\ \A v \in Workers : v # x => workers'[v] = workers[v]
    BY <1>2, ClaimingWorker, TypeFacts DEF Step
  <2>2. ASSUME NEW v \in Workers, v # x, workers'[v].step \in Steps
        PROVE  /\ workers'[v].token <= steps'[workers'[v].step].attempt
               /\ workers'[v].step = m.step => workers'[v].token # workers'[x].token
               /\ workers'[v] = workers[v] /\ workers[v].step \in Steps
    <3>1. workers'[v] = workers[v] /\ workers[v].token \in Nat
      BY <2>1, <2>2, WorkerFacts
    <3>2. PICK t \in Steps : t = workers[v].step
      BY <2>2, <3>1
    <3>3. workers[v].token <= steps[t].attempt
      BY <3>2 DEF TokensDiffer
    <3>4. workers[v].token <= steps'[t].attempt
      BY <1>0, <3>1, <3>3, AttemptsGrow
    <3>5. t = m.step => workers[v].token # workers'[x].token
      BY <2>1, <3>1, <3>3
    <3> QED
      BY <3>1, <3>2, <3>4, <3>5
  <2>3. workers'[x].token <= steps'[workers'[x].step].attempt
    BY <2>1
  <2>4. ASSUME NEW w \in Workers, workers'[w].step \in Steps,
               NEW v \in Workers, v # w, workers'[v].step = workers'[w].step
        PROVE  workers'[v].token # workers'[w].token
    <3>1. CASE w = x
      BY <2>1, <2>2, <2>4, <3>1
    <3>2. CASE v = x
      BY <2>1, <2>2, <2>4, <3>2
    <3>3. CASE w # x /\ v # x
      BY <2>2, <2>4, <3>3 DEF TokensDiffer
    <3> QED
      BY <3>1, <3>2, <3>3
  <2> QED
    BY <2>2, <2>3, <2>4 DEF TokensDiffer
<1> QED
  BY <1>1, <1>2, WorkersMove

-----------------------------------------------------------------------------
(* What a transaction costs a Step: nothing, a fault, the end of a claim, or a *)
(* claim of a Step that was not spent.                                         *)

Free(s) ==
  /\ versions'[s] = versions[s] /\ Executors(s)' \subseteq Executors(s)
  /\ Spent(s) => Spent(s)'

Paid(s) ==
  /\ versions'[s] = versions[s] /\ Executors(s)' \subseteq Executors(s)
  /\ faults' = faults + 1

Ends(s) ==
  /\ \E w \in Executors(s) : Executors(s)' \subseteq Executors(s) \ {w}
  /\ \/ versions'[s] = versions[s]
     \/ versions'[s] = versions[s] + 1 /\ (Spent(s) => Spent(s)')

Enters(s) ==
  /\ ~Spent(s) /\ Spent(s)'
  /\ versions'[s] = versions[s] /\ \E w : Executors(s)' = Executors(s) \cup {w}

Charge(s) == Free(s) \/ Paid(s) \/ Ends(s) \/ Enters(s)

\* Each of them keeps the bill within the faults.
LEMMA ChargeIsPaid ==
  ASSUME TypeOK, TypeOK', NEW s \in Steps, Charge(s), faults' \in {faults, faults + 1},
         IsFiniteSet(Executors(s)), Bill(s) <= 1 + faults
  PROVE  IsFiniteSet(Executors(s)') /\ Bill(s)' <= 1 + faults'
<1>0. /\ versions[s] \in Nat /\ faults \in Nat /\ versions'[s] \in Nat /\ faults' \in Nat
  BY LimitAssumption DEF TypeOK
<1>1. Cardinality(Executors(s)) \in Nat
  BY FS_CardinalityType
<1>2. ASSUME Executors(s)' \subseteq Executors(s)
      PROVE  /\ IsFiniteSet(Executors(s)') /\ Cardinality(Executors(s)') \in Nat
             /\ Cardinality(Executors(s)') <= Cardinality(Executors(s))
  BY <1>2, FS_Subset, FS_CardinalityType
<1> DEFINE next == IF Spent(s) THEN 0 ELSE 1
           nextAfter == IF Spent(s)' THEN 0 ELSE 1
<1>3. /\ next \in {0, 1} /\ nextAfter \in {0, 1}
      /\ Bill(s) = versions[s] + Cardinality(Executors(s)) + next
      /\ Bill(s)' = versions'[s] + Cardinality(Executors(s)') + nextAfter
      /\ (Spent(s) => Spent(s)') => nextAfter <= next
      /\ ~Spent(s) /\ Spent(s)' => next = 1 /\ nextAfter = 0
  BY DEF Bill
<1> HIDE DEF next, nextAfter
<1>4. CASE Free(s)
  <2>1. nextAfter <= next /\ versions'[s] = versions[s] /\ Executors(s)' \subseteq Executors(s)
    BY <1>3, <1>4 DEF Free
  <2>2. /\ IsFiniteSet(Executors(s)') /\ Cardinality(Executors(s)') \in Nat
        /\ Cardinality(Executors(s)') <= Cardinality(Executors(s))
    BY <1>2, <2>1
  <2> QED
    BY <1>0, <1>1, <1>3, <2>1, <2>2
<1>5. CASE Paid(s)
  <2>1. versions'[s] = versions[s] /\ Executors(s)' \subseteq Executors(s) /\ faults' = faults + 1
    BY <1>5 DEF Paid
  <2>2. /\ IsFiniteSet(Executors(s)') /\ Cardinality(Executors(s)') \in Nat
        /\ Cardinality(Executors(s)') <= Cardinality(Executors(s))
    BY <1>2, <2>1
  <2> QED
    BY <1>0, <1>1, <1>3, <2>1, <2>2
<1>6. CASE Ends(s)
  <2>1. PICK w \in Executors(s) : Executors(s)' \subseteq Executors(s) \ {w}
    BY <1>6 DEF Ends
  <2>2. /\ IsFiniteSet(Executors(s) \ {w})
        /\ Cardinality(Executors(s) \ {w}) = Cardinality(Executors(s)) - 1
    BY FS_RemoveElement
  <2>3. /\ IsFiniteSet(Executors(s)') /\ Cardinality(Executors(s)') \in Nat
        /\ Cardinality(Executors(s)') <= Cardinality(Executors(s)) - 1
    BY <2>1, <2>2, FS_Subset, FS_CardinalityType
  <2>4. \/ versions'[s] = versions[s]
        \/ versions'[s] = versions[s] + 1 /\ nextAfter <= next
    BY <1>3, <1>6 DEF Ends
  <2> QED
    BY <1>0, <1>1, <1>3, <2>3, <2>4
<1>7. CASE Enters(s)
  <2>1. PICK w : Executors(s)' = Executors(s) \cup {w}
    BY <1>7 DEF Enters
  <2>2. /\ IsFiniteSet(Executors(s)') /\ Cardinality(Executors(s)') \in Nat
        /\ Cardinality(Executors(s)') <= Cardinality(Executors(s)) + 1
    <3>1. /\ IsFiniteSet(Executors(s) \cup {w})
          /\ Cardinality(Executors(s) \cup {w})
               \in {Cardinality(Executors(s)), Cardinality(Executors(s)) + 1}
      BY FS_AddElement
    <3>2. /\ Cardinality(Executors(s) \cup {w}) \in Nat
          /\ Cardinality(Executors(s) \cup {w}) <= Cardinality(Executors(s)) + 1
      BY <1>1, <3>1
    <3> QED
      BY <2>1, <3>1, <3>2
  <2>3. versions'[s] = versions[s] /\ next = 1 /\ nextAfter = 0
    BY <1>3, <1>7 DEF Enters
  <2> QED
    BY <1>0, <1>1, <1>3, <2>2, <2>3
<1> QED
  BY <1>4, <1>5, <1>6, <1>7 DEF Charge

\* A Step that is not in progress under a live lease is not spent, unless settled.
LEMMA NotSpent ==
  ASSUME NEW s \in Steps, steps[s].status \notin SettledStep,
         steps[s].status # "running" \/ steps[s].lease # "live"
  PROVE  ~Spent(s)
BY DEF Spent

\* Nothing is charged to a Step whose row and executors stay, to one that settles,
\* and to one that was not spent.
RowStays(s) == steps'[s] = steps[s] \/ steps'[s].status \in SettledStep \/ ~Spent(s)

LEMMA RowStaysFree ==
  ASSUME NEW s \in Steps, RowStays(s), versions'[s] = versions[s],
         Executors(s)' = Executors(s),
         \A w \in Executors(s) : workers'[w].token = workers[w].token
  PROVE  Free(s)
<1>1. steps'[s] = steps[s] /\ Spent(s) => Spent(s)'
  BY DEF Spent
<1>2. steps'[s].status \in SettledStep => Spent(s)'
  BY DEF Spent
<1> QED
  BY <1>1, <1>2 DEF Free, RowStays

\* Transactions of the user, the dispatcher and the maintenance touch no worker.
LEMMA RowsStayFree ==
  ASSUME \A s \in Steps : RowStays(s), UNCHANGED <<workers, versions>>
  PROVE  \A s \in Steps : Charge(s)
<1> SUFFICES ASSUME NEW s \in Steps PROVE Charge(s)
  OBVIOUS
<1>1. Executors(s)' = Executors(s) /\ \A w \in Executors(s) : workers'[w].token = workers[w].token
  BY DEF Executors
<1> QED
  BY <1>1, RowStaysFree DEF Charge

LEMMA RowsStayPaid ==
  ASSUME Fault, versions' = versions, \A s \in Steps : Executors(s)' \subseteq Executors(s)
  PROVE  \A s \in Steps : Charge(s)
BY DEF Fault, Paid, Charge

LEMMA CancelNowStays ==
  ASSUME TypeOK, CancelNow
  PROVE  \A s \in Steps : RowStays(s)
<1>1. \A s \in Steps : Moved(steps[s], "cancelled").status \in SettledStep
  BY RowMoved DEF SettledStep
<1> QED
  BY <1>1 DEF CancelNow, RowStays

LEMMA OneRowStays ==
  ASSUME TypeOK, NEW u \in Steps, ~Spent(u), \A t \in Steps : t # u => steps'[t] = steps[t]
  PROVE  \A s \in Steps : RowStays(s)
BY DEF RowStays

\* _queue_after settles its Step and queues one that was not spent.
LEMMA QueueAfterStays ==
  ASSUME TypeOK, NEW s \in Steps, NEW done \in Step, done.status = "completed",
         NEW onward \in RunStatus, QueueAfter(s, done, onward)
  PROVE  /\ \A t \in Steps : RowStays(t)
         /\ steps'[s].status = "completed"
<1>1. CASE s = N
  <2>1. steps' = [steps EXCEPT ![s] = done]
    BY <1>1 DEF QueueAfter
  <2>2. steps'[s] = done /\ \A t \in Steps : t # s => steps'[t] = steps[t]
    BY <2>1 DEF TypeOK
  <2> QED
    BY <2>2 DEF RowStays, SettledStep
<1>2. CASE s # N
  <2>1. PICK n \in Steps : n = s + 1 /\ n # s
    BY <1>2, WorkflowAssumption DEF Steps
  <2>2. steps' = [steps EXCEPT ![s] = done, ![n] = Moved(steps[n], "queued")]
    BY <1>2, <2>1, QueueAfterNext
  <2>3. steps'[s] = done /\ \A t \in Steps : t # s /\ t # n => steps'[t] = steps[t]
    BY <2>1, <2>2 DEF TypeOK
  <2>4. StepMay(steps[n].status, "queued") /\ steps[n].status \in StepStatus
    BY <1>2, <2>1, TypeFacts DEF QueueAfter, Step
  <2>5. ~Spent(n)
    BY <2>4, NotSpent, StepMayRange DEF StepMay, StepTransitions
  <2> QED
    BY <2>3, <2>5 DEF RowStays, SettledStep
<1> QED
  BY <1>1, <1>2

-----------------------------------------------------------------------------
(* Every transaction charges its Steps *)

\* A claim charges its Step, which was waiting, one executor.
LEMMA ClaimCharges ==
  ASSUME TypeOK, NEW w \in Workers, NEW m \in queue, Claim(w, m)
  PROVE  \A s \in Steps : Charge(s)
<1>0. m.step \in Steps /\ UNCHANGED versions
  BY TypeFacts DEF Claim
<1>1. /\ workers[w] = Idle /\ Idle.step \notin Steps
      /\ workers'[w].pc = "claimed" /\ workers'[w].step = m.step
      /\ workers'[w].token = steps'[m.step].token
      /\ \A v \in Workers : v # w => workers'[v] = workers[v]
      /\ steps'[m.step].status = "running" /\ steps'[m.step].lease = "live"
      /\ \A t \in Steps : t # m.step => steps'[t] = steps[t]
  BY ClaimingWorker, WorkerFacts
<1>2. ~Spent(m.step)
  <2>1. steps[m.step].status \in {"queued", "retry_scheduled"}
    BY DEF Claim, Claimable, RetryDue
  <2> QED
    BY <1>0, <2>1, NotSpent DEF SettledStep
<1>3. Executors(m.step)' = Executors(m.step) \cup {w}
  BY <1>1 DEF Executors
<1>4. Spent(m.step)'
  BY <1>1, <1>3 DEF Spent
<1>5. Enters(m.step)
  BY <1>0, <1>2, <1>3, <1>4 DEF Enters
<1>6. ASSUME NEW t \in Steps, t # m.step PROVE Free(t)
  <2>1. /\ Executors(t)' = Executors(t)
        /\ \A v \in Executors(t) : workers'[v].token = workers[v].token
    BY <1>1, <1>6 DEF Executors
  <2> QED
    BY <1>0, <1>1, <1>6, <2>1, RowStaysFree DEF RowStays
<1> QED
  BY <1>5, <1>6 DEF Charge

\* A worker whose claim ends: its Step is charged the Version it may have committed,
\* provided the Step is spent afterwards if it was before.
LEMMA EndCharges ==
  ASSUME TypeOK, NEW w \in Workers, workers[w].pc = "claimed", NEW u \in Steps,
         u = workers[w].step, workers'[w].pc # "claimed",
         \A v \in Workers : v # w => workers'[v] = workers[v],
         \A t \in Steps : t # u => versions'[t] = versions[t] /\ RowStays(t),
         \/ versions'[u] = versions[u]
         \/ versions'[u] = versions[u] + 1 /\ (Spent(u) => Spent(u)')
  PROVE  \A s \in Steps : Charge(s)
<1>1. w \in Executors(u) /\ Executors(u)' \subseteq Executors(u) \ {w}
  BY DEF Executors
<1>2. Ends(u)
  BY <1>1 DEF Ends
<1>3. ASSUME NEW t \in Steps, t # u PROVE Free(t)
  <2>1. /\ Executors(t)' = Executors(t)
        /\ \A v \in Executors(t) : workers'[v].token = workers[v].token
    BY <1>3 DEF Executors
  <2> QED
    BY <1>3, <2>1, RowStaysFree
<1> QED
  BY <1>2, <1>3 DEF Charge

LEMMA VersionsCommitted ==
  ASSUME TypeOK, NEW u \in Steps, CommitEffects(u)
  PROVE  /\ \A t \in Steps : t # u => versions'[t] = versions[t]
         /\ versions'[u] \in {versions[u], versions[u] + 1}
BY DEF TypeOK, CommitEffects

LEMMA CompletionCharges ==
  ASSUME AgreeInv, NEW w \in Workers,
         RequestHighCostApproval(w) \/ CompleteStep(w) \/ CompleteRequestStep(w)
           \/ CompletionCancels(w) \/ CompletionRefused(w) \/ ExecutionRaises(w)
  PROVE  \A s \in Steps : Charge(s)
<1>0. TypeOK /\ workers[w].pc = "claimed"
  BY DEF RequestHighCostApproval, CompleteStep, CompleteRequestStep, CompletionCancels,
         CompletionRefused, ExecutionRaises, Executing, AgreeInv
<1>1. PICK u \in Steps : u = workers[w].step
  BY <1>0, WorkerFacts
<1>2. workers'[w].pc # "claimed" /\ \A v \in Workers : v # w => workers'[v] = workers[v]
  <2>1. CASE ExecutionRaises(w)
    BY <1>0, <2>1, RaisingWorker
  <2>2. CASE GoIdle(w)
    BY <1>0, <2>2, WorkerFacts DEF GoIdle, TypeOK
  <2> QED
    BY <2>1, <2>2 DEF RequestHighCostApproval, CompleteStep, CompleteRequestStep,
                      CompletionCancels, CompletionRefused
<1>3. CASE RequestHighCostApproval(w)
  <2>1. steps' = [steps EXCEPT ![u] = Released(steps[u], "waiting_for_approval")]
        /\ UNCHANGED versions
    BY <1>1, <1>3 DEF RequestHighCostApproval
  <2>2. \A t \in Steps : t # u => versions'[t] = versions[t] /\ RowStays(t)
    BY <1>0, <2>1 DEF TypeOK, RowStays
  <2> QED
    BY <1>0, <1>1, <1>2, <2>1, <2>2, EndCharges
<1>4. CASE CompleteStep(w)
  <2>1. QueueAfter(u, Released(steps[u], "completed"), run.status) /\ CommitEffects(u)
    BY <1>1, <1>4 DEF CompleteStep
  <2>2. /\ Released(steps[u], "completed") \in Step
        /\ Released(steps[u], "completed").status = "completed"
    BY <1>0, RowMoved
  <2>3. (\A t \in Steps : RowStays(t)) /\ steps'[u].status = "completed"
    BY <1>0, <2>1, <2>2, TypeFacts, QueueAfterStays
  <2>4. Spent(u)'
    BY <2>3 DEF Spent, SettledStep
  <2> QED
    BY <1>0, <1>1, <1>2, <2>1, <2>3, <2>4, VersionsCommitted, EndCharges
<1>5. CASE CompleteRequestStep(w)
  <2>1. u \in RequestSteps /\ UNCHANGED versions
    BY <1>1, <1>5 DEF CompleteRequestStep
  <2>2. PICK n \in Steps : n = u + 1 /\ n # u
    BY <2>1, WaitStep
  <2>3. /\ steps' = [steps EXCEPT ![u] = Released(steps[u], "completed"),
                                  ![n] = Moved(steps[n], "waiting_for_approval")]
        /\ StepMay(steps[n].status, "waiting_for_approval")
    BY <1>0, <1>1, <1>5, <2>2 DEF CompleteRequestStep, TypeOK
  <2>4. steps[n].status = "pending"
    <3>1. StatusOf(u) = "running"
      BY <1>1, <1>5 DEF CompleteRequestStep, Owns, StatusOf
    <3>2. StatusOf(n) \in {"completed", "pending"}
      BY <2>2, <3>1, OthersRest
    <3> QED
      BY <2>3, <3>2 DEF StepMay, StepTransitions, StatusOf
  <2>5. RowStays(n)
    BY <2>4, NotSpent DEF RowStays, SettledStep
  <2>6. \A t \in Steps : t # u => versions'[t] = versions[t] /\ RowStays(t)
    BY <2>1, <2>3, <2>5 DEF AgreeInv, TypeOK, RowStays
  <2> QED
    BY <1>0, <1>1, <1>2, <2>1, <2>6, EndCharges
<1>6. CASE CompletionCancels(w)
  <2>1. CancelNow /\ CommitEffects(u) /\ steps[u].status = "running"
    BY <1>1, <1>6 DEF CompletionCancels, Owns
  <2>2. Moved(steps[u], "cancelled").status = "cancelled"
    BY <1>0, RowMoved
  <2>3. Spent(u)'
    BY <2>1, <2>2 DEF CancelNow, Spent, SettledStep
  <2>4. \A t \in Steps : RowStays(t)
    BY <1>0, <2>1, CancelNowStays
  <2> QED
    BY <1>0, <1>1, <1>2, <2>1, <2>3, <2>4, VersionsCommitted, EndCharges
<1>7. CASE CompletionRefused(w)
  <2>1. UNCHANGED steps /\ (CommitEffects(u) \/ UNCHANGED versions)
    BY <1>1, <1>7 DEF CompletionRefused
  <2>2. \A t \in Steps : t # u => versions'[t] = versions[t] /\ RowStays(t)
    BY <1>0, <2>1, VersionsCommitted DEF RowStays
  <2>3. Spent(u) => Spent(u)'
    <3>1. steps[u].status = "running" => workers[w].token # steps[u].token
      BY <1>1, <1>7 DEF CompletionRefused, Owns
    <3>2. \A v \in Executors(u) : v # w => v \in Executors(u)' /\ workers'[v].token = workers[v].token
      BY <1>2 DEF Executors
    <3> QED
      BY <2>1, <3>1, <3>2 DEF Spent
  <2> QED
    BY <1>0, <1>1, <1>2, <2>1, <2>2, <2>3, VersionsCommitted, EndCharges
<1>8. CASE ExecutionRaises(w)
  <2>1. UNCHANGED <<steps, versions>>
    BY <1>8 DEF ExecutionRaises
  <2> QED
    BY <1>0, <1>1, <1>2, <2>1, EndCharges DEF RowStays
<1> QED
  BY <1>3, <1>4, <1>5, <1>6, <1>7, <1>8

\* fail_step by the worker that owns the Step: no other executor does, so the Step was
\* not spent.
LEMMA FailureCharges ==
  ASSUME TypeOK, TokensDiffer, NEW w \in Workers,
         FailStepForRetry(w) \/ FailStepForGood(w) \/ FailureDropped(w)
  PROVE  \A s \in Steps : Charge(s)
<1>1. workers[w].pc = "failing" /\ GoIdle(w) /\ UNCHANGED versions
  BY DEF FailStepForRetry, FailStepForGood, FailureDropped
<1>2. PICK u \in Steps : u = workers[w].step
  BY <1>1, WorkerFacts
<1>3. \A s \in Steps : RowStays(s)
  <2>1. CASE FailureDropped(w)
    BY <2>1 DEF FailureDropped, RowStays
  <2>2. CASE FailStepForRetry(w) \/ FailStepForGood(w)
    <3>1. /\ steps[u].status = "running" /\ steps[u].token = workers[w].token
          /\ \E target \in StepStatus : steps' = [steps EXCEPT ![u] = Released(steps[u], target)]
      BY <1>2, <2>2, StatusNames DEF FailStepForRetry, FailStepForGood, Owns
    <3>2. \A v \in Executors(u) : workers[v].token # steps[u].token
      BY <1>1, <1>2, <3>1 DEF Executors, TokensDiffer
    <3>3. ~Spent(u)
      BY <3>1, <3>2 DEF Spent, SettledStep
    <3>4. \A t \in Steps : t # u => steps'[t] = steps[t]
      BY <3>1 DEF TypeOK
    <3> QED
      BY <3>3, <3>4, OneRowStays
  <2> QED
    BY <2>1, <2>2
<1>4. ASSUME NEW s \in Steps PROVE Free(s)
  <2>1. \A v \in Workers : v # w => workers'[v] = workers[v]
    BY <1>1, IdleWorker
  <2>2. Executors(s)' = Executors(s) \ {w} /\ w \notin Executors(s)
    BY <1>1, IdleWorker DEF Executors
  <2>3. /\ Executors(s)' = Executors(s)
        /\ \A v \in Executors(s) : workers'[v].token = workers[v].token
    BY <2>1, <2>2 DEF Executors
  <2> QED
    BY <1>1, <1>3, <2>3, RowStaysFree
<1> QED
  BY <1>4 DEF Charge

LEMMA UserCharges ==
  ASSUME TypeOK, User
  PROVE  \A s \in Steps : Charge(s)
<1>1. UNCHANGED <<workers, versions>>
  BY DEF User, Cancel, ResumeCancels, RestartFailed, ResumeRetryNow, ApproveHighCost,
         ApproveMaterial, DecisionFails
<1>2. CASE CancelNow \/ UNCHANGED steps
  BY <1>1, <1>2, CancelNowStays, RowsStayFree DEF RowStays
<1>3. ASSUME NEW u \in Steps, ApproveMaterial(u) PROVE \A s \in Steps : RowStays(s)
  <2>1. QueueAfter(u, Moved(steps[u], "completed"), "queued")
    BY <1>3 DEF ApproveMaterial
  <2>2. /\ Moved(steps[u], "completed") \in Step /\ Moved(steps[u], "completed").status = "completed"
        /\ "queued" \in RunStatus
    BY RowMoved, StatusNames
  <2> QED
    BY <2>1, <2>2, QueueAfterStays
<1>4. ASSUME NEW u \in Steps,
             \/ RestartFailed(u) \/ ResumeRetryNow(u) \/ ApproveHighCost(u)
             \/ \E verdict \in {"rejected", "expired"} : DecisionFails(u, verdict)
      PROVE  \A s \in Steps : RowStays(s)
  <2>1. /\ steps[u].status \in {"failed", "retry_scheduled", "waiting_for_approval"}
        /\ \E target \in StepStatus : steps' = [steps EXCEPT ![u] = Moved(steps[u], target)]
    BY <1>4, StatusNames DEF RestartFailed, ResumeRetryNow, ApproveHighCost, DecisionFails, Deciding
  <2>2. ~Spent(u)
    BY <2>1, NotSpent DEF SettledStep
  <2>3. \A t \in Steps : t # u => steps'[t] = steps[t]
    BY <2>1 DEF TypeOK
  <2> QED
    BY <2>2, <2>3, OneRowStays
<1> QED
  BY <1>1, <1>2, <1>3, <1>4, RowsStayFree DEF User, Cancel, ResumeCancels

LEMMA DeliveryCharges ==
  ASSUME TypeOK, NEW m \in queue,
         DeliveryCancels(m) \/ DeliveryRequeuesDeadRun(m) \/ DeliveryIgnored(m) \/ MessageLost(m)
  PROVE  \A s \in Steps : Charge(s)
<1>1. UNCHANGED <<workers, versions>>
  BY DEF DeliveryCancels, DeliveryRequeuesDeadRun, DeliveryIgnored, MessageLost
<1>2. CASE DeliveryCancels(m)
  BY <1>1, <1>2, CancelNowStays, RowsStayFree DEF DeliveryCancels
<1>3. CASE DeliveryRequeuesDeadRun(m)
  <2>1. m.step \in Steps /\ steps[m.step].status = "retry_scheduled"
    BY <1>3, TypeFacts DEF DeliveryRequeuesDeadRun, RequeuesOnly, RetryDue
  <2>2. ~Spent(m.step)
    BY <2>1, NotSpent DEF SettledStep
  <2>3. \A t \in Steps : t # m.step => steps'[t] = steps[t]
    BY <1>3 DEF DeliveryRequeuesDeadRun, TypeOK
  <2> QED
    BY <1>1, <2>1, <2>2, <2>3, OneRowStays, RowsStayFree
<1>4. CASE UNCHANGED steps
  BY <1>1, <1>4, RowsStayFree DEF RowStays
<1> QED
  BY <1>2, <1>3, <1>4 DEF DeliveryIgnored, MessageLost

\* A lease that expires under its worker is a fault; without a worker the Step was not spent.
LEMMA RecoveryCharges ==
  ASSUME TypeOK, NEW u \in Steps, RecoverExpired(u) \/ RecoveryCancels(u) \/ LeaseExpires(u)
  PROVE  \A s \in Steps : Charge(s)
<1>1. UNCHANGED <<workers, versions>>
  BY DEF RecoverExpired, RecoveryCancels, LeaseExpires
<1>2. CASE RecoveryCancels(u)
  BY <1>1, <1>2, CancelNowStays, RowsStayFree DEF RecoveryCancels
<1>3. CASE RecoverExpired(u)
  <2>1. ~Spent(u)
    BY <1>3, NotSpent DEF RecoverExpired, SettledStep
  <2>2. \A t \in Steps : t # u => steps'[t] = steps[t]
    BY <1>3 DEF RecoverExpired, TypeOK
  <2> QED
    BY <1>1, <2>1, <2>2, OneRowStays, RowsStayFree
<1>4. CASE LeaseExpires(u)
  <2>1. CASE Fault
    BY <1>1, <2>1, RowsStayPaid DEF Executors
  <2>2. CASE ~\E w \in Workers : workers[w] # Idle /\ workers[w].step = u /\ Owns(w)
    <3>1. ASSUME NEW w \in Executors(u) PROVE workers[w].token # steps[u].token
      <4>1. workers[w].pc = "claimed" /\ workers[w].step = u /\ w \in Workers
        BY DEF Executors
      <4>2. workers[w] # Idle
        BY <4>1, WorkerFacts
      <4> QED
        BY <1>4, <2>2, <4>1, <4>2 DEF LeaseExpires, Owns
    <3>2. ~Spent(u)
      BY <1>4, <3>1 DEF LeaseExpires, Spent, SettledStep
    <3>3. \A t \in Steps : t # u => steps'[t] = steps[t]
      BY <1>4 DEF LeaseExpires, TypeOK
    <3> QED
      BY <1>1, <3>2, <3>3, OneRowStays, RowsStayFree
  <2> QED
    BY <1>4, <2>1, <2>2 DEF LeaseExpires
<1> QED
  BY <1>2, <1>3, <1>4

LEMMA StepCharges ==
  ASSUME AgreeInv, TokensDiffer, [Next]_vars
  PROVE  \A s \in Steps : Charge(s)
<1>0. TypeOK
  BY DEF AgreeInv
<1>1. ASSUME NEW m \in queue, Deliver(m) \/ MessageLost(m) PROVE \A s \in Steps : Charge(s)
  BY <1>0, <1>1, ClaimCharges, DeliveryCharges DEF Deliver
<1>2. ASSUME NEW w \in Workers, Finish(w) PROVE \A s \in Steps : Charge(s)
  BY <1>0, <1>2, CompletionCharges, FailureCharges DEF Finish
<1>3. ASSUME NEW w \in Workers, WorkerCrashes(w) PROVE \A s \in Steps : Charge(s)
  <2>1. GoIdle(w) /\ Fault /\ UNCHANGED versions
    BY <1>3 DEF WorkerCrashes
  <2> QED
    BY <1>0, <2>1, IdleWorker, RowsStayPaid
<1>4. ASSUME NEW e \in outbox, Dispatch(e) \/ PublishFails(e) \/ PublishInterrupted(e)
                                 \/ EventAvailable(e)
      PROVE \A s \in Steps : Charge(s)
  <2>1. UNCHANGED <<steps, workers, versions>>
    BY <1>4 DEF Dispatch, MarkPublishing, Publish, RecoverStalePublication, RecoverOrphan,
                PublishFails, PublishInterrupted, EventAvailable
  <2> QED
    BY <2>1, RowsStayFree DEF RowStays
<1>5. ASSUME RetryDelayElapses \/ UNCHANGED vars PROVE \A s \in Steps : Charge(s)
  <2>1. UNCHANGED <<steps, workers, versions>>
    BY <1>5 DEF RetryDelayElapses, vars
  <2> QED
    BY <2>1, RowsStayFree DEF RowStays
<1> QED
  BY <1>0, <1>1, <1>2, <1>3, <1>4, <1>5, UserCharges, RecoveryCharges DEF Next

LEMMA FaultsGrow ==
  ASSUME [Next]_vars
  PROVE  faults' \in {faults, faults + 1}
BY DEF Next, vars, Deliver, Claim, DeliveryCancels, DeliveryRequeuesDeadRun, DeliveryIgnored,
       MessageLost, Acknowledge, Finish, RequestHighCostApproval, CompleteStep,
       CompleteRequestStep, CompletionCancels, CompletionRefused, ExecutionRaises,
       FailStepForRetry, FailStepForGood, FailureDropped, WorkerCrashes, Dispatch,
       MarkPublishing, Publish, RecoverStalePublication, RecoverOrphan, PublishFails,
       PublishInterrupted, EventAvailable, User, Cancel, ResumeCancels, RestartFailed,
       ResumeRetryNow, ApproveHighCost, ApproveMaterial, DecisionFails, RecoverExpired,
       RecoveryCancels, LeaseExpires, RetryDelayElapses, Fault

-----------------------------------------------------------------------------

LEMMA ExecutionInit == ASSUME Init PROVE TokensDiffer /\ BillsPaid
<1>1. \A w \in Workers : workers[w].pc = "idle" /\ workers[w].step \notin Steps
  BY DEF Init, Idle, Steps
<1>2. TokensDiffer
  BY <1>1 DEF TokensDiffer
<1>3. ASSUME NEW s \in Steps PROVE IsFiniteSet(Executors(s)) /\ Bill(s) <= 1 + faults
  <2>1. Executors(s) = {} /\ versions[s] = 0 /\ faults = 0
    BY <1>1 DEF Init, Executors
  <2>2. IsFiniteSet(Executors(s)) /\ Cardinality(Executors(s)) = 0
    BY <2>1, FS_EmptySet
  <2> QED
    BY <2>1, <2>2 DEF Bill
<1> QED
  BY <1>2, <1>3 DEF BillsPaid

\* A Step commits one Material Version and at most one more for every crash, lost or repeated
\* message, failed publication or outrun lease: no retry, restart, resume or recovery
\* repeats an execution by itself (service.py: claim_step, complete_step, fail_step;
\* workflow.py: execute_delivery).
THEOREM ArtifactsArePaidFor == Spec => []ArtifactsBoundedByFaults
<1>1. Init => ExecutionInv
  BY InitType, ExecutionInit DEF ExecutionInv
<1>2. ExecutionInv /\ AgreeInv /\ TypeOK' /\ [Next]_vars => ExecutionInv'
  BY TokensStep, StepCharges, ChargeIsPaid, FaultsGrow DEF ExecutionInv, BillsPaid
<1>3. ExecutionInv => ArtifactsBoundedByFaults
  <2> SUFFICES ASSUME ExecutionInv, NEW s \in Steps PROVE versions[s] <= 1 + faults
    BY DEF ArtifactsBoundedByFaults
  <2>1. versions[s] \in Nat /\ faults \in Nat /\ Cardinality(Executors(s)) \in Nat
    BY LimitAssumption, FS_CardinalityType DEF ExecutionInv, BillsPaid, TypeOK
  <2>2. Bill(s) <= 1 + faults
    BY DEF ExecutionInv, BillsPaid
  <2> QED
    BY <2>1, <2>2 DEF Bill
<1> QED
  BY <1>1, <1>2, <1>3, TypeCorrect, AgreeInvariant, PTL DEF Spec

-----------------------------------------------------------------------------
(* Claims are paid for: the attempts of a Step never outnumber its limit   *)
(* plus the faults, the restarts and the approval of its cost.             *)
(*                                                                         *)
(* Attempts alone are not inductive.  The invariant counts the claim a     *)
(* Step is due for as well: it waits to be claimed, or its execution is in *)
(* nobody's hands under a live lease, and recovery will queue it again.    *)

Held(s) ==
  /\ steps[s].lease = "live"
  /\ \E w \in Workers : workers[w].step = s /\ workers[w].token = steps[s].token

ClaimDue(s) ==
  \/ steps[s].status \in Awaiting
  \/ steps[s].status = "running" /\ run.status = "running" /\ ~Held(s)

Due(s) == IF ClaimDue(s) THEN 1 ELSE 0

Approval(s) == IF approvals[s] = "approved" THEN 1 ELSE 0

Allowance(s) == MaxAttempts + faults + run.attempt + Approval(s)

ClaimPaid(s) ==
  /\ steps[s].attempt + Due(s) <= Allowance(s)
  /\ steps[s].status = "pending" => steps[s].attempt = 0

ClaimsPaid == \A s \in Steps : ClaimPaid(s)

\* What a transaction does to a Step: nothing becomes due, it is paid for, it is within
\* the limit, or the claim that was due is made.
SameAttempt(s) == steps'[s].attempt = steps[s].attempt
Rests(s) == SameAttempt(s) /\ (ClaimDue(s)' => ClaimDue(s))
Pays(s) == SameAttempt(s) /\ Allowance(s)' >= Allowance(s) + 1
Allowed(s) == SameAttempt(s) /\ steps[s].attempt < MaxAttempts
Entered(s) == /\ steps'[s].attempt = steps[s].attempt + 1 /\ ClaimDue(s) /\ ~ClaimDue(s)'
              /\ steps'[s].status # "pending"

Toll(s) == Rests(s) \/ Pays(s) \/ Allowed(s) \/ Entered(s)

LEMMA RestartsGrow ==
  ASSUME TypeOK, [Next]_vars
  PROVE  run'.attempt \in {run.attempt, run.attempt + 1}
<1>1. /\ run \in Run /\ run.attempt \in Nat
  BY TypeFacts
<1>2. \A onward, b, c :
        /\ [run EXCEPT !.status = onward].attempt = run.attempt
        /\ [run EXCEPT !.cancelReq = b].attempt = run.attempt
        /\ [run EXCEPT !.retryWait = b].attempt = run.attempt
        /\ [run EXCEPT !.status = onward, !.cancelReq = b].attempt = run.attempt
        /\ [run EXCEPT !.status = onward, !.retryWait = b].attempt = run.attempt
        /\ [run EXCEPT !.status = onward, !.rejected = b].attempt = run.attempt
        /\ [run EXCEPT !.rejected = b, !.status = onward].attempt = run.attempt
        /\ [run EXCEPT !.status = onward, !.rejected = c, !.retryWait = b].attempt = run.attempt
        /\ [run EXCEPT !.status = onward, !.attempt = run.attempt + 1, !.retryWait = b].attempt
             = run.attempt + 1
  BY <1>1 DEF Run
<1>3. CancelNow => run'.attempt = run.attempt
  BY <1>2 DEF CancelNow
<1>4. ASSUME NEW s, NEW done, NEW onward, QueueAfter(s, done, onward)
      PROVE  run'.attempt = run.attempt
  BY <1>2, <1>4 DEF QueueAfter
<1>5. ASSUME NEW w \in Workers, Finish(w) \/ WorkerCrashes(w) PROVE run'.attempt = run.attempt
  <2>1. CASE RequestHighCostApproval(w)
    BY <1>2, <2>1 DEF RequestHighCostApproval
  <2>2. CASE CompleteStep(w)
    BY <1>4, <2>2 DEF CompleteStep
  <2>3. CASE CompleteRequestStep(w)
    BY <1>2, <2>3 DEF CompleteRequestStep
  <2>4. CASE CompletionCancels(w)
    BY <1>3, <2>4 DEF CompletionCancels
  <2>5. CASE FailStepForRetry(w)
    <3>1. run' = [run EXCEPT !.status = "retry_scheduled", !.rejected = FALSE, !.retryWait = TRUE]
      BY <2>5 DEF FailStepForRetry
    <3> QED
      BY <1>2, <3>1
  <2>6. CASE FailStepForGood(w)
    <3>1. PICK onward : run' = [run EXCEPT !.rejected = FALSE, !.status = onward]
      BY <2>6 DEF FailStepForGood
    <3> QED
      BY <1>2, <3>1
  <2>7. CASE UNCHANGED run
    BY <2>7
  <2> QED
    BY <1>5, <2>1, <2>2, <2>3, <2>4, <2>5, <2>6, <2>7
       DEF Finish, CompletionRefused, ExecutionRaises, FailureDropped, WorkerCrashes
<1>6. ASSUME NEW m \in queue, Deliver(m) \/ MessageLost(m) PROVE run'.attempt = run.attempt
  BY <1>2, <1>3, <1>6
     DEF Deliver, Claim, DeliveryCancels, DeliveryRequeuesDeadRun, DeliveryIgnored, MessageLost
<1>7. ASSUME User PROVE run'.attempt \in {run.attempt, run.attempt + 1}
  <2>1. CASE Cancel \/ ResumeCancels
    BY <1>2, <1>3, <2>1 DEF Cancel, ResumeCancels
  <2>2. ASSUME NEW s \in Steps, RestartFailed(s) PROVE run'.attempt = run.attempt + 1
    <3>1. run' = [run EXCEPT !.status = "queued", !.attempt = run.attempt + 1, !.retryWait = FALSE]
      BY <2>2 DEF RestartFailed
    <3> QED
      BY <1>2, <3>1
  <2>3. ASSUME NEW s \in Steps, ResumeRetryNow(s) PROVE run'.attempt = run.attempt
    BY <1>2, <2>3 DEF ResumeRetryNow
  <2>4. ASSUME NEW s \in Steps, ApproveHighCost(s) PROVE run'.attempt = run.attempt
    BY <1>2, <2>4 DEF ApproveHighCost
  <2>5. ASSUME NEW s \in Steps, ApproveMaterial(s) PROVE run'.attempt = run.attempt
    BY <1>4, <2>5 DEF ApproveMaterial
  <2>6. ASSUME NEW s \in Steps, NEW verdict, DecisionFails(s, verdict)
        PROVE  run'.attempt = run.attempt
    <3>1. PICK b : run' = [run EXCEPT !.status = "failed", !.rejected = b]
      BY <2>6 DEF DecisionFails
    <3> QED
      BY <1>2, <3>1
  <2> QED
    BY <1>7, <2>1, <2>2, <2>3, <2>4, <2>5, <2>6 DEF User
<1>8. ASSUME NEW e \in outbox, Dispatch(e) \/ PublishFails(e) \/ PublishInterrupted(e)
                                 \/ EventAvailable(e)
      PROVE  run'.attempt = run.attempt
  BY <1>2, <1>8
     DEF Dispatch, MarkPublishing, Publish, RecoverStalePublication, RecoverOrphan,
         PublishFails, PublishInterrupted, EventAvailable
<1>9. ASSUME \/ RetryDelayElapses \/ UNCHANGED vars
             \/ \E s \in Steps : RecoverExpired(s) \/ RecoveryCancels(s) \/ LeaseExpires(s)
      PROVE  run'.attempt = run.attempt
  <2>0. /\ [run EXCEPT !.retryWait = FALSE].attempt = run.attempt
        /\ [run EXCEPT !.status = "queued", !.retryWait = FALSE].attempt = run.attempt
    BY <1>2
  <2>1. CASE RetryDelayElapses \/ UNCHANGED vars
    BY <2>0, <2>1 DEF RetryDelayElapses, vars
  <2>2. ASSUME NEW s \in Steps, RecoverExpired(s) \/ RecoveryCancels(s) \/ LeaseExpires(s)
        PROVE  run'.attempt = run.attempt
    BY <1>3, <2>0, <2>2 DEF RecoverExpired, RecoveryCancels, LeaseExpires
  <2> QED
    BY <1>9, <2>1, <2>2
<1> QED
  BY <1>5, <1>6, <1>7, <1>8, <1>9 DEF Next

\* An approval is never taken back.
LEMMA ApprovedStays ==
  ASSUME TypeOK, Effect, NEW s \in Steps, approvals[s] = "approved"
  PROVE  approvals'[s] = "approved"
<1>1. CASE NoChange \/ CancelsAll
  BY <1>1 DEF NoChange, CancelsAll
<1>2. ASSUME NEW u \in Steps,
             Starts(u) \/ Requeues(u) \/ CompletesExecution(u) \/ AsksForGate(u)
               \/ AsksForCost(u) \/ FailsExecution(u) \/ Grants(u) \/ Refuses(u)
      PROVE  approvals'[s] = "approved"
  <2>1. CASE AsksForGate(u) \/ AsksForCost(u)
    BY <2>1 DEF AsksForGate, AsksForCost, Opens, TypeOK
  <2>2. CASE Grants(u)
    BY <2>2 DEF Grants, TypeOK
  <2>3. CASE Refuses(u)
    BY <2>3 DEF Refuses
  <2> QED
    BY <1>2, <2>1, <2>2, <2>3 DEF Starts, Requeues, CompletesExecution, FailsExecution
<1> QED
  BY <1>1, <1>2 DEF Effect

LEMMA AllowanceGrows ==
  ASSUME TypeOK, TypeOK', [Next]_vars, NEW s \in Steps
  PROVE  /\ Allowance(s) \in Nat /\ Allowance(s)' \in Nat /\ Allowance(s)' >= Allowance(s)
         /\ MaxAttempts \in Nat \ {0} /\ Allowance(s) >= MaxAttempts
         /\ faults' = faults + 1 => Allowance(s)' >= Allowance(s) + 1
         /\ run'.attempt = run.attempt + 1 => Allowance(s)' >= Allowance(s) + 1
         /\ approvals[s] # "approved" /\ approvals'[s] = "approved"
              => Allowance(s)' >= Allowance(s) + 1
<1>1. /\ faults \in Nat /\ faults' \in Nat /\ run.attempt \in Nat /\ run'.attempt \in Nat
      /\ MaxAttempts \in Nat \ {0}
  BY LimitAssumption DEF TypeOK, Run
<1>2. faults' \in {faults, faults + 1} /\ run'.attempt \in {run.attempt, run.attempt + 1}
  BY FaultsGrow, RestartsGrow
<1>3. /\ Approval(s) \in {0, 1} /\ Approval(s)' \in {0, 1}
      /\ Approval(s)' >= Approval(s)
      /\ approvals[s] # "approved" /\ approvals'[s] = "approved"
           => Approval(s) = 0 /\ Approval(s)' = 1
  BY TransactionEffect, ApprovedStays DEF Approval
<1> QED
  BY <1>1, <1>2, <1>3 DEF Allowance

\* Each of them keeps the claims of a Step within its allowance.
LEMMA TollIsPaid ==
  ASSUME TypeOK, TypeOK', [Next]_vars, NEW s \in Steps, Toll(s), ClaimPaid(s),
         steps'[s].status = "pending" => steps[s].status = "pending"
  PROVE  ClaimPaid(s)'
<1>1. /\ Allowance(s) \in Nat /\ Allowance(s)' \in Nat /\ Allowance(s)' >= Allowance(s)
      /\ MaxAttempts \in Nat \ {0} /\ Allowance(s) >= MaxAttempts
  BY AllowanceGrows
<1>2. steps[s].attempt \in Nat /\ steps'[s].attempt \in Nat
  BY DEF TypeOK, Step
<1>3. /\ Due(s) \in {0, 1} /\ Due(s)' \in {0, 1}
      /\ (ClaimDue(s)' => ClaimDue(s)) => Due(s)' <= Due(s)
      /\ ClaimDue(s) /\ ~ClaimDue(s)' => Due(s) = 1 /\ Due(s)' = 0
  BY DEF Due
<1>4. steps[s].attempt + Due(s) <= Allowance(s)
  BY DEF ClaimPaid
<1>5. steps'[s].attempt + Due(s)' <= Allowance(s)'
  <2>1. CASE Rests(s)
    BY <1>1, <1>2, <1>3, <1>4, <2>1 DEF Rests, SameAttempt
  <2>2. CASE Pays(s)
    BY <1>1, <1>2, <1>3, <1>4, <2>2 DEF Pays, SameAttempt
  <2>3. CASE Allowed(s)
    BY <1>1, <1>2, <1>3, <1>4, <2>3 DEF Allowed, SameAttempt
  <2>4. CASE Entered(s)
    BY <1>1, <1>2, <1>3, <1>4, <2>4 DEF Entered
  <2> QED
    BY <2>1, <2>2, <2>3, <2>4 DEF Toll
<1>6. steps'[s].status = "pending" => steps'[s].attempt = 0
  BY DEF ClaimPaid, Toll, Rests, Pays, Allowed, Entered, SameAttempt
<1> QED
  BY <1>5, <1>6 DEF ClaimPaid

-----------------------------------------------------------------------------
(* Every transaction takes its toll *)

\* Whoever holds the execution of Step s goes on holding it.
HolderStays(s) ==
  steps[s].status = "running" =>
    \A w \in Workers : workers[w].step = s /\ workers[w].token = steps[s].token =>
      workers'[w].step = s /\ workers'[w].token = workers[w].token

LEMMA RowRests ==
  ASSUME AgreeInv, Effect, NEW s \in Steps, steps'[s] = steps[s], HolderStays(s)
  PROVE  Rests(s)
<1>1. steps[s].status = "running" /\ run'.status = "running" => run.status = "running"
  BY DeadRunStays DEF AgreeInv, RunMatchesSteps
<1>2. steps[s].status = "running" /\ Held(s) => Held(s)'
  BY DEF Held, HolderStays
<1> QED
  BY <1>1, <1>2 DEF Rests, SameAttempt, ClaimDue

LEMMA RowsRest ==
  ASSUME AgreeInv, Effect, UNCHANGED workers
  PROVE  \A s \in Steps : steps'[s] = steps[s] => Rests(s)
BY RowRests DEF HolderStays

LEMMA RowStops ==
  ASSUME NEW s \in Steps, SameAttempt(s), steps'[s].status \notin Awaiting,
         steps'[s].status # "running"
  PROVE  Rests(s)
BY DEF Rests, ClaimDue

LEMMA CancelNowTolls ==
  ASSUME TypeOK, CancelNow
  PROVE  \A s \in Steps : Toll(s)
<1> SUFFICES ASSUME NEW s \in Steps PROVE Toll(s)
  OBVIOUS
<1>1. /\ Moved(steps[s], "cancelled").status = "cancelled"
      /\ Moved(steps[s], "cancelled").attempt = steps[s].attempt
  BY RowMoved
<1>2. steps'[s] = IF steps[s].status \in SettledStep THEN steps[s] ELSE Moved(steps[s], "cancelled")
  BY DEF CancelNow
<1>3. SameAttempt(s) /\ steps'[s].status \in SettledStep
  BY <1>1, <1>2 DEF SameAttempt, SettledStep
<1> QED
  BY <1>3, RowStops DEF Toll, SettledStep, Awaiting

\* The successor of a Step in progress has not been claimed yet.
LEMMA SuccessorAllowed ==
  ASSUME AgreeInv, ClaimsPaid, NEW s \in Steps, NEW n \in Steps, n = s + 1, SameAttempt(n),
         StatusOf(s) \notin {"pending", "cancelled", "completed"}, NEW to,
         StepMay(steps[n].status, to)
  PROVE  Toll(n)
<1>1. steps[n].status = "pending"
  BY SuccessorPending DEF AgreeInv, StatusOf
<1>2. steps[n].attempt = 0
  BY <1>1 DEF ClaimsPaid, ClaimPaid
<1> QED
  BY <1>2, LimitAssumption DEF Toll, Allowed

LEMMA QueueAfterTolls ==
  ASSUME AgreeInv, ClaimsPaid, NEW s \in Steps, NEW done \in Step, done.status = "completed",
         done.attempt = steps[s].attempt, NEW onward \in RunStatus, QueueAfter(s, done, onward),
         StatusOf(s) \notin {"pending", "cancelled", "completed"}
  PROVE  \A t \in Steps : Toll(t) \/ (steps'[t] = steps[t] /\ t # s)
<1>0. TypeOK
  BY DEF AgreeInv
<1>1. CASE s = N
  <2>1. steps' = [steps EXCEPT ![s] = done]
    BY <1>1 DEF QueueAfter
  <2>2. steps'[s] = done /\ \A t \in Steps : t # s => steps'[t] = steps[t]
    BY <1>0, <2>1 DEF TypeOK
  <2>3. Toll(s)
    BY <2>2, RowStops DEF Toll, SameAttempt, Awaiting
  <2> QED
    BY <2>2, <2>3
<1>2. CASE s # N
  <2>1. PICK n \in Steps : n = s + 1 /\ n # s
    BY <1>2, WorkflowAssumption DEF Steps
  <2>2. steps' = [steps EXCEPT ![s] = done, ![n] = Moved(steps[n], "queued")]
    BY <1>0, <1>2, <2>1, QueueAfterNext
  <2>3. /\ steps'[s] = done /\ steps'[n] = Moved(steps[n], "queued")
        /\ \A t \in Steps : t # s /\ t # n => steps'[t] = steps[t]
    BY <1>0, <2>1, <2>2 DEF TypeOK
  <2>4. StepMay(steps[n].status, "queued")
    BY <1>2, <2>1 DEF QueueAfter
  <2>5. SameAttempt(n)
    BY <1>0, <2>3, RowMoved DEF SameAttempt
  <2>6. Toll(n)
    BY <2>1, <2>4, <2>5, SuccessorAllowed
  <2>7. Toll(s)
    BY <2>3, RowStops DEF Toll, SameAttempt, Awaiting
  <2> QED
    BY <2>3, <2>6, <2>7
<1> QED
  BY <1>1, <1>2

\* A claim was due, and is held under its lease.
LEMMA ClaimTolls ==
  ASSUME AgreeInv, Effect, NEW w \in Workers, NEW m \in queue, Claim(w, m)
  PROVE  \A s \in Steps : Toll(s)
<1>0. TypeOK /\ m.step \in Steps
  BY TypeFacts DEF AgreeInv
<1>1. /\ workers[w] = Idle /\ Idle.step \notin Steps
      /\ workers'[w].step = m.step /\ workers'[w].token = steps'[m.step].token
      /\ \A v \in Workers : v # w => workers'[v] = workers[v]
      /\ steps'[m.step].status = "running" /\ steps'[m.step].lease = "live"
      /\ steps'[m.step].attempt = steps[m.step].attempt + 1
      /\ \A t \in Steps : t # m.step => steps'[t] = steps[t]
  BY <1>0, ClaimingWorker, WorkerFacts
<1>2. ClaimDue(m.step)
  BY DEF Claim, Claimable, RetryDue, ClaimDue, Awaiting
<1>3. ~ClaimDue(m.step)'
  <2>1. Held(m.step)'
    BY <1>1 DEF Held
  <2> QED
    BY <1>1, <2>1 DEF ClaimDue, Awaiting
<1>4. Entered(m.step)
  BY <1>1, <1>2, <1>3 DEF Entered
<1>5. ASSUME NEW t \in Steps, t # m.step PROVE Rests(t)
  <2>1. HolderStays(t)
    BY <1>1 DEF HolderStays
  <2> QED
    BY <1>1, <1>5, <2>1, RowRests
<1> QED
  BY <1>4, <1>5 DEF Toll

\* A worker that ends its execution: the other Steps keep their holders.
LEMMA OthersKeepHolders ==
  ASSUME AgreeInv, Effect, NEW w \in Workers, GoIdle(w), NEW u, u = workers[w].step
  PROVE  \A t \in Steps : t # u /\ steps'[t] = steps[t] => Rests(t)
<1>1. \A v \in Workers : v # w => workers'[v] = workers[v]
  BY IdleWorker DEF AgreeInv
<1>2. \A t \in Steps : t # u => HolderStays(t)
  BY <1>1 DEF HolderStays
<1> QED
  BY <1>2, RowRests

\* An execution that is refused was not the one that held the Step.
LEMMA RefusedTolls ==
  ASSUME AgreeInv, Effect, NEW w \in Workers, GoIdle(w), workers[w].step \in Steps,
         UNCHANGED steps, ~Owns(w)
  PROVE  \A s \in Steps : Toll(s)
<1>1. \A v \in Workers : v # w => workers'[v] = workers[v]
  BY IdleWorker DEF AgreeInv
<1>2. \A s \in Steps : HolderStays(s)
  BY <1>1 DEF HolderStays, Owns
<1> QED
  BY <1>2, RowRests DEF Toll

LEMMA CompletionTolls ==
  ASSUME AgreeInv, Effect, ClaimsPaid, NEW w \in Workers,
         RequestHighCostApproval(w) \/ CompleteStep(w) \/ CompleteRequestStep(w)
           \/ CompletionCancels(w) \/ CompletionRefused(w) \/ ExecutionRaises(w)
  PROVE  \A s \in Steps : Toll(s)
<1>0. TypeOK /\ workers[w].pc = "claimed"
  BY DEF RequestHighCostApproval, CompleteStep, CompleteRequestStep, CompletionCancels,
         CompletionRefused, ExecutionRaises, Executing, AgreeInv
<1>1. PICK u \in Steps : u = workers[w].step
  BY <1>0, WorkerFacts
<1>2. /\ Released(steps[u], "completed") \in Step
      /\ Released(steps[u], "completed").status = "completed"
      /\ Released(steps[u], "completed").attempt = steps[u].attempt
      /\ Released(steps[u], "waiting_for_approval").status = "waiting_for_approval"
      /\ Released(steps[u], "waiting_for_approval").attempt = steps[u].attempt
  BY <1>0, RowMoved
<1>3. CASE RequestHighCostApproval(w)
  <2>1. /\ steps' = [steps EXCEPT ![u] = Released(steps[u], "waiting_for_approval")]
        /\ GoIdle(w)
    BY <1>1, <1>3 DEF RequestHighCostApproval
  <2>2. /\ steps'[u] = Released(steps[u], "waiting_for_approval")
        /\ \A t \in Steps : t # u => steps'[t] = steps[t]
    BY <1>0, <2>1 DEF TypeOK
  <2>3. Rests(u)
    BY <1>2, <2>2, RowStops DEF SameAttempt, Awaiting
  <2> QED
    BY <1>1, <2>1, <2>2, <2>3, OthersKeepHolders DEF Toll
<1>4. CASE CompleteStep(w)
  <2>1. /\ QueueAfter(u, Released(steps[u], "completed"), run.status) /\ GoIdle(w)
        /\ StatusOf(u) = "running" /\ run.status \in RunStatus
    BY <1>0, <1>1, <1>4, TypeFacts DEF CompleteStep, Owns, StatusOf
  <2>2. \A t \in Steps : Toll(t) \/ (steps'[t] = steps[t] /\ t # u)
    BY <1>2, <2>1, QueueAfterTolls
  <2> QED
    BY <1>1, <2>1, <2>2, OthersKeepHolders DEF Toll
<1>5. CASE CompleteRequestStep(w)
  <2>1. u \in RequestSteps /\ GoIdle(w)
    BY <1>1, <1>5 DEF CompleteRequestStep
  <2>2. PICK n \in Steps : n = u + 1 /\ n # u
    BY <2>1, WaitStep
  <2>3. steps' = [steps EXCEPT ![u] = Released(steps[u], "completed"),
                               ![n] = Moved(steps[n], "waiting_for_approval")]
    BY <1>0, <1>1, <1>5, <2>2 DEF CompleteRequestStep, TypeOK
  <2>4. /\ steps'[u] = Released(steps[u], "completed")
        /\ steps'[n] = Moved(steps[n], "waiting_for_approval")
        /\ \A t \in Steps : t # u /\ t # n => steps'[t] = steps[t]
    BY <1>0, <2>2, <2>3 DEF TypeOK
  <2>5. /\ Moved(steps[n], "waiting_for_approval").status = "waiting_for_approval"
        /\ Moved(steps[n], "waiting_for_approval").attempt = steps[n].attempt
    BY <1>0, RowMoved
  <2>6. Rests(u) /\ Rests(n)
    BY <1>2, <2>4, <2>5, RowStops DEF SameAttempt, Awaiting
  <2> QED
    BY <1>1, <2>1, <2>4, <2>6, OthersKeepHolders DEF Toll
<1>6. CASE CompletionCancels(w)
  BY <1>0, <1>6, CancelNowTolls DEF CompletionCancels
<1>7. CASE CompletionRefused(w)
  BY <1>1, <1>7, RefusedTolls DEF CompletionRefused
<1>8. CASE ExecutionRaises(w)
  <2>1. UNCHANGED steps
    BY <1>8 DEF ExecutionRaises
  <2>2. \A s \in Steps : HolderStays(s)
    BY <1>0, <1>8, RaisingWorker DEF HolderStays
  <2> QED
    BY <2>1, <2>2, RowRests DEF Toll
<1> QED
  BY <1>3, <1>4, <1>5, <1>6, <1>7, <1>8

\* fail_step retries within the limit only.
LEMMA FailureTolls ==
  ASSUME AgreeInv, Effect, NEW w \in Workers,
         FailStepForRetry(w) \/ FailStepForGood(w) \/ FailureDropped(w)
  PROVE  \A s \in Steps : Toll(s)
<1>0. TypeOK /\ workers[w].pc = "failing" /\ GoIdle(w)
  BY DEF FailStepForRetry, FailStepForGood, FailureDropped, AgreeInv
<1>1. PICK u \in Steps : u = workers[w].step
  BY <1>0, WorkerFacts
<1>2. CASE FailStepForRetry(w) \/ FailStepForGood(w)
  <2>1. PICK target \in {"retry_scheduled", "failed"} :
          /\ steps' = [steps EXCEPT ![u] = Released(steps[u], target)]
          /\ target = "retry_scheduled" => steps[u].attempt < MaxAttempts
    BY <1>1, <1>2 DEF FailStepForRetry, FailStepForGood, MayRetry
  <2>2. steps'[u] = Released(steps[u], target) /\ \A t \in Steps : t # u => steps'[t] = steps[t]
    BY <1>0, <2>1 DEF TypeOK
  <2>3. Released(steps[u], target).status = target
        /\ Released(steps[u], target).attempt = steps[u].attempt
    BY <1>0, RowMoved
  <2>4. SameAttempt(u)
    BY <2>2, <2>3 DEF SameAttempt
  <2>5. target = "failed" => Rests(u)
    BY <2>2, <2>3, <2>4, RowStops DEF Awaiting
  <2>6. Toll(u)
    BY <2>1, <2>4, <2>5 DEF Toll, Allowed
  <2> QED
    BY <1>0, <1>1, <2>2, <2>6, OthersKeepHolders DEF Toll
<1>3. CASE FailureDropped(w)
  <2>1. UNCHANGED <<steps, run>>
    BY <1>3 DEF FailureDropped
  <2>2. CASE ~Owns(w)
    BY <1>0, <1>1, <2>1, <2>2, RefusedTolls
  <2>3. CASE ~RunMay(run.status, "failed")
    <3>1. run.status # "running"
      BY <2>3 DEF RunMay, RunTransitions
    <3> QED
      BY <2>1, <3>1 DEF Toll, Rests, SameAttempt, ClaimDue
  <2> QED
    BY <1>3, <2>2, <2>3 DEF FailureDropped
<1> QED
  BY <1>2, <1>3

\* A restart and the approval of a cost are paid for; a resumed retry was due.
LEMMA UserTolls ==
  ASSUME AgreeInv, AgreeInv', Effect, ClaimsPaid, [Next]_vars, User
  PROVE  \A s \in Steps : Toll(s)
<1>0. TypeOK /\ TypeOK' /\ UNCHANGED workers
  BY DEF AgreeInv, User, Cancel, ResumeCancels, RestartFailed, ResumeRetryNow, ApproveHighCost,
         ApproveMaterial, DecisionFails
<1>1. CASE CancelNow
  BY <1>0, <1>1, CancelNowTolls
<1>2. CASE UNCHANGED steps
  BY <1>0, <1>2, RowsRest DEF Toll
<1>3. ASSUME NEW u \in Steps, ApproveMaterial(u) PROVE \A s \in Steps : Toll(s)
  <2>1. /\ QueueAfter(u, Moved(steps[u], "completed"), "queued") /\ "queued" \in RunStatus
        /\ StatusOf(u) = "waiting_for_approval"
    BY <1>3, StatusNames DEF ApproveMaterial, Deciding, StatusOf
  <2>2. /\ Moved(steps[u], "completed") \in Step /\ Moved(steps[u], "completed").status = "completed"
        /\ Moved(steps[u], "completed").attempt = steps[u].attempt
    BY <1>0, RowMoved
  <2>3. \A t \in Steps : Toll(t) \/ (steps'[t] = steps[t] /\ t # u)
    BY <2>1, <2>2, QueueAfterTolls
  <2> QED
    BY <1>0, <2>3, RowsRest DEF Toll
<1>4. ASSUME NEW u \in Steps,
             \/ RestartFailed(u) \/ ResumeRetryNow(u) \/ ApproveHighCost(u)
             \/ \E verdict \in {"rejected", "expired"} : DecisionFails(u, verdict)
      PROVE  \A s \in Steps : Toll(s)
  <2>1. PICK target \in {"queued", "failed"} :
          /\ steps' = [steps EXCEPT ![u] = Moved(steps[u], target)]
          /\ target = "queued" => RestartFailed(u) \/ ResumeRetryNow(u) \/ ApproveHighCost(u)
    BY <1>4 DEF RestartFailed, ResumeRetryNow, ApproveHighCost, DecisionFails
  <2>2. steps'[u] = Moved(steps[u], target) /\ \A t \in Steps : t # u => steps'[t] = steps[t]
    BY <1>0, <2>1 DEF TypeOK
  <2>3. Moved(steps[u], target).status = target
        /\ Moved(steps[u], target).attempt = steps[u].attempt
    BY <1>0, RowMoved
  <2>4. SameAttempt(u)
    BY <2>2, <2>3 DEF SameAttempt
  <2>5. CASE target = "failed"
    <3>1. Rests(u)
      BY <2>2, <2>3, <2>4, <2>5, RowStops DEF Awaiting
    <3> QED
      BY <1>0, <2>2, <3>1, RowsRest DEF Toll
  <2>6. CASE ResumeRetryNow(u)
    <3>1. Rests(u)
      BY <2>4, <2>6 DEF ResumeRetryNow, Rests, ClaimDue, Awaiting
    <3> QED
      BY <1>0, <2>2, <3>1, RowsRest DEF Toll
  <2>7. CASE RestartFailed(u)
    <3>1. run'.attempt = run.attempt + 1
      <4>1. run' = [run EXCEPT !.status = "queued", !.attempt = run.attempt + 1, !.retryWait = FALSE]
        BY <2>7 DEF RestartFailed
      <4> QED
        BY <1>0, <4>1, TypeFacts DEF Run
    <3>2. Toll(u)
      BY <1>0, <2>4, <3>1, AllowanceGrows DEF Toll, Pays
    <3> QED
      BY <1>0, <2>2, <3>2, RowsRest DEF Toll
  <2>8. CASE ApproveHighCost(u)
    <3>1. approvals[u] # "approved" /\ approvals'[u] = "approved"
      BY <1>0, <2>8 DEF ApproveHighCost, Deciding, TypeOK
    <3>2. Toll(u)
      BY <1>0, <2>4, <3>1, AllowanceGrows DEF Toll, Pays
    <3> QED
      BY <1>0, <2>2, <3>2, RowsRest DEF Toll
  <2> QED
    BY <2>1, <2>5, <2>6, <2>7, <2>8
<1> QED
  BY <1>1, <1>2, <1>3, <1>4 DEF User, Cancel, ResumeCancels

LEMMA DeliveryTolls ==
  ASSUME AgreeInv, Effect, NEW m \in queue,
         DeliveryCancels(m) \/ DeliveryRequeuesDeadRun(m) \/ DeliveryIgnored(m) \/ MessageLost(m)
  PROVE  \A s \in Steps : Toll(s)
<1>1. TypeOK /\ UNCHANGED workers
  BY DEF AgreeInv, DeliveryCancels, DeliveryRequeuesDeadRun, DeliveryIgnored, MessageLost
<1>2. CASE DeliveryCancels(m)
  BY <1>1, <1>2, CancelNowTolls DEF DeliveryCancels
<1>3. CASE DeliveryRequeuesDeadRun(m)
  <2>1. PICK u \in Steps : u = m.step
    BY <1>1, TypeFacts
  <2>2. /\ steps[u].status = "retry_scheduled"
        /\ steps' = [steps EXCEPT ![u] = Moved(steps[u], "queued")]
    BY <1>3, <2>1 DEF DeliveryRequeuesDeadRun, RequeuesOnly, RetryDue
  <2>3. steps'[u] = Moved(steps[u], "queued") /\ \A t \in Steps : t # u => steps'[t] = steps[t]
    BY <1>1, <2>2 DEF TypeOK
  <2>4. Rests(u)
    BY <1>1, <2>2, <2>3, RowMoved DEF Rests, SameAttempt, ClaimDue, Awaiting
  <2> QED
    BY <1>1, <2>3, <2>4, RowsRest DEF Toll
<1>4. CASE UNCHANGED steps
  BY <1>1, <1>4, RowsRest DEF Toll
<1> QED
  BY <1>2, <1>3, <1>4 DEF DeliveryIgnored, MessageLost

\* An expired lease makes the next claim due; under its worker that is a fault.
LEMMA RecoveryTolls ==
  ASSUME AgreeInv, AgreeInv', Effect, [Next]_vars, NEW u \in Steps,
         RecoverExpired(u) \/ RecoveryCancels(u) \/ LeaseExpires(u)
  PROVE  \A s \in Steps : Toll(s)
<1>1. TypeOK /\ TypeOK' /\ UNCHANGED workers
  BY DEF AgreeInv, RecoverExpired, RecoveryCancels, LeaseExpires
<1>2. CASE RecoveryCancels(u)
  BY <1>1, <1>2, CancelNowTolls DEF RecoveryCancels
<1>3. CASE RecoverExpired(u)
  <2>1. ClaimDue(u)
    BY <1>3 DEF RecoverExpired, ClaimDue, Held
  <2>2. PICK row \in Step : row = Moved(steps[u], "retry_scheduled") /\ row.attempt = steps[u].attempt
    BY <1>1, RowMoved
  <2>3. /\ steps' = [steps EXCEPT ![u] = Moved(row, "queued")]
        /\ Moved(row, "queued").attempt = steps[u].attempt
    BY <1>3, <2>2, MovedRow, StatusNames DEF RecoverExpired
  <2>4. steps'[u] = Moved(row, "queued") /\ \A t \in Steps : t # u => steps'[t] = steps[t]
    BY <1>1, <2>3 DEF TypeOK
  <2>5. Rests(u)
    BY <2>1, <2>3, <2>4 DEF Rests, SameAttempt
  <2> QED
    BY <1>1, <2>4, <2>5, RowsRest DEF Toll
<1>4. CASE LeaseExpires(u)
  <2>1. steps[u].status = "running" /\ steps' = [steps EXCEPT ![u].lease = "expired"]
        /\ UNCHANGED run
    BY <1>4 DEF LeaseExpires
  <2>2. PICK row \in Step : /\ row = [steps[u] EXCEPT !.lease = "expired"]
                            /\ row.attempt = steps[u].attempt
    <3>1. steps[u] \in Step
      BY <1>1, TypeFacts
    <3>2. [steps[u] EXCEPT !.lease = "expired"] \in Step
      BY <3>1 DEF Step
    <3>3. [steps[u] EXCEPT !.lease = "expired"].attempt = steps[u].attempt
      BY <3>1 DEF Step
    <3> QED
      BY <3>2, <3>3
  <2>3. steps'[u] = row /\ \A t \in Steps : t # u => steps'[t] = steps[t]
    BY <1>1, <2>1, <2>2 DEF TypeOK
  <2>4. SameAttempt(u)
    BY <2>2, <2>3 DEF SameAttempt
  <2>5. CASE Fault
    <3>1. Toll(u)
      BY <1>1, <2>4, <2>5, AllowanceGrows DEF Toll, Pays, Fault
    <3> QED
      BY <1>1, <2>3, <3>1, RowsRest DEF Toll
  <2>6. CASE ~\E w \in Workers : workers[w] # Idle /\ workers[w].step = u /\ Owns(w)
    <3>1. \A w \in Workers : workers[w].step = u => workers[w] # Idle
      BY <1>1, WorkerFacts
    <3>2. ~Held(u)
      BY <2>1, <2>6, <3>1 DEF Held, Owns
    <3>3. Rests(u)
      <4>1. steps'[u].status = steps[u].status
        BY <1>1, <2>2, <2>3, TypeFacts DEF Step
      <4> QED
        BY <2>1, <2>4, <3>2, <4>1 DEF Rests, ClaimDue, Awaiting
    <3> QED
      BY <1>1, <2>3, <3>3, RowsRest DEF Toll
  <2> QED
    BY <1>4, <2>5, <2>6 DEF LeaseExpires
<1> QED
  BY <1>2, <1>3, <1>4

LEMMA StepTolls ==
  ASSUME AgreeInv, AgreeInv', ClaimsPaid, [Next]_vars
  PROVE  \A s \in Steps : Toll(s)
<1>0. TypeOK /\ TypeOK' /\ Effect
  BY TransactionEffect DEF AgreeInv
<1>1. ASSUME NEW m \in queue, Deliver(m) \/ MessageLost(m) PROVE \A s \in Steps : Toll(s)
  BY <1>0, <1>1, ClaimTolls, DeliveryTolls DEF Deliver
<1>2. ASSUME NEW w \in Workers, Finish(w) PROVE \A s \in Steps : Toll(s)
  BY <1>0, <1>2, CompletionTolls, FailureTolls DEF Finish
<1>3. ASSUME NEW w \in Workers, WorkerCrashes(w) PROVE \A s \in Steps : Toll(s)
  BY <1>0, <1>3, AllowanceGrows DEF WorkerCrashes, Fault, Toll, Pays, SameAttempt
<1>4. ASSUME NEW e \in outbox, Dispatch(e) \/ PublishFails(e) \/ PublishInterrupted(e)
                                 \/ EventAvailable(e)
      PROVE \A s \in Steps : Toll(s)
  <2>1. UNCHANGED <<steps, workers>>
    BY <1>4 DEF Dispatch, MarkPublishing, Publish, RecoverStalePublication, RecoverOrphan,
                PublishFails, PublishInterrupted, EventAvailable
  <2> QED
    BY <1>0, <2>1, RowsRest DEF Toll
<1>5. ASSUME RetryDelayElapses \/ UNCHANGED vars PROVE \A s \in Steps : Toll(s)
  <2>1. UNCHANGED <<steps, workers>>
    BY <1>5 DEF RetryDelayElapses, vars
  <2> QED
    BY <1>0, <2>1, RowsRest DEF Toll
<1>6. ASSUME User PROVE \A s \in Steps : Toll(s)
  BY <1>0, <1>6, UserTolls
<1>7. ASSUME NEW u \in Steps, RecoverExpired(u) \/ RecoveryCancels(u) \/ LeaseExpires(u)
      PROVE  \A s \in Steps : Toll(s)
  BY <1>0, <1>7, RecoveryTolls
<1> QED
  BY <1>1, <1>2, <1>3, <1>4, <1>5, <1>6, <1>7 DEF Next

\* Nothing becomes pending again.
LEMMA PendingBefore ==
  ASSUME Effect, NEW s \in Steps, steps'[s].status = "pending"
  PROVE  steps[s].status = "pending"
BY DEF Effect, NoChange, CancelsAll, Starts, Requeues, CompletesExecution, Completes, AsksForGate,
       AsksForCost, FailsExecution, Grants, Refuses, Becomes, BecomeBoth, StatusOf

\* A Step is claimed as often as its limit allows, and beyond it once for each fault, each
\* restart and the approval of its cost, although the recovery of leases, repeated messages
\* and resumed retries do not look at the limit (service.py: claim_step, fail_step,
\* _restart_failed, recover_expired_steps, decide_approval).
THEOREM ClaimsArePaidFor == Spec => []AttemptsArePaidFor
<1>1. Init => ClaimsPaid
  <2> SUFFICES ASSUME Init, NEW s \in Steps PROVE ClaimPaid(s)
    BY DEF ClaimsPaid
  <2>1. steps[s].attempt = 0 /\ faults = 0 /\ run.attempt = 0 /\ approvals[s] = "none"
    BY DEF Init
  <2>2. Due(s) \in {0, 1} /\ Approval(s) = 0
    BY <2>1 DEF Due, Approval
  <2>3. MaxAttempts \in Nat \ {0}
    BY LimitAssumption
  <2> QED
    BY <2>1, <2>2, <2>3 DEF ClaimPaid, Allowance
<1>2. ClaimsPaid /\ AgreeInv /\ AgreeInv' /\ [Next]_vars => ClaimsPaid'
  <2> SUFFICES ASSUME ClaimsPaid, AgreeInv, AgreeInv', [Next]_vars, NEW s \in Steps
               PROVE  ClaimPaid(s)'
    BY DEF ClaimsPaid
  <2>1. TypeOK /\ TypeOK' /\ Effect
    BY TransactionEffect DEF AgreeInv
  <2>2. Toll(s) /\ ClaimPaid(s)
    BY StepTolls DEF ClaimsPaid
  <2> QED
    BY <2>1, <2>2, PendingBefore, TollIsPaid
<1>3. ClaimsPaid /\ TypeOK => AttemptsArePaidFor
  <2> SUFFICES ASSUME ClaimsPaid, TypeOK, NEW s \in Steps
               PROVE  steps[s].attempt <= MaxAttempts + faults + run.attempt
                                            + (IF approvals[s] = "approved" THEN 1 ELSE 0)
    BY DEF AttemptsArePaidFor
  <2>1. /\ steps[s].attempt \in Nat /\ faults \in Nat /\ run.attempt \in Nat
        /\ MaxAttempts \in Nat /\ Due(s) \in {0, 1} /\ Approval(s) \in {0, 1}
    BY LimitAssumption DEF TypeOK, Step, Run, Due, Approval
  <2>2. steps[s].attempt + Due(s) <= MaxAttempts + faults + run.attempt + Approval(s)
    BY DEF ClaimsPaid, ClaimPaid, Allowance
  <2>3. steps[s].attempt <= MaxAttempts + faults + run.attempt + Approval(s)
    BY <2>1, <2>2
  <2> QED
    BY <2>3 DEF Approval
<1> QED
  BY <1>1, <1>2, <1>3, TypeCorrect, AgreeInvariant, PTL DEF Spec
==============================================================================
