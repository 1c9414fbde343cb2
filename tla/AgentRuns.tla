------------------------------ MODULE AgentRuns ------------------------------
(***************************************************************************)
(* One Agent Run: its Steps, approvals, Outbox events, the Redis queue,    *)
(* the Dramatiq workers that claim and execute Steps, the dispatcher that  *)
(* publishes events, crash recovery, and the owning user                   *)
(* (backend/app/agent_runs/{service,workflow,outbox,worker,tasks}.py).     *)
(*                                                                         *)
(* Every action is one database transaction (or one Redis operation).  A   *)
(* worker's execution transaction holds the Run and Step row locks from    *)
(* its first read to its commit, so it is one action too; the claim before *)
(* it and the failure record after a rollback are transactions of their    *)
(* own, and anything may happen in between.  Optimistic revisions of the   *)
(* Run are not represented: a request with an outdated revision changes    *)
(* nothing, one with the current revision has seen the current state.      *)
(***************************************************************************)
EXTENDS Naturals, AgentStates

CONSTANTS
  N,             \* number of Steps; Step s is the one of step_order s
  ModelSteps,    \* Steps that call the model and create a Material Version
  RequestSteps,  \* request_*_approval Steps; each is followed by its wait_* Step
  HighCost,      \* model Steps whose projected cost needs a user's approval
  Workers,
  MaxAttempts,   \* step.max_attempts: 1 + agent_max_auto_retries
  PublishLimit,  \* event.max_attempts
  PublicRestart, \* whether the retry and resume routes are served
  MaxRestarts,   \* bound: explicit restarts of a failed Run
  MaxFaults      \* bound: crashes, failed publications, lost or repeated messages,
                 \* executions slower than their lease

Steps     == 1 .. N
WaitSteps == {s + 1 : s \in RequestSteps}

ASSUME WorkflowAssumption ==
  /\ N \in Nat \ {0}
  /\ ModelSteps \subseteq Steps /\ RequestSteps \subseteq Steps
  /\ HighCost \subseteq ModelSteps
  /\ ModelSteps \cap RequestSteps = {}
  /\ WaitSteps \subseteq 2 .. (N - 1)
  /\ WaitSteps \cap (ModelSteps \cup RequestSteps) = {}

ASSUME LimitAssumption ==
  /\ MaxAttempts \in Nat \ {0} /\ PublishLimit \in Nat \ {0}
  /\ MaxRestarts \in Nat /\ MaxFaults \in Nat
  /\ PublicRestart \in BOOLEAN

VARIABLES
  run,          \* the agent_runs row
  steps,        \* the agent_steps rows
  approvals,    \* status of the approval_requests row of each Step
  outbox,       \* the agent_outbox_events rows
  queue,        \* messages Redis may still deliver, any number of times
  workers,      \* what each worker thread holds between its transactions
  versions,     \* Material Versions committed on behalf of each Step
  deadLetters,  \* the dead_letter_records rows
  faults        \* bound: faults that have happened

vars == <<run, steps, approvals, outbox, queue, workers, versions, deadLetters, faults>>

-----------------------------------------------------------------------------
(* Rows and messages *)

Run == [ status: RunStatus,
         cancelReq: BOOLEAN,   \* cancel_requested
         rejected: BOOLEAN,    \* safe_error_code = "approval_rejected"
         retryWait: BOOLEAN,   \* retry_at lies in the future
         attempt: Nat ]        \* explicit restarts

Step == [ status: StepStatus,
          rev: Nat,
          attempt: Nat,
          token: Nat,          \* execution_token: fresh per claim; 0 is NULL
          lease: {"none", "live", "expired"} ]

ApprovalStatus == {"none", "pending", "approved", "rejected", "expired", "cancelled"}

Event == [ step: Steps, rev: Nat, attempt: Nat,
           status: {"pending", "publishing", "published", "failed", "dead_letter"},
           tries: 0 .. PublishLimit,  \* saturates: it is only compared with max_attempts
           avail: BOOLEAN,            \* available_at has passed
           locked: BOOLEAN ]          \* the dispatcher in locked_by is still at work

Message == [step: Steps, attempt: Nat]

Idle   == [pc |-> "idle", step |-> 0, token |-> 0, retriable |-> FALSE]
Worker == {Idle} \cup [ pc: {"claimed", "failing"}, step: Steps, token: Nat, retriable: BOOLEAN ]

DeadLetter == [reason: {"retry_exhausted", "redis_publish_exhausted"}, step: Steps]

TypeOK ==
  /\ run \in Run
  /\ steps \in [Steps -> Step]
  /\ approvals \in [Steps -> ApprovalStatus]
  /\ outbox \in SUBSET Event
  /\ queue \in SUBSET Message
  /\ workers \in [Workers -> Worker]
  /\ versions \in [Steps -> Nat]
  /\ deadLetters \in SUBSET DeadLetter
  /\ faults \in 0 .. MaxFaults

-----------------------------------------------------------------------------
(* Helpers shared by the transactions *)

\* Mutant: the deduplication key forgets the revision and the attempt.
EnqueueOncePerStep(st, s, available) ==
  IF \E e \in outbox : e.step = s
    THEN outbox
    ELSE outbox \cup {[ step |-> s, rev |-> st[s].rev, attempt |-> st[s].attempt,
                        status |-> "pending", tries |-> 0, avail |-> available,
                        locked |-> FALSE ]}

\* _enqueue for Step s of table st: the deduplication key is (step, revision,
\* attempt), the payload carries the attempt.
Enqueue(st, s, available) ==
  IF \E e \in outbox : e.step = s /\ e.rev = st[s].rev /\ e.attempt = st[s].attempt
    THEN outbox
    ELSE outbox \cup {[ step |-> s, rev |-> st[s].rev, attempt |-> st[s].attempt,
                        status |-> "pending", tries |-> 0, avail |-> available,
                        locked |-> FALSE ]}

\* _transition_step of one row: every transition bumps the Step's revision.
Moved(row, target) == [row EXCEPT !.status = target, !.rev = @ + 1]

\* The Step row when its execution ends: token and lease are cleared.
Released(row, target) == [Moved(row, target) EXCEPT !.token = 0, !.lease = "none"]

\* _queue_after, with Step s done as row `done` and the Run in status `onward`:
\* complete the Run or queue the next Step.
QueueAfter(s, done, onward) ==
  IF s = N
    THEN /\ RunMay(onward, "completed")
         /\ steps' = [steps EXCEPT ![s] = done]
         /\ run' = [run EXCEPT !.status = "completed"]
         /\ UNCHANGED outbox
    ELSE /\ StepMay(steps[s + 1].status, "queued")
         /\ steps' = [steps EXCEPT ![s] = done, ![s + 1] = Moved(@, "queued")]
         /\ run' = [run EXCEPT !.status = onward]
         /\ outbox' = Enqueue(steps', s + 1, TRUE)

\* Mutant: the pending approvals of the Run stay open.
CancelNowKeepsApprovals ==
  /\ RunMay(run.status, "cancelled")
  /\ run' = [run EXCEPT !.status = "cancelled", !.cancelReq = TRUE]
  /\ steps' = [s \in Steps |-> IF steps[s].status \in SettledStep
                                 THEN steps[s] ELSE Moved(steps[s], "cancelled")]
  /\ UNCHANGED approvals

\* _cancel_now: the Run, every unsettled Step and every pending approval.
CancelNow ==
  /\ RunMay(run.status, "cancelled")
  /\ run' = [run EXCEPT !.status = "cancelled", !.cancelReq = TRUE]
  /\ steps' = [s \in Steps |-> IF steps[s].status \in SettledStep
                                 THEN steps[s] ELSE Moved(steps[s], "cancelled")]
  /\ approvals' = [s \in Steps |-> IF approvals[s] = "pending"
                                     THEN "cancelled" ELSE approvals[s]]

\* _create_approval returns the existing request of this Step, whatever its status.
CreateApproval(s) ==
  approvals' = [approvals EXCEPT ![s] = IF @ = "none" THEN "pending" ELSE @]

Fault == faults < MaxFaults /\ faults' = faults + 1

-----------------------------------------------------------------------------
(* The state create() commits: Run queued, first Step queued and enqueued. *)

Init ==
  /\ run = [status |-> "queued", cancelReq |-> FALSE, rejected |-> FALSE,
            retryWait |-> FALSE, attempt |-> 0]
  /\ steps = [s \in Steps |-> [status |-> IF s = 1 THEN "queued" ELSE "pending",
                               rev |-> 1, attempt |-> 0, token |-> 0, lease |-> "none"]]
  /\ approvals = [s \in Steps |-> "none"]
  /\ outbox = {[step |-> 1, rev |-> 1, attempt |-> 0, status |-> "pending",
                tries |-> 0, avail |-> TRUE, locked |-> FALSE]}
  /\ queue = {}
  /\ workers = [w \in Workers |-> Idle]
  /\ versions = [s \in Steps |-> 0]
  /\ deadLetters = {}
  /\ faults = 0

-----------------------------------------------------------------------------
(* claim_step, called by execute_delivery for a delivered message.  Its     *)
(* branches for a Step that is already running are not actions: the         *)
(* delivered attempt would have to equal the attempt of the running Step,   *)
(* and FencedDeliveries shows that no message ever carries it.              *)

\* A retry_scheduled Step is due, and lends its Run's status to the claim.
RetryDue(s) == steps[s].status = "retry_scheduled" /\ ~run.retryWait

Claimable(m) ==
  /\ m.attempt = steps[m.step].attempt
  /\ ~run.cancelReq
  /\ \/ steps[m.step].status = "queued" /\ run.status \in {"queued", "running"}
     \/ RetryDue(m.step) /\ run.status \in {"queued", "running", "retry_scheduled"}

\* A lost acknowledgement leaves the message to be delivered again.
Acknowledge(m) ==
  \/ queue' = queue \ {m} /\ UNCHANGED faults
  \/ UNCHANGED queue /\ Fault

\* Mutant: the attempt is not counted when the Step starts.
StartedUncounted(row) ==
  [Moved(row, "running") EXCEPT !.token = row.attempt + 1, !.lease = "live"]

\* The Step row once it is claimed
Started(row) ==
  [Moved(row, "running") EXCEPT !.attempt = @ + 1, !.token = row.attempt + 1, !.lease = "live"]

Claim(w, m) ==
  LET s   == m.step
      row == Started(IF RetryDue(s) THEN Moved(steps[s], "queued") ELSE steps[s])
  IN  /\ workers[w] = Idle
      /\ Claimable(m)
      /\ run' = [run EXCEPT !.status = "running"]
      /\ steps' = [steps EXCEPT ![s] = row]
      /\ workers' = [workers EXCEPT ![w] = [pc |-> "claimed", step |-> s,
                                            token |-> row.token, retriable |-> FALSE]]
      /\ Acknowledge(m)
      /\ UNCHANGED <<approvals, outbox, versions, deadLetters>>

\* A delivery of the current attempt cancels a Run whose cancellation was requested.
Cancels(m) ==
  /\ steps[m.step].status \notin SettledStep /\ m.attempt = steps[m.step].attempt
  /\ run.cancelReq /\ RunMay(run.status, "cancelled")

DeliveryCancels(m) ==
  /\ Cancels(m) /\ CancelNow
  /\ Acknowledge(m)
  /\ UNCHANGED <<outbox, workers, versions, deadLetters>>

\* The claim queues a due Step again before it looks at the status of the Run.
RequeuesOnly(m) ==
  /\ m.attempt = steps[m.step].attempt /\ ~run.cancelReq
  /\ RetryDue(m.step) /\ run.status = "dead_letter"

DeliveryRequeuesDeadRun(m) ==
  /\ RequeuesOnly(m)
  /\ steps' = [steps EXCEPT ![m.step] = Moved(@, "queued")]
  /\ Acknowledge(m)
  /\ UNCHANGED <<run, approvals, outbox, workers, versions, deadLetters>>

\* claim_step returns None (a stale attempt, a settled Step, a delay not over, a Run
\* that does not run) or raises for a dead-letter Run that was to be cancelled.
DeliveryIgnored(m) ==
  /\ ~Claimable(m) /\ ~Cancels(m) /\ ~RequeuesOnly(m)
  /\ queue' = queue \ {m}
  /\ UNCHANGED <<run, steps, approvals, outbox, workers, versions, deadLetters, faults>>

-----------------------------------------------------------------------------
(* execute_delivery after the claim.  Nothing re-checks the token before    *)
(* the Step's work is done; complete_step and fail_step do.                 *)

\* The token the worker holds is still the one of the running Step.
Owns(w) == LET row == steps[workers[w].step]
           IN  row.status = "running" /\ row.token = workers[w].token

\* Mutant: any decision on the request lets the Step through.
NeedsHighCostDecision(s) == s \in HighCost /\ approvals[s] \in {"none", "pending"}

NeedsHighCostApproval(s) == s \in HighCost /\ approvals[s] # "approved"

Executing(w) == workers[w].pc = "claimed" /\ ~NeedsHighCostApproval(workers[w].step)

\* The Step's own writes: a model Step creates a Material Version.
CommitEffects(s) ==
  versions' = [versions EXCEPT ![s] = IF s \in ModelSteps THEN @ + 1 ELSE @]

GoIdle(w) == workers' = [workers EXCEPT ![w] = Idle]

\* request_high_cost_approval
RequestHighCostApproval(w) ==
  LET s == workers[w].step
  IN  /\ workers[w].pc = "claimed" /\ NeedsHighCostApproval(s)
      /\ Owns(w) /\ RunMay(run.status, "waiting_for_approval")
      /\ steps' = [steps EXCEPT ![s] = Released(@, "waiting_for_approval")]
      /\ run' = [run EXCEPT !.status = "waiting_for_approval"]
      /\ CreateApproval(s)
      /\ GoIdle(w)
      /\ UNCHANGED <<outbox, queue, versions, deadLetters, faults>>

\* complete_step of a Step that is not an approval request
CompleteStep(w) ==
  LET s == workers[w].step
  IN  /\ Executing(w) /\ Owns(w) /\ ~run.cancelReq
      /\ s \notin RequestSteps
      /\ QueueAfter(s, Released(steps[s], "completed"), run.status)
      /\ CommitEffects(s)
      /\ GoIdle(w)
      /\ UNCHANGED <<approvals, queue, deadLetters, faults>>

\* complete_step of a request_*_approval Step opens its wait_* Step
CompleteRequestStep(w) ==
  LET s == workers[w].step
  IN  /\ Executing(w) /\ Owns(w) /\ ~run.cancelReq
      /\ s \in RequestSteps
      /\ StepMay(steps[s + 1].status, "waiting_for_approval")
      /\ RunMay(run.status, "waiting_for_approval")
      /\ steps' = [steps EXCEPT ![s] = Released(@, "completed"),
                                ![s + 1] = Moved(@, "waiting_for_approval")]
      /\ run' = [run EXCEPT !.status = "waiting_for_approval"]
      /\ CreateApproval(s + 1)
      /\ GoIdle(w)
      /\ UNCHANGED <<outbox, queue, versions, deadLetters, faults>>

\* complete_step finds the cancellation request; the Step's work is committed
CompletionCancels(w) ==
  /\ Executing(w) /\ Owns(w)
  /\ run.cancelReq /\ CancelNow
  /\ CommitEffects(workers[w].step)
  /\ GoIdle(w)
  /\ UNCHANGED <<outbox, queue, deadLetters, faults>>

\* complete_step (or the approval request) refuses an outdated token and the
\* transaction commits: whatever the execution wrote stays.
CompletionRefused(w) ==
  /\ workers[w].pc = "claimed" /\ ~Owns(w)
  /\ IF Executing(w) THEN CommitEffects(workers[w].step) ELSE UNCHANGED versions
  /\ GoIdle(w)
  /\ UNCHANGED <<run, steps, approvals, outbox, queue, deadLetters, faults>>

\* The execution raises and is rolled back: a provider timeout (retriable), a
\* budget, validation or policy error, an illegal transition.
ExecutionRaises(w) ==
  /\ workers[w].pc = "claimed"
  /\ \E retriable \in BOOLEAN :
       /\ retriable => workers[w].step \in ModelSteps
       /\ workers' = [workers EXCEPT ![w].pc = "failing", ![w].retriable = retriable]
  /\ UNCHANGED <<run, steps, approvals, outbox, queue, versions, deadLetters, faults>>

-----------------------------------------------------------------------------
(* fail_step, in a transaction of its own after the rollback *)

\* Mutant: off by one in the number of attempts.
MayRetryLess(w) == workers[w].retriable /\ steps[workers[w].step].attempt + 1 < MaxAttempts

\* Mutant: off by one the other way.
MayRetryMore(w) == workers[w].retriable /\ steps[workers[w].step].attempt <= MaxAttempts

MayRetry(w) == workers[w].retriable /\ steps[workers[w].step].attempt < MaxAttempts

FailStepForRetry(w) ==
  LET s == workers[w].step
  IN  /\ workers[w].pc = "failing" /\ Owns(w) /\ MayRetry(w)
      /\ RunMay(run.status, "retry_scheduled")
      /\ steps' = [steps EXCEPT ![s] = Released(@, "retry_scheduled")]
      /\ run' = [run EXCEPT !.status = "retry_scheduled", !.rejected = FALSE,
                            !.retryWait = TRUE]
      /\ outbox' = Enqueue(steps', s, FALSE)
      /\ GoIdle(w)
      /\ UNCHANGED <<approvals, queue, versions, deadLetters, faults>>

\* An exhausted retriable failure also moves the Run to dead letter.
FailStepForGood(w) ==
  LET s == workers[w].step
  IN  /\ workers[w].pc = "failing" /\ Owns(w) /\ ~MayRetry(w)
      /\ RunMay(run.status, "failed")
      /\ steps' = [steps EXCEPT ![s] = Released(@, "failed")]
      /\ run' = [run EXCEPT !.rejected = FALSE,
                            !.status = IF workers[w].retriable THEN "dead_letter" ELSE "failed"]
      /\ deadLetters' = IF workers[w].retriable
                          THEN deadLetters \cup {[reason |-> "retry_exhausted", step |-> s]}
                          ELSE deadLetters
      /\ GoIdle(w)
      /\ UNCHANGED <<approvals, outbox, queue, versions, faults>>

\* fail_step returns (outdated token) or raises (the Run is no longer running).
FailureDropped(w) ==
  /\ workers[w].pc = "failing"
  /\ ~Owns(w) \/ ~RunMay(run.status, "failed")
  /\ GoIdle(w)
  /\ UNCHANGED <<run, steps, approvals, outbox, queue, versions, deadLetters, faults>>

-----------------------------------------------------------------------------
(* The owning user: cancel, retry, resume, and the approval decisions *)

\* cancel: a running Run only records the request.
Cancel ==
  /\ IF run.status = "running"
       THEN /\ ~run.cancelReq
            /\ run' = [run EXCEPT !.cancelReq = TRUE]
            /\ UNCHANGED <<steps, approvals>>
       ELSE CancelNow
  /\ UNCHANGED <<outbox, queue, workers, versions, deadLetters, faults>>

\* Mutant: a rejected or expired wait_* Step can be restarted.
RestartRefused(s) ==
  /\ PublicRestart
  /\ run.status = "failed"
  /\ run.attempt < MaxRestarts
  /\ steps[s].status = "failed" /\ \A t \in 1 .. (s - 1) : steps[t].status # "failed"
  /\ steps' = [steps EXCEPT ![s] = Moved(@, "queued")]
  /\ run' = [run EXCEPT !.status = "queued", !.attempt = @ + 1, !.retryWait = FALSE]
  /\ outbox' = Enqueue(steps', s, TRUE)
  /\ UNCHANGED <<approvals, queue, workers, versions, deadLetters, faults>>

\* retry, and resume of a failed Run: _restart_failed of the first failed Step
RestartFailed(s) ==
  /\ PublicRestart
  /\ run.status = "failed" /\ ~run.rejected
  /\ run.attempt < MaxRestarts
  /\ steps[s].status = "failed" /\ \A t \in 1 .. (s - 1) : steps[t].status # "failed"
  /\ s \notin WaitSteps
  /\ steps' = [steps EXCEPT ![s] = Moved(@, "queued")]
  /\ run' = [run EXCEPT !.status = "queued", !.attempt = @ + 1, !.retryWait = FALSE]
  /\ outbox' = Enqueue(steps', s, TRUE)
  /\ UNCHANGED <<approvals, queue, workers, versions, deadLetters, faults>>

\* resume of a scheduled retry, without waiting for its delay
ResumeRetryNow(s) ==
  /\ PublicRestart
  /\ run.status = "retry_scheduled" /\ steps[s].status = "retry_scheduled"
  /\ steps' = [steps EXCEPT ![s] = Moved(@, "queued")]
  /\ run' = [run EXCEPT !.status = "queued", !.retryWait = FALSE]
  /\ outbox' = Enqueue(steps', s, TRUE)
  /\ UNCHANGED <<approvals, queue, workers, versions, deadLetters, faults>>

\* resume of a running Run whose cancellation was requested
ResumeCancels ==
  /\ PublicRestart
  /\ run.status = "running" /\ run.cancelReq
  /\ CancelNow
  /\ UNCHANGED <<outbox, queue, workers, versions, deadLetters, faults>>

\* recover_expired_steps -> resume of a Run whose cancellation was requested
RecoveryCancels(s) ==
  /\ run.status = "running" /\ run.cancelReq
  /\ steps[s].status = "running" /\ steps[s].lease = "expired"
  /\ CancelNow
  /\ UNCHANGED <<outbox, queue, workers, versions, deadLetters, faults>>

\* Mutant: the expiry of the lease is not looked at.
RecoverLive(s) ==
  /\ run.status = "running" /\ ~run.cancelReq
  /\ steps[s].status = "running"
  /\ steps' = [steps EXCEPT ![s] = Moved(Moved(@, "retry_scheduled"), "queued")]
  /\ run' = [run EXCEPT !.status = "queued", !.retryWait = FALSE]
  /\ outbox' = Enqueue(steps', s, TRUE)
  /\ UNCHANGED <<approvals, queue, workers, versions, deadLetters, faults>>

\* recover_expired_steps -> resume: the expired Step is queued again, whatever
\* the number of its attempts.  Its old token is left in the row.
RecoverExpired(s) ==
  /\ run.status = "running" /\ ~run.cancelReq
  /\ steps[s].status = "running" /\ steps[s].lease = "expired"
  /\ steps' = [steps EXCEPT ![s] = Moved(Moved(@, "retry_scheduled"), "queued")]
  /\ run' = [run EXCEPT !.status = "queued", !.retryWait = FALSE]
  /\ outbox' = Enqueue(steps', s, TRUE)
  /\ UNCHANGED <<approvals, queue, workers, versions, deadLetters, faults>>

\* decide_approval on a pending request
Deciding(s) == approvals[s] = "pending" /\ steps[s].status = "waiting_for_approval"

\* Mutant: the decision's own word is stored as the status of the request.
ApproveVerbatim(s) ==
  /\ Deciding(s) /\ s \in ModelSteps
  /\ RunMay(run.status, "queued")
  /\ approvals' = [approvals EXCEPT ![s] = "approve"]
  /\ steps' = [steps EXCEPT ![s] = Moved(@, "queued")]
  /\ run' = [run EXCEPT !.status = "queued"]
  /\ outbox' = Enqueue(steps', s, TRUE)
  /\ UNCHANGED <<queue, workers, versions, deadLetters, faults>>

ApproveHighCost(s) ==
  /\ Deciding(s) /\ s \in ModelSteps
  /\ RunMay(run.status, "queued")
  /\ approvals' = [approvals EXCEPT ![s] = "approved"]
  /\ steps' = [steps EXCEPT ![s] = Moved(@, "queued")]
  /\ run' = [run EXCEPT !.status = "queued"]
  /\ outbox' = Enqueue(steps', s, TRUE)
  /\ UNCHANGED <<queue, workers, versions, deadLetters, faults>>

\* Mutant: the wait_* Step is left waiting when its successor is queued.
ApproveWithoutCompleting(s) ==
  /\ Deciding(s) /\ s \in WaitSteps
  /\ RunMay(run.status, "queued")
  /\ approvals' = [approvals EXCEPT ![s] = "approved"]
  /\ QueueAfter(s, steps[s], "queued")
  /\ UNCHANGED <<queue, workers, versions, deadLetters, faults>>

ApproveMaterial(s) ==
  /\ Deciding(s) /\ s \in WaitSteps
  /\ RunMay(run.status, "queued")
  /\ approvals' = [approvals EXCEPT ![s] = "approved"]
  /\ QueueAfter(s, Moved(steps[s], "completed"), "queued")
  /\ UNCHANGED <<queue, workers, versions, deadLetters, faults>>

\* A rejection, or a decision that comes after expires_at; only the rejection
\* leaves its error code on the Run.  The 409 of the late decision commits.
DecisionFails(s, verdict) ==
  /\ Deciding(s)
  /\ RunMay(run.status, "failed")
  /\ approvals' = [approvals EXCEPT ![s] = verdict]
  /\ steps' = [steps EXCEPT ![s] = Moved(@, "failed")]
  /\ run' = [run EXCEPT !.status = "failed", !.rejected = @ \/ verdict = "rejected"]
  /\ UNCHANGED <<outbox, queue, workers, versions, deadLetters, faults>>

-----------------------------------------------------------------------------
(* The dispatcher: dispatch_batch, recover_stale_publications and           *)
(* recover_orphaned_deliveries                                              *)

Replace(e, f) == (outbox \ {e}) \cup {f}

MessageOf(e) == [step |-> e.step, attempt |-> e.attempt]

\* The first transaction of dispatch_batch
MarkPublishing(e) ==
  /\ e.status \in {"pending", "failed"} /\ e.avail
  /\ outbox' = Replace(e, [e EXCEPT !.status = "publishing", !.locked = TRUE,
                                    !.tries = IF @ < PublishLimit THEN @ + 1 ELSE @])
  /\ UNCHANGED <<run, steps, approvals, queue, workers, versions, deadLetters, faults>>

\* send, then commit
Publish(e) ==
  /\ e.status = "publishing" /\ e.locked
  /\ queue' = queue \cup {MessageOf(e)}
  /\ outbox' = Replace(e, [e EXCEPT !.status = "published", !.locked = FALSE])
  /\ UNCHANGED <<run, steps, approvals, workers, versions, deadLetters, faults>>

\* The message reached Redis or not, when what follows went wrong.
MaybeSent(e) == queue' \in {queue, queue \cup {MessageOf(e)}}

\* The dispatcher stops before the commit; recover_stale_publications finds the event.
PublishInterrupted(e) ==
  /\ e.status = "publishing" /\ e.locked
  /\ MaybeSent(e) /\ Fault
  /\ outbox' = Replace(e, [e EXCEPT !.locked = FALSE])
  /\ UNCHANGED <<run, steps, approvals, workers, versions, deadLetters>>

RecoverStalePublication(e) ==
  /\ e.status = "publishing" /\ ~e.locked
  /\ outbox' = Replace(e, [e EXCEPT !.status = "failed"])
  /\ UNCHANGED <<run, steps, approvals, queue, workers, versions, deadLetters, faults>>

\* _record_publish_failure, after the send or the commit that follows it failed:
\* the last attempt takes the Run along, whatever its Steps are doing.
PublishFails(e) ==
  /\ e.status = "publishing" /\ e.locked
  /\ MaybeSent(e) /\ Fault
  /\ IF e.tries < PublishLimit
       THEN /\ outbox' = Replace(e, [e EXCEPT !.status = "failed", !.avail = FALSE,
                                              !.locked = FALSE])
            /\ UNCHANGED <<run, deadLetters>>
       ELSE /\ outbox' = Replace(e, [e EXCEPT !.status = "dead_letter", !.locked = FALSE])
            /\ run' = IF run.status \in {"queued", "running", "retry_scheduled", "failed"}
                        THEN [run EXCEPT !.status = "dead_letter"] ELSE run
            /\ deadLetters' = deadLetters \cup
                 {[reason |-> "redis_publish_exhausted", step |-> e.step]}
  /\ UNCHANGED <<steps, approvals, workers, versions>>

\* Mutant: only queued Steps are looked for.
RecoverQueuedOrphan(e) ==
  /\ e.status = "published"
  /\ steps[e.step].status = "queued"
  /\ outbox' = Replace(e, [e EXCEPT !.status = "pending"])
  /\ UNCHANGED <<run, steps, approvals, queue, workers, versions, deadLetters, faults>>

\* Any published event of a Step that is still to be claimed, the current
\* attempt's or an older one's; tries is not reset.
RecoverOrphan(e) ==
  /\ e.status = "published"
  /\ steps[e.step].status = "queued" \/ RetryDue(e.step)
  /\ outbox' = Replace(e, [e EXCEPT !.status = "pending"])
  /\ UNCHANGED <<run, steps, approvals, queue, workers, versions, deadLetters, faults>>

-----------------------------------------------------------------------------
(* Time and faults *)

RetryDelayElapses ==
  /\ run.retryWait
  /\ run' = [run EXCEPT !.retryWait = FALSE]
  /\ UNCHANGED <<steps, approvals, outbox, queue, workers, versions, deadLetters, faults>>

\* The event of a scheduled retry is available when retry_at has passed.
EventAvailable(e) ==
  /\ ~e.avail
  /\ run.retryWait => e.attempt # steps[e.step].attempt
  /\ outbox' = Replace(e, [e EXCEPT !.avail = TRUE])
  /\ UNCHANGED <<run, steps, approvals, queue, workers, versions, deadLetters, faults>>

\* A lease expires under a worker that is too slow (a fault), or after its
\* worker is gone.
LeaseExpires(s) ==
  /\ steps[s].status = "running" /\ steps[s].lease = "live"
  /\ steps' = [steps EXCEPT ![s].lease = "expired"]
  /\ IF \E w \in Workers : workers[w] # Idle /\ workers[w].step = s /\ Owns(w)
       THEN Fault ELSE UNCHANGED faults
  /\ UNCHANGED <<run, approvals, outbox, queue, workers, versions, deadLetters>>

WorkerCrashes(w) ==
  /\ workers[w] # Idle
  /\ GoIdle(w) /\ Fault
  /\ UNCHANGED <<run, steps, approvals, outbox, queue, versions, deadLetters>>

MessageLost(m) ==
  /\ queue' = queue \ {m} /\ Fault
  /\ UNCHANGED <<run, steps, approvals, outbox, workers, versions, deadLetters>>

-----------------------------------------------------------------------------

Finish(w) ==
  \/ RequestHighCostApproval(w) \/ CompleteStep(w) \/ CompleteRequestStep(w)
  \/ CompletionCancels(w) \/ CompletionRefused(w) \/ ExecutionRaises(w)
  \/ FailStepForRetry(w) \/ FailStepForGood(w) \/ FailureDropped(w)

Deliver(m) ==
  \/ \E w \in Workers : Claim(w, m)
  \/ DeliveryCancels(m) \/ DeliveryRequeuesDeadRun(m) \/ DeliveryIgnored(m)

Dispatch(e) ==
  \/ MarkPublishing(e) \/ Publish(e) \/ RecoverStalePublication(e) \/ RecoverOrphan(e)

User ==
  \/ Cancel
  \/ ResumeCancels
  \/ \E s \in Steps : \/ RestartFailed(s) \/ ResumeRetryNow(s)
                      \/ ApproveHighCost(s) \/ ApproveMaterial(s)
                      \/ \E verdict \in {"rejected", "expired"} : DecisionFails(s, verdict)

Next ==
  \/ \E m \in queue : Deliver(m) \/ MessageLost(m)
  \/ \E w \in Workers : Finish(w) \/ WorkerCrashes(w)
  \/ \E e \in outbox : Dispatch(e) \/ PublishFails(e) \/ PublishInterrupted(e) \/ EventAvailable(e)
  \/ User
  \/ \E s \in Steps : RecoverExpired(s) \/ RecoveryCancels(s) \/ LeaseExpires(s)
  \/ RetryDelayElapses

Spec == Init /\ [][Next]_vars

(* Worker threads, the maintenance loop and the dispatcher loop run for ever; *)
(* nothing is assumed of the user, and no fault has to happen.                *)
AttemptBound == MaxAttempts + MaxRestarts + MaxFaults

EventsOf(s, a) == {e \in outbox : e.step = s /\ e.attempt = a}

Fairness ==
  /\ \A w \in Workers : WF_vars(Finish(w))
  /\ \A s \in Steps :
       /\ WF_vars(RecoverExpired(s) \/ RecoveryCancels(s))
       /\ WF_vars(LeaseExpires(s) /\ UNCHANGED faults)
  /\ \A s \in Steps, a \in 0 .. AttemptBound :
       LET m == [step |-> s, attempt |-> a]
       IN  /\ WF_vars(m \in queue /\ Deliver(m) /\ UNCHANGED faults)
           /\ WF_vars(\E e \in EventsOf(s, a) : EventAvailable(e))
           /\ WF_vars(\E e \in EventsOf(s, a) : Dispatch(e))
  /\ WF_vars(RetryDelayElapses)

FairSpec == Spec /\ Fairness

-----------------------------------------------------------------------------
(* Safety *)

\* A delivery can never reach the execution it would duplicate: no event and no
\* message carries an attempt beyond its Step's, and none carries the attempt of
\* a Step that is running (claim_step's delivery_attempt check relies on it).
FencedDeliveries ==
  \A d \in outbox \cup queue :
    /\ d.attempt <= steps[d.step].attempt
    /\ steps[d.step].status = "running" => d.attempt < steps[d.step].attempt

\* The Steps are worked through in order: whatever has been started has all its
\* predecessors completed, through retries, restarts and crash recovery.
PrefixOrder ==
  \A s, t \in Steps :
    s < t /\ steps[t].status \notin {"pending", "cancelled"} => steps[s].status = "completed"

\* The Run's status and the status of its current Step never drift apart, although
\* each transaction moves them by separate assignments.  A dead_letter Run keeps
\* the Steps it had.
RunMatchesSteps ==
  /\ \A s \in Steps :
       /\ steps[s].status = "queued" => run.status \in {"queued", "running", "dead_letter"}
       /\ steps[s].status = "running" => run.status \in {"running", "dead_letter"}
       /\ steps[s].status = "retry_scheduled" => run.status \in {"retry_scheduled", "dead_letter"}
       /\ steps[s].status = "waiting_for_approval" => run.status = "waiting_for_approval"
       /\ steps[s].status = "failed" => run.status \in {"failed", "dead_letter"}
       /\ run.status = "completed" => steps[s].status = "completed"
       /\ run.status = "cancelled" => steps[s].status \in {"completed", "cancelled"}
       /\ steps[s].status = "cancelled" => run.status = "cancelled"
  /\ run.status \in {"queued", "retry_scheduled", "waiting_for_approval", "failed"}
       => \E s \in Steps : steps[s].status = run.status
  /\ run.status = "running" => \E s \in Steps : steps[s].status \in {"queued", "running"}

\* Work that waits to be claimed can always be delivered: an event with the
\* Step's current attempt is in the Outbox and has not been given up.
WorkIsNeverLost ==
  run.status # "dead_letter" =>
    \A s \in Steps : steps[s].status \in {"queued", "retry_scheduled"} =>
      \E e \in outbox : /\ e.step = s /\ e.attempt = steps[s].attempt
                        /\ e.status # "dead_letter"

\* No work behind a wait_* Step starts, and no high-cost Step completes, without
\* the user's approval: not through retries, restarts or an outdated worker.
ApprovalGate ==
  /\ \A s \in WaitSteps, t \in Steps :
       s < t /\ steps[t].status \notin {"pending", "cancelled"} => approvals[s] = "approved"
  /\ \A s \in HighCost : steps[s].status = "completed" => approvals[s] = "approved"

\* A pending approval request is always one the user can still decide, and at
\* most one is open.
PendingIsDecidable ==
  \A s, t \in Steps : approvals[s] = "pending" =>
    /\ steps[s].status = "waiting_for_approval"
    /\ approvals[t] = "pending" => t = s

\* A dead-letter Run can be explained from what is stored: a Step that used up its
\* attempts or an event that used up its publications, each with its record.
DeadLetterExplained ==
  run.status = "dead_letter" =>
    \/ \E s \in Steps : /\ steps[s].status = "failed" /\ steps[s].attempt >= MaxAttempts
                        /\ [reason |-> "retry_exhausted", step |-> s] \in deadLetters
    \/ \E e \in outbox : /\ e.status = "dead_letter" /\ e.tries >= PublishLimit
                         /\ [reason |-> "redis_publish_exhausted", step |-> e.step] \in deadLetters

\* Claims are paid for: a Step is claimed as often as its limit says, and once more for a
\* fault, a restart or the approval of its cost.  Only fail_step looks at the limit: the
\* recovery of a lease, a message that comes again and a resumed retry do not.
AttemptsArePaidFor ==
  \A s \in Steps :
    steps[s].attempt <= MaxAttempts + faults + run.attempt
                          + (IF approvals[s] = "approved" THEN 1 ELSE 0)

\* Extra executions are paid for: a Step commits one Material Version, and at most
\* one more for every fault, whatever is retried, restarted, resumed or recovered.
ArtifactsBoundedByFaults == \A s \in Steps : versions[s] <= 1 + faults

\* The Run implements RunContract: Steps are its pieces of work.
Done == CHOOSE k \in 0 .. N : \A s \in Steps : steps[s].status = "completed" <=> s <= k

Phase ==
  CASE run.status \in {"queued", "running", "retry_scheduled"} -> "active"
    [] run.status = "waiting_for_approval" -> "waiting"
    [] run.status = "dead_letter" -> "abandoned"
    [] OTHER -> run.status

Contract == INSTANCE RunContract WITH Gates <- WaitSteps, phase <- Phase, done <- Done

\* Every transaction of every actor is a step of the contract or invisible to it.
ImplementsContract == Contract!Spec

-----------------------------------------------------------------------------
(* Liveness *)

\* A Run never stays in the hands of the machinery: lost messages, crashed workers
\* and stopped dispatchers included, it ends up settled or waiting for its owner.
RunSettles ==
  run.status \in {"queued", "running", "retry_scheduled"}
    ~> run.status \notin {"queued", "running", "retry_scheduled"}

-----------------------------------------------------------------------------
(* What the documentation says and the code does not do *)

\* ADR 0003: "Database claims, delivery attempts, leases, and idempotency make
\* duplicate delivery safe".  A Step commits one Material Version at most.
ArtifactsAtMostOnce == \A s \in Steps : versions[s] <= 1

\* service.py: "A rejected or expired approval requires a new Agent Run."
ExpiredApprovalNeedsNewRun ==
  \A s \in Steps : approvals[s] \in {"rejected", "expired"} =>
    run.status \in {"failed", "cancelled"}
==============================================================================
