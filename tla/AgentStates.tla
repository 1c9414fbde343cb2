----------------------------- MODULE AgentStates -----------------------------
(***************************************************************************)
(* The Run and Step state machines of backend/app/agent_runs/              *)
(* state_machine.py.  A transition the tables do not list raises           *)
(* IllegalTransition, which aborts the transaction that attempted it.      *)
(***************************************************************************)

RunStatus == {"queued", "running", "waiting_for_approval", "retry_scheduled",
              "failed", "completed", "cancelled", "dead_letter"}

StepStatus == {"pending", "queued", "running", "waiting_for_approval",
               "retry_scheduled", "failed", "completed", "skipped", "cancelled"}

RunTransitions ==
  [ queued               |-> {"running", "cancelled"},
    running              |-> {"waiting_for_approval", "completed", "failed",
                              "retry_scheduled", "cancelled"},
    waiting_for_approval |-> {"queued", "cancelled", "failed"},
    retry_scheduled      |-> {"queued", "cancelled", "dead_letter"},
    failed               |-> {"queued", "dead_letter", "cancelled"},
    completed            |-> {},
    cancelled            |-> {},
    dead_letter          |-> {} ]

StepTransitions ==
  [ pending              |-> {"queued", "skipped", "cancelled", "waiting_for_approval"},
    queued               |-> {"running", "cancelled"},
    running              |-> {"completed", "failed", "cancelled",
                              "retry_scheduled", "waiting_for_approval"},
    waiting_for_approval |-> {"queued", "completed", "failed", "cancelled"},
    retry_scheduled      |-> {"queued", "cancelled", "failed"},
    failed               |-> {"queued", "cancelled"},
    completed            |-> {},
    skipped              |-> {},
    cancelled            |-> {} ]

\* require_run_transition and require_step_transition: a status never moves to
\* itself, because no row of the tables contains its own key.
RunMay(from, to)  == to \in RunTransitions[from]
StepMay(from, to) == to \in StepTransitions[from]

\* Mutants of SettledStep: a failed Step is left alone too; a completed one is not.
SettledOrFailed   == {"completed", "skipped", "cancelled", "failed"}
SettledUnfinished == {"skipped", "cancelled"}

\* Statuses no claim, completion or cancellation touches any more.
SettledStep == {"completed", "skipped", "cancelled"}
==============================================================================
