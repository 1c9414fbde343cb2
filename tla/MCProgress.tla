------------------------------ MODULE MCProgress ------------------------------
(***************************************************************************)
(* What has to end, for TLC: a request of POST /api/analyze, with a Run    *)
(* that has completed beside it, or an Agent Run, beside a request whose   *)
(* process died before it did anything.  The two share no row.             *)
(***************************************************************************)
EXTENDS AnalyzeAttempt

CONSTANTS MaxAttempts, PublishLimit, MaxFaults

VARIABLES run, runSteps, approvals, outbox, queue, workers, versions, deadLetters, faults

runVars == <<run, runSteps, approvals, outbox, queue, workers, versions, deadLetters, faults>>

\* A Run of one Step that calls the model, and one worker
Runs == INSTANCE AgentRuns WITH
  steps <- runSteps, N <- 1, ModelSteps <- {1}, RequestSteps <- {}, HighCost <- {},
  Workers <- {"worker"}, PublicRestart <- FALSE, MaxRestarts <- 0

-----------------------------------------------------------------------------
OneRequest ==
  /\ Init
  /\ run = [status |-> "completed", cancelReq |-> FALSE, rejected |-> FALSE,
            retryWait |-> FALSE, attempt |-> 0]
  /\ runSteps = << [status |-> "completed", rev |-> 3, attempt |-> 1, token |-> 0,
                    lease |-> "none"] >>
  /\ approvals = <<"none">> /\ outbox = {} /\ queue = {}
  /\ workers = [w \in {"worker"} |-> Runs!Idle]
  /\ versions = <<1>> /\ deadLetters = {} /\ faults = 0

OneRun ==
  /\ Runs!Init
  /\ req = [keyed |-> FALSE, save |-> FALSE, rag |-> FALSE, provider |-> "real"]
  /\ pc = "dead" /\ steps = [k \in Steps |-> "open"] /\ warned = FALSE
  /\ now = 0 /\ phase = -1 /\ worked = 0 /\ wake = 0
  /\ calls = {} /\ result = "none"
  /\ row = [status |-> "none", started |-> FALSE, bound |-> "none"]
  /\ history = 0 /\ observed = 0 /\ answer = "none"

ProgressNext ==
  \/ Next /\ UNCHANGED runVars
  \/ Runs!Next /\ UNCHANGED vars

\* Each moves as its own module says it must: the handler and the clock, the workers, the
\* dispatcher and the maintenance loop; neither the provider nor the user.
ProgressSpec ==
  (OneRequest \/ OneRun) /\ [][ProgressNext]_<<vars, runVars>> /\ Fairness /\ Runs!Fairness

-----------------------------------------------------------------------------
\* A Run settles or waits for its owner, whatever was lost or crashed (AgentRuns).
RunSettles == Runs!RunSettles
===============================================================================
