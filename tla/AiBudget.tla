------------------------------- MODULE AiBudget -------------------------------
(***************************************************************************)
(* What the Agent may spend (app/agent_runs/service.py, workflow.py): a    *)
(* Step that calls a model is let through by the budget of the day and of  *)
(* its Run, and books what the call used in ai_usage_ledger.               *)
(*                                                                         *)
(* A Step holds its Run and the budget row of the day locked from the      *)
(* check until its transaction ends, after the call.  If the call fails,   *)
(* the transaction is undone, and another one books what it used.  Tokens  *)
(* stand for tokens and cost, which are limited and booked alike; an       *)
(* approval of a high cost comes after the check and is in AgentRuns.      *)
(***************************************************************************)
EXTENDS Naturals, FiniteSets, FiniteSetsExt

CONSTANTS
  Steps,            \* the Steps that call a model
  RunOf,            \* [Steps -> their Runs]
  Projected,        \* what a call is expected to use
  Spent,            \* what one can use
  StepTokenLimit, RunTokenLimit, DailyTokenLimit,
  MaxAttempts,      \* agent_max_auto_retries + 1
  LastDay           \* bound: days, counted from 1

VARIABLES
  today,   \* the date
  budget,  \* rows of user_ai_budgets: the days that have one
  ledger,  \* rows of ai_usage_ledger
  total,   \* AgentRun.total_tokens
  work     \* where each Step is

budgetVars == <<today, budget, ledger, total, work>>

ModelRuns == {RunOf[s] : s \in Steps}
Days == 1..LastDay
\* usage_key says the Step and "success" (0 here) or the attempt that failed;
\* checked, which is not stored, is the day whose budget let the call through.
LedgerRow == [step : Steps, attempt : 0..MaxAttempts, tokens : Spent, day : Days, checked : Days]

TypeOK ==
  /\ today \in Days /\ budget \subseteq Days
  /\ \A row \in ledger : row \in LedgerRow
  /\ total \in [ModelRuns -> Nat]
  /\ \A s \in Steps : work[s].attempt \in 0..MaxAttempts

Init ==
  /\ today = 1 /\ budget = {} /\ ledger = {}
  /\ total = [r \in ModelRuns |-> 0]
  /\ work = [s \in Steps |-> [at |-> "queued", attempt |-> 0]]

-----------------------------------------------------------------------------
At(s, stage) == work[s].at = stage
Goto(s, state) == work' = [work EXCEPT ![s] = state]
Ends(s, stage) ==
  Goto(s, [at |-> stage, attempt |-> IF stage = "queued" THEN work[s].attempt ELSE MaxAttempts])
With(s, stage, day, inserts) ==
  [at |-> stage, attempt |-> work[s].attempt, day |-> day, inserts |-> inserts]

\* Inside the transaction that has the budget row of a day
Budgeted(s) == At(s, "budgeted") \/ At(s, "calling")
Holds(s, day) == Budgeted(s) /\ work[s].day = day
Held(day) == \E s \in Steps : Holds(s, day)
\* Its end makes the row it inserted one of the table.
Committed(s) == budget \cup {d \in {work[s].day} : work[s].inserts}

Midnight ==
  /\ today < LastDay
  /\ today' = today + 1
  /\ UNCHANGED <<budget, ledger, total, work>>

\* create_run needs the budget of the day too, for its limit of active Runs.
CreateRun ==
  /\ ~Held(today)
  /\ budget' = budget \cup {today}
  /\ UNCHANGED <<today, ledger, total, work>>

\* execute_step claims the Step: one of a Run at a time, and none of a Run that failed.
Begin(s) ==
  /\ At(s, "queued")
  /\ \A other \in Steps \ {s} : RunOf[other] = RunOf[s] => work[other].at \in {"queued", "done"}
  /\ Goto(s, [at |-> "begun", attempt |-> work[s].attempt + 1])
  /\ UNCHANGED <<today, budget, ledger, total>>

\* Mutant: SELECT without FOR UPDATE.
TodayBudgetUnlocked(s) ==
  /\ At(s, "begun") /\ today \in budget
  /\ Goto(s, With(s, "budgeted", today, FALSE))
  /\ UNCHANGED <<today, budget, ledger, total>>

\* _today_budget: the row is there, and nobody else has it.
TodayBudget(s) ==
  /\ At(s, "begun") /\ today \in budget /\ ~Held(today)
  /\ Goto(s, With(s, "budgeted", today, FALSE))
  /\ UNCHANGED <<today, budget, ledger, total>>

\* There is none that can be seen, so it adds one.
NoBudget(s) ==
  /\ At(s, "begun") /\ today \notin budget
  /\ Goto(s, With(s, "inserting", today, TRUE))
  /\ UNCHANGED <<today, budget, ledger, total>>

\* The insertion waits for another one's transaction, which may yet be undone.
InsertBudget(s) ==
  /\ At(s, "inserting") /\ ~Held(work[s].day) /\ work[s].day \notin budget
  /\ Goto(s, [work[s] EXCEPT !.at = "budgeted"])
  /\ UNCHANGED <<today, budget, ledger, total>>

\* uq_user_ai_budget_date: an error classify_error does not know, so the Run fails.
BudgetTaken(s) ==
  /\ At(s, "inserting") /\ work[s].day \in budget
  /\ Ends(s, "failed")
  /\ UNCHANGED <<today, budget, ledger, total>>

Booked(rows) == MapThenSumSet(LAMBDA row : row.tokens, rows)
UsedOn(day) == Booked({row \in ledger : row.day = day})

\* ensure_budget
WithinBudget(s) ==
  /\ Projected <= StepTokenLimit
  /\ total[RunOf[s]] + Projected <= RunTokenLimit
  /\ UsedOn(today) + Projected <= DailyTokenLimit

EnsureBudget(s) ==
  /\ At(s, "budgeted") /\ WithinBudget(s)
  /\ Goto(s, [work[s] EXCEPT !.at = "calling"])
  /\ UNCHANGED <<today, budget, ledger, total>>

\* AgentBudgetExceeded is not retried; what it inserted is undone.
BudgetExceeded(s) ==
  /\ At(s, "budgeted") /\ ~WithinBudget(s)
  /\ Ends(s, "failed")
  /\ UNCHANGED <<today, budget, ledger, total>>

\* record_usage: once for a key
RecordUsage(s, attempt, tokens) ==
  IF \E row \in ledger : row.step = s /\ row.attempt = attempt THEN UNCHANGED <<ledger, total>>
  ELSE /\ ledger' = ledger \cup {[step |-> s, attempt |-> attempt, tokens |-> tokens,
                                  day |-> today, checked |-> work[s].day]}
       /\ total' = [total EXCEPT ![RunOf[s]] = @ + tokens]

\* complete_step, in the transaction of the check
CallSucceeds(s, tokens) ==
  /\ At(s, "calling")
  /\ RecordUsage(s, 0, tokens)
  /\ budget' = Committed(s)
  /\ Ends(s, "done")
  /\ UNCHANGED today

\* The call or what is made of it fails: the transaction is undone.
CallFails(s, tokens, retriable) ==
  /\ At(s, "calling")
  /\ Goto(s, [at |-> "failing", attempt |-> work[s].attempt, day |-> work[s].day,
              tokens |-> tokens, retriable |-> retriable])
  /\ UNCHANGED <<today, budget, ledger, total>>

\* fail_step: if the provider said what it used, it is booked.
FailStep(s) ==
  /\ At(s, "failing")
  /\ IF work[s].tokens > 0 THEN RecordUsage(s, work[s].attempt, work[s].tokens)
     ELSE UNCHANGED <<ledger, total>>
  /\ Ends(s, IF work[s].retriable /\ work[s].attempt < MaxAttempts THEN "queued" ELSE "failed")
  /\ UNCHANGED <<today, budget>>

\* The worker dies; the lease of the Step expires.
Dies(s) ==
  /\ work[s].at \notin {"queued", "done", "failed"}
  /\ Ends(s, IF work[s].attempt < MaxAttempts THEN "queued" ELSE "failed")
  /\ UNCHANGED <<today, budget, ledger, total>>

Next ==
  \/ Midnight \/ CreateRun
  \/ \E s \in Steps :
       \/ Begin(s) \/ TodayBudget(s) \/ NoBudget(s) \/ InsertBudget(s) \/ BudgetTaken(s)
       \/ EnsureBudget(s) \/ BudgetExceeded(s) \/ FailStep(s) \/ Dies(s)
       \/ \E tokens \in Spent :
            \/ CallSucceeds(s, tokens)
            \/ \E retriable \in BOOLEAN : CallFails(s, tokens, retriable)

Spec == Init /\ [][Next]_budgetVars

-----------------------------------------------------------------------------
\* A limit is passed by the excess of one call at most.
Limited(rows, limit) ==
  rows = {} \/ Booked(rows) <= limit - Projected + Max(Spent \cup {Projected})

\* However the Steps of an owner overlap, the calls that succeed on the day
\* whose budget let them through stay within that budget, and at most one call
\* that a day let through is booked on a later day; a Run has the tokens its rows
\* have, and stays within its own limit, whatever failed and was retried.
SpendingBounded ==
  /\ \A d \in Days :
       LET succeeded == {row \in ledger : row.checked = d /\ row.attempt = 0}
       IN /\ Limited({row \in succeeded : row.day = d}, DailyTokenLimit)
          /\ Cardinality({row \in succeeded : row.day # d}) <= 1
  /\ \A r \in ModelRuns :
       LET rows == {row \in ledger : RunOf[row.step] = r}
       IN total[r] = Booked(rows) /\ Limited(rows, RunTokenLimit)
=============================================================================
