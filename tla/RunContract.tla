----------------------------- MODULE RunContract -----------------------------
(***************************************************************************)
(* What an Agent Run promises its owner, without workers, messages, leases *)
(* or attempts: N pieces of work are done in order and each once, the      *)
(* owner alone opens the gates, and a settled Run stays settled.           *)
(***************************************************************************)
EXTENDS Naturals

CONSTANTS N, Gates   \* Gates: the pieces of work that only an approval completes

VARIABLES phase, done

Phases == {"active", "waiting", "failed", "completed", "cancelled", "abandoned"}

Init == phase = "active" /\ done = 0

\* A worker finishes the next piece of work; the last one completes the Run, the
\* one in front of a gate makes it wait.
Work ==
  /\ phase = "active" /\ done + 1 \notin Gates
  /\ done' = done + 1
  /\ phase' = CASE done' = N         -> "completed"
                [] done' + 1 \in Gates -> "waiting"
                [] OTHER             -> "active"

\* The next piece of work needs a permission of its own first.
AskPermission == phase = "active" /\ phase' = "waiting" /\ UNCHANGED done

Grant ==
  /\ phase = "waiting" /\ phase' = "active"
  /\ done' = IF done + 1 \in Gates THEN done + 1 ELSE done

Fail == phase \in {"active", "waiting"} /\ phase' = "failed" /\ UNCHANGED done

\* A gate that was refused stays shut.
Restart ==
  /\ phase = "failed" /\ done + 1 \notin Gates
  /\ phase' = "active" /\ UNCHANGED done

Cancel ==
  /\ phase \in {"active", "waiting", "failed"}
  /\ phase' = "cancelled" /\ UNCHANGED done

Abandon == phase \in {"active", "failed"} /\ phase' = "abandoned" /\ UNCHANGED done

\* Work under way when the Run was abandoned may still be recorded.
Straggle ==
  /\ phase = "abandoned" /\ done + 1 < N /\ done + 1 \notin Gates
  /\ done' = done + 1 /\ UNCHANGED phase

Next == Work \/ AskPermission \/ Grant \/ Fail \/ Restart \/ Cancel \/ Abandon \/ Straggle

Spec == Init /\ [][Next]_<<phase, done>>
==============================================================================
