---------------------------- MODULE TokenBudget ----------------------------
(* What the rate limiter promises (internal/api/ratelimit.go): every key has
   one budget that refills steadily up to its cap, and a request is admitted
   exactly when the budget of its key covers all it costs. *)
EXTENDS Naturals

CONSTANTS BudgetKeys, BudgetCallers, BudgetCap, BudgetCosts

VARIABLES level, verdict

budgetVars == <<level, verdict>>

BudgetInit ==
  /\ level = [k \in BudgetKeys |-> BudgetCap]
  /\ verdict = [c \in BudgetCallers |-> "none"]

Refill ==
  /\ level' = [k \in BudgetKeys |-> IF level[k] < BudgetCap THEN level[k] + 1 ELSE BudgetCap]
  /\ UNCHANGED verdict

Ask(c) ==
  /\ verdict' = [verdict EXCEPT ![c] = "none"]
  /\ UNCHANGED level

Admit(c, k, cost) ==
  /\ level[k] >= cost
  /\ level' = [level EXCEPT ![k] = @ - cost]
  /\ verdict' = [verdict EXCEPT ![c] = "admitted"]

Refuse(c, k, cost) ==
  /\ level[k] < cost
  /\ verdict' = [verdict EXCEPT ![c] = "refused"]
  /\ UNCHANGED level

BudgetNext ==
  \/ Refill
  \/ \E c \in BudgetCallers : Ask(c)
  \/ \E c \in BudgetCallers, k \in BudgetKeys, cost \in BudgetCosts : Admit(c, k, cost) \/ Refuse(c, k, cost)

BudgetSpec == BudgetInit /\ [][BudgetNext]_budgetVars
=============================================================================
