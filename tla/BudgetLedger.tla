---------------------------- MODULE BudgetLedger ----------------------------
(* What a budget promises, without counters, leases, locks or processes:     *)
(* every grant is known with what it still holds and what it spent, a grant  *)
(* is admitted only if everything held and spent leaves room for it, a hold  *)
(* is only ever spent or handed back, and what was spent stays spent.        *)
(* CostAuthorization implements it until the promise lapses.                 *)
EXTENDS Integers, FiniteSetsExt

CONSTANTS Grants, Limit,
          Accounts, \* the sets of budgets <<scope, period>> a grant may draw on
          Amounts   \* what may be held or spent at once

VARIABLES of,       \* the budgets <<scope, period>> a grant draws on, {} before it exists
          hold,     \* Grants -> what it may still spend without asking
          spent,    \* Grants -> what it spent
          inForce   \* whether admission is still bound by the limits

ledgerVars == <<of, hold, spent, inForce>>

Committed(b) == MapThenSumSet(LAMBDA g : hold[g] + spent[g], {g \in Grants : b \in of[g]})

LedgerInit == /\ of = [g \in Grants |-> {}]
              /\ hold = [g \in Grants |-> 0]
              /\ spent = [g \in Grants |-> 0]
              /\ inForce = TRUE

\* A grant of n against each of the budgets B.
Grant(g, B, n) ==
  /\ of[g] = {} /\ B # {}
  /\ inForce => \A b \in B : Committed(b) + n <= Limit[b[1]]
  /\ of' = [of EXCEPT ![g] = B]
  /\ hold' = [hold EXCEPT ![g] = n]
  /\ UNCHANGED <<spent, inForce>>

\* Spending draws on the hold first; what exceeds it is spent all the same.
\* The last spending also hands back the rest.
Spend(g, n) ==
  /\ of[g] # {} /\ n > 0
  /\ spent' = [spent EXCEPT ![g] = @ + n]
  /\ \E left \in {0, IF hold[g] > n THEN hold[g] - n ELSE 0} : hold' = [hold EXCEPT ![g] = left]
  /\ UNCHANGED <<of, inForce>>

\* Some grants hand back what they hold; the limits may stop binding.
Return == /\ \E S \in SUBSET Grants :
               hold' = [g \in Grants |-> IF g \in S THEN 0 ELSE hold[g]]
          /\ inForce' \in {inForce, FALSE}
          /\ UNCHANGED <<of, spent>>

LedgerNext == \/ \E g \in Grants, n \in Amounts :
                   Spend(g, n) \/ \E B \in Accounts : Grant(g, B, n)
              \/ Return

LedgerSpec == LedgerInit /\ [][LedgerNext]_ledgerVars
==============================================================================
