------------------------------ MODULE AiBudget ------------------------------
(***************************************************************************)
(* The monthly OpenAI budget of one organization, and the calls it limits  *)
(* (src/apps/api/src/ai, OpenAiBudgetService, OpenAiClientService).        *)
(*                                                                         *)
(* A call reserves its estimated cost in the ledger, under the advisory    *)
(* lock of the organization, runs, and writes what it cost.  The provider  *)
(* is paid for every answer, also for one that cannot be used.  A          *)
(* reservation older than 30 minutes is closed by the next call as failed, *)
(* although its own call may still be running.  Amounts are in units of    *)
(* the least estimate; time is the current month and the age of each       *)
(* row.                                                                    *)
(***************************************************************************)
EXTENDS Naturals, FiniteSets, Functions

CONSTANTS
    Calls,      \* calls of OpenAI
    Budget,     \* OPENAI_MONTHLY_BUDGET_USD
    MaxCost,    \* bound on what a call is estimated at or costs
    Overruns,   \* may a call cost more than its estimate?
    MaxMonth,   \* bound on the month
    Unknown

ASSUME CallsAreFinite == IsFiniteSet(Calls)
ASSUME AmountsAreNatural == Budget \in Nat /\ MaxCost \in Nat /\ MaxMonth \in Nat \ {0}
ASSUME OverrunsIsBoolean == Overruns \in BOOLEAN
ASSUME UnknownIsNoAmount == Unknown \notin Nat

VARIABLES
    month,      \* the current month
    status,     \* AiUsageLedger.status, "absent" before
    estimated,  \* AiUsageLedger.estimatedCostUsd
    actual,     \* AiUsageLedger.actualCostUsd
    createdIn,  \* the month of AiUsageLedger.createdAt
    old,        \* is the row reserved, and older than 30 minutes?
    call,       \* where each call is
    answer,     \* what the provider answered
    paid,       \* what the provider is paid
    clock       \* what the clock told it: the month, and the rows that are too old

budgetVars == <<month, status, estimated, actual, createdIn, old, call, answer, paid, clock>>

ledger == <<status, estimated, actual, createdIn>>

Amounts == 0 .. MaxCost

provider == <<answer, paid>>

\* An answer is refused (or never comes), cannot be used, does not tell the tokens
\* it took, or tells them.
Answers == {"refused", "unusable", "unpriced", "priced"}

NotAsked == [month |-> 1, tooOld |-> {}]

BudgetTypeOK ==
    /\ month \in 1 .. MaxMonth
    /\ status \in [Calls -> {"absent", "reserved", "completed", "failed"}]
    /\ estimated \in [Calls -> Amounts]
    /\ actual \in [Calls -> Amounts \cup {Unknown}]
    /\ createdIn \in [Calls -> 1 .. MaxMonth]
    /\ old \in [Calls -> BOOLEAN]
    /\ call \in [Calls -> {"idle", "reserving", "calling", "answered", "over"}]
    /\ answer \in [Calls -> Answers \cup {Unknown}]
    /\ paid \in [Calls -> Amounts]
    /\ clock \in [Calls -> [month : 1 .. MaxMonth, tooOld : SUBSET Calls]]
    /\ \A c \in Calls : status[c] = "completed" => actual[c] # Unknown

BudgetInit ==
    /\ month = 1
    /\ status = [c \in Calls |-> "absent"]
    /\ estimated = [c \in Calls |-> 0]
    /\ actual = [c \in Calls |-> Unknown]
    /\ createdIn = [c \in Calls |-> 1]
    /\ old = [c \in Calls |-> FALSE]
    /\ call = [c \in Calls |-> "idle"]
    /\ answer = [c \in Calls |-> Unknown]
    /\ paid = [c \in Calls |-> 0]
    /\ clock = [c \in Calls |-> NotAsked]

-----------------------------------------------------------------------------
(* The ledger.                                                             *)

Rows(m) == {c \in Calls : status[c] # "absent" /\ createdIn[c] = m}

\* sumUsageRows: what a row counts for.
Charge(c) == IF status[c] = "reserved" \/ actual[c] = Unknown THEN estimated[c] ELSE actual[c]

Charges == [c \in Calls |-> Charge(c)]

\* Mutant: a call that failed is taken to have cost nothing.
UsageOfAnswered(m) == SumFunctionOnSet(Charges, {c \in Rows(m) : status[c] # "failed"})

Usage(m) == SumFunctionOnSet(Charges, Rows(m))

-----------------------------------------------------------------------------
(* Calls.                                                                  *)

Go(c, step) == call' = [call EXCEPT ![c] = step]

Forget(c) == answer' = [answer EXCEPT ![c] = Unknown]

\* The call looks at the clock and estimates its cost, which is never nothing.
Estimate(c) ==
    /\ call[c] = "idle"
    /\ \E e \in Amounts \ {0} : estimated' = [estimated EXCEPT ![c] = e]
    /\ clock' = [clock EXCEPT ![c] = [month |-> month, tooOld |-> {k \in Calls : old[k]}]]
    /\ Go(c, "reserving")
    /\ UNCHANGED <<month, status, actual, createdIn, old, provider>>

\* Reservations that are too old are closed; then the row is inserted, unless
\* the month is spent, which also takes back the closing.
Reserve(c) ==
    LET affordable == Usage(clock[c].month) + estimated[c] <= Budget
        tooOld == {k \in clock[c].tooOld : status[k] = "reserved"}
    IN
    /\ call[c] = "reserving"
    /\ IF affordable
       THEN /\ status' = [k \in Calls |->
                  IF k = c THEN "reserved" ELSE IF k \in tooOld THEN "failed" ELSE status[k]]
            /\ old' = [k \in Calls |-> old[k] /\ k \notin tooOld]
            /\ createdIn' = [createdIn EXCEPT ![c] = month]
            /\ Go(c, "calling")
       ELSE /\ Go(c, "over")
            /\ UNCHANGED <<status, old, createdIn>>
    /\ clock' = [clock EXCEPT ![c].tooOld = {}]
    /\ UNCHANGED <<month, estimated, actual, provider>>

\* The provider answers, perhaps after the row was closed, and wants to be paid.
Respond(c) ==
    /\ call[c] = "calling"
    /\ \E a \in Answers, cost \in Amounts :
          /\ a = "refused" <=> cost = 0
          /\ cost > estimated[c] => Overruns
          /\ answer' = [answer EXCEPT ![c] = a]
          /\ paid' = [paid EXCEPT ![c] = cost]
    /\ Go(c, "answered")
    /\ UNCHANGED <<month, ledger, old, clock>>

\* Mutant: a call whose answer does not tell its tokens has cost nothing.
PricedCost(c) == IF answer[c] = "priced" THEN paid[c] ELSE 0

\* The cost of an answer, or the estimate of what cannot be known.
ActualCost(c) == IF answer[c] = "priced" THEN paid[c] ELSE estimated[c]

\* The row is written, whatever became of it meanwhile.
Close(c, outcome) ==
    /\ status' = [status EXCEPT ![c] = outcome]
    /\ actual' = [actual EXCEPT ![c] = ActualCost(c)]
    /\ Go(c, "over")
    /\ Forget(c)
    /\ old' = [old EXCEPT ![c] = FALSE]
    /\ UNCHANGED <<month, estimated, createdIn, paid, clock>>

Complete(c) ==
    /\ call[c] = "answered" /\ answer[c] \in {"unpriced", "priced"}
    /\ Close(c, "completed")

Fail(c) ==
    /\ call[c] = "answered" /\ answer[c] \in {"refused", "unusable"}
    /\ Close(c, "failed")

\* The server dies, or the row cannot be written: it stays reserved.
Lose(c) ==
    /\ call[c] \in {"reserving", "calling", "answered"}
    /\ Go(c, "over")
    /\ Forget(c)
    /\ clock' = [clock EXCEPT ![c].tooOld = {}]
    /\ UNCHANGED <<month, ledger, old, paid>>

-----------------------------------------------------------------------------
(* Time.                                                                   *)

GrowOld(c) ==
    /\ status[c] = "reserved"
    /\ ~old[c]
    /\ old' = [old EXCEPT ![c] = TRUE]
    /\ UNCHANGED <<month, ledger, call, provider, clock>>

NextMonth ==
    /\ month < MaxMonth
    /\ month' = month + 1
    /\ UNCHANGED <<ledger, old, call, provider, clock>>

-----------------------------------------------------------------------------
BudgetNext ==
    \/ \E c \in Calls :
          \/ Estimate(c)
          \/ Reserve(c)
          \/ Respond(c)
          \/ Complete(c)
          \/ Fail(c)
          \/ Lose(c)
          \/ GrowOld(c)
    \/ NextMonth

BudgetSpec == BudgetInit /\ [][BudgetNext]_budgetVars

-----------------------------------------------------------------------------
(* Safety.                                                                 *)

\* The rows of calls that were asked for in the month of their row, too.
OwnRows(m) == {c \in Rows(m) : clock[c].month = m}

\* What a call costs above its estimate.
Excess(costs) ==
    [c \in Calls |-> IF costs[c] > estimated[c] THEN costs[c] - estimated[c] ELSE 0]

Kept(m, costs) ==
    SumFunctionOnSet(costs, OwnRows(m)) <=
        Budget + SumFunctionOnSet(Excess(costs), OwnRows(m))

\* Whatever calls run at the same time, fail, are lost, answer late or in vain,
\* those of one month exceed its budget by what they cost above their estimates at
\* most: as the ledger has it, and by what the provider is paid.
BudgetIsKept == \A m \in 1 .. MaxMonth : Kept(m, Charges) /\ Kept(m, paid)

-----------------------------------------------------------------------------
(* What the documentation says, and the code does not do.                  *)

\* The ledger has what the provider is paid.  Not so: a call that fails, or is
\* lost, counts with its estimate, and its answer may have cost more.
LedgerHasPaid ==
    \A c \in Calls : call[c] = "over" /\ status[c] # "absent" => Charge(c) >= paid[c]

\* A call that would exceed the limit of its month does not run: when no call
\* costs more than its estimate, no month exceeds its limit.
MonthIsLimited == \A m \in 1 .. MaxMonth : Usage(m) <= Budget
=============================================================================
