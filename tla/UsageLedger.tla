----------------------------- MODULE UsageLedger -----------------------------
(***************************************************************************)
(* What counting the use of a share promises (RecordShareUsage of            *)
(* access_repository.go): a ledger of events, each entered once, that is     *)
(* within the policy of the moment on each day.  There are no daily totals,  *)
(* locks, reports or retries here; ShareUsage implements it.                 *)
(***************************************************************************)
EXTENDS Naturals, FiniteSets

CONSTANTS
    Shares,   \* shares in use
    Events,   \* event ids
    Limits,   \* values of max_tasks_per_day; 0 is no limit
    LastDay,  \* bound on the days
    None

VARIABLES
    limit,    \* the policy's max_tasks_per_day
    today,    \* the UTC date
    events    \* the day and tasks of each event that was entered, or None

vars == <<limit, today, events>>

Init ==
    /\ limit \in [Shares -> Limits] /\ today = 1
    /\ events = [s \in Shares |-> [e \in Events |-> None]]

Tasks(s, d) ==
    Cardinality({e \in Events : events[s][e] # None /\ events[s][e] = [day |-> d, tasks |-> 1]})

\* An event is entered once, on the day it is reported or, when midnight falls
\* into its report, on the day before, and never beyond the limit.
Enter(s, e, d, n) ==
    /\ events[s][e] = None /\ d <= today
    /\ n = 1 /\ limit[s] > 0 => Tasks(s, d) < limit[s]
    /\ events' = [events EXCEPT ![s][e] = [day |-> d, tasks |-> n]]
    /\ UNCHANGED <<limit, today>>

SetLimit(s) ==
    /\ \E n \in Limits : limit' = [limit EXCEPT ![s] = n]
    /\ UNCHANGED <<today, events>>

NextDay ==
    /\ today < LastDay /\ today' = today + 1
    /\ UNCHANGED <<limit, events>>

Next ==
    \/ \E s \in Shares, e \in Events, d \in 1..LastDay, n \in {0, 1} : Enter(s, e, d, n)
    \/ \E s \in Shares : SetLimit(s)
    \/ NextDay

Spec == Init /\ [][Next]_vars
=============================================================================
