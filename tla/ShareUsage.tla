------------------------------ MODULE ShareUsage ------------------------------
(***************************************************************************)
(* Counting what grantees use of a shared agent: RecordShareUsage of        *)
(* internal/database/access_repository.go.  The agent reports events, and    *)
(* reports one again when it missed the answer; each report is a             *)
(* transaction that holds the share FOR UPDATE, while the owner may change    *)
(* the policy and the day may end.  A report names the request it is about;   *)
(* the newest lease of that request says which share it counts for.  The      *)
(* leases are those of one owner and one agent, the ones the lookup asks for. *)
(* An event carries tasks and one unit of bytes.                              *)
(***************************************************************************)
EXTENDS Naturals, FiniteSets

CONSTANTS
    Shares,     \* shares in use
    Requests,   \* request ids, which the clients choose
    Events,     \* event ids
    Reporters,  \* concurrent reports
    Limits,     \* values of max_tasks_per_day; 0 is no limit
    LastDay,    \* bound on the days
    None

VARIABLES
    limit,    \* the policy's max_tasks_per_day
    today,    \* the UTC date
    lease,    \* agent_access_leases: the newest of the last 24 hours, or None
    events,   \* agent_share_usage_events: day and tasks, or None
    daily,    \* agent_share_usage_daily, 0 where there is no row
    rowLock,  \* the report that holds a share FOR UPDATE, or None
    pc,       \* where each report is
    report    \* what it says and has read

vars == <<limit, today, lease, events, daily, rowLock, pc, report>>

Days == 1 .. LastDay
Usage == [tasks : Nat, bytes : Nat]
Lease == [share : Shares, day : Days]
Event == [day : Days, tasks : {0, 1}]
Report == [share : Shares, event : Events, tasks : {0, 1}, day : Days,
           limit : Limits, duplicate : BOOLEAN]

\* None is told apart from what it stands beside.
ASSUME UsageAssumption ==
    /\ Limits \subseteq Nat /\ 0 \in Limits /\ LastDay \in Nat \ {0}
    /\ None \notin Shares \cup Events \cup Reporters \cup Event \cup Lease

Recorded(s, e) == events[s][e] # None

Init ==
    /\ limit \in [Shares -> Limits]
    /\ today = 1 /\ lease = [q \in Requests |-> None]
    /\ events = [s \in Shares |-> [e \in Events |-> None]]
    /\ daily = [s \in Shares |-> [d \in Days |-> [tasks |-> 0, bytes |-> 0]]]
    /\ rowLock = [s \in Shares |-> None]
    /\ pc = [r \in Reporters |-> "idle"]
    /\ report = [r \in Reporters |-> None]

\* (mutant) the share is read without FOR UPDATE
NotWaiting(s) == s \in Shares
Unlocked(s) == rowLock[s] = None

\* (mutant) the handler goes on after the transaction has ended
ReleaseAndContinue(r) ==
    /\ UNCHANGED pc
    /\ report' = [report EXCEPT ![r] = None]
    /\ rowLock' = [s \in Shares |-> IF rowLock[s] = r THEN None ELSE rowLock[s]]

Release(r) ==
    /\ pc' = [pc EXCEPT ![r] = "idle"]
    /\ report' = [report EXCEPT ![r] = None]
    /\ rowLock' = [s \in Shares |-> IF rowLock[s] = r THEN None ELSE rowLock[s]]

\* CreateAccessLease: a client opens a request of its own, or of another's id, on
\* a share; its lease is then the newest of that id.
IssueLease(q) ==
    /\ \E s \in Shares : lease' = [lease EXCEPT ![q] = [share |-> s, day |-> today]]
    /\ UNCHANGED <<limit, today, events, daily, rowLock, pc, report>>

\* 24 hours later no lease of the id is found any more: the others are older.
LeaseAges(q) ==
    /\ lease[q] # None /\ lease[q].day < today
    /\ lease' = [lease EXCEPT ![q] = None]
    /\ UNCHANGED <<limit, today, events, daily, rowLock, pc, report>>

\* The lease, its share FOR UPDATE, and the date read once that is granted.  With
\* no lease the report ends there (sql.ErrNoRows) and changes nothing.
Begin(r) ==
    /\ pc[r] = "idle"
    /\ \E q \in Requests, e \in Events, n \in {0, 1} :
          LET s == lease[q].share IN
          /\ lease[q] # None /\ Unlocked(s)
          /\ rowLock' = [rowLock EXCEPT ![s] = r]
          /\ report' = [report EXCEPT ![r] =
                [share |-> s, event |-> e, tasks |-> n, day |-> today,
                 limit |-> limit[s], duplicate |-> FALSE]]
    /\ pc' = [pc EXCEPT ![r] = "begun"]
    /\ UNCHANGED <<limit, today, lease, events, daily>>

Seen(r) == Recorded(report[r].share, report[r].event)
Exceeds(r) ==
    /\ ~Seen(r) /\ report[r].tasks > 0 /\ report[r].limit > 0
    /\ daily[report[r].share][report[r].day].tasks + report[r].tasks > report[r].limit

Check(r) ==
    /\ pc[r] = "begun"
    /\ \/ /\ Exceeds(r) /\ Release(r)
       \/ /\ ~Exceeds(r)
          /\ report' = [report EXCEPT ![r].duplicate = Seen(r)]
          /\ pc' = [pc EXCEPT ![r] = "checked"]
          /\ UNCHANGED rowLock
    /\ UNCHANGED <<limit, today, lease, events, daily>>

\* ON CONFLICT(share_id,usage_date) DO UPDATE SET tasks_created=...+EXCLUDED...
Replaced(u, n) == [tasks |-> n, bytes |-> 1]  \* (mutant) without the old value
Added(u, n) == [tasks |-> u.tasks + n, bytes |-> u.bytes + 1]

\* The event and the day's totals; a second insert of the event would fail.
Record(r) ==
    /\ pc[r] = "checked"
    /\ LET s == report[r].share  d == report[r].day  n == report[r].tasks IN
       \/ /\ report[r].duplicate
          /\ UNCHANGED <<events, daily>>
       \/ /\ ~report[r].duplicate /\ ~Recorded(s, report[r].event)
          /\ events' = [events EXCEPT ![s][report[r].event] = [day |-> d, tasks |-> n]]
          /\ daily' = [daily EXCEPT ![s][d] = Added(@, n)]
    /\ Release(r)
    /\ UNCHANGED <<limit, today, lease>>

\* A statement fails, or the agent's request is cancelled.
Abort(r) ==
    /\ pc[r] \in {"begun", "checked"}
    /\ Release(r)
    /\ UNCHANGED <<limit, today, lease, events, daily>>

\* TransitionShare("update") holds the share FOR UPDATE as well.
UpdatePolicy(s) ==
    /\ Unlocked(s)
    /\ \E n \in Limits : limit' = [limit EXCEPT ![s] = n]
    /\ UNCHANGED <<today, lease, events, daily, rowLock, pc, report>>

\* When a day ends, the leases of the day before are older than 24 hours.
Midnight ==
    /\ today < LastDay /\ today' = today + 1
    /\ \A q \in Requests : lease[q] # None => lease[q].day = today
    /\ UNCHANGED <<limit, lease, events, daily, rowLock, pc, report>>

Next ==
    \/ \E r \in Reporters : Begin(r) \/ Check(r) \/ Record(r) \/ Abort(r)
    \/ \E q \in Requests : IssueLease(q) \/ LeaseAges(q)
    \/ \E s \in Shares : UpdatePolicy(s)
    \/ Midnight

Spec == Init /\ [][Next]_vars

-----------------------------------------------------------------------------
(* Properties                                                               *)

\* Type invariant of the tables and the reports.
TypeOK ==
    /\ limit \in [Shares -> Limits] /\ today \in Days
    /\ lease \in [Requests -> Lease \cup {None}]
    /\ events \in [Shares -> [Events -> Event \cup {None}]]
    /\ daily \in [Shares -> [Days -> Usage]]
    /\ rowLock \in [Shares -> Reporters \cup {None}]
    /\ pc \in [Reporters -> {"idle", "begun", "checked"}]
    /\ report \in [Reporters -> Report \cup {None}]
    /\ \A r \in Reporters : pc[r] \in {"begun", "checked"} => report[r] \in Report

\* A day's totals are those of the events recorded on it, each counted once,
\* whatever was retried, overlapped or aborted (RecordShareUsage).
OnDay(s, d) == {e \in Events : Recorded(s, e) /\ events[s][e].day = d}
TotalsMatchEvents ==
    \A s \in Shares, d \in Days :
        /\ daily[s][d].bytes = Cardinality(OnDay(s, d))
        /\ daily[s][d].tasks = Cardinality({e \in OnDay(s, d) : events[s][e].tasks = 1})

\* Retried, overlapping and aborted reports come to a ledger where each event is
\* entered once, with its day, and a task only while the events of that day stay
\* within the policy in force at that moment (ErrShareDailyLimit), although the
\* limit and the total are read before other reports and midnight.
Ledger == INSTANCE UsageLedger
ImplementsLedger == Ledger!Spec
=============================================================================
