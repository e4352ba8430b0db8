-------------------------- MODULE ShareUsage_proofs --------------------------
(* Proofs about ShareUsage, for any number of shares, events and reports. *)
EXTENDS ShareUsage, FiniteSetTheorems, TLAPS

\* What the assumption says of each constant.
LEMMA UsageConstants ==
    /\ Limits \subseteq Nat /\ LastDay \in Nat \ {0} /\ 0 \in Limits
    /\ None \notin Shares /\ None \notin Events /\ None \notin Reporters /\ None \notin Event
    /\ None \notin Lease
  BY UsageAssumption

\* The events of a day that carry a task.
TasksOnDay(s, d) == {e \in OnDay(s, d) : events[s][e].tasks = 1}

\* A report between its steps holds its share, so that what it has read of the
\* policy, the event and the totals is still so when it writes.
HeldReports ==
    \A r \in Reporters :
        /\ pc[r] \in {"begun", "checked"} =>
              /\ rowLock[report[r].share] = r
              /\ report[r].limit = limit[report[r].share]
              /\ report[r].day <= today
        /\ pc[r] = "checked" => (report[r].duplicate <=> Seen(r)) /\ ~Exceeds(r)

\* The events of a day can be counted.
FiniteDays == \A s \in Shares, d \in Days : IsFiniteSet(OnDay(s, d))

\* The inductive invariant.
UsageInv == TypeOK /\ TotalsMatchEvents /\ FiniteDays /\ HeldReports

\* Nothing is counted at the start.
LEMMA UsageInit == Init => UsageInv
  <1>. SUFFICES ASSUME Init PROVE UsageInv
    OBVIOUS
  <1>. USE UsageConstants
  <1>1. TypeOK
    BY DEF Init, TypeOK, Days, Usage
  <1>2. \A s \in Shares, d \in Days : OnDay(s, d) = {} /\ TasksOnDay(s, d) = {}
    BY DEF Init, OnDay, TasksOnDay, Recorded
  <1>3. TotalsMatchEvents /\ FiniteDays
    BY <1>2, FS_EmptySet DEF Init, TotalsMatchEvents, FiniteDays, TasksOnDay
  <1>4. HeldReports
    BY DEF Init, HeldReports
  <1>. QED  BY <1>1, <1>3, <1>4 DEF UsageInv

\* What ends a transaction.
LEMMA ReleaseEffect ==
    ASSUME UsageInv, NEW r \in Reporters, Release(r)
    PROVE  /\ pc' \in [Reporters -> {"idle", "begun", "checked"}]
           /\ pc'[r] = "idle"
           /\ report' \in [Reporters -> Report \cup {None}]
           /\ rowLock' \in [Shares -> Reporters \cup {None}]
           /\ \A q \in Reporters \ {r} : pc'[q] = pc[q] /\ report'[q] = report[q]
           /\ \A s \in Shares : rowLock[s] # r => rowLock'[s] = rowLock[s]
  BY UsageConstants DEF Release, UsageInv, TypeOK

\* Two reports between their steps are about different shares.
LEMMA HeldApart ==
    ASSUME UsageInv, NEW r \in Reporters, NEW q \in Reporters, q # r,
           pc[r] \in {"begun", "checked"}, pc[q] \in {"begun", "checked"}
    PROVE  report[q].share # report[r].share
  BY DEF UsageInv, HeldReports

\* A step that writes no event and no total leaves the counting alone.
LEMMA CountsFrame ==
    ASSUME UsageInv, UNCHANGED <<events, daily>>
    PROVE  TotalsMatchEvents' /\ FiniteDays'
  BY DEF UsageInv, TotalsMatchEvents, FiniteDays, OnDay, Recorded

\* A report begins on a share that no other report holds.
LEMMA BeginKeeps ==
    ASSUME UsageInv, NEW r \in Reporters, Begin(r)
    PROVE  UsageInv'
  <1>. USE UsageConstants
  <1>0. PICK l \in Requests, e \in Events, n \in {0, 1} :
           /\ lease[l] # None /\ Unlocked(lease[l].share)
           /\ rowLock' = [rowLock EXCEPT ![lease[l].share] = r]
           /\ report' = [report EXCEPT ![r] =
                 [share |-> lease[l].share, event |-> e, tasks |-> n, day |-> today,
                  limit |-> limit[lease[l].share], duplicate |-> FALSE]]
    BY DEF Begin
  <1>1. PICK s \in Shares :
           /\ Unlocked(s)
           /\ rowLock' = [rowLock EXCEPT ![s] = r]
           /\ report' = [report EXCEPT ![r] =
                 [share |-> s, event |-> e, tasks |-> n, day |-> today,
                  limit |-> limit[s], duplicate |-> FALSE]]
    <2>1. lease[l].share \in Shares
      BY <1>0 DEF UsageInv, TypeOK, Lease
    <2>. QED  BY <1>0, <2>1
  <1>2. /\ pc[r] = "idle" /\ pc' = [pc EXCEPT ![r] = "begun"]
        /\ UNCHANGED <<limit, today, lease, events, daily>>
    BY DEF Begin
  <1>. DEFINE new == [share |-> s, event |-> e, tasks |-> n, day |-> today,
                      limit |-> limit[s], duplicate |-> FALSE]
  <1>3. /\ new \in Report /\ new.share = s /\ new.limit = limit[s] /\ new.day = today
    BY DEF UsageInv, TypeOK, Report
  <1>4. /\ pc' \in [Reporters -> {"idle", "begun", "checked"}]
        /\ pc'[r] = "begun" /\ report'[r] = new
        /\ report' \in [Reporters -> Report \cup {None}]
        /\ rowLock' \in [Shares -> Reporters \cup {None}] /\ rowLock'[s] = r
        /\ \A q \in Reporters \ {r} : pc'[q] = pc[q] /\ report'[q] = report[q]
        /\ \A t \in Shares \ {s} : rowLock'[t] = rowLock[t]
    BY <1>1, <1>2, <1>3 DEF UsageInv, TypeOK
  <1>5. TypeOK'
    BY <1>2, <1>3, <1>4 DEF UsageInv, TypeOK
  <1>6. ASSUME NEW q \in Reporters \ {r}, pc[q] \in {"begun", "checked"}
        PROVE  report[q].share \in Shares /\ rowLock'[report[q].share] = rowLock[report[q].share]
    <2>1. report[q].share \in Shares /\ rowLock[report[q].share] = q
      BY <1>6 DEF UsageInv, TypeOK, HeldReports, Report
    <2>. QED  BY <1>1, <1>4, <2>1 DEF Unlocked
  <1>7. today <= today
    BY DEF UsageInv, TypeOK, Days
  <1>8. ASSUME NEW q \in Reporters
        PROVE  /\ pc'[q] \in {"begun", "checked"} =>
                     /\ rowLock'[report'[q].share] = q
                     /\ report'[q].limit = limit'[report'[q].share]
                     /\ report'[q].day <= today'
               /\ pc'[q] = "checked" => (report'[q].duplicate <=> Seen(q)') /\ ~Exceeds(q)'
    <2>1. CASE q = r
      BY <1>2, <1>3, <1>4, <1>7, <2>1
    <2>2. CASE q # r
      <3>1. pc'[q] = pc[q] /\ report'[q] = report[q]
        BY <1>4, <2>2
      <3>2. Seen(q)' <=> Seen(q)
        BY <1>2, <3>1 DEF Seen, Recorded
      <3>3. Exceeds(q)' <=> Exceeds(q)
        BY <1>2, <3>1, <3>2 DEF Exceeds
      <3>. QED  BY <1>2, <1>6, <2>2, <3>1, <3>2, <3>3 DEF UsageInv, HeldReports
    <2>. QED  BY <2>1, <2>2
  <1>9. HeldReports'
    BY <1>8 DEF HeldReports
  <1>. QED  BY <1>2, <1>5, <1>9, CountsFrame DEF UsageInv

\* The other reports do not notice that one has ended its transaction.
LEMMA ReleaseKeeps ==
    ASSUME UsageInv, NEW r \in Reporters, pc[r] \in {"begun", "checked"},
           Release(r), UNCHANGED <<limit, today, lease>>,
           \A q \in Reporters \ {r} : pc[q] = "checked" =>
               (Seen(q)' <=> Seen(q)) /\ (Exceeds(q)' <=> Exceeds(q))
    PROVE  HeldReports'
  <1>1. /\ pc'[r] = "idle"
        /\ \A q \in Reporters \ {r} : pc'[q] = pc[q] /\ report'[q] = report[q]
        /\ \A s \in Shares : rowLock[s] # r => rowLock'[s] = rowLock[s]
    BY ReleaseEffect
  <1>2. ASSUME NEW q \in Reporters \ {r}, pc[q] \in {"begun", "checked"}
        PROVE  rowLock'[report[q].share] = rowLock[report[q].share]
    <2>1. report[q].share \in Shares /\ rowLock[report[q].share] = q
      BY <1>2 DEF UsageInv, TypeOK, HeldReports, Report
    <2>. QED  BY <1>1, <1>2, <2>1
  <1>. QED  BY <1>1, <1>2 DEF UsageInv, HeldReports

\* A check sees what is so until the report writes.
LEMMA CheckKeeps ==
    ASSUME UsageInv, NEW r \in Reporters, Check(r)
    PROVE  UsageInv'
  <1>. USE UsageConstants
  <1>1. pc[r] = "begun" /\ UNCHANGED <<limit, today, lease, events, daily>>
    BY DEF Check
  <1>2. ASSUME NEW q \in Reporters, report'[q] = report[q]
        PROVE  (Seen(q)' <=> Seen(q)) /\ (Exceeds(q)' <=> Exceeds(q))
    BY <1>1, <1>2 DEF Seen, Recorded, Exceeds
  <1>3. CASE Release(r)
    <2>1. TypeOK'
      BY <1>1, <1>3, ReleaseEffect DEF UsageInv, TypeOK
    <2>2. \A q \in Reporters \ {r} : report'[q] = report[q]
      BY <1>3, ReleaseEffect
    <2>3. HeldReports'
      BY <1>1, <1>2, <1>3, <2>2, ReleaseKeeps
    <2>. QED  BY <1>1, <2>1, <2>3, CountsFrame DEF UsageInv
  <1>4. CASE /\ ~Exceeds(r)
             /\ report' = [report EXCEPT ![r].duplicate = Seen(r)]
             /\ pc' = [pc EXCEPT ![r] = "checked"]
             /\ UNCHANGED rowLock
    <2>. DEFINE new == [report[r] EXCEPT !.duplicate = Seen(r)]
    <2>1. report[r] \in Report /\ report \in [Reporters -> Report \cup {None}]
      BY <1>1 DEF UsageInv, TypeOK
    <2>2. Seen(r) \in BOOLEAN
      BY DEF Seen, Recorded
    <2>3. /\ new \in Report /\ new.share = report[r].share /\ new.limit = report[r].limit
          /\ new.day = report[r].day /\ new.event = report[r].event /\ new.tasks = report[r].tasks
          /\ (new.duplicate <=> Seen(r))
      BY <2>1, <2>2 DEF Report
    <2>4. /\ report'[r] = new /\ report' \in [Reporters -> Report \cup {None}]
          /\ pc'[r] = "checked" /\ pc' \in [Reporters -> {"idle", "begun", "checked"}]
          /\ \A q \in Reporters \ {r} : pc'[q] = pc[q] /\ report'[q] = report[q]
      BY <1>4, <2>1, <2>3 DEF UsageInv, TypeOK
    <2>5. TypeOK'
      BY <1>1, <1>4, <2>3, <2>4 DEF UsageInv, TypeOK
    <2>6. (Seen(r)' <=> Seen(r)) /\ (Exceeds(r)' <=> Exceeds(r))
      BY <1>1, <2>3, <2>4 DEF Seen, Recorded, Exceeds
    <2>7. \A q \in Reporters \ {r} : (Seen(q)' <=> Seen(q)) /\ (Exceeds(q)' <=> Exceeds(q))
      BY <1>2, <2>4
    <2>8. HeldReports'
      <3>1. ASSUME NEW q \in Reporters
            PROVE  /\ pc'[q] \in {"begun", "checked"} =>
                         /\ rowLock'[report'[q].share] = q
                         /\ report'[q].limit = limit'[report'[q].share]
                         /\ report'[q].day <= today'
                   /\ pc'[q] = "checked" => (report'[q].duplicate <=> Seen(q)') /\ ~Exceeds(q)'
        <4>1. CASE q = r
          BY <1>1, <1>4, <2>3, <2>4, <2>6, <4>1 DEF UsageInv, HeldReports
        <4>2. CASE q # r
          BY <1>1, <1>4, <2>4, <2>7, <4>2 DEF UsageInv, HeldReports
        <4>. QED  BY <4>1, <4>2
      <3>. QED  BY <3>1 DEF HeldReports
    <2>. QED  BY <1>1, <2>5, <2>8, CountsFrame DEF UsageInv
  <1>. QED  BY <1>3, <1>4 DEF Check

\* An event that is entered is one more of its day.
LEMMA EnterCounts ==
    ASSUME UsageInv, NEW s \in Shares, NEW e \in Events, NEW d \in Days, NEW n \in {0, 1},
           ~Recorded(s, e),
           events' = [events EXCEPT ![s][e] = [day |-> d, tasks |-> n]],
           daily' = [daily EXCEPT ![s][d] = Added(@, n)]
    PROVE  /\ events' \in [Shares -> [Events -> Event \cup {None}]]
           /\ daily' \in [Shares -> [Days -> Usage]]
           /\ \A t \in Shares \ {s} : events'[t] = events[t] /\ daily'[t] = daily[t]
           /\ TotalsMatchEvents' /\ FiniteDays'
  <1>. USE UsageConstants
  <1>. DEFINE new == [day |-> d, tasks |-> n]
              sum == Added(daily[s][d], n)
  <1>1. /\ events \in [Shares -> [Events -> Event \cup {None}]]
        /\ daily \in [Shares -> [Days -> Usage]]
    BY DEF UsageInv, TypeOK
  <1>2. new \in Event /\ new # None /\ new.day = d /\ new.tasks = n
    BY DEF Event
  <1>3. /\ daily[s][d] \in Usage /\ sum \in Usage
        /\ sum.tasks = daily[s][d].tasks + n /\ sum.bytes = daily[s][d].bytes + 1
    BY <1>1 DEF Added, Usage
  <1>4. /\ events' \in [Shares -> [Events -> Event \cup {None}]]
        /\ events'[s][e] = new
        /\ \A i \in Events \ {e} : events'[s][i] = events[s][i]
        /\ \A t \in Shares \ {s} : events'[t] = events[t]
    BY <1>1, <1>2
  <1>5. /\ daily' \in [Shares -> [Days -> Usage]]
        /\ daily'[s][d] = sum
        /\ \A i \in Days \ {d} : daily'[s][i] = daily[s][i]
        /\ \A t \in Shares \ {s} : daily'[t] = daily[t]
    BY <1>1, <1>3
  <1>6. events[s][e] = None
    BY DEF Recorded
  <1>7. /\ OnDay(s, d)' = OnDay(s, d) \cup {e} /\ e \notin OnDay(s, d)
        /\ \A i \in Days \ {d} : OnDay(s, i)' = OnDay(s, i)
        /\ \A t \in Shares \ {s}, i \in Days : OnDay(t, i)' = OnDay(t, i)
    <2>1. OnDay(s, d)' = OnDay(s, d) \cup {e} /\ e \notin OnDay(s, d)
      BY <1>2, <1>4, <1>6 DEF OnDay, Recorded
    <2>2. \A i \in Days \ {d} : OnDay(s, i)' = OnDay(s, i)
      BY <1>2, <1>4, <1>6 DEF OnDay, Recorded
    <2>3. \A t \in Shares \ {s}, i \in Days : OnDay(t, i)' = OnDay(t, i)
      BY <1>4 DEF OnDay, Recorded
    <2>. QED  BY <2>1, <2>2, <2>3
  <1>8. /\ TasksOnDay(s, d)' = IF n = 1 THEN TasksOnDay(s, d) \cup {e} ELSE TasksOnDay(s, d)
        /\ e \notin TasksOnDay(s, d)
        /\ \A i \in Days \ {d} : TasksOnDay(s, i)' = TasksOnDay(s, i)
        /\ \A t \in Shares \ {s}, i \in Days : TasksOnDay(t, i)' = TasksOnDay(t, i)
    <2>1. \A t \in Shares, i \in Days : OnDay(t, i) \subseteq Events
      BY DEF OnDay
    <2>2. e \notin TasksOnDay(s, d)
      BY <1>7 DEF TasksOnDay
    <2>3. TasksOnDay(s, d)' = IF n = 1 THEN TasksOnDay(s, d) \cup {e} ELSE TasksOnDay(s, d)
      BY <1>2, <1>4, <1>7, <2>1 DEF TasksOnDay
    <2>4. \A i \in Days \ {d} : TasksOnDay(s, i)' = TasksOnDay(s, i)
      <3>1. \A i \in Days \ {d} : e \notin OnDay(s, i)
        BY <1>6 DEF OnDay, Recorded
      <3>. QED  BY <1>4, <1>7, <2>1, <3>1 DEF TasksOnDay
    <2>5. \A t \in Shares \ {s}, i \in Days : TasksOnDay(t, i)' = TasksOnDay(t, i)
      BY <1>4, <1>7 DEF TasksOnDay
    <2>. QED  BY <2>2, <2>3, <2>4, <2>5
  <1>9. /\ IsFiniteSet(OnDay(s, d)) /\ IsFiniteSet(TasksOnDay(s, d))
        /\ daily[s][d].bytes = Cardinality(OnDay(s, d))
        /\ daily[s][d].tasks = Cardinality(TasksOnDay(s, d))
    <2>1. TasksOnDay(s, d) \subseteq OnDay(s, d)
      BY DEF TasksOnDay
    <2>2. /\ IsFiniteSet(OnDay(s, d)) /\ daily[s][d].bytes = Cardinality(OnDay(s, d))
          /\ daily[s][d].tasks = Cardinality(TasksOnDay(s, d))
      BY DEF UsageInv, FiniteDays, TotalsMatchEvents, TasksOnDay
    <2>. QED  BY <2>1, <2>2, FS_Subset
  <1>10. /\ IsFiniteSet(OnDay(s, d)') /\ sum.bytes = Cardinality(OnDay(s, d)')
    BY <1>3, <1>7, <1>9, FS_AddElement
  <1>11. sum.tasks = Cardinality(TasksOnDay(s, d)')
    <2>1. CASE n = 1
      <3>1. TasksOnDay(s, d)' = TasksOnDay(s, d) \cup {e}
        BY <1>8, <2>1
      <3>2. Cardinality(TasksOnDay(s, d) \cup {e}) = Cardinality(TasksOnDay(s, d)) + 1
        BY <1>8, <1>9, FS_AddElement
      <3>. QED  BY <1>3, <1>9, <2>1, <3>1, <3>2
    <2>2. CASE n = 0
      BY <1>3, <1>8, <1>9, <2>2 DEF Usage
    <2>. QED  BY <2>1, <2>2
  <1>12. ASSUME NEW t \in Shares, NEW i \in Days
         PROVE  /\ IsFiniteSet(OnDay(t, i)')
                /\ daily'[t][i].bytes = Cardinality(OnDay(t, i)')
                /\ daily'[t][i].tasks = Cardinality(TasksOnDay(t, i)')
    <2>1. CASE t = s /\ i = d
      BY <1>5, <1>10, <1>11, <2>1
    <2>2. CASE ~(t = s /\ i = d)
      <3>1. /\ OnDay(t, i)' = OnDay(t, i) /\ TasksOnDay(t, i)' = TasksOnDay(t, i)
            /\ daily'[t][i] = daily[t][i]
        BY <1>5, <1>7, <1>8, <2>2
      <3>. QED  BY <3>1 DEF UsageInv, FiniteDays, TotalsMatchEvents, TasksOnDay
    <2>. QED  BY <2>1, <2>2
  <1>13. TotalsMatchEvents' /\ FiniteDays'
    BY <1>12 DEF TotalsMatchEvents, FiniteDays, TasksOnDay
  <1>. QED  BY <1>4, <1>5, <1>13

\* A report writes an event once, together with the total.
LEMMA RecordKeeps ==
    ASSUME UsageInv, NEW r \in Reporters, Record(r)
    PROVE  UsageInv'
  <1>. USE UsageConstants
  <1>. DEFINE s == report[r].share
              e == report[r].event
              d == report[r].day
              n == report[r].tasks
  <1>1. /\ pc[r] = "checked" /\ Release(r) /\ UNCHANGED <<limit, today, lease>>
        /\ s \in Shares /\ e \in Events /\ d \in Days /\ n \in {0, 1}
    BY DEF Record, UsageInv, TypeOK, Report
  <1>2. CASE UNCHANGED <<events, daily>>
    <2>1. TypeOK'
      BY <1>1, <1>2, ReleaseEffect DEF UsageInv, TypeOK
    <2>2. \A q \in Reporters \ {r} : report'[q] = report[q]
      BY <1>1, ReleaseEffect
    <2>3. \A q \in Reporters \ {r} : (Seen(q)' <=> Seen(q)) /\ (Exceeds(q)' <=> Exceeds(q))
      BY <1>2, <2>2 DEF Seen, Recorded, Exceeds
    <2>4. HeldReports'
      BY <1>1, <2>3, ReleaseKeeps
    <2>. QED  BY <1>2, <2>1, <2>4, CountsFrame DEF UsageInv
  <1>3. CASE /\ ~Recorded(s, e)
             /\ events' = [events EXCEPT ![s][e] = [day |-> d, tasks |-> n]]
             /\ daily' = [daily EXCEPT ![s][d] = Added(@, n)]
    <2>1. /\ events' \in [Shares -> [Events -> Event \cup {None}]]
          /\ daily' \in [Shares -> [Days -> Usage]]
          /\ \A t \in Shares \ {s} : events'[t] = events[t] /\ daily'[t] = daily[t]
          /\ TotalsMatchEvents' /\ FiniteDays'
      BY <1>1, <1>3, EnterCounts
    <2>2. TypeOK'
      BY <1>1, <2>1, ReleaseEffect DEF UsageInv, TypeOK
    <2>3. ASSUME NEW q \in Reporters \ {r}, pc[q] = "checked"
          PROVE  (Seen(q)' <=> Seen(q)) /\ (Exceeds(q)' <=> Exceeds(q))
      <3>1. report'[q] = report[q]
        BY <1>1, ReleaseEffect
      <3>2. report[q].share \in Shares \ {s}
        BY <1>1, <2>3, HeldApart DEF UsageInv, TypeOK, Report
      <3>. QED  BY <2>1, <3>1, <3>2 DEF Seen, Recorded, Exceeds
    <2>4. HeldReports'
      BY <1>1, <2>3, ReleaseKeeps
    <2>. QED  BY <2>1, <2>2, <2>4 DEF UsageInv
  <1>. QED  BY <1>2, <1>3 DEF Record

\* An aborted report leaves no trace.
LEMMA AbortKeeps ==
    ASSUME UsageInv, NEW r \in Reporters, Abort(r)
    PROVE  UsageInv'
  <1>1. /\ pc[r] \in {"begun", "checked"} /\ Release(r)
        /\ UNCHANGED <<limit, today, lease, events, daily>>
    BY DEF Abort
  <1>2. TypeOK'
    BY <1>1, ReleaseEffect DEF UsageInv, TypeOK
  <1>3. \A q \in Reporters \ {r} : report'[q] = report[q]
    BY <1>1, ReleaseEffect
  <1>4. \A q \in Reporters \ {r} : (Seen(q)' <=> Seen(q)) /\ (Exceeds(q)' <=> Exceeds(q))
    BY <1>1, <1>3 DEF Seen, Recorded, Exceeds
  <1>5. HeldReports'
    BY <1>1, <1>4, ReleaseKeeps
  <1>. QED  BY <1>1, <1>2, <1>5, CountsFrame DEF UsageInv

\* The policy and the date change under nobody who has read them.
LEMMA OutsideKeeps ==
    ASSUME UsageInv, \/ \E q \in Requests : IssueLease(q) \/ LeaseAges(q)
                     \/ (\E s \in Shares : UpdatePolicy(s)) \/ Midnight \/ UNCHANGED vars
    PROVE  UsageInv'
  <1>. USE UsageConstants
  <1>1. UNCHANGED <<events, daily, rowLock, pc, report>>
    BY DEF IssueLease, LeaseAges, UpdatePolicy, Midnight, vars
  <1>2. \A q \in Reporters : (Seen(q)' <=> Seen(q)) /\ (Exceeds(q)' <=> Exceeds(q))
    BY <1>1 DEF Seen, Recorded, Exceeds
  <1>3. /\ limit' \in [Shares -> Limits]
        /\ \A s \in Shares : rowLock[s] # None => limit'[s] = limit[s]
    <2>1. limit \in [Shares -> Limits]
      BY DEF UsageInv, TypeOK
    <2>2. CASE \E s \in Shares : UpdatePolicy(s)
      <3>1. PICK s \in Shares, n \in Limits : Unlocked(s) /\ limit' = [limit EXCEPT ![s] = n]
        BY <2>2 DEF UpdatePolicy
      <3>. QED  BY <2>1, <3>1 DEF Unlocked
    <2>3. CASE \/ \E q \in Requests : IssueLease(q) \/ LeaseAges(q)
               \/ Midnight \/ UNCHANGED vars
      BY <2>1, <2>3 DEF IssueLease, LeaseAges, Midnight, vars
    <2>. QED  BY <2>2, <2>3
  <1>4. today' \in Days /\ today <= today'
    BY DEF IssueLease, LeaseAges, UpdatePolicy, Midnight, vars, UsageInv, TypeOK, Days
  <1>8. lease' \in [Requests -> Lease \cup {None}]
    <2>1. lease \in [Requests -> Lease \cup {None}] /\ today \in Days
      BY DEF UsageInv, TypeOK
    <2>2. ASSUME NEW q \in Requests, IssueLease(q) PROVE lease' \in [Requests -> Lease \cup {None}]
      BY <2>1, <2>2 DEF IssueLease, Lease
    <2>3. ASSUME NEW q \in Requests, LeaseAges(q) PROVE lease' \in [Requests -> Lease \cup {None}]
      BY <2>1, <2>3 DEF LeaseAges
    <2>. QED  BY <2>1, <2>2, <2>3 DEF UpdatePolicy, Midnight, vars
  <1>5. TypeOK'
    BY <1>1, <1>3, <1>4, <1>8 DEF UsageInv, TypeOK
  <1>6. ASSUME NEW r \in Reporters, pc[r] \in {"begun", "checked"}
        PROVE  report[r].limit = limit'[report[r].share] /\ report[r].day <= today'
    <2>1. /\ report[r].share \in Shares /\ rowLock[report[r].share] = r
          /\ report[r].limit = limit[report[r].share]
          /\ report[r].day <= today /\ report[r].day \in Days
      BY <1>6 DEF UsageInv, TypeOK, HeldReports, Report
    <2>2. today \in Days
      BY DEF UsageInv, TypeOK
    <2>. QED  BY <1>3, <1>4, <2>1, <2>2 DEF Days
  <1>7. HeldReports'
    BY <1>1, <1>2, <1>6 DEF UsageInv, HeldReports
  <1>. QED  BY <1>1, <1>5, <1>7, CountsFrame DEF UsageInv

\* No step breaks the inductive invariant.
LEMMA UsageStep == UsageInv /\ [Next]_vars => UsageInv'
  BY BeginKeeps, CheckKeeps, RecordKeeps, AbortKeeps, OutsideKeeps DEF Next

\* The inductive invariant holds in every reachable state.
LEMMA Counting == Spec => []UsageInv
  BY UsageInit, UsageStep, PTL DEF Spec

\* Tables, locks and reports keep their types for any number of shares, events and
\* reports (RecordShareUsage).
THEOREM UsageTyping == Spec => []TypeOK
  BY Counting, PTL DEF UsageInv

\* Each day's totals are those of the events entered on it, each counted once, for
\* any number of reports that are retried, overlap or are aborted.
THEOREM Totals == Spec => []TotalsMatchEvents
  BY Counting, PTL DEF UsageInv

-----------------------------------------------------------------------------
(* The reports come to the ledger.                                           *)

\* The tasks of a day in the ledger are those of the day's total.
LEMMA LedgerTasks ==
    ASSUME UsageInv, NEW s \in Shares, NEW d \in Days
    PROVE  Ledger!Tasks(s, d) = daily[s][d].tasks
  <1>. USE UsageConstants
  <1>1. \A e \in Events : Recorded(s, e) =>
           (events[s][e] = [day |-> d, tasks |-> 1]
              <=> events[s][e].day = d /\ events[s][e].tasks = 1)
    BY DEF UsageInv, TypeOK, Recorded, Event
  <1>2. {e \in Events : events[s][e] # None /\ events[s][e] = [day |-> d, tasks |-> 1]}
           = {e \in OnDay(s, d) : events[s][e].tasks = 1}
    BY <1>1 DEF OnDay, Recorded
  <1>3. daily[s][d].tasks = Cardinality({e \in OnDay(s, d) : events[s][e].tasks = 1})
    BY DEF UsageInv, TotalsMatchEvents
  <1>4. Ledger!Tasks(s, d) = Cardinality(
           {e \in Events : events[s][e] # None /\ events[s][e] = [day |-> d, tasks |-> 1]})
    BY DEF Ledger!Tasks, Ledger!Cardinality, Cardinality
  <1>. QED  BY <1>2, <1>3, <1>4

\* The last step of a report enters its event in the ledger, or changes nothing.
LEMMA RecordEnters ==
    ASSUME UsageInv, NEW r \in Reporters, Record(r)
    PROVE  [Ledger!Next]_(Ledger!vars)
  <1>. USE UsageConstants
  <1>. DEFINE s == report[r].share
              e == report[r].event
              d == report[r].day
              n == report[r].tasks
  <1>1. /\ pc[r] = "checked" /\ UNCHANGED <<limit, today, lease>>
        /\ s \in Shares /\ e \in Events /\ d \in Days /\ n \in {0, 1}
        /\ report[r].limit \in Limits
    BY DEF Record, UsageInv, TypeOK, Report
  <1>2. d <= today /\ report[r].limit = limit[s] /\ ~Exceeds(r)
    BY <1>1 DEF UsageInv, HeldReports
  <1>3. CASE UNCHANGED events
    BY <1>1, <1>3 DEF Ledger!vars
  <1>4. CASE /\ ~Recorded(s, e)
             /\ events' = [events EXCEPT ![s][e] = [day |-> d, tasks |-> n]]
    <2>1. events[s][e] = None
      BY <1>4 DEF Recorded
    <2>2. ASSUME n = 1, limit[s] > 0 PROVE Ledger!Tasks(s, d) < limit[s]
      <3>1. ~(daily[s][d].tasks + 1 > limit[s])
        BY <1>2, <1>4, <2>2 DEF Exceeds, Seen
      <3>2. daily[s][d].tasks \in Nat /\ limit[s] \in Nat
        <4>1. daily[s][d] \in Usage /\ limit[s] \in Limits
          BY <1>1 DEF UsageInv, TypeOK
        <4>. QED  BY <4>1 DEF Usage
      <3>. QED  BY <1>1, <3>1, <3>2, LedgerTasks
    <2>3. Ledger!Enter(s, e, d, n)
      BY <1>1, <1>2, <1>4, <2>1, <2>2 DEF Ledger!Enter
    <2>. QED  BY <1>1, <2>3 DEF Ledger!Next, Days
  <1>. QED  BY <1>3, <1>4 DEF Record

\* Retried, overlapping and aborted reports implement the ledger: an event is
\* entered by the last step of a report, within the policy of that moment, because
\* the report holds its share since it read the policy and the total.
THEOREM LedgerImplemented == Spec => ImplementsLedger
  <1>1. Init => Ledger!Init
    BY DEF Init, Ledger!Init
  <1>2. UsageInv /\ [Next]_vars => [Ledger!Next]_(Ledger!vars)
    <2>. SUFFICES ASSUME UsageInv, [Next]_vars PROVE [Ledger!Next]_(Ledger!vars)
      OBVIOUS
    <2>1. ASSUME NEW r \in Reporters, Record(r) PROVE [Ledger!Next]_(Ledger!vars)
      BY <2>1, RecordEnters
    <2>2. CASE \/ \E r \in Reporters : Begin(r) \/ Check(r) \/ Abort(r)
               \/ \E q \in Requests : IssueLease(q) \/ LeaseAges(q)
               \/ UNCHANGED vars
      BY <2>2 DEF Begin, Check, Abort, IssueLease, LeaseAges, vars, Ledger!vars
    <2>3. ASSUME NEW s \in Shares, UpdatePolicy(s) PROVE [Ledger!Next]_(Ledger!vars)
      BY <2>3 DEF UpdatePolicy, Ledger!SetLimit, Ledger!Next
    <2>4. CASE Midnight
      BY <2>4 DEF Midnight, Ledger!NextDay, Ledger!Next
    <2>. QED  BY <2>1, <2>2, <2>3, <2>4 DEF Next
  <1>. QED  BY <1>1, <1>2, Counting, PTL DEF Spec, ImplementsLedger, Ledger!Spec
=============================================================================
