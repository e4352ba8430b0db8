------------------------- MODULE HapiMailbox_proofs -------------------------
(* Proofs about HapiMailbox, for any number of requests, ids and polls. *)
EXTENDS HapiMailbox, TLAPS

\* What the phases of a request and the locks of the polls add to the type
\* invariant: a request is answered once, in its last step, and holds its lease
\* until then; two polls never hold the same row, and a poll takes only what waits.
MailboxInv ==
    /\ TypeOK /\ LeaseFollowsRequest
    /\ \A s \in Senders : /\ step[s] # "done" => told[s] = None
                          /\ step[s] \notin {"idle", "done"} => lease[s] = "live"
    /\ \A p, q \in Pollers : p # q => Touched(p) \cap Touched(q) = {}
    /\ \A p \in Pollers : claims[p] # None =>
          /\ claims[p].expired \cap claims[p].taken = {}
          /\ \A r \in claims[p].taken : row[r].status = "pending"

\* None is told apart from what the variables hold.
LEMMA NoneApart ==
    /\ RequestOf \in [Senders -> RequestIds]
    /\ None \notin Senders /\ None \notin Answers
    /\ None \notin Row /\ None \notin Claim
  BY MailboxAssumption

\* No request, row or poll at the start.
LEMMA MailboxInit == Init => MailboxInv
  BY NoneApart DEF Init, MailboxInv, TypeOK, LeaseFollowsRequest, Touched, Answers

\* What the invariant says of the requests alone.
Sound(s) ==
    /\ step[s] # "done" => told[s] = None
    /\ step[s] \notin {"idle", "done"} => lease[s] = "live"
    /\ told[s] = "failed" => lease[s] = "revoked" \/ s \in unrevoked
    /\ told[s] \in {"answered", "accepted"} => lease[s] = "live"

\* A step that touches neither rows nor polls, keeps the requests sound and takes
\* no acceptance back keeps the invariant.
LEMMA SendingFrame ==
    ASSUME MailboxInv, UNCHANGED <<row, due, claims, delivered>>,
           step' \in [Senders -> {"idle", "discover", "save", "enqueue", "revoke", "done"}],
           told' \in [Senders -> Answers \cup {None}],
           lease' \in [Senders -> {"live", "revoked", None}],
           response' \in [RequestIds -> Senders \cup {None}],
           unrevoked' \subseteq Senders, asked' \subseteq Senders,
           \A s \in Senders : Sound(s)' /\ (told[s] = "accepted" => told'[s] = "accepted")
    PROVE  MailboxInv'
  <1>1. \A r \in RequestIds : row[r] # None => row[r].from \in Senders
    BY DEF MailboxInv, TypeOK, Row
  <1>2. TypeOK'
    BY DEF MailboxInv, TypeOK, Touched, Unfinished
  <1>3. LeaseFollowsRequest'
    BY <1>1 DEF MailboxInv, LeaseFollowsRequest, Sound
  <1>4. \A p \in Pollers : Touched(p)' = Touched(p)
    BY DEF Touched
  <1>. QED  BY <1>2, <1>3, <1>4 DEF MailboxInv, Sound

\* Steps of a request that leave the mailbox's rows and polls alone.
LEMMA Sending ==
    ASSUME MailboxInv, NEW s \in Senders,
           \/ Issue(s) \/ Deliver(s) \/ Discover(s) \/ Save(s) \/ Revoke(s) \/ Respond(s)
    PROVE  MailboxInv'
  <1>. USE NoneApart
  <1>1. /\ TypeOK /\ \A i \in Senders : Sound(i)
    BY DEF MailboxInv, LeaseFollowsRequest, Sound
  <1>2. ASSUME NEW next \in {"idle", "discover", "save", "enqueue", "revoke", "done"}, Goto(s, next)
        PROVE  /\ step' \in [Senders -> {"idle", "discover", "save", "enqueue", "revoke", "done"}]
               /\ step'[s] = next /\ \A i \in Senders \ {s} : step'[i] = step[i]
    BY <1>1, <1>2 DEF Goto, TypeOK
  <1>3. ASSUME NEW answer \in Answers, told' = [told EXCEPT ![s] = answer]
        PROVE  /\ told' \in [Senders -> Answers \cup {None}]
               /\ told'[s] = answer /\ \A i \in Senders \ {s} : told'[i] = told[i]
    BY <1>1, <1>3 DEF TypeOK
  <1>4. CASE Issue(s)
    <2>1. step[s] = "idle" /\ UNCHANGED <<unrevoked, asked, row, due, response, claims, delivered>>
      BY <1>4 DEF Issue, mailbox
    <2>2. CASE Goto(s, "discover") /\ lease' = [lease EXCEPT ![s] = "live"] /\ UNCHANGED told
      <3>1. /\ lease' \in [Senders -> {"live", "revoked", None}] /\ lease'[s] = "live"
            /\ \A i \in Senders \ {s} : lease'[i] = lease[i]
        BY <1>1, <2>2 DEF TypeOK
      <3>2. /\ step' \in [Senders -> {"idle", "discover", "save", "enqueue", "revoke", "done"}]
            /\ step'[s] = "discover" /\ \A i \in Senders \ {s} : step'[i] = step[i]
        BY <1>2, <2>2
      <3>3. \A i \in Senders : Sound(i)' /\ (told[i] = "accepted" => told'[i] = "accepted")
        BY <1>1, <2>1, <2>2, <3>1, <3>2 DEF Sound, Answers
      <3>. QED  BY <1>1, <2>1, <2>2, <3>1, <3>2, <3>3, SendingFrame DEF TypeOK
    <2>3. CASE Answer(s, "refused") /\ UNCHANGED lease
      <3>1. /\ step' \in [Senders -> {"idle", "discover", "save", "enqueue", "revoke", "done"}]
            /\ step'[s] = "done" /\ \A i \in Senders \ {s} : step'[i] = step[i]
            /\ told' \in [Senders -> Answers \cup {None}]
            /\ told'[s] = "refused" /\ \A i \in Senders \ {s} : told'[i] = told[i]
        BY <1>2, <1>3, <2>3 DEF Answer, Answers
      <3>2. \A i \in Senders : Sound(i)' /\ (told[i] = "accepted" => told'[i] = "accepted")
        BY <1>1, <2>1, <2>3, <3>1 DEF Sound, Answers
      <3>. QED  BY <1>1, <2>1, <2>3, <3>1, <3>2, SendingFrame DEF TypeOK
    <2>. QED  BY <1>4, <2>2, <2>3 DEF Issue
  <1>5. CASE Deliver(s)
    BY <1>1, <1>5, SendingFrame DEF Deliver, mailbox, TypeOK, Sound
  <1>6. CASE Discover(s)
    <2>1. PICK next \in {"save", "revoke", "enqueue"} : Goto(s, next)
      BY <1>6 DEF Discover, FailAfterRevoke
    <2>2. /\ step[s] = "discover"
          /\ UNCHANGED <<told, lease, unrevoked, asked, row, due, response, claims, delivered>>
      BY <1>6 DEF Discover, FailAfterRevoke, mailbox
    <2>. QED  BY <1>1, <1>2, <2>1, <2>2, SendingFrame DEF TypeOK, Sound
  <1>7. CASE Save(s)
    <2>1. step[s] = "save" /\ UNCHANGED <<lease, unrevoked, asked, row, due, claims, delivered>>
      BY <1>7 DEF Save
    <2>2. CASE /\ Answer(s, "answered")
               /\ \E t \in Senders : response' = [response EXCEPT ![RequestOf[s]] = t]
      <3>1. response' \in [RequestIds -> Senders \cup {None}]
        BY <1>1, <2>2 DEF TypeOK
      <3>2. /\ step' \in [Senders -> {"idle", "discover", "save", "enqueue", "revoke", "done"}]
            /\ step'[s] = "done" /\ \A i \in Senders \ {s} : step'[i] = step[i]
            /\ told' \in [Senders -> Answers \cup {None}]
            /\ told'[s] = "answered" /\ \A i \in Senders \ {s} : told'[i] = told[i]
        BY <1>2, <1>3, <2>2 DEF Answer, Answers
      <3>3. \A i \in Senders : Sound(i)' /\ (told[i] = "accepted" => told'[i] = "accepted")
        BY <1>1, <2>1, <3>2 DEF Sound, Answers
      <3>. QED  BY <1>1, <2>1, <2>2, <3>1, <3>2, <3>3, SendingFrame DEF TypeOK
    <2>3. CASE FailAfterRevoke(s) /\ UNCHANGED response
      BY <1>1, <1>2, <2>1, <2>3, SendingFrame DEF FailAfterRevoke, TypeOK, Sound
    <2>. QED  BY <1>7, <2>2, <2>3 DEF Save
  <1>8. CASE Revoke(s)
    <2>1. /\ step[s] = "revoke" /\ Answer(s, "failed")
          /\ UNCHANGED <<asked, row, due, response, claims, delivered>>
          /\ \/ lease' = [lease EXCEPT ![s] = "revoked"] /\ UNCHANGED unrevoked
             \/ unrevoked' = unrevoked \cup {s} /\ UNCHANGED lease
      BY <1>8 DEF Revoke, mailbox
    <2>2. /\ lease' \in [Senders -> {"live", "revoked", None}]
          /\ unrevoked \subseteq unrevoked' /\ unrevoked' \subseteq Senders
          /\ lease'[s] = "revoked" \/ s \in unrevoked'
          /\ \A i \in Senders \ {s} : lease'[i] = lease[i]
      BY <1>1, <2>1 DEF TypeOK
    <2>3. /\ step' \in [Senders -> {"idle", "discover", "save", "enqueue", "revoke", "done"}]
          /\ step'[s] = "done" /\ \A i \in Senders \ {s} : step'[i] = step[i]
          /\ told' \in [Senders -> Answers \cup {None}]
          /\ told'[s] = "failed" /\ \A i \in Senders \ {s} : told'[i] = told[i]
      BY <1>2, <1>3, <2>1 DEF Answer, Answers
    <2>4. \A i \in Senders : Sound(i)' /\ (told[i] = "accepted" => told'[i] = "accepted")
      <3>1. told[s] # "accepted" /\ Sound(s)'
        BY <1>1, <2>1, <2>2, <2>3 DEF Sound, Answers
      <3>2. ASSUME NEW i \in Senders \ {s}
            PROVE  Sound(i)' /\ (told[i] = "accepted" => told'[i] = "accepted")
        <4>1. step'[i] = step[i] /\ told'[i] = told[i] /\ lease'[i] = lease[i]
          BY <2>2, <2>3
        <4>. QED  BY <1>1, <2>2, <4>1 DEF Sound
      <3>. QED  BY <3>1, <3>2
    <2>. QED  BY <1>1, <2>1, <2>2, <2>3, <2>4, SendingFrame DEF TypeOK
  <1>9. CASE Respond(s)
    <2>1. /\ response' \in [RequestIds -> Senders \cup {None}]
          /\ UNCHANGED <<step, told, lease, unrevoked, asked, row, due, claims, delivered>>
      BY <1>1, <1>9 DEF Respond, TypeOK, sending
    <2>2. \A i \in Senders : Sound(i)'
      BY <1>1, <2>1 DEF Sound
    <2>. QED  BY <1>1, <2>1, <2>2, SendingFrame DEF TypeOK
  <1>. QED  BY <1>4, <1>5, <1>6, <1>7, <1>8, <1>9

\* A row starts over only while no poll holds it.
LEMMA Enqueueing ==
    ASSUME MailboxInv, NEW s \in Senders, Enqueue(s)
    PROVE  MailboxInv'
  <1>. USE NoneApart
  <1>. DEFINE r == RequestOf[s]
  <1>1. CASE FailAfterRevoke(s) /\ UNCHANGED <<row, due>>
    BY <1>1 DEF Enqueue, FailAfterRevoke, Goto, MailboxInv, TypeOK, LeaseFollowsRequest,
       Touched, Unfinished, Answers
  <1>2. CASE /\ Free(r) /\ Answer(s, "accepted")
             /\ row' = [row EXCEPT ![r] = [from |-> s, status |-> "pending"]]
             /\ due' = due \ {r}
    <2>1. /\ UNCHANGED <<lease, unrevoked, asked, response, claims, delivered>>
          /\ step[s] = "enqueue"
      BY DEF Enqueue
    <2>2. [from |-> s, status |-> "pending"] \in Row
      BY DEF Row
    <2>3. /\ row' \in [RequestIds -> Row \cup {None}]
          /\ \A i \in RequestIds \ {r} : row'[i] = row[i]
          /\ row'[r] = [from |-> s, status |-> "pending"]
      BY <1>2, <2>2 DEF MailboxInv, TypeOK
    <2>4. /\ step' \in [Senders -> {"idle", "discover", "save", "enqueue", "revoke", "done"}]
          /\ told' \in [Senders -> Answers \cup {None}]
          /\ step'[s] = "done" /\ told'[s] = "accepted"
          /\ \A i \in Senders \ {s} : step'[i] = step[i] /\ told'[i] = told[i]
      BY <1>2 DEF Answer, Goto, MailboxInv, TypeOK, Answers
    <2>5. \A p \in Pollers : r \notin Touched(p) /\ Touched(p)' = Touched(p)
      BY <1>2, <2>1 DEF Free, Touched
    <2>6. row'[r] # None /\ row'[r].from = s
      BY <2>2, <2>3
    <2>7. TypeOK'
      <3>1. \A i \in RequestIds : row'[i] # None => RequestOf[row'[i].from] = i
        BY <2>3, <2>6 DEF MailboxInv, TypeOK
      <3>2. \A p \in Pollers : \A i \in Touched(p)' : Unfinished(i)'
        <4>1. \A p \in Pollers : Touched(p) \subseteq RequestIds
          BY DEF MailboxInv, TypeOK, Touched, Claim
        <4>. QED  BY <2>3, <2>5, <4>1 DEF MailboxInv, TypeOK, Unfinished
      <3>. QED  BY <1>2, <2>1, <2>3, <2>4, <3>1, <3>2 DEF MailboxInv, TypeOK
    <2>8. LeaseFollowsRequest'
      <3>1. lease[s] = "live" /\ lease' = lease /\ unrevoked' = unrevoked
        BY <2>1 DEF MailboxInv
      <3>2. ASSUME NEW i \in RequestIds, row'[i] # None PROVE told'[row'[i].from] = "accepted"
        <4>1. CASE i = r
          BY <2>4, <2>6, <4>1
        <4>2. CASE i # r
          <5>1. row[i] \in Row /\ row'[i] = row[i] /\ told[row[i].from] = "accepted"
            BY <2>3, <3>2, <4>2 DEF MailboxInv, TypeOK, LeaseFollowsRequest
          <5>2. row[i].from \in Senders
            BY <5>1 DEF Row
          <5>. QED  BY <2>4, <5>1, <5>2
        <4>. QED  BY <4>1, <4>2
      <3>. QED  BY <2>4, <3>1, <3>2 DEF MailboxInv, LeaseFollowsRequest
    <2>9. \A p \in Pollers : claims'[p] # None =>
             /\ claims'[p].expired \cap claims'[p].taken = {}
             /\ \A i \in claims'[p].taken : row'[i].status = "pending"
      <3>1. ASSUME NEW p \in Pollers, claims[p] # None, NEW i \in claims[p].taken
            PROVE  row'[i].status = "pending"
        <4>1. i \in Touched(p) /\ i \in RequestIds
          BY <3>1 DEF Touched, MailboxInv, TypeOK, Claim
        <4>2. row'[i] = row[i]
          BY <2>3, <2>5, <4>1
        <4>. QED  BY <3>1, <4>2 DEF MailboxInv
      <3>. QED  BY <2>1, <3>1 DEF MailboxInv
    <2>. QED  BY <2>1, <2>4, <2>5, <2>7, <2>8, <2>9 DEF MailboxInv
  <1>. QED  BY <1>1, <1>2 DEF Enqueue

\* What each step of a poll does to its own transaction.
LEMMA Polling ==
    ASSUME MailboxInv, NEW p \in Pollers,
           BeginPoll(p) \/ ExpireRows(p) \/ TakePending(p) \/ AbortPoll(p)
    PROVE  MailboxInv'
  <1>. USE NoneApart
  <1>1. /\ TypeOK
        /\ claims \in [Pollers -> Claim \cup {None}]
        /\ row \in [RequestIds -> Row \cup {None}]
    BY DEF MailboxInv, TypeOK
  <1>2. UNCHANGED <<step, told, lease, unrevoked, asked, row, due, response, delivered>>
    BY DEF BeginPoll, ExpireRows, TakePending, AbortPoll, sending
  <1>3. \A r : Unfinished(r)' <=> Unfinished(r)
    BY <1>2 DEF Unfinished
  <1>4. ASSUME NEW c \in Claim \cup {None}, claims' = [claims EXCEPT ![p] = c],
               c # None => /\ c.expired \cap c.taken = {}
                           /\ \A r \in c.taken : row[r].status = "pending"
                           /\ \A r \in c.expired \cup c.taken :
                                 Unfinished(r) /\ \A q \in Pollers \ {p} : r \notin Touched(q)
        PROVE  MailboxInv'
    <2>1. /\ claims' \in [Pollers -> Claim \cup {None}] /\ claims'[p] = c
          /\ \A q \in Pollers \ {p} : claims'[q] = claims[q]
      BY <1>1, <1>4
    <2>2. /\ \A q \in Pollers \ {p} : Touched(q)' = Touched(q)
          /\ Touched(p)' = IF c = None THEN {} ELSE c.expired \cup c.taken
      BY <2>1 DEF Touched
    <2>3. \A q \in Pollers : \A r \in Touched(q)' : Unfinished(r)'
      BY <1>1, <1>3, <1>4, <2>2 DEF TypeOK
    <2>4. TypeOK'
      BY <1>1, <1>2, <2>1, <2>3 DEF TypeOK
    <2>5. \A q, u \in Pollers : q # u => Touched(q)' \cap Touched(u)' = {}
      BY <1>4, <2>2 DEF MailboxInv
    <2>6. \A q \in Pollers : claims'[q] # None =>
             /\ claims'[q].expired \cap claims'[q].taken = {}
             /\ \A r \in claims'[q].taken : row'[r].status = "pending"
      BY <1>2, <1>4, <2>1 DEF MailboxInv
    <2>7. LeaseFollowsRequest'
      BY <1>2 DEF MailboxInv, LeaseFollowsRequest
    <2>. QED  BY <1>2, <2>4, <2>5, <2>6, <2>7 DEF MailboxInv
  <1>5. CASE BeginPoll(p)
    <2>. DEFINE c == [stage |-> "begun", late |-> {r \in due : Unfinished(r)},
                      expired |-> {}, taken |-> {}]
    <2>1. claims' = [claims EXCEPT ![p] = c]
      BY <1>5 DEF BeginPoll
    <2>2. c \in Claim
      BY <1>1 DEF Claim, TypeOK
    <2>. QED  BY <1>4, <2>1, <2>2
  <1>6. CASE ExpireRows(p)
    <2>. DEFINE late == {r \in claims[p].late \cap due : Unfinished(r)}
                c == [claims[p] EXCEPT !.stage = "expired", !.expired = late]
    <2>1. /\ claims[p] \in Claim /\ \A r \in late : Free(r)
          /\ claims' = [claims EXCEPT ![p].stage = "expired", ![p].expired = late]
      BY <1>1, <1>6 DEF ExpireRows
    <2>2. claims' = [claims EXCEPT ![p] = c]
      BY <1>1, <2>1
    <2>3. c \in Claim /\ c.expired = late /\ c.taken = claims[p].taken
      BY <2>1 DEF Claim
    <2>4. claims[p] # None /\ claims[p].taken \subseteq Touched(p)
      BY <2>1 DEF Touched
    <2>5. \A r \in late : \A q \in Pollers : r \notin Touched(q)
      BY <2>1 DEF Free
    <2>6. \A r \in c.taken :
             /\ row[r].status = "pending" /\ Unfinished(r)
             /\ \A q \in Pollers \ {p} : r \notin Touched(q)
      BY <1>1, <2>3, <2>4 DEF MailboxInv, TypeOK
    <2>. QED  BY <1>4, <2>2, <2>3, <2>4, <2>5, <2>6
  <1>7. CASE TakePending(p)
    <2>. DEFINE pending == {r \in RequestIds : Candidate(p, r)}
                c == [claims[p] EXCEPT !.stage = "taken", !.taken = pending]
    <2>1. /\ claims[p] \in Claim
          /\ claims' = [claims EXCEPT ![p].stage = "taken", ![p].taken = pending]
      BY <1>1, <1>7 DEF TakePending
    <2>2. claims' = [claims EXCEPT ![p] = c]
      BY <1>1, <2>1
    <2>3. c \in Claim /\ c.taken = pending /\ c.expired = claims[p].expired
      BY <2>1 DEF Claim
    <2>4. claims[p] # None /\ claims[p].expired \subseteq Touched(p)
      BY <2>1 DEF Touched
    <2>5. \A r \in pending : /\ row[r].status = "pending" /\ Unfinished(r)
                             /\ \A q \in Pollers : r \notin Touched(q)
      BY DEF Candidate, Unfinished, Free
    <2>6. \A r \in c.expired : Unfinished(r) /\ \A q \in Pollers \ {p} : r \notin Touched(q)
      BY <1>1, <2>3, <2>4 DEF MailboxInv, TypeOK
    <2>. QED  BY <1>4, <2>2, <2>3, <2>4, <2>5, <2>6
  <1>8. CASE AbortPoll(p)
    BY <1>4, <1>8 DEF AbortPoll
  <1>. QED  BY <1>5, <1>6, <1>7, <1>8

\* What a poll's commit writes: its own rows, which no other poll holds.
LEMMA CommitEffect ==
    ASSUME MailboxInv, NEW p \in Pollers, CommitPoll(p)
    PROVE  /\ claims[p] \in Claim
           /\ claims[p].expired \subseteq RequestIds /\ claims[p].taken \subseteq RequestIds
           /\ \A r \in RequestIds :
                 /\ r \in claims[p].expired =>
                       row[r] \in Row /\ row'[r] = [row[r] EXCEPT !.status = "expired"]
                 /\ r \in claims[p].taken =>
                       row[r] \in Row /\ row'[r] = [row[r] EXCEPT !.status = "claimed"]
                 /\ r \notin Touched(p) => row'[r] = row[r]
           /\ row' \in [RequestIds -> Row \cup {None}]
           /\ \A r \in RequestIds : row'[r] # None => row[r] # None /\ row'[r].from = row[r].from
  <1>. USE NoneApart
  <1>1. /\ claims[p] \in Claim /\ row \in [RequestIds -> Row \cup {None}]
        /\ row' = [r \in RequestIds |-> Settled(p, r)]
    BY DEF CommitPoll, MailboxInv, TypeOK
  <1>2. claims[p].expired \subseteq RequestIds /\ claims[p].taken \subseteq RequestIds
    BY <1>1 DEF Claim
  <1>3. Touched(p) = claims[p].expired \cup claims[p].taken
    BY <1>1 DEF Touched
  <1>4. \A r \in Touched(p) : row[r] \in Row
    BY <1>1, <1>2, <1>3 DEF MailboxInv, TypeOK, Unfinished
  <1>5. claims[p].expired \cap claims[p].taken = {}
    BY <1>1 DEF MailboxInv
  <1>6. \A r \in RequestIds :
           /\ r \in claims[p].expired => row'[r] = [row[r] EXCEPT !.status = "expired"]
           /\ r \in claims[p].taken => row'[r] = [row[r] EXCEPT !.status = "claimed"]
           /\ r \notin Touched(p) => row'[r] = row[r]
    BY <1>1, <1>3, <1>5 DEF Settled
  <1>7. \A x \in Row : /\ [x EXCEPT !.status = "expired"] \in Row
                       /\ [x EXCEPT !.status = "claimed"] \in Row
                       /\ [x EXCEPT !.status = "expired"].from = x.from
                       /\ [x EXCEPT !.status = "claimed"].from = x.from
    BY DEF Row
  <1>8. \A r \in RequestIds :
           /\ row'[r] \in Row \cup {None}
           /\ row'[r] # None => row[r] # None /\ row'[r].from = row[r].from
    <2>. TAKE r \in RequestIds
    <2>1. CASE r \in Touched(p)
      <3>1. row[r] \in Row /\ row[r] # None
        BY <1>4, <2>1
      <3>2. \E status \in {"expired", "claimed"} : row'[r] = [row[r] EXCEPT !.status = status]
        BY <1>3, <1>6, <2>1
      <3>3. row'[r] \in Row /\ row'[r].from = row[r].from
        BY <1>7, <3>1, <3>2
      <3>. QED  BY <3>1, <3>3
    <2>2. CASE r \notin Touched(p)
      BY <1>1, <1>6, <2>2
    <2>. QED  BY <2>1, <2>2
  <1>. QED  BY <1>1, <1>2, <1>3, <1>4, <1>6, <1>8

\* A commit touches no row that another poll holds.
LEMMA Committing ==
    ASSUME MailboxInv, NEW p \in Pollers, CommitPoll(p)
    PROVE  MailboxInv'
  <1>. USE NoneApart
  <1>1. /\ \A r \in RequestIds : r \notin Touched(p) => row'[r] = row[r]
        /\ row' \in [RequestIds -> Row \cup {None}]
        /\ \A r \in RequestIds : row'[r] # None => row[r] # None /\ row'[r].from = row[r].from
    BY CommitEffect
  <1>2. /\ UNCHANGED <<step, told, lease, unrevoked, asked, due, response>>
        /\ claims' = [claims EXCEPT ![p] = None] /\ claims \in [Pollers -> Claim \cup {None}]
    BY DEF CommitPoll, sending, MailboxInv, TypeOK
  <1>3. delivered' \in [Senders -> Nat]
    <2>1. delivered' = [s \in Senders |->
             IF \E r \in claims[p].taken : row[r].from = s THEN delivered[s] + 1 ELSE delivered[s]]
      BY DEF CommitPoll
    <2>2. \A s \in Senders : delivered[s] \in Nat
      BY DEF MailboxInv, TypeOK
    <2>. QED  BY <2>1, <2>2
  <1>4. /\ claims' \in [Pollers -> Claim \cup {None}]
        /\ \A q \in Pollers \ {p} : claims'[q] = claims[q] /\ Touched(q)' = Touched(q)
        /\ Touched(p)' = {} /\ claims'[p] = None
    BY <1>2 DEF Touched
  <1>5. \A q \in Pollers : Touched(q) \subseteq RequestIds
    BY DEF MailboxInv, TypeOK, Touched, Claim
  <1>6. \A q \in Pollers \ {p} : \A r \in Touched(q) : r \in RequestIds /\ row'[r] = row[r]
    BY <1>1, <1>5 DEF MailboxInv
  <1>7. \A q \in Pollers : \A r \in Touched(q)' : Unfinished(r)'
    BY <1>4, <1>6 DEF MailboxInv, TypeOK, Unfinished
  <1>8. TypeOK'
    BY <1>1, <1>2, <1>3, <1>4, <1>7 DEF MailboxInv, TypeOK
  <1>9. LeaseFollowsRequest'
    BY <1>1, <1>2 DEF MailboxInv, LeaseFollowsRequest
  <1>10. \A q \in Pollers : claims'[q] # None =>
             /\ claims'[q].expired \cap claims'[q].taken = {}
             /\ \A r \in claims'[q].taken : row'[r].status = "pending"
    <2>1. \A q \in Pollers : claims[q] # None => claims[q].taken \subseteq Touched(q)
      BY DEF Touched
    <2>. QED  BY <1>4, <1>6, <2>1 DEF MailboxInv
  <1>. QED  BY <1>2, <1>4, <1>8, <1>9, <1>10 DEF MailboxInv

\* An answer to a command waits for the poll that holds the row.
LEMMA Answering ==
    ASSUME MailboxInv, NEW r \in RequestIds, Complete(r) \/ RowExpires(r) \/ ResponseExpires(r)
    PROVE  MailboxInv'
  <1>. USE NoneApart
  <1>1. CASE RowExpires(r) \/ ResponseExpires(r)
    <2>1. /\ UNCHANGED <<step, told, lease, unrevoked, asked, row, claims, delivered>>
          /\ due' \subseteq RequestIds /\ response' \in [RequestIds -> Senders \cup {None}]
      BY <1>1 DEF RowExpires, ResponseExpires, sending, MailboxInv, TypeOK
    <2>2. \A p \in Pollers : Touched(p)' = Touched(p)
      BY <2>1 DEF Touched
    <2>3. TypeOK'
      BY <2>1, <2>2 DEF MailboxInv, TypeOK, Unfinished
    <2>. QED  BY <2>1, <2>2, <2>3 DEF MailboxInv, LeaseFollowsRequest
  <1>2. CASE Complete(r)
    <2>1. PICK status \in {"completed", "rejected"} : row' = [row EXCEPT ![r].status = status]
      BY <1>2 DEF Complete
    <2>2. /\ UNCHANGED <<step, told, lease, unrevoked, asked, due, response, claims, delivered>>
          /\ row[r] \in Row /\ Free(r)
      BY <1>2 DEF Complete, Completable, Unfinished, sending, MailboxInv, TypeOK
    <2>3. /\ row' \in [RequestIds -> Row \cup {None}]
          /\ \A i \in RequestIds \ {r} : row'[i] = row[i]
          /\ row'[r] # None /\ row'[r].from = row[r].from
      <3>1. /\ [row[r] EXCEPT !.status = status] \in Row
            /\ [row[r] EXCEPT !.status = status].from = row[r].from
        BY <2>2 DEF Row
      <3>. QED  BY <2>1, <2>2, <3>1 DEF MailboxInv, TypeOK
    <2>4. \A p \in Pollers : /\ Touched(p)' = Touched(p)
                             /\ \A i \in Touched(p) : i \in RequestIds /\ row'[i] = row[i]
      <3>1. \A p \in Pollers : Touched(p) \subseteq RequestIds /\ r \notin Touched(p)
        BY <2>2 DEF MailboxInv, TypeOK, Touched, Claim, Free
      <3>2. \A p \in Pollers : Touched(p)' = Touched(p)
        BY <2>2 DEF Touched
      <3>. QED  BY <2>3, <3>1, <3>2
    <2>5. TypeOK'
      BY <2>2, <2>3, <2>4 DEF MailboxInv, TypeOK, Unfinished
    <2>6. LeaseFollowsRequest'
      BY <2>2, <2>3 DEF MailboxInv, LeaseFollowsRequest
    <2>7. \A p \in Pollers : claims[p] # None => claims[p].taken \subseteq Touched(p)
      BY DEF Touched
    <2>. QED  BY <2>2, <2>4, <2>5, <2>6, <2>7 DEF MailboxInv
  <1>. QED  BY <1>1, <1>2

\* No step breaks the inductive invariant.
LEMMA MailboxStep == MailboxInv /\ [Next]_vars => MailboxInv'
  <1>. SUFFICES ASSUME MailboxInv, [Next]_vars PROVE MailboxInv'
    OBVIOUS
  <1>1. CASE UNCHANGED vars
    <2>1. /\ UNCHANGED <<step, told, lease, unrevoked, asked, row, due, response, claims,
                         delivered>>
          /\ \A p \in Pollers : Touched(p)' = Touched(p)
      BY <1>1 DEF vars, sending, mailbox, Touched
    <2>. QED  BY <2>1 DEF MailboxInv, TypeOK, LeaseFollowsRequest, Unfinished
  <1>. QED
    BY <1>1, Sending, Enqueueing, Polling, Committing, Answering DEF Next

\* The inductive invariant holds in every reachable state.
LEMMA Mailbox == Spec => []MailboxInv
  BY MailboxInit, MailboxStep, PTL DEF Spec

\* The type invariant of the mailbox holds for any number of requests and polls:
\* what a poll holds is not finished by anyone else.
THEOREM MailboxTyping == Spec => []TypeOK
  BY Mailbox, PTL DEF MailboxInv

\* A failed request leaves no live lease behind unless it could not be revoked, and
\* an answered or accepted one keeps its own (requestHapiConnection).
THEOREM LeaseFollows == Spec => []LeaseFollowsRequest
  BY Mailbox, PTL DEF MailboxInv

-----------------------------------------------------------------------------
(* The mailbox implements the queue.                                         *)

\* What the statuses of a row are to the queue.
LEMMA QueueStates ==
    /\ QueueState["pending"] = "waiting" /\ QueueState["claimed"] = "taken"
    /\ QueueState["completed"] = "over" /\ QueueState["rejected"] = "over"
    /\ QueueState["expired"] = "over"
  BY DEF QueueState

\* The queue sees nothing of a step that leaves rows, acceptances and deliveries.
LEMMA QueueStutter ==
    ASSUME row' = row, delivered' = delivered,
           \A s \in Senders : told'[s] = "accepted" <=> told[s] = "accepted"
    PROVE  UNCHANGED Queue!vars
  <1>1. Accepted' = Accepted
    BY DEF Accepted
  <1>2. CommandAt' = CommandAt /\ StateAt' = StateAt
    BY DEF CommandAt, StateAt
  <1>. QED  BY <1>1, <1>2 DEF Queue!vars

\* What an unfinished row stands for.
LEMMA UnfinishedState ==
    ASSUME MailboxInv, NEW r \in RequestIds, Unfinished(r)
    PROVE  StateAt[r] \in {"waiting", "taken"}
  BY QueueStates DEF StateAt, Unfinished

\* A request is accepted once, and only then has a command in the queue.
LEMMA EnqueuePuts ==
    ASSUME MailboxInv, NEW s \in Senders, Enqueue(s)
    PROVE  Queue!Put(s) \/ UNCHANGED Queue!vars
  <1>. USE NoneApart
  <1>. DEFINE r == RequestOf[s]
  <1>1. step[s] = "enqueue" /\ delivered' = delivered /\ told[s] = None
    BY DEF Enqueue, MailboxInv
  <1>2. CASE FailAfterRevoke(s) /\ UNCHANGED <<row, due>>
    BY <1>1, <1>2, QueueStutter DEF FailAfterRevoke
  <1>3. CASE /\ Answer(s, "accepted")
             /\ row' = [row EXCEPT ![r] = [from |-> s, status |-> "pending"]]
    <2>1. told' = [told EXCEPT ![s] = "accepted"] /\ told \in [Senders -> Answers \cup {None}]
      BY <1>3 DEF Answer, MailboxInv, TypeOK
    <2>2. s \notin Accepted /\ Accepted' = Accepted \cup {s}
      BY <1>1, <2>1 DEF Accepted, Answers
    <2>3. /\ [from |-> s, status |-> "pending"] \in Row
          /\ row \in [RequestIds -> Row \cup {None}] /\ r \in RequestIds
      BY DEF Row, MailboxInv, TypeOK
    <2>4. /\ row'[r] # None /\ row'[r].from = s /\ row'[r].status = "pending"
          /\ \A i \in RequestIds \ {r} : row'[i] = row[i]
      BY <1>3, <2>3
    <2>5. CommandAt' = [CommandAt EXCEPT ![r] = s]
      BY <2>3, <2>4 DEF CommandAt
    <2>6. StateAt' = [StateAt EXCEPT ![r] = "waiting"]
      BY <2>3, <2>4, QueueStates DEF StateAt
    <2>. QED  BY <1>1, <2>2, <2>5, <2>6 DEF Queue!Put
  <1>. QED  BY <1>2, <1>3 DEF Enqueue

\* A commit gives what it took, and it took only what waits.
LEMMA CommitPolls ==
    ASSUME MailboxInv, NEW p \in Pollers, CommitPoll(p)
    PROVE  \E taken \in SUBSET RequestIds :
              \E late \in SUBSET (RequestIds \ taken) : Queue!Poll(taken, late)
  <1>. USE NoneApart
  <1>. DEFINE taken == claims[p].taken
              late == claims[p].expired
  <1>1. /\ claims[p] \in Claim /\ late \subseteq RequestIds /\ taken \subseteq RequestIds
        /\ \A r \in RequestIds :
              /\ r \in late => row[r] \in Row /\ row'[r] = [row[r] EXCEPT !.status = "expired"]
              /\ r \in taken => row[r] \in Row /\ row'[r] = [row[r] EXCEPT !.status = "claimed"]
              /\ r \notin Touched(p) => row'[r] = row[r]
    BY CommitEffect
  <1>2. /\ claims[p] # None /\ late \cap taken = {} /\ Touched(p) = late \cup taken
        /\ \A r \in taken : row[r].status = "pending"
        /\ row \in [RequestIds -> Row \cup {None}]
    BY <1>1 DEF MailboxInv, TypeOK, Touched
  <1>3. \A r \in late : Unfinished(r)
    BY <1>2 DEF MailboxInv, TypeOK
  <1>4. /\ told' = told
        /\ delivered' = [s \in Senders |->
              IF \E r \in taken : row[r].from = s THEN delivered[s] + 1 ELSE delivered[s]]
    BY DEF CommitPoll, sending
  <1>5. \A x \in Row : \A status \in {"expired", "claimed"} :
           /\ [x EXCEPT !.status = status] # None
           /\ [x EXCEPT !.status = status].from = x.from
           /\ [x EXCEPT !.status = status].status = status
    <2>1. \A x \in Row : \A status \in {"expired", "claimed"} : [x EXCEPT !.status = status] \in Row
      BY DEF Row
    <2>. QED  BY <2>1 DEF Row
  <1>6. ASSUME NEW r \in RequestIds
        PROVE  /\ CommandAt'[r] = CommandAt[r]
               /\ StateAt'[r] =
                      IF r \in taken THEN "taken" ELSE IF r \in late THEN "over" ELSE StateAt[r]
    <2>1. CASE r \in taken
      <3>1. /\ row'[r] # None
            /\ row[r] # None
            /\ row'[r].from = row[r].from
            /\ row'[r].status = "claimed"
        <4>1. row[r] \in Row /\ row'[r] = [row[r] EXCEPT !.status = "claimed"]
          BY <1>1, <2>1
        <4>2. /\ [row[r] EXCEPT !.status = "claimed"] # None
              /\ [row[r] EXCEPT !.status = "claimed"].from = row[r].from
              /\ [row[r] EXCEPT !.status = "claimed"].status = "claimed"
          BY <1>5, <4>1
        <4>. QED  BY <4>1, <4>2
      <3>2. CommandAt'[r] = CommandAt[r]
        BY <3>1 DEF CommandAt
      <3>3. StateAt'[r] = "taken"
        BY <3>1, QueueStates DEF StateAt
      <3>. QED  BY <2>1, <3>2, <3>3
    <2>2. CASE r \in late /\ r \notin taken
      <3>1. /\ row'[r] # None
            /\ row[r] # None
            /\ row'[r].from = row[r].from
            /\ row'[r].status = "expired"
        <4>1. row[r] \in Row /\ row'[r] = [row[r] EXCEPT !.status = "expired"]
          BY <1>1, <2>2
        <4>2. /\ [row[r] EXCEPT !.status = "expired"] # None
              /\ [row[r] EXCEPT !.status = "expired"].from = row[r].from
              /\ [row[r] EXCEPT !.status = "expired"].status = "expired"
          BY <1>5, <4>1
        <4>. QED  BY <4>1, <4>2
      <3>2. CommandAt'[r] = CommandAt[r]
        BY <3>1 DEF CommandAt
      <3>3. StateAt'[r] = "over"
        BY <3>1, QueueStates DEF StateAt
      <3>. QED  BY <2>2, <3>2, <3>3
    <2>3. CASE r \notin late /\ r \notin taken
      <3>1. row'[r] = row[r]
        BY <1>1, <1>2, <2>3
      <3>. QED  BY <2>3, <3>1 DEF CommandAt, StateAt
    <2>. QED  BY <2>1, <2>2, <2>3
  <1>7. CommandAt' = CommandAt
    BY <1>6 DEF CommandAt
  <1>8. StateAt' = [r \in RequestIds |->
           IF r \in taken THEN "taken" ELSE IF r \in late THEN "over" ELSE StateAt[r]]
    BY <1>6 DEF StateAt
  <1>9. \A r \in taken : CommandAt[r] = row[r].from /\ StateAt[r] = "waiting"
    <2>1. \A r \in taken : row[r] # None /\ row[r].status = "pending" /\ r \in RequestIds
      BY <1>1, <1>2
    <2>. QED  BY <2>1, QueueStates DEF CommandAt, StateAt
  <1>10. \A r \in late : StateAt[r] \in {"waiting", "taken"}
    BY <1>1, <1>3, UnfinishedState
  <1>11. delivered' = [s \in Senders |->
            IF \E r \in taken : CommandAt[r] = s THEN delivered[s] + 1 ELSE delivered[s]]
    BY <1>4, <1>9
  <1>12. Accepted' = Accepted
    BY <1>4 DEF Accepted
  <1>13. Queue!Poll(taken, late)
    BY <1>7, <1>8, <1>9, <1>10, <1>11, <1>12 DEF Queue!Poll
  <1>. QED  BY <1>1, <1>2, <1>13

\* An answer ends the command that its id stands for.
LEMMA CompleteFinishes ==
    ASSUME MailboxInv, NEW r \in RequestIds, Complete(r)
    PROVE  Queue!Finish(r)
  <1>. USE NoneApart
  <1>1. PICK status \in {"completed", "rejected"} : row' = [row EXCEPT ![r].status = status]
    BY DEF Complete
  <1>2. /\ told' = told /\ delivered' = delivered /\ Unfinished(r)
        /\ \E s \in Senders : RequestOf[s] = r /\ delivered[s] > 0
    BY DEF Complete, Completable, sending
  <1>3. row \in [RequestIds -> Row \cup {None}] /\ row[r] \in Row
    BY <1>2 DEF MailboxInv, TypeOK, Unfinished
  <1>4. /\ [row[r] EXCEPT !.status = status] \in Row
        /\ [row[r] EXCEPT !.status = status].from = row[r].from
        /\ [row[r] EXCEPT !.status = status].status = status
    BY <1>3 DEF Row
  <1>5. /\ row'[r] # None /\ row'[r].from = row[r].from /\ row'[r].status = status
        /\ \A i \in RequestIds \ {r} : row'[i] = row[i]
    BY <1>1, <1>3, <1>4
  <1>6. CommandAt' = CommandAt
    BY <1>3, <1>5 DEF CommandAt
  <1>7. StateAt' = [StateAt EXCEPT ![r] = "over"]
    BY <1>3, <1>5, QueueStates DEF StateAt
  <1>8. StateAt[r] \in {"waiting", "taken"}
    BY <1>2, UnfinishedState
  <1>9. Accepted' = Accepted
    BY <1>2 DEF Accepted
  <1>. QED  BY <1>2, <1>6, <1>7, <1>8, <1>9 DEF Queue!Finish

\* The other steps of a request accept nothing.
LEMMA SendingStutters ==
    ASSUME MailboxInv, NEW s \in Senders,
           \/ Issue(s) \/ Deliver(s) \/ Discover(s) \/ Save(s) \/ Revoke(s) \/ Respond(s)
    PROVE  UNCHANGED Queue!vars
  <1>. USE NoneApart
  <1>1. row' = row /\ delivered' = delivered
    BY DEF Issue, Deliver, Discover, Save, Revoke, Respond, mailbox
  <1>2. told \in [Senders -> Answers \cup {None}]
    BY DEF MailboxInv, TypeOK
  <1>3. \/ told' = told
        \/ told[s] = None /\ \E answer \in {"refused", "answered", "failed"} :
              told' = [told EXCEPT ![s] = answer]
    BY DEF Issue, Deliver, Discover, Save, Revoke, Respond, Answer, FailAfterRevoke, sending,
           MailboxInv
  <1>4. \A i \in Senders : told'[i] = "accepted" <=> told[i] = "accepted"
    BY <1>2, <1>3 DEF Answers
  <1>. QED  BY <1>1, <1>4, QueueStutter

\* However many polls run at once, are cancelled or overtaken by a request that is
\* sent again, the mailbox is a queue: an enqueue puts a command, a poll's commit
\* takes and drops at once what it locked, and every other step is invisible.
THEOREM Implementation == Spec => ImplementsQueue
  <1>. USE NoneApart
  <1>1. Init => Queue!Init
    BY DEF Init, Queue!Init, Accepted, CommandAt, StateAt, Answers
  <1>2. MailboxInv /\ [Next]_vars => [Queue!Next]_(Queue!vars)
    <2>. SUFFICES ASSUME MailboxInv, [Next]_vars PROVE [Queue!Next]_(Queue!vars)
      OBVIOUS
    <2>1. ASSUME NEW s \in Senders, Enqueue(s) PROVE [Queue!Next]_(Queue!vars)
      BY <2>1, EnqueuePuts DEF Queue!Next
    <2>2. ASSUME NEW p \in Pollers, CommitPoll(p) PROVE [Queue!Next]_(Queue!vars)
      BY <2>2, CommitPolls DEF Queue!Next
    <2>3. ASSUME NEW r \in RequestIds, Complete(r) PROVE [Queue!Next]_(Queue!vars)
      BY <2>3, CompleteFinishes DEF Queue!Next
    <2>4. CASE \/ \E p \in Pollers : BeginPoll(p) \/ ExpireRows(p) \/ TakePending(p) \/ AbortPoll(p)
               \/ \E r \in RequestIds : RowExpires(r) \/ ResponseExpires(r)
               \/ UNCHANGED vars
      <3>1. row' = row /\ delivered' = delivered /\ told' = told
        BY <2>4 DEF BeginPoll, ExpireRows, TakePending, AbortPoll, RowExpires, ResponseExpires,
           sending, mailbox, vars
      <3>. QED  BY <3>1, QueueStutter
    <2>. QED  BY <2>1, <2>2, <2>3, <2>4, SendingStutters DEF Next
  <1>. QED  BY <1>1, <1>2, Mailbox, PTL DEF Spec, ImplementsQueue, Queue!Spec

-----------------------------------------------------------------------------
(* What the queue guarantees, and so the mailbox.                            *)

\* What a poll of the queue does to one id or one command.
LEMMA PollEffect ==
    ASSUME Queue!QueueInv, NEW taken \in SUBSET RequestIds, NEW late \in SUBSET RequestIds,
           Queue!Poll(taken, late)
    PROVE  /\ Accepted' = Accepted /\ CommandAt' = CommandAt
           /\ StateAt' \in [RequestIds -> {"waiting", "taken", "over"}]
           /\ delivered' \in [Senders -> {0, 1}]
           /\ \A s \in Senders : delivered'[s] # delivered[s] =>
                 delivered[s] = 0 /\ s \in Accepted /\ \E r \in taken : CommandAt[r] = s
           /\ \A r \in RequestIds :
                 /\ StateAt'[r] # "over" => StateAt[r] # "over"
                 /\ StateAt'[r] = "waiting" => StateAt[r] = "waiting" /\ r \notin taken
  <1>1. /\ Accepted' = Accepted /\ CommandAt' = CommandAt
        /\ \A r \in taken : StateAt[r] = "waiting"
        /\ \A r \in late : StateAt[r] \in {"waiting", "taken"}
        /\ StateAt' = [r \in RequestIds |->
               IF r \in taken THEN "taken" ELSE IF r \in late THEN "over" ELSE StateAt[r]]
        /\ delivered' = [s \in Senders |->
               IF \E r \in taken : CommandAt[r] = s THEN delivered[s] + 1 ELSE delivered[s]]
    BY DEF Queue!Poll
  <1>2. /\ StateAt' \in [RequestIds -> {"waiting", "taken", "over"}]
        /\ \A r \in RequestIds :
              StateAt'[r] =
                  IF r \in taken THEN "taken" ELSE IF r \in late THEN "over" ELSE StateAt[r]
    BY <1>1 DEF Queue!QueueInv
  <1>3. ASSUME NEW s \in Senders, NEW r \in taken, CommandAt[r] = s
        PROVE  delivered[s] = 0 /\ s \in Accepted
    BY <1>1, <1>3, NoneApart DEF Queue!QueueInv
  <1>4. delivered' \in [Senders -> {0, 1}]
    <2>1. ASSUME NEW s \in Senders
          PROVE  (IF \E r \in taken : CommandAt[r] = s THEN delivered[s] + 1 ELSE delivered[s])
                     \in {0, 1}
      BY <1>3 DEF Queue!QueueInv
    <2>. QED  BY <1>1, <2>1
  <1>5. \A s \in Senders : delivered'[s] # delivered[s] =>
           delivered[s] = 0 /\ s \in Accepted /\ \E r \in taken : CommandAt[r] = s
    BY <1>1, <1>3
  <1>6. \A r \in RequestIds :
           /\ StateAt'[r] # "over" => StateAt[r] # "over"
           /\ StateAt'[r] = "waiting" => StateAt[r] = "waiting" /\ r \notin taken
    BY <1>1, <1>2
  <1>. QED  BY <1>1, <1>2, <1>4, <1>5, <1>6

\* What waits stays not given: a poll gives a command under its own id only, and
\* an id that it gives does not wait any longer.
LEMMA QueueInvStep ==
    ASSUME Queue!QueueInv, [Queue!Next]_(Queue!vars)
    PROVE  Queue!QueueInv'
  <1>. USE NoneApart
  <1>1. ASSUME NEW s \in Senders, Queue!Put(s) PROVE Queue!QueueInv'
    <2>1. /\ s \notin Accepted /\ Accepted' = Accepted \cup {s} /\ delivered' = delivered
          /\ CommandAt' = [CommandAt EXCEPT ![RequestOf[s]] = s]
          /\ StateAt' = [StateAt EXCEPT ![RequestOf[s]] = "waiting"]
      BY <1>1 DEF Queue!Put
    <2>2. delivered[s] = 0
      BY <2>1 DEF Queue!QueueInv
    <2>3. RequestOf[s] \in RequestIds
      OBVIOUS
    <2>. QED  BY <2>1, <2>2, <2>3 DEF Queue!QueueInv
  <1>2. ASSUME NEW taken \in SUBSET RequestIds, NEW late \in SUBSET (RequestIds \ taken),
               Queue!Poll(taken, late)
        PROVE  Queue!QueueInv'
    <2>1. late \in SUBSET RequestIds
      OBVIOUS
    <2>2. /\ Accepted' = Accepted /\ CommandAt' = CommandAt
          /\ StateAt' \in [RequestIds -> {"waiting", "taken", "over"}]
          /\ delivered' \in [Senders -> {0, 1}]
          /\ \A s \in Senders : delivered'[s] # delivered[s] =>
                delivered[s] = 0 /\ s \in Accepted /\ \E r \in taken : CommandAt[r] = s
          /\ \A r \in RequestIds :
                /\ StateAt'[r] # "over" => StateAt[r] # "over"
                /\ StateAt'[r] = "waiting" => StateAt[r] = "waiting" /\ r \notin taken
      BY <1>2, <2>1, PollEffect
    <2>3. \A s \in Senders : delivered'[s] = 1 => s \in Accepted'
      BY <2>2 DEF Queue!QueueInv
    <2>4. ASSUME NEW r \in RequestIds
          PROVE  /\ CommandAt'[r] # None => RequestOf[CommandAt'[r]] = r
                 /\ StateAt'[r] # "over" => CommandAt'[r] # None
      BY <2>2 DEF Queue!QueueInv
    <2>5. ASSUME NEW r \in RequestIds, StateAt'[r] = "waiting"
          PROVE  delivered'[CommandAt'[r]] = 0
      <3>1. StateAt[r] = "waiting" /\ r \notin taken
        BY <2>2, <2>5
      <3>2. /\ CommandAt[r] # None /\ CommandAt[r] \in Senders
            /\ RequestOf[CommandAt[r]] = r /\ delivered[CommandAt[r]] = 0
        BY <3>1 DEF Queue!QueueInv
      <3>3. ~ \E t \in taken : CommandAt[t] = CommandAt[r]
        BY <3>1, <3>2 DEF Queue!QueueInv
      <3>. QED  BY <2>2, <3>2, <3>3
    <2>. QED  BY <2>2, <2>3, <2>4, <2>5 DEF Queue!QueueInv
  <1>3. ASSUME NEW r \in RequestIds, Queue!Finish(r) PROVE Queue!QueueInv'
    BY <1>3 DEF Queue!Finish, Queue!QueueInv
  <1>4. CASE UNCHANGED Queue!vars
    BY <1>4 DEF Queue!vars, Queue!QueueInv
  <1>. QED  BY <1>1, <1>2, <1>3, <1>4 DEF Queue!Next

\* No command is given to two polls, because the mailbox is a queue and the queue
\* gives none twice: the proof knows nothing of rows and locks (ClaimHapiConnections).
THEOREM DeliveredOnce == Spec => [](\A s \in Senders : delivered[s] <= 1)
  <1>1. Queue!Init => Queue!QueueInv
    BY DEF Queue!Init, Queue!QueueInv
  <1>2. Queue!QueueInv => Queue!GivenOnce
    <2>. SUFFICES ASSUME Queue!QueueInv, NEW s \in Senders PROVE delivered[s] <= 1
      BY DEF Queue!GivenOnce
    <2>1. delivered[s] \in {0, 1}
      BY DEF Queue!QueueInv
    <2>. QED  BY <2>1
  <1>3. Queue!GivenOnce => \A s \in Senders : delivered[s] <= 1
    BY DEF Queue!GivenOnce
  <1>. QED  BY <1>1, <1>2, <1>3, QueueInvStep, Implementation, PTL DEF ImplementsQueue, Queue!Spec
=============================================================================
