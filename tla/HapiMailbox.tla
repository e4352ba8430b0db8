----------------------------- MODULE HapiMailbox -----------------------------
(***************************************************************************)
(* Connection requests to one agent (requestHapiConnection and the handlers   *)
(* after it in echoear_handlers.go; hapi_connection_requests and             *)
(* hapi_connection_responses in agent_repository.go).  A request takes a      *)
(* ticket, backed by a lease, asks the agent through the tunnel for two       *)
(* seconds, and otherwise leaves a command in the mailbox, which the agent    *)
(* claims by polling and answers by a request of its own.                     *)
(*                                                                          *)
(* The row of a request id is reused when the id is asked for again.  A       *)
(* poll's transaction shows nothing of its updates before it commits, and      *)
(* keeps the rows locked until then.  Times run out by actions of their own;   *)
(* NOW() in a transaction is its start.                                      *)
(***************************************************************************)
EXTENDS Naturals

CONSTANTS
    Senders,     \* the client's requests
    RequestIds,  \* request ids
    RequestOf,   \* the request id of each
    Pollers,     \* concurrent polls of the agent
    None

VARIABLES
    step,       \* where each request is
    told,       \* how it was answered, or None
    lease,      \* what it has done with its ticket's lease, or None before
    unrevoked,  \* the requests whose lease could not be revoked
    asked,      \* those the agent got through the tunnel
    row,        \* hapi_connection_requests: a record for a request id, or None
    due,        \* the request ids whose row is past its expires_at
    response,   \* hapi_connection_responses: whose answer it holds, or None
    claims,     \* the transaction of each poll, or None outside of one
    delivered   \* how often each request's command was given to a poll

sending == <<step, told, lease, unrevoked, asked>>
mailbox == <<row, due, response, claims, delivered>>
vars == <<sending, mailbox>>

Row == [from : Senders, status : {"pending", "claimed", "completed", "rejected", "expired"}]
\* The rows that were due at its start, and those it has updated since
Claim == [stage : {"begun", "expired", "taken"}, late : SUBSET RequestIds,
          expired : SUBSET RequestIds, taken : SUBSET RequestIds]

\* How a request may be answered
Answers == {"refused", "answered", "accepted", "failed"}

\* None is told apart from what it stands beside.
ASSUME MailboxAssumption ==
    /\ RequestOf \in [Senders -> RequestIds]
    /\ None \notin Senders \cup RequestIds \cup Answers \cup Row \cup Claim

Init ==
    /\ step = [s \in Senders |-> "idle"] /\ told = [s \in Senders |-> None]
    /\ lease = [s \in Senders |-> None]
    /\ unrevoked = {} /\ asked = {}
    /\ row = [r \in RequestIds |-> None] /\ due = {}
    /\ response = [r \in RequestIds |-> None]
    /\ claims = [p \in Pollers |-> None]
    /\ delivered = [s \in Senders |-> 0]

Goto(s, next) == step' = [step EXCEPT ![s] = next]
Answer(s, answer) == Goto(s, "done") /\ told' = [told EXCEPT ![s] = answer]

Touched(p) == IF claims[p] = None THEN {} ELSE claims[p].expired \cup claims[p].taken
Free(r) == \A p \in Pollers : r \notin Touched(p)
Unfinished(r) == row[r] # None /\ row[r].status \in {"pending", "claimed"}

-----------------------------------------------------------------------------
(* requestHapiConnection                                                    *)

\* issueAccessTicket; a request that gets none is refused.
Issue(s) ==
    /\ step[s] = "idle"
    /\ \/ Goto(s, "discover") /\ lease' = [lease EXCEPT ![s] = "live"] /\ UNCHANGED told
       \/ Answer(s, "refused") /\ UNCHANGED lease
    /\ UNCHANGED <<unrevoked, asked, mailbox>>

\* The agent gets the request's frame, perhaps when nobody waits any more.
Deliver(s) ==
    /\ step[s] # "idle" /\ lease[s] # None /\ s \notin asked
    /\ asked' = asked \cup {s}
    /\ UNCHANGED <<step, told, lease, unrevoked, mailbox>>

\* (mutant) the early returns leave the lease to run out
Quit(s) == Answer(s, "failed")
FailAfterRevoke(s) == Goto(s, "revoke") /\ UNCHANGED told

\* deliverDiscovery finds the waiter by the request id: the answer may be to an
\* earlier request of that id.
MayAnswer(t, s) == t \in asked /\ RequestOf[t] = RequestOf[s]
Answered(s) == \E t \in Senders : MayAnswer(t, s)

\* requestDiscovery returns.
Discover(s) ==
    /\ step[s] = "discover"
    /\ \/ Answered(s) /\ Goto(s, "save") /\ UNCHANGED told  \* an answer to keep
       \/ FailAfterRevoke(s)                 \* a refusal, not valid, or the client is gone
       \/ Goto(s, "enqueue") /\ UNCHANGED told               \* unsupported, or no answer
    /\ UNCHANGED <<lease, unrevoked, asked, mailbox>>

\* SaveHapiResponse, of the fast answer
Save(s) ==
    /\ step[s] = "save"
    /\ \/ \E t \in Senders : /\ MayAnswer(t, s) /\ Answer(s, "answered")
                             /\ response' = [response EXCEPT ![RequestOf[s]] = t]
       \/ FailAfterRevoke(s) /\ UNCHANGED response
    /\ UNCHANGED <<lease, unrevoked, asked, row, due, claims, delivered>>

\* EnqueueHapiConnection: the row of the request id starts over, once no poll
\* holds it.
Enqueue(s) ==
    LET r == RequestOf[s] IN
    /\ step[s] = "enqueue"
    /\ \/ /\ Free(r)
          /\ Answer(s, "accepted")
          /\ row' = [row EXCEPT ![r] = [from |-> s, status |-> "pending"]]
          /\ due' = due \ {r}
       \/ FailAfterRevoke(s) /\ UNCHANGED <<row, due>>
    /\ UNCHANGED <<lease, unrevoked, asked, response, claims, delivered>>

\* RevokeAccessLease: its own failure is ignored.
Revoke(s) ==
    /\ step[s] = "revoke"
    /\ \/ lease' = [lease EXCEPT ![s] = "revoked"] /\ UNCHANGED unrevoked
       \/ unrevoked' = unrevoked \cup {s} /\ UNCHANGED lease
    /\ Answer(s, "failed")
    /\ UNCHANGED <<asked, mailbox>>

-----------------------------------------------------------------------------
(* ClaimHapiConnections: one transaction                                    *)

BeginPoll(p) ==
    /\ claims[p] = None
    /\ claims' = [claims EXCEPT ![p] =
          [stage |-> "begun", late |-> {r \in due : Unfinished(r)}, expired |-> {}, taken |-> {}]]
    /\ UNCHANGED <<sending, row, due, response, delivered>>

\* Waits for the rows other polls hold.  One enqueued again is no longer due.
ExpireRows(p) ==
    /\ claims[p] # None /\ claims[p].stage = "begun"
    /\ LET late == {r \in claims[p].late \cap due : Unfinished(r)} IN
          /\ \A r \in late : Free(r)
          /\ claims' = [claims EXCEPT ![p].stage = "expired", ![p].expired = late]
    /\ UNCHANGED <<sending, row, due, response, delivered>>

\* (mutant) without FOR UPDATE
Seen(p, r) == row[r] # None /\ row[r].status = "pending" /\ r \notin claims[p].expired
Candidate(p, r) == row[r] # None /\ row[r].status = "pending" /\ Free(r)

\* FOR UPDATE SKIP LOCKED: the limit of 20 is above the rows there are.
TakePending(p) ==
    /\ claims[p] # None /\ claims[p].stage = "expired"
    /\ claims' = [claims EXCEPT ![p].stage = "taken",
                                ![p].taken = {r \in RequestIds : Candidate(p, r)}]
    /\ UNCHANGED <<sending, row, due, response, delivered>>

Settled(p, r) ==
    IF r \in claims[p].expired THEN [row[r] EXCEPT !.status = "expired"]
    ELSE IF r \in claims[p].taken THEN [row[r] EXCEPT !.status = "claimed"]
    ELSE row[r]

CommitPoll(p) ==
    /\ claims[p] # None /\ claims[p].stage = "taken"
    /\ row' = [r \in RequestIds |-> Settled(p, r)]
    /\ delivered' = [s \in Senders |->
          IF \E r \in claims[p].taken : row[r].from = s THEN delivered[s] + 1 ELSE delivered[s]]
    /\ claims' = [claims EXCEPT ![p] = None]
    /\ UNCHANGED <<sending, due, response>>

\* The poll is cancelled, or a statement fails.
AbortPoll(p) ==
    /\ claims[p] # None
    /\ claims' = [claims EXCEPT ![p] = None]
    /\ UNCHANGED <<sending, row, due, response, delivered>>

-----------------------------------------------------------------------------
(* The agent's answers                                                      *)

\* (mutant) does not wait for a poll that holds the row
AnyUnfinished(r) == Unfinished(r) /\ r \notin due
Completable(r) == Unfinished(r) /\ r \notin due /\ Free(r)

\* CompleteHapiConnection: a command is named by the id of its row.
Complete(r) ==
    /\ \E s \in Senders : delivered[s] > 0 /\ RequestOf[s] = r
    /\ Completable(r)
    /\ \E status \in {"completed", "rejected"} : row' = [row EXCEPT ![r].status = status]
    /\ UNCHANGED <<sending, due, response, claims, delivered>>

\* putHapiResponse: an answer to a request the agent got one way or the other
Respond(s) ==
    /\ s \in asked \/ delivered[s] > 0
    /\ response[RequestOf[s]] # s
    /\ response' = [response EXCEPT ![RequestOf[s]] = s]
    /\ UNCHANGED <<sending, row, due, claims, delivered>>

\* Two minutes, and five
RowExpires(r) ==
    /\ Unfinished(r) /\ r \notin due
    /\ due' = due \cup {r}
    /\ UNCHANGED <<sending, row, response, claims, delivered>>
ResponseExpires(r) ==
    /\ response[r] # None
    /\ response' = [response EXCEPT ![r] = None]
    /\ UNCHANGED <<sending, row, due, claims, delivered>>

-----------------------------------------------------------------------------
Next ==
    \/ \E s \in Senders :
          \/ Issue(s) \/ Deliver(s) \/ Discover(s) \/ Save(s) \/ Enqueue(s) \/ Revoke(s)
          \/ Respond(s)
    \/ \E p \in Pollers : BeginPoll(p) \/ ExpireRows(p) \/ TakePending(p)
                                \/ CommitPoll(p) \/ AbortPoll(p)
    \/ \E r \in RequestIds : Complete(r) \/ RowExpires(r) \/ ResponseExpires(r)

Spec == Init /\ [][Next]_vars

-----------------------------------------------------------------------------
(* Properties                                                               *)

\* Type invariant of the requests, the mailbox and the polls.
TypeOK ==
    /\ step \in [Senders -> {"idle", "discover", "save", "enqueue", "revoke", "done"}]
    /\ told \in [Senders -> Answers \cup {None}]
    /\ lease \in [Senders -> {"live", "revoked", None}]
    /\ unrevoked \subseteq Senders /\ asked \subseteq Senders
    /\ row \in [RequestIds -> Row \cup {None}] /\ due \subseteq RequestIds
    /\ response \in [RequestIds -> Senders \cup {None}]
    /\ claims \in [Pollers -> Claim \cup {None}]
    /\ delivered \in [Senders -> Nat]
    /\ \A r \in RequestIds : row[r] # None => RequestOf[row[r].from] = r
    /\ \A p \in Pollers : \A r \in Touched(p) : Unfinished(r)

\* However many polls run at once, wait for each other's rows, are cancelled or
\* overtaken by a request that is sent again, the mailbox is a queue that gives a
\* command to one poll and marks claimed what it gave (ClaimHapiConnections).
QueueState == [pending |-> "waiting", claimed |-> "taken", completed |-> "over",
               rejected |-> "over", expired |-> "over"]
Accepted == {s \in Senders : told[s] = "accepted"}
CommandAt == [r \in RequestIds |-> IF row[r] = None THEN None ELSE row[r].from]
StateAt ==
    [r \in RequestIds |-> IF row[r] = None THEN "over" ELSE QueueState[row[r].status]]
Queue == INSTANCE CommandQueue WITH
    Commands <- Senders, IdOf <- RequestOf,
    put <- Accepted, slot <- CommandAt, state <- StateAt, given <- delivered
ImplementsQueue == Queue!Spec

\* The lease of a ticket ends with a request that fails, unless the database
\* would not revoke it; it lives on while the agent may still use it: after an
\* answer, or with a command in the mailbox (requestHapiConnection).
LeaseFollowsRequest ==
    /\ \A s \in Senders :
          /\ told[s] = "failed" => lease[s] = "revoked" \/ s \in unrevoked
          /\ told[s] \in {"answered", "accepted"} => lease[s] = "live"
    /\ \A r \in RequestIds : row[r] # None => told[row[r].from] = "accepted"
=============================================================================
