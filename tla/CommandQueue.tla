---------------------------- MODULE CommandQueue ----------------------------
(***************************************************************************)
(* What the mailbox of an agent promises (EnqueueHapiConnection,             *)
(* ClaimHapiConnections and CompleteHapiConnection of agent_repository.go),  *)
(* without transactions, locks and the steps between them: a command waits   *)
(* under its request id, a poll takes or drops commands in one step, and the *)
(* id may be asked for again at any time.  HapiMailbox implements it.        *)
(***************************************************************************)
EXTENDS Naturals

CONSTANTS
    Commands,    \* commands, each put at most once
    RequestIds,  \* request ids
    IdOf,        \* the request id of each command
    None         \* no command

VARIABLES
    put,    \* the commands that were put
    slot,   \* the command a request id stands for, or None
    state,  \* whether it waits, was taken or is over
    given   \* how often each command was given to a poll

vars == <<put, slot, state, given>>

Init ==
    /\ put = {}
    /\ slot = [r \in RequestIds |-> None]
    /\ state = [r \in RequestIds |-> "over"]
    /\ given = [c \in Commands |-> 0]

\* A command takes the place of whatever its id stood for.
Put(c) ==
    /\ c \notin put
    /\ put' = put \cup {c}
    /\ slot' = [slot EXCEPT ![IdOf[c]] = c]
    /\ state' = [state EXCEPT ![IdOf[c]] = "waiting"]
    /\ UNCHANGED given

\* One poll takes commands that wait and drops some that are late.
Poll(taken, late) ==
    /\ \A r \in taken : state[r] = "waiting"
    /\ \A r \in late : state[r] \in {"waiting", "taken"}
    /\ state' = [r \in RequestIds |->
          IF r \in taken THEN "taken" ELSE IF r \in late THEN "over" ELSE state[r]]
    /\ given' = [c \in Commands |->
          IF \E r \in taken : slot[r] = c THEN given[c] + 1 ELSE given[c]]
    /\ UNCHANGED <<put, slot>>

\* The agent names the id: what ends is the command the id stands for now,
\* which need not be the one that was given.
Finish(r) ==
    /\ state[r] \in {"waiting", "taken"}
    /\ \E c \in Commands : IdOf[c] = r /\ given[c] > 0
    /\ state' = [state EXCEPT ![r] = "over"]
    /\ UNCHANGED <<put, slot, given>>

Next ==
    \/ \E c \in Commands : Put(c)
    \/ \E taken \in SUBSET RequestIds :
          \E late \in SUBSET (RequestIds \ taken) : Poll(taken, late)
    \/ \E r \in RequestIds : Finish(r)

Spec == Init /\ [][Next]_vars

-----------------------------------------------------------------------------
\* No command is given to two polls (ClaimHapiConnections).
GivenOnce == \A c \in Commands : given[c] <= 1

\* Why: what waits has been put and was not given, and stands under its own id.
QueueInv ==
    /\ put \subseteq Commands
    /\ slot \in [RequestIds -> put \cup {None}]
    /\ state \in [RequestIds -> {"waiting", "taken", "over"}]
    /\ given \in [Commands -> {0, 1}]
    /\ \A c \in Commands : given[c] = 1 => c \in put
    /\ \A r \in RequestIds :
          /\ slot[r] # None => IdOf[slot[r]] = r
          /\ state[r] # "over" => slot[r] # None
          /\ state[r] = "waiting" => given[slot[r]] = 0
=============================================================================
