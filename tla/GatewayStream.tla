--------------------------- MODULE GatewayStream ---------------------------
(***************************************************************************)
(* One request proxied to the agent's HAPI (hapiGateway and                 *)
(* streamGatewayResponse of internal/api/hapi_gateway.go), from its access  *)
(* check to its detach: the HTTP handler, the agent that answers frame by   *)
(* frame, the websocket reader that passes the frames on (deliverGateway),  *)
(* the client and the timers.  Module Tunnel has the registry all requests  *)
(* share and leaves out what is in a frame; here it is the other way round. *)
(* A frame is named by its place among those the agent sent.                *)
(***************************************************************************)
EXTENDS Naturals, Sequences, Functions

CONSTANTS
    FrameCap,   \* response frames queued to the handler (32 in the code)
    MaxParts,   \* frames of a long request body: start, chunks, end
    MaxFrames   \* bound: frames the agent sends

ASSUME StreamAssumption == {FrameCap, MaxParts, MaxFrames} \subseteq Nat \ {0}

VARIABLES
    at,        \* where the handler is
    left,      \* the parts of the request it has still to send
    reached,   \* the request's own agent was sent a part
    told,      \* the kinds of the frames the agent sent
    wire,      \* the frame its websocket reader holds, 0 for none
    frames,    \* gateway.frames
    dropped,   \* the frames deliverGateway gave up
    overdue,   \* (history) its 10-second timer gave one up
    closed,    \* gateway.closed is closed
    lost,      \* the agent left or was replaced: the request is deregistered
    started,   \* the response has started
    timer,     \* the 40-second start timer is armed
    answers,   \* the statuses given to the client
    body,      \* the chunks written to the client
    ending,    \* (history) what ended the response
    revoked,   \* the session or the access has ended
    gone       \* the client has left

request  == <<at, left>>
agentVars == <<reached, told, lost>>
delivery == <<wire, frames, dropped, overdue, closed>>
response == <<started, timer, answers, body, ending>>
world    == <<revoked, gone>>
vars == <<request, agentVars, delivery, response, world>>

\* "bad" is a chunk that is not base64; "other" an unknown type or a foreign id.
Kinds == {"start", "chunk", "bad", "end", "error", "other"}
Places == {"connect", "body", "send", "stream", "write", "detach", "done"}

Init ==
    /\ at = "connect" /\ left = 0
    /\ reached = FALSE /\ told = <<>> /\ lost = FALSE
    /\ wire = 0 /\ frames = <<>> /\ dropped = {} /\ overdue = FALSE /\ closed = FALSE
    /\ started = FALSE /\ timer = FALSE
    /\ answers = <<>> /\ body = <<>> /\ ending = "none"
    /\ revoked = FALSE /\ gone = FALSE

-----------------------------------------------------------------------------
(* The client and the agent.                                                *)

ClientLeaves ==
    /\ ~gone /\ gone' = TRUE
    /\ UNCHANGED <<request, agentVars, delivery, response, revoked>>

Revoke ==
    /\ ~revoked /\ revoked' = TRUE
    /\ UNCHANGED <<request, agentVars, delivery, response, gone>>

Registered == at \notin {"connect", "done"} /\ ~lost

\* The agent's detach or a newer agent's attach.
AgentLost ==
    /\ Registered
    /\ lost' = TRUE /\ closed' = TRUE
    /\ UNCHANGED <<request, reached, told, wire, frames, dropped, overdue, response, world>>

\* The reader finds the request of a frame: the agent knows its random id.
AgentSends ==
    /\ Registered /\ reached
    /\ wire = 0 /\ Len(told) < MaxFrames
    /\ \E kind \in Kinds : told' = Append(told, kind)
    /\ wire' = Len(told')
    /\ UNCHANGED <<request, reached, lost, frames, dropped, overdue, closed, response, world>>

RoomOffByOne == Len(frames) <= FrameCap  \* (mutant)
Room == Len(frames) < FrameCap

NoTimer == FALSE                         \* (mutant)
DeliveryTimer == ~Room

\* The select of deliverGateway: when more than one case is ready it takes any.
DeliverGateway ==
    /\ wire # 0
    /\ \/ /\ Room
          /\ frames' = Append(frames, wire)
          /\ UNCHANGED <<dropped, overdue, closed>>
       \/ /\ closed
          /\ dropped' = dropped \cup {wire}
          /\ UNCHANGED <<frames, overdue, closed>>
       \/ /\ DeliveryTimer
          /\ dropped' = dropped \cup {wire}
          /\ overdue' = TRUE /\ closed' = TRUE
          /\ UNCHANGED frames
    /\ wire' = 0
    /\ UNCHANGED <<request, agentVars, response, world>>

-----------------------------------------------------------------------------
(* hapiGateway                                                              *)

\* The handler returns with an answer; a second one is never written.
AnswerAgain(status) == answers' = Append(answers, status)  \* (mutant)
AnswerIfUnstarted(status) ==
    answers' = IF started THEN answers ELSE Append(answers, status)

\* A bad parameter, no access, or attachGateway refuses.
Refuse ==
    /\ at = "connect"
    /\ at' = "done"
    /\ \E status \in {"bad_request", "failed", "forbidden", "offline"} :
          answers' = Append(answers, status)
    /\ UNCHANGED <<left, agentVars, delivery, started, timer, body, ending, world>>

Attach ==
    /\ at = "connect"
    /\ at' = "body"
    /\ UNCHANGED <<left, agentVars, delivery, response, world>>

ReadBody ==
    /\ at = "body"
    /\ \/ /\ at' = "send" /\ left' \in {1, MaxParts}
          /\ UNCHANGED answers
       \/ /\ at' = "detach" /\ answers' = Append(answers, "too_large")
          /\ UNCHANGED left
    /\ UNCHANGED <<agentVars, delivery, started, timer, body, ending, world>>

\* Each part goes to the agent that is registered when it is sent, which may
\* be another one than before; without one, or with a full queue, it fails.
SendPart ==
    /\ at = "send"
    /\ left' = left - 1
    /\ reached' = (reached \/ ~lost)
    /\ at' = IF left = 1 THEN "stream" ELSE "send"
    /\ timer' = (left = 1)
    /\ UNCHANGED <<told, lost, delivery, started, answers, body, ending, world>>

SendFails ==
    /\ at = "send"
    /\ at' = "detach" /\ answers' = Append(answers, "offline")
    /\ UNCHANGED <<left, agentVars, delivery, started, timer, body, ending, world>>

-----------------------------------------------------------------------------
(* streamGatewayResponse: one iteration of its select.                      *)

Take(kinds) ==
    /\ at = "stream" /\ frames # <<>>
    /\ told[Head(frames)] \in kinds
    /\ frames' = Tail(frames)
    /\ UNCHANGED <<left, agentVars, wire, dropped, overdue, closed, world>>

\* The loop returns, answering with status if nothing was answered yet.
Return(why, status) ==
    /\ at' = "detach" /\ ending' = why
    /\ AnswerIfUnstarted(status)
    /\ UNCHANGED <<started, body>>

TimerForgotten == FALSE  \* (mutant) any frame stops the start timer
TimerKept == timer

\* A frame that is neither the first start nor allowed before it.
Skip ==
    /\ Take(IF started THEN {"start", "other"} ELSE {"chunk", "bad", "other"})
    /\ timer' = TimerKept
    /\ UNCHANGED <<at, started, answers, body, ending>>

TakeStart ==
    /\ ~started /\ Take({"start"})
    /\ started' = TRUE /\ timer' = FALSE
    /\ answers' = Append(answers, "agent")
    /\ UNCHANGED <<at, body, ending>>

MayWriteEarly == TRUE    \* (mutant)
MayWrite == started

\* Writing to the client has no deadline (main.go sets no WriteTimeout).
TakeChunk ==
    /\ MayWrite /\ Take({"chunk"})
    /\ body' = Append(body, Head(frames))
    /\ at' = "write"
    /\ UNCHANGED <<started, timer, answers, ending>>

TakeBadChunk ==
    /\ started /\ Take({"bad"})
    /\ Return("bad_chunk", "none")
    /\ UNCHANGED timer

\* A response that ends before it started has no content; one that fails
\* before it started is answered with a conflict or a bad gateway.
TakeEnd == Take({"end"}) /\ Return("end", "no_content") /\ UNCHANGED timer

TakeError ==
    /\ Take({"error"})
    /\ \E status \in {"conflict", "bad_gateway"} : Return("error", status)
    /\ UNCHANGED timer

Unauthorized ==
    /\ at = "stream" /\ revoked
    /\ Return("unauthorized", "unauthorized")
    /\ UNCHANGED <<left, agentVars, delivery, timer, world>>

StartTimeout ==
    /\ at = "stream" /\ timer
    /\ Return("timeout", "timeout")
    /\ timer' = FALSE
    /\ UNCHANGED <<left, agentVars, delivery, world>>

SeeClosed ==
    /\ at = "stream" /\ closed
    /\ Return("closed", "offline")
    /\ UNCHANGED <<left, agentVars, delivery, timer, world>>

SeeGone ==
    /\ at = "stream" /\ gone
    /\ at' = "detach" /\ ending' = "gone"
    /\ UNCHANGED <<left, agentVars, delivery, started, timer, answers, body, world>>

\* Write and Flush return when the client has read enough.
Written ==
    /\ at = "write" /\ ~gone
    /\ at' = "stream"
    /\ UNCHANGED <<left, agentVars, delivery, response, world>>

WriteFails ==
    /\ at = "write" /\ gone
    /\ at' = "detach" /\ ending' = "gone"
    /\ UNCHANGED <<left, agentVars, delivery, started, timer, answers, body, world>>

Detach ==
    /\ at = "detach"
    /\ at' = "done" /\ closed' = TRUE
    /\ UNCHANGED <<left, agentVars, wire, frames, dropped, overdue, response, world>>

-----------------------------------------------------------------------------
Terminated == at = "done" /\ wire = 0 /\ UNCHANGED vars

Stream ==
    \/ Skip \/ TakeStart \/ TakeChunk \/ TakeBadChunk \/ TakeEnd \/ TakeError
    \/ Unauthorized \/ StartTimeout \/ SeeClosed \/ SeeGone

Handler == Refuse \/ Attach \/ ReadBody \/ SendPart \/ SendFails \/ Stream
           \/ Written \/ WriteFails \/ Detach

Next == ClientLeaves \/ Revoke \/ AgentLost \/ AgentSends \/ DeliverGateway
        \/ Handler \/ Terminated

Spec == Init /\ [][Next]_vars

\* The timers fire and a write to a client that left fails.  When a body
\* arrives, and whether a client reads, is not the server's to decide.
FairSpec ==
    /\ Spec
    /\ WF_vars(DeliverGateway)
    /\ WF_vars(SendPart \/ SendFails) /\ WF_vars(Detach)
    /\ WF_vars(StartTimeout) /\ WF_vars(Unauthorized)
    /\ WF_vars(SeeClosed) /\ WF_vars(SeeGone) /\ WF_vars(WriteFails)

-----------------------------------------------------------------------------
(* Properties                                                               *)

TypeOK ==
    /\ at \in Places /\ left \in 0..MaxParts
    /\ told \in Seq(Kinds) /\ Len(told) <= MaxFrames
    /\ wire \in 0..Len(told)
    /\ frames \in Seq(1..Len(told)) /\ Len(frames) <= FrameCap
    /\ body \in Seq(1..Len(told)) /\ dropped \subseteq 1..Len(told)
    /\ {reached, overdue, closed, lost, started, timer, revoked, gone} \subseteq BOOLEAN

\* A frame comes after a start, and a frame that ends the answer.
Sent == 1..Len(told)
Begun(i) == \E j \in Sent : j < i /\ told[j] = "start"
Ends(i) == told[i] \in {"end", "error"} \/ (told[i] = "bad" /\ Begun(i))

\* The chunks of the agent's answer, as it sent it: those after the first start
\* and before whatever ends the answer.
Answer ==
    {i \in Sent : /\ told[i] = "chunk" /\ Begun(i)
                  /\ \A j \in Sent : j < i => ~Ends(j)}

\* The client gets the agent's chunks in order and none twice.  Until the
\* 10-second timer gives a frame up, it gets none from outside the answer, none
\* without all before it, and all of them when the response ends with the agent's
\* end: a request closed for another reason misses a tail, never a middle.  After
\* the timer's close, both selects still take any ready case, so that a later
\* chunk and the end may follow the gap (deliverGateway, streamGatewayResponse).
BodyIsWhatAgentSent ==
    /\ \A k, l \in 1..Len(body) : k < l => body[k] < body[l]
    /\ ~overdue =>
          /\ Range(body) \subseteq Answer
          /\ \A i \in Answer :
                ending = "end" \/ (\E k \in 1..Len(body) : i < body[k]) => i \in Range(body)

\* However the timers, the agent, the access check and the client race, the
\* client is given at most one status, and exactly one unless it has left.
AnsweredOnce ==
    /\ Len(answers) <= 1
    /\ at = "done" /\ ~gone => Len(answers) = 1

\* A request whose parts were all sent is answered, by the agent or by the
\* server, whatever the agent sends or does not send.
UnansweredEnds == at = "stream" ~> answers # <<>> \/ gone

\* The agent's websocket reader, on which all its phones and requests depend,
\* is never kept for good by one request whose client does not read.
ReaderReleased == wire # 0 ~> wire = 0
=============================================================================
