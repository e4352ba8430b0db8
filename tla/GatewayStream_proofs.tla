------------------------ MODULE GatewayStream_proofs ------------------------
(* Proofs about GatewayStream, for queues, bodies and responses of any       *)
(* length.                                                                   *)
EXTENDS GatewayStream, TLAPS

\* A status is written only on the way out or with the start of the response,
\* so that the places before them have none and the last ones have one, unless
\* the client had left.
StatusFollowsPlace ==
    /\ at \in Places /\ started \in BOOLEAN
    /\ answers = <<>> \/ \E status : answers = <<status>>
    /\ at \in {"connect", "body", "send"} => answers = <<>> /\ ~started
    /\ at = "stream" => (answers = <<>> <=> ~started)
    /\ at = "write" => answers # <<>> /\ started
    /\ at \in {"detach", "done"} => answers # <<>> \/ gone

\* A status where there was none is the one.
LEMMA OneStatus ==
  ASSUME NEW status PROVE Append(<<>>, status) = <<status>> /\ <<status>> # <<>>
OBVIOUS

\* Leaving the loop answers what was not answered yet.
LEMMA ReturnAnswers ==
  ASSUME StatusFollowsPlace, at = "stream", NEW why, NEW status, Return(why, status)
  PROVE  /\ at' = "detach" /\ started' = started
         /\ \E given : answers' = <<given>>
<1>1. CASE started
  BY <1>1 DEF Return, AnswerIfUnstarted, StatusFollowsPlace
<1>2. CASE ~started
  <2>1. answers' = Append(<<>>, status)
    BY <1>2 DEF Return, AnswerIfUnstarted, StatusFollowsPlace
  <2> QED BY <2>1, OneStatus DEF Return
<1> QED BY <1>1, <1>2 DEF StatusFollowsPlace

\* What the loop takes or sees keeps the place of the status.
LEMMA StreamStep ==
  ASSUME StatusFollowsPlace, at = "stream", Stream
  PROVE  StatusFollowsPlace'
<1>1. CASE Skip
  BY <1>1 DEF Skip, Take, world, StatusFollowsPlace, Places
<1>2. CASE TakeStart
  <2>1. /\ answers' = Append(<<>>, "agent") /\ started' = TRUE /\ at' = at
    BY <1>2 DEF TakeStart, Take, StatusFollowsPlace
  <2> QED BY <2>1, OneStatus DEF StatusFollowsPlace
<1>3. CASE TakeChunk
  BY <1>3 DEF TakeChunk, Take, MayWrite, world, StatusFollowsPlace, Places
<1>4. ASSUME \E why, status : Return(why, status) PROVE StatusFollowsPlace'
  <2>1. /\ at' = "detach" /\ started' = started
        /\ \E given : answers' = <<given>>
    BY <1>4, ReturnAnswers
  <2> QED BY <2>1 DEF StatusFollowsPlace, Places
<1>5. TakeBadChunk \/ TakeEnd \/ TakeError \/ Unauthorized \/ StartTimeout \/ SeeClosed
      => \E why, status : Return(why, status)
  BY DEF TakeBadChunk, TakeEnd, TakeError, Unauthorized, StartTimeout, SeeClosed
<1>6. CASE SeeGone
  BY <1>6 DEF SeeGone, world, StatusFollowsPlace, Places
<1> QED BY <1>1, <1>2, <1>3, <1>4, <1>5, <1>6 DEF Stream

\* So does every step.
LEMMA StatusStep ==
  ASSUME StatusFollowsPlace, [Next]_vars
  PROVE  StatusFollowsPlace'
<1>1. CASE Refuse
  <2>1. PICK status : answers' = Append(<<>>, status) /\ at' = "done" /\ started' = started
    BY <1>1 DEF Refuse, StatusFollowsPlace
  <2> QED BY <2>1, OneStatus DEF StatusFollowsPlace, Places
<1>2. CASE Attach
  BY <1>2 DEF Attach, response, world, StatusFollowsPlace, Places
<1>3. CASE ReadBody
  <2>1. CASE at' = "send" /\ answers' = answers
    BY <1>3, <2>1 DEF ReadBody, StatusFollowsPlace, Places
  <2>2. CASE at' = "detach" /\ answers' = Append(answers, "too_large")
    <3>1. answers' = Append(<<>>, "too_large") /\ started' = started
      BY <1>3, <2>2 DEF ReadBody, StatusFollowsPlace
    <3> QED BY <2>2, <3>1, OneStatus DEF StatusFollowsPlace, Places
  <2> QED BY <1>3, <2>1, <2>2 DEF ReadBody
<1>4. CASE SendPart
  BY <1>4 DEF SendPart, StatusFollowsPlace, Places
<1>5. CASE SendFails
  <2>1. answers' = Append(<<>>, "offline") /\ at' = "detach" /\ started' = started
    BY <1>5 DEF SendFails, StatusFollowsPlace
  <2> QED BY <2>1, OneStatus DEF StatusFollowsPlace, Places
<1>6. CASE Stream
  <2>1. at = "stream"
    BY <1>6 DEF Stream, Skip, TakeStart, TakeChunk, TakeBadChunk, TakeEnd, TakeError, Take,
                Unauthorized, StartTimeout, SeeClosed, SeeGone
  <2> QED BY <1>6, <2>1, StreamStep
<1>7. CASE Written
  BY <1>7 DEF Written, response, world, StatusFollowsPlace, Places
<1>8. CASE WriteFails
  BY <1>8 DEF WriteFails, world, StatusFollowsPlace, Places
<1>9. CASE Detach
  BY <1>9 DEF Detach, response, world, StatusFollowsPlace, Places
<1>10. CASE ClientLeaves \/ Revoke \/ AgentLost \/ AgentSends \/ DeliverGateway \/ UNCHANGED vars
  <2>1. UNCHANGED <<at, started, answers>> /\ (gone => gone')
    BY <1>10 DEF ClientLeaves, Revoke, AgentLost, AgentSends, DeliverGateway, vars, request,
                 response, world
  <2> QED BY <2>1 DEF StatusFollowsPlace
<1> QED BY <1>1, <1>2, <1>3, <1>4, <1>5, <1>6, <1>7, <1>8, <1>9, <1>10
        DEF Next, Handler, Terminated

\* However the agent, the timers, the access check and the client race, a proxied
\* request gets at most one status, and exactly one unless its client has left
\* (hapiGateway, streamGatewayResponse).
THEOREM OneAnswer == Spec => []AnsweredOnce
<1>1. Init => StatusFollowsPlace
  BY DEF Init, StatusFollowsPlace, Places
<1>2. StatusFollowsPlace /\ [Next]_vars => StatusFollowsPlace'
  BY StatusStep
<1>3. StatusFollowsPlace => AnsweredOnce
  <2> SUFFICES ASSUME StatusFollowsPlace PROVE AnsweredOnce
    OBVIOUS
  <2>1. CASE answers = <<>>
    <3>1. Len(answers) = 0 /\ ~(at = "done" /\ ~gone)
      BY <2>1 DEF StatusFollowsPlace
    <3> QED BY <3>1 DEF AnsweredOnce
  <2>2. ASSUME NEW status, answers = <<status>> PROVE AnsweredOnce
    <3>1. Len(<<status>>) = 1
      OBVIOUS
    <3> QED BY <2>2, <3>1 DEF AnsweredOnce
  <2> QED BY <2>1, <2>2 DEF StatusFollowsPlace
<1> QED BY <1>1, <1>2, <1>3, PTL DEF Spec

-----------------------------------------------------------------------------
(* What the client is given of the agent's answer.                          *)

\* A frame on its way: the reader holds it or it is queued to the handler.
Queued(i) == \E k \in 1..Len(frames) : frames[k] = i
Pending(i) == (wire # 0 /\ i = wire) \/ Queued(i)

\* The answer, were the frames that deliverGateway gave up not sent.
Kept == (1..Len(told)) \ dropped
Taken == {i \in Kept : ~Pending(i)}
KeptBegun(i) == \E j \in Kept : j < i /\ told[j] = "start"
KeptEnds(i) == told[i] \in {"end", "error"} \/ (told[i] = "bad" /\ KeptBegun(i))
KeptAnswer ==
    {i \in Kept : /\ told[i] = "chunk" /\ KeptBegun(i)
                  /\ \A j \in Kept : j < i => ~KeptEnds(j)}
BodyIsKeptAnswer ==
    /\ \A k, l \in 1..Len(body) : k < l => body[k] < body[l]
    /\ Range(body) \subseteq KeptAnswer
    /\ \A i \in KeptAnswer :
          ending = "end" \/ (\E k \in 1..Len(body) : i < body[k]) => i \in Range(body)

\* The types, and that the handler in its sending loop has a part to send.
StreamTypes == TypeOK /\ (at = "send" => left >= 1)

\* Frames leave in the order they came: the handler has taken all before those
\* in its queue, and the reader holds the last.
FramesInOrder ==
    /\ wire # 0 => /\ wire = Len(told) /\ wire \notin dropped
                   /\ \A k \in 1..Len(frames) : frames[k] < wire
    /\ \A k, l \in 1..Len(frames) : k < l => frames[k] < frames[l]
    /\ \A k \in 1..Len(frames) : frames[k] \notin dropped
    /\ \A i \in Taken, k \in 1..Len(frames) : i < frames[k]

\* The body is what was to be written of the frames taken, of which at most the
\* last ends the answer, and only when the handler leaves its loop.
BodyOfTaken ==
    /\ \A k, l \in 1..Len(body) : k < l => body[k] < body[l]
    /\ \A i : i \in Range(body) <=> i \in Taken /\ told[i] = "chunk" /\ KeptBegun(i)
    /\ at \notin {"detach", "done"} =>
          /\ started <=> \E j \in Taken : told[j] = "start"
          /\ \A j \in Taken : ~KeptEnds(j)
    /\ \A i, j \in Taken : KeptEnds(j) => i <= j
    /\ ending = "end" => \E j \in Taken : KeptEnds(j)

BodyInv == StreamTypes /\ FramesInOrder /\ BodyOfTaken

\* The invariant says what the property asks for.
LEMMA BodyInvImplies == BodyInv => BodyIsKeptAnswer
  <1>. SUFFICES ASSUME BodyInv PROVE BodyIsKeptAnswer
    OBVIOUS
  <1>0. /\ \A k \in 1..Len(frames) : frames[k] \in Nat
        /\ Len(told) \in Nat /\ \A k \in 1..Len(body) : body[k] \in Nat
    BY DEF BodyInv, StreamTypes, TypeOK
  <1>1. ASSUME NEW i \in Taken, NEW j \in Kept, j < i PROVE j \in Taken
    <2>1. ~Queued(j)
      BY <1>0, <1>1 DEF BodyInv, FramesInOrder, Queued, Taken, Kept
    <2>2. wire # 0 => j # wire
      BY <1>0, <1>1 DEF BodyInv, FramesInOrder, Taken, Kept
    <2>. QED  BY <1>1, <2>1, <2>2 DEF Taken, Pending
  <1>2. ASSUME NEW i \in Kept, ~(i \in Taken), NEW j \in Taken PROVE j < i
    <2>1. CASE Queued(i)
      BY <1>2, <2>1 DEF BodyInv, FramesInOrder, Queued
    <2>2. CASE wire # 0 /\ i = wire
      BY <1>0, <1>2, <2>2 DEF BodyInv, FramesInOrder, Taken, Kept, Pending
    <2>. QED  BY <1>2, <2>1, <2>2 DEF Taken, Pending
  <1>3. Range(body) \subseteq KeptAnswer
    <2>1. ASSUME NEW i \in Range(body), NEW j \in Kept, j < i PROVE ~KeptEnds(j)
      <3>1. i \in Taken
        BY <2>1 DEF BodyInv, BodyOfTaken
      <3>2. j \in Taken
        BY <1>1, <2>1, <3>1
      <3>3. i \in Nat /\ j \in Nat
        BY <2>1, <3>1 DEF Taken, Kept
      <3>. QED  BY <2>1, <3>1, <3>2, <3>3 DEF BodyInv, BodyOfTaken
    <2>. QED  BY <2>1 DEF BodyInv, BodyOfTaken, KeptAnswer, Taken
  <1>4. ASSUME NEW i \in KeptAnswer, ending = "end" \/ \E k \in 1..Len(body) : i < body[k]
        PROVE  i \in Range(body)
    <2>1. i \in Kept /\ told[i] = "chunk" /\ KeptBegun(i) /\ \A j \in Kept : j < i => ~KeptEnds(j)
      BY DEF KeptAnswer
    <2>2. CASE i \in Taken
      BY <2>1, <2>2 DEF BodyInv, BodyOfTaken
    <2>3. CASE i \notin Taken
      <3>1. \A j \in Taken : j < i /\ j \in Kept
        BY <1>2, <2>1, <2>3 DEF Taken
      <3>2. ending # "end"
        BY <2>1, <3>1 DEF BodyInv, BodyOfTaken
      <3>3. PICK k \in 1..Len(body) : i < body[k]
        BY <1>4, <3>2
      <3>4. body[k] \in Range(body)
        BY DEF Range, BodyInv, StreamTypes, TypeOK
      <3>5. body[k] \in Taken
        BY <3>4 DEF BodyInv, BodyOfTaken
      <3>. QED  BY <1>0, <2>1, <3>1, <3>3, <3>5 DEF Kept
    <2>. QED  BY <2>2, <2>3
  <1>. QED  BY <1>3, <1>4 DEF BodyIsKeptAnswer, BodyInv, BodyOfTaken

\* Nothing was sent, and nothing is taken.
LEMMA BodyStart == Init => BodyInv
  <1>. SUFFICES ASSUME Init PROVE BodyInv
    OBVIOUS
  <1>1. StreamTypes
    <2>1. at \in Places /\ left \in 0..MaxParts /\ at # "send"
      BY StreamAssumption DEF Init, Places
    <2>4. {reached, overdue, closed, lost, started, timer, revoked, gone} \subseteq BOOLEAN
      BY DEF Init
    <2>2. /\ told \in Seq(Kinds) /\ Len(told) = 0
          /\ frames \in Seq(1..Len(told)) /\ Len(frames) = 0
          /\ body \in Seq(1..Len(told)) /\ wire = 0 /\ dropped = {}
      BY DEF Init
    <2>3. MaxFrames \in Nat /\ FrameCap \in Nat
      BY StreamAssumption
    <2>. QED  BY <2>1, <2>2, <2>3, <2>4 DEF StreamTypes, TypeOK
  <1>2. Len(frames) = 0 /\ Len(told) = 0 /\ Len(body) = 0 /\ Kept = {} /\ Taken = {}
    BY DEF Init, Kept, Taken
  <1>3. Range(body) = {}
    BY DEF Init, Range
  <1>. QED  BY <1>1, <1>2, <1>3 DEF Init, BodyInv, FramesInOrder, BodyOfTaken

\* Frames that were sent stay where they were, whatever the agent sends next.
LEMMA SeqGrows ==
    ASSUME NEW m \in Nat, NEW n \in Nat, m <= n, NEW s \in Seq(1..m)
    PROVE  s \in Seq(1..n)
  OBVIOUS

\* A step of the handler or its surroundings that touches no frame.
LEMMA QuietStep ==
    ASSUME BodyInv, UNCHANGED <<told, wire, frames, dropped, overdue, body, started>>,
           closed' \in BOOLEAN, lost' \in BOOLEAN, reached' \in BOOLEAN,
           timer' \in BOOLEAN, revoked' \in BOOLEAN, gone' \in BOOLEAN,
           at' \in Places, left' \in 0..MaxParts, at' = "send" => left' >= 1,
           at \in {"detach", "done"} => at' \in {"detach", "done"},
           ending' = "end" => ending = "end"
    PROVE  BodyInv'
  <1>1. StreamTypes'
    BY DEF BodyInv, StreamTypes, TypeOK
  <1>2. Taken' = Taken /\ \A i : KeptBegun(i)' <=> KeptBegun(i)
    BY DEF Taken, Kept, Pending, Queued, KeptBegun
  <1>3. \A i : KeptEnds(i)' <=> KeptEnds(i)
    BY <1>2 DEF KeptEnds
  <1>4. FramesInOrder'
    BY <1>2 DEF BodyInv, FramesInOrder
  <1>5. Range(body)' = Range(body)
    BY DEF Range
  <1>6. BodyOfTaken'
    BY <1>2, <1>3, <1>5 DEF BodyInv, BodyOfTaken
  <1>. QED  BY <1>1, <1>4, <1>6 DEF BodyInv

\* What changes neither the frames taken nor those before them leaves the body's
\* place in the answer as it is.
LEMMA TakenFrame ==
    ASSUME BodyInv, Taken' = Taken, UNCHANGED <<at, body, started, ending>>,
           \A i \in Taken : told'[i] = told[i] /\ (KeptBegun(i)' <=> KeptBegun(i))
    PROVE  BodyOfTaken'
  <1>1. \A i \in Taken : KeptEnds(i)' <=> KeptEnds(i)
    BY DEF KeptEnds
  <1>2. Range(body)' = Range(body)
    BY DEF Range
  <1>. QED  BY <1>1, <1>2 DEF BodyInv, BodyOfTaken

\* The agent sends a frame: the reader holds it, the last of all.
LEMMA SendStep ==
    ASSUME BodyInv, AgentSends
    PROVE  BodyInv'
  <1>0. PICK n \in Nat : n = Len(told)
    BY DEF BodyInv, StreamTypes, TypeOK
  <1>1. PICK kind \in Kinds : told' = Append(told, kind)
    BY DEF AgentSends
  <1>2. /\ wire = 0 /\ n < MaxFrames
        /\ UNCHANGED <<at, left, reached, lost, frames, dropped, overdue, closed, started, timer,
                       answers, body, ending, revoked, gone>>
    BY <1>0 DEF AgentSends, request, response, world
  <1>3. /\ n \in Nat /\ told' \in Seq(Kinds) /\ Len(told') = n + 1 /\ wire' = n + 1
        /\ \A i \in 1..n : told'[i] = told[i]
    BY <1>0, <1>1 DEF AgentSends, BodyInv, StreamTypes, TypeOK
  <1>4. frames \in Seq(1..n) /\ body \in Seq(1..n) /\ dropped \subseteq 1..n
    BY <1>0 DEF BodyInv, StreamTypes, TypeOK
  <1>5. frames \in Seq(1..n+1) /\ body \in Seq(1..n+1)
    BY <1>3, <1>4, SeqGrows
  <1>6. StreamTypes'
    <2>1. MaxFrames \in Nat
      BY StreamAssumption
    <2>2. n + 1 <= MaxFrames /\ wire' \in 0..n+1 /\ dropped \subseteq 1..n+1
      BY <1>0, <1>2, <1>3, <1>4, <2>1
    <2>. QED  BY <1>0, <1>2, <1>3, <1>5, <2>2 DEF BodyInv, StreamTypes, TypeOK
  <1>7. Kept' = Kept \cup {n + 1} /\ Kept \subseteq 1..n
    BY <1>0, <1>2, <1>3, <1>4 DEF Kept
  <1>8. \A i : Pending(i)' <=> Pending(i) \/ i = n + 1
    BY <1>0, <1>2, <1>3 DEF Pending, Queued
  <1>9. Taken' = Taken /\ Taken \subseteq 1..n
    <2>1. ASSUME NEW i PROVE i \in Taken' <=> i \in Taken
      <3>1. ~(n + 1 \in Kept) /\ (Pending(n + 1))'
        BY <1>3, <1>7 DEF Pending
      <3>. QED  BY <1>7, <1>8, <3>1 DEF Taken
    <2>2. Taken' = Taken
      BY <2>1
    <2>. QED  BY <1>7, <2>2 DEF Taken
  <1>10. \A i \in Taken : told'[i] = told[i] /\ (KeptBegun(i)' <=> KeptBegun(i))
    BY <1>3, <1>7, <1>9 DEF KeptBegun
  <1>11. FramesInOrder'
    <2>1. \A k \in 1..Len(frames) : frames[k] \in 1..n
      BY <1>3, <1>4
    <2>. QED  BY <1>0, <1>2, <1>3, <1>4, <1>9, <2>1 DEF BodyInv, FramesInOrder
  <1>12. BodyOfTaken'
    BY <1>2, <1>9, <1>10, TakenFrame
  <1>. QED  BY <1>6, <1>11, <1>12 DEF BodyInv

\* The reader passes its frame on, or gives it up and closes the request.
LEMMA DeliverStep ==
    ASSUME BodyInv, DeliverGateway
    PROVE  BodyInv'
  <1>. DEFINE n == Len(told)
  <1>1. /\ wire # 0 /\ wire' = 0
        /\ UNCHANGED <<at, left, reached, told, lost, started, timer, answers,
                       body, ending, revoked, gone>>
    BY DEF DeliverGateway, request, agentVars, response, world
  <1>2. /\ n \in Nat /\ wire = n /\ n \in 1..n /\ frames \in Seq(1..n) /\ dropped \subseteq 1..n
        /\ FrameCap \in Nat
    BY <1>1, StreamAssumption DEF BodyInv, StreamTypes, TypeOK, FramesInOrder
  <1>3. \A i \in Taken : i \in 1..n /\ i < n
    BY <1>1, <1>2 DEF Taken, Kept, Pending
  <1>4. CASE Room /\ frames' = Append(frames, wire) /\ UNCHANGED <<dropped, overdue, closed>>
    <2>1. /\ frames' \in Seq(1..n) /\ Len(frames') = Len(frames) + 1 /\ Len(frames) \in Nat
          /\ \A k \in 1..Len(frames) : frames'[k] = frames[k]
          /\ frames'[Len(frames) + 1] = n
      BY <1>2, <1>4
    <2>. HIDE DEF n
    <2>2. StreamTypes'
      <3>1. Len(frames') <= FrameCap
        BY <1>2, <1>4, <2>1 DEF Room
      <3>. QED  BY <1>1, <1>4, <2>1, <3>1 DEF BodyInv, StreamTypes, TypeOK, n
    <2>3. \A i : Queued(i)' <=> Queued(i) \/ i = n
      BY <2>1 DEF Queued
    <2>4. Taken' = Taken
      BY <1>1, <1>2, <1>4, <2>3 DEF Taken, Kept, Pending
    <2>5. \A i : KeptBegun(i)' <=> KeptBegun(i)
      BY <1>1, <1>4 DEF KeptBegun, Kept
    <2>6. FramesInOrder'
      <3>1. /\ \A k \in 1..Len(frames) : frames[k] < n /\ frames[k] \notin dropped
            /\ n \notin dropped
        BY <1>1, <1>2 DEF BodyInv, FramesInOrder
      <3>2. \A k \in 1..Len(frames') : k \in 1..Len(frames) \/ k = Len(frames) + 1
        BY <2>1
      <3>3. \A k, l \in 1..Len(frames') : k < l => frames'[k] < frames'[l]
        BY <2>1, <3>1, <3>2 DEF BodyInv, FramesInOrder
      <3>4. \A k \in 1..Len(frames') : frames'[k] \notin dropped'
        BY <1>4, <2>1, <3>1, <3>2
      <3>5. \A i \in Taken, k \in 1..Len(frames') : i < frames'[k]
        BY <1>3, <2>1, <3>2 DEF BodyInv, FramesInOrder
      <3>. QED  BY <1>1, <2>4, <3>3, <3>4, <3>5 DEF FramesInOrder
    <2>7. BodyOfTaken'
      BY <1>1, <1>4, <2>4, <2>5, TakenFrame
    <2>. QED  BY <2>2, <2>6, <2>7 DEF BodyInv
  <1>5. CASE /\ dropped' = dropped \cup {wire} /\ UNCHANGED frames
             /\ overdue' \in BOOLEAN /\ closed' \in BOOLEAN
    <2>. HIDE DEF n
    <2>1. StreamTypes'
      <3>1. {reached', overdue', closed', lost', started', timer', revoked', gone'} \subseteq BOOLEAN
        BY <1>1, <1>5 DEF BodyInv, StreamTypes, TypeOK
      <3>2. wire' \in 0..n /\ dropped' \subseteq 1..n
        BY <1>1, <1>2, <1>5
      <3>. QED  BY <1>1, <1>5, <3>1, <3>2 DEF BodyInv, StreamTypes, TypeOK, n
    <2>2. Kept' = Kept \ {n}
      BY <1>1, <1>2, <1>5 DEF Kept
    <2>3. Taken' = Taken
      BY <1>1, <1>2, <1>5, <2>2 DEF Taken, Pending, Queued
    <2>4. \A i \in Taken : KeptBegun(i)' <=> KeptBegun(i)
      BY <1>1, <1>2, <1>3, <2>2 DEF KeptBegun, Kept
    <2>5. FramesInOrder'
      <3>1. \A k \in 1..Len(frames) : frames[k] \in 1..n
        BY <1>2
      <3>. QED  BY <1>1, <1>2, <1>5, <2>3, <3>1 DEF BodyInv, FramesInOrder
    <2>6. BodyOfTaken'
      BY <1>1, <1>5, <2>3, <2>4, TakenFrame
    <2>. QED  BY <2>1, <2>5, <2>6 DEF BodyInv
  <1>6. closed \in BOOLEAN /\ overdue \in BOOLEAN
    BY DEF BodyInv, StreamTypes, TypeOK
  <1>. QED  BY <1>4, <1>5, <1>6 DEF DeliverGateway

\* Taking the first of the queue.
LEMMA TakeEffect ==
    ASSUME BodyInv, NEW kinds, Take(kinds)
    PROVE  LET h == Head(frames) IN
           /\ h \in Kept /\ told[h] \in kinds /\ h \in 1..Len(told)
           /\ \A i \in Taken : i < h
           /\ Taken' = Taken \cup {h}
           /\ at = "stream" /\ (KeptBegun(h) <=> started)
           /\ \A i : KeptBegun(i)' <=> KeptBegun(i)
           /\ frames' \in Seq(1..Len(told)) /\ Len(frames') <= FrameCap
           /\ FramesInOrder'
  <1>0. PICK h, n : h = Head(frames) /\ n = Len(told)
    OBVIOUS
  <1>1. /\ at = "stream" /\ frames # <<>> /\ told[h] \in kinds /\ frames' = Tail(frames)
        /\ UNCHANGED <<told, wire, dropped, overdue, closed>>
    BY <1>0 DEF Take, agentVars
  <1>2. /\ frames \in Seq(1..n) /\ Len(frames) \in Nat /\ Len(frames) <= FrameCap /\ n \in Nat
        /\ FrameCap \in Nat
    BY <1>0, StreamAssumption DEF BodyInv, StreamTypes, TypeOK
  <1>3. /\ Len(frames) >= 1 /\ h = frames[1] /\ h \in 1..n
        /\ frames' \in Seq(1..n) /\ Len(frames') = Len(frames) - 1
        /\ \A k \in 1..Len(frames') : frames'[k] = frames[k + 1]
    BY <1>0, <1>1, <1>2
  <1>4. \A k \in 2..Len(frames) : frames[k] \in 1..n /\ h < frames[k]
    <2>1. ASSUME NEW k \in 2..Len(frames) PROVE frames[k] \in 1..n /\ h < frames[k]
      <3>1. k \in 1..Len(frames) /\ 1 \in 1..Len(frames) /\ 1 < k
        BY <1>2, <2>1
      <3>. QED  BY <1>2, <1>3, <3>1 DEF BodyInv, FramesInOrder
    <2>. QED  BY <2>1
  <1>5. h \in Kept /\ wire # h
    BY <1>0, <1>2, <1>3 DEF BodyInv, FramesInOrder, Kept
  <1>6. \A i \in Taken : i < h
    BY <1>3 DEF BodyInv, FramesInOrder
  <1>7. \A i : Queued(i) <=> i = h \/ Queued(i)'
    <2>1. ASSUME NEW i, Queued(i), i # h PROVE Queued(i)'
      <3>1. PICK k \in 1..Len(frames) : frames[k] = i
        BY <2>1 DEF Queued
      <3>2. k - 1 \in 1..Len(frames') /\ frames'[k - 1] = i
        BY <1>2, <1>3, <2>1, <3>1
      <3>. QED  BY <3>2 DEF Queued
    <2>2. ASSUME NEW i, Queued(i)' PROVE Queued(i)
      <3>1. PICK k \in 1..Len(frames') : frames'[k] = i
        BY <2>2 DEF Queued
      <3>2. k + 1 \in 1..Len(frames) /\ frames[k + 1] = i
        BY <1>2, <1>3, <3>1
      <3>. QED  BY <3>2 DEF Queued
    <2>3. Queued(h)
      BY <1>2, <1>3 DEF Queued
    <2>. QED  BY <2>1, <2>2, <2>3
  <1>8. ~(Queued(h)')
    <2>1. ASSUME NEW k \in 1..Len(frames') PROVE frames'[k] # h
      <3>1. k + 1 \in 2..Len(frames) /\ frames'[k] = frames[k + 1]
        BY <1>2, <1>3
      <3>. QED  BY <1>3, <1>4, <3>1
    <2>. QED  BY <2>1 DEF Queued
  <1>9. Kept' = Kept
    BY <1>1 DEF Kept
  <1>10. Taken' = Taken \cup {h}
    <2>1. ASSUME NEW i PROVE i \in Taken' <=> i \in Taken \/ i = h
      BY <1>1, <1>5, <1>7, <1>8, <1>9 DEF Taken, Pending
    <2>. QED  BY <2>1
  <1>11. \A i : KeptBegun(i)' <=> KeptBegun(i)
    BY <1>1, <1>9 DEF KeptBegun
  <1>12. KeptBegun(h) <=> started
    <2>1. ASSUME NEW j \in Kept, j < h PROVE j \in Taken
      <3>1. ~Queued(j)
        <4>1. ASSUME NEW k \in 1..Len(frames) PROVE frames[k] # j
          <5>1. frames[k] = h \/ h < frames[k]
            BY <1>2, <1>3, <1>4
          <5>2. frames[k] \in Nat /\ h \in Nat /\ j \in Nat
            BY <1>2, <1>3, <2>1 DEF Kept
          <5>. QED  BY <2>1, <5>1, <5>2
        <4>. QED  BY <4>1 DEF Queued
      <3>2. wire # 0 => h < wire
        BY <1>2, <1>3 DEF BodyInv, FramesInOrder
      <3>3. wire # 0 => j # wire
        BY <1>3, <2>1, <3>2 DEF Kept
      <3>. QED  BY <2>1, <3>1, <3>3 DEF Taken, Pending
    <2>2. started <=> \E j \in Taken : told[j] = "start"
      BY <1>1 DEF BodyInv, BodyOfTaken
    <2>3. Taken \subseteq Kept
      BY DEF Taken
    <2>. QED  BY <1>6, <2>1, <2>2, <2>3 DEF KeptBegun
  <1>13. FramesInOrder'
    <2>1. \A k \in 1..Len(frames') : k + 1 \in 2..Len(frames)
      BY <1>2, <1>3
    <2>2. \A k \in 2..Len(frames) : /\ frames[k] \notin dropped
                                    /\ wire # 0 => frames[k] < wire
                                    /\ \A i \in Taken \cup {h} : i < frames[k]
      BY <1>2, <1>4 DEF BodyInv, FramesInOrder
    <2>3. \A k, l \in 1..Len(frames') : k < l => frames'[k] < frames'[l]
      <3>1. ASSUME NEW k \in 1..Len(frames'), NEW l \in 1..Len(frames'), k < l
            PROVE  frames'[k] < frames'[l]
        <4>1. /\ k + 1 \in 1..Len(frames) /\ l + 1 \in 1..Len(frames) /\ k + 1 < l + 1
              /\ frames'[k] = frames[k + 1] /\ frames'[l] = frames[l + 1]
          BY <1>2, <1>3, <3>1
        <4>. QED  BY <4>1 DEF BodyInv, FramesInOrder
      <3>. QED  BY <3>1
    <2>4. /\ \A k \in 1..Len(frames') : frames'[k] \notin dropped'
          /\ \A i \in Taken', k \in 1..Len(frames') : i < frames'[k]
      BY <1>1, <1>3, <1>10, <2>1, <2>2
    <2>5. wire' # 0 => /\ wire' = Len(told') /\ wire' \notin dropped'
                       /\ \A k \in 1..Len(frames') : frames'[k] < wire'
      BY <1>1, <1>3, <2>1, <2>2 DEF BodyInv, FramesInOrder
    <2>. QED  BY <2>3, <2>4, <2>5 DEF FramesInOrder
  <1>14. Len(frames') <= FrameCap
    BY <1>2, <1>3
  <1>. QED  BY <1>0, <1>1, <1>3, <1>5, <1>6, <1>10, <1>11, <1>12, <1>13, <1>14

\* What the handler must do with the frame it takes: write a chunk that comes
\* after the start, note the start, leave at what ends the answer.
LEMMA TakeStep ==
    ASSUME BodyInv, NEW kinds, Take(kinds), NEW h, h = Head(frames),
           at' \in {"stream", "write", "detach"}, timer' \in BOOLEAN, started' \in BOOLEAN,
           \/ body' = body /\ ~(told[h] = "chunk" /\ started)
           \/ body' = Append(body, h) /\ told[h] = "chunk" /\ started,
           at' # "detach" => (started' <=> started \/ told[h] = "start"),
           told[h] \in {"end", "error"} \/ (told[h] = "bad" /\ started) => at' = "detach",
           ending' = "end" => told[h] = "end" \/ ending = "end"
    PROVE  BodyInv'
  <1>0. PICK n : n = Len(told)
    OBVIOUS
  <1>1. /\ h \in Kept /\ told[h] \in kinds /\ h \in 1..n
        /\ \A i \in Taken : i < h
        /\ Taken' = Taken \cup {h}
        /\ at = "stream" /\ (KeptBegun(h) <=> started)
        /\ \A i : KeptBegun(i)' <=> KeptBegun(i)
        /\ frames' \in Seq(1..n) /\ Len(frames') <= FrameCap
        /\ FramesInOrder'
    BY <1>0, TakeEffect
  <1>2. UNCHANGED <<left, reached, told, lost, wire, dropped, overdue, closed, revoked, gone>>
    BY DEF Take, agentVars, world
  <1>3. n \in Nat /\ body \in Seq(1..n) /\ Len(body) \in Nat
    BY <1>0 DEF BodyInv, StreamTypes, TypeOK
  <1>4. StreamTypes'
    <2>1. body' \in Seq(1..n)
      <3>1. CASE body' = body
        BY <1>3, <3>1
      <3>2. CASE body' = Append(body, h)
        BY <1>1, <1>3, <3>2
      <3>. QED  BY <3>1, <3>2
    <2>2. at' \in Places /\ at' # "send"
      BY DEF Places
    <2>3. {reached', overdue', closed', lost', started', timer', revoked', gone'} \subseteq BOOLEAN
      BY <1>2 DEF BodyInv, StreamTypes, TypeOK
    <2>. QED  BY <1>0, <1>1, <1>2, <2>1, <2>2, <2>3 DEF BodyInv, StreamTypes, TypeOK
  <1>5. \A k \in 1..Len(body) : body[k] \in Range(body) /\ body[k] \in Taken
    BY <1>3 DEF Range, BodyInv, BodyOfTaken
  <1>6. \A i : KeptEnds(i)' <=> KeptEnds(i)
    BY <1>1, <1>2 DEF KeptEnds
  <1>7. /\ \A j \in Taken : ~KeptEnds(j)
        /\ KeptEnds(h) <=> told[h] \in {"end", "error"} \/ (told[h] = "bad" /\ started)
        /\ started <=> \E j \in Taken : told[j] = "start"
    BY <1>1 DEF BodyInv, BodyOfTaken, KeptEnds
  <1>8. \A k, l \in 1..Len(body') : k < l => body'[k] < body'[l]
    <2>1. CASE body' = body
      BY <2>1 DEF BodyInv, BodyOfTaken
    <2>2. CASE body' = Append(body, h)
      <3>1. /\ Len(body') = Len(body) + 1 /\ body'[Len(body) + 1] = h
            /\ \A k \in 1..Len(body) : body'[k] = body[k] /\ body[k] < h
        BY <1>1, <1>3, <1>5, <2>2
      <3>2. ASSUME NEW k \in 1..Len(body'), NEW l \in 1..Len(body'), k < l
            PROVE  body'[k] < body'[l]
        <4>1. k \in 1..Len(body) /\ (l \in 1..Len(body) \/ l = Len(body) + 1)
          <5>1. k \in 1..Len(body) + 1 /\ l \in 1..Len(body) + 1
            BY <3>1
          <5>. QED  BY <1>3, <3>2, <5>1
        <4>. QED  BY <3>1, <3>2, <4>1 DEF BodyInv, BodyOfTaken
      <3>. QED  BY <3>2
    <2>. QED  BY <2>1, <2>2
  <1>9. ASSUME NEW i PROVE i \in Range(body)' <=> i \in Taken' /\ told'[i] = "chunk" /\ KeptBegun(i)'
    <2>1. i \in Range(body) <=> i \in Taken /\ told[i] = "chunk" /\ KeptBegun(i)
      BY DEF BodyInv, BodyOfTaken
    <2>2. CASE body' = body /\ ~(told[h] = "chunk" /\ started)
      BY <1>1, <1>2, <2>1, <2>2 DEF Range
    <2>3. CASE body' = Append(body, h) /\ told[h] = "chunk" /\ started
      <3>1. i \in Range(body)' <=> i \in Range(body) \/ i = h
        BY <1>3, <2>3 DEF Range
      <3>. QED  BY <1>1, <1>2, <2>1, <2>3, <3>1
    <2>. QED  BY <2>2, <2>3
  <1>10. /\ \A i, j \in Taken' : KeptEnds(j)' => i <= j
         /\ ending' = "end" => \E j \in Taken' : KeptEnds(j)'
    <2>1. ASSUME NEW i \in Taken', NEW j \in Taken', KeptEnds(j)' PROVE i <= j
      <3>1. j = h
        BY <1>1, <1>6, <1>7, <2>1
      <3>2. i = h \/ i < h
        BY <1>1, <2>1
      <3>3. i \in Nat /\ h \in Nat
        BY <1>0, <1>1, <2>1 DEF Taken, Kept
      <3>. QED  BY <3>1, <3>2, <3>3
    <2>2. ending' = "end" => \E j \in Taken' : KeptEnds(j)'
      BY <1>1, <1>6, <1>7 DEF BodyInv, BodyOfTaken
    <2>. QED  BY <2>1, <2>2
  <1>11. at' \notin {"detach", "done"} =>
            /\ started' <=> \E j \in Taken' : told'[j] = "start"
            /\ \A j \in Taken' : ~(KeptEnds(j)')
    BY <1>1, <1>2, <1>6, <1>7
  <1>12. BodyOfTaken'
    BY <1>8, <1>9, <1>10, <1>11 DEF BodyOfTaken
  <1>. QED  BY <1>1, <1>4, <1>12 DEF BodyInv

\* Every frame the loop takes is taken so.
LEMMA TakenRight ==
    ASSUME BodyInv,
           Skip \/ TakeStart \/ TakeChunk \/ TakeBadChunk \/ TakeEnd \/ TakeError
    PROVE  BodyInv'
  <1>0. timer \in BOOLEAN /\ started \in BOOLEAN
    BY DEF BodyInv, StreamTypes, TypeOK
  <1>1. PICK h : h = Head(frames)
    OBVIOUS
  <1>. USE <1>0, <1>1
  <1>2. CASE Skip
    <2>1. /\ Take(IF started THEN {"start", "other"} ELSE {"chunk", "bad", "other"})
          /\ at = "stream"
          /\ told[h] \in IF started THEN {"start", "other"} ELSE {"chunk", "bad", "other"}
          /\ timer' = timer /\ UNCHANGED <<at, started, body, ending>>
      BY <1>2 DEF Skip, Take, TimerKept
    <2>. QED  BY <2>1, TakeStep
  <1>3. CASE TakeStart
    <2>1. /\ Take({"start"}) /\ at = "stream" /\ told[h] = "start"
          /\ started' = TRUE /\ timer' = FALSE /\ UNCHANGED <<at, body, ending>>
      BY <1>3 DEF TakeStart, Take
    <2>. QED  BY <2>1, TakeStep
  <1>4. CASE TakeChunk
    <2>1. /\ started /\ Take({"chunk"}) /\ told[h] = "chunk"
          /\ body' = Append(body, h) /\ at' = "write" /\ UNCHANGED <<started, timer, ending>>
      BY <1>4 DEF TakeChunk, Take, MayWrite
    <2>. QED  BY <2>1, TakeStep
  <1>5. CASE TakeBadChunk
    <2>1. /\ Take({"bad"}) /\ told[h] = "bad" /\ at' = "detach" /\ ending' = "bad_chunk"
          /\ UNCHANGED <<started, timer, body>>
      BY <1>5 DEF TakeBadChunk, Take, Return
    <2>. QED  BY <2>1, TakeStep
  <1>6. CASE TakeEnd
    <2>1. /\ Take({"end"}) /\ told[h] = "end" /\ at' = "detach" /\ ending' = "end"
          /\ UNCHANGED <<started, timer, body>>
      BY <1>6 DEF TakeEnd, Take, Return
    <2>. QED  BY <2>1, TakeStep
  <1>7. CASE TakeError
    <2>1. /\ Take({"error"}) /\ told[h] = "error" /\ at' = "detach" /\ ending' = "error"
          /\ UNCHANGED <<started, timer, body>>
      BY <1>7 DEF TakeError, Take, Return
    <2>. QED  BY <2>1, TakeStep
  <1>. QED  BY <1>2, <1>3, <1>4, <1>5, <1>6, <1>7

\* Every step keeps the invariant of the body.
LEMMA BodyStep == BodyInv /\ [Next]_vars => BodyInv'
  <1>. SUFFICES ASSUME BodyInv, [Next]_vars PROVE BodyInv'
    OBVIOUS
  <1>0. /\ at \in Places /\ left \in 0..MaxParts /\ (at = "send" => left >= 1)
        /\ closed \in BOOLEAN /\ lost \in BOOLEAN /\ reached \in BOOLEAN
        /\ timer \in BOOLEAN /\ revoked \in BOOLEAN /\ gone \in BOOLEAN
        /\ MaxParts \in Nat \ {0}
    BY StreamAssumption DEF BodyInv, StreamTypes, TypeOK
  <1>1. CASE ClientLeaves \/ Revoke \/ AgentLost \/ UNCHANGED vars
    BY <1>0, <1>1, QuietStep DEF ClientLeaves, Revoke, AgentLost, vars, request, agentVars,
                                 delivery, response, world
  <1>2. CASE Refuse \/ Attach \/ SendFails \/ Written \/ WriteFails \/ Detach
    BY <1>0, <1>2, QuietStep DEF Refuse, Attach, SendFails, Written, WriteFails, Detach, Places,
                                 agentVars, delivery, response, world
  <1>3. CASE ReadBody
    BY <1>0, <1>3, QuietStep DEF ReadBody, Places, agentVars, delivery, world
  <1>4. CASE SendPart
    BY <1>0, <1>4, QuietStep DEF SendPart, Places, delivery, world
  <1>5. CASE Unauthorized \/ StartTimeout \/ SeeClosed \/ SeeGone
    BY <1>0, <1>5, QuietStep DEF Unauthorized, StartTimeout, SeeClosed, SeeGone, Return, Places,
                                 agentVars, delivery, world
  <1>. QED  BY <1>1, <1>2, <1>3, <1>4, <1>5, SendStep, DeliverStep, TakenRight
            DEF Next, Handler, Stream, Terminated

\* The frames, the request and the body keep their types.
THEOREM StreamTyping == Spec => []TypeOK
  <1>1. BodyInv => TypeOK
    BY DEF BodyInv, StreamTypes
  <1>. QED  BY <1>1, BodyStart, BodyStep, PTL DEF Spec

\* Until the delivery timer fires, a request is closed only once no frame of the
\* agent can follow, so that what is given up is the last frame.
OnlyTailDropped ==
    ~overdue =>
       /\ closed => lost \/ at = "done"
       /\ dropped # {} => closed /\ wire = 0 /\ dropped = {Len(told)}

\* Every step keeps it: the agent of a closed request sends no more.
LEMMA TailStep ==
    ASSUME BodyInv, OnlyTailDropped, [Next]_vars
    PROVE  OnlyTailDropped'
  <1>1. CASE AgentSends
    BY <1>1 DEF AgentSends, Registered, OnlyTailDropped, request
  <1>2. CASE DeliverGateway
    BY <1>2 DEF DeliverGateway, OnlyTailDropped, BodyInv, FramesInOrder, request, agentVars
  <1>3. CASE Skip \/ TakeStart \/ TakeChunk \/ TakeBadChunk \/ TakeEnd \/ TakeError
    BY <1>3 DEF Skip, TakeStart, TakeChunk, TakeBadChunk, TakeEnd, TakeError, Take, OnlyTailDropped,
                agentVars
  <1>4. CASE Unauthorized \/ StartTimeout \/ SeeClosed \/ SeeGone
    BY <1>4 DEF Unauthorized, StartTimeout, SeeClosed, SeeGone, OnlyTailDropped, agentVars, delivery
  <1>5. CASE Refuse \/ Attach \/ ReadBody \/ SendPart \/ SendFails \/ Written \/ WriteFails \/ Detach
    BY <1>5 DEF Refuse, Attach, ReadBody, SendPart, SendFails, Written, WriteFails, Detach,
                OnlyTailDropped, agentVars, delivery
  <1>6. CASE ClientLeaves \/ Revoke \/ AgentLost \/ UNCHANGED vars
    BY <1>6 DEF ClientLeaves, Revoke, AgentLost, OnlyTailDropped, vars, request, agentVars, delivery
  <1>. QED  BY <1>1, <1>2, <1>3, <1>4, <1>5, <1>6 DEF Next, Handler, Stream, Terminated

\* With only the last frame given up, what was kept of the answer is the answer up
\* to that frame.
LEMMA TailMissing ==
    ASSUME BodyInv, OnlyTailDropped
    PROVE  BodyIsWhatAgentSent
  <1>. DEFINE n == Len(told)
  <1>1. n \in Nat /\ body \in Seq(1..n) /\ BodyIsKeptAnswer
    BY BodyInvImplies DEF BodyInv, StreamTypes, TypeOK
  <1>2. SUFFICES ASSUME ~overdue
                 PROVE  /\ Range(body) \subseteq Answer
                        /\ \A i \in Answer : ending = "end" \/ (\E k \in 1..Len(body) : i < body[k])
                                              => i \in Range(body)
    BY <1>1 DEF BodyIsKeptAnswer, BodyIsWhatAgentSent
  <1>3. dropped = {} \/ dropped = {n}
    BY <1>2 DEF OnlyTailDropped
  <1>. HIDE DEF n
  <1>4. \A i \in 1..n, j \in 1..n : j < i => j \in Kept
    BY <1>1, <1>3 DEF Kept, n
  <1>5. Sent = 1..n /\ Kept \subseteq Sent
    BY DEF Sent, Kept, n
  <1>6. \A i \in 1..n : KeptBegun(i) <=> Begun(i)
    BY <1>4, <1>5 DEF KeptBegun, Begun
  <1>7. \A i \in 1..n : KeptEnds(i) <=> Ends(i)
    BY <1>6 DEF KeptEnds, Ends
  <1>8. \A i \in Kept : i \in KeptAnswer <=> i \in Answer
    BY <1>4, <1>5, <1>6, <1>7 DEF KeptAnswer, Answer
  <1>9. ASSUME NEW i \in Answer, ending = "end" \/ \E k \in 1..Len(body) : i < body[k]
        PROVE  i \in Kept
    <2>1. i \in 1..n /\ \A j \in 1..n : j < i => ~Ends(j)
      BY <1>5, <1>9 DEF Answer
    <2>2. CASE ending = "end"
      <3>1. PICK j \in Taken : KeptEnds(j)
        BY <2>2 DEF BodyInv, BodyOfTaken
      <3>2. j \in Kept /\ j \in 1..n /\ Ends(j)
        BY <1>5, <1>7, <3>1 DEF Taken
      <3>3. j \notin dropped /\ ~(j < i)
        BY <2>1, <3>2 DEF Kept
      <3>. QED  BY <1>1, <1>3, <1>5, <2>1, <3>2, <3>3 DEF Kept, n
    <2>3. ASSUME NEW k \in 1..Len(body), i < body[k] PROVE i \in Kept
      <3>1. body[k] \in 1..n
        BY <1>1
      <3>. QED  BY <1>4, <2>1, <2>3, <3>1
    <2>. QED  BY <1>9, <2>2, <2>3
  <1>. QED  BY <1>1, <1>8, <1>9 DEF BodyIsKeptAnswer, KeptAnswer

\* Whatever frames the agent sends and whatever the timers and the client do, the
\* client gets the agent's chunks in order and none twice; and, until the delivery
\* timer gives a frame up, none is missing before another or before the agent's end
\* (deliverGateway, streamGatewayResponse).
THEOREM BodyInOrder == Spec => []BodyIsWhatAgentSent
  <1>1. Init => OnlyTailDropped
    BY DEF Init, OnlyTailDropped
  <1>2. BodyInv /\ OnlyTailDropped /\ [Next]_vars => BodyInv' /\ OnlyTailDropped'
    BY BodyStep, TailStep
  <1>3. BodyInv /\ OnlyTailDropped => BodyIsWhatAgentSent
    BY TailMissing
  <1>. QED  BY <1>1, <1>2, <1>3, BodyStart, PTL DEF Spec
=============================================================================
