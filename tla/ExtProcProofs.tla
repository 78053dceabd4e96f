--------------------------- MODULE ExtProcProofs ---------------------------
(* Proofs about the capture path, for any calls, traffic, mode and limits:   *)
(* the slots and bytes of the dispatcher are exact, a call is counted once,  *)
(* and a turn the server read is stored once unless the write failed, can be *)
(* read and marks the bytes it lost.                                         *)
EXTENDS ExtProc, FoldTheorems, TLAPS

\* What the two properties need of the types: the maps have the calls as
\* domain, and a dispatch and a stream have the fields the steps read.
Fields == {"phase", "turn", "chunks", "req", "over", "reqEOS", "duplex",
           "status", "parts", "resp", "respEOS", "done"}

Shape ==
    /\ sem \in Int
    /\ DOMAIN stream = Streams
    /\ DOMAIN post = Streams
    /\ DOMAIN outcome = Streams
    /\ \A s \in Streams :
        /\ "state" \in DOMAIN post[s]
        /\ Fields \subseteq DOMAIN stream[s]
        /\ stream[s].phase \in {"idle", "open", "closed"}
        /\ stream[s].done \in BOOLEAN /\ stream[s].reqEOS \in BOOLEAN

\* Where a call stands decides how many outcomes it has: none before the end
\* of its response or of its stream, and none while its dispatch is under way.
Counted(s) ==
    /\ stream[s].phase = "idle" => ~stream[s].done /\ ~stream[s].reqEOS
    /\ stream[s].phase # "closed" /\ ~stream[s].done =>
           post[s].state = "none" /\ outcome[s] = <<>>
    /\ post[s].state \in {"ready", "sent"} => outcome[s] = <<>>
    /\ post[s].state \notin {"none", "ready", "sent"} => Len(outcome[s]) = 1
    /\ post[s].state = "none" => Len(outcome[s]) <= 1
    /\ post[s].state = "none" /\ stream[s].done => Len(outcome[s]) = 1
    /\ post[s].state = "none" /\ stream[s].phase = "closed"
           /\ stream[s].reqEOS => Len(outcome[s]) = 1

Inv == Shape /\ SlotsExact /\ \A s \in Streams : Counted(s)

----------------------------------------------------------------------------
\* What a step does to the dispatcher and the outcomes of a call.

Idle == UNCHANGED <<sem, post, outcome>>

Dropped(s) ==
    /\ \E reason : outcome' = [outcome EXCEPT ![s] = Append(@, reason)]
    /\ UNCHANGED <<sem, post>>

Started(s) ==
    /\ sem < MaxInflight /\ sem' = sem + 1 /\ UNCHANGED outcome
    /\ \E d : /\ "state" \in DOMAIN d /\ d.state = "ready"
              /\ post' = [post EXCEPT ![s] = d]

Settled(s) ==
    /\ post[s].state \in {"ready", "sent"}
    /\ post' = [post EXCEPT ![s].state = "settled"]
    /\ \E reason : outcome' = [outcome EXCEPT ![s] = Append(@, reason)]
    /\ UNCHANGED sem

\* An attempt begins or another one follows it.
Attempted(s) ==
    /\ post[s].state \in {"ready", "sent"}
    /\ DOMAIN post' = Streams
    /\ \A t \in Streams \ {s} : post'[t] = post[t]
    /\ "state" \in DOMAIN post'[s] /\ post'[s].state \in {"ready", "sent"}
    /\ UNCHANGED <<sem, outcome>>

\* A stream changes the way the message allows: its request or its response
\* goes on, or it closes.
Kept(s) == \A t \in Streams \ {s} : stream'[t] = stream[t]

LEMMA AppendOne == \A reason : Len(Append(<<>>, reason)) = 1
<1> TAKE reason
<1>1. <<>> \in Seq({reason}) /\ reason \in {reason}
  OBVIOUS
<1> QED
  BY <1>1

LEMMA StreamFields ==
    ASSUME Inv, NEW s \in Streams
    PROVE  /\ DOMAIN stream = Streams /\ DOMAIN post = Streams
           /\ Fields \subseteq DOMAIN stream[s]
           /\ stream[s].done \in BOOLEAN /\ stream[s].reqEOS \in BOOLEAN
BY DEF Inv, Shape

\* Dispatch and the guards before it end a call or start its dispatch.
LEMMA DispatchTurnEffect ==
    ASSUME NEW s \in Streams, NEW st, DispatchTurn(s, st)
    PROVE  Dropped(s) \/ Started(s)
<1>1. CASE Refusal(st) # "none"
  BY <1>1 DEF DispatchTurn, RecordDrop, Dropped
<1>2. CASE Refusal(st) = "none"
  <2>1. Dispatch(s, st)
    BY <1>2 DEF DispatchTurn
  <2> DEFINE env    == EnforceBodyLimit(DecideRawLane(st.resp, DecodedReq(st)),
                                        st.turn, DecodedReq(st))
             weight == PayloadSize(env, st.turn, DecodedReq(st))
             d == [state |-> "ready", attempt |-> 1, env |-> env,
                   weight |-> weight, whole |-> st.reqEOS]
  <2>2. RecordDrop(s, "semaphore_full") \/ RecordDrop(s, "marshal_error")
          \/ (/\ sem < MaxInflight /\ sem' = sem + 1 /\ UNCHANGED outcome
              /\ post' = [post EXCEPT ![s] = d])
    BY <2>1 DEF Dispatch
  <2>3. "state" \in DOMAIN d /\ d.state = "ready"
    OBVIOUS
  <2> HIDE DEF d
  <2>4. CASE RecordDrop(s, "semaphore_full") \/ RecordDrop(s, "marshal_error")
    BY <2>4 DEF RecordDrop, Dropped
  <2>5. CASE /\ sem < MaxInflight /\ sem' = sem + 1 /\ UNCHANGED outcome
             /\ post' = [post EXCEPT ![s] = d]
    BY <2>3, <2>5 DEF Started
  <2> QED
    BY <2>2, <2>4, <2>5
<1> QED
  BY <1>1, <1>2

----------------------------------------------------------------------------
\* The effects keep the account of the slots.

LEMMA InFlightFinite == IsFiniteSet(InFlight)
  BY LimitsAssumption, FS_Subset DEF LimitsAssumption, InFlight

LEMMA StartedSlots ==
    ASSUME NEW s \in Streams, DOMAIN post = Streams, SlotsExact,
           post[s].state = "none", Started(s)
    PROVE  SlotsExact'
<1>1. InFlight' = InFlight \cup {s} /\ s \notin InFlight
  BY DEF Started, InFlight
<1>2. Cardinality(InFlight') = Cardinality(InFlight) + 1
  BY <1>1, InFlightFinite, FS_AddElement
<1>3. Cardinality(InFlight) \in Nat
  BY InFlightFinite, FS_CardinalityType
<1> QED
  BY <1>2, <1>3, LimitsAssumption DEF Started, SlotsExact, LimitsAssumption

LEMMA SameSlots ==
    ASSUME SlotsExact, UNCHANGED sem, InFlight' = InFlight
    PROVE  SlotsExact'
  BY DEF SlotsExact

LEMMA ReleaseSlots ==
    ASSUME NEW s \in Streams, DOMAIN post = Streams, SlotsExact,
           "state" \in DOMAIN post[s], Release(s)
    PROVE  SlotsExact'
<1>1. InFlight' = InFlight \ {s} /\ s \in InFlight
  BY DEF Release, InFlight
<1>2. Cardinality(InFlight') = Cardinality(InFlight) - 1
  BY <1>1, InFlightFinite, FS_RemoveElement
<1>3. Cardinality(InFlight) \in Nat
  BY InFlightFinite, FS_CardinalityType
<1> QED
  BY <1>2, <1>3, LimitsAssumption DEF Release, SlotsExact, LimitsAssumption

----------------------------------------------------------------------------
\* One lemma for each way a step moves a call: the stream goes on and nothing
\* is recorded, the turn ends, or the dispatch moves.

\* The stream of s goes on: phase, end marks and nothing of another call.
Goes(s, phase, done, reqEOS) ==
    /\ DOMAIN stream' = Streams /\ Kept(s)
    /\ Fields \subseteq DOMAIN stream'[s]
    /\ stream'[s].phase = phase
    /\ stream'[s].done = done /\ done \in BOOLEAN
    /\ stream'[s].reqEOS = reqEOS /\ reqEOS \in BOOLEAN

\* The callbacks before the response body change one stream that stays open.
Proceeds(s) ==
    /\ Goes(s, "open", stream[s].done, stream'[s].reqEOS)
    /\ stream'[s].parts = stream[s].parts /\ stream'[s].resp = stream[s].resp

LEMMA StreamProceeds ==
    ASSUME Inv, NEW s \in Streams, NEW next, stream' = [stream EXCEPT ![s] = next],
           Fields \subseteq DOMAIN next, next.phase = "open", next.done = stream[s].done,
           next.reqEOS \in BOOLEAN, next.parts = stream[s].parts, next.resp = stream[s].resp
    PROVE  Proceeds(s) /\ stream'[s] = next
<1>1. stream'[s] = next /\ Kept(s) /\ DOMAIN stream' = Streams
  BY StreamFields DEF Kept
<1>2. QED
  BY <1>1, StreamFields DEF Proceeds, Goes

LEMMA RequestHeadersProceed ==
    ASSUME Inv, NEW s \in Streams, NEW turn, OnRequestHeaders(s, turn)
    PROVE  Proceeds(s) /\ stream'[s].turn = turn /\ stream'[s].reqEOS = stream[s].reqEOS
<1> DEFINE next == [stream[s] EXCEPT !.phase = "open", !.turn = turn]
<1>1. stream' = [stream EXCEPT ![s] = next]
  BY DEF OnRequestHeaders
<1>2. DOMAIN next = DOMAIN stream[s]
  OBVIOUS
<1>3. /\ next.phase = "open" /\ next.turn = turn
      /\ next.done = stream[s].done /\ next.reqEOS = stream[s].reqEOS
      /\ next.parts = stream[s].parts /\ next.resp = stream[s].resp
  BY StreamFields DEF Fields
<1> HIDE DEF next
<1>4. QED
  BY <1>1, <1>2, <1>3, StreamFields, StreamProceeds

LEMMA RequestBodyProceeds ==
    ASSUME Inv, NEW s \in Streams, OnRequestBody(s)
    PROVE  Proceeds(s) /\ stream'[s].turn = stream[s].turn
<1> DEFINE st   == stream[s]
           size == st.turn.req[st.chunks + 1]
           over == st.over \/ st.req + size > RequestBudget
           eos  == st.chunks + 1 = Len(st.turn.req)
           shed == over \/ (eos /\ st.turn.decoded = "big")
           streaming == st.turn.decoded = "ok" /\ st.turn.json /\ st.turn.stream
           next == [st EXCEPT !.chunks = @ + 1, !.req = IF over THEN @ ELSE @ + size,
                              !.over = shed, !.reqEOS = eos,
                              !.duplex = eos /\ st.turn.reducer
                                             /\ (shed \/ streaming)]
<1>1. st.phase = "open" /\ stream' = [stream EXCEPT ![s] = next]
  BY Zenon DEF OnRequestBody
<1>2. eos \in BOOLEAN
  BY Zenon
<1> HIDE DEF shed, over, size, eos, streaming
<1>3. DOMAIN next = DOMAIN stream[s]
  OBVIOUS
<1>4. /\ next.phase = stream[s].phase /\ next.turn = stream[s].turn
      /\ next.done = stream[s].done /\ next.reqEOS = eos
      /\ next.parts = stream[s].parts /\ next.resp = stream[s].resp
  BY StreamFields DEF Fields
<1> HIDE DEF next
<1>5. QED
  BY <1>1, <1>2, <1>3, <1>4, StreamFields, StreamProceeds

LEMMA ResponseHeadersProceed ==
    ASSUME Inv, NEW s \in Streams, OnResponseHeaders(s)
    PROVE  /\ Proceeds(s) /\ stream'[s].turn = stream[s].turn
           /\ stream'[s].reqEOS = stream[s].reqEOS
<1> DEFINE next == [stream[s] EXCEPT !.status = stream[s].turn.status]
<1>1. stream[s].phase = "open" /\ stream' = [stream EXCEPT ![s] = next]
  BY DEF OnResponseHeaders
<1>2. DOMAIN next = DOMAIN stream[s]
  OBVIOUS
<1>3. /\ next.phase = stream[s].phase /\ next.turn = stream[s].turn
      /\ next.done = stream[s].done /\ next.reqEOS = stream[s].reqEOS
      /\ next.parts = stream[s].parts /\ next.resp = stream[s].resp
  BY StreamFields DEF Fields
<1> HIDE DEF next
<1>4. QED
  BY <1>1, <1>2, <1>3, StreamFields, StreamProceeds

LEMMA OthersCounted ==
    ASSUME Shape, NEW s \in Streams, NEW t \in Streams \ {s}, Counted(t),
           stream'[t] = stream[t], post'[t] = post[t], outcome'[t] = outcome[t]
    PROVE  Counted(t)'
  BY DEF Counted

LEMMA StreamGoesOn ==
    ASSUME Inv, NEW s \in Streams, NEW reqEOS, Idle,
           stream[s].phase \in {"idle", "open"},
           Goes(s, "open", stream[s].done, reqEOS)
    PROVE  Inv'
<1>1. Shape'
  BY DEF Inv, Shape, Idle, Goes, Kept
<1>2. SlotsExact'
  BY SameSlots DEF Inv, Idle, InFlight
<1>3. ASSUME NEW t \in Streams PROVE Counted(t)'
  <2>1. CASE t = s
    BY <2>1 DEF Inv, Shape, Counted, Idle, Goes
  <2>2. CASE t # s
    BY <2>2, OthersCounted DEF Inv, Idle, Goes, Kept
  <2> QED
    BY <2>1, <2>2
<1> QED
  BY <1>1, <1>2, <1>3 DEF Inv

\* The stream closes: after the end of its turn, or with nothing to count.
LEMMA StreamCloses ==
    ASSUME Inv, NEW s \in Streams, Idle, stream[s].phase = "open",
           Goes(s, "closed", stream[s].done, stream[s].reqEOS),
           stream[s].done \/ ~stream[s].reqEOS
    PROVE  Inv'
<1>1. Shape'
  BY DEF Inv, Shape, Idle, Goes, Kept
<1>2. SlotsExact'
  BY SameSlots DEF Inv, Idle, InFlight
<1>3. ASSUME NEW t \in Streams PROVE Counted(t)'
  <2>1. CASE t = s
    BY <2>1 DEF Inv, Shape, Counted, Idle, Goes
  <2>2. CASE t # s
    BY <2>2, OthersCounted DEF Inv, Idle, Goes, Kept
  <2> QED
    BY <2>1, <2>2
<1> QED
  BY <1>1, <1>2, <1>3 DEF Inv

\* The turn ends, at the end of the response or of the stream: it is counted
\* as dropped, or its dispatch starts.
LEMMA TurnEnds ==
    ASSUME Inv, NEW s \in Streams, NEW phase \in {"open", "closed"}, NEW done,
           Dropped(s) \/ Started(s),
           stream[s].phase = "open", ~stream[s].done,
           Goes(s, phase, done, stream[s].reqEOS), done \/ phase = "closed"
    PROVE  Inv'
<1>1. post[s].state = "none" /\ outcome[s] = <<>>
  BY DEF Inv, Shape, Counted
<1>2. CASE Dropped(s)
  <2>1. Shape'
    BY <1>2 DEF Inv, Shape, Dropped, Goes, Kept
  <2>2. SlotsExact'
    BY <1>2, SameSlots DEF Inv, Dropped, InFlight
  <2>3. Len(outcome'[s]) = 1
    BY <1>1, <1>2, AppendOne DEF Dropped, Inv, Shape
  <2>4. ASSUME NEW t \in Streams PROVE Counted(t)'
    <3>1. CASE t = s
      BY <1>1, <1>2, <2>3, <3>1 DEF Inv, Shape, Counted, Dropped, Goes
    <3>2. CASE t # s
      BY <1>2, <3>2, OthersCounted DEF Inv, Shape, Dropped, Goes, Kept
    <3> QED
      BY <3>1, <3>2
  <2> QED
    BY <2>1, <2>2, <2>4 DEF Inv
<1>3. CASE Started(s)
  <2>1. Shape'
    BY <1>3, LimitsAssumption DEF Inv, Shape, Started, Goes, Kept
  <2>2. SlotsExact'
    BY <1>1, <1>3, StartedSlots DEF Inv, Shape
  <2>3. ASSUME NEW t \in Streams PROVE Counted(t)'
    <3>1. CASE t = s
      BY <1>1, <1>3, <3>1 DEF Inv, Shape, Counted, Started, Goes
    <3>2. CASE t # s
      BY <1>3, <3>2, OthersCounted DEF Inv, Shape, Started, Goes, Kept
    <3> QED
      BY <3>1, <3>2
  <2> QED
    BY <2>1, <2>2, <2>3 DEF Inv
<1> QED
  BY <1>2, <1>3

\* A dispatch settles: its one outcome is recorded.
LEMMA DispatchSettles ==
    ASSUME Inv, NEW s \in Streams, Settled(s), UNCHANGED stream
    PROVE  Inv'
<1>1. outcome[s] = <<>>
  BY DEF Inv, Counted, Settled
<1>2. Shape'
  BY DEF Inv, Shape, Settled
<1>3. SlotsExact'
  <2>1. InFlight' = InFlight
    BY DEF Settled, InFlight, Inv, Shape
  <2> QED
    BY <2>1, SameSlots DEF Inv, Settled
<1>4. Len(outcome'[s]) = 1
  BY <1>1, AppendOne DEF Settled, Inv, Shape
<1>5. ASSUME NEW t \in Streams PROVE Counted(t)'
  <2>1. CASE t = s
    BY <1>4, <2>1 DEF Inv, Shape, Counted, Settled
  <2>2. CASE t # s
    BY <2>2, OthersCounted DEF Inv, Shape, Settled
  <2> QED
    BY <2>1, <2>2
<1> QED
  BY <1>2, <1>3, <1>5 DEF Inv

LEMMA DispatchGoesOn ==
    ASSUME Inv, NEW s \in Streams, Attempted(s), UNCHANGED stream
    PROVE  Inv'
<1>1. Shape'
  BY DEF Inv, Shape, Attempted
<1>2. InFlight' = InFlight
  BY DEF Attempted, InFlight
<1>3. SlotsExact'
  BY <1>2, SameSlots DEF Inv, Attempted
<1>4. ASSUME NEW t \in Streams PROVE Counted(t)'
  <2>1. CASE t = s
    BY <2>1 DEF Inv, Counted, Attempted
  <2>2. CASE t # s
    BY <2>2, OthersCounted DEF Inv, Attempted
  <2> QED
    BY <2>1, <2>2
<1> QED
  BY <1>1, <1>3, <1>4 DEF Inv

\* A failed attempt is followed by another or settles the dispatch.
LEMMA AttemptFailedEffect ==
    ASSUME Inv, NEW s \in Streams, post[s].state \in {"ready", "sent"},
           AttemptFailed(s), UNCHANGED sem
    PROVE  Settled(s) \/ Attempted(s)
  BY DEF Inv, Shape, AttemptFailed, Settle, Settled, Attempted

----------------------------------------------------------------------------
\* No call is in flight or counted before the first callback.
THEOREM InitInv == Init => Inv
<1> SUFFICES ASSUME Init PROVE Inv
  OBVIOUS
<1>1. Shape
  <2>1. Fields \subseteq DOMAIN NoStream
    BY DEF Fields, NoStream
  <2>2. /\ NoStream.phase = "idle" /\ NoStream.done = FALSE
        /\ NoStream.reqEOS = FALSE
    BY DEF NoStream
  <2>3. "state" \in DOMAIN NoPost
    BY DEF NoPost
  <2>4. /\ sem = 0 /\ stream = [s \in Streams |-> NoStream]
        /\ post = [s \in Streams |-> NoPost]
        /\ outcome = [s \in Streams |-> <<>>]
    BY DEF Init
  <2>5. DOMAIN stream = Streams /\ DOMAIN post = Streams /\ DOMAIN outcome = Streams
    BY <2>4
  <2>6. \A s \in Streams : stream[s] = NoStream /\ post[s] = NoPost
    BY <2>4
  <2>7. ASSUME NEW s \in Streams
        PROVE  /\ "state" \in DOMAIN post[s] /\ Fields \subseteq DOMAIN stream[s]
               /\ stream[s].phase \in {"idle", "open", "closed"}
               /\ stream[s].done \in BOOLEAN /\ stream[s].reqEOS \in BOOLEAN
    <3>1. "state" \in DOMAIN post[s] /\ Fields \subseteq DOMAIN stream[s]
      BY <2>1, <2>3, <2>6
    <3>2. stream[s].phase = "idle" /\ stream[s].done = FALSE /\ stream[s].reqEOS = FALSE
      BY <2>2, <2>6
    <3> QED
      BY <3>1, <3>2
  <2> QED
    BY <2>4, <2>5, <2>7 DEF Shape
<1>2. InFlight = {}
  BY DEF Init, InFlight, NoPost
<1>3. SlotsExact
  BY <1>2, FS_EmptySet, LimitsAssumption DEF Init, SlotsExact, LimitsAssumption
<1>4. ASSUME NEW s \in Streams PROVE Counted(s)
  BY DEF Init, Counted, NoStream, NoPost
<1> QED
  BY <1>1, <1>3, <1>4 DEF Inv

\* Every callback, post and release keeps slots and counts.
THEOREM StepInv == Inv /\ [Next]_vars => Inv'
<1> SUFFICES ASSUME Inv, [Next]_vars PROVE Inv'
  OBVIOUS
<1>1. CASE UNCHANGED vars
  BY <1>1 DEF vars, Inv, Shape, SlotsExact, InFlight, Counted
<1>2. ASSUME NEW s \in Streams, NEW turn, OnRequestHeaders(s, turn) PROVE Inv'
  <2>1. Idle /\ stream[s].phase = "idle"
    BY <1>2 DEF OnRequestHeaders, Idle
  <2>2. Goes(s, "open", stream[s].done, stream[s].reqEOS)
    BY <1>2, RequestHeadersProceed DEF Proceeds
  <2> QED
    BY <2>1, <2>2, StreamGoesOn
<1>3. ASSUME NEW s \in Streams, OnRequestBody(s) PROVE Inv'
  <2>1. Idle /\ stream[s].phase = "open"
    BY <1>3 DEF OnRequestBody, Idle
  <2>2. Goes(s, "open", stream[s].done, stream'[s].reqEOS)
    BY <1>3, RequestBodyProceeds DEF Proceeds
  <2> QED
    BY <2>1, <2>2, StreamGoesOn
<1>4. ASSUME NEW s \in Streams, OnResponseHeaders(s) PROVE Inv'
  <2>1. Idle /\ stream[s].phase = "open"
    BY <1>4 DEF OnResponseHeaders, Idle
  <2>2. Goes(s, "open", stream[s].done, stream[s].reqEOS)
    BY <1>4, ResponseHeadersProceed DEF Proceeds
  <2> QED
    BY <2>1, <2>2, StreamGoesOn
<1>5. ASSUME NEW s \in Streams, NEW filled \in BOOLEAN, NEW eos \in BOOLEAN,
             OnResponseBody(s, filled, eos)
      PROVE  Inv'
  <2> DEFINE st   == stream[s]
             next == [st EXCEPT
                        !.parts = IF filled THEN @ + 1 ELSE @,
                        !.resp = IF filled THEN @ + st.turn.resp[st.parts + 1] ELSE @,
                        !.respEOS = eos, !.done = eos]
  <2>1. /\ stream[s].phase = "open" /\ ~stream[s].done
        /\ stream' = [stream EXCEPT ![s] = next]
    BY <1>5 DEF OnResponseBody, Inv, Shape
  <2>2. Goes(s, "open", eos, stream[s].reqEOS)
    BY <2>1 DEF Goes, Kept, Inv, Shape, Fields
  <2>3. CASE ~eos
    <3>1. Idle
      BY <1>5, <2>3 DEF OnResponseBody, Idle
    <3> QED
      BY <2>1, <2>2, <2>3, <3>1, StreamGoesOn DEF Inv, Shape
  <2>4. CASE eos
    <3>1. DispatchTurn(s, next) \/ RecordDrop(s, "missing_status")
            \/ RecordDrop(s, "upstream_status")
      BY <1>5, <2>4 DEF OnResponseBody
    <3> HIDE DEF next
    <3>2. Dropped(s) \/ Started(s)
      BY <3>1, DispatchTurnEffect DEF RecordDrop, Dropped
    <3> QED
      BY <2>1, <2>2, <2>4, <3>2, TurnEnds
  <2> QED
    BY <2>3, <2>4
<1>6. ASSUME NEW s \in Streams, Hangup(s) PROVE Inv'
  <2>1. /\ stream[s].phase = "open"
        /\ Goes(s, "closed", stream[s].done, stream[s].reqEOS)
    BY <1>6 DEF Hangup, Goes, Kept, Inv, Shape, Fields
  <2>2. CASE stream[s].done
    <3>1. Idle
      BY <1>6, <2>2 DEF Hangup, Idle
    <3> QED
      BY <2>1, <2>2, <3>1, StreamCloses
  <2>3. CASE ~stream[s].done /\ Idle /\ ~stream[s].reqEOS
    BY <2>1, <2>3, StreamCloses
  <2>4. CASE ~stream[s].done /\ (Dropped(s) \/ Started(s))
    BY <2>1, <2>4, TurnEnds DEF Inv, Shape
  <2>5. ~stream[s].done => \/ DispatchTurn(s, stream[s])
                           \/ \E reason : RecordDrop(s, reason)
                           \/ Idle /\ ~stream[s].reqEOS
    BY <1>6 DEF Hangup, Idle
  <2>6. ~stream[s].done => \/ Dropped(s) \/ Started(s)
                           \/ Idle /\ ~stream[s].reqEOS
    BY <2>5, DispatchTurnEffect DEF RecordDrop, Dropped
  <2> QED
    BY <2>2, <2>3, <2>4, <2>6
<1>7. ASSUME NEW s \in Streams, Post(s) PROVE Inv'
  BY <1>7, DispatchGoesOn DEF Post, Attempted, Inv, Shape
<1>8. ASSUME NEW s \in Streams, NetworkError(s) PROVE Inv'
  <2>1. Settled(s) \/ Attempted(s)
    BY <1>8, AttemptFailedEffect DEF NetworkError
  <2> QED
    BY <1>8, <2>1, DispatchSettles, DispatchGoesOn DEF NetworkError
<1>9. ASSUME NEW s \in Streams, Answered(s) PROVE Inv'
  <2>1. \/ AttemptFailed(s)
        \/ \E reason : Settle(s, reason)
    BY <1>9 DEF Answered
  <2>2. post[s].state = "sent" /\ UNCHANGED <<stream, sem>>
    BY <1>9 DEF Answered
  <2>3. Settled(s) \/ Attempted(s)
    BY <2>1, <2>2, AttemptFailedEffect DEF Settle, Settled
  <2> QED
    BY <2>2, <2>3, DispatchSettles, DispatchGoesOn
<1>10. ASSUME NEW s \in Streams, Release(s) PROVE Inv'
  <2>1. Shape'
    BY <1>10 DEF Release, Inv, Shape
  <2>2. SlotsExact'
    BY <1>10, ReleaseSlots DEF Inv, Shape
  <2>3. ASSUME NEW t \in Streams PROVE Counted(t)'
    BY <1>10 DEF Release, Inv, Shape, Counted
  <2> QED
    BY <2>1, <2>2, <2>3 DEF Inv
<1>11. ASSUME NEW s \in Streams, IngestStep(s) PROVE Inv'
  <2>1. UNCHANGED <<stream, sem, post, outcome>>
    BY <1>11 DEF IngestStep, PersistRawTurn, ProcessTurn
  <2> QED
    BY <2>1 DEF Inv, Shape, SlotsExact, InFlight, Counted
<1> QED
  BY <1>1, <1>2, <1>3, <1>4, <1>5, <1>6, <1>7, <1>8, <1>9, <1>10, <1>11
     DEF Next, StreamStep, DispatchStep

\* Slots and counts are right in every state (Dispatch, postWithRetry).
THEOREM Invariant == Spec => []Inv
  BY InitInv, StepInv, PTL DEF Spec

\* The slots the dispatcher believes in use are the dispatches under way, and
\* never more than the limit: Dispatch and the deferred release of
\* postWithRetry balance on every path.
THEOREM SlotsAreExact == Spec => []SlotsExact
<1>1. Inv => SlotsExact
  BY DEF Inv
<1> QED
  BY <1>1, Invariant, PTL

\* No call is counted twice, and none whose request ended is left uncounted:
\* the deferred classification of Process and the outcomes of postWithRetry
\* exclude each other and leave no gap.
THEOREM CallsAreCountedOnce == Spec => []CountedOnce
<1>1. Inv => CountedOnce
  BY DEF Inv, Counted, CountedOnce, InFlight, Shape
<1> QED
  BY <1>1, Invariant, PTL

----------------------------------------------------------------------------
\* The rows. An envelope is sound when it carries a half a reduction can come
\* from, and withholds bytes exactly where it has none of those it should have.

Sound(env) ==
    /\ env.raw \in Nat
    /\ env.reduced \/ env.raw > 0
    /\ IF Mode = "off" THEN env.raw = 0 /\ ~env.withheld
       ELSE env.withheld <=> env.raw = 0

GoodRow(row) ==
    /\ row.reduced # "none"
    /\ IF Mode = "off" THEN ~row.dropped ELSE row.dropped <=> row.raw = 0

\* decideRawLane attaches the bytes or marks them, and drops the reduction only
\* for bytes it attaches.
LEMMA DecidedIsSound ==
    ASSUME NEW raw \in Nat, raw > 0, NEW req
    PROVE  Sound(DecideRawLane(raw, req))
<1> DEFINE e == DecideRawLane(raw, req)
<1>1. /\ e.raw = IF Mode \in {"dual", "raw"} /\ RawResponseFits(raw, req) THEN raw ELSE 0
      /\ e.reduced <=> ~(Mode = "raw" /\ RawResponseFits(raw, req))
      /\ e.withheld <=> Mode \in {"dual", "raw"} /\ ~RawResponseFits(raw, req)
  BY Zenon DEF DecideRawLane
<1> HIDE DEF e
<1>2. CASE Mode = "off"
  <2>1. e.raw = 0 /\ ~e.withheld /\ e.reduced
    BY <1>1, <1>2
  <2> QED
    BY <1>2, <2>1 DEF Sound, e
<1>3. CASE Mode \in {"dual", "raw"} /\ RawResponseFits(raw, req)
  <2>1. e.raw = raw /\ ~e.withheld
    BY <1>1, <1>3
  <2> QED
    BY <1>3, <2>1 DEF Sound, e
<1>4. CASE Mode \in {"dual", "raw"} /\ ~RawResponseFits(raw, req)
  <2>1. e.raw = 0 /\ e.withheld /\ e.reduced
    BY <1>1, <1>4
  <2> QED
    BY <1>4, <2>1 DEF Sound, e
<1> QED
  BY <1>2, <1>3, <1>4, ModeAssumption DEF ModeAssumption

\* enforceBodyLimit puts the reduction back where it strips the bytes.
LEMMA EnforcedIsSound ==
    ASSUME NEW env, NEW turn, NEW req, Sound(env)
    PROVE  Sound(EnforceBodyLimit(env, turn, req))
<1> DEFINE kept == PayloadSize(env, turn, req) <= BodyLimit \/ env.raw = 0
<1>1. CASE kept
  BY <1>1 DEF EnforceBodyLimit
<1>2. CASE ~kept
  BY <1>2 DEF EnforceBodyLimit, Sound
<1> QED
  BY <1>1, <1>2

LEMMA SoundMakesGoodRow ==
    ASSUME NEW env, NEW turn, Sound(env), turn.reduces # "none"
    PROVE  GoodRow(Row(env, turn))
<1>1. RawCap \in Nat
  BY LimitsAssumption DEF LimitsAssumption
<1>2. Row(env, turn).reduced = turn.reduces
  BY DEF Row, Reduction, Sound
<1> DEFINE row == Row(env, turn)
<1>3. /\ row.raw = IF env.raw > RawCap THEN 0 ELSE env.raw
      /\ row.dropped <=> env.raw > RawCap \/ (env.withheld /\ env.raw = 0)
  BY DEF Row
<1> HIDE DEF row
<1>4. IF Mode = "off" THEN ~row.dropped ELSE row.dropped <=> row.raw = 0
  <2>1. CASE Mode = "off"
    BY <1>1, <1>3, <2>1 DEF Sound
  <2>2. CASE Mode # "off" /\ env.raw > RawCap
    BY <1>1, <1>3, <2>2 DEF Sound
  <2>3. CASE Mode # "off" /\ ~(env.raw > RawCap)
    BY <1>1, <1>3, <2>3 DEF Sound
  <2> QED
    BY <2>1, <2>2, <2>3
<1> QED
  BY <1>2, <1>4 DEF GoodRow, row

\* What a step needs of the types here, and what the rows rest on: a stream
\* keeps its traffic once it has begun, a dispatch has a sound envelope, and a
\* handler that answers what is not a refusal of the envelope has written first.
RowShape ==
    /\ DOMAIN handler = Streams /\ DOMAIN rows = Streams
    /\ \A s \in Streams : DOMAIN handler[s] = Attempts
    /\ \A s \in Streams, a \in Attempts : "stage" \in DOMAIN handler[s][a]

Carried(s) ==
    /\ stream[s].phase # "idle" => stream[s].turn \in Turns[s]
    /\ stream[s].parts \in Nat /\ stream[s].resp \in Nat

Posted(s) ==
    post[s].state # "none" =>
        /\ stream[s].phase # "idle" /\ "env" \in DOMAIN post[s]
        /\ GoodRow(Row(post[s].env, stream[s].turn))

Handled(s, a) ==
    LET h == handler[s][a]
    IN  /\ h.stage \in {"none", "arrived", "stored", "done"}
        /\ h.stage # "none" => post[s].state # "none"
        /\ h.stage = "stored" \/ (h.stage = "done" /\ h.code \notin {400, 413}) =>
               rows[s] # <<>> \/ s \in unsaved

Readable(s) == \A i \in DOMAIN rows[s] : GoodRow(rows[s][i])

RowInv ==
    /\ RowShape
    /\ \A s \in Streams : Carried(s) /\ Posted(s) /\ Readable(s)
    /\ \A s \in Streams, a \in Attempts : Handled(s, a)

\* A dispatch that starts has a sound envelope: every guard of dispatchTurn
\* comes before it, the one on an empty response too.
Offered(s, turn) ==
    \/ UNCHANGED post
    \/ \E d : /\ "env" \in DOMAIN d /\ "state" \in DOMAIN d
             /\ d.state # "none" /\ GoodRow(Row(d.env, turn))
             /\ post' = [post EXCEPT ![s] = d]

LEMMA DispatchTurnOffers ==
    ASSUME NEW s \in Streams, NEW st, st.turn \in Turns[s], st.resp \in Nat,
           DispatchTurn(s, st)
    PROVE  Offered(s, st.turn)
<1>1. CASE Refusal(st) # "none"
  BY <1>1 DEF DispatchTurn, RecordDrop, Offered
<1>2. CASE Refusal(st) = "none"
  <2> DEFINE env    == EnforceBodyLimit(DecideRawLane(st.resp, DecodedReq(st)),
                                        st.turn, DecodedReq(st))
             weight == PayloadSize(env, st.turn, DecodedReq(st))
             d == [state |-> "ready", attempt |-> 1, env |-> env,
                   weight |-> weight, whole |-> st.reqEOS]
  <2>1. st.resp > 0
    BY <1>2 DEF Refusal
  <2>2. Sound(env)
    BY <2>1, DecidedIsSound, EnforcedIsSound
  <2>3. st.turn.reduces # "none"
    BY TrafficAssumption DEF TrafficAssumption
  <2>4. GoodRow(Row(env, st.turn))
    BY <2>2, <2>3, SoundMakesGoodRow
  <2>5. UNCHANGED post \/ post' = [post EXCEPT ![s] = d]
    BY <1>2 DEF DispatchTurn, Dispatch, RecordDrop
  <2>6. /\ "env" \in DOMAIN d /\ "state" \in DOMAIN d
        /\ d.state # "none" /\ d.env = env
    OBVIOUS
  <2> HIDE DEF d, env
  <2> QED
    BY <2>4, <2>5, <2>6 DEF Offered
<1> QED
  BY <1>1, <1>2

\* The stream of s goes on with the turn it carries, and may offer it.
LEMMA StreamKeepsRows ==
    ASSUME RowInv, NEW s \in Streams, UNCHANGED ingestVars,
           DOMAIN post = Streams, Kept(s), stream'[s].phase # "idle",
           stream'[s].turn \in Turns[s],
           stream'[s].parts \in Nat, stream'[s].resp \in Nat,
           post[s].state # "none" => stream'[s].turn = stream[s].turn,
           Offered(s, stream'[s].turn)
    PROVE  RowInv'
<1>1. RowShape'
  BY DEF RowInv, RowShape, ingestVars
<1>2. ASSUME NEW t \in Streams PROVE Carried(t)'
  <2>1. CASE t = s
    BY <2>1 DEF Carried
  <2>2. CASE t # s
    BY <2>2 DEF Carried, RowInv, Kept
  <2> QED
    BY <2>1, <2>2
<1>3. ASSUME NEW t \in Streams PROVE Readable(t)'
  BY DEF Readable, RowInv, ingestVars
<1>4. ASSUME NEW t \in Streams PROVE Posted(t)' /\ (post[t].state # "none" => post'[t].state # "none")
  <2>1. CASE t # s
    BY <2>1 DEF Posted, RowInv, Kept, Offered
  <2>2. CASE t = s /\ UNCHANGED post
    BY <2>2 DEF Posted, RowInv
  <2>3. CASE t = s /\ ~UNCHANGED post
    <3>1. PICK d : /\ "env" \in DOMAIN d /\ "state" \in DOMAIN d
                   /\ d.state # "none" /\ GoodRow(Row(d.env, stream'[s].turn))
                   /\ post' = [post EXCEPT ![s] = d]
      BY <2>3 DEF Offered
    <3>2. post'[t] = d
      BY <2>3, <3>1
    <3> QED
      BY <2>3, <3>1, <3>2 DEF Posted
  <2> QED
    BY <2>1, <2>2, <2>3
<1>5. ASSUME NEW t \in Streams, NEW a \in Attempts PROVE Handled(t, a)'
  BY <1>4 DEF Handled, RowInv, ingestVars
<1> QED
  BY <1>1, <1>2, <1>3, <1>4, <1>5 DEF RowInv

\* A dispatch moves on with the envelope it has.
LEMMA DispatchKeepsRows ==
    ASSUME RowInv, UNCHANGED <<stream, rows, unsaved>>, RowShape',
           \A t \in Streams : post[t].state # "none" =>
               /\ "env" \in DOMAIN post'[t] /\ post'[t].env = post[t].env
               /\ post'[t].state # "none",
           \A t \in Streams : post[t].state = "none" => post'[t] = post[t],
           \A t \in Streams, a \in Attempts :
               \/ handler'[t][a] = handler[t][a]
               \/ handler'[t][a].stage = "arrived" /\ post'[t].state # "none"
    PROVE  RowInv'
<1>1. ASSUME NEW t \in Streams PROVE Carried(t)' /\ Readable(t)'
  BY DEF RowInv, Carried, Readable
<1>2. ASSUME NEW t \in Streams PROVE Posted(t)'
  BY DEF RowInv, Posted
<1>3. ASSUME NEW t \in Streams, NEW a \in Attempts PROVE Handled(t, a)'
  BY DEF RowInv, Handled
<1> QED
  BY <1>1, <1>2, <1>3 DEF RowInv

\* The handler stores the row of a sound envelope, or answers.
LEMMA HandlerKeepsRows ==
    ASSUME RowInv, NEW s \in Streams, NEW a \in Attempts,
           UNCHANGED <<stream, post>>, RowShape', unsaved \subseteq unsaved',
           handler[s][a].stage # "none",
           \A t \in Streams, b \in Attempts :
               t # s \/ b # a => handler'[t][b] = handler[t][b],
           \A t \in Streams : rows'[t] = rows[t] \/
               /\ t = s /\ rows'[s] = <<Row(post[s].env, stream[s].turn)>>,
           Handled(s, a)'
    PROVE  RowInv'
<1>1. ASSUME NEW t \in Streams PROVE Carried(t)' /\ Posted(t)'
  BY DEF RowInv, Carried, Posted
<1>2. post[s].state # "none"
  BY DEF RowInv, Handled
<1>3. GoodRow(Row(post[s].env, stream[s].turn))
  BY <1>2 DEF RowInv, Posted
<1>4. ASSUME NEW t \in Streams PROVE Readable(t)'
  <2>1. CASE rows'[t] = rows[t]
    BY <2>1 DEF RowInv, Readable
  <2>2. CASE t = s /\ rows'[s] = <<Row(post[s].env, stream[s].turn)>>
    BY <1>3, <2>2 DEF Readable
  <2> QED
    BY <2>1, <2>2
<1>5. ASSUME NEW t \in Streams, NEW b \in Attempts PROVE Handled(t, b)'
  <2>1. CASE t = s /\ b = a
    BY <2>1
  <2>2. CASE t # s \/ b # a
    BY <2>2 DEF RowInv, Handled
  <2> QED
    BY <2>1, <2>2
<1> QED
  BY <1>1, <1>4, <1>5 DEF RowInv

\* There is no row, envelope or handler before the first callback.
THEOREM InitRowInv == Init => RowInv
<1> SUFFICES ASSUME Init PROVE RowInv
  OBVIOUS
<1>1. RowShape
  BY DEF Init, RowShape
<1>2. ASSUME NEW s \in Streams PROVE Carried(s) /\ Posted(s)
  BY DEF Init, Carried, Posted, NoStream, NoPost
<1>3. ASSUME NEW s \in Streams PROVE Readable(s)
  BY DEF Init, Readable
<1>4. ASSUME NEW s \in Streams, NEW a \in Attempts PROVE Handled(s, a)
  BY DEF Init, Handled
<1> QED
  BY <1>1, <1>2, <1>3, <1>4 DEF RowInv

\* Every step keeps what an envelope, a handler and a row promise.
THEOREM StepRowInv == Inv /\ RowInv /\ [Next]_vars => RowInv'
<1> SUFFICES ASSUME Inv, RowInv, [Next]_vars PROVE RowInv'
  OBVIOUS
<1>1. CASE UNCHANGED vars
  BY <1>1 DEF vars, RowInv, RowShape, Carried, Posted, Readable, Handled
<1>2. ASSUME NEW s \in Streams, NEW turn \in Turns[s], OnRequestHeaders(s, turn)
      PROVE  RowInv'
  <2>1. post[s].state = "none"
    BY <1>2, Zenon DEF OnRequestHeaders, Inv, Counted
  <2>2. UNCHANGED ingestVars /\ UNCHANGED post
    BY <1>2 DEF OnRequestHeaders
  <2>3. /\ Kept(s) /\ stream'[s].phase = "open" /\ stream'[s].turn = turn
        /\ stream'[s].parts = stream[s].parts /\ stream'[s].resp = stream[s].resp
    BY <1>2, RequestHeadersProceed DEF Proceeds, Goes
  <2>4. DOMAIN post = Streams /\ stream[s].parts \in Nat /\ stream[s].resp \in Nat
    BY StreamFields DEF RowInv, Carried
  <2>5. Offered(s, turn)
    BY <2>2 DEF Offered
  <2> QED
    BY <2>1, <2>2, <2>3, <2>4, <2>5, StreamKeepsRows
<1>3. ASSUME NEW s \in Streams, OnRequestBody(s) \/ OnResponseHeaders(s)
      PROVE  RowInv'
  <2>1. stream[s].phase = "open" /\ UNCHANGED ingestVars /\ UNCHANGED post
    BY <1>3 DEF OnRequestBody, OnResponseHeaders
  <2>2. /\ Kept(s) /\ stream'[s].phase = "open" /\ stream'[s].turn = stream[s].turn
        /\ stream'[s].parts = stream[s].parts /\ stream'[s].resp = stream[s].resp
    BY <1>3, RequestBodyProceeds, ResponseHeadersProceed DEF Proceeds, Goes
  <2>3. /\ DOMAIN post = Streams /\ stream[s].turn \in Turns[s]
        /\ stream[s].parts \in Nat /\ stream[s].resp \in Nat
    BY <2>1, StreamFields DEF RowInv, Carried
  <2>4. Offered(s, stream'[s].turn)
    BY <2>1 DEF Offered
  <2> QED
    BY <2>1, <2>2, <2>3, <2>4, StreamKeepsRows
<1>4. ASSUME NEW s \in Streams, NEW filled \in BOOLEAN, NEW eos \in BOOLEAN,
             OnResponseBody(s, filled, eos)
      PROVE  RowInv'
  <2> DEFINE st   == stream[s]
             next == [st EXCEPT
                        !.parts = IF filled THEN @ + 1 ELSE @,
                        !.resp = IF filled THEN @ + st.turn.resp[st.parts + 1] ELSE @,
                        !.respEOS = eos, !.done = eos]
  <2>1. /\ st.phase = "open" /\ UNCHANGED ingestVars
        /\ filled => st.parts < Len(st.turn.resp)
        /\ stream' = [stream EXCEPT ![s] = next]
        /\ UNCHANGED post \/ DispatchTurn(s, next)
    BY <1>4 DEF OnResponseBody, RecordDrop
  <2>2. st.turn \in Turns[s] /\ st.parts \in Nat /\ st.resp \in Nat
    BY <2>1 DEF RowInv, Carried
  <2>3. filled => st.turn.resp[st.parts + 1] \in Nat
    <3>1. st.turn.resp \in Seq(Nat)
      BY <2>2, TrafficAssumption DEF TrafficAssumption
    <3> HIDE DEF st, next
    <3>2. filled => st.parts + 1 \in 1 .. Len(st.turn.resp)
      BY <2>1, <2>2, <3>1
    <3> QED
      BY <3>1, <3>2
  <2>4. /\ next.phase = st.phase /\ next.turn = st.turn
        /\ next.parts = (IF filled THEN st.parts + 1 ELSE st.parts)
        /\ next.resp = (IF filled THEN st.resp + st.turn.resp[st.parts + 1] ELSE st.resp)
    BY DEF Inv, Shape, Fields
  <2>5. stream'[s] = next /\ Kept(s)
    BY <2>1 DEF Kept, Inv, Shape
  <2> HIDE DEF next, st
  <2>6. next.turn \in Turns[s] /\ next.parts \in Nat /\ next.resp \in Nat
    BY <2>2, <2>3, <2>4
  <2>7. Offered(s, next.turn)
    BY <2>1, <2>6, DispatchTurnOffers DEF Offered
  <2> QED
    BY <2>1, <2>4, <2>5, <2>6, <2>7, StreamKeepsRows DEF Inv, Shape, st
<1>5. ASSUME NEW s \in Streams, Hangup(s) PROVE RowInv'
  <2>1. /\ stream[s].phase = "open" /\ UNCHANGED ingestVars
        /\ UNCHANGED post \/ DispatchTurn(s, stream[s])
    BY <1>5 DEF Hangup, RecordDrop
  <2>2. /\ Kept(s) /\ stream'[s].phase = "closed" /\ stream'[s].turn = stream[s].turn
        /\ stream'[s].parts = stream[s].parts /\ stream'[s].resp = stream[s].resp
    BY <1>5 DEF Hangup, Kept, Inv, Shape, Fields
  <2>3. /\ stream[s].turn \in Turns[s] /\ stream[s].parts \in Nat
        /\ stream[s].resp \in Nat
    BY <2>1 DEF RowInv, Carried
  <2>4. Offered(s, stream[s].turn)
    BY <2>1, <2>3, DispatchTurnOffers DEF Offered
  <2> QED
    BY <2>1, <2>2, <2>3, <2>4, StreamKeepsRows DEF Inv, Shape
<1>6. ASSUME NEW s \in Streams, DispatchStep(s) PROVE RowInv'
  <2>1. post[s].state # "none" /\ UNCHANGED <<stream, rows, unsaved>>
    BY <1>6 DEF DispatchStep, Post, NetworkError, Answered, Release, ingestVars
  <2>2. "env" \in DOMAIN post[s] /\ "state" \in DOMAIN post[s] /\ DOMAIN post = Streams
    BY <2>1 DEF RowInv, Posted, Inv, Shape
  <2>3. /\ "env" \in DOMAIN post'[s] /\ post'[s].env = post[s].env
        /\ post'[s].state # "none"
        /\ \A t \in Streams \ {s} : post'[t] = post[t]
    <3>1. CASE Post(s)
      BY <2>2, <3>1 DEF Post
    <3>2. CASE Release(s)
      BY <2>2, <3>2 DEF Release
    <3>3. CASE post' = [post EXCEPT ![s].state = "ready", ![s].attempt = @ + 1]
      BY <2>2, <3>3
    <3>4. CASE \E result : Settle(s, result)
      BY <2>2, <3>4 DEF Settle
    <3>5. AttemptFailed(s) => \/ post' = [post EXCEPT ![s].state = "ready", ![s].attempt = @ + 1]
                              \/ \E result : Settle(s, result)
      BY DEF AttemptFailed
    <3>6. NetworkError(s) => AttemptFailed(s)
      BY DEF NetworkError
    <3>7. Answered(s) => AttemptFailed(s) \/ \E result : Settle(s, result)
      BY ZenonT(30) DEF Answered
    <3>8. Post(s) \/ Release(s) \/ AttemptFailed(s) \/ \E result : Settle(s, result)
      BY <1>6, <3>6, <3>7, Zenon DEF DispatchStep
    <3> QED
      BY <3>1, <3>2, <3>3, <3>4, <3>5, <3>8, Zenon
  <2>4. /\ RowShape'
        /\ \A t \in Streams, a \in Attempts :
               \/ handler'[t][a] = handler[t][a]
               \/ t = s /\ handler'[t][a].stage = "arrived"
    <3>1. CASE UNCHANGED handler
      BY <2>1, <3>1 DEF RowInv, RowShape
    <3>2. CASE Post(s)
      <4>1. DOMAIN handler = Streams /\ DOMAIN handler[s] = Attempts
        BY DEF RowInv, RowShape
      <4>2. PICK n : handler' = [handler EXCEPT ![s][n].stage = "arrived"]
        BY <3>2 DEF Post
      <4>3. ASSUME NEW t \in Streams, NEW a \in Attempts
            PROVE  IF t = s /\ a = n THEN handler'[t][a] = [handler[s][n] EXCEPT !.stage = "arrived"]
                                     ELSE handler'[t][a] = handler[t][a]
        BY <4>1, <4>2
      <4>4. /\ DOMAIN handler' = Streams
            /\ \A t \in Streams : DOMAIN handler'[t] = Attempts
        BY <4>2 DEF RowInv, RowShape
      <4>5. ASSUME NEW t \in Streams, NEW a \in Attempts
            PROVE  /\ "stage" \in DOMAIN handler'[t][a]
                   /\ \/ handler'[t][a] = handler[t][a]
                      \/ t = s /\ handler'[t][a].stage = "arrived"
        BY <4>3 DEF RowInv, RowShape
      <4> QED
        BY <2>1, <4>4, <4>5 DEF RowInv, RowShape
    <3> QED
      BY <1>6, <3>1, <3>2 DEF DispatchStep, NetworkError, Answered, Release, ingestVars
  <2> QED
    <3>1. ASSUME NEW t \in Streams, post[t].state # "none"
          PROVE  /\ "env" \in DOMAIN post'[t] /\ post'[t].env = post[t].env
                 /\ post'[t].state # "none"
      BY <2>3, <3>1 DEF RowInv, Posted
    <3>2. \A t \in Streams : post[t].state = "none" => post'[t] = post[t]
      BY <2>1, <2>3
    <3>3. \A t \in Streams, a \in Attempts :
              \/ handler'[t][a] = handler[t][a]
              \/ handler'[t][a].stage = "arrived" /\ post'[t].state # "none"
      BY <2>3, <2>4, ZenonT(30)
    <3> QED
      BY <2>1, <2>4, <3>1, <3>2, <3>3, DispatchKeepsRows
<1>7. ASSUME NEW s \in Streams, NEW a \in Attempts, PersistRawTurn(s, a)
      PROVE  RowInv'
  <2>1. /\ handler[s][a].stage = "arrived" /\ UNCHANGED <<stream, post>>
        /\ DOMAIN handler = Streams /\ DOMAIN handler[s] = Attempts
        /\ "stage" \in DOMAIN handler[s][a] /\ DOMAIN rows = Streams
        /\ post[s].state # "none"
    BY <1>7 DEF PersistRawTurn, RowInv, RowShape, Handled
  <2>2. \A t \in Streams, b \in Attempts :
            t # s \/ b # a => handler'[t][b] = handler[t][b]
    BY <1>7, <2>1 DEF PersistRawTurn
  <2>3. DOMAIN rows' = Streams
    BY <1>7, <2>1 DEF PersistRawTurn, PutRawTurn
  <2>4. unsaved \subseteq unsaved'
    BY <1>7 DEF PersistRawTurn
  <2>5. \A t \in Streams : rows'[t] = rows[t] \/
            /\ t = s /\ rows'[s] = <<Row(post[s].env, stream[s].turn)>>
    BY <1>7, <2>1 DEF PersistRawTurn, PutRawTurn
  <2>6. RowShape'
    BY <1>7, <2>3 DEF PersistRawTurn, RowInv, RowShape
  <2>7. \/ /\ handler'[s][a].stage = "done" /\ handler'[s][a].code \in {400, 413}
        \/ /\ handler'[s][a].stage = "stored"
           /\ rows'[s] # <<>> \/ s \in unsaved'
    <3>1. CASE post[s].weight > BodyLimit \/ ~stream[s].turn.envelope
      BY <1>7, <2>1, <3>1 DEF PersistRawTurn, ErrorStatus
    <3>2. CASE ~(post[s].weight > BodyLimit \/ ~stream[s].turn.envelope)
      <4>1. handler'[s][a].stage = "stored"
        BY <1>7, <2>1, <3>2 DEF PersistRawTurn
      <4>2. PutRawTurn(s, Row(post[s].env, stream[s].turn)) \/ s \in unsaved'
        BY <1>7, <3>2 DEF PersistRawTurn
      <4>3. PutRawTurn(s, Row(post[s].env, stream[s].turn)) => rows'[s] # <<>>
        BY <2>1 DEF PutRawTurn
      <4> QED
        BY <4>1, <4>2, <4>3
    <3> QED
      BY <3>1, <3>2
  <2>8. Handled(s, a)'
    BY <2>1, <2>7 DEF Handled
  <2> QED
    BY <2>1, <2>2, <2>4, <2>5, <2>6, <2>8, HandlerKeepsRows
<1>8. ASSUME NEW s \in Streams, NEW a \in Attempts, ProcessTurn(s, a)
      PROVE  RowInv'
  <2>1. /\ handler[s][a].stage = "stored" /\ UNCHANGED <<stream, post, rows, unsaved>>
        /\ \E code : handler' = [handler EXCEPT ![s][a] = [stage |-> "done", code |-> code]]
    BY <1>8 DEF ProcessTurn
  <2>2. PICK code :
          handler' = [handler EXCEPT ![s][a] = [stage |-> "done", code |-> code]]
    BY <2>1
  <2>3. RowShape'
    BY <2>1, <2>2 DEF RowInv, RowShape
  <2>4. Handled(s, a)'
    BY <2>1, <2>2 DEF RowInv, RowShape, Handled
  <2>5. \A t \in Streams, b \in Attempts :
            t # s \/ b # a => handler'[t][b] = handler[t][b]
    BY <2>2 DEF RowInv, RowShape
  <2> QED
    BY <2>1, <2>3, <2>4, <2>5, HandlerKeepsRows
<1> QED
  BY <1>1, <1>2, <1>3, <1>4, <1>5, <1>6, <1>7, <1>8 DEF Next, StreamStep, IngestStep

\* A turn whose envelope the server read lacks a row only if the write failed,
\* whatever was answered; and what is stored can be read and marks the bytes it
\* lost: decideRawLane, enforceBodyLimit, reduceRawOnly and the order of
\* handleIngest (persistRawTurn first) give this together, for every mode,
\* traffic, limit and number of repeated posts.  It is no promise that what is
\* acknowledged is stored: after a write that failed it is not, and the answer
\* is 202 all the same.
THEOREM RowsHold == Spec => []RowsAreKeptWhole
<1>1. RowInv => RowsAreKeptWhole
  BY DEF RowInv, Handled, Readable, GoodRow, RowsAreKeptWhole, OnlyFailedWritesLose,
         StoredIsReduced, LostBytesAreMarked
<1>2. Spec => []RowInv
  BY InitRowInv, StepRowInv, Invariant, PTL DEF Spec
<1> QED
  BY <1>1, <1>2, PTL

\* No step changes a row that stands: the insert of PutRawTurn is idempotent on
\* the request id, and nothing else writes the rows of a call.
THEOREM RowsAreKept == Spec => RowsStay
<1>1. RowInv /\ [Next]_vars =>
          \A s \in Streams : rows[s] # <<>> => rows'[s] = rows[s]
  <2> SUFFICES ASSUME RowInv, [Next]_vars, NEW s \in Streams, rows[s] # <<>>
               PROVE  rows'[s] = rows[s]
    OBVIOUS
  <2>1. CASE UNCHANGED rows
    BY <2>1
  <2>2. ASSUME NEW t \in Streams, NEW a \in Attempts, PersistRawTurn(t, a)
        PROVE  rows'[s] = rows[s]
    <3>1. UNCHANGED rows \/ PutRawTurn(t, Row(post[t].env, stream[t].turn))
      BY <2>2 DEF PersistRawTurn
    <3>2. QED
      BY <3>1 DEF PutRawTurn, RowInv, RowShape
  <2>3. ASSUME NEW t \in Streams, StreamStep(t) \/ DispatchStep(t)
                                     \/ \E a \in Attempts : ProcessTurn(t, a)
        PROVE  UNCHANGED rows
    BY <2>3, Zenon DEF StreamStep, DispatchStep, OnRequestHeaders, OnRequestBody,
                OnResponseHeaders, OnResponseBody, Hangup, Post, NetworkError,
                Answered, Release, ProcessTurn, ingestVars
  <2> QED
    BY <2>1, <2>2, <2>3 DEF Next, IngestStep, vars
<1>2. Spec => []RowInv
  BY InitRowInv, StepRowInv, Invariant, PTL DEF Spec
<1> QED
  BY <1>1, <1>2, PTL DEF Spec, RowsStay

----------------------------------------------------------------------------
\* The bytes. A dispatch under way has a weight, and a stream the size of its
\* request to make one from.

\* What each call in flight takes.
Loads == [s \in InFlight |-> post[s].weight]

Weighed(s) == s \in InFlight => "weight" \in DOMAIN post[s] /\ post[s].weight \in Nat

Measured(s) == stream[s].req \in Nat /\ stream[s].chunks \in Nat

\* BytesExact made inductive.
ByteInv == BytesExact /\ \A s \in Streams : Weighed(s) /\ Measured(s)

\* A dispatch takes its slot and its bytes together, within the budget.
Loaded(s) ==
    \E d : /\ {"state", "weight"} \subseteq DOMAIN d
           /\ d.state = "ready" /\ d.weight \in Nat
           /\ byteSem' = byteSem + d.weight /\ byteSem + d.weight <= ByteBudget
           /\ post' = [post EXCEPT ![s] = d]

\* BytesExact, with the sum over the calls in flight spelled out.
LEMMA BytesAreLoads ==
    BytesExact <=> byteSem = SumFunctionOnSet(Loads, InFlight) /\ byteSem <= ByteBudget
BY DEF BytesExact, Loads, SumFunction

\* Each load is a natural number, and so is their sum.
LEMMA LoadsAreNat ==
    ASSUME ByteInv
    PROVE  /\ \A s \in InFlight : Loads[s] \in Nat
           /\ SumFunctionOnSet(Loads, InFlight) \in Nat
<1>1. \A s \in InFlight : Loads[s] \in Nat
  BY DEF ByteInv, Weighed, Loads, InFlight
<1> QED
  BY <1>1, InFlightFinite, SumType

\* Each dispatch under way goes on with its weight.
LEMMA BytesStay ==
    ASSUME ByteInv, UNCHANGED byteSem, InFlight' = InFlight,
           \A s \in InFlight : "weight" \in DOMAIN post[s] =>
               "weight" \in DOMAIN post'[s] /\ post'[s].weight = post[s].weight
    PROVE  BytesExact' /\ \A s \in Streams : Weighed(s)'
<1>1. \A s \in InFlight : "weight" \in DOMAIN post'[s] /\ post'[s].weight = post[s].weight
  BY DEF ByteInv, Weighed, InFlight
<1>2. [s \in InFlight |-> post[s].weight]' = [s \in InFlight |-> post[s].weight]
  BY <1>1
<1> QED
  BY <1>1, <1>2 DEF ByteInv, BytesExact, Weighed

\* A dispatch that starts takes its weight from the budget.
LEMMA BytesTaken ==
    ASSUME Inv, ByteInv, NEW s \in Streams, post[s].state = "none", Loaded(s)
    PROVE  BytesExact' /\ \A t \in Streams : Weighed(t)'
<1>1. PICK d : /\ {"state", "weight"} \subseteq DOMAIN d
               /\ d.state = "ready" /\ d.weight \in Nat
               /\ byteSem' = byteSem + d.weight /\ byteSem + d.weight <= ByteBudget
               /\ post' = [post EXCEPT ![s] = d]
  BY DEF Loaded
<1>2. post'[s] = d /\ \A t \in Streams \ {s} : post'[t] = post[t]
  BY <1>1, StreamFields
<1>3. InFlight' = InFlight \cup {s} /\ s \notin InFlight /\ InFlight' \ {s} = InFlight
  BY <1>1, <1>2 DEF InFlight
<1>4. \A t \in Streams : Weighed(t)'
  BY <1>1, <1>2, <1>3 DEF ByteInv, Weighed
<1>5. IsFiniteSet(InFlight') /\ \A t \in InFlight' : Loads'[t] \in Nat
  BY <1>3, <1>4, InFlightFinite, FS_AddElement DEF Loads, Weighed, InFlight
<1>6. SumFunctionOnSet(Loads', InFlight') = d.weight + SumFunctionOnSet(Loads', InFlight)
  <2>1. Loads'[s] = d.weight
    BY <1>2, <1>3 DEF Loads
  <2> QED
    BY <1>3, <1>5, <2>1, SumRemove
<1>7. SumFunctionOnSet(Loads', InFlight) = SumFunctionOnSet(Loads, InFlight)
  <2>1. \A t \in InFlight : Loads'[t] = Loads[t]
    BY <1>2, <1>3 DEF Loads, InFlight
  <2> QED
    BY <2>1, InFlightFinite, SumAgree
<1>8. byteSem = SumFunctionOnSet(Loads, InFlight) /\ byteSem \in Nat
  BY BytesAreLoads, LoadsAreNat DEF ByteInv
<1>9. byteSem' = SumFunctionOnSet(Loads', InFlight') /\ byteSem' <= ByteBudget
  BY <1>1, <1>6, <1>7, <1>8
<1> QED
  BY <1>4, <1>9 DEF BytesExact, Loads, SumFunction

\* The release gives back what its dispatch took, no more and no less.
LEMMA BytesGivenBack ==
    ASSUME Inv, ByteInv, NEW s \in Streams, Release(s)
    PROVE  BytesExact' /\ \A t \in Streams : Weighed(t)'
<1>1. /\ post[s].state = "settled" /\ byteSem' = byteSem - post[s].weight
      /\ post' = [post EXCEPT ![s].state = "over"]
  BY DEF Release
<1>2. /\ DOMAIN post = Streams /\ "state" \in DOMAIN post[s]
      /\ post'[s].state = "over" /\ \A t \in Streams \ {s} : post'[t] = post[t]
  BY <1>1 DEF Inv, Shape
<1>3. InFlight' = InFlight \ {s} /\ s \in InFlight
  BY <1>1, <1>2 DEF InFlight
<1>4. \A t \in Streams : Weighed(t)'
  BY <1>2, <1>3 DEF ByteInv, Weighed
<1>5. SumFunctionOnSet(Loads, InFlight) = post[s].weight + SumFunctionOnSet(Loads, InFlight')
  <2>1. Loads[s] = post[s].weight
    BY <1>3 DEF Loads
  <2> QED
    BY <1>3, <2>1, LoadsAreNat, InFlightFinite, SumRemove
<1>6. IsFiniteSet(InFlight') /\ \A t \in InFlight' : Loads'[t] = Loads[t] /\ Loads[t] \in Nat
  <2>1. \A t \in InFlight' : Loads'[t] = Loads[t]
    BY <1>2, <1>3 DEF Loads, InFlight
  <2> QED
    BY <1>3, <2>1, LoadsAreNat, InFlightFinite, FS_RemoveElement
<1>7. SumFunctionOnSet(Loads', InFlight') = SumFunctionOnSet(Loads, InFlight')
  BY <1>6, SumAgree
<1>8. SumFunctionOnSet(Loads, InFlight') \in Nat
  BY <1>6, SumType
<1>9. /\ byteSem = SumFunctionOnSet(Loads, InFlight) /\ byteSem <= ByteBudget
      /\ post[s].weight \in Nat /\ ByteBudget \in Nat
  BY <1>3, BytesAreLoads, LimitsAssumption DEF ByteInv, Weighed, LimitsAssumption
<1>10. byteSem' = SumFunctionOnSet(Loads', InFlight') /\ byteSem' <= ByteBudget
  BY <1>1, <1>5, <1>7, <1>8, <1>9
<1> QED
  BY <1>4, <1>10 DEF BytesExact, Loads, SumFunction

\* What is posted has a size.
LEMMA SizeIsNat ==
    ASSUME NEW s \in Streams, NEW turn \in Turns[s], NEW env, Sound(env), NEW req \in Nat
    PROVE  PayloadSize(env, turn, req) \in Nat
<1>1. turn.red \in Nat /\ turn.rest \in Nat
  BY TrafficAssumption DEF TrafficAssumption
<1>2. env.raw \in Nat
  BY DEF Sound
<1>3. Base64Len(env.raw) \in Nat
  BY <1>2 DEF Base64Len
<1> QED
  BY <1>1, <1>3 DEF PayloadSize

\* dispatchTurn refuses a call or loads it with a weight.
LEMMA DispatchTurnLoads ==
    ASSUME NEW s \in Streams, NEW st, st.turn \in Turns[s], st.resp \in Nat,
           st.req \in Nat, DispatchTurn(s, st)
    PROVE  UNCHANGED <<byteSem, post>> \/ Loaded(s)
<1>1. CASE Refusal(st) # "none"
  BY <1>1 DEF DispatchTurn, RecordDrop
<1>2. CASE Refusal(st) = "none"
  <2> DEFINE env    == EnforceBodyLimit(DecideRawLane(st.resp, DecodedReq(st)),
                                        st.turn, DecodedReq(st))
             weight == PayloadSize(env, st.turn, DecodedReq(st))
             d == [state |-> "ready", attempt |-> 1, env |-> env,
                   weight |-> weight, whole |-> st.reqEOS]
  <2>1. st.resp > 0
    BY <1>2 DEF Refusal
  <2>2. Sound(env)
    BY <2>1, DecidedIsSound, EnforcedIsSound
  <2>3. weight \in Nat
    <3>1. DecodedReq(st) \in Nat
      BY DEF DecodedReq
    <3> HIDE DEF env
    <3> QED
      BY <2>2, <3>1, SizeIsNat
  <2>4. \/ UNCHANGED <<byteSem, post>>
        \/ /\ byteSem' = byteSem + weight /\ byteSem + weight <= ByteBudget
           /\ post' = [post EXCEPT ![s] = d]
    BY <1>2 DEF DispatchTurn, Dispatch, RecordDrop
  <2>5. /\ {"state", "weight"} \subseteq DOMAIN d
        /\ d.state = "ready" /\ d.weight = weight
    OBVIOUS
  <2> HIDE DEF d, weight
  <2> QED
    BY <2>3, <2>4, <2>5 DEF Loaded
<1> QED
  BY <1>1, <1>2

\* A callback leaves the bytes alone or loads a dispatch of its stream.
LEMMA StreamKeepsBytes ==
    ASSUME Inv, ByteInv, NEW s \in Streams, Kept(s),
           stream'[s].req \in Nat, stream'[s].chunks \in Nat,
           UNCHANGED <<byteSem, post>> \/ (post[s].state = "none" /\ Loaded(s))
    PROVE  ByteInv'
<1>1. ASSUME NEW t \in Streams PROVE Measured(t)'
  BY DEF Measured, ByteInv, Kept
<1>2. BytesExact' /\ \A t \in Streams : Weighed(t)'
  <2>1. CASE UNCHANGED <<byteSem, post>>
    BY <2>1, BytesStay DEF InFlight
  <2>2. CASE post[s].state = "none" /\ Loaded(s)
    BY <2>2, BytesTaken
  <2> QED
    BY <2>1, <2>2
<1> QED
  BY <1>1, <1>2 DEF ByteInv

\* A step of the dispatch goroutine other than the release.
LEMMA DispatchKeepsBytes ==
    ASSUME Inv, ByteInv, NEW s \in Streams, UNCHANGED <<stream, byteSem>>,
           post[s].state \in {"ready", "sent"},
           \A t \in Streams \ {s} : post'[t] = post[t],
           post'[s].state \in {"ready", "sent", "settled"},
           "weight" \in DOMAIN post[s] =>
               "weight" \in DOMAIN post'[s] /\ post'[s].weight = post[s].weight
    PROVE  ByteInv'
<1>1. InFlight' = InFlight
  BY DEF InFlight
<1>2. \A t \in InFlight : "weight" \in DOMAIN post[t] =>
          "weight" \in DOMAIN post'[t] /\ post'[t].weight = post[t].weight
  BY DEF InFlight
<1>3. BytesExact' /\ \A t \in Streams : Weighed(t)'
  BY <1>1, <1>2, BytesStay
<1> QED
  BY <1>3 DEF ByteInv, Measured

\* A chunk of the request adds its size, unless the budget is exceeded.
LEMMA RequestBodyMeasured ==
    ASSUME Inv, RowInv, ByteInv, NEW s \in Streams, OnRequestBody(s)
    PROVE  stream'[s].req \in Nat /\ stream'[s].chunks \in Nat
<1> DEFINE st   == stream[s]
           size == st.turn.req[st.chunks + 1]
           over == st.over \/ st.req + size > RequestBudget
           eos  == st.chunks + 1 = Len(st.turn.req)
           shed == over \/ (eos /\ st.turn.decoded = "big")
           streaming == st.turn.decoded = "ok" /\ st.turn.json /\ st.turn.stream
           next == [st EXCEPT !.chunks = @ + 1, !.req = IF over THEN @ ELSE @ + size,
                              !.over = shed, !.reqEOS = eos,
                              !.duplex = eos /\ st.turn.reducer
                                             /\ (shed \/ streaming)]
<1>1. st.phase = "open" /\ st.chunks < Len(st.turn.req) /\ stream' = [stream EXCEPT ![s] = next]
  BY Zenon DEF OnRequestBody
<1>2. st.turn \in Turns[s] /\ st.req \in Nat /\ st.chunks \in Nat
  BY <1>1 DEF RowInv, Carried, ByteInv, Measured
<1>3. size \in Nat
  <2>1. st.turn.req \in Seq(Nat)
    BY <1>2, TrafficAssumption DEF TrafficAssumption
  <2> HIDE DEF st
  <2>2. st.chunks + 1 \in 1 .. Len(st.turn.req)
    BY <1>1, <1>2, <2>1
  <2> QED
    BY <2>1, <2>2
<1> HIDE DEF shed, over, size, eos, streaming
<1>4. /\ next.chunks = st.chunks + 1
      /\ next.req = IF over THEN st.req ELSE st.req + size
  BY StreamFields DEF Fields
<1>5. stream'[s] = next
  BY <1>1, StreamFields
<1> HIDE DEF next, st
<1> QED
  BY <1>2, <1>3, <1>4, <1>5

\* Nothing is in flight before the first callback, and no byte is taken.
LEMMA InitByteInv == Init => ByteInv
<1> SUFFICES ASSUME Init PROVE ByteInv
  OBVIOUS
<1>1. InFlight = {}
  BY DEF Init, InFlight, NoPost
<1>2. SumFunctionOnSet(Loads, InFlight) = 0
  BY <1>1, FS_EmptySet, SumStep
<1>3. BytesExact
  BY <1>2, BytesAreLoads, LimitsAssumption DEF Init, LimitsAssumption
<1>4. ASSUME NEW s \in Streams PROVE Weighed(s) /\ Measured(s)
  BY <1>1 DEF Init, Weighed, Measured, NoStream
<1> QED
  BY <1>3, <1>4 DEF ByteInv

\* Every step keeps the account of the bytes.
LEMMA StepByteInv ==
    ASSUME Inv, RowInv, ByteInv, [Next]_vars
    PROVE  ByteInv'
<1>1. CASE UNCHANGED vars
  BY <1>1 DEF vars, ByteInv, BytesExact, Weighed, Measured, InFlight
<1>2. ASSUME NEW s \in Streams, NEW turn, OnRequestHeaders(s, turn) PROVE ByteInv'
  <2>1. UNCHANGED <<byteSem, post>> /\ Kept(s)
    BY <1>2, RequestHeadersProceed DEF OnRequestHeaders, Proceeds, Goes
  <2>2. stream'[s].req = stream[s].req /\ stream'[s].chunks = stream[s].chunks
    BY <1>2, StreamFields DEF OnRequestHeaders, Fields
  <2> QED
    BY <2>1, <2>2, StreamKeepsBytes DEF ByteInv, Measured
<1>3. ASSUME NEW s \in Streams, OnRequestBody(s) PROVE ByteInv'
  <2>1. UNCHANGED <<byteSem, post>> /\ Kept(s)
    BY <1>3, RequestBodyProceeds DEF OnRequestBody, Proceeds, Goes
  <2> QED
    BY <1>3, <2>1, RequestBodyMeasured, StreamKeepsBytes
<1>4. ASSUME NEW s \in Streams, OnResponseHeaders(s) PROVE ByteInv'
  <2>1. UNCHANGED <<byteSem, post>> /\ Kept(s)
    BY <1>4, ResponseHeadersProceed DEF OnResponseHeaders, Proceeds, Goes
  <2>2. stream'[s].req = stream[s].req /\ stream'[s].chunks = stream[s].chunks
    BY <1>4, StreamFields DEF OnResponseHeaders, Fields
  <2> QED
    BY <2>1, <2>2, StreamKeepsBytes DEF ByteInv, Measured
<1>5. ASSUME NEW s \in Streams, NEW filled \in BOOLEAN, NEW eos \in BOOLEAN,
             OnResponseBody(s, filled, eos)
      PROVE  ByteInv'
  <2> DEFINE st   == stream[s]
             next == [st EXCEPT
                        !.parts = IF filled THEN @ + 1 ELSE @,
                        !.resp = IF filled THEN @ + st.turn.resp[st.parts + 1] ELSE @,
                        !.respEOS = eos, !.done = eos]
  <2>1. /\ st.phase = "open" /\ ~st.done
        /\ filled => st.parts < Len(st.turn.resp)
        /\ stream' = [stream EXCEPT ![s] = next]
        /\ UNCHANGED <<byteSem, post>> \/ DispatchTurn(s, next)
    BY <1>5 DEF OnResponseBody, RecordDrop, Inv, Shape
  <2>2. st.turn \in Turns[s] /\ st.parts \in Nat /\ st.resp \in Nat /\ st.req \in Nat /\ st.chunks \in Nat
    BY <2>1 DEF RowInv, Carried, ByteInv, Measured
  <2>3. filled => st.turn.resp[st.parts + 1] \in Nat
    <3>1. st.turn.resp \in Seq(Nat)
      BY <2>2, TrafficAssumption DEF TrafficAssumption
    <3> HIDE DEF st, next
    <3>2. filled => st.parts + 1 \in 1 .. Len(st.turn.resp)
      BY <2>1, <2>2, <3>1
    <3> QED
      BY <3>1, <3>2
  <2>4. /\ next.turn = st.turn /\ next.req = st.req /\ next.chunks = st.chunks
        /\ next.resp = (IF filled THEN st.resp + st.turn.resp[st.parts + 1] ELSE st.resp)
    BY DEF Inv, Shape, Fields
  <2>5. stream'[s] = next /\ Kept(s)
    BY <2>1 DEF Kept, Inv, Shape
  <2>6. post[s].state = "none"
    BY <2>1 DEF Inv, Counted
  <2> HIDE DEF next, st
  <2>7. next.turn \in Turns[s] /\ next.resp \in Nat /\ next.req \in Nat /\ next.chunks \in Nat
    BY <2>2, <2>3, <2>4
  <2> QED
    BY <2>1, <2>5, <2>6, <2>7, DispatchTurnLoads, StreamKeepsBytes
<1>6. ASSUME NEW s \in Streams, Hangup(s) PROVE ByteInv'
  <2>1. /\ stream[s].phase = "open"
        /\ UNCHANGED <<byteSem, post>> \/ (~stream[s].done /\ DispatchTurn(s, stream[s]))
    BY <1>6 DEF Hangup, RecordDrop
  <2>2. /\ Kept(s)
        /\ stream'[s].req = stream[s].req /\ stream'[s].chunks = stream[s].chunks
    BY <1>6 DEF Hangup, Kept, Inv, Shape, Fields
  <2>3. /\ stream[s].turn \in Turns[s] /\ stream[s].resp \in Nat
        /\ stream[s].req \in Nat /\ stream[s].chunks \in Nat
    BY <2>1 DEF RowInv, Carried, ByteInv, Measured
  <2>4. ~stream[s].done => post[s].state = "none"
    BY <2>1 DEF Inv, Counted
  <2> QED
    BY <2>1, <2>2, <2>3, <2>4, DispatchTurnLoads, StreamKeepsBytes
<1>7. ASSUME NEW s \in Streams, Post(s) PROVE ByteInv'
  BY <1>7, DispatchKeepsBytes DEF Post, Inv, Shape
<1>8. ASSUME NEW s \in Streams, NetworkError(s) \/ Answered(s) PROVE ByteInv'
  <2>1. /\ post[s].state \in {"ready", "sent"} /\ UNCHANGED <<stream, byteSem>>
        /\ AttemptFailed(s) \/ \E result : Settle(s, result)
    BY <1>8 DEF NetworkError, Answered
  <2>2. \/ post' = [post EXCEPT ![s].state = "settled"]
        \/ post' = [post EXCEPT ![s].state = "ready", ![s].attempt = @ + 1]
    BY <2>1 DEF AttemptFailed, Settle
  <2> QED
    BY <2>1, <2>2, DispatchKeepsBytes DEF Inv, Shape
<1>9. ASSUME NEW s \in Streams, Release(s) PROVE ByteInv'
  BY <1>9, BytesGivenBack DEF Release, ByteInv, Measured
<1>10. ASSUME NEW s \in Streams, IngestStep(s) PROVE ByteInv'
  <2>1. UNCHANGED <<stream, byteSem, post>>
    BY <1>10 DEF IngestStep, PersistRawTurn, ProcessTurn
  <2> QED
    BY <2>1 DEF ByteInv, BytesExact, Weighed, Measured, InFlight
<1> QED
  BY <1>1, <1>2, <1>3, <1>4, <1>5, <1>6, <1>7, <1>8, <1>9, <1>10
     DEF Next, StreamStep, DispatchStep

\* The bytes the dispatcher believes in use are those of the dispatches under
\* way, and never above the budget: what Dispatch reserves the deferred release
\* of postWithRetry gives back, retries and refusals notwithstanding.
THEOREM BytesAreExact == Spec => []BytesExact
<1>1. Spec => []RowInv
  BY InitRowInv, StepRowInv, Invariant, PTL DEF Spec
<1>2. Spec => []ByteInv
  BY <1>1, InitByteInv, StepByteInv, Invariant, PTL DEF Spec
<1>3. ByteInv => BytesExact
  BY DEF ByteInv
<1> QED
  BY <1>2, <1>3, PTL
=============================================================================
