------------------------------ MODULE ExtProc ------------------------------
(* The capture path of a gateway: the ext_proc processor watches the five    *)
(* phases of every proxied call, the dispatcher posts the turn it made of    *)
(* one to the ingest server, and the ingest server appends it to the raw     *)
(* layer and hands it to its worker pool.                                     *)
(*                                                                            *)
(* Bodies are sizes. A member of Turns[s] is the traffic of a call: `path` is *)
(* "turn" or "other" (isCapturableTurnRequest), `reducer` says whether the   *)
(* (provider, endpoint) pair is on the allowlist, `req` and `resp` are the   *)
(* sizes of the chunks, `decoded` tells what the content encoding of the     *)
(* request makes of it ("ok", "broken", or "big": over the budget once       *)
(* decompressed), `json` and `parses` whether the request is JSON and the    *)
(* provider's parser accepts it, `status` is the upstream's (0: no response  *)
(* headers), `envelope` whether the session block is valid, `early` says     *)
(* that it answers before the request has ended, `respDecodes`, `reduces`    *)
(* ("ok", "empty", "error") and `red` what becomes of the response and how   *)
(* long its reduction is; `rest` is the size of the meta and session blocks. *)
EXTENDS Integers, Sequences, FiniteSets, FiniteSetsExt

CONSTANTS Streams,      \* calls, each with a request id of its own
          Turns,        \* the traffic each call may carry, a set per call
          Mode,         \* RawResponseMode: "off", "dual" or "raw"
          MaxInflight,  \* count limit of the dispatcher
          ByteBudget,   \* byte limit of the dispatcher
          BodyLimit,    \* ingest.MaxIngestBodyBytes
          Reserve,      \* rawLaneEnvelopeReserve
          RawCap,       \* ingest.MaxRawResponseBytes
          MaxAttempts   \* attempts of postWithRetry, 3 in the code

ASSUME LimitsAssumption ==
    /\ MaxInflight \in Nat \ {0} /\ MaxAttempts \in Nat \ {0}
    /\ {ByteBudget, BodyLimit, Reserve, RawCap} \subseteq Nat
    /\ IsFiniteSet(Streams)

\* ParseRawResponseMode accepts no other.
ASSUME ModeAssumption == Mode \in {"off", "dual", "raw"}

\* Chunks, blocks and the rest of an envelope have sizes, and the reducer one of
\* the three results.
ASSUME TrafficAssumption ==
    \A s \in Streams : \A turn \in Turns[s] :
        /\ {turn.req, turn.resp} \subseteq Seq(Nat) /\ {turn.red, turn.rest} \subseteq Nat
        /\ turn.reduces \in {"ok", "empty", "error"}

VARIABLES stream,   \* streamState of each call
          sem,      \* slots of the count semaphore in use
          byteSem,  \* bytes of the byte semaphore in use
          post,     \* the dispatch goroutine of each call
          outcome,  \* terminal outcomes recorded for each call, in order
          handler,  \* the ingest handler of each attempt of each call
          rows,     \* rows of the raw layer with the call's request id
          unsaved   \* calls with a raw write that failed

vars == <<stream, sem, byteSem, post, outcome, handler, rows, unsaved>>

Attempts == 1..MaxAttempts

----------------------------------------------------------------------------
\* The raw lane: what part of the response goes on the envelope.

RequestBudget == BodyLimit - Reserve

Base64Len(n) == ((n + 2) \div 3) * 4

RawResponseFits(raw, req) ==
    LET budget == BodyLimit - req - Reserve
    IN  budget > 0 /\ Base64Len(raw) <= budget

\* Mutant: bytes that do not fit are left out without a word.
DecideRawLaneUnmarked(raw, req) ==
    LET wanted == Mode \in {"dual", "raw"}
        fits   == RawResponseFits(raw, req)
    IN  [raw      |-> IF wanted /\ fits THEN raw ELSE 0,
         reduced  |-> ~(Mode = "raw" /\ fits),
         withheld |-> FALSE]

\* raw: verbatim bytes attached; reduced: the adapter's reduction is there;
\* withheld: bytes existed and are not sent.
DecideRawLane(raw, req) ==
    LET wanted == Mode \in {"dual", "raw"}
        fits   == RawResponseFits(raw, req)
    IN  [raw      |-> IF wanted /\ fits THEN raw ELSE 0,
         reduced  |-> ~(Mode = "raw" /\ fits),
         withheld |-> wanted /\ ~fits]

PayloadSize(env, turn, req) ==
    req + turn.rest + Base64Len(env.raw) + (IF env.reduced THEN turn.red ELSE 0)

\* Mutant: the bytes are stripped and the reduction is not put back.
EnforceBodyLimitBare(env, turn, req) ==
    IF PayloadSize(env, turn, req) <= BodyLimit \/ env.raw = 0
    THEN env
    ELSE [env EXCEPT !.raw = 0, !.withheld = TRUE]

EnforceBodyLimit(env, turn, req) ==
    IF PayloadSize(env, turn, req) <= BodyLimit \/ env.raw = 0
    THEN env
    ELSE [raw |-> 0, reduced |-> TRUE, withheld |-> TRUE]

----------------------------------------------------------------------------
\* The stream state machine.

NoStream == [phase |-> "idle", turn |-> <<>>, chunks |-> 0, req |-> 0,
             over |-> FALSE, reqEOS |-> FALSE, duplex |-> FALSE, status |-> 0,
             parts |-> 0, resp |-> 0, respEOS |-> FALSE, done |-> FALSE]
NoPost == [state |-> "none"]

Init ==
    /\ stream = [s \in Streams |-> NoStream]
    /\ sem = 0 /\ byteSem = 0
    /\ post = [s \in Streams |-> NoPost]
    /\ outcome = [s \in Streams |-> <<>>]
    /\ handler = [s \in Streams |-> [a \in Attempts |-> [stage |-> "none"]]]
    /\ rows = [s \in Streams |-> <<>>]
    /\ unsaved = {}

ingestVars == <<handler, rows, unsaved>>

RecordDrop(s, reason) ==
    /\ outcome' = [outcome EXCEPT ![s] = Append(@, reason)]
    /\ UNCHANGED <<sem, byteSem, post>>

\* Decoded request bytes: there are none before the request ended.
DecodedReq(st) == IF st.reqEOS THEN st.req ELSE 0

\* Mutant: a refused byte reservation keeps the slot taken before it.
DispatchLeaks(s, st) ==
    LET env    == EnforceBodyLimit(DecideRawLane(st.resp, DecodedReq(st)),
                                   st.turn, DecodedReq(st))
        weight == PayloadSize(env, st.turn, DecodedReq(st))
    IN  \/ /\ sem >= MaxInflight
           /\ RecordDrop(s, "semaphore_full")
        \/ /\ sem < MaxInflight
           /\ st.reqEOS /\ ~st.turn.json
           /\ RecordDrop(s, "marshal_error")
        \/ /\ sem < MaxInflight
           /\ st.reqEOS => st.turn.json
           /\ byteSem + weight > ByteBudget
           /\ sem' = sem + 1
           /\ outcome' = [outcome EXCEPT ![s] = Append(@, "semaphore_full")]
           /\ UNCHANGED <<byteSem, post>>
        \/ /\ sem < MaxInflight
           /\ st.reqEOS => st.turn.json
           /\ byteSem + weight <= ByteBudget
           /\ sem' = sem + 1
           /\ byteSem' = byteSem + weight
           /\ post' = [post EXCEPT ![s] = [state |-> "ready", attempt |-> 1,
                                           env |-> env, weight |-> weight,
                                           whole |-> st.reqEOS]]
           /\ UNCHANGED outcome

Dispatch(s, st) ==
    LET env    == EnforceBodyLimit(DecideRawLane(st.resp, DecodedReq(st)),
                                   st.turn, DecodedReq(st))
        weight == PayloadSize(env, st.turn, DecodedReq(st))
    IN  \/ /\ sem >= MaxInflight
           /\ RecordDrop(s, "semaphore_full")
        \/ /\ sem < MaxInflight
           /\ st.reqEOS /\ ~st.turn.json
           /\ RecordDrop(s, "marshal_error")
        \/ /\ sem < MaxInflight
           /\ st.reqEOS => st.turn.json
           /\ byteSem + weight > ByteBudget
           /\ RecordDrop(s, "semaphore_full")
        \/ /\ sem < MaxInflight
           /\ st.reqEOS => st.turn.json
           /\ byteSem + weight <= ByteBudget
           /\ sem' = sem + 1
           /\ byteSem' = byteSem + weight
           /\ post' = [post EXCEPT ![s] = [state |-> "ready", attempt |-> 1,
                                           env |-> env, weight |-> weight,
                                           whole |-> st.reqEOS]]
           /\ UNCHANGED outcome

\* The reason dispatchTurn refuses a turn for, in the order of its guards.
Refusal(st) ==
    IF st.over THEN "request_over_budget"
    ELSE IF st.turn.path # "turn" THEN "non_turn_request"
    ELSE IF st.reqEOS /\ st.turn.decoded = "broken" THEN "request_decode_error"
    ELSE IF st.resp = 0 THEN "empty_response"
    ELSE IF ~st.turn.reducer THEN "unknown_provider"
    ELSE IF ~st.turn.respDecodes THEN "response_decode_error"
    ELSE IF st.turn.reduces = "error" THEN "reducer_error"
    ELSE "none"

DispatchTurn(s, st) ==
    IF Refusal(st) = "none" THEN Dispatch(s, st)
    ELSE RecordDrop(s, Refusal(st))

OnRequestHeaders(s, turn) ==
    /\ stream[s].phase = "idle"
    /\ stream' = [stream EXCEPT ![s] = [@ EXCEPT !.phase = "open", !.turn = turn]]
    /\ UNCHANGED <<sem, byteSem, post, outcome, ingestVars>>

OnRequestBody(s) ==
    LET st   == stream[s]
        size == st.turn.req[st.chunks + 1]
        over == st.over \/ st.req + size > RequestBudget
        eos  == st.chunks + 1 = Len(st.turn.req)
        shed == over \/ (eos /\ st.turn.decoded = "big")
        streaming == st.turn.decoded = "ok" /\ st.turn.json /\ st.turn.stream
    IN  /\ st.phase = "open" /\ st.chunks < Len(st.turn.req)
        /\ stream' = [stream EXCEPT ![s] =
                [st EXCEPT !.chunks = @ + 1, !.req = IF over THEN @ ELSE @ + size,
                           !.over = shed, !.reqEOS = eos,
                           !.duplex = eos /\ st.turn.reducer
                                          /\ (shed \/ streaming)]]
        /\ UNCHANGED <<sem, byteSem, post, outcome, ingestVars>>

OnResponseHeaders(s) ==
    /\ stream[s].phase = "open" /\ stream[s].status # stream[s].turn.status
    /\ stream[s].reqEOS \/ stream[s].turn.early
    /\ stream' = [stream EXCEPT ![s] = [@ EXCEPT !.status = stream[s].turn.status]]
    /\ UNCHANGED <<sem, byteSem, post, outcome, ingestVars>>

\* A message with the next chunk of the response, or with none but the end of
\* the stream; the last message ends the turn.
OnResponseBody(s, filled, eos) ==
    LET st   == stream[s]
        next == [st EXCEPT !.parts = IF filled THEN @ + 1 ELSE @,
                           !.resp = IF filled THEN @ + st.turn.resp[st.parts + 1] ELSE @,
                           !.respEOS = eos, !.done = eos]
    IN  /\ st.phase = "open" /\ st.status = st.turn.status /\ ~st.done
        /\ st.reqEOS \/ st.turn.early
        /\ IF filled THEN st.parts < Len(st.turn.resp) ELSE eos
        /\ eos => next.parts = Len(st.turn.resp)
        /\ stream' = [stream EXCEPT ![s] = next]
        /\ \/ ~eos /\ UNCHANGED <<sem, byteSem, post, outcome>>
           \/ eos /\ st.status = 200 /\ DispatchTurn(s, next)
           \/ eos /\ st.status = 0 /\ RecordDrop(s, "missing_status")
           \/ eos /\ st.status \notin {0, 200} /\ RecordDrop(s, "upstream_status")
        /\ UNCHANGED ingestVars

\* Mutant: the deferred classification does not know of a finished turn.
HangupTwice(s) ==
    LET st == stream[s]
    IN  /\ st.phase = "open"
        /\ stream' = [stream EXCEPT ![s].phase = "closed"]
        /\ IF st.reqEOS \/ st.resp > 0 THEN RecordDrop(s, "client_disconnect")
           ELSE UNCHANGED <<sem, byteSem, post, outcome>>
        /\ UNCHANGED ingestVars

\* The stream ends: Recv or Send returned, and the deferred classification runs.
Hangup(s) ==
    LET st == stream[s]
    IN  /\ st.phase = "open"
        /\ stream' = [stream EXCEPT ![s].phase = "closed"]
        /\ \/ /\ st.done \/ (st.resp = 0 /\ ~st.reqEOS)
              /\ UNCHANGED <<sem, byteSem, post, outcome>>
           \/ /\ ~st.done /\ st.reqEOS /\ st.resp = 0
              /\ RecordDrop(s, "upstream_no_response")
           \/ /\ ~st.done /\ st.reqEOS /\ st.resp # 0 /\ st.status = 200
              /\ DispatchTurn(s, st)
           \/ /\ ~st.done /\ st.resp # 0 /\ ~(st.reqEOS /\ st.status = 200)
              /\ RecordDrop(s, "client_disconnect")
        /\ UNCHANGED ingestVars

----------------------------------------------------------------------------
\* The dispatch goroutine: bounded retries, then its slot and bytes come back.

InFlight == {s \in Streams : post[s].state \in {"ready", "sent", "settled"}}

Settle(s, result) ==
    /\ post' = [post EXCEPT ![s].state = "settled"]
    /\ outcome' = [outcome EXCEPT ![s] = Append(@, result)]

\* Mutant: a failed attempt is not counted.
AttemptFailedUncounted(s) ==
    /\ post' = [post EXCEPT ![s].state = "ready"]
    /\ UNCHANGED outcome

AttemptFailed(s) ==
    IF post[s].attempt = MaxAttempts THEN Settle(s, "ingest_timeout")
    ELSE /\ post' = [post EXCEPT ![s].state = "ready", ![s].attempt = @ + 1]
         /\ UNCHANGED outcome

Post(s) ==
    /\ post[s].state = "ready"
    /\ post' = [post EXCEPT ![s].state = "sent"]
    /\ handler' = [handler EXCEPT ![s][post[s].attempt].stage = "arrived"]
    /\ UNCHANGED <<stream, sem, byteSem, outcome, rows, unsaved>>

\* The request never arrives, or its answer is late, lost or cut off.
NetworkError(s) ==
    /\ post[s].state \in {"ready", "sent"}
    /\ AttemptFailed(s)
    /\ UNCHANGED <<stream, sem, byteSem, ingestVars>>

Answered(s) ==
    /\ post[s].state = "sent"
    /\ LET h == handler[s][post[s].attempt]
       IN  /\ h.stage = "done"
           /\ \/ h.code = 202 /\ Settle(s, "accepted")
              \/ h.code >= 500 /\ AttemptFailed(s)
              \/ h.code \in 400..499 /\ Settle(s, "ingest_reject")
    /\ UNCHANGED <<stream, sem, byteSem, ingestVars>>

\* Mutant: the bytes of a dispatch are not given back.
ReleaseSlotOnly(s) ==
    /\ post[s].state = "settled"
    /\ sem' = sem - 1
    /\ post' = [post EXCEPT ![s].state = "over"]
    /\ UNCHANGED <<stream, byteSem, outcome, ingestVars>>

Release(s) ==
    /\ post[s].state = "settled"
    /\ sem' = sem - 1
    /\ byteSem' = byteSem - post[s].weight
    /\ post' = [post EXCEPT ![s].state = "over"]
    /\ UNCHANGED <<stream, outcome, ingestVars>>

----------------------------------------------------------------------------
\* handleIngest, in the two steps another attempt can come between.

\* The reduction a row gets: the adapter's, or the server's own of the bytes.
Reduction(env, turn) ==
    IF env.reduced \/ env.raw > 0 THEN turn.reduces ELSE "none"

Row(env, turn) ==
    [raw     |-> IF env.raw > RawCap THEN 0 ELSE env.raw,
     dropped |-> env.raw > RawCap \/ (env.withheld /\ env.raw = 0),
     reduced |-> Reduction(env, turn)]

\* Mutant: a repeated request id is inserted again.
PutRawTurnAgain(s, row) == rows' = [rows EXCEPT ![s] = Append(@, row)]

\* The insert is idempotent on the request id.
PutRawTurn(s, row) ==
    rows' = [rows EXCEPT ![s] = IF @ = <<>> THEN <<row>> ELSE @]

ErrorStatus == [envelope |-> 400, unprocessable |-> 422, downstream |-> 502]

\* Mutant: only a turn that parses is stored.
PersistRawTurnParsed(s, a) ==
    /\ handler[s][a].stage = "arrived"
    /\ handler' = [handler EXCEPT ![s][a].stage = "stored"]
    /\ IF post[s].whole /\ stream[s].turn.parses
       THEN PutRawTurn(s, Row(post[s].env, stream[s].turn))
       ELSE UNCHANGED rows
    /\ UNCHANGED <<stream, sem, byteSem, post, outcome, unsaved>>

PersistRawTurn(s, a) ==
    /\ handler[s][a].stage = "arrived"
    /\ IF post[s].weight > BodyLimit \/ ~stream[s].turn.envelope
       THEN /\ handler' = [handler EXCEPT ![s][a] = [stage |-> "done", code |->
                               IF post[s].weight > BodyLimit THEN 413 ELSE ErrorStatus.envelope]]
            /\ UNCHANGED <<rows, unsaved>>
       ELSE /\ handler' = [handler EXCEPT ![s][a].stage = "stored"]
            /\ \/ /\ PutRawTurn(s, Row(post[s].env, stream[s].turn))
                  /\ UNCHANGED unsaved
               \/ unsaved' = unsaved \cup {s} /\ UNCHANGED rows
    /\ UNCHANGED <<stream, sem, byteSem, post, outcome>>

\* Parsing and validating come before the admission to the pool, which may
\* refuse (CapturePool).
ProcessTurn(s, a) ==
    LET reply(code) == handler' = [handler EXCEPT ![s][a] =
                                       [stage |-> "done", code |-> code]]
        valid == /\ post[s].whole /\ stream[s].turn.parses
                 /\ Reduction(post[s].env, stream[s].turn) = "ok"
    IN  /\ handler[s][a].stage = "stored"
        /\ \/ ~valid /\ reply(ErrorStatus.unprocessable)
           \/ valid /\ reply(202)
           \/ valid /\ reply(ErrorStatus.downstream)
        /\ UNCHANGED <<stream, sem, byteSem, post, outcome, rows, unsaved>>

----------------------------------------------------------------------------
StreamStep(s) ==
    \/ \E turn \in Turns[s] : OnRequestHeaders(s, turn)
    \/ OnRequestBody(s)
    \/ OnResponseHeaders(s)
    \/ \E filled, eos \in BOOLEAN : OnResponseBody(s, filled, eos)
    \/ Hangup(s)

DispatchStep(s) == Post(s) \/ NetworkError(s) \/ Answered(s) \/ Release(s)

IngestStep(s) == \E a \in Attempts : PersistRawTurn(s, a) \/ ProcessTurn(s, a)

Next == \E s \in Streams : StreamStep(s) \/ DispatchStep(s) \/ IngestStep(s)

\* The goroutine runs: a post is sent or fails, an answer or the client's
\* timeout comes, and the deferred release is executed.
Fairness == \A s \in Streams : WF_vars(DispatchStep(s))

Spec == Init /\ [][Next]_vars /\ Fairness

----------------------------------------------------------------------------
\* What the capture path promises: one outcome for each call, an exact account
\* of the dispatcher's limits, and rows of the raw layer that can be read
\* whatever was shed on the way.

\* The slots in use are those of the dispatches under way: every path of
\* Dispatch and postWithRetry gives back the one it took.
SlotsExact == sem = Cardinality(InFlight) /\ sem <= MaxInflight

\* So are the bytes, with retries and refusals on the way.
BytesExact ==
    /\ byteSem = SumFunction([s \in InFlight |-> post[s].weight])
    /\ byteSem <= ByteBudget

\* A call is counted once: no path records two outcomes, and a call whose
\* request had ended is never left without one.
CountedOnce ==
    \A s \in Streams :
        /\ Len(outcome[s]) <= 1
        /\ stream[s].phase = "closed" /\ stream[s].reqEOS
           /\ s \notin InFlight => Len(outcome[s]) = 1

\* A row can be read: it has a reduction, the gateway's or the server's, also
\* where the bytes were stripped from an envelope that had only them.
StoredIsReduced ==
    \A s \in Streams : \A i \in DOMAIN rows[s] : rows[s][i].reduced # "none"

\* Where the gateway captures bytes, a row without them says that they
\* existed; a row with them does not.
LostBytesAreMarked ==
    \A s \in Streams : \A i \in DOMAIN rows[s] :
        IF Mode = "off" THEN ~rows[s][i].dropped
        ELSE rows[s][i].dropped <=> rows[s][i].raw = 0

\* However often a post is repeated, a call has one row and keeps it.
RowsStay == [][\A s \in Streams : rows[s] # <<>> => rows'[s] = rows[s]]_vars

\* The write to the raw layer comes before the parsing: a turn the server
\* cannot parse or its pool will not take has its row, as one that is accepted
\* has, unless that write failed.  Of that no answer tells: persistRawTurn logs
\* it and handleIngest answers 202, though this "acknowledges a turn that
\* reached the raw layer" (ingestAcceptedResponse).
OnlyFailedWritesLose ==
    \A s \in Streams, a \in Attempts :
        handler[s][a].stage = "done" /\ handler[s][a].code \notin {400, 413} =>
            rows[s] # <<>> \/ s \in unsaved

\* No turn whose envelope was read goes without a row but by a failed write,
\* what is stored can be read, and it says when its bytes are gone
\* (handleIngest; decideRawLane, enforceBodyLimit).
RowsAreKeptWhole == OnlyFailedWritesLose /\ StoredIsReduced /\ LostBytesAreMarked

\* Every dispatch gives its slot back.
SlotsReturn == \A s \in Streams : s \in InFlight ~> s \notin InFlight

\* A post that is repeated changes no row that stands, and does not keep its
\* slot for good (post, dispatch).
RetriesAreHarmless == RowsStay /\ SlotsReturn
=============================================================================
