----------------------------- MODULE CassetteStream -----------------------------
(***************************************************************************)
(* A request under /v1/cassettes/<name> once its instance is looked up     *)
(* (api/cassettes.go, api/cassette_stream.go): the handler that waits for  *)
(* a status and returns, the goroutine that runs the reverse proxy into a  *)
(* pipe, fasthttp that pulls the pipe into the socket after the handler    *)
(* returned, and the watch on an event stream's connection.                *)
(***************************************************************************)
EXTENDS Integers

CONSTANT NoStatus

ASSUME StatusAssumption == NoStatus \notin {"1xx", "200", "502"}

VARIABLES
    handler,    \* "none", "await" or "returned"
    proxying,   \* the goroutine: "off", "connect", "copy", "write", "error", "cancel", "finish", "close", "gone"
    relay,      \* the status the handler is given, NoStatus until it is settled
    upstream,   \* the final status of the cassette, NoStatus until it answered
    pipe,       \* which ends of the pipe are closed
    cancelled,  \* whether the upstream's context is cancelled
    body,       \* fasthttp: "off", "pull" or "closed"
    watching,   \* whether a goroutine reads the connection
    client      \* "here" or "gone"

streamVars == <<handler, proxying, relay, upstream, pipe, cancelled, body, watching, client>>

StreamInit ==
    /\ handler = "none" /\ proxying = "off" /\ relay = NoStatus /\ upstream = NoStatus
    /\ pipe = {} /\ cancelled = FALSE /\ body = "off" /\ watching = FALSE /\ client = "here"

\* Mutant: the last status counts.
WriteHeaderLast(status) == relay' = status
\* The first status counts: WriteHeader is guarded by once.
WriteHeader(status) == relay' = IF relay = NoStatus THEN status ELSE relay

ProxyToCassette ==
    /\ handler = "none" /\ handler' = "await" /\ proxying' = "connect"
    /\ UNCHANGED <<relay, upstream, pipe, cancelled, body, watching, client>>

\* The handler has a status: it hands the pipe to fasthttp and returns.
AwaitReturns(stream) ==
    /\ handler = "await" /\ relay # NoStatus
    /\ handler' = "returned" /\ body' = "pull" /\ watching' = stream
    /\ UNCHANGED <<proxying, relay, upstream, pipe, cancelled, client>>

UpstreamInforms ==
    /\ proxying = "connect" /\ ~cancelled
    /\ WriteHeader("1xx")
    /\ UNCHANGED <<handler, proxying, upstream, pipe, cancelled, body, watching, client>>
UpstreamAnswers ==
    /\ proxying = "connect" /\ ~cancelled
    /\ upstream' = "200" /\ WriteHeader("200") /\ proxying' = "copy"
    /\ UNCHANGED <<handler, pipe, cancelled, body, watching, client>>
\* ErrorHandler: the status, then a body through the same pipe.
UpstreamFails ==
    /\ proxying = "connect"
    /\ upstream' = "502" /\ WriteHeader("502") /\ proxying' = "error"
    /\ UNCHANGED <<handler, pipe, cancelled, body, watching, client>>
\* The proxy unwinds without a status.
UpstreamUnwinds ==
    /\ proxying = "connect" /\ upstream' = "502" /\ proxying' = "cancel"
    /\ UNCHANGED <<handler, relay, pipe, cancelled, body, watching, client>>
UpstreamSends ==
    /\ proxying = "copy" /\ ~cancelled /\ proxying' = "write"
    /\ UNCHANGED <<handler, relay, upstream, pipe, cancelled, body, watching, client>>
\* The end of the answer, or a connection that broke.
UpstreamEnds ==
    /\ proxying = "copy" /\ proxying' = "cancel"
    /\ UNCHANGED <<handler, relay, upstream, pipe, cancelled, body, watching, client>>
CancelSeen ==
    /\ proxying = "copy" /\ cancelled /\ proxying' = "cancel"
    /\ UNCHANGED <<handler, relay, upstream, pipe, cancelled, body, watching, client>>

\* Mutant: closing the body stops nothing upstream.
CloseBodyOnly == body' = "closed" /\ pipe' = pipe \cup {"reader"} /\ UNCHANGED cancelled
CloseBody == body' = "closed" /\ cancelled' = TRUE /\ pipe' = pipe \cup {"reader"}

AfterWrite == IF proxying = "write" THEN "copy" ELSE "cancel"
\* fasthttp takes a write and flushes it; a client that left fails the flush.
Pull ==
    /\ body = "pull" /\ proxying \in {"write", "error"}
    /\ proxying' = AfterWrite
    /\ IF client = "here" THEN UNCHANGED <<body, cancelled, pipe>> ELSE CloseBody
    /\ UNCHANGED <<handler, relay, upstream, watching, client>>
WriteFails ==
    /\ proxying \in {"write", "error"} /\ "reader" \in pipe /\ proxying' = "cancel"
    /\ UNCHANGED <<handler, relay, upstream, pipe, cancelled, body, watching, client>>
PullEnd ==
    /\ body = "pull" /\ "writer" \in pipe /\ CloseBody
    /\ UNCHANGED <<handler, proxying, relay, upstream, watching, client>>

\* The goroutine's defers, last first.
Cancel ==
    /\ proxying = "cancel" /\ cancelled' = TRUE /\ proxying' = "finish"
    /\ UNCHANGED <<handler, relay, upstream, pipe, body, watching, client>>
\* Mutant: a proxy that unwound settles nothing.
FinishSilently ==
    /\ proxying = "finish" /\ proxying' = "close"
    /\ UNCHANGED <<handler, relay, upstream, pipe, cancelled, body, watching, client>>
Finish ==
    /\ proxying = "finish" /\ WriteHeader("502") /\ proxying' = "close"
    /\ UNCHANGED <<handler, upstream, pipe, cancelled, body, watching, client>>
CloseWriter ==
    /\ proxying = "close" /\ pipe' = pipe \cup {"writer"} /\ proxying' = "gone"
    /\ UNCHANGED <<handler, relay, upstream, cancelled, body, watching, client>>

ClientLeaves ==
    /\ client = "here" /\ handler # "none" /\ client' = "gone"
    /\ UNCHANGED <<handler, proxying, relay, upstream, pipe, cancelled, body, watching>>
\* Mutant: the watch ends without a cancel.
WatchEnds ==
    /\ watching /\ (client = "gone" \/ body = "closed")
    /\ watching' = FALSE
    /\ UNCHANGED <<handler, proxying, relay, upstream, pipe, cancelled, body, client>>
\* Only the end of the connection lets the read return.
WatchClientGone ==
    /\ watching /\ (client = "gone" \/ body = "closed")
    /\ cancelled' = TRUE /\ watching' = FALSE
    /\ UNCHANGED <<handler, proxying, relay, upstream, pipe, body, client>>

Serving == (\E stream \in BOOLEAN : AwaitReturns(stream)) \/ Pull \/ WriteFails \/ PullEnd \/ CancelSeen
             \/ Cancel \/ Finish \/ CloseWriter \/ WatchClientGone
Answers == UpstreamAnswers \/ UpstreamFails \/ UpstreamUnwinds
StreamNext == ProxyToCassette \/ UpstreamInforms \/ Answers \/ UpstreamSends \/ UpstreamEnds \/ ClientLeaves \/ Serving

-----------------------------------------------------------------------------

\* Goroutines are scheduled, and a cassette that was called answers or its
\* connection breaks; it need not say more than that.
StreamFairness == WF_streamVars(Serving) /\ WF_streamVars(Answers)
StreamSpec == StreamInit /\ [][StreamNext]_streamVars /\ StreamFairness

\* A handler that called a cassette gets its status, and the body it handed to
\* fasthttp ends once the proxy is done (finish: "releases a waiter that would
\* otherwise block forever").
AnswerEnds ==
    /\ handler = "await" ~> handler = "returned"
    /\ proxying = "gone" ~> body = "closed"

\* When the client of an event stream leaves, or a body is closed, the proxy's
\* goroutine ends although the cassette may never speak again
\* (cassetteBodyStream: "every teardown path release the cassette connection").
UpstreamReleased ==
    (body = "closed" \/ (watching /\ client = "gone")) ~> proxying = "gone"

\* Once its status is settled the client is told nothing else, and unless an
\* informational response settled it, that is the cassette's answer, or 502
\* for none (WriteHeader: "ready is closed once the status line and headers
\* are settled").
FinalStatusIsTheAnswer == handler = "returned" /\ relay # "1xx" => relay = upstream

\* Nothing of a stream is left waiting: not the handler, not the client, not
\* the goroutine that holds the cassette; and what was answered was its answer
\* (handleCassetteProxy).
StreamSettles == []FinalStatusIsTheAnswer /\ AnswerEnds /\ UpstreamReleased
=============================================================================
