---------------------------- MODULE StreamingProxy ----------------------------
(***************************************************************************)
(* The transparent proxy (proxy/proxy.go, proxy/header): a handler that    *)
(* calls the upstream, the goroutine that relays a streamed answer through *)
(* a pipe while it keeps a copy, and the capture job it leaves behind for  *)
(* the pool.                                                               *)
(*                                                                         *)
(* Three readers relay a stream.  "capture" tees the provider's SSE stream *)
(* into the reducer of pkg/capture (Anthropic); "legacy" keeps the data of *)
(* each SSE event (OpenAI, whose deltas hold text where ParseResponse does *)
(* not look and tool calls where nothing does); "ndjson" keeps each line   *)
(* (Ollama, whose lines ParseResponse reads whole).                        *)
(*                                                                         *)
(* A chunk is what its provider means by it; a text is the place of the    *)
(* chunk it came in.  A request's body and header strings live in a buffer *)
(* of the HTTP server, which gives it to another request once the answer   *)
(* is written; a job keeps the slice (RawRequest, AgentName, ThreadID),    *)
(* not a copy.  What the pool does with a job it has no room for is        *)
(* CapturePool's.                                                          *)
(***************************************************************************)
EXTENDS Integers, Sequences, SequencesExt, FiniteSets

CONSTANTS
    Request,
    Buffer,       \* the HTTP server's pooled request buffers
    Chunk,        \* records [text |-> BOOLEAN, tool |-> a tool call, parses |-> BOOLEAN]
    NoTool, Anonymous,   \* no tool call; a tool call without an id
    MaxChunks,    \* bound on the chunks of one answer
    None

\* None is no answer, no job and no reader.
ASSUME NoneAssumption ==
    LET Answer == [text : SUBSET Nat, tools : Seq({c.tool : c \in Chunk} \cup {NoTool})]
    IN None \notin Answer \cup [response : Answer, buffer : Buffer \cup {None}] \cup {"capture", "legacy", "ndjson"}

VARIABLES
    phase,      \* "new", "calling", "relaying", "replied" (answer written), "over" (buffer returned)
    parsed,     \* whether the provider parsed the request
    path,       \* which reader relays the answer: "capture", "legacy", "ndjson"; None if none
    buffer,     \* the buffer each request's bytes are in
    bytes,      \* whose bytes a buffer holds
    sent,       \* the chunks the server took for the client
    recipient,  \* "here" or "gone"
    job,        \* what was enqueued for the request
    stored      \* whose bytes were written as the request's raw turn

proxyVars == <<phase, parsed, path, buffer, bytes, sent, recipient, job, stored>>

ProxyInit ==
    /\ phase = [r \in Request |-> "new"]
    /\ parsed = [r \in Request |-> FALSE]
    /\ path = [r \in Request |-> None]
    /\ buffer = [r \in Request |-> None]
    /\ bytes = [b \in Buffer |-> None]
    /\ sent = [r \in Request |-> <<>>]
    /\ recipient = [r \in Request |-> "here"]
    /\ job = [r \in Request |-> None]
    /\ stored = [r \in Request |-> None]

-----------------------------------------------------------------------------

\* The ids of the tool calls of a stream, each once; calls without an id all stay.
KeepNew(tools, t) ==
    IF t = NoTool \/ (t # Anonymous /\ Contains(tools, t)) THEN tools ELSE Append(tools, t)
\* The call ParseResponse finds in a chunk: none in an OpenAI delta.
ToolOf(p, c) == IF c.parses /\ p # "legacy" THEN c.tool ELSE NoTool
ToolsOf(p, chunks) == [i \in DOMAIN chunks |-> ToolOf(p, chunks[i])]
collectStreamedToolUse(p, chunks) == FoldLeft(KeepNew, <<>>, ToolsOf(p, chunks))

\* Mutant: what the last chunk already has is added again.
mergeAll(content, tools) == content \o tools
mergeToolUse(content, tools) == FoldLeft(KeepNew, content, tools)

\* The text that came (extractContentFromJSON), and whether ParseResponse
\* finds text in a chunk.
Texts(chunks) == {i \in DOMAIN chunks : chunks[i].text}
OwnText(p, c) == c.text /\ p # "legacy"

\* The answer rebuilt from its chunks; None when nothing can be.  A last chunk
\* that parses keeps its own text, and only that, if it has any; if not, the
\* accumulated text takes the place of all its blocks.
reconstructStreamedResponse(p, chunks) ==
    LET tools == collectStreamedToolUse(p, chunks)
        last == Last(chunks)
        keeps == OwnText(p, last) \/ Texts(chunks) = {}
        own == IF keeps /\ ToolOf(p, last) # NoTool THEN <<ToolOf(p, last)>> ELSE <<>>
    IN IF last.parses
       THEN [text |-> IF OwnText(p, last) THEN {Len(chunks)} ELSE Texts(chunks), tools |-> mergeToolUse(own, tools)]
       ELSE IF Texts(chunks) # {} \/ tools # <<>> THEN [text |-> Texts(chunks), tools |-> tools]
       ELSE None

\* A parsed answer, and what the reducer of pkg/capture makes of a stream
\* wherever it ends: every block, NoTool for one that is no call.
Reduced(p, chunks) == [text |-> Texts(chunks), tools |-> ToolsOf(p, chunks)]

enqueueStreamedResponse(r, chunks) ==
    IF parsed[r] /\ chunks # <<>> THEN reconstructStreamedResponse(path[r], chunks) ELSE None

\* handleSSEStreamViaCapture: a reducer that met the end of the stream, an
\* error of the upstream or one of the pipe answers with what it has.
Captured(r) == IF parsed[r] THEN Reduced(path[r], sent[r]) ELSE None

Enqueues(r, response) ==
    job' = [job EXCEPT ![r] = IF response = None THEN None ELSE [response |-> response, buffer |-> buffer[r]]]

-----------------------------------------------------------------------------

To(r, p) == phase' = [phase EXCEPT ![r] = p]

\* The server reads a request into a free buffer and calls handleProxy.
Receive(r, parses) ==
    /\ phase[r] = "new" /\ To(r, "calling")
    /\ parsed' = [parsed EXCEPT ![r] = parses]
    /\ \E b \in Buffer \ {buffer[q] : q \in {q \in Request : phase[q] \notin {"new", "over"}}} :
          /\ buffer' = [buffer EXCEPT ![r] = b]
          /\ bytes' = [bytes EXCEPT ![b] = r]
    /\ UNCHANGED <<path, sent, recipient, job, stored>>

\* 413, 500 and 502, and an upstream error passed on by the streaming handler.
Refuse(r) ==
    /\ phase[r] = "calling" /\ To(r, "replied")
    /\ UNCHANGED <<parsed, path, buffer, bytes, sent, recipient, job, stored>>

\* handleNonStreamingProxy: the whole answer, captured when it is a 200 that parses.
AnswerWhole(r, chunk, ok) ==
    /\ phase[r] = "calling" /\ To(r, "replied")
    /\ sent' = [sent EXCEPT ![r] = <<chunk>>]
    /\ Enqueues(r, IF parsed[r] /\ ok /\ chunk.parses THEN Reduced(None, <<chunk>>) ELSE None)
    /\ UNCHANGED <<parsed, path, buffer, bytes, recipient, stored>>

\* handleStreamingProxy got a 200: the goroutine starts, the handler returns.
StartStream(r, p) ==
    /\ phase[r] = "calling" /\ To(r, "relaying")
    /\ path' = [path EXCEPT ![r] = p]
    /\ UNCHANGED <<parsed, buffer, bytes, sent, recipient, job, stored>>

\* A chunk is read and written to the pipe; the server may take it before it
\* finds its client gone.
Relay(r, chunk) ==
    /\ phase[r] = "relaying" /\ Len(sent[r]) < MaxChunks
    /\ sent' = [sent EXCEPT ![r] = Append(@, chunk)]
    /\ UNCHANGED <<phase, parsed, path, buffer, bytes, recipient, job, stored>>

\* Mutant: a write that fails ends the loop of every reader, not the function.
RelayBreaks(r, chunk) ==
    /\ phase[r] = "relaying" /\ recipient[r] = "gone" /\ To(r, "replied")
    /\ Enqueues(r, IF path[r] = "capture" THEN Captured(r)
                   ELSE enqueueStreamedResponse(r, Append(sent[r], chunk)))
    /\ UNCHANGED <<parsed, path, buffer, bytes, sent, recipient, stored>>
\* Mutant: the tee's error is passed on as the reducer's.
RelayDrops(r, chunk) ==
    /\ phase[r] = "relaying" /\ recipient[r] = "gone" /\ To(r, "replied")
    /\ UNCHANGED <<parsed, path, buffer, bytes, sent, recipient, job, stored>>
\* The server has closed the pipe and the write of a chunk fails.  It is a read
\* error to the reducer, which answers with what came before; the other two
\* readers return without a capture.
RelayFails(r, chunk) ==
    /\ phase[r] = "relaying" /\ recipient[r] = "gone" /\ To(r, "replied")
    /\ Enqueues(r, IF path[r] = "capture" THEN Captured(r) ELSE None)
    /\ UNCHANGED <<parsed, path, buffer, bytes, sent, recipient, stored>>

\* What came of a stream that broke is thrown away by the legacy reader only.
Keeps(r, whole) == whole \/ path[r] # "legacy"

\* The upstream's answer ends, or breaks (http.Client.Timeout at the latest);
\* the client sees the same end.
StreamEnds(r, whole) ==
    /\ phase[r] = "relaying" /\ To(r, "replied")
    /\ Enqueues(r, IF ~Keeps(r, whole) THEN None
                   ELSE IF path[r] = "capture" THEN Captured(r) ELSE enqueueStreamedResponse(r, sent[r]))
    /\ UNCHANGED <<parsed, path, buffer, bytes, sent, recipient, stored>>

ClientLeft(r) ==
    /\ phase[r] = "relaying" /\ recipient[r] = "here" /\ recipient' = [recipient EXCEPT ![r] = "gone"]
    /\ UNCHANGED <<phase, parsed, path, buffer, bytes, sent, job, stored>>

\* Mutant: a reader that returns on a failed write leaves the pipe open.
RecycleWritten(r) ==
    /\ phase[r] = "replied" /\ recipient[r] = "here" /\ To(r, "over")
    /\ UNCHANGED <<parsed, path, buffer, bytes, sent, recipient, job, stored>>
\* The server has written the answer and resets the request.
Recycle(r) ==
    /\ phase[r] = "replied" /\ To(r, "over")
    /\ UNCHANGED <<parsed, path, buffer, bytes, sent, recipient, job, stored>>

\* A worker of the pool stores the job's request.
Store(r) ==
    /\ job[r] # None /\ stored[r] = None
    /\ stored' = [stored EXCEPT ![r] = bytes[job[r].buffer]]
    /\ UNCHANGED <<phase, parsed, path, buffer, bytes, sent, recipient, job>>

Upstream(r) == (\E chunk \in Chunk : RelayFails(r, chunk)) \/ \E whole \in BOOLEAN : StreamEnds(r, whole)
Serve(r) == Refuse(r) \/ (\E c \in Chunk, ok \in BOOLEAN : AnswerWhole(r, c, ok))
              \/ \E p \in {"capture", "legacy", "ndjson"} : StartStream(r, p)
ProxyNext == \E r \in Request :
    \/ \E parses \in BOOLEAN : Receive(r, parses)
    \/ Serve(r) \/ (\E chunk \in Chunk : Relay(r, chunk)) \/ Upstream(r)
    \/ ClientLeft(r) \/ Recycle(r) \/ Store(r)

\* Goroutines are scheduled; the upstream's answer ends, by its timeout if not
\* before; no client is owed.
ProxyFairness == \A r \in Request : /\ WF_proxyVars(Serve(r)) /\ WF_proxyVars(Upstream(r))
                                    /\ WF_proxyVars(Recycle(r)) /\ WF_proxyVars(Store(r))
ProxySpec == ProxyInit /\ [][ProxyNext]_proxyVars /\ ProxyFairness

-----------------------------------------------------------------------------

Tools(chunks) == {chunks[i].tool : i \in {i \in DOMAIN chunks : chunks[i].parses}} \ {NoTool, Anonymous}
Occurrences(t, seq) == Cardinality({i \in DOMAIN seq : seq[i] = t})

\* A captured answer says what the exchange relayed, as far as it came: all of
\* its text, unless the last line of an NDJSON stream has text of its own (it
\* does when the stream broke; then only that line's is kept), and every
\* identified tool call, unless the stream was OpenAI's: its calls are in its
\* deltas, where no reader looks, so a turn of calls only is captured empty,
\* though it should reduce "to a non-empty assistant message".
\* Whatever happened, it has something of the text if there was any, no text or
\* call that was not relayed, and no call of an NDJSON stream twice
\* (handleHTTPRespToPipeWriter and the readers below it, mergeToolUse).
CaptureIsTheAnswer == \A r \in Request : job[r] # None =>
    LET answer == job[r].response
    IN /\ answer.text \subseteq Texts(sent[r])
       /\ answer.text = {} => Texts(sent[r]) = {}
       /\ (path[r] = "ndjson" => ~Last(sent[r]).text) => answer.text = Texts(sent[r])
       /\ path[r] # "legacy" => Tools(sent[r]) \subseteq Range(answer.tools)
       /\ path[r] = "ndjson" => \A t \in Tools(sent[r]) : Occurrences(t, answer.tools) = 1
       /\ Range(answer.tools) \subseteq Tools(sent[r]) \cup {NoTool, Anonymous}

\* Whether a reader found anything in an answer.
Said(p, chunks) == Texts(chunks) # {} \/ \E i \in DOMAIN chunks : ToolOf(p, chunks[i]) # NoTool

\* A stream is through with all it should leave.
Through(r) ==
    \/ StreamEnds(r, TRUE)
    \/ path[r] # "legacy" /\ StreamEnds(r, FALSE)
    \/ path[r] = "capture" /\ \E c \in Chunk : RelayFails(r, c)

\* A streamed answer whose request parsed is captured when it is through and
\* said something: a tool-only turn, and one whose last chunk is no answer,
\* included (reconstructStreamedResponse).  A stream the upstream broke off is
\* captured by the NDJSON reader and the reducer ("Preserve what we have so the
\* operator still sees the partial turn rather than a hole",
\* pkg/capture/anthropic.go), and one whose client left by the reducer.  What
\* was captured is never captured again.
TurnsAreCaptured == [][\A r \in Request :
    /\ parsed[r] /\ Said(path[r], sent[r]) /\ Through(r) => job'[r] # None
    /\ job[r] # None => job'[r] = job[r]]_proxyVars

\* Every request the server took ends, and its capture is stored, though the
\* upstream may stop in the middle of an answer and the client may leave.
RequestsEnd == \A r \in Request :
    (phase[r] # "new" ~> phase[r] = "over") /\ (job[r] # None ~> stored[r] # None)

\* However a streamed exchange ends, it ends, its capture is stored, and one
\* that ran to its end has a capture (handleStreamingProxy).
ExchangesSettle == TurnsAreCaptured /\ RequestsEnd

-----------------------------------------------------------------------------

\* Refuted: "RawRequest is the verbatim provider request body the proxy
\* received" (worker.Job).  The server may have given the buffer to another
\* request before the pool comes to the job.
StoredIsItsOwn == \A r \in Request : stored[r] \in {None, r}
=============================================================================
