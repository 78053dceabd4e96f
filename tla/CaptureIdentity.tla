---------------------------- MODULE CaptureIdentity ----------------------------
(***************************************************************************)
(* What a captured call is recognised as: the thread id and the session    *)
(* envelope that three readers take from the same request headers          *)
(* (proxy/header, extproc/headers, pkg/backfill), the session key they     *)
(* lead to (pkg/sessions), the transparent proxy's routes (proxy/proxy.go) *)
(* and ext_proc's classification of the traffic its gateway shows it       *)
(* (extproc/processor.go).                                                 *)
(*                                                                         *)
(* A set of headers is a function from a name to a value, "" for a header  *)
(* that is absent; the values " " and " s" stand for one that is blank or  *)
(* begins with a blank the server left.  An envelope is <<>> or <<record>>.*)
(* A path is the sequence of its segments.                                 *)
(***************************************************************************)
EXTENDS Sequences, SequencesExt, FiniteSets

HarnessIDUnknown == "unknown"

\* Codex stamps both of its ids on every call; only where they differ is the
\* call a thread's.
CodexThread(h) ==
    IF h["thread-id"] # "" /\ h["session-id"] # "" /\ h["thread-id"] # h["session-id"]
    THEN h["thread-id"] ELSE ""
TrimSpace(v) == CASE v = " " -> "" [] v = " s" -> "s" [] OTHER -> v
Trimmed(h) == [n \in DOMAIN h |-> TrimSpace(h[n])]
\* The proxy reads every id without the blanks around it; the other two read
\* it as it came.
ProxyThreadID(h) ==
    IF Trimmed(h)["claude-agent-id"] # "" THEN Trimmed(h)["claude-agent-id"] ELSE CodexThread(Trimmed(h))
ExtProcThreadID(h) == IF h["claude-agent-id"] # "" THEN h["claude-agent-id"] ELSE CodexThread(h)
\* Mutant: a thread id alone is a thread.
threadIDBare(h) == IF h["claude-agent-id"] # "" THEN h["claude-agent-id"] ELSE h["thread-id"]
threadIDFromHeaders(h) == IF h["claude-agent-id"] # "" THEN h["claude-agent-id"] ELSE CodexThread(h)

-----------------------------------------------------------------------------

TapesNames == {"agent-name", "harness-id", "harness-session-id", "cwd", "parent", "metadata", "later"}
Given(h) == {n \in TapesNames : h[n] # ""}

\* url.PathUnescape of the values used below; one is no encoding at all, one
\* hides a control byte.
PathUnescape(raw) == CASE raw = "p%61th" -> "path" [] raw = "a%0ab" -> "a\nb" [] OTHER -> raw
hasControlRune(value) == value = "a\nb"
\* Mutant: the gate looks at what arrived.
decodeUngated(raw) == IF hasControlRune(raw) THEN "" ELSE PathUnescape(raw)
decodeEnvelopeHeaderValue(raw) == IF hasControlRune(PathUnescape(raw)) THEN "" ELSE PathUnescape(raw)
\* What the base64url of the metadata header holds: a JSON object, an array
\* (or a number, or a text), null, or no JSON.  extproc keeps objects only;
\* the replay keeps whatever is JSON.
decodeMetadata(raw) == IF raw = "object" THEN raw ELSE ""
HarnessMetadata(raw) == IF raw = "junk" THEN "" ELSE raw

Envelope(h, harness, metadata) ==
    [harness |-> harness, session |-> h["harness-session-id"], cwd |-> decodeEnvelopeHeaderValue(h["cwd"]),
     parent |-> h["parent"], metadata |-> metadata]
\* What ingest accepts of an envelope; it answers 400 to another.
Validate(e) == e = <<>> \/ e[1].metadata # "array"

\* extproc: any header of the prefix, the ones of later releases included.
ParseSessionEnvelope(h) ==
    IF Given(h) = {} THEN <<>>
    ELSE <<Envelope(h, IF h["harness-id"] = "" THEN HarnessIDUnknown ELSE h["harness-id"], decodeMetadata(h["metadata"]))>>
\* Mutant: only the known headers are kept from the provider.
StrippedKnown(h) == Given(h) \ {"later"}
EnvelopeHeaderKeysFromRequest(h) == Given(h)

\* The replay of a recorded call: one of the two ids must be there.
sessionEnvelopeFromHeaders(h) ==
    IF h["harness-session-id"] = "" /\ h["harness-id"] = "" THEN <<>>
    ELSE <<Envelope(h, h["harness-id"], HarnessMetadata(h["metadata"]))>>

\* The local proxy reads none of them.
localCaptureSession == <<[harness |-> "", session |-> "", cwd |-> "", parent |-> "", metadata |-> ""]>>

-----------------------------------------------------------------------------

HarnessIDOrUnknown(e) == IF e = <<>> \/ e[1].harness = "" THEN HarnessIDUnknown ELSE e[1].harness
NeedsSyntheticHarnessSessionID(e) ==
    e = <<>> \/ HarnessIDOrUnknown(e) = HarnessIDUnknown \/ e[1].session = ""
SyntheticHarnessSessionID(root) == root
\* Mutant: a session id counts whoever sent it.
ResolveAnyID(e, root) == <<HarnessIDOrUnknown(e), IF e # <<>> /\ e[1].session # "" THEN e[1].session ELSE root>>
\* The harness and the session id a turn is stored under; root is the hash of
\* the conversation's first message.
ResolveHarnessSessionID(e, root) ==
    IF ~NeedsSyntheticHarnessSessionID(e) THEN <<e[1].harness, e[1].session>>
    ELSE <<HarnessIDOrUnknown(e), SyntheticHarnessSessionID(root)>>

-----------------------------------------------------------------------------

Providers == {"openai", "anthropic", "ollama"}

\* [agent, provider, path]: the header names the agent, or the path does, and
\* then may name a provider too.  "" is none.
Route(agent, provider, path) == [agent |-> agent, provider |-> provider, path |-> path]
\* Mutant: the path names an agent whatever the header says.
resolvePathFirst(path, header) ==
    IF Len(path) >= 2 /\ path[1] = "agents" THEN Route(path[2], "", SubSeq(path, 3, Len(path)))
    ELSE Route(header, "", path)
resolveProviderOverride(path) ==
    IF Len(path) >= 2 /\ path[1] = "providers" THEN <<path[2], SubSeq(path, 3, Len(path))>> ELSE <<"", path>>
resolveAgent(path, header) ==
    IF header # "" THEN Route(header, "", path)
    ELSE IF Len(path) < 2 \/ path[1] # "agents" THEN Route("", "", path)
    ELSE LET rest == resolveProviderOverride(SubSeq(path, 3, Len(path))) IN Route(path[2], rest[1], rest[2])

isOpenAIAuthPath(path) ==
    \/ path # <<>> /\ path[1] \in {"oauth", "auth", "oauth2"}
    \/ Len(path) >= 2 /\ path[1] \in {"v1", "api"} /\ path[2] \in {"oauth", "auth", "oauth2"}
\* Mutant: every OpenAI agent signs in there.
resolveAnyAuthUpstream(agent, provider, path, upstream) ==
    IF provider = "openai" /\ isOpenAIAuthPath(path) THEN "auth.openai.com" ELSE upstream
resolveOpenAIAuthUpstream(agent, provider, path, upstream) ==
    IF provider = "openai" /\ agent = "codex" /\ isOpenAIAuthPath(path) THEN "auth.openai.com" ELSE upstream

providerUpstream(config, provider, fallback) ==
    IF config.upstreams[provider] # "" THEN config.upstreams[provider] ELSE fallback
Fallback(config, provider) ==
    CASE provider = "openai" -> "api.openai.com" [] provider = "anthropic" -> "api.anthropic.com"
      [] provider = "ollama" -> config.upstream
\* <<provider, upstream>>
providerByName(config, agent, provider, path) ==
    IF provider \notin Providers THEN <<config.default, config.upstream>>
    ELSE <<provider, resolveOpenAIAuthUpstream(agent, provider, path, providerUpstream(config, provider, Fallback(config, provider)))>>
\* An agent's route may leave the upstream to the configuration.
resolveProvider(config, route) ==
    IF route.provider # "" THEN providerByName(config, route.agent, route.provider, route.path)
    ELSE IF route.agent \in DOMAIN config.routes
    THEN LET r == config.routes[route.agent]
         IN <<r.provider, resolveOpenAIAuthUpstream(route.agent, r.provider, route.path,
                                                    IF r.upstream = "" THEN config.upstream ELSE r.upstream)>>
    ELSE <<config.default, config.upstream>>

-----------------------------------------------------------------------------

\* Mutant: the query counts as part of the path.
HasSuffixAny(path, suffix) == path.query = "" /\ IsSuffix(suffix, path.segments)
pathHasCleanSuffix(path, suffix) == IsSuffix(suffix, path.segments)

classifyEndpoint(path) ==
    IF pathHasCleanSuffix(path, <<"v1", "messages", "count_tokens">>) THEN "messages_count_tokens"
    ELSE IF pathHasCleanSuffix(path, <<"v1", "messages">>) THEN "messages"
    ELSE IF pathHasCleanSuffix(path, <<"v1", "chat", "completions">>) THEN "chat_completions"
    ELSE IF pathHasCleanSuffix(path, <<"v1", "responses">>) \/ pathHasCleanSuffix(path, <<"codex", "responses">>) THEN "responses"
    ELSE IF pathHasCleanSuffix(path, <<"api", "chat">>) THEN "ollama_chat" ELSE "other"
isTurnRequestPath(path) ==
    \E s \in {<<"v1", "chat", "completions">>, <<"v1", "responses">>, <<"codex", "responses">>,
              <<"v1", "messages">>, <<"api", "chat">>} : pathHasCleanSuffix(path, s)
isCapturableTurnRequest(method, path) == isTurnRequestPath(path) /\ method \in {"", "POST"}

\* The backend the gateway selected, or the path.
BackendProvider(map, backend, path) ==
    IF backend \in DOMAIN map THEN map[backend]
    ELSE CASE classifyEndpoint(path) \in {"chat_completions", "responses"} -> "openai"
           [] classifyEndpoint(path) = "ollama_chat" -> "ollama"
           [] OTHER -> "anthropic"
\* Mutant: a provider's reducer takes whatever the provider answers.
reducerHandlesProvider(provider, endpoint) == provider \in {"anthropic", "openai"}
reducerHandlesEndpoint(provider, endpoint) == <<provider, endpoint>> \in {<<"anthropic", "messages">>, <<"openai", "responses">>}
Captured(map, c) ==
    /\ isCapturableTurnRequest(c.method, c.path)
    /\ reducerHandlesEndpoint(BackendProvider(map, c.backend, c.path), classifyEndpoint(c.path))

-----------------------------------------------------------------------------

ThreadCases == {[algorithm |-> "thread", headers |-> h] :
    h \in [{"claude-agent-id", "session-id", "thread-id"} -> {"", "s", "t", " ", " s"}]}
EnvelopeCases ==
    {[algorithm |-> "envelope", headers |-> [n \in TapesNames |->
        CASE n = "agent-name" -> a [] n = "later" -> l [] n = "parent" -> p [] n = "harness-id" -> i
          [] n = "harness-session-id" -> s [] n = "cwd" -> c [] n = "metadata" -> m]] :
        a \in {"", "a"}, l \in {"", "a"}, p \in {"", "s"}, i \in {"", "claude", HarnessIDUnknown},
        s \in {"", "s"}, c \in {"", "p%61th", "50%", "a%0ab"}, m \in {"", "object", "array", "null", "junk"}}

\* A call is put on the same thread whichever of the three readers saw it, and
\* the root of a Codex session on none: of any ids the two that read what came
\* take the same, and the proxy with them where no id has blanks around it, the
\* one thing it reads otherwise (ThreadIDHeaders: "the two are independent
\* capture paths for the same traffic"; threadIDFromHeaders: "any change here
\* belongs in extproc's ThreadID too").
ThreadsAgree(c) == c.algorithm = "thread" =>
    LET h == c.headers
    IN /\ ExtProcThreadID(h) = threadIDFromHeaders(h)
       /\ Trimmed(h) = h => ProxyThreadID(h) = ExtProcThreadID(h)
       /\ (\A n \in DOMAIN h : Trimmed(h)[n] = "") => ProxyThreadID(h) = ""
       /\ (h["claude-agent-id"] = "" /\ h["thread-id"] \in {"", h["session-id"]}) =>
              ProxyThreadID(h) = "" /\ threadIDFromHeaders(h) = ""
       /\ h["session-id"] = "" => threadIDFromHeaders(h) \in {"", h["claude-agent-id"]}

\* A call replayed from its recording is stored under the session its live
\* capture was stored under, and where it names a harness or a session with
\* the same attributes.  Its metadata is the exception, where it is JSON
\* and no object: the live reader drops it and ingest accepts the rest, the
\* other keeps it and ingest refuses the whole, though "Every parser of this
\* corpus must agree on all of it" (fixtures/envelope/README.md).  A caller that names none gets the session of its conversation, as
\* one without an envelope does; no decoded value carries a control byte
\* (sessionEnvelopeFromHeaders: "the two parsers are meant to be
\* interchangeable"; ResolveHarnessSessionID: "identical regardless of which
\* path wrote the raw turn").
ReplayKeepsTheSession(c) == c.algorithm = "envelope" =>
    LET live == ParseSessionEnvelope(c.headers)
        replayed == sessionEnvelopeFromHeaders(c.headers)
        same(e, f) == [e[1] EXCEPT !.harness = "", !.metadata = ""] = [f[1] EXCEPT !.harness = "", !.metadata = ""]
    IN /\ ResolveHarnessSessionID(live, "root") = ResolveHarnessSessionID(replayed, "root")
       /\ replayed # <<>> =>
              /\ same(live, replayed)
              /\ c.headers["metadata"] \in {"array", "null"} \/ live[1].metadata = replayed[1].metadata
       /\ Validate(live) /\ (replayed # <<>> => (Validate(replayed) <=> c.headers["metadata"] # "array"))
       /\ HarnessIDOrUnknown(live) = HarnessIDUnknown =>
              ResolveHarnessSessionID(live, "root") = ResolveHarnessSessionID(localCaptureSession, "root")
       /\ live # <<>> => ~hasControlRune(live[1].cwd)

\* What makes a call carry a session is what is kept from the provider: no
\* header is stripped and then lost (ParseSessionEnvelope: "keeps dispatch and
\* strip symmetric").
StripIsDispatch(c) == c.algorithm = "envelope" =>
    /\ EnvelopeHeaderKeysFromRequest(c.headers) # {} <=> ParseSessionEnvelope(c.headers) # <<>>
    /\ \A n \in TapesNames \ EnvelopeHeaderKeysFromRequest(c.headers) : c.headers[n] = ""

Config == [default |-> "ollama", upstream |-> "local",
           upstreams |-> [openai |-> "", anthropic |-> "relay", ollama |-> ""],
           routes |-> [codex |-> [provider |-> "openai", upstream |-> "api.openai.com"],
                       claude |-> [provider |-> "anthropic", upstream |-> ""]]]
Segment == {"agents", "codex", "claude", "providers", "openai", "v1", "auth"}
RouteCases == {[algorithm |-> "route", path |-> p, header |-> h] :
    p \in UNION {[1..n -> Segment] : n \in 0..3}
            \cup {<<"agents", a, "providers", p, q>> : a \in {"codex", "claude"}, p \in Providers \cup {"v1"}, q \in Segment}, h \in {"", "codex"}}

\* A call tagged with its agent in the path reaches the provider, the upstream
\* and the path it would reach tagged in the header; the header wins over the
\* path, so that no agent is taken for another; and only codex's own sign-in
\* goes to the sign-in server, by whatever route (resolveAgent,
\* resolveOpenAIAuthUpstream).
TagsAreTransparent(c) == c.algorithm = "route" =>
    LET route == resolveAgent(c.path, c.header)
        target == resolveProvider(Config, route)
        byPath == resolveAgent(<<"agents", "codex">> \o c.path, "")
    IN /\ c.header # "" => route.agent = c.header /\ route.path = c.path
       /\ (c.header = "codex" /\ (Len(c.path) < 2 \/ c.path[1] # "providers")) =>
              byPath = route /\ resolveProvider(Config, byPath) = target
       /\ (target[2] = "auth.openai.com") <=> (route.agent = "codex" /\ target[1] = "openai" /\ isOpenAIAuthPath(route.path))
       /\ route.provider # "" => IsSuffix(route.path, c.path) /\ Len(route.path) = Len(c.path) - 4

Endings == {<<"v1", "messages">>, <<"v1", "messages", "count_tokens">>, <<"v1", "chat", "completions">>,
             <<"v1", "responses">>, <<"codex", "responses">>, <<"api", "chat">>, <<"v1", "models">>}
Backends == [a |-> "anthropic", o |-> "openai", l |-> "ollama"]
TrafficCases == {[algorithm |-> "traffic", method |-> m, backend |-> b,
                  path |-> [segments |-> pre \o s, query |-> q]] :
    m \in {"", "POST", "GET"}, b \in {"", "a", "o", "l"}, pre \in {<<>>, <<"gw">>}, s \in Endings, q \in {"", "beta"}}

\* Whichever backend the gateway names and however the path is decorated, a
\* reducer is given its own wire format only; and where the gateway names no
\* backend or the provider's own, each turn it could read is captured and
\* nothing that is not a turn (reducerHandlesEndpoint: a missing entry is no
\* "silently mis-fed reducer").
ReducersSeeTheirFormat(c) == c.algorithm = "traffic" =>
    LET ends(s) == IsSuffix(s, c.path.segments)
        provider == BackendProvider(Backends, c.backend, c.path)
    IN /\ Captured(Backends, c) =>
              \/ provider = "anthropic" /\ ends(<<"v1", "messages">>)
              \/ provider = "openai" /\ (ends(<<"v1", "responses">>) \/ ends(<<"codex", "responses">>))
       /\ (c.method # "GET" /\ c.backend \in {"", "a"} /\ ends(<<"v1", "messages">>)) => Captured(Backends, c)
       /\ (c.method # "GET" /\ c.backend \in {"", "o"} /\ ends(<<"codex", "responses">>)) => Captured(Backends, c)
       /\ c.method = "GET" \/ ends(<<"v1", "messages", "count_tokens">>) => ~Captured(Backends, c)
=============================================================================
