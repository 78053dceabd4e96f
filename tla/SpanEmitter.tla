------------------------------ MODULE SpanEmitter ------------------------------
(***************************************************************************)
(* The second half of a derive pass (pkg/derive/spans.go, EmitSpans): the  *)
(* sources become traces, a tree of spans in each, and links between spans. *)
(* The walk is phased because wire order races structure: main calls build *)
(* every trace first, subagent threads then hang off the tool uses that    *)
(* spawned them, to a fixed point since a thread can spawn a thread, and    *)
(* checks and other offshoots come last.                                   *)
(***************************************************************************)
EXTENDS Deriver

VARIABLES
    phase,   \* "feed", "spine", "threads", "leftover", "shadows", "done"
    pos,     \* sources walked in the spine phase
    pending, \* thread calls left in this pass
    blocked, \* thread calls the pass could not anchor
    moved,   \* the pass anchored one
    shadows, \* offshoots to come
    em       \* the emitter: what was emitted, and where things are

walkVars == <<phase, pos, pending, blocked, moved, shadows>>
vars == <<feedVars, walkVars, em>>

NoSeam == [trace |-> "", span |-> <<>>]

\* Spans are named by what they stand for.
LlmId(s) == <<"llm", s.call>>
ToolId(t) == <<"tool", t>>
ThreadId(th) == <<"agent", th>>
RootId(trace) == <<"main", trace>>
EventId(n) == <<"event", n>>

\* A transcript's turn names its trace, else the call that opens it.
CallIdentity(s) == s.call
TraceIdentity(s) == IF s.turn # NoTurn THEN s.turn ELSE CallIdentity(s)

SpanCallKind(s) == IF s.kind = Compaction /\ s.thread # MainThread THEN Main ELSE s.kind

-----------------------------------------------------------------------------
(* What a call's request says.                                              *)

Request(s) == 1..(Len(s.chain) - 1)
Response(s) == s.chain[Len(s.chain)]
Role(s, i) == Info[s.chain[i]].role
LastOf(set) == IF set = {} THEN 0 ELSE Max(set)

\* What follows the last assistant node of the request that is new: the
\* boundary a resumed conversation re-sends its history up to.
LastFreshAssistantIdx(s) == LastOf({i \in Request(s) \cap s.new : Role(s, i) = "assistant"})

Genuine(n) == Info[n].role = "user" /\ ~Injected(n) /\ Info[n].results = {}
PromptAt(s, i) == IF i = 0 THEN NoNode ELSE s.chain[i]
\* Mutant: the replayed history counts as fresh.
FreshGenuinePromptReplayed(s) ==
    PromptAt(s, LastOf({i \in Request(s) : Genuine(s.chain[i])}))
FreshGenuinePrompt(s) ==
    PromptAt(s, LastOf({i \in Request(s) \cap s.new : i > LastFreshAssistantIdx(s) /\ Genuine(s.chain[i])}))
\* The transcript's own prompt, whether or not another call brought it first.
TranscriptGenuinePrompt(s) ==
    LET last == LastOf({i \in Request(s) : Role(s, i) = "assistant"})
    IN  PromptAt(s, LastOf({i \in Request(s) : i > last /\ Genuine(s.chain[i])}))

\* A transcript file names the spawning tool use; else reconciliation does.
ThreadAnchor(s) ==
    LET roots == {i \in DOMAIN s.chain : Info[s.chain[i]].parent = NoNode /\ s.chain[i] \in DOMAIN stamped}
    IN  IF s.anchor # NoTool THEN s.anchor ELSE IF roots = {} THEN NoTool ELSE stamped[s.chain[Min(roots)]]

FreshInput(s) ==
    {s.chain[i] : i \in {j \in Request(s) \cap s.new :
        j > LastFreshAssistantIdx(s) /\ Role(s, j) = "user" /\ ~Injected(s.chain[j])}}
ConversationInput(s) ==
    IF FreshInput(s) = {} /\ s.from = "transcript" /\ s.turn # NoTurn
    THEN {TranscriptGenuinePrompt(s)} \ {NoNode} ELSE FreshInput(s)

-----------------------------------------------------------------------------
(* Emission: each operator takes an emitter to the next.                    *)

\* ALLOW or BLOCK, of permission checks alone.
ClassifyVerdict(kind, reply) ==
    IF kind \notin Checks \/ reply \notin {"yes", "no"} THEN ""
    ELSE IF reply = "yes" THEN "BLOCK" ELSE "ALLOW"

Span(trace, id, parent, kind, callKind, thread, at) ==
    [trace |-> trace, id |-> id, parent |-> parent, kind |-> kind, call |-> callKind,
     thread |-> thread, at |-> at, verdict |-> "", input |-> {}]
LlmSpan(s, trace, parent, input) ==
    [Span(trace, LlmId(s), parent, "llm", SpanCallKind(s), s.thread, s.at)
        EXCEPT !.verdict = ClassifyVerdict(SpanCallKind(s), Turn[s.call].reply), !.input = input]
EventSpan(s, trace, parent, n) == Span(trace, EventId(n), parent, "event", "injected", s.thread, s.at)
ToolSpan(s, trace, parent, t) == Span(trace, ToolId(t), parent, "tool", "", s.thread, s.at)

AddSpans(e, new) == [e EXCEPT !.spans = @ \cup new]
AddLinks(e, new) == [e EXCEPT !.links = @ \cup new]
Link(kind, from, fromSpan, to, toSpan) ==
    [kind |-> kind, from |-> from, fromSpan |-> fromSpan, to |-> to, toSpan |-> toSpan]

CurTrace(e) == e.traces[Len(e.traces)].id

\* Mutant: the seam stays armed.
OpenTraceKeepsSeam(e, s, prompt, opener) ==
    LET id == TraceIdentity(s) IN
    [e EXCEPT !.traces = Append(@, [id |-> id, at |-> s.at, prompt |-> prompt, synthetic |-> opener]),
              !.spans = @ \cup {Span(id, RootId(id), <<>>, "agent", "", MainThread, s.at)},
              !.links = @ \cup IF e.seam = NoSeam THEN {}
                               ELSE {Link("compaction-seam", e.seam.trace, e.seam.span, id, LlmId(s))}]

\* A trace and its root; a compaction behind it seams the two.
OpenTrace(e, s, prompt, opener) ==
    LET id == TraceIdentity(s) IN
    [e EXCEPT !.traces = Append(@, [id |-> id, at |-> s.at, prompt |-> prompt,
                 synthetic |-> IF e.seam # NoSeam /\ opener = "" THEN "post-compaction" ELSE opener]),
              !.spans = @ \cup {Span(id, RootId(id), <<>>, "agent", "", MainThread, s.at)},
              !.links = @ \cup IF e.seam = NoSeam THEN {}
                               ELSE {Link("compaction-seam", e.seam.trace, e.seam.span, id, LlmId(s))},
              !.seam = NoSeam]

EnsureTrace(e, s) == IF e.traces # <<>> THEN e ELSE OpenTrace(e, s, NoNode, "shadow-opener")

\* The trace that was live when the call was made.
TraceAt(e, s) ==
    LET started == {i \in DOMAIN e.traces : e.traces[i].at <= s.at}
    IN  IF started = {} THEN e.traces[1].id ELSE e.traces[Max(started)].id

\* The tools whose first result came with this request.
FillToolResult(e, s) ==
    {t \in DOMAIN e.toolTrace \ e.filled :
        \E i \in Request(s) \cap s.new : Role(s, i) = "user" /\ ~Injected(s.chain[i])
                                         /\ t \in Info[s.chain[i]].results}

UsedBy(s) == {Info[Response(s)].uses[i] : i \in DOMAIN Info[Response(s)].uses}

\* Mutant: a tool use already seen gets a span here too, and this trace.
EmitConversationReowns(e, s, trace, parent) ==
    LET feeds == FillToolResult(e, s)
        new == UsedBy(s)
        tools == [t \in DOMAIN e.toolTrace \cup new |-> IF t \in new THEN trace ELSE e.toolTrace[t]]
    IN  [e EXCEPT !.spans = @ \cup {LlmSpan(s, trace, parent, ConversationInput(s))}
                              \cup {ToolSpan(s, trace, parent, t) : t \in new},
                  !.toolTrace = tools, !.filled = @ \cup feeds,
                  !.links = @ \cup {Link("emits", trace, LlmId(s), tools[t], ToolId(t)) : t \in UsedBy(s)}]

\* The harness's inserts past the boundary, the call itself, the tool uses
\* nobody emitted before, and the links both ways.
EmitConversation(e, s, trace, parent) ==
    LET events == {s.chain[i] : i \in {j \in Request(s) \cap s.new :
                      j > LastFreshAssistantIdx(s) /\ (Injected(s.chain[j]) \/ Role(s, j) = "system")}}
        feeds == FillToolResult(e, s)
        new == UsedBy(s) \ DOMAIN e.toolTrace
        tools == [t \in DOMAIN e.toolTrace \cup new |-> IF t \in new THEN trace ELSE e.toolTrace[t]]
    IN  [e EXCEPT !.spans = @ \cup {EventSpan(s, trace, parent, n) : n \in events}
                              \cup {LlmSpan(s, trace, parent, ConversationInput(s))}
                              \cup {ToolSpan(s, trace, parent, t) : t \in new},
                  !.toolTrace = tools,
                  !.filled = @ \cup feeds,
                  !.links = @ \cup {Link("feeds", e.toolTrace[t], ToolId(t), trace, LlmId(s)) : t \in feeds}
                              \cup {Link("emits", trace, LlmId(s), tools[t], ToolId(t)) : t \in UsedBy(s)}]

\* A call on the spine opens a trace when it brings a prompt of the user's.
PromptOf(s) ==
    IF FreshGenuinePrompt(s) = NoNode /\ s.from = "transcript" /\ s.turn # NoTurn
    THEN TranscriptGenuinePrompt(s) ELSE FreshGenuinePrompt(s)
MainCall(e, s) ==
    LET opened == IF e.traces = <<>> \/ PromptOf(s) # NoNode THEN OpenTrace(e, s, PromptOf(s), "") ELSE e
    IN  EmitConversation(opened, s, CurTrace(opened), RootId(CurTrace(opened)))

\* Mutant: the agent span goes to the trace that is current.
AgentOfCurrent(e, s) ==
    LET anchor == ThreadAnchor(s)
        ensured == EnsureTrace(e, s)
        trace == CurTrace(ensured)
    IN  IF s.thread \in DOMAIN e.agents THEN e
        ELSE [ensured EXCEPT
                !.spans = @ \cup {Span(trace, ThreadId(s.thread), IF anchor \in DOMAIN e.toolTrace THEN ToolId(anchor) ELSE RootId(trace), "agent", "", s.thread, s.at)},
                !.links = @ \cup IF anchor \in DOMAIN e.toolTrace
                                 THEN {Link("rejoin", trace, ThreadId(s.thread), trace, ToolId(anchor))} ELSE {},
                !.agents = [th \in DOMAIN @ \cup {s.thread} |-> IF th = s.thread THEN trace ELSE @[th]]]

\* A thread's agent span is under the tool use that spawned it, when known.
AgentOf(e, s) ==
    LET anchor == ThreadAnchor(s)
        ensured == EnsureTrace(e, s)
    IN  IF s.thread \in DOMAIN e.agents THEN e
        ELSE IF anchor \in DOMAIN e.toolTrace
        THEN LET trace == e.toolTrace[anchor] IN
             [e EXCEPT !.spans = @ \cup {Span(trace, ThreadId(s.thread), ToolId(anchor), "agent", "", s.thread, s.at)},
                       !.links = @ \cup {Link("rejoin", trace, ThreadId(s.thread), trace, ToolId(anchor))},
                       !.agents = [th \in DOMAIN @ \cup {s.thread} |-> IF th = s.thread THEN trace ELSE @[th]]]
        ELSE LET trace == CurTrace(ensured) IN
             [ensured EXCEPT
                       !.spans = @ \cup {Span(trace, ThreadId(s.thread), RootId(trace), "agent", "", s.thread, s.at)},
                       !.agents = [th \in DOMAIN @ \cup {s.thread} |-> IF th = s.thread THEN trace ELSE @[th]]]
ThreadCall(e, s) ==
    LET a == AgentOf(e, s) IN EmitConversation(a, s, a.agents[s.thread], ThreadId(s.thread))

CompactionCall(e, s) ==
    LET o == EnsureTrace(e, s)
        trace == CurTrace(o)
    IN  [AddSpans(o, {LlmSpan(s, trace, RootId(trace), {})}) EXCEPT !.seam = [trace |-> trace, span |-> LlmId(s)]]

ShadowCall(e, s) ==
    LET o == EnsureTrace(e, s) IN
    IF s.anchor \in DOMAIN e.toolTrace
    THEN AddLinks(AddSpans(e, {LlmSpan(s, e.toolTrace[s.anchor], ToolId(s.anchor), FreshInput(s))}),
                  {Link("verdict", e.toolTrace[s.anchor], LlmId(s), e.toolTrace[s.anchor], ToolId(s.anchor))})
    ELSE AddSpans(o, {LlmSpan(s, TraceAt(o, s), RootId(TraceAt(o, s)), FreshInput(s))})

-----------------------------------------------------------------------------
(* The walk.                                                                *)

NoEmission == [traces |-> <<>>, spans |-> {}, links |-> {}, toolTrace |-> [t \in {} |-> ""],
               filled |-> {}, agents |-> [th \in {} |-> ""], seam |-> NoSeam]

Init ==
    /\ FeedInit
    /\ phase = "feed" /\ pos = 0 /\ pending = <<>> /\ blocked = <<>> /\ moved = FALSE /\ shadows = <<>>
    /\ em = NoEmission

FeedTurn == phase = "feed" /\ Feed /\ UNCHANGED <<walkVars, em>>

BeginWalk ==
    /\ phase = "feed" /\ captured # <<>>
    /\ Finish
    /\ phase' = "spine"
    /\ UNCHANGED <<pos, pending, blocked, moved, shadows, em>>

\* A compaction inside a thread is an ordinary call of that thread.
Route(s) ==
    IF s.kind \in {Main, Compaction} /\ s.thread # MainThread THEN "thread"
    ELSE IF s.kind = Main THEN "main"
    ELSE IF s.kind = Compaction THEN "compaction" ELSE "shadow"

SpineStep ==
    /\ phase = "spine" /\ pos < Len(sources)
    /\ LET s == sources[pos + 1] IN
       /\ em' = CASE Route(s) = "main" -> MainCall(em, s)
                  [] Route(s) = "compaction" -> CompactionCall(em, s)
                  [] OTHER -> em
       /\ pending' = IF Route(s) = "thread" THEN Append(pending, s) ELSE pending
       /\ shadows' = IF Route(s) = "shadow" THEN Append(shadows, s) ELSE shadows
    /\ pos' = pos + 1
    /\ UNCHANGED <<feedVars, phase, blocked, moved>>

EndSpine ==
    /\ phase = "spine" /\ pos = Len(sources)
    /\ phase' = "threads"
    /\ UNCHANGED <<feedVars, pos, pending, blocked, moved, shadows, em>>

Ready(e, s) == s.thread \in DOMAIN e.agents \/ ThreadAnchor(s) \in DOMAIN e.toolTrace

\* One thread call of the pass: emitted, or left for the next one.
ThreadStep ==
    /\ phase = "threads" /\ pending # <<>>
    /\ LET s == Head(pending) IN
       \/ Ready(em, s) /\ em' = ThreadCall(em, s) /\ moved' = TRUE /\ UNCHANGED blocked
       \/ ~Ready(em, s) /\ blocked' = Append(blocked, s) /\ UNCHANGED <<em, moved>>
    /\ pending' = Tail(pending)
    /\ UNCHANGED <<feedVars, phase, pos, shadows>>

\* Mutant: one pass only.
EndPassAtOnce ==
    /\ phase = "threads" /\ pending = <<>>
    /\ pending' = blocked /\ blocked' = <<>> /\ moved' = FALSE /\ phase' = "leftover"
    /\ UNCHANGED <<feedVars, pos, shadows, em>>

\* Mutant: the calls that stay blocked are dropped.
EndPassDrops ==
    /\ phase = "threads" /\ pending = <<>>
    /\ pending' = (IF moved THEN blocked ELSE <<>>) /\ blocked' = <<>> /\ moved' = FALSE
    /\ phase' = IF moved /\ blocked # <<>> THEN "threads" ELSE "leftover"
    /\ UNCHANGED <<feedVars, pos, shadows, em>>
\* Mutant: a pass that anchored nothing is followed by another.
EndPassRetries ==
    /\ phase = "threads" /\ pending = <<>>
    /\ pending' = blocked /\ blocked' = <<>> /\ moved' = FALSE
    /\ phase' = IF blocked # <<>> THEN "threads" ELSE "leftover"
    /\ UNCHANGED <<feedVars, pos, shadows, em>>

EndPass ==
    /\ phase = "threads" /\ pending = <<>>
    /\ pending' = blocked /\ blocked' = <<>> /\ moved' = FALSE
    /\ phase' = IF moved /\ blocked # <<>> THEN "threads" ELSE "leftover"
    /\ UNCHANGED <<feedVars, pos, shadows, em>>

\* Those no pass could anchor, in order, at the root of their trace.
LeftoverStep ==
    /\ phase = "leftover" /\ pending # <<>>
    /\ em' = ThreadCall(em, Head(pending))
    /\ pending' = Tail(pending)
    /\ UNCHANGED <<feedVars, phase, pos, blocked, moved, shadows>>

EndThreads ==
    /\ phase = "leftover" /\ pending = <<>>
    /\ phase' = "shadows"
    /\ UNCHANGED <<feedVars, pos, pending, blocked, moved, shadows, em>>

ShadowStep ==
    /\ phase = "shadows" /\ shadows # <<>>
    /\ em' = ShadowCall(em, Head(shadows))
    /\ shadows' = Tail(shadows)
    /\ UNCHANGED <<feedVars, phase, pos, pending, blocked, moved>>

EndShadows ==
    /\ phase = "shadows" /\ shadows = <<>>
    /\ phase' = "done"
    /\ UNCHANGED <<feedVars, pos, pending, blocked, moved, shadows, em>>

\* The projection is handed to the writer.
Rest == phase = "done" /\ UNCHANGED vars

Walk == SpineStep \/ EndSpine \/ ThreadStep \/ EndPass \/ LeftoverStep \/ EndThreads \/ ShadowStep \/ EndShadows
Next == FeedTurn \/ BeginWalk \/ Walk \/ Rest

Spec == Init /\ [][Next]_vars

-----------------------------------------------------------------------------
(* What a finished derive pass owes its reader, and the folds of its spans *)
(* (finish).                                                               *)

Done == phase = "done"
SpansOf(trace) == {s \in em.spans : s.trace = trace}
LlmSpans == {s \in em.spans : s.kind = "llm"}
Tokens(spans) == SumFunction([s \in {x \in spans : x.kind = "llm"} |-> Turn[s.id[2]].tokens])

\* The rollups of a trace and of the session.
FinishTurn(trace) ==
    [total |-> Tokens(SpansOf(trace)),
     main |-> Tokens({s \in SpansOf(trace) : s.call = Main}),
     toolCalls |-> Cardinality({s \in SpansOf(trace) : s.kind = "tool"})]
FoldModelUsage ==
    [m \in {Turn[s.id[2]].model : s \in LlmSpans} |-> Tokens({s \in LlmSpans : Turn[s.id[2]].model = m})]
KindCounts == [k \in {s.call : s \in em.spans} \ {""} |-> Cardinality({s \in em.spans : s.call = k})]
TerminalMainSpan ==
    LET ms == {s \in LlmSpans : s.call = Main /\ s.thread = MainThread}
    IN  {s \in ms : \A t \in ms : t.at <= s.at}
\* The results the session's tools got, and the response it ended on.
FoldSessionStatus == [results |-> Cardinality(em.filled), leaf |-> TerminalMainSpan]

Traces == {em.traces[i].id : i \in DOMAIN em.traces}

-----------------------------------------------------------------------------

\* At every step of the walk the spans of a trace are a tree under its one
\* root, a span's id is nobody else's, and what the walk remembers of tools and
\* threads is where their spans are (addSpan, openTrace, threadCall).
SpanTrees ==
    /\ \A s \in em.spans : s.trace \in Traces
    /\ \A s \in em.spans : IF s.parent = <<>> THEN s.id = RootId(s.trace)
                           ELSE \E p \in SpansOf(s.trace) : p.id = s.parent
    /\ \A s, t \in em.spans : s.id = t.id => s = t
    /\ \A t \in DOMAIN em.toolTrace : \E s \in em.spans : s.id = ToolId(t) /\ s.trace = em.toolTrace[t]
    /\ \A th \in DOMAIN em.agents : \E s \in em.spans : s.id = ThreadId(th) /\ s.trace = em.agents[th]

\* Both ends of every link are spans, in the traces it names (link), and the
\* result of a tool use feeds one call, so the session counts each once.
LinksResolve ==
    /\ FoldSessionStatus.results = Cardinality({l \in em.links : l.kind = "feeds"})
    /\ \A l \in em.links : /\ \E s \in em.spans : s.id = l.fromSpan /\ s.trace = l.from
                           /\ \E s \in em.spans : s.id = l.toSpan /\ s.trace = l.to

\* A compaction seams at most one trace, the next one opened, and a trace is
\* seamed to at most one compaction (compactionCall, openTrace).
SeamsOnce ==
    LET seams == {l \in em.links : l.kind = "compaction-seam"} IN
    \A l, m \in seams : l # m => l.fromSpan # m.fromSpan /\ l.to # m.to

\* Every call that parsed is one llm span of one trace, whatever its kind, its
\* thread and the order it came in, so the tokens of the traces, of the models
\* and of the calls are the same, and so are those of the main calls; every
\* tool use is counted in one trace, every call under one kind (finish).
TokensConserved ==
    Done =>
        LET calls == {sources[i].call : i \in DOMAIN sources}
            of(set) == SumFunction([c \in set |-> Turn[c].tokens])
        IN  /\ {s.id[2] : s \in LlmSpans} = calls
            /\ SumFunction([t \in Traces |-> FinishTurn(t).total]) = of(calls)
            /\ SumFunction([t \in Traces |-> FinishTurn(t).toolCalls]) = Cardinality(DOMAIN em.toolTrace)
            /\ SumFunctionOnSet(KindCounts, DOMAIN KindCounts \ {"injected"}) = Cardinality(calls)
            /\ SumFunction(FoldModelUsage) = of(calls)
            /\ SumFunction([t \in Traces |-> FinishTurn(t).main])
                 = of({sources[i].call : i \in {j \in DOMAIN sources : SpanCallKind(sources[j]) = Main}})

\* The threads whose chain of spawning tool uses starts on the spine: the
\* least set that has the threads spawned from the spine or from one it has.
EmittedBy(route, threads) ==
    UNION {UsedBy(sources[i]) : i \in {j \in DOMAIN sources : Route(sources[j]) = route /\ sources[j].thread \in threads}}
SpawnedFrom(threads) ==
    {sources[i].thread : i \in {j \in DOMAIN sources :
        /\ Route(sources[j]) = "thread"
        /\ ThreadAnchor(sources[j]) \in EmittedBy("main", {MainThread}) \cup EmittedBy("thread", threads)}}
Rooted ==
    LET all == {sources[i].thread : i \in DOMAIN sources}
    IN  {th \in all : \A closed \in SUBSET all : SpawnedFrom(closed) \subseteq closed => th \in closed}
HangsOff(s) == \E a \in em.spans : a.id = ThreadId(s.thread) /\ a.parent = ToolId(ThreadAnchor(s))

\* A thread that was spawned from the spine, or from a thread that was, hangs
\* off the tool use that spawned it, however late the call that emitted the use
\* was captured and however deep the nesting (threadCalls).
ThreadsAnchored ==
    Done => \A i \in DOMAIN sources :
                /\ Route(sources[i]) = "thread" /\ sources[i].thread \in Rooted
                /\ ThreadAnchor(sources[i]) # NoTool
                => HangsOff(sources[i])

\* A tool use is judged as one action, and every check of an action judges the
\* same use or none (attachVerdicts: "consume the matching tool_use exactly once").
VerdictsOneToOne ==
    (phase = "spine" /\ pos = 0) =>
        LET groups == GroupChecks(sources) IN
        \A g, h \in DOMAIN groups : \A i \in groups[g].members, j \in groups[h].members :
            /\ g = h => sources[i].anchor = sources[j].anchor
            /\ g # h => sources[i].anchor = NoTool \/ sources[i].anchor # sources[j].anchor

\* A prompt of the user's opens one trace, however often it is sent again, and
\* no two traces have the same id (freshGenuinePrompt, lastFreshAssistantIdx).
PromptsOnce ==
    \A i, j \in DOMAIN em.traces : i # j =>
        /\ em.traces[i].id # em.traces[j].id
        /\ em.traces[i].prompt # NoNode => em.traces[i].prompt # em.traces[j].prompt

\* At every step of the walk what is emitted holds together: one tree of spans
\* per trace, links with both their ends, and a compaction seamed to one trace;
\* and when it is done it adds up to the calls it came from (spanEmitter).
SpansHoldTogether == SpanTrees /\ LinksResolve /\ SeamsOnce /\ TokensConserved

\* What a pass infers it infers once and from the structure: the prompt that
\* opens a trace, the tool use a check is about, the one that spawned a thread
\* (freshGenuinePrompt, attachVerdicts, threadCalls).
AttributionsHold == PromptsOnce /\ VerdictsOneToOne /\ ThreadsAnchored

\* Every step of the walk lowers the rank, so a pass that began ends, threads
\* that can never be anchored included (threadCalls: "to a fixed point").
Phases == <<"done", "shadows", "leftover", "threads", "spine", "feed">>
Rank == <<CHOOSE i \in DOMAIN Phases : Phases[i] = phase,
          2 * (Len(sources) - pos) + Len(pending) + Len(blocked) + Len(shadows) + (IF moved THEN 1 ELSE 0),
          Len(pending)>>
Lower(r, s) == \E i \in 1..3 : r[i] < s[i] /\ \A j \in 1..(i - 1) : r[j] = s[j]
PassEnds == [][phase # "feed" => Lower(Rank', Rank)]_vars
=============================================================================
