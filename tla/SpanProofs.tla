------------------------------ MODULE SpanProofs ------------------------------
(***************************************************************************)
(* Proofs about the walk that emits the span model: what is emitted holds  *)
(* together at every step (SpansHoldTogether), threads, checks and prompts *)
(* are attributed once and to what they belong to (AttributionsHold), and  *)
(* the walk ends (PassEnds), for any calls, nodes, tools, threads and      *)
(* transcripts Deriver admits.                                             *)
(*                                                                         *)
(* EmitterInv is about an emitter and what it has come by; each operator   *)
(* that takes an emitter to the next keeps it.  WalkInv is about the walk: *)
(* a source that is still to come has left nothing in the emitter.  What   *)
(* more the attributions need comes at the end, each with its invariant:   *)
(* AnchorInv, PromptInv, JudgeInv.                                         *)
(***************************************************************************)
EXTENDS SpanEmitter, FoldTheorems, FiniteSetTheorems, TLAPS

-----------------------------------------------------------------------------
(* The emitter.                                                             *)

Parts == {"traces", "spans", "links", "toolTrace", "filled", "agents", "seam"}
IdsOf(e) == {e.traces[i].id : i \in DOMAIN e.traces}
Has(spans, id, trace) == \E x \in spans : x.id = id /\ x.trace = trace

\* The spans of these traces are trees.
Trees(spans, traces) ==
    /\ \A x \in spans : x.trace \in traces
    /\ \A x \in spans : IF x.parent = <<>> THEN x.id = RootId(x.trace) ELSE Has(spans, x.parent, x.trace)
    /\ \A x, y \in spans : x.id = y.id => x = y

Shape(e) ==
    /\ DOMAIN e = Parts
    /\ e.traces \in Seq(Range(e.traces))
    /\ \A i, j \in DOMAIN e.traces : e.traces[i].id = e.traces[j].id => i = j
    /\ IsFiniteSet(DOMAIN e.toolTrace) /\ e.filled \subseteq DOMAIN e.toolTrace

\* A tool, a thread and a trace have their span where the emitter says.
Placed(e) ==
    /\ \A t \in DOMAIN e.toolTrace : Has(e.spans, ToolId(t), e.toolTrace[t])
    /\ \A th \in DOMAIN e.agents : Has(e.spans, ThreadId(th), e.agents[th])
    /\ \A tr \in IdsOf(e) : Has(e.spans, RootId(tr), tr)

\* A span is named after a call, an insert, a tool, a thread or a trace the
\* emitter has come by, and the calls are the llm spans.
LlmIds(calls) == {<<"llm", c>> : c \in calls}
OtherIds(e, inserts) ==
    {EventId(n) : n \in inserts} \cup {ToolId(t) : t \in DOMAIN e.toolTrace}
      \cup {ThreadId(th) : th \in DOMAIN e.agents} \cup {RootId(tr) : tr \in IdsOf(e)}
Named(e, calls, inserts) ==
    /\ \A x \in e.spans : x.id \in IF x.kind = "llm" THEN LlmIds(calls) ELSE OtherIds(e, inserts)
    /\ \A c \in calls : \E x \in e.spans : x.kind = "llm" /\ x.id = <<"llm", c>>

\* A span tells the kind of its call, and a tool by its name.
KindOf(c) ==
    LET kind == ClassifyCall(Turn[c].tags)
    IN  IF kind = Compaction /\ Turn[c].thread # MainThread THEN Main ELSE kind
Tells(x) ==
    /\ x.call \in IF x.kind = "llm" THEN {KindOf(x.id[2])} ELSE {"", "injected"}
    /\ x.kind = "tool" <=> x.id[1] = "tool"
Told(spans) == IsFiniteSet(spans) /\ \A x \in spans : Tells(x)

\* Both ends of a link are spans, or owed.
Tied(l, spans) == Has(spans, l.fromSpan, l.from) /\ Has(spans, l.toSpan, l.to)
LinksTied(e, owed) == \A l \in e.links : Tied(l, e.spans \cup owed)

\* The tools that have a result are those with a link to the call it came with.
FedOnce(e) ==
    LET feeds == {l \in e.links : l.kind = "feeds"} IN
    /\ \A t \in e.filled : \E l \in feeds : l.fromSpan = ToolId(t)
    /\ \A l \in feeds : \E t \in e.filled : l.fromSpan = ToolId(t)
    /\ \A l, m \in feeds : l.fromSpan = m.fromSpan => l = m

\* A seam that is armed has not been used, and one that was is in the past.
Seamed(e, calls) ==
    LET seams == {l \in e.links : l.kind = "compaction-seam"} IN
    /\ \A l \in seams : l.to \in IdsOf(e) /\ l.fromSpan \in LlmIds(calls)
    /\ \A l, m \in seams : l # m => l.fromSpan # m.fromSpan /\ l.to # m.to
    /\ e.seam # NoSeam => /\ e.traces # <<>>
                          /\ Has(e.spans, e.seam.span, e.seam.trace) /\ e.seam.span \in LlmIds(calls)
                          /\ \A l \in seams : l.fromSpan # e.seam.span

EmitterInv(e, owed, calls, inserts, ids) ==
    /\ Shape(e) /\ Trees(e.spans, IdsOf(e)) /\ Placed(e) /\ Named(e, calls, inserts) /\ Told(e.spans)
    /\ LinksTied(e, owed) /\ FedOnce(e) /\ Seamed(e, calls)
    /\ IdsOf(e) \subseteq ids

-----------------------------------------------------------------------------
(* Names and trees.                                                         *)

\* Names of different kinds differ, and one kind names one thing once.
LEMMA NamesApart ==
    /\ \A x, y : <<"llm", x>> = <<"llm", y>> => x = y
    /\ \A x, y : EventId(x) = EventId(y) => x = y
    /\ \A x, y : ToolId(x) = ToolId(y) => x = y
    /\ \A x, y : ThreadId(x) = ThreadId(y) => x = y
    /\ \A x, y : RootId(x) = RootId(y) => x = y
    /\ \A x, y : <<"llm", x>> \notin {EventId(y), ToolId(y), ThreadId(y), RootId(y)}
    /\ \A x, y : EventId(x) \notin {ToolId(y), ThreadId(y), RootId(y)}
    /\ \A x, y : ToolId(x) \notin {ThreadId(y), RootId(y)}
    /\ \A x, y : ThreadId(x) # RootId(y)
    /\ \A x : <<>> \notin {<<"llm", x>>, EventId(x), ToolId(x), ThreadId(x), RootId(x)}
BY DEF EventId, ToolId, ThreadId, RootId

\* The kind a name is of.
LEMMA NameHeads == \A x : RootId(x)[1] = "main" /\ ThreadId(x)[1] = "agent"
<1>1. ASSUME NEW x PROVE RootId(x)[1] = "main" /\ ThreadId(x)[1] = "agent"
  BY DEF RootId, ThreadId
<1>2. QED
  BY <1>1

\* Trees grow by spans of new names under spans that are there.
Fit(new, spans, traces) ==
    \A x \in new : /\ x.trace \in traces
                   /\ IF x.parent = <<>> THEN x.id = RootId(x.trace) ELSE Has(spans \cup new, x.parent, x.trace)
                   /\ \A y \in spans : x.id # y.id
                   /\ \A y \in new : x.id = y.id => x = y

LEMMA TreesGrow ==
    ASSUME NEW spans, NEW traces, NEW new, NEW all, Trees(spans, traces), traces \subseteq all, Fit(new, spans, all)
    PROVE  Trees(spans \cup new, all)
<1>1. \A id, trace : Has(spans, id, trace) => Has(spans \cup new, id, trace)
  BY DEF Has
<1>2. QED
  BY <1>1 DEF Trees, Fit

\* What a span says of itself.
LEMMA SpanSays ==
    ASSUME NEW trace, NEW id, NEW parent, NEW kind, NEW callKind, NEW thread, NEW at
    PROVE  LET x == Span(trace, id, parent, kind, callKind, thread, at) IN
           x.trace = trace /\ x.id = id /\ x.parent = parent /\ x.kind = kind /\ x.call = callKind
BY DEF Span

LEMMA LlmSpanSays ==
    ASSUME NEW s, NEW trace, NEW parent, NEW input
    PROVE  LET x == LlmSpan(s, trace, parent, input) IN
           /\ x.trace = trace /\ x.id = <<"llm", s.call>> /\ x.parent = parent /\ x.kind = "llm"
           /\ x.call = SpanCallKind(s)
BY DEF LlmSpan, Span, LlmId

-----------------------------------------------------------------------------
(* The walk.                                                                *)

SourceFields == {"call", "kind", "thread", "at", "chain", "new", "anchor", "from", "turn"}
News(s) == {s.chain[i] : i \in s.new}

\* A source is made of a call, once, and a node is new to one source.
SourcesAreCalls ==
    /\ captured \in Seq(Range(captured)) /\ sources \in Seq(Range(sources))
    /\ \A i \in DOMAIN sources :
         LET s == sources[i] IN
         /\ DOMAIN s = SourceFields /\ s.call \in Call \cap Range(captured)
         /\ s.chain = Turn[s.call].chain /\ s.turn = Turn[s.call].turn /\ Turn[s.call].parse = "ok"
         /\ s.kind = ClassifyCall(Turn[s.call].tags) /\ s.thread = Turn[s.call].thread
         /\ s.new \subseteq DOMAIN s.chain /\ Nodes(s.chain) \subseteq DOMAIN nodes
    /\ \A i, j \in DOMAIN sources : i # j => /\ sources[i].call # sources[j].call
                                             /\ News(sources[i]) \cap News(sources[j]) = {}

\* The sources that are still to come, each in one place.
CallsOf(q) == {q[i].call : i \in DOMAIN q}
Unwalked == {sources[i].call : i \in (pos + 1)..Len(sources)}
Queue(q, all) ==
    /\ q \in Seq(Range(q)) /\ Range(q) \subseteq all
    /\ \A i, j \in DOMAIN q : q[i].call = q[j].call => i = j
Apart(a, b, c, d) ==
    a \cap b = {} /\ a \cap c = {} /\ a \cap d = {} /\ b \cap c = {} /\ b \cap d = {} /\ c \cap d = {}
Queued ==
    /\ \A q \in {pending, blocked, shadows} : Queue(q, Range(sources))
    /\ Apart(Unwalked, CallsOf(pending), CallsOf(blocked), CallsOf(shadows))
Coming == Unwalked \cup CallsOf(pending) \cup CallsOf(blocked) \cup CallsOf(shadows)

\* What each phase leaves to the next.
Phased ==
    /\ phase \in Range(Phases) /\ moved \in BOOLEAN /\ pos \in 0..Len(sources)
    /\ phase = "feed" => em = NoEmission /\ pos = 0 /\ pending = <<>> /\ shadows = <<>>
    /\ phase \notin {"feed", "spine"} => pos = Len(sources)
    /\ phase # "threads" => blocked = <<>> /\ ~moved
    /\ phase \in {"shadows", "done"} => pending = <<>>
    /\ phase = "done" => shadows = <<>>

\* The sources behind the walk, and what they brought.
Walked == {i \in DOMAIN sources : sources[i].call \notin Coming}
WalkedCalls == {sources[i].call : i \in Walked}
WalkedNews == UNION {News(sources[i]) : i \in Walked}
WalkedIds == {TraceIdentity(sources[i]) : i \in Walked}

WalkInv ==
    /\ SourcesAreCalls /\ Queued /\ Phased
    /\ EmitterInv(em, {}, WalkedCalls, WalkedNews, WalkedIds)

-----------------------------------------------------------------------------
(* Sequences, whatever they hold.                                           *)

LEMMA Appended ==
    ASSUME NEW q, q \in Seq(Range(q)), NEW x
    PROVE  /\ Append(q, x) \in Seq(Range(Append(q, x)))
           /\ Len(q) \in Nat /\ DOMAIN q = 1..Len(q)
           /\ Len(Append(q, x)) = Len(q) + 1 /\ DOMAIN Append(q, x) = 1..(Len(q) + 1)
           /\ \A i \in 1..Len(q) : Append(q, x)[i] = q[i]
           /\ Append(q, x)[Len(q) + 1] = x
           /\ Range(Append(q, x)) = Range(q) \cup {x}
<1> DEFINE S == Range(q) \cup {x}
           a == Append(q, x)
<1>1. Len(q) \in Nat /\ DOMAIN q = 1..Len(q)
  OBVIOUS
<1>2. q \in Seq(S)
  OBVIOUS
<1>3. /\ a \in Seq(S) /\ Len(a) = Len(q) + 1 /\ DOMAIN a = 1..(Len(q) + 1)
      /\ \A i \in 1..Len(q) : a[i] = q[i]
      /\ a[Len(q) + 1] = x
  <2> HIDE DEF S
  <2>1. x \in S
    BY DEF S
  <2>2. QED
    BY <1>2, <2>1
<1> HIDE DEF a
<1>4. Range(a) = Range(q) \cup {x}
  <2>1. \A y \in Range(q) : y \in Range(a)
    BY <1>1, <1>3 DEF Range
  <2>2. x \in Range(a)
    BY <1>1, <1>3 DEF Range
  <2>3. \A i \in 1..(Len(q) + 1) : i \in 1..Len(q) \/ i = Len(q) + 1
    BY <1>1
  <2>4. \A y \in Range(a) : y \in Range(q) \/ y = x
    BY <1>1, <1>3, <2>3 DEF Range
  <2>5. QED
    BY <2>1, <2>2, <2>4
<1>5. a \in Seq(Range(a))
  BY <1>3, <1>4
<1>6. QED
  BY <1>1, <1>3, <1>4, <1>5 DEF a

LEMMA Tailed ==
    ASSUME NEW q, q \in Seq(Range(q)), q # <<>>
    PROVE  /\ Tail(q) \in Seq(Range(Tail(q)))
           /\ Len(q) \in Nat \ {0} /\ DOMAIN q = 1..Len(q) /\ Head(q) = q[1]
           /\ Len(Tail(q)) = Len(q) - 1 /\ DOMAIN Tail(q) = 1..(Len(q) - 1)
           /\ \A i \in 1..(Len(q) - 1) : Tail(q)[i] = q[i + 1]
<1> DEFINE S == Range(q)
           t == Tail(q)
<1>1. /\ Len(q) \in Nat \ {0} /\ DOMAIN q = 1..Len(q) /\ Head(q) = q[1]
  OBVIOUS
<1>2. /\ t \in Seq(S) /\ Len(t) = Len(q) - 1 /\ DOMAIN t = 1..(Len(q) - 1)
      /\ \A i \in 1..(Len(q) - 1) : t[i] = q[i + 1]
  <2> HIDE DEF S
  <2>1. q \in Seq(S)
    BY DEF S
  <2>2. QED
    BY <2>1
<1> HIDE DEF t, S
<1>3. t \in Seq(Range(t))
  <2> DEFINE R == Range(t)
  <2>1. \A i \in 1..(Len(q) - 1) : t[i] \in R
    BY <1>2 DEF Range
  <2> HIDE DEF R
  <2>2. t \in Seq(R)
    BY <1>1, <1>2, <2>1
  <2>3. QED
    BY <2>2 DEF R
<1>4. QED
  BY <1>1, <1>2, <1>3 DEF t

-----------------------------------------------------------------------------
(* What each operator does to the emitter.                                  *)

\* A trace is opened under a name no other has; what an armed seam ties it to
\* is owed until the call that opens it is emitted.
Owed(e, s) == IF e.seam = NoSeam THEN {} ELSE {[id |-> LlmId(s), trace |-> TraceIdentity(s)]}
RootOf(s) == Span(TraceIdentity(s), RootId(TraceIdentity(s)), <<>>, "agent", "", MainThread, s.at)
SeamTo(e, s) == Link("compaction-seam", e.seam.trace, e.seam.span, TraceIdentity(s), LlmId(s))

LEMMA OpenTraceParts ==
    ASSUME NEW e, DOMAIN e = Parts, NEW s, NEW prompt, NEW opener
    PROVE  LET o == OpenTrace(e, s, prompt, opener) IN
           /\ DOMAIN o = Parts
           /\ \E t : t.id = TraceIdentity(s) /\ t.prompt = prompt /\ o.traces = Append(e.traces, t)
           /\ o.spans = e.spans \cup {RootOf(s)}
           /\ o.links = e.links \cup (IF e.seam = NoSeam THEN {} ELSE {SeamTo(e, s)})
           /\ o.seam = NoSeam
           /\ o.toolTrace = e.toolTrace /\ o.filled = e.filled /\ o.agents = e.agents
<1> DEFINE o == OpenTrace(e, s, prompt, opener)
           t == [id |-> TraceIdentity(s), at |-> s.at, prompt |-> prompt,
                 synthetic |-> IF e.seam # NoSeam /\ opener = "" THEN "post-compaction" ELSE opener]
           traces == Append(e.traces, t)
           spans == e.spans \cup {RootOf(s)}
           links == e.links \cup (IF e.seam = NoSeam THEN {} ELSE {SeamTo(e, s)})
<1>1. o = [e EXCEPT !.traces = traces, !.spans = spans, !.links = links, !.seam = NoSeam]
  BY DEF OpenTrace, RootOf, SeamTo
<1>2. t.id = TraceIdentity(s) /\ t.prompt = prompt
  OBVIOUS
<1> HIDE DEF t, traces, spans, links, o
<1>3. /\ DOMAIN o = Parts /\ o.traces = traces /\ o.spans = spans /\ o.links = links /\ o.seam = NoSeam
      /\ o.toolTrace = e.toolTrace /\ o.filled = e.filled /\ o.agents = e.agents
  BY <1>1 DEF Parts
<1>4. QED
  BY <1>2, <1>3 DEF traces, spans, links, o

LEMMA OpenTraceHolds ==
    ASSUME NEW e, NEW calls, NEW inserts, NEW ids, EmitterInv(e, {}, calls, inserts, ids),
           NEW s, NEW prompt, NEW opener, TraceIdentity(s) \notin ids
    PROVE  LET o == OpenTrace(e, s, prompt, opener) IN
           /\ EmitterInv(o, Owed(e, s), calls, inserts, ids \cup {TraceIdentity(s)})
           /\ o.traces # <<>> /\ CurTrace(o) = TraceIdentity(s) /\ CurTrace(o) \in IdsOf(o)
           /\ o.toolTrace = e.toolTrace /\ o.agents = e.agents
<1> DEFINE id == TraceIdentity(s)
           o == OpenTrace(e, s, prompt, opener)
           root == RootOf(s)
           seam == SeamTo(e, s)
           n == Len(e.traces)
<1>1. /\ DOMAIN e = Parts
      /\ \A x \in e.spans : x.id \in IF x.kind = "llm" THEN LlmIds(calls) ELSE OtherIds(e, inserts)
      /\ id \notin IdsOf(e)
  BY DEF EmitterInv, Shape, Named
<1>2. /\ DOMAIN o = Parts
      /\ o.spans = e.spans \cup {root}
      /\ o.links = e.links \cup (IF e.seam = NoSeam THEN {} ELSE {seam})
      /\ o.seam = NoSeam
      /\ o.toolTrace = e.toolTrace /\ o.filled = e.filled /\ o.agents = e.agents
  BY <1>1, OpenTraceParts
<1>3. PICK t : t.id = id /\ o.traces = Append(e.traces, t)
  BY <1>1, OpenTraceParts
<1>4. root.trace = id /\ root.id = RootId(id) /\ root.parent = <<>> /\ root.kind = "agent" /\ root.call = ""
  BY DEF RootOf, Span
<1> HIDE DEF o, root, n
<1>5. /\ n \in Nat /\ DOMAIN e.traces = 1..n /\ DOMAIN o.traces = 1..(n + 1) /\ Len(o.traces) = n + 1
      /\ o.traces \in Seq(Range(o.traces))
      /\ \A i \in 1..n : o.traces[i] = e.traces[i]
      /\ o.traces[n + 1] = t
  BY <1>3, Appended DEF EmitterInv, Shape, n
<1>6. IdsOf(o) = IdsOf(e) \cup {id}
  <2>1. \A i \in 1..(n + 1) : i \in 1..n \/ i = n + 1
    BY <1>5
  <2>2. QED
    BY <1>3, <1>5, <2>1 DEF IdsOf
<1>7. Shape(o)
  <2>1. \A i, j \in DOMAIN o.traces : o.traces[i].id = o.traces[j].id => i = j
    <3>1. \A i \in 1..(n + 1) : i \in 1..n \/ i = n + 1
      BY <1>5
    <3>2. \A i \in 1..n : o.traces[i].id \in IdsOf(e)
      BY <1>5 DEF IdsOf
    <3>3. \A i, j \in 1..n : o.traces[i].id = o.traces[j].id => i = j
      BY <1>5 DEF EmitterInv, Shape
    <3>4. QED
      BY <1>1, <1>3, <1>5, <3>1, <3>2, <3>3
  <2>2. QED
    BY <1>2, <1>5, <2>1 DEF EmitterInv, Shape
<1>8. \A y \in e.spans : root.id # y.id
  <2>1. RootId(id) \notin LlmIds(calls) /\ RootId(id) \notin OtherIds(e, inserts)
    BY <1>1, NamesApart DEF LlmIds, OtherIds
  <2>2. QED
    BY <1>1, <1>4, <2>1
<1>9. Trees(o.spans, IdsOf(o))
  <2>1. Trees(e.spans, IdsOf(e)) /\ IdsOf(e) \subseteq IdsOf(o)
    BY <1>6 DEF EmitterInv
  <2>2. Fit({root}, e.spans, IdsOf(o))
    BY <1>4, <1>6, <1>8 DEF Fit
  <2>3. Trees(e.spans \cup {root}, IdsOf(o))
    BY <2>1, <2>2, TreesGrow
  <2>4. QED
    BY <1>2, <2>3
<1>10. \A i, tr : Has(e.spans, i, tr) => Has(o.spans, i, tr)
  BY <1>2 DEF Has
<1>11. Placed(o)
  <2>1. Has(o.spans, RootId(id), id)
    BY <1>2, <1>4 DEF Has
  <2>2. QED
    BY <1>2, <1>6, <1>10, <2>1 DEF EmitterInv, Placed
<1>12. Named(o, calls, inserts)
  <2>1. OtherIds(e, inserts) \subseteq OtherIds(o, inserts) /\ RootId(id) \in OtherIds(o, inserts)
    BY <1>2, <1>6 DEF OtherIds
  <2>2. QED
    BY <1>2, <1>4, <2>1 DEF EmitterInv, Named
<1>13. /\ seam.kind = "compaction-seam" /\ seam.from = e.seam.trace /\ seam.fromSpan = e.seam.span
       /\ seam.to = id /\ seam.toSpan = LlmId(s)
  BY DEF SeamTo, Link
<1> HIDE DEF seam
<1>14. LinksTied(o, Owed(e, s))
  <2>1. ASSUME NEW l \in e.links PROVE Tied(l, o.spans \cup Owed(e, s))
    <3>1. Tied(l, e.spans)
      BY <2>1 DEF EmitterInv, LinksTied
    <3>2. QED
      BY <1>2, <3>1 DEF Tied, Has
  <2>2. ASSUME e.seam # NoSeam PROVE Tied(seam, o.spans \cup Owed(e, s))
    <3>1. Has(o.spans, seam.fromSpan, seam.from)
      BY <1>10, <1>13, <2>2 DEF EmitterInv, Seamed
    <3>2. Has(Owed(e, s), seam.toSpan, seam.to)
      BY <1>13, <2>2 DEF Owed, Has
    <3>3. QED
      BY <3>1, <3>2 DEF Tied, Has
  <2>3. QED
    BY <1>2, <2>1, <2>2 DEF LinksTied
<1>15. FedOnce(o)
  <2>1. {l \in o.links : l.kind = "feeds"} = {l \in e.links : l.kind = "feeds"}
    BY <1>2, <1>13
  <2>2. QED
    BY <1>2, <2>1 DEF EmitterInv, FedOnce
<1>16. Seamed(o, calls)
  <2> DEFINE seams == {l \in e.links : l.kind = "compaction-seam"}
             more == {l \in o.links : l.kind = "compaction-seam"}
  <2>1. /\ \A l \in seams : l.to \in IdsOf(e) /\ l.fromSpan \in LlmIds(calls)
        /\ \A l, m \in seams : l # m => l.fromSpan # m.fromSpan /\ l.to # m.to
        /\ e.seam # NoSeam => e.seam.span \in LlmIds(calls) /\ \A l \in seams : l.fromSpan # e.seam.span
    BY DEF EmitterInv, Seamed
  <2>2. more = seams \cup (IF e.seam = NoSeam THEN {} ELSE {seam})
    BY <1>2, <1>13
  <2> HIDE DEF seams, more
  <2>3. \A l \in more : l.to \in IdsOf(o) /\ l.fromSpan \in LlmIds(calls)
    BY <1>6, <1>13, <2>1, <2>2
  <2>4. \A l, m \in more : l # m => l.fromSpan # m.fromSpan /\ l.to # m.to
    BY <1>1, <1>13, <2>1, <2>2
  <2>5. QED
    BY <1>2, <2>3, <2>4 DEF more, Seamed
<1>17. o.traces # <<>> /\ CurTrace(o) = id /\ CurTrace(o) \in IdsOf(o)
  <2>1. Len(o.traces) # 0
    BY <1>5
  <2>2. QED
    BY <1>3, <1>5, <1>6, <2>1 DEF CurTrace
<1>18. Told(o.spans)
  <2>1. root.id[1] = "main"
    BY <1>4, NameHeads
  <2>2. "main" # "tool" /\ "agent" # "llm" /\ "agent" # "tool"
    OBVIOUS
  <2>3. Tells(root)
    BY <1>4, <2>1, <2>2 DEF Tells
  <2>4. QED
    BY <1>2, <2>3, FS_AddElement DEF EmitterInv, Told
<1>19. QED
  BY <1>2, <1>6, <1>7, <1>9, <1>11, <1>12, <1>14, <1>15, <1>16, <1>17, <1>18 DEF EmitterInv, o

-----------------------------------------------------------------------------
(* An emitter that took up spans and links.                                 *)

\* Later grew out of e by spans that fit and links that are tied, for the tools
\* and threads it has more, and the calls and inserts it came by.
Grown(e, owed, later, new, links, calls, inserts) ==
    /\ DOMAIN later = Parts /\ later.traces = e.traces
    /\ later.spans = e.spans \cup new /\ later.links = e.links \cup links
    /\ Fit(new, e.spans, IdsOf(e)) /\ Told(new)
    /\ IsFiniteSet(DOMAIN later.toolTrace) /\ later.filled \subseteq DOMAIN later.toolTrace
    /\ DOMAIN e.toolTrace \subseteq DOMAIN later.toolTrace /\ DOMAIN e.agents \subseteq DOMAIN later.agents
    /\ \A t \in DOMAIN e.toolTrace : later.toolTrace[t] = e.toolTrace[t]
    /\ \A th \in DOMAIN e.agents : later.agents[th] = e.agents[th]
    /\ \A t \in DOMAIN later.toolTrace \ DOMAIN e.toolTrace : Has(new, ToolId(t), later.toolTrace[t])
    /\ \A th \in DOMAIN later.agents \ DOMAIN e.agents : Has(new, ThreadId(th), later.agents[th])
    /\ \A x \in new : x.id \in IF x.kind = "llm" THEN LlmIds(calls) ELSE OtherIds(later, inserts)
    /\ \A l \in links : Tied(l, later.spans)
    /\ \A x \in owed : Has(new, x.id, x.trace)

LEMMA EmitterGrows ==
    ASSUME NEW e, NEW owed, NEW calls, NEW inserts, NEW ids, EmitterInv(e, owed, calls, inserts, ids),
           NEW later, NEW new, NEW links, NEW toCalls, NEW toInserts,
           Grown(e, owed, later, new, links, toCalls, toInserts),
           calls \subseteq toCalls, inserts \subseteq toInserts,
           \A c \in toCalls \ calls : \E x \in new : x.kind = "llm" /\ x.id = <<"llm", c>>,
           FedOnce(later), Seamed(later, toCalls)
    PROVE  EmitterInv(later, {}, toCalls, toInserts, ids)
<1>1. IdsOf(later) = IdsOf(e)
  BY DEF Grown, IdsOf
<1>2. \A id, trace : Has(e.spans, id, trace) \/ Has(new, id, trace) => Has(later.spans, id, trace)
  BY DEF Grown, Has
<1>3. Shape(later)
  BY DEF Grown, EmitterInv, Shape
<1>4. Trees(later.spans, IdsOf(later))
  <2>1. Trees(e.spans, IdsOf(e)) /\ Fit(new, e.spans, IdsOf(e)) /\ later.spans = e.spans \cup new
    BY DEF Grown, EmitterInv
  <2>2. QED
    BY <1>1, <2>1, TreesGrow
<1>5. Placed(later)
  <2>1. \A t \in DOMAIN later.toolTrace : Has(later.spans, ToolId(t), later.toolTrace[t])
    BY <1>2 DEF Grown, EmitterInv, Placed
  <2>2. \A th \in DOMAIN later.agents : Has(later.spans, ThreadId(th), later.agents[th])
    BY <1>2 DEF Grown, EmitterInv, Placed
  <2>3. \A tr \in IdsOf(later) : Has(later.spans, RootId(tr), tr)
    BY <1>1, <1>2 DEF EmitterInv, Placed
  <2>4. QED
    BY <2>1, <2>2, <2>3 DEF Placed
<1>6. Named(later, toCalls, toInserts)
  <2>1. OtherIds(e, inserts) \subseteq OtherIds(later, toInserts) /\ LlmIds(calls) \subseteq LlmIds(toCalls)
    BY <1>1 DEF Grown, OtherIds, LlmIds
  <2>2. later.spans = e.spans \cup new
        /\ \A x \in new : x.id \in IF x.kind = "llm" THEN LlmIds(toCalls) ELSE OtherIds(later, toInserts)
    BY DEF Grown
  <2>3. QED
    BY <2>1, <2>2 DEF EmitterInv, Named
<1>7. LinksTied(later, {})
  <2>1. later.spans \cup {} = later.spans
    OBVIOUS
  <2>2. ASSUME NEW l \in e.links PROVE Tied(l, later.spans)
    <3>1. Tied(l, e.spans \cup owed)
      BY <2>2 DEF EmitterInv, LinksTied
    <3>2. \A id, trace : Has(e.spans \cup owed, id, trace) => Has(later.spans, id, trace)
      <4>1. \A x \in owed : Has(new, x.id, x.trace)
        BY DEF Grown
      <4>2. QED
        BY <1>2, <4>1 DEF Has
    <3>3. QED
      BY <3>1, <3>2 DEF Tied
  <2>3. QED
    BY <2>1, <2>2 DEF Grown, LinksTied
<1>8. Told(later.spans)
  <2>1. Told(e.spans) /\ Told(new) /\ later.spans = e.spans \cup new
    BY DEF Grown, EmitterInv
  <2>2. IsFiniteSet(e.spans \cup new)
    BY <2>1, FS_Union DEF Told
  <2>3. QED
    BY <2>1, <2>2 DEF Told
<1>9. QED
  BY <1>1, <1>3, <1>4, <1>5, <1>6, <1>7, <1>8 DEF EmitterInv

\* Links of other kinds leave results and seams alone.
LEMMA OtherLinks ==
    ASSUME NEW e, NEW owed, NEW calls, NEW inserts, NEW ids, EmitterInv(e, owed, calls, inserts, ids),
           NEW later, NEW new, NEW links, NEW toCalls, NEW toInserts,
           Grown(e, owed, later, new, links, toCalls, toInserts), calls \subseteq toCalls
    PROVE  /\ (\A l \in links : l.kind # "feeds") /\ later.filled = e.filled => FedOnce(later)
           /\ (\A l \in links : l.kind # "compaction-seam") /\ later.seam = e.seam => Seamed(later, toCalls)
<1>1. later.links = e.links \cup links /\ later.traces = e.traces /\ later.spans = e.spans \cup new
  BY DEF Grown
<1>2. ASSUME \A l \in links : l.kind # "feeds", later.filled = e.filled
      PROVE  FedOnce(later)
  <2>1. {l \in later.links : l.kind = "feeds"} = {l \in e.links : l.kind = "feeds"}
    BY <1>1, <1>2
  <2>2. QED
    BY <1>2, <2>1 DEF EmitterInv, FedOnce
<1>3. ASSUME \A l \in links : l.kind # "compaction-seam", later.seam = e.seam
      PROVE  Seamed(later, toCalls)
  <2>1. {l \in later.links : l.kind = "compaction-seam"} = {l \in e.links : l.kind = "compaction-seam"}
    BY <1>1, <1>3
  <2>2. IdsOf(later) = IdsOf(e) /\ LlmIds(calls) \subseteq LlmIds(toCalls)
    BY <1>1 DEF IdsOf, LlmIds
  <2>3. \A id, trace : Has(e.spans, id, trace) => Has(later.spans, id, trace)
    BY <1>1 DEF Has
  <2>4. QED
    BY <1>1, <1>3, <2>1, <2>2, <2>3 DEF EmitterInv, Seamed
<1>4. QED
  BY <1>2, <1>3

-----------------------------------------------------------------------------
(* A call that is emitted.                                                  *)

\* What EmitConversation adds.
Inserted(s) == {s.chain[i] : i \in {j \in Request(s) \cap s.new :
                   j > LastFreshAssistantIdx(s) /\ (Injected(s.chain[j]) \/ Role(s, j) = "system")}}
NewTools(e, s) == UsedBy(s) \ DOMAIN e.toolTrace
ToolsAfter(e, s, trace) ==
    [t \in DOMAIN e.toolTrace \cup NewTools(e, s) |-> IF t \in NewTools(e, s) THEN trace ELSE e.toolTrace[t]]
CallSpans(e, s, trace, parent) ==
    {EventSpan(s, trace, parent, n) : n \in Inserted(s)} \cup {LlmSpan(s, trace, parent, ConversationInput(s))}
      \cup {ToolSpan(s, trace, parent, t) : t \in NewTools(e, s)}
FeedLinks(e, s, trace) ==
    {Link("feeds", e.toolTrace[t], ToolId(t), trace, LlmId(s)) : t \in FillToolResult(e, s)}
EmitLinks(e, s, trace) ==
    {Link("emits", trace, LlmId(s), ToolsAfter(e, s, trace)[t], ToolId(t)) : t \in UsedBy(s)}

LEMMA ConversationParts ==
    ASSUME NEW e, DOMAIN e = Parts, NEW s, NEW trace, NEW parent
    PROVE  LET c == EmitConversation(e, s, trace, parent) IN
           /\ DOMAIN c = Parts
           /\ c.spans = e.spans \cup CallSpans(e, s, trace, parent)
           /\ c.links = e.links \cup (FeedLinks(e, s, trace) \cup EmitLinks(e, s, trace))
           /\ c.toolTrace = ToolsAfter(e, s, trace) /\ c.filled = e.filled \cup FillToolResult(e, s)
           /\ c.traces = e.traces /\ c.agents = e.agents /\ c.seam = e.seam
<1> DEFINE c == EmitConversation(e, s, trace, parent)
           spans == e.spans \cup {EventSpan(s, trace, parent, n) : n \in Inserted(s)}
                      \cup {LlmSpan(s, trace, parent, ConversationInput(s))}
                      \cup {ToolSpan(s, trace, parent, t) : t \in NewTools(e, s)}
           links == e.links \cup FeedLinks(e, s, trace) \cup EmitLinks(e, s, trace)
           tools == ToolsAfter(e, s, trace)
           filled == e.filled \cup FillToolResult(e, s)
<1>1. c = [e EXCEPT !.spans = spans, !.toolTrace = tools, !.filled = filled, !.links = links]
  BY DEF EmitConversation, Inserted, NewTools, FeedLinks, EmitLinks, ToolsAfter
<1>2. spans = e.spans \cup CallSpans(e, s, trace, parent)
      /\ links = e.links \cup (FeedLinks(e, s, trace) \cup EmitLinks(e, s, trace))
  BY DEF CallSpans
<1> HIDE DEF spans, links, tools, filled, c
<1>3. /\ DOMAIN c = Parts /\ c.spans = spans /\ c.links = links /\ c.toolTrace = tools /\ c.filled = filled
      /\ c.traces = e.traces /\ c.agents = e.agents /\ c.seam = e.seam
  BY <1>1 DEF Parts
<1>4. QED
  BY <1>2, <1>3 DEF tools, filled, c

\* What its spans and links say.
LEMMA CallSpansSay ==
    ASSUME NEW e, NEW s, NEW trace, NEW parent, NEW x \in CallSpans(e, s, trace, parent)
    PROVE  /\ x.trace = trace /\ x.parent = parent
           /\ \/ x.kind # "llm" /\ \E n \in Inserted(s) : x.id = EventId(n) /\ x = EventSpan(s, trace, parent, n)
              \/ x.kind = "llm" /\ x.id = LlmId(s) /\ x = LlmSpan(s, trace, parent, ConversationInput(s))
              \/ x.kind # "llm" /\ \E t \in NewTools(e, s) : x.id = ToolId(t) /\ x = ToolSpan(s, trace, parent, t)
<1>1. CASE \E n \in Inserted(s) : x = EventSpan(s, trace, parent, n)
  <2>1. PICK n \in Inserted(s) : x = EventSpan(s, trace, parent, n)
    BY <1>1
  <2>2. x.trace = trace /\ x.parent = parent /\ x.kind = "event" /\ x.id = EventId(n)
    BY <2>1 DEF EventSpan, Span
  <2>3. QED
    BY <2>1, <2>2
<1>2. CASE x = LlmSpan(s, trace, parent, ConversationInput(s))
  BY <1>2, LlmSpanSays DEF LlmId
<1>3. CASE \E t \in NewTools(e, s) : x = ToolSpan(s, trace, parent, t)
  <2>1. PICK t \in NewTools(e, s) : x = ToolSpan(s, trace, parent, t)
    BY <1>3
  <2>2. x.trace = trace /\ x.parent = parent /\ x.kind = "tool" /\ x.id = ToolId(t)
    BY <2>1 DEF ToolSpan, Span
  <2>3. QED
    BY <2>1, <2>2
<1>4. QED
  BY <1>1, <1>2, <1>3 DEF CallSpans

LEMMA LinkSays ==
    ASSUME NEW kind, NEW from, NEW fromSpan, NEW to, NEW toSpan
    PROVE  LET l == Link(kind, from, fromSpan, to, toSpan) IN
           l.kind = kind /\ l.from = from /\ l.fromSpan = fromSpan /\ l.to = to /\ l.toSpan = toSpan
BY DEF Link

LEMMA EmitConversationHolds ==
    ASSUME NEW e, NEW owed, NEW calls, NEW inserts, NEW ids, EmitterInv(e, owed, calls, inserts, ids),
           NEW s, s.call \notin calls, News(s) \cap inserts = {}, IsFiniteSet(UsedBy(s)),
           IsFiniteSet(News(s)), SpanCallKind(s) = KindOf(s.call),
           NEW trace \in IdsOf(e), NEW parent, parent # <<>>, Has(e.spans, parent, trace),
           \A x \in owed : x.id = LlmId(s) /\ x.trace = trace
    PROVE  EmitterInv(EmitConversation(e, s, trace, parent), {}, calls \cup {s.call}, inserts \cup News(s), ids)
<1> DEFINE c == EmitConversation(e, s, trace, parent)
           new == CallSpans(e, s, trace, parent)
           links == FeedLinks(e, s, trace) \cup EmitLinks(e, s, trace)
           tools == ToolsAfter(e, s, trace)
           fed == FillToolResult(e, s)
           toCalls == calls \cup {s.call}
           toInserts == inserts \cup News(s)
<1>1. Shape(e) /\ Placed(e) /\ Named(e, calls, inserts)
  BY DEF EmitterInv
<1>2. /\ DOMAIN c = Parts /\ c.spans = e.spans \cup new /\ c.links = e.links \cup links
      /\ c.toolTrace = tools /\ c.filled = e.filled \cup fed
      /\ c.traces = e.traces /\ c.agents = e.agents /\ c.seam = e.seam
  BY <1>1, ConversationParts DEF Shape
<1>3. /\ DOMAIN tools = DOMAIN e.toolTrace \cup NewTools(e, s)
      /\ \A t \in DOMAIN e.toolTrace : tools[t] = e.toolTrace[t]
      /\ \A t \in NewTools(e, s) : tools[t] = trace /\ t \notin DOMAIN e.toolTrace
      /\ UsedBy(s) \subseteq DOMAIN tools
  BY DEF ToolsAfter, NewTools
<1>4. fed \subseteq DOMAIN e.toolTrace \ e.filled
  BY DEF FillToolResult
<1>5. Inserted(s) \subseteq News(s)
  BY DEF Inserted, News
<1>6. \A x \in new : /\ x.trace = trace /\ x.parent = parent
                     /\ \/ x.kind # "llm" /\ \E n \in Inserted(s) : x.id = EventId(n) /\ x = EventSpan(s, trace, parent, n)
                        \/ x.kind = "llm" /\ x.id = LlmId(s) /\ x = LlmSpan(s, trace, parent, ConversationInput(s))
                        \/ x.kind # "llm" /\ \E t \in NewTools(e, s) : x.id = ToolId(t) /\ x = ToolSpan(s, trace, parent, t)
  BY CallSpansSay
<1>7. /\ \E x \in new : x.kind = "llm" /\ x.id = LlmId(s) /\ x.trace = trace
      /\ \A t \in NewTools(e, s) : Has(new, ToolId(t), trace)
  <2>1. LlmSpan(s, trace, parent, ConversationInput(s)) \in new
    BY DEF CallSpans
  <2>2. \A t \in NewTools(e, s) : ToolSpan(s, trace, parent, t) \in new
    BY DEF CallSpans
  <2>3. \A t : ToolSpan(s, trace, parent, t).id = ToolId(t) /\ ToolSpan(s, trace, parent, t).trace = trace
    BY DEF ToolSpan, Span
  <2>4. QED
    BY <2>1, <2>2, <2>3, LlmSpanSays DEF Has, LlmId
<1> HIDE DEF c, new, tools, fed, links
<1>8. Fit(new, e.spans, IdsOf(e))
  <2>1. \A x \in new : x.id \notin LlmIds(calls) /\ x.id \notin OtherIds(e, inserts)
    <3>1. \A n \in Inserted(s) : EventId(n) \notin LlmIds(calls) /\ EventId(n) \notin OtherIds(e, inserts)
      BY <1>5, NamesApart DEF LlmIds, OtherIds
    <3>2. LlmId(s) \notin LlmIds(calls) /\ LlmId(s) \notin OtherIds(e, inserts)
      BY NamesApart DEF LlmIds, OtherIds, LlmId
    <3>3. \A t \in NewTools(e, s) : ToolId(t) \notin LlmIds(calls) /\ ToolId(t) \notin OtherIds(e, inserts)
      BY <1>3, NamesApart DEF LlmIds, OtherIds
    <3>4. QED
      BY <1>6, <3>1, <3>2, <3>3
  <2>2. \A y \in e.spans : y.id \in LlmIds(calls) \/ y.id \in OtherIds(e, inserts)
    BY <1>1 DEF Named
  <2>3. ASSUME NEW x \in new, NEW y \in new, x.id = y.id PROVE x = y
    <3>0. /\ \A n \in Inserted(s), k \in Inserted(s) : EventId(n) = EventId(k) => n = k
          /\ \A t \in NewTools(e, s), u \in NewTools(e, s) : ToolId(t) = ToolId(u) => t = u
          /\ \A n \in Inserted(s), t \in NewTools(e, s) : EventId(n) # ToolId(t)
          /\ \A n \in Inserted(s) : EventId(n) # LlmId(s)
          /\ \A t \in NewTools(e, s) : ToolId(t) # LlmId(s)
      BY NamesApart DEF LlmId
    <3>1. CASE x.kind = "llm"
      BY <1>6, <2>3, <3>0, <3>1
    <3>2. ASSUME NEW n \in Inserted(s), x.id = EventId(n), x = EventSpan(s, trace, parent, n) PROVE x = y
      <4>1. y.id = EventId(n)
        BY <2>3, <3>2
      <4>2. \E k \in Inserted(s) : y.id = EventId(k) /\ y = EventSpan(s, trace, parent, k)
        BY <1>6, <3>0, <4>1
      <4>3. PICK k \in Inserted(s) : y.id = EventId(k) /\ y = EventSpan(s, trace, parent, k)
        BY <4>2
      <4>4. k = n
        BY <3>0, <4>1, <4>3
      <4>5. QED
        BY <3>2, <4>3, <4>4
    <3>3. ASSUME NEW t \in NewTools(e, s), x.id = ToolId(t), x = ToolSpan(s, trace, parent, t) PROVE x = y
      <4>1. y.id = ToolId(t)
        BY <2>3, <3>3
      <4>2. \E u \in NewTools(e, s) : y.id = ToolId(u) /\ y = ToolSpan(s, trace, parent, u)
        BY <1>6, <3>0, <4>1
      <4>3. PICK u \in NewTools(e, s) : y.id = ToolId(u) /\ y = ToolSpan(s, trace, parent, u)
        BY <4>2
      <4>4. u = t
        BY <3>0, <4>1, <4>3
      <4>5. QED
        BY <3>3, <4>3, <4>4
    <3>4. QED
      BY <1>6, <3>1, <3>2, <3>3
  <2>4. Has(e.spans \cup new, parent, trace)
    BY DEF Has
  <2>5. QED
    BY <1>6, <2>1, <2>2, <2>3, <2>4 DEF Fit
<1>9. \A l \in FeedLinks(e, s, trace) :
        /\ l.kind = "feeds" /\ l.toSpan = LlmId(s) /\ l.to = trace
        /\ \E t \in fed : /\ l.fromSpan = ToolId(t) /\ l.from = e.toolTrace[t]
                          /\ l = Link("feeds", e.toolTrace[t], ToolId(t), trace, LlmId(s))
  BY LinkSays DEF FeedLinks, fed
<1>10. \A t \in fed : \E l \in FeedLinks(e, s, trace) : l.kind = "feeds" /\ l.fromSpan = ToolId(t)
  <2> SUFFICES ASSUME NEW t \in fed
               PROVE  \E l \in FeedLinks(e, s, trace) : l.kind = "feeds" /\ l.fromSpan = ToolId(t)
    OBVIOUS
  <2>1. Link("feeds", e.toolTrace[t], ToolId(t), trace, LlmId(s)) \in FeedLinks(e, s, trace)
    BY DEF FeedLinks, fed
  <2>2. QED
    BY <2>1, LinkSays
<1>11. \A l \in EmitLinks(e, s, trace) :
        /\ l.kind = "emits" /\ l.fromSpan = LlmId(s) /\ l.from = trace
        /\ \E t \in UsedBy(s) : l.toSpan = ToolId(t) /\ l.to = tools[t]
  BY LinkSays DEF EmitLinks, tools
<1>12. \A l \in links : Tied(l, c.spans)
  <2>1. \A id, tr : Has(e.spans, id, tr) \/ Has(new, id, tr) => Has(c.spans, id, tr)
    BY <1>2 DEF Has
  <2>2. Has(c.spans, LlmId(s), trace)
    BY <1>7, <2>1 DEF Has
  <2>3. \A t \in DOMAIN tools : Has(c.spans, ToolId(t), tools[t])
    BY <1>1, <1>3, <1>7, <2>1 DEF Placed
  <2>4. ASSUME NEW l \in FeedLinks(e, s, trace) PROVE Tied(l, c.spans)
    <3>1. PICK t \in fed : l.fromSpan = ToolId(t) /\ l.from = e.toolTrace[t]
      BY <1>9
    <3>2. Has(c.spans, l.fromSpan, l.from)
      BY <1>3, <1>4, <2>3, <3>1
    <3>3. QED
      BY <1>9, <2>2, <3>2 DEF Tied
  <2>5. ASSUME NEW l \in EmitLinks(e, s, trace) PROVE Tied(l, c.spans)
    <3>1. PICK t \in UsedBy(s) : l.toSpan = ToolId(t) /\ l.to = tools[t]
      BY <1>11
    <3>2. Has(c.spans, l.toSpan, l.to)
      BY <1>3, <2>3, <3>1
    <3>3. QED
      BY <1>11, <2>2, <3>2 DEF Tied
  <2>6. QED
    BY <2>4, <2>5 DEF links
<1>13. IsFiniteSet(DOMAIN tools)
  <2>1. IsFiniteSet(NewTools(e, s))
    BY FS_Subset DEF NewTools
  <2>2. IsFiniteSet(DOMAIN e.toolTrace \cup NewTools(e, s))
    BY <1>1, <2>1, FS_Union DEF Shape
  <2>3. QED
    BY <1>3, <2>2
<1>20. Told(new)
  <2>1. \A x \in new : Tells(x)
    <3>1. \A n : EventSpan(s, trace, parent, n).kind = "event" /\ EventSpan(s, trace, parent, n).call = "injected"
                 /\ EventSpan(s, trace, parent, n).id[1] = "event"
      BY DEF EventSpan, Span, EventId
    <3>2. \A t : ToolSpan(s, trace, parent, t).kind = "tool" /\ ToolSpan(s, trace, parent, t).call = ""
                 /\ ToolSpan(s, trace, parent, t).id[1] = "tool"
      BY DEF ToolSpan, Span, ToolId
    <3> DEFINE llm == LlmSpan(s, trace, parent, ConversationInput(s))
    <3>3. llm.kind = "llm" /\ llm.id = <<"llm", s.call>> /\ llm.call = SpanCallKind(s)
      BY LlmSpanSays
    <3>4. llm.id[1] = "llm" /\ llm.id[2] = s.call
      BY <3>3
    <3> HIDE DEF llm
    <3>5. Tells(llm)
      BY <3>3, <3>4 DEF Tells
    <3>6. \A n : Tells(EventSpan(s, trace, parent, n))
      BY <3>1 DEF Tells
    <3>7. \A t : Tells(ToolSpan(s, trace, parent, t))
      BY <3>2 DEF Tells
    <3>8. QED
      BY <3>5, <3>6, <3>7 DEF new, CallSpans, llm
  <2>2. IsFiniteSet(new)
    <3> DEFINE A == Inserted(s)
               B == NewTools(e, s)
               EA == {EventSpan(s, trace, parent, n) : n \in A}
               EB == {ToolSpan(s, trace, parent, t) : t \in B}
               f == [n \in A |-> EventSpan(s, trace, parent, n)]
               g == [t \in B |-> ToolSpan(s, trace, parent, t)]
    <3>1. IsFiniteSet(A) /\ IsFiniteSet(B)
      BY <1>5, FS_Subset DEF NewTools
    <3>2. f \in Surjection(A, EA) /\ g \in Surjection(B, EB)
      BY DEF Surjection
    <3>3. new = EA \cup {LlmSpan(s, trace, parent, ConversationInput(s))} \cup EB
      BY DEF new, CallSpans
    <3> HIDE DEF A, B, EA, EB, f, g
    <3>4. IsFiniteSet(EA) /\ IsFiniteSet(EB)
      BY <3>1, <3>2, FS_Surjection
    <3>5. IsFiniteSet(EA \cup {LlmSpan(s, trace, parent, ConversationInput(s))})
      BY <3>4, FS_AddElement
    <3>6. QED
      BY <3>3, <3>4, <3>5, FS_Union
  <2>3. QED
    BY <2>1, <2>2 DEF Told
<1>14. Grown(e, owed, c, new, links, toCalls, toInserts)
  <2>1. /\ c.filled \subseteq DOMAIN c.toolTrace /\ DOMAIN e.toolTrace \subseteq DOMAIN c.toolTrace
        /\ \A t \in DOMAIN c.toolTrace \ DOMAIN e.toolTrace : Has(new, ToolId(t), c.toolTrace[t])
    BY <1>1, <1>2, <1>3, <1>4, <1>7 DEF Shape
  <2>2. \A x \in new : x.id \in IF x.kind = "llm" THEN LlmIds(toCalls) ELSE OtherIds(c, toInserts)
    <3>1. LlmId(s) \in LlmIds(toCalls)
      BY DEF LlmIds, LlmId
    <3>2. \A n \in Inserted(s) : EventId(n) \in OtherIds(c, toInserts)
      BY <1>5 DEF OtherIds
    <3>3. \A t \in NewTools(e, s) : ToolId(t) \in OtherIds(c, toInserts)
      BY <1>2, <1>3 DEF OtherIds
    <3>4. QED
      BY <1>6, <3>1, <3>2, <3>3
  <2>3. \A x \in owed : Has(new, x.id, x.trace)
    BY <1>7 DEF Has
  <2>4. QED
    BY <1>2, <1>3, <1>8, <1>12, <1>13, <1>20, <2>1, <2>2, <2>3 DEF Grown
<1>15. FedOnce(c)
  <2> DEFINE feeds == {l \in e.links : l.kind = "feeds"}
             more == {l \in c.links : l.kind = "feeds"}
  <2>1. /\ \A t \in e.filled : \E l \in feeds : l.fromSpan = ToolId(t)
        /\ \A l \in feeds : \E t \in e.filled : l.fromSpan = ToolId(t)
        /\ \A l, m \in feeds : l.fromSpan = m.fromSpan => l = m
    BY DEF EmitterInv, FedOnce
  <2>2. more = feeds \cup FeedLinks(e, s, trace)
    BY <1>2, <1>9, <1>11 DEF links
  <2> HIDE DEF feeds, more
  <2>3. \A t \in c.filled : \E l \in more : l.fromSpan = ToolId(t)
    BY <1>2, <1>10, <2>1, <2>2
  <2>4. \A l \in more : \E t \in c.filled : l.fromSpan = ToolId(t)
    BY <1>2, <1>9, <2>1, <2>2
  <2>5. \A l, m \in more : l.fromSpan = m.fromSpan => l = m
    <3>1. ASSUME NEW l \in more, NEW m \in more, l.fromSpan = m.fromSpan PROVE l = m
      <4>1. \A x, y : ToolId(x) = ToolId(y) => x = y
        BY NamesApart
      <4>2. CASE l \in feeds /\ m \in feeds
        BY <2>1, <3>1, <4>2
      <4>3. CASE l \in FeedLinks(e, s, trace) /\ m \in FeedLinks(e, s, trace)
        BY <1>9, <3>1, <4>1, <4>3
      <4>4. CASE (l \in feeds /\ m \in FeedLinks(e, s, trace)) \/ (m \in feeds /\ l \in FeedLinks(e, s, trace))
        BY <1>4, <1>9, <2>1, <3>1, <4>1, <4>4
      <4>5. QED
        BY <2>2, <4>2, <4>3, <4>4
    <3>2. QED
      BY <3>1
  <2>6. QED
    BY <2>3, <2>4, <2>5 DEF FedOnce, more
<1>16. Seamed(c, toCalls)
  <2>1. \A l \in links : l.kind # "compaction-seam"
    BY <1>9, <1>11 DEF links
  <2>2. QED
    BY <1>2, <1>14, <2>1, OtherLinks
<1>17. \A k \in toCalls \ calls : \E x \in new : x.kind = "llm" /\ x.id = <<"llm", k>>
  BY <1>7 DEF LlmId
<1>18. calls \subseteq toCalls /\ inserts \subseteq toInserts
  OBVIOUS
<1> HIDE DEF toCalls, toInserts
<1>19. EmitterInv(c, {}, toCalls, toInserts, ids)
  BY <1>14, <1>15, <1>16, <1>17, <1>18, EmitterGrows
<1>21. QED
  BY <1>19 DEF c, toCalls, toInserts

-----------------------------------------------------------------------------
(* A call of each route.                                                    *)

\* A source that has left nothing in the emitter, and one that has.
Fresh(s, calls, inserts, ids) ==
    /\ s.call \notin calls /\ News(s) \cap inserts = {} /\ TraceIdentity(s) \notin ids
    /\ IsFiniteSet(UsedBy(s)) /\ IsFiniteSet(News(s)) /\ SpanCallKind(s) = KindOf(s.call)
Emitted(e, s, calls, inserts, ids) ==
    EmitterInv(e, {}, calls \cup {s.call}, inserts \cup News(s), ids \cup {TraceIdentity(s)})

LEMMA MoreComeBy ==
    ASSUME NEW e, NEW owed, NEW calls, NEW inserts, NEW ids, EmitterInv(e, owed, calls, inserts, ids),
           NEW toInserts, inserts \subseteq toInserts, NEW toIds, ids \subseteq toIds
    PROVE  EmitterInv(e, owed, calls, toInserts, toIds)
<1>1. OtherIds(e, inserts) \subseteq OtherIds(e, toInserts)
  BY DEF OtherIds
<1>2. Named(e, calls, toInserts)
  BY <1>1 DEF EmitterInv, Named
<1>3. QED
  BY <1>2 DEF EmitterInv

LEMMA CurrentIsOpen ==
    ASSUME NEW e, Shape(e), e.traces # <<>>
    PROVE  CurTrace(e) \in IdsOf(e)
<1>1. Len(e.traces) \in Nat /\ DOMAIN e.traces = 1..Len(e.traces)
  BY DEF Shape
<1>2. Len(e.traces) # 0
  BY <1>1 DEF Shape
<1>3. Len(e.traces) \in DOMAIN e.traces
  BY <1>1, <1>2
<1>4. QED
  BY <1>3 DEF CurTrace, IdsOf

\* The first call of a session opens its trace whatever it is; no seam is
\* armed yet.
LEMMA EnsureTraceHolds ==
    ASSUME NEW e, NEW calls, NEW inserts, NEW ids, EmitterInv(e, {}, calls, inserts, ids),
           NEW s, Fresh(s, calls, inserts, ids)
    PROVE  LET o == EnsureTrace(e, s) IN
           /\ EmitterInv(o, {}, calls, inserts, ids \cup {TraceIdentity(s)})
           /\ o.traces # <<>> /\ CurTrace(o) \in IdsOf(o)
           /\ Has(o.spans, RootId(CurTrace(o)), CurTrace(o))
           /\ o.toolTrace = e.toolTrace /\ o.agents = e.agents
<1> DEFINE o == EnsureTrace(e, s)
<1>1. /\ EmitterInv(o, {}, calls, inserts, ids \cup {TraceIdentity(s)})
      /\ o.traces # <<>> /\ CurTrace(o) \in IdsOf(o)
      /\ o.toolTrace = e.toolTrace /\ o.agents = e.agents
  <2>1. CASE e.traces # <<>>
    <3>1. o = e
      BY <2>1 DEF EnsureTrace
    <3>2. EmitterInv(e, {}, calls, inserts, ids \cup {TraceIdentity(s)})
      BY MoreComeBy
    <3>3. QED
      BY <2>1, <3>1, <3>2, CurrentIsOpen DEF EmitterInv
  <2>2. CASE e.traces = <<>>
    <3>1. o = OpenTrace(e, s, NoNode, "shadow-opener")
      BY <2>2 DEF EnsureTrace
    <3>2. Owed(e, s) = {}
      BY <2>2 DEF EmitterInv, Seamed, Owed
    <3>3. TraceIdentity(s) \notin ids
      BY DEF Fresh
    <3> DEFINE opened == OpenTrace(e, s, NoNode, "shadow-opener")
    <3>4. /\ EmitterInv(opened, Owed(e, s), calls, inserts, ids \cup {TraceIdentity(s)})
          /\ opened.traces # <<>> /\ CurTrace(opened) \in IdsOf(opened)
          /\ opened.toolTrace = e.toolTrace /\ opened.agents = e.agents
      BY <3>3, OpenTraceHolds
    <3>5. o = opened
      BY <3>1
    <3> HIDE DEF o, opened
    <3>6. QED
      BY <3>2, <3>4, <3>5
  <2>3. QED
    BY <2>1, <2>2
<1>2. QED
  BY <1>1 DEF EmitterInv, Placed

LEMMA MainCallHolds ==
    ASSUME NEW e, NEW calls, NEW inserts, NEW ids, EmitterInv(e, {}, calls, inserts, ids),
           NEW s, Fresh(s, calls, inserts, ids)
    PROVE  Emitted(MainCall(e, s), s, calls, inserts, ids)
<1> DEFINE opens == e.traces = <<>> \/ PromptOf(s) # NoNode
           o == IF opens THEN OpenTrace(e, s, PromptOf(s), "") ELSE e
           owed == IF opens THEN Owed(e, s) ELSE {}
           trace == CurTrace(o)
           toIds == ids \cup {TraceIdentity(s)}
           toCalls == calls \cup {s.call}
           toInserts == inserts \cup News(s)
<1>1. MainCall(e, s) = EmitConversation(o, s, trace, RootId(trace))
  BY DEF MainCall
<1>2. EmitterInv(o, owed, calls, inserts, toIds) /\ trace \in IdsOf(o) /\ \A x \in owed : x.id = LlmId(s) /\ x.trace = trace
  <2>1. CASE opens
    <3>1. o = OpenTrace(e, s, PromptOf(s), "") /\ owed = Owed(e, s)
      BY <2>1
    <3> HIDE DEF o, owed, opens
    <3>2. TraceIdentity(s) \notin ids
      BY DEF Fresh
    <3> DEFINE prompt == PromptOf(s)
               p == OpenTrace(e, s, prompt, "")
    <3> HIDE DEF prompt
    <3>3. /\ EmitterInv(p, Owed(e, s), calls, inserts, ids \cup {TraceIdentity(s)})
          /\ CurTrace(p) = TraceIdentity(s) /\ CurTrace(p) \in IdsOf(p)
      <4>1. \A opener : LET q == OpenTrace(e, s, prompt, opener) IN
                       /\ EmitterInv(q, Owed(e, s), calls, inserts, ids \cup {TraceIdentity(s)})
                       /\ CurTrace(q) = TraceIdentity(s) /\ CurTrace(q) \in IdsOf(q)
        BY <3>2, OpenTraceHolds
      <4>2. QED
        BY <4>1
    <3> USE DEF prompt
    <3>4. \A x \in Owed(e, s) : x.id = LlmId(s) /\ x.trace = TraceIdentity(s)
      BY DEF Owed
    <3> HIDE DEF p
    <3>5. QED
      BY <3>1, <3>3, <3>4, o = p DEF p
  <2>2. CASE ~opens
    <3>1. o = e /\ owed = {} /\ e.traces # <<>>
      BY <2>2
    <3> HIDE DEF o, owed
    <3>2. EmitterInv(e, {}, calls, inserts, toIds)
      BY MoreComeBy
    <3>3. CurTrace(e) \in IdsOf(e)
      BY <3>1, CurrentIsOpen DEF EmitterInv
    <3>4. QED
      BY <3>1, <3>2, <3>3
  <2>3. QED
    BY <2>1, <2>2
<1> HIDE DEF o, owed, trace, toIds, toCalls, toInserts
<1>3. Has(o.spans, RootId(trace), trace)
  BY <1>2 DEF EmitterInv, Placed
<1>4. /\ s.call \notin calls /\ News(s) \cap inserts = {} /\ IsFiniteSet(UsedBy(s))
      /\ IsFiniteSet(News(s)) /\ SpanCallKind(s) = KindOf(s.call)
  BY DEF Fresh
<1>5. RootId(trace) # <<>>
  BY DEF RootId
<1>6. EmitterInv(EmitConversation(o, s, trace, RootId(trace)), {}, toCalls, toInserts, toIds)
  BY <1>2, <1>3, <1>4, <1>5, EmitConversationHolds DEF toCalls, toInserts
<1>7. QED
  BY <1>1, <1>6 DEF Emitted, toCalls, toInserts, toIds

\* What has a span is in an open trace.
LEMMA SpannedIsOpen ==
    ASSUME NEW spans, NEW traces, Trees(spans, traces), NEW id, NEW trace, Has(spans, id, trace)
    PROVE  trace \in traces
BY DEF Trees, Has

\* Later is e with one more thread.
WithThread(e, later, th, at, trace, parent, links) ==
    /\ DOMAIN later = Parts
    /\ later.spans = e.spans \cup {Span(trace, ThreadId(th), parent, "agent", "", th, at)}
    /\ later.links = e.links \cup links
    /\ later.agents = [x \in DOMAIN e.agents \cup {th} |-> IF x = th THEN trace ELSE e.agents[x]]
    /\ later.traces = e.traces /\ later.toolTrace = e.toolTrace /\ later.filled = e.filled /\ later.seam = e.seam

LEMMA ThreadAdded ==
    ASSUME NEW e, NEW calls, NEW inserts, NEW ids, EmitterInv(e, {}, calls, inserts, ids),
           NEW th, th \notin DOMAIN e.agents, NEW at,
           NEW trace \in IdsOf(e), NEW parent, parent # <<>>, Has(e.spans, parent, trace),
           NEW later, NEW links, WithThread(e, later, th, at, trace, parent, links),
           \A l \in links : /\ l.kind = "rejoin" /\ l.from = trace /\ l.fromSpan = ThreadId(th)
                            /\ Has(e.spans, l.toSpan, l.to)
    PROVE  EmitterInv(later, {}, calls, inserts, ids)
<1> DEFINE x == Span(trace, ThreadId(th), parent, "agent", "", th, at)
<1>1. x.trace = trace /\ x.id = ThreadId(th) /\ x.parent = parent /\ x.kind = "agent" /\ x.call = ""
  BY DEF Span
<1>2. Shape(e) /\ Named(e, calls, inserts)
  BY DEF EmitterInv
<1>3. /\ DOMAIN later = Parts /\ later.spans = e.spans \cup {x} /\ later.links = e.links \cup links
      /\ later.traces = e.traces /\ later.toolTrace = e.toolTrace /\ later.filled = e.filled /\ later.seam = e.seam
      /\ DOMAIN later.agents = DOMAIN e.agents \cup {th} /\ later.agents[th] = trace
      /\ \A y \in DOMAIN e.agents : later.agents[y] = e.agents[y]
  <2> DEFINE agents == [y \in DOMAIN e.agents \cup {th} |-> IF y = th THEN trace ELSE e.agents[y]]
  <2>1. DOMAIN agents = DOMAIN e.agents \cup {th} /\ agents[th] = trace /\ \A y \in DOMAIN e.agents : agents[y] = e.agents[y]
    OBVIOUS
  <2>2. later.agents = agents
    BY DEF WithThread
  <2> HIDE DEF agents
  <2>3. QED
    BY <2>1, <2>2 DEF WithThread
<1> HIDE DEF x
<1>4. Fit({x}, e.spans, IdsOf(e))
  <2>1. ThreadId(th) \notin LlmIds(calls) /\ ThreadId(th) \notin OtherIds(e, inserts)
    BY NamesApart DEF LlmIds, OtherIds
  <2>2. \A y \in e.spans : y.id # ThreadId(th)
    BY <1>2, <2>1 DEF Named
  <2>3. Has(e.spans \cup {x}, parent, trace)
    BY DEF Has
  <2>4. QED
    BY <1>1, <2>2, <2>3 DEF Fit
<1>5. \A l \in links : Tied(l, later.spans)
  BY <1>1, <1>3 DEF Tied, Has
<1>6. Grown(e, {}, later, {x}, links, calls, inserts)
  <2>1. Has({x}, ThreadId(th), trace)
    BY <1>1 DEF Has
  <2>2. ThreadId(th) \in OtherIds(later, inserts)
    BY <1>3 DEF OtherIds
  <2>3. \A y \in {x} : y.id \in IF y.kind = "llm" THEN LlmIds(calls) ELSE OtherIds(later, inserts)
    BY <1>1, <2>2
  <2>4. IsFiniteSet(DOMAIN later.toolTrace) /\ later.filled \subseteq DOMAIN later.toolTrace
    BY <1>2, <1>3 DEF Shape
  <2>5. Told({x})
    <3>1. x.id[1] = "agent"
      BY <1>1, NameHeads
    <3>2. Tells(x)
      BY <1>1, <3>1 DEF Tells
    <3>3. QED
      BY <3>2, FS_Singleton DEF Told
  <2>6. QED
    BY <1>3, <1>4, <1>5, <2>1, <2>3, <2>4, <2>5 DEF Grown
<1>7. FedOnce(later) /\ Seamed(later, calls)
  BY <1>3, <1>6, OtherLinks
<1>8. QED
  BY <1>6, <1>7, EmitterGrows

LEMMA AgentOfHolds ==
    ASSUME NEW e, NEW calls, NEW inserts, NEW ids, EmitterInv(e, {}, calls, inserts, ids),
           NEW s, Fresh(s, calls, inserts, ids)
    PROVE  LET a == AgentOf(e, s) IN
           /\ EmitterInv(a, {}, calls, inserts, ids \cup {TraceIdentity(s)})
           /\ s.thread \in DOMAIN a.agents
           /\ Has(a.spans, ThreadId(s.thread), a.agents[s.thread]) /\ a.agents[s.thread] \in IdsOf(a)
<1> DEFINE a == AgentOf(e, s)
           th == s.thread
           toIds == ids \cup {TraceIdentity(s)}
           anchor == ThreadAnchor(s)
<1>1. EmitterInv(e, {}, calls, inserts, toIds)
  BY MoreComeBy
<1>2. EmitterInv(a, {}, calls, inserts, toIds) /\ th \in DOMAIN a.agents
  <2>1. CASE th \in DOMAIN e.agents
    BY <1>1, <2>1 DEF AgentOf
  <2>2. CASE th \notin DOMAIN e.agents /\ anchor \in DOMAIN e.toolTrace
    <3> DEFINE trace == e.toolTrace[anchor]
               link == Link("rejoin", trace, ThreadId(th), trace, ToolId(anchor))
               spans == e.spans \cup {Span(trace, ThreadId(th), ToolId(anchor), "agent", "", th, s.at)}
               links == e.links \cup {link}
               agents == [x \in DOMAIN e.agents \cup {th} |-> IF x = th THEN trace ELSE e.agents[x]]
    <3>1. a = [e EXCEPT !.spans = spans, !.links = links, !.agents = agents]
      BY <2>2 DEF AgentOf
    <3>2. Has(e.spans, ToolId(anchor), trace) /\ ToolId(anchor) # <<>>
      BY <2>2, NamesApart DEF EmitterInv, Placed
    <3>3. trace \in IdsOf(e)
      BY <3>2, SpannedIsOpen DEF EmitterInv
    <3>4. link.kind = "rejoin" /\ link.from = trace /\ link.fromSpan = ThreadId(th)
          /\ link.to = trace /\ link.toSpan = ToolId(anchor)
      BY LinkSays
    <3> HIDE DEF spans, links, agents, a, link
    <3>5. WithThread(e, a, th, s.at, trace, ToolId(anchor), {link})
      <4>1. DOMAIN e = Parts
        BY DEF EmitterInv, Shape
      <4>2. /\ DOMAIN a = Parts /\ a.spans = spans /\ a.links = links /\ a.agents = agents
            /\ a.traces = e.traces /\ a.toolTrace = e.toolTrace /\ a.filled = e.filled /\ a.seam = e.seam
        BY <3>1, <4>1 DEF Parts
      <4>3. QED
        BY <4>2 DEF WithThread, spans, links, agents
    <3> HIDE DEF trace, anchor, toIds, th
    <3>6. EmitterInv(a, {}, calls, inserts, toIds)
      BY <1>1, <2>2, <3>2, <3>3, <3>4, <3>5, ThreadAdded
    <3>7. QED
      BY <3>5, <3>6 DEF WithThread
  <2>3. CASE th \notin DOMAIN e.agents /\ anchor \notin DOMAIN e.toolTrace
    <3> DEFINE o == EnsureTrace(e, s)
               trace == CurTrace(o)
               spans == o.spans \cup {Span(trace, ThreadId(th), RootId(trace), "agent", "", th, s.at)}
               agents == [x \in DOMAIN o.agents \cup {th} |-> IF x = th THEN trace ELSE o.agents[x]]
    <3>1. a = [o EXCEPT !.spans = spans, !.agents = agents]
      BY <2>3 DEF AgentOf
    <3>2. /\ EmitterInv(o, {}, calls, inserts, toIds) /\ trace \in IdsOf(o)
          /\ Has(o.spans, RootId(trace), trace) /\ o.agents = e.agents
      BY EnsureTraceHolds
    <3> HIDE DEF spans, agents, a, o
    <3>3. WithThread(o, a, th, s.at, trace, RootId(trace), {})
      <4>1. DOMAIN o = Parts
        BY <3>2 DEF EmitterInv, Shape
      <4>2. /\ DOMAIN a = Parts /\ a.spans = spans /\ a.links = o.links /\ a.agents = agents
            /\ a.traces = o.traces /\ a.toolTrace = o.toolTrace /\ a.filled = o.filled /\ a.seam = o.seam
        BY <3>1, <4>1 DEF Parts
      <4>3. QED
        BY <4>2 DEF WithThread, spans, agents
    <3>4. RootId(trace) # <<>>
      BY DEF RootId
    <3> HIDE DEF trace, anchor, toIds, th
    <3>5. EmitterInv(a, {}, calls, inserts, toIds)
      BY <2>3, <3>2, <3>3, <3>4, ThreadAdded
    <3>6. QED
      BY <3>3, <3>5 DEF WithThread
  <2>4. QED
    BY <2>1, <2>2, <2>3
<1> HIDE DEF a, toIds
<1>3. Has(a.spans, ThreadId(th), a.agents[th])
  BY <1>2 DEF EmitterInv, Placed
<1>4. a.agents[th] \in IdsOf(a)
  BY <1>2, <1>3, SpannedIsOpen DEF EmitterInv
<1>5. QED
  BY <1>2, <1>3, <1>4 DEF a, toIds

LEMMA ThreadCallHolds ==
    ASSUME NEW e, NEW calls, NEW inserts, NEW ids, EmitterInv(e, {}, calls, inserts, ids),
           NEW s, Fresh(s, calls, inserts, ids)
    PROVE  Emitted(ThreadCall(e, s), s, calls, inserts, ids)
<1> DEFINE a == AgentOf(e, s)
           toIds == ids \cup {TraceIdentity(s)}
           trace == a.agents[s.thread]
<1>1. EmitterInv(a, {}, calls, inserts, toIds) /\ Has(a.spans, ThreadId(s.thread), trace) /\ trace \in IdsOf(a)
  BY AgentOfHolds
<1>2. ThreadCall(e, s) = EmitConversation(a, s, trace, ThreadId(s.thread))
  BY DEF ThreadCall
<1>3. /\ s.call \notin calls /\ News(s) \cap inserts = {} /\ IsFiniteSet(UsedBy(s)) /\ ThreadId(s.thread) # <<>>
      /\ IsFiniteSet(News(s)) /\ SpanCallKind(s) = KindOf(s.call)
  BY DEF Fresh, ThreadId
<1> HIDE DEF a, toIds, trace
<1>4. EmitterInv(EmitConversation(a, s, trace, ThreadId(s.thread)), {}, calls \cup {s.call}, inserts \cup News(s), toIds)
  BY <1>1, <1>3, EmitConversationHolds
<1>5. QED
  BY <1>2, <1>4 DEF Emitted, toIds

\* Later is e with one more call, of an offshoot, that may arm the seam.
WithCall(e, later, s, trace, parent, input, links) ==
    /\ DOMAIN later = Parts
    /\ later.spans = e.spans \cup {LlmSpan(s, trace, parent, input)}
    /\ later.links = e.links \cup links
    /\ later.seam \in {e.seam, [trace |-> trace, span |-> LlmId(s)]}
    /\ later.traces = e.traces /\ later.toolTrace = e.toolTrace /\ later.filled = e.filled /\ later.agents = e.agents

LEMMA CallAdded ==
    ASSUME NEW e, NEW calls, NEW inserts, NEW ids, EmitterInv(e, {}, calls, inserts, ids),
           NEW s, s.call \notin calls, SpanCallKind(s) = KindOf(s.call), NEW toInserts, inserts \subseteq toInserts,
           NEW trace \in IdsOf(e), NEW parent, parent # <<>>, Has(e.spans, parent, trace),
           NEW later, NEW input, NEW links, WithCall(e, later, s, trace, parent, input, links),
           \A l \in links : /\ l.kind = "verdict" /\ l.from = trace /\ l.fromSpan = LlmId(s)
                            /\ Has(e.spans, l.toSpan, l.to)
    PROVE  EmitterInv(later, {}, calls \cup {s.call}, toInserts, ids)
<1> DEFINE x == LlmSpan(s, trace, parent, input)
           toCalls == calls \cup {s.call}
<1>1. x.trace = trace /\ x.id = LlmId(s) /\ x.parent = parent /\ x.kind = "llm" /\ x.call = SpanCallKind(s)
  BY LlmSpanSays DEF LlmId
<1>2. Shape(e) /\ Named(e, calls, inserts)
  BY DEF EmitterInv
<1>3. /\ DOMAIN later = Parts /\ later.spans = e.spans \cup {x} /\ later.links = e.links \cup links
      /\ later.traces = e.traces /\ later.toolTrace = e.toolTrace /\ later.filled = e.filled
      /\ later.agents = e.agents
      /\ later.seam = e.seam \/ (later.seam.trace = trace /\ later.seam.span = LlmId(s))
  BY DEF WithCall
<1> HIDE DEF x
<1>4. Fit({x}, e.spans, IdsOf(e))
  <2>1. LlmId(s) \notin LlmIds(calls) /\ LlmId(s) \notin OtherIds(e, inserts)
    BY NamesApart DEF LlmIds, OtherIds, LlmId
  <2>2. \A y \in e.spans : y.id # LlmId(s)
    BY <1>2, <2>1 DEF Named
  <2>3. Has(e.spans \cup {x}, parent, trace)
    BY DEF Has
  <2>4. QED
    BY <1>1, <2>2, <2>3 DEF Fit
<1>5. Has(later.spans, LlmId(s), trace) /\ \A id, tr : Has(e.spans, id, tr) => Has(later.spans, id, tr)
  BY <1>1, <1>3 DEF Has
<1>6. Grown(e, {}, later, {x}, links, toCalls, toInserts)
  <2>1. \A y \in {x} : y.id \in IF y.kind = "llm" THEN LlmIds(toCalls) ELSE OtherIds(later, toInserts)
    BY <1>1 DEF LlmIds, LlmId
  <2>2. IsFiniteSet(DOMAIN later.toolTrace) /\ later.filled \subseteq DOMAIN later.toolTrace
    BY <1>2, <1>3 DEF Shape
  <2>3. \A l \in links : Tied(l, later.spans)
    BY <1>5 DEF Tied
  <2>4. Told({x})
    <3>1. x.id[1] = "llm" /\ x.id[2] = s.call
      BY <1>1 DEF LlmId
    <3>2. Tells(x)
      BY <1>1, <3>1 DEF Tells
    <3>3. QED
      BY <3>2, FS_Singleton DEF Told
  <2>5. QED
    BY <1>3, <1>4, <2>1, <2>2, <2>3, <2>4 DEF Grown
<1>7. FedOnce(later)
  <2>1. \A l \in links : l.kind # "feeds"
    OBVIOUS
  <2>2. calls \subseteq toCalls
    OBVIOUS
  <2> HIDE DEF toCalls
  <2>3. QED
    BY <1>3, <1>6, <2>1, <2>2, OtherLinks
<1>8. Seamed(later, toCalls)
  <2>1. \A l \in links : l.kind # "compaction-seam"
    OBVIOUS
  <2>2. CASE later.seam = e.seam
    <3>1. calls \subseteq toCalls
      OBVIOUS
    <3> HIDE DEF toCalls
    <3>2. QED
      BY <1>6, <2>1, <2>2, <3>1, OtherLinks
  <2>3. CASE later.seam.trace = trace /\ later.seam.span = LlmId(s)
    <3>1. {l \in later.links : l.kind = "compaction-seam"} = {l \in e.links : l.kind = "compaction-seam"}
      BY <1>3, <2>1
    <3>2. IdsOf(later) = IdsOf(e) /\ LlmIds(calls) \subseteq LlmIds(toCalls)
      BY <1>3 DEF IdsOf, LlmIds
    <3>3. e.traces # <<>>
      BY DEF IdsOf
    <3>4. LlmId(s) \in LlmIds(toCalls) /\ LlmId(s) \notin LlmIds(calls)
      BY NamesApart DEF LlmIds, LlmId
    <3>5. Seamed(e, calls)
      BY DEF EmitterInv
    <3>6. QED
      BY <1>3, <1>5, <2>3, <3>1, <3>2, <3>3, <3>4, <3>5 DEF Seamed
  <2>4. QED
    BY <1>3, <2>2, <2>3
<1>9. \A c \in toCalls \ calls : \E y \in {x} : y.kind = "llm" /\ y.id = <<"llm", c>>
  BY <1>1 DEF LlmId
<1>10. calls \subseteq toCalls
  OBVIOUS
<1> HIDE DEF toCalls
<1>11. EmitterInv(later, {}, toCalls, toInserts, ids)
  BY <1>6, <1>7, <1>8, <1>9, <1>10, EmitterGrows
<1>12. QED
  BY <1>11 DEF toCalls

LEMMA CompactionCallHolds ==
    ASSUME NEW e, NEW calls, NEW inserts, NEW ids, EmitterInv(e, {}, calls, inserts, ids),
           NEW s, Fresh(s, calls, inserts, ids)
    PROVE  Emitted(CompactionCall(e, s), s, calls, inserts, ids)
<1> DEFINE o == EnsureTrace(e, s)
           c == CompactionCall(e, s)
           toIds == ids \cup {TraceIdentity(s)}
           trace == CurTrace(o)
           spans == o.spans \cup {LlmSpan(s, trace, RootId(trace), {})}
           seam == [trace |-> trace, span |-> LlmId(s)]
<1>1. EmitterInv(o, {}, calls, inserts, toIds) /\ trace \in IdsOf(o) /\ Has(o.spans, RootId(trace), trace)
  BY EnsureTraceHolds
<1>2. c = [[o EXCEPT !.spans = spans] EXCEPT !.seam = seam]
  BY DEF CompactionCall, AddSpans
<1> HIDE DEF o, c, toIds, trace, spans, seam
<1>3. WithCall(o, c, s, trace, RootId(trace), {}, {})
  <2>1. DOMAIN o = Parts
    BY <1>1 DEF EmitterInv, Shape
  <2>2. /\ DOMAIN c = Parts /\ c.spans = spans /\ c.links = o.links /\ c.seam = seam
        /\ c.traces = o.traces /\ c.toolTrace = o.toolTrace /\ c.filled = o.filled /\ c.agents = o.agents
    BY <1>2, <2>1 DEF Parts
  <2>3. QED
    BY <2>2 DEF WithCall, spans, seam
<1>4. /\ s.call \notin calls /\ SpanCallKind(s) = KindOf(s.call)
      /\ RootId(trace) # <<>> /\ inserts \subseteq inserts \cup News(s)
  BY DEF Fresh, RootId
<1>5. EmitterInv(c, {}, calls \cup {s.call}, inserts \cup News(s), toIds)
  BY <1>1, <1>3, <1>4, CallAdded
<1>6. QED
  BY <1>5 DEF Emitted, c, toIds

\* The trace that was live is one of the emitter's.
LEMMA TraceAtIsOpen ==
    ASSUME NEW e, Shape(e), e.traces # <<>>, NEW s
    PROVE  TraceAt(e, s) \in IdsOf(e)
<1> DEFINE n == Len(e.traces)
           started == {i \in DOMAIN e.traces : e.traces[i].at <= s.at}
<1>1. n \in Nat /\ DOMAIN e.traces = 1..n /\ n # 0
  BY DEF Shape
<1> HIDE DEF n
<1>2. CASE started = {}
  <2>1. 1 \in DOMAIN e.traces
    BY <1>1
  <2>2. QED
    BY <1>2, <2>1 DEF TraceAt, IdsOf
<1>3. CASE started # {}
  <2>1. started \subseteq 1..n
    BY <1>1
  <2> HIDE DEF started
  <2>2. Max(started) \in started
    BY <1>1, <1>3, <2>1, LastPlace
  <2>3. Max(started) \in DOMAIN e.traces
    BY <1>1, <2>1, <2>2
  <2>4. TraceAt(e, s) = e.traces[Max(started)].id
    BY <1>3 DEF TraceAt, started
  <2>5. QED
    BY <2>3, <2>4 DEF IdsOf
<1>4. QED
  BY <1>2, <1>3

LEMMA ShadowCallHolds ==
    ASSUME NEW e, NEW calls, NEW inserts, NEW ids, EmitterInv(e, {}, calls, inserts, ids),
           NEW s, Fresh(s, calls, inserts, ids)
    PROVE  Emitted(ShadowCall(e, s), s, calls, inserts, ids)
<1> DEFINE c == ShadowCall(e, s)
           toIds == ids \cup {TraceIdentity(s)}
           toInserts == inserts \cup News(s)
<1>1. s.call \notin calls /\ SpanCallKind(s) = KindOf(s.call) /\ inserts \subseteq toInserts
  BY DEF Fresh
<1>2. ASSUME s.anchor \in DOMAIN e.toolTrace
      PROVE  EmitterInv(c, {}, calls \cup {s.call}, toInserts, toIds)
  <2> DEFINE tool == s.anchor
             trace == e.toolTrace[tool]
             input == FreshInput(s)
             link == Link("verdict", trace, LlmId(s), trace, ToolId(tool))
             spans == e.spans \cup {LlmSpan(s, trace, ToolId(tool), input)}
             links == e.links \cup {link}
  <2>1. c = [[e EXCEPT !.spans = spans] EXCEPT !.links = @ \cup {link}]
    BY <1>2 DEF ShadowCall, AddSpans, AddLinks
  <2>2. EmitterInv(e, {}, calls, inserts, toIds)
    BY MoreComeBy
  <2>3. Has(e.spans, ToolId(tool), trace) /\ ToolId(tool) # <<>>
    BY <1>2, NamesApart DEF EmitterInv, Placed
  <2>4. trace \in IdsOf(e)
    BY <2>3, SpannedIsOpen DEF EmitterInv
  <2>5. link.kind = "verdict" /\ link.from = trace /\ link.fromSpan = LlmId(s)
        /\ link.to = trace /\ link.toSpan = ToolId(tool)
    BY LinkSays
  <2> HIDE DEF c, trace, input, link, spans, links, toIds, toInserts
  <2>6. WithCall(e, c, s, trace, ToolId(tool), input, {link})
    <3>1. DOMAIN e = Parts
      BY DEF EmitterInv, Shape
    <3>2. /\ DOMAIN c = Parts /\ c.spans = spans /\ c.links = e.links \cup {link} /\ c.seam = e.seam
          /\ c.traces = e.traces /\ c.toolTrace = e.toolTrace /\ c.filled = e.filled /\ c.agents = e.agents
      BY <2>1, <3>1 DEF Parts
    <3>3. QED
      BY <3>2 DEF WithCall, spans
  <2> HIDE DEF tool
  <2>7. QED
    BY <1>1, <2>2, <2>3, <2>4, <2>5, <2>6, CallAdded
<1>3. ASSUME s.anchor \notin DOMAIN e.toolTrace
      PROVE  EmitterInv(c, {}, calls \cup {s.call}, toInserts, toIds)
  <2> DEFINE o == EnsureTrace(e, s)
             trace == TraceAt(o, s)
             input == FreshInput(s)
             spans == o.spans \cup {LlmSpan(s, trace, RootId(trace), input)}
  <2>1. c = [o EXCEPT !.spans = spans]
    BY <1>3 DEF ShadowCall, AddSpans
  <2>2. EmitterInv(o, {}, calls, inserts, toIds) /\ o.traces # <<>>
    BY EnsureTraceHolds
  <2> HIDE DEF c, o, input, spans, toIds, toInserts
  <2>3. trace \in IdsOf(o)
    BY <2>2, TraceAtIsOpen DEF EmitterInv
  <2> HIDE DEF trace
  <2>4. Has(o.spans, RootId(trace), trace) /\ RootId(trace) # <<>>
    BY <2>2, <2>3 DEF EmitterInv, Placed, RootId
  <2>5. WithCall(o, c, s, trace, RootId(trace), input, {})
    <3>1. DOMAIN o = Parts
      BY <2>2 DEF EmitterInv, Shape
    <3>2. /\ DOMAIN c = Parts /\ c.spans = spans /\ c.links = o.links /\ c.seam = o.seam
          /\ c.traces = o.traces /\ c.toolTrace = o.toolTrace /\ c.filled = o.filled /\ c.agents = o.agents
      BY <2>1, <3>1 DEF Parts
    <3>3. QED
      BY <3>2 DEF WithCall, spans
  <2>6. QED
    BY <1>1, <2>2, <2>3, <2>4, <2>5, CallAdded
<1>4. QED
  BY <1>2, <1>3 DEF Emitted

-----------------------------------------------------------------------------
(* The places a source can be in.                                           *)

LEMMA QueueGrows ==
    ASSUME NEW all, NEW q, Queue(q, all), NEW s \in all, s.call \notin CallsOf(q)
    PROVE  Queue(Append(q, s), all) /\ CallsOf(Append(q, s)) = CallsOf(q) \cup {s.call}
<1> DEFINE n == Len(q)
           a == Append(q, s)
<1>1. /\ a \in Seq(Range(a)) /\ n \in Nat /\ DOMAIN q = 1..n /\ DOMAIN a = 1..(n + 1)
      /\ \A i \in 1..n : a[i] = q[i]
      /\ a[n + 1] = s /\ Range(a) = Range(q) \cup {s}
  BY Appended DEF Queue
<1> HIDE DEF a, n
<1>2. \A i \in 1..(n + 1) : i \in 1..n \/ i = n + 1
  BY <1>1
<1>3. \A i \in 1..n : i \in 1..(n + 1)
  BY <1>1
<1>4. n + 1 \in 1..(n + 1)
  BY <1>1
<1>5. CallsOf(a) = CallsOf(q) \cup {s.call}
  BY <1>1, <1>2, <1>3, <1>4 DEF CallsOf
<1>6. \A i \in 1..n : q[i].call \in CallsOf(q)
  BY <1>1 DEF CallsOf
<1>7. \A i, j \in DOMAIN a : a[i].call = a[j].call => i = j
  BY <1>1, <1>2, <1>6 DEF Queue
<1>8. QED
  BY <1>1, <1>5, <1>7 DEF Queue, a

LEMMA QueueShrinks ==
    ASSUME NEW all, NEW q, Queue(q, all), q # <<>>
    PROVE  /\ Queue(Tail(q), all) /\ Head(q) \in all /\ Head(q).call \in CallsOf(q)
           /\ CallsOf(Tail(q)) = CallsOf(q) \ {Head(q).call}
           /\ Len(q) \in Nat \ {0} /\ Len(Tail(q)) = Len(q) - 1
<1> DEFINE n == Len(q)
           t == Tail(q)
<1>1. /\ t \in Seq(Range(t)) /\ n \in Nat \ {0} /\ DOMAIN q = 1..n /\ Head(q) = q[1]
      /\ Len(t) = n - 1 /\ DOMAIN t = 1..(n - 1)
      /\ \A i \in 1..(n - 1) : t[i] = q[i + 1]
  BY Tailed DEF Queue
<1> HIDE DEF t, n
<1>2. \A i \in 1..(n - 1) : i + 1 \in 1..n /\ i + 1 # 1
  BY <1>1
<1>3. \A i \in 1..n : i # 1 => i - 1 \in 1..(n - 1) /\ (i - 1) + 1 = i
  BY <1>1
<1>4. 1 \in 1..n
  BY <1>1
<1>5. Head(q) \in all /\ Head(q).call \in CallsOf(q)
  BY <1>1, <1>4 DEF Queue, Range, CallsOf
<1>6. Range(t) \subseteq all
  BY <1>1, <1>2 DEF Queue, Range
<1>7. \A i, j \in DOMAIN t : t[i].call = t[j].call => i = j
  <2>1. ASSUME NEW i \in 1..(n - 1), NEW j \in 1..(n - 1), t[i].call = t[j].call PROVE i = j
    <3>1. /\ i + 1 \in DOMAIN q /\ j + 1 \in DOMAIN q
          /\ q[i + 1].call = q[j + 1].call
      BY <1>1, <1>2, <2>1
    <3>2. i + 1 = j + 1
      BY <3>1 DEF Queue
    <3>3. QED
      BY <3>2
  <2>2. QED
    BY <1>1, <2>1
<1>8. CallsOf(t) = CallsOf(q) \ {Head(q).call}
  <2>1. ASSUME NEW i \in 1..(n - 1) PROVE t[i].call \in CallsOf(q) \ {Head(q).call}
    <3>1. i + 1 \in DOMAIN q /\ i + 1 # 1 /\ 1 \in DOMAIN q /\ t[i] = q[i + 1]
      BY <1>1, <1>2, <1>4
    <3>2. q[i + 1].call # q[1].call
      BY <3>1 DEF Queue
    <3>3. QED
      BY <1>1, <3>1, <3>2 DEF CallsOf
  <2>2. ASSUME NEW i \in 1..n, q[i].call # Head(q).call PROVE q[i].call \in CallsOf(t)
    <3>1. i # 1
      BY <1>1, <2>2
    <3>2. i - 1 \in 1..(n - 1) /\ t[i - 1] = q[i]
      BY <1>1, <1>3, <3>1
    <3>3. QED
      BY <1>1, <3>2 DEF CallsOf
  <2>3. CallsOf(t) \subseteq CallsOf(q) \ {Head(q).call}
    BY <1>1, <2>1 DEF CallsOf
  <2>4. CallsOf(q) \ {Head(q).call} \subseteq CallsOf(t)
    <3> SUFFICES ASSUME NEW c \in CallsOf(q), c # Head(q).call PROVE c \in CallsOf(t)
      OBVIOUS
    <3>1. PICK i \in 1..n : c = q[i].call
      BY <1>1 DEF CallsOf
    <3>2. QED
      BY <2>2, <3>1
  <2>5. QED
    BY <2>3, <2>4
<1>9. Queue(t, all)
  BY <1>1, <1>6, <1>7 DEF Queue
<1>10. QED
  BY <1>1, <1>5, <1>8, <1>9 DEF t, n

\* The next source of the spine is one that is not walked yet.
LEMMA SpineAdvances ==
    ASSUME SourcesAreCalls, pos \in 0..Len(sources), pos < Len(sources), sources' = sources, pos' = pos + 1
    PROVE  /\ pos + 1 \in DOMAIN sources /\ sources[pos + 1].call \in Unwalked
           /\ Unwalked' = Unwalked \ {sources[pos + 1].call}
           /\ pos' \in 0..Len(sources) /\ Len(sources) \in Nat
<1> DEFINE n == Len(sources)
           k == pos + 1
<1>1. n \in Nat /\ DOMAIN sources = 1..n
  BY DEF SourcesAreCalls
<1>2. \A i, j \in DOMAIN sources : i # j => sources[i].call # sources[j].call
  BY DEF SourcesAreCalls
<1> HIDE DEF n
<1>3. /\ k \in 1..n /\ k \in (pos + 1)..n /\ k \in 0..n
      /\ \A i \in (pos + 1)..n : i \in 1..n /\ (i # k => i \in (k + 1)..n)
      /\ \A i \in (k + 1)..n : i \in (pos + 1)..n /\ i \in 1..n /\ i # k
  BY <1>1 DEF n
<1>4. Unwalked = {sources[i].call : i \in (pos + 1)..n} /\ Unwalked' = {sources[i].call : i \in (k + 1)..n}
  BY DEF Unwalked, n
<1> HIDE DEF k
<1>5. sources[k].call \in Unwalked
  BY <1>3, <1>4
<1>6. Unwalked' = Unwalked \ {sources[k].call}
  <2>1. ASSUME NEW c \in Unwalked', c \notin Unwalked \ {sources[k].call} PROVE FALSE
    <3>1. PICK i \in (k + 1)..n : c = sources[i].call
      BY <1>4
    <3>2. i \in (pos + 1)..n /\ sources[i].call # sources[k].call
      BY <1>1, <1>2, <1>3
    <3>3. QED
      BY <1>4, <2>1, <3>1, <3>2
  <2>2. ASSUME NEW c \in Unwalked, c # sources[k].call PROVE c \in Unwalked'
    <3>1. PICK i \in (pos + 1)..n : c = sources[i].call
      BY <1>4
    <3>2. i \in (k + 1)..n
      BY <1>3, <2>2, <3>1
    <3>3. QED
      BY <1>4, <3>1, <3>2
  <2>3. QED
    BY <2>1, <2>2
<1>7. QED
  BY <1>1, <1>3, <1>5, <1>6 DEF k, n

-----------------------------------------------------------------------------
(* A source leaves the walk, or none does.                                  *)

\* The tools a call used are finitely many.
LEMMA ToolsAreFinite ==
    ASSUME SourcesAreCalls, NEW i \in DOMAIN sources
    PROVE  IsFiniteSet(UsedBy(sources[i]))
<1> DEFINE s == sources[i]
           uses == Info[Response(s)].uses
           D == 1..Len(uses)
           f == [k \in D |-> uses[k]]
<1>1. s.chain = Turn[s.call].chain /\ s.call \in Call /\ Turn[s.call].parse = "ok"
  BY DEF SourcesAreCalls
<1> HIDE DEF s
<1>2. s.chain \in Seq(Node) /\ s.chain # <<>>
  BY <1>1, ChainAssumption
<1>3. Response(s) \in Node
  BY <1>2 DEF Response
<1>4. uses \in Seq(Tool)
  BY <1>3, InfoAssumption
<1> HIDE DEF uses
<1>5. Len(uses) \in Nat /\ DOMAIN uses = D
  BY <1>4
<1>6. IsFiniteSet(D)
  BY <1>5, FS_Interval
<1>7. UsedBy(s) = {uses[k] : k \in D}
  BY <1>5 DEF UsedBy, uses
<1>8. f \in Surjection(D, UsedBy(s))
  BY <1>7 DEF Surjection
<1> HIDE DEF D, f
<1>9. IsFiniteSet(UsedBy(s))
  BY <1>6, <1>8, FS_Surjection
<1>10. QED
  BY <1>9 DEF s

\* So are the nodes it brought.
LEMMA NewsAreFinite ==
    ASSUME SourcesAreCalls, NEW i \in DOMAIN sources
    PROVE  IsFiniteSet(News(sources[i]))
<1> DEFINE s == sources[i]
           D == 1..Len(s.chain)
           f == [k \in s.new |-> s.chain[k]]
<1>1. s.chain = Turn[s.call].chain /\ s.call \in Call /\ Turn[s.call].parse = "ok" /\ s.new \subseteq DOMAIN s.chain
  BY DEF SourcesAreCalls
<1> HIDE DEF s
<1>2. s.chain \in Seq(Node)
  BY <1>1, ChainAssumption
<1>3. Len(s.chain) \in Nat /\ DOMAIN s.chain = D
  BY <1>2
<1>4. IsFiniteSet(s.new)
  <2>1. IsFiniteSet(D)
    BY <1>3, FS_Interval
  <2>2. s.new \subseteq D
    BY <1>1, <1>3
  <2> HIDE DEF D
  <2>3. QED
    BY <2>1, <2>2, FS_Subset
<1>5. f \in Surjection(s.new, News(s))
  BY DEF Surjection, News
<1> HIDE DEF D, f
<1>6. IsFiniteSet(News(s))
  BY <1>4, <1>5, FS_Surjection
<1>7. QED
  BY <1>6 DEF s

\* A turn names one call's trace.
LEMMA TraceNamesOnce ==
    ASSUME SourcesAreCalls, NEW i \in DOMAIN sources, NEW j \in DOMAIN sources, i # j
    PROVE  TraceIdentity(sources[i]) # TraceIdentity(sources[j])
<1> DEFINE c == sources[i].call
           d == sources[j].call
<1>1. c \in Call /\ d \in Call /\ c # d /\ sources[i].turn = Turn[c].turn /\ sources[j].turn = Turn[d].turn
  BY DEF SourcesAreCalls
<1> HIDE DEF c, d
<1>2. TraceIdentity(sources[i]) = (IF Turn[c].turn # NoTurn THEN Turn[c].turn ELSE c)
      /\ TraceIdentity(sources[j]) = (IF Turn[d].turn # NoTurn THEN Turn[d].turn ELSE d)
  BY <1>1 DEF TraceIdentity, CallIdentity, c, d
<1>3. QED
  BY <1>1, <1>2, TurnAssumption

LEMMA StillFresh ==
    ASSUME SourcesAreCalls, NEW k \in DOMAIN sources, sources[k].call \in Coming
    PROVE  Fresh(sources[k], WalkedCalls, WalkedNews, WalkedIds)
<1>1. \A i \in Walked : i \in DOMAIN sources /\ i # k
  BY DEF Walked
<1>2. \A i \in Walked : sources[i].call # sources[k].call /\ News(sources[i]) \cap News(sources[k]) = {}
                        /\ TraceIdentity(sources[i]) # TraceIdentity(sources[k])
  BY <1>1, TraceNamesOnce DEF SourcesAreCalls
<1>3. SpanCallKind(sources[k]) = KindOf(sources[k].call)
  BY DEF SourcesAreCalls, SpanCallKind, KindOf
<1>4. QED
  BY <1>2, <1>3, ToolsAreFinite, NewsAreFinite DEF Fresh, WalkedCalls, WalkedNews, WalkedIds

LEMMA OneLeaves ==
    ASSUME WalkInv, UNCHANGED feedVars, NEW k \in DOMAIN sources, sources[k].call \in Coming,
           Coming' = Coming \ {sources[k].call}, Queued', Phased',
           Fresh(sources[k], WalkedCalls, WalkedNews, WalkedIds)
             => Emitted(em', sources[k], WalkedCalls, WalkedNews, WalkedIds)
    PROVE  WalkInv'
<1> DEFINE s == sources[k]
<1>1. SourcesAreCalls /\ sources' = sources /\ SourcesAreCalls'
  BY DEF WalkInv, SourcesAreCalls, feedVars
<1>2. Walked' = Walked \cup {k}
  <2>1. \A i \in DOMAIN sources : sources[i].call = sources[k].call => i = k
    BY <1>1 DEF SourcesAreCalls
  <2>2. QED
    BY <1>1, <2>1 DEF Walked
<1>3. /\ WalkedCalls' = WalkedCalls \cup {s.call} /\ WalkedNews' = WalkedNews \cup News(s)
      /\ WalkedIds' = WalkedIds \cup {TraceIdentity(s)}
  <2>1. WalkedCalls' = WalkedCalls \cup {s.call}
    BY <1>1, <1>2 DEF WalkedCalls
  <2>2. WalkedNews' = WalkedNews \cup News(s)
    BY <1>1, <1>2 DEF WalkedNews
  <2>3. WalkedIds' = WalkedIds \cup {TraceIdentity(s)}
    BY <1>1, <1>2 DEF WalkedIds
  <2>4. QED
    BY <2>1, <2>2, <2>3
<1>4. Emitted(em', s, WalkedCalls, WalkedNews, WalkedIds)
  BY <1>1, StillFresh
<1>5. EmitterInv(em', {}, WalkedCalls', WalkedNews', WalkedIds')
  BY <1>3, <1>4 DEF Emitted
<1>6. QED
  BY <1>1, <1>5 DEF WalkInv

LEMMA NoneLeaves ==
    ASSUME WalkInv, UNCHANGED <<feedVars, em>>, Coming' = Coming, Queued', Phased'
    PROVE  WalkInv'
<1>1. sources' = sources /\ SourcesAreCalls' /\ em' = em
  BY DEF WalkInv, SourcesAreCalls, feedVars
<1>2. Walked' = Walked
  BY <1>1 DEF Walked
<1>3. WalkedCalls' = WalkedCalls /\ WalkedNews' = WalkedNews /\ WalkedIds' = WalkedIds
  BY <1>1, <1>2 DEF WalkedCalls, WalkedNews, WalkedIds
<1>4. QED
  BY <1>1, <1>3 DEF WalkInv

-----------------------------------------------------------------------------
(* Each step keeps the invariant.                                           *)

\* Nothing is emitted before the walk begins.
LEMMA NothingYet ==
    ASSUME SourcesAreCalls, pos = 0
    PROVE  /\ WalkedCalls = {} /\ WalkedNews = {} /\ WalkedIds = {}
           /\ EmitterInv(NoEmission, {}, {}, {}, {})
<1>1. Walked = {}
  BY DEF Walked, Coming, Unwalked, SourcesAreCalls
<1>2. WalkedCalls = {} /\ WalkedNews = {} /\ WalkedIds = {}
  BY <1>1 DEF WalkedCalls, WalkedNews, WalkedIds
<1> DEFINE e == NoEmission
<1>3. /\ DOMAIN e = Parts /\ e.traces = <<>> /\ e.spans = {} /\ e.links = {} /\ DOMAIN e.toolTrace = {}
      /\ e.filled = {} /\ DOMAIN e.agents = {} /\ e.seam = NoSeam
  BY DEF NoEmission, Parts
<1> HIDE DEF e
<1>4. DOMAIN e.traces = {} /\ e.traces \in Seq(Range(e.traces))
  BY <1>3 DEF Range
<1>5. IdsOf(e) = {} /\ Shape(e)
  BY <1>3, <1>4, FS_EmptySet DEF IdsOf, Shape
<1>6. Trees(e.spans, IdsOf(e)) /\ Placed(e) /\ Named(e, {}, {})
  BY <1>3, <1>5 DEF Trees, Placed, Named
<1>7. LinksTied(e, {}) /\ FedOnce(e) /\ Seamed(e, {})
  BY <1>3 DEF LinksTied, FedOnce, Seamed
<1>8. Told(e.spans)
  BY <1>3, FS_EmptySet DEF Told
<1>9. EmitterInv(e, {}, {}, {}, {})
  BY <1>5, <1>6, <1>7, <1>8 DEF EmitterInv
<1>10. QED
  BY <1>2, <1>9 DEF e

\* With no source walked and none queued every source is still to come.
LEMMA EmptyQueue == \A all : Queue(<<>>, all) /\ CallsOf(<<>>) = {}
BY DEF Queue, CallsOf, Range

\* The phases in their order.
LEMMA PhaseNames == Range(Phases) = {"done", "shadows", "leftover", "threads", "spine", "feed"}
<1>1. DOMAIN Phases = 1..6
  BY DEF Phases
<1>2. 1..6 = {1, 2, 3, 4, 5, 6}
  OBVIOUS
<1>3. QED
  BY <1>1, <1>2 DEF Phases, Range

LEMMA InitWalkInv ==
    ASSUME Init
    PROVE  WalkInv
<1>1. /\ captured = <<>> /\ sources = <<>> /\ phase = "feed" /\ pos = 0
      /\ pending = <<>> /\ blocked = <<>> /\ moved = FALSE /\ shadows = <<>> /\ em = NoEmission
  BY DEF Init, FeedInit
<1>2. SourcesAreCalls
  BY <1>1 DEF SourcesAreCalls, Range
<1>3. Queued
  BY <1>1, EmptyQueue DEF Queued, Apart, Unwalked
<1>4. Phased
  <2>1. Len(sources) = 0 /\ 0 \in 0..0
    BY <1>1
  <2>2. "feed" \in Range(Phases)
    BY PhaseNames
  <2>3. phase # "threads" /\ phase # "shadows" /\ phase # "done" /\ moved \in BOOLEAN
    BY <1>1
  <2>4. QED
    BY <1>1, <2>1, <2>2, <2>3 DEF Phased
<1>5. QED
  BY <1>1, <1>2, <1>3, <1>4, NothingYet DEF WalkInv

LEMMA FeedKeepsWalk ==
    ASSUME WalkInv, FeedTurn
    PROVE  WalkInv'
<1>1. /\ phase = "feed" /\ phase' = "feed" /\ pos' = pos /\ pending' = pending /\ blocked' = blocked
      /\ moved' = moved /\ shadows' = shadows /\ em' = em
  BY DEF FeedTurn, walkVars
<1>2. /\ em = NoEmission /\ pos = 0 /\ pending = <<>> /\ blocked = <<>> /\ shadows = <<>> /\ ~moved
      /\ moved \in BOOLEAN
  BY <1>1 DEF WalkInv, Phased
<1>3. PICK c \in Call : (\A i \in DOMAIN captured : captured[i] # c) /\ AddTurn(c)
  BY DEF FeedTurn, Feed
<1>4. SourcesAreCalls'
  <2>1. captured \in Seq(Range(captured)) /\ sources \in Seq(Range(sources))
    BY DEF WalkInv, SourcesAreCalls
  <2>2. /\ captured' \in Seq(Range(captured')) /\ Range(captured') = Range(captured) \cup {c}
        /\ c \notin Range(captured)
    <3>1. captured' = Append(captured, c)
      BY <1>3 DEF AddTurn
    <3>2. c \notin Range(captured)
      BY <1>3 DEF Range
    <3>3. QED
      BY <2>1, <3>1, <3>2, Appended
  <2>3. CASE SkipTurn(c)
    BY <1>3, <2>2, <2>3 DEF SkipTurn, WalkInv, SourcesAreCalls
  <2>4. CASE RederiveChain(c) = "ok" /\ AddChainTurn(c)
    <3> DEFINE new == {i \in DOMAIN TurnChain(c) : TurnChain(c)[i] \notin DOMAIN nodes}
               s == [call |-> c, kind |-> ClassifyCall(Turn[c].tags), thread |-> Turn[c].thread,
                     at |-> Len(captured) + 1, chain |-> TurnChain(c), new |-> new,
                     anchor |-> Turn[c].anchor, from |-> Turn[c].source, turn |-> Turn[c].turn]
               n == Len(sources)
    <3>1. sources' = Append(sources, s) /\ DOMAIN nodes' = DOMAIN nodes \cup Nodes(TurnChain(c))
      BY <2>4 DEF AddChainTurn
    <3>2. /\ DOMAIN s = SourceFields /\ s.call = c /\ s.chain = Turn[c].chain /\ s.turn = Turn[c].turn
          /\ s.new = new /\ s.kind = ClassifyCall(Turn[c].tags) /\ s.thread = Turn[c].thread
      BY DEF SourceFields, TurnChain
    <3>3. Turn[c].parse = "ok"
      BY <2>4 DEF RederiveChain
    <3> HIDE DEF s, n
    <3>4. /\ n \in Nat /\ DOMAIN sources = 1..n /\ DOMAIN sources' = 1..(n + 1)
          /\ sources' \in Seq(Range(sources'))
          /\ \A i \in 1..n : sources'[i] = sources[i]
          /\ sources'[n + 1] = s
      BY <2>1, <3>1, Appended DEF n
    <3>5. \A i \in 1..(n + 1) : i \in 1..n \/ i = n + 1
      BY <3>4
    <3>6. new \subseteq DOMAIN s.chain /\ News(s) \cap DOMAIN nodes = {} /\ Nodes(s.chain) \subseteq DOMAIN nodes'
      BY <3>1, <3>2 DEF News, TurnChain, Nodes
    <3> HIDE DEF new
    <3>7. \A i \in 1..n : /\ DOMAIN sources[i] = SourceFields /\ sources[i].call \in Call \cap Range(captured)
                          /\ sources[i].chain = Turn[sources[i].call].chain
                          /\ sources[i].turn = Turn[sources[i].call].turn /\ Turn[sources[i].call].parse = "ok"
                          /\ sources[i].kind = ClassifyCall(Turn[sources[i].call].tags)
                          /\ sources[i].thread = Turn[sources[i].call].thread
                          /\ sources[i].new \subseteq DOMAIN sources[i].chain
                          /\ Nodes(sources[i].chain) \subseteq DOMAIN nodes
      BY <3>4 DEF WalkInv, SourcesAreCalls
    <3>8. ASSUME NEW i \in 1..n PROVE sources[i].call # c /\ News(sources[i]) \cap News(s) = {}
      <4>1. News(sources[i]) \subseteq DOMAIN nodes
        BY <3>7 DEF News, Nodes
      <4>2. QED
        BY <2>2, <3>6, <3>7, <4>1
    <3>9. \A i \in 1..(n + 1) :
            LET x == sources'[i] IN
            /\ DOMAIN x = SourceFields /\ x.call \in Call \cap Range(captured')
            /\ x.chain = Turn[x.call].chain /\ x.turn = Turn[x.call].turn /\ Turn[x.call].parse = "ok"
            /\ x.kind = ClassifyCall(Turn[x.call].tags) /\ x.thread = Turn[x.call].thread
            /\ x.new \subseteq DOMAIN x.chain /\ Nodes(x.chain) \subseteq DOMAIN nodes'
      <4>1. ASSUME NEW i \in 1..n PROVE
              LET x == sources'[i] IN
              /\ DOMAIN x = SourceFields /\ x.call \in Call \cap Range(captured')
              /\ x.chain = Turn[x.call].chain /\ x.turn = Turn[x.call].turn /\ Turn[x.call].parse = "ok"
              /\ x.kind = ClassifyCall(Turn[x.call].tags) /\ x.thread = Turn[x.call].thread
              /\ x.new \subseteq DOMAIN x.chain /\ Nodes(x.chain) \subseteq DOMAIN nodes'
        BY <2>2, <3>1, <3>4, <3>7
      <4>2. LET x == sources'[n + 1] IN
              /\ DOMAIN x = SourceFields /\ x.call \in Call \cap Range(captured')
              /\ x.chain = Turn[x.call].chain /\ x.turn = Turn[x.call].turn /\ Turn[x.call].parse = "ok"
              /\ x.kind = ClassifyCall(Turn[x.call].tags) /\ x.thread = Turn[x.call].thread
              /\ x.new \subseteq DOMAIN x.chain /\ Nodes(x.chain) \subseteq DOMAIN nodes'
        BY <2>2, <3>2, <3>3, <3>4, <3>6
      <4>3. QED
        BY <3>5, <4>1, <4>2
    <3>10. \A i, j \in 1..(n + 1) : i # j =>
              /\ sources'[i].call # sources'[j].call
              /\ News(sources'[i]) \cap News(sources'[j]) = {}
      <4>1. \A i, j \in 1..n : i # j => sources[i].call # sources[j].call /\ News(sources[i]) \cap News(sources[j]) = {}
        BY <3>4 DEF WalkInv, SourcesAreCalls
      <4>2. QED
        BY <3>2, <3>4, <3>5, <3>8, <4>1
    <3>11. QED
      BY <2>2, <3>4, <3>9, <3>10 DEF SourcesAreCalls
  <2>5. QED
    BY <1>3, <2>3, <2>4 DEF AddTurn
<1>5. Queued'
  BY <1>1, <1>2, EmptyQueue DEF Queued, Apart
<1>6. Phased'
  <2>1. Len(sources') \in Nat
    BY <1>4 DEF SourcesAreCalls
  <2>2. QED
    BY <1>1, <1>2, <2>1, PhaseNames DEF Phased
<1>7. /\ WalkedCalls' = {} /\ WalkedNews' = {} /\ WalkedIds' = {}
  <2>1. Walked' = {}
    BY <1>1, <1>2, <1>4 DEF Walked, Coming, Unwalked, SourcesAreCalls
  <2>2. QED
    BY <2>1 DEF WalkedCalls, WalkedNews, WalkedIds
<1>8. EmitterInv(em', {}, {}, {}, {})
  BY <1>1, <1>2, NothingYet DEF WalkInv
<1>9. QED
  BY <1>4, <1>5, <1>6, <1>7, <1>8 DEF WalkInv

LEMMA BeginKeepsWalk ==
    ASSUME WalkInv, BeginWalk
    PROVE  WalkInv'
<1> DEFINE n == Len(sources)
<1>1. /\ phase = "feed" /\ phase' = "spine" /\ pos' = pos /\ pending' = pending /\ blocked' = blocked
      /\ moved' = moved /\ shadows' = shadows /\ em' = em
  BY DEF BeginWalk
<1>2. /\ em = NoEmission /\ pos = 0 /\ pending = <<>> /\ blocked = <<>> /\ shadows = <<>> /\ ~moved
      /\ moved \in BOOLEAN
  BY <1>1 DEF WalkInv, Phased
<1>3. PICK anchors : sources' = [i \in DOMAIN sources |-> [sources[i] EXCEPT !.anchor = anchors[i]]]
  BY DEF BeginWalk, Finish
<1>4. captured' = captured /\ nodes' = nodes
  BY DEF BeginWalk, Finish
<1>5. n \in Nat /\ DOMAIN sources = 1..n
  BY DEF WalkInv, SourcesAreCalls
<1> HIDE DEF n
<1>6. DOMAIN sources' = 1..n /\ sources' \in Seq(Range(sources')) /\ Len(sources') = n
  <2>1. DOMAIN sources' = 1..n
    BY <1>3, <1>5
  <2>2. sources' = [i \in 1..n |-> sources'[i]]
    BY <1>3, <1>5
  <2>3. \A i \in 1..n : sources'[i] \in Range(sources')
    BY <2>1 DEF Range
  <2>4. QED
    BY <1>5, <2>1, <2>2, <2>3
<1>7. \A i \in 1..n : /\ DOMAIN sources'[i] = SourceFields /\ sources'[i].call = sources[i].call
                      /\ sources'[i].chain = sources[i].chain /\ sources'[i].turn = sources[i].turn
                      /\ sources'[i].new = sources[i].new
                      /\ sources'[i].kind = sources[i].kind /\ sources'[i].thread = sources[i].thread
  <2> SUFFICES ASSUME NEW i \in 1..n
               PROVE  /\ DOMAIN sources'[i] = SourceFields /\ sources'[i].call = sources[i].call
                      /\ sources'[i].chain = sources[i].chain /\ sources'[i].turn = sources[i].turn
                      /\ sources'[i].new = sources[i].new
                      /\ sources'[i].kind = sources[i].kind /\ sources'[i].thread = sources[i].thread
    OBVIOUS
  <2>1. DOMAIN sources[i] = SourceFields
    BY <1>5 DEF WalkInv, SourcesAreCalls
  <2>2. sources'[i] = [sources[i] EXCEPT !.anchor = anchors[i]]
    BY <1>3, <1>5
  <2>3. QED
    BY <2>1, <2>2 DEF SourceFields
<1>8. SourcesAreCalls'
  <2>1. \A i \in 1..n : News(sources'[i]) = News(sources[i])
    BY <1>7 DEF News
  <2>2. captured' \in Seq(Range(captured'))
    BY <1>4 DEF WalkInv, SourcesAreCalls
  <2>3. \A i \in 1..n :
          LET s == sources'[i] IN
          /\ DOMAIN s = SourceFields /\ s.call \in Call \cap Range(captured')
          /\ s.chain = Turn[s.call].chain /\ s.turn = Turn[s.call].turn /\ Turn[s.call].parse = "ok"
          /\ s.kind = ClassifyCall(Turn[s.call].tags) /\ s.thread = Turn[s.call].thread
          /\ s.new \subseteq DOMAIN s.chain /\ Nodes(s.chain) \subseteq DOMAIN nodes'
    <3>1. \A i \in 1..n :
            LET s == sources[i] IN
            /\ s.call \in Call \cap Range(captured)
            /\ s.chain = Turn[s.call].chain /\ s.turn = Turn[s.call].turn /\ Turn[s.call].parse = "ok"
            /\ s.kind = ClassifyCall(Turn[s.call].tags) /\ s.thread = Turn[s.call].thread
            /\ s.new \subseteq DOMAIN s.chain /\ Nodes(s.chain) \subseteq DOMAIN nodes
      BY <1>5 DEF WalkInv, SourcesAreCalls
    <3>2. QED
      BY <1>4, <1>7, <3>1
  <2>4. \A i, j \in 1..n : i # j => /\ sources'[i].call # sources'[j].call
                                    /\ News(sources'[i]) \cap News(sources'[j]) = {}
    BY <1>5, <1>7, <2>1 DEF WalkInv, SourcesAreCalls
  <2>5. QED
    BY <1>6, <2>2, <2>3, <2>4 DEF SourcesAreCalls
<1>9. Queued'
  BY <1>1, <1>2, EmptyQueue DEF Queued, Apart
<1>10. Phased'
  <2>1. pos' \in 0..Len(sources') /\ phase' \in Range(Phases)
    BY <1>1, <1>2, <1>5, <1>6, PhaseNames
  <2>2. QED
    BY <1>1, <1>2, <2>1 DEF Phased
<1>11. /\ WalkedCalls' = {} /\ WalkedNews' = {} /\ WalkedIds' = {}
  <2>1. Walked' = {}
    BY <1>1, <1>2, <1>5, <1>6 DEF Walked, Coming, Unwalked
  <2>2. QED
    BY <2>1 DEF WalkedCalls, WalkedNews, WalkedIds
<1>12. EmitterInv(em', {}, {}, {}, {})
  BY <1>1, <1>2, NothingYet DEF WalkInv
<1>13. QED
  BY <1>8, <1>9, <1>10, <1>11, <1>12 DEF WalkInv

\* A spine step emits its source or leaves it in a queue.
LEMMA SpineKeepsWalk ==
    ASSUME WalkInv, SpineStep
    PROVE  WalkInv'
<1> DEFINE s == sources[pos + 1]
<1>1. /\ phase = "spine" /\ pos < Len(sources) /\ pos' = pos + 1 /\ UNCHANGED feedVars
      /\ phase' = phase /\ blocked' = blocked /\ moved' = moved /\ sources' = sources
  BY DEF SpineStep, feedVars
<1>2. /\ SourcesAreCalls /\ Queued /\ Phased /\ pos \in 0..Len(sources)
  BY DEF WalkInv, Phased
<1>3. /\ pos + 1 \in DOMAIN sources /\ s.call \in Unwalked /\ Unwalked' = Unwalked \ {s.call}
      /\ pos' \in 0..Len(sources)
  BY <1>1, <1>2, SpineAdvances
<1>4. /\ em' = CASE Route(s) = "main" -> MainCall(em, s)
                 [] Route(s) = "compaction" -> CompactionCall(em, s)
                 [] OTHER -> em
      /\ pending' = IF Route(s) = "thread" THEN Append(pending, s) ELSE pending
      /\ shadows' = IF Route(s) = "shadow" THEN Append(shadows, s) ELSE shadows
  BY DEF SpineStep
<1>5. s \in Range(sources)
  BY <1>3 DEF Range
<1> HIDE DEF s
<1>6. Phased'
  BY <1>1, <1>2, <1>3, PhaseNames DEF Phased
<1>7. /\ Queue(pending, Range(sources)) /\ Queue(blocked, Range(sources)) /\ Queue(shadows, Range(sources))
      /\ Apart(Unwalked, CallsOf(pending), CallsOf(blocked), CallsOf(shadows))
  BY <1>2 DEF Queued
<1>8. s.call \notin CallsOf(pending) /\ s.call \notin CallsOf(blocked) /\ s.call \notin CallsOf(shadows)
  BY <1>3, <1>7 DEF Apart
<1>9. CASE Route(s) \in {"main", "compaction"}
  <2>1. pending' = pending /\ shadows' = shadows
    BY <1>4, <1>9
  <2>2. Coming' = Coming \ {s.call} /\ s.call \in Coming
    BY <1>1, <1>3, <1>8, <2>1 DEF Coming
  <2>3. Queued'
    BY <1>1, <1>3, <1>7, <2>1 DEF Queued, Apart
  <2>4. em' = IF Route(s) = "main" THEN MainCall(em, s) ELSE CompactionCall(em, s)
    BY <1>4, <1>9
  <2>5. EmitterInv(em, {}, WalkedCalls, WalkedNews, WalkedIds)
    BY DEF WalkInv
  <2>6. Fresh(s, WalkedCalls, WalkedNews, WalkedIds) => Emitted(em', s, WalkedCalls, WalkedNews, WalkedIds)
    BY <2>4, <2>5, MainCallHolds, CompactionCallHolds
  <2>7. QED
    BY <1>1, <1>3, <1>6, <2>2, <2>3, <2>6, OneLeaves DEF s
<1>10. CASE Route(s) = "thread"
  <2>1. pending' = Append(pending, s) /\ shadows' = shadows /\ em' = em
    BY <1>4, <1>10
  <2>2. Queue(pending', Range(sources)) /\ CallsOf(pending') = CallsOf(pending) \cup {s.call}
    BY <1>5, <1>7, <1>8, <2>1, QueueGrows
  <2>3. Coming' = Coming
    BY <1>1, <1>3, <2>1, <2>2 DEF Coming
  <2>4. Queued'
    BY <1>1, <1>3, <1>7, <1>8, <2>1, <2>2 DEF Queued, Apart
  <2>5. QED
    BY <1>1, <1>6, <2>1, <2>3, <2>4, NoneLeaves
<1>11. CASE Route(s) = "shadow"
  <2>1. shadows' = Append(shadows, s) /\ pending' = pending /\ em' = em
    BY <1>4, <1>11
  <2>2. Queue(shadows', Range(sources)) /\ CallsOf(shadows') = CallsOf(shadows) \cup {s.call}
    BY <1>5, <1>7, <1>8, <2>1, QueueGrows
  <2>3. Coming' = Coming
    BY <1>1, <1>3, <2>1, <2>2 DEF Coming
  <2>4. Queued'
    BY <1>1, <1>3, <1>7, <1>8, <2>1, <2>2 DEF Queued, Apart
  <2>5. QED
    BY <1>1, <1>6, <2>1, <2>3, <2>4, NoneLeaves
<1>12. QED
  BY <1>9, <1>10, <1>11 DEF Route

\* The head of a queue is one of the sources.
LEMMA HeadIsSource ==
    ASSUME NEW q, Queue(q, Range(sources)), q # <<>>
    PROVE  \E k \in DOMAIN sources : Head(q) = sources[k]
<1>1. Head(q) \in Range(sources)
  BY QueueShrinks
<1>2. QED
  BY <1>1 DEF Range

\* A thread call is emitted, or waits for the next pass.
LEMMA ThreadKeepsWalk ==
    ASSUME WalkInv, ThreadStep
    PROVE  WalkInv'
<1> DEFINE s == Head(pending)
<1>1. /\ phase = "threads" /\ phase' = phase /\ pos' = pos /\ pending # <<>> /\ pending' = Tail(pending)
      /\ shadows' = shadows /\ UNCHANGED feedVars /\ sources' = sources
  BY DEF ThreadStep, feedVars
<1>2. \/ em' = ThreadCall(em, s) /\ moved' = TRUE /\ blocked' = blocked
      \/ blocked' = Append(blocked, s) /\ em' = em /\ moved' = moved
  BY DEF ThreadStep
<1>3. SourcesAreCalls /\ Queued /\ Phased
  BY DEF WalkInv
<1>4. /\ Queue(pending, Range(sources)) /\ Queue(blocked, Range(sources)) /\ Queue(shadows, Range(sources))
      /\ Apart(Unwalked, CallsOf(pending), CallsOf(blocked), CallsOf(shadows))
  BY <1>3 DEF Queued
<1>5. /\ Queue(pending', Range(sources)) /\ s \in Range(sources) /\ s.call \in CallsOf(pending)
      /\ CallsOf(pending') = CallsOf(pending) \ {s.call}
  BY <1>1, <1>4, QueueShrinks
<1>6. PICK k \in DOMAIN sources : s = sources[k]
  BY <1>1, <1>4, HeadIsSource
<1>7. Unwalked' = Unwalked
  BY <1>1 DEF Unwalked
<1> HIDE DEF s
<1>8. Phased'
  BY <1>1, <1>2, <1>3 DEF Phased
<1>9. s.call \notin Unwalked /\ s.call \notin CallsOf(blocked) /\ s.call \notin CallsOf(shadows)
  BY <1>4, <1>5 DEF Apart
<1>10. CASE em' = ThreadCall(em, s) /\ moved' = TRUE /\ blocked' = blocked
  <2>1. Coming' = Coming \ {s.call} /\ s.call \in Coming
    BY <1>1, <1>5, <1>7, <1>9, <1>10 DEF Coming
  <2>2. Queued'
    BY <1>1, <1>4, <1>5, <1>7, <1>10 DEF Queued, Apart
  <2>3. EmitterInv(em, {}, WalkedCalls, WalkedNews, WalkedIds)
    BY DEF WalkInv
  <2>4. Fresh(s, WalkedCalls, WalkedNews, WalkedIds) => Emitted(em', s, WalkedCalls, WalkedNews, WalkedIds)
    BY <1>10, <2>3, ThreadCallHolds
  <2>5. QED
    BY <1>1, <1>6, <1>8, <2>1, <2>2, <2>4, OneLeaves
<1>11. CASE blocked' = Append(blocked, s) /\ em' = em /\ moved' = moved
  <2>1. Queue(blocked', Range(sources)) /\ CallsOf(blocked') = CallsOf(blocked) \cup {s.call}
    BY <1>4, <1>5, <1>9, <1>11, QueueGrows
  <2>2. Coming' = Coming
    BY <1>1, <1>5, <1>7, <2>1 DEF Coming
  <2>3. Queued'
    BY <1>1, <1>4, <1>5, <1>7, <1>9, <2>1 DEF Queued, Apart
  <2>4. QED
    BY <1>1, <1>8, <1>11, <2>2, <2>3, NoneLeaves
<1>12. QED
  BY <1>2, <1>10, <1>11 DEF s

\* The calls no pass could anchor are emitted all the same.
LEMMA LeftoverKeepsWalk ==
    ASSUME WalkInv, LeftoverStep
    PROVE  WalkInv'
<1> DEFINE s == Head(pending)
<1>1. /\ phase = "leftover" /\ phase' = phase /\ pos' = pos /\ pending # <<>> /\ pending' = Tail(pending)
      /\ shadows' = shadows /\ blocked' = blocked /\ moved' = moved /\ UNCHANGED feedVars /\ sources' = sources
      /\ em' = ThreadCall(em, s)
  BY DEF LeftoverStep, feedVars
<1>2. SourcesAreCalls /\ Queued /\ Phased
  BY DEF WalkInv
<1>3. /\ Queue(pending, Range(sources)) /\ Queue(blocked, Range(sources)) /\ Queue(shadows, Range(sources))
      /\ Apart(Unwalked, CallsOf(pending), CallsOf(blocked), CallsOf(shadows))
  BY <1>2 DEF Queued
<1>4. /\ Queue(pending', Range(sources)) /\ s.call \in CallsOf(pending)
      /\ CallsOf(pending') = CallsOf(pending) \ {s.call}
  BY <1>1, <1>3, QueueShrinks
<1>5. PICK k \in DOMAIN sources : s = sources[k]
  BY <1>1, <1>3, HeadIsSource
<1>6. Unwalked' = Unwalked
  BY <1>1 DEF Unwalked
<1> HIDE DEF s
<1>7. Phased'
  BY <1>1, <1>2 DEF Phased
<1>8. s.call \notin Unwalked /\ s.call \notin CallsOf(blocked) /\ s.call \notin CallsOf(shadows)
  BY <1>3, <1>4 DEF Apart
<1>9. Coming' = Coming \ {s.call} /\ s.call \in Coming
  BY <1>1, <1>4, <1>6, <1>8 DEF Coming
<1>10. Queued'
  BY <1>1, <1>3, <1>4, <1>6 DEF Queued, Apart
<1>11. EmitterInv(em, {}, WalkedCalls, WalkedNews, WalkedIds)
  BY DEF WalkInv
<1>12. Fresh(s, WalkedCalls, WalkedNews, WalkedIds) => Emitted(em', s, WalkedCalls, WalkedNews, WalkedIds)
  BY <1>1, <1>11, ThreadCallHolds DEF s
<1>13. QED
  BY <1>1, <1>5, <1>7, <1>9, <1>10, <1>12, OneLeaves

LEMMA ShadowKeepsWalk ==
    ASSUME WalkInv, ShadowStep
    PROVE  WalkInv'
<1> DEFINE s == Head(shadows)
<1>1. /\ phase = "shadows" /\ phase' = phase /\ pos' = pos /\ shadows # <<>> /\ shadows' = Tail(shadows)
      /\ pending' = pending /\ blocked' = blocked /\ moved' = moved /\ UNCHANGED feedVars /\ sources' = sources
      /\ em' = ShadowCall(em, s)
  BY DEF ShadowStep, feedVars
<1>2. SourcesAreCalls /\ Queued /\ Phased
  BY DEF WalkInv
<1>3. /\ Queue(pending, Range(sources)) /\ Queue(blocked, Range(sources)) /\ Queue(shadows, Range(sources))
      /\ Apart(Unwalked, CallsOf(pending), CallsOf(blocked), CallsOf(shadows))
  BY <1>2 DEF Queued
<1>4. /\ Queue(shadows', Range(sources)) /\ s.call \in CallsOf(shadows)
      /\ CallsOf(shadows') = CallsOf(shadows) \ {s.call}
  BY <1>1, <1>3, QueueShrinks
<1>5. PICK k \in DOMAIN sources : s = sources[k]
  BY <1>1, <1>3, HeadIsSource
<1>6. Unwalked' = Unwalked
  BY <1>1 DEF Unwalked
<1> HIDE DEF s
<1>7. Phased'
  BY <1>1, <1>2 DEF Phased
<1>8. s.call \notin Unwalked /\ s.call \notin CallsOf(blocked) /\ s.call \notin CallsOf(pending)
  BY <1>3, <1>4 DEF Apart
<1>9. Coming' = Coming \ {s.call} /\ s.call \in Coming
  BY <1>1, <1>4, <1>6, <1>8 DEF Coming
<1>10. Queued'
  BY <1>1, <1>3, <1>4, <1>6 DEF Queued, Apart
<1>11. EmitterInv(em, {}, WalkedCalls, WalkedNews, WalkedIds)
  BY DEF WalkInv
<1>12. Fresh(s, WalkedCalls, WalkedNews, WalkedIds) => Emitted(em', s, WalkedCalls, WalkedNews, WalkedIds)
  BY <1>1, <1>11, ShadowCallHolds DEF s
<1>13. QED
  BY <1>1, <1>5, <1>7, <1>9, <1>10, <1>12, OneLeaves

\* A phase ends with what it was to do done.
LEMMA EndsKeepWalk ==
    ASSUME WalkInv, EndSpine \/ EndPass \/ EndThreads \/ EndShadows
    PROVE  WalkInv'
<1>1. SourcesAreCalls /\ Queued /\ Phased
  BY DEF WalkInv
<1>2. UNCHANGED <<feedVars, em>> /\ sources' = sources /\ pos' = pos /\ shadows' = shadows
  BY DEF EndSpine, EndPass, EndThreads, EndShadows, feedVars
<1>3. Unwalked' = Unwalked
  BY <1>2 DEF Unwalked
<1>4. Phased'
  <2>1. CASE EndSpine
    BY <1>1, <1>2, <2>1, PhaseNames DEF Phased, EndSpine
  <2>2. CASE EndPass
    BY <1>1, <1>2, <2>2, PhaseNames DEF Phased, EndPass
  <2>3. CASE EndThreads
    BY <1>1, <1>2, <2>3, PhaseNames DEF Phased, EndThreads
  <2>4. CASE EndShadows
    BY <1>1, <1>2, <2>4, PhaseNames DEF Phased, EndShadows
  <2>5. QED
    BY <2>1, <2>2, <2>3, <2>4
<1>5. CASE EndSpine \/ EndThreads \/ EndShadows
  <2>1. pending' = pending /\ blocked' = blocked
    BY <1>5 DEF EndSpine, EndThreads, EndShadows
  <2>2. Queued' /\ Coming' = Coming
    BY <1>1, <1>2, <1>3, <2>1 DEF Queued, Coming
  <2>3. QED
    BY <1>2, <1>4, <2>2, NoneLeaves
<1>6. CASE EndPass
  <2>1. pending = <<>> /\ pending' = blocked /\ blocked' = <<>>
    BY <1>6 DEF EndPass
  <2>2. CallsOf(<<>>) = {} /\ Queue(<<>>, Range(sources))
    BY EmptyQueue
  <2>3. Queued' /\ Coming' = Coming
    BY <1>1, <1>2, <1>3, <2>1, <2>2 DEF Queued, Coming, Apart
  <2>4. QED
    BY <1>2, <1>4, <2>3, NoneLeaves
<1>7. QED
  BY <1>5, <1>6

LEMMA WalkStep ==
    ASSUME WalkInv, [Next]_vars
    PROVE  WalkInv'
<1>1. CASE FeedTurn
  BY <1>1, FeedKeepsWalk
<1>2. CASE BeginWalk
  BY <1>2, BeginKeepsWalk
<1>3. CASE SpineStep
  BY <1>3, SpineKeepsWalk
<1>4. CASE ThreadStep
  BY <1>4, ThreadKeepsWalk
<1>5. CASE LeftoverStep
  BY <1>5, LeftoverKeepsWalk
<1>6. CASE ShadowStep
  BY <1>6, ShadowKeepsWalk
<1>7. CASE EndSpine \/ EndPass \/ EndThreads \/ EndShadows
  BY <1>7, EndsKeepWalk
<1>8. CASE UNCHANGED vars
  <2>1. UNCHANGED <<feedVars, em>> /\ sources' = sources /\ UNCHANGED walkVars
    BY <1>8 DEF vars, feedVars
  <2>2. Queued' /\ Phased' /\ Coming' = Coming
    BY <2>1 DEF WalkInv, Queued, Phased, Coming, Unwalked, walkVars
  <2>3. QED
    BY <2>1, <2>2, NoneLeaves
<1>9. QED
  BY <1>1, <1>2, <1>3, <1>4, <1>5, <1>6, <1>7, <1>8 DEF Next, Walk, Rest

\* The walk keeps the books: a source to come left nothing, one behind left all.
THEOREM WalkHolds == Spec => []WalkInv
<1>1. Init => WalkInv
  BY InitWalkInv
<1>2. WalkInv /\ [Next]_vars => WalkInv'
  BY WalkStep
<1>3. QED
  BY <1>1, <1>2, PTL DEF Spec

-----------------------------------------------------------------------------
(* What the invariant says to a reader of the spans.                        *)

\* The tools with a result are as many as the links that bring one.
LEMMA ResultsAreLinks ==
    ASSUME NEW e, Shape(e), FedOnce(e)
    PROVE  Cardinality(e.filled) = Cardinality({l \in e.links : l.kind = "feeds"})
<1> DEFINE feeds == {l \in e.links : l.kind = "feeds"}
           filled == e.filled
           f == [t \in filled |-> CHOOSE l \in feeds : l.fromSpan = ToolId(t)]
<1>1. /\ \A t \in filled : \E l \in feeds : l.fromSpan = ToolId(t)
      /\ \A l \in feeds : \E t \in filled : l.fromSpan = ToolId(t)
      /\ \A l, m \in feeds : l.fromSpan = m.fromSpan => l = m
  BY DEF FedOnce
<1>2. IsFiniteSet(filled)
  BY FS_Subset DEF Shape
<1> HIDE DEF feeds, filled
<1>3. \A t \in filled : f[t] \in feeds /\ f[t].fromSpan = ToolId(t)
  BY <1>1
<1>4. \A t \in filled, u \in filled : ToolId(t) = ToolId(u) => t = u
  BY NamesApart
<1> HIDE DEF f
<1>5. f \in Injection(filled, feeds)
  <2>1. f \in [filled -> feeds]
    BY <1>3 DEF f
  <2>2. QED
    BY <1>3, <1>4, <2>1 DEF Injection, IsInjective
<1>6. f \in Surjection(filled, feeds)
  <2>1. f \in [filled -> feeds]
    BY <1>3 DEF f
  <2>2. \A l \in feeds : \E t \in filled : f[t] = l
    BY <1>1, <1>3
  <2>3. QED
    BY <2>1, <2>2 DEF Surjection
<1>7. ExistsBijection(filled, feeds)
  BY <1>5, <1>6 DEF ExistsBijection, Bijection
<1>8. Cardinality(feeds) = Cardinality(filled)
  BY <1>2, <1>7, FS_Bijection
<1>9. QED
  BY <1>8 DEF feeds, filled

\* At every step of the walk the spans of a trace are one tree, a link has both
\* its ends, a result of a tool use is counted once, and a compaction seams one
\* trace at most, which has one seam (spanEmitter).
THEOREM EmissionHolds == Spec => [](SpanTrees /\ LinksResolve /\ SeamsOnce)
<1>1. WalkInv => SpanTrees /\ LinksResolve /\ SeamsOnce
  <2> SUFFICES ASSUME WalkInv PROVE SpanTrees /\ LinksResolve /\ SeamsOnce
    OBVIOUS
  <2>1. /\ Shape(em) /\ Trees(em.spans, IdsOf(em)) /\ Placed(em) /\ LinksTied(em, {}) /\ FedOnce(em)
    BY DEF WalkInv, EmitterInv
  <2>2. Traces = IdsOf(em)
    BY DEF Traces, IdsOf
  <2>3. SpanTrees
    <3>1. \A s \in em.spans : s.trace \in Traces
      BY <2>1, <2>2 DEF Trees
    <3>2. \A s \in em.spans : IF s.parent = <<>> THEN s.id = RootId(s.trace)
                              ELSE \E p \in SpansOf(s.trace) : p.id = s.parent
      BY <2>1 DEF Trees, Has, SpansOf
    <3>3. \A s, t \in em.spans : s.id = t.id => s = t
      BY <2>1 DEF Trees
    <3>4. \A t \in DOMAIN em.toolTrace : \E s \in em.spans : s.id = ToolId(t) /\ s.trace = em.toolTrace[t]
      BY <2>1 DEF Placed, Has
    <3>5. \A th \in DOMAIN em.agents : \E s \in em.spans : s.id = ThreadId(th) /\ s.trace = em.agents[th]
      BY <2>1 DEF Placed, Has
    <3>6. QED
      BY <3>1, <3>2, <3>3, <3>4, <3>5 DEF SpanTrees
  <2>4. LinksResolve
    <3>1. FoldSessionStatus.results = Cardinality({l \in em.links : l.kind = "feeds"})
      BY <2>1, ResultsAreLinks DEF FoldSessionStatus
    <3>2. em.spans \cup {} = em.spans
      OBVIOUS
    <3>3. QED
      BY <2>1, <3>1, <3>2 DEF LinksResolve, LinksTied, Tied, Has
  <2>5. SeamsOnce
    BY DEF WalkInv, EmitterInv, Seamed, SeamsOnce
  <2>6. QED
    BY <2>3, <2>4, <2>5
<1>2. QED
  BY <1>1, WalkHolds, PTL

\* The trace names of a session differ (openTrace).
TraceNamesDiffer == \A i, j \in DOMAIN em.traces : i # j => em.traces[i].id # em.traces[j].id

\* No two traces have the same id, a call's or a transcript's turn's.
THEOREM TracesAreNamedOnce == Spec => []TraceNamesDiffer
<1>1. WalkInv => TraceNamesDiffer
  BY DEF WalkInv, EmitterInv, Shape, TraceNamesDiffer
<1>2. QED
  BY <1>1, WalkHolds, PTL

-----------------------------------------------------------------------------
(* The walk ends.                                                           *)

\* Where a phase is in the order the walk takes them.
PhaseRank(p) == CHOOSE i \in DOMAIN Phases : Phases[i] = p

LEMMA PhaseRanks ==
    /\ PhaseRank("done") = 1 /\ PhaseRank("shadows") = 2 /\ PhaseRank("leftover") = 3
    /\ PhaseRank("threads") = 4 /\ PhaseRank("spine") = 5
<1>1. DOMAIN Phases = {1, 2, 3, 4, 5, 6}
  <2>1. DOMAIN Phases = 1..6
    BY DEF Phases
  <2>2. 1..6 = {1, 2, 3, 4, 5, 6}
    OBVIOUS
  <2>3. QED
    BY <2>1, <2>2
<1>2. /\ Phases[1] = "done" /\ Phases[2] = "shadows" /\ Phases[3] = "leftover" /\ Phases[4] = "threads"
      /\ Phases[5] = "spine" /\ Phases[6] = "feed"
  BY DEF Phases
<1> HIDE DEF Phases
<1>3. \A k \in {1, 2, 3, 4, 5} : PhaseRank(Phases[k]) = k
  <2> SUFFICES ASSUME NEW k \in {1, 2, 3, 4, 5} PROVE PhaseRank(Phases[k]) = k
    OBVIOUS
  <2>1. \A i \in DOMAIN Phases : Phases[i] = Phases[k] => i = k
    BY <1>1, <1>2
  <2>2. PhaseRank(Phases[k]) \in DOMAIN Phases /\ Phases[PhaseRank(Phases[k])] = Phases[k]
    BY <1>1 DEF PhaseRank
  <2>3. QED
    BY <2>1, <2>2
<1>4. QED
  BY <1>2, <1>3

\* The parts of the rank.
Weight == 2 * (Len(sources) - pos) + Len(pending) + Len(blocked) + Len(shadows) + (IF moved THEN 1 ELSE 0)

LEMMA RankParts == Rank = <<PhaseRank(phase), Weight, Len(pending)>>
BY DEF Rank, PhaseRank, Weight

LEMMA LowerSays ==
    ASSUME NEW a, NEW b, NEW c, NEW x, NEW y, NEW z,
           a < x \/ (a = x /\ (b < y \/ (b = y /\ c < z)))
    PROVE  Lower(<<a, b, c>>, <<x, y, z>>)
<1> DEFINE r == <<a, b, c>>
           s == <<x, y, z>>
<1>1. r[1] = a /\ r[2] = b /\ r[3] = c /\ s[1] = x /\ s[2] = y /\ s[3] = z
  OBVIOUS
<1>2. 1 \in 1..3 /\ 2 \in 1..3 /\ 3 \in 1..3
  OBVIOUS
<1>3. (\A j \in 1..(1 - 1) : FALSE) /\ (\A j \in 1..(2 - 1) : j = 1) /\ (\A j \in 1..(3 - 1) : j = 1 \/ j = 2)
  OBVIOUS
<1> HIDE DEF r, s
<1>4. Lower(r, s)
  <2>1. CASE a < x
    BY <1>1, <1>2, <1>3, <2>1 DEF Lower
  <2>2. CASE a = x /\ b < y
    BY <1>1, <1>2, <1>3, <2>2 DEF Lower
  <2>3. CASE a = x /\ b = y /\ c < z
    BY <1>1, <1>2, <1>3, <2>3 DEF Lower
  <2>4. QED
    BY <2>1, <2>2, <2>3
<1>5. QED
  BY <1>4 DEF r, s

\* A step that begins in the walk lowers the rank: the phase, or what is left
\* in it, or what is left in the pass.
LEMMA RankFalls ==
    ASSUME WalkInv, Next, phase # "feed", vars' # vars
    PROVE  Lower(Rank', Rank)
<1> DEFINE n == Len(sources)
           p == Len(pending)
           b == Len(blocked)
           h == Len(shadows)
           m == IF moved THEN 1 ELSE 0
<1>1. /\ SourcesAreCalls /\ Phased
      /\ Queue(pending, Range(sources)) /\ Queue(blocked, Range(sources)) /\ Queue(shadows, Range(sources))
  BY DEF WalkInv, Queued
<1>2. n \in Nat /\ p \in Nat /\ b \in Nat /\ h \in Nat /\ m \in {0, 1} /\ pos \in 0..n
  BY <1>1 DEF SourcesAreCalls, Queue, Phased
<1>3. Weight = 2 * (n - pos) + p + b + h + m
  BY DEF Weight
<1>4. Weight' = 2 * (Len(sources') - pos') + Len(pending') + Len(blocked') + Len(shadows')
                  + (IF moved' THEN 1 ELSE 0)
  BY DEF Weight
<1>5. \/ PhaseRank(phase') < PhaseRank(phase)
      \/ PhaseRank(phase') = PhaseRank(phase)
         /\ (Weight' < Weight \/ (Weight' = Weight /\ Len(pending') < Len(pending)))
  <2>1. CASE EndSpine \/ EndThreads \/ EndShadows
    BY <2>1, PhaseRanks DEF EndSpine, EndThreads, EndShadows
  <2>2. CASE SpineStep
    <3> DEFINE s == sources[pos + 1]
               q == Append(pending, s)
               r == Append(shadows, s)
    <3>1. /\ pos < n /\ pos' = pos + 1 /\ sources' = sources /\ phase' = phase /\ blocked' = blocked /\ moved' = moved
          /\ \/ pending' = q /\ shadows' = shadows
             \/ pending' = pending /\ shadows' = r
             \/ pending' = pending /\ shadows' = shadows
      BY <2>2 DEF SpineStep, feedVars
    <3>2. Len(q) = p + 1 /\ Len(r) = h + 1
      BY <1>1, Appended DEF Queue
    <3> HIDE DEF q, r
    <3>3. Len(pending') + Len(shadows') <= p + h + 1 /\ Len(pending') \in Nat /\ Len(shadows') \in Nat
      BY <1>2, <3>1, <3>2
    <3>4. Weight' = 2 * (n - (pos + 1)) + Len(pending') + b + Len(shadows') + m
      BY <1>4, <3>1
    <3> DEFINE p2 == Len(pending')
               h2 == Len(shadows')
    <3> HIDE DEF n, p, b, h, m, p2, h2
    <3>5. Weight' < Weight
      BY <1>2, <1>3, <3>1, <3>3, <3>4 DEF p2, h2
    <3>6. QED
      BY <3>1, <3>5
  <2>3. CASE ThreadStep
    <3> DEFINE s == Head(pending)
               t == Tail(pending)
               q == Append(blocked, s)
    <3>1. /\ phase' = phase /\ pos' = pos /\ sources' = sources /\ shadows' = shadows /\ pending' = t /\ pending # <<>>
          /\ \/ moved' = TRUE /\ blocked' = blocked
             \/ moved' = moved /\ blocked' = q
      BY <2>3 DEF ThreadStep, feedVars
    <3>2. Len(q) = b + 1
      BY <1>1, Appended DEF Queue
    <3>3. Len(t) = p - 1 /\ p # 0
      BY <1>1, <3>1, QueueShrinks
    <3> HIDE DEF q, t
    <3>4. /\ Len(pending') = p - 1 /\ Len(pending') < p
          /\ \/ Len(blocked') = b /\ moved' = TRUE
             \/ Len(blocked') = b + 1 /\ moved' = moved
      BY <1>2, <3>1, <3>2, <3>3
    <3>5. Weight' = 2 * (n - pos) + (p - 1) + Len(blocked') + h + (IF moved' THEN 1 ELSE 0)
      BY <1>4, <3>1, <3>4
    <3>6. Weight' <= Weight
      <4>1. CASE Len(blocked') = b /\ moved' = TRUE
        <5>1. Weight' = 2 * (n - pos) + (p - 1) + b + h + 1
          BY <3>5, <4>1
        <5> HIDE DEF n, p, b, h, m
        <5>2. QED
          BY <1>2, <1>3, <5>1
      <4>2. CASE Len(blocked') = b + 1 /\ moved' = moved
        <5>1. Weight' = 2 * (n - pos) + (p - 1) + (b + 1) + h + m
          BY <3>5, <4>2
        <5> HIDE DEF n, p, b, h, m
        <5>2. QED
          BY <1>2, <1>3, <5>1
      <4>3. QED
        BY <3>4, <4>1, <4>2
    <3>7. Weight \in Int /\ Weight' \in Int
      <4>1. Len(blocked') \in Nat /\ (IF moved' THEN 1 ELSE 0) \in Nat
        BY <1>2, <3>4
      <4> HIDE DEF n, p, b, h, m
      <4>2. QED
        BY <1>2, <1>3, <3>5, <4>1
    <3>8. QED
      BY <3>1, <3>4, <3>6, <3>7
  <2>4. CASE EndPass
    <3>1. /\ phase = "threads" /\ pos' = pos /\ sources' = sources /\ shadows' = shadows /\ p = 0
          /\ pending' = blocked /\ blocked' = <<>> /\ moved' = FALSE
          /\ (moved /\ phase' = "threads") \/ phase' = "leftover"
      BY <2>4 DEF EndPass, feedVars
    <3>2. CASE phase' = "leftover"
      BY <3>1, <3>2, PhaseRanks
    <3>3. CASE moved /\ phase' = "threads"
      <4>1. Weight' = 2 * (n - pos) + b + 0 + h + 0
        BY <1>4, <3>1
      <4>2. m = 1
        BY <3>3
      <4> HIDE DEF n, p, b, h, m
      <4>3. Weight' < Weight
        BY <1>2, <1>3, <3>1, <4>1, <4>2
      <4>4. QED
        BY <3>1, <3>3, <4>3
    <3>4. QED
      BY <3>1, <3>2, <3>3
  <2>5. CASE LeftoverStep
    <3>1. /\ phase' = phase /\ pos' = pos /\ sources' = sources /\ shadows' = shadows /\ blocked' = blocked
          /\ moved' = moved /\ Len(pending') = p - 1
      BY <1>1, <2>5, QueueShrinks DEF LeftoverStep, feedVars
    <3>2. Weight' = 2 * (n - pos) + (p - 1) + b + h + m
      BY <1>4, <3>1
    <3> HIDE DEF n, p, b, h, m
    <3>3. Weight' < Weight
      BY <1>2, <1>3, <3>2
    <3>4. QED
      BY <3>1, <3>3
  <2>6. CASE ShadowStep
    <3>1. /\ phase' = phase /\ pos' = pos /\ sources' = sources /\ pending' = pending /\ blocked' = blocked
          /\ moved' = moved /\ Len(shadows') = h - 1
      BY <1>1, <2>6, QueueShrinks DEF ShadowStep, feedVars
    <3>2. Weight' = 2 * (n - pos) + p + b + (h - 1) + m
      BY <1>4, <3>1
    <3> HIDE DEF n, p, b, h, m
    <3>3. Weight' < Weight
      BY <1>2, <1>3, <3>2
    <3>4. QED
      BY <3>1, <3>3
  <2>7. ~FeedTurn /\ ~BeginWalk /\ ~Rest
    BY DEF FeedTurn, BeginWalk, Rest
  <2>8. QED
    BY <2>1, <2>2, <2>3, <2>4, <2>5, <2>6, <2>7 DEF Next, Walk
<1>6. Rank' = <<PhaseRank(phase'), Weight', Len(pending')>>
  BY DEF Rank, PhaseRank, Weight
<1>7. QED
  BY <1>5, <1>6, RankParts, LowerSays

\* The derive pass ends: every step of the walk lowers a rank that has no
\* infinite descent, the passes over threads nothing can anchor included.
THEOREM PassesEnd == Spec => PassEnds
<1>1. WalkInv /\ [Next]_vars => [phase # "feed" => Lower(Rank', Rank)]_vars
  BY RankFalls
<1>2. QED
  BY <1>1, WalkHolds, PTL DEF Spec, PassEnds

-----------------------------------------------------------------------------
(* What is counted.                                                         *)

\* The tokens of llm spans, as a sum over them.
TokensOf(L) == [s \in L |-> Turn[s.id[2]].tokens]

LEMMA TokensAdd ==
    ASSUME NEW L, IsFiniteSet(L), NEW spans, {x \in spans : x.kind = "llm"} \subseteq L
    PROVE  Tokens(spans) = SumFunctionOnSet(TokensOf(L), {x \in spans : x.kind = "llm"})
<1> DEFINE K == {x \in spans : x.kind = "llm"}
           f == [s \in K |-> Turn[s.id[2]].tokens]
<1>1. Tokens(spans) = SumFunctionOnSet(f, K)
  BY DEF Tokens, SumFunction
<1>2. IsFiniteSet(K)
  BY FS_Subset
<1>3. \A s \in K : f[s] = TokensOf(L)[s]
  BY DEF TokensOf
<1> HIDE DEF f, K
<1>4. SumFunctionOnSet(f, K) = SumFunctionOnSet(TokensOf(L), K)
  BY <1>2, <1>3, SumAgree
<1>5. QED
  BY <1>1, <1>4 DEF K

\* Llm spans of different calls, each of one that was made.
CallSpansOnce(L) ==
    /\ IsFiniteSet(L)
    /\ \A x \in L : x.kind = "llm" /\ x.id[2] \in Call
    /\ \A x, y \in L : x.id[2] = y.id[2] => x = y

\* Their tokens by traces, by models or by what else there is, add up,
LEMMA TokensByParts ==
    ASSUME NEW L, CallSpansOnce(L), NEW part, NEW P, IsFiniteSet(P), \A x \in L : part[x] \in P,
           NEW g, DOMAIN g = P,
           \A p \in P : \E spans : g[p] = Tokens(spans) /\ {x \in spans : x.kind = "llm"} = {x \in L : part[x] = p}
    PROVE  SumFunction(g) = SumFunctionOnSet(TokensOf(L), L)
<1> DEFINE f == TokensOf(L)
<1>1. IsFiniteSet(L)
  BY DEF CallSpansOnce
<1>2. \A x \in L : f[x] \in Int
  BY TokensAssumption DEF CallSpansOnce, TokensOf
<1> HIDE DEF f
<1>3. ASSUME NEW p \in P PROVE g[p] = SumFunctionOnSet(f, PartOf(L, part, p))
  <2>1. PICK spans : g[p] = Tokens(spans) /\ {x \in spans : x.kind = "llm"} = {x \in L : part[x] = p}
    OBVIOUS
  <2>2. {x \in spans : x.kind = "llm"} \subseteq L
    BY <2>1
  <2>3. Tokens(spans) = SumFunctionOnSet(TokensOf(L), {x \in spans : x.kind = "llm"})
    BY <1>1, <2>2, TokensAdd
  <2>4. QED
    BY <2>1, <2>3 DEF f, PartOf
<1>4. SumFunctionOnSet(g, P) = SumFunctionOnSet(f, L)
  BY <1>1, <1>2, <1>3, SumByParts
<1>5. QED
  BY <1>4 DEF SumFunction, f

\* to the tokens of the calls.
LEMMA TokensByCall ==
    ASSUME NEW L, CallSpansOnce(L), NEW C, \A x \in L : x.id[2] \in C, \A c \in C : \E x \in L : x.id[2] = c
    PROVE  SumFunction([c \in C |-> Turn[c].tokens]) = SumFunctionOnSet(TokensOf(L), L)
<1> DEFINE f == TokensOf(L)
           g == [c \in C |-> Turn[c].tokens]
           to == [x \in L |-> x.id[2]]
<1>1. IsFiniteSet(L)
  BY DEF CallSpansOnce
<1>2. \A x \in L : f[x] \in Int
  BY TokensAssumption DEF CallSpansOnce, TokensOf
<1>3. \A x \in L : to[x] \in C /\ g[to[x]] = f[x]
  BY DEF TokensOf
<1>4. \A x \in L, y \in L : to[x] = to[y] => x = y
  BY DEF CallSpansOnce
<1>5. \A c \in C : \E x \in L : to[x] = c
  OBVIOUS
<1>6. DOMAIN g = C
  OBVIOUS
<1> HIDE DEF f, g, to
<1>7. SumFunctionOnSet(g, C) = SumFunctionOnSet(f, L)
  BY <1>1, <1>2, <1>3, <1>4, <1>5, SumRenamed
<1>8. QED
  BY <1>6, <1>7 DEF SumFunction, f, g

\* The kinds of calls are neither an insert's nor none.
LEMMA KindsOfCalls == \A c : KindOf(c) \notin {"", "injected"}
BY DEF KindOf, ClassifyCall, Main, Compaction

\* The llm spans are the walked calls', one each,
LEMMA CallsAreSpans ==
    ASSUME WalkInv
    PROVE  /\ CallSpansOnce(LlmSpans)
           /\ \A x \in LlmSpans : x.id[2] \in WalkedCalls
           /\ \A c \in WalkedCalls : \E x \in LlmSpans : x.id[2] = c
<1>1. /\ \A x \in em.spans : x.kind = "llm" => x.id \in LlmIds(WalkedCalls)
      /\ \A c \in WalkedCalls : \E x \in em.spans : x.kind = "llm" /\ x.id = <<"llm", c>>
      /\ \A x, y \in em.spans : x.id = y.id => x = y
      /\ IsFiniteSet(em.spans)
  BY DEF WalkInv, EmitterInv, Named, Trees, Told
<1>2. WalkedCalls \subseteq Call
  BY DEF WalkInv, SourcesAreCalls, WalkedCalls, Walked
<1>3. LlmSpans \subseteq em.spans /\ \A x \in LlmSpans : x.kind = "llm"
  BY DEF LlmSpans
<1>4. IsFiniteSet(LlmSpans)
  BY <1>1, <1>3, FS_Subset
<1>5. \A x \in LlmSpans : x.id[2] \in WalkedCalls /\ x.id = <<"llm", x.id[2]>>
  BY <1>1, <1>3 DEF LlmIds
<1>6. \A x, y \in LlmSpans : x.id[2] = y.id[2] => x = y
  BY <1>1, <1>3, <1>5
<1>7. \A c \in WalkedCalls : \E x \in LlmSpans : x.id[2] = c
  BY <1>1 DEF LlmSpans
<1>8. QED
  BY <1>2, <1>3, <1>4, <1>5, <1>6, <1>7 DEF CallSpansOnce

\* and every span is in one of finitely many traces.
LEMMA TracesAreFinite ==
    ASSUME WalkInv
    PROVE  IsFiniteSet(Traces) /\ \A x \in em.spans : x.trace \in Traces
<1> DEFINE D == 1..Len(em.traces)
           f == [i \in DOMAIN em.traces |-> em.traces[i].id]
<1>1. em.traces \in Seq(Range(em.traces)) /\ \A x \in em.spans : x.trace \in IdsOf(em)
  BY DEF WalkInv, EmitterInv, Shape, Trees
<1>2. DOMAIN em.traces = D /\ Len(em.traces) \in Nat
  BY <1>1
<1>3. f \in Surjection(DOMAIN em.traces, Traces)
  BY DEF Surjection, Traces
<1>4. IsFiniteSet(D)
  BY <1>2, FS_Interval
<1> HIDE DEF D, f
<1>5. IsFiniteSet(Traces)
  BY <1>2, <1>3, <1>4, FS_Surjection
<1>6. QED
  BY <1>1, <1>5 DEF Traces, IdsOf

\* Each trace has its part of the tokens of the llm spans.
LEMMA TotalsAddUp ==
    ASSUME WalkInv
    PROVE  SumFunction([t \in Traces |-> FinishTurn(t).total]) = SumFunction([c \in WalkedCalls |-> Turn[c].tokens])
<1> DEFINE L == LlmSpans
           P == Traces
           part == [x \in L |-> x.trace]
           g == [t \in P |-> FinishTurn(t).total]
<1>1. CallSpansOnce(L) /\ IsFiniteSet(P)
  BY CallsAreSpans, TracesAreFinite
<1>2. \A x \in L : part[x] \in P
  BY TracesAreFinite DEF LlmSpans
<1>3. ASSUME NEW p \in P
      PROVE  \E spans : g[p] = Tokens(spans) /\ {x \in spans : x.kind = "llm"} = {x \in L : part[x] = p}
  <2>1. g[p] = Tokens(SpansOf(p))
    BY DEF FinishTurn
  <2>2. {x \in SpansOf(p) : x.kind = "llm"} = {x \in L : part[x] = p}
    BY DEF SpansOf, LlmSpans
  <2>3. QED
    BY <2>1, <2>2
<1>4. DOMAIN g = P
  OBVIOUS
<1> HIDE DEF L, P, part, g
<1>5. SumFunction(g) = SumFunctionOnSet(TokensOf(L), L)
  BY <1>1, <1>2, <1>3, <1>4, TokensByParts
<1>6. SumFunction([c \in WalkedCalls |-> Turn[c].tokens]) = SumFunctionOnSet(TokensOf(L), L)
  BY CallsAreSpans, TokensByCall DEF L
<1>7. QED
  BY <1>5, <1>6 DEF g, P

\* So has each model.
LEMMA ModelsAddUp ==
    ASSUME WalkInv
    PROVE  SumFunction(FoldModelUsage) = SumFunction([c \in WalkedCalls |-> Turn[c].tokens])
<1> DEFINE L == LlmSpans
           P == {Turn[s.id[2]].model : s \in L}
           part == [x \in L |-> Turn[x.id[2]].model]
           g == FoldModelUsage
<1>1. CallSpansOnce(L)
  BY CallsAreSpans
<1>2. \A x \in L : part[x] \in P
  OBVIOUS
<1>3. IsFiniteSet(P)
  <2>1. part \in Surjection(L, P)
    BY DEF Surjection
  <2>2. IsFiniteSet(L)
    BY <1>1 DEF CallSpansOnce
  <2> HIDE DEF L, P, part
  <2>3. QED
    BY <2>1, <2>2, FS_Surjection
<1>4. DOMAIN g = P
  BY DEF FoldModelUsage
<1>5. ASSUME NEW p \in P
      PROVE  \E spans : g[p] = Tokens(spans) /\ {x \in spans : x.kind = "llm"} = {x \in L : part[x] = p}
  <2> DEFINE spans == {s \in LlmSpans : Turn[s.id[2]].model = p}
  <2>1. g[p] = Tokens(spans)
    BY DEF FoldModelUsage
  <2>2. {x \in spans : x.kind = "llm"} = {x \in L : part[x] = p}
    BY DEF LlmSpans
  <2> HIDE DEF spans
  <2>3. QED
    BY <2>1, <2>2
<1> HIDE DEF L, P, part, g
<1>6. SumFunction(g) = SumFunctionOnSet(TokensOf(L), L)
  BY <1>1, <1>2, <1>3, <1>4, <1>5, TokensByParts
<1>7. SumFunction([c \in WalkedCalls |-> Turn[c].tokens]) = SumFunctionOnSet(TokensOf(L), L)
  BY CallsAreSpans, TokensByCall DEF L
<1>8. QED
  BY <1>6, <1>7 DEF g

\* The main calls' tokens are in the traces' main parts.
LEMMA MainsAddUp ==
    ASSUME WalkInv
    PROVE  SumFunction([t \in Traces |-> FinishTurn(t).main])
             = SumFunction([c \in {d \in WalkedCalls : KindOf(d) = Main} |-> Turn[c].tokens])
<1> DEFINE L == {x \in LlmSpans : x.call = Main}
           P == Traces
           C == {d \in WalkedCalls : KindOf(d) = Main}
           part == [x \in L |-> x.trace]
           g == [t \in P |-> FinishTurn(t).main]
<1>1. \A x \in LlmSpans : x.call = KindOf(x.id[2])
  BY DEF WalkInv, EmitterInv, Told, Tells, LlmSpans
<1>2. CallSpansOnce(L)
  <2>1. L \subseteq LlmSpans
    OBVIOUS
  <2> HIDE DEF L
  <2>2. IsFiniteSet(L)
    BY <2>1, CallsAreSpans, FS_Subset DEF CallSpansOnce
  <2>3. QED
    BY <2>1, <2>2, CallsAreSpans DEF CallSpansOnce
<1>3. IsFiniteSet(P) /\ \A x \in L : part[x] \in P
  BY TracesAreFinite DEF LlmSpans
<1>4. ASSUME NEW p \in P
      PROVE  \E spans : g[p] = Tokens(spans) /\ {x \in spans : x.kind = "llm"} = {x \in L : part[x] = p}
  <2> DEFINE spans == {s \in SpansOf(p) : s.call = Main}
  <2>1. g[p] = Tokens(spans)
    BY DEF FinishTurn
  <2>2. {x \in spans : x.kind = "llm"} = {x \in L : part[x] = p}
    BY DEF SpansOf, LlmSpans
  <2> HIDE DEF spans
  <2>3. QED
    BY <2>1, <2>2
<1>5. DOMAIN g = P
  OBVIOUS
<1>6. \A x \in L : x.id[2] \in C
  BY <1>1, CallsAreSpans
<1>7. \A c \in C : \E x \in L : x.id[2] = c
  BY <1>1, CallsAreSpans
<1> HIDE DEF L, P, C, part, g
<1>8. SumFunction(g) = SumFunctionOnSet(TokensOf(L), L)
  BY <1>2, <1>3, <1>4, <1>5, TokensByParts
<1>9. SumFunction([c \in C |-> Turn[c].tokens]) = SumFunctionOnSet(TokensOf(L), L)
  BY <1>2, <1>6, <1>7, TokensByCall
<1>10. QED
  BY <1>8, <1>9 DEF g, P, C

\* Each trace counts the tools whose span it has.
LEMMA ToolsAddUp ==
    ASSUME WalkInv
    PROVE  SumFunction([t \in Traces |-> FinishTurn(t).toolCalls]) = Cardinality(DOMAIN em.toolTrace)
<1> DEFINE S == {x \in em.spans : x.kind = "tool"}
           P == Traces
           T == DOMAIN em.toolTrace
           part == [x \in S |-> x.trace]
           to == [x \in S |-> x.id[2]]
           g == [t \in P |-> FinishTurn(t).toolCalls]
<1>1. /\ \A x \in em.spans : x.kind = "tool" <=> x.id[1] = "tool"
      /\ \A x \in em.spans : x.kind # "llm" => x.id \in OtherIds(em, WalkedNews)
      /\ \A x, y \in em.spans : x.id = y.id => x = y
      /\ \A t \in T : Has(em.spans, ToolId(t), em.toolTrace[t])
      /\ IsFiniteSet(em.spans)
  BY DEF WalkInv, EmitterInv, Told, Tells, Named, Trees, Placed
<1>2. IsFiniteSet(S) /\ IsFiniteSet(P)
  <2>1. S \subseteq em.spans
    OBVIOUS
  <2> HIDE DEF S
  <2>2. QED
    BY <1>1, <2>1, FS_Subset, TracesAreFinite
<1>3. \A x \in S : part[x] \in P
  BY TracesAreFinite
<1>4. \A p \in P : g[p] = Cardinality(PartOf(S, part, p))
  <2> SUFFICES ASSUME NEW p \in P PROVE g[p] = Cardinality(PartOf(S, part, p))
    OBVIOUS
  <2>1. g[p] = Cardinality({s \in SpansOf(p) : s.kind = "tool"})
    BY DEF FinishTurn
  <2>2. {s \in SpansOf(p) : s.kind = "tool"} = PartOf(S, part, p)
    BY DEF SpansOf, PartOf
  <2>3. QED
    BY <2>1, <2>2
<1>5. \A x \in S : \E t \in T : x.id = ToolId(t) /\ x.id[2] = t
  <2> SUFFICES ASSUME NEW x \in S PROVE \E t \in T : x.id = ToolId(t) /\ x.id[2] = t
    OBVIOUS
  <2>1. x.id \in OtherIds(em, WalkedNews) /\ x.id[1] = "tool"
    BY <1>1
  <2>2. (\A n : EventId(n)[1] = "event") /\ \A t : ToolId(t)[2] = t
    BY DEF EventId, ToolId
  <2>3. PICK t \in T : x.id = ToolId(t)
    BY <2>1, <2>2, NameHeads DEF OtherIds
  <2>4. QED
    BY <2>2, <2>3
<1>6. \A x \in S : to[x] \in T
  BY <1>5
<1>7. \A x \in S, y \in S : to[x] = to[y] => x = y
  BY <1>1, <1>5
<1>8. \A t \in T : \E x \in S : to[x] = t
  <2> SUFFICES ASSUME NEW t \in T PROVE \E x \in S : to[x] = t
    OBVIOUS
  <2>1. PICK x \in em.spans : x.id = ToolId(t)
    BY <1>1 DEF Has
  <2>2. ToolId(t)[1] = "tool" /\ ToolId(t)[2] = t
    BY DEF ToolId
  <2>3. x \in S /\ to[x] = t
    BY <1>1, <2>1, <2>2
  <2>4. QED
    BY <2>3
<1>9. DOMAIN g = P
  OBVIOUS
<1> HIDE DEF S, P, T, part, to, g
<1>10. SumFunctionOnSet(g, P) = Cardinality(S)
  BY <1>2, <1>3, <1>4, CountByParts
<1>11. Cardinality(T) = Cardinality(S)
  BY <1>2, <1>6, <1>7, <1>8, CountRenamed
<1>12. QED
  BY <1>9, <1>10, <1>11 DEF SumFunction, g, P, T

\* Each kind counts its calls.
LEMMA KindsAddUp ==
    ASSUME WalkInv
    PROVE  SumFunctionOnSet(KindCounts, DOMAIN KindCounts \ {"injected"}) = Cardinality(WalkedCalls)
<1> DEFINE S == LlmSpans
           P == DOMAIN KindCounts \ {"injected"}
           T == WalkedCalls
           part == [x \in S |-> x.call]
           to == [x \in S |-> x.id[2]]
           g == KindCounts
<1>1. /\ \A x \in em.spans : x.call \in IF x.kind = "llm" THEN {KindOf(x.id[2])} ELSE {"", "injected"}
      /\ IsFiniteSet(em.spans)
  BY DEF WalkInv, EmitterInv, Told, Tells
<1>2. DOMAIN g = {s.call : s \in em.spans} \ {""}
  BY DEF KindCounts
<1>3. IsFiniteSet(S)
  BY CallsAreSpans DEF CallSpansOnce
<1>4. P = {x.call : x \in S}
  BY <1>1, <1>2, KindsOfCalls DEF LlmSpans
<1>5. IsFiniteSet(P)
  <2>1. part \in Surjection(S, P)
    BY <1>4 DEF Surjection
  <2> HIDE DEF S, P, part
  <2>2. QED
    BY <1>3, <2>1, FS_Surjection
<1>6. \A x \in S : part[x] \in P
  BY <1>4
<1>7. \A p \in P : g[p] = Cardinality(PartOf(S, part, p))
  <2> SUFFICES ASSUME NEW p \in P PROVE g[p] = Cardinality(PartOf(S, part, p))
    OBVIOUS
  <2>1. p \notin {"", "injected"}
    BY <1>2
  <2>2. g[p] = Cardinality({s \in em.spans : s.call = p})
    BY <1>2 DEF KindCounts
  <2>3. {s \in em.spans : s.call = p} = PartOf(S, part, p)
    BY <1>1, <2>1 DEF LlmSpans, PartOf
  <2>4. QED
    BY <2>2, <2>3
<1>8. \A x \in S : to[x] \in T
  BY CallsAreSpans
<1>9. \A x \in S, y \in S : to[x] = to[y] => x = y
  BY CallsAreSpans DEF CallSpansOnce
<1>10. \A c \in T : \E x \in S : to[x] = c
  BY CallsAreSpans
<1> HIDE DEF S, P, T, part, to, g
<1>11. SumFunctionOnSet(g, P) = Cardinality(S)
  BY <1>3, <1>5, <1>6, <1>7, CountByParts
<1>12. Cardinality(T) = Cardinality(S)
  BY <1>3, <1>8, <1>9, <1>10, CountRenamed
<1>13. QED
  BY <1>11, <1>12 DEF g, P, T

\* A walk that is done has walked every source.
LEMMA DoneWalksAll ==
    ASSUME WalkInv, Done
    PROVE  /\ WalkedCalls = {sources[i].call : i \in DOMAIN sources}
           /\ {c \in WalkedCalls : KindOf(c) = Main}
                = {sources[i].call : i \in {j \in DOMAIN sources : SpanCallKind(sources[j]) = Main}}
<1>1. /\ pos = Len(sources) /\ pending = <<>> /\ blocked = <<>> /\ shadows = <<>> /\ Len(sources) \in Nat
  BY DEF WalkInv, SourcesAreCalls, Phased, Done
<1>2. Coming = {}
  <2>1. Unwalked = {}
    BY <1>1 DEF Unwalked
  <2>2. CallsOf(pending) = {} /\ CallsOf(blocked) = {} /\ CallsOf(shadows) = {}
    BY <1>1, EmptyQueue
  <2>3. QED
    BY <2>1, <2>2 DEF Coming
<1>3. WalkedCalls = {sources[i].call : i \in DOMAIN sources}
  BY <1>2 DEF WalkedCalls, Walked
<1>4. \A i \in DOMAIN sources : SpanCallKind(sources[i]) = KindOf(sources[i].call)
  BY DEF WalkInv, SourcesAreCalls, SpanCallKind, KindOf
<1>5. QED
  BY <1>3, <1>4

\* What a finished pass reports of tokens, tools and calls, by traces, models
\* or kinds, is what the session's calls are and cost (finish).
THEOREM TokensAreConserved == Spec => []TokensConserved
<1>1. WalkInv => TokensConserved
  <2> SUFFICES ASSUME WalkInv, Done PROVE TokensConserved
    BY DEF TokensConserved
  <2> DEFINE calls == {sources[i].call : i \in DOMAIN sources}
             mains == {sources[i].call : i \in {j \in DOMAIN sources : SpanCallKind(sources[j]) = Main}}
  <2>1. WalkedCalls = calls /\ {c \in WalkedCalls : KindOf(c) = Main} = mains
    BY DoneWalksAll
  <2>2. {s.id[2] : s \in LlmSpans} = calls
    BY <2>1, CallsAreSpans
  <2>3. SumFunction([t \in Traces |-> FinishTurn(t).total]) = SumFunction([c \in calls |-> Turn[c].tokens])
    BY <2>1, TotalsAddUp
  <2>4. SumFunction([t \in Traces |-> FinishTurn(t).toolCalls]) = Cardinality(DOMAIN em.toolTrace)
    BY ToolsAddUp
  <2>5. SumFunctionOnSet(KindCounts, DOMAIN KindCounts \ {"injected"}) = Cardinality(calls)
    BY <2>1, KindsAddUp
  <2>6. SumFunction(FoldModelUsage) = SumFunction([c \in calls |-> Turn[c].tokens])
    BY <2>1, ModelsAddUp
  <2>7. SumFunction([t \in Traces |-> FinishTurn(t).main]) = SumFunction([c \in mains |-> Turn[c].tokens])
    BY <2>1, MainsAddUp
  <2>8. QED
    BY <2>2, <2>3, <2>4, <2>5, <2>6, <2>7 DEF TokensConserved
<1>2. QED
  BY <1>1, WalkHolds, PTL

\* What is emitted holds together at every step, and adds up when the walk is
\* done (spanEmitter).
THEOREM SpansHold == Spec => []SpansHoldTogether
<1>1. SpanTrees /\ LinksResolve /\ SeamsOnce /\ TokensConserved => SpansHoldTogether
  BY DEF SpansHoldTogether
<1>2. QED
  BY <1>1, EmissionHolds, TokensAreConserved, PTL

-----------------------------------------------------------------------------
(* Which threads hang off the tool use that spawned them.                   *)

\* The same of any sources and spawn edges, at this step or the next.
AnchorIn(edges, s) ==
    LET roots == {i \in DOMAIN s.chain : Info[s.chain[i]].parent = NoNode /\ s.chain[i] \in DOMAIN edges}
    IN  IF s.anchor # NoTool THEN s.anchor ELSE IF roots = {} THEN NoTool ELSE edges[s.chain[Min(roots)]]
EmittedIn(all, route, threads) ==
    UNION {UsedBy(all[i]) : i \in {j \in DOMAIN all : Route(all[j]) = route /\ all[j].thread \in threads}}
SpawnedIn(all, edges, threads) ==
    {all[i].thread : i \in {j \in DOMAIN all :
        /\ Route(all[j]) = "thread"
        /\ AnchorIn(edges, all[j]) \in EmittedIn(all, "main", {MainThread}) \cup EmittedIn(all, "thread", threads)}}
RootedIn(all, edges) ==
    LET threads == {all[i].thread : i \in DOMAIN all}
    IN  {th \in threads : \A closed \in SUBSET threads : SpawnedIn(all, edges, closed) \subseteq closed => th \in closed}
ReadyIn(edges, e, s) == s.thread \in DOMAIN e.agents \/ AnchorIn(edges, s) \in DOMAIN e.toolTrace

\* A thread has its span under a tool use that a call of it names, and that
\* was emitted.
HungIn(all, edges, e, th) ==
    \E s \in Range(all) : /\ Route(s) = "thread" /\ s.thread = th /\ AnchorIn(edges, s) \in DOMAIN e.toolTrace
                          /\ \E x \in e.spans : x.id = ThreadId(th) /\ x.parent = ToolId(AnchorIn(edges, s))

\* What a conversation's call leaves behind.
Left(e, s) ==
    /\ Route(s) \in {"main", "thread"} => UsedBy(s) \subseteq DOMAIN e.toolTrace
    /\ Route(s) = "thread" => s.thread \in DOMAIN e.agents

\* Every conversation's call is to come or has left its tools and its thread;
\* what a pass left behind without anchoring anything cannot be anchored; and
\* until the leftovers every thread hangs off a tool use, after that those do
\* that go back to the spine.
AnchorInv ==
    /\ \A i \in DOMAIN sources : i > pos \/ sources[i] \in Range(pending) \cup Range(blocked) \/ Left(em, sources[i])
    /\ \A s \in Range(pending) \cup Range(blocked) : Route(s) = "thread"
    /\ DOMAIN em.toolTrace \subseteq Tool
    /\ phase \in {"feed", "spine", "threads"} => \A th \in DOMAIN em.agents : HungIn(sources, stamped, em, th)
    /\ phase = "threads" /\ ~moved => \A s \in Range(blocked) : ~ReadyIn(stamped, em, s)
    /\ phase \in {"leftover", "shadows", "done"} =>
         \A th \in RootedIn(sources, stamped) : HungIn(sources, stamped, em, th)

LEMMA AnchorsAre ==
    /\ \A s : ThreadAnchor(s) = AnchorIn(stamped, s)
    /\ \A e, s : Ready(e, s) <=> ReadyIn(stamped, e, s)
    /\ Rooted = RootedIn(sources, stamped)
<1>1. \A s : ThreadAnchor(s) = AnchorIn(stamped, s)
  BY DEF ThreadAnchor, AnchorIn
<1>2. \A e, s : Ready(e, s) <=> ReadyIn(stamped, e, s)
  BY <1>1 DEF Ready, ReadyIn
<1>3. \A route, threads : EmittedBy(route, threads) = EmittedIn(sources, route, threads)
  BY DEF EmittedBy, EmittedIn
<1>4. \A threads : SpawnedFrom(threads) = SpawnedIn(sources, stamped, threads)
  BY <1>1, <1>3 DEF SpawnedFrom, SpawnedIn
<1>5. Rooted = RootedIn(sources, stamped)
  BY <1>4 DEF Rooted, RootedIn
<1>6. QED
  BY <1>1, <1>2, <1>5

\* Later has all e has, and these tools and threads.
Reaches(e, later, tools, threads) ==
    /\ DOMAIN later = Parts /\ e.spans \subseteq later.spans
    /\ DOMAIN later.toolTrace = DOMAIN e.toolTrace \cup tools
    /\ DOMAIN later.agents = DOMAIN e.agents \cup threads

LEMMA ReachesKeeps ==
    ASSUME NEW e, NEW later, NEW tools, NEW threads, Reaches(e, later, tools, threads)
    PROVE  /\ \A s : Left(e, s) => Left(later, s)
           /\ \A all, edges, th : HungIn(all, edges, e, th) => HungIn(all, edges, later, th)
<1>1. \A s : Left(e, s) => Left(later, s)
  BY DEF Reaches, Left
<1>2. ASSUME NEW all, NEW edges, NEW th, HungIn(all, edges, e, th) PROVE HungIn(all, edges, later, th)
  <2>1. PICK s \in Range(all) : /\ Route(s) = "thread" /\ s.thread = th /\ AnchorIn(edges, s) \in DOMAIN e.toolTrace
                                /\ \E x \in e.spans : x.id = ThreadId(th) /\ x.parent = ToolId(AnchorIn(edges, s))
    BY <1>2 DEF HungIn
  <2>2. AnchorIn(edges, s) \in DOMAIN later.toolTrace
    BY <2>1 DEF Reaches
  <2>3. \E x \in later.spans : x.id = ThreadId(th) /\ x.parent = ToolId(AnchorIn(edges, s))
    BY <2>1 DEF Reaches
  <2>4. QED
    BY <2>1, <2>2, <2>3 DEF HungIn
<1>3. QED
  BY <1>1, <1>2

LEMMA EnsureReaches ==
    ASSUME NEW e, DOMAIN e = Parts, NEW s
    PROVE  /\ Reaches(e, EnsureTrace(e, s), {}, {})
           /\ \A prompt, opener : Reaches(e, OpenTrace(e, s, prompt, opener), {}, {})
<1>1. ASSUME NEW prompt, NEW opener PROVE Reaches(e, OpenTrace(e, s, prompt, opener), {}, {})
  <2> DEFINE o == OpenTrace(e, s, prompt, opener)
  <2>1. DOMAIN o = Parts /\ o.spans = e.spans \cup {RootOf(s)} /\ o.toolTrace = e.toolTrace /\ o.agents = e.agents
    BY OpenTraceParts
  <2> HIDE DEF o
  <2>2. Reaches(e, o, {}, {})
    BY <2>1 DEF Reaches
  <2>3. QED
    BY <2>2 DEF o
<1>2. Reaches(e, e, {}, {})
  BY DEF Reaches
<1>3. QED
  BY <1>1, <1>2 DEF EnsureTrace

LEMMA ConversationReaches ==
    ASSUME NEW e, DOMAIN e = Parts, NEW s, NEW trace, NEW parent
    PROVE  Reaches(e, EmitConversation(e, s, trace, parent), UsedBy(s), {})
<1> DEFINE c == EmitConversation(e, s, trace, parent)
<1>1. DOMAIN c = Parts /\ c.spans = e.spans \cup CallSpans(e, s, trace, parent)
      /\ c.toolTrace = ToolsAfter(e, s, trace) /\ c.agents = e.agents
  BY ConversationParts
<1>2. DOMAIN ToolsAfter(e, s, trace) = DOMAIN e.toolTrace \cup UsedBy(s)
  BY DEF ToolsAfter, NewTools
<1> HIDE DEF c
<1>3. Reaches(e, c, UsedBy(s), {})
  BY <1>1, <1>2 DEF Reaches
<1>4. QED
  BY <1>3 DEF c

LEMMA MainReaches ==
    ASSUME NEW e, DOMAIN e = Parts, NEW s
    PROVE  Reaches(e, MainCall(e, s), UsedBy(s), {})
<1> DEFINE prompt == PromptOf(s)
           o == IF e.traces = <<>> \/ prompt # NoNode THEN OpenTrace(e, s, prompt, "") ELSE e
           trace == CurTrace(o)
           parent == RootId(trace)
           c == EmitConversation(o, s, trace, parent)
<1>1. MainCall(e, s) = c
  BY DEF MainCall
<1> HIDE DEF prompt
<1>2. Reaches(e, o, {}, {})
  <2>1. Reaches(e, e, {}, {})
    BY DEF Reaches
  <2>2. \A opener : Reaches(e, OpenTrace(e, s, prompt, opener), {}, {})
    BY EnsureReaches
  <2>3. QED
    BY <2>1, <2>2
<1> HIDE DEF o, trace, parent
<1>3. Reaches(o, c, UsedBy(s), {})
  BY <1>2, ConversationReaches DEF Reaches
<1> HIDE DEF c
<1>4. Reaches(e, c, UsedBy(s), {})
  BY <1>2, <1>3 DEF Reaches
<1>5. QED
  BY <1>1, <1>4

LEMMA OffshootsReach ==
    ASSUME NEW e, DOMAIN e = Parts, NEW s
    PROVE  Reaches(e, CompactionCall(e, s), {}, {}) /\ Reaches(e, ShadowCall(e, s), {}, {})
<1> DEFINE o == EnsureTrace(e, s)
<1>1. Reaches(e, o, {}, {}) /\ DOMAIN o = Parts
  BY EnsureReaches DEF Reaches
<1>2. Reaches(e, CompactionCall(e, s), {}, {})
  <2> DEFINE spans == o.spans \cup {LlmSpan(s, CurTrace(o), RootId(CurTrace(o)), {})}
             seam == [trace |-> CurTrace(o), span |-> LlmId(s)]
             c == [[o EXCEPT !.spans = spans] EXCEPT !.seam = seam]
  <2>1. CompactionCall(e, s) = c
    BY DEF CompactionCall, AddSpans
  <2>2. o.spans \subseteq spans
    OBVIOUS
  <2> HIDE DEF o, spans, seam
  <2>3. DOMAIN c = Parts /\ c.spans = spans /\ c.toolTrace = o.toolTrace /\ c.agents = o.agents
    BY <1>1 DEF Parts
  <2> HIDE DEF c
  <2>4. QED
    BY <1>1, <2>1, <2>2, <2>3 DEF Reaches
<1>3. Reaches(e, ShadowCall(e, s), {}, {})
  <2>1. ASSUME NEW p, DOMAIN p = Parts, NEW x PROVE Reaches(p, AddSpans(p, {x}), {}, {})
    <3> DEFINE spans == p.spans \cup {x}
               c == [p EXCEPT !.spans = spans]
    <3>1. AddSpans(p, {x}) = c
      BY DEF AddSpans
    <3>2. p.spans \subseteq spans
      OBVIOUS
    <3> HIDE DEF spans
    <3>3. DOMAIN c = Parts /\ c.spans = spans /\ c.toolTrace = p.toolTrace /\ c.agents = p.agents
      BY <2>1 DEF Parts
    <3> HIDE DEF c
    <3>4. QED
      BY <3>1, <3>2, <3>3 DEF Reaches
  <2>2. ASSUME NEW p, DOMAIN p = Parts, NEW l PROVE Reaches(p, AddLinks(p, {l}), {}, {})
    <3> DEFINE links == p.links \cup {l}
               c == [p EXCEPT !.links = links]
    <3>1. AddLinks(p, {l}) = c
      BY DEF AddLinks
    <3> HIDE DEF links
    <3>2. DOMAIN c = Parts /\ c.spans = p.spans /\ c.toolTrace = p.toolTrace /\ c.agents = p.agents
      BY <2>2 DEF Parts
    <3> HIDE DEF c
    <3>3. QED
      BY <3>1, <3>2 DEF Reaches
  <2> DEFINE tool == s.anchor
             x == LlmSpan(s, e.toolTrace[tool], ToolId(tool), FreshInput(s))
             l == Link("verdict", e.toolTrace[tool], LlmId(s), e.toolTrace[tool], ToolId(tool))
             y == LlmSpan(s, TraceAt(o, s), RootId(TraceAt(o, s)), FreshInput(s))
             p == AddSpans(e, {x})
  <2>3. ShadowCall(e, s) = IF tool \in DOMAIN e.toolTrace THEN AddLinks(p, {l}) ELSE AddSpans(o, {y})
    BY DEF ShadowCall
  <2> HIDE DEF tool, x, l, y, o
  <2>4. Reaches(e, p, {}, {}) /\ DOMAIN p = Parts
    BY <2>1 DEF Reaches
  <2>5. Reaches(o, AddSpans(o, {y}), {}, {})
    BY <1>1, <2>1
  <2> HIDE DEF p
  <2>6. Reaches(p, AddLinks(p, {l}), {}, {})
    BY <2>2, <2>4
  <2>7. QED
    BY <1>1, <2>3, <2>4, <2>5, <2>6 DEF Reaches
<1>4. QED
  BY <1>2, <1>3

\* A thread's call brings its thread, under its tool use when that is known.
LEMMA ThreadReaches ==
    ASSUME NEW e, DOMAIN e = Parts, NEW s
    PROVE  /\ Reaches(e, ThreadCall(e, s), UsedBy(s), {s.thread})
           /\ s.thread \notin DOMAIN e.agents /\ AnchorIn(stamped, s) \in DOMAIN e.toolTrace =>
                \E x \in ThreadCall(e, s).spans : x.id = ThreadId(s.thread) /\ x.parent = ToolId(AnchorIn(stamped, s))
<1> DEFINE a == AgentOf(e, s)
           th == s.thread
           anchor == ThreadAnchor(s)
           known == th \notin DOMAIN e.agents /\ anchor \in DOMAIN e.toolTrace
           hangs(spans) == \E x \in spans : x.id = ThreadId(th) /\ x.parent = ToolId(anchor)
<1>1. Reaches(e, a, {}, {th}) /\ (known => hangs(a.spans))
  <2>1. CASE th \in DOMAIN e.agents
    <3>1. a = e
      BY <2>1 DEF AgentOf
    <3>2. QED
      BY <2>1, <3>1 DEF Reaches
  <2>2. CASE known
    <3> DEFINE trace == e.toolTrace[anchor]
               x == Span(trace, ThreadId(th), ToolId(anchor), "agent", "", th, s.at)
               spans == e.spans \cup {x}
               links == e.links \cup {Link("rejoin", trace, ThreadId(th), trace, ToolId(anchor))}
               agents == [y \in DOMAIN e.agents \cup {th} |-> IF y = th THEN trace ELSE e.agents[y]]
    <3>1. a = [e EXCEPT !.spans = spans, !.links = links, !.agents = agents]
      BY <2>2 DEF AgentOf
    <3>2. x.id = ThreadId(th) /\ x.parent = ToolId(anchor)
      BY DEF Span
    <3>3. DOMAIN agents = DOMAIN e.agents \cup {th}
      OBVIOUS
    <3> HIDE DEF links, agents, a, x
    <3>4. DOMAIN a = Parts /\ a.spans = spans /\ a.agents = agents /\ a.toolTrace = e.toolTrace
      BY <3>1 DEF Parts
    <3>5. QED
      BY <3>2, <3>3, <3>4 DEF Reaches
  <2>3. CASE th \notin DOMAIN e.agents /\ anchor \notin DOMAIN e.toolTrace
    <3> DEFINE o == EnsureTrace(e, s)
               trace == CurTrace(o)
               spans == o.spans \cup {Span(trace, ThreadId(th), RootId(trace), "agent", "", th, s.at)}
               agents == [y \in DOMAIN o.agents \cup {th} |-> IF y = th THEN trace ELSE o.agents[y]]
    <3>1. a = [o EXCEPT !.spans = spans, !.agents = agents]
      BY <2>3 DEF AgentOf
    <3>2. Reaches(e, o, {}, {})
      BY EnsureReaches
    <3>3. DOMAIN agents = DOMAIN o.agents \cup {th} /\ o.spans \subseteq spans
      OBVIOUS
    <3> HIDE DEF spans, agents, a, o
    <3>4. DOMAIN a = Parts /\ a.spans = spans /\ a.agents = agents /\ a.toolTrace = o.toolTrace
      BY <3>1, <3>2 DEF Parts, Reaches
    <3>5. QED
      BY <2>3, <3>2, <3>3, <3>4 DEF Reaches
  <2>4. QED
    BY <2>1, <2>2, <2>3
<1> DEFINE trace == a.agents[th]
           c == EmitConversation(a, s, trace, ThreadId(th))
<1>2. ThreadCall(e, s) = c
  BY DEF ThreadCall
<1> HIDE DEF a, trace
<1>3. Reaches(a, c, UsedBy(s), {})
  BY <1>1, ConversationReaches DEF Reaches
<1> HIDE DEF c
<1>4. Reaches(e, c, UsedBy(s), {th})
  BY <1>1, <1>3 DEF Reaches
<1>5. known => hangs(c.spans)
  BY <1>1, <1>3 DEF Reaches
<1>6. anchor = AnchorIn(stamped, s)
  BY AnchorsAre
<1>7. QED
  BY <1>2, <1>4, <1>5, <1>6

\* The tools of a source's response are tools.
LEMMA ToolsAreTools ==
    ASSUME SourcesAreCalls, NEW i \in DOMAIN sources
    PROVE  UsedBy(sources[i]) \subseteq Tool
<1> DEFINE s == sources[i]
           uses == Info[Response(s)].uses
<1>1. s.chain = Turn[s.call].chain /\ s.call \in Call /\ Turn[s.call].parse = "ok"
  BY DEF SourcesAreCalls
<1> HIDE DEF s
<1>2. s.chain \in Seq(Node) /\ s.chain # <<>>
  BY <1>1, ChainAssumption
<1>3. Response(s) \in Node
  BY <1>2 DEF Response
<1>4. uses \in Seq(Tool)
  BY <1>3, InfoAssumption
<1> HIDE DEF uses
<1>5. \A k \in DOMAIN uses : uses[k] \in Tool
  BY <1>4
<1>6. QED
  BY <1>5 DEF UsedBy, uses, s

\* What a queue holds when one is added to it or taken off it.
LEMMA QueueHolds ==
    ASSUME NEW q, q \in Seq(Range(q))
    PROVE  /\ \A s : Range(Append(q, s)) = Range(q) \cup {s}
           /\ q # <<>> => Head(q) \in Range(q) /\ Range(q) = Range(Tail(q)) \cup {Head(q)}
           /\ q = <<>> => Range(q) = {}
<1>1. \A s : Range(Append(q, s)) = Range(q) \cup {s}
  BY Appended
<1>2. ASSUME q # <<>> PROVE Head(q) \in Range(q) /\ Range(q) = Range(Tail(q)) \cup {Head(q)}
  <2> DEFINE n == Len(q)
             t == Tail(q)
  <2>1. /\ n \in Nat \ {0} /\ DOMAIN q = 1..n /\ Head(q) = q[1] /\ DOMAIN t = 1..(n - 1)
        /\ \A i \in 1..(n - 1) : t[i] = q[i + 1]
    BY <1>2, Tailed
  <2> HIDE DEF n, t
  <2>2. 1 \in DOMAIN q
    BY <2>1
  <2>3. \A i \in 1..n : i = 1 \/ (i - 1 \in 1..(n - 1) /\ q[i] = t[i - 1])
    <3> SUFFICES ASSUME NEW i \in 1..n, i # 1 PROVE i - 1 \in 1..(n - 1) /\ q[i] = t[i - 1]
      OBVIOUS
    <3>1. i - 1 \in 1..(n - 1) /\ (i - 1) + 1 = i
      BY <2>1
    <3>2. QED
      BY <2>1, <3>1
  <2>4. \A i \in 1..(n - 1) : i + 1 \in 1..n /\ t[i] = q[i + 1]
    BY <2>1
  <2>5. Head(q) \in Range(q)
    BY <2>1, <2>2 DEF Range
  <2>6. \A x \in Range(q) : x = Head(q) \/ x \in Range(t)
    <3>1. \A i \in 1..(n - 1) : t[i] \in Range(t)
      BY <2>1 DEF Range
    <3>2. \A i \in 1..n : q[i] = Head(q) \/ q[i] \in Range(t)
      BY <2>1, <2>3, <3>1
    <3>3. \A x \in Range(q) : \E i \in 1..n : x = q[i]
      BY <2>1 DEF Range
    <3>4. QED
      BY <3>2, <3>3
  <2>7. \A x \in Range(t) : x \in Range(q)
    BY <2>1, <2>4 DEF Range
  <2>8. QED
    BY <2>5, <2>6, <2>7 DEF t
<1>3. q = <<>> => Range(q) = {}
  BY DEF Range
<1>4. QED
  BY <1>1, <1>2, <1>3

\* With nothing emitted every source is to come.
LEMMA FeedKeepsAnchors ==
    ASSUME WalkInv, AnchorInv, FeedTurn \/ BeginWalk, WalkInv'
    PROVE  AnchorInv'
<1>1. /\ phase = "feed" /\ phase' \in {"feed", "spine"} /\ pos' = pos /\ pending' = pending
      /\ blocked' = blocked /\ em' = em
  BY DEF FeedTurn, BeginWalk, walkVars
<1>2. em = NoEmission /\ pos = 0 /\ pending = <<>> /\ blocked = <<>>
  BY <1>1 DEF WalkInv, Phased
<1>3. DOMAIN em'.toolTrace = {} /\ DOMAIN em'.agents = {}
  BY <1>1, <1>2 DEF NoEmission
<1>4. Range(pending') = {} /\ Range(blocked') = {}
  BY <1>1, <1>2 DEF Range
<1>5. \A i \in DOMAIN sources' : i > pos'
  <2>1. sources' \in Seq(Range(sources'))
    BY DEF WalkInv, SourcesAreCalls
  <2>2. DOMAIN sources' = 1..Len(sources') /\ Len(sources') \in Nat
    BY <2>1
  <2>3. QED
    BY <1>1, <1>2, <2>2
<1>6. QED
  BY <1>1, <1>3, <1>4, <1>5 DEF AnchorInv

\* A spine step leaves what its call emitted, or queues it.
LEMMA SpineKeepsAnchors ==
    ASSUME WalkInv, AnchorInv, SpineStep
    PROVE  AnchorInv'
<1> DEFINE s == sources[pos + 1]
           used == IF Route(s) = "main" THEN UsedBy(s) ELSE {}
           queued == IF Route(s) = "thread" THEN {s} ELSE {}
<1>1. /\ phase = "spine" /\ pos < Len(sources) /\ pos' = pos + 1 /\ phase' = phase /\ blocked' = blocked
      /\ moved' = moved /\ sources' = sources /\ stamped' = stamped
      /\ pending' = IF Route(s) = "thread" THEN Append(pending, s) ELSE pending
  BY DEF SpineStep, feedVars
<1>2. /\ pos \in 0..Len(sources) /\ sources \in Seq(Range(sources)) /\ pending \in Seq(Range(pending))
      /\ blocked \in Seq(Range(blocked)) /\ DOMAIN em = Parts
  BY DEF WalkInv, Phased, SourcesAreCalls, Queued, Queue, EmitterInv, Shape
<1>3. pos + 1 \in DOMAIN sources /\ \A i \in DOMAIN sources : i > pos => i = pos + 1 \/ i > pos + 1
  <2>1. DOMAIN sources = 1..Len(sources) /\ Len(sources) \in Nat
    BY <1>2
  <2>2. QED
    BY <1>1, <1>2, <2>1
<1>4. Reaches(em, em', used, {})
  <2>1. Reaches(em, em, {}, {})
    BY <1>2 DEF Reaches
  <2>2. Reaches(em, MainCall(em, s), UsedBy(s), {}) /\ Reaches(em, CompactionCall(em, s), {}, {})
    BY <1>2, MainReaches, OffshootsReach
  <2>3. em' = CASE Route(s) = "main" -> MainCall(em, s)
                [] Route(s) = "compaction" -> CompactionCall(em, s)
                [] OTHER -> em
    BY DEF SpineStep
  <2> HIDE DEF s
  <2>4. QED
    BY <2>1, <2>2, <2>3
<1>5. used \subseteq Tool
  BY <1>3, ToolsAreTools DEF WalkInv
<1> HIDE DEF s
<1>6. Range(pending') = Range(pending) \cup queued
  BY <1>1, <1>2, QueueHolds
<1>7. s \in queued \/ Left(em', s)
  BY <1>4 DEF Reaches, Left
<1> HIDE DEF used, queued
<1>8. \A i \in DOMAIN sources :
        i > pos' \/ sources[i] \in Range(pending') \cup Range(blocked') \/ Left(em', sources[i])
  <2> SUFFICES ASSUME NEW i \in DOMAIN sources
               PROVE  i > pos + 1 \/ sources[i] \in Range(pending) \cup queued \cup Range(blocked) \/ Left(em', sources[i])
    BY <1>1, <1>6
  <2>1. CASE i = pos + 1
    BY <1>7, <2>1 DEF s
  <2>2. CASE sources[i] \in Range(pending) \cup Range(blocked)
    BY <2>2
  <2>3. CASE Left(em, sources[i])
    BY <1>4, <2>3, ReachesKeeps
  <2>4. QED
    BY <1>3, <2>1, <2>2, <2>3 DEF AnchorInv
<1>9. \A q \in Range(pending') \cup Range(blocked') : Route(q) = "thread"
  BY <1>1, <1>6 DEF AnchorInv, queued
<1>10. DOMAIN em'.toolTrace \subseteq Tool /\ DOMAIN em'.agents = DOMAIN em.agents
  BY <1>4, <1>5 DEF Reaches, AnchorInv
<1>11. \A th \in DOMAIN em'.agents : HungIn(sources', stamped', em', th)
  <2>1. \A th \in DOMAIN em.agents : HungIn(sources, stamped, em, th)
    BY <1>1 DEF AnchorInv
  <2>2. \A th \in DOMAIN em.agents : HungIn(sources, stamped, em', th)
    BY <1>4, <2>1, ReachesKeeps
  <2>3. QED
    BY <1>1, <1>10, <2>2
<1>12. QED
  BY <1>1, <1>8, <1>9, <1>10, <1>11 DEF AnchorInv

\* A thread's call that is emitted leaves its tools and its thread.
LEMMA ThreadLeaves ==
    ASSUME WalkInv, AnchorInv, pending # <<>>, em' = ThreadCall(em, Head(pending)), pending' = Tail(pending),
           blocked' = blocked, pos' = pos, UNCHANGED feedVars
    PROVE  /\ Reaches(em, em', UsedBy(Head(pending)), {Head(pending).thread})
           /\ \A i \in DOMAIN sources' :
                i > pos' \/ sources'[i] \in Range(pending') \cup Range(blocked') \/ Left(em', sources'[i])
           /\ \A s \in Range(pending') \cup Range(blocked') : Route(s) = "thread"
           /\ DOMAIN em'.toolTrace \subseteq Tool
<1> DEFINE s == Head(pending)
<1>1. /\ Queue(pending, Range(sources)) /\ DOMAIN em = Parts
      /\ pending \in Seq(Range(pending))
  BY DEF WalkInv, Queued, Queue, EmitterInv, Shape
<1>2. s \in Range(pending) /\ Range(pending) = Range(pending') \cup {s}
  BY <1>1, QueueHolds
<1>3. PICK k \in DOMAIN sources : s = sources[k]
  BY <1>1, HeadIsSource
<1>4. Reaches(em, em', UsedBy(s), {s.thread})
  BY <1>1, ThreadReaches
<1> HIDE DEF s
<1>5. UsedBy(s) \subseteq Tool
  BY <1>3, ToolsAreTools DEF WalkInv
<1>6. DOMAIN em'.toolTrace \subseteq Tool
  BY <1>4, <1>5 DEF Reaches, AnchorInv
<1>7. Left(em', s)
  BY <1>4 DEF Reaches, Left
<1>8. sources' = sources
  BY DEF feedVars
<1>9. \A i \in DOMAIN sources :
        i > pos \/ sources[i] \in Range(pending') \cup Range(blocked) \/ Left(em', sources[i])
  <2> SUFFICES ASSUME NEW i \in DOMAIN sources
               PROVE  i > pos \/ sources[i] \in Range(pending') \cup Range(blocked) \/ Left(em', sources[i])
    OBVIOUS
  <2>1. CASE sources[i] = s
    BY <1>7, <2>1
  <2>2. CASE Left(em, sources[i])
    BY <1>4, <2>2, ReachesKeeps
  <2>3. QED
    BY <1>2, <2>1, <2>2 DEF AnchorInv
<1>10. QED
  BY <1>2, <1>4, <1>6, <1>8, <1>9 DEF s, AnchorInv

LEMMA ThreadKeepsAnchors ==
    ASSUME WalkInv, AnchorInv, ThreadStep
    PROVE  AnchorInv'
<1> DEFINE s == Head(pending)
<1>1. /\ phase = "threads" /\ phase' = phase /\ pos' = pos /\ pending # <<>> /\ pending' = Tail(pending)
      /\ UNCHANGED feedVars /\ sources' = sources /\ stamped' = stamped
  BY DEF ThreadStep, feedVars
<1>2. \/ Ready(em, s) /\ em' = ThreadCall(em, s) /\ moved' = TRUE /\ blocked' = blocked
      \/ ~Ready(em, s) /\ blocked' = Append(blocked, s) /\ em' = em /\ moved' = moved
  BY DEF ThreadStep
<1>3. /\ Queue(pending, Range(sources)) /\ pending \in Seq(Range(pending)) /\ blocked \in Seq(Range(blocked))
      /\ DOMAIN em = Parts
  BY DEF WalkInv, Queued, Queue, EmitterInv, Shape
<1>4. s \in Range(pending) /\ Range(pending) = Range(pending') \cup {s}
  BY <1>1, <1>3, QueueHolds
<1>5. s \in Range(sources)
  BY <1>3, <1>4 DEF Queue
<1>6. Route(s) = "thread"
  BY <1>4 DEF AnchorInv
<1>7. CASE Ready(em, s) /\ em' = ThreadCall(em, s) /\ moved' = TRUE /\ blocked' = blocked
  <2>1. /\ Reaches(em, em', UsedBy(s), {s.thread})
        /\ \A i \in DOMAIN sources' :
             i > pos' \/ sources'[i] \in Range(pending') \cup Range(blocked') \/ Left(em', sources'[i])
        /\ \A q \in Range(pending') \cup Range(blocked') : Route(q) = "thread"
        /\ DOMAIN em'.toolTrace \subseteq Tool
    BY <1>1, <1>7, ThreadLeaves
  <2>2. \A th \in DOMAIN em'.agents : HungIn(sources, stamped, em', th)
    <3> SUFFICES ASSUME NEW th \in DOMAIN em'.agents PROVE HungIn(sources, stamped, em', th)
      OBVIOUS
    <3>1. CASE th \in DOMAIN em.agents
      <4>1. HungIn(sources, stamped, em, th)
        BY <1>1, <3>1 DEF AnchorInv
      <4>2. QED
        BY <2>1, <4>1, ReachesKeeps
    <3>2. CASE th \notin DOMAIN em.agents
      <4>1. th = s.thread
        BY <2>1, <3>2 DEF Reaches
      <4>2. AnchorIn(stamped, s) \in DOMAIN em.toolTrace
        BY <1>7, <3>2, <4>1, AnchorsAre DEF ReadyIn
      <4>3. \E x \in em'.spans : x.id = ThreadId(th) /\ x.parent = ToolId(AnchorIn(stamped, s))
        BY <1>3, <1>7, <3>2, <4>1, <4>2, ThreadReaches
      <4>4. AnchorIn(stamped, s) \in DOMAIN em'.toolTrace
        BY <2>1, <4>2 DEF Reaches
      <4> HIDE DEF s
      <4>5. QED
        BY <1>5, <1>6, <4>1, <4>3, <4>4 DEF HungIn
    <3>3. QED
      BY <3>1, <3>2
  <2>3. QED
    BY <1>1, <1>7, <2>1, <2>2 DEF AnchorInv
<1>8. CASE ~Ready(em, s) /\ blocked' = Append(blocked, s) /\ em' = em /\ moved' = moved
  <2>1. Range(blocked') = Range(blocked) \cup {s}
    BY <1>3, <1>8, QueueHolds
  <2>2. ~ReadyIn(stamped, em, s)
    BY <1>8, AnchorsAre
  <2> HIDE DEF s
  <2>3. \A i \in DOMAIN sources' :
          i > pos' \/ sources'[i] \in Range(pending') \cup Range(blocked') \/ Left(em', sources'[i])
    BY <1>1, <1>4, <1>8, <2>1 DEF AnchorInv
  <2>4. \A q \in Range(pending') \cup Range(blocked') : Route(q) = "thread"
    BY <1>4, <2>1 DEF AnchorInv
  <2>5. ~moved' => \A q \in Range(blocked') : ~ReadyIn(stamped', em', q)
    BY <1>1, <1>8, <2>1, <2>2 DEF AnchorInv
  <2>6. QED
    BY <1>1, <1>8, <2>3, <2>4, <2>5 DEF AnchorInv
<1>9. QED
  BY <1>2, <1>7, <1>8

LEMMA LaterKeepsAnchors ==
    ASSUME WalkInv, AnchorInv, LeftoverStep \/ ShadowStep
    PROVE  AnchorInv'
<1>1. /\ phase \in {"leftover", "shadows"} /\ phase' = phase /\ pos' = pos /\ blocked' = blocked /\ moved' = moved
      /\ UNCHANGED feedVars /\ sources' = sources /\ stamped' = stamped
  BY DEF LeftoverStep, ShadowStep, feedVars
<1>2. \E tools, threads : Reaches(em, em', tools, threads)
  <2>1. DOMAIN em = Parts
    BY DEF WalkInv, EmitterInv, Shape
  <2>2. ASSUME LeftoverStep PROVE Reaches(em, em', UsedBy(Head(pending)), {Head(pending).thread})
    <3>1. em' = ThreadCall(em, Head(pending))
      BY <2>2 DEF LeftoverStep
    <3>2. QED
      BY <2>1, <3>1, ThreadReaches
  <2>3. ASSUME ShadowStep PROVE Reaches(em, em', {}, {})
    <3>1. em' = ShadowCall(em, Head(shadows))
      BY <2>3 DEF ShadowStep
    <3>2. QED
      BY <2>1, <3>1, OffshootsReach
  <2>4. QED
    BY <2>2, <2>3
<1>3. \A th \in RootedIn(sources', stamped') : HungIn(sources', stamped', em', th)
  <2>1. \A th \in RootedIn(sources, stamped) : HungIn(sources, stamped, em, th)
    BY <1>1 DEF AnchorInv
  <2>2. \A th \in RootedIn(sources, stamped) : HungIn(sources, stamped, em', th)
    BY <1>2, <2>1, ReachesKeeps
  <2>3. QED
    BY <1>1, <2>2
<1>4. CASE LeftoverStep
  <2>1. pending # <<>> /\ em' = ThreadCall(em, Head(pending)) /\ pending' = Tail(pending)
    BY <1>4 DEF LeftoverStep
  <2>2. /\ \A i \in DOMAIN sources' :
             i > pos' \/ sources'[i] \in Range(pending') \cup Range(blocked') \/ Left(em', sources'[i])
        /\ \A s \in Range(pending') \cup Range(blocked') : Route(s) = "thread"
        /\ DOMAIN em'.toolTrace \subseteq Tool
    BY <1>1, <2>1, ThreadLeaves
  <2>3. QED
    BY <1>1, <1>3, <2>2 DEF AnchorInv
<1>5. CASE ShadowStep
  <2>1. pending' = pending /\ em' = ShadowCall(em, Head(shadows))
    BY <1>5 DEF ShadowStep
  <2>2. Reaches(em, em', {}, {})
    BY <2>1, OffshootsReach DEF WalkInv, EmitterInv, Shape
  <2>3. DOMAIN em'.toolTrace \subseteq Tool
    BY <2>2 DEF Reaches, AnchorInv
  <2>4. \A i \in DOMAIN sources :
          i > pos \/ sources[i] \in Range(pending) \cup Range(blocked) \/ Left(em', sources[i])
    BY <2>2, ReachesKeeps DEF AnchorInv
  <2>5. \A s \in Range(pending) \cup Range(blocked) : Route(s) = "thread"
    BY DEF AnchorInv
  <2>6. QED
    BY <1>1, <1>3, <2>1, <2>3, <2>4, <2>5 DEF AnchorInv
<1>6. QED
  BY <1>4, <1>5

\* When a pass ends that is the last, the threads the emitter has are closed
\* under spawning: a thread spawned by one of them would have been ready.
LEMMA LastPassAnchors ==
    ASSUME WalkInv, AnchorInv, phase = "threads", pending = <<>>, ~moved \/ blocked = <<>>
    PROVE  \A th \in RootedIn(sources, stamped) : HungIn(sources, stamped, em, th)
<1> DEFINE threads == {sources[i].thread : i \in DOMAIN sources}
           T == threads \cap DOMAIN em.agents
<1>1. /\ sources \in Seq(Range(sources)) /\ pos = Len(sources)
  BY DEF WalkInv, Phased, SourcesAreCalls
<1>2. \A i \in DOMAIN sources : ~(i > pos)
  BY <1>1
<1>3. Range(pending) = {} /\ \A s \in Range(blocked) : Route(s) = "thread" /\ ~ReadyIn(stamped, em, s)
  BY DEF AnchorInv, Range
<1>4. \A i \in DOMAIN sources : sources[i] \in Range(blocked) \/ Left(em, sources[i])
  BY <1>2, <1>3 DEF AnchorInv
<1>5. EmittedIn(sources, "main", {MainThread}) \cup EmittedIn(sources, "thread", T) \subseteq DOMAIN em.toolTrace
  <2>1. ASSUME NEW i \in DOMAIN sources, Route(sources[i]) = "main" PROVE UsedBy(sources[i]) \subseteq DOMAIN em.toolTrace
    BY <1>3, <1>4, <2>1 DEF Left
  <2>2. ASSUME NEW i \in DOMAIN sources, Route(sources[i]) = "thread", sources[i].thread \in T
        PROVE  UsedBy(sources[i]) \subseteq DOMAIN em.toolTrace
    <3>1. ReadyIn(stamped, em, sources[i])
      BY <2>2 DEF ReadyIn
    <3>2. QED
      BY <1>3, <1>4, <2>2, <3>1 DEF Left
  <2>3. EmittedIn(sources, "main", {MainThread}) \subseteq DOMAIN em.toolTrace
    BY <2>1 DEF EmittedIn
  <2> HIDE DEF T
  <2>4. EmittedIn(sources, "thread", T) \subseteq DOMAIN em.toolTrace
    BY <2>2 DEF EmittedIn
  <2>5. QED
    BY <2>3, <2>4
<1>6. SpawnedIn(sources, stamped, T) \subseteq T
  <2>1. ASSUME NEW i \in DOMAIN sources, Route(sources[i]) = "thread",
               AnchorIn(stamped, sources[i]) \in
                 EmittedIn(sources, "main", {MainThread}) \cup EmittedIn(sources, "thread", T)
        PROVE  sources[i].thread \in T
    <3>1. AnchorIn(stamped, sources[i]) \in DOMAIN em.toolTrace
      BY <1>5, <2>1
    <3>2. ReadyIn(stamped, em, sources[i])
      BY <3>1 DEF ReadyIn
    <3>3. Left(em, sources[i])
      BY <1>3, <1>4, <3>2
    <3>4. QED
      BY <2>1, <3>3 DEF Left
  <2> HIDE DEF T
  <2>2. QED
    BY <2>1 DEF SpawnedIn
<1>7. RootedIn(sources, stamped) \subseteq T
  <2>1. T \in SUBSET threads
    OBVIOUS
  <2> HIDE DEF T
  <2>2. QED
    BY <1>6, <2>1 DEF RootedIn
<1>8. \A th \in DOMAIN em.agents : HungIn(sources, stamped, em, th)
  BY DEF AnchorInv
<1>9. QED
  BY <1>7, <1>8

LEMMA EndsKeepAnchors ==
    ASSUME WalkInv, AnchorInv, EndSpine \/ EndPass \/ EndThreads \/ EndShadows
    PROVE  AnchorInv'
<1>1. em' = em /\ pos' = pos /\ sources' = sources /\ stamped' = stamped
  BY DEF EndSpine, EndPass, EndThreads, EndShadows, feedVars
<1>2. DOMAIN em'.toolTrace \subseteq Tool
  BY <1>1 DEF AnchorInv
<1>3. Range(<<>>) = {}
  BY DEF Range
<1>4. Range(pending') \cup Range(blocked') = Range(pending) \cup Range(blocked)
  <2>1. CASE EndPass
    <3>1. pending = <<>> /\ pending' = blocked /\ blocked' = <<>>
      BY <2>1 DEF EndPass
    <3>2. QED
      BY <1>3, <3>1
  <2>2. CASE EndSpine \/ EndThreads \/ EndShadows
    BY <2>2 DEF EndSpine, EndThreads, EndShadows
  <2>3. QED
    BY <2>1, <2>2
<1>5. /\ \A i \in DOMAIN sources' :
           i > pos' \/ sources'[i] \in Range(pending') \cup Range(blocked') \/ Left(em', sources'[i])
      /\ \A s \in Range(pending') \cup Range(blocked') : Route(s) = "thread"
  BY <1>1, <1>4 DEF AnchorInv
<1>6. CASE EndSpine
  <2>1. phase = "spine" /\ phase' = "threads" /\ blocked = <<>> /\ blocked' = <<>>
    BY <1>6 DEF EndSpine, WalkInv, Phased
  <2>2. QED
    BY <1>1, <1>2, <1>3, <1>5, <2>1 DEF AnchorInv
<1>7. CASE EndPass
  <2>1. /\ phase = "threads" /\ pending = <<>> /\ blocked' = <<>>
        /\ phase' = IF moved /\ blocked # <<>> THEN "threads" ELSE "leftover"
    BY <1>7 DEF EndPass
  <2>2. CASE moved /\ blocked # <<>>
    BY <1>1, <1>2, <1>3, <1>5, <2>1, <2>2 DEF AnchorInv
  <2>3. CASE ~(moved /\ blocked # <<>>)
    <3>1. \A th \in RootedIn(sources, stamped) : HungIn(sources, stamped, em, th)
      BY <2>1, <2>3, LastPassAnchors
    <3>2. QED
      BY <1>1, <1>2, <1>5, <2>1, <2>3, <3>1 DEF AnchorInv
  <2>4. QED
    BY <2>2, <2>3
<1>8. CASE EndThreads \/ EndShadows
  <2>1. phase \in {"leftover", "shadows"} /\ phase' \in {"shadows", "done"}
    BY <1>8 DEF EndThreads, EndShadows
  <2>2. QED
    BY <1>1, <1>2, <1>5, <2>1 DEF AnchorInv
<1>9. QED
  BY <1>6, <1>7, <1>8

LEMMA AnchorStep ==
    ASSUME WalkInv, WalkInv', AnchorInv, [Next]_vars
    PROVE  AnchorInv'
<1>1. CASE FeedTurn \/ BeginWalk
  BY <1>1, FeedKeepsAnchors
<1>2. CASE SpineStep
  BY <1>2, SpineKeepsAnchors
<1>3. CASE ThreadStep
  BY <1>3, ThreadKeepsAnchors
<1>4. CASE LeftoverStep \/ ShadowStep
  BY <1>4, LaterKeepsAnchors
<1>5. CASE EndSpine \/ EndPass \/ EndThreads \/ EndShadows
  BY <1>5, EndsKeepAnchors
<1>6. CASE UNCHANGED vars
  BY <1>6 DEF AnchorInv, vars, feedVars, walkVars
<1>7. QED
  BY <1>1, <1>2, <1>3, <1>4, <1>5, <1>6 DEF Next, Walk, Rest

THEOREM AnchorsHold == Spec => []AnchorInv
<1>1. Init => AnchorInv
  <2> SUFFICES ASSUME Init PROVE AnchorInv
    OBVIOUS
  <2>1. phase = "feed" /\ sources = <<>> /\ pending = <<>> /\ blocked = <<>> /\ em = NoEmission
    BY DEF Init, FeedInit
  <2>2. DOMAIN em.toolTrace = {} /\ DOMAIN em.agents = {}
    BY <2>1 DEF NoEmission
  <2>3. Range(pending) = {} /\ Range(blocked) = {} /\ DOMAIN sources = {}
    BY <2>1 DEF Range
  <2>4. QED
    BY <2>1, <2>2, <2>3 DEF AnchorInv
<1>2. WalkInv /\ WalkInv' /\ AnchorInv /\ [Next]_vars => AnchorInv'
  BY AnchorStep
<1>3. QED
  BY <1>1, <1>2, WalkHolds, PTL DEF Spec

\* The calls of one thread that name the tool use that spawned it name one.
ThreadAnchorsAgree ==
    \A i, j \in DOMAIN sources :
        /\ Route(sources[i]) = "thread" /\ Route(sources[j]) = "thread" /\ sources[i].thread = sources[j].thread
        /\ ThreadAnchor(sources[i]) # NoTool /\ ThreadAnchor(sources[j]) # NoTool
        => ThreadAnchor(sources[i]) = ThreadAnchor(sources[j])

\* A thread that goes back to the spine hangs off a tool use that a call of it
\* names.
RootedThreadsHang ==
    Done => \A th \in Rooted :
              \E i \in DOMAIN sources : /\ Route(sources[i]) = "thread" /\ sources[i].thread = th
                                        /\ ThreadAnchor(sources[i]) # NoTool /\ HangsOff(sources[i])

\* However late the call that emitted the tool use was captured and however
\* deep the nesting, a thread spawned from the spine, or from one that was, is
\* hung off the tool use that spawned it (threadCalls).
THEOREM RootedHang == Spec => []RootedThreadsHang
<1>1. AnchorInv => RootedThreadsHang
  <2> SUFFICES ASSUME AnchorInv, Done, NEW th \in Rooted
               PROVE  \E i \in DOMAIN sources : /\ Route(sources[i]) = "thread" /\ sources[i].thread = th
                                                /\ ThreadAnchor(sources[i]) # NoTool /\ HangsOff(sources[i])
    BY DEF RootedThreadsHang
  <2>1. HungIn(sources, stamped, em, th)
    BY AnchorsAre DEF AnchorInv, Done
  <2>2. PICK i \in DOMAIN sources :
          /\ Route(sources[i]) = "thread" /\ sources[i].thread = th
          /\ AnchorIn(stamped, sources[i]) \in DOMAIN em.toolTrace
          /\ \E x \in em.spans : x.id = ThreadId(th) /\ x.parent = ToolId(AnchorIn(stamped, sources[i]))
    BY <2>1 DEF HungIn, Range
  <2>3. ThreadAnchor(sources[i]) = AnchorIn(stamped, sources[i])
    BY AnchorsAre
  <2>4. ThreadAnchor(sources[i]) # NoTool
    BY <2>2, <2>3, AnchorAssumption DEF AnchorInv
  <2>5. HangsOff(sources[i])
    BY <2>2, <2>3 DEF HangsOff
  <2>6. QED
    BY <2>2, <2>4, <2>5
<1>2. QED
  BY <1>1, AnchorsHold, PTL

\* So every call that names its thread's tool use does.
THEOREM ThreadsAreAnchored == Spec => [](ThreadAnchorsAgree => ThreadsAnchored)
<1>1. RootedThreadsHang => (ThreadAnchorsAgree => ThreadsAnchored)
  <2> SUFFICES ASSUME RootedThreadsHang, ThreadAnchorsAgree, Done, NEW i \in DOMAIN sources,
                      Route(sources[i]) = "thread", sources[i].thread \in Rooted, ThreadAnchor(sources[i]) # NoTool
               PROVE  HangsOff(sources[i])
    BY DEF ThreadsAnchored
  <2>1. PICK j \in DOMAIN sources : /\ Route(sources[j]) = "thread" /\ sources[j].thread = sources[i].thread
                                    /\ ThreadAnchor(sources[j]) # NoTool /\ HangsOff(sources[j])
    BY DEF RootedThreadsHang
  <2>2. ThreadAnchor(sources[i]) = ThreadAnchor(sources[j])
    BY <2>1 DEF ThreadAnchorsAgree
  <2>3. QED
    BY <2>1, <2>2 DEF HangsOff
<1>2. QED
  BY <1>1, RootedHang, PTL

-----------------------------------------------------------------------------
(* What opens a trace.                                                      *)

\* Later has one trace more at most, the call's, with this prompt or none.
Opens(e, later, s, prompt) ==
    \/ later.traces = e.traces
    \/ \E t : t.id = TraceIdentity(s) /\ t.prompt \in {NoNode, prompt} /\ later.traces = Append(e.traces, t)

LEMMA CallsOpen ==
    ASSUME NEW e, DOMAIN e = Parts, NEW s
    PROVE  /\ Opens(e, MainCall(e, s), s, PromptOf(s)) /\ Opens(e, CompactionCall(e, s), s, NoNode)
           /\ Opens(e, ThreadCall(e, s), s, NoNode) /\ Opens(e, ShadowCall(e, s), s, NoNode)
<1> DEFINE prompt == PromptOf(s)
           o == EnsureTrace(e, s)
<1>1. ASSUME NEW q, NEW opener
      PROVE  DOMAIN OpenTrace(e, s, q, opener) = Parts /\ Opens(e, OpenTrace(e, s, q, opener), s, q)
  <2> DEFINE later == OpenTrace(e, s, q, opener)
  <2>1. DOMAIN later = Parts /\ \E t : t.id = TraceIdentity(s) /\ t.prompt = q /\ later.traces = Append(e.traces, t)
    BY OpenTraceParts
  <2> HIDE DEF later
  <2>2. DOMAIN later = Parts /\ Opens(e, later, s, q)
    BY <2>1 DEF Opens
  <2>3. QED
    BY <2>2 DEF later
<1>2. DOMAIN o = Parts /\ Opens(e, o, s, NoNode)
  <2>1. DOMAIN OpenTrace(e, s, NoNode, "shadow-opener") = Parts /\ Opens(e, OpenTrace(e, s, NoNode, "shadow-opener"), s, NoNode)
    BY <1>1
  <2>2. Opens(e, e, s, NoNode)
    BY DEF Opens
  <2>3. QED
    BY <2>1, <2>2 DEF EnsureTrace
<1>3. Opens(e, MainCall(e, s), s, prompt)
  <2> DEFINE p == IF e.traces = <<>> \/ prompt # NoNode THEN OpenTrace(e, s, prompt, "") ELSE e
             trace == CurTrace(p)
             parent == RootId(trace)
             c == EmitConversation(p, s, trace, parent)
  <2>1. MainCall(e, s) = c
    BY DEF MainCall
  <2>2. DOMAIN p = Parts /\ Opens(e, p, s, prompt)
    <3> DEFINE opened == OpenTrace(e, s, prompt, "")
    <3>1. DOMAIN opened = Parts /\ Opens(e, opened, s, prompt)
      BY <1>1
    <3>2. Opens(e, e, s, prompt)
      BY DEF Opens
    <3>3. p = opened \/ p = e
      OBVIOUS
    <3> HIDE DEF opened, p
    <3>4. QED
      BY <3>1, <3>2, <3>3
  <2> HIDE DEF p, trace, parent
  <2>3. c.traces = p.traces
    BY <2>2, ConversationParts
  <2> HIDE DEF c
  <2>4. QED
    BY <2>1, <2>2, <2>3 DEF Opens
<1>4. Opens(e, CompactionCall(e, s), s, NoNode)
  <2> DEFINE spans == o.spans \cup {LlmSpan(s, CurTrace(o), RootId(CurTrace(o)), {})}
             seam == [trace |-> CurTrace(o), span |-> LlmId(s)]
             c == [[o EXCEPT !.spans = spans] EXCEPT !.seam = seam]
  <2>1. CompactionCall(e, s) = c
    BY DEF CompactionCall, AddSpans
  <2> HIDE DEF o, spans, seam
  <2>2. c.traces = o.traces
    BY <1>2 DEF Parts
  <2> HIDE DEF c
  <2>3. QED
    BY <1>2, <2>1, <2>2 DEF Opens
<1>5. Opens(e, ThreadCall(e, s), s, NoNode)
  <2> DEFINE a == AgentOf(e, s)
             trace == a.agents[s.thread]
             c == EmitConversation(a, s, trace, ThreadId(s.thread))
  <2>1. DOMAIN a = Parts /\ Opens(e, a, s, NoNode)
    <3> DEFINE th == s.thread
               anchor == ThreadAnchor(s)
    <3>1. CASE th \in DOMAIN e.agents
      BY <3>1 DEF AgentOf, Opens
    <3>2. CASE th \notin DOMAIN e.agents /\ anchor \in DOMAIN e.toolTrace
      <4> DEFINE host == e.toolTrace[anchor]
                 spans == e.spans \cup {Span(host, ThreadId(th), ToolId(anchor), "agent", "", th, s.at)}
                 links == e.links \cup {Link("rejoin", host, ThreadId(th), host, ToolId(anchor))}
                 agents == [y \in DOMAIN e.agents \cup {th} |-> IF y = th THEN host ELSE e.agents[y]]
      <4>1. a = [e EXCEPT !.spans = spans, !.links = links, !.agents = agents]
        BY <3>2 DEF AgentOf
      <4> HIDE DEF spans, links, agents, a
      <4>2. DOMAIN a = Parts /\ a.traces = e.traces
        BY <4>1 DEF Parts
      <4>3. QED
        BY <4>2 DEF Opens
    <3>3. CASE th \notin DOMAIN e.agents /\ anchor \notin DOMAIN e.toolTrace
      <4> DEFINE host == CurTrace(o)
                 spans == o.spans \cup {Span(host, ThreadId(th), RootId(host), "agent", "", th, s.at)}
                 agents == [y \in DOMAIN o.agents \cup {th} |-> IF y = th THEN host ELSE o.agents[y]]
      <4>1. a = [o EXCEPT !.spans = spans, !.agents = agents]
        BY <3>3 DEF AgentOf
      <4> HIDE DEF spans, agents, a, o
      <4>2. DOMAIN a = Parts /\ a.traces = o.traces
        BY <1>2, <4>1 DEF Parts
      <4>3. QED
        BY <1>2, <4>2 DEF Opens
    <3>4. QED
      BY <3>1, <3>2, <3>3
  <2>2. ThreadCall(e, s) = c
    BY DEF ThreadCall
  <2> HIDE DEF a, trace
  <2>3. c.traces = a.traces
    BY <2>1, ConversationParts
  <2> HIDE DEF c
  <2>4. QED
    BY <2>1, <2>2, <2>3 DEF Opens
<1>6. Opens(e, ShadowCall(e, s), s, NoNode)
  <2>1. ASSUME NEW p, DOMAIN p = Parts, NEW x
        PROVE  DOMAIN AddSpans(p, {x}) = Parts /\ AddSpans(p, {x}).traces = p.traces
    <3> DEFINE spans == p.spans \cup {x}
               c == [p EXCEPT !.spans = spans]
    <3>1. AddSpans(p, {x}) = c
      BY DEF AddSpans
    <3> HIDE DEF spans
    <3>2. DOMAIN c = Parts /\ c.traces = p.traces
      BY <2>1 DEF Parts
    <3>3. QED
      BY <3>1, <3>2
  <2>2. ASSUME NEW p, DOMAIN p = Parts, NEW l PROVE AddLinks(p, {l}).traces = p.traces
    <3> DEFINE links == p.links \cup {l}
               c == [p EXCEPT !.links = links]
    <3>1. AddLinks(p, {l}) = c
      BY DEF AddLinks
    <3> HIDE DEF links
    <3>2. c.traces = p.traces
      BY <2>2 DEF Parts
    <3>3. QED
      BY <3>1, <3>2
  <2> DEFINE tool == s.anchor
             x == LlmSpan(s, e.toolTrace[tool], ToolId(tool), FreshInput(s))
             l == Link("verdict", e.toolTrace[tool], LlmId(s), e.toolTrace[tool], ToolId(tool))
             y == LlmSpan(s, TraceAt(o, s), RootId(TraceAt(o, s)), FreshInput(s))
             p == AddSpans(e, {x})
  <2>3. ShadowCall(e, s) = IF tool \in DOMAIN e.toolTrace THEN AddLinks(p, {l}) ELSE AddSpans(o, {y})
    BY DEF ShadowCall
  <2> HIDE DEF tool, x, l, y, o
  <2>4. DOMAIN p = Parts /\ p.traces = e.traces
    BY <2>1
  <2>5. AddSpans(o, {y}).traces = o.traces
    BY <1>2, <2>1
  <2> HIDE DEF p
  <2>6. AddLinks(p, {l}).traces = p.traces
    BY <2>2, <2>4
  <2>7. ShadowCall(e, s).traces \in {e.traces, o.traces}
    BY <2>3, <2>4, <2>5, <2>6
  <2>8. QED
    BY <1>2, <2>7 DEF Opens
<1>7. QED
  BY <1>3, <1>4, <1>5, <1>6

\* A trace that has a prompt has that of the call on the spine it is named after.
PromptInv ==
    \A i \in DOMAIN em.traces :
        \/ em.traces[i].prompt = NoNode
        \/ \E s \in Range(sources) : /\ Route(s) = "main" /\ TraceIdentity(s) = em.traces[i].id
                                     /\ PromptOf(s) = em.traces[i].prompt

LEMMA PromptStep ==
    ASSUME WalkInv, PromptInv, [Next]_vars
    PROVE  PromptInv'
<1>1. CASE FeedTurn \/ BeginWalk
  <2>1. phase = "feed" /\ em' = em
    BY <1>1 DEF FeedTurn, BeginWalk
  <2>2. em'.traces = <<>>
    BY <2>1 DEF WalkInv, Phased, NoEmission
  <2>3. QED
    BY <2>2 DEF PromptInv
<1>2. ASSUME sources' = sources, em'.traces = em.traces PROVE PromptInv'
  BY <1>2 DEF PromptInv
<1>3. ASSUME NEW s \in Range(sources), sources' = sources,
             Opens(em, em', s, NoNode) \/ (Route(s) = "main" /\ Opens(em, em', s, PromptOf(s)))
      PROVE  PromptInv'
  <2>1. CASE em'.traces = em.traces
    BY <1>2, <1>3, <2>1
  <2>2. CASE em'.traces # em.traces
    <3>1. PICK t : /\ t.id = TraceIdentity(s) /\ em'.traces = Append(em.traces, t)
                   /\ t.prompt = NoNode \/ (Route(s) = "main" /\ t.prompt = PromptOf(s))
      BY <1>3, <2>2 DEF Opens
    <3>2. em.traces \in Seq(Range(em.traces))
      BY DEF WalkInv, EmitterInv, Shape
    <3> DEFINE n == Len(em.traces)
    <3>3. /\ n \in Nat /\ DOMAIN em.traces = 1..n /\ DOMAIN em'.traces = 1..(n + 1)
          /\ \A i \in 1..n : em'.traces[i] = em.traces[i]
          /\ em'.traces[n + 1] = t
      BY <3>1, <3>2, Appended
    <3> HIDE DEF n
    <3>4. \A i \in 1..(n + 1) : i \in 1..n \/ i = n + 1
      BY <3>3
    <3>5. \A i \in 1..n : \/ em'.traces[i].prompt = NoNode
                          \/ \E q \in Range(sources) : /\ Route(q) = "main" /\ TraceIdentity(q) = em'.traces[i].id
                                                       /\ PromptOf(q) = em'.traces[i].prompt
      BY <3>3 DEF PromptInv
    <3>6. \/ em'.traces[n + 1].prompt = NoNode
          \/ \E q \in Range(sources) : /\ Route(q) = "main" /\ TraceIdentity(q) = em'.traces[n + 1].id
                                       /\ PromptOf(q) = em'.traces[n + 1].prompt
      BY <1>3, <3>1, <3>3
    <3>7. QED
      BY <1>3, <3>3, <3>4, <3>5, <3>6 DEF PromptInv
  <2>3. QED
    BY <2>1, <2>2
<1>4. DOMAIN em = Parts
  BY DEF WalkInv, EmitterInv, Shape
<1>5. CASE SpineStep
  <2> DEFINE s == sources[pos + 1]
  <2>1. pos + 1 \in DOMAIN sources /\ sources' = sources
    BY <1>5, SpineAdvances DEF SpineStep, WalkInv, Phased, feedVars
  <2>2. s \in Range(sources)
    BY <2>1 DEF Range
  <2>3. em' = CASE Route(s) = "main" -> MainCall(em, s)
                [] Route(s) = "compaction" -> CompactionCall(em, s)
                [] OTHER -> em
    BY <1>5 DEF SpineStep
  <2> HIDE DEF s
  <2>4. (Route(s) = "main" /\ em' = MainCall(em, s)) \/ em' = CompactionCall(em, s) \/ em' = em
    BY <2>3
  <2>5. Opens(em, em, s, NoNode)
    BY DEF Opens
  <2>6. Opens(em, em', s, NoNode) \/ (Route(s) = "main" /\ Opens(em, em', s, PromptOf(s)))
    BY <1>4, <2>4, <2>5, CallsOpen
  <2>7. QED
    BY <1>3, <2>1, <2>2, <2>6
<1>6. CASE ThreadStep \/ LeftoverStep
  <2> DEFINE s == Head(pending)
  <2>1. pending # <<>> /\ sources' = sources /\ (em' = em \/ em' = ThreadCall(em, s))
    BY <1>6 DEF ThreadStep, LeftoverStep, feedVars
  <2>2. s \in Range(sources)
    BY <2>1, QueueShrinks DEF WalkInv, Queued
  <2> HIDE DEF s
  <2>3. Opens(em, em, s, NoNode)
    BY DEF Opens
  <2>4. Opens(em, em', s, NoNode)
    BY <1>4, <2>1, <2>3, CallsOpen
  <2>5. QED
    BY <1>3, <2>1, <2>2, <2>4
<1>7. CASE ShadowStep
  <2> DEFINE s == Head(shadows)
  <2>1. shadows # <<>> /\ sources' = sources /\ em' = ShadowCall(em, s)
    BY <1>7 DEF ShadowStep, feedVars
  <2>2. s \in Range(sources)
    BY <2>1, QueueShrinks DEF WalkInv, Queued
  <2> HIDE DEF s
  <2>3. Opens(em, em', s, NoNode)
    BY <1>4, <2>1, CallsOpen
  <2>4. QED
    BY <1>3, <2>1, <2>2, <2>3
<1>8. CASE EndSpine \/ EndPass \/ EndThreads \/ EndShadows
  <2>1. sources' = sources /\ em' = em
    BY <1>8 DEF EndSpine, EndPass, EndThreads, EndShadows, feedVars
  <2>2. QED
    BY <1>2, <2>1
<1>9. CASE UNCHANGED vars
  <2>1. sources' = sources /\ em' = em
    BY <1>9 DEF vars, feedVars
  <2>2. QED
    BY <1>2, <2>1
<1>10. QED
  BY <1>1, <1>5, <1>6, <1>7, <1>8, <1>9 DEF Next, Walk, Rest

\* A prompt a call on the spine takes from its own transcript, where the nodes
\* only it brought have none, no other call on the spine has.
TranscriptPromptsAreOwn ==
    \A i, j \in DOMAIN sources :
        i # j /\ Route(sources[i]) = "main" /\ Route(sources[j]) = "main" /\ PromptOf(sources[i]) # FreshGenuinePrompt(sources[i])
            => PromptOf(sources[i]) # PromptOf(sources[j])

\* A prompt opens one trace however often the conversation is sent again
\* (freshGenuinePrompt), where the transcripts do not claim one twice
\* (transcriptGenuinePrompt does not ask who else brought it).
THEOREM PromptsOpenOnce == Spec => [](TranscriptPromptsAreOwn => PromptsOnce)
<1>1. Init => PromptInv
  BY DEF Init, PromptInv, NoEmission
<1>2. WalkInv /\ PromptInv /\ [Next]_vars => PromptInv'
  BY PromptStep
<1>3. ASSUME NEW i \in DOMAIN sources, SourcesAreCalls, FreshGenuinePrompt(sources[i]) # NoNode
      PROVE  FreshGenuinePrompt(sources[i]) \in News(sources[i])
  <2> DEFINE s == sources[i]
             places == {k \in Request(s) \cap s.new : k > LastFreshAssistantIdx(s) /\ Genuine(s.chain[k])}
             n == Len(s.chain)
  <2>1. s.new \subseteq DOMAIN s.chain /\ s.chain = Turn[s.call].chain /\ s.call \in Call /\ Turn[s.call].parse = "ok"
    BY <1>3 DEF SourcesAreCalls
  <2> HIDE DEF s
  <2>2. s.chain \in Seq(Node)
    BY <2>1, ChainAssumption
  <2>3. n \in Nat /\ DOMAIN s.chain = 1..n
    BY <2>2
  <2>4. places \subseteq s.new /\ places \in SUBSET (1..n)
    BY <2>1, <2>3
  <2>5. FreshGenuinePrompt(s) = PromptAt(s, LastOf(places))
    BY DEF FreshGenuinePrompt
  <2> HIDE DEF places, n
  <2>6. places # {}
    BY <1>3, <2>5 DEF PromptAt, LastOf, s
  <2>7. Max(places) \in places
    BY <2>3, <2>4, <2>6, LastPlace
  <2>8. Max(places) \in s.new /\ Max(places) # 0
    BY <2>3, <2>4, <2>7
  <2>9. FreshGenuinePrompt(s) = s.chain[Max(places)]
    BY <2>5, <2>6, <2>8 DEF PromptAt, LastOf
  <2>10. QED
    BY <2>8, <2>9 DEF News, s
<1>4. WalkInv /\ PromptInv => (TranscriptPromptsAreOwn => PromptsOnce)
  <2> SUFFICES ASSUME WalkInv, PromptInv, TranscriptPromptsAreOwn,
                      NEW i \in DOMAIN em.traces, NEW j \in DOMAIN em.traces, i # j
               PROVE  /\ em.traces[i].id # em.traces[j].id
                      /\ em.traces[i].prompt # NoNode => em.traces[i].prompt # em.traces[j].prompt
    BY DEF PromptsOnce
  <2>1. em.traces[i].id # em.traces[j].id
    BY DEF WalkInv, EmitterInv, Shape
  <2>2. ASSUME em.traces[i].prompt # NoNode, em.traces[i].prompt = em.traces[j].prompt PROVE FALSE
    <3>1. PICK k \in DOMAIN sources : Route(sources[k]) = "main" /\ TraceIdentity(sources[k]) = em.traces[i].id /\ PromptOf(sources[k]) = em.traces[i].prompt
      BY <2>2 DEF PromptInv, Range
    <3>2. PICK l \in DOMAIN sources : Route(sources[l]) = "main" /\ TraceIdentity(sources[l]) = em.traces[j].id /\ PromptOf(sources[l]) = em.traces[j].prompt
      BY <2>2 DEF PromptInv, Range
    <3>3. k # l
      BY <2>1, <3>1, <3>2
    <3>4. PromptOf(sources[k]) = FreshGenuinePrompt(sources[k]) /\ PromptOf(sources[l]) = FreshGenuinePrompt(sources[l])
      BY <2>2, <3>1, <3>2, <3>3 DEF TranscriptPromptsAreOwn
    <3>5. em.traces[i].prompt \in News(sources[k]) /\ em.traces[i].prompt \in News(sources[l])
      BY <1>3, <2>2, <3>1, <3>2, <3>4 DEF WalkInv
    <3>6. QED
      BY <3>3, <3>5 DEF WalkInv, SourcesAreCalls
  <2>3. QED
    BY <2>1, <2>2
<1>5. QED
  BY <1>1, <1>2, <1>4, WalkHolds, PTL DEF Spec

-----------------------------------------------------------------------------
(* What a check judges.                                                     *)

GroupsUp(srcs, f) == f = [n \in 0..Len(srcs) |-> IF n = 0 THEN <<>> ELSE Grouped(srcs, f[n - 1], n)]

\* The groups of the first n sources: of checks that judge something, and no
\* check in two of them.
GroupsAreApart(srcs, gs, n) ==
    /\ gs \in Seq(Range(gs))
    /\ \A g \in DOMAIN gs : gs[g].members \subseteq {i \in 1..n : JudgedAction(srcs[i]) # ""}
    /\ \A g, h \in DOMAIN gs : g # h => gs[g].members \cap gs[h].members = {}

Group(srcs) == [action : {JudgedAction(srcs[i]) : i \in 1..Len(srcs)},
                thread : {srcs[i].thread : i \in 1..Len(srcs)}, members : SUBSET (1..Len(srcs))]

\* A source that judges something starts a group or joins one.
StartsGroup(srcs, gs, n, after) ==
    \E g \in Group(srcs) : g.members = {n} /\ after = Append(gs, g)
JoinsGroup(srcs, gs, n, after) ==
    \E m \in DOMAIN gs : \E g \in Group(srcs) : g.members = gs[m].members \cup {n} /\ after = [gs EXCEPT ![m] = g]

LEMMA GroupedCases ==
    ASSUME NEW srcs, Len(srcs) \in Nat, NEW n \in 1..Len(srcs), NEW gs \in Seq(Group(srcs))
    PROVE  \/ Grouped(srcs, gs, n) = gs
           \/ /\ JudgedAction(srcs[n]) # ""
              /\ StartsGroup(srcs, gs, n, Grouped(srcs, gs, n)) \/ JoinsGroup(srcs, gs, n, Grouped(srcs, gs, n))
<1> DEFINE s == srcs[n]
           fits == {j \in DOMAIN gs : Joins(gs[j], s)}
           new == [action |-> JudgedAction(s), thread |-> s.thread, members |-> {n}]
           m == Min(fits)
           after == Grouped(srcs, gs, n)
<1>1. after = IF JudgedAction(s) = "" THEN gs ELSE IF fits = {} THEN Append(gs, new)
              ELSE [gs EXCEPT ![m] = Joined(gs[m], s, n)]
  BY DEF Grouped
<1>2. new \in Group(srcs) /\ new.members = {n}
  BY DEF Group
<1>3. ASSUME fits # {} PROVE m \in DOMAIN gs
  <2>1. fits \subseteq DOMAIN gs /\ fits \in SUBSET Nat
    OBVIOUS
  <2> HIDE DEF fits
  <2>2. QED
    BY <1>3, <2>1, FirstPlace
<1>4. ASSUME m \in DOMAIN gs
      PROVE  Joined(gs[m], s, n) \in Group(srcs) /\ Joined(gs[m], s, n).members = gs[m].members \cup {n}
  <2> DEFINE g == gs[m]
             members == g.members \cup {n}
             thread == IF g.thread = MainThread THEN s.thread ELSE g.thread
             more == [g EXCEPT !.members = members, !.thread = thread]
  <2>1. g \in Group(srcs)
    BY <1>4
  <2>2. Joined(gs[m], s, n) = more
    BY DEF Joined
  <2> HIDE DEF g, m
  <2>3. members \in SUBSET (1..Len(srcs)) /\ thread \in {srcs[i].thread : i \in 1..Len(srcs)}
    BY <2>1 DEF Group
  <2> HIDE DEF members, thread
  <2>4. more \in Group(srcs) /\ more.members = members
    BY <2>1, <2>3 DEF Group
  <2>5. QED
    BY <2>2, <2>4 DEF g, members
<1> HIDE DEF new, m, fits, after
<1>5. CASE JudgedAction(s) = ""
  BY <1>1, <1>5 DEF after
<1>6. CASE JudgedAction(s) # "" /\ fits = {}
  <2>1. after = Append(gs, new)
    BY <1>1, <1>6
  <2>2. StartsGroup(srcs, gs, n, after)
    BY <1>2, <2>1 DEF StartsGroup
  <2>3. QED
    BY <1>6, <2>2 DEF after
<1>7. CASE JudgedAction(s) # "" /\ fits # {}
  <2>1. after = [gs EXCEPT ![m] = Joined(gs[m], s, n)]
    BY <1>1, <1>7
  <2> DEFINE g == Joined(gs[m], s, n)
  <2>2. m \in DOMAIN gs /\ g \in Group(srcs) /\ g.members = gs[m].members \cup {n}
    BY <1>3, <1>4, <1>7
  <2> HIDE DEF g
  <2>3. after = [gs EXCEPT ![m] = g]
    BY <2>1 DEF g
  <2>4. JoinsGroup(srcs, gs, n, after)
    BY <2>2, <2>3 DEF JoinsGroup
  <2>5. QED
    BY <1>7, <2>4 DEF after
<1>8. QED
  BY <1>5, <1>6, <1>7

LEMMA GroupedInSeq ==
    ASSUME NEW srcs, Len(srcs) \in Nat, NEW n \in 1..Len(srcs), NEW gs \in Seq(Group(srcs))
    PROVE  Grouped(srcs, gs, n) \in Seq(Group(srcs))
<1> DEFINE after == Grouped(srcs, gs, n)
<1>1. after = gs \/ StartsGroup(srcs, gs, n, after) \/ JoinsGroup(srcs, gs, n, after)
  BY GroupedCases
<1> HIDE DEF after
<1>2. after \in Seq(Group(srcs))
  BY <1>1 DEF StartsGroup, JoinsGroup
<1>3. QED
  BY <1>2 DEF after

LEMMA GroupedApart ==
    ASSUME NEW srcs, Len(srcs) \in Nat, NEW n \in 1..Len(srcs), NEW gs \in Seq(Group(srcs)), GroupsAreApart(srcs, gs, n - 1)
    PROVE  GroupsAreApart(srcs, Grouped(srcs, gs, n), n)
<1> DEFINE after == Grouped(srcs, gs, n)
           some == JudgedAction(srcs[n]) # ""
           before == {i \in 1..(n - 1) : JudgedAction(srcs[i]) # ""}
           now == {i \in 1..n : JudgedAction(srcs[i]) # ""}
<1>1. after = gs \/ (some /\ (StartsGroup(srcs, gs, n, after) \/ JoinsGroup(srcs, gs, n, after)))
  BY GroupedCases
<1>2. before \subseteq now /\ n \notin before
  <2>1. n \in Nat /\ (1..(n - 1)) \subseteq 1..n /\ n \notin 1..(n - 1)
    OBVIOUS
  <2>2. QED
    BY <2>1
<1>3. some => n \in now
  <2>1. n \in 1..n
    OBVIOUS
  <2>2. QED
    BY <2>1
<1>4. /\ \A g \in DOMAIN gs : gs[g].members \subseteq before
      /\ \A g, h \in DOMAIN gs : g # h => gs[g].members \cap gs[h].members = {}
  BY DEF GroupsAreApart
<1>5. after \in Seq(Range(after))
  <2>1. after \in Seq(Group(srcs))
    BY GroupedInSeq
  <2> HIDE DEF after
  <2>2. QED
    BY <2>1 DEF Range
<1> HIDE DEF after, some, before, now
<1>6. /\ \A g \in DOMAIN after : after[g].members \subseteq now
      /\ \A g, h \in DOMAIN after : g # h => after[g].members \cap after[h].members = {}
  <2>1. CASE after = gs
    BY <1>2, <1>4, <2>1
  <2>2. ASSUME some, NEW g, g.members = {n}, after = Append(gs, g) PROVE <1>6!1 /\ <1>6!2
    <3> DEFINE l == Len(gs)
    <3>1. /\ DOMAIN gs = 1..l /\ DOMAIN after = 1..(l + 1) /\ l \in Nat /\ after[l + 1] = g
          /\ \A k \in 1..l : after[k] = gs[k]
      <4>1. gs \in Seq(Range(gs))
        BY DEF Range
      <4>2. QED
        BY <2>2, <4>1, Appended
    <3> HIDE DEF l
    <3>2. \A k \in 1..(l + 1) : k \in 1..l \/ k = l + 1
      BY <3>1
    <3>3. after[l + 1].members = {n} /\ \A k \in 1..l : after[k].members = gs[k].members
      BY <2>2, <3>1
    <3>4. QED
      BY <1>2, <1>3, <1>4, <2>2, <3>1, <3>2, <3>3
  <2>3. ASSUME some, NEW m \in DOMAIN gs, NEW g, g.members = gs[m].members \cup {n}, after = [gs EXCEPT ![m] = g]
        PROVE  <1>6!1 /\ <1>6!2
    <3>1. DOMAIN after = DOMAIN gs /\ \A k \in DOMAIN gs : after[k] = IF k = m THEN g ELSE gs[k]
      BY <2>3
    <3>2. \A k \in DOMAIN after : after[k].members = IF k = m THEN gs[m].members \cup {n} ELSE gs[k].members
      BY <2>3, <3>1
    <3>3. QED
      BY <1>2, <1>3, <1>4, <2>3, <3>1, <3>2
  <2>4. QED
    BY <1>1, <2>1, <2>2, <2>3 DEF StartsGroup, JoinsGroup
<1>7. QED
  BY <1>5, <1>6 DEF GroupsAreApart, now, after

\* The checks are grouped apart.
LEMMA GroupsApart ==
    ASSUME NEW srcs, Len(srcs) \in Nat
    PROVE  /\ GroupsUp(srcs, CHOOSE f : GroupsUp(srcs, f))
           /\ GroupChecks(srcs) = (CHOOSE f : GroupsUp(srcs, f))[Len(srcs)]
           /\ GroupChecks(srcs) \in Seq(Group(srcs)) /\ GroupsAreApart(srcs, GroupChecks(srcs), Len(srcs))
<1> DEFINE N == Len(srcs)
           X == Seq(Group(srcs))
           step == [p \in X \X (1..N) |-> Grouped(srcs, p[1], p[2])]
           none == <<>>
           f == CHOOSE u : GroupsUp(srcs, u)
<1>1. PICK u \in [0..N -> X] : u[0] = none /\ \A k \in 1..N : u[k] = step[<<u[k - 1], k>>]
  <2>1. ASSUME NEW y \in X, NEW k \in 1..N PROVE step[<<y, k>>] \in X
    BY GroupedInSeq
  <2>2. N \in Nat /\ none \in X
    OBVIOUS
  <2> HIDE DEF N, X, step, none
  <2>3. StaysIn(step, X, N)
    BY <2>1 DEF StaysIn
  <2>4. Steps(step, X, N, none) # {}
    BY <2>2, <2>3, StepsExist
  <2>5. QED
    BY <2>4 DEF Steps
<1>2. GroupsUp(srcs, u)
  <2>1. \A k \in 1..N : k - 1 \in 0..N /\ u[k - 1] \in X
    <3>1. N \in Nat
      OBVIOUS
    <3> HIDE DEF N, X
    <3>2. QED
      BY <1>1, <3>1
  <2>2. \A k \in 1..N : u[k] = Grouped(srcs, u[k - 1], k)
    BY <1>1, <2>1
  <2>3. u = [k \in 0..N |-> IF k = 0 THEN <<>> ELSE Grouped(srcs, u[k - 1], k)]
    <3>1. \A k \in 0..N : u[k] = IF k = 0 THEN <<>> ELSE Grouped(srcs, u[k - 1], k)
      BY <1>1, <2>2
    <3> HIDE DEF X
    <3>2. u = [k \in 0..N |-> u[k]]
      BY <1>1
    <3>3. QED
      BY <3>1, <3>2
  <2>4. QED
    BY <2>3 DEF GroupsUp
<1>3. GroupsUp(srcs, f)
  BY <1>2
<1>4. GroupChecks(srcs) = f[N]
  BY DEF GroupChecks, GroupsUp
<1> HIDE DEF f
<1>5. f[0] = <<>> /\ \A k \in 1..N : f[k] = Grouped(srcs, f[k - 1], k)
  BY <1>3 DEF GroupsUp
<1> DEFINE Good == {k \in 0..N : f[k] \in X /\ GroupsAreApart(srcs, f[k], k)}
<1>6. 0 \in Good
  <2>1. f[0] \in X /\ GroupsAreApart(srcs, f[0], 0)
    <3>1. f[0] = <<>>
      BY <1>5
    <3>2. QED
      BY <3>1 DEF GroupsAreApart, Range
  <2>2. 0 \in 0..N
    OBVIOUS
  <2> HIDE DEF X
  <2>3. QED
    BY <2>1, <2>2
<1>7. ASSUME NEW k \in 1..N, k - 1 \in Good PROVE k \in Good
  BY <1>5, <1>7, GroupedInSeq, GroupedApart
<1>8. N \in Good
  <2> HIDE DEF Good
  <2>1. QED
    BY <1>6, <1>7, PlacesInduction
<1>9. QED
  BY <1>3, <1>4, <1>8 DEF f

\* The groups are the same whatever the sources hang off.
LEMMA GroupsAgree ==
    ASSUME NEW srcs, NEW later, Len(srcs) \in Nat, Len(later) = Len(srcs),
           \A i \in 1..Len(srcs) : /\ later[i].thread = srcs[i].thread
                                   /\ later[i].kind = srcs[i].kind /\ later[i].call = srcs[i].call
    PROVE  GroupChecks(later) = GroupChecks(srcs)
<1> DEFINE N == Len(srcs)
           f == CHOOSE u : GroupsUp(srcs, u)
           g == CHOOSE u : GroupsUp(later, u)
           Good == {k \in 0..N : g[k] = f[k]}
<1>1. GroupsUp(srcs, f) /\ GroupChecks(srcs) = f[N] /\ GroupsUp(later, g) /\ GroupChecks(later) = g[N]
  BY GroupsApart
<1> HIDE DEF f, g
<1>2. /\ f[0] = <<>> /\ \A k \in 1..N : f[k] = Grouped(srcs, f[k - 1], k)
      /\ g[0] = <<>> /\ \A k \in 1..N : g[k] = Grouped(later, g[k - 1], k)
  <2>1. f = [n \in 0..N |-> IF n = 0 THEN <<>> ELSE Grouped(srcs, f[n - 1], n)]
    BY <1>1 DEF GroupsUp
  <2>2. g = [n \in 0..N |-> IF n = 0 THEN <<>> ELSE Grouped(later, g[n - 1], n)]
    BY <1>1 DEF GroupsUp
  <2>3. N \in Nat
    OBVIOUS
  <2> HIDE DEF N
  <2>4. f[0] = <<>> /\ \A k \in 1..N : f[k] = Grouped(srcs, f[k - 1], k)
    BY <2>1, <2>3
  <2>5. g[0] = <<>> /\ \A k \in 1..N : g[k] = Grouped(later, g[k - 1], k)
    BY <2>2, <2>3
  <2>6. QED
    BY <2>4, <2>5
<1>3. 0 \in Good
  BY <1>2
<1>4. ASSUME NEW k \in 1..N, k - 1 \in Good PROVE k \in Good
  <2>1. \A gs : Grouped(later, gs, k) = Grouped(srcs, gs, k)
    <3>1. JudgedAction(later[k]) = JudgedAction(srcs[k]) /\ later[k].thread = srcs[k].thread
      BY DEF JudgedAction
    <3>2. \A x : Joins(x, later[k]) <=> Joins(x, srcs[k])
      BY <3>1 DEF Joins
    <3>3. \A gs : {j \in DOMAIN gs : Joins(gs[j], later[k])} = {j \in DOMAIN gs : Joins(gs[j], srcs[k])}
      BY <3>2
    <3>4. ASSUME NEW gs PROVE Grouped(later, gs, k) = Grouped(srcs, gs, k)
      <4> DEFINE fits == {j \in DOMAIN gs : Joins(gs[j], srcs[k])}
                 new(s) == [action |-> JudgedAction(s), thread |-> s.thread, members |-> {k}]
      <4>5. new(later[k]) = new(srcs[k])
        BY <3>1
      <4>1. Joined(gs[Min(fits)], later[k], k) = Joined(gs[Min(fits)], srcs[k], k)
        BY <3>1 DEF Joined
      <4> DEFINE joined(s) == [gs EXCEPT ![Min(fits)] = Joined(gs[Min(fits)], s, k)]
      <4>6. joined(later[k]) = joined(srcs[k])
        BY <4>1
      <4> DEFINE value(a, n, j) == IF a = "" THEN gs ELSE IF fits = {} THEN Append(gs, n) ELSE j
      <4>2. Grouped(srcs, gs, k) = value(JudgedAction(srcs[k]), new(srcs[k]), joined(srcs[k]))
        BY DEF Grouped
      <4>3. Grouped(later, gs, k) = value(JudgedAction(later[k]), new(later[k]), joined(later[k]))
        BY <3>3 DEF Grouped
      <4> HIDE DEF new, joined, value
      <4>4. QED
        BY <3>1, <4>2, <4>3, <4>5, <4>6
    <3>5. QED
      BY <3>4
  <2>2. QED
    BY <1>2, <1>4, <2>1
<1>5. N \in Good
  <2> HIDE DEF Good
  <2>1. QED
    BY <1>3, <1>4, PlacesInduction
<1>6. QED
  BY <1>1, <1>5


\* What an attach pass carries: the tool uses consumed, and an anchor of each
\* source.
Passed(D, U) == [used : SUBSET U, anchor : [D -> U]]
\* What it may attach to.
Offered == {NoTool} \cup {toolUses[i].id : i \in {Min(T) : T \in SUBSET DOMAIN toolUses}
                                                  \cup {Max(T) : T \in SUBSET DOMAIN toolUses}}

LEMMA AttachedParts ==
    ASSUME NEW D, NEW U, NEW acc \in Passed(D, U), NEW members, NEW tool \in U
    PROVE  /\ Attached(acc, members, tool) \in Passed(D, U)
           /\ tool = NoTool => Attached(acc, members, tool) = acc
           /\ tool # NoTool =>
                /\ Attached(acc, members, tool).used = acc.used \cup {tool}
                /\ \A i \in D : Attached(acc, members, tool).anchor[i] = IF i \in members THEN tool ELSE acc.anchor[i]
<1> DEFINE used == acc.used \cup {tool}
           anchor == [i \in DOMAIN acc.anchor |-> IF i \in members THEN tool ELSE acc.anchor[i]]
           a == [used |-> used, anchor |-> anchor]
<1>1. acc.used \in SUBSET U /\ acc.anchor \in [D -> U] /\ DOMAIN acc.anchor = D
  BY DEF Passed
<1>2. Attached(acc, members, tool) = IF tool = NoTool THEN acc ELSE a
  BY DEF Attached
<1>3. used \in SUBSET U /\ anchor \in [D -> U] /\ \A i \in D : anchor[i] = IF i \in members THEN tool ELSE acc.anchor[i]
  BY <1>1
<1>4. a.used = used /\ a.anchor = anchor
  OBVIOUS
<1> HIDE DEF anchor
<1>5. a \in Passed(D, U)
  BY <1>3 DEF Passed
<1> HIDE DEF a
<1>6. QED
  BY <1>2, <1>3, <1>4, <1>5

\* A match is a tool use nobody consumed.
LEMMA MatchIsNew ==
    ASSUME toolUses \in Seq(Range(toolUses)), NEW used, NEW action, NEW thread, NEW sameThread
    PROVE  LET t == MatchToolUse(used, action, thread, sameThread) IN
           t \in Offered /\ (t = NoTool \/ t \notin used)
<1> DEFINE fits == {i \in DOMAIN toolUses : /\ toolUses[i].id \notin used
                                            /\ sameThread => toolUses[i].thread = thread
                                            /\ Uses[toolUses[i].id].action = action}
           t == MatchToolUse(used, action, thread, sameThread)
<1>1. t = IF fits = {} THEN NoTool ELSE toolUses[Min(fits)].id
  BY DEF MatchToolUse
<1>2. fits \in SUBSET DOMAIN toolUses /\ fits \in SUBSET Nat /\ \A i \in fits : toolUses[i].id \notin used
  OBVIOUS
<1> HIDE DEF fits, t
<1>3. CASE fits = {}
  BY <1>1, <1>3 DEF Offered, t
<1>4. CASE fits # {}
  <2>1. Min(fits) \in fits
    BY <1>2, <1>4, FirstPlace
  <2>2. t = toolUses[Min(fits)].id
    BY <1>1, <1>4
  <2>3. t \in Offered
    BY <1>2, <2>2 DEF Offered
  <2>4. QED
    BY <1>2, <2>1, <2>2, <2>3 DEF t
<1>5. QED
  BY <1>3, <1>4

\* After n groups each hangs off one tool use consumed, or off none; no two off
\* the same; and the groups to come off none.
Judged(gs, acc, n) ==
    /\ \A g \in DOMAIN gs : \E t : (t = NoTool \/ t \in acc.used) /\ \A i \in gs[g].members : acc.anchor[i] = t
    /\ \A g, h \in DOMAIN gs : g # h => \A i \in gs[g].members, j \in gs[h].members :
                                            acc.anchor[i] = NoTool \/ acc.anchor[i] # acc.anchor[j]
    /\ \A g \in DOMAIN gs : g > n => \A i \in gs[g].members : acc.anchor[i] = NoTool

LEMMA JudgeKeeps ==
    ASSUME toolUses \in Seq(Range(toolUses)), NEW D, NEW U, Offered \subseteq U, NEW acc \in Passed(D, U),
           NEW gs, NEW n \in DOMAIN gs, DOMAIN gs \subseteq Nat, \A g \in DOMAIN gs : gs[g].members \subseteq D,
           \A g, h \in DOMAIN gs : g # h => gs[g].members \cap gs[h].members = {}
    PROVE  /\ Judge(acc, gs[n]) \in Passed(D, U)
           /\ Judged(gs, acc, n - 1) => Judged(gs, Judge(acc, gs[n]), n)
<1> DEFINE new == gs[n]
           same == MatchToolUse(acc.used, new.action, new.thread, TRUE)
           any == MatchToolUse(acc.used, new.action, new.thread, FALSE)
           tool == IF same # NoTool THEN same ELSE any
           after == Judge(acc, gs[n])
<1>1. after = Attached(acc, new.members, tool)
  BY DEF Judge
<1>2. tool \in U /\ (tool = NoTool \/ tool \notin acc.used)
  <2>1. same \in Offered /\ (same = NoTool \/ same \notin acc.used)
    BY MatchIsNew
  <2>2. any \in Offered /\ (any = NoTool \/ any \notin acc.used)
    BY MatchIsNew
  <2> HIDE DEF same, any
  <2>3. QED
    BY <2>1, <2>2
<1> HIDE DEF tool
<1>3. /\ after \in Passed(D, U) /\ (tool = NoTool => after = acc)
      /\ tool # NoTool =>
           /\ after.used = acc.used \cup {tool}
           /\ \A i \in D : after.anchor[i] = IF i \in new.members THEN tool ELSE acc.anchor[i]
  BY <1>1, <1>2, AttachedParts
<1> HIDE DEF after, new
<1>4. ASSUME Judged(gs, acc, n - 1) PROVE Judged(gs, after, n)
  <2>1. /\ \A g \in DOMAIN gs : \E t : (t = NoTool \/ t \in acc.used) /\ \A i \in gs[g].members : acc.anchor[i] = t
        /\ \A g, h \in DOMAIN gs : g # h => \A i \in gs[g].members, j \in gs[h].members :
                                                acc.anchor[i] = NoTool \/ acc.anchor[i] # acc.anchor[j]
        /\ \A g \in DOMAIN gs : g > n - 1 => \A i \in gs[g].members : acc.anchor[i] = NoTool
    BY <1>4 DEF Judged
  <2>2. \A g \in DOMAIN gs : g > n => g > n - 1
    OBVIOUS
  <2>3. CASE tool = NoTool
    BY <1>3, <2>1, <2>2, <2>3 DEF Judged
  <2>4. CASE tool # NoTool
    <3>1. \A i \in gs[n].members : after.anchor[i] = tool
      BY <1>3, <2>4 DEF new
    <3>2. \A g \in DOMAIN gs : g # n => \A i \in gs[g].members : after.anchor[i] = acc.anchor[i]
      BY <1>3, <2>4 DEF new
    <3>3. tool \in after.used /\ acc.used \subseteq after.used /\ tool \notin acc.used
      BY <1>2, <1>3, <2>4
    <3>4. ASSUME NEW g \in DOMAIN gs, g # n PROVE \A i \in gs[g].members : after.anchor[i] # tool
      BY <2>1, <2>4, <3>2, <3>3, <3>4
    <3>5. \A g \in DOMAIN gs : \E t : (t = NoTool \/ t \in after.used) /\ \A i \in gs[g].members : after.anchor[i] = t
      <4>1. ASSUME NEW g \in DOMAIN gs
            PROVE  \E t : (t = NoTool \/ t \in after.used) /\ \A i \in gs[g].members : after.anchor[i] = t
        <5>1. CASE g = n
          BY <3>1, <3>3, <5>1
        <5>2. CASE g # n
          <6>1. PICK t : (t = NoTool \/ t \in acc.used) /\ \A i \in gs[g].members : acc.anchor[i] = t
            BY <2>1
          <6>2. (t = NoTool \/ t \in after.used) /\ \A i \in gs[g].members : after.anchor[i] = t
            BY <3>2, <3>3, <5>2, <6>1
          <6>3. QED
            BY <6>2
        <5>3. QED
          BY <5>1, <5>2
      <4>2. QED
        BY <4>1
    <3>6. ASSUME NEW g \in DOMAIN gs, NEW h \in DOMAIN gs, g # h, NEW i \in gs[g].members, NEW j \in gs[h].members
          PROVE  after.anchor[i] = NoTool \/ after.anchor[i] # after.anchor[j]
      <4>1. CASE g = n
        BY <3>1, <3>4, <3>6, <4>1
      <4>2. CASE h = n
        BY <3>1, <3>4, <3>6, <4>2
      <4>3. CASE g # n /\ h # n
        BY <2>1, <3>2, <3>6, <4>3
      <4>4. QED
        BY <4>1, <4>2, <4>3
    <3>7. \A g \in DOMAIN gs : g > n => \A i \in gs[g].members : after.anchor[i] = NoTool
      <4>1. \A g \in DOMAIN gs : g > n => g # n
        OBVIOUS
      <4>2. QED
        BY <2>1, <2>2, <3>2, <4>1
    <3>8. QED
      BY <3>5, <3>6, <3>7 DEF Judged
  <2>5. QED
    BY <2>3, <2>4
<1>5. QED
  BY <1>3, <1>4 DEF after

JudgedUp(acc, gs, f) == f = [n \in 0..Len(gs) |-> IF n = 0 THEN acc ELSE Judge(f[n - 1], gs[n])]

\* Every group is judged once, as one (attachVerdicts).
LEMMA VerdictsJudged ==
    ASSUME toolUses \in Seq(Range(toolUses)), Len(sources) \in Nat,
           NEW U, Offered \subseteq U, NEW acc \in Passed(1..Len(sources), U), Judged(GroupChecks(sources), acc, 0)
    PROVE  /\ AttachVerdicts(acc) \in Passed(1..Len(sources), U)
           /\ \E n : Judged(GroupChecks(sources), AttachVerdicts(acc), n)
<1> DEFINE D == 1..Len(sources)
           gs == GroupChecks(sources)
           N == Len(gs)
           X == Passed(D, U)
           step == [p \in X \X (1..N) |-> Judge(p[1], gs[p[2]])]
           f == CHOOSE u : JudgedUp(acc, gs, u)
<1>1. /\ N \in Nat /\ DOMAIN gs = 1..N
      /\ \A g \in DOMAIN gs : gs[g].members \subseteq D
      /\ \A g, h \in DOMAIN gs : g # h => gs[g].members \cap gs[h].members = {}
  <2>1. gs \in Seq(Group(sources)) /\ GroupsAreApart(sources, gs, Len(sources))
    BY GroupsApart
  <2> HIDE DEF gs
  <2> DEFINE checks == {i \in D : JudgedAction(sources[i]) # ""}
  <2>2. /\ \A g \in DOMAIN gs : gs[g].members \subseteq checks
        /\ \A g, h \in DOMAIN gs : g # h => gs[g].members \cap gs[h].members = {}
    BY <2>1 DEF GroupsAreApart
  <2>3. checks \subseteq D
    OBVIOUS
  <2>4. N \in Nat /\ DOMAIN gs = 1..N
    BY <2>1
  <2> HIDE DEF checks, D
  <2>5. QED
    BY <2>2, <2>3, <2>4
<1>2. AttachVerdicts(acc) = f[N]
  BY DEF AttachVerdicts, JudgedUp
<1>3. Judged(gs, acc, 0)
  OBVIOUS
<1> HIDE DEF gs, D, f
<1>4. ASSUME NEW a \in X, NEW k \in 1..N
      PROVE  Judge(a, gs[k]) \in X /\ (Judged(gs, a, k - 1) => Judged(gs, Judge(a, gs[k]), k))
  <2>1. k \in DOMAIN gs /\ DOMAIN gs \subseteq Nat
    BY <1>1
  <2>2. QED
    BY <1>1, <2>1, JudgeKeeps
<1>5. PICK u \in [0..N -> X] : u[0] = acc /\ \A k \in 1..N : u[k] = step[<<u[k - 1], k>>]
  <2>1. StaysIn(step, X, N)
    BY <1>4 DEF StaysIn
  <2>2. N \in Nat /\ acc \in X
    BY <1>1 DEF D
  <2> HIDE DEF N, X, step
  <2>3. Steps(step, X, N, acc) # {}
    BY <2>1, <2>2, StepsExist
  <2>4. QED
    BY <2>3 DEF Steps
<1>6. JudgedUp(acc, gs, u)
  <2>1. \A k \in 1..N : k - 1 \in 0..N /\ u[k - 1] \in X
    <3> HIDE DEF N, X
    <3>1. QED
      BY <1>1, <1>5
  <2>2. \A k \in 1..N : u[k] = Judge(u[k - 1], gs[k])
    BY <1>5, <2>1
  <2>3. \A k \in 0..N : u[k] = IF k = 0 THEN acc ELSE Judge(u[k - 1], gs[k])
    BY <1>1, <1>5, <2>2
  <2> HIDE DEF X
  <2>4. u = [k \in 0..N |-> u[k]]
    BY <1>5
  <2>5. u = [k \in 0..N |-> IF k = 0 THEN acc ELSE Judge(u[k - 1], gs[k])]
    BY <2>3, <2>4
  <2>6. QED
    BY <2>5 DEF JudgedUp
<1>7. f = [k \in 0..N |-> IF k = 0 THEN acc ELSE Judge(f[k - 1], gs[k])]
  BY <1>6 DEF JudgedUp, f
<1>8. f[0] = acc /\ \A k \in 1..N : f[k] = Judge(f[k - 1], gs[k])
  <2> HIDE DEF N
  <2>1. QED
    BY <1>1, <1>7
<1> DEFINE Good == {k \in 0..N : f[k] \in X /\ Judged(gs, f[k], k)}
<1>9. 0 \in Good
  <2>1. f[0] \in X /\ Judged(gs, f[0], 0)
    BY <1>3, <1>8 DEF D
  <2>2. 0 \in 0..N
    BY <1>1
  <2> HIDE DEF X
  <2>3. QED
    BY <2>1, <2>2
<1>10. ASSUME NEW k \in 1..N, k - 1 \in Good PROVE k \in Good
  <2>1. f[k - 1] \in X /\ Judged(gs, f[k - 1], k - 1)
    BY <1>10
  <2>2. f[k] \in X /\ Judged(gs, f[k], k)
    BY <1>4, <1>8, <2>1
  <2> HIDE DEF X
  <2>3. k \in 0..N
    BY <1>1
  <2>4. QED
    BY <2>2, <2>3
<1>11. N \in Good
  <2> HIDE DEF Good, N
  <2>1. QED
    BY <1>1, <1>9, <1>10, PlacesInduction
<1>12. QED
  BY <1>2, <1>11 DEF gs, D

\* The sources of other kinds hang where they hung.
Others(later, before, kind) ==
    \A i \in 1..Len(sources) : sources[i].kind # kind => later.anchor[i] = before.anchor[i]
RecentUp(acc, kind, name, f) ==
    f = [n \in 0..Len(sources) |->
           IF n = 0 THEN acc
           ELSE LET a == f[n - 1]
                IN  IF sources[n].kind = kind THEN Attached(a, {n}, MostRecent(a.used, name, n)) ELSE a]

LEMMA RecentAttached ==
    ASSUME Len(sources) \in Nat, NEW U, Offered \subseteq U, NEW acc \in Passed(1..Len(sources), U), NEW kind, NEW name
    PROVE  AttachRecent(acc, kind, name) \in Passed(1..Len(sources), U) /\ Others(AttachRecent(acc, kind, name), acc, kind)
<1> DEFINE N == Len(sources)
           X == Passed(1..N, U)
           after(a, n) == IF sources[n].kind = kind THEN Attached(a, {n}, MostRecent(a.used, name, n)) ELSE a
           step == [p \in X \X (1..N) |-> after(p[1], p[2])]
           f == CHOOSE u : RecentUp(acc, kind, name, u)
<1>1. AttachRecent(acc, kind, name) = f[N]
  BY DEF AttachRecent, RecentUp
<1>2. ASSUME NEW used, NEW n PROVE MostRecent(used, name, n) \in U
  <2> DEFINE fits == {j \in DOMAIN toolUses : /\ toolUses[j].id \notin used
                                              /\ Uses[toolUses[j].id].name = name
                                              /\ toolUses[j].at <= n}
             late == {j \in fits : \A k \in fits : toolUses[k].at <= toolUses[j].at}
  <2>1. MostRecent(used, name, n) = IF fits = {} THEN NoTool ELSE toolUses[Max(late)].id
    BY DEF MostRecent
  <2>2. late \in SUBSET DOMAIN toolUses
    OBVIOUS
  <2> HIDE DEF late, fits
  <2>3. MostRecent(used, name, n) \in Offered
    BY <2>1, <2>2 DEF Offered
  <2>4. QED
    BY <2>3
<1>3. ASSUME NEW a \in X, NEW k \in 1..N
      PROVE  after(a, k) \in X /\ (Others(a, acc, kind) => Others(after(a, k), acc, kind))
  <2>1. CASE sources[k].kind = kind
    <3> DEFINE tool == MostRecent(a.used, name, k)
               b == Attached(a, {k}, tool)
    <3>1. tool \in U
      BY <1>2
    <3> HIDE DEF tool
    <3>2. /\ b \in X /\ (tool = NoTool => b = a)
          /\ tool # NoTool => \A i \in 1..N : b.anchor[i] = IF i \in {k} THEN tool ELSE a.anchor[i]
      BY <3>1, AttachedParts
    <3> HIDE DEF b
    <3>3. Others(a, acc, kind) => Others(b, acc, kind)
      BY <2>1, <3>2 DEF Others
    <3>4. after(a, k) = b
      BY <2>1 DEF b, tool
    <3> HIDE DEF after
    <3>5. QED
      BY <3>2, <3>3, <3>4
  <2>2. CASE sources[k].kind # kind
    BY <2>2
  <2>3. QED
    BY <2>1, <2>2
<1>4. f = [n \in 0..N |-> IF n = 0 THEN acc ELSE after(f[n - 1], n)]
  <2>1. PICK u \in [0..N -> X] : u[0] = acc /\ \A k \in 1..N : u[k] = step[<<u[k - 1], k>>]
    <3> HIDE DEF after
    <3>1. StaysIn(step, X, N)
      BY <1>3 DEF StaysIn
    <3>2. N \in Nat /\ acc \in X
      OBVIOUS
    <3> HIDE DEF N, X, step
    <3>3. Steps(step, X, N, acc) # {}
      BY <3>1, <3>2, StepsExist
    <3>4. QED
      BY <3>3 DEF Steps
  <2>2. \A k \in 1..N : k - 1 \in 0..N /\ u[k - 1] \in X
    <3>1. N \in Nat
      OBVIOUS
    <3> HIDE DEF N, X
    <3>2. QED
      BY <2>1, <3>1
  <2>3. \A k \in 0..N : u[k] = IF k = 0 THEN acc ELSE after(u[k - 1], k)
    <3>1. \A k \in 1..N : u[k] = after(u[k - 1], k)
      <4> HIDE DEF after
      <4>1. QED
        BY <2>1, <2>2
    <3>2. \A k \in 0..N : k = 0 \/ k \in 1..N
      OBVIOUS
    <3> HIDE DEF N, X, after
    <3>3. QED
      BY <2>1, <3>1, <3>2
  <2>4. u = [n \in 0..N |-> IF n = 0 THEN acc ELSE after(u[n - 1], n)]
    <3> HIDE DEF N, X, after
    <3>1. u = [n \in 0..N |-> u[n]]
      BY <2>1
    <3>2. QED
      BY <2>3, <3>1
  <2>5. RecentUp(acc, kind, name, u)
    BY <2>4 DEF RecentUp
  <2>6. RecentUp(acc, kind, name, f)
    BY <2>5
  <2> HIDE DEF f
  <2>7. QED
    BY <2>6 DEF RecentUp
<1> HIDE DEF f, after
<1>5. f[0] = acc /\ \A k \in 1..N : f[k] = after(f[k - 1], k)
  <2>1. N \in Nat
    OBVIOUS
  <2> HIDE DEF N
  <2>2. QED
    BY <1>4, <2>1
<1> DEFINE Good == {k \in 0..N : f[k] \in X /\ Others(f[k], acc, kind)}
<1>6. 0 \in Good
  <2>1. f[0] \in X /\ Others(f[0], acc, kind)
    BY <1>5 DEF Others
  <2> HIDE DEF X
  <2>2. QED
    BY <2>1
<1>7. ASSUME NEW k \in 1..N, k - 1 \in Good PROVE k \in Good
  <2>1. f[k - 1] \in X /\ Others(f[k - 1], acc, kind)
    BY <1>7
  <2>2. f[k] \in X /\ Others(f[k], acc, kind)
    BY <1>3, <1>5, <2>1
  <2> HIDE DEF X
  <2>3. QED
    BY <2>2
<1>8. N \in Good
  <2>1. N \in Nat
    OBVIOUS
  <2> HIDE DEF Good, N
  <2>2. QED
    BY <1>6, <1>7, <2>1, PlacesInduction
<1>9. QED
  BY <1>1, <1>8


\* The references of a call's tool uses, and those there are.
Refs(c) == Range(toolUses) \cup {[id |-> t, thread |-> Turn[c].thread, at |-> Len(sources) + 1] : t \in Tool}
NodeUp(c, refs, n, f) ==
    f = [k \in 0..Len(Info[n].uses) |-> IF k = 0 THEN refs ELSE RegisterUse(c, f[k - 1], Info[n].uses[k])]
ToolsUp(c, f) ==
    f = [k \in 0..Len(TurnChain(c)) |-> IF k = 0 THEN toolUses ELSE RegisterNode(c, f[k - 1], TurnChain(c)[k])]

LEMMA NodeRegistered ==
    ASSUME NEW c, NEW n \in Node, NEW refs \in Seq(Refs(c))
    PROVE  RegisterNode(c, refs, n) \in Seq(Refs(c))
<1> DEFINE uses == Info[n].uses
           N == Len(uses)
           X == Seq(Refs(c))
           step == [p \in X \X (1..N) |-> RegisterUse(c, p[1], uses[p[2]])]
           f == CHOOSE u : NodeUp(c, refs, n, u)
<1>1. N \in Nat /\ \A k \in 1..N : uses[k] \in Tool
  <2>1. uses \in Seq(Tool)
    BY InfoAssumption
  <2> HIDE DEF uses
  <2>2. QED
    BY <2>1
<1>2. RegisterNode(c, refs, n) = f[N]
  BY DEF RegisterNode, NodeUp
<1> HIDE DEF uses, f
<1>3. ASSUME NEW y \in X, NEW k \in 1..N PROVE RegisterUse(c, y, uses[k]) \in X
  <2> DEFINE ref == [id |-> uses[k], thread |-> Turn[c].thread, at |-> Len(sources) + 1]
  <2>1. RegisterUse(c, y, uses[k]) \in {y, Append(y, ref)}
    BY DEF RegisterUse
  <2>2. ref \in Refs(c)
    BY <1>1 DEF Refs
  <2> HIDE DEF ref
  <2>3. Append(y, ref) \in X
    BY <2>2
  <2> HIDE DEF X
  <2>4. QED
    BY <2>1, <2>3
<1>4. PICK u \in [0..N -> X] : u[0] = refs /\ \A k \in 1..N : u[k] = step[<<u[k - 1], k>>]
  <2>1. StaysIn(step, X, N)
    BY <1>3 DEF StaysIn
  <2>2. refs \in X
    OBVIOUS
  <2> HIDE DEF N, X, step
  <2>3. Steps(step, X, N, refs) # {}
    BY <1>1, <2>1, <2>2, StepsExist
  <2>4. QED
    BY <2>3 DEF Steps
<1>5. f = [k \in 0..N |-> IF k = 0 THEN refs ELSE RegisterUse(c, f[k - 1], uses[k])]
  <2>1. \A k \in 1..N : k - 1 \in 0..N /\ u[k - 1] \in X
    <3> HIDE DEF N, X
    <3>1. QED
      BY <1>1, <1>4
  <2>2. \A k \in 1..N : u[k] = RegisterUse(c, u[k - 1], uses[k])
    BY <1>4, <2>1
  <2>3. \A k \in 0..N : u[k] = IF k = 0 THEN refs ELSE RegisterUse(c, u[k - 1], uses[k])
    BY <1>1, <1>4, <2>2
  <2> HIDE DEF X
  <2>4. u = [k \in 0..N |-> u[k]]
    BY <1>4
  <2>5. u = [k \in 0..N |-> IF k = 0 THEN refs ELSE RegisterUse(c, u[k - 1], uses[k])]
    BY <2>3, <2>4
  <2>6. NodeUp(c, refs, n, u)
    BY <2>5 DEF NodeUp, uses
  <2>7. QED
    BY <2>6 DEF NodeUp, f, uses
<1>6. f[0] = refs /\ \A k \in 1..N : f[k] = RegisterUse(c, f[k - 1], uses[k])
  <2> HIDE DEF N
  <2>1. QED
    BY <1>1, <1>5
<1> DEFINE Good == {k \in 0..N : f[k] \in X}
<1>7. 0 \in Good
  BY <1>1, <1>6
<1>8. ASSUME NEW k \in 1..N, k - 1 \in Good PROVE k \in Good
  BY <1>1, <1>3, <1>6, <1>8
<1>9. N \in Good
  <2> HIDE DEF Good, N
  <2>1. QED
    BY <1>1, <1>7, <1>8, PlacesInduction
<1>10. QED
  BY <1>2, <1>9

LEMMA ToolsRegistered ==
    ASSUME NEW c \in Call, Turn[c].parse = "ok", toolUses \in Seq(Range(toolUses))
    PROVE  RegisterTools(c) \in Seq(Refs(c))
<1> DEFINE chain == TurnChain(c)
           N == Len(chain)
           X == Seq(Refs(c))
           step == [p \in X \X (1..N) |-> RegisterNode(c, p[1], chain[p[2]])]
           f == CHOOSE u : ToolsUp(c, u)
<1>1. N \in Nat /\ \A k \in 1..N : chain[k] \in Node
  <2>1. chain \in Seq(Node)
    BY ChainAssumption DEF TurnChain
  <2> HIDE DEF chain
  <2>2. QED
    BY <2>1
<1>2. RegisterTools(c) = f[N]
  BY DEF RegisterTools, ToolsUp
<1> HIDE DEF chain, f
<1>3. ASSUME NEW y \in X, NEW k \in 1..N PROVE RegisterNode(c, y, chain[k]) \in X
  BY <1>1, NodeRegistered
<1>4. toolUses \in X
  BY DEF Refs
<1>5. PICK u \in [0..N -> X] : u[0] = toolUses /\ \A k \in 1..N : u[k] = step[<<u[k - 1], k>>]
  <2>1. StaysIn(step, X, N)
    BY <1>3 DEF StaysIn
  <2> HIDE DEF N, X, step
  <2>2. Steps(step, X, N, toolUses) # {}
    BY <1>1, <1>4, <2>1, StepsExist
  <2>3. QED
    BY <2>2 DEF Steps
<1>6. f = [k \in 0..N |-> IF k = 0 THEN toolUses ELSE RegisterNode(c, f[k - 1], chain[k])]
  <2>1. \A k \in 1..N : k - 1 \in 0..N /\ u[k - 1] \in X
    <3> HIDE DEF N, X
    <3>1. QED
      BY <1>1, <1>5
  <2>2. \A k \in 1..N : u[k] = RegisterNode(c, u[k - 1], chain[k])
    BY <1>5, <2>1
  <2>3. \A k \in 0..N : u[k] = IF k = 0 THEN toolUses ELSE RegisterNode(c, u[k - 1], chain[k])
    BY <1>1, <1>5, <2>2
  <2> HIDE DEF X
  <2>4. u = [k \in 0..N |-> u[k]]
    BY <1>5
  <2>5. u = [k \in 0..N |-> IF k = 0 THEN toolUses ELSE RegisterNode(c, u[k - 1], chain[k])]
    BY <2>3, <2>4
  <2>6. ToolsUp(c, u)
    BY <2>5 DEF ToolsUp, chain
  <2>7. QED
    BY <2>6 DEF ToolsUp, f, chain
<1>7. f[0] = toolUses /\ \A k \in 1..N : f[k] = RegisterNode(c, f[k - 1], chain[k])
  <2> HIDE DEF N
  <2>1. QED
    BY <1>1, <1>6
<1> DEFINE Good == {k \in 0..N : f[k] \in X}
<1>8. 0 \in Good
  BY <1>1, <1>4, <1>7
<1>9. ASSUME NEW k \in 1..N, k - 1 \in Good PROVE k \in Good
  BY <1>1, <1>3, <1>7, <1>9
<1>10. N \in Good
  <2> HIDE DEF Good, N
  <2>1. QED
    BY <1>1, <1>8, <1>9, PlacesInduction
<1>11. QED
  BY <1>2, <1>10

\* The tool uses are in a row; until Finish a source hangs off what its row says.
JudgeInv ==
    /\ toolUses \in Seq(Range(toolUses))
    /\ phase = "feed" => \A i \in DOMAIN sources : sources[i].anchor = Turn[sources[i].call].anchor
    /\ VerdictsOneToOne

\* Finish leaves the groups as the verdicts' pass did.
LEMMA FinishJudges ==
    ASSUME SourcesAreCalls, JudgeInv, phase = "feed"
    PROVE  \E acc, n : /\ Judged(GroupChecks(sources), acc, n)
                       /\ \A i \in DOMAIN sources : JudgedAction(sources[i]) # "" => Anchors[i] = acc.anchor[i]
<1> DEFINE N == Len(sources)
           U == Offered \cup {sources[i].anchor : i \in 1..N}
           anchor == [i \in DOMAIN sources |-> sources[i].anchor]
           first == [used |-> {}, anchor |-> anchor]
           v == AttachVerdicts(first)
           w == AttachWebSummaries(v)
           p == AttachPlans(w)
           gs == GroupChecks(sources)
<1>1. N \in Nat /\ DOMAIN sources = 1..N
  BY DEF SourcesAreCalls
<1>2. first \in Passed(1..N, U)
  BY <1>1 DEF Passed
<1>3. ASSUME NEW i \in 1..N, JudgedAction(sources[i]) # ""
      PROVE  first.anchor[i] = NoTool /\ sources[i].kind \in Checks
  BY <1>1, <1>3, JudgedAssumption DEF JudgedAction, JudgeInv, SourcesAreCalls
<1>4. Judged(gs, first, 0)
  <2> DEFINE checks == {i \in 1..N : JudgedAction(sources[i]) # ""}
  <2>1. \A g \in DOMAIN gs : gs[g].members \subseteq checks
    BY <1>1, GroupsApart DEF GroupsAreApart
  <2>2. \A i \in checks : first.anchor[i] = NoTool
    BY <1>3
  <2> HIDE DEF gs, checks, first
  <2>3. QED
    BY <2>1, <2>2 DEF Judged
<1>5. v \in Passed(1..N, U) /\ \E n : Judged(gs, v, n)
  <2> HIDE DEF first
  <2>1. toolUses \in Seq(Range(toolUses)) /\ Offered \subseteq U
    BY DEF JudgeInv
  <2> HIDE DEF U
  <2>2. QED
    BY <1>1, <1>2, <1>4, <2>1, VerdictsJudged
<1> HIDE DEF v, first
<1>6. w \in Passed(1..N, U) /\ Others(w, v, "offshoot:web-summary")
  <2>1. Offered \subseteq U
    OBVIOUS
  <2> HIDE DEF U
  <2>2. QED
    BY <1>1, <1>5, <2>1, RecentAttached DEF AttachWebSummaries
<1> HIDE DEF w
<1>7. Others(p, w, "offshoot:plan-name-gen")
  <2>1. Offered \subseteq U
    OBVIOUS
  <2> HIDE DEF U
  <2>2. QED
    BY <1>1, <1>6, <2>1, RecentAttached DEF AttachPlans
<1> HIDE DEF p
<1>8. Anchors = p.anchor
  BY DEF Anchors, p, w, v, first
<1>9. \A i \in 1..N : JudgedAction(sources[i]) # "" => p.anchor[i] = v.anchor[i]
  <2>1. ASSUME NEW i \in 1..N, JudgedAction(sources[i]) # "" PROVE p.anchor[i] = v.anchor[i]
    <3>1. sources[i].kind # "offshoot:web-summary" /\ sources[i].kind # "offshoot:plan-name-gen"
      BY <1>3, <2>1 DEF Checks
    <3>2. QED
      BY <1>6, <1>7, <3>1 DEF Others
  <2>2. QED
    BY <2>1
<1>10. QED
  BY <1>1, <1>5, <1>8, <1>9

LEMMA JudgeStep ==
    ASSUME WalkInv, JudgeInv, [Next]_vars
    PROVE  JudgeInv'
<1>0. SourcesAreCalls /\ sources \in Seq(Range(sources)) /\ toolUses \in Seq(Range(toolUses))
  BY DEF WalkInv, SourcesAreCalls, JudgeInv
<1>1. CASE FeedTurn
  <2>1. phase = "feed" /\ phase' = "feed"
    BY <1>1 DEF FeedTurn, walkVars
  <2>2. PICK c \in Call : AddTurn(c)
    BY <1>1 DEF FeedTurn, Feed
  <2>3. CASE SkipTurn(c)
    BY <2>1, <2>3 DEF SkipTurn, JudgeInv, VerdictsOneToOne
  <2>4. CASE RederiveChain(c) = "ok" /\ AddChainTurn(c)
    <3>1. toolUses' \in Seq(Refs(c))
      BY <1>0, <2>4, ToolsRegistered DEF AddChainTurn, RederiveChain
    <3>2. toolUses' \in Seq(Range(toolUses'))
      BY <3>1 DEF Range
    <3> DEFINE s == [call |-> c, kind |-> ClassifyCall(Turn[c].tags), thread |-> Turn[c].thread, at |-> Len(captured) + 1,
                     chain |-> TurnChain(c), new |-> {i \in DOMAIN TurnChain(c) : TurnChain(c)[i] \notin DOMAIN nodes},
                     anchor |-> Turn[c].anchor, from |-> Turn[c].source, turn |-> Turn[c].turn]
               n == Len(sources)
    <3>3. sources' = Append(sources, s) /\ s.anchor = Turn[s.call].anchor
      BY <2>4 DEF AddChainTurn
    <3> HIDE DEF s
    <3>4. /\ n \in Nat /\ DOMAIN sources = 1..n /\ DOMAIN sources' = 1..(n + 1) /\ sources'[n + 1] = s
          /\ \A i \in 1..n : sources'[i] = sources[i]
      BY <1>0, <3>3, Appended
    <3> HIDE DEF n
    <3>5. \A i \in 1..(n + 1) : i \in 1..n \/ i = n + 1
      BY <3>4
    <3>6. \A i \in DOMAIN sources' : sources'[i].anchor = Turn[sources'[i].call].anchor
      BY <2>1, <3>3, <3>4, <3>5 DEF JudgeInv
    <3>7. VerdictsOneToOne'
      BY <2>1 DEF VerdictsOneToOne
    <3>8. QED
      BY <3>2, <3>6, <3>7 DEF JudgeInv
  <2>5. QED
    BY <2>2, <2>3, <2>4 DEF AddTurn
<1>2. CASE BeginWalk
  <2>1. phase = "feed" /\ phase' = "spine" /\ toolUses' = toolUses
        /\ sources' = [i \in DOMAIN sources |-> [sources[i] EXCEPT !.anchor = Anchors[i]]]
    BY <1>2 DEF BeginWalk, Finish
  <2> DEFINE N == Len(sources)
             anchors == Anchors
             gs == GroupChecks(sources)
  <2>2. PICK acc, n : /\ Judged(gs, acc, n)
                      /\ \A i \in DOMAIN sources : JudgedAction(sources[i]) # "" => anchors[i] = acc.anchor[i]
    BY <1>0, <2>1, FinishJudges
  <2> HIDE DEF anchors
  <2>3. N \in Nat /\ DOMAIN sources = 1..N
    BY <1>0
  <2>4. \A i \in 1..N : DOMAIN sources[i] = SourceFields
    BY <1>0, <2>3 DEF SourcesAreCalls
  <2>5. DOMAIN sources' = 1..N /\ \A i \in 1..N : sources'[i] = [sources[i] EXCEPT !.anchor = anchors[i]]
    BY <2>1, <2>3 DEF anchors
  <2>6. \A i \in 1..N : /\ sources'[i].anchor = anchors[i] /\ sources'[i].thread = sources[i].thread
                        /\ sources'[i].kind = sources[i].kind /\ sources'[i].call = sources[i].call
    BY <2>4, <2>5 DEF SourceFields
  <2>7. Len(sources') = N
    BY <2>3, <2>5
  <2>8. GroupChecks(sources') = gs
    BY <2>3, <2>6, <2>7, GroupsAgree
  <2>9. \A g \in DOMAIN gs : \A i \in gs[g].members : i \in 1..N /\ JudgedAction(sources[i]) # ""
    <3>1. \A g \in DOMAIN gs : gs[g].members \subseteq {i \in 1..N : JudgedAction(sources[i]) # ""}
      BY <2>3, GroupsApart DEF GroupsAreApart
    <3>2. QED
      BY <3>1
  <2> HIDE DEF gs
  <2>10. \A g \in DOMAIN gs : \A i \in gs[g].members : sources'[i].anchor = acc.anchor[i]
    BY <2>2, <2>3, <2>6, <2>9
  <2>11. ASSUME NEW g \in DOMAIN gs, NEW h \in DOMAIN gs, NEW i \in gs[g].members, NEW j \in gs[h].members
         PROVE  /\ g = h => sources'[i].anchor = sources'[j].anchor
                /\ g # h => sources'[i].anchor = NoTool \/ sources'[i].anchor # sources'[j].anchor
    <3>1. sources'[i].anchor = acc.anchor[i] /\ sources'[j].anchor = acc.anchor[j]
      BY <2>10
    <3> DEFINE after == acc.anchor
    <3>0. Judged(gs, acc, n)
      BY <2>2
    <3>2. g = h => after[i] = after[j]
      <4>1. PICK t : \A k \in gs[g].members : after[k] = t
        BY <3>0 DEF Judged
      <4>2. QED
        BY <4>1
    <3>3. g # h => after[i] = NoTool \/ after[i] # after[j]
      BY <3>0 DEF Judged
    <3>4. QED
      BY <3>1, <3>2, <3>3
  <2>12. VerdictsOneToOne'
    BY <2>8, <2>11 DEF VerdictsOneToOne
  <2>13. QED
    BY <1>0, <2>1, <2>12 DEF JudgeInv
<1>3. ASSUME sources' = sources, toolUses' = toolUses, phase' # "feed",
             phase' = "spine" /\ pos' = 0 => phase = "spine" /\ pos = 0
      PROVE  JudgeInv'
  <2>1. VerdictsOneToOne'
    BY <1>3 DEF VerdictsOneToOne, JudgeInv
  <2>2. QED
    BY <1>0, <1>3, <2>1 DEF JudgeInv
<1>4. CASE SpineStep
  <2>1. sources' = sources /\ toolUses' = toolUses /\ phase = "spine" /\ phase' = "spine" /\ pos' = pos + 1
    BY <1>4 DEF SpineStep, feedVars
  <2>2. pos \in 0..Len(sources) /\ Len(sources) \in Nat
    BY <1>0 DEF WalkInv, Phased
  <2>3. pos' # 0
    BY <2>1, <2>2
  <2>4. QED
    BY <1>3, <2>1, <2>3
<1>5. CASE EndSpine \/ ThreadStep \/ EndPass \/ EndThreads \/ LeftoverStep \/ ShadowStep \/ EndShadows
  <2>1. sources' = sources /\ toolUses' = toolUses /\ phase' # "feed" /\ phase' # "spine"
    BY <1>5 DEF EndSpine, ThreadStep, EndPass, EndThreads, LeftoverStep, ShadowStep, EndShadows, feedVars
  <2>2. QED
    BY <1>3, <2>1
<1>6. CASE UNCHANGED vars
  <2>1. sources' = sources /\ toolUses' = toolUses /\ phase' = phase /\ pos' = pos
    BY <1>6 DEF vars, feedVars, walkVars
  <2>2. QED
    BY <2>1 DEF JudgeInv, VerdictsOneToOne
<1>7. QED
  BY <1>1, <1>2, <1>4, <1>5, <1>6 DEF Next, Walk, Rest

\* A tool use is judged as one action, and the checks of an action judge one
\* tool use (attachVerdicts).
THEOREM VerdictsHold == Spec => []VerdictsOneToOne
<1>1. Init => JudgeInv
  <2>1. ASSUME Init PROVE toolUses = <<>> /\ sources = <<>> /\ phase = "feed"
    BY <2>1 DEF Init, FeedInit
  <2>2. QED
    BY <2>1 DEF JudgeInv, VerdictsOneToOne, Range
<1>2. WalkInv /\ JudgeInv /\ [Next]_vars => JudgeInv'
  BY JudgeStep
<1>3. JudgeInv => VerdictsOneToOne
  BY DEF JudgeInv
<1>4. QED
  BY <1>1, <1>2, <1>3, WalkHolds, PTL DEF Spec

\* Prompts open one trace, verdicts judge one use, threads hang off what
\* spawned them, where the transcripts do not claim a prompt twice and the
\* calls of a thread name one spawning use.
THEOREM AttributionsAreSound == Spec => [](TranscriptPromptsAreOwn /\ ThreadAnchorsAgree => AttributionsHold)
<1>1. PromptsOnce /\ VerdictsOneToOne /\ ThreadsAnchored => AttributionsHold
  BY DEF AttributionsHold
<1>2. QED
  BY <1>1, PromptsOpenOnce, ThreadsAreAnchored, VerdictsHold, PTL
=============================================================================
