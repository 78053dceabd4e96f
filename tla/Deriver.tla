-------------------------------- MODULE Deriver --------------------------------
(***************************************************************************)
(* The first half of a derive pass (pkg/derive): the raw turns of one      *)
(* session, in capture order, become the sources the span model is drawn   *)
(* from.  Every call re-sends its conversation, so its nodes are kept once; *)
(* permission checks, web summaries and plan names are tied to the tool    *)
(* use they are about, and subagent threads to the call that spawned them. *)
(*                                                                         *)
(* A prompt's text is the tags ClassifyCall looks for, a node its hash, a  *)
(* rendered action a value two renderings of it share.  The capture time   *)
(* of a turn is its place in the order it is fed in.                       *)
(***************************************************************************)
EXTENDS Integers, Sequences, FiniteSets, FiniteSetsExt, SequencesExt

CONSTANTS
    Call,     \* raw turns that may be captured
    Turn,     \* Call -> what the row holds
    Node,     \* conversation nodes, by hash
    Info,     \* Node -> its role, kind, tool uses, tool results, parent
    Tool,     \* tool use ids
    Uses,     \* Tool -> its name and rendered action
    Files,    \* the transcripts uploaded with the session, in order
    MainThread, NoTool, NoNode, NoTurn,
    MaxCalls  \* bound: calls captured

ASSUME AnchorAssumption == NoTool \notin Tool /\ NoNode \notin Node
ASSUME InfoAssumption == \A n \in Node : Info[n].uses \in Seq(Tool)
\* A call that parses has at least its response.
ASSUME ChainAssumption == \A c \in Call : Turn[c].parse = "ok" => Turn[c].chain \in Seq(Node) \ {<<>>}
\* The transcript's projection names a turn on the call that opens it and no
\* other (Transcripts, TurnsOpenOnce), and the names are no call's.
ASSUME TurnAssumption ==
    \A c \in Call : Turn[c].turn # NoTurn =>
        Turn[c].turn \notin Call /\ \A d \in Call : Turn[d].turn = Turn[c].turn => d = c
\* Only a transcript's turn comes with its spawning tool use (AddTranscriptTurn),
\* and only a call on the wire judges an action (AddTurn).
ASSUME JudgedAssumption == \A c \in Call : Turn[c].judged # "" => Turn[c].anchor = NoTool
\* The tokens of a call are a number (llm.Usage).
ASSUME TokensAssumption == \A c \in Call : Turn[c].tokens \in Int

VARIABLES
    captured, \* the calls fed, in order
    nodes,    \* retained node -> the kind its first capture gave it
    toolUses, \* the tool uses in the order first seen
    sources,  \* per parsed call, the source of its span
    stamped   \* node -> tool: the spawn edges reconciliation stamps

feedVars == <<captured, nodes, toolUses, sources, stamped>>

Main == "main"
Compaction == "offshoot:compaction"
Checks == {"offshoot:permission-check:stage1", "offshoot:permission-check:stage2"}

-----------------------------------------------------------------------------
(* One call.                                                                *)

\* A tool choice that routes tools, on the responses endpoint.
ResponsesToolRoutingEnabled(tags) == {"responses", "tool-choice"} \subseteq tags
\* The header and any one section heading.
IsCompactionSummary(tags) == {"summary-header", "summary-section"} \subseteq tags

\* The first rule that fits; the monitor's checks before everything else.
ClassifyCall(tags) ==
    IF "monitor" \in tags
    THEN IF tags \cap {"budget64", "budget1", "block-hint"} # {}
         THEN "offshoot:permission-check:stage1" ELSE "offshoot:permission-check:stage2"
    ELSE IF "budget1" \in tags /\ "tools" \notin tags THEN "offshoot:probe"
    ELSE IF "suggestion" \in tags THEN "offshoot:suggestion"
    ELSE IF ("title-system" \in tags /\ "tools" \notin tags) \/ "title-reply" \in tags THEN "offshoot:title-gen"
    ELSE IF ("plan-system" \in tags /\ "tools" \notin tags) \/ "name-reply" \in tags THEN "offshoot:plan-name-gen"
    ELSE IF "web-page" \in tags THEN "offshoot:web-summary"
    ELSE IF "compact-prompt" \in tags \/ IsCompactionSummary(tags) THEN Compaction
    ELSE IF "stream" \in tags /\ ("tools" \in tags \/ ResponsesToolRoutingEnabled(tags)) THEN Main
    ELSE "unknown"

\* A harness insert by its opening words; a node with other blocks is none.
ClassifyInjected(n) == Info[n].injected
Injected(n) == Info[n].injected # ""

\* The chain of a call: its request's nodes and its response, each of the
\* call's kind or its own injected one.
TurnChain(c) == Turn[c].chain
ChainKind(c, n) == IF Injected(n) THEN ClassifyInjected(n) ELSE ClassifyCall(Turn[c].tags)

\* "bad": no provider, or a body that does not parse.  "raw": no response yet.
RederiveChain(c) == Turn[c].parse

Nodes(chain) == {chain[i] : i \in DOMAIN chain}

\* The tool uses of a chain that are not registered yet, in its order.
RegisterUse(c, refs, tool) ==
    IF \E i \in DOMAIN refs : refs[i].id = tool THEN refs
    ELSE Append(refs, [id |-> tool, thread |-> Turn[c].thread, at |-> Len(sources) + 1])
RegisterNode(c, refs, n) ==
    LET uses == Info[n].uses
        upTo[k \in 0..Len(uses)] == IF k = 0 THEN refs ELSE RegisterUse(c, upTo[k - 1], uses[k])
    IN  upTo[Len(uses)]
RegisterTools(c) ==
    LET upTo[k \in 0..Len(TurnChain(c))] ==
          IF k = 0 THEN toolUses ELSE RegisterNode(c, upTo[k - 1], TurnChain(c)[k])
    IN  upTo[Len(TurnChain(c))]

\* First capture wins: of a node, of its kind, of a tool use.
AddChainTurn(c) ==
    /\ nodes' = [n \in DOMAIN nodes \cup Nodes(TurnChain(c)) |->
                   IF n \in DOMAIN nodes THEN nodes[n] ELSE ChainKind(c, n)]
    /\ toolUses' = RegisterTools(c)
    /\ sources' = Append(sources,
         [call |-> c, kind |-> ClassifyCall(Turn[c].tags), thread |-> Turn[c].thread, at |-> Len(captured) + 1,
          chain |-> TurnChain(c), new |-> {i \in DOMAIN TurnChain(c) : TurnChain(c)[i] \notin DOMAIN nodes},
          anchor |-> Turn[c].anchor, from |-> Turn[c].source, turn |-> Turn[c].turn])

\* A row that does not parse, or has no response, leaves a count.
SkipTurn(c) ==
    /\ RederiveChain(c) # "ok"
    /\ UNCHANGED <<nodes, toolUses, sources>>

AddTurn(c) ==
    /\ captured' = Append(captured, c)
    /\ \/ SkipTurn(c)
       \/ RederiveChain(c) = "ok" /\ AddChainTurn(c)
    /\ UNCHANGED stamped

-----------------------------------------------------------------------------
(* The attach passes: sources in order, each tool use consumed once.        *)

\* The first use not consumed whose rendering is the action's.
MatchToolUse(used, action, thread, sameThread) ==
    LET fits == {i \in DOMAIN toolUses : /\ toolUses[i].id \notin used
                                         /\ sameThread => toolUses[i].thread = thread
                                         /\ Uses[toolUses[i].id].action = action}
    IN  IF fits = {} THEN NoTool ELSE toolUses[Min(fits)].id

\* The checks of one action share one attachment; a stage-2 check carries no
\* thread and joins the first group of the action.
JudgedAction(s) == IF s.kind \in Checks THEN Turn[s.call].judged ELSE ""
Joins(g, s) == /\ g.action = JudgedAction(s)
               /\ s.thread = MainThread \/ g.thread = MainThread \/ g.thread = s.thread
Joined(g, s, i) == [g EXCEPT !.members = @ \cup {i}, !.thread = IF @ = MainThread THEN s.thread ELSE @]
Grouped(srcs, gs, i) ==
    LET s == srcs[i]
        fits == {j \in DOMAIN gs : Joins(gs[j], s)}
    IN  IF JudgedAction(s) = "" THEN gs
        ELSE IF fits = {} THEN Append(gs, [action |-> JudgedAction(s), thread |-> s.thread, members |-> {i}])
        ELSE [gs EXCEPT ![Min(fits)] = Joined(@, s, i)]
GroupChecks(srcs) ==
    LET upTo[n \in 0..Len(srcs)] == IF n = 0 THEN <<>> ELSE Grouped(srcs, upTo[n - 1], n)
    IN  upTo[Len(srcs)]

Attached(acc, members, tool) ==
    IF tool = NoTool THEN acc
    ELSE [used |-> acc.used \cup {tool},
          anchor |-> [i \in DOMAIN acc.anchor |-> IF i \in members THEN tool ELSE acc.anchor[i]]]

\* Mutant: a tool use can be judged twice.
JudgeReuses(acc, g) ==
    LET same == MatchToolUse({}, g.action, g.thread, TRUE)
    IN  Attached(acc, g.members, IF same # NoTool THEN same ELSE MatchToolUse({}, g.action, g.thread, FALSE))

\* In the check's own thread first, anywhere when that has none.
Judge(acc, g) ==
    LET same == MatchToolUse(acc.used, g.action, g.thread, TRUE)
    IN  Attached(acc, g.members, IF same # NoTool THEN same ELSE MatchToolUse(acc.used, g.action, g.thread, FALSE))
AttachVerdicts(acc) ==
    LET groups == GroupChecks(sources)
        upTo[n \in 0..Len(groups)] == IF n = 0 THEN acc ELSE Judge(upTo[n - 1], groups[n])
    IN  upTo[Len(groups)]

\* The latest use of the tool named, seen by then and not consumed.
MostRecent(used, name, i) ==
    LET fits == {j \in DOMAIN toolUses : /\ toolUses[j].id \notin used
                                         /\ Uses[toolUses[j].id].name = name
                                         /\ toolUses[j].at <= i}
    IN  IF fits = {} THEN NoTool
        ELSE toolUses[Max({j \in fits : \A k \in fits : toolUses[k].at <= toolUses[j].at})].id
AttachRecent(acc, kind, name) ==
    LET upTo[n \in 0..Len(sources)] ==
          IF n = 0 THEN acc
          ELSE LET a == upTo[n - 1]
               IN  IF sources[n].kind = kind THEN Attached(a, {n}, MostRecent(a.used, name, n)) ELSE a
    IN  upTo[Len(sources)]
AttachWebSummaries(acc) == AttachRecent(acc, "offshoot:web-summary", "web")
AttachPlans(acc) == AttachRecent(acc, "offshoot:plan-name-gen", "plan")

Anchors ==
    AttachPlans(AttachWebSummaries(AttachVerdicts(
        [used |-> {}, anchor |-> [i \in DOMAIN sources |-> sources[i].anchor]]))).anchor

-----------------------------------------------------------------------------
(* Reconciliation with the transcripts.                                     *)

\* A conversation is the main nodes that hang off one root.
Roots == {n \in DOMAIN nodes : nodes[n] = Main /\ Info[n].parent = NoNode}
Conversation(root) ==
    LET more(have) == have \cup {n \in DOMAIN nodes : nodes[n] = Main /\ Info[n].parent \in have}
        grow[k \in Nat] == IF k = 0 THEN {root} ELSE more(grow[k - 1])
    IN  grow[Cardinality(DOMAIN nodes)]
\* The thread of the call that first brought the root.
RootThread(root) ==
    LET first == Min({i \in DOMAIN sources : root \in Nodes(sources[i].chain)}) IN sources[first].thread

\* A transcript explains a conversation by its thread, else by what they share.
BestFile(root) ==
    LET named == {f \in DOMAIN Files : RootThread(root) # MainThread /\ Files[f].agent = RootThread(root)}
        nodesOf == Conversation(root)
        shared == [f \in DOMAIN Files |-> Cardinality(nodesOf \cap Files[f].holds)]
        most == {f \in DOMAIN Files : shared[f] > 0 /\ \A g \in DOMAIN Files : shared[g] <= shared[f]}
    IN  IF named # {} THEN Min(named) ELSE IF most # {} THEN Min(most) ELSE 0

\* Wire conversations only: a projected transcript explains itself.
Authoritative == /\ \E i \in DOMAIN sources : sources[i].kind = Main /\ sources[i].from = "wire"
                 /\ ~\E i \in DOMAIN sources : sources[i].kind = Main /\ sources[i].from = "transcript"
ReconcileTranscriptChains ==
    LET best == [r \in IF Authoritative THEN Roots ELSE {} |-> BestFile(r)]
        spawned == {r \in DOMAIN best : best[r] # 0 /\ Files[best[r]].agent # MainThread
                                        /\ Files[best[r]].tool # NoTool}
    IN  [r \in spawned |-> Files[best[r]].tool]

\* Finish and reconcile.
Finish ==
    /\ LET anchors == Anchors IN
       sources' = [i \in DOMAIN sources |-> [sources[i] EXCEPT !.anchor = anchors[i]]]
    /\ stamped' = ReconcileTranscriptChains
    /\ UNCHANGED <<captured, nodes, toolUses>>

FeedInit ==
    /\ captured = <<>> /\ nodes = [n \in {} |-> ""] /\ toolUses = <<>>
    /\ sources = <<>> /\ stamped = [n \in {} |-> NoTool]
\* Transcripts are projected for want of any main call on the wire.
WireMain(c) == Turn[c].source = "wire" /\ RederiveChain(c) = "ok" /\ ClassifyCall(Turn[c].tags) = Main
Suppressed(c) ==
    \E i \in DOMAIN captured :
        \/ (WireMain(captured[i]) /\ Turn[c].source = "transcript")
        \/ (WireMain(c) /\ Turn[captured[i]].source = "transcript")
Feed ==
    /\ Len(captured) < MaxCalls
    /\ \E c \in Call : /\ \A i \in DOMAIN captured : captured[i] # c
                       /\ ~Suppressed(c)
                       /\ AddTurn(c)
=============================================================================
