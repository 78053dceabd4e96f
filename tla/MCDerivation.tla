----------------------------- MODULE MCDerivation -----------------------------
(***************************************************************************)
(* What derivation makes of what is stored, one subject at a time: a pass  *)
(* over calls, or the files a harness keeps.  The other stays as it        *)
(* starts.                                                                 *)
(*                                                                         *)
(* The pass is over a conversation of three prompts with a subagent x, a   *)
(* subagent y that x spawns, a subagent z that y spawns, checks that judge *)
(* one rendered action used twice, a compaction and what the harness asks  *)
(* on the side; or over its transcripts instead.                           *)
(*                                                                         *)
(* The files are a session's, whose first answer comes in two fragments, a *)
(* tool's result between them, with a retry that branches off after the    *)
(* first; a subagent's that reuses the raw id it was spawned by; and those *)
(* of a thread known only by its parent's rollout.                         *)
(***************************************************************************)
EXTENDS SpanEmitter

CONSTANTS
    Record, RecordInfo, Agent, MainAgent, SpawnTool, WireCall, WireInfo, None, MaxRecords, MaxRows

VARIABLES subject, disk, rows, wire

History == INSTANCE Transcripts WITH Info <- RecordInfo

-----------------------------------------------------------------------------

N(role, injected, uses, results, parent) ==
    [role |-> role, injected |-> injected, uses |-> uses, results |-> results, parent |-> parent]
InfoTable ==
    [p1 |-> N("user", "", <<>>, {}, NoNode), a1 |-> N("assistant", "", <<"t1">>, {}, "p1"),
     r1 |-> N("user", "", <<>>, {"t1"}, "a1"), a2 |-> N("assistant", "", <<"b1">>, {}, "r1"),
     i1 |-> N("system", "", <<>>, {}, "a2"), p2 |-> N("user", "", <<>>, {}, "i1"),
     a3 |-> N("assistant", "", <<"b2", "w1">>, {}, "p2"), s1 |-> N("user", "", <<>>, {}, NoNode),
     a4 |-> N("assistant", "", <<"b1">>, {}, "s1"), q1 |-> N("user", "", <<>>, {}, "a2"),
     z1 |-> N("assistant", "", <<>>, {}, "q1"), g1 |-> N("user", "", <<>>, {}, NoNode),
     h1 |-> N("assistant", "", <<"t2">>, {}, "g1"), u1 |-> N("user", "injected:mode-banner", <<>>, {}, "h1"),
     h2 |-> N("assistant", "", <<>>, {}, "h1"), g2 |-> N("user", "", <<>>, {}, NoNode),
     h3 |-> N("assistant", "", <<"t3">>, {}, "g2"),
     g3 |-> N("user", "", <<>>, {}, NoNode), h4 |-> N("assistant", "", <<>>, {}, "g3"), c1 |-> N("user", "", <<>>, {}, NoNode),
     v1 |-> N("assistant", "", <<>>, {}, "c1"), v2 |-> N("assistant", "", <<>>, {}, "c1"),
     w2 |-> N("assistant", "", <<>>, {}, "c1"), e1 |-> N("assistant", "", <<"t1">>, {}, "p1")]
MCInfo == InfoTable
UsesTable == [t1 |-> [name |-> "task", action |-> "spawn"], t2 |-> [name |-> "task", action |-> "spawn"],
           t3 |-> [name |-> "task", action |-> "spawn"],
           b1 |-> [name |-> "bash", action |-> "rm"], b2 |-> [name |-> "bash", action |-> "rm"],
           w1 |-> [name |-> "web", action |-> "fetch"]]
MCUses == UsesTable
FilesTable == <<[agent |-> MainThread, tool |-> NoTool, holds |-> {"p1", "a1"}],
             [agent |-> "x", tool |-> "t1", holds |-> {"g1", "h1"}],
             [agent |-> "y", tool |-> "t2", holds |-> {"g2"}],
             [agent |-> "z", tool |-> "t3", holds |-> {"g3"}]>>
MCFiles == FilesTable
T(tags, thread, chain, judged, reply) ==
    [tags |-> tags, thread |-> thread, chain |-> chain, judged |-> judged, reply |-> reply, parse |-> "ok",
     source |-> "wire", turn |-> NoTurn, anchor |-> NoTool, tokens |-> Len(chain), model |-> IF thread = MainThread THEN "big" ELSE "small"]
M == {"stream", "tools"}
TurnTable ==
    [m1 |-> T(M, MainThread, <<"p1", "a1">>, "", ""),
     m2 |-> T(M, MainThread, <<"p1", "a1", "r1", "a2">>, "", ""),
     m3 |-> T(M, MainThread, <<"p1", "a1", "r1", "a2", "i1", "p2", "a3">>, "", ""),
     m4 |-> T(M, MainThread, <<"s1", "a4">>, "", ""),
     k1 |-> T(M \cup {"compact-prompt"}, MainThread, <<"p1", "a1", "r1", "a2", "q1", "z1">>, "", ""),
     x1 |-> T(M, "x", <<"g1", "h1">>, "", ""),
     x2 |-> T(M \cup {"summary-header", "summary-section"}, "x", <<"g1", "h1", "u1", "h2">>, "", ""),
     y1 |-> T(M, "y", <<"g2", "h3">>, "", ""),
     z1 |-> T(M, "z", <<"g3", "h4">>, "", ""),
     c1 |-> T({"monitor", "budget64"}, MainThread, <<"c1", "v1">>, "rm", "no"),
     c2 |-> T({"monitor"}, "x", <<"c1", "v2">>, "rm", "yes"),
     c3 |-> T({"monitor"}, "y", <<"c1", "v2">>, "rm", "yes"),
     w1 |-> T({"web-page"}, MainThread, <<"c1", "w2">>, "", ""),
     g1 |-> T({"title-system"}, MainThread, <<"p1", "z1">>, "", ""),
     b1 |-> [T(M, MainThread, <<"p1">>, "", "") EXCEPT !.parse = "raw"],
     f1 |-> [T(M, MainThread, <<"p1", "e1">>, "", "") EXCEPT !.source = "transcript", !.turn = "turn1"],
     f2 |-> [T(M, "x", <<"g1", "h1">>, "", "") EXCEPT !.source = "transcript", !.turn = "turn2", !.anchor = "t1"]]
MCTurn == TurnTable

R(file, type, uuid, parent) ==
    [file |-> file, type |-> type, uuid |-> uuid, parent |-> parent, leaf |-> "", side |-> file # 0, role |-> "",
     shape |-> "blocks", message |-> "", uses |-> "no-tool", results |-> "no-tool", injected |-> FALSE,
     usage |-> 1, rank |-> 0, time |-> 1]
Message(file, role, uuid, parent, message, time) ==
    [R(file, role, uuid, parent) EXCEPT !.role = role, !.message = message, !.time = time]
RecordTable ==
    [u1 |-> Message(0, "user", "u1", "", "", 1),
     a1 |-> [Message(0, "assistant", "a1", "u1", "m1", 2) EXCEPT !.uses = "t1"],
     a2 |-> [Message(0, "assistant", "a2", "r1", "m1", 3) EXCEPT !.uses = "t2", !.usage = 2],
     r1 |-> [Message(0, "user", "r1", "a1", "", 3) EXCEPT !.results = "t1"],
     b1 |-> Message(0, "assistant", "b1", "a2", "m2", 4),
     u2 |-> Message(0, "user", "u2", "a1", "", 3),
     b2 |-> [Message(0, "assistant", "b2", "u2", "", 4) EXCEPT !.side = TRUE],
     c1 |-> [Message(0, "system", "c1", "a1", "", 3) EXCEPT !.shape = "empty"],
     lp |-> [R(0, "last-prompt", "", "x") EXCEPT !.leaf = "a1"],
     lq |-> [R(0, "last-prompt", "", "x") EXCEPT !.leaf = "r1"],
     ti |-> [R(0, "title", "", "x") EXCEPT !.rank = 3],
     bad |-> R(0, "malformed", "", "x"),
     d1 |-> [Message(0, "user", "a1", "u1", "", 2) EXCEPT !.injected = TRUE],
     h1 |-> [Message(1, "assistant", "h1", "g1", "m1", 3) EXCEPT !.uses = "t1"]]
MCRecordInfo == RecordTable
MCSpawnTool == [a \in 0..2 |-> IF a = 0 THEN "no-tool" ELSE IF a = 1 THEN "t1" ELSE "t2"]
MCWireInfo == [w1 |-> [at |-> 3, main |-> FALSE], w2 |-> [at |-> 1, main |-> TRUE]]

-----------------------------------------------------------------------------

everything == <<subject, vars, disk, rows, wire>>

Start == subject \in {"pass", "files"} /\ Init /\ History!Init

Walks == subject = "pass" /\ UNCHANGED <<subject, disk, rows, wire>>
Reads == subject = "files" /\ UNCHANGED <<subject, vars>>
\* A pass must not get stuck (Rest); uploads end at their bound.
Ends == subject = "files" /\ Len(rows) = MaxRows /\ wire # <<>> /\ UNCHANGED everything

Step == \/ Walks /\ Next
        \/ Reads /\ History!Next
        \/ Ends

Run == Start /\ [][Step]_everything

-----------------------------------------------------------------------------

\* Whatever was appended, a file reads as one conversation (projectTranscriptFile).
ProjectionIsSound == subject = "files" => History!ProjectionIsSound

\* Whatever was uploaded, in whatever order, each agent is read from its fullest
\* version and is fed in its time (RederiveSession).
SelectionIsSound == subject = "files" => History!SelectionIsSound

\* A file that grows renames nothing and changes no branch without evidence
\* (transcriptProjectionIdentity, activeTranscriptPath).
GrowthIsStable == History!GrowthIsStable
=============================================================================
