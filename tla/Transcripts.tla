------------------------------ MODULE Transcripts ------------------------------
(***************************************************************************)
(* The transcripts a harness keeps on disk, as derivation reads them       *)
(* (pkg/derive/transcript.go, transcript_projection.go and the selection   *)
(* in pkg/storage/postgres/derive.go).  A transcript is append-only, so it *)
(* is uploaded again and again, each time as a new raw row; a pass picks   *)
(* one version per agent, finds in it the branch that is live, and turns   *)
(* that into calls for a session whose wire traffic has no conversation.   *)
(*                                                                         *)
(* A record is a value of Record, its fields what Info says of it.         *)
(***************************************************************************)
EXTENDS Integers, Sequences, FiniteSets, FiniteSetsExt, SequencesExt, TLC

CONSTANTS
    Record, Info,         \* the records a harness may write
    Agent, MainAgent,     \* a file each, numbered by name; MainAgent, 0, is the session's own
    SpawnTool,            \* Agent -> the raw tool use its metadata names
    WireCall, WireInfo,   \* captured calls: when, and whether they are a conversation
    NoTool, None,
    MaxRecords, MaxRows   \* bounds: records in a file, uploads of a session

VARIABLES
    disk, \* Agent -> the records its file holds
    rows, \* the raw transcript rows, by id
    wire  \* the captured calls that are stored

vars == <<disk, rows, wire>>

-----------------------------------------------------------------------------
(* The live branch of a file, a sequence of records; positions are indices. *)

Decoded(f, i) == Info[f[i]].type # "malformed"
\* The first record of a uuid is the one that counts.
ByUUID(f) ==
    {i \in DOMAIN f : /\ Decoded(f, i) /\ Info[f[i]].uuid # None
                      /\ \A j \in 1..(i - 1) : Decoded(f, j) => Info[f[j]].uuid # Info[f[i]].uuid}
At(f, uuid) == {i \in ByUUID(f) : Info[f[i]].uuid = uuid}
Children(f, i) == {j \in ByUUID(f) \ {i} : Info[f[j]].parent = Info[f[i]].uuid}

\* The leaf the newest usable last-prompt record names.
Evidence(f) ==
    LET named(usable) == UNION {At(f, Info[f[i]].leaf) : i \in {j \in usable : \A k \in usable : k <= j}}
    IN  named({i \in DOMAIN f : Info[f[i]].type = "last-prompt" /\ At(f, Info[f[i]].leaf) # {}})

Descendants(f, from) ==
    FoldLeft(LAMBDA have, r : have \cup UNION {Children(f, i) : i \in have}, from, f)
\* Mutant: the evidence is overlooked.
CandidatesLatest(f) == {i \in ByUUID(f) : Children(f, i) = {}}
Candidates(f) ==
    LET within(evidence) == IF evidence # {} THEN Descendants(f, evidence) ELSE ByUUID(f)
        ends(branch) == {i \in branch : Children(f, i) \cap branch = {}}
    IN  ends(within(Evidence(f)))

\* Main files prefer a leaf on the main line, an agent's one off it.
Leaf(f, agent, candidates) ==
    LET fit == {i \in candidates : Info[f[i]].side = (agent # MainAgent)}
    IN  Max(IF fit # {} THEN fit ELSE candidates)

\* Mutant: every record that is not a dead end's alternative is kept.
ActiveTranscriptPathMerges(f, agent) == IF Candidates(f) = {} THEN {} ELSE ByUUID(f)

\* From the leaf to its root; a record that is its own ancestor ends the walk.
ActiveTranscriptPath(f, agent) ==
    LET leaf(candidates) == IF candidates = {} THEN {} ELSE {Leaf(f, agent, candidates)}
    IN  FoldLeft(LAMBDA have, r : have \cup UNION {At(f, Info[f[i]].parent) : i \in have}, leaf(Candidates(f)), f)

-----------------------------------------------------------------------------
(* The calls of a file.                                                     *)

IsAssistant(f, i) == Info[f[i]].role = "assistant"
Blocks(f, i) == Info[f[i]].shape # "bad"
AssistantIdentity(f, i) == IF Info[f[i]].message # None THEN Info[f[i]].message ELSE Info[f[i]].uuid

\* The fragments of one message, wherever they are on the path.
Group(f, active, i) ==
    {j \in active : IsAssistant(f, j) /\ Blocks(f, j) /\ AssistantIdentity(f, j) = AssistantIdentity(f, i)}
MaxTranscriptUsage(f, group) == Max({Info[f[j]].usage : j \in group})

\* Identities carry the thread they belong to, never the row.
TranscriptProjectionIdentity(agent, domain, local) == <<domain, agent, local>>
ToolIdentity(agent, raw) == TranscriptProjectionIdentity(agent, "tool", raw)

EarliestTranscriptTime(f, pending, fallback) ==
    IF pending = {} THEN fallback ELSE Min({Info[f[j]].time : j \in pending})

NormalizeTranscriptTurn(f, agent, group, p) ==
    LET first == Min(group) IN
    [id |-> TranscriptProjectionIdentity(agent, "call", AssistantIdentity(f, first)),
     agent |-> agent, turn |-> p.turn, request |-> p.history, usage |-> MaxTranscriptUsage(f, group),
     uses |-> {ToolIdentity(agent, Info[f[j]].uses) : j \in {k \in group : Info[f[k]].uses # NoTool}},
     pos |-> first, at |-> EarliestTranscriptTime(f, p.pending, Min({Info[f[j]].time : j \in group}))]

Omit(p) == [p EXCEPT !.omitted = @ + 1]
Keep(p, n) == [p EXCEPT !.projected = @ + n]

\* Mutant: each fragment after the first is counted again.
AssistantRecordRecounts(p, f, agent, active, i) ==
    LET group == Group(f, active, i) IN
    IF ~Blocks(f, i) THEN Omit(p)
    ELSE IF Min(group) # i THEN Keep(p, 1)
    ELSE [Keep(p, Cardinality(group)) EXCEPT
             !.turns = Append(@, NormalizeTranscriptTurn(f, agent, group, p)),
             !.history = Append(@, i), !.pending = {}, !.turn = None]
\* Mutant: the last fragment stands for the message.
AssistantRecordAtLast(p, f, agent, active, i) ==
    LET group == Group(f, active, i) IN
    IF ~Blocks(f, i) THEN Omit(p)
    ELSE IF Max(group) # i THEN p
    ELSE [Keep(p, Cardinality(group)) EXCEPT
             !.turns = Append(@, NormalizeTranscriptTurn(f, agent, group, p)),
             !.history = Append(@, i), !.pending = {}, !.turn = None]
\* Mutant: the turn goes on after the assistant answered.
AssistantRecordKeepsTurn(p, f, agent, active, i) ==
    LET group == Group(f, active, i) IN
    IF ~Blocks(f, i) THEN Omit(p)
    ELSE IF Min(group) # i THEN p
    ELSE [Keep(p, Cardinality(group)) EXCEPT
             !.turns = Append(@, NormalizeTranscriptTurn(f, agent, group, p)),
             !.history = Append(@, i), !.pending = {}]

\* A message's first fragment stands for all; the others are in its count.
AssistantRecord(p, f, agent, active, i) ==
    LET group == Group(f, active, i) IN
    IF ~Blocks(f, i) THEN Omit(p)
    ELSE IF Min(group) # i THEN p
    ELSE [Keep(p, Cardinality(group)) EXCEPT
             !.turns = Append(@, NormalizeTranscriptTurn(f, agent, group, p)),
             !.history = Append(@, i), !.pending = {}, !.turn = None]

\* A prompt of the user's, not an insert nor a tool's result, names the turn.
Genuine(r) == r.injected = FALSE /\ r.results = NoTool
UserRecord(p, f, agent, i) ==
    LET r == Info[f[i]] IN
    IF r.shape # "blocks" THEN Omit(p)
    ELSE [Keep(p, 1) EXCEPT
             !.history = Append(@, i), !.pending = @ \cup {i},
             !.turn = IF @ = None /\ Genuine(r) THEN TranscriptProjectionIdentity(agent, "turn", r.uuid) ELSE @]
ContextRecord(p, f, i) ==
    IF Info[f[i]].shape = "empty" THEN Omit(p)
    ELSE [Keep(p, 1) EXCEPT !.history = Append(@, i), !.pending = @ \cup {i}]

\* custom-title, ai-title, summary, agent-name: 4 to 1, the later of a rank.
TranscriptTitle(p, f, agent, i) ==
    IF agent # MainAgent THEN Omit(p)
    ELSE IF Info[f[i]].rank >= p.rank THEN [Keep(p, 1) EXCEPT !.title = f[i], !.rank = Info[f[i]].rank]
    ELSE Keep(p, 1)

Structural(p, f, agent, i) ==
    IF Info[f[i]].type = "last-prompt" THEN IF Info[f[i]].leaf = None THEN Omit(p) ELSE Keep(p, 1)
    ELSE IF Info[f[i]].type = "title" THEN TranscriptTitle(p, f, agent, i) ELSE Omit(p)

\* One record of the file, in file order.
ProjectRecord(p, f, agent, active, i) ==
    IF ~Decoded(f, i) THEN Omit(p)
    ELSE IF Info[f[i]].uuid = None THEN Structural(p, f, agent, i)
    ELSE IF i \notin active THEN Omit(p)
    ELSE IF IsAssistant(f, i) THEN AssistantRecord(p, f, agent, active, i)
    ELSE IF Info[f[i]].role = "user" THEN UserRecord(p, f, agent, i)
    ELSE ContextRecord(p, f, i)

ProjectTranscriptFile(f, agent) ==
    LET active == ActiveTranscriptPath(f, agent)
        start == [history |-> <<>>, pending |-> {}, turn |-> None, turns |-> <<>>,
                  projected |-> 0, omitted |-> 0, title |-> None, rank |-> 0]
    IN  FoldLeftDomain(LAMBDA p, i : ProjectRecord(p, f, agent, active, i), start, f)

-----------------------------------------------------------------------------
(* The rows of a session.                                                   *)

\* What a row's metadata says of the lifecycle, else what its records say.
Kind(row) == IF row.kind # None THEN row.kind ELSE row.content
SpawnEvidence(row) == Kind(row) \in {None, "started"}
SpawnGroup(row) == row.kind \in {None, "started"}
RowsOf(agent, spawn) == {i \in DOMAIN rows : rows[i].agent = agent /\ SpawnGroup(rows[i]) = spawn}

\* Mutant: the newest row of the group whatever it is evidence of.
NewestEvidenceShadowed(agent) ==
    LET group == RowsOf(agent, TRUE) IN
    IF group # {} /\ SpawnEvidence(rows[Max(group)]) THEN {Max(group)} ELSE {}

\* Newest first, to the first that is spawn evidence.
NewestEvidence(agent) ==
    LET fit == {i \in RowsOf(agent, TRUE) : SpawnEvidence(rows[i])} IN IF fit = {} THEN {} ELSE {Max(fit)}
\* The newest straggler that is none is kept for the report.
Straggler(agent) ==
    LET stray == {i \in RowsOf(agent, TRUE) : /\ ~SpawnEvidence(rows[i])
                                              /\ \A j \in NewestEvidence(agent) : i > j}
        others == RowsOf(agent, FALSE)
    IN  (IF stray = {} THEN {} ELSE {Max(stray)}) \cup (IF others = {} THEN {} ELSE {Max(others)})
TranscriptIDs == UNION {NewestEvidence(a) \cup Straggler(a) : a \in Agent}

Selected == {i \in TranscriptIDs : SpawnEvidence(rows[i])}
ActiveUses(row) ==
    LET f == row.records IN
    {Info[f[i]].uses : i \in {j \in ActiveTranscriptPath(f, row.agent) : IsAssistant(f, j) /\ Blocks(f, j)}} \ {NoTool}

\* Main owns a raw id it shares with an agent, else the first by name.
TranscriptToolOwners(raw) ==
    LET using == {rows[i].agent : i \in {j \in Selected : raw \in ActiveUses(rows[j])}}
    IN  IF using = {} THEN MainAgent ELSE Min(using)
\* Mutant: a thread owns the raw ids it uses itself.
AnchorSelf(agent) ==
    IF SpawnTool[agent] = NoTool THEN <<>>
    ELSE ToolIdentity(IF \E i \in Selected : rows[i].agent = agent /\ SpawnTool[agent] \in ActiveUses(rows[i])
                      THEN agent ELSE TranscriptToolOwners(SpawnTool[agent]), SpawnTool[agent])
Anchor(agent) ==
    IF SpawnTool[agent] = NoTool THEN <<>>
    ELSE ToolIdentity(TranscriptToolOwners(SpawnTool[agent]), SpawnTool[agent])

\* Transcripts speak only for a session without a conversation on the wire.
WireMain == \E i \in DOMAIN wire : WireInfo[wire[i]].main
Projected == [i \in Selected |-> ProjectTranscriptFile(rows[i].records, rows[i].agent)]
ByTime(calls) ==
    LET order == SortSeq([n \in DOMAIN calls |-> n], LAMBDA a, b :
                    calls[a].at < calls[b].at \/ (calls[a].at = calls[b].at /\ a < b))
    IN  [n \in DOMAIN calls |-> calls[order[n]]]
FileTurns(agent) ==
    LET turns(read) == IF read = {} THEN <<>> ELSE Projected[Min(read)].turns
    IN  turns({i \in Selected : rows[i].agent = agent})
PrepareTranscriptFallback ==
    IF WireMain THEN <<>>
    ELSE LET timed(turns) == ByTime([n \in DOMAIN turns |-> [id |-> turns[n].id, at |-> turns[n].at]]) IN
         timed(FlattenSeq([a \in 1..Cardinality(Agent) |-> FileTurns(a - 1)]))
Wire == ByTime([n \in DOMAIN wire |-> [id |-> <<"wire", wire[n]>>, at |-> WireInfo[wire[n]].at]])

\* Mutant: the transcripts' turns after the wire calls.
FeedUnmerged(ws, ts) == ws \o ts

\* What the deriver is fed: both in time order, the wire first of equals.
Feed(ws, ts) == ByTime(ws \o ts)

-----------------------------------------------------------------------------
(* A harness writes, an uploader uploads, a proxy captures.                 *)

Init == disk = [a \in Agent |-> <<>>] /\ rows = <<>> /\ wire = <<>>

\* A record is written after its parent, or its parent never is.
AppendRecord(a, r) ==
    /\ Len(disk[a]) < MaxRecords
    /\ Info[r].file = a /\ \A i \in DOMAIN disk[a] : disk[a][i] # r
    /\ \/ \E i \in DOMAIN disk[a] : Info[disk[a][i]].uuid = Info[r].parent
       \/ ~\E s \in Record : Info[s].file = a /\ Info[s].uuid = Info[r].parent
    /\ disk' = [disk EXCEPT ![a] = Append(@, r)]
    /\ UNCHANGED <<rows, wire>>

\* Mutant: a version that is already there is stored again.
UploadAgain(a) ==
    /\ Len(rows) < MaxRows /\ disk[a] # <<>>
    /\ rows' = Append(rows, [agent |-> a, kind |-> None, content |-> None, records |-> disk[a]])
    /\ UNCHANGED <<disk, wire>>

\* The same content under the same metadata is the row that is there.
Upload(a) ==
    /\ Len(rows) < MaxRows /\ disk[a] # <<>>
    /\ LET row == [agent |-> a, kind |-> None, content |-> None, records |-> disk[a]] IN
       rows' = IF \E i \in DOMAIN rows : rows[i] = row THEN rows ELSE Append(rows, row)
    /\ UNCHANGED <<disk, wire>>

\* One line of a parent's rollout about the thread, from an uploader that
\* marks its kind or one too old to.
UploadActivity(a, kind, marked) ==
    /\ Len(rows) < MaxRows /\ ~\E r \in Record : Info[r].file = a
    /\ rows' = Append(rows, [agent |-> a, kind |-> IF marked THEN kind ELSE None, content |-> kind, records |-> <<>>])
    /\ UNCHANGED <<disk, wire>>

Capture(w) ==
    /\ wire = <<>>
    /\ wire' = Append(wire, w)
    /\ UNCHANGED <<disk, rows>>

Next ==
    \/ \E a \in Agent : (\E r \in Record : AppendRecord(a, r)) \/ Upload(a)
    \/ \E a \in Agent \ {MainAgent}, kind \in {"started", "interacted"}, marked \in BOOLEAN :
          UploadActivity(a, kind, marked)
    \/ \E w \in WireCall : Capture(w)

Spec == Init /\ [][Next]_vars

-----------------------------------------------------------------------------

\* A row is a version of its agent's file, and no version is there twice
\* (handleTranscriptIngest, transcriptRequestID).
TypeOK ==
    /\ disk \in [Agent -> Seq(Record)]
    /\ \A i \in DOMAIN rows :
          /\ rows[i].agent \in Agent /\ rows[i].kind \in {None, "started", "interacted"}
          /\ IsPrefix(rows[i].records, disk[rows[i].agent])
    /\ \A i, j \in DOMAIN rows : rows[i].records # <<>> /\ rows[i] = rows[j] => i = j
    /\ \A i \in DOMAIN wire : wire[i] \in WireCall

\* What a file says does not depend on what was uploaded of it: enough to look
\* before anything was.
Untouched == rows = <<>> /\ wire = <<>>
\* Nor does which version is read, and as what, depend on what was captured.
Uncaptured == wire = <<>>
Calls(f, agent) ==
    LET turns == ProjectTranscriptFile(f, agent).turns IN {turns[n] : n \in DOMAIN turns}

\* A record is projected or omitted, once, whatever branch, fragment or shape
\* it is (projectTranscriptFile: "OmittedTypes makes forward schema skew visible").
RecordsAccounted ==
    Uncaptured => \A i \in Selected : Projected[i].projected + Projected[i].omitted = Len(rows[i].records)

\* Alternate branches never merge: all a call's request holds are ancestors of
\* its response (activeTranscriptPath, normalizeTranscriptTurn).
RequestsAreCausal ==
    Untouched => \A a \in Agent : \A c \in Calls(disk[a], a) : \A n \in DOMAIN c.request :
        c.pos \in Descendants(disk[a], {c.request[n]})

\* A turn is opened by one call of a file, and every call is itself once.
TurnsOpenOnce ==
    Untouched => \A a \in Agent : \A c, d \in Calls(disk[a], a) :
        c # d => c.id # d.id /\ (c.turn # None => c.turn # d.turn)

\* The ids of a transcript's calls, their turns and what they answer stay as the
\* file grows along the branch (transcriptProjectionIdentity: "IDs remain
\* stable as an append-only file grows").
Settled(f, agent) == {<<c.id, c.turn, c.request>> : c \in Calls(f, agent)}
Grown == {a \in Agent : disk'[a] # disk[a]}
GrowthKeepsIds ==
    [][Untouched => \A a \in Grown :
         ActiveTranscriptPath(disk[a], a) \subseteq ActiveTranscriptPath(disk'[a], a)
         => Settled(disk[a], a) \subseteq Settled(disk'[a], a)]_vars

\* Once a last-prompt record named a branch, a record written elsewhere does not
\* make another one live (activeTranscriptPath).
BranchNeedsEvidence ==
    [][Untouched => \A a \in Grown :
         LET f == disk[a] g == disk'[a] IN
         /\ Evidence(f) # {} /\ Evidence(g) = Evidence(f)
         /\ ~\E i \in Descendants(f, Evidence(f)) : Info[f[i]].uuid = Info[g[Len(g)]].parent
         => ActiveTranscriptPath(g, a) = ActiveTranscriptPath(f, a)]_vars

\* Of an agent's rows that are spawn evidence one is read, the longest version,
\* and rows of its re-entries, whoever marked them, do not hide it
\* (RederiveSession: "must never shadow one another").
EvidenceKept ==
    Uncaptured => \A a \in Agent :
        LET evidence == {i \in DOMAIN rows : rows[i].agent = a /\ SpawnEvidence(rows[i])}
            read == {i \in Selected : rows[i].agent = a}
        IN  /\ evidence # {} => Cardinality(read) = 1
            /\ \A i \in read, j \in evidence : Len(rows[i].records) >= Len(rows[j].records)

\* A thread hangs off a tool use that some call of the session emits, if any
\* has it, and off main's rather than its own of the same raw id
\* (transcriptToolOwners).
AnchorsResolve ==
    LET resolved(emitted) ==
            \A a \in {rows[i].agent : i \in Selected} :
                LET raw == SpawnTool[a]
                IN  raw # NoTool =>
                      /\ (\E b \in Agent : ToolIdentity(b, raw) \in emitted) => Anchor(a) \in emitted
                      /\ ToolIdentity(MainAgent, raw) \in emitted => Anchor(a) = ToolIdentity(MainAgent, raw)
    IN  Uncaptured => resolved(UNION {UNION {c.uses : c \in Calls(rows[i].records, rows[i].agent)} : i \in Selected})

\* Both sources reach the deriver in the order they happened, each call once,
\* the wire first at one instant (RederiveSession).
FedInOrder ==
    LET ordered(ws, ts, fed) ==
            /\ Len(fed) = Len(ws) + Len(ts)
            /\ {fed[n].id : n \in DOMAIN fed} = {ws[n].id : n \in DOMAIN ws} \cup {ts[n].id : n \in DOMAIN ts}
            /\ \A m, n \in DOMAIN fed : m < n =>
                  /\ fed[m].at <= fed[n].at
                  /\ fed[m].at = fed[n].at /\ fed[n].id[1] = "wire" => fed[m].id[1] = "wire"
        feeding(ws, ts) == ordered(ws, ts, Feed(ws, ts))
    IN  feeding(Wire, PrepareTranscriptFallback)

\* Whatever was appended, a file reads as one conversation: each record used or
\* counted as left out, each call after what it answers, each turn opened once
\* (projectTranscriptFile).
ProjectionIsSound == RecordsAccounted /\ RequestsAreCausal /\ TurnsOpenOnce

\* Whatever was uploaded, in whatever order, no version is kept twice, and each
\* agent is read from its fullest, hangs where it was spawned and is fed in its time (RederiveSession).
SelectionIsSound == TypeOK /\ EvidenceKept /\ AnchorsResolve /\ FedInOrder

\* A file that grows renames nothing and changes no branch without evidence
\* (transcriptProjectionIdentity, activeTranscriptPath).
GrowthIsStable == GrowthKeepsIds /\ BranchNeedsEvidence
=============================================================================
