----------------------------- MODULE SessionStore -----------------------------
(***************************************************************************)
(* The sessions table and the span projection hanging off it, under their  *)
(* four writers (pkg/storage/postgres): ingest and transcript uploads,     *)
(* which create and merge session identities, the derive pass, which       *)
(* rewrites a session's projection and folds its rollups, and the API,     *)
(* which renames and deletes.                                              *)
(*                                                                         *)
(* One org.  A writer resolves the parent its envelope names before it     *)
(* upserts its own session, in one READ COMMITTED transaction: others      *)
(* commit between the two.  name stands for name, cwd and harness_version, *)
(* which merge alike; harness_metadata, has_git_activity, tool counts,     *)
(* tasks and kind_counts, which no property tells apart, are left out.     *)
(* content_hash and derive_seq are ChangeFeed's; the moves of a trace from *)
(* session to session are AttributionRepair's.                             *)
(***************************************************************************)
EXTENDS Integers, Sequences, SequencesExt

CONSTANTS
    Key,          \* natural keys (harness_id, harness_session_id)
    NoKey,        \* no parent is named
    Subject,      \* auth subjects, NoSubject among them
    NoSubject,    \* the empty subject
    Name,         \* display names a user may give, NoName among them
    Envelope,     \* what a wire call or an upload may carry
    NoName,       \* NULL
    Derivations,  \* Key -> the span sets its raw turns may project to
    Writer,       \* transactions that upsert sessions
    Limit,        \* the page size a client asks for
    Models,       \* the models' names in their order
    MaxId, MaxTime, MaxCalls \* bounds: session ids, clock, upserts begun

ASSUME SentinelAssumption == NoKey \notin Key /\ NoSubject \in Subject /\ NoName \in Name
ASSUME BoundAssumption == Limit \in Nat \ {0} /\ MaxId \in Nat /\ MaxTime \in Nat /\ MaxCalls \in Nat
ASSUME EnvelopeAssumption ==
    \A e \in Envelope : e.kind \in {"wire", "transcript"} /\ e.key \in Key /\ e.parent \in Key \cup {NoKey}
\* The id of a trace is minted from the request that opened it, and a request
\* is one raw turn of one session; spans lie in the traces of their pass, links
\* between its spans.
ASSUME DerivationsAssumption ==
    \A k \in Key : \A set \in Derivations[k] :
        /\ {x[1] : x \in DOMAIN set.spans} \subseteq DOMAIN set.turns
        /\ \A l \in DOMAIN set.links : {l[1], l[2]} \subseteq DOMAIN set.spans
        /\ \A q \in Key \ {k} : \A other \in Derivations[q] : DOMAIN set.turns \cap DOMAIN other.turns = {}

VARIABLES
    sessions, \* key -> row, for the rows there are
    turns,    \* trace -> [owner, data]: span_turns
    spans,    \* <<trace, span>> -> [owner, data]: spans
    links,    \* <<from, to>> -> [owner, data]: span_links
    call,     \* per writer, the transaction it is in, or Idle
    now, nextId, calls,
    own,      \* per key, the subjects its own wire calls carried (history)
    walk      \* a client that pages through the session list

tables == <<turns, spans, links>>
clock == <<now, nextId, calls>>
vars == <<sessions, tables, call, clock, own, walk>>

Idle == [kind |-> "idle"]

\* The row of a session: its identity, what the user set, what derive folded.
NewRow(id, subject, started, seen) ==
    [id |-> id, subject |-> subject, name |-> NoName, parent |-> 0,
     started |-> started, seen |-> seen, display |-> NoName, title |-> NoName,
     turnCount |-> 0, cost |-> 0, model |-> "", status |-> "unknown"]

Exists(k) == k \in DOMAIN sessions
Ids == {sessions[k].id : k \in DOMAIN sessions}
With(table, k, row) == [x \in DOMAIN table \cup {k} |-> IF x = k THEN row ELSE table[x]]
Only(table, keep) == [x \in keep |-> table[x]]
Coalesce(new, old, null) == IF new = null THEN old ELSE new
Least(a, b) == IF a < b THEN a ELSE b
Greatest(a, b) == IF a < b THEN b ELSE a

Init ==
    /\ sessions = [k \in {} |-> NoKey]
    /\ turns = [t \in {} |-> NoKey] /\ spans = turns /\ links = turns
    /\ call = [w \in Writer |-> Idle]
    /\ now = 0 /\ nextId = 1 /\ calls = 0
    /\ own = [k \in Key |-> {}]
    /\ walk = [open |-> FALSE, sort |-> "seen", desc |-> TRUE, subject |-> NoSubject,
               cursor |-> <<>>, listed |-> <<>>, stable |-> {}]

-----------------------------------------------------------------------------
(* Identity: ingest and transcript uploads.                                 *)

\* Mutant: on conflict the placeholder takes the child's subject.
PlaceholderTakesSubject(rows, k, id, subject, at) ==
    IF k \in DOMAIN rows THEN [rows EXCEPT ![k].subject = subject]
    ELSE With(rows, k, NewRow(id, subject, at, at))

\* The parent named before its first turn; an existing row is left alone.
InsertSessionPlaceholder(rows, k, id, subject, at) ==
    IF k \in DOMAIN rows THEN rows ELSE With(rows, k, NewRow(id, subject, at, at))

\* Mutant: the upsert replaces the row instead of merging into it.
UpsertReplaces(rows, c, id, parent) ==
    With(rows, c.key, [NewRow(IF c.key \in DOMAIN rows THEN rows[c.key].id ELSE id, c.subject, c.at, c.at)
                       EXCEPT !.name = c.name, !.parent = parent])
\* The wire call's upsert: its subject and its clock replace the row's.
UpsertSession(rows, c, id, parent) ==
    LET old == IF c.key \in DOMAIN rows THEN rows[c.key] ELSE NewRow(id, c.subject, c.at, c.at)
    IN  With(rows, c.key, [old EXCEPT !.seen = c.at, !.subject = c.subject,
                                      !.name = Coalesce(c.name, @, NoName),
                                      !.parent = Coalesce(parent, @, 0),
                                      !.title = Coalesce(c.title, @, NoName)])


\* A transcript widens the observed range; an empty subject erases none.
UpsertSessionFromTranscript(rows, c, id, parent) ==
    LET old == IF c.key \in DOMAIN rows THEN rows[c.key] ELSE NewRow(id, c.subject, c.from, c.at)
    IN  With(rows, c.key, [old EXCEPT !.started = Least(@, c.from), !.seen = Greatest(@, c.at),
                                      !.subject = Coalesce(c.subject, @, NoSubject),
                                      !.name = Coalesce(c.name, @, NoName),
                                      !.parent = Coalesce(parent, @, 0)])

\* A transaction begins: it takes its clock and looks its parent up.
ResolveParent(w, c) ==
    /\ call[w] = Idle /\ calls < MaxCalls
    /\ calls' = calls + 1
    /\ call' = [call EXCEPT ![w] =
         [c EXCEPT !.found = IF c.parent # NoKey /\ Exists(c.parent) THEN sessions[c.parent].id ELSE 0]]
    /\ UNCHANGED <<sessions, tables, now, nextId, own>>

\* Ids are minted for the placeholder and for the session itself, whether or
\* not the upserts use them.
Placeheld(c) ==
    IF c.parent # NoKey /\ c.found = 0
    THEN InsertSessionPlaceholder(sessions, c.parent, nextId, c.subject, c.at)
    ELSE sessions
ParentId(c) ==
    IF c.parent = NoKey THEN 0 ELSE IF c.found # 0 THEN c.found ELSE Placeheld(c)[c.parent].id

\* The minted ids that became rows.
Used(rows) == {rows[k].id : k \in DOMAIN rows} \cap {nextId, nextId + 1}

IngestTurn(w) ==
    LET c == call[w] IN
    /\ c.kind = "wire"
    /\ c.found = 0 \/ c.found \in Ids
    /\ sessions' = UpsertSession(Placeheld(c), c, nextId + 1, ParentId(c))
    /\ own' = [own EXCEPT ![c.key] = @ \cup {c.subject}]
    /\ nextId' = nextId + (IF Used(sessions') = {} THEN 0 ELSE 2)
    /\ nextId' <= MaxId
    /\ call' = [call EXCEPT ![w] = Idle]
    /\ UNCHANGED <<tables, now, calls>>

UpsertTranscriptSession(w) ==
    LET c == call[w] IN
    /\ c.kind = "transcript"
    /\ c.found = 0 \/ c.found \in Ids
    /\ sessions' = UpsertSessionFromTranscript(Placeheld(c), c, nextId + 1, ParentId(c))
    /\ nextId' = nextId + (IF Used(sessions') = {} THEN 0 ELSE 2)
    /\ nextId' <= MaxId
    /\ call' = [call EXCEPT ![w] = Idle]
    /\ own' = [own EXCEPT ![c.key] = IF c.subject = NoSubject \/ @ = {} THEN @ ELSE @ \cup {c.subject}]
    /\ UNCHANGED <<tables, now, calls>>

\* The parent found is gone: the foreign key refuses the row, nothing lands.
Aborts(w) ==
    /\ call[w] # Idle /\ call[w].found # 0 /\ call[w].found \notin Ids
    /\ call' = [call EXCEPT ![w] = Idle]
    /\ UNCHANGED <<sessions, tables, clock, own>>

-----------------------------------------------------------------------------
(* The derive pass.                                                         *)

\* A row keeps the session that first owned it; its data is replaced.
Upserted(table, new, id) ==
    [x \in DOMAIN table \cup DOMAIN new |->
        IF x \notin DOMAIN new THEN table[x]
        ELSE [owner |-> IF x \in DOMAIN table THEN table[x].owner ELSE id, data |-> new[x]]]
UpsertSpanTurn(set, id) == Upserted(turns, set.turns, id)
UpsertSpan(set, id) == Upserted(spans, set.spans, id)
UpsertSpanLink(set, id) == Upserted(links, set.links, id)

\* The rows of the session the pass no longer produces.
Kept(table, keep, id) == Only(table, {x \in DOMAIN table : table[x].owner # id \/ x \in keep})
PruneSpanTurns(table, set, id) == Kept(table, DOMAIN set.turns, id)
PruneSpans(table, set, id) == Kept(table, DOMAIN set.spans, id)
\* Mutant: the links of a trace still produced are all kept.
PruneSpanLinksByTrace(table, set, id) ==
    Only(table, {x \in DOMAIN table : table[x].owner # id \/ x[1][1] \in DOMAIN set.turns})
PruneSpanLinks(table, set, id) == Kept(table, DOMAIN set.links, id)

Owned(table, id) == {x \in DOMAIN table : table[x].owner = id}
OwnData(table, id) == [x \in Owned(table, id) |-> table[x].data]

TotalCost(traces) == FoldFunction(LAMBDA t, n : t.cost + n, 0, traces)

\* The model most calls of the main thread ran on, ties to the lesser name.
DominantModel(ran) ==
    LET of(m) == {x \in DOMAIN ran : ran[x] = m}
        models == {ran[x] : x \in DOMAIN ran} \ {""}
        best == {m \in models : \A n \in models : Cardinality(of(m)) >= Cardinality(of(n))}
    IN  IF best = {} THEN "" ELSE Models[Min({i \in DOMAIN Models : Models[i] \in best})]

FoldSessionRollupsFromSpans(row, traces, ran) ==
    [row EXCEPT !.turnCount = Cardinality(Owned(traces, row.id)),
                !.cost = TotalCost(OwnData(traces, row.id)),
                !.model = DominantModel(OwnData(ran, row.id)),
                !.title = NoName, !.status = "unknown"]

\* Written only for a session that still produces one.
UpdateSessionDerivedTitle(row, set) == [row EXCEPT !.title = Coalesce(set.title, @, NoName)]
UpdateSessionStatus(row, set) ==
    [row EXCEPT !.status = IF DOMAIN set.turns = {} THEN @ ELSE "completed"]

WriteSpanSet(k, set) ==
    LET id == sessions[k].id IN
    /\ turns' = PruneSpanTurns(UpsertSpanTurn(set, id), set, id)
    /\ spans' = PruneSpans(UpsertSpan(set, id), set, id)
    /\ links' = PruneSpanLinks(UpsertSpanLink(set, id), set, id)
    /\ sessions' = [sessions EXCEPT ![k] =
         UpdateSessionDerivedTitle(UpdateSessionStatus(
             FoldSessionRollupsFromSpans(@, turns', spans'), set), set)]

\* One transaction; a key without a sessions row is not covered.
WriteDerivedSet(k) ==
    /\ Exists(k)
    /\ \E set \in Derivations[k] : WriteSpanSet(k, set)
    /\ UNCHANGED <<call, clock, own>>

-----------------------------------------------------------------------------
(* The API's writes.                                                        *)

UpdateSessionDisplayName(k, name) ==
    /\ sessions' = [sessions EXCEPT ![k].display = name]
    /\ UNCHANGED <<tables, call, clock, own>>

\* A blank name clears the title: NoName is one of the names.
HandleUpdateSession(k) ==
    /\ Exists(k)
    /\ \E name \in Name : sessions[k].display # name /\ UpdateSessionDisplayName(k, name)

\* The session and, by ON DELETE CASCADE, its descendants: what every set that
\* holds it, and with a parent its children, has in common.
Subtree(id) ==
    LET cascades(have) == \A k \in DOMAIN sessions : sessions[k].parent \in have => sessions[k].id \in have
    IN  {i \in Ids : \A have \in SUBSET Ids : id \in have /\ cascades(have) => i \in have}

\* Mutant: the projection of the deleted sessions stays.
DeleteRowOnly(k) ==
    /\ sessions' = Only(sessions, {q \in DOMAIN sessions : sessions[q].id \notin Subtree(sessions[k].id)})
    /\ own' = [q \in Key |-> IF q \in DOMAIN sessions' THEN own[q] ELSE {}]
    /\ UNCHANGED <<tables, call, clock>>

DeleteSession(k) ==
    LET gone == Subtree(sessions[k].id) IN
    /\ sessions' = Only(sessions, {q \in DOMAIN sessions : sessions[q].id \notin gone})
    /\ turns' = Only(turns, {x \in DOMAIN turns : turns[x].owner \notin gone})
    /\ spans' = Only(spans, {x \in DOMAIN spans : spans[x].owner \notin gone})
    /\ links' = Only(links, {x \in DOMAIN links : links[x].owner \notin gone})
    /\ own' = [q \in Key |-> IF q \in DOMAIN sessions' THEN own[q] ELSE {}]
    /\ UNCHANGED <<call, clock>>

HandleDeleteSession(k) == Exists(k) /\ DeleteSession(k)

Tick ==
    /\ now < MaxTime /\ now' = now + 1
    /\ UNCHANGED <<sessions, tables, call, nextId, calls, own>>

\* An envelope at the clock it is taken up at; an upload says from when on it
\* observed the session.
Calls ==
    {[kind |-> e.kind, key |-> e.key, subject |-> e.subject, name |-> e.name, title |-> e.title,
      parent |-> e.parent, at |-> now, from |-> IF e.kind = "wire" THEN now ELSE f, found |-> 0] :
        e \in Envelope, f \in 0..now}

StoreNext ==
    \/ \E w \in Writer : \/ \E c \in Calls : ResolveParent(w, c)
                         \/ IngestTurn(w) \/ UpsertTranscriptSession(w) \/ Aborts(w)
    \/ \E k \in Key : WriteDerivedSet(k) \/ HandleUpdateSession(k) \/ HandleDeleteSession(k)
    \/ Tick
=============================================================================
