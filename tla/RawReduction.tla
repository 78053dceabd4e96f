------------------------------ MODULE RawReduction ------------------------------
(***************************************************************************)
(* The raw lane read back: a stored body is decoded (pkg/capture/          *)
(* contentencoding.go), reduced and dated again (ingest/rawreduce.go), and *)
(* judged against the reduction its capture adapter stored (pkg/rawequiv,  *)
(* tapes raw equivalence).                                                 *)
(*                                                                         *)
(* A body is [coding, text, inner, end]: plain text, or a stream of a      *)
(* coding that yields its inner body and then ends "whole", "early" or     *)
(* "corrupt".  Options are <<>> or <<value>>.                              *)
(***************************************************************************)
EXTENDS Integers, Sequences, SequencesExt, FiniteSets

MaxDecompressedBytes == 3

Plain(text) == [coding |-> "", text |-> text, inner |-> <<>>, end |-> "whole"]
Coded(coding, body, end) == [coding |-> coding, text |-> <<>>, inner |-> <<body>>, end |-> end]
Nothing == Plain(<<>>)
\* A coded body is short; what it expands to is not.
Size(body) == IF body.coding = "" THEN Len(body.text) ELSE 1

Failed == [ok |-> FALSE, body |-> Nothing, truncated |-> FALSE]
Decoded(body, truncated) == [ok |-> TRUE, body |-> body, truncated |-> truncated]

\* Mutant: what a torn stream yielded is taken whatever its size.
readSalvageFirst(stream) ==
    IF stream.end = "early" /\ stream.coding # "br" THEN Decoded(stream.inner[1], TRUE)
    ELSE IF Size(stream.inner[1]) > MaxDecompressedBytes \/ stream.end = "corrupt" THEN Failed
    ELSE Decoded(stream.inner[1], FALSE)
\* The cap before the salvage.  The br reader takes an early end for the end.
readCapped(stream) ==
    LET body == stream.inner[1]
    IN IF Size(body) > MaxDecompressedBytes \/ stream.end = "corrupt" THEN Failed
       ELSE IF stream.end = "early" /\ stream.coding # "br"
       THEN IF body # Nothing THEN Decoded(body, TRUE) ELSE Failed
       ELSE Decoded(body, FALSE)

Lower(token) == IF token = "GZIP" THEN "gzip" ELSE token
Supported == {"gzip", "x-gzip", "zstd", "br"}
decodeOneLayer(body, token) ==
    IF token \notin Supported \/ body = Nothing THEN Failed
    ELSE IF body.coding # (IF token = "x-gzip" THEN "gzip" ELSE token) THEN Failed
    ELSE readCapped(body)

splitContentEncoding(header) ==
    SelectSeq([i \in DOMAIN header |-> Lower(header[i])], LAMBDA t : t \notin {"", "identity"})
\* Mutant: the first coding listed comes off first.
DecodeLeftToRight(body, header) ==
    FoldLeft(LAMBDA d, t : IF d.ok THEN LET next == decodeOneLayer(d.body, t)
                                        IN [next EXCEPT !.truncated = @ \/ d.truncated] ELSE d,
             Decoded(body, FALSE), splitContentEncoding(header))
\* The last coding listed was the last applied.
DecodeContentEncoding(body, header) ==
    LET peel(t, d) == IF d.ok THEN LET next == decodeOneLayer(d.body, t)
                                   IN IF next.ok THEN [next EXCEPT !.truncated = @ \/ d.truncated] ELSE next
                      ELSE d
    IN FoldRight(peel, splitContentEncoding(header), Decoded(body, FALSE))

-----------------------------------------------------------------------------
(* A reduction is [content, stop, usage, created]; usage is an option of    *)
(* [tokens, duration], 0 for neither.  meta is [captured, request,         *)
(* elapsed], 0 for absent and Malformed for a stamp that does not parse.   *)

Malformed == -1
Corrupt == -1           \* an elapsed time no call can have
rawReducers == {"anthropic", "openai"}

usableElapsed(elapsed) == elapsed > 0
stampDuration(resp, meta) ==
    IF ~usableElapsed(meta.elapsed) THEN resp
    ELSE [resp EXCEPT !.usage = IF @ = <<>> THEN <<[tokens |-> 0, duration |-> meta.elapsed]>>
                                ELSE <<[@[1] EXCEPT !.duration = meta.elapsed]>>]
parseCaptureStamp(value) == value > 0
\* Mutant: the reducer's own date stands.
stampOnlyUndated(resp, meta) == IF resp.created = 0 THEN [resp EXCEPT !.created = meta.captured] ELSE resp
stampCaptureTime(resp, meta) ==
    IF parseCaptureStamp(meta.captured) THEN [resp EXCEPT !.created = meta.captured]
    ELSE IF ~parseCaptureStamp(meta.request) THEN resp
    ELSE [resp EXCEPT !.created = meta.request + (IF usableElapsed(meta.elapsed) THEN meta.elapsed ELSE 0)]
CreatedAtSource(meta) ==
    IF parseCaptureStamp(meta.captured) THEN "captured_at"
    ELSE IF parseCaptureStamp(meta.request) THEN "ts_request" ELSE "fallback"

\* What the provider's reducer reads in a text: nothing in junk; an OpenAI
\* answer dates itself, an Anthropic one is dated when it is reduced.
UpstreamDate == 5
Reduce(provider, text, now) ==
    IF text # <<>> /\ Head(text) = "junk" THEN <<>>
    ELSE <<[content |-> text, stop |-> "end", usage |-> <<>>, created |-> IF provider = "openai" THEN UpstreamDate ELSE now]>>

ReduceStoredRawTurn(turn, now) ==
    LET decoded == DecodeContentEncoding(turn.raw, turn.encoding)
        resp == Reduce(turn.provider, decoded.body.text, now)
        outcome(error, r, cut) == [error |-> error, response |-> r, truncated |-> cut]
    IN IF turn.provider \notin rawReducers THEN outcome("no reducer", <<>>, FALSE)
       ELSE IF ~decoded.ok THEN outcome("decode", <<>>, FALSE)
       ELSE IF resp = <<>> THEN outcome("reduce", <<>>, FALSE)
       ELSE outcome("", <<stampCaptureTime(stampDuration(resp[1], turn.meta), turn.meta)>>, decoded.truncated)

-----------------------------------------------------------------------------
(* rawequiv                                                                *)

ReducedResponseAbsent(reduction) == reduction = <<>>

\* The reduction as the tree that is compared, field by field.
Tree(r) == [f \in {"content", "stop", "created", "usage"} \ (IF r.usage = <<>> THEN {"usage"} ELSE {}) |->
              CASE f = "content" -> r.content [] f = "stop" -> r.stop [] f = "created" -> r.created
                [] f = "usage" -> [t \in {"tokens", "duration"} \ {u \in {"tokens", "duration"} : r.usage[1][u] = 0} |->
                                      r.usage[1][t]]]
prune(tree, path) ==
    IF path[1] \notin DOMAIN tree THEN tree
    ELSE IF Len(path) = 1 THEN [f \in DOMAIN tree \ {path[1]} |-> tree[f]]
    ELSE [tree EXCEPT ![path[1]] = [f \in DOMAIN @ \ {path[2]} |-> @[f]]]
\* Mutant: an emptied usage is a difference.
dropNothing(tree) == tree
dropEmptyObject(tree) ==
    [f \in {g \in DOMAIN tree : ~(g = "usage" /\ DOMAIN tree[g] = {})} |-> tree[f]]
TolerableFields == <<<<"created">>, <<"usage", "duration">>>>
Canonical(r) == dropEmptyObject(FoldLeft(prune, Tree(r), TolerableFields))
diffValues(stored, recomputed) ==
    {f \in DOMAIN stored \cup DOMAIN recomputed :
        f \notin DOMAIN stored \cap DOMAIN recomputed \/ stored[f] # recomputed[f]}
compare(stored, recomputed) == diffValues(Canonical(stored), Canonical(recomputed))

Class == {"equivalent", "divergent", "undecodable", "unreducible", "no_reducer",
          "skipped_no_raw", "skipped_dropped", "skipped_no_reduction"}
Check(row, now) ==
    LET out == ReduceStoredRawTurn(row, now)
    IN IF row.dropped THEN "skipped_dropped"
       ELSE IF row.raw = Nothing THEN "skipped_no_raw"
       ELSE IF ReducedResponseAbsent(row.stored) THEN "skipped_no_reduction"
       ELSE IF out.error = "no reducer" THEN "no_reducer"
       ELSE IF out.error = "decode" THEN "undecodable"
       ELSE IF out.error = "reduce" THEN "unreducible"
       ELSE IF compare(row.stored[1], out.response[1]) = {} THEN "equivalent" ELSE "divergent"
\* Mutant: only an outright difference blocks.
BlockingDivergent(class) == class = "divergent"
Blocking(class) == class \in {"divergent", "undecodable", "unreducible", "no_reducer"}

NewReport == [counts |-> [c \in Class |-> 0], total |-> 0, listed |-> <<>>, more |-> FALSE]
Add(report, class, maxReported) ==
    LET counted == [report EXCEPT !.total = @ + 1, !.counts[class] = @ + 1]
    IN IF ~Blocking(class) THEN counted
       ELSE IF Len(report.listed) < maxReported THEN [counted EXCEPT !.listed = Append(@, class)]
       ELSE [counted EXCEPT !.more = TRUE]
BlockingRows(report) ==
    FoldLeft(+, 0, [i \in 1..4 |-> report.counts[<<"divergent", "undecodable", "unreducible", "no_reducer">>[i]]])
Verdict(report) == IF BlockingRows(report) > 0 THEN "would not survive"
                   ELSE IF report.counts["equivalent"] = 0 THEN "nothing proven" ELSE "supports the ratchet"
\* rows come oldest first; the newest wire turns of the window are looked at.
scanWireTurns(rows, limit) ==
    LET wire == SelectSeq(rows, LAMBDA r : r.source = "wire")
    IN Reverse(SubSeq(wire, IF Len(wire) > limit THEN Len(wire) - limit + 1 ELSE 1, Len(wire)))
Equivalence(rows, limit, maxReported, now) ==
    FoldLeft(LAMBDA report, row : Add(report, Check(row, now), maxReported), NewReport, scanWireTurns(rows, limit))

-----------------------------------------------------------------------------
(* What must hold of stored bodies.  Bodies under no, one or two codings,
   spelled in every way and cut anywhere; stored turns with every stamp;
   windows of up to two rows.                                              *)

Encoded(text, codings) == FoldLeft(LAMBDA body, c : Coded(c, body, "whole"), Plain(text), codings)
\* The first n pieces of what a body carries came through.
RECURSIVE Cut(_, _)
Cut(body, n) == IF body.coding = "" THEN Plain(SubSeq(body.text, 1, IF n < Len(body.text) THEN n ELSE Len(body.text)))
                ELSE IF n = 0 THEN Nothing ELSE Coded(body.coding, Cut(body.inner[1], n - 1), "early")

Spellings(codings) ==
    CASE codings = <<>> -> {<<>>, <<"identity">>, <<"", "identity">>}
      [] codings = <<"gzip">> -> {<<"gzip">>, <<"x-gzip">>, <<"GZIP", "identity">>}
      [] OTHER -> {codings, <<"identity">> \o codings}
Texts == {<<"a", "b">>, <<"a", "b", "c">>, <<"a", "b", "c", "d">>}
CodingLists == UNION {[1..n -> {"gzip", "zstd", "br"}] : n \in 0..2}
\* cut 9 is no cut, 8 a stream whose checksum is wrong.
DecodeCases == UNION {{[algorithm |-> "decode", text |-> t, codings |-> l, header |-> h, cut |-> n] :
                          t \in Texts, h \in Spellings(l), n \in (0..6) \cup {8, 9}} : l \in CodingLists}
Arrived(c) == LET body == Encoded(c.text, c.codings)
              IN IF c.cut = 9 \/ c.codings = <<>> THEN body
                 ELSE IF c.cut = 8 THEN [body EXCEPT !.end = "corrupt"] ELSE Cut(body, c.cut)

\* A body decodes to the text that was encoded however its codings are
\* spelled; one cut anywhere decodes to a beginning of it and says so, unless
\* br alone was applied; a corrupt one and one that grows over the cap, cut or
\* whole, do not decode at all (DecodeContentEncoding: "never silently
\* indistinguishable from a clean one"; readCapped: the guard would "be
\* bypassable by truncating the bomb").
DecodeUndoesTheEncoding(c) == c.algorithm = "decode" =>
    LET out == DecodeContentEncoding(Arrived(c), c.header)
        coded == c.codings # <<>>
    IN /\ c.cut = 9 => (out = Decoded(Plain(c.text), FALSE) \/ (coded /\ Len(c.text) > MaxDecompressedBytes /\ ~out.ok))
       /\ (coded /\ c.cut # 9 /\ out.ok) => out.truncated \/ \A i \in DOMAIN c.codings : c.codings[i] = "br"
       /\ out.ok => IsPrefix(out.body.text, c.text)
       /\ (coded /\ out.ok) => Len(out.body.text) <= MaxDecompressedBytes
       /\ (coded /\ c.cut = 8) => ~out.ok

Meta == {[captured |-> a, request |-> r, elapsed |-> e] : a \in {0, Malformed, 12}, r \in {0, Malformed, 10}, e \in {0, Corrupt, 2}}
Stored(provider, encoding, raw, meta) ==
    [source |-> "wire", provider |-> provider, raw |-> raw, encoding |-> encoding, dropped |-> FALSE,
     stored |-> <<>>, meta |-> meta]
StampCases == {[algorithm |-> "stamp", turn |-> Stored(p, <<>>, Plain(<<"a">>), m)] : p \in {"anthropic", "openai"}, m \in Meta}

\* Reduced at any two times a stored turn is dated and timed alike, by the
\* capture's clock, unless its capture left no stamp and its provider no date;
\* a stamp that does not parse or cannot be true costs the stamp, not the turn;
\* and the two ways to say when a call ended agree (stampCaptureTime:
\* "CreatedAt is when the turn happened, never when tapes heard about it").
ReplayDatesAlike(c) == c.algorithm = "stamp" =>
    LET early == ReduceStoredRawTurn(c.turn, 20)
        late == ReduceStoredRawTurn(c.turn, 30)
        meta == c.turn.meta
    IN /\ early.error = "" /\ late.error = ""
       /\ early = late \/ (c.turn.provider = "anthropic" /\ CreatedAtSource(meta) = "fallback")
       /\ meta.captured <= 0 /\ meta.request > 0 =>
              early.response[1].created \in {meta.request, 12} /\ (meta.elapsed > 0 <=> early.response[1].created = 12)
       /\ (meta.elapsed > 0) <=> (early.response[1].usage # <<>> /\ early.response[1].usage[1].duration = meta.elapsed)

Adapter(content, usage) == [content |-> content, stop |-> "end", usage |-> usage, created |-> 11]
Usage(tokens, duration) == <<[tokens |-> tokens, duration |-> duration]>>
NoMeta == [captured |-> 0, request |-> 0, elapsed |-> 0]
Rows == {[source |-> s, provider |-> p, raw |-> r, encoding |-> <<"gzip">>, dropped |-> r = Nothing /\ a # <<>>,
          stored |-> a, meta |-> [NoMeta EXCEPT !.elapsed = 2]] :
          s \in {"wire"}, p \in {"anthropic", "ollama"},
          r \in {Nothing, Coded("gzip", Plain(<<"a", "b">>), "whole"), Coded("gzip", Plain(<<"a">>), "early"),
                 Coded("zstd", Plain(<<"a">>), "whole"), Coded("gzip", Plain(<<"junk">>), "whole")},
          a \in {<<>>, <<Adapter(<<"a", "b">>, <<>>)>>, <<Adapter(<<"a", "b">>, Usage(0, 3))>>, <<Adapter(<<"a">>, Usage(7, 3))>>}}
Transcript == [Stored("anthropic", <<>>, Plain(<<"junk">>), NoMeta) EXCEPT !.source = "transcript"]
WindowCases == {[algorithm |-> "window", rows |-> w, limit |-> l, listed |-> n] :
    w \in {<<>>, <<Transcript>>} \cup {<<a, Transcript, b>> : a \in Rows, b \in {r \in Rows : r.provider = "anthropic"}},
    l \in {1, 2}, n \in {0, 1}}

\* What a captured turn says that must not change with who reduces it.
Says(r) == <<r.content, r.stop, IF r.usage = <<>> THEN 0 ELSE r.usage[1].tokens>>
WouldLose(row) ==
    LET out == ReduceStoredRawTurn(row, 40)
    IN /\ row.stored # <<>> /\ row.raw # Nothing
       /\ out.error # "" \/ Says(out.response[1]) # Says(row.stored[1])

\* A window is said to support reducing on the server only if every turn of it
\* with both an adapter's reduction and its bytes reduces to what the adapter
\* stored, and some turn does; it is refused only where one does not; a turn
\* is counted once, the ones the report has no room for as well (Report: "The
\* counts stay exact regardless"; "Nothing was proven").
VerdictIsSound(c) == c.algorithm = "window" =>
    LET seen == scanWireTurns(c.rows, c.limit)
        report == Equivalence(c.rows, c.limit, c.listed, 40)
        losing == {i \in DOMAIN seen : WouldLose(seen[i])}
    IN /\ Verdict(report) = "would not survive" <=> losing # {}
       /\ Verdict(report) = "supports the ratchet" =>
              \E i \in DOMAIN seen : seen[i].stored # <<>> /\ seen[i].raw # Nothing
       /\ BlockingRows(report) = Cardinality(losing) /\ report.total = Len(seen)
       /\ report.more <=> Len(report.listed) < Cardinality(losing)

-----------------------------------------------------------------------------
(* What a derive stamps on the rows it writes                              *)
(* (pkg/storage/postgres/change_feed.go): how much of a trace could be     *)
(* derived again from stored bytes, and the digest by which the upsert     *)
(* tells a row that changed from one that was merely written again.        *)
(*                                                                         *)
(* A byte is a number, and a field of fixed width, a length among them, is *)
(* one byte.  The digest is the sequence of bytes that is hashed.  A time  *)
(* is <<>> where it is not set; a cost counts hundred-thousandths.         *)

-----------------------------------------------------------------------------
(* Fidelity                                                                 *)

\* The tiers, worst first.
Tiers == <<"degraded", "reduced", "raw", "">>
fidelityRank(tier) == CHOOSE i \in DOMAIN Tiers : Tiers[i] = tier

RawTurnFidelityByIDs(rawTurns, ids) ==
    [id \in ids \cap DOMAIN rawTurns |->
        [HasRawResponse |-> rawTurns[id].response \notin {"null", "empty"}, RawResponseDropped |-> rawTurns[id].dropped]]
\* A trace is the sequence of the raw turns of its spans, 0 where there is none.
resolveFidelity(rawTurns, spans) ==
    LET rows == RawTurnFidelityByIDs(rawTurns, Range(spans) \ {0}) IN
    [id \in DOMAIN rows |-> CASE rows[id].RawResponseDropped -> "degraded"
                              [] rows[id].HasRawResponse -> "raw"
                              [] OTHER -> "reduced"]
spanFidelity(tiers, rawTurnID) == IF rawTurnID \in DOMAIN tiers THEN tiers[rawTurnID] ELSE ""
\* Mutant: a trace is as good as the best of its spans.
rollupBest(tiers) ==
    LET backed == {t \in Range(tiers) : t # ""} IN
    IF backed = {} THEN "" ELSE CHOOSE t \in backed : \A u \in backed : fidelityRank(u) <= fidelityRank(t)
rollupFidelity(tiers) ==
    LET all == Range(tiers) \cup {""} IN CHOOSE t \in all : \A u \in all : fidelityRank(t) <= fidelityRank(u)
TraceFidelity(rawTurns, spans) ==
    LET tiers == resolveFidelity(rawTurns, spans) IN rollupFidelity([i \in DOMAIN spans |-> spanFidelity(tiers, spans[i])])

-----------------------------------------------------------------------------
(* Content                                                                  *)

\* The columns an upsert assigns to a row it finds, but for the hash, the
\* cursor and the session, which keeps its first value.
SpanColumns ==
    {"parent_span_id", "kind", "name", "status", "call_kind", "thread_id", "model", "stop_reason", "started_at",
     "duration_ns", "seq", "input", "output", "usage", "raw_turn_id", "node_hash", "verdict", "fidelity"}
TurnColumns ==
    {"user_prompt", "response_preview", "synthetic", "status", "started_at", "ended_at", "duration_ns",
     "total_input_tokens", "total_output_tokens", "main_input_tokens", "main_output_tokens", "cache_read_tokens",
     "cache_creation_tokens", "total_cost_usd", "source", "tool_calls", "fidelity"}

\* The fields of the digest, in order.
spanFields ==
    <<"parent_span_id", "kind", "name", "status", "call_kind", "thread_id", "model", "stop_reason", "started_at",
      "duration_ns", "seq", "input", "output", "usage", "verdict", "raw_turn_id", "node_hash", "fidelity">>
\* Mutant: where a span came from is taken for its identity.
turnUnstamped ==
    <<"user_prompt", "response_preview", "synthetic", "status", "started_at", "ended_at", "duration_ns",
      "total_input_tokens", "total_output_tokens", "main_input_tokens", "main_output_tokens", "cache_read_tokens",
      "cache_creation_tokens", "total_cost_usd", "tool_calls", "source">>
turnFields ==
    <<"user_prompt", "response_preview", "synthetic", "status", "started_at", "ended_at", "duration_ns",
      "total_input_tokens", "total_output_tokens", "main_input_tokens", "main_output_tokens", "cache_read_tokens",
      "cache_creation_tokens", "total_cost_usd", "tool_calls", "source", "fidelity">>

\* Mutant: fields are written one after the other.
bare(b) == b
bytes(b) == <<Len(b)>> \o b
i64(n) == bytes(<<n>>)
boolean(v) == bytes(IF v THEN <<1>> ELSE <<0>>)
\* Mutant: a time that is not set is the epoch.
tstampEpoch(t) == IF t = <<>> THEN i64(0) ELSE i64(t[1])
tstamp(t) == IF t = <<>> THEN bytes(<<>>) ELSE i64(t[1])
Magnitude(n) == IF n = 0 THEN <<>> ELSE <<n>>
numeric(n) == boolean(n.valid) \o boolean(FALSE) \o i64(n.exp) \o bytes(Magnitude(n.int))
\* Four digits are kept, of a cost that is not zero.
numericFromFloat(v) ==
    IF v = 0 THEN [int |-> 0, exp |-> 0, valid |-> TRUE] ELSE [int |-> (v + 5) \div 10, exp |-> -4, valid |-> TRUE]

IntegerFields ==
    {"duration_ns", "seq", "total_input_tokens", "total_output_tokens", "main_input_tokens", "main_output_tokens",
     "cache_read_tokens", "cache_creation_tokens", "tool_calls"}
encode(field, v) ==
    CASE field \in {"started_at", "ended_at"} -> tstamp(v)
      [] field \in IntegerFields -> i64(v)
      [] field = "raw_turn_id" -> i64(v) \o boolean(v # 0)
      [] field = "total_cost_usd" -> numeric(numericFromFloat(v))
      [] OTHER -> bytes(v)
contentHash(fields, row) == FlattenSeq([i \in DOMAIN fields |-> encode(fields[i], row[fields[i]])])

\* The cursor of a row after the pass at deriveSeq wrote new over old.
StampedSeq(fields, old, new, deriveSeq) ==
    IF contentHash(fields, old.content) # contentHash(fields, new) THEN deriveSeq ELSE old.derive_seq

-----------------------------------------------------------------------------
(* What must hold of the stamps.  Raw turns behind a trace, rows written twice. *)

Of(algorithm, input) == input.algorithm = algorithm

\* Raw turn 3 is gone by the time its span is written.
RawTurns == [1..2 -> [response : {"null", "empty", "bytes"}, dropped : BOOLEAN]]
FidelityCases ==
    {[algorithm |-> "fidelity", rawTurns |-> r, spans |-> s] : r \in RawTurns, s \in UNION {[1..n -> 0..3] : n \in 0..3}}

\* A trace counts as raw exactly when it can be derived again from what the
\* upstream sent: every stored turn behind it holds its bytes; and as degraded
\* exactly when a limit took some (rollupFidelity).
TraceIsAsItsWorst(input) ==
    Of("fidelity", input) =>
        LET behind == {input.rawTurns[id] : id \in Range(input.spans) \cap DOMAIN input.rawTurns}
            tier == TraceFidelity(input.rawTurns, input.spans)
        IN  /\ tier = "raw" <=> behind # {} /\ \A t \in behind : t.response = "bytes" /\ ~t.dropped
            /\ tier = "degraded" <=> \E t \in behind : t.dropped
            /\ tier = "" <=> behind = {}

Numbers == IntegerFields \cup {"raw_turn_id", "total_cost_usd"}
Values(field) ==
    CASE field \in {"started_at", "ended_at"} -> {<<>>, <<0>>, <<1>>}
      [] field = "total_cost_usd" -> {0, 1, 9, 10, 20}
      [] field \in Numbers -> {0, 1}
      [] OTHER -> {<<>>, <<1>>, <<1, 1>>}
Row(columns, one, other) ==
    [c \in columns |-> IF c \in DOMAIN one THEN one[c] ELSE IF c \in DOMAIN other THEN other[c]
                       ELSE IF c \in Numbers THEN 0 ELSE <<>>]
Written(columns, pair) ==
    {Row(columns, [c \in {pair[1]} |-> v], [c \in {pair[2]} |-> w]) : v \in Values(pair[1]), w \in Values(pair[2])}
\* Two fields that follow one another in the list vary together.
Neighbours(order) == {<<order[i], order[i + 1]>> : i \in 1..(Len(order) - 1)}
SpanOrder ==
    <<"fidelity", "verdict", "usage", "raw_turn_id", "node_hash", "input", "output", "name", "parent_span_id", "started_at",
      "duration_ns", "kind", "status", "seq", "thread_id", "call_kind", "model", "stop_reason", "input">>
TurnOrder ==
    <<"fidelity", "source", "tool_calls", "total_cost_usd", "user_prompt", "response_preview", "ended_at", "started_at",
      "synthetic", "status", "duration_ns">>
Rewrites(table, columns, pairs) ==
    UNION {{[algorithm |-> "rewrite", table |-> table, old |-> a, new |-> b] : a, b \in Written(columns, pair)} : pair \in pairs}
RewriteCases ==
    Rewrites("span", SpanColumns, Neighbours(spanFields) \cup Neighbours(SpanOrder))
    \cup Rewrites("turn", TurnColumns, Neighbours(turnFields) \cup Neighbours(TurnOrder))

\* What the table holds of a row: the cost to four digits.
Held(row) == [row EXCEPT !.total_cost_usd = (@ + 5) \div 10]
Faint(row) == row.total_cost_usd \in 1..4

\* The cursor of a row moves when any column the upsert assigns has changed,
\* and never otherwise, whatever the fields contain: a consumer of the feed
\* misses no edit and reads no row in vain.  The one exception is a cost that
\* rounds to zero and is not: it is held, and not hashed, as zero
\* (contentHasher, "advance the cursor ONLY when the content actually changed").
CursorFollowsContent(input) ==
    Of("rewrite", input) =>
        LET span == input.table = "span"
            fields == IF span THEN spanFields ELSE turnFields
            moved == StampedSeq(fields, [content |-> input.old, derive_seq |-> 1], input.new, 2) = 2
            changed == IF span THEN input.old # input.new ELSE Held(input.old) # Held(input.new)
        IN  IF ~span /\ Faint(input.old) # Faint(input.new) THEN changed => moved ELSE moved = changed
=============================================================================
