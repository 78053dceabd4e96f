# A TLA+ development of tapes

tapes captures the calls an agent makes to an LLM provider, appends them to an
immutable log in Postgres (`raw_turns`), and derives from that log what its API
serves: sessions, traces, spans. Three paths capture: a transparent proxy, an
Envoy `ext_proc` service that watches a gateway, and the replay of recorded
calls. The log is never rewritten; the projection is rebuilt in place, session
by session, by workers that run beside the capture paths, beside each other,
beside operators who ask for a re-derive or move a turn to another session, and
beside consumers who poll the projection for changes. The API server also
publishes *cassettes*, services it finds by the OpenAPI documents they serve,
relays requests to them, and merges their documents with its own.

The modules model this in three layers: the machines, in which several actors
interleave and parts of the system fail; the two halves of derivation, which
walk a captured session; and the pure algorithms everything else relies on to
read one call the same way twice.

## Inventory

| Component | State | Operations | Talks to | Correct when |
| --- | --- | --- | --- | --- |
| Capture pool (`proxy/worker/pool.go`) | job channel, reserved bytes, worker goroutines | `Admit`, `processJob`, `Close` | called by proxy and ingest, writes the store | the byte budget is exact; an accepted job is processed; a close drains |
| Raw layer (`raw_turns.go`, `session_ingest.go`) | `raw_turns`, `sessions` | `PutRawTurn`, `IngestTurn` | marks the derive queue in the same transaction | a re-delivered turn is stored once and marked again; a session keeps its identity |
| Derive queue (`derive_queue.go`, `queries/derive_queue.sql`) | one row per dirty session; advisory locks | mark, list, re-read, conditional clear, sweep, lock | raw layer, workers, repairs | no turn is left underived without a row |
| Derive worker (`pkg/derive/worker`) | its page, the session it is on, timers | `Run`, `runPoll`, `processEntry`, `runSweep` | queue, store | every capture is derived, within the lag bound |
| Session re-derive, span store (`derive.go`, `spans.go`, `change_feed.go`) | turns, spans, links, rollups, content hashes | `RederiveSession`, `writeSpanSet` | workers, re-derives, repairs | passes exclude each other; a live trace stays; rollups are the fold of the rows |
| Attribution repair (`raw_turn_attribution_repair.go`) | corrections, two locks | `RepairRawTurnAttribution` | queue, store | the turn is never lost and ends under its new session |
| Span change feed (`queries/spans.sql`) | `content_hash`, `derive_seq` per row | `ListChangedSpanTurns` | external consumers | nothing behind a consumer's cursor is unseen |
| Derivation (`pkg/derive`) | nodes, sources, emitter | `AddTurn`, `Finish`, `EmitSpans`, `ReconcileTranscripts` | called by a pass | spans form trees, links resolve, nothing counts twice |
| Ingest handlers (`ingest/`) | limits | `handleIngest`, `handleTranscriptIngest` | ext_proc, raw layer, pool | a turn loses its row to a failed write only, and what is stored can be read back |
| ext_proc (`extproc/`) | slots, bytes in flight, the phase of each stream | `Process`, `Dispatch`, `postWithRetry` | Envoy, ingest | one outcome per call; limits exact under retries |
| Streaming proxy (`proxy/`) | pipe and goroutine per request | `handleProxy`, `handleStreamingProxy` | client, upstream, pool | what is captured was relayed, and each reader keeps what it can of a stream that broke |
| Cassette runner (`api/cassetterunner`, `api/cassette_stream.go`) | registry, document cache, source table, rejections | `Refresh`, `SetSources`, relay | API, cassettes | the four tables agree; a relay never leaks |
| Reads (`api/`, `session_reads.go`) | none | list, totals, summaries, composite, page | clients | the reads agree; pages neither skip nor repeat |
| Reducers and codecs (`pkg/capture`, `pkg/llm/provider`) | the event machine of a stream | `Reduce`, `ParseRequest`, `ParseResponse` | proxy, ingest, derivation | streamed, whole and echoed answers are one |
| Merkle chain, in-memory store (`pkg/merkle`, `pkg/storage/inmemory`) | nodes | hashing, `LoadDag`, `AncestryChain` | derivation, tests | noise does not fork a chain; a branch is whole |
| API documents (`pkg/tapesoapi`), manifests (`pkg/cassette`) | none | merge, compile, validate, render; parse, canonical form | API, runner | order never matters, nothing is shadowed, names keep their meaning |
| Backfill (`pkg/backfill`) | none | header and path readers | ingest | a replayed call lands where the live one did |
| CLI, configuration, telemetry, deck, generated clients | none that is shared | | | not modelled |

What is hard in this system: a mark placed while a pass is between its read and
its clear; a pass whose write follows a newer one; a lock that lives on another
connection than the work it protects; two transactions of one operation with a
crash between them; a session row that lands after the turns it identifies, or
is invented by its child; permanent failures at the head of a queue; cursors
allocated at write time and read at commit time; a channel closed under its
senders; a retry whose first attempt was delivered; a stream that is cut, whose
client leaves, or that outlives its handler; four tables under four locks; a
thread captured before the call that spawned it; a transcript that branches and
is uploaded again and again. `PROJECT.json` has the hazards, each at its line,
with the properties aimed at it.

## Modules: machines

| Module | Models | Used by |
| --- | --- | --- |
| `Projection` | what the pipeline promises its readers, over three tables | instantiated by `DeriveQueue` |
| `DeriveQueue` | raw layer, derive queue, workers, re-derives, faults | `MCDeriveQueue`, `AttributionRepair`, `DeriveQueueProofs` |
| `AttributionRepair` | the repair endpoint on top of the whole pipeline | `MCAttributionRepair`, `AttributionRepairProofs` |
| `DeriveDebounce` | the worker's clock: debounce, lag bound, poll interval, page order | `MCMachines`, `PipelineProofs` |
| `CapturePool` | admission, workers, shutdown | `MCMachines`, `PipelineProofs` |
| `ChangeFeed` | derive passes as transactions, the polling consumer | `MCMachines`, `PipelineProofs` |
| `CassetteStream` | the relay of one request to a cassette | `MCMachines`, `CassetteProofs` |
| `StreamingProxy` | the transparent proxy's exchanges and captures | `MCMachines`, `PipelineProofs` |
| `Cassettes` | the refresh loop, registry, cache, source table | `MCMachines`, `CassetteProofs` |
| `ExtProc` | streams, dispatcher, retries, the ingest server behind them, and their properties | `MCExtProc`, `ExtProcProofs` |
| `SessionStore` | sessions and their projection under four writers | `SessionReads` |
| `SessionReads` | the API's reads and a client that pages | `MCSessionStore`, `SessionProofs` |

*DeriveQueue.* `attribution` is the session column of `raw_turns`, `sessions`
the identity rows, `queue` the `dirtied_at` of each `derive_queue` row, `rows`
the `session_id` of each trace row, `lock` the advisory locks. A worker is a
program counter, the rest of its page, the session it is on, the stamp it
re-read under the lock and the raw turns its pass read.

| Action | Code |
| --- | --- |
| `PutRawTurn` | `Driver.PutRawTurn`, one transaction: insert or dedupe, transcript session, mark |
| `IngestTurn` | `Driver.IngestTurn`, a transaction of its own, earlier or later |
| `Start`, `SweepTick`, `RunPoll`, `EndPoll` | `Worker.Run`, `runSweep`, `runPoll` |
| `TryLock`, `RereadDirty`, `RereadSkip`, `ClearDeriveDirty` | `processEntry` and the queue calls it makes |
| `ReadRaw`, `WriteDerivedSet` | `RederiveSession`: the read is outside the write's transaction |
| `CallRederive`, `AcquireLock` | `RederiveSessionLocked` |
| `DeriveError`, `InfraError` | the two error classes of `processEntry`, commits of unknown outcome included |
| `Crash`, `LoseLock` | process death or an abandoned caller; the pinned lock connection drops while the pass goes on |

The debounce decision at the re-read is a free choice here; `DeriveDebounce`
shows that the code's choice cannot put a session off for ever. `dirtied_at` is
compared for equality only, so it is a stamp nobody else holds.

*AttributionRepair.* A repair observes the turn's session with no lock, takes
the locks of both sessions in key order, records the correction in a transaction
that marks both, re-derives the old one, deletes it if it is empty, re-derives
the new one, marks what failed, and releases. Each is an action that may fail or
be the last thing the process does.

*DeriveDebounce.* A timestamp is kept as its age, saturating where no comparison
tells ages apart, so a session may stream for ever in finitely many states.

*CapturePool.* `reserve` and the send are two steps, as in `Admit`. `ClosePool`
and `Shutdown` are the halves of `Close` of both servers, in their order.

*ChangeFeed.* A pass takes its transaction id, writes under row locks and commits
or rolls back; the consumer reads rows past its cursor and below the oldest open
transaction. Row locks and `pg_snapshot_xmin` are external. A prune removes a
row with its stamp: the feed says nothing of deletions.

*CassetteStream.* The handler that waits for a status (`AwaitReturns`), the
goroutine that runs the reverse proxy into a pipe (`UpstreamAnswers`,
`UpstreamFails`, `UpstreamSends`, `Cancel`, `Finish`, `CloseWriter`: its
deferred calls, last first), fasthttp that pulls after the handler returned
(`Pull`, `WriteFails`), and the watch on an event stream's connection.

*StreamingProxy.* `Receive` to `Store`: a request is answered whole or relayed
chunk by chunk (`Relay`, `RelayFails`, `StreamEnds`), its client may leave
(`ClientLeft`), and a job is left for the pool. A text is the place of the
chunk it came in, so that a capture tells which of the text it kept. Three
readers relay a stream and differ in what they keep: the reducer of
`pkg/capture` answers with what came, whatever ended the stream; the NDJSON
reader answers at the upstream's end or break, not for a client that left, and
the text of a last line that has any replaces the rest; the legacy reader
answers at the regular end only, and finds no tool call in an OpenAI delta.
Request bodies live in buffers the HTTP server recycles; the job holds the
buffer, not a copy.

*Cassettes.* One loop walks the configured sources: fetch, admission, cache,
registry, resolution, each a step, with `SetSources` and requests in between. A
new configuration withdraws sources step by step along the table as it was
(`previous`), and a source it keeps takes its state along (`KeepSource`).

*ExtProc.* `OnRequestHeaders` to `Hangup` are the callbacks of `Process`;
`Dispatch` classifies, takes a slot and bytes, decides the raw lane and enforces
the body limit; `Post`, `NetworkError`, `Answered`, `Release` are a goroutine of
`postWithRetry`; `PersistRawTurn` and `ProcessTurn` are the two halves of the
ingest handler, which may act on an attempt whose client has given up. Bodies
are sizes, compared with the limits of the code; `OnResponseBody` takes one
message of them, empty perhaps when it only ends the stream.

*SessionStore and SessionReads.* The upserts of a capture and of a transcript
(two steps: the parent is resolved, then the session is upserted), the derive
pass that rewrites turns, spans, links and folds the rollups, rename and delete;
and the list with its keyset cursor, the totals, the summaries, the composite
and the page of a trace. `Derivations` are the projections a key's raw turns may
give. The id of a trace is minted from the request that opened it, and a request
is one raw turn of one session, so those of two keys share no trace; spans lie
in their traces, links join spans of one pass (`DerivationsAssumption`). Moving
a turn between sessions is `AttributionRepair`'s.

## Modules: derivation

| Module | Models | Used by |
| --- | --- | --- |
| `Deriver` | `AddTurn`, classification, dedupe of re-sent history, verdicts, thread anchors | `SpanEmitter` |
| `SpanEmitter` | `EmitSpans`: the phased walk over main calls, threads and offshoots, and what its result must satisfy | `MCDerivation`, `SpanProofs` |
| `Transcripts` | the files of a harness, their versions, live branch, projection and merge | `MCDerivation` |

A call of `Deriver` is its nodes, tool uses and what `ClassifyCall` sees in it;
`SpanEmitter` emits one source per step, in the order of the code, so that its
invariants hold between any two. In `Transcripts` the environment appends
records to files and uploads them at any time; the operators are what a pass
makes of the uploads.

## Modules: algorithms

Operators, checked for every input of bounded sets against what they promise.
`MCAlgorithms` has one action per kind of input; a state is an input.

| Module | Models |
| --- | --- |
| `Reducers` | the event machines of both providers, one-shot reducers, request parsers |
| `CaptureIdentity` | thread ids, session envelopes and session keys, as three readers take them from headers; the proxy's routes, agents and upstreams; ext_proc's classification of paths and reducers |
| `RawReduction` | content decoding, server-side reduction, dating, the equivalence report; fidelity tiers, the content digest, when the cursor of a row moves |
| `MerkleChain` | what of a message is hashed and what is previewed, chains, branches, ancestry |
| `OpenAPI` | fragments, namespaces, merge, validation, lint, the aggregate of core and cassettes |
| `Schemas` | instance validation, rendering for 3.0 and 3.1, reading, bundling |
| `Manifests` | parsing, validation, canonical form and grants of a cassette's manifest |

Where the program has two readers of one thing the model has two operators: the
envelope readers of ext_proc and of backfill differ in what they do with
metadata that is no object (`decodeMetadata`, `HarnessMetadata`, both behind
`Validate`), and the proxy trims a thread id where the other two do not
(`Trimmed`).

## Runs

Passing:

| Run | Config | Shows |
| --- | --- | --- |
| `derive_safety` | `MCDeriveQueue.cfg` | `TypeOK`, `PassHoldsLock`, `NothingLost`, `NeverPruneLive`, and `Refines`: the pipeline implements `Projection`. Two workers and a re-derive, two faults |
| `derive_live` | `MCDeriveLive.cfg` | `MarkedIsProjected`: the poll loop projects a marked session; `RecentIsProjected`: the sweep heals a late identity row; with a fault and a lost lock |
| `repair` | `MCAttributionRepair.cfg` | `LocksAreSafe`: a repair owns both its locks and no two wait in a circle; `RepairLosesNothing`: a moved turn stays queued until projected, and ends in its new session if nothing failed |
| `machines` | `MCMachines.cfg` | the six machines that share no state, one per behaviour, see below |
| `extproc` | `MCExtProc.cfg` | `SlotsExact`, `BytesExact`, `CountedOnce`, `RowsAreKeptWhole`, `RetriesAreHarmless` |
| `sessions` | `MCSessionStore.cfg` | `RollupsAreTheFold`, `ListedOnce`, `AnswersAgree`, `IdentityIsKept` |
| `derivation` | `MCDerivation.cfg` | a pass, or the files it reads, one per behaviour: `SpansHoldTogether`, `AttributionsHold`, `PassEnds`; `ProjectionIsSound`, `SelectionIsSound`, `GrowthIsStable` |
| `algorithms` | `MCAlgorithms.cfg` | `CapturesReduceAlike`, `CallsAreRecognised`, `StoredIsReplayed`, `ChainsHold`, `MergeIsFaithful`, `DeclarationsMeanOneThing` |

A property with a broad name is the conjunction of the parts it names, each
stated and commented beside it. The machines of `machines`: `BoundedLag`,
`EveryCaptureIsDerived` (debounce); `PoolGivesBack`, `ClosedIsDrained` (pool);
`SeenIsComplete` (feed); `StreamSettles` (relay); `CaptureIsTheAnswer`,
`ExchangesSettle` (proxy); `TablesAgree`, `FleetIsStable` (cassettes).

Violated, each a statement of the repository its code does not keep:

| Run | Config | Shows |
| --- | --- | --- |
| `repair_partial` | `MCRepairPartial.cfg` | `RepairConverges` fails after one failed re-derive |
| `capture_close` | `MCCaptureClose.cfg` | `CloseIsGraceful` fails: the pool is closed under its senders |
| `aggregate` | `MCAggregate.cfg` | `PublishedIsServed` fails for two cassettes named `m` and `m-s` |
| `proxy_buffer` | `MCProxyBuffer.cfg` | `StoredIsItsOwn` fails for two requests in turn in one buffer |

### Bounds

- `derive_safety`, `derive_live`: two turns of one session, one of them a
  transcript: one is in the log when a pass reads, the other lands while it is
  under way; a third would repeat the second. Two workers and a re-derive are
  all the pairs of passes there are. Two faults in `derive_safety`: a fault
  during the recovery from a fault. Stamps: one more than the sessions and
  workers that can hold one; only compared, hence symmetric.
- `repair`: two sessions, one captured and projected turn, two repairs, one
  worker, one fault at any step: the second repair undoes or overtakes the first.
- `machines`: debounce 2, lag bound 4, poll interval and page time 1, the order
  of the code's defaults (20 s, 45 s, 5 s), and a session that always fails
  beside one that streams; job weights of which two fit the budget of 3 together,
  one fits alone and one weighs nothing, one channel slot, two workers; two
  rows, two contents and three transactions, so that two passes commit out of
  order around a poll and a row is pruned and comes back; one exchange of up to
  three chunks; two sources that serve two names, either the same, in either
  order, and a configuration that changes twice.
- `extproc`: two calls that compete for two slots and 40 bytes, bodies just
  below, at and above the limits of 20 bytes per envelope and 3 raw bytes, two
  attempts per post. Two calls fill the two slots and never find them taken: the
  bytes refuse, the slots do not. `SlotsAreExact` is proved for every number of
  both.
- `sessions`: two keys that may name each other as parent, two writers, five
  ids (a key is deleted and created again), pages of one row.
- `derivation`, a pass: any four of seventeen calls, in any capture order, with threads two
  deep, repeated and re-sent calls, compactions, checks and searches.
- `derivation`, files: up to five records over three agents' files, two uploads, two
  wire calls.
- `algorithms`: the sets are built in the modules and each names the feature it
  is there for; cuts fall after every event, every order of a merge is tried,
  every type meets nullability, every keyword meets every instance; wrappers
  nest; documents with paths one id is made of for two are among the documents
  of a merge and of the aggregate. The promises of `MergeIsFaithful` about
  namespaces and the aggregate are made of documents whose ids stay apart.

Every symmetry is over identifiers that are only compared, and no run with a
liveness property has one.

### Fairness

Weak fairness of a worker's own steps: its loop runs. Strong fairness where a
step is only enabled again and again: taking a lock that is free between the
passes of others, listing, the settled re-read (`BoundedLag` is why this is
justified) and the sweep tick. Nothing obliges a turn to arrive, an identity row
to land, an operator to act, or a fault to happen. `MCMachines` asks for weak
fairness of what is scheduled in the machine that runs: goroutines, timers, the
worker's loop, a transaction's end, an upstream that answers or whose connection
breaks, the refresh loop; never of callers and clients. An upstream that has
answered need not say more, and `UpstreamReleased` holds without it. `ExtProc`
has weak fairness of the posting goroutine, which its client timeout justifies.

Deadlock is checked where the system never stops. It may stop: a pool that was
shut down, transaction ids at their bound, exchanges that ended, all calls
handled, an input that was read. In `derivation` it is checked of a pass, which
must come to its end; uploads at their bound may rest (`Ends`).

## What the checks found

Four statements of the repository are refuted by a run; `PROJECT.json` has the
quotations.

1. *Partial repair* (`repair_partial`). After a failed re-derive of the old
   session, the new session's derive leaves the row under the old one, its mark
   is cleared, and the old session's pass then prunes the row. The queue is empty
   and the turn is projected nowhere until its session is marked again.
2. *Close before shutdown* (`capture_close`). Both servers close the pool while
   handlers still run; a late `Admit` sends on the closed channel.
3. *Recycled buffer* (`proxy_buffer`). A job keeps a slice of the request's
   buffer. Stored after the answer was written, the row may hold the next
   request's bytes.
4. *Names that extend one another* (`aggregate`). Operation ids get the
   cassette's name with `_` for `-` and a `_` behind it, so operation `s_read` of
   `m` and operation `read` of `m-s` are one id, and the aggregate does not
   compile for anyone.

Seven more are not true of the code either. No run is spent on them: the property
named with each states the case in which it fails. In 2 to 5 it says what the code
does there, so that a change either way shows; in 1, 6 and 7 it claims less there.

1. *Accepted and lost.* The ingest handler logs a raw write that failed and
   answers 202. `RowsAreKeptWhole` says that such a write is the only way to lose
   a turn, and therefore does not say that what is acknowledged is stored.
   "acknowledges a turn that reached the raw layer" (`ingest/responses.go:14-17`).
2. *Metadata that is no object* is dropped by ext_proc and the call accepted;
   backfill keeps it, and the replay of the same call is rejected
   (`ReplayKeepsTheSession`). "Every parser of this corpus must agree on all of
   it" (`fixtures/envelope/README.md:92-93`).
3. *Nested wrappers.* The preview of a wrapper inside another of the same tag
   keeps the inner opening marker (`PreviewKeepsTheWords`: a marker stays exactly
   there). "one pass handles noise nested inside a wrapper and wrappers nested
   inside wrappers alike" (`pkg/merkle/projection.go:203-205`).
4. *Authoritative info.* It replaces what was merged before it, and conflicts
   with what is merged after it (`NothingIsShadowed`). "the one that wins, rather
   than colliding with another document's" (`pkg/tapesoapi/ingest.go:83-84`).
5. *Anonymous operations.* Ids made from paths fold `{id}` with `id` and `a-b`
   with `a_b`; a document that has such a pair is published alone, where no id is
   made, and fails the aggregate (`TwinsFailTheAggregate`). "an anonymous
   operation is legal in a cassette, because the id prefix names it"
   (`api/cassetterunner/aggregate.go:156-158`).
6. *Two bounds on one side.* A schema with an inclusive and an exclusive bound
   keeps only the exclusive one in 3.0 (`ReadsWhatItWrote` asks there that
   nothing is refused that was admitted). "lossless in that direction"
   (`pkg/tapesoapi/render_schema.go:196-198`).
7. *Tool calls of an OpenAI stream* are in its deltas, where the legacy reader
   does not look; a turn that is only a call leaves an empty answer
   (`CaptureIsTheAnswer` leaves the calls of that path out). It "reduces to a
   non-empty assistant message the deriver can project" (`proxy/proxy.go:724-730`).

Seen while modelling, and kept as the bound or condition a property states:

- *Lost lock connection.* With `MaxLockLosses = 1`, `NeverPruneLive` fails: the
  lock is on a pinned connection, the pass works on others, and nothing fences
  the write. `derive_live` shows that the queue projects the trace again.
- *Poisoned page.* As many failing sessions as a page holds keep its head and
  starve the others (`DeriveDebounce` with `ListSize = 1`).
- *Split pass.* All rows of a pass share one cursor value; a page that ends
  inside it skips the rest (`ChangeFeed` with `PageSize = 1`).
- *Leftover threads.* Threads whose anchor never appeared are emitted in one
  sweep, so one whose launcher is another of them hangs off the trace's root;
  `ThreadsAnchored` speaks of threads reachable from the spine.
- *Faint costs.* A cost that rounds to zero and is not zero is hashed unlike
  zero, so a row's cursor may move with nothing stored having changed. No
  change is ever missed.
- *Informational statuses.* A 1xx answer settles the status of a relay;
  `FinalStatusIsTheAnswer` excludes it.
- *Cut brotli bodies* decode to a beginning with no error, as the comment at
  `contentencoding.go:169` says.
- *Nullable null.* A schema of type `null` that is nullable is written for 3.1
  as a list of two nulls, which is read back as no type and admits everything;
  `ReadsWhatItWrote` says so of it and asks equality of all others.
- *Last lines.* The last line of an NDJSON stream, if it has text, is taken for
  the whole text; it has some when the stream broke. `CaptureIsTheAnswer` asks
  for the whole text of all other streams.
- *Blanks around a thread id* are trimmed by the proxy and by no other reader;
  `ThreadsAgree` compares the three where there are none.
- *Pass without an identity row.* A pass over a session that has none writes
  nothing and clears the mark. `NothingLost` counts its turns as derived, since
  the queue owes them no more; that they are projected once the row is there is
  `RecentIsProjected`, inside the sweep's window.
- *Webhooks* keep the old names of security requirements; the aggregate is
  rendered for 3.0, which has none.

## Proofs

TLAPS proves, for every value of the constants:

| Theorem | Statement | Assumptions |
| --- | --- | --- |
| `DeriveQueueProofs!TypeCorrect` | `Spec => []TypeOK` | the module's |
| `DeriveQueueProofs!PassesExclude` | `Spec => []PassHoldsLock` | `MaxLockLosses = 0` |
| `DeriveQueueProofs!NothingIsLost` | `Spec => []NothingLost` | `MaxLockLosses = 0` |
| `DeriveQueueProofs!LiveTracesStay` | `Spec => NeverPruneLive` | `MaxLockLosses = 0` |
| `DeriveQueueProofs!Implements` | `Spec => Refines` | `MaxLockLosses = 0` |
| `PipelineProofs!FeedNotOvertaken` | `FeedSpec => []CursorBehindOpen` | the module's |
| `PipelineProofs!FeedComplete` | `FeedSpec => []SeenIsComplete` | the page holds every row |
| `PipelineProofs!CloseDrains` | `PoolSpec => []ClosedIsDrained` | the module's |
| `PipelineProofs!BytesAreAccounted` | `PoolSpec => []BytesAccounted` | the module's |
| `PipelineProofs!CapturesAreFaithful` | `ProxySpec => []CaptureIsTheAnswer` | the module's |
| `PipelineProofs!TurnsStayCaptured` | `ProxySpec => TurnsAreCaptured` | the module's |
| `ExtProcProofs!SlotsAreExact` | `Spec => []SlotsExact` | `LimitsAssumption`, finitely many streams |
| `ExtProcProofs!BytesAreExact` | `Spec => []BytesExact` | the module's, finitely many streams |
| `ExtProcProofs!CallsAreCountedOnce` | `Spec => []CountedOnce` | `LimitsAssumption`, finitely many streams |
| `ExtProcProofs!RowsHold` | `Spec => []RowsAreKeptWhole` | the module's |
| `ExtProcProofs!RowsAreKept` | `Spec => RowsStay` | the module's |
| `PipelineProofs!LagIsBounded` | `DebounceSpec => []BoundedLag` | a page lists every session |
| `AttributionRepairProofs!LocksStaySafe` | `RepairSpec => []LocksAreSafe` | `MaxLockLosses = 0` |
| `AttributionRepairProofs!RepairsLoseNothing` | `RepairSpec => []RepairLosesNothing` | `MaxLockLosses = 0` |
| `CassetteProofs!FleetTablesAgree` | `FleetSpec => []TablesAgree` | `CassetteAssumption` |
| `CassetteProofs!VanishWithTheirSource` | `FleetSpec => OnlyWithdrawn` | `CassetteAssumption` |
| `CassetteProofs!AnswerIsKept` | `StreamSpec => []FinalStatusIsTheAnswer` | `StatusAssumption` |
| `SessionProofs!RollupsStay` | `Spec => []RollupsAreTheFold` | the module's |
| `SessionProofs!IdentityStays` | `Spec => IdentityIsKept` | the module's |
| `SessionProofs!AnswersStay` | `Spec => []AnswersAgree` | the module's |
| `SessionProofs!WalksListOnce` | `Spec => []ListedOnce` | the module's |
| `SpanProofs!SpansHold` | `Spec => []SpansHoldTogether` | the module's |
| `SpanProofs!TokensAreConserved` | `Spec => []TokensConserved` | the module's |
| `SpanProofs!TracesAreNamedOnce` | no two traces have one id | the module's |
| `SpanProofs!PassesEnd` | `Spec => PassEnds` | the module's |
| `SpanProofs!VerdictsHold` | `Spec => []VerdictsOneToOne` | the module's |
| `SpanProofs!RootedHang` | `Spec => []RootedThreadsHang` | the module's |
| `SpanProofs!AttributionsAreSound` | `Spec => [](TranscriptPromptsAreOwn /\ ThreadAnchorsAgree => AttributionsHold)` | the module's |

What the modules assume of their constants is stated in them, under a name, and
TLC evaluates it for every instance that is run. `MaxLockLosses = 0` says that
no pinned lock connection drops under a pass; without it `NeverPruneLive` is
false, as above. Several repairs, workers and sessions, and any number of other
faults, are in every theorem that names it.

*Derive queue.* `NothingLost` speaks of a session without a mark; to be
inductive it needs to know what a mark still on its way to being cleared stands
for. The invariant adds: the stamp a worker holds belongs to its own session
(`CurIsStamp`); if the mark a worker re-read is still the current one, the raw
turns have not changed since it read them (`ReadIsMarked`, `MarkGuardsRead`
before the write, `MarkGuardsWrite` after it), because every insert takes a
fresh stamp. So a clear that succeeds clears a mark with nothing behind it. For
the traces: every trace row is backed by the raw layer (`RowsTruthful`), and
what a pass read lies between the session's traces and its raw turns
(`ReadBetween`), which holds only while passes exclude each other
(`PassHoldsLock`). The write then prunes nothing that is live, which is also the
step simulation of `Projection`.

*Change feed.* `Behind` relates ids to transactions: every open transaction and
every cursor value is below the next id, every committed stamp belongs to an
ended transaction, and what is behind the cursor is below every open one. A
commit can thus only stamp rows ahead of the cursor, and a poll only moves the
cursor over rows it has delivered. `PageHoldsAll` shows that a page as large as
the table holds every changed row.

*Capture pool.* `Drain`: a queued job is in the channel, a job under way is in
some worker's hands, a worker exits only with the channel closed and empty and
with empty hands, and the server stops only after all have exited. `Account`
adds what the bytes need: the channel holds queued jobs, each once, so a job a
worker takes has a reservation nobody has given back.

*Streaming proxy.* The invariant is short: a request has a capture only when no
more of its answer will come, and the capture is faithful to what was relayed
(`ProxyInv`). The work is in the folds. `FoldKeeps` says what collecting calls
makes of a sequence: the calls of both, each that has an id once; it is shown
for any set of places of the sequence, over the recursion behind `FoldLeft`
(`HasFold`, `OneFold`). From it follow the calls of the chunks
(`CollectedCalls`), the merge with the blocks of the last chunk (`MergedCalls`)
and the rebuilt answer (`RebuiltIsFaithful`), which is one whenever the chunks
had text or a tool call: that is `TurnsAreCaptured`.

*Debounce.* Between two pages a wait is the lag bound, one page and the time
since; under a page it is the lag bound and the page so far, or the session is
listed and still to come, with a mark or a wait that the worker may not skip
(`InStep`, `StillListed`). The worker decides by `first_dirtied_at`, so that has
to be at least as old as the oldest unread capture (`FirstIsOldest`), also when
a derive ends while a capture came in under it (`DeriveReadAll`). A session past
the bound is then on the next page, if the page has room for all of them: the
assumption is the *poisoned page* above, seen from the other side.

*Attribution repair.* Three invariants, each resting on the one before.
`LockDiscipline`: whoever is at work on a session owns its lock, a repair holds
no lock but those of its two sessions (`KeysOnly`), and none above what it waits
for (`InOrder`), so the lowest key of a circle of waiting repairs would be held
by nobody. `MarkDiscipline`: what a pass is about to write, and what it wrote
until it clears the mark, is what the raw layer attributes to its session
(`ReadsAreCurrent`, `WrittenIsCurrent`), since a correction needs the lock the
pass holds; and both sessions of a recorded repair are queued
(`RepairIsMarked`). `MoveDiscipline`: as long as nothing failed, each turn is
projected where it belongs or a repair is between the two passes that will take
it there (`TurnsArrive` through `OnTheMove`), and a session with a turn or a row
has an identity row, so that the cleanup deletes none that is needed
(`RowsAreCovered`).

*Cassettes.* The four tables are written one after the other, so in the middle
of a pass they disagree; `FleetInv` says how far. Registry and cache have a name
together, of one source and document, except where a publication or a withdrawal
stands (`Paired`, `PassIsPlaced`); a cached document belongs to the source that
has the name, to one whose withdrawal has not reached it, or to the one being
published (`Owned`); a document is stale exactly when its source has a problem
(`StatusFits`), and the problems reported are of sources configured or about to
be withdrawn (`ProblemsFit`). Two sources of one URL would break all of these
(`SourcesAreApart`). Every disjunct that names a step of the pass is gone when
the pass is idle, which is `TablesAgree`. The relay's `StreamInv` says what may
have settled the status at each step of the goroutine that proxies.

*Sessions.* `StoreInv` says why a pass owns what it writes. A trace row belongs
to the session whose raw turns may project to it, and the sets of two keys share
none (`TracesAreTheirs`); a span belongs to the owner of its trace and a link to
the owner of its spans (`SpansAreInside`, `LinksAreInside`). Hence rewriting a
session's rows changes no other's, and its fold is the fold of the new set
(`WriteSpanSetEffect`). Ids are minted in order and never again
(`IdsAreMinted`), so a session that is created owns nothing yet and the zeros it
starts with are its fold, also when its key was deleted before. A row under
which someone called of its own accord keeps a subject that called
(`CallersAreKnown`), which is what keeps the placeholder a child made from
overwriting its parent. `UpsertRows`, `UpsertGrows` and `DeleteKeeps` give the
effect of the other steps. That list and totals agree is counted through the
bijection between rows and ids. `WalkInv` follows the client that pages: what it
was served is in the order of its cursor (`PageIsInOrder`, `PlacesAreTaken`),
the items it has a right to are rows with the value they had when it began, and
each of them is ahead of the cursor and not listed, or behind it and listed once
(`WalkKeepsUp`). Two rows with one value are told apart by their id, so a page
that ends between them loses neither.

*Span emission.* `EmitterInv` is about one emitter and the calls, inserts and
ids it has come by: its spans form trees (`Trees`), every tool, thread and trace
has its span where the emitter says (`Placed`), a span is named after what it is
for (`Named`) and tells its kind (`Told`), links have both ends (`LinksTied`), a
tool result feeds one call (`FedOnce`), and a compaction is armed or used, never
both (`Seamed`). Each operator that takes an emitter to the next keeps it. The
walk's own invariant says that the sources are calls, each node new to one of
them (`SourcesAreCalls`), that a source still to come is in one place (`Queued`,
`Phased`), and that it has left nothing in the emitter: hence every name is
fresh when it is taken. That a pass ends is a rank: the calls still to come,
then the phase, then the retries of a pass that moved something. What a finished
pass adds up to is the sum over its llm spans, renamed to calls and cut into
parts by trace, model or kind (`SumRenamed`, `SumByParts`, `CountByParts`).

*Attributions.* `AnchorInv`: a conversation call is still to come or its tools
and its thread are in the emitter, and a pass over the threads that moved
nothing leaves only calls whose spawning tool use is not there. When the walk is
over, the tools reached from the spine are therefore closed under spawning, and
`Rooted` is the least such set (`RootedHang`). `ThreadsAnchored` asks more, that
the tool use is the one *each* call of the thread names. Anchors are found per
conversation root, so that the calls of a thread name one is a fact about
transcripts and not about the code; it is the condition `ThreadAnchorsAgree`.
`PromptInv`: a trace has the prompt of the call it is named after. A prompt
taken from a call's new nodes is no other's; one taken from a transcript's last
turn (`transcriptGenuinePrompt`) is not compared with anything, and a call on
the spine may have brought it already, hence `TranscriptPromptsAreOwn`. Both
conditions were checked with TLC to hold in every state of a pass of `derivation`, with
threads and transcripts in it to which they apply. `JudgeInv`: the checks of an
action are grouped apart, a group takes a tool use nobody consumed, and the
passes behind leave a check where it hangs; this needs no condition. `GroupChecks`,
`AttachVerdicts` and the tool registry are recursive functions over places;
`StepsExist` and `PlacesInduction` show that they have values and what those are.

*ext_proc.* `Inv` joins the fields the steps read (`Shape`), the account of the
slots (`SlotsExact`) and, for each call, how many outcomes its stream and its
dispatch allow (`Counted`): none before the end of its response or stream, none
while its dispatch is under way, one after. `CountedOnce` alone is not
inductive, since it does not say that a dispatch under way has recorded nothing.
The lemmas give what each kind of step does to a call (`StreamGoesOn`,
`StreamCloses`, `TurnEnds`, `DispatchGoesOn`, `DispatchSettles`) and to the slots
(`StartedSlots`, `ReleaseSlots`), over the cardinality of the posts in flight.
`RowInv` follows an envelope through the system: the traffic of a stream
(`Carried`), the envelope of a dispatch, which every guard of `dispatchTurn`
comes before (`Posted`), the handler of each attempt, which answers what is not
a refusal only after it wrote (`Handled`), and the rows (`Readable`). There is
one lemma for each callback of `Process`. `ByteInv` adds to the account of the
bytes that a call in flight has a weight, which the sizes of its stream and the
cuts of its envelope make a natural number, and that no step between dispatch
and release changes it.

*Sums.* Both byte accounts are sums over a set that changes by one element, and
the community modules define a sum by recursion over subsets and an arbitrary
choice. `FoldTheorems` shows that this recursion has a solution and one only
(`HasSolution`, `OneSolution`), so that any element may be taken out first
(`SumRemove`) and only the values on the set count (`SumAgree`). The library's
induction theorem for finite sets is about an operator, which the provers do not
instantiate; `SubsetInduction` says the same of a set, from the library's
theorem that proper subsets are well founded, by a minimal counterexample.
A sum over a set is the sum of those over its parts (`SumByParts`) and of those
over two functions (`SumOfTwo`), renaming changes none (`SumRenamed`), and sets
of places have a first and a last one (`FirstPlace`, `LastPlace`).

Only model-checked:

- liveness (`MarkedIsProjected`, `RecentIsProjected`, `EveryCaptureIsDerived`,
  `QueuedIsProcessed`, `RequestsEnd`, and the parts of `StreamSettles`,
  `FleetIsStable` and `RetriesAreHarmless` that say something happens; what these say never happens
  is proved), and what speaks of `ENABLED`: out of the prover's reach;
- `AttributionsHold` without the two conditions above: for some constants it is
  false, so it is a claim about the calls of the run;
- `ProjectionIsSound`, `SelectionIsSound` and `GrowthIsStable`: the projection
  sorts records and folds over files and branches with operators of the
  community modules that take operators, which the provers do not unfold;
- the six properties of `algorithms`: claims about every input of operators that
  recurse over it, most of them declared `RECURSIVE`, of which the provers see
  nothing.

## Not modelled

- CLI, configuration, credentials, telemetry, deck, demo seed: terminal, file
  and network plumbing around the components above, with no shared state.
- Generated clients and queries, except the queries the actions call.
- Metrics, logs and formatting; the poll backoff, a finite delay that fairness
  stands for.
- The Postgres connection pool: every process finds a connection, although
  blocked re-derives and repairs pin one each.
- More than one organisation; a store without Postgres, beyond the in-memory
  node store.
- Of a session: harness metadata, task lists, kind counts and git activity,
  which no property tells apart. Of derivation: cost tables and titles. Of a
  repair: turns without a session key, thread ids and parents.
- The MCP server and the handlers that only translate a read into JSON;
  pricing; webhooks of the 3.0 aggregate; regular expressions and formats in
  schemas.
- Of derivation: the anchors codex gives single calls and the stamps attach
  passes set on root nodes; tool results sent under the role `tool` count as the
  user's.
- Of streams: the framing of SSE, the header names and trimming that `net/http`
  does itself; a stream is its events and a header its value.
- `RederiveFromRaw` and `Stack.Run`, sequences of operations that are modelled.

`PROJECT.json` lists every component with its status and the reason.

## Plan

What is left is proof: the projection of transcripts (`Transcripts`), whose
sorts and folds would first have to be written as functions over places, as the
tool registry and the groups of checks are in `Deriver`; and, with the
inductions of `FoldTheorems`, lemmas about single folds of the algorithms. Their
claims about every input stay with TLC.
