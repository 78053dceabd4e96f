----------------------------- MODULE ChangeFeed -----------------------------
(***************************************************************************)
(* The change feed over the span projection: every derive pass stamps the  *)
(* rows whose content it changes with its transaction id, and a consumer   *)
(* polls the rows past its cursor and below the oldest transaction still   *)
(* in flight.                                                              *)
(*                                                                         *)
(*   pkg/storage/postgres/spans.go           writeSpanSet                  *)
(*   pkg/storage/postgres/queries/spans.sql  UpsertSpanTurn, PruneSpanTurns, *)
(*                                           ListChangedSpanTurns          *)
(*   pkg/storage/postgres/queries/derive_queue.sql  NextDeriveSeq          *)
(*                                                                         *)
(* One projection table, one org.  A row's content stands for its          *)
(* content_hash.  Passes on different sessions run at the same time; when  *)
(* two of them write one row, Postgres makes the second wait for the       *)
(* first's end.                                                            *)
(***************************************************************************)
EXTENDS Integers, FiniteSets

CONSTANTS
    Row,      \* trace ids, numbered in their sort order
    Content,  \* content hashes
    Gone,     \* no such row
    PageSize, \* the consumer's page_size
    MaxXid    \* bound on the transactions that take an id

ASSUME RowAssumption == IsFiniteSet(Row) /\ Row \subseteq Nat
ASSUME ContentAssumption == Gone \notin Content
ASSUME PageAssumption == PageSize \in Nat \ {0} /\ MaxXid \in Nat

VARIABLES
    content, seq, \* the committed table: content_hash and derive_seq
    next,         \* the next transaction id
    running,      \* the transactions in flight
    writes,       \* per transaction, the rows it has written and their content
    cursor, copy  \* the consumer: largest derive_seq processed, what it knows

tableVars == <<content, seq>>
consumerVars == <<cursor, copy>>
feedVars == <<tableVars, next, running, writes, consumerVars>>

Xid == 1..MaxXid

FeedInit ==
    /\ content = [r \in Row |-> Gone]
    /\ seq = [r \in Row |-> 0]
    /\ next = 1
    /\ running = {}
    /\ writes = [x \in Xid |-> [r \in {} |-> Gone]]
    /\ cursor = 0
    /\ copy = [r \in Row |-> Gone]

\* The rows some open transaction has locked.
Locked == UNION {DOMAIN writes[x] : x \in running}

\* Below pg_snapshot_xmin: the transaction and all before it have ended.
BelowXmin(x) == x < next /\ \A y \in running : x < y

\* NextDeriveSeq: the pass takes its transaction id before it writes.
Begin ==
    /\ next <= MaxXid
    /\ running' = running \cup {next}
    /\ next' = next + 1
    /\ UNCHANGED <<tableVars, writes, consumerVars>>

\* UpsertSpanTurn and PruneSpanTurns take the row's lock; only a row that is
\* there is pruned.
Write(x, r, c) ==
    /\ x \in running
    /\ r \notin Locked
    /\ c = Gone => content[r] # Gone
    /\ writes' = [writes EXCEPT ![x] = [q \in DOMAIN @ \cup {r} |-> IF q = r THEN c ELSE @[q]]]
    /\ UNCHANGED <<tableVars, next, running, consumerVars>>

\* Mutation of Stamped: a row that exists keeps its derive_seq.
StampedOnce(x, r) == IF content[r] = Gone THEN x ELSE seq[r]

\* derive_seq after the upsert: it advances only when content_hash changed.  A
\* new row takes it.
Stamped(x, r) == IF writes[x][r] # content[r] THEN x ELSE seq[r]

Commit(x) ==
    /\ x \in running
    /\ running' = running \ {x}
    /\ content' = [r \in Row |-> IF r \in DOMAIN writes[x] THEN writes[x][r] ELSE content[r]]
    /\ seq' = [r \in Row |-> IF r \in DOMAIN writes[x] THEN Stamped(x, r) ELSE seq[r]]
    /\ writes' = [writes EXCEPT ![x] = [r \in {} |-> Gone]]
    /\ UNCHANGED <<next, consumerVars>>

\* The pass fails, its process dies, or Postgres resolves a deadlock.
Rollback(x) ==
    /\ x \in running
    /\ running' = running \ {x}
    /\ writes' = [writes EXCEPT ![x] = [r \in {} |-> Gone]]
    /\ UNCHANGED <<tableVars, next, consumerVars>>

\* Mutation of Changed: the poll without its upper bound.
ChangedUnbounded == {r \in Row : content[r] # Gone /\ seq[r] > cursor}

\* ListChangedSpanTurns: past the cursor, below every open transaction ...
Changed == {r \in Row : content[r] # Gone /\ seq[r] > cursor /\ BelowXmin(seq[r])}

\* ... ORDER BY derive_seq, trace_id LIMIT page_size.
Before(r, q) == seq[r] < seq[q] \/ (seq[r] = seq[q] /\ r < q)
Page == {r \in Changed : Cardinality({q \in Changed : Before(q, r)}) < PageSize}

\* The consumer processes a page and checkpoints its largest derive_seq.
Poll ==
    /\ copy' = [r \in Row |-> IF r \in Page THEN content[r] ELSE copy[r]]
    /\ \E last \in Page : cursor' = seq[last] /\ \A r \in Page : seq[r] <= seq[last]
    /\ UNCHANGED <<tableVars, next, running, writes>>

FeedNext ==
    \/ Begin
    \/ \E x \in Xid, r \in Row, c \in Content \cup {Gone} : Write(x, r, c)
    \/ \E x \in Xid : Commit(x) \/ Rollback(x)
    \/ Poll

FeedSpec == FeedInit /\ [][FeedNext]_feedVars

\* The consumer keeps polling and a transaction ends.
FeedFairSpec == FeedSpec /\ WF_feedVars(Poll) /\ \A x \in Xid : WF_feedVars(Commit(x) \/ Rollback(x))

----------------------------------------------------------------------------
\* What a transaction may have written so far.
Writes == UNION {[rs -> Content \cup {Gone}] : rs \in SUBSET Row}

\* The table, the transaction ids and the consumer's state stay in their ranges.
FeedTypeOK ==
    /\ content \in [Row -> Content \cup {Gone}]
    /\ seq \in [Row -> 0..MaxXid]
    /\ next \in 1..MaxXid + 1
    /\ running \in SUBSET Xid
    /\ writes \in [Xid -> Writes]
    /\ cursor \in 0..MaxXid
    /\ copy \in [Row -> Content \cup {Gone}]

\* Nothing the feed reports lies behind the cursor unseen: a row whose
\* derive_seq the consumer has passed is known to it with its latest content,
\* in whatever order the passes commit (ListChangedSpanTurns: "latency, not
\* loss"; writeSpanSet: "a consumer that has seen sequence N has seen a complete
\* derive rather than half of one").
SeenIsComplete ==
    \A r \in Row : content[r] # Gone /\ seq[r] <= cursor => copy[r] = content[r]

\* The cursor never overtakes a pass that is still open, not even when the
\* consumer polls right after a later pass has committed.
CursorBehindOpen == \A x \in running : cursor < x

=============================================================================
