----------------------------- MODULE SessionReads -----------------------------
(***************************************************************************)
(* The reads of the session store: the paged session list, the windowed    *)
(* totals, the composite of a session (api, pkg/storage/postgres), and a   *)
(* client that follows the list's cursors while the store changes.         *)
(***************************************************************************)
EXTENDS SessionStore

Rows == {sessions[k] : k \in DOMAIN sessions}

\* A turn of the session started in [since, until).
InWindow(id, since, until) ==
    \E t \in Owned(turns, id) : since <= turns[t].data.at /\ turns[t].data.at < until

\* No filter at all is the empty subject; subjects match exactly.
OfSubject(row, subject) == subject = NoSubject \/ row.subject = subject

Value(row, sort) == IF sort = "seen" THEN row.seen ELSE row.started

\* The list's order: the sort column, then the id, both in the direction asked.
Before(a, b, desc) ==
    LET less(x, y) == x[1] < y[1] \/ (x[1] = y[1] /\ x[2] < y[2])
    IN  IF desc THEN less(b, a) ELSE less(a, b)
Boundary(row, sort) == <<Value(row, sort), row.id>>

\* Mutant: the cursor compares the sort column alone.
PastCursorByValue(row, sort, desc, cursor) ==
    cursor = <<>> \/ IF desc THEN Value(row, sort) < cursor[1] ELSE cursor[1] < Value(row, sort)
\* The rows a cursor leaves are those after its boundary; no cursor leaves all.
PastCursor(row, sort, desc, cursor) == cursor = <<>> \/ Before(cursor, Boundary(row, sort), desc)

\* A row's place in a set of rows put in order.
Place(row, rows, sort, desc) ==
    1 + Cardinality({q \in rows : Before(Boundary(q, sort), Boundary(row, sort), desc)})

\* A page: rows past the cursor, in order, one more than the client asked for.
ListSessionRecords(sort, desc, subject, cursor) ==
    LET rows == {r \in Rows : OfSubject(r, subject) /\ PastCursor(r, sort, desc, cursor)}
    IN  [i \in 1..Least(Cardinality(rows), Limit + 1) |-> CHOOSE r \in rows : Place(r, rows, sort, desc) = i]

\* Mutant: the window is closed at both ends.
MatchedClosed(since, until, subject) ==
    {t \in DOMAIN turns : /\ since <= turns[t].data.at /\ turns[t].data.at <= until
                          /\ \/ subject = NoSubject
                             \/ \E r \in Rows : r.id = turns[t].owner /\ r.subject = subject}

\* The turns in the window, joined to their session for its subject.
Matched(since, until, subject) ==
    {t \in DOMAIN turns : /\ since <= turns[t].data.at /\ turns[t].data.at < until
                          /\ \/ subject = NoSubject
                             \/ \E r \in Rows : r.id = turns[t].owner /\ r.subject = subject}
AggregateSpanStats(since, until, subject) ==
    LET in == Matched(since, until, subject) IN
    [turns |-> Cardinality(in),
     sessions |-> Cardinality({turns[t].owner : t \in in}),
     completed |-> Cardinality({r \in Rows : r.status = "completed" /\ \E t \in in : turns[t].owner = r.id}),
     cost |-> TotalCost([t \in in |-> turns[t].data])]

\* A session's traces with what each holds, and all its links in one list.
ListSpanTurnsBySession(id) == Owned(turns, id)
ListSpansBySession(id) == Owned(spans, id)
ListSpanLinksBySession(id) == Owned(links, id)
ListSessionSpanModel(id) ==
    [turns |-> ListSpanTurnsBySession(id), spans |-> ListSpansBySession(id), links |-> ListSpanLinksBySession(id)]
BuildSessionTraces(model) ==
    [traces |-> [t \in model.turns |-> {x \in model.spans : x[1] = t}], links |-> model.links]

\* One trace: its spans, and the links that touch it at either end.
ListSpansByTrace(trace) == {x \in DOMAIN spans : x[1] = trace}
\* Mutant: only the links that leave the trace.
ListSpanLinksOut(trace) == {l \in DOMAIN links : l[1][1] = trace}
ListSpanLinksByTrace(trace) == {l \in DOMAIN links : trace \in {l[1][1], l[2][1]}}
GetTraceDetail(trace) == [spans |-> ListSpansByTrace(trace), links |-> ListSpanLinksByTrace(trace)]
ListTraceSummariesBySession(id) ==
    {[trace |-> t, spanCount |-> Cardinality({x \in DOMAIN spans : x[1] = t})] : t \in Owned(turns, id)}

-----------------------------------------------------------------------------
(* The client.                                                              *)

Listed(row) == <<row.id, Value(row, walk.sort)>>

OpenWalk ==
    /\ ~walk.open /\ walk.listed = <<>>
    /\ \E s \in {"seen", "started"}, d \in BOOLEAN, u \in Subject :
         walk' = [walk EXCEPT !.open = TRUE, !.sort = s, !.desc = d, !.subject = u,
                    !.stable = {<<r.id, Value(r, s)>> : r \in {q \in Rows : OfSubject(q, u)}}]
    /\ UNCHANGED <<sessions, tables, call, clock, own>>

\* Mutant: the next page starts at the extra row.
HandleListSkipsOne ==
    LET page == ListSessionRecords(walk.sort, walk.desc, walk.subject, walk.cursor)
        more == Len(page) > Limit
        served == IF more THEN SubSeq(page, 1, Limit) ELSE page
    IN  /\ walk.open
        /\ walk' = [walk EXCEPT !.open = more,
                      !.cursor = IF more THEN Boundary(page[Limit + 1], walk.sort) ELSE <<>>,
                      !.listed = @ \o [i \in 1..Len(served) |-> Listed(served[i])]]
        /\ UNCHANGED <<sessions, tables, call, clock, own>>

\* One request: the extra row says there is a next page, its cursor is the
\* last row served.
HandleListSessions ==
    LET page == ListSessionRecords(walk.sort, walk.desc, walk.subject, walk.cursor)
        more == Len(page) > Limit
        served == IF more THEN SubSeq(page, 1, Limit) ELSE page
    IN  /\ walk.open
        /\ walk' = [walk EXCEPT !.open = more,
                      !.cursor = IF more THEN Boundary(served[Limit], walk.sort) ELSE <<>>,
                      !.listed = @ \o [i \in 1..Len(served) |-> Listed(served[i])]]
        /\ UNCHANGED <<sessions, tables, call, clock, own>>


\* A change of the store unsettles the rows it moves in the client's order.
Next ==
    \/ /\ StoreNext
       /\ walk' = [walk EXCEPT !.stable =
            @ \cap {<<r.id, Value(r, walk.sort)>> :
                      r \in {q \in {sessions'[k] : k \in DOMAIN sessions'} : OfSubject(q, walk.subject)}}]
    \/ OpenWalk
    \/ HandleListSessions

Spec == Init /\ [][Next]_vars

-----------------------------------------------------------------------------
(* Properties.                                                              *)

\* Every row hangs off a live session, and every id is one session's.
TypeOK ==
    /\ DOMAIN sessions \subseteq Key
    /\ \A k, q \in DOMAIN sessions : sessions[k].id = sessions[q].id => k = q
    /\ \A k \in DOMAIN sessions : sessions[k].parent \in Ids \cup {0}
    /\ {turns[t].owner : t \in DOMAIN turns} \cup {spans[x].owner : x \in DOMAIN spans}
         \cup {links[x].owner : x \in DOMAIN links} \subseteq Ids

\* The rollups of a session are the fold of the rows it owns now, whatever was
\* ingested, uploaded, renamed or deleted since its last derive pass, and each
\* of its spans and links is inside a trace of its own (spans.sql,
\* FoldSessionRollupsFromSpans; pkg/storage/postgres/spans.go, writeSpanSet).
RollupsAreTheFold ==
    TypeOK /\ \A r \in Rows :
        /\ r.turnCount = Cardinality(Owned(turns, r.id))
        /\ r.cost = TotalCost(OwnData(turns, r.id))
        /\ r.model = DominantModel(OwnData(spans, r.id))
        /\ {x[1] : x \in Owned(spans, r.id)} \subseteq Owned(turns, r.id)
        /\ \A l \in Owned(links, r.id) : {l[1], l[2]} \subseteq DOMAIN spans

\* A session that made a call of its own carries a subject its own calls
\* carried, never that of a child that named it as parent, in any order of
\* the two (sessions.sql, InsertSessionPlaceholder, UpsertSession).
SubjectIsOwn ==
    \A k \in DOMAIN sessions : own[k] # {} => sessions[k].subject \in own[k]

\* Following the cursors, a client is served a session that did not move in
\* its order once, and when the last page is served it has had every one
\* (api/sessions_handlers.go, handleListSessions).
ListedOnce ==
    \A item \in walk.stable :
        LET times == Cardinality({i \in DOMAIN walk.listed : walk.listed[i] = item})
        IN  times <= 1 /\ (~walk.open /\ walk.listed # <<>> => times = 1)

\* For every window and subject the list names as many sessions as the totals
\* count (session_reads.go: "so the list row set equals the /v1/stats
\* session_count for the same window").
StatsMatchList ==
    \A since \in 0..MaxTime, until \in 0..MaxTime + 1, u \in Subject :
        AggregateSpanStats(since, until, u).sessions
          = Cardinality({r \in Rows : OfSubject(r, u) /\ InWindow(r.id, since, until)})

\* The three reads of a session agree: the summaries and the composite name the
\* same traces with as many spans, each trace's own page shows the spans the
\* composite puts in it, and the composite's links are those of the pages, a
\* link between two traces being on both (spans.go, ListTraceSummaries,
\* GetTraceDetail; api/traces_handlers.go, BuildSessionTraces).
ReadsAgree ==
    \A r \in Rows :
        LET all == BuildSessionTraces(ListSessionSpanModel(r.id)) IN
        /\ ListTraceSummariesBySession(r.id)
             = {[trace |-> t, spanCount |-> Cardinality(all.traces[t])] : t \in DOMAIN all.traces}
        /\ \A t \in DOMAIN all.traces :
              /\ GetTraceDetail(t).spans = all.traces[t]
              /\ GetTraceDetail(t).links = {l \in all.links : t \in {l[1][1], l[2][1]}}

\* A client that asks in several ways is told one story: list against totals,
\* summaries against composite against page (handleListSessions, handleStats,
\* handleGetSessionTraces).
AnswersAgree == StatsMatchList /\ ReadsAgree

\* While a session's row lives it keeps its id, what it was started at never
\* moves forward, and the user's title changes by a rename alone (sessions.sql,
\* UpdateSessionDisplayName: "touched only here, never by ingest").
RowKept ==
    [][\A k \in DOMAIN sessions \cap DOMAIN sessions' :
          sessions'[k].id = sessions[k].id =>
              /\ sessions'[k].started <= sessions[k].started
              /\ sessions'[k].display # sessions[k].display =>
                   sessions' = [sessions EXCEPT ![k].display = sessions'[k].display]]_vars

\* A session stays who it is while children, transcripts, renames and captures
\* of its own write to its row (UpsertSession, InsertSessionPlaceholder).
IdentityIsKept == []SubjectIsOwn /\ RowKept
=============================================================================
