---------------------------- MODULE SessionProofs ----------------------------
(***************************************************************************)
(* Proofs about the session store: the rollups of a session are the fold   *)
(* of its own rows (RollupsAreTheFold), a session stays who it is          *)
(* (IdentityIsKept), its reads tell one story (AnswersAgree) and its list, *)
(* followed page by page while the store changes, serves it once           *)
(* (ListedOnce), for all the keys, envelopes, projections, writers and     *)
(* bounds SessionStore admits.  StoreInv is the inductive invariant of the *)
(* store, WalkInv of the store and the client.                             *)
(***************************************************************************)
EXTENDS SessionReads, FiniteSetTheorems, TLAPS

Fields == {"id", "subject", "name", "parent", "started", "seen", "display",
           "title", "turnCount", "cost", "model", "status"}

\* What the steps read of the tables of the store.
RowsAreRows ==
    /\ DOMAIN sessions \subseteq Key /\ IsFiniteSet(DOMAIN sessions)
    /\ \A k \in DOMAIN sessions : DOMAIN sessions[k] = Fields /\ sessions[k].started \in Nat

\* Ids are minted in order, one for each session, and parents have one.
IdsAreMinted ==
    /\ nextId \in Nat \ {0}
    /\ \A k \in DOMAIN sessions : sessions[k].id \in 1..(nextId - 1)
    /\ \A k, q \in DOMAIN sessions : sessions[k].id = sessions[q].id => k = q
    /\ \A k \in DOMAIN sessions : sessions[k].parent \in Ids \cup {0}

\* The traces the raw turns of a session may ever project to.
Traces(k) == UNION {DOMAIN set.turns : set \in Derivations[k]}

\* A trace is owned by the session whose raw turns it came from, a span by the
\* owner of its trace, a link by the owner of its spans.
TracesAreTheirs ==
    \A t \in DOMAIN turns : \E k \in DOMAIN sessions : turns[t].owner = sessions[k].id /\ t \in Traces(k)
SpansAreInside ==
    \A x \in DOMAIN spans : x[1] \in DOMAIN turns /\ turns[x[1]].owner = spans[x].owner
LinksAreInside ==
    \A l \in DOMAIN links :
        {l[1], l[2]} \subseteq DOMAIN spans /\ \A x \in {l[1], l[2]} : spans[x].owner = links[l].owner

IsFold(row) ==
    /\ row.turnCount = Cardinality(Owned(turns, row.id))
    /\ row.cost = TotalCost(OwnData(turns, row.id))
    /\ row.model = DominantModel(OwnData(spans, row.id))
RowsAreFolds == \A k \in DOMAIN sessions : IsFold(sessions[k])

\* What the transactions under way carry.
CallsAreCalls ==
    /\ now \in Nat /\ DOMAIN call = Writer
    /\ \A w \in Writer :
         \/ call[w] = Idle
         \/ /\ call[w].key \in Key /\ call[w].parent \in Key \cup {NoKey}
            /\ call[w].at \in Nat /\ call[w].from \in Nat

\* Who called of its own accord has a row that says so.
CallersAreKnown ==
    /\ DOMAIN own = Key
    /\ \A k \in Key : own[k] # {} => k \in DOMAIN sessions /\ sessions[k].subject \in own[k]

StoreInv ==
    /\ RowsAreRows /\ IdsAreMinted
    /\ TracesAreTheirs /\ SpansAreInside /\ LinksAreInside
    /\ RowsAreFolds /\ CallsAreCalls /\ CallersAreKnown

-----------------------------------------------------------------------------
(* What the operators on rows and tables return.                            *)

\* A session that has no rows folds to nothing: no turns, no cost, no model.
LEMMA NothingFolds ==
    ASSUME NEW f, DOMAIN f = {}
    PROVE  TotalCost(f) = 0 /\ DominantModel(f) = ""
<1>1. TotalCost(f) = 0
  <2> DEFINE body(g) == [s \in SUBSET {} |->
                 IF s = {} THEN 0
                 ELSE LET x == CHOOSE x \in s : TRUE IN f[x].cost + g[s \ {x}]]
             zero == [s \in SUBSET {} |-> 0]
  <2>1. TotalCost(f) = (CHOOSE g : g = body(g))[{}]
    BY DEF TotalCost, FoldFunction, FoldFunctionOnSet, MapThenFoldSet
  <2>2. zero = body(zero)
    OBVIOUS
  <2>3. \A g : g = body(g) => g[{}] = 0
    OBVIOUS
  <2> HIDE DEF body
  <2>4. (CHOOSE g : g = body(g)) = body(CHOOSE g : g = body(g))
    BY <2>2
  <2>5. QED
    BY <2>1, <2>3, <2>4
<1>2. DominantModel(f) = ""
  BY DEF DominantModel
<1>3. QED
  BY <1>1, <1>2

\* What both upserts keep of the row they merge into ...
Merged(row, old, parent) ==
    /\ DOMAIN row = Fields
    /\ row.id = old.id /\ row.parent \in {parent, old.parent} /\ row.display = old.display
    /\ row.turnCount = old.turnCount /\ row.cost = old.cost /\ row.model = old.model

\* ... and of the others: the row of k, new if there was none, and no other.
Base(rows, k, fresh) == IF k \in DOMAIN rows THEN rows[k] ELSE fresh
Takes(after, rows, k, fresh, parent) ==
    /\ DOMAIN after = DOMAIN rows \cup {k}
    /\ \A q \in DOMAIN rows \ {k} : after[q] = rows[q]
    /\ Merged(after[k], Base(rows, k, fresh), parent)

\* The wire call's upsert changes its own row alone, and only what it carries.
LEMMA WireUpsert ==
    ASSUME NEW rows, NEW c, NEW id, NEW parent,
           c.key \in DOMAIN rows => DOMAIN rows[c.key] = Fields
    PROVE  /\ Takes(UpsertSession(rows, c, id, parent), rows, c.key,
                    NewRow(id, c.subject, c.at, c.at), parent)
           /\ UpsertSession(rows, c, id, parent)[c.key].subject = c.subject
           /\ UpsertSession(rows, c, id, parent)[c.key].started
                = Base(rows, c.key, NewRow(id, c.subject, c.at, c.at)).started
<1> DEFINE old == IF c.key \in DOMAIN rows THEN rows[c.key] ELSE NewRow(id, c.subject, c.at, c.at)
           row == [old EXCEPT !.seen = c.at, !.subject = c.subject, !.name = Coalesce(c.name, @, NoName),
                              !.parent = Coalesce(parent, @, 0), !.title = Coalesce(c.title, @, NoName)]
<1>1. DOMAIN old = Fields
  <2>1. DOMAIN NewRow(id, c.subject, c.at, c.at) = Fields
    BY DEF NewRow, Fields
  <2>2. QED
    BY <2>1
<1>2. UpsertSession(rows, c, id, parent) = With(rows, c.key, row)
  BY DEF UpsertSession
<1> HIDE DEF old
<1>3. DOMAIN row = Fields
  BY <1>1
<1>4. row.id = old.id /\ row.display = old.display /\ row.turnCount = old.turnCount
      /\ row.cost = old.cost /\ row.model = old.model /\ row.started = old.started
  BY <1>1 DEF Fields
<1>5. row.subject = c.subject
  BY <1>1 DEF Fields
<1>6. row.parent \in {parent, old.parent}
  BY <1>1 DEF Fields, Coalesce
<1> HIDE DEF row
<1>7. Merged(row, old, parent)
  BY <1>3, <1>4, <1>6 DEF Merged
<1>8. /\ DOMAIN With(rows, c.key, row) = DOMAIN rows \cup {c.key}
      /\ With(rows, c.key, row)[c.key] = row
      /\ \A q \in DOMAIN rows \ {c.key} : With(rows, c.key, row)[q] = rows[q]
  BY DEF With
<1>9. QED
  BY <1>2, <1>4, <1>5, <1>7, <1>8 DEF old, Takes, Base

\* A transcript's upsert does the same, but for an empty subject, and may move
\* the start back.
LEMMA TranscriptUpsert ==
    ASSUME NEW rows, NEW c, NEW id, NEW parent,
           c.key \in DOMAIN rows => DOMAIN rows[c.key] = Fields
    PROVE  LET old == Base(rows, c.key, NewRow(id, c.subject, c.from, c.at)) IN
           /\ Takes(UpsertSessionFromTranscript(rows, c, id, parent), rows, c.key,
                    NewRow(id, c.subject, c.from, c.at), parent)
           /\ UpsertSessionFromTranscript(rows, c, id, parent)[c.key].subject
                = (IF c.subject = NoSubject THEN old.subject ELSE c.subject)
           /\ UpsertSessionFromTranscript(rows, c, id, parent)[c.key].started = Least(old.started, c.from)
<1> DEFINE old == IF c.key \in DOMAIN rows THEN rows[c.key] ELSE NewRow(id, c.subject, c.from, c.at)
           row == [old EXCEPT !.started = Least(@, c.from), !.seen = Greatest(@, c.at),
                              !.subject = Coalesce(c.subject, @, NoSubject),
                              !.name = Coalesce(c.name, @, NoName), !.parent = Coalesce(parent, @, 0)]
<1>1. DOMAIN old = Fields
  <2>1. DOMAIN NewRow(id, c.subject, c.from, c.at) = Fields
    BY DEF NewRow, Fields
  <2>2. QED
    BY <2>1
<1>2. UpsertSessionFromTranscript(rows, c, id, parent) = With(rows, c.key, row)
  BY DEF UpsertSessionFromTranscript
<1> HIDE DEF old
<1>3. DOMAIN row = Fields
  BY <1>1
<1>4. row.id = old.id /\ row.display = old.display /\ row.turnCount = old.turnCount
      /\ row.cost = old.cost /\ row.model = old.model
  BY <1>1 DEF Fields
<1>5. row.subject = (IF c.subject = NoSubject THEN old.subject ELSE c.subject)
  BY <1>1 DEF Fields, Coalesce
<1>6. row.parent \in {parent, old.parent}
  BY <1>1 DEF Fields, Coalesce
<1>7. row.started = Least(old.started, c.from)
  BY <1>1 DEF Fields
<1> HIDE DEF row
<1>8. Merged(row, old, parent)
  BY <1>3, <1>4, <1>6 DEF Merged
<1>9. /\ DOMAIN With(rows, c.key, row) = DOMAIN rows \cup {c.key}
      /\ With(rows, c.key, row)[c.key] = row
      /\ \A q \in DOMAIN rows \ {c.key} : With(rows, c.key, row)[q] = rows[q]
  BY DEF With
<1>10. QED
  BY <1>2, <1>5, <1>7, <1>8, <1>9 DEF old, Takes, Base

\* A placeholder is inserted where there is no row, and no other row is touched.
LEMMA PlaceholderRows ==
    ASSUME NEW c, NoKey \notin Key, DOMAIN sessions \subseteq Key
    PROVE  /\ DOMAIN Placeheld(c) = DOMAIN sessions \cup (IF c.parent # NoKey /\ c.found = 0 THEN {c.parent} ELSE {})
           /\ \A k \in DOMAIN sessions : Placeheld(c)[k] = sessions[k]
           /\ \A k \in DOMAIN Placeheld(c) \ DOMAIN sessions :
                 k = c.parent /\ Placeheld(c)[k] = NewRow(nextId, c.subject, c.at, c.at)
<1> DEFINE row == NewRow(nextId, c.subject, c.at, c.at)
<1>1. CASE c.parent # NoKey /\ c.found = 0 /\ c.parent \notin DOMAIN sessions
  <2>1. Placeheld(c) = With(sessions, c.parent, row)
    BY <1>1 DEF Placeheld, InsertSessionPlaceholder
  <2> HIDE DEF row
  <2>2. /\ DOMAIN With(sessions, c.parent, row) = DOMAIN sessions \cup {c.parent}
        /\ With(sessions, c.parent, row)[c.parent] = row
        /\ \A q \in DOMAIN sessions \ {c.parent} : With(sessions, c.parent, row)[q] = sessions[q]
    BY DEF With
  <2>3. QED
    BY <1>1, <2>1, <2>2 DEF row
<1>2. CASE ~(c.parent # NoKey /\ c.found = 0 /\ c.parent \notin DOMAIN sessions)
  <2>1. Placeheld(c) = sessions
    BY <1>2 DEF Placeheld, InsertSessionPlaceholder
  <2>2. QED
    BY <1>2, <2>1
<1>3. QED
  BY <1>1, <1>2

\* The tables after a pass over a session that owned every row it writes.
Rewritten(before, after, new, id) ==
    /\ DOMAIN after = {x \in DOMAIN before : before[x].owner # id} \cup DOMAIN new
    /\ \A x \in DOMAIN before : before[x].owner # id => after[x] = before[x]
    /\ \A x \in DOMAIN new : after[x].owner = id

LEMMA TableRewritten ==
    ASSUME NEW table, NEW new, NEW id,
           \A x \in DOMAIN table \cap DOMAIN new : table[x].owner = id
    PROVE  Rewritten(table, Kept(Upserted(table, new, id), DOMAIN new, id), new, id)
<1> DEFINE up == Upserted(table, new, id)
           after == Kept(up, DOMAIN new, id)
<1>1. DOMAIN up = DOMAIN table \cup DOMAIN new
  BY DEF Upserted
<1>2. \A x \in DOMAIN table \ DOMAIN new : up[x] = table[x]
  BY DEF Upserted
<1>3. \A x \in DOMAIN new : up[x].owner = id
  BY DEF Upserted
<1> HIDE DEF up
<1>4. DOMAIN after = {x \in DOMAIN up : up[x].owner # id \/ x \in DOMAIN new}
  BY DEF Kept, Only
<1>5. \A x \in DOMAIN after : after[x] = up[x]
  BY DEF Kept, Only
<1> HIDE DEF after
<1>6. DOMAIN after = {x \in DOMAIN table : table[x].owner # id} \cup DOMAIN new
  <2>1. ASSUME NEW x \in DOMAIN after
        PROVE  x \in {y \in DOMAIN table : table[y].owner # id} \cup DOMAIN new
    BY <1>1, <1>2, <1>4
  <2>2. ASSUME NEW x \in {y \in DOMAIN table : table[y].owner # id} \cup DOMAIN new
        PROVE  x \in DOMAIN after
    BY <1>1, <1>2, <1>4
  <2>3. QED
    BY <2>1, <2>2
<1>7. \A x \in DOMAIN table : table[x].owner # id => after[x] = table[x]
  BY <1>1, <1>2, <1>4, <1>5
<1>8. \A x \in DOMAIN new : after[x].owner = id
  BY <1>1, <1>3, <1>4, <1>5
<1>9. QED
  BY <1>6, <1>7, <1>8 DEF Rewritten, after, up

\* Such a pass leaves to every other session the rows it owned, and to its own
\* those it wrote.
LEMMA OthersKeepTheirs ==
    ASSUME NEW before, NEW after, NEW new, NEW id, Rewritten(before, after, new, id)
    PROVE  /\ Owned(after, id) = DOMAIN new
           /\ \A other : other # id => /\ Owned(after, other) = Owned(before, other)
                                       /\ OwnData(after, other) = OwnData(before, other)
<1>1. Owned(after, id) = DOMAIN new
  BY DEF Rewritten, Owned
<1>2. ASSUME NEW other, other # id
      PROVE  /\ Owned(after, other) = Owned(before, other)
             /\ OwnData(after, other) = OwnData(before, other)
  <2>1. Owned(after, other) = Owned(before, other)
    BY <1>2 DEF Rewritten, Owned
  <2>2. \A x \in Owned(before, other) : after[x] = before[x]
    BY <1>2 DEF Rewritten, Owned
  <2>3. QED
    BY <2>1, <2>2 DEF OwnData
<1>3. QED
  BY <1>1, <1>2
-----------------------------------------------------------------------------
(* Steps that write rows and leave the tables alone: uploads, captures and  *)
(* renames.                                                                 *)

\* Rows stay with their id and their rollups ...
RowsStay ==
    /\ DOMAIN sessions \subseteq DOMAIN sessions' /\ UNCHANGED <<turns, spans, links>>
    /\ \A k \in DOMAIN sessions :
         /\ sessions'[k].id = sessions[k].id /\ sessions'[k].turnCount = sessions[k].turnCount
         /\ sessions'[k].cost = sessions[k].cost /\ sessions'[k].model = sessions[k].model

\* ... and new ones have nothing derived and take the next ids.
NewRowsAreBlank ==
    /\ nextId' \in Nat /\ nextId' >= nextId
    /\ \A k \in DOMAIN sessions' \ DOMAIN sessions :
         /\ sessions'[k].turnCount = 0 /\ sessions'[k].cost = 0 /\ sessions'[k].model = ""
         /\ sessions'[k].id \in nextId..(nextId' - 1)
    /\ \A k, q \in DOMAIN sessions' \ DOMAIN sessions : sessions'[k].id = sessions'[q].id => k = q

ParentsLive == \A k \in DOMAIN sessions : sessions[k].parent \in Ids \cup {0}

LEMMA GrownIds ==
    ASSUME IdsAreMinted, RowsStay, NewRowsAreBlank, ParentsLive'
    PROVE  IdsAreMinted'
<1>1. nextId \in Nat \ {0} /\ nextId' \in Nat \ {0}
  <2>1. nextId \in Nat \ {0} /\ nextId' \in Nat /\ nextId' >= nextId
    BY Zenon DEF IdsAreMinted, NewRowsAreBlank
  <2>2. QED
    BY <2>1
<1>2. ASSUME NEW k \in DOMAIN sessions
      PROVE  sessions'[k].id = sessions[k].id /\ sessions'[k].id \in 1..(nextId - 1)
  BY DEF IdsAreMinted, RowsStay
<1>3. ASSUME NEW k \in DOMAIN sessions', k \notin DOMAIN sessions
      PROVE  sessions'[k].id \in nextId..(nextId' - 1)
  BY <1>3 DEF NewRowsAreBlank
<1>4. \A k \in DOMAIN sessions' : sessions'[k].id \in 1..(nextId' - 1)
  <2>1. nextId' >= nextId
    BY DEF NewRowsAreBlank
  <2>2. QED
    BY <1>1, <1>2, <1>3, <2>1
<1>5. ASSUME NEW k \in DOMAIN sessions', NEW q \in DOMAIN sessions', sessions'[k].id = sessions'[q].id
      PROVE  k = q
  <2>1. CASE k \in DOMAIN sessions /\ q \in DOMAIN sessions
    BY <1>2, <1>5, <2>1 DEF IdsAreMinted
  <2>2. CASE k \notin DOMAIN sessions /\ q \notin DOMAIN sessions
    BY <1>5, <2>2 DEF NewRowsAreBlank
  <2>3. QED
    BY <1>1, <1>2, <1>3, <1>5, <2>1, <2>2
<1>6. QED
  BY <1>1, <1>4, <1>5 DEF IdsAreMinted, ParentsLive

\* No row of the tables hangs off an id not minted yet.
LEMMA NothingIsUnminted ==
    ASSUME IdsAreMinted, TracesAreTheirs, SpansAreInside, NEW id \in Nat, id >= nextId
    PROVE  /\ Owned(turns, id) = {} /\ Owned(spans, id) = {}
           /\ DOMAIN OwnData(turns, id) = {} /\ DOMAIN OwnData(spans, id) = {}
<1>1. ASSUME NEW k \in DOMAIN sessions PROVE sessions[k].id # id
  BY DEF IdsAreMinted
<1>2. \A t \in DOMAIN turns : turns[t].owner # id
  BY <1>1 DEF TracesAreTheirs
<1>3. \A x \in DOMAIN spans : spans[x].owner # id
  BY <1>2 DEF SpansAreInside
<1>4. Owned(turns, id) = {} /\ Owned(spans, id) = {}
  BY <1>2, <1>3 DEF Owned
<1>5. QED
  BY <1>4 DEF OwnData

LEMMA GrownFolds ==
    ASSUME IdsAreMinted, TracesAreTheirs, SpansAreInside, RowsAreFolds, RowsStay, NewRowsAreBlank
    PROVE  RowsAreFolds'
<1>1. turns' = turns /\ spans' = spans
  BY DEF RowsStay
<1>2. ASSUME NEW k \in DOMAIN sessions', k \in DOMAIN sessions
      PROVE  IsFold(sessions[k])'
  <2>1. /\ sessions[k].turnCount = Cardinality(Owned(turns, sessions[k].id))
        /\ sessions[k].cost = TotalCost(OwnData(turns, sessions[k].id))
        /\ sessions[k].model = DominantModel(OwnData(spans, sessions[k].id))
    BY <1>2 DEF RowsAreFolds, IsFold
  <2>2. /\ sessions'[k].id = sessions[k].id /\ sessions'[k].turnCount = sessions[k].turnCount
        /\ sessions'[k].cost = sessions[k].cost /\ sessions'[k].model = sessions[k].model
    BY <1>2 DEF RowsStay
  <2>3. QED
    BY <1>1, <2>1, <2>2 DEF IsFold
<1>3. ASSUME NEW k \in DOMAIN sessions', k \notin DOMAIN sessions
      PROVE  IsFold(sessions[k])'
  <2>1. /\ sessions'[k].turnCount = 0 /\ sessions'[k].cost = 0 /\ sessions'[k].model = ""
        /\ sessions'[k].id \in nextId..(nextId' - 1)
    BY <1>3 DEF NewRowsAreBlank
  <2>2. sessions'[k].id \in Nat /\ sessions'[k].id >= nextId
    <3>1. nextId \in Nat \ {0} /\ nextId' \in Nat
      BY Zenon DEF IdsAreMinted, NewRowsAreBlank
    <3>2. sessions'[k].id \in nextId..(nextId' - 1)
      BY <2>1
    <3> HIDE <2>1
    <3>3. QED
      BY <3>1, <3>2
  <2>3. /\ Owned(turns, sessions'[k].id) = {}
        /\ DOMAIN OwnData(turns, sessions'[k].id) = {}
        /\ DOMAIN OwnData(spans, sessions'[k].id) = {}
    BY <2>2, NothingIsUnminted
  <2>4. /\ TotalCost(OwnData(turns, sessions'[k].id)) = 0
        /\ DominantModel(OwnData(spans, sessions'[k].id)) = ""
    BY <2>3, NothingFolds
  <2>5. QED
    BY <1>1, <2>1, <2>3, <2>4, FS_EmptySet DEF IsFold
<1>4. QED
  BY <1>2, <1>3 DEF RowsAreFolds

LEMMA GrowthKeeps ==
    ASSUME IdsAreMinted, TracesAreTheirs, SpansAreInside, LinksAreInside, RowsAreFolds,
           RowsStay, NewRowsAreBlank, ParentsLive'
    PROVE  IdsAreMinted' /\ TracesAreTheirs' /\ SpansAreInside' /\ LinksAreInside' /\ RowsAreFolds'
<1>1. TracesAreTheirs'
  <2>1. ASSUME NEW t \in DOMAIN turns
        PROVE  \E k \in DOMAIN sessions' : turns[t].owner = sessions'[k].id /\ t \in Traces(k)
    <3>1. PICK k \in DOMAIN sessions : turns[t].owner = sessions[k].id /\ t \in Traces(k)
      BY DEF TracesAreTheirs
    <3>2. k \in DOMAIN sessions' /\ sessions'[k].id = sessions[k].id
      BY <3>1 DEF RowsStay
    <3>3. QED
      BY <3>1, <3>2
  <2>2. turns' = turns
    BY DEF RowsStay
  <2>3. QED
    BY <2>1, <2>2 DEF TracesAreTheirs, Traces
<1>2. SpansAreInside'
  BY DEF SpansAreInside, RowsStay
<1>3. LinksAreInside'
  BY DEF LinksAreInside, RowsStay
<1>4. QED
  BY <1>1, <1>2, <1>3, GrownIds, GrownFolds
\* A row nothing was derived into yet.
Underived(row, id) ==
    /\ DOMAIN row = Fields /\ row.id = id /\ row.parent = 0
    /\ row.turnCount = 0 /\ row.cost = 0 /\ row.model = ""

LEMMA NewRowIsBlank ==
    ASSUME NEW id, NEW subject, NEW started, NEW seen
    PROVE  /\ Underived(NewRow(id, subject, started, seen), id)
           /\ NewRow(id, subject, started, seen).started = started
           /\ NewRow(id, subject, started, seen).subject = subject
BY DEF Underived, NewRow, Fields

\* The row an upsert finds or makes: of this id if it is new.
RowsOf(k, row, rowsId) ==
    IF k \in DOMAIN sessions
    THEN /\ row.id = sessions[k].id /\ row.display = sessions[k].display
         /\ row.turnCount = sessions[k].turnCount
         /\ row.cost = sessions[k].cost /\ row.model = sessions[k].model
    ELSE row.id = rowsId /\ row.turnCount = 0 /\ row.cost = 0 /\ row.model = ""

LEMMA MergedRowsOf ==
    ASSUME NEW k, NEW row, NEW old, NEW parent, NEW id, Merged(row, old, parent), RowsOf(k, old, id)
    PROVE  RowsOf(k, row, id)
<1>1. /\ row.id = old.id /\ row.display = old.display
      /\ row.turnCount = old.turnCount /\ row.cost = old.cost /\ row.model = old.model
  BY DEF Merged
<1>2. CASE k \in DOMAIN sessions
  BY <1>1, <1>2 DEF RowsOf
<1>3. CASE k \notin DOMAIN sessions
  BY <1>1, <1>3 DEF RowsOf
<1>4. QED
  BY <1>2, <1>3

\* The rows after an ingested turn or an upload, against those before: where
\* each comes from, and what it keeps.
LEMMA UpsertRows ==
    ASSUME RowsAreRows, NEW c, NEW fresh, c.key \in Key, c.parent \in Key \cup {NoKey},
           Underived(fresh, nextId + 1), NEW parent,
           Takes(sessions', Placeheld(c), c.key, fresh, parent)
    PROVE  /\ DOMAIN sessions \subseteq DOMAIN sessions' /\ DOMAIN sessions' \subseteq Key
           /\ IsFiniteSet(DOMAIN sessions')
           /\ \A k \in DOMAIN sessions' :
                /\ DOMAIN sessions'[k] = Fields
                /\ RowsOf(k, sessions'[k], IF k \in DOMAIN Placeheld(c) THEN nextId ELSE nextId + 1)
                /\ k \in DOMAIN Placeheld(c) => sessions'[k].id = Placeheld(c)[k].id
                /\ k \in DOMAIN sessions \/ k = c.key \/ k = c.parent
                /\ sessions'[k].parent \in {parent, 0} \/ (k \in DOMAIN sessions /\ sessions'[k].parent = sessions[k].parent)
           /\ \A k \in DOMAIN sessions' \ DOMAIN sessions : k \in DOMAIN Placeheld(c) => k = c.parent
           /\ \A k \in DOMAIN sessions' \ DOMAIN sessions : k \notin DOMAIN Placeheld(c) => k = c.key
<1> DEFINE P == Placeheld(c)
           new == NewRow(nextId, c.subject, c.at, c.at)
<1>1. DOMAIN sessions \subseteq Key /\ IsFiniteSet(DOMAIN sessions)
  BY DEF RowsAreRows
<1>2. /\ DOMAIN P = DOMAIN sessions \cup (IF c.parent # NoKey /\ c.found = 0 THEN {c.parent} ELSE {})
      /\ \A k \in DOMAIN sessions : P[k] = sessions[k]
      /\ \A k \in DOMAIN P \ DOMAIN sessions : k = c.parent /\ P[k] = new
  BY <1>1, PlaceholderRows, SentinelAssumption DEF SentinelAssumption
<1>3. Underived(new, nextId)
  BY NewRowIsBlank
<1> HIDE DEF P, new
<1>4. /\ DOMAIN sessions' = DOMAIN P \cup {c.key}
      /\ \A q \in DOMAIN P \ {c.key} : sessions'[q] = P[q]
      /\ Merged(sessions'[c.key], Base(P, c.key, fresh), parent)
  BY DEF Takes, P
<1>5. \A k \in DOMAIN P : DOMAIN P[k] = Fields
  BY <1>2, <1>3 DEF RowsAreRows, Underived
<1>6. DOMAIN sessions \subseteq DOMAIN sessions' /\ DOMAIN sessions' \subseteq Key
  BY <1>1, <1>2, <1>4
<1>7. IsFiniteSet(DOMAIN sessions')
  <2>1. IsFiniteSet(DOMAIN sessions \cup {c.parent})
    BY <1>1, FS_AddElement
  <2>2. IsFiniteSet((DOMAIN sessions \cup {c.parent}) \cup {c.key})
    BY <2>1, FS_AddElement
  <2>3. DOMAIN sessions' \subseteq (DOMAIN sessions \cup {c.parent}) \cup {c.key}
    BY <1>2, <1>4
  <2>4. QED
    BY <2>2, <2>3, FS_Subset
<1>8. ASSUME NEW k \in DOMAIN P
      PROVE  /\ RowsOf(k, P[k], nextId)
             /\ P[k].parent = 0 \/ (k \in DOMAIN sessions /\ P[k].parent = sessions[k].parent)
  <2>1. CASE k \in DOMAIN sessions
    <3>1. P[k] = sessions[k]
      BY <1>2, <2>1
    <3>2. QED
      BY <2>1, <3>1 DEF RowsOf
  <2>2. CASE k \notin DOMAIN sessions
    <3>1. Underived(P[k], nextId)
      BY <1>2, <1>3, <2>2
    <3>2. QED
      BY <2>2, <3>1 DEF RowsOf, Underived
  <2>3. QED
    BY <2>1, <2>2
<1>9. ASSUME NEW k \in DOMAIN sessions'
      PROVE  /\ DOMAIN sessions'[k] = Fields
             /\ RowsOf(k, sessions'[k], IF k \in DOMAIN P THEN nextId ELSE nextId + 1)
             /\ k \in DOMAIN P => sessions'[k].id = P[k].id
             /\ sessions'[k].parent \in {parent, 0} \/ (k \in DOMAIN sessions /\ sessions'[k].parent = sessions[k].parent)
  <2>1. CASE k # c.key
    <3>1. k \in DOMAIN P /\ sessions'[k] = P[k]
      BY <1>4, <2>1
    <3>2. QED
      BY <1>5, <1>8, <3>1
  <2>2. CASE k = c.key /\ k \in DOMAIN P
    <3>1. Merged(sessions'[k], P[k], parent)
      BY <1>4, <2>2 DEF Base
    <3>2. /\ DOMAIN sessions'[k] = Fields /\ sessions'[k].id = P[k].id
          /\ sessions'[k].parent \in {parent, P[k].parent}
      BY <3>1 DEF Merged
    <3>3. RowsOf(k, sessions'[k], nextId)
      BY <1>8, <2>2, <3>1, MergedRowsOf
    <3>4. QED
      BY <1>8, <2>2, <3>2, <3>3
  <2>3. CASE k = c.key /\ k \notin DOMAIN P
    <3>1. Merged(sessions'[k], fresh, parent) /\ k \notin DOMAIN sessions
      BY <1>2, <1>4, <2>3 DEF Base
    <3>2. DOMAIN sessions'[k] = Fields /\ sessions'[k].parent \in {parent, 0}
      BY <3>1 DEF Merged, Underived
    <3>3. RowsOf(k, fresh, nextId + 1)
      BY <3>1 DEF RowsOf, Underived
    <3>4. RowsOf(k, sessions'[k], nextId + 1)
      BY <3>1, <3>3, MergedRowsOf
    <3>5. QED
      BY <2>3, <3>2, <3>4
  <2>4. QED
    BY <2>1, <2>2, <2>3
<1>10. \A k \in DOMAIN sessions' : k \in DOMAIN sessions \/ k = c.key \/ k = c.parent
  BY <1>2, <1>4
<1>11. /\ \A k \in DOMAIN sessions' \ DOMAIN sessions : k \in DOMAIN P => k = c.parent
       /\ \A k \in DOMAIN sessions' \ DOMAIN sessions : k \notin DOMAIN P => k = c.key
  BY <1>2, <1>4
<1>12. QED
  BY <1>6, <1>7, <1>9, <1>10, <1>11 DEF P
\* What a step leaves of the rows themselves.
RowsKeepShape ==
    /\ DOMAIN sessions' \subseteq Key /\ IsFiniteSet(DOMAIN sessions')
    /\ \A k \in DOMAIN sessions' : DOMAIN sessions'[k] = Fields
    /\ \A k \in DOMAIN sessions \cap DOMAIN sessions' : sessions'[k].display = sessions[k].display

LEMMA UpsertGrows ==
    ASSUME RowsAreRows, IdsAreMinted, NEW c, NEW fresh, c.key \in Key, c.parent \in Key \cup {NoKey},
           Underived(fresh, nextId + 1), c.found = 0 \/ c.found \in Ids,
           Takes(sessions', Placeheld(c), c.key, fresh, ParentId(c)),
           UNCHANGED tables, nextId' = nextId + (IF Used(sessions') = {} THEN 0 ELSE 2)
    PROVE  RowsStay /\ NewRowsAreBlank /\ ParentsLive' /\ RowsKeepShape
<1> DEFINE P == Placeheld(c)
           parent == ParentId(c)
<1>1. /\ DOMAIN sessions \subseteq DOMAIN sessions' /\ DOMAIN sessions' \subseteq Key
      /\ IsFiniteSet(DOMAIN sessions')
      /\ \A k \in DOMAIN sessions' :
           /\ DOMAIN sessions'[k] = Fields
           /\ RowsOf(k, sessions'[k], IF k \in DOMAIN P THEN nextId ELSE nextId + 1)
           /\ k \in DOMAIN P => sessions'[k].id = P[k].id
           /\ \/ sessions'[k].parent \in {parent, 0}
              \/ (k \in DOMAIN sessions /\ sessions'[k].parent = sessions[k].parent)
      /\ \A k \in DOMAIN sessions' \ DOMAIN sessions : k \in DOMAIN P => k = c.parent
      /\ \A k \in DOMAIN sessions' \ DOMAIN sessions : k \notin DOMAIN P => k = c.key
  BY UpsertRows
<1>2. (c.parent # NoKey /\ c.found = 0) => c.parent \in DOMAIN P /\ c.parent \in DOMAIN sessions'
  <2>1. DOMAIN P = DOMAIN sessions \cup (IF c.parent # NoKey /\ c.found = 0 THEN {c.parent} ELSE {})
    BY PlaceholderRows, SentinelAssumption DEF SentinelAssumption, RowsAreRows
  <2>2. DOMAIN sessions' = DOMAIN P \cup {c.key}
    BY DEF Takes
  <2>3. QED
    BY <2>1, <2>2
<1>3. parent = IF c.parent = NoKey THEN 0 ELSE IF c.found # 0 THEN c.found ELSE P[c.parent].id
  BY DEF ParentId
<1> HIDE DEF P, parent
<1>4. RowsStay
  <2>1. ASSUME NEW k \in DOMAIN sessions
        PROVE  /\ sessions'[k].id = sessions[k].id /\ sessions'[k].turnCount = sessions[k].turnCount
               /\ sessions'[k].cost = sessions[k].cost /\ sessions'[k].model = sessions[k].model
    BY <1>1 DEF RowsOf
  <2>2. QED
    BY <1>1, <2>1 DEF RowsStay, tables
<1>5. Ids \subseteq Ids'
  BY <1>4 DEF Ids, RowsStay
<1>6. nextId \in Nat
  BY Zenon DEF IdsAreMinted
<1>7. ASSUME NEW k \in DOMAIN sessions', k \notin DOMAIN sessions
      PROVE  /\ sessions'[k].turnCount = 0 /\ sessions'[k].cost = 0 /\ sessions'[k].model = ""
             /\ sessions'[k].id = (IF k \in DOMAIN P THEN nextId ELSE nextId + 1)
  BY <1>1, <1>7 DEF RowsOf
<1>8. nextId' \in Nat /\ nextId' >= nextId
  BY <1>6
<1>9. ASSUME NEW k \in DOMAIN sessions', k \notin DOMAIN sessions
      PROVE  sessions'[k].id \in nextId..(nextId' - 1)
  <2>1. sessions'[k].id = nextId \/ sessions'[k].id = nextId + 1
    BY <1>7, <1>9
  <2>2. sessions'[k].id \in Used(sessions')
    BY <2>1 DEF Used
  <2>3. nextId' = nextId + 2
    BY <2>2
  <2>4. CASE sessions'[k].id = nextId
    BY <1>6, <2>3, <2>4
  <2>5. CASE sessions'[k].id = nextId + 1
    BY <1>6, <2>3, <2>5
  <2>6. QED
    BY <2>1, <2>4, <2>5
<1>10. ASSUME NEW k \in DOMAIN sessions', NEW q \in DOMAIN sessions', k \notin DOMAIN sessions,
              q \notin DOMAIN sessions, sessions'[k].id = sessions'[q].id
       PROVE  k = q
  <2>1. k \in DOMAIN P <=> q \in DOMAIN P
    <3>1. /\ sessions'[k].id = (IF k \in DOMAIN P THEN nextId ELSE nextId + 1)
          /\ sessions'[q].id = (IF q \in DOMAIN P THEN nextId ELSE nextId + 1)
      BY <1>7, <1>10
    <3>2. nextId # nextId + 1
      BY <1>6
    <3>3. CASE k \in DOMAIN P
      BY <1>10, <3>1, <3>2, <3>3, Zenon
    <3>4. CASE k \notin DOMAIN P
      BY <1>10, <3>1, <3>2, <3>4, Zenon
    <3>5. QED
      BY <3>3, <3>4, Zenon
  <2>2. QED
    BY <1>1, <1>10, <2>1
<1>11. NewRowsAreBlank
  BY <1>7, <1>8, <1>9, <1>10 DEF NewRowsAreBlank
<1>12. parent \in Ids' \cup {0}
  <2>1. CASE c.parent # NoKey /\ c.found = 0
    <3>1. parent = sessions'[c.parent].id
      BY <1>1, <1>2, <1>3, <2>1
    <3>2. QED
      BY <1>2, <2>1, <3>1 DEF Ids
  <2>2. QED
    BY <1>3, <1>5, <2>1
<1>13. ParentsLive'
  <2>1. ASSUME NEW k \in DOMAIN sessions' PROVE sessions'[k].parent \in Ids' \cup {0}
    <3>1. CASE k \in DOMAIN sessions /\ sessions'[k].parent = sessions[k].parent
      <4>1. sessions[k].parent \in Ids \cup {0}
        BY <3>1 DEF IdsAreMinted
      <4>2. QED
        BY <1>5, <3>1, <4>1
    <3>2. QED
      BY <1>1, <1>12, <3>1
  <2>2. QED
    BY <2>1 DEF ParentsLive, Ids
<1>14. RowsKeepShape
  <2>1. \A k \in DOMAIN sessions : sessions'[k].display = sessions[k].display
    BY <1>1 DEF RowsOf
  <2>2. QED
    BY <1>1, <2>1 DEF RowsKeepShape
<1>15. QED
  BY <1>4, <1>11, <1>13, <1>14
\* An upsert touches its own row alone, and one it makes starts now.
LEMMA UpsertAlone ==
    ASSUME RowsAreRows, NEW c, NEW fresh, c.at \in Nat, fresh.started \in Nat, NEW parent,
           Takes(sessions', Placeheld(c), c.key, fresh, parent)
    PROVE  /\ c.key \in DOMAIN sessions'
           /\ \A k \in DOMAIN sessions : k # c.key => sessions'[k] = sessions[k]
           /\ \A k \in DOMAIN sessions' : k # c.key => sessions'[k].started \in Nat
           /\ Base(Placeheld(c), c.key, fresh).started \in Nat
           /\ c.key \in DOMAIN sessions => Base(Placeheld(c), c.key, fresh) = sessions[c.key]
<1> DEFINE P == Placeheld(c)
           new == NewRow(nextId, c.subject, c.at, c.at)
<1>1. /\ DOMAIN sessions \subseteq DOMAIN P
      /\ \A k \in DOMAIN sessions : P[k] = sessions[k]
      /\ \A k \in DOMAIN P \ DOMAIN sessions : k = c.parent /\ P[k] = new
  BY PlaceholderRows, SentinelAssumption DEF SentinelAssumption, RowsAreRows
<1>2. new.started \in Nat
  BY NewRowIsBlank
<1> HIDE DEF P, new
<1>3. \A k \in DOMAIN P : P[k].started \in Nat
  BY <1>1, <1>2 DEF RowsAreRows
<1>4. DOMAIN sessions' = DOMAIN P \cup {c.key} /\ \A q \in DOMAIN P \ {c.key} : sessions'[q] = P[q]
  BY DEF Takes, P
<1>5. /\ Base(P, c.key, fresh).started \in Nat
      /\ c.key \in DOMAIN sessions => Base(P, c.key, fresh) = sessions[c.key]
  BY <1>1, <1>3 DEF Base
<1>6. QED
  BY <1>1, <1>3, <1>4, <1>5 DEF P

LEMMA PlaceheldShape ==
    ASSUME RowsAreRows, NEW c
    PROVE  \A k \in DOMAIN Placeheld(c) : DOMAIN Placeheld(c)[k] = Fields
<1> DEFINE P == Placeheld(c)
           new == NewRow(nextId, c.subject, c.at, c.at)
<1>1. /\ \A k \in DOMAIN sessions : P[k] = sessions[k]
      /\ \A k \in DOMAIN P \ DOMAIN sessions : P[k] = new
  BY PlaceholderRows, SentinelAssumption DEF SentinelAssumption, RowsAreRows
<1>2. DOMAIN new = Fields
  BY DEF NewRow, Fields
<1> HIDE DEF P, new
<1>3. \A k \in DOMAIN P : DOMAIN P[k] = Fields
  BY <1>1, <1>2 DEF RowsAreRows
<1>4. QED
  BY <1>3 DEF P

\* What every step that grows the rows shows.
StartsAreRight ==
    /\ \A k \in DOMAIN sessions' : sessions'[k].started \in Nat
    /\ \A k \in DOMAIN sessions \cap DOMAIN sessions' : sessions'[k].started <= sessions[k].started

LEMMA CallReturns ==
    ASSUME CallsAreCalls, NEW w \in Writer, call' = [call EXCEPT ![w] = Idle], now' = now
    PROVE  CallsAreCalls'
<1>1. DOMAIN call' = Writer /\ call'[w] = Idle /\ \A v \in Writer \ {w} : call'[v] = call[v]
  BY DEF CallsAreCalls
<1>2. QED
  BY <1>1 DEF CallsAreCalls

LEMMA IngestTurnGrows ==
    ASSUME StoreInv, NEW w \in Writer, IngestTurn(w)
    PROVE  /\ RowsStay /\ NewRowsAreBlank /\ ParentsLive' /\ RowsKeepShape
           /\ StartsAreRight /\ CallsAreCalls' /\ CallersAreKnown'
<1> DEFINE c == call[w]
           fresh == NewRow(nextId + 1, c.subject, c.at, c.at)
<1>1. /\ c.kind = "wire" /\ (c.found = 0 \/ c.found \in Ids)
      /\ sessions' = UpsertSession(Placeheld(c), c, nextId + 1, ParentId(c))
      /\ own' = [own EXCEPT ![c.key] = @ \cup {c.subject}]
      /\ nextId' = nextId + (IF Used(sessions') = {} THEN 0 ELSE 2)
      /\ call' = [call EXCEPT ![w] = Idle] /\ UNCHANGED tables /\ now' = now
  BY DEF IngestTurn
<1>2. c.key \in Key /\ c.parent \in Key \cup {NoKey} /\ c.at \in Nat
  BY <1>1 DEF StoreInv, CallsAreCalls, Idle
<1>3. RowsAreRows /\ IdsAreMinted /\ CallsAreCalls /\ CallersAreKnown
  BY DEF StoreInv
<1>4. Underived(fresh, nextId + 1) /\ fresh.started = c.at
  BY NewRowIsBlank
<1> HIDE DEF c, fresh
<1>5. c.key \in DOMAIN Placeheld(c) => DOMAIN Placeheld(c)[c.key] = Fields
  BY <1>3, PlaceheldShape
<1>6. /\ Takes(sessions', Placeheld(c), c.key, fresh, ParentId(c))
      /\ sessions'[c.key].subject = c.subject
      /\ sessions'[c.key].started = Base(Placeheld(c), c.key, fresh).started
  BY <1>1, <1>5, WireUpsert DEF fresh
<1>7. RowsStay /\ NewRowsAreBlank /\ ParentsLive' /\ RowsKeepShape
  BY <1>1, <1>2, <1>3, <1>4, <1>6, UpsertGrows
<1>8. /\ c.key \in DOMAIN sessions'
      /\ \A k \in DOMAIN sessions : k # c.key => sessions'[k] = sessions[k]
      /\ \A k \in DOMAIN sessions' : k # c.key => sessions'[k].started \in Nat
      /\ Base(Placeheld(c), c.key, fresh).started \in Nat
      /\ c.key \in DOMAIN sessions => Base(Placeheld(c), c.key, fresh) = sessions[c.key]
  BY <1>2, <1>3, <1>4, <1>6, UpsertAlone
<1>9. \A k \in DOMAIN sessions : sessions'[k].started = sessions[k].started
  BY <1>6, <1>8
<1>10. StartsAreRight
  <2>1. \A k \in DOMAIN sessions : sessions[k].started \in Nat
    BY <1>3 DEF RowsAreRows
  <2>2. \A k \in DOMAIN sessions' : sessions'[k].started \in Nat
    BY <1>6, <1>8
  <2>3. QED
    BY <1>9, <2>1, <2>2 DEF StartsAreRight
<1>11. CallersAreKnown'
  <2>1. DOMAIN own' = Key /\ own'[c.key] = own[c.key] \cup {c.subject}
        /\ \A k \in Key \ {c.key} : own'[k] = own[k]
    BY <1>1, <1>2, <1>3 DEF CallersAreKnown
  <2>2. ASSUME NEW k \in Key, own'[k] # {}
        PROVE  k \in DOMAIN sessions' /\ sessions'[k].subject \in own'[k]
    <3>1. CASE k = c.key
      BY <1>6, <1>8, <2>1, <3>1
    <3>2. CASE k # c.key
      BY <1>3, <1>7, <1>8, <2>1, <2>2, <3>2 DEF CallersAreKnown, RowsStay
    <3>3. QED
      BY <3>1, <3>2
  <2>3. QED
    BY <2>1, <2>2 DEF CallersAreKnown
<1>12. CallsAreCalls'
  BY <1>1, <1>3, CallReturns
<1>13. QED
  BY <1>7, <1>10, <1>11, <1>12
LEMMA LeastIsLess ==
    ASSUME NEW a \in Nat, NEW b \in Nat
    PROVE  Least(a, b) \in Nat /\ Least(a, b) <= a
BY DEF Least

LEMMA UpsertTranscriptSessionGrows ==
    ASSUME StoreInv, NEW w \in Writer, UpsertTranscriptSession(w)
    PROVE  /\ RowsStay /\ NewRowsAreBlank /\ ParentsLive' /\ RowsKeepShape
           /\ StartsAreRight /\ CallsAreCalls' /\ CallersAreKnown'
<1> DEFINE c == call[w]
           fresh == NewRow(nextId + 1, c.subject, c.from, c.at)
           old == Base(Placeheld(c), c.key, fresh)
<1>1. /\ c.kind = "transcript" /\ (c.found = 0 \/ c.found \in Ids)
      /\ sessions' = UpsertSessionFromTranscript(Placeheld(c), c, nextId + 1, ParentId(c))
      /\ own' = [own EXCEPT ![c.key] = IF c.subject = NoSubject \/ @ = {} THEN @ ELSE @ \cup {c.subject}]
      /\ nextId' = nextId + (IF Used(sessions') = {} THEN 0 ELSE 2)
      /\ call' = [call EXCEPT ![w] = Idle] /\ UNCHANGED tables /\ now' = now
  BY DEF UpsertTranscriptSession
<1>2. c.key \in Key /\ c.parent \in Key \cup {NoKey} /\ c.at \in Nat /\ c.from \in Nat
  BY <1>1 DEF StoreInv, CallsAreCalls, Idle
<1>3. RowsAreRows /\ IdsAreMinted /\ CallsAreCalls /\ CallersAreKnown
  BY DEF StoreInv
<1>4. Underived(fresh, nextId + 1) /\ fresh.started = c.from
  BY NewRowIsBlank
<1> HIDE DEF c, fresh
<1>5. c.key \in DOMAIN Placeheld(c) => DOMAIN Placeheld(c)[c.key] = Fields
  BY <1>3, PlaceheldShape
<1>6. /\ Takes(sessions', Placeheld(c), c.key, fresh, ParentId(c))
      /\ sessions'[c.key].subject = (IF c.subject = NoSubject THEN old.subject ELSE c.subject)
      /\ sessions'[c.key].started = Least(old.started, c.from)
  BY <1>1, <1>5, TranscriptUpsert DEF fresh
<1>7. RowsStay /\ NewRowsAreBlank /\ ParentsLive' /\ RowsKeepShape
  BY <1>1, <1>2, <1>3, <1>4, <1>6, UpsertGrows
<1>8. /\ c.key \in DOMAIN sessions'
      /\ \A k \in DOMAIN sessions : k # c.key => sessions'[k] = sessions[k]
      /\ \A k \in DOMAIN sessions' : k # c.key => sessions'[k].started \in Nat
      /\ old.started \in Nat
      /\ c.key \in DOMAIN sessions => old = sessions[c.key]
  BY <1>2, <1>3, <1>4, <1>6, UpsertAlone
<1> HIDE DEF old
<1>9. StartsAreRight
  <2>1. \A k \in DOMAIN sessions : sessions[k].started \in Nat
    BY <1>3 DEF RowsAreRows
  <2>2. sessions'[c.key].started \in Nat /\ sessions'[c.key].started <= old.started
    BY <1>2, <1>6, <1>8, LeastIsLess
  <2>3. ASSUME NEW k \in DOMAIN sessions PROVE sessions'[k].started <= sessions[k].started
    <3>1. CASE k = c.key
      BY <1>8, <2>2, <3>1
    <3>2. CASE k # c.key
      BY <1>8, <2>1, <3>2
    <3>3. QED
      BY <3>1, <3>2
  <2>4. \A k \in DOMAIN sessions' : sessions'[k].started \in Nat
    BY <1>8, <2>2
  <2>5. QED
    BY <2>3, <2>4 DEF StartsAreRight
<1>10. CallersAreKnown'
  <2>1. /\ DOMAIN own' = Key
        /\ own'[c.key] = (IF c.subject = NoSubject \/ own[c.key] = {} THEN own[c.key]
                          ELSE own[c.key] \cup {c.subject})
        /\ \A k \in Key \ {c.key} : own'[k] = own[k]
    BY <1>1, <1>2, <1>3 DEF CallersAreKnown
  <2>2. ASSUME NEW k \in Key, own'[k] # {}
        PROVE  k \in DOMAIN sessions' /\ sessions'[k].subject \in own'[k]
    <3>1. CASE k = c.key /\ c.subject = NoSubject
      BY <1>3, <1>6, <1>8, <2>1, <2>2, <3>1 DEF CallersAreKnown
    <3>2. CASE k = c.key /\ c.subject # NoSubject
      BY <1>6, <1>8, <2>1, <2>2, <3>2
    <3>3. CASE k # c.key
      BY <1>3, <1>7, <1>8, <2>1, <2>2, <3>3 DEF CallersAreKnown, RowsStay
    <3>4. QED
      BY <3>1, <3>2, <3>3
  <2>3. QED
    BY <2>1, <2>2 DEF CallersAreKnown
<1>11. CallsAreCalls'
  BY <1>1, <1>3, CallReturns
<1>12. QED
  BY <1>7, <1>9, <1>10, <1>11

\* A rename changes the user's title of one row and nothing else.
LEMMA RenameGrows ==
    ASSUME StoreInv, NEW k \in DOMAIN sessions, NEW name, UpdateSessionDisplayName(k, name)
    PROVE  /\ RowsStay /\ NewRowsAreBlank /\ ParentsLive'
           /\ RowsAreRows' /\ StartsAreRight /\ CallsAreCalls' /\ CallersAreKnown'
           /\ \A q \in DOMAIN sessions : sessions'[q].display # sessions[q].display =>
                sessions' = [sessions EXCEPT ![q].display = sessions'[q].display]
<1>1. RowsAreRows /\ IdsAreMinted /\ CallsAreCalls /\ CallersAreKnown
  BY DEF StoreInv
<1>2. /\ sessions' = [sessions EXCEPT ![k].display = name]
      /\ UNCHANGED <<turns, spans, links, call, own>> /\ now' = now /\ nextId' = nextId
  BY DEF UpdateSessionDisplayName, tables, clock
<1>3. DOMAIN sessions' = DOMAIN sessions /\ \A q \in DOMAIN sessions \ {k} : sessions'[q] = sessions[q]
  BY <1>2
<1>4. DOMAIN sessions[k] = Fields /\ DOMAIN sessions'[k] = Fields /\ sessions'[k].display = name
  BY <1>1, <1>2 DEF RowsAreRows, Fields
<1>5. /\ sessions'[k].id = sessions[k].id /\ sessions'[k].turnCount = sessions[k].turnCount
      /\ sessions'[k].cost = sessions[k].cost /\ sessions'[k].model = sessions[k].model
      /\ sessions'[k].parent = sessions[k].parent /\ sessions'[k].started = sessions[k].started
      /\ sessions'[k].subject = sessions[k].subject
  BY <1>2, <1>4 DEF Fields
<1>6. \A q \in DOMAIN sessions : sessions'[q].id = sessions[q].id /\ sessions'[q].parent = sessions[q].parent
  BY <1>3, <1>5
<1>7. RowsStay
  BY <1>2, <1>3, <1>5 DEF RowsStay
<1>8. NewRowsAreBlank
  <2>1. nextId \in Nat
    BY <1>1, Zenon DEF IdsAreMinted
  <2>2. nextId' \in Nat /\ nextId' >= nextId
    BY <1>2, <2>1
  <2>3. \A q \in DOMAIN sessions' : q \in DOMAIN sessions
    BY <1>3, Zenon
  <2>4. QED
    BY <2>2, <2>3, Zenon DEF NewRowsAreBlank
<1>9. ParentsLive'
  <2>1. Ids' = Ids
    BY <1>3, <1>6, Zenon DEF Ids
  <2>2. \A q \in DOMAIN sessions : sessions[q].parent \in Ids \cup {0}
    BY <1>1 DEF IdsAreMinted
  <2>3. \A q \in DOMAIN sessions' : sessions'[q].parent \in Ids' \cup {0}
    BY <1>3, <1>6, <2>1, <2>2
  <2>4. QED
    BY <2>3 DEF ParentsLive
<1>10. RowsAreRows'
  BY <1>1, <1>3, <1>4, <1>5 DEF RowsAreRows
<1>11. StartsAreRight
  <2>1. \A q \in DOMAIN sessions : sessions'[q].started = sessions[q].started /\ sessions[q].started \in Nat
    BY <1>1, <1>3, <1>5 DEF RowsAreRows
  <2>2. QED
    BY <1>3, <2>1 DEF StartsAreRight
<1>12. CallsAreCalls'
  BY <1>1, <1>2 DEF CallsAreCalls
<1>13. CallersAreKnown'
  BY <1>1, <1>2, <1>3, <1>5 DEF CallersAreKnown
<1>14. ASSUME NEW q \in DOMAIN sessions, sessions'[q].display # sessions[q].display
       PROVE  sessions' = [sessions EXCEPT ![q].display = sessions'[q].display]
  <2>1. q = k
    BY <1>3, <1>14
  <2>2. QED
    BY <1>2, <1>4, <2>1
<1>15. QED
  BY <1>7, <1>8, <1>9, <1>10, <1>11, <1>12, <1>13, <1>14
-----------------------------------------------------------------------------
(* A delete: the session, its descendants and all that hangs off them.      *)

LEMMA SubtreeCloses ==
    ASSUME NEW id \in Ids
    PROVE  /\ id \in Subtree(id) /\ Subtree(id) \subseteq Ids
           /\ \A k \in DOMAIN sessions : sessions[k].parent \in Subtree(id) => sessions[k].id \in Subtree(id)
<1> DEFINE Closed(have) == \A k \in DOMAIN sessions : sessions[k].parent \in have => sessions[k].id \in have
<1>1. Subtree(id) = {i \in Ids : \A have \in SUBSET Ids : id \in have /\ Closed(have) => i \in have}
  BY DEF Subtree
<1>2. id \in Subtree(id) /\ Subtree(id) \subseteq Ids
  BY <1>1
<1>3. ASSUME NEW k \in DOMAIN sessions, sessions[k].parent \in Subtree(id)
      PROVE  sessions[k].id \in Subtree(id)
  <2>1. sessions[k].id \in Ids
    BY DEF Ids
  <2>2. ASSUME NEW have \in SUBSET Ids, id \in have, Closed(have)
        PROVE  sessions[k].id \in have
    <3>1. sessions[k].parent \in have
      BY <1>1, <1>3, <2>2
    <3>2. QED
      BY <2>2, <3>1
  <2>3. QED
    BY <1>1, <2>1, <2>2
<1>4. QED
  BY <1>2, <1>3


LEMMA DeleteKeeps ==
    ASSUME StoreInv, NEW k \in DOMAIN sessions, DeleteSession(k)
    PROVE  StoreInv' /\ \A q \in DOMAIN sessions' : q \in DOMAIN sessions /\ sessions'[q] = sessions[q]
<1> DEFINE gone == Subtree(sessions[k].id)
<1>1. /\ sessions' = Only(sessions, {q \in DOMAIN sessions : sessions[q].id \notin gone})
      /\ turns' = Only(turns, {x \in DOMAIN turns : turns[x].owner \notin gone})
      /\ spans' = Only(spans, {x \in DOMAIN spans : spans[x].owner \notin gone})
      /\ links' = Only(links, {x \in DOMAIN links : links[x].owner \notin gone})
      /\ own' = [q \in Key |-> IF q \in DOMAIN sessions' THEN own[q] ELSE {}]
      /\ call' = call /\ now' = now /\ nextId' = nextId
  BY DEF DeleteSession, clock
<1>2. sessions[k].id \in Ids
  BY DEF Ids
<1>3. \A q \in DOMAIN sessions : sessions[q].parent \in gone => sessions[q].id \in gone
  BY <1>2, SubtreeCloses
<1> HIDE DEF gone
<1>4. /\ DOMAIN sessions' = {q \in DOMAIN sessions : sessions[q].id \notin gone}
      /\ \A q \in DOMAIN sessions' : sessions'[q] = sessions[q]
  BY <1>1 DEF Only
<1>5. /\ DOMAIN turns' = {x \in DOMAIN turns : turns[x].owner \notin gone}
      /\ \A x \in DOMAIN turns' : turns'[x] = turns[x]
  BY <1>1 DEF Only
<1>6. /\ DOMAIN spans' = {x \in DOMAIN spans : spans[x].owner \notin gone}
      /\ \A x \in DOMAIN spans' : spans'[x] = spans[x]
  BY <1>1 DEF Only
<1>7. /\ DOMAIN links' = {x \in DOMAIN links : links[x].owner \notin gone}
      /\ \A x \in DOMAIN links' : links'[x] = links[x]
  BY <1>1 DEF Only
<1>8. RowsAreRows'
  <2>1. IsFiniteSet(DOMAIN sessions')
    BY <1>4, FS_Subset DEF StoreInv, RowsAreRows
  <2>2. QED
    BY <1>4, <2>1 DEF StoreInv, RowsAreRows
<1>9. IdsAreMinted'
  <2>1. IdsAreMinted
    BY DEF StoreInv
  <2>2. nextId' \in Nat \ {0}
    BY <1>1, <2>1, Zenon DEF IdsAreMinted
  <2>3. \A q \in DOMAIN sessions' : sessions'[q].id \in 1..(nextId' - 1)
    BY <1>1, <1>4, <2>1 DEF IdsAreMinted
  <2>4. \A p, q \in DOMAIN sessions' : sessions'[p].id = sessions'[q].id => p = q
    BY <1>4, <2>1 DEF IdsAreMinted
  <2>5. ASSUME NEW q \in DOMAIN sessions' PROVE sessions'[q].parent \in Ids' \cup {0}
    <3>1. q \in DOMAIN sessions /\ sessions'[q] = sessions[q] /\ sessions[q].id \notin gone
      BY <1>4
    <3>2. CASE sessions[q].parent = 0
      BY <3>1, <3>2
    <3>3. CASE sessions[q].parent # 0
      <4>1. PICK p \in DOMAIN sessions : sessions[p].id = sessions[q].parent
        BY <2>1, <3>1, <3>3 DEF IdsAreMinted, Ids
      <4>2. p \in DOMAIN sessions' /\ sessions'[p].id = sessions'[q].parent
        BY <1>3, <1>4, <3>1, <4>1
      <4>3. QED
        BY <4>2 DEF Ids
    <3>4. QED
      BY <3>2, <3>3
  <2>6. QED
    BY <2>2, <2>3, <2>4, <2>5 DEF IdsAreMinted
<1>10. TracesAreTheirs'
  <2>1. ASSUME NEW t \in DOMAIN turns'
        PROVE  \E q \in DOMAIN sessions' : turns'[t].owner = sessions'[q].id /\ t \in Traces(q)
    <3>1. PICK q \in DOMAIN sessions : turns[t].owner = sessions[q].id /\ t \in Traces(q)
      BY <1>5 DEF StoreInv, TracesAreTheirs
    <3>2. q \in DOMAIN sessions' /\ sessions'[q] = sessions[q] /\ turns'[t] = turns[t]
      BY <1>4, <1>5, <3>1
    <3>3. QED
      BY <3>1, <3>2
  <2>2. QED
    BY <2>1 DEF TracesAreTheirs, Traces
<1>11. SpansAreInside'
  BY <1>5, <1>6 DEF StoreInv, SpansAreInside
<1>12. LinksAreInside'
  <2>1. ASSUME NEW l \in DOMAIN links'
        PROVE  {l[1], l[2]} \subseteq DOMAIN spans' /\ \A x \in {l[1], l[2]} : spans'[x].owner = links'[l].owner
    <3>1. /\ l \in DOMAIN links /\ links'[l] = links[l] /\ links[l].owner \notin gone
      BY <1>7
    <3>2. {l[1], l[2]} \subseteq DOMAIN spans /\ \A x \in {l[1], l[2]} : spans[x].owner = links[l].owner
      BY <3>1 DEF StoreInv, LinksAreInside
    <3>3. QED
      BY <1>6, <3>1, <3>2
  <2>2. QED
    BY <2>1 DEF LinksAreInside
<1>13. RowsAreFolds'
  <2>1. ASSUME NEW q \in DOMAIN sessions' PROVE IsFold(sessions[q])'
    <3>1. q \in DOMAIN sessions /\ sessions'[q] = sessions[q] /\ sessions[q].id \notin gone
      BY <1>4
    <3>2. /\ sessions[q].turnCount = Cardinality(Owned(turns, sessions[q].id))
          /\ sessions[q].cost = TotalCost(OwnData(turns, sessions[q].id))
          /\ sessions[q].model = DominantModel(OwnData(spans, sessions[q].id))
      BY <3>1 DEF StoreInv, RowsAreFolds, IsFold
    <3>3. /\ Owned(turns', sessions[q].id) = Owned(turns, sessions[q].id)
          /\ OwnData(turns', sessions[q].id) = OwnData(turns, sessions[q].id)
      BY <1>5, <3>1 DEF Owned, OwnData
    <3>4. OwnData(spans', sessions[q].id) = OwnData(spans, sessions[q].id)
      BY <1>6, <3>1 DEF Owned, OwnData
    <3>5. QED
      BY <3>1, <3>2, <3>3, <3>4 DEF IsFold
  <2>2. QED
    BY <2>1 DEF RowsAreFolds
<1>14. CallsAreCalls'
  BY <1>1 DEF StoreInv, CallsAreCalls
<1>15. CallersAreKnown'
  <2>1. DOMAIN own' = Key /\ \A q \in Key : own'[q] # {} => q \in DOMAIN sessions' /\ own'[q] = own[q]
    BY <1>1
  <2>2. \A q \in Key : own'[q] # {} => sessions'[q].subject \in own'[q]
    BY <1>4, <2>1 DEF StoreInv, CallersAreKnown
  <2>3. QED
    BY <2>1, <2>2 DEF CallersAreKnown
<1>16. QED
  BY <1>4, <1>8, <1>9, <1>10, <1>11, <1>12, <1>13, <1>14, <1>15 DEF StoreInv
-----------------------------------------------------------------------------
(* A derive pass: the projection of one session, and its fold.              *)

\* What the pass writes was the session's or nobody's.
LEMMA PassOwnsItsRows ==
    ASSUME StoreInv, NEW k \in DOMAIN sessions, NEW set \in Derivations[k]
    PROVE  /\ \A t \in DOMAIN turns \cap DOMAIN set.turns : turns[t].owner = sessions[k].id
           /\ \A x \in DOMAIN spans \cap DOMAIN set.spans : spans[x].owner = sessions[k].id
           /\ \A l \in DOMAIN links \cap DOMAIN set.links : links[l].owner = sessions[k].id
<1>1. DOMAIN sessions \subseteq Key
  BY DEF StoreInv, RowsAreRows
<1>2. /\ {x[1] : x \in DOMAIN set.spans} \subseteq DOMAIN set.turns
      /\ \A l \in DOMAIN set.links : {l[1], l[2]} \subseteq DOMAIN set.spans
      /\ \A q \in Key \ {k} : \A other \in Derivations[q] : DOMAIN set.turns \cap DOMAIN other.turns = {}
  BY <1>1, DerivationsAssumption DEF DerivationsAssumption
<1>3. ASSUME NEW t \in DOMAIN turns, t \in DOMAIN set.turns
      PROVE  turns[t].owner = sessions[k].id
  <2>1. PICK q \in DOMAIN sessions : turns[t].owner = sessions[q].id /\ t \in Traces(q)
    BY DEF StoreInv, TracesAreTheirs
  <2>2. PICK other \in Derivations[q] : t \in DOMAIN other.turns
    BY <2>1 DEF Traces
  <2>3. q = k
    BY <1>1, <1>2, <1>3, <2>2
  <2>4. QED
    BY <2>1, <2>3
<1>4. ASSUME NEW x \in DOMAIN spans, x \in DOMAIN set.spans
      PROVE  spans[x].owner = sessions[k].id
  <2>1. x[1] \in DOMAIN turns /\ turns[x[1]].owner = spans[x].owner
    BY DEF StoreInv, SpansAreInside
  <2>2. x[1] \in DOMAIN set.turns
    BY <1>2, <1>4
  <2>3. QED
    BY <1>3, <2>1, <2>2
<1>5. ASSUME NEW l \in DOMAIN links, l \in DOMAIN set.links
      PROVE  links[l].owner = sessions[k].id
  <2>1. l[1] \in DOMAIN spans /\ spans[l[1]].owner = links[l].owner
    BY DEF StoreInv, LinksAreInside
  <2>2. l[1] \in DOMAIN set.spans
    BY <1>2, <1>5
  <2>3. QED
    BY <1>4, <2>1, <2>2
<1>6. QED
  BY <1>3, <1>4, <1>5

\* The pass rewrites its session's part of the three tables, folds the row from
\* what it wrote and leaves who the session is.
LEMMA WriteSpanSetEffect ==
    ASSUME StoreInv, NEW k \in DOMAIN sessions, NEW set \in Derivations[k], WriteSpanSet(k, set)
    PROVE  /\ Rewritten(turns, turns', set.turns, sessions[k].id)
           /\ Rewritten(spans, spans', set.spans, sessions[k].id)
           /\ Rewritten(links, links', set.links, sessions[k].id)
           /\ DOMAIN sessions' = DOMAIN sessions /\ DOMAIN sessions'[k] = Fields
           /\ \A q \in DOMAIN sessions \ {k} : sessions'[q] = sessions[q]
           /\ sessions'[k].id = sessions[k].id /\ sessions'[k].parent = sessions[k].parent
           /\ sessions'[k].started = sessions[k].started /\ sessions'[k].display = sessions[k].display
           /\ sessions'[k].subject = sessions[k].subject
           /\ IsFold(sessions[k])'
<1> DEFINE id == sessions[k].id
           folded == FoldSessionRollupsFromSpans(sessions[k], turns', spans')
           completed == UpdateSessionStatus(folded, set)
           row == UpdateSessionDerivedTitle(completed, set)
<1>1. /\ turns' = Kept(Upserted(turns, set.turns, id), DOMAIN set.turns, id)
      /\ spans' = Kept(Upserted(spans, set.spans, id), DOMAIN set.spans, id)
      /\ links' = Kept(Upserted(links, set.links, id), DOMAIN set.links, id)
  BY DEF WriteSpanSet, PruneSpanTurns, PruneSpans, PruneSpanLinks, UpsertSpanTurn, UpsertSpan, UpsertSpanLink
<1>2. sessions' = [sessions EXCEPT ![k] = row]
  BY DEF WriteSpanSet
<1>3. /\ Rewritten(turns, turns', set.turns, id)
      /\ Rewritten(spans, spans', set.spans, id)
      /\ Rewritten(links, links', set.links, id)
  BY <1>1, PassOwnsItsRows, TableRewritten
<1>4. DOMAIN sessions[k] = Fields
  BY DEF StoreInv, RowsAreRows
<1>5. /\ DOMAIN folded = Fields /\ folded.id = id /\ folded.parent = sessions[k].parent
      /\ folded.started = sessions[k].started /\ folded.display = sessions[k].display
      /\ folded.subject = sessions[k].subject
      /\ folded.turnCount = Cardinality(Owned(turns', id))
      /\ folded.cost = TotalCost(OwnData(turns', id))
      /\ folded.model = DominantModel(OwnData(spans', id))
  BY <1>4 DEF FoldSessionRollupsFromSpans, Fields
<1> HIDE DEF folded
<1>6. /\ DOMAIN completed = Fields /\ completed.id = folded.id /\ completed.parent = folded.parent
      /\ completed.started = folded.started /\ completed.display = folded.display
      /\ completed.subject = folded.subject /\ completed.turnCount = folded.turnCount
      /\ completed.cost = folded.cost /\ completed.model = folded.model
  BY <1>5 DEF UpdateSessionStatus, Fields
<1> HIDE DEF completed
<1>7. /\ DOMAIN row = Fields /\ row.id = completed.id /\ row.parent = completed.parent
      /\ row.started = completed.started /\ row.display = completed.display
      /\ row.subject = completed.subject /\ row.turnCount = completed.turnCount
      /\ row.cost = completed.cost /\ row.model = completed.model
  BY <1>6 DEF UpdateSessionDerivedTitle, Fields
<1> HIDE DEF row
<1>8. /\ DOMAIN sessions' = DOMAIN sessions /\ sessions'[k] = row
      /\ \A q \in DOMAIN sessions \ {k} : sessions'[q] = sessions[q]
  BY <1>2
<1>9. IsFold(sessions[k])'
  <2>1. /\ sessions'[k].id = id
        /\ sessions'[k].turnCount = Cardinality(Owned(turns', id))
        /\ sessions'[k].cost = TotalCost(OwnData(turns', id))
        /\ sessions'[k].model = DominantModel(OwnData(spans', id))
    BY <1>5, <1>6, <1>7, <1>8
  <2> HIDE DEF id
  <2>2. QED
    BY <2>1 DEF IsFold
<1>10. QED
  BY <1>3, <1>5, <1>6, <1>7, <1>8, <1>9
LEMMA WriteDerivedSetKeeps ==
    ASSUME StoreInv, NEW k \in DOMAIN sessions, NEW set \in Derivations[k], WriteSpanSet(k, set),
           UNCHANGED <<call, clock, own>>
    PROVE  StoreInv' /\ DOMAIN sessions' = DOMAIN sessions
           /\ \A q \in DOMAIN sessions : /\ sessions'[q].started = sessions[q].started
                                         /\ sessions'[q].display = sessions[q].display
<1> DEFINE id == sessions[k].id
<1>1. /\ Rewritten(turns, turns', set.turns, id)
      /\ Rewritten(spans, spans', set.spans, id)
      /\ Rewritten(links, links', set.links, id)
  BY WriteSpanSetEffect
<1>2. /\ DOMAIN sessions' = DOMAIN sessions /\ DOMAIN sessions'[k] = Fields
      /\ \A q \in DOMAIN sessions \ {k} : sessions'[q] = sessions[q]
      /\ sessions'[k].id = id /\ sessions'[k].parent = sessions[k].parent
      /\ sessions'[k].started = sessions[k].started /\ sessions'[k].display = sessions[k].display
      /\ sessions'[k].subject = sessions[k].subject
      /\ IsFold(sessions[k])'
  BY WriteSpanSetEffect
<1>3. call' = call /\ own' = own /\ now' = now /\ nextId' = nextId
  BY DEF clock
<1>4. /\ {x[1] : x \in DOMAIN set.spans} \subseteq DOMAIN set.turns
      /\ \A l \in DOMAIN set.links : {l[1], l[2]} \subseteq DOMAIN set.spans
  BY DerivationsAssumption DEF DerivationsAssumption, StoreInv, RowsAreRows
<1>5. \A q \in DOMAIN sessions : sessions'[q].id = sessions[q].id /\ sessions'[q].parent = sessions[q].parent
  BY <1>2
<1>6. \A q \in DOMAIN sessions : /\ sessions'[q].started = sessions[q].started
                                 /\ sessions'[q].display = sessions[q].display
                                 /\ sessions'[q].subject = sessions[q].subject
  BY <1>2
<1>7. RowsAreRows'
  BY <1>2, <1>6 DEF StoreInv, RowsAreRows
<1>8. IdsAreMinted'
  <2>1. IdsAreMinted
    BY DEF StoreInv
  <2>2. Ids \subseteq Ids'
    BY <1>2, <1>5 DEF Ids
  <2>3. \A q \in DOMAIN sessions' : sessions'[q].id \in 1..(nextId' - 1)
    BY <1>2, <1>3, <1>5, <2>1 DEF IdsAreMinted
  <2>4. \A p, q \in DOMAIN sessions' : sessions'[p].id = sessions'[q].id => p = q
    BY <1>2, <1>5, <2>1 DEF IdsAreMinted
  <2>5. \A q \in DOMAIN sessions' : sessions'[q].parent \in Ids' \cup {0}
    BY <1>2, <1>5, <2>1, <2>2 DEF IdsAreMinted
  <2>6. nextId' \in Nat \ {0}
    BY <1>3, <2>1, Zenon DEF IdsAreMinted
  <2>7. QED
    BY <2>3, <2>4, <2>5, <2>6 DEF IdsAreMinted
<1>9. TracesAreTheirs'
  <2>1. ASSUME NEW t \in DOMAIN turns'
        PROVE  \E q \in DOMAIN sessions' : turns'[t].owner = sessions'[q].id /\ t \in Traces(q)
    <3>1. CASE t \in DOMAIN set.turns
      <4>1. turns'[t].owner = id /\ t \in Traces(k)
        BY <1>1, <3>1 DEF Rewritten, Traces
      <4>2. QED
        BY <1>2, <4>1
    <3>2. CASE t \notin DOMAIN set.turns
      <4>1. t \in DOMAIN turns /\ turns'[t] = turns[t]
        BY <1>1, <3>2 DEF Rewritten
      <4>2. PICK q \in DOMAIN sessions : turns[t].owner = sessions[q].id /\ t \in Traces(q)
        BY <4>1 DEF StoreInv, TracesAreTheirs
      <4>3. QED
        BY <1>2, <1>5, <4>1, <4>2
    <3>3. QED
      BY <3>1, <3>2
  <2>2. QED
    BY <2>1 DEF TracesAreTheirs, Traces
<1> HIDE DEF id
<1>10. SpansAreInside'
  <2>1. ASSUME NEW x \in DOMAIN spans'
        PROVE  x[1] \in DOMAIN turns' /\ turns'[x[1]].owner = spans'[x].owner
    <3>1. CASE x \in DOMAIN set.spans
      <4>1. x[1] \in DOMAIN set.turns
        BY <1>4, <3>1
      <4>2. QED
        BY <1>1, <3>1, <4>1 DEF Rewritten
    <3>2. CASE x \notin DOMAIN set.spans
      <4>1. x \in DOMAIN spans /\ spans[x].owner # id /\ spans'[x] = spans[x]
        BY <1>1, <3>2 DEF Rewritten
      <4>2. x[1] \in DOMAIN turns /\ turns[x[1]].owner = spans[x].owner
        BY <4>1 DEF StoreInv, SpansAreInside
      <4>3. QED
        BY <1>1, <4>1, <4>2 DEF Rewritten
    <3>3. QED
      BY <3>1, <3>2
  <2>2. QED
    BY <2>1 DEF SpansAreInside
<1>11. LinksAreInside'
  <2>1. ASSUME NEW l \in DOMAIN links'
        PROVE  {l[1], l[2]} \subseteq DOMAIN spans' /\ \A x \in {l[1], l[2]} : spans'[x].owner = links'[l].owner
    <3>1. CASE l \in DOMAIN set.links
      <4>1. {l[1], l[2]} \subseteq DOMAIN set.spans
        BY <1>4, <3>1
      <4>2. QED
        BY <1>1, <3>1, <4>1 DEF Rewritten
    <3>2. CASE l \notin DOMAIN set.links
      <4>1. l \in DOMAIN links /\ links[l].owner # id /\ links'[l] = links[l]
        BY <1>1, <3>2 DEF Rewritten
      <4>2. {l[1], l[2]} \subseteq DOMAIN spans /\ \A x \in {l[1], l[2]} : spans[x].owner = links[l].owner
        BY <4>1 DEF StoreInv, LinksAreInside
      <4>3. QED
        BY <1>1, <4>1, <4>2 DEF Rewritten
    <3>3. QED
      BY <3>1, <3>2
  <2>2. QED
    BY <2>1 DEF LinksAreInside
<1>12. RowsAreFolds'
  <2>1. ASSUME NEW q \in DOMAIN sessions', q # k PROVE IsFold(sessions[q])'
    <3>1. q \in DOMAIN sessions /\ sessions'[q] = sessions[q] /\ sessions[q].id # id
      BY <1>2, <2>1 DEF StoreInv, IdsAreMinted, id
    <3>2. /\ sessions[q].turnCount = Cardinality(Owned(turns, sessions[q].id))
          /\ sessions[q].cost = TotalCost(OwnData(turns, sessions[q].id))
          /\ sessions[q].model = DominantModel(OwnData(spans, sessions[q].id))
      BY <3>1 DEF StoreInv, RowsAreFolds, IsFold
    <3>3. /\ Owned(turns', sessions[q].id) = Owned(turns, sessions[q].id)
          /\ OwnData(turns', sessions[q].id) = OwnData(turns, sessions[q].id)
          /\ OwnData(spans', sessions[q].id) = OwnData(spans, sessions[q].id)
      BY <1>1, <3>1, OthersKeepTheirs
    <3>4. QED
      BY <3>1, <3>2, <3>3 DEF IsFold
  <2>2. QED
    BY <1>2, <2>1 DEF RowsAreFolds
<1>13. CallsAreCalls'
  BY <1>3 DEF StoreInv, CallsAreCalls
<1>14. CallersAreKnown'
  BY <1>2, <1>3, <1>6 DEF StoreInv, CallersAreKnown
<1>15. QED
  BY <1>2, <1>6, <1>7, <1>8, <1>9, <1>10, <1>11, <1>12, <1>13, <1>14 DEF StoreInv
-----------------------------------------------------------------------------
(* The invariant is inductive.                                              *)

\* What a step keeps of the rows that live on: RowKept, of one step.
RowsLiveOn ==
    \A k \in DOMAIN sessions \cap DOMAIN sessions' :
        sessions'[k].id = sessions[k].id =>
            /\ sessions'[k].started <= sessions[k].started
            /\ sessions'[k].display # sessions[k].display =>
                 sessions' = [sessions EXCEPT ![k].display = sessions'[k].display]

LEMMA UpsertHolds ==
    ASSUME StoreInv, RowsStay, NewRowsAreBlank, ParentsLive', RowsKeepShape,
           StartsAreRight, CallsAreCalls', CallersAreKnown'
    PROVE  StoreInv' /\ RowsLiveOn
<1>1. RowsAreRows'
  BY DEF RowsAreRows, RowsKeepShape, StartsAreRight
<1>2. IdsAreMinted' /\ TracesAreTheirs' /\ SpansAreInside' /\ LinksAreInside' /\ RowsAreFolds'
  BY GrowthKeeps DEF StoreInv
<1>3. RowsLiveOn
  BY DEF RowsLiveOn, RowsKeepShape, StartsAreRight
<1>4. QED
  BY <1>1, <1>2, <1>3 DEF StoreInv

LEMMA NoRowIsWritten ==
    ASSUME StoreInv, UNCHANGED <<sessions, turns, spans, links, own>>, nextId' = nextId, CallsAreCalls'
    PROVE  StoreInv' /\ RowsLiveOn
<1>1. RowsAreRows' /\ CallersAreKnown'
  BY DEF StoreInv, RowsAreRows, CallersAreKnown
<1>2. IdsAreMinted'
  BY Zenon DEF StoreInv, IdsAreMinted, Ids
<1>3. TracesAreTheirs' /\ SpansAreInside' /\ LinksAreInside'
  BY DEF StoreInv, TracesAreTheirs, Traces, SpansAreInside, LinksAreInside
<1>4. RowsAreFolds'
  BY DEF StoreInv, RowsAreFolds, IsFold
<1>5. RowsLiveOn
  BY DEF StoreInv, RowsAreRows, RowsLiveOn
<1>6. QED
  BY <1>1, <1>2, <1>3, <1>4, <1>5 DEF StoreInv

LEMMA InitStoreInv == Init => StoreInv
<1> SUFFICES ASSUME Init PROVE StoreInv
  OBVIOUS
<1>1. /\ DOMAIN sessions = {} /\ DOMAIN turns = {} /\ DOMAIN spans = {} /\ DOMAIN links = {}
      /\ call = [w \in Writer |-> Idle] /\ now = 0 /\ nextId = 1 /\ own = [k \in Key |-> {}]
  BY DEF Init
<1>2. RowsAreRows
  BY <1>1, FS_EmptySet DEF RowsAreRows
<1>3. IdsAreMinted
  BY <1>1 DEF IdsAreMinted
<1>4. TracesAreTheirs /\ SpansAreInside /\ LinksAreInside /\ RowsAreFolds
  BY <1>1 DEF TracesAreTheirs, SpansAreInside, LinksAreInside, RowsAreFolds
<1>5. CallsAreCalls /\ CallersAreKnown
  BY <1>1 DEF CallsAreCalls, CallersAreKnown
<1>6. QED
  BY <1>2, <1>3, <1>4, <1>5 DEF StoreInv

LEMMA StoreStep ==
    ASSUME StoreInv, StoreNext
    PROVE  StoreInv' /\ RowsLiveOn
<1>1. ASSUME NEW w \in Writer, NEW c \in Calls, ResolveParent(w, c)
      PROVE  StoreInv' /\ RowsLiveOn
  <2>1. PICK e \in Envelope, f \in 0..now :
          c = [kind |-> e.kind, key |-> e.key, subject |-> e.subject, name |-> e.name, title |-> e.title,
               parent |-> e.parent, at |-> now, from |-> IF e.kind = "wire" THEN now ELSE f, found |-> 0]
    BY DEF Calls
  <2>2. e.key \in Key /\ e.parent \in Key \cup {NoKey}
    BY EnvelopeAssumption DEF EnvelopeAssumption
  <2>3. now \in Nat /\ f \in Nat
    BY DEF StoreInv, CallsAreCalls
  <2>4. PICK found : call' = [call EXCEPT ![w] = [c EXCEPT !.found = found]]
    BY <1>1 DEF ResolveParent
  <2> DEFINE taken == [c EXCEPT !.found = found]
  <2>5. /\ taken.key \in Key /\ taken.parent \in Key \cup {NoKey}
        /\ taken.at \in Nat /\ taken.from \in Nat
    BY <2>1, <2>2, <2>3
  <2> HIDE DEF taken
  <2>6. DOMAIN call' = Writer /\ call'[w] = taken /\ \A v \in Writer \ {w} : call'[v] = call[v]
    BY <2>4 DEF taken, StoreInv, CallsAreCalls
  <2>7. UNCHANGED <<sessions, turns, spans, links, own>> /\ now' = now /\ nextId' = nextId
    BY <1>1 DEF ResolveParent, tables
  <2>8. CallsAreCalls'
    BY <2>5, <2>6, <2>7 DEF StoreInv, CallsAreCalls
  <2>9. QED
    BY <2>7, <2>8, NoRowIsWritten
<1>2. ASSUME NEW w \in Writer, IngestTurn(w)
      PROVE  StoreInv' /\ RowsLiveOn
  BY <1>2, IngestTurnGrows, UpsertHolds
<1>3. ASSUME NEW w \in Writer, UpsertTranscriptSession(w)
      PROVE  StoreInv' /\ RowsLiveOn
  BY <1>3, UpsertTranscriptSessionGrows, UpsertHolds
<1>4. ASSUME NEW w \in Writer, Aborts(w)
      PROVE  StoreInv' /\ RowsLiveOn
  <2>1. /\ UNCHANGED <<sessions, turns, spans, links, own>> /\ now' = now /\ nextId' = nextId
        /\ call' = [call EXCEPT ![w] = Idle]
    BY <1>4 DEF Aborts, tables, clock
  <2>2. CallsAreCalls'
    BY <2>1, CallReturns DEF StoreInv
  <2>3. QED
    BY <2>1, <2>2, NoRowIsWritten
<1>5. ASSUME NEW k \in Key, WriteDerivedSet(k)
      PROVE  StoreInv' /\ RowsLiveOn
  <2>1. k \in DOMAIN sessions /\ UNCHANGED <<call, clock, own>>
    BY <1>5 DEF WriteDerivedSet, Exists
  <2>2. PICK set \in Derivations[k] : WriteSpanSet(k, set)
    BY <1>5 DEF WriteDerivedSet
  <2>3. /\ StoreInv' /\ DOMAIN sessions' = DOMAIN sessions
        /\ \A q \in DOMAIN sessions : /\ sessions'[q].started = sessions[q].started
                                      /\ sessions'[q].display = sessions[q].display
    BY <2>1, <2>2, WriteDerivedSetKeeps
  <2>4. RowsLiveOn
    BY <2>3 DEF RowsLiveOn, StoreInv, RowsAreRows
  <2>5. QED
    BY <2>3, <2>4
<1>6. ASSUME NEW k \in Key, HandleUpdateSession(k)
      PROVE  StoreInv' /\ RowsLiveOn
  <2>1. PICK name \in Name : k \in DOMAIN sessions /\ UpdateSessionDisplayName(k, name)
    BY <1>6 DEF HandleUpdateSession, Exists
  <2>2. /\ RowsStay /\ NewRowsAreBlank /\ ParentsLive'
        /\ RowsAreRows' /\ StartsAreRight /\ CallsAreCalls' /\ CallersAreKnown'
        /\ \A q \in DOMAIN sessions : sessions'[q].display # sessions[q].display =>
             sessions' = [sessions EXCEPT ![q].display = sessions'[q].display]
    BY <2>1, RenameGrows
  <2>3. IdsAreMinted' /\ TracesAreTheirs' /\ SpansAreInside' /\ LinksAreInside' /\ RowsAreFolds'
    BY <2>2, GrowthKeeps DEF StoreInv
  <2>4. RowsLiveOn
    BY <2>2 DEF RowsLiveOn, StartsAreRight
  <2>5. QED
    BY <2>2, <2>3, <2>4 DEF StoreInv
<1>7. ASSUME NEW k \in Key, HandleDeleteSession(k)
      PROVE  StoreInv' /\ RowsLiveOn
  <2>1. k \in DOMAIN sessions /\ DeleteSession(k)
    BY <1>7 DEF HandleDeleteSession, Exists
  <2>2. StoreInv' /\ \A q \in DOMAIN sessions' : q \in DOMAIN sessions /\ sessions'[q] = sessions[q]
    BY <2>1, DeleteKeeps
  <2>3. RowsLiveOn
    BY <2>2 DEF RowsLiveOn, StoreInv, RowsAreRows
  <2>4. QED
    BY <2>2, <2>3
<1>8. CASE Tick
  <2>1. /\ UNCHANGED <<sessions, turns, spans, links, own>> /\ now' = now + 1 /\ nextId' = nextId
        /\ call' = call
    BY <1>8 DEF Tick, tables
  <2>2. CallsAreCalls'
    BY <2>1 DEF StoreInv, CallsAreCalls
  <2>3. QED
    BY <2>1, <2>2, NoRowIsWritten
<1>9. QED
  BY <1>1, <1>2, <1>3, <1>4, <1>5, <1>6, <1>7, <1>8 DEF StoreNext

LEMMA SessionStep ==
    ASSUME StoreInv, [Next]_vars
    PROVE  StoreInv' /\ RowsLiveOn
<1>1. CASE StoreNext
  BY <1>1, StoreStep
<1>2. CASE UNCHANGED <<sessions, tables, call, clock, own>>
  <2>1. UNCHANGED <<sessions, turns, spans, links, own>> /\ now' = now /\ nextId' = nextId /\ call' = call
    BY <1>2 DEF tables, clock
  <2>2. CallsAreCalls'
    BY <2>1 DEF StoreInv, CallsAreCalls
  <2>3. QED
    BY <2>1, <2>2, NoRowIsWritten
<1>3. QED
  BY <1>1, <1>2 DEF Next, OpenWalk, HandleListSessions, vars

\* StoreInv holds in every state, whoever writes, renames and deletes.
THEOREM StoreIsSound == Spec => []StoreInv
<1>1. StoreInv /\ [Next]_vars => StoreInv'
  BY SessionStep
<1>2. QED
  BY <1>1, InitStoreInv, PTL DEF Spec
-----------------------------------------------------------------------------
(* What the invariant gives.                                                *)

LEMMA EachRowHasItsSession ==
    ASSUME StoreInv
    PROVE  /\ \A t \in DOMAIN turns : turns[t].owner \in Ids
           /\ \A x \in DOMAIN spans : spans[x].owner \in Ids
           /\ \A l \in DOMAIN links : links[l].owner \in Ids
<1>1. \A t \in DOMAIN turns : turns[t].owner \in Ids
  BY DEF StoreInv, TracesAreTheirs, Ids
<1>2. \A x \in DOMAIN spans : spans[x].owner \in Ids
  BY <1>1 DEF StoreInv, SpansAreInside
<1>3. \A l \in DOMAIN links : links[l].owner \in Ids
  BY <1>2 DEF StoreInv, LinksAreInside
<1>4. QED
  BY <1>1, <1>2, <1>3

\* The rollups of every session are the fold of the rows it owns, and each of
\* its spans and links is inside a trace of its own, in every state
\* (FoldSessionRollupsFromSpans, writeSpanSet).
THEOREM RollupsStay == Spec => []RollupsAreTheFold
<1>1. StoreInv => RollupsAreTheFold
  <2> SUFFICES ASSUME StoreInv PROVE RollupsAreTheFold
    OBVIOUS
  <2>1. TypeOK
    <3>1. {turns[t].owner : t \in DOMAIN turns} \cup {spans[x].owner : x \in DOMAIN spans}
            \cup {links[x].owner : x \in DOMAIN links} \subseteq Ids
      BY EachRowHasItsSession
    <3>2. DOMAIN sessions \subseteq Key
      BY DEF StoreInv, RowsAreRows
    <3>3. /\ \A k, q \in DOMAIN sessions : sessions[k].id = sessions[q].id => k = q
          /\ \A k \in DOMAIN sessions : sessions[k].parent \in Ids \cup {0}
      BY Zenon DEF StoreInv, IdsAreMinted
    <3>4. QED
      BY <3>1, <3>2, <3>3 DEF TypeOK
  <2>2. ASSUME NEW r \in Rows
        PROVE  /\ r.turnCount = Cardinality(Owned(turns, r.id))
               /\ r.cost = TotalCost(OwnData(turns, r.id))
               /\ r.model = DominantModel(OwnData(spans, r.id))
    BY DEF Rows, StoreInv, RowsAreFolds, IsFold
  <2>3. ASSUME NEW r \in Rows
        PROVE  {x[1] : x \in Owned(spans, r.id)} \subseteq Owned(turns, r.id)
    BY DEF StoreInv, SpansAreInside, Owned
  <2>4. ASSUME NEW r \in Rows
        PROVE  \A l \in Owned(links, r.id) : {l[1], l[2]} \subseteq DOMAIN spans
    BY DEF StoreInv, LinksAreInside, Owned
  <2>5. QED
    BY <2>1, <2>2, <2>3, <2>4 DEF RollupsAreTheFold
<1>2. QED
  BY <1>1, StoreIsSound, PTL

\* A session that called keeps a subject of its own calls, its id, its start
\* and the user's title, whoever else writes to its row (UpsertSession,
\* InsertSessionPlaceholder, UpdateSessionDisplayName).
THEOREM IdentityStays == Spec => IdentityIsKept
<1>1. StoreInv => SubjectIsOwn
  BY DEF StoreInv, RowsAreRows, CallersAreKnown, SubjectIsOwn
<1>2. StoreInv /\ [Next]_vars => [RowsLiveOn]_vars
  BY SessionStep
<1>3. Spec => [][RowsLiveOn]_vars
  BY <1>2, StoreIsSound, PTL DEF Spec
<1>4. Spec => RowKept
  BY <1>3 DEF RowKept, RowsLiveOn
<1>5. QED
  BY <1>1, <1>4, StoreIsSound, PTL DEF IdentityIsKept

-----------------------------------------------------------------------------
(* The reads.                                                               *)

\* Sessions are as many as their ids.
LEMMA RowsAndIds ==
    ASSUME StoreInv, NEW some \in SUBSET Rows
    PROVE  Cardinality({r.id : r \in some}) = Cardinality(some)
<1> DEFINE ids == {r.id : r \in some}
           idOf == [r \in some |-> r.id]
<1>1. IsFiniteSet(Rows)
  <2> DEFINE row == [k \in DOMAIN sessions |-> sessions[k]]
  <2>1. IsFiniteSet(DOMAIN sessions)
    BY DEF StoreInv, RowsAreRows
  <2>2. row \in Surjection(DOMAIN sessions, Rows)
    BY DEF Surjection, Rows
  <2>3. QED
    BY <2>1, <2>2, FS_Surjection
<1>2. IsFiniteSet(some)
  BY <1>1, FS_Subset
<1>3. idOf \in Surjection(some, ids)
  BY DEF Surjection
<1>4. \A r, q \in some : r.id = q.id => r = q
  <2>1. \A k, q \in DOMAIN sessions : sessions[k].id = sessions[q].id => k = q
    BY Zenon DEF StoreInv, IdsAreMinted
  <2>2. QED
    BY <2>1 DEF Rows
<1>5. idOf \in Injection(some, ids)
  BY <1>3, <1>4 DEF Injection, Surjection, IsInjective
<1>6. QED
  BY <1>2, <1>3, <1>5, FS_Surjection

\* The list names as many sessions as the totals count.
LEMMA TotalsMatch ==
    ASSUME StoreInv, NEW since, NEW until, NEW u
    PROVE  AggregateSpanStats(since, until, u).sessions
             = Cardinality({r \in Rows : OfSubject(r, u) /\ InWindow(r.id, since, until)})
<1> DEFINE listed == {r \in Rows : OfSubject(r, u) /\ InWindow(r.id, since, until)}
           in == Matched(since, until, u)
<1>1. AggregateSpanStats(since, until, u).sessions = Cardinality({turns[t].owner : t \in in})
  BY DEF AggregateSpanStats
<1>2. {turns[t].owner : t \in in} = {r.id : r \in listed}
  <2>1. ASSUME NEW t \in in PROVE turns[t].owner \in {r.id : r \in listed}
    <3>1. /\ t \in DOMAIN turns /\ since <= turns[t].data.at /\ turns[t].data.at < until
          /\ u = NoSubject \/ \E r \in Rows : r.id = turns[t].owner /\ r.subject = u
      BY DEF Matched
    <3>2. \E r \in Rows : r.id = turns[t].owner
      BY <3>1, EachRowHasItsSession DEF Ids, Rows
    <3>3. PICK r \in Rows : r.id = turns[t].owner /\ OfSubject(r, u)
      BY <3>1, <3>2 DEF OfSubject
    <3>4. InWindow(r.id, since, until)
      BY <3>1, <3>3 DEF InWindow, Owned
    <3>5. QED
      BY <3>3, <3>4
  <2>2. ASSUME NEW r \in listed PROVE r.id \in {turns[t].owner : t \in in}
    <3>1. r \in Rows /\ OfSubject(r, u) /\ InWindow(r.id, since, until)
      OBVIOUS
    <3>2. PICK t \in DOMAIN turns :
            turns[t].owner = r.id /\ since <= turns[t].data.at /\ turns[t].data.at < until
      BY <3>1 DEF InWindow, Owned
    <3>3. u = NoSubject \/ (r.id = turns[t].owner /\ r.subject = u)
      BY <3>1, <3>2 DEF OfSubject
    <3>4. t \in in
      BY <3>1, <3>2, <3>3 DEF Matched
    <3>5. QED
      BY <3>2, <3>4
  <2>3. QED
    BY <2>1, <2>2
<1>3. Cardinality({r.id : r \in listed}) = Cardinality(listed)
  BY RowsAndIds
<1>4. QED
  BY <1>1, <1>2, <1>3

\* The summaries, the composite and the trace's own page show the same.
LEMMA ReadsMatch ==
    ASSUME StoreInv, NEW r \in Rows
    PROVE  LET all == BuildSessionTraces(ListSessionSpanModel(r.id)) IN
           /\ ListTraceSummariesBySession(r.id)
                = {[trace |-> t, spanCount |-> Cardinality(all.traces[t])] : t \in DOMAIN all.traces}
           /\ \A t \in DOMAIN all.traces :
                 /\ GetTraceDetail(t).spans = all.traces[t]
                 /\ GetTraceDetail(t).links = {l \in all.links : t \in {l[1][1], l[2][1]}}
<1> DEFINE all == BuildSessionTraces(ListSessionSpanModel(r.id))
           held == [t \in Owned(turns, r.id) |-> {x \in Owned(spans, r.id) : x[1] = t}]
<1>1. all.traces = held /\ all.links = Owned(links, r.id)
  BY DEF BuildSessionTraces, ListSessionSpanModel, ListSpanTurnsBySession, ListSpansBySession, ListSpanLinksBySession
<1>2. ASSUME NEW t \in Owned(turns, r.id)
      PROVE  {x \in DOMAIN spans : x[1] = t} = {x \in Owned(spans, r.id) : x[1] = t}
  BY DEF Owned, StoreInv, SpansAreInside
<1>3. ASSUME NEW t \in Owned(turns, r.id)
      PROVE  {l \in DOMAIN links : t \in {l[1][1], l[2][1]}} = {l \in Owned(links, r.id) : t \in {l[1][1], l[2][1]}}
  <2>1. t \in DOMAIN turns /\ turns[t].owner = r.id
    BY DEF Owned
  <2>2. ASSUME NEW l \in DOMAIN links, t \in {l[1][1], l[2][1]} PROVE links[l].owner = r.id
    <3>1. PICK x \in {l[1], l[2]} : x[1] = t
      BY <2>2
    <3>2. x \in DOMAIN spans /\ spans[x].owner = links[l].owner
      BY <3>1 DEF StoreInv, LinksAreInside
    <3>3. turns[x[1]].owner = spans[x].owner
      BY <3>2 DEF StoreInv, SpansAreInside
    <3>4. QED
      BY <2>1, <3>1, <3>2, <3>3
  <2>3. QED
    BY <2>2 DEF Owned
<1> HIDE DEF all
<1>4. DOMAIN all.traces = Owned(turns, r.id)
  BY <1>1
<1>5. \A t \in Owned(turns, r.id) : all.traces[t] = {x \in DOMAIN spans : x[1] = t}
  BY <1>1, <1>2
<1>6. ListTraceSummariesBySession(r.id)
        = {[trace |-> t, spanCount |-> Cardinality(all.traces[t])] : t \in DOMAIN all.traces}
  <2> DEFINE summary(t) == [trace |-> t, spanCount |-> Cardinality({x \in DOMAIN spans : x[1] = t})]
             shown(t)   == [trace |-> t, spanCount |-> Cardinality(all.traces[t])]
  <2>1. ListTraceSummariesBySession(r.id) = {summary(t) : t \in Owned(turns, r.id)}
    BY DEF ListTraceSummariesBySession
  <2>2. ASSUME NEW t \in Owned(turns, r.id) PROVE summary(t) = shown(t)
    BY <1>5
  <2> HIDE DEF summary
  <2>3. {summary(t) : t \in Owned(turns, r.id)} = {shown(t) : t \in Owned(turns, r.id)}
    <3> HIDE DEF shown
    <3>1. QED
      BY <2>2
  <2>4. QED
    BY <1>4, <2>1, <2>3
<1>7. ASSUME NEW t \in DOMAIN all.traces
      PROVE  /\ GetTraceDetail(t).spans = all.traces[t]
             /\ GetTraceDetail(t).links = {l \in all.links : t \in {l[1][1], l[2][1]}}
  <2>1. GetTraceDetail(t).spans = {x \in DOMAIN spans : x[1] = t}
    BY DEF GetTraceDetail, ListSpansByTrace
  <2>2. GetTraceDetail(t).links = {l \in DOMAIN links : t \in {l[1][1], l[2][1]}}
    BY DEF GetTraceDetail, ListSpanLinksByTrace
  <2>3. QED
    BY <1>1, <1>3, <1>4, <1>5, <2>1, <2>2
<1>8. QED
  BY <1>6, <1>7 DEF all

\* A client that asks in several ways is told one story, in every state: list
\* against totals, summaries against composite against page (session_reads.go,
\* spans.go, BuildSessionTraces).
THEOREM AnswersStay == Spec => []AnswersAgree
<1>1. StoreInv => AnswersAgree
  <2> SUFFICES ASSUME StoreInv PROVE AnswersAgree
    OBVIOUS
  <2>1. StatsMatchList
    BY TotalsMatch DEF StatsMatchList
  <2>2. ReadsAgree
    BY ReadsMatch DEF ReadsAgree
  <2>3. QED
    BY <2>1, <2>2 DEF AnswersAgree
<1>2. QED
  BY <1>1, StoreIsSound, PTL

-----------------------------------------------------------------------------
(* The paged list.                                                          *)

\* The order of the list is a strict order of the boundaries, whichever the
\* direction, and any two differ in it.
LEMMA BeforeIsAnOrder ==
    ASSUME NEW a \in Int \X Int, NEW b \in Int \X Int, NEW c \in Int \X Int, NEW desc \in BOOLEAN
    PROVE  /\ ~Before(a, a, desc)
           /\ Before(a, b, desc) /\ Before(b, c, desc) => Before(a, c, desc)
           /\ a # b => Before(a, b, desc) \/ Before(b, a, desc)
<1>1. a = <<a[1], a[2]>> /\ a[1] \in Int /\ a[2] \in Int
  OBVIOUS
<1>2. b = <<b[1], b[2]>> /\ b[1] \in Int /\ b[2] \in Int
  OBVIOUS
<1>3. c[1] \in Int /\ c[2] \in Int
  OBVIOUS
<1>4. a # b => a[1] # b[1] \/ a[2] # b[2]
  BY <1>1, <1>2
<1>5. CASE desc
  BY <1>1, <1>2, <1>3, <1>4, <1>5 DEF Before
<1>6. CASE ~desc
  BY <1>1, <1>2, <1>3, <1>4, <1>6 DEF Before
<1>7. QED
  BY <1>5, <1>6

\* Sets of rows that can be put in order.
Ordered(rows, sort) ==
    /\ IsFiniteSet(rows)
    /\ \A r \in rows : Boundary(r, sort) \in Int \X Int
    /\ \A r, q \in rows : Boundary(r, sort) = Boundary(q, sort) => r = q

\* Places follow the order, and each place up to the size of the set is taken.
LEMMA PlacesAreTaken ==
    ASSUME NEW rows, NEW sort, NEW desc \in BOOLEAN, Ordered(rows, sort)
    PROVE  /\ Cardinality(rows) \in Nat
           /\ \A r \in rows : Place(r, rows, sort, desc) \in 1..Cardinality(rows)
           /\ \A r, q \in rows : Before(Boundary(r, sort), Boundary(q, sort), desc)
                                   => Place(r, rows, sort, desc) < Place(q, rows, sort, desc)
           /\ \A r, q \in rows : Place(r, rows, sort, desc) = Place(q, rows, sort, desc) => r = q
           /\ \A i \in 1..Cardinality(rows) : \E r \in rows : Place(r, rows, sort, desc) = i
<1> DEFINE n == Cardinality(rows)
           below(r) == {q \in rows : Before(Boundary(q, sort), Boundary(r, sort), desc)}
           place == [r \in rows |-> Place(r, rows, sort, desc)]
<1>1. IsFiniteSet(rows) /\ n \in Nat
  BY FS_CardinalityType DEF Ordered
<1>2. ASSUME NEW r \in rows
      PROVE  /\ IsFiniteSet(below(r)) /\ Cardinality(below(r)) \in Nat /\ r \notin below(r)
             /\ Cardinality(below(r)) < n
  <2>1. r \notin below(r)
    BY BeforeIsAnOrder DEF Ordered
  <2>2. below(r) \in SUBSET rows
    OBVIOUS
  <2>3. IsFiniteSet(below(r)) /\ Cardinality(below(r)) <= n /\ (n = Cardinality(below(r)) => rows = below(r))
    <3> HIDE DEF below
    <3>1. QED
      BY <1>1, <2>2, FS_Subset
  <2>4. Cardinality(below(r)) \in Nat
    BY <2>3, FS_CardinalityType
  <2>5. QED
    <3> HIDE DEF below
    <3>1. QED
      BY <1>1, <2>1, <2>3, <2>4
<1>3. \A r : Place(r, rows, sort, desc) = 1 + Cardinality(below(r))
  BY DEF Place
<1>4. ASSUME NEW r \in rows, NEW q \in rows, Before(Boundary(r, sort), Boundary(q, sort), desc)
      PROVE  Cardinality(below(r)) < Cardinality(below(q))
  <2>1. below(r) \in SUBSET below(q)
    <3>1. ASSUME NEW x \in below(r) PROVE x \in below(q)
      BY <1>4, <3>1, BeforeIsAnOrder DEF Ordered
    <3>2. QED
      BY <3>1
  <2>2. r \in below(q) /\ r \notin below(r)
    BY <1>2, <1>4
  <2> HIDE DEF below
  <2>3. Cardinality(below(r)) <= Cardinality(below(q))
        /\ (Cardinality(below(q)) = Cardinality(below(r)) => below(q) = below(r))
    BY <1>2, <2>1, FS_Subset
  <2>4. QED
    BY <1>2, <2>2, <2>3
<1> HIDE DEF below
<1>5. \A r \in rows : Place(r, rows, sort, desc) \in 1..n
  <2> SUFFICES ASSUME NEW r \in rows PROVE 1 + Cardinality(below(r)) \in 1..n
    BY <1>3
  <2>1. QED
    BY <1>1, <1>2
<1>6. \A r, q \in rows : Before(Boundary(r, sort), Boundary(q, sort), desc)
                           => Place(r, rows, sort, desc) < Place(q, rows, sort, desc)
  BY <1>2, <1>3, <1>4
<1>7. ASSUME NEW r \in rows, NEW q \in rows, Place(r, rows, sort, desc) = Place(q, rows, sort, desc)
      PROVE  r = q
  <2>1. ~Before(Boundary(r, sort), Boundary(q, sort), desc) /\ ~Before(Boundary(q, sort), Boundary(r, sort), desc)
    BY <1>1, <1>5, <1>6, <1>7
  <2>2. Boundary(r, sort) = Boundary(q, sort)
    BY <2>1, BeforeIsAnOrder DEF Ordered
  <2>3. QED
    BY <2>2 DEF Ordered
<1>8. place \in Injection(rows, 1..n)
  <2>1. place \in [rows -> 1..n]
    BY <1>5
  <2>2. \A r, q \in rows : place[r] = place[q] => r = q
    BY <1>7
  <2> HIDE DEF place
  <2>3. QED
    BY <2>1, <2>2 DEF Injection, IsInjective
<1>9. IsFiniteSet(1..n) /\ Cardinality(1..n) = n
  BY <1>1, FS_Interval
<1>10. place \in Surjection(rows, 1..n)
  <2> HIDE DEF place
  <2>1. QED
    BY <1>8, <1>9, FS_Injection
<1>11. \A i \in 1..n : \E r \in rows : place[r] = i
  <2> HIDE DEF place
  <2>1. QED
    BY <1>10 DEF Surjection
<1>12. QED
  BY <1>1, <1>5, <1>6, <1>7, <1>11

\* The rows a cursor leaves of those of a subject.
Left(sort, desc, subject, cursor) ==
    {r \in Rows : OfSubject(r, subject) /\ PastCursor(r, sort, desc, cursor)}

\* A page is the first of the rows the cursor leaves, each once, in order; a row
\* that is not on it comes after all that are.
LEMMA PageIsInOrder ==
    ASSUME NEW sort, NEW desc \in BOOLEAN, NEW subject, NEW cursor,
           Ordered(Left(sort, desc, subject, cursor), sort)
    PROVE  LET left == Left(sort, desc, subject, cursor)
               page == ListSessionRecords(sort, desc, subject, cursor)
           IN
           /\ page \in Seq(left) /\ Len(page) <= Limit + 1
           /\ \A i, j \in 1..Len(page) : i < j => Before(Boundary(page[i], sort), Boundary(page[j], sort), desc)
           /\ \A r \in left : \/ \E i \in 1..Len(page) : page[i] = r
                              \/ /\ Len(page) = Limit + 1
                                 /\ \A i \in 1..Len(page) : Before(Boundary(page[i], sort), Boundary(r, sort), desc)
<1> DEFINE left == Left(sort, desc, subject, cursor)
           page == ListSessionRecords(sort, desc, subject, cursor)
           n == Cardinality(left)
           place(r) == Place(r, left, sort, desc)
           before(r, q) == Before(Boundary(r, sort), Boundary(q, sort), desc)
           len == Least(n, Limit + 1)
<1>1. /\ n \in Nat
      /\ \A r \in left : place(r) \in 1..n
      /\ \A r, q \in left : before(r, q) => place(r) < place(q)
      /\ \A r, q \in left : place(r) = place(q) => r = q
      /\ \A i \in 1..n : \E r \in left : place(r) = i
  <2> HIDE DEF left
  <2>1. QED
    BY PlacesAreTaken DEF left
<1>2. ASSUME NEW r \in left, NEW q \in left, place(r) < place(q) PROVE before(r, q)
  <2>1. r # q /\ ~before(q, r)
    <3> HIDE DEF place, before, n
    <3>1. place(r) \in Int /\ place(q) \in Int
      BY <1>1
    <3>2. QED
      BY <1>1, <1>2, <3>1
  <2>2. Boundary(r, sort) # Boundary(q, sort)
    BY <2>1 DEF Ordered
  <2>3. QED
    BY <2>1, <2>2, BeforeIsAnOrder DEF Ordered
<1>3. len \in Nat /\ len <= n /\ len <= Limit + 1 /\ (len = n \/ len = Limit + 1)
  BY <1>1, BoundAssumption DEF Least
<1>4. page = [i \in 1..len |-> CHOOSE r \in left : place(r) = i]
  BY DEF ListSessionRecords, Left
<1> HIDE DEF left, page, place, before, len, n
<1>5. \A i \in 1..len : page[i] \in left /\ place(page[i]) = i
  <2> SUFFICES ASSUME NEW i \in 1..len PROVE page[i] \in left /\ place(page[i]) = i
    OBVIOUS
  <2>1. \E r \in left : place(r) = i
    BY <1>1, <1>3
  <2>2. page[i] = CHOOSE r \in left : place(r) = i
    BY <1>4
  <2>3. QED
    BY <2>1, <2>2
<1>6. page \in Seq(left) /\ Len(page) = len
  BY <1>3, <1>4, <1>5
<1>7. ASSUME NEW i \in 1..len, NEW j \in 1..len, i < j PROVE before(page[i], page[j])
  BY <1>2, <1>5, <1>7
<1>8. ASSUME NEW r \in left, \A i \in 1..len : page[i] # r
      PROVE  len = Limit + 1 /\ \A i \in 1..len : before(page[i], r)
  <2>1. place(r) \in 1..n
    BY <1>1
  <2>2. ASSUME place(r) \in 1..len PROVE FALSE
    <3>1. page[place(r)] \in left /\ place(page[place(r)]) = place(r)
      BY <1>5, <2>2
    <3>2. QED
      BY <1>1, <1>8, <2>2, <3>1
  <2>3. len < place(r) /\ len # n
    BY <1>1, <1>3, <2>1, <2>2
  <2>4. \A i \in 1..len : page[i] \in left /\ place(page[i]) < place(r)
    BY <1>1, <1>3, <1>5, <2>1, <2>3
  <2>5. QED
    BY <1>2, <1>3, <2>3, <2>4
<1>9. QED
  BY <1>3, <1>6, <1>7, <1>8 DEF before, left, page

\* How often an item is in a listing.
Never(item, list) == \A i \in DOMAIN list : list[i] # item
Once(item, list) == \E i \in DOMAIN list : list[i] = item /\ \A j \in DOMAIN list : list[j] = item => j = i

LEMMA ListedMore ==
    ASSUME NEW V, NEW list \in Seq(V), NEW more \in Seq(V), NEW item
    PROVE  /\ list \o more \in Seq(V)
           /\ Never(item, list) /\ Never(item, more) => Never(item, list \o more)
           /\ Once(item, list) /\ Never(item, more) => Once(item, list \o more)
           /\ Never(item, list) /\ Once(item, more) => Once(item, list \o more)
<1> DEFINE all == list \o more
<1>1. /\ Len(list) \in Nat /\ Len(more) \in Nat /\ DOMAIN list = 1..Len(list) /\ DOMAIN more = 1..Len(more)
      /\ all \in Seq(V) /\ DOMAIN all = 1..(Len(list) + Len(more))
  OBVIOUS
<1>2. \A i \in 1..Len(list) : i \in DOMAIN all /\ all[i] = list[i]
  OBVIOUS
<1>3. \A i \in 1..Len(more) : i + Len(list) \in DOMAIN all /\ all[i + Len(list)] = more[i]
  OBVIOUS
<1> HIDE DEF all
<1>4. \A i \in DOMAIN all : i \in 1..Len(list) \/ (i - Len(list) \in 1..Len(more) /\ all[i] = more[i - Len(list)])
  <2> SUFFICES ASSUME NEW i \in DOMAIN all, i \notin 1..Len(list)
               PROVE  i - Len(list) \in 1..Len(more) /\ all[i] = more[i - Len(list)]
    OBVIOUS
  <2>1. i - Len(list) \in 1..Len(more)
    BY <1>1
  <2>2. (i - Len(list)) + Len(list) = i
    BY <1>1
  <2>3. QED
    BY <1>3, <2>1, <2>2
<1>5. Never(item, list) /\ Never(item, more) => Never(item, all)
  BY <1>1, <1>2, <1>4 DEF Never
<1>6. ASSUME Once(item, list), Never(item, more) PROVE Once(item, all)
  <2>1. PICK i \in 1..Len(list) : list[i] = item /\ \A j \in 1..Len(list) : list[j] = item => j = i
    BY <1>1, <1>6 DEF Once
  <2>2. i \in DOMAIN all /\ all[i] = item
    BY <1>2, <2>1
  <2>3. \A j \in DOMAIN all : all[j] = item => j = i
    BY <1>1, <1>2, <1>4, <1>6, <2>1 DEF Never
  <2>4. QED
    BY <2>2, <2>3 DEF Once
<1>7. ASSUME Never(item, list), Once(item, more) PROVE Once(item, all)
  <2>1. PICK i \in 1..Len(more) : more[i] = item /\ \A j \in 1..Len(more) : more[j] = item => j = i
    BY <1>1, <1>7 DEF Once
  <2>2. i + Len(list) \in DOMAIN all /\ all[i + Len(list)] = item
    BY <1>3, <2>1
  <2>3. ASSUME NEW j \in DOMAIN all, all[j] = item PROVE j = i + Len(list)
    <3>1. j \notin 1..Len(list)
      BY <1>1, <1>2, <1>7, <2>3 DEF Never
    <3>2. j - Len(list) \in 1..Len(more) /\ more[j - Len(list)] = item
      BY <1>4, <2>3, <3>1
    <3>3. j - Len(list) = i
      BY <2>1, <3>2
    <3>4. j \in Nat /\ Len(list) \in Nat
      BY <1>1, <2>3
    <3> QED
      BY <3>3, <3>4
  <2>4. QED
    BY <2>2, <2>3 DEF Once
<1>8. QED
  BY <1>1, <1>5, <1>6, <1>7 DEF all

-----------------------------------------------------------------------------
(* The client that follows the cursors.                                     *)

\* A row was last seen at a time of the clock (RowsAreRows says so of its start).
RowsAreTimed == \A k \in DOMAIN sessions : sessions[k].seen \in Nat

\* An item the next page may still hold.
Ahead(item) == walk.cursor = <<>> \/ Before(walk.cursor, <<item[2], item[1]>>, walk.desc)

WalkIsAWalk ==
    /\ DOMAIN walk = {"open", "sort", "desc", "subject", "cursor", "listed", "stable"}
    /\ walk.open \in BOOLEAN /\ walk.desc \in BOOLEAN
    /\ walk.listed \in Seq(Int \X Int)
    /\ walk.cursor = <<>> \/ (walk.open /\ walk.cursor \in Int \X Int)

\* What the client has a right to: rows of the subject asked for that still
\* have the value they had when it began.
StableAreRows ==
    \A item \in walk.stable : \E r \in Rows : OfSubject(r, walk.subject) /\ item = Listed(r)

\* While the walk goes on an item is listed once the cursor is past it, and not
\* before; when it is over, every item is.
WalkKeepsUp ==
    /\ walk.open => \A item \in walk.stable :
         IF Ahead(item) THEN Never(item, walk.listed) ELSE Once(item, walk.listed)
    /\ ~walk.open => walk.listed = <<>> \/ \A item \in walk.stable : Once(item, walk.listed)

WalkInv == StoreInv /\ RowsAreTimed /\ WalkIsAWalk /\ StableAreRows /\ WalkKeepsUp

LEMMA WalkListsOnce == WalkInv => ListedOnce
<1> SUFFICES ASSUME WalkInv, NEW item \in walk.stable
             PROVE  LET times == Cardinality({i \in DOMAIN walk.listed : walk.listed[i] = item})
                    IN  times <= 1 /\ (~walk.open /\ walk.listed # <<>> => times = 1)
  BY DEF ListedOnce
<1> DEFINE at == {i \in DOMAIN walk.listed : walk.listed[i] = item}
<1>1. ASSUME Never(item, walk.listed) PROVE Cardinality(at) = 0
  <2>1. at = {}
    BY <1>1 DEF Never
  <2>2. QED
    BY <2>1, FS_EmptySet
<1>2. ASSUME Once(item, walk.listed) PROVE Cardinality(at) = 1
  <2>1. PICK i \in DOMAIN walk.listed :
          walk.listed[i] = item /\ \A j \in DOMAIN walk.listed : walk.listed[j] = item => j = i
    BY <1>2 DEF Once
  <2>2. at = {i}
    BY <2>1
  <2>3. QED
    BY <2>2, FS_Singleton
<1>3. walk.listed = <<>> => Never(item, walk.listed)
  BY DEF Never
<1>4. Never(item, walk.listed) \/ Once(item, walk.listed)
  BY <1>3 DEF WalkInv, WalkKeepsUp, WalkIsAWalk
<1>5. ~walk.open /\ walk.listed # <<>> => Once(item, walk.listed)
  BY DEF WalkInv, WalkKeepsUp, WalkIsAWalk
<1> HIDE DEF at
<1>6. Cardinality(at) <= 1 /\ (~walk.open /\ walk.listed # <<>> => Cardinality(at) = 1)
  BY <1>1, <1>2, <1>4, <1>5
<1>7. QED
  BY <1>6 DEF at

\* The rows of a query can be put in order.
LEMMA RowsCanBeOrdered ==
    ASSUME StoreInv, RowsAreTimed, NEW sort, NEW some \in SUBSET Rows
    PROVE  /\ Ordered(some, sort)
           /\ \A r \in some : r.id \in Int /\ Value(r, sort) \in Int
<1>1. IsFiniteSet(some)
  <2> DEFINE row == [k \in DOMAIN sessions |-> sessions[k]]
  <2>1. IsFiniteSet(DOMAIN sessions)
    BY DEF StoreInv, RowsAreRows
  <2>2. row \in Surjection(DOMAIN sessions, Rows)
    BY DEF Surjection, Rows
  <2>3. IsFiniteSet(Rows)
    BY <2>1, <2>2, FS_Surjection
  <2>4. QED
    BY <2>3, FS_Subset
<1>2. ASSUME NEW r \in some PROVE r.id \in Int /\ Value(r, sort) \in Int
  <2>1. PICK k \in DOMAIN sessions : r = sessions[k]
    BY DEF Rows
  <2>2. r.started \in Nat /\ r.seen \in Nat
    BY <2>1 DEF StoreInv, RowsAreRows, RowsAreTimed
  <2>3. sessions[k].id \in 1..(nextId - 1) /\ nextId \in Nat
    BY Zenon DEF StoreInv, IdsAreMinted
  <2>4. r.id \in Int
    BY <2>1, <2>3
  <2>5. QED
    BY <2>2, <2>4 DEF Value
<1>3. \A r, q \in some : r.id = q.id => r = q
  <2>1. \A k, q \in DOMAIN sessions : sessions[k].id = sessions[q].id => k = q
    BY Zenon DEF StoreInv, IdsAreMinted
  <2>2. QED
    BY <2>1 DEF Rows
<1>4. QED
  BY <1>1, <1>2, <1>3 DEF Ordered, Boundary

\* One request keeps the client up: what it lists was ahead, what stays ahead
\* comes after what it lists.
LEMMA RequestKeepsUp ==
    ASSUME WalkInv, HandleListSessions
    PROVE  WalkIsAWalk' /\ WalkKeepsUp'
<1> DEFINE left == Left(walk.sort, walk.desc, walk.subject, walk.cursor)
           page == ListSessionRecords(walk.sort, walk.desc, walk.subject, walk.cursor)
           more == Len(page) > Limit
           served == IF more THEN SubSeq(page, 1, Limit) ELSE page
           added == [i \in 1..Len(served) |-> Listed(served[i])]
           bound(r) == Boundary(r, walk.sort)
<1>1. /\ walk.open
      /\ walk' = [walk EXCEPT !.open = more, !.cursor = IF more THEN bound(served[Limit]) ELSE <<>>,
                              !.listed = walk.listed \o added]
  BY DEF HandleListSessions
<1>2. Ordered(left, walk.sort) /\ \A r \in left : r.id \in Int /\ Value(r, walk.sort) \in Int
  <2>1. left \in SUBSET Rows
    BY DEF Left
  <2> HIDE DEF left
  <2>2. QED
    BY <2>1, RowsCanBeOrdered DEF WalkInv
<1>3. Limit \in Nat /\ Limit > 0
  BY BoundAssumption
<1>4. /\ page \in Seq(left) /\ Len(page) <= Limit + 1
      /\ \A i, j \in 1..Len(page) : i < j => Before(bound(page[i]), bound(page[j]), walk.desc)
      /\ \A r \in left : \/ \E i \in 1..Len(page) : page[i] = r
                         \/ /\ Len(page) = Limit + 1
                            /\ \A i \in 1..Len(page) : Before(bound(page[i]), bound(r), walk.desc)
  <2>1. walk.desc \in BOOLEAN
    BY DEF WalkInv, WalkIsAWalk
  <2>2. QED
    BY <1>2, <2>1, PageIsInOrder
<1>5. \A r : bound(r) = <<Value(r, walk.sort), r.id>> /\ Listed(r) = <<r.id, Value(r, walk.sort)>>
  BY DEF Boundary, Listed
<1> HIDE DEF left, page
<1>6. /\ Len(page) \in Nat /\ DOMAIN page = 1..Len(page) /\ \A i \in 1..Len(page) : page[i] \in left
      /\ Len(page) <= Limit + 1
  BY <1>4
<1>7. /\ served \in Seq(left) /\ Len(served) \in Nat /\ Len(served) <= Len(page)
      /\ \A i \in 1..Len(served) : served[i] = page[i]
      /\ more => Len(served) = Limit /\ Len(page) = Limit + 1
      /\ ~more => Len(served) = Len(page)
  <2>1. CASE more
    <3>1. Len(page) = Limit + 1
      <4>1. Len(page) > Limit
        BY <2>1
      <4>2. Len(page) \in Nat /\ Len(page) <= Limit + 1
        BY <1>6
      <4> DEFINE len == Len(page)
      <4> HIDE DEF len
      <4>3. len > Limit /\ len \in Nat /\ len <= Limit + 1
        BY <4>1, <4>2 DEF len
      <4>4. len = Limit + 1
        BY <1>3, <4>3
      <4>5. QED
        BY <4>4 DEF len
    <3>2. SubSeq(page, 1, Limit) \in Seq(left) /\ Len(SubSeq(page, 1, Limit)) = Limit
          /\ \A i \in 1..Limit : SubSeq(page, 1, Limit)[i] = page[i]
      <4>1. page \in Seq(left)
        BY <1>4
      <4>2. QED
        BY <1>3, <3>1, <4>1
    <3>3. QED
      BY <1>3, <2>1, <3>1, <3>2
  <2>2. CASE ~more
    BY <1>4, <1>6, <2>2
  <2>3. QED
    BY <2>1, <2>2
<1> HIDE DEF served
<1>8. /\ added \in Seq(Int \X Int) /\ DOMAIN added = 1..Len(served)
      /\ \A i \in 1..Len(served) : served[i] \in left /\ added[i] = <<served[i].id, Value(served[i], walk.sort)>>
  <2>1. \A i \in 1..Len(served) : served[i] \in left
    BY <1>6, <1>7
  <2>2. \A i \in 1..Len(served) : Listed(served[i]) \in Int \X Int
    BY <1>2, <1>5, <2>1
  <2>3. added \in Seq(Int \X Int) /\ DOMAIN added = 1..Len(served)
    BY <1>7, <2>2
  <2>4. QED
    BY <1>5, <2>1, <2>3
<1> HIDE DEF added, more
<1>9. WalkIsAWalk'
  <2>1. more \in BOOLEAN
    BY DEF more
  <2>2. ASSUME more PROVE bound(served[Limit]) \in Int \X Int
    <3>1. Limit \in 1..Len(served)
      BY <1>3, <1>7, <2>2
    <3>2. served[Limit] \in left
      BY <1>8, <3>1
    <3>3. QED
      BY <1>2, <3>2 DEF Ordered
  <2>3. walk.listed \o added \in Seq(Int \X Int)
    BY <1>8, ListedMore DEF WalkInv, WalkIsAWalk
  <2>4. more => bound(served[Limit]) \in Int \X Int
    BY <2>2
  <2> DEFINE cursor == IF more THEN bound(served[Limit]) ELSE <<>>
             listing == walk.listed \o added
  <2>5. cursor = <<>> \/ (more /\ cursor \in Int \X Int)
    <3> DEFINE there == bound(served[Limit])
               Pairs == Int \X Int
    <3>1. more => there \in Pairs
      BY <2>4
    <3> HIDE DEF there, Pairs
    <3>2. cursor = (IF more THEN there ELSE <<>>)
      BY DEF there
    <3>3. cursor = <<>> \/ (more /\ cursor \in Pairs)
      BY <2>1, <3>1, <3>2
    <3>4. QED
      BY <3>3 DEF Pairs
  <2>6. walk' = [walk EXCEPT !.open = more, !.cursor = cursor, !.listed = listing]
    BY <1>1
  <2> HIDE DEF cursor, listing, bound
  <2>7. listing \in Seq(Int \X Int)
    BY <2>3 DEF listing
  <2>8. DOMAIN walk = {"open", "sort", "desc", "subject", "cursor", "listed", "stable"} /\ walk.desc \in BOOLEAN
    BY DEF WalkInv, WalkIsAWalk
  <2>9. /\ DOMAIN walk' = DOMAIN walk /\ walk'.open = more /\ walk'.desc = walk.desc
        /\ walk'.cursor = cursor /\ walk'.listed = listing
    BY <2>6, <2>8
  <2>10. QED
    BY <2>1, <2>5, <2>7, <2>8, <2>9 DEF WalkIsAWalk
<1>10. /\ walk'.open = more /\ walk'.listed = walk.listed \o added
       /\ walk'.cursor = (IF more THEN bound(served[Limit]) ELSE <<>>)
       /\ walk'.stable = walk.stable /\ walk'.desc = walk.desc
  BY <1>1 DEF WalkInv, WalkIsAWalk
<1>11. ASSUME NEW item \in walk.stable, Ahead(item)
       PROVE  /\ Never(item, walk.listed)
              /\ \E r \in left : item = <<r.id, Value(r, walk.sort)>> /\ bound(r) = <<item[2], item[1]>>
  <2>1. Never(item, walk.listed)
    BY <1>1, <1>11 DEF WalkInv, WalkKeepsUp
  <2>2. PICK r \in Rows : OfSubject(r, walk.subject) /\ item = Listed(r)
    BY DEF WalkInv, StableAreRows
  <2>3. item = <<r.id, Value(r, walk.sort)>> /\ bound(r) = <<item[2], item[1]>>
    BY <1>5, <2>2
  <2>4. PastCursor(r, walk.sort, walk.desc, walk.cursor)
    BY <1>11, <2>3 DEF PastCursor, Ahead
  <2>5. r \in left
    BY <2>2, <2>4 DEF left, Left
  <2>6. QED
    BY <2>1, <2>3, <2>5
<1>12. ASSUME NEW item \in walk.stable, ~Ahead(item)
       PROVE  Once(item, walk.listed) /\ Never(item, added)
  <2>1. Once(item, walk.listed)
    BY <1>1, <1>12 DEF WalkInv, WalkKeepsUp
  <2>2. ASSUME NEW i \in 1..Len(served), added[i] = item PROVE FALSE
    <3>1. served[i] \in left /\ item = <<served[i].id, Value(served[i], walk.sort)>>
      BY <1>8, <2>2
    <3>2. PastCursor(served[i], walk.sort, walk.desc, walk.cursor)
      BY <3>1 DEF left, Left
    <3>3. bound(served[i]) = <<item[2], item[1]>>
      BY <1>5, <3>1
    <3>4. QED
      BY <1>12, <3>2, <3>3 DEF PastCursor, Ahead
  <2>3. QED
    BY <1>8, <2>1, <2>2 DEF Never
<1>13. ASSUME NEW item \in walk.stable, Ahead(item), NEW i \in 1..Len(served), added[i] = item
       PROVE  Once(item, added)
  <2>1. ASSUME NEW j \in 1..Len(served), added[j] = item PROVE j = i
    <3>1. /\ served[i] \in left /\ item = <<served[i].id, Value(served[i], walk.sort)>>
          /\ served[j] \in left /\ item = <<served[j].id, Value(served[j], walk.sort)>>
      BY <1>8, <1>13, <2>1
    <3>2. bound(page[i]) = bound(page[j]) /\ bound(page[i]) \in Int \X Int
      <4>1. bound(served[i]) = <<item[2], item[1]>> /\ bound(served[j]) = <<item[2], item[1]>>
        <5>1. /\ item[1] = served[i].id /\ item[2] = Value(served[i], walk.sort)
              /\ item[1] = served[j].id /\ item[2] = Value(served[j], walk.sort)
          BY <3>1
        <5>2. QED
          BY <5>1 DEF Boundary
      <4>2. bound(served[i]) \in Int \X Int
        BY <1>2, <3>1 DEF Ordered
      <4>3. served[i] = page[i] /\ served[j] = page[j]
        BY <1>7
      <4>4. QED
        BY <4>1, <4>2, <4>3
    <3>3. ~Before(bound(page[i]), bound(page[j]), walk.desc) /\ ~Before(bound(page[j]), bound(page[i]), walk.desc)
      BY <3>2, BeforeIsAnOrder DEF WalkInv, WalkIsAWalk
    <3>4. i \in 1..Len(page) /\ j \in 1..Len(page) /\ i \in Nat /\ j \in Nat
      BY <1>6, <1>7
    <3>5. ~(i < j) /\ ~(j < i)
      BY <1>4, <3>3, <3>4
    <3>6. QED
      BY <3>4, <3>5
  <2>2. QED
    BY <1>8, <1>13, <2>1 DEF Once
<1>14. \A item : /\ Never(item, walk.listed) /\ Never(item, added) => Never(item, walk.listed \o added)
                 /\ Once(item, walk.listed) /\ Never(item, added) => Once(item, walk.listed \o added)
                 /\ Never(item, walk.listed) /\ Once(item, added) => Once(item, walk.listed \o added)
  BY <1>8, ListedMore DEF WalkInv, WalkIsAWalk
<1>15. ASSUME more, NEW item \in walk.stable
       PROVE  IF Ahead(item)' THEN Never(item, walk.listed \o added) ELSE Once(item, walk.listed \o added)
  <2> DEFINE last == bound(served[Limit])
             here == <<item[2], item[1]>>
  <2>1. Limit \in 1..Len(served) /\ Limit \in 1..Len(page) /\ served[Limit] = page[Limit]
    BY <1>3, <1>6, <1>7, <1>15
  <2>2. last \in Int \X Int /\ last # <<>>
    <3>1. served[Limit] \in left
      BY <1>8, <2>1
    <3>2. last \in Int \X Int
      BY <1>2, <3>1 DEF Ordered
    <3>3. \A p \in Int \X Int : p # <<>>
      OBVIOUS
    <3> HIDE DEF last
    <3>4. QED
      BY <3>2, <3>3
  <2>3. Ahead(item)' <=> Before(last, here, walk.desc)
    <3>1. walk'.cursor = last /\ walk'.desc = walk.desc
      BY <1>10, <1>15
    <3> HIDE DEF last
    <3>2. QED
      BY <2>2, <3>1 DEF Ahead
  <2>4. CASE ~Ahead(item)
    <3>1. Once(item, walk.listed \o added)
      BY <1>12, <1>14, <2>4
    <3>2. walk.cursor # <<>> /\ walk.cursor \in Int \X Int /\ ~Before(walk.cursor, here, walk.desc)
      BY <2>4 DEF Ahead, WalkInv, WalkIsAWalk
    <3>3. Before(walk.cursor, last, walk.desc)
      <4>1. served[Limit] \in left
        BY <1>8, <2>1
      <4>2. QED
        BY <3>2, <4>1 DEF left, Left, PastCursor
    <3>4. here \in Int \X Int
      <4>1. PICK r \in Rows : item = Listed(r)
        BY DEF WalkInv, StableAreRows
      <4>2. r.id \in Int /\ Value(r, walk.sort) \in Int
        BY RowsCanBeOrdered DEF WalkInv
      <4>3. QED
        BY <1>5, <4>1, <4>2
    <3> HIDE DEF last, here
    <3>5. walk.desc \in BOOLEAN
      BY DEF WalkInv, WalkIsAWalk
    <3>6. ~Before(last, here, walk.desc)
      BY <2>2, <3>2, <3>3, <3>4, <3>5, BeforeIsAnOrder
    <3>7. QED
      BY <2>3, <3>1, <3>6
  <2>5. CASE Ahead(item)
    <3>1. PICK r \in left : item = <<r.id, Value(r, walk.sort)>> /\ bound(r) = here
      BY <1>11, <2>5
    <3>2. Never(item, walk.listed)
      BY <1>11, <2>5
    <3>3. here \in Int \X Int /\ walk.desc \in BOOLEAN
      BY <1>2, <3>1 DEF Ordered, WalkInv, WalkIsAWalk
    <3>4. CASE \E i \in 1..Len(served) : added[i] = item
      <4>1. PICK i \in 1..Len(served) : added[i] = item
        BY <3>4
      <4>2. Once(item, walk.listed \o added)
        BY <1>13, <1>14, <2>5, <3>2, <4>1
      <4>3. bound(page[i]) = here
        <5>1. served[i] = page[i] /\ item = <<served[i].id, Value(served[i], walk.sort)>>
          BY <1>7, <1>8, <4>1
        <5>2. QED
          BY <1>5, <5>1
      <4>4. ~Before(last, here, walk.desc)
        <5>1. i = Limit \/ i < Limit
          BY <1>3, <1>7, <1>15
        <5>2. CASE i = Limit
          <6>1. last = here
            BY <2>1, <4>3, <5>2
          <6> HIDE DEF last, here
          <6>2. QED
            BY <3>3, <6>1, BeforeIsAnOrder
        <5>3. CASE i < Limit
          <6>1. Before(here, last, walk.desc)
            <7>1. i \in 1..Len(page)
              BY <1>6, <1>7
            <7>2. Before(bound(page[i]), bound(page[Limit]), walk.desc)
              BY <1>4, <2>1, <5>3, <7>1
            <7>3. QED
              BY <2>1, <4>3, <7>2
          <6> HIDE DEF last, here
          <6>2. QED
            BY <2>2, <3>3, <6>1, BeforeIsAnOrder
        <5>4. QED
          BY <5>1, <5>2, <5>3
      <4>5. QED
        BY <2>3, <4>2, <4>4
    <3>5. CASE ~\E i \in 1..Len(served) : added[i] = item
      <4>1. Never(item, walk.listed \o added)
        BY <1>8, <1>14, <3>2, <3>5 DEF Never
      <4>2. Before(last, here, walk.desc)
        <5>1. CASE \E i \in 1..Len(page) : page[i] = r
          <6>1. PICK i \in 1..Len(page) : page[i] = r
            BY <5>1
          <6>2. i \notin 1..Len(served)
            BY <1>5, <1>7, <1>8, <3>1, <3>5, <6>1
          <6>3. Limit < i
            BY <1>3, <1>6, <1>7, <1>15, <6>2
          <6>4. QED
            BY <1>4, <2>1, <3>1, <6>1, <6>3
        <5>2. CASE \A i \in 1..Len(page) : Before(bound(page[i]), bound(r), walk.desc)
          BY <2>1, <3>1, <5>2
        <5>3. QED
          BY <1>4, <5>1, <5>2
      <4>3. QED
        BY <2>3, <4>1, <4>2
    <3>6. QED
      BY <3>4, <3>5
  <2>6. QED
    BY <2>4, <2>5
<1>16. ASSUME ~more, NEW item \in walk.stable PROVE Once(item, walk.listed \o added)
  <2>1. CASE ~Ahead(item)
    BY <1>12, <1>14, <2>1
  <2>2. CASE Ahead(item)
    <3>1. PICK r \in left : item = <<r.id, Value(r, walk.sort)>>
      BY <1>11, <2>2
    <3>2. Len(page) # Limit + 1
      <4> DEFINE len == Len(page)
      <4>1. ~(len > Limit)
        BY <1>16 DEF more
      <4> HIDE DEF len
      <4>2. len # Limit + 1
        BY <1>3, <4>1
      <4>3. QED
        BY <4>2 DEF len
    <3>3. PICK i \in 1..Len(page) : page[i] = r
      BY <1>4, <3>2
    <3>4. i \in 1..Len(served) /\ added[i] = item
      BY <1>7, <1>8, <1>16, <3>1, <3>3
    <3>5. QED
      BY <1>11, <1>13, <1>14, <2>2, <3>4
  <2>3. QED
    BY <2>1, <2>2
<1>17. WalkKeepsUp'
  BY <1>10, <1>15, <1>16 DEF WalkKeepsUp
<1>18. QED
  BY <1>9, <1>17

\* Every write of a row leaves it with a time of the clock.
LEMMA RowsStayTimed ==
    ASSUME StoreInv, RowsAreTimed, StoreNext
    PROVE  RowsAreTimed'
<1>1. ASSUME NEW c, c.at \in Nat, c.key \in Key
      PROVE  /\ \A k \in DOMAIN Placeheld(c) : Placeheld(c)[k].seen \in Nat
             /\ c.key \in DOMAIN Placeheld(c) => DOMAIN Placeheld(c)[c.key] = Fields
  <2>1. /\ \A k \in DOMAIN Placeheld(c) : k \in DOMAIN sessions => Placeheld(c)[k] = sessions[k]
        /\ \A k \in DOMAIN Placeheld(c) \ DOMAIN sessions : Placeheld(c)[k] = NewRow(nextId, c.subject, c.at, c.at)
    BY PlaceholderRows, SentinelAssumption DEF StoreInv, RowsAreRows
  <2>2. DOMAIN NewRow(nextId, c.subject, c.at, c.at) = Fields /\ NewRow(nextId, c.subject, c.at, c.at).seen = c.at
    BY DEF NewRow, Fields
  <2>3. \A k \in DOMAIN sessions : DOMAIN sessions[k] = Fields /\ sessions[k].seen \in Nat
    BY DEF StoreInv, RowsAreRows, RowsAreTimed
  <2>4. QED
    BY <1>1, <2>1, <2>2, <2>3
<1>2. ASSUME NEW rows, NEW k, NEW row, \A q \in DOMAIN rows : rows[q].seen \in Nat, row.seen \in Nat,
             sessions' = With(rows, k, row)
      PROVE  RowsAreTimed'
  <2>1. DOMAIN sessions' = DOMAIN rows \cup {k}
    BY <1>2 DEF With
  <2>2. \A q \in DOMAIN sessions' : sessions'[q] = IF q = k THEN row ELSE rows[q]
    BY <1>2 DEF With
  <2>3. QED
    BY <1>2, <2>1, <2>2 DEF RowsAreTimed
<1>3. ASSUME NEW w \in Writer, IngestTurn(w) PROVE RowsAreTimed'
  <2> DEFINE c == call[w]
             old == IF c.key \in DOMAIN Placeheld(c) THEN Placeheld(c)[c.key] ELSE NewRow(nextId + 1, c.subject, c.at, c.at)
             row == [old EXCEPT !.seen = c.at, !.subject = c.subject, !.name = Coalesce(c.name, @, NoName),
                                !.parent = Coalesce(ParentId(c), @, 0), !.title = Coalesce(c.title, @, NoName)]
  <2>1. c.kind = "wire" /\ sessions' = With(Placeheld(c), c.key, row)
    BY <1>3 DEF IngestTurn, UpsertSession
  <2>2. c.key \in Key /\ c.at \in Nat
    BY <2>1 DEF StoreInv, CallsAreCalls, Idle
  <2>3. DOMAIN NewRow(nextId + 1, c.subject, c.at, c.at) = Fields
    BY DEF NewRow, Fields
  <2> HIDE DEF c
  <2>4. DOMAIN old = Fields
    BY <1>1, <2>2, <2>3
  <2> HIDE DEF old
  <2>5. row.seen = c.at
    BY <2>4 DEF Fields
  <2> HIDE DEF row
  <2>6. QED
    BY <1>1, <1>2, <2>1, <2>2, <2>5
<1>4. ASSUME NEW w \in Writer, UpsertTranscriptSession(w) PROVE RowsAreTimed'
  <2> DEFINE c == call[w]
             fresh == NewRow(nextId + 1, c.subject, c.from, c.at)
             old == IF c.key \in DOMAIN Placeheld(c) THEN Placeheld(c)[c.key] ELSE fresh
             row == [old EXCEPT !.started = Least(@, c.from), !.seen = Greatest(@, c.at),
                                !.subject = Coalesce(c.subject, @, NoSubject),
                                !.name = Coalesce(c.name, @, NoName), !.parent = Coalesce(ParentId(c), @, 0)]
  <2>1. c.kind = "transcript" /\ sessions' = With(Placeheld(c), c.key, row)
    BY <1>4 DEF UpsertTranscriptSession, UpsertSessionFromTranscript
  <2>2. c.key \in Key /\ c.at \in Nat
    BY <2>1 DEF StoreInv, CallsAreCalls, Idle
  <2>3. DOMAIN fresh = Fields /\ fresh.seen = c.at
    BY DEF NewRow, Fields
  <2> HIDE DEF c, fresh
  <2>4. DOMAIN old = Fields /\ old.seen \in Nat
    BY <1>1, <2>2, <2>3
  <2> HIDE DEF old
  <2>5. row.seen = Greatest(old.seen, c.at)
    BY <2>4 DEF Fields
  <2>6. row.seen \in Nat
    BY <2>2, <2>4, <2>5 DEF Greatest
  <2> HIDE DEF row
  <2>7. QED
    BY <1>1, <1>2, <2>1, <2>2, <2>6
<1>5. ASSUME NEW k \in DOMAIN sessions, NEW row, row.seen = sessions[k].seen, sessions' = [sessions EXCEPT ![k] = row]
      PROVE  RowsAreTimed'
  BY <1>5 DEF RowsAreTimed
<1>6. ASSUME NEW k \in Key, WriteDerivedSet(k) PROVE RowsAreTimed'
  <2>1. PICK set \in Derivations[k] : k \in DOMAIN sessions /\ WriteSpanSet(k, set)
    BY <1>6 DEF WriteDerivedSet, Exists
  <2> DEFINE folded == FoldSessionRollupsFromSpans(sessions[k], turns', spans')
             row == UpdateSessionDerivedTitle(UpdateSessionStatus(folded, set), set)
  <2>2. sessions' = [sessions EXCEPT ![k] = row]
    BY <2>1 DEF WriteSpanSet
  <2>3. DOMAIN sessions[k] = Fields
    BY <2>1 DEF StoreInv, RowsAreRows
  <2>4. DOMAIN folded = Fields /\ folded.seen = sessions[k].seen
    BY <2>3 DEF FoldSessionRollupsFromSpans, Fields
  <2> HIDE DEF folded
  <2>5. row.seen = sessions[k].seen
    BY <2>4 DEF UpdateSessionDerivedTitle, UpdateSessionStatus, Fields
  <2> HIDE DEF row
  <2>6. QED
    BY <1>5, <2>1, <2>2, <2>5
<1>7. ASSUME NEW k \in Key, HandleUpdateSession(k) PROVE RowsAreTimed'
  <2>1. PICK name : k \in DOMAIN sessions /\ sessions' = [sessions EXCEPT ![k].display = name]
    BY <1>7 DEF HandleUpdateSession, UpdateSessionDisplayName, Exists
  <2> DEFINE row == [sessions[k] EXCEPT !.display = name]
  <2>2. DOMAIN sessions[k] = Fields
    BY <2>1 DEF StoreInv, RowsAreRows
  <2>3. row.seen = sessions[k].seen
    BY <2>2 DEF Fields
  <2>4. sessions' = [sessions EXCEPT ![k] = row]
    BY <2>1
  <2> HIDE DEF row
  <2>5. QED
    BY <1>5, <2>1, <2>3, <2>4
<1>8. ASSUME NEW k \in Key, HandleDeleteSession(k) PROVE RowsAreTimed'
  BY <1>8 DEF HandleDeleteSession, DeleteSession, Only, RowsAreTimed
<1>9. sessions' = sessions => RowsAreTimed'
  BY DEF RowsAreTimed
<1>10. QED
  BY <1>3, <1>4, <1>6, <1>7, <1>8, <1>9 DEF StoreNext, ResolveParent, Aborts, Tick

LEMMA InitWalkInv == Init => WalkInv
<1> SUFFICES ASSUME Init PROVE WalkInv
  OBVIOUS
<1>1. StoreInv
  BY InitStoreInv
<1>2. DOMAIN sessions = {} /\ walk = [open |-> FALSE, sort |-> "seen", desc |-> TRUE, subject |-> NoSubject,
                                      cursor |-> <<>>, listed |-> <<>>, stable |-> {}]
  BY DEF Init
<1>3. RowsAreTimed
  BY <1>2 DEF RowsAreTimed
<1>4. WalkIsAWalk /\ StableAreRows /\ WalkKeepsUp
  <2>1. /\ DOMAIN walk = {"open", "sort", "desc", "subject", "cursor", "listed", "stable"}
        /\ ~walk.open /\ walk.open \in BOOLEAN /\ walk.desc \in BOOLEAN
        /\ walk.cursor = <<>> /\ walk.listed = <<>> /\ walk.stable = {}
    BY <1>2
  <2>2. <<>> \in Seq(Int \X Int)
    OBVIOUS
  <2>3. WalkIsAWalk
    BY <2>1, <2>2 DEF WalkIsAWalk
  <2>4. StableAreRows
    BY <2>1 DEF StableAreRows
  <2>5. WalkKeepsUp
    BY <2>1 DEF WalkKeepsUp
  <2>6. QED
    BY <2>3, <2>4, <2>5
<1>5. QED
  BY <1>1, <1>3, <1>4 DEF WalkInv

LEMMA WalkStep ==
    ASSUME WalkInv, [Next]_vars
    PROVE  WalkInv'
<1>1. StoreInv'
  BY SessionStep DEF WalkInv
<1>2. CASE OpenWalk
  <2>1. PICK s \in {"seen", "started"}, d \in BOOLEAN, u \in Subject :
          walk' = [walk EXCEPT !.open = TRUE, !.sort = s, !.desc = d, !.subject = u,
                     !.stable = {<<r.id, Value(r, s)>> : r \in {q \in Rows : OfSubject(q, u)}}]
    BY <1>2 DEF OpenWalk
  <2>2. sessions' = sessions /\ ~walk.open /\ walk.listed = <<>> /\ walk.cursor = <<>>
    BY <1>2 DEF OpenWalk, WalkInv, WalkIsAWalk
  <2>3. /\ DOMAIN walk' = DOMAIN walk
        /\ walk'.open = TRUE /\ walk'.sort = s /\ walk'.desc = d /\ walk'.subject = u
        /\ walk'.cursor = <<>> /\ walk'.listed = <<>>
        /\ walk'.stable = {<<r.id, Value(r, s)>> : r \in {q \in Rows : OfSubject(q, u)}}
    BY <2>1, <2>2 DEF WalkInv, WalkIsAWalk
  <2>4. RowsAreTimed'
    BY <2>2 DEF WalkInv, RowsAreTimed
  <2>5. WalkIsAWalk'
    BY <2>2, <2>3 DEF WalkInv, WalkIsAWalk
  <2>6. StableAreRows'
    BY <2>2, <2>3 DEF StableAreRows, Listed, Rows
  <2>7. WalkKeepsUp'
    BY <2>3 DEF WalkKeepsUp, Ahead, Never
  <2>8. QED
    BY <1>1, <2>4, <2>5, <2>6, <2>7 DEF WalkInv
<1>3. CASE HandleListSessions
  <2>1. WalkIsAWalk' /\ WalkKeepsUp'
    BY <1>3, RequestKeepsUp
  <2>2. sessions' = sessions
    BY <1>3 DEF HandleListSessions
  <2>3. walk'.stable = walk.stable /\ walk'.subject = walk.subject /\ walk'.sort = walk.sort
    <3> DEFINE page == ListSessionRecords(walk.sort, walk.desc, walk.subject, walk.cursor)
               more == Len(page) > Limit
               served == IF more THEN SubSeq(page, 1, Limit) ELSE page
               cursor == IF more THEN Boundary(served[Limit], walk.sort) ELSE <<>>
               added == [i \in 1..Len(served) |-> Listed(served[i])]
    <3>1. walk' = [walk EXCEPT !.open = more, !.cursor = cursor, !.listed = @ \o added]
      BY <1>3 DEF HandleListSessions
    <3> HIDE DEF more, cursor, added
    <3>2. QED
      BY <3>1 DEF WalkInv, WalkIsAWalk
  <2>4. RowsAreTimed'
    BY <2>2 DEF WalkInv, RowsAreTimed
  <2>5. StableAreRows'
    BY <2>2, <2>3 DEF WalkInv, StableAreRows, Listed, Rows
  <2>6. QED
    BY <1>1, <2>1, <2>4, <2>5 DEF WalkInv
<1>4. ASSUME StoreNext,
             walk' = [walk EXCEPT !.stable =
               @ \cap {<<r.id, Value(r, walk.sort)>> :
                         r \in {q \in {sessions'[k] : k \in DOMAIN sessions'} : OfSubject(q, walk.subject)}}]
      PROVE  WalkInv'
  <2> DEFINE kept == {<<r.id, Value(r, walk.sort)>> :
                        r \in {q \in {sessions'[k] : k \in DOMAIN sessions'} : OfSubject(q, walk.subject)}}
  <2>1. /\ DOMAIN walk' = DOMAIN walk
        /\ walk'.open = walk.open /\ walk'.sort = walk.sort /\ walk'.desc = walk.desc
        /\ walk'.subject = walk.subject /\ walk'.cursor = walk.cursor /\ walk'.listed = walk.listed
        /\ walk'.stable = walk.stable \cap kept
    BY <1>4 DEF WalkInv, WalkIsAWalk
  <2>2. RowsAreTimed'
    BY <1>4, RowsStayTimed DEF WalkInv
  <2>3. WalkIsAWalk'
    BY <2>1 DEF WalkInv, WalkIsAWalk
  <2>4. StableAreRows'
    BY <2>1 DEF StableAreRows, Listed, Rows
  <2> HIDE DEF kept
  <2>5. \A item : Ahead(item)' <=> Ahead(item)
    BY <2>1 DEF Ahead
  <2>6. WalkKeepsUp'
    BY <2>1, <2>5 DEF WalkInv, WalkKeepsUp
  <2>7. QED
    BY <1>1, <2>2, <2>3, <2>4, <2>6 DEF WalkInv
<1>5. CASE UNCHANGED vars
  <2>1. sessions' = sessions /\ walk' = walk
    BY <1>5 DEF vars
  <2>2. RowsAreTimed' /\ WalkIsAWalk' /\ StableAreRows'
    BY <2>1 DEF WalkInv, RowsAreTimed, WalkIsAWalk, StableAreRows, Listed, Rows
  <2>3. WalkKeepsUp'
    BY <2>1 DEF WalkInv, WalkKeepsUp, Ahead
  <2>4. QED
    BY <1>1, <2>2, <2>3 DEF WalkInv
<1>6. QED
  BY <1>2, <1>3, <1>4, <1>5 DEF Next

\* A client that follows the cursors is served each session that keeps its place
\* in the list's order exactly once, whatever is ingested, renamed, derived or
\* deleted between its requests (api/sessions_handlers.go, handleListSessions).
THEOREM WalksListOnce == Spec => []ListedOnce
<1>1. WalkInv /\ [Next]_vars => WalkInv'
  BY WalkStep
<1>2. QED
  BY <1>1, InitWalkInv, WalkListsOnce, PTL DEF Spec
=============================================================================
