------------------------------- MODULE Cassettes -------------------------------
(***************************************************************************)
(* The fleet of cassettes an API server publishes (api/cassetterunner).    *)
(* One loop visits the configured OpenAPI URLs in order, fetches each,     *)
(* admits what it serves, caches the document and registers the instance;  *)
(* requests read the registry and the cache between any two of its steps.  *)
(* A document is a value of Document, and the validator its server sends   *)
(* is the document itself.                                                 *)
(***************************************************************************)
EXTENDS Integers, Sequences, FiniteSets

CONSTANTS
    Source,      \* configured URLs
    Name,        \* cassette names
    Document,    \* what a URL may serve
    NameOf,      \* Document -> Name, or Absent for one that is refused
    Down,        \* a URL that does not answer
    Absent,
    MaxChanges   \* bound: how often the fleet or the configuration changes

ASSUME CassetteAssumption ==
    /\ NameOf \in [Document -> Name \cup {Absent}]
    /\ Absent \notin Name \cup Document \cup Source /\ Down \notin Document
    /\ Absent \notin [source : Source, doc : Document]
    /\ Absent \notin [doc : Document, source : Source, status : {"fresh", "stale"}]
    /\ MaxChanges \in Nat

VARIABLES
    sources,     \* the configured sources in order, with what is known of each
    instances,   \* Name -> the registered instance: where its document came from
    rejections,  \* the sources the registry reports a problem of
    entries,     \* Name -> the cached document, its source and its status
    pass,        \* the step the holder of refreshMutex is at
    served,      \* Source -> the document it serves now
    changes      \* how many changes happened

fleetVars == <<sources, instances, rejections, entries, pass, served, changes>>

Idle == [step |-> "idle", at |-> 0, doc |-> Absent, previous |-> <<>>]
NewSource(url) == [url |-> url, name |-> Absent, etag |-> Absent, resolved |-> FALSE, problem |-> FALSE]
URLs == {sources[i].url : i \in DOMAIN sources}
IndexOf(url) == CHOOSE i \in DOMAIN sources : sources[i].url = url
\* The withdrawal goes on with the i-th source of the table that was replaced.
Visit(previous, i) ==
    IF i > Len(previous) THEN Idle
    ELSE [Idle EXCEPT !.step = "hide", !.at = i, !.previous = previous]
\* A configuration names a URL once.
Orders == UNION {{f \in [1..n -> Source] : \A i, j \in 1..n : f[i] = f[j] => i = j} : n \in 0..Cardinality(Source)}

FleetInit ==
    /\ \E urls \in Orders : sources = [i \in DOMAIN urls |-> NewSource(urls[i])]
    /\ rejections = {} /\ pass = Idle /\ changes = 0
    /\ instances = [n \in Name |-> Absent] /\ entries = [n \in Name |-> Absent]
    /\ served \in [Source -> Document \cup {Down}]

-----------------------------------------------------------------------------
(* The configuration changes, and what a URL serves.                        *)

ServeDocument(s, d) ==
    /\ changes < MaxChanges /\ served[s] # d
    /\ served' = [served EXCEPT ![s] = d] /\ changes' = changes + 1
    /\ UNCHANGED <<sources, instances, rejections, entries, pass>>

\* A URL that stays keeps its state wherever it moves; one that goes is
\* withdrawn before anything else holds the mutex.
SetSources(urls) ==
    /\ pass = Idle /\ changes < MaxChanges
    /\ sources' = [i \in DOMAIN urls |-> IF urls[i] \in URLs THEN sources[IndexOf(urls[i])] ELSE NewSource(urls[i])]
    /\ pass' = Visit(sources, 1)
    /\ changes' = changes + 1
    /\ UNCHANGED <<instances, rejections, entries, served>>

\* Mutant: whoever holds the name is removed.
RemovedAnyway(state, table) ==
    IF state.name # Absent THEN [table EXCEPT ![state.name] = Absent] ELSE table
Removed(state, table) ==
    IF state.name # Absent /\ table[state.name] # Absent /\ table[state.name].source = state.url
    THEN [table EXCEPT ![state.name] = Absent] ELSE table
Visited == pass.previous[pass.at]
AfterWithdrawal == Visit(pass.previous, pass.at + 1)

KeepSource ==
    /\ pass.step = "hide" /\ Visited.url \in URLs
    /\ pass' = AfterWithdrawal
    /\ UNCHANGED <<sources, instances, rejections, entries, served, changes>>

\* Mutant: the problem of a source nobody asks for any more stays.
HideOnly ==
    /\ pass.step = "hide" /\ Visited.url \notin URLs
    /\ instances' = Removed(Visited, instances)
    /\ pass' = [pass EXCEPT !.step = "evict"]
    /\ UNCHANGED <<sources, rejections, entries, served, changes>>

Hide ==
    /\ pass.step = "hide" /\ Visited.url \notin URLs
    /\ rejections' = rejections \ {Visited.url}
    /\ instances' = Removed(Visited, instances)
    /\ pass' = [pass EXCEPT !.step = "evict"]
    /\ UNCHANGED <<sources, entries, served, changes>>

\* Mutant: the document stays.
EvictNothing ==
    /\ pass.step = "evict" /\ pass' = AfterWithdrawal
    /\ UNCHANGED <<sources, instances, rejections, entries, served, changes>>

EvictSource ==
    /\ pass.step = "evict"
    /\ entries' = Removed(Visited, entries)
    /\ pass' = AfterWithdrawal
    /\ UNCHANGED <<sources, instances, rejections, served, changes>>

-----------------------------------------------------------------------------
(* A refresh pass.                                                          *)

Refresh ==
    /\ pass = Idle /\ sources # <<>>
    /\ pass' = [Idle EXCEPT !.step = "fetch", !.at = 1]
    /\ UNCHANGED <<sources, instances, rejections, entries, served, changes>>

Advance == IF pass.at < Len(sources) THEN [Idle EXCEPT !.step = "fetch", !.at = pass.at + 1] ELSE Idle
Known(problem) == sources' = [sources EXCEPT ![pass.at].problem = problem]

HasSource(table, state) == table[state.name] # Absent /\ table[state.name].source = state.url
\* Mutant: a validator is sent although its document was displaced.
CurrentlyPublishedOnce(state) == state.resolved
CurrentlyPublished(state) == state.resolved /\ HasSource(instances, state) /\ HasSource(entries, state)

\* Mutant: whoever holds the name goes stale.
MarkedAnyway(state, status) ==
    IF state.name # Absent /\ entries[state.name] # Absent
    THEN [entries EXCEPT ![state.name].status = status] ELSE entries
Marked(state, status) ==
    IF state.name # Absent /\ HasSource(entries, state)
    THEN [entries EXCEPT ![state.name].status = status] ELSE entries

\* A holder configured earlier keeps the name; the one asking may be it.
CheckPriority(name, state) ==
    instances[name] # Absent /\ instances[name].source # state.url
        => instances[name].source \in URLs /\ IndexOf(instances[name].source) >= pass.at

\* Refused, unreachable, of another name than before, or of a name that is held.
Refused(state, d) ==
    \/ d = Down
    \/ d # Down /\ NameOf[d] = Absent
    \/ d # Down /\ state.resolved /\ state.name # NameOf[d]
    \/ d # Down /\ NameOf[d] # Absent /\ ~CheckPriority(NameOf[d], state)

NotModified(state) == CurrentlyPublished(state) /\ state.etag # Absent /\ state.etag = served[state.url]

FailSource ==
    /\ pass.step = "fetch"
    /\ LET state == sources[pass.at] IN
       /\ ~NotModified(state)
       \* An unconditional request is answered with the document, a 304 to a
       \* conditional one without a published document is a failure.
       /\ Refused(state, served[state.url])
       /\ entries' = Marked(state, "stale")
       /\ rejections' = rejections \cup {state.url}
    /\ Known(TRUE) /\ pass' = Advance
    /\ UNCHANGED <<instances, served, changes>>

MarkSourceFresh ==
    /\ pass.step = "fetch"
    /\ LET state == sources[pass.at] IN
       /\ NotModified(state)
       /\ entries' = Marked(state, "fresh")
       /\ rejections' = rejections \ {state.url}
    /\ Known(FALSE) /\ pass' = Advance
    /\ UNCHANGED <<instances, served, changes>>

Admit ==
    /\ pass.step = "fetch"
    /\ LET state == sources[pass.at] IN
       /\ ~NotModified(state) /\ ~Refused(state, served[state.url])
       /\ pass' = [pass EXCEPT !.step = "publish", !.doc = served[state.url]]
    /\ UNCHANGED <<sources, instances, rejections, entries, served, changes>>

Publication(status) == [doc |-> pass.doc, source |-> sources[pass.at].url, status |-> status]
\* Mutant: the document is cached after the instance is registered.
PublishLater ==
    /\ pass.step = "publish" /\ pass' = [pass EXCEPT !.step = "put"]
    /\ instances' = [instances EXCEPT ![NameOf[pass.doc]] = [source |-> sources[pass.at].url, doc |-> pass.doc]]
    /\ UNCHANGED <<sources, rejections, entries, served, changes>>
Publish ==
    /\ pass.step = "publish" /\ pass' = [pass EXCEPT !.step = "put"]
    /\ entries' = [entries EXCEPT ![NameOf[pass.doc]] = Publication("fresh")]
    /\ UNCHANGED <<sources, instances, rejections, served, changes>>

Put ==
    /\ pass.step = "put" /\ pass' = [pass EXCEPT !.step = "resolve"]
    /\ instances' = [instances EXCEPT ![NameOf[pass.doc]] = [source |-> sources[pass.at].url, doc |-> pass.doc]]
    /\ UNCHANGED <<sources, rejections, entries, served, changes>>

\* A server may publish no validator.
ResolveSource ==
    /\ pass.step = "resolve" /\ pass' = Advance
    /\ \E etag \in {pass.doc, Absent} :
          sources' = [sources EXCEPT ![pass.at] =
                        [@ EXCEPT !.name = NameOf[pass.doc], !.etag = etag, !.resolved = TRUE, !.problem = FALSE]]
    /\ rejections' = rejections \ {sources[pass.at].url}
    /\ UNCHANGED <<instances, entries, served, changes>>

RefreshStep == FailSource \/ MarkSourceFresh \/ Admit \/ Publish \/ Put \/ ResolveSource
Withdraw == KeepSource \/ Hide \/ EvictSource
FleetNext == \/ RefreshStep \/ Refresh \/ Withdraw
        \/ \E s \in Source, d \in Document \cup {Down} : ServeDocument(s, d)
        \/ \E urls \in Orders : SetSources(urls)

\* The refresh loop has a ticker, and SetSources does not wait in between.
FleetSpec == FleetInit /\ [][FleetNext]_fleetVars /\ WF_fleetVars(Refresh \/ RefreshStep \/ Withdraw)

-----------------------------------------------------------------------------

Names(table) == {n \in Name : table[n] # Absent}

\* Every cassette a request can find in the registry has a document, between
\* any two steps (refreshSource, SetSources: "preserving the invariant that
\* every cassette visible through discovery and proxy lookup has a spec").
VisibleHasSpec == Names(instances) \subseteq Names(entries)

\* Between passes registry and cache hold the same names, of the same documents
\* from the same configured sources (SetSources: "otherwise a source no longer
\* visited by Refresh would remain published forever").
PublishedTogether ==
    pass = Idle => \A n \in Names(instances) \cup Names(entries) :
        /\ n \in Names(instances) \cap Names(entries)
        /\ instances[n].source = entries[n].source /\ instances[n].doc = entries[n].doc
        /\ instances[n].source \in URLs /\ sources[IndexOf(instances[n].source)].name = n

\* A cassette vanishes only when the source it came from is not configured any
\* more, whoever else claimed its name (remove: "prevents removal of an old
\* source from evicting the configured-priority winner").
OnlyWithdrawn ==
    [][\A n \in Name : instances[n] # Absent /\ instances'[n] = Absent => instances[n].source \notin URLs]_fleetVars

\* Between passes a document is stale exactly when the last attempt of the
\* source it came from failed (markStale: "what keeps a failing duplicate from
\* staling the winner").
StatusIsItsOwn ==
    pass = Idle => \A n \in Names(entries) :
        (entries[n].status = "stale") = sources[IndexOf(entries[n].source)].problem

\* Between passes the problems reported are those of the configured sources
\* (SetRejection, ClearRejection).
ProblemsAreCurrent ==
    pass = Idle => rejections = {sources[i].url : i \in {j \in DOMAIN sources : sources[j].problem}}

\* Registry, cache, source table and rejections, four tables under locks of
\* their own, tell one story: at every step what is found has a document, and
\* between passes the rest agrees too (refreshSource, SetSources).
TablesAgree == VisibleHasSpec /\ PublishedTogether /\ StatusIsItsOwn /\ ProblemsAreCurrent

\* What a source could publish under a name, were it alone.
Claims(i, n) ==
    LET d == served[sources[i].url] IN
    d # Down /\ NameOf[d] = n /\ (sources[i].resolved => sources[i].name = n)
\* Once nothing changes any more, a name belongs to the earliest configured
\* source that serves it, with its current document, or to an earlier one that
\* had it, stale (checkPriority: "the winner does not depend on which source
\* happened to answer first").
FleetSettled ==
    \A n \in Name :
        /\ n \in Names(instances) => instances[n].source \in URLs
        /\ \A i \in DOMAIN sources : Claims(i, n) => n \in Names(instances) /\ IndexOf(instances[n].source) <= i
        /\ n \in Names(instances) =>
              IF Claims(IndexOf(instances[n].source), n)
              THEN entries[n].status = "fresh" /\ entries[n].doc = served[instances[n].source]
              ELSE entries[n].status = "stale"
FleetSettles == <>[]FleetSettled

\* Cassettes neither vanish in passing nor stay undecided (Runner).
FleetIsStable == OnlyWithdrawn /\ FleetSettles
=============================================================================
