------------------------------- MODULE OpenAPI -------------------------------
(***************************************************************************)
(* pkg/tapesoapi: fragments of API descriptions folded into one document,  *)
(* and api/cassetterunner: the document of core and every cassette.        *)
(*                                                                         *)
(* A name, an operationId and a path are sequences of words.  A document   *)
(* holds its entries by key: <<"path" or "webhook", path, method>> for an  *)
(* operation [id, says, params, refs, statuses, security, servers, only31],*)
(* <<section, name>> for a component [says, refs, only31], or a parameter  *)
(* [ref, in, name, required, refs].  A reference is the key of what it     *)
(* names.  items holds what a path says of all its operations.             *)
(***************************************************************************)
EXTENDS Integers, Sequences, SequencesExt, FiniteSetsExt, TLC

Operations == {"path", "webhook"}
Is(kinds, entries) == {k \in DOMAIN entries : k[1] \in kinds}
NoItem == [params |-> <<>>, servers |-> FALSE]
Items(entries) == [k \in {<<j[1], j[2]>> : j \in Is(Operations, entries)} |-> NoItem]
NewFragment(prov, entries) ==
    [prov |-> prov, hash |-> 0, info |-> <<>>, authoritative |-> FALSE, security |-> {},
     servers |-> FALSE, items |-> Items(entries), entries |-> entries]

-----------------------------------------------------------------------------
(* References                                                              *)

walkParameterRefs(p) == IF p.ref # <<>> THEN {<<"parameters", p.ref>>} ELSE p.refs
walkOperationRefs(op) == op.refs \cup UNION {walkParameterRefs(op.params[i]) : i \in DOMAIN op.params}
walkRefs(key, value) ==
    IF key[1] \in Operations THEN walkOperationRefs(value)
    ELSE IF key[1] = "parameters" THEN walkParameterRefs(value) ELSE value.refs

-----------------------------------------------------------------------------
(* One document made ready to be merged                                    *)

PathParams(path) == {"id" : i \in {j \in DOMAIN path : path[j] = "{id}"}}
\* A segment without the characters no identifier has: braces, dots, hyphens
\* and underscores.
Cleaned(segment) == CASE segment = "{id}" -> "id" [] segment = "row-s" -> "rows" [] OTHER -> segment
SynthesizeOperationID(method, path) ==
    <<method>> \o SelectSeq([i \in DOMAIN path |-> Cleaned(path[i])], LAMBDA s : s # "")
NormalizePath(path) == IF Len(path) > 1 /\ Last(path) = "" THEN Front(path) ELSE path
joinPath(prefix, path) == IF path = <<"">> THEN prefix ELSE prefix \o path

Mapped(f, rename(_)) == [k \in {rename(j) : j \in DOMAIN f} |-> f[CHOOSE j \in DOMAIN f : rename(j) = k]]
AtPath(rename(_), key) == IF key[1] = "path" THEN [key EXCEPT ![2] = rename(@)] ELSE key

\* Paths are spelled one way; two spellings of one path are an error.
convertPathItems(fragment) ==
    LET norm(k) == AtPath(NormalizePath, k)
    IN IF \E j, k \in DOMAIN fragment.items : j # k /\ norm(j) = norm(k) THEN <<>>
       ELSE <<[fragment EXCEPT !.items = Mapped(@, norm), !.entries = Mapped(@, norm)]>>

\* Mutant: only a path's own servers go.
stripPathServers(fragment) == [fragment EXCEPT !.servers = FALSE, !.items = [k \in DOMAIN @ |-> [@[k] EXCEPT !.servers = FALSE]]]
stripNestedServers(fragment) ==
    [fragment EXCEPT !.servers = FALSE, !.items = [k \in DOMAIN @ |-> [@[k] EXCEPT !.servers = FALSE]],
                     !.entries = [k \in DOMAIN @ |-> IF k[1] \in Operations THEN [@[k] EXCEPT !.servers = FALSE] ELSE @[k]]]
\* Every path moved from one prefix to another, or no document.
RewritePrefix(fragment, source, target) ==
    LET moved(path) == target \o SubSeq(path, Len(source) + 1, Len(path))
        move(k) == AtPath(moved, k)
    IN IF \E k \in Is({"path"}, fragment.items) : ~IsPrefix(source, k[2]) THEN <<>>
       ELSE <<stripNestedServers([fragment EXCEPT !.items = Mapped(@, move), !.entries = Mapped(@, move)])>>

renameKeys(namespace, key) == IF key[1] \in Operations THEN key ELSE <<key[1], namespace \o key[2]>>
Renamed(namespace, security) == {{namespace \o scheme : scheme \in requirement} : requirement \in security}
\* Mutant: requirements keep the names their schemes had.
renameNothing(fragment, namespace) == fragment
\* The operations of webhooks keep theirs.
renameSecuritySchemes(fragment, namespace) ==
    [fragment EXCEPT !.security = Renamed(namespace, @),
                     !.entries = [k \in DOMAIN @ |-> IF k[1] = "path" THEN [@[k] EXCEPT !.security = Renamed(namespace, @)] ELSE @[k]]]
\* What a reference reads once the components that are defined have new names.
Rewritten(r, defined, namespace) == IF r \in defined THEN renameKeys(namespace, r) ELSE r
renameParameter(p, defined, namespace) ==
    IF p.ref # <<>> THEN [p EXCEPT !.ref = Rewritten(<<"parameters", @>>, defined, namespace)[2]]
    ELSE [p EXCEPT !.refs = {Rewritten(r, defined, namespace) : r \in @}]
renameParameters(params, defined, namespace) == [i \in DOMAIN params |-> renameParameter(params[i], defined, namespace)]
renameRefs(key, value, defined, namespace) ==
    LET renamed == {Rewritten(r, defined, namespace) : r \in value.refs} IN
    IF key[1] \in Operations
    THEN [value EXCEPT !.refs = renamed, !.params = renameParameters(@, defined, namespace)]
    ELSE IF key[1] = "parameters" THEN renameParameter(value, defined, namespace) ELSE [value EXCEPT !.refs = renamed]
namespaceComponents(fragment, namespace) ==
    LET defined == DOMAIN fragment.entries
        rewritten == [k \in defined |-> renameRefs(k, fragment.entries[k], defined, namespace)]
        key(k) == renameKeys(namespace, k)
    IN IF Is({"schemas", "responses", "requestBodies", "parameters", "securitySchemes"}, fragment.entries) = {} THEN fragment
       ELSE renameSecuritySchemes(
              [fragment EXCEPT !.entries = Mapped(rewritten, key),
                               !.items = [k \in DOMAIN @ |-> [@[k] EXCEPT !.params = renameParameters(@, defined, namespace)]]], namespace)

\* Mutant: an operation without an id gets none.
prefixOnlyIDs(fragment, prefix) ==
    [fragment EXCEPT !.entries = [k \in DOMAIN @ |-> IF k[1] = "path" /\ @[k].id # <<>> THEN [@[k] EXCEPT !.id = prefix \o @] ELSE @[k]]]
prefixOperationIDs(fragment, prefix) ==
    [fragment EXCEPT !.entries = [k \in DOMAIN @ |->
        IF k[1] # "path" THEN @[k]
        ELSE [@[k] EXCEPT !.id = prefix \o (IF @ = <<>> THEN SynthesizeOperationID(k[3], k[2]) ELSE @)]]]
\* Two paths mounted on one are an error.
prefixPaths(fragment, prefix) ==
    LET mount(path) == NormalizePath(joinPath(prefix, path))
        move(k) == AtPath(mount, k)
    IN IF Cardinality({move(k) : k \in DOMAIN fragment.items}) < Cardinality(DOMAIN fragment.items) THEN <<>>
       ELSE <<[fragment EXCEPT !.items = Mapped(@, move), !.entries = Mapped(@, move)]>>

\* options is [dropped, namespace, ids, paths, authoritative]; dropped says
\* that its info and servers stay out of the aggregate.
applyDocOptions(fragment, options) ==
    LET own == [fragment EXCEPT !.authoritative = options.authoritative,
                                !.info = IF options.dropped THEN <<>> ELSE @, !.servers = @ /\ ~options.dropped]
        spaced == IF options.namespace = <<>> THEN own ELSE namespaceComponents(own, options.namespace)
        named == IF options.ids = <<>> THEN spaced ELSE prefixOperationIDs(spaced, options.ids)
    IN IF options.paths = <<>> THEN <<named>> ELSE prefixPaths(named, options.paths)

-----------------------------------------------------------------------------
(* The merge                                                               *)

newMerged(policy) == [policy |-> policy, info |-> <<>>, infoSource |-> 0, security |-> {}, servers |-> FALSE,
                      items |-> <<>>, entries |-> <<>>, conflicts |-> {}, warnings |-> {}]

absorbInfo(m, f) ==
    IF f.info = <<>> THEN m
    ELSE IF m.info = <<>> \/ f.authoritative THEN [m EXCEPT !.info = f.info, !.infoSource = f.prov]
    ELSE IF m.info = f.info THEN m ELSE [m EXCEPT !.conflicts = @ \cup {<<"info">>}]

mergePathMetadata(into, from) == [params |-> into.params \o from.params, servers |-> into.servers \/ from.servers]
absorbPaths(m, f) ==
    [m EXCEPT !.items = [k \in DOMAIN m.items \cup DOMAIN f.items |->
        IF k \notin DOMAIN f.items THEN m.items[k]
        ELSE IF k \notin DOMAIN m.items THEN f.items[k] ELSE mergePathMetadata(m.items[k], f.items[k])]]

\* Mutant: what comes later stands.
mergeLater(m, key, value, prov) == [m EXCEPT !.entries = (key :> [value |-> value, prov |-> prov]) @@ @]
\* An operation or a component contributed under a key: the same again is no
\* conflict, another is what the policy makes of it.
mergeEntry(m, key, value, prov) ==
    LET put == (key :> [value |-> value, prov |-> prov]) @@ m.entries
    IN IF key \notin DOMAIN m.entries THEN [m EXCEPT !.entries = put]
       ELSE IF m.entries[key].value = value THEN m
       ELSE IF m.policy = "first" THEN [m EXCEPT !.warnings = @ \cup {key}]
       ELSE IF m.policy = "last" THEN [m EXCEPT !.warnings = @ \cup {key}, !.entries = put]
       ELSE [m EXCEPT !.conflicts = @ \cup {key}]
absorb(m, f) ==
    FoldSet(LAMBDA key, acc : mergeEntry(acc, key, f.entries[key], f.prov),
            [absorbPaths(absorbInfo(m, f), f) EXCEPT !.security = @ \cup f.security, !.servers = @ \/ f.servers],
            DOMAIN f.entries)
\* Mutant: fragments of one source as they came.
mergeByProvenance(fragments, policy) ==
    FoldLeft(absorb, newMerged(policy), SortSeq(fragments, LAMBDA f, g : f.prov < g.prov))
\* In the order of their sources, and of their content under one source.
mergeFragments(fragments, policy) ==
    FoldLeft(absorb, newMerged(policy),
             SortSeq(fragments, LAMBDA f, g : f.prov < g.prov \/ (f.prov = g.prov /\ f.hash < g.hash)))

-----------------------------------------------------------------------------
(* What a merged document must be                                          *)

checkVersionCompatibility(m, config) ==
    config.lossy \/ config.target # "3.0"
        \/ (Is({"webhook"}, m.items) = {} /\ \A k \in Is({"path", "schemas"}, m.entries) : ~m.entries[k].value.only31)
resolveReferences(m) ==
    LET named == UNION {walkRefs(k, m.entries[k].value) :
                          k \in Is({"path", "schemas", "responses", "parameters", "requestBodies"}, m.entries)}
                 \cup UNION {UNION {walkParameterRefs(m.items[k].params[i]) : i \in DOMAIN m.items[k].params} :
                               k \in Is({"path"}, m.items)}
    IN \A r \in named : r[1] # "external" => r \in DOMAIN m.entries

RECURSIVE follow(_, _, _)
\* A parameter seen through its references, or nothing.
follow(m, p, hops) ==
    IF p.ref = <<>> THEN <<p>>
    ELSE IF hops > 8 \/ <<"parameters", p.ref>> \notin DOMAIN m.entries THEN <<>>
    ELSE follow(m, m.entries[<<"parameters", p.ref>>].value, hops + 1)
resolveParameter(m, p) == follow(m, p, 0)
ParamKeys(m, list) ==
    LET seen == FoldLeft(LAMBDA acc, p : acc \o resolveParameter(m, p), <<>>, list)
    IN [i \in DOMAIN seen |-> <<seen[i].in, seen[i].name>>]
\* Each parameter once, the inherited ones included.
parameters(m, list, inherited) ==
    LET keys == ParamKeys(m, list)
    IN /\ IsInjective(keys)
       /\ Range(keys) \cap Range(ParamKeys(m, inherited)) = {}
       /\ \A i \in DOMAIN list : list[i].ref = <<>> => list[i].in \in {"path", "query", "header", "cookie"}
securityRequirements(m, security) ==
    \A requirement \in security : \A scheme \in requirement : <<"securitySchemes", scheme>> \in DOMAIN m.entries
operation(m, op, shared, template) ==
    LET all == shared \o op.params
        seen == FoldLeft(LAMBDA acc, p : acc \o resolveParameter(m, p), <<>>, all)
        inPath == {seen[i] : i \in {j \in DOMAIN seen : seen[j].in = "path"}}
        opaque == Len(seen) < Len(all)
    IN /\ parameters(m, op.params, shared) /\ securityRequirements(m, op.security)
       /\ \A p \in inPath : p.required
       /\ opaque \/ {p.name : p \in inPath} = template
validateStructure(m, target) ==
    LET item(k) == m.items[<<k[1], k[2]>>]
    IN /\ securityRequirements(m, m.security)
       /\ \A k \in Is({"path"}, m.items) :
              parameters(m, m.items[k].params, <<>>) /\ Cardinality({i \in DOMAIN k[2] : k[2][i] = "{id}"}) <= 1
       /\ \A k \in Is({"path"}, m.entries) : operation(m, m.entries[k].value, item(k).params, PathParams(k[2]))
       /\ target = "3.1" => \A k \in Is({"webhook"}, m.entries) : operation(m, m.entries[k].value, item(k).params, {})
       /\ \A k \in Is({"parameters"}, m.entries) : parameters(m, <<m.entries[k].value>>, <<>>)
       /\ \A k \in Is({"securitySchemes"}, m.entries) :
              m.entries[k].value.says # "unknown" /\ (m.entries[k].value.says = "mutualTLS" => target # "3.0")

OperationIDPresent(m) == \A k \in Is({"path"}, m.entries) : m.entries[k].value.id # <<>>
OperationIDUnique(m) ==
    \A j, k \in Is({"path"}, m.entries) :
        m.entries[j].value.id = m.entries[k].value.id => j = k \/ m.entries[k].value.id = <<>>
ResponsesDeclared(m) ==
    \A k \in Is({"path"}, m.entries) : m.entries[k].value.statuses # {} /\ "odd" \notin m.entries[k].value.statuses
RECURSIVE reached(_, _)
reached(m, refs) ==
    LET more == refs \cup UNION {walkRefs(k, m.entries[k].value) : k \in Is({"schemas"}, m.entries) \cap refs}
    IN IF more = refs THEN refs ELSE reached(m, more)
NoOrphanComponents(m) ==
    Is({"schemas"}, m.entries) \subseteq
        reached(m, UNION {walkRefs(k, m.entries[k].value) :
                            k \in Is({"path", "responses", "parameters", "requestBodies"}, m.entries)})
runLint(m, rules) ==
    /\ "present" \in rules => OperationIDPresent(m)
    /\ "unique" \in rules => OperationIDUnique(m)
    /\ "responses" \in rules => ResponsesDeclared(m)
    /\ "orphans" \in rules => NoOrphanComponents(m)
DefaultLintRules == {"present", "unique", "responses", "orphans"}

-----------------------------------------------------------------------------

\* config is [policy, info, registry, target, lossy, validate, lint]; registry
\* holds the schemas of the Go types the operations name.
NewParser == [policy |-> "error", info |-> <<>>, registry |-> <<>>, target |-> "3.0", lossy |-> FALSE,
              validate |-> TRUE, lint |-> DefaultLintRules]
applyParserDefaults(m, config) ==
    [m EXCEPT !.info = IF config.info # <<>> THEN config.info ELSE IF @ = <<>> THEN <<"API">> ELSE @]
ReflectKind == 8     \* its place in the order of sources
snapshot(fragments, config) ==
    IF config.registry = <<>> THEN fragments ELSE Append(fragments, NewFragment(ReflectKind, config.registry))
\* What is published: the values, without their sources.
render(m, target) ==
    LET keys == IF target = "3.0" THEN DOMAIN m.entries \ Is({"webhook"}, m.entries) ELSE DOMAIN m.entries
    IN [info |-> m.info, security |-> m.security, servers |-> m.servers, items |-> m.items,
        entries |-> [k \in keys |-> m.entries[k].value], warnings |-> m.warnings]
Compiled(m, config) ==
    LET failed(error) == [error |-> error, conflicts |-> m.conflicts, doc |-> <<>>]
    IN IF m.conflicts # {} THEN failed("conflict")
       ELSE IF ~checkVersionCompatibility(m, config) THEN failed("downgrade")
       ELSE IF ~resolveReferences(m) THEN failed("references")
       ELSE IF config.validate /\ ~validateStructure(m, config.target) THEN failed("structure")
       ELSE IF config.validate /\ ~runLint(m, config.lint) THEN failed("lint")
       ELSE [error |-> "", conflicts |-> {}, doc |-> <<render(m, config.target)>>]
Compile(fragments, config) ==
    Compiled(applyParserDefaults(mergeFragments(snapshot(fragments, config), config.policy), config), config)

-----------------------------------------------------------------------------
(* api/cassetterunner: a cassette's document, fetched under LocalPrefix,   *)
(* is republished under the cassette's own prefix.                         *)

LocalPrefix == <<"v1">>
Prefix(name) == <<"v1", "cassettes">> \o name
componentNamespace(name) == name
NoOptions == [dropped |-> FALSE, namespace |-> <<>>, ids |-> <<>>, paths |-> <<>>, authoritative |-> FALSE]
\* A cassette's document alone, as core would publish it.
publishable(document) ==
    \E converted \in Range(convertPathItems(document)) :
        Compile(applyDocOptions(converted, [NoOptions EXCEPT !.dropped = TRUE]),
                [NewParser EXCEPT !.lint = {"unique", "responses"}, !.lossy = TRUE]).error = ""
republish(document, name) == SelectSeq(RewritePrefix(document, LocalPrefix, Prefix(name)), publishable)

\* base is core's own surface: fragments and the registry their schemas are in.
\* cassettes is a sequence of [name, document], the documents republished.
Document(base, cassettes) ==
    LET options(name) == [NoOptions EXCEPT !.dropped = TRUE, !.namespace = componentNamespace(name), !.ids = componentNamespace(name)]
        fragment(i) == [applyDocOptions(convertPathItems(cassettes[i].document)[1], options(cassettes[i].name))[1] EXCEPT !.prov = i]
    IN Compile(base.fragments \o [i \in DOMAIN cassettes |-> fragment(i)],
               [NewParser EXCEPT !.policy = "last", !.info = <<"Aggregated API surface.">>, !.registry = base.registry,
                                 !.lint = {"present", "unique", "responses"}, !.lossy = TRUE])

-----------------------------------------------------------------------------
(* Fragments of one path and one schema from two sources; documents of two *)
(* operations described in every way, right and wrong; cassettes in pairs. *)

NewOperation(id, says, refs) ==
    [id |-> id, says |-> says, params |-> <<>>, refs |-> refs, statuses |-> {"200"}, security |-> {}, servers |-> FALSE, only31 |-> FALSE]
Component(says, refs) == [says |-> says, refs |-> refs, only31 |-> FALSE]
Schema(name) == <<"schemas", name>>
GetX == <<"path", <<"x">>, "get">>
Contents ==
    <<GetX :> NewOperation(<<"x">>, "a", {}), GetX :> NewOperation(<<"x">>, "b", {}),
      Schema(<<"S">>) :> Component("a", {}),
      (Schema(<<"S">>) :> Component("b", {})) @@ (<<"path", <<"y">>, "get">> :> NewOperation(<<"y">>, "", {Schema(<<"S">>)})),
      <<"path", <<"x">>, "post">> :> NewOperation(<<"px">>, "", {Schema(<<"T">>)}),
      <<>>, <<>>, <<>>>>
Infos == [i \in 1..8 |-> CASE i = 6 -> <<"A">> [] i = 7 -> <<"B">> [] i = 8 -> <<"C">> [] OTHER -> <<>>]
Pool == [i \in 1..16 |->
            LET n == (i + 1) \div 2
            IN [NewFragment(1 + (i % 2), Contents[n]) EXCEPT !.hash = n, !.info = Infos[n], !.authoritative = (n = 8)]]
MergeCases == {[algorithm |-> "merge", fragments |-> <<Pool[a], Pool[b], Pool[d]>>, policy |-> p] :
                  p \in {"error", "first", "last"}, a, b, d \in 1..16}
Ascending(c) == \A i \in 1..2 : <<c.fragments[i].hash, c.fragments[i].prov>> = <<c.fragments[i + 1].hash, c.fragments[i + 1].prov>>
                    \/ c.fragments[i].hash < c.fragments[i + 1].hash
                    \/ (c.fragments[i].hash = c.fragments[i + 1].hash /\ c.fragments[i].prov < c.fragments[i + 1].prov)
MergeOnly(policy) == [NewParser EXCEPT !.policy = policy, !.validate = FALSE]

\* Fragments compile to the same document, or the same conflicts, in whichever
\* order they were registered, two of one source included (mergeFragments: "the
\* order-independence guarantee would hold everywhere except the one case a
\* caller cannot see coming").
OrderNeverMatters(c) == c.algorithm = "merge" =>
    Cardinality({Compile([i \in 1..3 |-> c.fragments[p[i]]], MergeOnly(c.policy)) :
                    p \in {q \in [1..3 -> 1..3] : IsInjective(q)}}) = 1

\* What c comes to where the sources agree, and where they do not.
TellsOf(c, result) ==
    LET given(k) == {f \in Range(c.fragments) : k \in DOMAIN f.entries}
        keys == UNION {DOMAIN f.entries : f \in Range(c.fragments)}
        disputed == {k \in keys : Cardinality({f.entries[k] : f \in given(k)}) > 1}
        before(f, g) == f.prov < g.prov \/ (f.prov = g.prov /\ f.hash < g.hash)
        picked(k) == CHOOSE f \in given(k) : \A g \in given(k) \ {f} : IF c.policy = "first" THEN before(f, g) ELSE before(g, f)
        infos == {f \in Range(c.fragments) : f.info # <<>>}
        winners == {f \in infos : f.authoritative}
        earlier(f, S) == {g \in S : before(g, f)}
        \* The last authoritative info before f, or where there is none the first.
        stands(g, f) == IF earlier(f, winners) # {}
                        THEN g \in earlier(f, winners) /\ \A h \in earlier(f, winners) : ~before(g, h)
                        ELSE g \in earlier(f, infos) /\ \A h \in infos : ~before(h, g)
    IN /\ c.policy = "error" /\ disputed # {} => result.error = "conflict" /\ result.conflicts \ {<<"info">>} = disputed
       /\ result.error = "conflict" => (c.policy = "error" /\ disputed # {}) \/ <<"info">> \in result.conflicts
       /\ <<"info">> \in result.conflicts <=>
              \E f \in infos \ winners : \E g \in infos : stands(g, f) /\ g.info # f.info
       /\ result.error = "" =>
              /\ DOMAIN result.doc[1].entries = keys /\ result.doc[1].warnings = disputed
              /\ \A k \in keys : result.doc[1].entries[k] = picked(k).entries[k]
              /\ \A f \in IF winners = {} THEN infos ELSE winners : result.doc[1].info = f.info

\* A document holds exactly what its fragments contribute.  Where two differ
\* under one key it does not compile and every such key is named; or, if the
\* policy picks, the first or the last in the order of the sources stands and a
\* warning names it.  An info collides with exactly the one that stands when it
\* comes, unless it is authoritative itself: the last authoritative one, which
\* so wins over those before it, and collides with those after it, though it is
\* "the one that wins, rather than colliding" (WithAuthoritativeInfo;
\* ConflictError: "reports every collision at once").
NothingIsShadowed(c) == c.algorithm = "merge" => TellsOf(c, Compile(c.fragments, MergeOnly(c.policy)))

-----------------------------------------------------------------------------

Row == Schema(<<"Row">>)
Cell == Schema(<<"Cell">>)
Answer == <<"responses", <<"Rows">>>>
Key == <<"securitySchemes", <<"key">>>>
IdParam == <<"parameters", <<"Id">>>>
Inline(in, name) == [ref |-> <<>>, in |-> in, name |-> name, required |-> TRUE, refs |-> {}]
ById == [Inline("path", "id") EXCEPT !.refs = {Cell}]
Reference(name) == [ref |-> name, in |-> "", name |-> "", required |-> FALSE, refs |-> {}]
\* How the parameter of the second path is described, on it and on its operation.
Described == [inline |-> <<<<>>, <<ById>>>>, ref |-> <<<<>>, <<Reference(<<"Id">>)>>>>, shared |-> <<<<ById>>, <<>>>>,
              sharedRef |-> <<<<Reference(<<"Id">>)>>, <<Inline("query", "id")>>>>, twice |-> <<<<ById>>, <<Reference(<<"Id">>)>>>>,
              missing |-> <<<<>>, <<>>>>, misspelt |-> <<<<>>, <<Inline("path", "key")>>>>,
              dangling |-> <<<<>>, <<Reference(<<"Gone">>)>>>>, optional |-> <<<<>>, <<[ById EXCEPT !.required = FALSE]>>>>]
\* What the first operation refers to.
Referred == [none |-> {}, chain |-> {Row}, response |-> {Answer}, gone |-> {Schema(<<"Gone">>)}, away |-> {<<"external", <<"Row">>>>}]
Requirements == [none |-> {}, key |-> {{<<"key">>}}, unknown |-> {{<<"nokey">>}}]
Rows == <<"path", <<"v1", "rows">>, "get">>
ById2 == <<"path", <<"v1", "rows", "{id}">>, "get">>
Hook == <<"webhook", <<"changed">>, "post">>
\* One more operation, anonymous, whose path folds to the id of another's.
Twins == [none |-> <<>>, literal |-> <<"path", <<"v1", "rows", "id">>, "get">> :> NewOperation(<<>>, "twin", {}),
          folded |-> <<"path", <<"v1", "row-s">>, "get">> :> NewOperation(<<>>, "twin", {})]
\* A document of d = [id, second, by, refers, security, hook, servers, twin].
Doc(d) ==
    LET first == [NewOperation(d.id, "rows", Referred[d.refers]) EXCEPT !.security = Requirements[d.security], !.servers = d.servers]
        second == [NewOperation(d.second, "row", {}) EXCEPT !.params = Described[d.by][2]]
        hook == NewOperation(<<"hook">>, "hook", {Row})
        entries == (Rows :> first) @@ (ById2 :> second) @@ (IF d.hook THEN Hook :> hook ELSE <<>>) @@ Twins[d.twin]
                   @@ (Row :> Component("row", {Cell})) @@ (Cell :> Component("cell", {})) @@ (Answer :> Component("rows", {Row}))
                   @@ (Key :> Component("apiKey", {})) @@ (IdParam :> ById)
        document == NewFragment(1, entries)
    IN [document EXCEPT !.items[<<"path", ById2[2]>>] = [params |-> Described[d.by][1], servers |-> d.servers],
                        !.servers = d.servers, !.info = <<"own">>, !.security = IF d.security = "key" THEN {{<<"key">>}} ELSE {}]
Docs(ids, described, hooks, servers) ==
    {[id |-> i, second |-> s, by |-> b, refers |-> r, security |-> q, hook |-> h, servers |-> v, twin |-> "none"] :
        i \in ids, s \in {<<>>, <<"read">>}, b \in described, r \in DOMAIN Referred, q \in DOMAIN Requirements, h \in hooks, v \in servers}
Ids == {<<>>, <<"read">>, <<"s", "read">>}
TwinDocs ==
    {[d EXCEPT !.twin = t] : d \in {e \in Docs(Ids, {"inline"}, {FALSE}, {FALSE}) : e.refers = "chain" /\ e.security = "none"}, t \in {"literal", "folded"}}
\* No two operations would be called alike once the anonymous ones have the
\* ids their paths make.
IDsApart(document) ==
    LET id(k) == IF document.entries[k].id = <<>> THEN SynthesizeOperationID(k[3], k[2]) ELSE document.entries[k].id
        named(k) == document.entries[k].id # <<>>
    IN \A j, k \in Is({"path"}, document.entries) : j # k /\ id(j) = id(k) => named(j) /\ named(k)

\* What a client of an operation is told, whatever its parts are called.
RECURSIVE Told(_, _)
Told(entries, refs) ==
    LET more == refs \cup UNION {walkRefs(k, entries[k]) : k \in DOMAIN entries \cap refs}
    IN IF more = refs THEN {entries[k] : k \in DOMAIN entries \cap refs} ELSE Told(entries, more)
Plainly(v) == IF "says" \in DOMAIN v THEN v.says ELSE v.name
Meaning(doc, key) ==
    LET op == doc.entries[key]
        all == doc.items[<<key[1], key[2]>>].params \o op.params
    IN [says |-> op.says,
        refers |-> {Plainly(v) : v \in Told(doc.entries, op.refs \cup UNION {walkParameterRefs(all[i]) : i \in DOMAIN all})},
        inline |-> {<<all[i].in, all[i].name>> : i \in {j \in DOMAIN all : all[j].ref = <<>>}},
        requires |-> {{doc.entries[<<"securitySchemes", s>>].says : s \in r} : r \in op.security}]

NamespaceCases == {[algorithm |-> "namespace", document |-> d] : d \in Docs(Ids, DOMAIN Described, BOOLEAN, {FALSE}) \cup TwinDocs}

\* Two documents that differ by the namespace m and the mount mnt alone.
AlikeMounted(alone, mounted) ==
    LET moved(k) == AtPath(LAMBDA path : <<"mnt">> \o path, k)
    IN /\ alone.error = mounted.error
       /\ alone.error = "" =>
            /\ {moved(k) : k \in Is(Operations, alone.doc[1].entries)} = Is(Operations, mounted.doc[1].entries)
            /\ \A k \in Is(Operations, alone.doc[1].entries) : Meaning(alone.doc[1], k) = Meaning(mounted.doc[1], moved(k))
            /\ \A k \in Is({"schemas", "parameters", "securitySchemes"}, mounted.doc[1].entries) : Head(k[2]) = "m"
Alone(lint) == [NewParser EXCEPT !.target = "3.1", !.lint = lint]

\* A document whose components and operations are given a namespace and whose
\* paths are mounted compiles exactly if it would have alone, and each operation
\* tells a client what it told; this of documents that have no two operations
\* whose paths make one id (namespaceComponents; prefixOperationIDs: "one id per
\* operation that no other document can collide with").
NamespaceKeepsMeaning(c) == c.algorithm = "namespace" /\ IDsApart(Doc(c.document)) =>
    AlikeMounted(Compile(<<Doc(c.document)>>, Alone({"unique", "responses"})),
                 Compile(applyDocOptions(Doc(c.document), [NoOptions EXCEPT !.namespace = <<"m">>, !.ids = <<"m">>, !.paths = <<"mnt">>]),
                         Alone({"present", "unique", "responses"})))

-----------------------------------------------------------------------------

Session == Schema(<<"Session">>)
Base == [fragments |-> <<NewFragment(9, <<"path", <<"v1", "sessions">>, "get">> :> NewOperation(<<"getSessions">>, "sessions", {Session}))>>,
         registry |-> Session :> Component("session", {})]
Neighbour == [id |-> <<"read">>, second |-> <<"s", "read">>, by |-> "ref", refers |-> "chain", security |-> "key", hook |-> TRUE, servers |-> TRUE,
              twin |-> "none"]
AggregateCases(names) ==
    {[algorithm |-> "aggregate", names |-> names, documents |-> <<d, Neighbour>>] :
        d \in Docs(Ids, {"inline", "shared", "missing", "dangling"}, BOOLEAN, BOOLEAN) \cup TwinDocs}
Cassettes(c) ==
    LET published(i) == {[name |-> c.names[i], document |-> out] : out \in Range(republish(Doc(c.documents[i]), c.names[i]))}
    IN SetToSeq(published(1)) \o SetToSeq(published(2))
Solo(cassette) == Compile(<<cassette.document>>, [NewParser EXCEPT !.validate = FALSE, !.lossy = TRUE]).doc[1]

\* The document all says of core and of each cassette what they say themselves.
Serves(all, cassettes) ==
    LET paths(i) == Is({"path"}, cassettes[i].document.entries)
    IN /\ all.error = ""
       /\ Is({"path"}, all.doc[1].entries) =
              Is({"path"}, Base.fragments[1].entries) \cup UNION {paths(i) : i \in DOMAIN cassettes}
       /\ \A i \in DOMAIN cassettes : \A k \in paths(i) :
              /\ IsPrefix(Prefix(cassettes[i].name), k[2]) /\ Meaning(all.doc[1], k) = Meaning(Solo(cassettes[i]), k)
              /\ IsPrefix(cassettes[i].name, all.doc[1].entries[k].id)
       /\ ~all.doc[1].servers /\ \A k \in DOMAIN all.doc[1].items : ~all.doc[1].items[k].servers
       /\ \A k \in Is(Operations, all.doc[1].entries) : ~all.doc[1].entries[k].servers
ServedBy(cassettes) == Serves(Document(Base, cassettes), cassettes)

\* Where no cassette has two operations whose paths make one id, core's own
\* document compiles whatever the cassettes serve, and it describes every
\* operation of core and of each cassette it published, under that cassette's
\* prefix, told as the cassette tells it, with an id no other operation has and
\* no server of the cassette's (Runner.Document; RewritePrefix: "nothing in a
\* republished document may name the cassette's own listener").  Violated for
\* cassettes one of whose names begins the other's.
PublishedIsServed(c) == c.algorithm = "aggregate" =>
    LET cassettes == Cassettes(c)
    IN (\A i \in DOMAIN cassettes : IDsApart(cassettes[i].document)) => ServedBy(cassettes)

\* Where one published cassette has two such operations, "legal in a cassette,
\* because the id prefix names it", core has no document to serve at all
\* (publishable, SynthesizeOperationID, Document).
TwinsFailTheAggregate(c) == c.algorithm = "aggregate" =>
    LET cassettes == Cassettes(c)
    IN (\E i \in DOMAIN cassettes : ~IDsApart(cassettes[i].document)) => Document(Base, cassettes).error # ""
=============================================================================
