------------------------------- MODULE Schemas -------------------------------
(***************************************************************************)
(* pkg/tapesoapi's schemas: what an instance must be to satisfy one        *)
(* (instance.go), how one is written for OpenAPI 3.0 and 3.1               *)
(* (render_schema.go), read (wire.go), refused (structure.go) and bundled  *)
(* with what it refers to (standalone_schema.go).                          *)
(*                                                                         *)
(* An instance is [kind, n, items, fields]: n is twice a number, so an odd *)
(* n is no integer, and the length of a string.  Bounds are twice theirs.  *)
(* Optional keywords are <<>> or <<value>>.                                *)
(***************************************************************************)
EXTENDS Integers, Sequences, FiniteSets

Instance(kind, n) == [kind |-> kind, n |-> n, items |-> <<>>, fields |-> <<>>]
Null == Instance("null", 0)

\* The schema that constrains nothing.
AnyValue == [ref |-> "", type |-> "", nullable |-> FALSE, enum |-> {}, const |-> <<>>, examples |-> FALSE,
             minimum |-> <<>>, maximum |-> <<>>, exclusiveMinimum |-> <<>>, exclusiveMaximum |-> <<>>, multipleOf |-> <<>>,
             minLength |-> <<>>, maxLength |-> <<>>, items |-> <<>>, minItems |-> <<>>, maxItems |-> <<>>, uniqueItems |-> FALSE,
             properties |-> <<>>, required |-> {}, additional |-> <<>>, extras |-> <<>>,
             oneOf |-> <<>>, anyOf |-> <<>>, allOf |-> <<>>, not |-> <<>>]
AtLeast(bound, n) == bound # <<>> => n >= bound[1]
AtMost(bound, n) == bound # <<>> => n <= bound[1]

-----------------------------------------------------------------------------
(* instance.go: TRUE where the code reports no violation.                  *)

stringValue(s, v) == v.kind = "string" /\ AtLeast(s.minLength, v.n) /\ AtMost(s.maxLength, v.n)
numberValue(s, v) ==
    /\ v.kind = "number"
    /\ s.type = "integer" => v.n % 2 = 0
    /\ AtLeast(s.minimum, v.n) /\ AtMost(s.maximum, v.n)
    /\ (s.exclusiveMinimum # <<>> => v.n > s.exclusiveMinimum[1]) /\ (s.exclusiveMaximum # <<>> => v.n < s.exclusiveMaximum[1])
    /\ s.multipleOf # <<>> => s.multipleOf[1] = 0 \/ v.n % s.multipleOf[1] = 0
enumAndConst(s, v) == (s.const # <<>> => v = s.const[1]) /\ (s.enum # {} => v \in s.enum)

RECURSIVE value(_, _, _)
\* schemas holds the components of the document, by name.
arrayValue(schemas, s, v) ==
    /\ v.kind = "array" /\ AtLeast(s.minItems, Len(v.items)) /\ AtMost(s.maxItems, Len(v.items))
    /\ s.uniqueItems => \A i, j \in DOMAIN v.items : i # j => v.items[i] # v.items[j]
    /\ s.items # <<>> => \A i \in DOMAIN v.items : value(schemas, s.items[1], v.items[i])
objectValue(schemas, s, v) ==
    /\ v.kind = "object" /\ s.required \subseteq DOMAIN v.fields
    /\ \A name \in DOMAIN v.fields :
          IF name \in DOMAIN s.properties THEN value(schemas, s.properties[name], v.fields[name])
          ELSE IF s.additional # <<>> THEN value(schemas, s.additional[1], v.fields[name])
          ELSE s.extras # <<FALSE>>
matching(schemas, alternatives, v) == Cardinality({i \in DOMAIN alternatives : value(schemas, alternatives[i], v)})
\* Mutant: one alternative of several is enough.
compositionLoose(schemas, s, v) ==
    /\ \A i \in DOMAIN s.allOf : value(schemas, s.allOf[i], v)
    /\ s.anyOf \o s.oneOf # <<>> => matching(schemas, s.anyOf \o s.oneOf, v) > 0
    /\ s.not # <<>> => ~value(schemas, s.not[1], v)
composition(schemas, s, v) ==
    /\ \A i \in DOMAIN s.allOf : value(schemas, s.allOf[i], v)
    /\ s.anyOf # <<>> => matching(schemas, s.anyOf, v) > 0
    /\ s.oneOf # <<>> => matching(schemas, s.oneOf, v) = 1
    /\ s.not # <<>> => ~value(schemas, s.not[1], v)
untyped(schemas, s, v) ==
    CASE v.kind = "string" -> stringValue(s, v) [] v.kind = "number" -> numberValue(s, v)
      [] v.kind = "array" -> arrayValue(schemas, s, v) [] v.kind = "object" -> objectValue(schemas, s, v) [] OTHER -> TRUE
\* Null is judged by the type alone.
value(schemas, s, v) ==
    IF s.ref # "" THEN s.ref \in DOMAIN schemas /\ value(schemas, schemas[s.ref], v)
    ELSE IF v.kind = "null" THEN s.nullable \/ s.type \in {"", "null"}
    ELSE /\ enumAndConst(s, v) /\ composition(schemas, s, v)
         /\ CASE s.type = "string" -> stringValue(s, v) [] s.type \in {"integer", "number"} -> numberValue(s, v)
              [] s.type = "boolean" -> v.kind = "boolean" [] s.type = "array" -> arrayValue(schemas, s, v)
              [] s.type = "object" -> objectValue(schemas, s, v) [] s.type = "null" -> FALSE
              [] OTHER -> untyped(schemas, s, v)

-----------------------------------------------------------------------------
(* render_schema.go and wire.go: on the wire a type is a name or a list,   *)
(* and an exclusive bound is a flag or a number.                           *)

Each(f, Op(_)) == [i \in DOMAIN f |-> Op(f[i])]
children(s) ==
    s.items \o s.not \o s.additional \o s.oneOf \o s.anyOf \o s.allOf
RECURSIVE uses31Only(_)
uses31Only(s) ==
    (IF s.const # <<>> THEN {"const"} ELSE {}) \cup (IF s.type = "null" THEN {"null type"} ELSE {})
    \cup (IF s.examples THEN {"examples"} ELSE {})
    \cup UNION ({uses31Only(children(s)[i]) : i \in DOMAIN children(s)} \cup {uses31Only(s.properties[n]) : n \in DOMAIN s.properties})

\* A type on the wire: one name, a list of them, or none.
One(t, nullable) == [single |-> TRUE, types |-> <<t>>, nullable |-> nullable]
Listed(types, nullable) == [single |-> FALSE, types |-> types, nullable |-> nullable]
renderSchemaType(s, target) ==
    IF s.type = "" THEN Listed(<<>>, FALSE)
    ELSE IF target = "3.1" THEN (IF s.nullable THEN Listed(<<s.type, "null">>, FALSE) ELSE One(s.type, FALSE))
    ELSE IF s.type = "null" THEN Listed(<<>>, TRUE)
    ELSE One(s.type, s.nullable)
Flag == [flag |-> TRUE, n |-> 0]
Number(n) == [flag |-> FALSE, n |-> n]
\* Mutant: for 3.0 the bound is written and the flag is not.
renderNoFlag(s, target) ==
    [minimum |-> IF target = "3.0" /\ s.exclusiveMinimum # <<>> THEN s.exclusiveMinimum ELSE s.minimum,
     maximum |-> IF target = "3.0" /\ s.exclusiveMaximum # <<>> THEN s.exclusiveMaximum ELSE s.maximum,
     above |-> IF target = "3.0" THEN <<>> ELSE Each(s.exclusiveMinimum, Number),
     below |-> IF target = "3.0" THEN <<>> ELSE Each(s.exclusiveMaximum, Number)]
\* For 3.0 an exclusive bound takes the place of the inclusive one.
renderNumericBounds(s, target) ==
    LET flagged(bound) == IF bound = <<>> THEN <<>> ELSE IF target = "3.0" THEN <<Flag>> ELSE <<Number(bound[1])>>
    IN [minimum |-> IF target = "3.0" /\ s.exclusiveMinimum # <<>> THEN s.exclusiveMinimum ELSE s.minimum,
        maximum |-> IF target = "3.0" /\ s.exclusiveMaximum # <<>> THEN s.exclusiveMaximum ELSE s.maximum,
        above |-> flagged(s.exclusiveMinimum), below |-> flagged(s.exclusiveMaximum)]
\* A constant is for 3.0 an enum of one, where there is none.
renderConst(s, target) ==
    IF s.const = <<>> \/ target = "3.1" THEN [enum |-> s.enum, const |-> s.const]
    ELSE [enum |-> IF s.enum = {} THEN {s.const[1]} ELSE s.enum, const |-> <<>>]
RECURSIVE renderSchema(_, _)
renderSchema(s, target) ==
    LET one(child) == renderSchema(child, target)
    IN [plain |-> s, type |-> renderSchemaType(s, target), bounds |-> renderNumericBounds(s, target), fixed |-> renderConst(s, target),
        items |-> IF s.items = <<>> /\ s.type = "array" /\ target = "3.0" THEN <<one(AnyValue)>> ELSE Each(s.items, one),
        properties |-> [n \in DOMAIN s.properties |-> one(s.properties[n])],
        additional |-> Each(s.additional, one), extras |-> IF s.additional # <<>> THEN <<>> ELSE s.extras,
        oneOf |-> Each(s.oneOf, one), anyOf |-> Each(s.anyOf, one), allOf |-> Each(s.allOf, one), not |-> Each(s.not, one)]

\* A null among the members of a list is the nullable flag; alone it is a type.
decodeType(wire) ==
    LET named == SelectSeq(wire.types, LAMBDA t : t # "null")
    IN IF wire.single THEN [type |-> wire.types[1], nullable |-> wire.nullable]
       ELSE [type |-> IF named = <<>> THEN "" ELSE named[1], nullable |-> wire.nullable \/ Len(named) < Len(wire.types)]
decodeExclusiveBounds(wire) ==
    LET flagged(mark) == mark # <<>> /\ mark[1].flag
        bound(mark, inclusive) == IF flagged(mark) THEN inclusive ELSE IF mark = <<>> THEN <<>> ELSE <<mark[1].n>>
    IN [minimum |-> IF flagged(wire.above) THEN <<>> ELSE wire.minimum, maximum |-> IF flagged(wire.below) THEN <<>> ELSE wire.maximum,
        exclusiveMinimum |-> bound(wire.above, wire.minimum), exclusiveMaximum |-> bound(wire.below, wire.maximum)]
RECURSIVE schema(_)
\* What is read back; the keywords both versions spell alike are in plain.
schema(wire) ==
    LET type == decodeType(wire.type)
        bounds == decodeExclusiveBounds(wire.bounds)
    IN IF wire.plain.ref # "" THEN [AnyValue EXCEPT !.ref = wire.plain.ref]
       ELSE [wire.plain EXCEPT !.type = type.type, !.nullable = type.nullable, !.enum = wire.fixed.enum, !.const = wire.fixed.const,
                !.minimum = bounds.minimum, !.maximum = bounds.maximum,
                !.exclusiveMinimum = bounds.exclusiveMinimum, !.exclusiveMaximum = bounds.exclusiveMaximum,
                !.items = Each(wire.items, schema), !.properties = [n \in DOMAIN wire.properties |-> schema(wire.properties[n])],
                !.additional = Each(wire.additional, schema), !.extras = wire.extras, !.not = Each(wire.not, schema),
                !.oneOf = Each(wire.oneOf, schema), !.anyOf = Each(wire.anyOf, schema), !.allOf = Each(wire.allOf, schema)]

-----------------------------------------------------------------------------
(* structure.go                                                            *)

\* Mutant: bounds that meet are refused.
boundsStrict(s) ==
    LET apart(low, high) == low # <<>> /\ high # <<>> => low[1] < high[1]
    IN apart(s.minimum, s.maximum) /\ apart(s.minLength, s.maxLength) /\ apart(s.minItems, s.maxItems)
bounds(s) ==
    LET ordered(low, high) == low # <<>> /\ high # <<>> => low[1] <= high[1]
    IN /\ s.multipleOf # <<>> => s.multipleOf[1] > 0
       /\ ordered(s.minimum, s.maximum) /\ ordered(s.minLength, s.maxLength) /\ ordered(s.minItems, s.maxItems)
RECURSIVE checkSchema(_)
checkSchema(s) ==
    s.ref # "" \/ /\ bounds(s)
                  /\ \A i \in DOMAIN children(s) : checkSchema(children(s)[i])
                  /\ \A n \in DOMAIN s.properties : checkSchema(s.properties[n])

-----------------------------------------------------------------------------
(* standalone_schema.go: a schema here is the set of what it refers to.    *)

RECURSIVE rewriteAll(_, _, _)
\* Mutant: a component is taken as it is.
rewriteShallow(components, refs, bundle) ==
    [ok |-> bundle.ok /\ refs \subseteq DOMAIN components, defs |-> bundle.defs \cup (refs \cap DOMAIN components)]
\* A component is entered before it is rewritten, so a cycle ends.
rewriteAll(components, refs, bundle) ==
    IF refs = {} \/ ~bundle.ok THEN bundle
    ELSE LET name == CHOOSE r \in refs : TRUE
             entered == [bundle EXCEPT !.defs = @ \cup {name}]
         IN IF name \notin DOMAIN components THEN [bundle EXCEPT !.ok = FALSE]
            ELSE rewriteAll(components, refs \ {name},
                            IF name \in bundle.defs THEN bundle ELSE rewriteAll(components, components[name], entered))
standaloneSchema(components, refs) == rewriteAll(components, refs, [ok |-> TRUE, defs |-> {}])

-----------------------------------------------------------------------------
(* Every kind of schema over one another, instances of every kind, and     *)
(* what must hold of them.                                                 *)

Text(n) == Instance("string", n)
Num(n) == Instance("number", n)
Arr(items) == [Instance("array", 0) EXCEPT !.items = items]
Obj(fields) == [Instance("object", 0) EXCEPT !.fields = fields]
Instances ==
    {Null, Instance("boolean", 1)} \cup {Text(n) : n \in 0..2} \cup {Num(n) : n \in 0..5}
    \cup {Arr(<<>>), Arr(<<Num(2)>>), Arr(<<Num(2), Num(2)>>), Arr(<<Null, Text(1)>>)}
    \cup {Obj(<<>>), Obj([p |-> Num(2)]), Obj([p |-> Null]), Obj([q |-> Text(1)]), Obj([p |-> Num(3), q |-> Text(0)])}

Typed(t) == [AnyValue EXCEPT !.type = t]
Scalars ==
    {[Typed(t) EXCEPT !.nullable = n] : t \in {"", "string", "integer", "number", "boolean", "null"}, n \in BOOLEAN}
Option(S) == {<<>>} \cup {<<x>> : x \in S}
Bounded ==
    {[Typed(t) EXCEPT !.minimum = a, !.maximum = b, !.exclusiveMinimum = x, !.exclusiveMaximum = y] :
        t \in {"", "number"}, a \in Option({2, 4}), b \in Option({1, 4}), x \in Option({2}), y \in Option({3})}
    \cup {[Typed("string") EXCEPT !.minLength = a, !.maxLength = b] : a \in Option({1, 2}), b \in Option({1})}
    \cup {[Typed("number") EXCEPT !.multipleOf = <<m>>] : m \in {0, 2}}
Fixed == {[Typed(t) EXCEPT !.enum = e, !.const = k, !.examples = x] :
             t \in {"", "number"}, e \in {{}, {Num(2), Text(1)}}, k \in Option({Num(2), Num(3), Null}), x \in BOOLEAN}
Parts == Scalars \cup Fixed \cup {[Typed("number") EXCEPT !.exclusiveMinimum = <<2>>], [AnyValue EXCEPT !.ref = "Row"], Typed("array"),
                                  [Typed("object") EXCEPT !.required = {"p"}]}
Composed ==
    {[AnyValue EXCEPT !.oneOf = <<a, b>>] : a, b \in Parts} \cup {[AnyValue EXCEPT !.anyOf = <<a, b>>] : a, b \in Parts}
    \cup {[AnyValue EXCEPT !.allOf = <<a, b>>] : a, b \in Parts} \cup {[Typed(t) EXCEPT !.not = <<a>>] : t \in {"", "string"}, a \in Parts}
Held ==
    {[Typed("array") EXCEPT !.items = <<a>>, !.minItems = n, !.maxItems = m, !.uniqueItems = u] :
        a \in Parts, n \in Option({1, 2}), m \in Option({1}), u \in BOOLEAN}
    \cup {[Typed(t) EXCEPT !.properties = [p |-> a], !.required = r, !.additional = d, !.extras = x] :
        t \in {"", "object"}, a \in Parts, r \in {{}, {"p"}}, d \in Option({Typed("string")}), x \in Option(BOOLEAN)}
Components == [Row |-> [Typed("object") EXCEPT !.properties = [p |-> Typed("number")], !.extras = <<FALSE>>]]
SchemaCases == {[algorithm |-> "schema", schema |-> s] : s \in Scalars \cup Bounded \cup Fixed \cup Composed \cup Held}

Accepted(s) == {v \in Instances : value(Components, s, v)}

RECURSIVE Admits(_, _)
\* The same, said of the set of instances a schema admits.
Admits(s, V) ==
    LET kinds(t) == IF t = "" THEN {"null", "boolean", "number", "string", "array", "object"}
                    ELSE IF t = "integer" THEN {"number"} ELSE {t}
        among(ss, v) == {i \in DOMAIN ss : v \in Admits(ss[i], {v})}
        keeps(v) ==
            /\ v.kind \in {"number"} =>
                  /\ s.type = "integer" => \E k \in -9..9 : v.n = 2 * k
                  /\ \A m \in {s.minimum[i] : i \in DOMAIN s.minimum} : ~(v.n < m)
                  /\ \A m \in {s.maximum[i] : i \in DOMAIN s.maximum} : ~(v.n > m)
                  /\ <<v.n>> \notin {s.exclusiveMinimum, s.exclusiveMaximum}
                  /\ \A m \in {s.exclusiveMinimum[i] : i \in DOMAIN s.exclusiveMinimum} : ~(v.n < m)
                  /\ \A m \in {s.exclusiveMaximum[i] : i \in DOMAIN s.exclusiveMaximum} : ~(v.n > m)
                  /\ s.multipleOf # <<>> => \E k \in -9..9 : v.n = k * s.multipleOf[1]
            /\ v.kind = "string" => \A m \in {s.minLength[i] : i \in DOMAIN s.minLength} : v.n >= m
            /\ v.kind = "string" => \A m \in {s.maxLength[i] : i \in DOMAIN s.maxLength} : v.n <= m
            /\ v.kind = "array" =>
                  /\ \A m \in {s.minItems[i] : i \in DOMAIN s.minItems} : Len(v.items) >= m
                  /\ \A m \in {s.maxItems[i] : i \in DOMAIN s.maxItems} : Len(v.items) <= m
                  /\ s.uniqueItems => Cardinality({v.items[i] : i \in DOMAIN v.items}) = Len(v.items)
                  /\ \A i \in DOMAIN v.items, j \in DOMAIN s.items : v.items[i] \in Admits(s.items[j], {v.items[i]})
            /\ v.kind = "object" =>
                  /\ \A n \in s.required : n \in DOMAIN v.fields
                  /\ \A n \in DOMAIN v.fields \cap DOMAIN s.properties : v.fields[n] \in Admits(s.properties[n], {v.fields[n]})
                  /\ \A n \in DOMAIN v.fields \ DOMAIN s.properties :
                        IF s.additional = <<>> THEN s.extras = <<>> \/ s.extras[1] ELSE v.fields[n] \in Admits(s.additional[1], {v.fields[n]})
            /\ s.enum = {} \/ v \in s.enum
            /\ s.const \in {<<>>, <<v>>}
            /\ among(s.allOf, v) = DOMAIN s.allOf /\ (s.anyOf = <<>> \/ among(s.anyOf, v) # {})
            /\ s.oneOf = <<>> \/ \E i \in DOMAIN s.oneOf : among(s.oneOf, v) = {i}
            /\ among(s.not, v) = {}
    IN IF s.ref # "" THEN Admits(Components[s.ref], V)
       ELSE {v \in V : IF v.kind = "null" THEN s.nullable \/ "null" \in kinds(s.type) ELSE v.kind \in kinds(s.type) /\ keeps(v)}

\* An instance passes exactly if the schema, read keyword by keyword, admits
\* it, with the combinators, the references and the items below; null is judged
\* by the type alone (CompiledDoc.ValidateInstance).  multipleOf 0 is no bound.
ValidatesAsWritten(c) == c.algorithm = "schema" /\ c.schema.multipleOf # <<0>> => Accepted(c.schema) = Admits(c.schema, Instances)

RECURSIVE TwoBounds(_)
TwoBounds(s) == \/ s.minimum # <<>> /\ s.exclusiveMinimum # <<>>
                \/ s.maximum # <<>> /\ s.exclusiveMaximum # <<>>
                \/ \E i \in DOMAIN children(s) : TwoBounds(children(s)[i])
                \/ \E n \in DOMAIN s.properties : TwoBounds(s.properties[n])
ReadBack(s, target) == schema(renderSchema(s, target))

RECURSIVE NullOrNull(_)
\* The type null, nullable, anywhere in a schema.
NullOrNull(s) == \/ s.type = "null" /\ s.nullable
                 \/ \E i \in DOMAIN children(s) : NullOrNull(children(s)[i])
                 \/ \E n \in DOMAIN s.properties : NullOrNull(s.properties[n])

\* A schema written and read back accepts what it accepted, in 3.1 and, where a
\* downgrade is not refused, in 3.0, with two exceptions: a nullable null, which
\* is written for 3.1 as a list of nulls, comes back without a type and accepts
\* everything; and of an inclusive and an exclusive bound on one side 3.0 keeps
\* only the exclusive one, so that it accepts as much or more
\* (renderer.schema; uses31Only: "rather than silently dropping it").
ReadsWhatItWrote(c) == c.algorithm = "schema" =>
    /\ IF NullOrNull(c.schema) THEN c.schema.type = "null" => Accepted(ReadBack(c.schema, "3.1")) = Instances
       ELSE Accepted(ReadBack(c.schema, "3.1")) = Accepted(c.schema)
    /\ uses31Only(c.schema) = {} /\ ~TwoBounds(c.schema) => Accepted(ReadBack(c.schema, "3.0")) = Accepted(c.schema)
    /\ uses31Only(c.schema) = {} => Accepted(c.schema) \subseteq Accepted(ReadBack(c.schema, "3.0"))

\* A schema refused for its bounds admits no instance of the kind they bound,
\* and bounds that only meet are not refused (structure.bounds: "a schema no
\* instance can satisfy").
RefusedIsEmpty(c) == c.algorithm = "schema" /\ c.schema.items = <<>> /\ c.schema.multipleOf # <<0>> =>
    LET met(low, high) == low # <<>> /\ low = high
    IN /\ ~bounds(c.schema) => {v \in Accepted(c.schema) : v.kind \in {"number", "string", "array"} /\ c.schema.type # ""} = {}
       /\ met(c.schema.minimum, c.schema.maximum) \/ met(c.schema.minLength, c.schema.maxLength) => checkSchema(c.schema)

BundleCases == {[algorithm |-> "bundle", components |-> f, refs |-> r] :
                   f \in UNION {[D -> SUBSET {"a", "b", "c"}] : D \in SUBSET {"a", "b", "c"}}, r \in SUBSET {"a", "b", "c"}}
\* A request schema bundled for use alone carries every component it reaches,
\* through cycles too, and no other; where one is missing there is no bundle
\* (StandaloneRequestSchema: "with every reachable OpenAPI component").
BundleIsClosed(c) == c.algorithm = "bundle" =>
    LET bundle == standaloneSchema(c.components, c.refs)
        defined == DOMAIN c.components
        closed(S) == c.refs \subseteq S /\ \A n \in S \cap defined : c.components[n] \subseteq S
        reach == CHOOSE S \in SUBSET {"a", "b", "c"} : closed(S) /\ \A T \in SUBSET S : closed(T) => T = S
    IN /\ bundle.ok <=> reach \subseteq defined
       /\ bundle.ok => bundle.defs = reach
=============================================================================
