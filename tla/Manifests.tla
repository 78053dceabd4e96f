------------------------------- MODULE Manifests -------------------------------
(***************************************************************************)
(* What a cassette declares of itself (pkg/cassette): how the document is  *)
(* read, what is wrong with it, its canonical form, whose bytes are hashed *)
(* to its digest, and what it is granted.                                  *)
(*                                                                         *)
(* A string is a sequence of tokens, each a character or a word of lower   *)
(* case letters; a JSON object is the sequence of its pairs when it is     *)
(* read and a function when it is written.  Bounds on lengths and the form  *)
(* of a homepage, an image and a source digest are left out.               *)
(***************************************************************************)
EXTENDS Integers, SequencesExt

Tokens == <<"-", ".", "/", "1", "?", "A", "_", "a", "b", "pg", "public", "raw_turns", "tapes">>
Letters == {"a", "b", "pg", "public", "raw_turns", "tapes"}
Alphanumeric == Letters \cup {"1"}

\* Byte order of the strings.
Rank(t) == CHOOSE i \in DOMAIN Tokens : Tokens[i] = t
Less(x, y) ==
    \/ IsStrictPrefix(x, y)
    \/ \E i \in DOMAIN x \cap DOMAIN y :
          SubSeq(x, 1, i - 1) = SubSeq(y, 1, i - 1) /\ Rank(x[i]) < Rank(y[i])
Sorted(strings) == SortSeq(strings, Less)

\* The pieces of a string between separators.
Pieces(s, separator) ==
    LET cuts == {0, Len(s) + 1} \cup {i \in DOMAIN s : s[i] = separator}
        next(i) == CHOOSE j \in cuts : j > i /\ \A k \in cuts : k > i => j <= k
    IN  {SubSeq(s, i + 1, next(i) - 1) : i \in cuts \ {Len(s) + 1}}
Trimmed(s) ==
    LET inside == {i \in DOMAIN s : s[i] # "/"} IN
    IF inside = {} THEN <<>>
    ELSE SubSeq(s, CHOOSE i \in inside : \A j \in inside : i <= j, CHOOSE i \in inside : \A j \in inside : j <= i)

-----------------------------------------------------------------------------
(* Reading.  A key may be spelt in another case, which encoding/json        *)
(* accepts, and be repeated, where the last value counts; null assigns      *)
(* nothing.                                                                 *)

Kind == "cassette"
Null == [tag |-> "null"]
Atom(v) == [tag |-> "atom", value |-> v]
Object(pairs) == [tag |-> "object", pairs |-> pairs]

RECURSIVE KeysOnce(_)
KeysOnce(v) ==
    v.tag = "object" =>
        /\ \A i, j \in DOMAIN v.pairs : v.pairs[i].key = v.pairs[j].key => i = j
        /\ \A i \in DOMAIN v.pairs : KeysOnce(v.pairs[i].value)

Decoded(v, name) ==
    LET at == IF v.tag = "object" THEN {i \in DOMAIN v.pairs : v.pairs[i].key.name = name /\ v.pairs[i].value # Null} ELSE {}
    IN  IF at = {} THEN Null ELSE v.pairs[CHOOSE i \in at : \A j \in at : j <= i].value

\* Mutant: keys are compared the way encoding/json compares them.
checkAnyCase(v, allowed) ==
    v.tag = "object" => \A i \in DOMAIN v.pairs : v.pairs[i].key.name \in allowed
checkObjectKeys(v, allowed) ==
    v.tag = "object" => \A i \in DOMAIN v.pairs : v.pairs[i].key.exact /\ v.pairs[i].key.name \in allowed
validateMetadataKeys(root) ==
    /\ checkObjectKeys(root, {"kind", "cassette", "depends", "api", "tables", "config", "x-source-digest"})
    /\ \A i \in DOMAIN root.pairs : root.pairs[i].key.name = "api" =>
          checkObjectKeys(root.pairs[i].value, {"health", "openapi", "prefix_path"})

Parses(document) ==
    /\ KeysOnce(document.root) /\ ~document.trailing
    /\ Decoded(document.root, "kind") = Atom(Kind)
    /\ validateMetadataKeys(document.root)

Or(v, default) == IF v \in {Null, Atom(<<>>)} THEN default ELSE v.value
\* The anchors of a document that parses, with their defaults.
Anchors(document) ==
    LET api == Decoded(document.root, "api") IN
    [health |-> Or(Decoded(api, "health"), <<"/", "a">>), prefix |-> Or(Decoded(api, "prefix_path"), <<"a">>)]

-----------------------------------------------------------------------------
(* Validation: the fields something is wrong with.                          *)

Identifier(s) == s # <<>> /\ s[1] \in Letters /\ Range(s) \subseteq Alphanumeric \cup {"_"}
Audience(s) == s # <<>> /\ s[1] \in Letters /\ Range(s) \subseteq Alphanumeric \cup {"_", "-"}
SettingKey(s) == \A piece \in Pieces(s, ".") : Identifier(piece)
EnvVar(key) ==
    LET upper == [t \in {"a", "b"} |-> IF t = "a" THEN "A" ELSE "B"] IN
    [i \in DOMAIN key |-> CASE key[i] \in {".", "-"} -> "_" [] key[i] \in DOMAIN upper -> upper[key[i]] [] OTHER -> key[i]]

\* A name of one character has no end that is not its start.
ParsesAsName(s) ==
    /\ s \notin {<<"public">>, <<"tapes">>} /\ ~IsPrefix(<<"pg", "_">>, s)
    /\ s \notin {<<>>, <<"a">>, <<"b">>} /\ s[1] \in Letters /\ Last(s) \in Alphanumeric
    /\ Range(s) \subseteq Alphanumeric \cup {"-"}

APIPath(s) ==
    /\ s # <<>> /\ s[1] = "/" /\ ~IsPrefix(<<"/", "/">>, s) /\ "?" \notin Range(s)
    /\ Pieces(s, "/") \cap {<<".">>, <<".", ".">>} = {}
PrefixPath(s) == Trimmed(s)
ValidPrefix(s) ==
    IF PrefixPath(s) = <<>> THEN s = <<"/">>
    ELSE \A piece \in Pieces(PrefixPath(s), "/") :
            piece # <<>> /\ piece[1] \in Alphanumeric /\ Range(piece) \subseteq Alphanumeric \cup {"_", "-"}

NoValue == [type |-> "none"]
Types == {"string", "int", "bool", "duration", "json"}
\* A value has the JSON type it is written in, and a string may read as a
\* duration or as JSON.
TypedValue(setting, v) ==
    CASE setting.type = "string" -> v.type = "string" /\ (setting.enum # <<>> => v.value \in Range(setting.enum))
      [] setting.type = "int" -> /\ v.type = "integer"
                                 /\ setting.min # NoValue => v.value >= setting.min.value
                                 /\ setting.max # NoValue => v.value <= setting.max.value
      [] setting.type = "bool" -> v.type = "bool"
      [] setting.type = "duration" -> v.type = "string" /\ v.value = <<"1", "a">>
      [] setting.type = "json" -> v.type = "string" /\ v.value = <<"1">>

\* Mutant: only the keys have to differ.
KeysDiffer(settings) == \A i, j \in DOMAIN settings : settings[i].key = settings[j].key => i = j
Projected(settings) == \A i, j \in DOMAIN settings : EnvVar(settings[i].key) = EnvVar(settings[j].key) => i = j
Distinct(s) == \A i, j \in DOMAIN s : s[i] = s[j] => i = j

ValidSetting(s) ==
    /\ SettingKey(s.key) /\ s.type \in Types
    /\ s.secret => s.default = NoValue
    /\ s.enum # <<>> => s.type = "string"
    /\ Distinct(s.enum)
    /\ (s.min # NoValue \/ s.max # NoValue) => s.type = "int"
    /\ s.min # NoValue /\ s.max # NoValue => s.min.value <= s.max.value
    /\ s.default # NoValue => TypedValue(s, s.default)

\* An image needs the port it serves, and the port an image.
ValidPackaging(m) == m.image # "image " /\ (m.image = "") = (m.port = 0) /\ m.port \in 0..65535

Supported == {"v1"}
Valid(m) ==
    /\ ParsesAsName(m.name) /\ m.version # "" /\ m.core \in Supported /\ ValidPackaging(m)
    /\ \A i \in DOMAIN m.views : Identifier(m.views[i]) /\ m.views[i] # <<"raw_turns">>
    /\ \A i \in DOMAIN m.audience : Audience(m.audience[i])
    /\ \A i \in DOMAIN m.tables : Identifier(m.tables[i])
    /\ Distinct(m.views) /\ Distinct(m.audience) /\ Distinct(m.tables)
    /\ APIPath(m.health) /\ ValidPrefix(m.prefix)
    /\ \A i \in DOMAIN m.config : ValidSetting(m.config[i])
    /\ Projected(m.config)

-----------------------------------------------------------------------------
(* The canonical form, whose bytes are the digest's, and the grants.        *)

ApplyDefaults(m) ==
    [m EXCEPT !.health = IF @ = <<>> THEN <<"/", "a">> ELSE @, !.prefix = IF @ = <<>> THEN <<"a">> ELSE @]

\* The members of a record that differ from their zero value, and those
\* without one.
Written(record, zero) ==
    [k \in {k \in DOMAIN record : k \in DOMAIN zero => record[k] # zero[k]} |-> record[k]]

canonicalSetting(setting) ==
    Written([setting EXCEPT !.enum = Sorted(@)],
            [required |-> FALSE, default |-> NoValue, secret |-> FALSE, enum |-> <<>>, min |-> NoValue, max |-> NoValue])
\* Mutant: the settings are written in the order they were declared in.
canonicalInOrder(config) == [i \in DOMAIN config |-> canonicalSetting(config[i])]
canonicalConfig(config) ==
    LET byKey == SortSeq(config, LAMBDA x, y : Less(x.key, y.key)) IN
    [i \in DOMAIN byKey |-> canonicalSetting(byKey[i])]

MarshalCanonical(m) ==
    Written([ApplyDefaults(m) EXCEPT !.audience = Sorted(@), !.views = Sorted(@), !.tables = Sorted(@),
                                     !.config = canonicalConfig(@)],
            [audience |-> <<>>, views |-> <<>>, tables |-> <<>>, config |-> <<>>, image |-> "", port |-> 0])
Redact(m) ==
    [m EXCEPT !.config = [i \in DOMAIN @ |-> IF @[i].secret THEN [@[i] EXCEPT !.default = NoValue] ELSE @[i]]]

GrantPlan(m) ==
    [role |-> <<"cassette_">> \o m.name, schema |-> m.name,
     selects |-> {[schema |-> <<"tapes", "_", m.core>>, view |-> m.views[i]] : i \in DOMAIN m.views},
     tables |-> Range(m.tables)]

-----------------------------------------------------------------------------
(* Documents and declarations a cassette may serve, and what must hold of  *)
(* those core accepts.                                                     *)

Of(algorithm, input) == input.algorithm = algorithm
Strings(S, n) == UNION {[1..k -> S] : k \in 0..n}

-----------------------------------------------------------------------------
(* Documents: keys repeated, in another case, unknown, and null.            *)

Key(name) == [name |-> name, exact |-> TRUE]
OtherCase(name) == [name |-> name, exact |-> FALSE]
Pair(key, value) == [key |-> key, value |-> value]

AnchorPairs == {Pair(Key("health"), Atom(<<"/", "b">>)), Pair(Key("health"), Null), Pair(OtherCase("health"), Atom(<<"/", "1">>)),
                Pair(Key("prefix_path"), Atom(<<"/">>)), Pair(Key("unknown"), Atom(<<"b">>))}
Kinds == {Pair(Key("kind"), Atom(Kind)), Pair(OtherCase("kind"), Atom("another")), Pair(Key("kind"), Atom("another"))}
Apis(n) == {Pair(Key("api"), Object(pairs)) : pairs \in Strings(AnchorPairs, n)} \cup {Pair(Key("api"), Null)}
Roots == {<<k, a>> : k \in Kinds, a \in Apis(2)}
         \cup [1..3 -> Kinds \cup Apis(1) \cup {Pair(OtherCase("api"), Object(<<>>)), Pair(Key("unknown"), Null)}]
DocumentCases ==
    {[algorithm |-> "manifest", document |-> [root |-> Object(r), trailing |-> t]] : r \in Roots, t \in BOOLEAN}

\* Core reads of a document what its author wrote in it, every key exactly and
\* nothing besides: none is skipped, and none counts instead of another
\* (rejectDuplicateMetadataKeys, validateMetadataKeys).
ParsedAsWritten(input) ==
    Of("manifest", input) /\ Parses(input.document) =>
        LET root == input.document.root
            known == Anchors(input.document)
        IN  /\ \A i \in DOMAIN root.pairs : root.pairs[i].key = Key("kind") => root.pairs[i].value = Atom(Kind)
            /\ \A i \in DOMAIN root.pairs : root.pairs[i].value.tag = "object" =>
                  \A j \in DOMAIN root.pairs[i].value.pairs :
                      LET pair == root.pairs[i].value.pairs[j] IN
                      pair \in {Pair(Key("health"), Atom(known.health)), Pair(Key("prefix_path"), Atom(known.prefix))}
                      \/ pair.value = Null
            /\ \A i \in DOMAIN root.pairs : root.pairs[i].key \in {Key("kind"), Key("api")}

-----------------------------------------------------------------------------
(* Declarations.                                                            *)

Integer(n) == [type |-> "integer", value |-> n]
String(s) == [type |-> "string", value |-> s]
Plain == [key |-> <<"a">>, type |-> "string", required |-> FALSE, default |-> NoValue, secret |-> FALSE,
          enum |-> <<>>, min |-> NoValue, max |-> NoValue]
Base == [name |-> <<"a", "b">>, version |-> "1", core |-> "v1", image |-> "", port |-> 0, audience |-> <<>>,
         views |-> <<>>, health |-> <<>>, prefix |-> <<>>, tables |-> <<>>, config |-> <<>>]

ConfigKeys == {<<"a">>, <<"b">>, <<"a", ".", "b">>, <<"a", "_", "b">>, <<"A">>, <<"a", ".">>}
Defaults == {NoValue, Integer(0), Integer(1), String(<<"a">>), String(<<"1", "a">>), [type |-> "bool", value |-> TRUE]}
Settings ==
    {[Plain EXCEPT !.type = t, !.default = d, !.secret = s] : t \in Types \cup {"text"}, d \in Defaults, s \in BOOLEAN}
    \cup {[Plain EXCEPT !.type = t, !.min = l, !.max = h, !.default = d] :
             t \in {"int", "string"}, l, h \in {NoValue, Integer(0), Integer(1)}, d \in {NoValue, Integer(1)}}
    \cup {[Plain EXCEPT !.enum = e, !.default = d] : e \in Strings({<<"a">>, <<"b">>}, 2), d \in {NoValue, String(<<"a">>)}}
    \cup {[Plain EXCEPT !.key = k] : k \in ConfigKeys}

Manifests ==
    {[Base EXCEPT !.name = n] : n \in Strings({"a", "1", "-", "pg", "_", "public", "tapes"}, 3)}
    \cup {[Base EXCEPT !.image = i, !.port = p] : i \in {"", "image", "image "}, p \in {-1, 0, 80, 70000}}
    \cup {[Base EXCEPT !.health = h] : h \in Strings({"/", "a", ".", "?"}, 3)}
    \cup {[Base EXCEPT !.prefix = x, !.views = v] : x \in Strings({"/", "a", "."}, 3), v \in Strings({<<"a">>, <<"raw_turns">>}, 1)}
    \cup {[Base EXCEPT !.config = <<s>>] : s \in Settings}
    \cup {[Base EXCEPT !.config = <<[Plain EXCEPT !.key = k], [Plain EXCEPT !.key = l]>>] : k, l \in ConfigKeys}
DeclarationCases == {[algorithm |-> "declaration", manifest |-> m] : m \in Manifests}

\* An accepted cassette can be deployed: each setting can be given a value the
\* declaration itself admits, through a variable of its own, and its grants stay
\* out of core's schemas and off the raw turns (Manifest.Validate, GrantPlan).
AcceptedIsUsable(input) ==
    Of("declaration", input) /\ Valid(ApplyDefaults(input.manifest)) =>
        LET m == ApplyDefaults(input.manifest)
            plan == GrantPlan(m)
        IN  /\ \A i \in DOMAIN m.config :
                  LET s == m.config[i] IN
                  \E v \in Defaults \cup {String(<<"b">>), String(<<"1">>)} : v # NoValue /\ TypedValue(s, v)
            /\ \A i, j \in DOMAIN m.config : i # j => EnvVar(m.config[i].key) # EnvVar(m.config[j].key)
            /\ plan.schema \notin {<<"public">>, <<"tapes">>, <<"tapes", "_", m.core>>}
            /\ ~IsPrefix(<<"pg", "_">>, plan.schema)
            /\ <<"raw_turns">> \notin {s.view : s \in plan.selects}
            /\ Redact(m) = m

\* Two declarations that differ in order alone, or only by a default one of
\* them leaves out, and those that differ in substance.
Lists == Strings({<<"a">>, <<"b">>}, 2)
Configs ==
    UNION {[1..n -> {Plain, [Plain EXCEPT !.key = <<"b">>], [Plain EXCEPT !.key = <<"b">>, !.enum = <<<<"a">>, <<"b">>>>],
                     [Plain EXCEPT !.enum = <<<<"b">>, <<"a">>>>], [Plain EXCEPT !.enum = <<<<"a">>, <<"b">>>>],
                     [Plain EXCEPT !.required = TRUE, !.default = String(<<>>)]}] : n \in 0..2}
Variants == {[[Base EXCEPT !.audience = a] EXCEPT !.prefix = p] : a \in Lists, p \in {<<>>, <<"a">>, <<"/">>}}
            \cup {[Base EXCEPT !.views = v] : v \in Lists} \cup {[Base EXCEPT !.tables = v] : v \in Lists}
DigestCases ==
    {[algorithm |-> "digest", a |-> a, b |-> b] : a, b \in Variants}
    \cup {[algorithm |-> "digest", a |-> [Base EXCEPT !.config = c], b |-> [Base EXCEPT !.config = d]] : c, d \in Configs}

Meaning(m) ==
    [ApplyDefaults(m) EXCEPT !.audience = Range(@), !.views = Range(@), !.tables = Range(@),
                             !.config = {[s EXCEPT !.enum = Range(@)] : s \in Range(@)}]

\* One digest stands for one declaration, whatever the order its sets are
\* listed in (MarshalCanonical: "deterministic JSON for identity and hashing").
DigestIdentifies(input) ==
    Of("digest", input) /\ Valid(ApplyDefaults(input.a)) /\ Valid(ApplyDefaults(input.b)) =>
        (MarshalCanonical(input.a) = MarshalCanonical(input.b)) = (Meaning(input.a) = Meaning(input.b))
=============================================================================
