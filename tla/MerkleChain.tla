------------------------------ MODULE MerkleChain ------------------------------
(***************************************************************************)
(* Content-addressed nodes: what of a message makes its identity           *)
(* (pkg/merkle/projection.go), the chain they form (node.go), one branch   *)
(* of it in memory (dag.go) and the store of nodes (pkg/storage/inmemory). *)
(*                                                                         *)
(* A text is a sequence of words, whitespace and the tags of two harness   *)
(* wrappers.  A hash is what is hashed.                                    *)
(***************************************************************************)
EXTENDS Integers, Sequences, SequencesExt, FiniteSetsExt

Open(tag) == "<" \o tag \o ">"
Close(tag) == "</" \o tag \o ">"
\* In this order; a reminder is noise, a session wraps the human's own words.
HarnessTags == <<"reminder", "session">>
previewWrapperTags == {"session"}

Where(text, token) == {i \in DOMAIN text : text[i] = token}
First(S) == CHOOSE i \in S : \A j \in S : i <= j
After(text, i) == SubSeq(text, i + 1, Len(text))
Before(text, i) == SubSeq(text, 1, i - 1)

\* Mutant: only the first span of a tag goes.
StripOnce(text, tag) ==
    LET opens == Where(text, Open(tag))
    IN IF opens = {} THEN text
       ELSE LET rest == After(text, First(opens))
            IN IF Where(rest, Close(tag)) = {} THEN Before(text, First(opens))
               ELSE Before(text, First(opens)) \o After(rest, First(Where(rest, Close(tag))))
RECURSIVE stripTaggedSpan(_, _)
\* A tag that is not closed takes the rest of the text.
stripTaggedSpan(text, tag) ==
    LET opens == Where(text, Open(tag))
    IN IF opens = {} THEN text
       ELSE LET start == First(opens)
                rest == After(text, start)
                ends == Where(rest, Close(tag))
            IN IF ends = {} THEN Before(text, start)
               ELSE stripTaggedSpan(Before(text, start) \o After(rest, First(ends)), tag)
RECURSIVE unwrapTaggedSpan(_, _)
unwrapTaggedSpan(text, tag) ==
    LET opens == Where(text, Open(tag))
    IN IF opens = {} THEN text
       ELSE LET start == First(opens)
                rest == After(text, start)
                ends == Where(rest, Close(tag))
            IN IF ends = {} THEN Before(text, start) \o rest
               ELSE Before(text, start) \o Before(rest, First(ends)) \o unwrapTaggedSpan(After(rest, First(ends)), tag)

StripHarnessTags(text) == FoldLeft(stripTaggedSpan, text, HarnessTags)
\* No space at the end of a line, no empty line, nothing around the text.
normalizeWhitespace(text) ==
    LET ends(i) == \E j \in i..Len(text) : text[j] = "\n" /\ \A k \in i..j - 1 : text[k] = " "
        kept == {i \in DOMAIN text : text[i] # " " \/ ~ends(i)}
        trimmed == SelectSeq([i \in DOMAIN text |-> IF i \in kept THEN text[i] ELSE ""], LAMBDA t : t # "")
        single == SelectSeq([i \in DOMAIN trimmed |-> IF i > 1 /\ trimmed[i] = "\n" /\ trimmed[i - 1] = "\n" THEN "" ELSE trimmed[i]],
                            LAMBDA t : t # "")
        words == {i \in DOMAIN single : single[i] \notin {" ", "\n"}}
        last == CHOOSE i \in words : \A j \in words : j <= i
    IN IF words = {} THEN <<>> ELSE SubSeq(single, First(words), last)
NormalizeForEmbed(text) == normalizeWhitespace(StripHarnessTags(text))
\* Mutant: wrappers go with what they wrap.
PreviewStripped(text) == NormalizeForEmbed(text)
\* The link a harness puts first when a plugin is invoked; one after a word is
\* the human's.
Invocation == "[@p](plugin://p)"
leadingPluginInvocation(text) ==
    LET words == {i \in DOMAIN text : text[i] \notin {" ", "\n", Invocation}}
        front == IF words = {} THEN text ELSE Before(text, First(words))
    IN IF Where(front, Invocation) = {} THEN text ELSE SubSeq(text, Len(front) + 1, Len(text))
PreviewText(text) ==
    LET one(t, tag) == IF tag \in previewWrapperTags THEN unwrapTaggedSpan(t, tag) ELSE stripTaggedSpan(t, tag)
    IN normalizeWhitespace(leadingPluginInvocation(FoldLeft(one, text, HarnessTags)))

\* A tool call's input: a function to leaves "zero" or a value, and objects.
Leaf(v) == [leaf |-> v, object |-> <<>>]
Object(f) == [leaf |-> "", object |-> f]
isZeroValue(v) == v.leaf = "zero"
RECURSIVE pruneZeroValues(_)
pruneZeroValues(m) ==
    LET pruned == [k \in DOMAIN m |-> IF m[k].leaf = "" THEN Object(pruneZeroValues(m[k].object)) ELSE m[k]]
    IN [k \in {j \in DOMAIN m : ~isZeroValue(pruned[j]) /\ (pruned[j].leaf # "" \/ DOMAIN pruned[j].object # {})} |-> pruned[k]]

\* A block is [text, input, signature, output].
ProjectBlock(b) == [text |-> NormalizeForEmbed(b.text), input |-> pruneZeroValues(b.input),
                    signature |-> "", output |-> NormalizeForEmbed(b.output)]
\* A block whose text was all noise is no block.
ProjectContent(blocks) ==
    LET kept == SelectSeq(blocks, LAMBDA b : b.text = <<>> \/ NormalizeForEmbed(b.text) # <<>>)
    IN [i \in DOMAIN kept |-> ProjectBlock(kept[i])]

-----------------------------------------------------------------------------

\* What a node's identity is made of; model, provider and usage are not.
computeHash(parent, role, blocks) == [parent |-> parent, role |-> role, content |-> ProjectContent(blocks)]
NewNode(parent, role, blocks) == [parent |-> parent, hash |-> computeHash(parent, role, blocks)]
\* Mutant: what is injected is followed like any message.
TurnChainStraight(messages) ==
    FoldLeft(LAMBDA nodes, m : Append(nodes, NewNode(IF nodes = <<>> THEN <<>> ELSE <<Last(nodes).hash>>, m.role, m.blocks)),
             <<>>, messages)
\* The nodes of a sequence of messages [role, blocks, injected], the last one
\* last.  What a harness injects is a side branch: nothing follows it.
turnChain(messages) ==
    LET step(chain, m) ==
            LET node == NewNode(chain.parent, m.role, m.blocks)
            IN [nodes |-> Append(chain.nodes, node), parent |-> IF m.injected THEN chain.parent ELSE <<node.hash>>]
    IN FoldLeft(step, [nodes |-> <<>>, parent |-> <<>>], messages).nodes
ChainHash(messages) == Last(turnChain(messages)).hash

-----------------------------------------------------------------------------
(* The store and the branch of a node.  Here a hash is the path of contents *)
(* from the root, and a stored node is [hash, captured].                    *)

ParentHash(hash) == Front(hash)
Put(store, node) == IF \E n \in store : n.hash = node.hash THEN store ELSE store \cup {node}
Hashes(store) == {n.hash : n \in store}
GetByParent(store, hash) == {h \in Hashes(store) : Len(h) > 1 /\ ParentHash(h) = hash}

\* Mutant: a missing parent passes for a root.
ChainToTheGap(store, hash) ==
    LET gaps == {k \in 1..Len(hash) : SubSeq(hash, 1, k) \notin Hashes(store)}
        top == IF gaps = {} THEN 1 ELSE (CHOOSE k \in gaps : \A j \in gaps : j <= k) + 1
    IN [nodes |-> Reverse([k \in 1..Len(hash) - top + 1 |-> SubSeq(hash, 1, top + k - 1)]), missing |-> <<>>, incomplete |-> FALSE]
\* From the node up, as far as the parents are stored.
AncestryChain(store, hash) ==
    LET gaps == {k \in 1..Len(hash) : SubSeq(hash, 1, k) \notin Hashes(store)}
        top == IF gaps = {} THEN 1 ELSE (CHOOSE k \in gaps : \A j \in gaps : j <= k) + 1
    IN [nodes |-> Reverse([k \in 1..Len(hash) - top + 1 |-> SubSeq(hash, 1, top + k - 1)]),
        missing |-> IF gaps = {} THEN <<>> ELSE SubSeq(hash, 1, top - 1), incomplete |-> gaps # {}]
AncestryChains(store, hashes) == [h \in hashes \cap Hashes(store) |-> AncestryChain(store, h)]

NewDag == [index |-> {}, root |-> <<>>, ok |-> TRUE]
\* A node needs its parent there, or to be the one root.
AddNode(dag, hash) ==
    IF ~dag.ok \/ hash \in dag.index THEN dag
    ELSE IF Len(hash) = 1
    THEN IF dag.root # <<>> THEN [dag EXCEPT !.ok = FALSE]
         ELSE [dag EXCEPT !.root = hash, !.index = @ \cup {hash}]
    ELSE IF ParentHash(hash) \notin dag.index THEN [dag EXCEPT !.ok = FALSE] ELSE [dag EXCEPT !.index = @ \cup {hash}]
Children(dag, hash) == {h \in dag.index : Len(h) > 1 /\ ParentHash(h) = hash}
Ancestors(dag, hash) == IF hash \notin dag.index THEN <<>> ELSE Reverse([k \in DOMAIN hash |-> SubSeq(hash, 1, k)])
Descendants(dag, hash) ==
    LET RECURSIVE walk(_)
        walk(h) == UNION {{child} \cup walk(child) : child \in Children(dag, h)}
    IN IF hash \notin dag.index THEN {} ELSE walk(hash)
Leaves(dag) == {h \in dag.index : Children(dag, h) = {}}
BranchPoints(dag) == {h \in dag.index : Cardinality(Children(dag, h)) > 1}

RECURSIVE addDescendants(_, _, _)
\* Mutant: the children of the node and no further.
addChildren(store, dag, hash) ==
    FoldSet(LAMBDA child, d : AddNode(d, child), dag, GetByParent(store, hash))
addDescendants(store, dag, hash) ==
    FoldSet(LAMBDA child, d : addDescendants(store, AddNode(d, child), child), dag, GetByParent(store, hash))
LoadDag(store, hash) ==
    IF hash \notin Hashes(store) THEN [NewDag EXCEPT !.ok = FALSE]
    ELSE addDescendants(store, FoldLeft(AddNode, NewDag, Reverse(AncestryChain(store, hash).nodes)), hash)

-----------------------------------------------------------------------------
(* What must hold of chains and branches.  Short texts with noise put
   anywhere, forests with nodes missing.                                   *)

Noise == <<"<reminder>", "w", "</reminder>">>
Token == {"a", "\n", " ", "<session>", "</session>"}
\* After every opening tag there is a closing one; spans may nest.
Closed(text) == \A i \in Where(text, "<session>") : \E j \in Where(text, "</session>") : j > i
\* No span is opened inside another of its tag.
Flat(text) == \A i, k \in Where(text, "<session>") :
                  i < k => \E j \in Where(text, "</session>") : i < j /\ j < k
Texts == {t \in UNION {[1..n -> Token] : n \in 1..4} : Closed(t)}
NoiseCases == UNION {{[algorithm |-> "noise", text |-> t, at |-> n] : n \in 0..Len(t)} : t \in Texts}

InsertAt0(text, n, span) == SubSeq(text, 1, n) \o span \o After(text, n)
Said(text) == [text |-> text, input |-> <<>>, signature |-> "", output |-> <<>>]
Input(extra) == [k \in {"path"} \cup extra |-> IF k = "path" THEN Leaf("v") ELSE IF k = "all" THEN Leaf("zero")
                                                ELSE Object([o \in {"all"} |-> Leaf("zero")])]
UseBlock(extra, signature) == [text |-> <<>>, input |-> Input(extra), signature |-> signature, output |-> <<>>]
Result(output) == [text |-> <<>>, input |-> <<>>, signature |-> "", output |-> output]
Message(role, blocks) == [role |-> role, blocks |-> blocks, injected |-> FALSE]
Conversation(text, call, output, more) ==
    <<Message("user", <<Said(text)>> \o more), Message("assistant", <<call>>),
      Message("user", <<Result(output)>>), Message("assistant", <<Said(<<"a">>)>>)>>
Injected == [Message("user", <<Said(<<"w">>)>>) EXCEPT !.injected = TRUE]

\* A turn captured live and the same turn sent again as history are one chain,
\* whatever reminder the harness put anywhere in the text or in a tool's
\* output, as a block of its own or on a line of its own, whatever message it
\* injected of its own, and whichever defaults and signatures it left out; and another word is another chain
\* (ProjectContent: "the two captures hash to different nodes and the chain
\* branches").
NoiseDoesNotFork(c) == c.algorithm = "noise" =>
    LET noisy == InsertAt0(c.text, c.at, Noise)
        framed == InsertAt0(c.text, c.at, <<"\n">> \o Noise)
        live == ChainHash(Conversation(c.text, UseBlock({"all", "nested"}, "sig"), c.text, <<>>))
        sent(text) == ChainHash(Conversation(text, UseBlock({}, ""), text, <<>>))
        once == NormalizeForEmbed(c.text)
    IN /\ sent(noisy) = live
       /\ (c.at > 0 /\ c.text[c.at] = "\n") => sent(framed) = live
       /\ ChainHash(Conversation(noisy, UseBlock({"all"}, ""), c.text, <<Said(Noise)>>)) = live
       /\ \A n \in 1..4 : ChainHash(InsertAt0(Conversation(c.text, UseBlock({}, ""), c.text, <<>>), n - 1, <<Injected>>)) = live
       /\ NormalizeForEmbed(once) = once
       /\ sent(Append(c.text, "b")) # live

\* A preview loses no word the human wrote, wrapped or not, however wrappers
\* nest, and shows none of the harness's own: no reminder, no plugin link but
\* one among the human's words, and no marker but the inner one of a span that
\* is nested in its own tag: that one does stay, though "one pass handles noise
\* nested inside a wrapper and wrappers nested inside wrappers alike"
\* (PreviewText: "preserves the human's words carried inside a wrapper").
PreviewKeepsTheWords(c) == c.algorithm = "noise" =>
    LET preview == PreviewText(InsertAt0(c.text, c.at, Noise))
        linked == PreviewText(InsertAt0(c.text, c.at, <<Invocation>>))
        words(text) == SelectSeq(text, LAMBDA t : t \in {"a", "w"})
    IN /\ words(preview) = words(c.text) /\ words(linked) = words(c.text)
       /\ preview = PreviewText(c.text)
       /\ Flat(c.text) <=> "<session>" \notin ToSet(preview)
       /\ (\A i \in 1..c.at : c.text[i] # "a" /\ c.text[i] # "</session>") => Invocation \notin ToSet(linked) \/ ~Flat(c.text)
       /\ (\E i \in 1..c.at : c.text[i] = "a") => Invocation \in ToSet(linked)

NodeList == <<<<"x">>, <<"y">>, <<"x", "x">>, <<"x", "y">>, <<"y", "x">>, <<"x", "x", "x">>, <<"x", "x", "y">>, <<"x", "y", "x">>>>
Nodes == {NodeList[i] : i \in DOMAIN NodeList}
BranchCases == {[algorithm |-> "branch", stored |-> s, hash |-> h] : s \in SUBSET Nodes, h \in Nodes}
\* Put twice, the second time by a later capture.
StoreOf(nodes) ==
    LET list == SelectSeq(NodeList, LAMBDA n : n \in nodes)
    IN FoldLeft(Put, {}, [i \in 1..2 * Len(list) |-> [hash |-> (list \o list)[i], captured |-> i]])

\* The branch of a node is its ancestors and its descendants and nothing else;
\* it loads whenever the node and its ancestors are stored, and where an
\* ancestor is missing the chain says which one and no branch passes for
\* whole; of a node captured twice the first capture stays (LoadDag: "its
\* ancestry up to the root and all descendants reachable from that node";
\* AncestryChain; Put).
BranchIsWhole(c) == c.algorithm = "branch" =>
    LET store == StoreOf(c.stored)
        dag == LoadDag(store, c.hash)
        related(h) == IsPrefix(h, c.hash) \/ (IsPrefix(c.hash, h) /\ \A k \in Len(c.hash)..Len(h) : SubSeq(h, 1, k) \in c.stored)
        chain == AncestryChain(store, c.hash)
    IN /\ \A n \in store : n.captured <= Cardinality(c.stored)
       /\ dag.ok <=> \A k \in DOMAIN c.hash : SubSeq(c.hash, 1, k) \in c.stored
       /\ dag.ok => /\ dag.index = {h \in c.stored : related(h)}
                    /\ Ancestors(dag, c.hash) = chain.nodes /\ ~chain.incomplete
                    /\ {c.hash} \cup Descendants(dag, c.hash) = {h \in dag.index : IsPrefix(c.hash, h)}
                    /\ \A h \in Leaves(dag) : IsPrefix(c.hash, h)
                    /\ BranchPoints(dag) \subseteq {h \in c.stored : IsPrefix(c.hash, h)}
       /\ (c.hash \in c.stored /\ ~dag.ok) => chain.incomplete /\ chain.missing \notin c.stored /\ ParentHash(Last(chain.nodes)) = chain.missing
=============================================================================
