----------------------------- MODULE MCAlgorithms -----------------------------
(* The pure parts of the program: a behaviour picks one input, and each       *)
(* invariant states a property of the algorithms that input is for.           *)
EXTENDS Naturals

CONSTANT Names     \* the names of the two cassettes of an aggregate

Apart == <<<<"m">>, <<"p">>>>
Nested == <<<<"m">>, <<"m", "s">>>>

VARIABLE input

Streams == INSTANCE Reducers
Identity == INSTANCE CaptureIdentity
Raw == INSTANCE RawReduction
Merkle == INSTANCE MerkleChain
Api == INSTANCE OpenAPI
Shape == INSTANCE Schemas
Declared == INSTANCE Manifests

NoInput == [algorithm |-> "none"]
Init == input = NoInput
Reduce == \E c \in Streams!StreamCases \cup Streams!ResponseCases \cup Streams!ChatCases : input' = c
Identify == \E c \in Identity!ThreadCases \cup Identity!EnvelopeCases : input' = c
Route == \E c \in Identity!RouteCases \cup Identity!TrafficCases : input' = c
Stamp == \E c \in Raw!FidelityCases \cup Raw!RewriteCases : input' = c
ReduceStored == \E c \in Raw!DecodeCases \cup Raw!StampCases \cup Raw!WindowCases : input' = c
Address == \E c \in Merkle!NoiseCases \cup Merkle!BranchCases : input' = c
Describe == \/ \E c \in Api!MergeCases : Api!Ascending(c) /\ input' = c
            \/ \E c \in Api!NamespaceCases \cup Api!AggregateCases(Names) : input' = c
Validate == \E c \in Shape!SchemaCases \cup Shape!BundleCases : input' = c
Declare == \E c \in Declared!DocumentCases \cup Declared!DeclarationCases \cup Declared!DigestCases : input' = c
Next == input = NoInput /\ (Reduce \/ Identify \/ Route \/ ReduceStored \/ Address \/ Describe \/ Validate \/ Declare \/ Stamp)
Spec == Init /\ [][Next]_input

\* A captured answer reduces alike from the stream and from the whole, cut or
\* not, in the formats of both providers, and is what the next request echoes
\* (pkg/capture, pkg/llm/provider).
CapturesReduceAlike ==
    /\ Streams!StreamsReduceAlike(input) /\ Streams!LossStaysLocal(input)
    /\ Streams!ResponsesReduceAlike(input) /\ Streams!EchoIsTheCapture(input)

\* Who calls, in which session and thread, for which provider and by which
\* reducer, is read alike by every reader of the headers and the path (extproc,
\* proxy, pkg/backfill).
CallsAreRecognised ==
    /\ Identity!ThreadsAgree(input) /\ Identity!ReplayKeepsTheSession(input) /\ Identity!StripIsDispatch(input)
    /\ Identity!TagsAreTransparent(input) /\ Identity!ReducersSeeTheirFormat(input)

\* A stored body decodes to what was sent, is dated as when it was captured, and
\* is compared with its replay without a verdict it cannot give; what is derived
\* from it says how much could be derived again, and whether it changed (ingest,
\* pkg/capture, pkg/rawequiv, pkg/storage/postgres).
StoredIsReplayed ==
    /\ Raw!DecodeUndoesTheEncoding(input) /\ Raw!ReplayDatesAlike(input) /\ Raw!VerdictIsSound(input)
    /\ Raw!TraceIsAsItsWorst(input) /\ Raw!CursorFollowsContent(input)

\* A conversation is one chain whatever noise its messages carry, and a branch
\* loads whole or not at all (pkg/merkle, pkg/storage/inmemory).
ChainsHold ==
    /\ Merkle!NoiseDoesNotFork(input) /\ Merkle!PreviewKeepsTheWords(input) /\ Merkle!BranchIsWhole(input)

\* A document is what its fragments contribute, in any order and under any
\* names, or it names what they dispute, and what cassettes publish alone is
\* served as one (pkg/tapesoapi, api/cassetterunner).
MergeIsFaithful ==
    /\ Api!OrderNeverMatters(input) /\ Api!NothingIsShadowed(input) /\ Api!NamespaceKeepsMeaning(input)
    /\ Api!PublishedIsServed(input) /\ Api!TwinsFailTheAggregate(input)

\* What every cassette published alone, core serves in one document
\* (api/cassetterunner, Runner.Document).  Violated where one name begins the
\* other.
PublishedIsServed == Api!PublishedIsServed(input)

\* A schema admits what its keywords say, written and read back, bundled or
\* refused, and the manifest of a cassette is what its author declared
\* (pkg/tapesoapi, pkg/cassette).
DeclarationsMeanOneThing ==
    /\ Shape!ValidatesAsWritten(input) /\ Shape!ReadsWhatItWrote(input)
    /\ Shape!RefusedIsEmpty(input) /\ Shape!BundleIsClosed(input)
    /\ Declared!ParsedAsWritten(input) /\ Declared!AcceptedIsUsable(input) /\ Declared!DigestIdentifies(input)
=============================================================================
