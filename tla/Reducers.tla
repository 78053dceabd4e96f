------------------------------- MODULE Reducers -------------------------------
(***************************************************************************)
(* The reducers of pkg/capture: one upstream answer, streamed or whole,    *)
(* becomes one canonical response (anthropic.go, anthropic_state.go,       *)
(* openai_responses.go), beside the provider parsers that map the same     *)
(* blocks of a whole answer and of a request's history                     *)
(* (pkg/llm/provider/anthropic, pkg/llm/provider/openai).                  *)
(*                                                                         *)
(* A text is the sequence of its pieces.  A block on the wire and a        *)
(* canonical block are records [type, text, id, data]: data is a tool      *)
(* call's input, a thinking block's signature, or an inline result.        *)
(***************************************************************************)
EXTENDS Integers, Sequences, SequencesExt, FiniteSets

Absent == "absent"
Block(type, text, id, data) == [type |-> type, text |-> text, id |-> id, data |-> data]

-----------------------------------------------------------------------------
(* Anthropic                                                               *)

ToolTypes == {"tool_use", "server_tool_use"}
\* What a canonical block keeps of a wire block, by its type.
Kept(type) == CASE type = "text" -> {"text"}
                [] type \in ToolTypes -> {"id", "data"}
                [] type = "thinking" -> {"text", "data"}
                [] type = "web_search_tool_result" -> {"id", "data"}
                [] OTHER -> {}
Canonical(w) == [type |-> w.type,
                 text |-> IF "text" \in Kept(w.type) THEN w.text ELSE <<>>,
                 id |-> IF "id" \in Kept(w.type) THEN w.id ELSE Absent,
                 data |-> IF "data" \in Kept(w.type) THEN w.data ELSE Absent]

\* A message as ParseResponse and reduceOneShot read it.
Response(content, done, stop, usage, flags) ==
    [content |-> content, done |-> done, stop |-> stop, usage |-> usage, flags |-> flags]
reduceOneShot(message) ==
    Response([i \in DOMAIN message.blocks |-> Canonical(message.blocks[i])],
             TRUE, message.stop, message.usage, {})

\* A block of a request's history; any text it has is kept.
HistoryBlock(w) == [Canonical(w) EXCEPT !.text = IF "text" = w.type \/ w.type = "thinking" THEN w.text
                                                ELSE IF Kept(w.type) = {} THEN w.text ELSE <<>>]

NoBlocks == [i \in {} |-> Absent]
newTurnState == [blocks |-> NoBlocks, fragments |-> NoBlocks, stop |-> Absent, in |-> 0, out |-> 0,
                 error |-> FALSE, badInput |-> FALSE, stopped |-> FALSE]
With(f, i, x) == [j \in DOMAIN f \cup {i} |-> IF j = i THEN x ELSE f[j]]

onMessageStart(s, ev) == [s EXCEPT !.in = ev.tokens]
\* The input of a tool call arrives later, an inline result at once, and so
\* may the first piece of a text.
onContentBlockStart(s, ev) ==
    LET text == IF ev.kind \in {"text", "thinking"} /\ ev.part # Absent THEN <<ev.part>> ELSE <<>>
        data == IF ev.kind = "web_search_tool_result" THEN ev.part ELSE Absent
    IN [s EXCEPT !.blocks = With(@, ev.index, Block(ev.kind, text, ev.id, data))]

\* Mutant: a delta for a block that was not opened is dropped.
OpenedOnly(s, index) == s
\* A delta for a block that was not opened opens a text block, and of a delta
\* finalize shows what its block's kind has: a thought in a text block is lost.
Opened(s, index) == IF index \in DOMAIN s.blocks THEN s
                    ELSE [s EXCEPT !.blocks = With(@, index, Block("text", <<>>, Absent, Absent))]
onContentBlockDelta(state, ev) ==
    LET s == Opened(state, ev.index)
        seen == IF ev.index \in DOMAIN s.fragments THEN s.fragments[ev.index] ELSE <<>>
    IN IF ev.index \notin DOMAIN s.blocks THEN s
       ELSE IF ev.delta = "json" THEN [s EXCEPT !.fragments = With(@, ev.index, Append(seen, ev.part))]
       ELSE IF s.blocks[ev.index].type # (IF ev.delta = "text" THEN "text" ELSE "thinking") THEN s
       ELSE IF ev.delta = "signature" THEN [s EXCEPT !.blocks[ev.index].data = ev.part]
       ELSE [s EXCEPT !.blocks[ev.index].text = Append(@, ev.part)]

\* Whether input_json fragments together are an object, and which.
Parses(fragments) == Len(fragments) = 2
Parsed(fragments) == fragments[1]
onContentBlockStop(s, ev) ==
    IF ~(ev.index \in DOMAIN s.blocks /\ ev.index \in DOMAIN s.fragments) THEN s
    ELSE LET fragments == s.fragments[ev.index]
             rest == [s EXCEPT !.fragments = [j \in DOMAIN @ \ {ev.index} |-> @[j]]]
         IN IF s.blocks[ev.index].type \notin ToolTypes THEN rest
            ELSE IF Parses(fragments) THEN [rest EXCEPT !.blocks[ev.index].data = Parsed(fragments)]
            ELSE [rest EXCEPT !.badInput = TRUE]

onMessageDelta(s, ev) == [s EXCEPT !.stop = IF ev.part # Absent THEN ev.part ELSE @, !.out = ev.tokens]
onMessageStop(s) == [s EXCEPT !.stopped = TRUE]
onError(s) == [s EXCEPT !.error = TRUE, !.stop = IF @ = Absent THEN "error" ELSE @]

\* A frame that does not parse is flagged and skipped; unknown ones are skipped.
dispatchStreamEvent(s, ev) ==
    CASE ev.type = "message_start" -> onMessageStart(s, ev)
      [] ev.type = "content_block_start" -> onContentBlockStart(s, ev)
      [] ev.type = "content_block_delta" -> onContentBlockDelta(s, ev)
      [] ev.type = "content_block_stop" -> onContentBlockStop(s, ev)
      [] ev.type = "message_delta" -> onMessageDelta(s, ev)
      [] ev.type = "message_stop" -> onMessageStop(s)
      [] ev.type = "error" -> onError(s)
      [] ev.type = "malformed" -> [s EXCEPT !.error = TRUE]
      [] OTHER -> s

\* Mutant: whatever arrived is done.
FlagsNone(s) == {}
Flags(s) == (IF s.error THEN {"error"} ELSE {}) \cup (IF s.badInput THEN {"bad input"} ELSE {})
              \cup (IF ~s.stopped /\ ~s.error THEN {"incomplete"} ELSE {})
finalize(s) ==
    LET order == SetToSortSeq(DOMAIN s.blocks, <)
    IN Response([k \in DOMAIN order |-> s.blocks[order[k]]], s.stopped,
                IF s.stop = Absent /\ "incomplete" \in Flags(s) THEN "incomplete" ELSE s.stop,
                <<s.in, s.out>>, Flags(s))

\* The events as far as they came; a reader error only adds its flag.
reduceStream(events, broken) ==
    LET whole == finalize(FoldLeft(dispatchStreamEvent, newTurnState, events))
    IN IF broken THEN [whole EXCEPT !.flags = @ \cup {"reader error"}] ELSE whole

-----------------------------------------------------------------------------
(* OpenAI Responses                                                        *)

\* An output item as canonical blocks; what is not understood stays verbatim.
ItemBlocks(item) ==
    CASE item.type = "message" -> [i \in DOMAIN item.parts |-> Block(item.parts[i], item.text, Absent, Absent)]
      [] item.type = "function_call" -> <<Block("tool_use", <<>>, item.id, item.data)>>
      [] item.type = "reasoning" -> <<Block("thinking", item.text, Absent, item.data)>>
      [] OTHER -> <<Block(item.type, item.text, item.id, item.data)>>
responsesOutputContent(items) == FlattenSeq([i \in DOMAIN items |-> ItemBlocks(items[i])])

responsesStopReason(status, detail) ==
    IF status = "completed" THEN "stop"
    ELSE IF status = "incomplete" /\ detail # Absent THEN detail ELSE status

responsesObjectToChat(resp) ==
    Response(responsesOutputContent(resp.output), TRUE, responsesStopReason(resp.status, resp.detail),
             resp.usage, {})

\* Mutant: a torn stream keeps its loose text beside the items.
partialBoth(items, text) ==
    Response(responsesOutputContent(items) \o (IF text # <<>> THEN <<Block("text", text, Absent, Absent)>> ELSE <<>>),
             FALSE, Absent, <<0, 0>>, {"partial"})
\* Completed items are the record of a torn stream, loose text where there is none.
partialResponse(items, text) ==
    LET content == responsesOutputContent(items)
    IN Response(IF content = <<>> /\ text # <<>> THEN <<Block("text", text, Absent, Absent)>> ELSE content,
                FALSE, Absent, <<0, 0>>, {"partial"})

\* Up to the first terminal event, whose empty output means the items that came before.
Terminal(ev) == ev.type \in {"response.completed", "response.incomplete", "response.failed"}
reduceResponses(events) ==
    LET ends == {i \in DOMAIN events : Terminal(events[i])}
        end == CHOOSE i \in ends : \A j \in ends : i <= j
        seen == IF ends = {} THEN events ELSE SubSeq(events, 1, end - 1)
        done == SelectSeq(seen, LAMBDA ev : ev.type = "response.output_item.done")
        items == [i \in DOMAIN done |-> done[i].item]
        loose == SelectSeq(seen, LAMBDA ev : ev.type = "response.output_text.delta")
        text == [i \in DOMAIN loose |-> loose[i].delta]
    IN IF ends = {} \/ events[end].response = <<>> THEN partialResponse(items, text)
       ELSE LET response == Head(events[end].response)
            IN responsesObjectToChat([response EXCEPT !.output = IF @ # <<>> THEN @ ELSE items])

\* An item of a request's input, as parseResponsesRequest maps it.
responsesItemToMessage(item) ==
    CASE item.type = "message" -> [i \in DOMAIN item.parts |-> Block(item.parts[i], item.text, Absent, Absent)]
      [] item.type = "function_call" -> <<Block("tool_use", <<>>, item.id, item.data)>>
      [] item.type = "custom_tool_call" -> <<Block("tool_use", <<>>, item.id, item.data)>>
      [] item.type = "reasoning" -> <<Block("thinking", item.text, Absent, item.data)>>
      [] OTHER -> <<Block(item.type, item.text, item.id, item.data)>>

\* Mutant: an item the reducer kept verbatim stays as it is.
NormalizeNothing(blocks) == blocks
\* At derive time a custom tool call kept verbatim becomes a tool call.
NormalizeResponsesContent(blocks) ==
    [i \in DOMAIN blocks |->
        IF blocks[i].type = "custom_tool_call" /\ blocks[i].data # Absent
        THEN [blocks[i] EXCEPT !.type = "tool_use"] ELSE blocks[i]]

-----------------------------------------------------------------------------
(* OpenAI Chat Completions and Ollama: [role, text, images, calls, answers]. *)
(* text is <<>> for none, calls are [id, ok] with ok for arguments that are *)
(* an object, and answers is the call a tool message answers.               *)

TextOf(m) == IF m.text # <<>> THEN <<Block("text", m.text, Absent, Absent)>> ELSE <<>>
CallsOf(calls) == [i \in DOMAIN calls |-> Block("tool_use", <<>>, calls[i].id, "in")]
Readable(calls) == SelectSeq(calls, LAMBDA c : c.ok)

\* Mutant: a call whose arguments do not parse is kept in the history only.
openaiRequestKeepsAll(m) == TextOf(m) \o CallsOf(m.calls)
openaiParseRequest(m) ==
    IF m.role = "tool" /\ m.answers # Absent THEN <<Block("tool_result", m.text, m.answers, Absent)>>
    ELSE TextOf(m) \o CallsOf(Readable(m.calls))
openaiParseResponse(m) == TextOf(m) \o CallsOf(Readable(m.calls))

ImagesOf(m) == [i \in DOMAIN m.images |-> Block("image", <<>>, Absent, m.images[i])]
ollamaParseRequest(m) == TextOf(m) \o ImagesOf(m) \o CallsOf(m.calls)
ollamaParseResponse(m) == TextOf(m) \o ImagesOf(m) \o CallsOf(m.calls)

-----------------------------------------------------------------------------
(* Streams: every answer of up to two blocks, cut anywhere, with a frame   *)
(* that does not parse or says nothing put anywhere; and what must hold of *)
(* the responses they become.                                              *)

WireBlocks ==
    {Block("text", <<"a", "b">>, Absent, Absent), Block("thinking", <<"t", "u">>, Absent, "sig"),
     Block("tool_use", <<>>, "x", "in"), Block("tool_use", <<>>, "y", Absent),
     Block("web_search_tool_result", <<>>, "x", "found")}
Messages == {[blocks |-> b, stop |-> "end", usage |-> <<3, 2>>] : b \in UNION {[1..n -> WireBlocks] : n \in 0..2}}

Event(type, index, kind, id, delta, part, tokens) ==
    [type |-> type, index |-> index, kind |-> kind, id |-> id, delta |-> delta, part |-> part, tokens |-> tokens]
Delta(i, delta, part) == Event("content_block_delta", i, Absent, Absent, delta, part, 0)
Bare(type) == Event(type, 0, Absent, Absent, Absent, Absent, 0)
DeltasOf(i, w) ==
    IF w.type = "thinking" THEN <<Delta(i, "thinking", w.text[2]), Delta(i, "signature", w.data)>>
    ELSE IF w.type = "tool_use" /\ w.data # Absent THEN <<Delta(i, "json", w.data), Delta(i, "json", "}")>>
    ELSE [k \in DOMAIN w.text |-> Delta(i, "text", w.text[k])]
\* A thinking block opens with its first piece, a search result with all of it.
BlockEvents(i, w) ==
    <<Event("content_block_start", i, w.type, w.id, Absent,
            CASE w.type = "thinking" -> w.text[1] [] w.type = "tool_use" -> Absent [] OTHER -> w.data, 0)>> \o DeltasOf(i, w)
      \o <<Event("content_block_stop", i, Absent, Absent, Absent, Absent, 0)>>
Events(m) ==
    <<Event("message_start", 0, Absent, Absent, Absent, Absent, m.usage[1])>>
      \o FlattenSeq([i \in DOMAIN m.blocks |-> BlockEvents(i - 1, m.blocks[i])])
      \o <<Event("message_delta", 0, Absent, Absent, Absent, m.stop, m.usage[2]), Bare("message_stop")>>

StreamCases == UNION {{[algorithm |-> "stream", message |-> m, cut |-> n, noise |-> x] :
                          n \in 0..Len(Events(m)), x \in {"ping", "malformed"}} : m \in Messages}
Came(c) == SubSeq(Events(c.message), 1, c.cut)

Extends(longer, shorter) ==
    /\ Len(shorter) <= Len(longer)
    /\ \A i \in DOMAIN shorter : /\ shorter[i].type = longer[i].type /\ shorter[i].id = longer[i].id
                                 /\ IsPrefix(shorter[i].text, longer[i].text)
                                 /\ shorter[i].data \in {Absent, longer[i].data}

\* A streamed answer reduces to what its one-shot form reduces to, which is
\* what the request that echoes it holds; cut anywhere it is a beginning of
\* that, never passes for a whole answer, and a bad frame anywhere costs none
\* of it (canonical_equivalence_test; reduceStream: "A single bad frame
\* shouldn't erase the whole turn").
StreamsReduceAlike(c) == c.algorithm = "stream" =>
    LET whole == reduceOneShot(c.message)
        full == Events(c.message)
        noisy == SubSeq(full, 1, c.cut) \o <<Bare(c.noise)>> \o SubSeq(full, c.cut + 1, Len(full))
        part == reduceStream(Came(c), c.noise = "malformed")
    IN /\ reduceStream(full, FALSE) = whole
       /\ \A i \in DOMAIN whole.content : HistoryBlock(c.message.blocks[i]) = whole.content[i]
       /\ reduceStream(noisy, FALSE).content = whole.content
       /\ (c.noise = "malformed") <=> (reduceStream(noisy, FALSE).flags # {})
       /\ Extends(whole.content, part.content)
       /\ c.cut < Len(full) => ~part.done /\ part.flags # {}

\* One lost event is felt in its own block only: the others are what they
\* were, a text whose start was lost keeps its text, a thought never passes for
\* words of the answer, and a tool call that lost a part of its input has none (onContentBlockDelta: "preserve what we can";
\* onContentBlockStop: no consumer may "mistake a broken payload for a valid
\* tool call").
LossStaysLocal(c) == (c.algorithm = "stream" /\ c.cut = 0) =>
    LET events == Events(c.message)
        whole == reduceOneShot(c.message).content
    IN \A lost \in 2..Len(events) - 2 :
        LET part == reduceStream(RemoveAt(events, lost), FALSE).content
            hit == events[lost].index + 1
            missing == Len(part) < Len(whole)
        IN /\ \A i \in DOMAIN whole \ {hit} : part[IF missing /\ i > hit THEN i - 1 ELSE i] = whole[i]
           /\ missing => events[lost].type = "content_block_start" /\ DeltasOf(hit - 1, c.message.blocks[hit]) = <<>>
           /\ whole[hit].type = "text" /\ events[lost].type # "content_block_delta" => part[hit] = whole[hit]
           /\ whole[hit].type = "thinking" /\ ~missing => part[hit].type = "thinking" \/ part[hit].text = <<>>
           /\ whole[hit].type = "tool_use" /\ ~missing => part[hit].data = Absent

Items == {[type |-> "message", parts |-> <<"text">>, text |-> <<"a">>, id |-> Absent, data |-> Absent],
          [type |-> "message", parts |-> <<"text", "refusal">>, text |-> <<"b">>, id |-> Absent, data |-> Absent],
          [type |-> "function_call", parts |-> <<>>, text |-> <<>>, id |-> "x", data |-> "in"],
          [type |-> "custom_tool_call", parts |-> <<>>, text |-> <<>>, id |-> "y", data |-> "in"],
          [type |-> "reasoning", parts |-> <<>>, text |-> <<"r">>, id |-> Absent, data |-> "sealed"]}
Status == {"completed", "incomplete", "failed"}
ItemEvents(item) ==
    [k \in DOMAIN item.text |-> [type |-> "response.output_text.delta", delta |-> item.text[k], item |-> Absent, response |-> <<>>]]
      \o <<[type |-> "response.output_item.done", delta |-> Absent, item |-> item, response |-> <<>>]>>
ResponseEvents(c, echoed) ==
    FlattenSeq([i \in DOMAIN c.items |-> ItemEvents(c.items[i])])
      \o <<[type |-> "response." \o c.status, delta |-> Absent, item |-> Absent,
            response |-> <<[output |-> IF echoed THEN c.items ELSE <<>>, status |-> c.status,
                            detail |-> c.detail, usage |-> <<3, 2>>]>>]>>
ResponseCases == {[algorithm |-> "responses", items |-> items, status |-> s, detail |-> d] :
    items \in UNION {[1..n -> Items] : n \in 0..2}, s \in Status, d \in {Absent, "max_output_tokens"}}

\* A Responses stream reduces to one answer whether its terminal event repeats
\* the items or leaves them out; torn before it, it is flagged and its items
\* are a beginning of the answer's; and what a later request echoes is what
\* the derive makes of the captured answer (openai_responses.go, reduceStream;
\* NormalizeResponsesContent).
ResponsesReduceAlike(c) == c.algorithm = "responses" =>
    LET full == ResponseEvents(c, TRUE)
        whole == reduceResponses(full)
        echo == FlattenSeq([i \in DOMAIN c.items |-> responsesItemToMessage(c.items[i])])
    IN /\ reduceResponses(ResponseEvents(c, FALSE)) = whole
       /\ NormalizeResponsesContent(whole.content) = echo
       /\ \A n \in 0..Len(full) - 1 :
              LET torn == reduceResponses(SubSeq(full, 1, n))
              IN /\ torn.flags = {"partial"} /\ ~torn.done
                 /\ IsPrefix(torn.content, whole.content)
                      \/ (Len(torn.content) = 1 /\ torn.content[1].type = "text")

ChatMessages == {[role |-> "assistant", text |-> t, images |-> <<>>, calls |-> calls, answers |-> Absent] :
    t \in {<<>>, <<"a">>}, calls \in UNION {[1..n -> [id : {"x", "y"}, ok : BOOLEAN]] : n \in 0..2}}
ChatCases == {[algorithm |-> "chat", message |-> m] : m \in ChatMessages}

\* The history a later request echoes is, block for block, the answer that was
\* captured: the two parsers of a provider make one node of it (ParseRequest
\* and ParseResponse: "round-trip so the history echo hashes to the same node
\* as the live capture").
EchoIsTheCapture(c) == c.algorithm = "chat" =>
    /\ openaiParseRequest(c.message) = openaiParseResponse(c.message)
    /\ ollamaParseRequest(c.message) = ollamaParseResponse(c.message)
=============================================================================
