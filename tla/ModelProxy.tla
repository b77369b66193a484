----------------------------- MODULE ModelProxy -----------------------------
(***************************************************************************)
(* The translation between the protocol of Anthropic and that of OpenAI    *)
(* (gateway/llm_proxy): a request one way, and the answer, whole or as a   *)
(* stream of deltas, the other way.  The client's view of the stream is    *)
(* rebuilt block by block from the events it is sent.                      *)
(*                                                                         *)
(* A piece of text or of arguments is counted.  A line that is no delta    *)
(* has no effect; the deltas of one line are taken one by one, as the loop *)
(* does.                                                                   *)
(***************************************************************************)
EXTENDS Naturals, Sequences, FiniteSets, SequencesExt

CONSTANTS
    Requests,       \* whether it asks for a stream, and its messages
    Tools,          \* indexes of tool calls, as the upstream numbers them
    MaxDeltas,      \* bound: deltas of one answer
    None

ASSUME ModelProxyAssumption == Tools \subseteq Nat /\ MaxDeltas \in Nat

VARIABLES
    request,
    stage,          \* of the answer
    deltas,
    said,           \* what the upstream has said: pieces of text, the calls in order
    ordered,        \* it said text before calls, a name first and one call after another
    textIndex, textOpen, toolStates, nextIndex,
    finishReason,
    block           \* what the client has made of each index

vars == <<request, stage, deltas, said, ordered, textIndex, textOpen, toolStates, nextIndex,
          finishReason, block>>

Indexes == 0..MaxDeltas
Absent == [kind |-> "none", state |-> "absent", pieces |-> 0]
Broken == [Absent EXCEPT !.state = "broken"]
Reasons == {"", "stop", "tool_calls", "length"}

TypeOK ==
    /\ request \in Requests
    /\ stage \in {"reading", "closing", "done"}
    /\ deltas \in 0..MaxDeltas
    /\ said.text \in 0..MaxDeltas
    /\ said.calls \in Seq([tool : Tools, named : BOOLEAN, args : 0..MaxDeltas])
    /\ ordered \in BOOLEAN
    /\ textIndex \in Indexes /\ textOpen \in BOOLEAN
    /\ toolStates \in [Tools -> [index : Indexes, named : BOOLEAN, opened : BOOLEAN] \union {None}]
    /\ nextIndex \in Indexes
    /\ finishReason \in Reasons
    /\ block \in [Indexes -> [kind : {"none", "text", "tool_use"}, pieces : 0..MaxDeltas,
                              state : {"absent", "open", "stopped", "broken"}]]

Init ==
    /\ request \in Requests
    /\ stage = "reading" /\ deltas = 0
    /\ said = [text |-> 0, calls |-> <<>>] /\ ordered = TRUE
    /\ textIndex = 0 /\ textOpen = FALSE
    /\ toolStates = [i \in Tools |-> None] /\ nextIndex = 0
    /\ finishReason = ""
    /\ block = [i \in Indexes |-> Absent]

\* ----------------------------------------------- the events, as the client takes them
OnStart(b, i, kind) ==
    [b EXCEPT ![i] = IF @.state = "absent" THEN [kind |-> kind, state |-> "open", pieces |-> 0] ELSE Broken]
OnDelta(b, i) ==
    [b EXCEPT ![i] = IF @.state = "open" THEN [kind |-> @.kind, state |-> "open", pieces |-> @.pieces + 1]
                     ELSE Broken]
OnStop(b, i) ==
    [b EXCEPT ![i] = IF @.state = "open" THEN [kind |-> @.kind, state |-> "stopped", pieces |-> @.pieces]
                     ELSE Broken]

\* ------------------------------------------------------------- the stream
Taken == request.stream /\ stage = "reading" /\ deltas < MaxDeltas /\ deltas' = deltas + 1
Kept == <<request, stage>>

Content ==
    /\ Taken
    /\ LET i == IF textOpen THEN textIndex ELSE nextIndex IN
         /\ textIndex' = i /\ textOpen' = TRUE
         /\ nextIndex' = IF textOpen THEN nextIndex ELSE nextIndex + 1
         /\ block' = OnDelta(IF textOpen THEN block ELSE OnStart(block, i, "text"), i)
    /\ said' = [said EXCEPT !.text = @ + 1]
    /\ ordered' = (ordered /\ said.calls = <<>>)
    /\ UNCHANGED <<Kept, toolStates, finishReason>>

\* The upstream's own account of its calls.
CallOf(i) == CHOOSE k \in DOMAIN said.calls : said.calls[k].tool = i
Says(i, named, args) ==
    LET known == toolStates[i] # None
        n == IF args THEN 1 ELSE 0 IN
    /\ said' = [said EXCEPT !.calls =
           IF known THEN [@ EXCEPT ![CallOf(i)] = [tool |-> i, named |-> @.named \/ named, args |-> @.args + n]]
           ELSE Append(@, [tool |-> i, named |-> named, args |-> n])]
    /\ ordered' = (ordered /\ (known \/ named) /\ (~known \/ CallOf(i) = Len(said.calls)))

NewCallLeavingText == UNCHANGED textOpen
NewCall == textOpen' = FALSE

Feeds(s, opens) == s.opened \/ opens
ToolCall(i, named, args) ==
    /\ Taken /\ Says(i, named, args)
    /\ LET known == toolStates[i] # None
           s == IF known THEN toolStates[i]
                ELSE [index |-> nextIndex, named |-> FALSE, opened |-> FALSE]
           opens == ~s.opened /\ (s.named \/ named)
           b1 == IF ~known /\ textOpen THEN OnStop(block, textIndex) ELSE block
           b2 == IF opens THEN OnStart(b1, s.index, "tool_use") ELSE b1
       IN  /\ IF known THEN UNCHANGED <<textOpen, nextIndex>>
              ELSE NewCall /\ nextIndex' = nextIndex + 1
           /\ toolStates' = [toolStates EXCEPT ![i] = [index |-> s.index, named |-> s.named \/ named,
                                                       opened |-> s.opened \/ opens]]
           /\ block' = IF args /\ Feeds(s, opens) THEN OnDelta(b2, s.index) ELSE b2
    /\ UNCHANGED <<Kept, textIndex, finishReason>>

Finish(reason) ==
    /\ request.stream /\ stage = "reading" /\ finishReason = ""
    /\ finishReason' = reason
    /\ UNCHANGED <<request, stage, deltas, said, ordered, textIndex, textOpen, toolStates, nextIndex, block>>

\* [DONE], the end of the body, or a read that fails: the three are one.
EndOfStream ==
    /\ request.stream /\ stage = "reading" /\ stage' = "closing"
    /\ block' = IF textOpen THEN OnStop(block, textIndex) ELSE block
    /\ UNCHANGED <<request, deltas, said, ordered, textIndex, textOpen, toolStates, nextIndex, finishReason>>

Unstopped == {i \in Tools : toolStates[i] # None /\ toolStates[i].opened
                            /\ block[toolStates[i].index].state = "open"}
CloseTool(i) ==      \* in the order of a Go map
    /\ stage = "closing" /\ i \in Unstopped
    /\ block' = OnStop(block, toolStates[i].index)
    /\ UNCHANGED <<Kept, deltas, said, ordered, textIndex, textOpen, toolStates, nextIndex, finishReason>>
MessageStop ==
    /\ stage = "closing" /\ Unstopped = {}
    /\ stage' = "done"
    /\ UNCHANGED <<request, deltas, said, ordered, textIndex, textOpen, toolStates, nextIndex,
                   finishReason, block>>

Next == \/ Content
        \/ \E i \in Tools, named, args \in BOOLEAN : ToolCall(i, named, args)
        \/ \E reason \in Reasons \ {""} : Finish(reason)
        \/ EndOfStream \/ (\E i \in Tools : CloseTool(i)) \/ MessageStop

Spec == Init /\ [][Next]_vars

\* -------------------------------------------------- the answer as a whole
mapFinishReason(reason) ==
    CASE reason = "tool_calls" -> "tool_use" [] reason = "length" -> "max_tokens" [] OTHER -> "end_turn"
openAIToAnthropicResponse ==
    [stop |-> mapFinishReason(finishReason),
     content |-> (IF said.text > 0 THEN <<[kind |-> "text", pieces |-> said.text]>> ELSE <<>>)
                 \o [k \in DOMAIN said.calls |-> [kind |-> "tool_use", pieces |-> said.calls[k].args]]]

\* --------------------------------------------------- the request translated
OfType(blocks, type) == SelectSeq(blocks, LAMBDA b : b.type = type)
Textual(blocks) == SelectSeq(blocks, LAMBDA b : b.type \in {"text", "image"})
Message(role, blocks) == [role |-> role, blocks |-> blocks]
ToolMessages(blocks) ==
    LET results == OfType(blocks, "tool_result") IN
    [k \in DOMAIN results |-> Message("tool", <<results[k]>>)]
User(m) ==
    (IF Textual(m.blocks) # <<>> THEN <<Message("user", Textual(m.blocks))>> ELSE <<>>)
    \o ToolMessages(m.blocks)
Assistant(m) == <<Message("assistant", OfType(m.blocks, "text") \o OfType(m.blocks, "tool_use"))>>
Translated(m) == CASE m.role = "user"      -> User(m)
                   [] m.role = "assistant" -> Assistant(m)
                   [] OTHER                -> <<>>
anthropicToOpenAI == FlattenSeq([k \in DOMAIN request.messages |-> Translated(request.messages[k])])

\* The events make a well-formed message: a block is started once, fed while it is
\* open, and stopped once, before the end of the message (stream.go:20-31).
StreamWellFormed ==
    \A i \in Indexes : /\ block[i].state # "broken"
                       /\ stage = "done" => block[i].state # "open"

\* A stream says what the whole answer would have said, when the upstream speaks in
\* order (stream.go:84-219, translate.go:342-379).
SameAnswer ==
    stage = "done" /\ ordered =>
        LET started == SelectSeq([k \in 1..MaxDeltas |-> block[k - 1]], LAMBDA b : b.state = "stopped") IN
        [k \in DOMAIN started |-> [kind |-> started[k].kind, pieces |-> started[k].pieces]]
            = openAIToAnthropicResponse.content

\* Every text, call and result of a request is in its translation, in the order of
\* its kind; images are replaced by a line of text (translate.go:159-232).
NothingDropped ==
    \A type \in {"text", "tool_use", "tool_result"} :
        OfType(FlattenSeq([k \in DOMAIN request.messages |-> request.messages[k].blocks]), type)
            = OfType(FlattenSeq([k \in DOMAIN anthropicToOpenAI |-> anthropicToOpenAI[k].blocks]), type)

\* The events of an answer open and close its blocks and say what the upstream said, and
\* every block of a request is passed on (gateway/llm_proxy).
AnswersFaithful == TypeOK /\ StreamWellFormed /\ SameAnswer /\ NothingDropped

\* Refuted: start, deltas and stop are repeated per tool call (stream.go:20-24).
BlocksSequential == Cardinality({i \in Indexes : block[i].state = "open"}) <= 1

\* Refuted: the indexes of the blocks are increasing (stream.go:28-29).
IndexesIncrease ==
    [][\A i \in Indexes : block'[i].state = "open" /\ block[i].state = "absent" =>
           \A j \in Indexes : block[j].state # "absent" => j < i]_vars

\* Refuted: the arguments that came before the name are in the block too (stream.go:170-172).
ArgumentsKept ==
    stage = "done" =>
        \A k \in DOMAIN said.calls : LET s == toolStates[said.calls[k].tool] IN
            s.opened => block[s.index].pieces = said.calls[k].args

\* Refuted: the results of a call come right after the message that made it; the text
\* of the same message is put between (translate.go:166-199).
ResultsFollowCalls ==
    \A k \in 2..Len(anthropicToOpenAI) :
        anthropicToOpenAI[k].role = "tool" => anthropicToOpenAI[k - 1].role \in {"assistant", "tool"}
=============================================================================
