-------------------------- MODULE StreamConversion --------------------------
(***************************************************************************)
(* StreamConversionMiddleware of the LLM proxy (llm_proxy.py).  A request  *)
(* for a stream is sent on without `stream`, and the complete answer is    *)
(* cut into the events of a stream, for clients of OpenAI's or Anthropic's *)
(* protocol.  A client puts the events together again; what it gets must   *)
(* be the answer of the model, whatever the sizes of the pieces are.       *)
(***************************************************************************)
EXTENDS Integers, FiniteSets, Sequences, SequencesExt

CONSTANTS
  Texts,          \* texts, as sequences of characters, with " " among them
  ContentSize,    \* characters per piece of content (28 in the code)
  ArgumentSize,   \* characters per piece of tool arguments (40 and 20)
  ChunkWords,     \* words per piece of a text block (5)
  MaxBlocks       \* bound on the blocks of an answer

ASSUME SizesAssumption ==
  /\ {ContentSize, ArgumentSize, ChunkWords} \subseteq Nat \ {0}
  /\ MaxBlocks \in Nat

ASSUME TextsAssumption == \A t \in Texts : t \in Seq(ToSet(t))

VARIABLES
  protocol,   \* what the endpoint speaks
  streaming,  \* whether the client asked for a stream
  answer,     \* what the backend answers to the request without `stream`
  reply       \* what the client gets: events, the answer itself, or nothing yet

streamVars == <<protocol, streaming, answer, reply>>

Protocols == {"openai", "anthropic", "unknown"}

\* An answer has content and calls of tools (OpenAI) or blocks (Anthropic).  An error
\* is a status outside 200..299; garbled is a body that is no JSON object.
Blocks == [type : {"text", "tool_use", "thinking"}, body : Texts]

Answers(p) ==
  [status : {"ok"}, blocks : UNION {[1 .. n -> Blocks] : n \in 0 .. MaxBlocks}]
    \cup [status : {"error", "garbled"}, blocks : {<<>>}]

\* OpenAI's message: the text first, then the tool calls.
OpenAIShaped(a) ==
  \A i \in DOMAIN a.blocks :
    /\ a.blocks[i].type # "thinking"
    /\ a.blocks[i].type = "text" => i = 1

StreamInit ==
  /\ protocol \in Protocols
  /\ streaming \in BOOLEAN
  /\ answer \in Answers(protocol)
  /\ protocol # "anthropic" => OpenAIShaped(answer)
  /\ reply = <<"nothing">>

-----------------------------------------------------------------------------
(* Cutting.                                                                *)

Space == " "

\* stream_content: a piece ends after its last space, unless it is the last piece or
\* has no space but its first character.
PieceEnd(t, from) ==
  LET end    == IF from + ContentSize - 1 < Len(t) THEN from + ContentSize - 1 ELSE Len(t)
      spaces == {i \in from + 1 .. end : t[i] = Space}
  IN IF end < Len(t) /\ spaces # {}
     THEN CHOOSE i \in spaces : \A j \in spaces : j <= i
     ELSE end

Content(t) ==
  LET from[i \in 1 .. Len(t) + 1] ==
        IF i > Len(t) THEN <<>>
        ELSE <<SubSeq(t, i, PieceEnd(t, i))>> \o from[PieceEnd(t, i) + 1]
  IN from[1]

\* Substrings of a fixed size.
Slices(t) ==
  LET count == (Len(t) + ArgumentSize - 1) \div ArgumentSize
      End(i) == IF i * ArgumentSize < Len(t) THEN i * ArgumentSize ELSE Len(t)
  IN [i \in 1 .. count |-> SubSeq(t, (i - 1) * ArgumentSize + 1, End(i))]

\* str.split(): the words, whatever white space is between them.
WordEnd(t, i) ==
  LET spaces == {j \in i + 1 .. Len(t) : t[j] = Space}
  IN IF spaces = {} THEN Len(t) ELSE (CHOOSE j \in spaces : \A k \in spaces : j <= k) - 1

Words(t) ==
  LET from[i \in 1 .. Len(t) + 1] ==
        IF i > Len(t) THEN <<>>
        ELSE IF t[i] = Space THEN from[i + 1]
        ELSE <<SubSeq(t, i, WordEnd(t, i))>> \o from[WordEnd(t, i) + 1]
  IN from[1]

\* " ".join(words)
Joined(words) ==
  FlattenSeq([i \in DOMAIN words |->
    IF i < Len(words) THEN words[i] \o <<Space>> ELSE words[i]])

\* The pieces are joined by nothing.  (A plausible bug of TextChunks.)
MutantNoSpaceBetween(t) ==
  LET ws == Words(t)
      count == (Len(ws) + ChunkWords - 1) \div ChunkWords
      End(i) == IF i * ChunkWords < Len(ws) THEN i * ChunkWords ELSE Len(ws)
  IN [i \in 1 .. count |-> Joined(SubSeq(ws, (i - 1) * ChunkWords + 1, End(i)))]

\* Anthropic's text: ChunkWords words at a time, and a space after all pieces but the last.
TextChunks(t) ==
  LET ws == Words(t)
      count == (Len(ws) + ChunkWords - 1) \div ChunkWords
      End(i) == IF i * ChunkWords < Len(ws) THEN i * ChunkWords ELSE Len(ws)
  IN [i \in 1 .. count |->
        Joined(SubSeq(ws, (i - 1) * ChunkWords + 1, End(i)))
          \o (IF i < count THEN <<Space>> ELSE <<>>)]

-----------------------------------------------------------------------------
(* The events.                                                             *)

Event(kind, index, data) == [kind |-> kind, index |-> index, data |-> data]
Deltas(index, pieces) == [i \in DOMAIN pieces |-> Event("delta", index, pieces[i])]

\* A block of Anthropic's: other types than these two are passed over.
BlockEvents(i, block) ==
  IF block.type = "thinking" THEN <<>>
  ELSE <<Event("start", i, <<block.type>>)>>
         \o Deltas(i, IF block.type = "text" THEN TextChunks(block.body) ELSE Slices(block.body))
         \o <<Event("stop", i, <<>>)>>

AnthropicStream(a) ==
  <<Event("message_start", 0, <<>>), Event("ping", 0, <<>>)>>
    \o FlattenSeq([i \in DOMAIN a.blocks |-> BlockEvents(i, a.blocks[i])])
    \o <<Event("message_delta", 0, <<>>), Event("message_stop", 0, <<>>)>>

\* A choice of OpenAI's: the role, the content, each tool call by its index among the
\* calls with its arguments after it, the finish reason, [DONE].
OpenAIStream(a) ==
  LET text  == a.blocks # <<>> /\ a.blocks[1].type = "text"
      calls == IF text THEN Tail(a.blocks) ELSE a.blocks
  IN <<Event("role", 0, <<>>)>>
       \o (IF text THEN Deltas(0, Content(a.blocks[1].body)) ELSE <<>>)
       \o FlattenSeq([i \in DOMAIN calls |->
            <<Event("start", i, <<"tool_use">>)>> \o Deltas(i, Slices(calls[i].body))])
       \o <<Event("finish", 0, <<>>), Event("done", 0, <<>>)>>

\* What dispatch does: only streams of known endpoints are touched, and only answers
\* that can be read are cut.
Handle ==
  /\ reply = <<"nothing">>
  /\ reply' = IF ~streaming \/ protocol = "unknown" \/ answer.status # "ok" THEN <<"as is">>
              ELSE IF protocol = "anthropic" THEN AnthropicStream(answer)
              ELSE OpenAIStream(answer)
  /\ UNCHANGED <<protocol, streaming, answer>>

StreamNext == Handle

-----------------------------------------------------------------------------
(* The client.                                                             *)

\* What the events of a kind with an index add up to.
Collected(events, kind, i) ==
  FlattenSeq([n \in DOMAIN events |->
    IF events[n].kind = kind /\ events[n].index = i THEN events[n].data ELSE <<>>])

\* What is started, with its type, once each.
Starts(events, types) ==
  /\ \A n \in DOMAIN events : events[n].kind = "start" => events[n].index \in DOMAIN types
  /\ \A i \in DOMAIN types : Collected(events, "start", i) = <<types[i]>>

\* What is left of a text when its words are all that counts.
Plain(block) == IF block.type = "text" THEN Joined(Words(block.body)) ELSE block.body

\* The client of a stream gets the answer whole: every text and every tool's arguments,
\* piece by piece in order and each under its own index, started once.  Anthropic's texts
\* keep their words and lose what white space was between them; blocks that are neither
\* text nor tools are missing.
StreamIsComplete ==
  streaming /\ reply # <<"nothing">> /\ reply # <<"as is">> =>
    IF protocol = "anthropic"
    THEN LET shown == {i \in DOMAIN answer.blocks : answer.blocks[i].type # "thinking"} IN
         /\ Starts(reply, [i \in shown |-> answer.blocks[i].type])
         /\ \A i \in shown : Collected(reply, "delta", i) = Plain(answer.blocks[i])
    ELSE LET text  == answer.blocks # <<>> /\ answer.blocks[1].type = "text"
             calls == IF text THEN Tail(answer.blocks) ELSE answer.blocks
         IN /\ Starts(reply, [i \in DOMAIN calls |-> "tool_use"])
            /\ \A i \in DOMAIN calls : Collected(reply, "delta", i) = calls[i].body
            /\ text => Collected(reply, "delta", 0) = answer.blocks[1].body
=============================================================================
