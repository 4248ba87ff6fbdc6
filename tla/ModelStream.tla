---------------------------- MODULE ModelStream ----------------------------
(***************************************************************************)
(* The two providers' stream readers: _streamChat and _streamCompletion of *)
(* AnthropicProvider and CustomProvider, and the callbacks of the agent's  *)
(* _streamToCompletion that listen to a chat.                              *)
(*                                                                         *)
(* The server is the environment: it answers with a sequence of blocks and *)
(* encodes it as server-sent events.  An event line is two fragments and a *)
(* newline, so that a network chunk may end inside a line; the reader      *)
(* keeps what follows the last newline in its buffer, as the code does.    *)
(* Texts are the number of the block they belong to, a tool's input is the *)
(* list of the pieces of JSON it arrives in, usage events and request      *)
(* headers are left out.                                                   *)
(***************************************************************************)
EXTENDS Naturals, Sequences

CONSTANTS
    MaxBlocks,  \* blocks in an answer
    MaxPieces,  \* JSON pieces of a tool's input
    ChunkSizes  \* how many fragments a network chunk may have

ASSUME BoundAssumption ==
    MaxBlocks \in Nat /\ MaxPieces \in Nat /\ ChunkSizes \subseteq Nat \ {0}

VARIABLES
    request,  \* what is asked of whom, and what the server will answer
    wire,     \* the fragments the reader has not been given yet
    buf,      \* buf / buffer
    tool,     \* toolUseId or toolCallId, toolIdx and toolInput or toolArgs
    heard,    \* the callbacks made so far
    promise,  \* text, tName, tInput and resolved of the caller's callbacks
    over,     \* how the reader ended: by the server's last event ("done"),
              \* the end of the stream ("eof"), an error, or "silent"; or "no"
    signal    \* signal.aborted: "no", or "yes", or "late" while the answer to
              \* the pending read is already on its way

streamVars == <<request, wire, buf, tool, heard, promise, over, signal>>

(* ----------------------------- the server ------------------------------ *)

TextBlock == [kind |-> "text", pieces |-> 0]
ToolBlock(n) == [kind |-> "tool", pieces |-> n]
Block == {TextBlock} \cup {ToolBlock(n) : n \in 0..MaxPieces}
Answer == UNION {[1..n -> Block] : n \in 0..MaxBlocks}
NoId == 0

(* One line of the event stream. *)
Event(kind, id, piece) == [kind |-> kind, id |-> id, piece |-> piece]
Piece(id, i, n) == <<id, i, n>>
NoPiece == Piece(NoId, 0, 0)

(* The pieces of the i-th block's input that are sent: a cut answer stops  *)
(* before the last piece of its last block.                                *)
IsCut(req, i) == req.cut /\ i = Len(req.answer)
Sent(req, i) ==
    LET n == req.answer[i].pieces IN IF IsCut(req, i) THEN n - 1 ELSE n

AnthropicBlock(req, i) ==
    IF req.answer[i].kind = "text"
    THEN << Event("start", NoId, NoPiece), Event("text", i, NoPiece),
            Event("stop", NoId, NoPiece) >>
    ELSE << Event("start", i, NoPiece) >>
         \o [k \in 1..Sent(req, i) |->
                Event("piece", NoId, Piece(i, k, req.answer[i].pieces))]
         \o << Event("stop", NoId, NoPiece) >>

OpenAIBlock(req, i) ==
    IF req.answer[i].kind = "text"
    THEN << Event("text", i, NoPiece) >>
    ELSE << Event("call", i, NoPiece) >>
         \o [k \in 1..Sent(req, i) |->
                Event("call", i, Piece(i, k, req.answer[i].pieces))]

BlockLines(req, i) ==
    IF req.api = "anthropic" THEN AnthropicBlock(req, i) ELSE OpenAIBlock(req, i)

HasTool(req) == \E i \in DOMAIN req.answer : req.answer[i].kind = "tool"

Ending(req) ==
    IF req.api = "anthropic" THEN << Event("message_stop", NoId, NoPiece) >>
    ELSE << Event(IF req.cut THEN "length"
                  ELSE IF HasTool(req) THEN "tool_calls" ELSE "finish",
                  NoId, NoPiece),
            Event("[DONE]", NoId, NoPiece) >>

Body(req) ==
    LET upto[i \in 0..Len(req.answer)] ==
            IF i = 0 THEN <<>> ELSE upto[i - 1] \o BlockLines(req, i)
    IN  upto[Len(req.answer)] \o Ending(req)

(* An odd line may be mixed in: a comment or keepalive, a broken line, or  *)
(* an error event.                                                         *)
EventLines(req) ==
    LET body == Body(req)
    IN  IF req.odd = "none" THEN body
        ELSE [l \in 1..Len(body) + 1 |->
                 IF l < req.oddAt THEN body[l]
                 ELSE IF l > req.oddAt THEN body[l - 1]
                 ELSE Event(req.odd, NoId, NoPiece)]

(* Each line is two fragments and a newline. *)
NL == <<Event("newline", NoId, NoPiece), 3>>
Fragment(e, part) == IF part = 3 THEN NL ELSE <<e, part>>
Fragments(lines) ==
    [f \in 1..3 * Len(lines) |->
        Fragment(lines[(f + 2) \div 3], ((f + 2) % 3) + 1)]
Wire(req) == Fragments(EventLines(req))

(* At most one thing is out of the ordinary in an answer. *)
Exchanges ==
    {req \in [api : {"anthropic", "openai"}, purpose : {"chat", "completion"},
              answer : Answer, cut : BOOLEAN,
              odd : {"none", "noise", "broken", "error"},
              oddAt : 1..(MaxBlocks * (MaxPieces + 2) + 1)] :
        /\ req.cut => /\ Len(req.answer) > 0
                      /\ req.answer[Len(req.answer)].pieces > 0
                      /\ req.odd = "none"
        /\ req.purpose = "completion" => ~HasTool(req)
        /\ IF req.odd = "none" THEN req.oddAt = 1
           ELSE req.oddAt <= Len(Body(req))}

(* ----------------------------- the reader ------------------------------ *)

NoTool == [id |-> NoId, index |-> NoId, args |-> <<>>]

(* const lines = buf.split('\n'); buf = lines.pop() *)
ScanStep(before, x) ==
    IF x = NL THEN [lines |-> Append(before.lines, before.rest), rest |-> <<>>]
    ELSE [before EXCEPT !.rest = Append(@, x)]
Scan(text) ==
    LET scan[i \in 0..Len(text)] ==
            IF i = 0 THEN [lines |-> <<>>, rest |-> <<>>]
            ELSE ScanStep(scan[i - 1], text[i])
    IN  scan[Len(text)]
SplitDropRest(text) == [Scan(text) EXCEPT !.rest = <<>>]
Split(text) == Scan(text)

(* line.startsWith('data: '): the mark is in the first fragment. *)
IsData(line) ==
    line # <<>> /\ Head(line)[2] = 1 /\ Head(line)[1].kind # "noise"

(* JSON.parse(data) returns: both fragments of one line, in order. *)
Parses(line) ==
    /\ Head(line)[1].kind # "broken"
    /\ line = << <<Head(line)[1], 1>>, <<Head(line)[1], 2>> >>

(* try { JSON.parse(toolInput) } catch { {} } *)
Input(args) ==
    IF \A i \in DOMAIN args : args[i] = Piece(args[1][1], i, Len(args))
    THEN args ELSE <<>>

Callback(kind, of, input, reason) ==
    [kind |-> kind, of |-> of, input |-> input, reason |-> reason]
Token(i) == Callback("onToken", i, <<>>, "none")
ToolUse(id, args) == Callback("onToolUse", id, Input(args), "none")
Done(reason) == Callback("onDone", NoId, <<>>, reason)
Error == Callback("onError", NoId, <<>>, "none")
Settles(callback) == callback.kind \in {"onDone", "onError"}

(* The closure of _streamToCompletion: what the callbacks leave behind. *)
Unsettled == [text |-> <<>>, tool |-> NoId, input |-> <<>>, result |-> "none"]
Listen(c, callback) ==
    CASE callback.kind = "onToken" -> [c EXCEPT !.text = Append(@, callback.of)]
      [] callback.kind = "onToolUse" ->
             [c EXCEPT !.tool = callback.of, !.input = callback.input]
      [] callback.kind = "onError" /\ c.result = "none" -> [c EXCEPT !.result = "error"]
      [] callback.kind = "onDone" /\ c.result = "none" ->
             [c EXCEPT !.result = IF callback.reason = "tool_use" \/ c.tool # NoId
                                  THEN "tool_use" ELSE "end_turn"]
      [] OTHER -> c

Call(s, callback) ==
    [s EXCEPT !.heard = Append(@, callback), !.promise = Listen(@, callback)]
FinishNoReturn(s, reason) == Call(s, Done(reason))
Finish(s, reason) == [Call(s, Done(reason)) EXCEPT !.over = "done"]

(* The two places a collected tool call is handed over. *)
FlushTool(s) ==
    IF s.tool.id = NoId THEN s ELSE Call(s, ToolUse(s.tool.id, s.tool.args))
StopBlockKeepId(s) ==
    IF s.tool.id = NoId THEN s
    ELSE [Call(s, ToolUse(s.tool.id, s.tool.args)) EXCEPT !.tool.args = <<>>]
StopBlock(s) ==
    IF s.tool.id = NoId THEN s
    ELSE [Call(s, ToolUse(s.tool.id, s.tool.args)) EXCEPT !.tool = NoTool]

(* switch (e.type) of AnthropicProvider._streamChat *)
OnAnthropicChat(s, e) ==
    CASE e.kind = "start" /\ e.id # NoId ->
             [s EXCEPT !.tool = [NoTool EXCEPT !.id = e.id]]
      [] e.kind = "text" -> Call(s, Token(e.id))
      [] e.kind = "piece" -> [s EXCEPT !.tool.args = Append(@, e.piece)]
      [] e.kind = "stop" -> StopBlock(s)
      [] e.kind = "message_stop" -> Finish(s, "end_turn")
      [] e.kind = "error" -> [Call(s, Error) EXCEPT !.over = "error"]
      [] OTHER -> s

(* A delta.tool_calls entry of CustomProvider._streamChat *)
OnCall(s, e) ==
    LET at == IF e.id = s.tool.index THEN s
              ELSE [FlushTool(s) EXCEPT
                      !.tool = [id |-> e.id, index |-> e.id, args |-> <<>>]]
    IN  IF e.piece = NoPiece THEN at
        ELSE [at EXCEPT !.tool.args = Append(@, e.piece)]

OnOpenAIChat(s, e) ==
    CASE e.kind = "text" -> Call(s, Token(e.id))
      [] e.kind = "call" -> OnCall(s, e)
      [] e.kind \in {"finish", "[DONE]"} -> Finish(s, "end_turn")
      [] e.kind = "tool_calls" -> Finish(FlushTool(s), "tool_use")
      [] e.kind = "length" -> Finish(s, "max_tokens")
      [] OTHER -> s

(* The two _streamCompletion loops look at texts and at one ending only. *)
OnCompletion(s, e, ending) ==
    CASE e.kind = "text" -> Call(s, Token(e.id))
      [] e.kind = ending -> Finish(s, "full")
      [] OTHER -> s

OnEvent(req, s, e) ==
    CASE req.purpose = "completion" /\ req.api = "anthropic" ->
             OnCompletion(s, e, "message_stop")
      [] req.purpose = "completion" /\ req.api = "openai" ->
             OnCompletion(s, e, "[DONE]")
      [] req.purpose = "chat" /\ req.api = "anthropic" -> OnAnthropicChat(s, e)
      [] req.purpose = "chat" /\ req.api = "openai" -> OnOpenAIChat(s, e)

(* The body of the loop over the complete lines of a chunk; a line that    *)
(* does not parse goes back to the front of the buffer.                    *)
OnLine(req, s, line) ==
    CASE s.over # "no" \/ ~IsData(line) -> s
      [] s.over = "no" /\ IsData(line) /\ Parses(line) -> OnEvent(req, s, Head(line)[1])
      [] OTHER -> [s EXCEPT !.buf = line \o <<NL>> \o @]

(* buf += decode(value), and the loop over its lines. *)
OnChunk(req, s, chunk) ==
    LET split == Split(s.buf \o chunk)
        after[k \in 0..Len(split.lines)] ==
            IF k = 0 THEN [s EXCEPT !.buf = split.rest]
            ELSE OnLine(req, after[k - 1], split.lines[k])
    IN  after[Len(split.lines)]

Reader == [buf |-> buf, tool |-> tool, heard |-> heard, promise |-> promise,
           over |-> over]

-----------------------------------------------------------------------------

StreamInit ==
    /\ request \in Exchanges
    /\ wire = Wire(request) /\ buf = <<>> /\ tool = NoTool /\ heard = <<>>
    /\ promise = Unsettled /\ over = "no" /\ signal = "no"

(* An abort makes every later read reject; one answer may be under way. *)
Answerable == over = "no" /\ signal # "yes"
AfterAnswer == IF signal = "late" THEN "yes" ELSE signal

(* const { done, value } = await reader.read(). *)
Chunk(n) ==
    /\ Answerable /\ n <= Len(wire)
    /\ wire' = SubSeq(wire, n + 1, Len(wire))
    /\ \E s \in {OnChunk(request, Reader, SubSeq(wire, 1, n))} :
          /\ buf' = s.buf /\ tool' = s.tool /\ over' = s.over
          /\ heard' = s.heard /\ promise' = s.promise
    /\ signal' = AfterAnswer
    /\ UNCHANGED request

(* One of the two callbacks that end a stream. *)
Settle(callback) ==
    heard' = Append(heard, callback) /\ promise' = Listen(promise, callback)

(* if (done) break: the server closed the stream, at its end or before it. *)
StreamEndsSilently ==
    /\ Answerable
    /\ over' = "eof"
    /\ signal' = AfterAnswer
    /\ UNCHANGED <<request, wire, buf, tool, heard, promise>>

StreamEnds ==
    /\ Answerable
    /\ Settle(Done(IF request.purpose = "chat" THEN "end_turn" ELSE "full"))
    /\ over' = "eof"
    /\ signal' = AfterAnswer
    /\ UNCHANGED <<request, wire, buf, tool>>

(* fetch() or reader.read() rejects: onError, unless it is the abort. *)
StreamFails ==
    /\ over = "no"
    /\ IF signal = "yes" THEN over' = "silent" /\ UNCHANGED <<heard, promise>>
                         ELSE over' = "error" /\ Settle(Error)
    /\ UNCHANGED <<request, wire, buf, tool, signal>>

(* abort() on the controller the provider returned *)
Abort ==
    /\ signal = "no"
    /\ signal' \in {"late", "yes"}
    /\ UNCHANGED <<request, wire, buf, tool, heard, promise, over>>

StreamNext ==
    (\E n \in ChunkSizes : Chunk(n)) \/ StreamEnds \/ StreamFails \/ Abort

(* The network makes progress: a read is answered, or rejects. *)
Reads == (\E n \in ChunkSizes : Chunk(n)) \/ StreamEnds \/ StreamFails
StreamSpec == StreamInit /\ [][StreamNext]_streamVars /\ WF_streamVars(Reads)

-----------------------------------------------------------------------------
(* ----------------------------- properties ------------------------------ *)

BlocksOf(kind) == {b \in DOMAIN request.answer : request.answer[b].kind = kind}

(* The callbacks of one kind are about the server's blocks of one kind, in *)
(* its order, none twice and none skipped.                                 *)
Follows(callback, kind) ==
    LET said == {i \in DOMAIN heard : heard[i].kind = callback}
    IN  /\ \A i \in said : heard[i].of \in BlocksOf(kind)
        /\ \A i, j \in said : i < j => heard[i].of < heard[j].of
        /\ \A i \in said : \A b \in BlocksOf(kind) :
              b < heard[i].of => \E j \in said : heard[j].of = b

(* A tool call is handed over with the whole input the model wrote; only   *)
(* the call the token limit cut short is handed over with an empty one.    *)
InputsIntact ==
    \A i \in DOMAIN heard : heard[i].kind = "onToolUse" =>
        LET n == request.answer[heard[i].of].pieces
        IN  heard[i].input = IF IsCut(request, heard[i].of) THEN <<>>
                             ELSE [k \in 1..n |-> Piece(heard[i].of, k, n)]

(* However the network cuts the stream into chunks, and whatever odd lines *)
(* are mixed in, the texts and the tool calls handed to the callbacks are  *)
(* the server's, in its order, none twice and none skipped, and each tool  *)
(* call has the input the model wrote.                                     *)
HeardInOrder ==
    Follows("onToken", "text") /\ Follows("onToolUse", "tool") /\ InputsIntact

(* The callers resolve a promise in onDone and reject it in onError: one   *)
(* of the two is called at most once, and nothing is called after it.      *)
SettlesOnce ==
    \A i \in DOMAIN heard : Settles(heard[i]) => i = Len(heard)

(* An answer that reached the server's ending gives the caller the model's *)
(* whole text, and run() its last tool call; an ordinary answer is never   *)
(* taken for a tool call or the reverse.                                   *)
WholeAnswer ==
    over = "done" /\ ~request.cut =>
        /\ {promise.text[i] : i \in DOMAIN promise.text} = BlocksOf("text")
        /\ \A i, j \in DOMAIN promise.text :
              i < j => promise.text[i] < promise.text[j]
        /\ promise.result = IF BlocksOf("tool") = {} THEN "end_turn" ELSE "tool_use"
        /\ BlocksOf("tool") # {} =>
              /\ promise.tool \in BlocksOf("tool")
              /\ \A b \in BlocksOf("tool") : b <= promise.tool

(* Unless the caller aborts, its promise is settled: a broken line that is *)
(* put back over and over cannot keep the reader from its ending.          *)
StreamSettles == <>(signal # "no" \/ (heard # <<>> /\ Settles(heard[Len(heard)])))
=============================================================================
