----------------------------- MODULE ChatStream -----------------------------
(***************************************************************************)
(* One request to POST /v1/chat/completions (routers/openai_compat.py) and *)
(* the runtime it is answered from (services/runtime/base.py).  The        *)
(* response is streamed from the runtime, or buffered and then streamed,   *)
(* or one message.  The runtime may send any lines, fail at any of them,   *)
(* and end its stream with or without a terminal chunk; the client may     *)
(* leave at any point.  A piece of the stream carries a text in its field  *)
(* `content`, in its field `reasoning_content`, in both or in none.        *)
(***************************************************************************)
EXTENDS Naturals, Sequences, FiniteSets, SequencesExt

CONSTANTS Texts,        \* non-empty texts
          MaxLines      \* lines the runtime sends before it ends its stream

NoText == "none"
ErrorText == "error"    \* what the endpoint writes into its own error chunk

ASSUME TextsAssumption == Texts \cap {NoText, ErrorText} = {}
ASSUME MaxLinesAssumption == MaxLines \in Nat

VARIABLES request,      \* the request, and whether the runtime can stream
          phase,        \* where the endpoint is
          upstream,     \* the connection to the runtime
          lines,        \* what the runtime has sent on it
          status, body  \* the response, as the client has received it

vars == <<request, phase, upstream, lines, status, body>>

(* Lines of the runtime: a chunk is a JSON object with a delta and perhaps *)
(* a finish_reason; anything that is not "data:" or not an object is       *)
(* skipped; bad JSON and a broken connection end the stream.               *)
Chunks == [kind : {"chunk"}, content : Texts \cup {NoText},
           reasoning : Texts \cup {NoText}, finish : BOOLEAN]
Other(kind) == [kind |-> kind, content |-> NoText, reasoning |-> NoText, finish |-> FALSE]
Failures == {Other("bad json"), Other("broken")}
Ends == {Other("[DONE]"), Other("end of file")}
Lines == Chunks \cup {Other("skipped")} \cup Failures \cup Ends

Event(kind, content, reasoning, finish) ==
    [kind |-> kind, content |-> content, reasoning |-> reasoning, finish |-> finish]

Empty(kind, finish) == Event(kind, NoText, NoText, finish)

(* The endpoint's error chunk: its text is content, and it is terminal.    *)
ErrorChunk == Event("error", ErrorText, NoText, TRUE)

Requests == [stream : BOOLEAN, streamable : BOOLEAN,
             user : {"missing", "blank", "question"},
             collection : {"none", "known", "unknown"}]

(* The response is streamed from the runtime, and not buffered.            *)
Streamed == request.stream /\ request.streamable

Init ==
    /\ request \in Requests
    /\ phase = "received"
    /\ upstream = "none"
    /\ lines = <<>>
    /\ status = 0
    /\ body = <<>>

----------------------------------------------------------------------------
(* _build_prompt and _apply_rag_to_context refuse a request; a response    *)
(* that streams from the runtime starts before the runtime is contacted.   *)
Accept ==
    /\ phase = "received"
    /\ CASE request.user # "question" -> status' = 400 /\ phase' = "ended"
         [] request.user = "question" /\ request.collection = "unknown" ->
              status' = 404 /\ phase' = "ended"
         [] request.user = "question" /\ request.collection # "unknown" ->
              IF Streamed
              THEN status' = 200 /\ phase' = "connect"
              ELSE status' = status /\ phase' = "ask"
    /\ UNCHANGED <<request, upstream, lines, body>>

\* Mutant: the status of the runtime's response is not looked at.
ConnectUnchecked ==
    /\ phase = "connect"
    /\ upstream' \in {"open", "refused"} /\ phase' = "relay"
    /\ UNCHANGED <<request, lines, status, body>>

(* stream_chat_messages is entered by the first chunk that is pulled.      *)
Connect ==
    /\ phase = "connect"
    /\ \/ /\ upstream' = "open" /\ phase' = "relay"
          /\ UNCHANGED body
       \/ /\ upstream' = "refused" /\ phase' = "metadata"
          /\ body' = Append(body, ErrorChunk)
    /\ UNCHANGED <<request, lines, status>>

\* Mutant: reasoning replaces the content beside it.
RelayedMerged(line) ==
    Event("chunk", IF line.reasoning = NoText THEN line.content ELSE line.reasoning,
          line.reasoning, line.finish)

(* The chunk with its content and its reasoning; reasoning is copied into  *)
(* the content when there is none, and stays in its own field as well.     *)
Relayed(line) ==
    Event("chunk", IF line.content = NoText THEN line.reasoning ELSE line.content,
          line.reasoning, line.finish)

\* Mutant: a stream that fails just ends.
RelaySilently ==
    /\ phase = "relay"
    /\ \E line \in Lines :
          /\ Len(lines) >= MaxLines => line \in Failures \cup Ends
          /\ lines' = Append(lines, line)
          /\ body' = IF line \in Chunks THEN Append(body, Relayed(line)) ELSE body
          /\ IF line \in Failures \cup Ends
             THEN upstream' = "closed" /\ phase' = "metadata"
             ELSE UNCHANGED <<upstream, phase>>
    /\ UNCHANGED <<request, status>>

\* Mutant: the generator returns [DONE] right after the error chunk.
RelayReturning ==
    /\ phase = "relay"
    /\ \E line \in Lines :
          /\ Len(lines) >= MaxLines => line \in Failures \cup Ends
          /\ lines' = Append(lines, line)
          /\ body' = CASE line \in Chunks -> Append(body, Relayed(line))
                       [] line \in Failures -> Append(body, ErrorChunk)
                       [] OTHER -> body
          /\ IF line \in Failures \cup Ends
             THEN upstream' = "closed"
                  /\ phase' = IF line \in Failures THEN "done" ELSE "metadata"
             ELSE UNCHANGED <<upstream, phase>>
    /\ UNCHANGED <<request, status>>

(* The next line of the runtime, and what the two generators make of it.   *)
Relay ==
    /\ phase = "relay"
    /\ \E line \in Lines :
          /\ Len(lines) >= MaxLines => line \in Failures \cup Ends
          /\ lines' = Append(lines, line)
          /\ body' = CASE line \in Chunks -> Append(body, Relayed(line))
                       [] line \in Failures -> Append(body, ErrorChunk)
                       [] OTHER -> body
          /\ IF line \in Failures \cup Ends
             THEN upstream' = "closed" /\ phase' = "metadata"
             ELSE UNCHANGED <<upstream, phase>>
    /\ UNCHANGED <<request, status>>

\* Mutant: the trailing chunk is a terminal chunk too.
SendTerminalMetadata ==
    /\ phase = "metadata"
    /\ body' = Append(body, Empty("metadata", TRUE))
    /\ phase' = "done"
    /\ UNCHANGED <<request, upstream, lines, status>>

(* The trailing chunk carries the metadata and no finish_reason.           *)
SendMetadata ==
    /\ phase = "metadata"
    /\ body' = Append(body, Empty("metadata", FALSE))
    /\ phase' = "done"
    /\ UNCHANGED <<request, upstream, lines, status>>

SendDone ==
    /\ phase = "done"
    /\ body' = Append(body, Empty("done", FALSE))
    /\ phase' = "ended"
    /\ UNCHANGED <<request, upstream, lines, status>>

----------------------------------------------------------------------------
(* What the runtime may reply to a request that is not streamed; the reply *)
(* can be read when it is an object with an assistant message.             *)
Replies == {line \in Chunks : line.finish} \cup Failures \cup {Other("skipped")}

(* generate_answer: the content of the reply is the answer, its reasoning  *)
(* is dropped; a runtime that cannot be reached or replies with an error,  *)
(* with bad JSON or without content is answered 502, also when it has only *)
(* reasoning; JSON that is no object is expected by no handler (500).      *)
Ask ==
    /\ phase = "ask"
    /\ \/ /\ upstream' = "refused" /\ status' = 502 /\ phase' = "ended"
          /\ UNCHANGED <<lines, body>>
       \/ \E reply \in Replies :
             /\ upstream' = "closed" /\ lines' = <<reply>>
             /\ IF reply.content = NoText
                THEN /\ status' = IF reply = Other("skipped") THEN 500 ELSE 502
                     /\ phase' = "ended" /\ UNCHANGED body
                ELSE /\ status' = 200
                     /\ IF request.stream
                        THEN phase' = "role" /\ UNCHANGED body
                        ELSE /\ phase' = "ended"
                             /\ body' = <<Event("message", reply.content, NoText, TRUE)>>
    /\ UNCHANGED request

(* _stream_buffered: the role, the answer, the end with the metadata.      *)
SendRole ==
    /\ phase = "role"
    /\ body' = Append(body, Empty("chunk", FALSE))
    /\ phase' = "content"
    /\ UNCHANGED <<request, upstream, lines, status>>

SendContent ==
    /\ phase = "content"
    /\ body' = Append(body, Event("chunk", lines[1].content, NoText, FALSE))
    /\ phase' = "final"
    /\ UNCHANGED <<request, upstream, lines, status>>

SendFinal ==
    /\ phase = "final"
    /\ body' = Append(body, Empty("metadata", TRUE))
    /\ phase' = "done"
    /\ UNCHANGED <<request, upstream, lines, status>>

----------------------------------------------------------------------------
\* Mutant: the connection is not closed with the generator.
KeepConnection ==
    /\ phase = "left" /\ upstream = "lost"
    /\ upstream' = "closed"
    /\ UNCHANGED <<request, phase, lines, status, body>>

(* The client closes the connection; the server drops the generator, whose *)
(* `with` blocks close the connection to the runtime.                      *)
ClientLeaves ==
    /\ phase \notin {"ended", "left"}
    /\ phase' = "left"
    /\ UNCHANGED <<request, upstream, lines, status, body>>

DropGenerator ==
    /\ phase = "left" /\ upstream = "open"
    /\ upstream' = "closed"
    /\ UNCHANGED <<request, phase, lines, status, body>>

Serve ==
    \/ Accept \/ Connect \/ Relay \/ SendMetadata \/ SendDone
    \/ Ask \/ SendRole \/ SendContent \/ SendFinal \/ DropGenerator

Next == Serve \/ ClientLeaves

(* The server pulls the next chunk whenever the last was sent, and every   *)
(* read from the runtime ends within its timeout.                          *)
Fairness == WF_vars(Serve)

Spec == Init /\ [][Next]_vars /\ Fairness

----------------------------------------------------------------------------
(* The endpoint reads lines only on an open connection, and the response   *)
(* is of the kind its path sends.                                          *)
TypeOK ==
    /\ request \in Requests
    /\ phase \in {"received", "connect", "relay", "metadata", "done", "ask", "role",
                  "content", "final", "ended", "left"}
    /\ upstream \in {"none", "open", "refused", "closed"}
    /\ phase = "relay" => upstream = "open"
    /\ lines \in Seq(Lines) /\ Len(lines) <= MaxLines + 1
    /\ status \in {0, 200, 400, 404, 500, 502}
    /\ status # 200 => body = <<>>

----------------------------------------------------------------------------
Complete == body # <<>> /\ Last(body).kind \in {"done", "message"}

(* The runtime gave no answer, or not to its end.                          *)
Failed ==
    \/ upstream = "refused"
    \/ lines # <<>> /\ IF Streamed THEN Last(lines) \in Failures
                       ELSE Last(lines).content = NoText

Silence == [content |-> NoText, reasoning |-> NoText]

(* What an event or a line says in its two fields; the endpoint's own      *)
(* error chunk is no part of the answer.                                   *)
Piece(sent) ==
    IF sent.kind = "error" THEN Silence
    ELSE [content |-> sent.content, reasoning |-> sent.reasoning]

(* The pieces of a sequence that say something, in order.                  *)
Speech(s) ==
    LET upTo[n \in 0 .. Len(s)] ==
            IF n = 0 THEN <<>>
            ELSE IF Piece(s[n]) = Silence THEN upTo[n - 1]
            ELSE Append(upTo[n - 1], Piece(s[n]))
    IN upTo[Len(s)]

Said == Speech(body)
Told == Speech(lines)

(* One piece of the answer and the piece of the runtime it comes from: a   *)
(* client that reads only content finds one in it, the runtime's own if    *)
(* the runtime sent one; a client that reads reasoning too finds it where  *)
(* the runtime put it, unless the answer is buffered.                      *)
Conveys(said, told) ==
    /\ said.content \in {told.content, told.reasoning} \ {NoText}
    /\ told.content # NoText => said.content = told.content
    /\ said.reasoning = IF Streamed THEN told.reasoning ELSE NoText

(* Between its own events the endpoint sends what the runtime sent, piece  *)
(* by piece and in its order, whatever else came in between: nothing is    *)
(* lost, made up or sent twice, no reasoning takes the place of a content, *)
(* and every piece has a content.  A complete response has all of it.      *)
AnswerIsTheRuntimes ==
    /\ Len(Said) <= Len(Told)
    /\ \A i \in DOMAIN Said : Conveys(Said[i], Told[i])
    /\ Complete => Len(Said) = Len(Told)

Terminals(s) == Cardinality({i \in DOMAIN s : s[i].finish})

(* The endpoint "must NOT emit a second non-null finish_reason (the OpenAI *)
(* streaming contract allows exactly one terminal chunk per choice)"       *)
(* (openai_compat.py _stream_via_runtime): a complete response has one     *)
(* event with a finish_reason when the runtime sent one.                   *)
ExactlyOneTerminalChunk == Complete /\ Terminals(lines) = 1 => Terminals(body) = 1

(* What holds instead: the endpoint passes on the terminal chunks of the   *)
(* runtime, however many, and adds none but that of its error chunk        *)
(* (openai_compat.py _stream_via_runtime, _stream_buffered).               *)
OnlyErrorsAddTerminalChunks ==
    Complete => Terminals(body) = Terminals(lines) + IF Failed THEN 1 ELSE 0

Whole ==
    IF request.stream
    THEN /\ Len(body) >= 2 /\ body[Len(body) - 1].kind = "metadata"
         /\ Last(body).kind = "done"
    ELSE Len(body) = 1 /\ Last(body).kind = "message"

(* A request that ended without its client leaving tells the truth about   *)
(* the runtime, on every path: a buffered response has an error status     *)
(* exactly when the runtime failed, a streamed one (whose status is sent   *)
(* before the runtime is asked) an error text exactly then; a request that *)
(* is refused never reached the runtime; and every other response is       *)
(* whole, up to the metadata and [DONE], also after an error chunk.        *)
FailureIsVisible ==
    phase = "ended" =>
        /\ status \in {500, 502} <=> Failed /\ ~Streamed
        /\ (\E i \in DOMAIN body : body[i].content = ErrorText) <=> Failed /\ Streamed
        /\ status \in {400, 404} <=> upstream = "none"
        /\ status = 200 => Whole

(* The three response paths keep the promise of CompletionStream.          *)
Promise == INSTANCE CompletionStream

ImplementsCompletionStream == Promise!Spec

(* Every request ends, and the connection to the runtime is closed with    *)
(* it, also when the client leaves in the middle of a stream.              *)
EveryRequestEnds == <>[](phase \in {"ended", "left"} /\ upstream # "open")
=============================================================================
