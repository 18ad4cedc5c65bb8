--------------------------- MODULE ChatStreamProofs ---------------------------
(***************************************************************************)
(* Proofs about ChatStream, for any texts and any number of lines.  The    *)
(* invariant StreamInv says what the response holds in each phase of the   *)
(* endpoint, what it says of the runtime's failure, and counts its         *)
(* terminal chunks against those of the runtime; AnswerInv compares the    *)
(* answer piece by piece with what the runtime sent.                       *)
(***************************************************************************)
EXTENDS ChatStream, FiniteSetTheorems, NaturalsInduction, WellFoundedInduction, TLAPS

Contents == Texts \cup {NoText, ErrorText}
Reasonings == Texts \cup {NoText}

Events == [kind : {"chunk", "error", "metadata", "done", "message"},
           content : Contents, reasoning : Reasonings, finish : BOOLEAN]

\* The client is told of a failure.
HasError(s) == \E i \in DOMAIN s : s[i].content = ErrorText

Sent(s, kinds) == \A i \in DOMAIN s : s[i].kind \in kinds

\* The statuses a phase is entered with, and the response path it belongs to.
PathInv ==
    /\ phase \in {"received", "ask"} => status = 0
    /\ phase \in {"connect", "relay", "metadata", "done", "role", "content", "final"}
           => status = 200 /\ request.stream
    /\ phase \in {"connect", "relay", "metadata"} => Streamed
    /\ phase \in {"ask", "role", "content", "final"} => ~Streamed
    /\ phase \in {"relay", "metadata", "done", "role", "content", "final"} => upstream # "none"

\* What has been sent in each phase.
BodyInv ==
    /\ phase \in {"received", "connect", "ask"} =>
           body = <<>> /\ lines = <<>> /\ upstream = "none"
    /\ phase \in {"relay", "role", "content", "final"} =>
           Sent(body, {"chunk"}) /\ ~HasError(body)
    /\ phase = "metadata" => Sent(body, {"chunk", "error"})
    /\ phase = "done" => body # <<>> /\ Last(body).kind = "metadata"
    /\ phase = "left" => ~Complete

\* Failures and terminal chunks of the runtime and of the response.
CountInv ==
    /\ phase \in {"received", "connect", "ask", "relay", "role", "content", "final"} => ~Failed
    /\ phase = "relay" => Len(lines) <= MaxLines /\ Terminals(body) = Terminals(lines)
    /\ phase \in {"role", "content", "final"} =>
           lines # <<>> /\ Terminals(body) = 0 /\ Terminals(lines) = 1
    /\ phase \in {"metadata", "done"} =>
           (HasError(body) <=> Failed) /\ (Failed => Streamed)
    /\ phase \in {"metadata", "done"} \/ Complete =>
           Terminals(body) = Terminals(lines) + IF Failed THEN 1 ELSE 0

StreamInv ==
    /\ TypeOK /\ body \in Seq(Events)
    /\ PathInv /\ BodyInv /\ CountInv
    /\ FailureIsVisible

-----------------------------------------------------------------------------
(* Sequences *)

LEMMA Appended ==
    ASSUME NEW S, NEW s \in Seq(S), NEW e
    PROVE  /\ DOMAIN Append(s, e) = DOMAIN s \cup {Len(s) + 1}
           /\ \A i \in DOMAIN s : Append(s, e)[i] = s[i]
           /\ Append(s, e)[Len(s) + 1] = e
           /\ Len(s) + 1 \notin DOMAIN s
           /\ Len(Append(s, e)) = Len(s) + 1
           /\ Append(s, e) # <<>>
           /\ Last(Append(s, e)) = e
<1>1. /\ DOMAIN s = 1..Len(s) /\ Len(s) \in Nat
      /\ DOMAIN Append(s, e) = 1..(Len(s) + 1)
      /\ Len(Append(s, e)) = Len(s) + 1
  OBVIOUS
<1>2. \A i \in 1..Len(s) : Append(s, e)[i] = s[i] OBVIOUS
<1>3. Append(s, e)[Len(s) + 1] = e OBVIOUS
<1>4. Append(s, e) # <<>> BY <1>1
<1>. QED BY <1>1, <1>2, <1>3, <1>4 DEF Last

LEMMA FrontOfAppended ==
    ASSUME NEW S, NEW s \in Seq(S), NEW e \in S
    PROVE  Front(Append(s, e)) = s
<1>1. Append(s, e) \in Seq(S) /\ Len(Append(s, e)) = Len(s) + 1 /\ Len(s) \in Nat OBVIOUS
<1>2. Front(Append(s, e)) = SubSeq(Append(s, e), 1, Len(s)) BY <1>1 DEF Front
<1>3. /\ SubSeq(Append(s, e), 1, Len(s)) \in Seq(S)
      /\ Len(SubSeq(Append(s, e), 1, Len(s))) = Len(s)
      /\ \A i \in 1..Len(s) : SubSeq(Append(s, e), 1, Len(s))[i] = s[i]
  BY <1>1
<1>. QED BY <1>2, <1>3

LEMMA NoTerminals == Terminals(<<>>) = 0
<1>1. {i \in DOMAIN <<>> : <<>>[i].finish} = {} OBVIOUS
<1>. QED BY <1>1, FS_EmptySet DEF Terminals

LEMMA TerminalsType ==
    ASSUME NEW S, NEW s \in Seq(S)
    PROVE  IsFiniteSet({i \in DOMAIN s : s[i].finish}) /\ Terminals(s) \in Nat
<1>1. {i \in DOMAIN s : s[i].finish} \subseteq 1..Len(s) /\ Len(s) \in Nat OBVIOUS
<1>2. IsFiniteSet(1..Len(s)) BY <1>1, FS_Interval
<1>3. IsFiniteSet({i \in DOMAIN s : s[i].finish}) BY <1>1, <1>2, FS_Subset
<1>. QED BY <1>3, FS_CardinalityType DEF Terminals

\* A sent event counts when it is terminal.
LEMMA TerminalsOfAppended ==
    ASSUME NEW S, NEW s \in Seq(S), NEW e, e.finish \in BOOLEAN
    PROVE  Terminals(Append(s, e)) = Terminals(s) + IF e.finish THEN 1 ELSE 0
<1>. DEFINE before == {i \in DOMAIN s : s[i].finish}
            after == {i \in DOMAIN Append(s, e) : Append(s, e)[i].finish}
            n == Len(s) + 1
<1>1. IsFiniteSet(before) /\ Cardinality(before) \in Nat BY TerminalsType DEF Terminals
<1>2. n \notin before BY Appended
<1>3. after = IF e.finish THEN before \cup {n} ELSE before
  <2>1. /\ DOMAIN Append(s, e) = DOMAIN s \cup {n} /\ n \notin DOMAIN s
        /\ \A i \in DOMAIN s : Append(s, e)[i] = s[i]
        /\ Append(s, e)[n] = e
    BY Appended
  <2>. QED BY <2>1
<1>4. Cardinality(before \cup {n}) = Cardinality(before) + 1
  BY <1>1, <1>2, FS_AddElement
<1>5. Terminals(s) = Cardinality(before) /\ Terminals(Append(s, e)) = Cardinality(after)
  BY DEF Terminals
<1>. HIDE DEF before, after, n
<1>. QED BY <1>1, <1>3, <1>4, <1>5

\* What one more event does to what a response holds.
LEMMA EventSent ==
    ASSUME NEW s \in Seq(Events), NEW e \in Events
    PROVE  /\ Append(s, e) \in Seq(Events)
           /\ Append(s, e) # <<>>
           /\ Last(Append(s, e)) = e
           /\ Terminals(s) \in Nat
           /\ e.finish => Terminals(Append(s, e)) = Terminals(s) + 1
           /\ ~e.finish => Terminals(Append(s, e)) = Terminals(s)
           /\ HasError(Append(s, e)) <=> HasError(s) \/ e.content = ErrorText
           /\ \A kinds : Sent(Append(s, e), kinds) <=> Sent(s, kinds) /\ e.kind \in kinds
<1>1. e.finish \in BOOLEAN BY DEF Events
<1>2. /\ DOMAIN Append(s, e) = DOMAIN s \cup {Len(s) + 1}
      /\ \A i \in DOMAIN s : Append(s, e)[i] = s[i]
      /\ Append(s, e)[Len(s) + 1] = e
  BY Appended
<1>3. HasError(Append(s, e)) <=> HasError(s) \/ e.content = ErrorText
  BY <1>2 DEF HasError
<1>4. ASSUME NEW kinds
      PROVE  Sent(Append(s, e), kinds) <=> Sent(s, kinds) /\ e.kind \in kinds
  BY <1>2 DEF Sent
<1>5. Append(s, e) \in Seq(Events) OBVIOUS
<1>6. Append(s, e) # <<>> /\ Last(Append(s, e)) = e BY Appended
<1>7. Terminals(s) \in Nat BY TerminalsType
<1>8. /\ e.finish => Terminals(Append(s, e)) = Terminals(s) + 1
      /\ ~e.finish => Terminals(Append(s, e)) = Terminals(s)
  BY <1>1, <1>7, TerminalsOfAppended
<1>. QED BY <1>3, <1>4, <1>5, <1>6, <1>7, <1>8

\* Chunks, failures and the other lines are told apart by their kinds.
LEMMA LineKinds ==
    ASSUME NEW line \in Lines
    PROVE  /\ line.finish \in BOOLEAN
           /\ line.content \in Texts \cup {NoText} /\ line.reasoning \in Reasonings
           /\ line.kind # "error"
           /\ line \in Chunks => line \notin Failures \cup Ends
           /\ line \notin Chunks => /\ ~line.finish
                                    /\ line.content = NoText /\ line.reasoning = NoText
           /\ line \in Failures => line \notin Chunks \cup Ends
<1>1. \A kind : /\ Other(kind).kind = kind /\ Other(kind).finish = FALSE
               /\ Other(kind).content = NoText /\ Other(kind).reasoning = NoText
  BY DEF Other
<1>2. \A f \in Failures : f.kind \in {"bad json", "broken"} BY <1>1 DEF Failures
<1>3. \A f \in Ends : f.kind \in {"[DONE]", "end of file"} BY <1>1 DEF Ends
<1>4. CASE line \in Chunks
  <2>1. /\ line.kind = "chunk" /\ line.finish \in BOOLEAN
        /\ line.content \in Texts \cup {NoText} /\ line.reasoning \in Texts \cup {NoText}
    BY <1>4 DEF Chunks
  <2>2. line \notin Failures \cup Ends BY <1>2, <1>3, <2>1
  <2>. QED BY <1>4, <2>1, <2>2 DEF Reasonings
<1>5. CASE line \notin Chunks
  <2>1. line \in {Other("skipped"), Other("bad json"), Other("broken"),
                  Other("[DONE]"), Other("end of file")}
    BY <1>5 DEF Lines, Failures, Ends
  <2>2. line.finish = FALSE /\ line.content = NoText /\ line.reasoning = NoText
    BY <1>1, <2>1
  <2>3. line.kind \in {"skipped", "bad json", "broken", "[DONE]", "end of file"}
    BY <1>1, <2>1
  <2>4. line \in Failures => line \notin Ends BY <1>2, <1>3
  <2>. QED BY <1>5, <2>2, <2>3, <2>4 DEF Reasonings
<1>. QED BY <1>4, <1>5

\* A relayed chunk says no error.
LEMMA RelayedChunk ==
    ASSUME NEW line \in Chunks
    PROVE  /\ Relayed(line) \in Events /\ Relayed(line).kind = "chunk"
           /\ Relayed(line).finish = line.finish
           /\ Relayed(line).content = IF line.content = NoText THEN line.reasoning
                                      ELSE line.content
           /\ Relayed(line).reasoning = line.reasoning
           /\ Relayed(line).content # ErrorText
<1>1. /\ line.finish \in BOOLEAN /\ line.content \in Texts \cup {NoText}
      /\ line.reasoning \in Texts \cup {NoText}
  BY DEF Chunks
<1>2. /\ Relayed(line).kind = "chunk" /\ Relayed(line).finish = line.finish
      /\ Relayed(line).content = IF line.content = NoText THEN line.reasoning
                                 ELSE line.content
      /\ Relayed(line).reasoning = line.reasoning
  BY DEF Relayed, Event
<1>3. Relayed(line) \in Events
  BY <1>1 DEF Relayed, Event, Events, Contents, Reasonings
<1>4. \A text \in Texts \cup {NoText} : text # ErrorText
  BY TextsAssumption DEF NoText, ErrorText
<1>. QED BY <1>1, <1>2, <1>3, <1>4

\* The events the endpoint makes up itself.
LEMMA MadeUp ==
    ASSUME NEW kind \in {"chunk", "error", "metadata", "done", "message"},
           NEW content \in Contents, NEW finish \in BOOLEAN
    PROVE  /\ Event(kind, content, NoText, finish) \in Events
           /\ Event(kind, content, NoText, finish).kind = kind
           /\ Event(kind, content, NoText, finish).content = content
           /\ Event(kind, content, NoText, finish).reasoning = NoText
           /\ Event(kind, content, NoText, finish).finish = finish
BY DEF Event, Events, Reasonings

LEMMA EmptyOnes ==
    ASSUME NEW kind \in {"chunk", "error", "metadata", "done", "message"},
           NEW finish \in BOOLEAN
    PROVE  /\ Empty(kind, finish) \in Events
           /\ Empty(kind, finish).kind = kind
           /\ Empty(kind, finish).content = NoText
           /\ Empty(kind, finish).reasoning = NoText
           /\ Empty(kind, finish).finish = finish
           /\ Empty(kind, finish).content # ErrorText
<1>1. NoText \in Contents /\ NoText # ErrorText BY DEF Contents, NoText, ErrorText
<1>. QED BY <1>1, MadeUp DEF Empty

LEMMA ErrorOnes ==
    /\ ErrorChunk \in Events /\ ErrorChunk.kind = "error"
    /\ ErrorChunk.content = ErrorText /\ ErrorChunk.finish
BY DEF ErrorChunk, Event, Events, Contents, Reasonings

LEMMA LineReceived ==
    ASSUME NEW s \in Seq(Lines), NEW line \in Lines
    PROVE  /\ Append(s, line) \in Seq(Lines)
           /\ Append(s, line) # <<>>
           /\ Last(Append(s, line)) = line
           /\ Len(Append(s, line)) = Len(s) + 1
           /\ Terminals(s) \in Nat
           /\ line.finish => Terminals(Append(s, line)) = Terminals(s) + 1
           /\ ~line.finish => Terminals(Append(s, line)) = Terminals(s)
<1>1. line.finish \in BOOLEAN BY LineKinds
<1>2. Append(s, line) # <<>> /\ Last(Append(s, line)) = line BY Appended
<1>3. Append(s, line) \in Seq(Lines) /\ Len(Append(s, line)) = Len(s) + 1 OBVIOUS
<1>4. Terminals(s) \in Nat BY TerminalsType
<1>5. /\ line.finish => Terminals(Append(s, line)) = Terminals(s) + 1
      /\ ~line.finish => Terminals(Append(s, line)) = Terminals(s)
  BY <1>1, <1>4, TerminalsOfAppended
<1>. QED BY <1>2, <1>3, <1>4, <1>5

LEMMA NothingSent ==
    /\ <<>> \in Seq(Events) /\ <<>> \in Seq(Lines) /\ Len(<<>>) = 0
    /\ ~HasError(<<>>) /\ Terminals(<<>>) = 0 /\ \A kinds : Sent(<<>>, kinds)
BY NoTerminals DEF HasError, Sent

-----------------------------------------------------------------------------
(* Speech is a recursive function, and a fact about it is proved from a    *)
(* least number that it fails for.                                         *)

\* Every set of naturals that is not empty has a least element.
LEMMA LeastNumber ==
    ASSUME NEW N, N \subseteq Nat, N # {}
    PROVE  \E m \in N : \A k \in N : m <= k
<1>1. PICK m \in N : \A k \in N : <<k, m>> \notin OpToRel(<, Nat)
  BY WFMin, NatLessThanWellFounded, Zenon
<1>2. ASSUME NEW k \in N PROVE ~(k < m)
  BY <1>1, Zenon DEF OpToRel
<1>3. \A k \in N : k \in Nat /\ m \in Nat /\ ~(k < m) BY <1>2
<1>4. \A k \in N : m <= k BY <1>3
<1>. QED BY <1>4

\* The equations of the recursive function in Speech, for the first n pieces.
IsUpTo(f, s, n) ==
    f = [i \in 0 .. n |-> IF i = 0 THEN <<>>
                          ELSE IF Piece(s[i]) = Silence THEN f[i - 1]
                          ELSE Append(f[i - 1], Piece(s[i]))]

LEMMA UpToAt ==
    ASSUME NEW s, NEW f, NEW n \in Nat, IsUpTo(f, s, n)
    PROVE  /\ f[0] = <<>>
           /\ \A i \in 1 .. n :
                 f[i] = IF Piece(s[i]) = Silence THEN f[i - 1] ELSE Append(f[i - 1], Piece(s[i]))
<1>1. \A i \in 0 .. n : f[i] = IF i = 0 THEN <<>>
                              ELSE IF Piece(s[i]) = Silence THEN f[i - 1]
                              ELSE Append(f[i - 1], Piece(s[i]))
  BY DEF IsUpTo
<1>2. 0 \in 0 .. n /\ \A i \in 1 .. n : i \in 0 .. n /\ i # 0 OBVIOUS
<1>. QED BY <1>1, <1>2

LEMMA UpToExtends ==
    ASSUME NEW s, NEW n \in Nat, NEW f, IsUpTo(f, s, n)
    PROVE  \E g : IsUpTo(g, s, n + 1)
<1>. DEFINE next == IF Piece(s[n + 1]) = Silence THEN f[n] ELSE Append(f[n], Piece(s[n + 1]))
            g == [i \in 0 .. n + 1 |-> IF i = n + 1 THEN next ELSE f[i]]
            h == [i \in 0 .. n + 1 |-> IF i = 0 THEN <<>>
                          ELSE IF Piece(s[i]) = Silence THEN g[i - 1]
                          ELSE Append(g[i - 1], Piece(s[i]))]
<1>1. \A i \in 0 .. n : f[i] = IF i = 0 THEN <<>>
                          ELSE IF Piece(s[i]) = Silence THEN f[i - 1]
                          ELSE Append(f[i - 1], Piece(s[i]))
  BY DEF IsUpTo
<1>2. ASSUME NEW i \in 0 .. n + 1 PROVE g[i] = h[i]
  <2>1. CASE i = n + 1
    <3>1. i # 0 /\ i - 1 = n /\ n \in 0 .. n + 1 /\ n # n + 1 BY <2>1
    <3>2. g[i - 1] = f[n] BY <3>1
    <3>. QED BY <2>1, <3>1, <3>2
  <2>2. CASE i = 0
    <3>1. g[i] = f[i] BY <2>2
    <3>. QED BY <1>1, <2>2, <3>1
  <2>3. CASE i # n + 1 /\ i # 0
    <3>1. i \in 0 .. n /\ i - 1 \in 0 .. n + 1 /\ i - 1 # n + 1 BY <2>3
    <3>2. g[i] = f[i] /\ g[i - 1] = f[i - 1] BY <3>1, <2>3
    <3>. HIDE DEF g
    <3>. QED BY <1>1, <2>3, <3>1, <3>2
  <2>. QED BY <2>1, <2>2, <2>3
<1>3. g = h
  <2>. DEFINE D == 0 .. n + 1
  <2>1. DOMAIN g = D /\ DOMAIN h = D OBVIOUS
  <2>. QED BY <1>2
<1>4. IsUpTo(g, s, n + 1)
  <2>. HIDE DEF g
  <2>. QED BY <1>3 DEF IsUpTo
<1>. QED BY <1>4

LEMMA UpToExists ==
    ASSUME NEW s, NEW n \in Nat
    PROVE  \E f : IsUpTo(f, s, n)
<1>. DEFINE Missing == {m \in Nat : ~ \E f : IsUpTo(f, s, m)}
<1>. SUFFICES ASSUME Missing # {} PROVE FALSE OBVIOUS
<1>. Missing \subseteq Nat OBVIOUS
<1>. HIDE DEF Missing
<1>1. PICK m \in Missing : \A k \in Missing : m <= k BY LeastNumber
<1>. USE DEF Missing
<1>2. m # 0
  <2>1. IsUpTo([i \in 0 .. 0 |-> <<>>], s, 0) BY DEF IsUpTo
  <2>. QED BY <1>1, <2>1
<1>3. m - 1 \in Nat /\ m - 1 \notin Missing BY <1>1, <1>2
<1>4. \E f : IsUpTo(f, s, m - 1 + 1) BY <1>3, UpToExtends
<1>. QED BY <1>1, <1>3, <1>4

LEMMA UpToAgrees ==
    ASSUME NEW s, NEW t, NEW f, NEW g, NEW n \in Nat, NEW m \in Nat, n <= m,
           \A i \in 1 .. n : s[i] = t[i], IsUpTo(f, s, n), IsUpTo(g, t, m)
    PROVE  \A i \in 0 .. n : f[i] = g[i]
<1>. DEFINE Apart == {i \in 0 .. n : f[i] # g[i]}
<1>. SUFFICES ASSUME Apart # {} PROVE FALSE OBVIOUS
<1>. Apart \subseteq Nat OBVIOUS
<1>. HIDE DEF Apart
<1>1. PICK i \in Apart : \A k \in Apart : i <= k BY LeastNumber
<1>. USE DEF Apart
<1>. i \in 0 .. n /\ i \in 0 .. m BY <1>1
<1>2. f[i] = IF i = 0 THEN <<>> ELSE IF Piece(s[i]) = Silence THEN f[i - 1] ELSE Append(f[i - 1], Piece(s[i]))
  BY <1>1 DEF IsUpTo
<1>3. g[i] = IF i = 0 THEN <<>> ELSE IF Piece(t[i]) = Silence THEN g[i - 1] ELSE Append(g[i - 1], Piece(t[i]))
  BY <1>1 DEF IsUpTo
<1>4. i # 0 BY <1>1, <1>2, <1>3
<1>5. i - 1 \in 0 .. n /\ i - 1 \notin Apart /\ i \in 1 .. n BY <1>1, <1>4
<1>6. f[i - 1] = g[i - 1] /\ s[i] = t[i] BY <1>5
<1>7. f[i] = g[i] BY <1>2, <1>3, <1>6, <1>4
<1>. QED BY <1>1, <1>7

LEMMA SpeechIs ==
    ASSUME NEW s, Len(s) \in Nat
    PROVE  \E f : IsUpTo(f, s, Len(s)) /\ Speech(s) = f[Len(s)]
<1>1. \E f : IsUpTo(f, s, Len(s)) BY UpToExists
<1>2. \E f : f = [i \in 0 .. Len(s) |-> IF i = 0 THEN <<>>
                          ELSE IF Piece(s[i]) = Silence THEN f[i - 1]
                          ELSE Append(f[i - 1], Piece(s[i]))]
  BY <1>1 DEF IsUpTo
<1>. QED BY <1>2 DEF Speech, IsUpTo

LEMMA SpeechOfNothing == Speech(<<>>) = <<>>
<1>1. PICK f : IsUpTo(f, <<>>, 0) /\ Speech(<<>>) = f[0]
  <2>1. Len(<<>>) = 0 OBVIOUS
  <2>. QED BY <2>1, SpeechIs
<1>. QED BY <1>1 DEF IsUpTo

LEMMA SpeechOfAppended ==
    ASSUME NEW S, NEW s \in Seq(S), NEW e \in S
    PROVE  Speech(Append(s, e)) = IF Piece(e) = Silence THEN Speech(s)
                                  ELSE Append(Speech(s), Piece(e))
<1>. DEFINE t == Append(s, e)
            n == Len(s)
<1>1. n \in Nat /\ Len(t) = n + 1 /\ t[n + 1] = e /\ \A i \in 1 .. n : s[i] = t[i] OBVIOUS
<1>. HIDE DEF t, n
<1>2. PICK f : IsUpTo(f, s, n) /\ Speech(s) = f[n] BY <1>1, SpeechIs DEF n
<1>3. PICK g : IsUpTo(g, t, n + 1) /\ Speech(t) = g[n + 1] BY <1>1, SpeechIs
<1>4. f[n] = g[n] BY <1>1, <1>2, <1>3, UpToAgrees
<1>5. g[n + 1] = IF Piece(t[n + 1]) = Silence THEN g[n] ELSE Append(g[n], Piece(t[n + 1]))
  <2>1. n + 1 \in Nat /\ n + 1 \in 1 .. n + 1 /\ n + 1 - 1 = n BY <1>1
  <2>2. \A i \in 1 .. n + 1 :
            g[i] = IF Piece(t[i]) = Silence THEN g[i - 1] ELSE Append(g[i - 1], Piece(t[i]))
    BY <1>3, <2>1, UpToAt
  <2>. QED BY <1>1, <2>2
<1>. QED BY <1>1, <1>2, <1>3, <1>4, <1>5 DEF t

\* A piece that says nothing is left out, and what is left has two texts.
Pieces == [content : Contents, reasoning : Reasonings]

LEMMA SpeechType ==
    ASSUME NEW S, NEW s \in Seq(S), \A x \in S : Piece(x) \in Pieces
    PROVE  Speech(s) \in Seq(Pieces)
<1>. DEFINE n == Len(s)
<1>1. n \in Nat /\ \A i \in 1 .. n : s[i] \in S OBVIOUS
<1>2. PICK f : IsUpTo(f, s, n) /\ Speech(s) = f[n] BY <1>1, SpeechIs
<1>. HIDE DEF n
<1>. DEFINE Bad == {i \in 0 .. n : f[i] \notin Seq(Pieces)}
<1>. SUFFICES ASSUME Bad # {} PROVE FALSE BY <1>1, <1>2
<1>. Bad \subseteq Nat BY <1>1
<1>. HIDE DEF Bad
<1>3. PICK i \in Bad : \A k \in Bad : i <= k BY LeastNumber
<1>. USE DEF Bad
<1>4. f[i] = IF i = 0 THEN <<>>
             ELSE IF Piece(s[i]) = Silence THEN f[i - 1] ELSE Append(f[i - 1], Piece(s[i]))
  BY <1>2, <1>3 DEF IsUpTo
<1>5. i # 0
  <2>1. <<>> \in Seq(Pieces) OBVIOUS
  <2>. QED BY <1>3, <1>4, <2>1
<1>6. i - 1 \in 0 .. n /\ i - 1 \notin Bad /\ i \in 1 .. n BY <1>3, <1>5, <1>1
<1>7. f[i - 1] \in Seq(Pieces) /\ Piece(s[i]) \in Pieces BY <1>1, <1>6
<1>8. f[i] \in Seq(Pieces) BY <1>4, <1>5, <1>7
<1>. QED BY <1>3, <1>8

LEMMA EventPieces ==
    ASSUME NEW e \in Events
    PROVE  /\ Piece(e) \in Pieces
           /\ e.kind # "error" => Piece(e) = [content |-> e.content, reasoning |-> e.reasoning]
           /\ e.kind = "error" => Piece(e) = Silence
           /\ e.kind # "error" /\ e.content = NoText /\ e.reasoning = NoText => Piece(e) = Silence
BY DEF Events, Piece, Pieces, Silence, Contents, Reasonings

LEMMA LinePieces ==
    ASSUME NEW line \in Lines
    PROVE  /\ Piece(line) \in Pieces
           /\ Piece(line) = [content |-> line.content, reasoning |-> line.reasoning]
<1>1. Piece(line) = [content |-> line.content, reasoning |-> line.reasoning]
  BY LineKinds DEF Piece
<1>. QED BY <1>1, LineKinds DEF Pieces, Contents

\* One more event, and what it says.
LEMMA SaidOne ==
    ASSUME NEW s \in Seq(Events), NEW e \in Events
    PROVE  /\ Speech(s) \in Seq(Pieces)
           /\ Speech(Append(s, e)) = IF Piece(e) = Silence THEN Speech(s)
                                     ELSE Append(Speech(s), Piece(e))
<1>1. \A x \in Events : Piece(x) \in Pieces BY EventPieces
<1>2. Speech(s) \in Seq(Pieces) BY <1>1, SpeechType
<1>. QED BY <1>2, SpeechOfAppended

LEMMA ToldOne ==
    ASSUME NEW s \in Seq(Lines), NEW line \in Lines
    PROVE  /\ Speech(s) \in Seq(Pieces)
           /\ Speech(Append(s, line)) = IF Piece(line) = Silence THEN Speech(s)
                                        ELSE Append(Speech(s), Piece(line))
<1>1. \A x \in Lines : Piece(x) \in Pieces BY LinePieces
<1>2. Speech(s) \in Seq(Pieces) BY <1>1, SpeechType
<1>. QED BY <1>2, SpeechOfAppended

LEMMA SpeechTypes ==
    /\ \A s \in Seq(Events) : Speech(s) \in Seq(Pieces) /\ Len(Speech(s)) \in Nat
    /\ \A s \in Seq(Lines) : Speech(s) \in Seq(Pieces) /\ Len(Speech(s)) \in Nat
<1>1. \A x \in Events : Piece(x) \in Pieces BY EventPieces
<1>2. \A x \in Lines : Piece(x) \in Pieces BY LinePieces
<1>3. \A s \in Seq(Events) : Speech(s) \in Seq(Pieces) BY <1>1, SpeechType
<1>4. \A s \in Seq(Lines) : Speech(s) \in Seq(Pieces) BY <1>2, SpeechType
<1>5. \A t \in Seq(Pieces) : Len(t) \in Nat OBVIOUS
<1>. QED BY <1>3, <1>4, <1>5

-----------------------------------------------------------------------------
(* The invariant *)

\* The last events of a response are none that a phase before its end has sent.
LEMMA LastEvents ==
    ASSUME NEW s \in Seq(Events), s # <<>>, Last(s).kind \in {"done", "message"}
    PROVE  ~Sent(s, {"chunk"}) /\ ~Sent(s, {"chunk", "error"}) /\ Last(s).kind # "metadata"
<1>1. Len(s) \in DOMAIN s OBVIOUS
<1>. QED BY <1>1 DEF Sent, Last

\* A response is complete only when the endpoint has ended it.
LEMMA OnlyEndedIsComplete ==
    ASSUME StreamInv, Complete
    PROVE  phase = "ended"
<1>1. /\ body # <<>> /\ ~Sent(body, {"chunk"}) /\ ~Sent(body, {"chunk", "error"})
      /\ Last(body).kind # "metadata"
  BY LastEvents DEF StreamInv, Complete
<1>. QED BY <1>1 DEF StreamInv, TypeOK, BodyInv

LEMMA CompleteAfterTheEnd ==
    ASSUME StreamInv', Complete'
    PROVE  phase' = "ended"
<1>1. /\ body' # <<>> /\ ~Sent(body', {"chunk"}) /\ ~Sent(body', {"chunk", "error"})
      /\ Last(body').kind # "metadata"
  BY LastEvents DEF StreamInv, Complete
<1>. QED BY <1>1 DEF StreamInv, TypeOK, BodyInv

LEMMA StreamInit == Init => StreamInv
<1>. SUFFICES ASSUME Init PROVE StreamInv OBVIOUS
<1>1. TypeOK BY MaxLinesAssumption, NothingSent DEF Init, TypeOK
<1>2. body \in Seq(Events) /\ ~Complete /\ ~Failed
  BY NothingSent DEF Init, Complete, Failed
<1>. QED BY <1>1, <1>2 DEF Init, StreamInv, PathInv, BodyInv, CountInv, FailureIsVisible

-----------------------------------------------------------------------------
(* The invariant is kept, one lemma per group of actions *)

LEMMA AcceptKeeps == StreamInv /\ Accept => StreamInv'
<1>. SUFFICES ASSUME StreamInv, Accept PROVE StreamInv' OBVIOUS
<1>1. /\ phase = "received" /\ status = 0 /\ body = <<>> /\ lines = <<>> /\ upstream = "none"
      /\ TypeOK /\ ~Failed
  BY DEF Accept, StreamInv, PathInv, BodyInv, CountInv
<1>2. /\ UNCHANGED <<request, upstream, lines, body>>
      /\ \/ status' \in {400, 404} /\ phase' = "ended"
         \/ status' = 200 /\ phase' = "connect" /\ Streamed
         \/ status' = 0 /\ phase' = "ask" /\ ~Streamed
  <2>1. CASE request.user # "question" BY <2>1 DEF Accept
  <2>2. CASE request.user = "question" /\ request.collection = "unknown"
    BY <2>2 DEF Accept
  <2>3. CASE request.user = "question" /\ request.collection # "unknown"
    BY <1>1, <2>3 DEF Accept
  <2>. QED BY <2>1, <2>2, <2>3
<1>3. TypeOK' BY <1>1, <1>2 DEF TypeOK
<1>4. ~Complete' /\ ~Failed' BY <1>1, <1>2 DEF Complete, Failed, Streamed
<1>5. body' \in Seq(Events) /\ ~HasError(body') BY <1>1, <1>2, NothingSent
<1>6. Streamed' = Streamed /\ (Streamed => request'.stream) BY <1>2 DEF Streamed
<1>7. FailureIsVisible'
  BY <1>1, <1>2, <1>4, <1>5 DEF FailureIsVisible, HasError
<1>8. PathInv' BY <1>1, <1>2, <1>6 DEF PathInv
<1>9. BodyInv' /\ CountInv' BY <1>1, <1>2, <1>4 DEF BodyInv, CountInv
<1>. QED BY <1>3, <1>5, <1>7, <1>8, <1>9 DEF StreamInv

LEMMA ConnectKeeps == StreamInv /\ Connect => StreamInv'
<1>. SUFFICES ASSUME StreamInv, Connect PROVE StreamInv' OBVIOUS
<1>1. /\ phase = "connect" /\ status = 200 /\ body = <<>> /\ lines = <<>>
      /\ TypeOK /\ ~Failed /\ Streamed /\ request.stream
      /\ UNCHANGED <<request, lines, status>>
  BY DEF Connect, StreamInv, PathInv, BodyInv, CountInv
<1>2. Streamed' /\ request'.stream BY <1>1 DEF Streamed
<1>3. CASE upstream' = "open" /\ phase' = "relay" /\ UNCHANGED body
  <2>1. TypeOK' BY <1>1, <1>3 DEF TypeOK
  <2>2. ~Complete' /\ ~Failed' BY <1>1, <1>3 DEF Complete, Failed
  <2>3. /\ body' \in Seq(Events) /\ Sent(body', {"chunk"}) /\ Len(lines') = 0
        /\ Terminals(body') = Terminals(lines') /\ ~HasError(body')
    BY <1>1, <1>3, NothingSent
  <2>. QED BY <1>1, <1>2, <1>3, <2>1, <2>2, <2>3, MaxLinesAssumption
           DEF StreamInv, PathInv, BodyInv, CountInv, FailureIsVisible
<1>4. CASE upstream' = "refused" /\ phase' = "metadata" /\ body' = Append(body, ErrorChunk)
  <2>1. body \in Seq(Events) /\ Sent(body, {"chunk", "error"}) /\ Terminals(body) = 0
        /\ Terminals(lines') = 0
    BY <1>1, NothingSent
  <2>2. /\ body' \in Seq(Events) /\ Terminals(body') = Terminals(lines') + 1
        /\ HasError(body') /\ Sent(body', {"chunk", "error"})
        /\ Last(body').kind = "error"
    BY <1>4, <2>1, ErrorOnes, EventSent
  <2>3. TypeOK' BY <1>1, <1>4 DEF TypeOK
  <2>4. Failed' BY <1>4 DEF Failed
  <2>5. ~Complete' BY <2>2 DEF Complete
  <2>. QED BY <1>1, <1>2, <1>4, <2>2, <2>3, <2>4, <2>5
           DEF StreamInv, PathInv, BodyInv, CountInv, FailureIsVisible
<1>. QED BY <1>3, <1>4 DEF Connect

LEMMA RelayKeeps == StreamInv /\ Relay => StreamInv'
<1>. SUFFICES ASSUME StreamInv, Relay PROVE StreamInv' OBVIOUS
<1>1. /\ phase = "relay" /\ status = 200 /\ upstream = "open"
      /\ TypeOK /\ ~Failed /\ UNCHANGED <<request, status>>
      /\ Streamed /\ request.stream
      /\ body \in Seq(Events) /\ lines \in Seq(Lines)
      /\ Sent(body, {"chunk"}) /\ ~HasError(body) /\ Len(lines) <= MaxLines
      /\ Terminals(body) = Terminals(lines)
  BY DEF Relay, StreamInv, PathInv, BodyInv, CountInv, TypeOK
<1>2. Streamed' /\ request'.stream BY <1>1 DEF Streamed
<1>3. PICK line \in Lines :
          /\ Len(lines) >= MaxLines => line \in Failures \cup Ends
          /\ lines' = Append(lines, line)
          /\ body' = CASE line \in Chunks -> Append(body, Relayed(line))
                       [] line \in Failures -> Append(body, ErrorChunk)
                       [] OTHER -> body
          /\ IF line \in Failures \cup Ends
             THEN upstream' = "closed" /\ phase' = "metadata"
             ELSE UNCHANGED <<upstream, phase>>
  BY DEF Relay
<1>4. /\ lines' \in Seq(Lines) /\ lines' # <<>> /\ Last(lines') = line
      /\ Len(lines') = Len(lines) + 1 /\ Len(lines) \in Nat /\ Terminals(lines) \in Nat
      /\ line.finish => Terminals(lines') = Terminals(lines) + 1
      /\ ~line.finish => Terminals(lines') = Terminals(lines)
  BY <1>1, <1>3, LineReceived
<1>5. TypeOK'
  BY <1>1, <1>3, <1>4, MaxLinesAssumption DEF TypeOK
<1>6. line \notin Failures \cup Ends => Len(lines') <= MaxLines
  BY <1>1, <1>3, <1>4, MaxLinesAssumption
<1>7. /\ line.finish \in BOOLEAN
      /\ line \in Chunks => line \notin Failures \cup Ends
      /\ line \notin Chunks => ~line.finish
      /\ line \in Failures => line \notin Chunks \cup Ends
  BY LineKinds
<1>8. upstream' \in {"open", "closed"} /\ (Failed' <=> line \in Failures)
  BY <1>1, <1>2, <1>3, <1>4 DEF Failed
<1>9. CASE line \in Chunks
  <2>1. /\ body' = Append(body, Relayed(line)) /\ phase' = "relay"
    BY <1>1, <1>3, <1>7, <1>9
  <2>2. /\ body' \in Seq(Events) /\ Sent(body', {"chunk"}) /\ Last(body').kind = "chunk"
        /\ Terminals(body') = Terminals(lines') /\ ~HasError(body')
    BY <1>1, <1>4, <1>9, <2>1, RelayedChunk, EventSent
  <2>3. ~Complete' BY <2>2 DEF Complete
  <2>. QED BY <1>1, <1>2, <1>5, <1>6, <1>7, <1>8, <1>9, <2>1, <2>2, <2>3
           DEF StreamInv, PathInv, BodyInv, CountInv, FailureIsVisible
<1>10. CASE line \in Failures
  <2>1. body' = Append(body, ErrorChunk) /\ phase' = "metadata" BY <1>3, <1>7, <1>10
  <2>2. Sent(body, {"chunk", "error"}) BY <1>1 DEF Sent
  <2>3. /\ body' \in Seq(Events) /\ Sent(body', {"chunk", "error"})
        /\ Last(body').kind = "error" /\ HasError(body')
        /\ Terminals(body') = Terminals(lines') + 1
    BY <1>1, <1>4, <1>7, <1>10, <2>1, <2>2, ErrorOnes, EventSent
  <2>4. ~Complete' BY <2>3 DEF Complete
  <2>. QED BY <1>1, <1>2, <1>5, <1>8, <1>10, <2>1, <2>3, <2>4
           DEF StreamInv, PathInv, BodyInv, CountInv, FailureIsVisible
<1>11. CASE line \notin Chunks \cup Failures
  <2>1. /\ body' = body /\ phase' \in {"relay", "metadata"}
        /\ phase' = "relay" => line \notin Failures \cup Ends
    BY <1>1, <1>3, <1>11
  <2>2. Sent(body', {"chunk", "error"}) BY <1>1, <2>1 DEF Sent
  <2>3. ~Complete' BY <1>1, <2>1, OnlyEndedIsComplete DEF Complete
  <2>4. Terminals(body') = Terminals(lines') /\ Terminals(lines') \in Nat
    BY <1>1, <1>4, <1>7, <1>11, <2>1
  <2>. QED BY <1>1, <1>2, <1>5, <1>6, <1>8, <1>11, <2>1, <2>2, <2>3, <2>4
           DEF StreamInv, PathInv, BodyInv, CountInv, FailureIsVisible
<1>. QED BY <1>9, <1>10, <1>11

LEMMA MetadataKeeps == StreamInv /\ SendMetadata => StreamInv'
<1>. SUFFICES ASSUME StreamInv, SendMetadata PROVE StreamInv' OBVIOUS
<1>1. /\ phase = "metadata" /\ status = 200 /\ TypeOK /\ body \in Seq(Events)
      /\ request.stream /\ Streamed /\ upstream # "none"
      /\ UNCHANGED <<request, upstream, lines, status>> /\ phase' = "done"
      /\ HasError(body) <=> Failed
      /\ Terminals(body) = Terminals(lines) + IF Failed THEN 1 ELSE 0
      /\ body' = Append(body, Empty("metadata", FALSE))
  BY DEF SendMetadata, StreamInv, PathInv, CountInv
<1>2. Failed' = Failed /\ Streamed' /\ request'.stream BY <1>1 DEF Failed, Streamed
<1>3. /\ body' \in Seq(Events) /\ body' # <<>> /\ Last(body').kind = "metadata"
      /\ HasError(body') <=> HasError(body)
      /\ Terminals(body') = Terminals(body)
  BY <1>1, EmptyOnes, EventSent
<1>4. TypeOK' BY <1>1 DEF TypeOK
<1>5. ~Complete' BY <1>3 DEF Complete
<1>6. Terminals(body') = Terminals(lines') + IF Failed' THEN 1 ELSE 0
  BY <1>1, <1>2, <1>3
<1>7. HasError(body') <=> Failed' BY <1>1, <1>2, <1>3
<1>8. PathInv' /\ BodyInv' /\ FailureIsVisible'
  BY <1>1, <1>2, <1>3, <1>5 DEF PathInv, BodyInv, FailureIsVisible
<1>9. CountInv' BY <1>1, <1>2, <1>5, <1>6, <1>7 DEF CountInv
<1>. QED BY <1>3, <1>4, <1>8, <1>9 DEF StreamInv

\* The last event of a stream: the response is whole.
LEMMA DoneKeeps == StreamInv /\ SendDone => StreamInv'
<1>. SUFFICES ASSUME StreamInv, SendDone PROVE StreamInv' OBVIOUS
<1>1. /\ phase = "done" /\ status = 200 /\ TypeOK /\ body \in Seq(Events)
      /\ request.stream /\ upstream # "none" /\ (Failed => Streamed)
      /\ body # <<>> /\ Last(body).kind = "metadata"
      /\ UNCHANGED <<request, upstream, lines, status>> /\ phase' = "ended"
      /\ HasError(body) <=> Failed
      /\ Terminals(body) = Terminals(lines) + IF Failed THEN 1 ELSE 0
      /\ body' = Append(body, Empty("done", FALSE))
  BY DEF SendDone, StreamInv, PathInv, BodyInv, CountInv
<1>2. Failed' = Failed /\ Streamed' = Streamed /\ request'.stream
  BY <1>1 DEF Failed, Streamed
<1>3. /\ body' \in Seq(Events) /\ body' # <<>> /\ Last(body').kind = "done"
      /\ HasError(body') <=> HasError(body)
      /\ Terminals(body') = Terminals(body)
  BY <1>1, EmptyOnes, EventSent
<1>4. TypeOK' BY <1>1 DEF TypeOK
<1>5. Whole'
  <2>1. Len(body) \in DOMAIN body /\ Len(body) \in Nat /\ Len(body) >= 1 BY <1>1
  <2>2. Len(body') = Len(body) + 1 /\ body'[Len(body)] = body[Len(body)]
    BY <1>1, <2>1, Appended
  <2>3. Len(body') >= 2 /\ Len(body') - 1 = Len(body) BY <2>1, <2>2
  <2>. QED BY <1>1, <1>2, <1>3, <2>2, <2>3 DEF Whole, Last
<1>6. FailureIsVisible'
  <2>1. HasError(body') <=> Failed' /\ Streamed' BY <1>1, <1>2, <1>3
  <2>2. status' = 200 /\ upstream' # "none" /\ ~(Failed' /\ ~Streamed') BY <1>1, <1>2
  <2>. QED BY <1>5, <2>1, <2>2 DEF FailureIsVisible, HasError
<1>7. Terminals(body') = Terminals(lines') + IF Failed' THEN 1 ELSE 0
  BY <1>1, <1>2, <1>3
<1>. QED BY <1>1, <1>2, <1>3, <1>4, <1>6, <1>7
         DEF StreamInv, PathInv, BodyInv, CountInv

LEMMA ReplyKinds ==
    ASSUME NEW reply \in Replies
    PROVE  /\ reply \in Lines /\ reply.content \in Texts \cup {NoText}
           /\ reply.content # NoText => reply.finish
<1>1. CASE reply \in Chunks
  <2>1. reply \in Lines BY <1>1 DEF Lines
  <2>2. reply.finish
    <3>1. /\ Other("bad json").kind = "bad json" /\ Other("broken").kind = "broken"
          /\ Other("skipped").kind = "skipped"
      BY DEF Other
    <3>2. reply.kind = "chunk" BY <1>1 DEF Chunks
    <3>3. reply \notin Failures \cup {Other("skipped")} BY <3>1, <3>2 DEF Failures
    <3>. QED BY <3>3 DEF Replies
  <2>. QED BY <2>1, <2>2, LineKinds
<1>2. CASE reply \notin Chunks
  <2>1. reply \in Lines BY <1>2 DEF Replies, Lines
  <2>. QED BY <1>2, <2>1, LineKinds
<1>. QED BY <1>1, <1>2

LEMMA AskKeeps == StreamInv /\ Ask => StreamInv'
<1>. SUFFICES ASSUME StreamInv, Ask PROVE StreamInv' OBVIOUS
<1>1. /\ phase = "ask" /\ status = 0 /\ body = <<>> /\ lines = <<>> /\ upstream = "none"
      /\ TypeOK /\ ~Failed /\ ~Streamed /\ UNCHANGED request
  BY DEF Ask, StreamInv, PathInv, BodyInv, CountInv
<1>2. ~Streamed' BY <1>1 DEF Streamed
<1>3. CASE upstream' = "refused" /\ status' = 502 /\ phase' = "ended" /\ UNCHANGED <<lines, body>>
  <2>1. TypeOK' BY <1>1, <1>3 DEF TypeOK
  <2>2. Failed' BY <1>3 DEF Failed
  <2>3. ~Complete' /\ body' \in Seq(Events) /\ ~HasError(body')
    BY <1>1, <1>3, NothingSent DEF Complete
  <2>4. FailureIsVisible' BY <1>2, <1>3, <2>2, <2>3 DEF FailureIsVisible, HasError
  <2>. QED BY <1>3, <2>1, <2>3, <2>4 DEF StreamInv, PathInv, BodyInv, CountInv
<1>4. ASSUME NEW reply \in Replies, upstream' = "closed", lines' = <<reply>>,
             IF reply.content = NoText
             THEN /\ status' = IF reply = Other("skipped") THEN 500 ELSE 502
                  /\ phase' = "ended" /\ UNCHANGED body
             ELSE /\ status' = 200
                  /\ IF request.stream
                     THEN phase' = "role" /\ UNCHANGED body
                     ELSE /\ phase' = "ended"
                          /\ body' = <<Event("message", reply.content, NoText, TRUE)>>
      PROVE  StreamInv'
  <2>1. reply \in Lines BY ReplyKinds
  <2>2. lines' = Append(<<>>, reply) /\ <<>> \in Seq(Lines) /\ Terminals(<<>>) = 0
    BY <1>4, NothingSent
  <2>3. /\ lines' \in Seq(Lines) /\ lines' # <<>> /\ Last(lines') = reply
        /\ Len(lines') = 1 /\ (reply.finish => Terminals(lines') = 1)
    <3>1. Len(<<>>) + 1 = 1 OBVIOUS
    <3>2. /\ Append(<<>>, reply) \in Seq(Lines) /\ Append(<<>>, reply) # <<>>
          /\ Last(Append(<<>>, reply)) = reply
          /\ Len(Append(<<>>, reply)) = Len(<<>>) + 1
          /\ reply.finish => Terminals(Append(<<>>, reply)) = Terminals(<<>>) + 1
      BY <2>1, <2>2, LineReceived
    <3>. QED BY <2>2, <3>1, <3>2
  <2>4. Failed' <=> reply.content = NoText BY <1>2, <1>4, <2>3 DEF Failed
  <2>5. TypeOK'
    <3>1. status' \in {200, 500, 502} /\ (status' # 200 => UNCHANGED body) BY <1>4
    <3>2. phase' \in {"ended", "role"} BY <1>4
    <3>. QED BY <1>1, <1>4, <2>3, <3>1, <3>2, MaxLinesAssumption DEF TypeOK
  <2>6. CASE reply.content = NoText
    <3>1. status' \in {500, 502} /\ phase' = "ended" /\ body' = <<>> BY <1>1, <1>4, <2>6
    <3>2. ~Complete' /\ body' \in Seq(Events) /\ ~HasError(body')
      BY <3>1, NothingSent DEF Complete
    <3>3. FailureIsVisible' BY <1>2, <1>4, <2>4, <2>6, <3>1, <3>2 DEF FailureIsVisible, HasError
    <3>. QED BY <2>5, <3>1, <3>2, <3>3 DEF StreamInv, PathInv, BodyInv, CountInv
  <2>7. CASE reply.content # NoText /\ request.stream
    <3>1. status' = 200 /\ phase' = "role" /\ body' = <<>> /\ request'.stream
      BY <1>1, <1>4, <2>7
    <3>2. /\ body' \in Seq(Events) /\ Sent(body', {"chunk"}) /\ Terminals(body') = 0
          /\ ~Complete' /\ ~HasError(body')
      BY <3>1, NothingSent DEF Complete
    <3>3. Terminals(lines') = 1 /\ lines' # <<>> /\ ~Failed'
      BY <2>3, <2>4, <2>7, ReplyKinds
    <3>. QED BY <1>2, <1>4, <2>5, <3>1, <3>2, <3>3
             DEF StreamInv, PathInv, BodyInv, CountInv, FailureIsVisible
  <2>8. CASE reply.content # NoText /\ ~request.stream
    <3>. DEFINE e == Event("message", reply.content, NoText, TRUE)
    <3>1. status' = 200 /\ phase' = "ended" /\ body' = <<e>> /\ ~request'.stream
      BY <1>1, <1>4, <2>8
    <3>2. /\ e \in Events /\ e.kind = "message" /\ e.finish /\ e.content = reply.content
          /\ reply.content # ErrorText
      <4>1. reply.content \in Contents /\ reply.content # ErrorText
        BY ReplyKinds, TextsAssumption DEF Contents, NoText, ErrorText
      <4>. QED BY <4>1, MadeUp
    <3>. HIDE DEF e
    <3>3. body' = Append(body, e) /\ body \in Seq(Events) /\ ~HasError(body) /\ Terminals(body) = 0
      BY <1>1, <3>1, NothingSent
    <3>4. body' \in Seq(Events) /\ ~HasError(body') /\ Terminals(body') = 1
      BY <3>2, <3>3, EventSent
    <3>5. Whole' BY <3>1, <3>2 DEF Whole, Last
    <3>6. Terminals(lines') = 1 /\ ~Failed' BY <2>3, <2>4, <2>8, ReplyKinds
    <3>7. FailureIsVisible'
      BY <1>4, <3>1, <3>4, <3>5, <3>6 DEF FailureIsVisible, HasError
    <3>. QED BY <2>5, <3>1, <3>4, <3>6, <3>7
             DEF StreamInv, PathInv, BodyInv, CountInv
  <2>. QED BY <2>6, <2>7, <2>8
<1>. QED BY <1>3, <1>4 DEF Ask

\* The role and the content of a buffered answer are chunks of the endpoint.
LEMMA ChunkSent ==
    ASSUME StreamInv, SendRole \/ SendContent
    PROVE  \E e \in Events : /\ body' = Append(body, e) /\ e.kind = "chunk" /\ ~e.finish
                              /\ e.content # ErrorText
<1>1. CASE SendRole BY <1>1, EmptyOnes DEF SendRole
<1>2. CASE SendContent
  <2>1. lines # <<>> /\ lines \in Seq(Lines) BY <1>2 DEF SendContent, StreamInv, CountInv, TypeOK
  <2>2. lines[1] \in Lines BY <2>1
  <2>. DEFINE text == lines[1].content
  <2>3. text \in Contents /\ text # ErrorText
    BY <2>2, LineKinds, TextsAssumption DEF Contents, NoText, ErrorText
  <2>4. body' = Append(body, Event("chunk", text, NoText, FALSE)) BY <1>2 DEF SendContent
  <2>. DEFINE e == Event("chunk", text, NoText, FALSE)
  <2>. HIDE DEF text
  <2>5. e \in Events /\ e.kind = "chunk" /\ e.content = text /\ e.finish = FALSE
    BY <2>3 DEF Event, Events, Reasonings
  <2>. HIDE DEF e
  <2>. QED BY <2>3, <2>4, <2>5 DEF e
<1>. QED BY <1>1, <1>2

\* The buffered answer: its role, its text, and the metadata with the end.
LEMMA BufferedKeeps == StreamInv /\ (SendRole \/ SendContent \/ SendFinal) => StreamInv'
<1>. SUFFICES ASSUME StreamInv, SendRole \/ SendContent \/ SendFinal PROVE StreamInv' OBVIOUS
<1>1. /\ phase \in {"role", "content", "final"} /\ status = 200 /\ TypeOK
      /\ body \in Seq(Events) /\ Sent(body, {"chunk"}) /\ ~Failed /\ ~HasError(body)
      /\ request.stream /\ ~Streamed /\ upstream # "none"
      /\ lines # <<>> /\ Terminals(body) = 0 /\ Terminals(lines) = 1
      /\ UNCHANGED <<request, upstream, lines, status>>
  BY DEF SendRole, SendContent, SendFinal, StreamInv, PathInv, BodyInv, CountInv
<1>2. TypeOK' /\ ~Failed' /\ ~Streamed' /\ request'.stream
  BY <1>1 DEF SendRole, SendContent, SendFinal, TypeOK, Failed, Streamed
<1>3. CASE SendRole \/ SendContent
  <2>1. PICK e \in Events : /\ body' = Append(body, e) /\ e.kind = "chunk" /\ ~e.finish
                            /\ e.content # ErrorText
    BY <1>3, ChunkSent
  <2>2. /\ body' \in Seq(Events) /\ Sent(body', {"chunk"}) /\ Terminals(body') = 0
        /\ Last(body').kind = "chunk" /\ ~HasError(body')
    BY <1>1, <2>1, EventSent
  <2>3. phase' \in {"content", "final"} BY <1>3 DEF SendRole, SendContent
  <2>4. ~Complete' BY <2>2 DEF Complete
  <2>. QED BY <1>1, <1>2, <2>2, <2>3, <2>4
           DEF StreamInv, PathInv, BodyInv, CountInv, FailureIsVisible
<1>4. CASE SendFinal
  <2>1. body' = Append(body, Empty("metadata", TRUE)) /\ phase' = "done"
    BY <1>4 DEF SendFinal
  <2>2. /\ body' \in Seq(Events) /\ body' # <<>> /\ Last(body').kind = "metadata"
        /\ ~HasError(body') /\ Terminals(body') = 1
    <3>. DEFINE e == Empty("metadata", TRUE)
    <3>1. e \in Events /\ e.kind = "metadata" /\ e.finish /\ e.content # ErrorText BY EmptyOnes
    <3>2. body' = Append(body, e) BY <2>1
    <3>. HIDE DEF e
    <3>. QED BY <1>1, <3>1, <3>2, EventSent
  <2>3. Terminals(body') = Terminals(lines') + IF Failed' THEN 1 ELSE 0 BY <1>1, <1>2, <2>2
  <2>4. ~Complete' BY <2>2 DEF Complete
  <2>. QED BY <1>1, <1>2, <2>1, <2>2, <2>3, <2>4
           DEF StreamInv, PathInv, BodyInv, CountInv, FailureIsVisible
<1>. QED BY <1>3, <1>4

LEMMA LeaveKeeps == StreamInv /\ (ClientLeaves \/ DropGenerator \/ UNCHANGED vars) => StreamInv'
<1>. SUFFICES ASSUME StreamInv, ClientLeaves \/ DropGenerator \/ UNCHANGED vars
              PROVE  StreamInv'
  OBVIOUS
<1>1. CASE ClientLeaves
  <2>1. ~Complete BY <1>1, OnlyEndedIsComplete DEF ClientLeaves
  <2>2. ~Complete' BY <1>1, <2>1 DEF ClientLeaves, Complete
  <2>3. TypeOK' BY <1>1 DEF ClientLeaves, StreamInv, TypeOK
  <2>. QED BY <1>1, <2>2, <2>3
           DEF ClientLeaves, StreamInv, PathInv, BodyInv, CountInv, FailureIsVisible
<1>2. CASE DropGenerator
  <2>1. ~Complete BY <1>2, OnlyEndedIsComplete DEF DropGenerator
  <2>2. ~Complete' BY <1>2, <2>1 DEF DropGenerator, Complete
  <2>3. TypeOK' BY <1>2 DEF DropGenerator, StreamInv, TypeOK
  <2>. QED BY <1>2, <2>2, <2>3
           DEF DropGenerator, StreamInv, PathInv, BodyInv, CountInv, FailureIsVisible
<1>3. CASE UNCHANGED vars
  BY <1>3 DEF vars, StreamInv, TypeOK, PathInv, BodyInv, CountInv, Complete, Failed,
              FailureIsVisible, Whole, Streamed
<1>. QED BY <1>1, <1>2, <1>3

LEMMA StreamStep == StreamInv /\ [Next]_vars => StreamInv'
BY AcceptKeeps, ConnectKeeps, RelayKeeps, MetadataKeeps, DoneKeeps, AskKeeps, BufferedKeeps,
   LeaveKeeps
   DEF Next, Serve

LEMMA StreamCorrect == Spec => []StreamInv
BY StreamInit, StreamStep, PTL DEF Spec

-----------------------------------------------------------------------------
(* What follows from the invariant *)

\* The endpoint keeps to its phases, and reads lines on an open connection only
\* (openai_compat.py, base.py).
THEOREM StreamTypeCorrect == Spec => []TypeOK
BY StreamCorrect, PTL DEF StreamInv

\* Whatever the runtime sends and wherever it fails, a request that ended without
\* its client leaving shows the failure: in its status when the answer was
\* buffered, in an error chunk when it was streamed, and only when there was one
\* (openai_compat.py create_chat_completion, _stream_via_runtime, _stream_buffered).
THEOREM FailuresAreVisible == Spec => []FailureIsVisible
<1>1. StreamInv => FailureIsVisible BY DEF StreamInv
<1>. QED BY <1>1, StreamCorrect, PTL

\* A complete response has the terminal chunks of the runtime, and one more
\* exactly when it failed (openai_compat.py _stream_via_runtime, _stream_buffered).
THEOREM TerminalChunksCounted == Spec => []OnlyErrorsAddTerminalChunks
<1>1. StreamInv => OnlyErrorsAddTerminalChunks
  BY DEF StreamInv, CountInv, OnlyErrorsAddTerminalChunks
<1>. QED BY <1>1, StreamCorrect, PTL

-----------------------------------------------------------------------------
(* The answer *)

\* While a stream is relayed the client has every piece of the runtime; of a
\* buffered answer it has nothing until the answer is sent whole.
AnswerInv ==
    /\ AnswerIsTheRuntimes
    /\ phase \in {"relay", "metadata", "done", "final"} => Len(Said) = Len(Told)
    /\ phase \in {"role", "content"} =>
           /\ Said = <<>>
           /\ Len(lines) = 1 /\ lines[1].content # NoText

LEMMA AnswerInit == Init => AnswerInv
<1>. SUFFICES ASSUME Init PROVE AnswerInv OBVIOUS
<1>1. Said = <<>> /\ Told = <<>> BY SpeechOfNothing DEF Init, Said, Told
<1>. QED BY <1>1 DEF Init, AnswerInv, AnswerIsTheRuntimes

\* What has been said and told so far.
LEMMA SpokenSoFar ==
    ASSUME StreamInv
    PROVE  /\ body \in Seq(Events) /\ lines \in Seq(Lines)
           /\ Said \in Seq(Pieces) /\ Told \in Seq(Pieces)
           /\ Len(Said) \in Nat /\ Len(Told) \in Nat
BY SpeechTypes DEF StreamInv, TypeOK, Said, Told

\* A step that leaves what has been said and told alone.
LEMMA AnswerKept ==
    ASSUME AnswerIsTheRuntimes, UNCHANGED request, Said' = Said, Told' = Told,
           Complete' => Len(Said) = Len(Told)
    PROVE  AnswerIsTheRuntimes'
BY DEF AnswerIsTheRuntimes, Conveys, Streamed

\* Nothing has been said yet.
LEMMA AnswerUnsaid ==
    ASSUME Said' = <<>>, Len(Told') \in Nat, ~Complete'
    PROVE  AnswerIsTheRuntimes'
<1>1. DOMAIN Said' = {} /\ Len(Said') = 0 OBVIOUS
<1>. QED BY <1>1 DEF AnswerIsTheRuntimes

\* One more piece on both sides, of which the first conveys the second.
LEMMA AnswerGrows ==
    ASSUME StreamInv, AnswerIsTheRuntimes, UNCHANGED request, Len(Said) = Len(Told),
           NEW said \in Pieces, NEW told \in Pieces, Conveys(said, told),
           Said' = Append(Said, said), Told' = Append(Told, told)
    PROVE  AnswerIsTheRuntimes' /\ Len(Said') = Len(Told')
<1>. DEFINE n == Len(Said) + 1
<1>1. Said \in Seq(Pieces) /\ Told \in Seq(Pieces) BY SpokenSoFar
<1>2. /\ Len(Said') = n /\ Len(Told') = n /\ n \in Nat
      /\ DOMAIN Said' = DOMAIN Said \cup {n} /\ n \notin DOMAIN Said
      /\ Said'[n] = said /\ Told'[n] = told
      /\ \A i \in DOMAIN Said : Said'[i] = Said[i]
      /\ \A i \in DOMAIN Told : Told'[i] = Told[i]
      /\ DOMAIN Told = DOMAIN Said
  BY <1>1, Appended
<1>. HIDE DEF n
<1>3. ASSUME NEW i \in DOMAIN Said' PROVE Conveys(Said[i], Told[i])'
  <2>1. CASE i \in DOMAIN Said
    BY <1>2, <2>1 DEF AnswerIsTheRuntimes, Conveys, Streamed
  <2>2. CASE i = n BY <1>2, <2>2 DEF Conveys, Streamed
  <2>. QED BY <1>2, <2>1, <2>2
<1>. QED BY <1>2, <1>3 DEF AnswerIsTheRuntimes

LEMMA AnswerConnect == StreamInv /\ AnswerInv /\ Connect => AnswerInv'
<1>. SUFFICES ASSUME StreamInv, AnswerInv, Connect PROVE AnswerInv' OBVIOUS
<1>1. body = <<>> /\ lines = <<>> /\ UNCHANGED lines /\ phase' \in {"relay", "metadata"}
  BY DEF Connect, StreamInv, BodyInv
<1>2. Said' = <<>> /\ Told' = <<>>
  <2>1. CASE UNCHANGED body BY <1>1, <2>1, SpeechOfNothing DEF Said, Told
  <2>2. CASE body' = Append(body, ErrorChunk)
    <3>1. body \in Seq(Events) BY SpokenSoFar
    <3>2. Piece(ErrorChunk) = Silence BY ErrorOnes, EventPieces
    <3>3. Speech(body') = Speech(body) BY <2>2, <3>1, <3>2, ErrorOnes, SaidOne
    <3>. QED BY <1>1, <3>3, SpeechOfNothing DEF Said, Told
  <2>. QED BY <2>1, <2>2 DEF Connect
<1>3. StreamInv' BY ConnectKeeps
<1>4. ~Complete' BY <1>1, <1>3, CompleteAfterTheEnd
<1>5. AnswerIsTheRuntimes' BY <1>2, <1>4, AnswerUnsaid
<1>. QED BY <1>1, <1>2, <1>5 DEF AnswerInv

LEMMA AnswerRelay == StreamInv /\ AnswerInv /\ Relay => AnswerInv'
<1>. SUFFICES ASSUME StreamInv, AnswerInv, Relay PROVE AnswerInv' OBVIOUS
<1>1. /\ body \in Seq(Events) /\ lines \in Seq(Lines) /\ Streamed
      /\ AnswerIsTheRuntimes /\ Len(Said) = Len(Told) /\ UNCHANGED request
  BY SpokenSoFar DEF Relay, StreamInv, PathInv, AnswerInv
<1>2. PICK line \in Lines :
          /\ lines' = Append(lines, line)
          /\ body' = CASE line \in Chunks -> Append(body, Relayed(line))
                       [] line \in Failures -> Append(body, ErrorChunk)
                       [] OTHER -> body
          /\ IF line \in Failures \cup Ends
             THEN upstream' = "closed" /\ phase' = "metadata"
             ELSE UNCHANGED <<upstream, phase>>
  BY DEF Relay
<1>3. phase' \in {"relay", "metadata"} BY <1>2 DEF Relay
<1>4. /\ Piece(line) \in Pieces
      /\ Piece(line) = [content |-> line.content, reasoning |-> line.reasoning]
      /\ Told' = IF Piece(line) = Silence THEN Told ELSE Append(Told, Piece(line))
  BY <1>1, <1>2, LinePieces, ToldOne DEF Told
<1>5. ~Complete'
  <2>1. StreamInv' BY RelayKeeps
  <2>2. Complete' => phase' = "ended" BY <2>1, CompleteAfterTheEnd
  <2>. QED BY <1>3, <2>2
<1>6. CASE line \in Chunks
  <2>. DEFINE e == Relayed(line)
  <2>1. body' = Append(body, e) BY <1>2, <1>6, LineKinds
  <2>2. /\ e \in Events /\ e.kind = "chunk" /\ e.reasoning = line.reasoning
        /\ e.content = IF line.content = NoText THEN line.reasoning ELSE line.content
    BY <1>6, RelayedChunk
  <2>. HIDE DEF e
  <2>3. Piece(e) \in Pieces /\ Piece(e) = [content |-> e.content, reasoning |-> e.reasoning]
    BY <2>2, EventPieces
  <2>4. Said' = IF Piece(e) = Silence THEN Said ELSE Append(Said, Piece(e))
    BY <1>1, <2>1, <2>2, SaidOne DEF Said
  <2>5. Piece(e) = Silence <=> Piece(line) = Silence
    BY <1>4, <2>2, <2>3 DEF Silence
  <2>6. CASE Piece(e) = Silence
    <3>1. Said' = Said /\ Told' = Told BY <1>4, <2>4, <2>5, <2>6
    <3>2. AnswerIsTheRuntimes' BY <1>1, <3>1, AnswerKept
    <3>. QED BY <1>1, <1>3, <3>1, <3>2 DEF AnswerInv
  <2>7. CASE Piece(e) # Silence
    <3>1. Conveys(Piece(e), Piece(line))
      BY <1>1, <1>4, <2>2, <2>3, <2>7 DEF Conveys, Silence
    <3>2. Said' = Append(Said, Piece(e)) /\ Told' = Append(Told, Piece(line))
      BY <1>4, <2>4, <2>5, <2>7
    <3>3. AnswerIsTheRuntimes' /\ Len(Said') = Len(Told')
      BY <1>1, <1>4, <2>3, <3>1, <3>2, AnswerGrows
    <3>. QED BY <1>3, <3>3 DEF AnswerInv
  <2>. QED BY <2>6, <2>7
<1>7. CASE line \notin Chunks
  <2>1. line.content = NoText /\ line.reasoning = NoText BY <1>7, LineKinds
  <2>2. Told' = Told BY <1>4, <2>1 DEF Silence
  <2>3. Said' = Said
    <3>1. CASE line \in Failures
      <4>1. body' = Append(body, ErrorChunk) BY <1>2, <1>7, <3>1
      <4>2. Piece(ErrorChunk) = Silence BY ErrorOnes, EventPieces
      <4>. QED BY <1>1, <4>1, <4>2, ErrorOnes, SaidOne DEF Said
    <3>2. CASE line \notin Failures
      <4>1. body' = body BY <1>2, <1>7, <3>2
      <4>. QED BY <4>1 DEF Said
    <3>. QED BY <3>1, <3>2
  <2>4. AnswerIsTheRuntimes' BY <1>1, <2>2, <2>3, AnswerKept
  <2>. QED BY <1>1, <1>3, <2>2, <2>3, <2>4 DEF AnswerInv
<1>. QED BY <1>6, <1>7

\* The events that say nothing: the role, the metadata, [DONE].
LEMMA AnswerWithoutText ==
    StreamInv /\ AnswerInv /\ (SendMetadata \/ SendDone \/ SendRole \/ SendFinal) => AnswerInv'
<1>. SUFFICES ASSUME StreamInv, AnswerInv,
                     SendMetadata \/ SendDone \/ SendRole \/ SendFinal
              PROVE  AnswerInv'
  OBVIOUS
<1>1. body \in Seq(Events) /\ lines \in Seq(Lines) BY SpokenSoFar
<1>2. PICK kind \in {"metadata", "done", "chunk"}, finish \in BOOLEAN :
          body' = Append(body, Empty(kind, finish))
  BY DEF SendMetadata, SendDone, SendRole, SendFinal
<1>. DEFINE e == Empty(kind, finish)
<1>3. e \in Events /\ e.kind = kind /\ e.content = NoText /\ e.reasoning = NoText
  BY EmptyOnes
<1>4. body' = Append(body, e) BY <1>2
<1>. HIDE DEF e
<1>5. Piece(e) = Silence
  <2>1. e.kind # "error" BY <1>3
  <2>. QED BY <1>3, <2>1, EventPieces
<1>6. Said' = Said BY <1>1, <1>3, <1>4, <1>5, SaidOne DEF Said
<1>7. Told' = Told /\ UNCHANGED <<lines, request>>
  BY DEF SendMetadata, SendDone, SendRole, SendFinal, Told
<1>8. /\ phase \in {"metadata", "done", "final", "role"}
      /\ phase = "role" => phase' = "content" /\ SendRole
      /\ phase # "role" => phase' \in {"done", "ended"}
  BY DEF SendMetadata, SendDone, SendRole, SendFinal
<1>9. Complete' => phase # "role"
  <2>1. StreamInv' BY MetadataKeeps, DoneKeeps, BufferedKeeps
  <2>2. Complete' => phase' = "ended" BY <2>1, CompleteAfterTheEnd
  <2>. QED BY <1>8, <2>2
<1>10. Complete' => Len(Said) = Len(Told) BY <1>8, <1>9 DEF AnswerInv
<1>11. AnswerIsTheRuntimes' BY <1>6, <1>7, <1>10, AnswerKept DEF AnswerInv
<1>. QED BY <1>6, <1>7, <1>8, <1>11 DEF AnswerInv

\* A piece that is all the runtime has told.
LEMMA OnePiece ==
    ASSUME NEW line \in Lines, line.content # NoText
    PROVE  Speech(<<line>>) = <<Piece(line)>>
<1>1. Piece(line) # Silence BY LinePieces DEF Silence
<1>2. <<line>> = Append(<<>>, line) /\ <<>> \in Seq(Lines) BY NothingSent
<1>3. Speech(<<line>>) = Append(Speech(<<>>), Piece(line)) BY <1>1, <1>2, ToldOne
<1>. QED BY <1>3, SpeechOfNothing

LEMMA AnswerAsk == StreamInv /\ AnswerInv /\ Ask => AnswerInv'
<1>. SUFFICES ASSUME StreamInv, AnswerInv, Ask PROVE AnswerInv' OBVIOUS
<1>1. phase = "ask" /\ body = <<>> /\ lines = <<>> /\ ~Streamed /\ UNCHANGED request
  BY DEF Ask, StreamInv, PathInv, BodyInv
<1>2. StreamInv' BY AskKeeps
<1>3. Len(Told') \in Nat
  <2>1. lines' \in Seq(Lines) BY <1>2 DEF StreamInv, TypeOK
  <2>. QED BY <2>1, SpeechTypes DEF Told
<1>4. CASE phase' = "ended" /\ UNCHANGED body
  <2>1. Said' = <<>> BY <1>1, <1>4, SpeechOfNothing DEF Said
  <2>2. ~Complete' BY <1>1, <1>4 DEF Complete
  <2>. QED BY <1>3, <1>4, <2>1, <2>2, AnswerUnsaid DEF AnswerInv
<1>5. ASSUME NEW reply \in Replies, reply.content # NoText, lines' = <<reply>>
      PROVE  /\ phase' = "role" /\ UNCHANGED body => AnswerInv'
             /\ phase' = "ended" /\ body' = <<Event("message", reply.content, NoText, TRUE)>>
                    => AnswerInv'
  <2>1. reply \in Lines /\ reply.content \in Contents BY ReplyKinds DEF Contents
  <2>2. Told' = <<Piece(reply)>> BY <1>5, <2>1, OnePiece DEF Told
  <2>3. /\ Piece(reply) \in Pieces
        /\ Piece(reply) = [content |-> reply.content, reasoning |-> reply.reasoning]
    BY <2>1, LinePieces
  <2>4. ASSUME phase' = "role", UNCHANGED body PROVE AnswerInv'
    <3>1. Said' = <<>> BY <1>1, <2>4, SpeechOfNothing DEF Said
    <3>2. ~Complete' BY <1>1, <2>4 DEF Complete
    <3>3. Len(lines') = 1 /\ lines'[1].content # NoText BY <1>5
    <3>. QED BY <1>3, <2>4, <3>1, <3>2, <3>3, AnswerUnsaid DEF AnswerInv
  <2>5. ASSUME phase' = "ended",
               body' = <<Event("message", reply.content, NoText, TRUE)>>
        PROVE  AnswerInv'
    <3>. DEFINE e == Event("message", reply.content, NoText, TRUE)
    <3>1. e \in Events /\ e.kind = "message" /\ e.content = reply.content /\ e.reasoning = NoText
      BY <2>1 DEF Event, Events, Reasonings
    <3>2. body' = Append(body, e) /\ body \in Seq(Events) BY <1>1, <2>5, NothingSent
    <3>. HIDE DEF e
    <3>3. Piece(e) = [content |-> reply.content, reasoning |-> NoText] /\ Piece(e) # Silence
      BY <1>5, <3>1, EventPieces DEF Silence
    <3>4. Said' = <<Piece(e)>>
      <4>1. Speech(body') = Append(Speech(body), Piece(e)) BY <3>1, <3>2, <3>3, SaidOne
      <4>2. Speech(body) = <<>> BY <1>1, SpeechOfNothing
      <4>3. Append(<<>>, Piece(e)) = <<Piece(e)>> OBVIOUS
      <4>. QED BY <4>1, <4>2, <4>3 DEF Said
    <3>5. Conveys(Piece(e), Piece(reply))' BY <1>1, <1>5, <2>3, <3>3 DEF Conveys, Streamed
    <3>6. Len(Said') = 1 /\ Len(Told') = 1 /\ DOMAIN Said' = {1}
          /\ Said'[1] = Piece(e) /\ Told'[1] = Piece(reply)
      BY <2>2, <3>4
    <3>7. AnswerIsTheRuntimes' BY <3>5, <3>6 DEF AnswerIsTheRuntimes
    <3>. QED BY <2>5, <3>7 DEF AnswerInv
  <2>. QED BY <2>4, <2>5
<1>. QED BY <1>4, <1>5 DEF Ask

\* The buffered answer is sent in one event.
LEMMA AnswerContent == StreamInv /\ AnswerInv /\ SendContent => AnswerInv'
<1>. SUFFICES ASSUME StreamInv, AnswerInv, SendContent PROVE AnswerInv' OBVIOUS
<1>1. /\ body \in Seq(Events) /\ lines \in Seq(Lines) /\ UNCHANGED <<lines, request>>
      /\ Said = <<>> /\ Len(lines) = 1 /\ lines[1].content # NoText /\ ~Streamed
      /\ body' = Append(body, Event("chunk", lines[1].content, NoText, FALSE))
      /\ phase' = "final"
  BY SpokenSoFar DEF SendContent, StreamInv, PathInv, AnswerInv
<1>2. PICK line \in Lines : lines = <<line>>
  <2>1. lines \in Seq(Lines) /\ Len(lines) = 1 BY <1>1
  <2>2. lines[1] \in Lines /\ lines = <<lines[1]>> BY <2>1
  <2>. QED BY <2>2
<1>. DEFINE e == Event("chunk", line.content, NoText, FALSE)
<1>0. line.content # NoText /\ body' = Append(body, e) BY <1>1, <1>2
<1>3. e \in Events /\ e.kind = "chunk" /\ e.content = line.content /\ e.reasoning = NoText
  BY <1>2, LineKinds DEF Event, Events, Contents, Reasonings
<1>. HIDE DEF e
<1>4. Told' = <<Piece(line)>> BY <1>0, <1>1, <1>2, OnePiece DEF Told
<1>5. Piece(line) = [content |-> line.content, reasoning |-> line.reasoning]
  BY <1>2, LinePieces
<1>6. Piece(e) = [content |-> line.content, reasoning |-> NoText] /\ Piece(e) # Silence
  BY <1>0, <1>3, EventPieces DEF Silence
<1>7. Said' = <<Piece(e)>>
  <2>1. Speech(body') = Append(Speech(body), Piece(e)) BY <1>0, <1>1, <1>3, <1>6, SaidOne
  <2>2. Append(<<>>, Piece(e)) = <<Piece(e)>> OBVIOUS
  <2>. QED BY <1>1, <2>1, <2>2 DEF Said
<1>8. Conveys(Piece(e), Piece(line))' BY <1>0, <1>1, <1>5, <1>6 DEF Conveys, Streamed
<1>9. Len(Said') = 1 /\ Len(Told') = 1 /\ DOMAIN Said' = {1}
      /\ Said'[1] = Piece(e) /\ Told'[1] = Piece(line)
  BY <1>4, <1>7
<1>10. AnswerIsTheRuntimes' BY <1>8, <1>9 DEF AnswerIsTheRuntimes
<1>. QED BY <1>1, <1>9, <1>10 DEF AnswerInv

LEMMA AnswerStep == StreamInv /\ AnswerInv /\ [Next]_vars => AnswerInv'
<1>. SUFFICES ASSUME StreamInv, AnswerInv, [Next]_vars PROVE AnswerInv' OBVIOUS
<1>1. CASE Accept \/ ClientLeaves \/ DropGenerator \/ UNCHANGED vars
  <2>1. /\ UNCHANGED <<request, lines, body>>
        /\ phase' \in {"connect", "ask", "ended", "left"} \/ UNCHANGED phase
    BY <1>1 DEF Accept, ClientLeaves, DropGenerator, vars
  <2>2. Said' = Said /\ Told' = Told /\ Complete' = Complete
    BY <2>1 DEF Said, Told, Complete
  <2>3. AnswerIsTheRuntimes'
    BY <2>1, <2>2, AnswerKept DEF AnswerInv, AnswerIsTheRuntimes
  <2>. QED BY <2>1, <2>2, <2>3 DEF AnswerInv
<1>. QED BY <1>1, AnswerConnect, AnswerRelay, AnswerWithoutText, AnswerAsk, AnswerContent
     DEF Next, Serve

\* For any texts and any lines of the runtime, on all three response paths: every
\* piece of the answer is the next piece of the runtime, its content and its
\* reasoning each in its own field, and a complete response has all of them
\* (openai_compat.py _stream_via_runtime, _stream_buffered, create_chat_completion).
THEOREM AnswersAreTheRuntimes == Spec => []AnswerIsTheRuntimes
<1>1. Init => StreamInv /\ AnswerInv BY StreamInit, AnswerInit
<1>2. StreamInv /\ AnswerInv /\ [Next]_vars => (StreamInv /\ AnswerInv)'
  BY StreamStep, AnswerStep
<1>3. AnswerInv => AnswerIsTheRuntimes BY DEF AnswerInv
<1>. QED BY <1>1, <1>2, <1>3, PTL DEF Spec

-----------------------------------------------------------------------------
(* Refinement *)

LEMMA KindsSent ==
    ASSUME NEW s \in Seq(Events), NEW kinds, Sent(s, kinds)
    PROVE  Promise!Kinds(s) \subseteq kinds
BY DEF Sent, Promise!Kinds

\* One more event is a step of the promise when it may follow the others.
LEMMA SendsOne ==
    ASSUME StreamInv, status = 200, UNCHANGED status,
           NEW e \in Events, body' = Append(body, e), Promise!Follows(e.kind)
    PROVE  Promise!Next
<1>1. body \in Seq(Events) BY DEF StreamInv
<1>2. Last(body') = e /\ Len(body') = Len(body) + 1 BY <1>1, Appended
<1>3. Front(body') = body BY <1>1, FrontOfAppended
<1>4. Promise!Last(body') = e /\ Promise!Front(body') = body
  BY <1>2, <1>3 DEF Promise!Last, Last, Promise!Front, Front
<1>. QED BY <1>2, <1>4 DEF Promise!Next, Promise!Send

LEMMA DecidesStatus ==
    ASSUME StreamInv, Accept \/ Ask
    PROVE  [Promise!Next]_<<status, body>>
<1>1. status = 0 /\ body = <<>> BY DEF Accept, Ask, StreamInv, PathInv, BodyInv
<1>2. CASE UNCHANGED body /\ status' \in {0, 200, 400, 404, 500, 502}
  BY <1>1, <1>2 DEF Promise!Next, Promise!Refuse, Promise!Start, Promise!Refusals
<1>3. ASSUME NEW text, status' = 200, body' = <<Event("message", text, NoText, TRUE)>>
      PROVE  Promise!Next
  <2>. DEFINE e == Event("message", text, NoText, TRUE)
  <2>1. e.kind = "message" BY DEF Event
  <2>2. body' = <<e>> BY <1>3
  <2>. HIDE DEF e
  <2>3. Len(body') = 1 /\ DOMAIN body' = {1} /\ body'[1].kind = "message" BY <2>1, <2>2
  <2>4. Promise!Kinds(body') = {"message"} BY <2>3 DEF Promise!Kinds
  <2>. QED BY <1>1, <1>3, <2>3, <2>4 DEF Promise!Next, Promise!Start
<1>4. StreamInv' BY AcceptKeeps, AskKeeps
<1>5. status' \in {0, 200, 400, 404, 500, 502} BY <1>4 DEF StreamInv, TypeOK
<1>. QED BY <1>2, <1>3, <1>5 DEF Accept, Ask

LEMMA SendsChunks ==
    ASSUME StreamInv, Connect \/ Relay \/ SendRole \/ SendContent
    PROVE  [Promise!Next]_<<status, body>>
<1>1. /\ phase \in {"connect", "relay", "role", "content"} /\ UNCHANGED status
      /\ status = 200 /\ body \in Seq(Events) /\ Sent(body, {"chunk"})
  BY NothingSent
     DEF Connect, Relay, SendRole, SendContent, StreamInv, PathInv, BodyInv
<1>2. Promise!Follows("chunk") /\ Promise!Follows("error")
  BY <1>1, KindsSent DEF Promise!Follows
<1>3. \/ UNCHANGED body
      \/ \E e \in Events : body' = Append(body, e) /\ e.kind \in {"chunk", "error"}
  <2>1. CASE Connect BY <2>1, ErrorOnes DEF Connect
  <2>2. CASE Relay
    <3>1. PICK line \in Lines :
              body' = CASE line \in Chunks -> Append(body, Relayed(line))
                        [] line \in Failures -> Append(body, ErrorChunk)
                        [] OTHER -> body
      BY <2>2 DEF Relay
    <3>2. line \in Chunks => Relayed(line) \in Events /\ Relayed(line).kind = "chunk"
      BY RelayedChunk
    <3>3. line \in Failures => line \notin Chunks BY LineKinds
    <3>. QED BY <3>1, <3>2, <3>3, ErrorOnes
  <2>3. CASE SendRole \/ SendContent BY <2>3, ChunkSent
  <2>. QED BY <2>1, <2>2, <2>3
<1>. QED BY <1>1, <1>2, <1>3, SendsOne

LEMMA SendsEnd ==
    ASSUME StreamInv, SendMetadata \/ SendDone \/ SendFinal
    PROVE  Promise!Next
<1>1. /\ status = 200 /\ UNCHANGED status /\ body \in Seq(Events)
  BY DEF SendMetadata, SendDone, SendFinal, StreamInv, PathInv
<1>2. CASE SendMetadata \/ SendFinal
  <2>1. Sent(body, {"chunk", "error"})
    BY <1>2 DEF SendMetadata, SendFinal, StreamInv, BodyInv, Sent
  <2>2. Promise!Follows("metadata") BY <1>1, <2>1, KindsSent DEF Promise!Follows
  <2>3. PICK finish \in BOOLEAN : body' = Append(body, Empty("metadata", finish))
    BY <1>2 DEF SendMetadata, SendFinal
  <2>4. /\ Empty("metadata", finish) \in Events
        /\ Empty("metadata", finish).kind = "metadata"
    BY EmptyOnes
  <2>. QED BY <1>1, <2>2, <2>3, <2>4, SendsOne
<1>3. CASE SendDone
  <2>1. Promise!Follows("done")
    BY <1>3 DEF SendDone, StreamInv, BodyInv, Promise!Follows, Promise!Last, Last
  <2>2. /\ Empty("done", FALSE) \in Events
        /\ Empty("done", FALSE).kind = "done"
    BY EmptyOnes
  <2>3. body' = Append(body, Empty("done", FALSE)) BY <1>3 DEF SendDone
  <2>. QED BY <1>1, <2>1, <2>2, <2>3, SendsOne
<1>. QED BY <1>2, <1>3

LEMMA PromiseInit == Init => Promise!Init
BY DEF Init, Promise!Init

LEMMA PromiseStep == StreamInv /\ [Next]_vars => [Promise!Next]_<<status, body>>
<1>. SUFFICES ASSUME StreamInv, [Next]_vars PROVE [Promise!Next]_<<status, body>> OBVIOUS
<1>1. CASE ClientLeaves \/ DropGenerator \/ UNCHANGED vars
  BY <1>1 DEF ClientLeaves, DropGenerator, vars
<1>. QED BY <1>1, DecidesStatus, SendsChunks, SendsEnd DEF Next, Serve

\* For any texts and any lines of the runtime, whichever of the three response
\* paths answers, the response keeps what CompletionStream promises its client
\* (openai_compat.py).
THEOREM StreamsKeepThePromise == Spec => ImplementsCompletionStream
BY PromiseInit, PromiseStep, StreamCorrect, PTL
   DEF Spec, ImplementsCompletionStream, Promise!Spec
=============================================================================
