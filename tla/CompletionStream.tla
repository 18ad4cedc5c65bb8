--------------------------- MODULE CompletionStream ---------------------------
(***************************************************************************)
(* What a client of POST /v1/chat/completions may rely on, whichever of    *)
(* the three response paths answers: the status is decided once; an error  *)
(* status has no body; a stream is chunks, then at most one error chunk,   *)
(* then the platform metadata, then [DONE], and nothing after it.  It may  *)
(* be cut short at any point, by a client that leaves.                     *)
(***************************************************************************)
EXTENDS Naturals, Sequences, SequencesExt

VARIABLES status,   \* 0 until the response starts
          body      \* the events sent so far

Refusals == {400, 404, 500, 502}

Kinds(events) == {events[i].kind : i \in DOMAIN events}

Init == status = 0 /\ body = <<>>

Refuse ==
    /\ status = 0
    /\ status' \in Refusals
    /\ UNCHANGED body

Start ==
    /\ status = 0
    /\ status' = 200
    /\ \/ UNCHANGED body
       \/ Len(body') = 1 /\ Kinds(body') = {"message"}

(* One more event of a kind that may follow those already sent.            *)
Follows(kind) ==
    CASE kind = "chunk" -> Kinds(body) \subseteq {"chunk"}
      [] kind = "error" -> Kinds(body) \subseteq {"chunk"}
      [] kind = "metadata" -> Kinds(body) \subseteq {"chunk", "error"}
      [] kind = "done" -> body # <<>> /\ Last(body).kind = "metadata"
      [] OTHER -> FALSE

Send ==
    /\ status = 200
    /\ Len(body') = Len(body) + 1
    /\ Front(body') = body
    /\ Follows(Last(body').kind)
    /\ UNCHANGED status

Next == Refuse \/ Start \/ Send

Spec == Init /\ [][Next]_<<status, body>>
=============================================================================
