--------------------------- MODULE ResponseStream ---------------------------
(***************************************************************************)
(* What a response stream promises to the code that reads it               *)
(* (graphql_stream.go, ResponseStream): responses arrive one after the     *)
(* other while the stream is open, the stream is closed at most once and   *)
(* nothing arrives after that.  The stream of a query carries exactly one  *)
(* response.                                                               *)
(***************************************************************************)
EXTENDS Naturals

CONSTANT Single        \* whether the request is a query or a mutation

VARIABLES sent,        \* the number of responses sent so far
          closed       \* whether the stream is closed

Init == sent = 0 /\ closed = FALSE

Send ==
  /\ ~closed
  /\ Single => sent = 0
  /\ sent' = sent + 1
  /\ UNCHANGED closed

Close ==
  /\ ~closed
  /\ Single => sent = 1
  /\ closed' = TRUE
  /\ UNCHANGED sent

Next == Send \/ Close

Spec == Init /\ [][Next]_<<sent, closed>>
=============================================================================
