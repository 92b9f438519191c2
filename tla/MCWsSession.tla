----------------------------- MODULE MCWsSession -----------------------------
(* Two callers share a connection. *)
EXTENDS WsSession, TLC

CONSTANTS a, b

\* The callers differ in nothing, which the safety properties may use.
AnyCaller == Permutations(Caller)

\* The bounds on the responses of the first and of the second operation.
TwoAndOne  == <<2, 1>>
OneAndNone == <<1, 0>>
=============================================================================
