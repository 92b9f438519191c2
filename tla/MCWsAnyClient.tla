---------------------------- MODULE MCWsAnyClient ----------------------------
(* Two operations, under one id or under two. *)
EXTENDS WsAnyClient

OneEach == <<1, 1>>
=============================================================================
