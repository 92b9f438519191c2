------------------------------ MODULE WsNetwork ------------------------------
(***************************************************************************)
(* The WebSocket connection between a client and a server: one channel of  *)
(* messages per direction, in order and of finite capacity.  A write       *)
(* blocks while its channel is full.  Once the connection is broken, a     *)
(* write fails, and a read fails or still returns what had arrived before. *)
(***************************************************************************)
EXTENDS Integers, Sequences

CONSTANTS Id,            \* the ids that operations may have
          NoId,          \* the id of a message without one
          BadId,         \* an id that cannot be a key of a map: a JSON list or object
          MaxStreams,    \* bound: operations that are started on the connection
          MaxResponses,  \* bound: the responses that each operation has
          Buffer         \* the messages that fit into one direction

ASSUME NetworkAssumption ==
  /\ NoId \notin Id /\ BadId \notin Id /\ BadId # NoId
  /\ MaxStreams \in Nat
  /\ MaxResponses \in [1..MaxStreams -> Nat]
  /\ Buffer \in Nat \ {0}

\* Operations in the order in which the server starts them.
Stream == 1..MaxStreams

\* "other" is any type that the server ignores; "malformed" is what it cannot decode.
ToServer ==
  [type : {"start", "stop"}, id : Id \cup {BadId}]
    \cup [type : {"connection_init", "other", "malformed"}, id : {NoId}]

\* The payload of "data" is the number-th response of a stream.
ToClient ==
  [type : {"data", "complete"}, id : Id, stream : Stream, number : Nat]
    \cup [type : {"connection_ack", "connection_error"}, id : {NoId}, stream : {0},
          number : {0}]

VARIABLES connected, toServer, toClient

network == <<connected, toServer, toClient>>

NetworkTypeOK ==
  /\ connected \in BOOLEAN
  /\ toServer \in Seq(ToServer)
  /\ toClient \in Seq(ToClient)

NetworkInit == connected = TRUE /\ toServer = <<>> /\ toClient = <<>>

\* A write to channel c returns: there is room, or the connection is broken.
CanWrite(c) == ~connected \/ Len(c) < Buffer

\* Channel c after message m has been written to it.
Written(c, m) == IF connected THEN Append(c, m) ELSE c

Disconnect ==
  /\ connected
  /\ connected' = FALSE
  /\ UNCHANGED <<toServer, toClient>>
=============================================================================
