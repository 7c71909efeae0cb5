--------------------------- MODULE MCKafkaConsumer ---------------------------
EXTENDS KafkaConsumer

MCIds  == {"a", "b"}

(* A chat message, a body the engine rejects, and the same chat message    *)
(* again at a later offset.                                                *)
MCKind == [o \in 1..3 |-> IF o = 2 THEN "malformed" ELSE "chat"]
MCId   == [o \in 1..3 |-> "a"]

(* Two different messages around a body that cannot even be decoded. *)
MCKind2 == [o \in 1..3 |-> IF o = 2 THEN "undecodable" ELSE "chat"]
MCId2   == [o \in 1..3 |-> IF o = 3 THEN "b" ELSE "a"]
=============================================================================
