------------------------- MODULE MCRedisConnection --------------------------
(***************************************************************************)
(* A worker, a collector and a frontend.                                   *)
(***************************************************************************)
EXTENDS RedisConnection

MCKind == [t \in Threads |-> t]

=============================================================================
