---------------------------- MODULE MCRedisLock ----------------------------
(* Instances of RedisLock for TLC. *)
EXTENDS RedisLock, TLC

CONSTANTS a, b

\* Two clients, the clock of the second one tick ahead of Redis.
MCSkew == (a :> 0) @@ (b :> 1)
=============================================================================
