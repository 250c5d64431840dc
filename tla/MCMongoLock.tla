---------------------------- MODULE MCMongoLock ----------------------------
(* Instances of MongoLock for TLC. *)
EXTENDS MongoLock, TLC

CONSTANTS a, b

\* One call polls until its time is over, the other one tries once.
MCTimeout == (a :> 1) @@ (b :> 0)
=============================================================================
