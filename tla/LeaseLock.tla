----------------------------- MODULE LeaseLock -----------------------------
(***************************************************************************)
(* What base/source/lock/lock.ts promises of any Lock implementation, as   *)
(* seen through the LockControllers it hands out: a controller is valid    *)
(* while its owner has not released it and it is not lost; at most one     *)
(* controller is valid at a time; one whose owner is done with it (it was  *)
(* released, or its process died) is never valid again.  A lost controller *)
(* may become valid again, because a late reply to a refresh may arrive.   *)
(***************************************************************************)
CONSTANT Id                    \* the acquire() calls made on one lock

VARIABLES
    holders,                   \* the calls whose controller is valid
    gone                       \* the calls that are done with their controller

leaseVars == <<holders, gone>>

LeaseInit == holders = {} /\ gone = {}

\* acquire() returns a controller, or a lost controller is refreshed in time.
Grant(i) ==
    /\ i \notin gone
    /\ holders = {}
    /\ holders' = {i}
    /\ UNCHANGED gone

\* `lost` turns true.
Lose(i) ==
    /\ i \in holders
    /\ holders' = holders \ {i}
    /\ UNCHANGED gone

\* release() is called, or the process of the owner dies.
Leave(i) ==
    /\ gone' = gone \cup {i}
    /\ holders' = holders \ {i}

LeaseNext == \E i \in Id : Grant(i) \/ Lose(i) \/ Leave(i)

LeaseSpec == LeaseInit /\ [][LeaseNext]_leaseVars
=============================================================================
