------------------------------ MODULE MCLocked ------------------------------
(* Instances of what nodes do one after the other under a lock, for TLC:     *)
(* they migrate (an old version knows the way to revision 2, a new one knows *)
(* a short cut to 2 and the step to 3), or take turns in a distributed loop. *)
EXTENDS Migrator, TLC

CONSTANTS
    old, new, first, second, both, third,
    Interval, Accuracy, SelfStopping   \* see DistributedLoop

MCFrom == (first :> {Fresh}) @@ (second :> {1}) @@ (both :> {Fresh}) @@ (third :> {1, 2})
MCTo == (first :> 1) @@ (second :> 2) @@ (both :> 2) @@ (third :> 3)
MCDeployed == (old :> {first, second}) @@ (new :> {first, second, both, third})

ASSUME TurnAssumption ==
    Interval \in Nat /\ Accuracy \in Nat /\ SelfStopping \subseteq Node

VARIABLES turnHolder, at, since, left, threw, stop, lastRun, sinceRun, intact

Turns == INSTANCE DistributedLoop WITH holder <- turnHolder, pc <- at, failed <- threw

turnVars == <<turnHolder, at, since, left, threw, stop, lastRun, sinceRun, intact>>
lockedVars == <<vars, turnVars>>

MCInit == Init /\ Turns!Init

\* The nodes migrate.
MigrationSpec ==
    /\ MCInit /\ [][Next /\ UNCHANGED turnVars]_lockedVars
    /\ Fairness

\* The nodes take turns.
TurnsSpec ==
    /\ MCInit /\ [][Turns!Next /\ UNCHANGED vars]_lockedVars
    /\ Turns!Fairness

\* See DistributedLoop: undisturbed turns are apart, and a loop goes on until it
\* is told to stop.
Spacing == Turns!Spacing
LoopsProgress == Turns!LoopsProgress
=============================================================================
