------------------------------ MODULE Migrator ------------------------------
(***************************************************************************)
(* base/source/migration/migrator.ts: nodes, perhaps of different          *)
(* versions, call migrate() when they start.  A lock lets one of them      *)
(* after the other through; each runs the migrations that lead from the    *)
(* stored revision to the latest one it knows, and stores the revision     *)
(* after each.                                                             *)
(*                                                                         *)
(* The lock is what LeaseLock promises: one holder, unless a holder stalls *)
(* so long that its lease runs out (leaseLost).  A command that was sent   *)
(* is executed, or not, before the lease of its node runs out.             *)
(***************************************************************************)
EXTENDS Integers, FiniteSets

CONSTANTS
    Node,                      \* the processes
    NoNode,                    \* nobody
    Migration,                 \* the migrations of any version
    NoMigration,               \* none
    From, To,                  \* of a migration
    Deployed,                  \* the migrations a node's version comes with
    MaxRestarts                \* bound on the calls of control.restart()

Fresh == 0 - 1                 \* 'init': no revision is stored

ASSUME NoNodeAssumption == NoNode \notin Node
ASSUME MigrationAssumption ==
    /\ NoMigration \notin Migration
    /\ From \in [Migration -> SUBSET (Nat \cup {Fresh})]
    /\ To \in [Migration -> Nat]
    /\ \A m \in Migration : \A r \in From[m] : r < To[m]

\* 'no migrations provided' otherwise.
ASSUME DeployedAssumption ==
    /\ Deployed \in [Node -> SUBSET Migration]
    /\ \A n \in Node : Deployed[n] # {} /\ IsFiniteSet(Deployed[n])
ASSUME MaxRestartsAssumption == MaxRestarts \in Nat

VARIABLES
    holder,                    \* who holds the lock
    stored,                    \* the revision of the state, Fresh if there is none
    pc,                        \* where the node is in migrate()
    current,                   \* currentRevision
    chosen,                    \* the migration that runs
    restart,                   \* restartToken.isSet
    restarts,                  \* the calls of restart() so far
    completed,                 \* migrations that ran to their end since `stored`
                               \* changed
    leaseLost                  \* a node lost the lock while it migrated

nodeVars == <<pc, current, chosen, restart, restarts>>
vars == <<holder, stored, nodeVars, completed, leaseLost>>

Inside == {"top", "loaded", "migrating", "saving", "returning", "throwing"}

Init ==
    /\ holder = NoNode
    /\ stored = Fresh
    /\ pc = [n \in Node |-> "idle"]
    /\ current = [n \in Node |-> Fresh]
    /\ chosen = [n \in Node |-> NoMigration]
    /\ restart = [n \in Node |-> FALSE]
    /\ restarts = 0
    /\ completed = {}
    /\ leaseLost = FALSE

Goto(n, place) == pc' = [pc EXCEPT ![n] = place]

Latest(n) == CHOOSE r \in {To[m] : m \in Deployed[n]} :
                 \A m \in Deployed[n] : To[m] <= r

Suitable(n) == {m \in Deployed[n] : current[n] \in From[m]}

-----------------------------------------------------------------------------
(* lock.using(30000, true, ...)                                             *)

Start(n) ==
    /\ pc[n] \in {"idle", "failed", "crashed"}
    /\ Goto(n, "locking")
    /\ UNCHANGED <<holder, stored, current, chosen, restart, restarts, completed, leaseLost>>

\* Mutant: func runs without the lock.
AcquiredByAnyone(n) ==
    /\ pc[n] = "locking"
    /\ holder' = n
    /\ Goto(n, "top")
    /\ UNCHANGED <<stored, current, chosen, restart, restarts, completed, leaseLost>>

Acquired(n) ==
    /\ pc[n] = "locking"
    /\ holder = NoNode
    /\ holder' = n
    /\ Goto(n, "top")
    /\ UNCHANGED <<stored, current, chosen, restart, restarts, completed, leaseLost>>

\* 'failed to acquire lock'
NotAcquired(n) ==
    /\ pc[n] = "locking"
    /\ Goto(n, "failed")
    /\ UNCHANGED <<holder, stored, current, chosen, restart, restarts, completed, leaseLost>>

Outcome(n) == IF pc[n] = "returning" THEN "done" ELSE "failed"

\* The finally block of using().
Release(n) ==
    /\ pc[n] \in {"returning", "throwing"}
    /\ Goto(n, Outcome(n))
    /\ holder' = IF holder = n THEN NoNode ELSE holder
    /\ UNCHANGED <<stored, current, chosen, restart, restarts, completed, leaseLost>>

\* release() rejects, whether or not it was executed: so does migrate(), whatever
\* func did.
ReleaseFails(n) ==
    /\ pc[n] \in {"returning", "throwing"}
    /\ Goto(n, "failed")
    /\ holder' \in {holder, IF holder = n THEN NoNode ELSE holder}
    /\ UNCHANGED <<stored, current, chosen, restart, restarts, completed, leaseLost>>

-----------------------------------------------------------------------------
(* The loop.                                                                *)

\* Mutant: one token for all passes of the loop.
LoadKeepsToken(n) ==
    /\ pc[n] = "top"
    /\ current' = [current EXCEPT ![n] = stored]
    /\ Goto(n, "loaded")
    /\ UNCHANGED <<holder, stored, chosen, restart, restarts, completed, leaseLost>>

Load(n) ==
    /\ pc[n] = "top"
    /\ current' = [current EXCEPT ![n] = stored]
    /\ restart' = [restart EXCEPT ![n] = FALSE]
    /\ Goto(n, "loaded")
    /\ UNCHANGED <<holder, stored, chosen, restarts, completed, leaseLost>>

UpToDate(n) ==
    /\ pc[n] = "loaded"
    /\ current[n] = Latest(n)
    /\ Goto(n, "returning")
    /\ UNCHANGED <<holder, stored, current, chosen, restart, restarts, completed, leaseLost>>

\* 'no suitable migration path'
NoPath(n) ==
    /\ pc[n] = "loaded"
    /\ current[n] # Latest(n)
    /\ Suitable(n) = {}
    /\ Goto(n, "throwing")
    /\ UNCHANGED <<holder, stored, current, chosen, restart, restarts, completed, leaseLost>>

\* The suitable migration that leads farthest.
Choose(n) ==
    /\ pc[n] = "loaded"
    /\ current[n] # Latest(n)
    /\ \E m \in Suitable(n) :
          /\ \A k \in Suitable(n) : To[k] <= To[m]
          /\ chosen' = [chosen EXCEPT ![n] = m]
    /\ Goto(n, "migrating")
    /\ UNCHANGED <<holder, stored, current, restart, restarts, completed, leaseLost>>

\* The migrator calls control.restart().
RequestRestart(n) ==
    /\ pc[n] = "migrating"
    /\ restarts < MaxRestarts
    /\ restart' = [restart EXCEPT ![n] = TRUE]
    /\ restarts' = restarts + 1
    /\ UNCHANGED <<holder, stored, pc, current, chosen, completed, leaseLost>>

\* Mutant: the restart is looked at after the state was stored.
MigratorEndsAnyway(n) ==
    /\ pc[n] = "migrating"
    /\ Goto(n, "saving")
    /\ completed' = IF restart[n] THEN completed ELSE completed \cup {chosen[n]}
    /\ UNCHANGED <<holder, stored, current, chosen, restart, restarts, leaseLost>>

\* The migrator is through; the state is stored unless a restart was requested.
MigratorEnds(n) ==
    /\ pc[n] = "migrating"
    /\ \/ restart[n] /\ Goto(n, "top") /\ UNCHANGED completed
       \/ ~restart[n] /\ Goto(n, "saving") /\ completed' = completed \cup {chosen[n]}
    /\ UNCHANGED <<holder, stored, current, chosen, restart, restarts, leaseLost>>

\* A state that was loaded is patched; otherwise one is inserted, which the
\* unique index refuses if there is one by now.
Stores(n) ==
    /\ pc[n] = "saving"
    /\ current[n] = Fresh => stored = Fresh
    /\ stored' = To[chosen[n]]
    /\ completed' = {}

Save(n) ==
    /\ Stores(n)
    /\ Goto(n, "top")
    /\ UNCHANGED <<holder, current, chosen, restart, restarts, leaseLost>>

\* The migrator throws, or a command rejects, executed or not.
Fails(n) ==
    /\ pc[n] \in {"top", "migrating", "saving"}
    /\ Stores(n) \/ UNCHANGED <<stored, completed>>
    /\ Goto(n, "throwing")
    /\ UNCHANGED <<holder, current, chosen, restart, restarts, leaseLost>>

-----------------------------------------------------------------------------
\* The process dies; a command under way is executed or not.  A migration that
\* was under way is run again by the next node that gets here.
Crash(n) ==
    /\ pc[n] \in Inside \cup {"locking"}
    /\ Stores(n) \/ UNCHANGED <<stored, completed>>
    /\ Goto(n, "crashed")
    /\ UNCHANGED <<holder, current, chosen, restart, restarts, leaseLost>>

\* The holder is dead, could not release the lock, or stalled too long; nobody
\* looks at the controller's `lost`.
LeaseRunsOut ==
    /\ holder # NoNode
    /\ holder' = NoNode
    /\ leaseLost' = (leaseLost \/ pc[holder] \in Inside)
    /\ UNCHANGED <<stored, nodeVars, completed>>

Next ==
    \/ \E n \in Node :
          \/ Start(n) \/ Acquired(n) \/ NotAcquired(n) \/ Release(n) \/ ReleaseFails(n)
          \/ Load(n) \/ UpToDate(n) \/ NoPath(n) \/ Choose(n)
          \/ RequestRestart(n) \/ MigratorEnds(n) \/ Save(n) \/ Fails(n)
          \/ Crash(n)
    \/ LeaseRunsOut

Spec == Init /\ [][Next]_vars

\* Commands are answered, migrators end, acquire() gives up in the end.
Fairness ==
    \A n \in Node :
        /\ WF_vars(Acquired(n) \/ NotAcquired(n))
        /\ WF_vars(Load(n))
        /\ WF_vars(UpToDate(n) \/ NoPath(n) \/ Choose(n))
        /\ WF_vars(MigratorEnds(n))
        /\ WF_vars(Save(n) \/ Fails(n))
        /\ WF_vars(Release(n) \/ ReleaseFails(n))

FairSpec == Spec /\ Fairness

-----------------------------------------------------------------------------
\* The type invariant.
TypeOK ==
    /\ holder \in Node \cup {NoNode}
    /\ stored \in Nat \cup {Fresh}
    /\ pc \in [Node -> {"idle", "locking", "done", "failed", "crashed"} \cup Inside]
    /\ current \in [Node -> Nat \cup {Fresh}]
    /\ chosen \in [Node -> Migration \cup {NoMigration}]
    /\ restart \in [Node -> BOOLEAN]
    /\ restarts \in Nat
    /\ completed \subseteq Migration
    /\ leaseLost \in BOOLEAN

\* Once migrate() has returned on a node, the stored revision is never again
\* older than the latest one this node knows, whatever nodes of other versions
\* do, crash at, or start over; unless a lease ran out under a migration.
NoRegression ==
    ~leaseLost => \A n \in Node : pc[n] = "done" => stored >= Latest(n)

\* The stored revision moves only along a migration that leads from it and has
\* run to its end, without a restart, since it was stored; so none is skipped,
\* however often nodes crash between a migrator and the command that stores it.
SavedWasRun ==
    [][~leaseLost /\ stored' # stored =>
           \E m \in completed : stored \in From[m] /\ stored' = To[m]]_vars

-----------------------------------------------------------------------------
(* The inductive invariant, proved in LockedProofs.                          *)

Loaded == {"loaded", "migrating", "saving"}

\* Who is inside holds the lock.
HolderInv == ~leaseLost => \A n \in Node : pc[n] \in Inside => holder = n

\* What was loaded is what is stored.
CurrentInv == ~leaseLost => \A n \in Node : pc[n] \in Loaded => current[n] = stored

\* The migration that runs is one of the node's and leads from what was loaded.
ChosenInv ==
    \A n \in Node : pc[n] \in {"migrating", "saving"} =>
        chosen[n] \in Deployed[n] /\ current[n] \in From[chosen[n]]

\* What is about to be stored has run.
CompletedInv ==
    ~leaseLost => \A n \in Node : pc[n] = "saving" => chosen[n] \in completed

\* Latest(n) is a number, as it was equal to a revision.
ReturnInv ==
    ~leaseLost => \A n \in Node : pc[n] \in {"returning", "done"} =>
                      Latest(n) \in Int /\ stored >= Latest(n)

IInv == TypeOK /\ HolderInv /\ CurrentInv /\ ChosenInv /\ CompletedInv /\ ReturnInv

\* migrate() returns, throws, or dies with its process: every migration goes
\* forward, and restarts end.
MigrateEnds ==
    \A n \in Node : pc[n] = "locking" ~> pc[n] \in {"done", "failed", "crashed"}
=============================================================================
