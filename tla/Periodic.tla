------------------------------- MODULE Periodic -------------------------------
(***************************************************************************)
(* PeriodicReporter and PeriodicSampler: a loop that waits for its         *)
(* interval and then emits, run and stopped by callers, while others count *)
(* and observers of what is emitted do the same.                           *)
(*                                                                         *)
(* A sampler that is started again while its last loop has not yet ended   *)
(* has two loops, and stop() waits for the later one.                      *)
(***************************************************************************)
EXTENDS Integers, FiniteSets

CONSTANTS
    Caller,
    MaxRuns, MaxCount          \* bounds on the runs and on what is counted

VARIABLES
    kind,                      \* "reporter" or "sampler"
    running,                   \* the flag running of the one, run of the other
    stopRequested,             \* the flag; stopPromise is resolved with it
    counter,
    loops, latest,             \* the loops by number: where they are; the last one
    calls,                     \* the loop that a caller of stop() waits for, or 0
    counted, reported,         \* history of this run: increases, what was reported
    inner,                     \* history: increases by an observer of a report
    quiet, noisy,              \* history: it was stopped; it emitted all the same
    overlap                    \* history: it was started before its last loop ended

flagVars == <<kind, running, stopRequested, latest>>
quietVars == <<quiet, noisy, overlap>>
vars == <<flagVars, loops, counter, calls, counted, reported, inner, quietVars>>

Loop == 1..MaxRuns
Live == {i \in Loop : loops[i] # "none"}

Init ==
    /\ kind \in {"reporter", "sampler"}
    /\ running = FALSE /\ stopRequested = FALSE
    /\ counter = 0 /\ latest = 0
    /\ loops = [i \in Loop |-> "none"]
    /\ calls = [c \in Caller |-> 0]
    /\ counted = 0 /\ reported = 0 /\ inner = 0
    /\ quiet = FALSE /\ noisy = FALSE /\ overlap = FALSE

Goto(i, next) == loops' = [loops EXCEPT ![i] = next]
Emits ==
    /\ noisy' = (noisy \/ quiet)
    /\ UNCHANGED <<quiet, overlap>>

-----------------------------------------------------------------------------
\* A new loop, which throws while the flag is set.
Begin(first) ==
    /\ ~running /\ latest < MaxRuns
    /\ running' = TRUE
    /\ latest' = latest + 1
    /\ Goto(latest + 1, first)
    /\ quiet' = FALSE
    /\ overlap' = (overlap \/ Live # {})
    /\ UNCHANGED <<kind, calls, noisy>>

\* run() of the reporter
Run ==
    /\ kind = "reporter"
    /\ Begin("waits")
    /\ stopRequested' = FALSE
    /\ counter' = 0 /\ counted' = 0 /\ reported' = 0 /\ inner' = 0

\* start() of the sampler, which calls the sample function.
Start ==
    /\ kind = "sampler"
    /\ Begin("samples")
    /\ UNCHANGED <<stopRequested, counter, counted, reported, inner>>

\* By whoever counts, also by an observer, during a report.
Increase ==
    /\ kind = "reporter" /\ running /\ counted < MaxCount
    /\ counter' = counter + 1 /\ counted' = counted + 1
    /\ inner' = inner + Cardinality({i \in Loop : loops[i] = "resets"})
    /\ UNCHANGED <<flagVars, loops, calls, reported, quietVars>>

\* stop() of the reporter: it returns at once unless it is running, and throws if
\* it was called before: stopPromise is resolved already.
StopReporter(c) ==
    /\ kind = "reporter" /\ running /\ ~stopRequested
    /\ calls[c] = 0
    /\ stopRequested' = TRUE
    /\ calls' = [calls EXCEPT ![c] = latest]
    /\ quiet' = TRUE
    /\ UNCHANGED <<kind, running, latest, loops, counter, counted, reported, inner, noisy, overlap>>

StopSampler(c) ==
    /\ kind = "sampler" /\ latest > 0
    /\ calls[c] = 0
    /\ running' = FALSE
    /\ calls' = [calls EXCEPT ![c] = latest]
    /\ UNCHANGED <<kind, stopRequested, latest, loops, counter, counted, reported, inner, quietVars>>

\* stop() returns when the loop it waits for has ended.
Stopped(c) ==
    /\ calls[c] # 0 /\ calls[c] \notin Live
    /\ calls' = [calls EXCEPT ![c] = 0]
    /\ quiet' = (quiet \/ calls[c] = latest)
    /\ UNCHANGED <<flagVars, loops, counter, counted, reported, inner, noisy, overlap>>

-----------------------------------------------------------------------------
\* The interval is over, or the reporter's cancelableTimeout() is cut short.
Elapse(i) ==
    /\ loops[i] = "waits"
    /\ Goto(i, "woken")
    /\ UNCHANGED <<flagVars, counter, calls, counted, reported, inner, quietVars>>

\* Mutant: the reporter does not look at the flag after its interval.
ReportsAlways == counter > 0

\* With ignoreZero.
Reports == ~stopRequested /\ counter > 0

\* emitReport(): the observers are told, then the counter is reset.
Report(i) ==
    /\ kind = "reporter" /\ loops[i] = "woken"
    /\ Reports
    /\ reported' = reported + counter
    /\ Goto(i, "resets")
    /\ Emits
    /\ UNCHANGED <<flagVars, counter, calls, counted, inner>>

ResetCounter(i) ==
    /\ loops[i] = "resets"
    /\ counter' = 0
    /\ Goto(i, "tests")
    /\ UNCHANGED <<flagVars, calls, counted, reported, inner, quietVars>>

NoReport(i) ==
    /\ kind = "reporter" /\ loops[i] = "woken"
    /\ ~Reports
    /\ Goto(i, "tests")
    /\ UNCHANGED <<flagVars, counter, calls, counted, reported, inner, quietVars>>

\* The condition of the reporter's loop.
ReportOn(i) ==
    /\ loops[i] = "tests" /\ ~stopRequested
    /\ Goto(i, "waits")
    /\ UNCHANGED <<flagVars, counter, calls, counted, reported, inner, quietVars>>

EndReports(i) ==
    /\ loops[i] = "tests" /\ stopRequested
    /\ Goto(i, "none")
    /\ running' = FALSE
    /\ UNCHANGED <<kind, stopRequested, latest, counter, calls, counted, reported, inner, quietVars>>

\* The sample function has answered: the sample is emitted, stopped or not.
Sample(i) ==
    /\ loops[i] = "samples"
    /\ Goto(i, "waits")
    /\ Emits
    /\ UNCHANGED <<flagVars, counter, calls, counted, reported, inner>>

\* The sample function has failed: so has the loop, and the flag stays.
SampleFails(i) ==
    /\ loops[i] = "samples"
    /\ Goto(i, "none")
    /\ UNCHANGED <<flagVars, counter, calls, counted, reported, inner, quietVars>>

\* The condition of the sampler's loop.
SampleOn(i) ==
    /\ kind = "sampler" /\ loops[i] = "woken" /\ running
    /\ Goto(i, "samples")
    /\ UNCHANGED <<flagVars, counter, calls, counted, reported, inner, quietVars>>

EndSamples(i) ==
    /\ kind = "sampler" /\ loops[i] = "woken" /\ ~running
    /\ Goto(i, "none")
    /\ UNCHANGED <<flagVars, counter, calls, counted, reported, inner, quietVars>>

Step(i) ==
    \/ Elapse(i)
    \/ Report(i) \/ ResetCounter(i) \/ NoReport(i) \/ ReportOn(i) \/ EndReports(i)
    \/ Sample(i) \/ SampleFails(i) \/ SampleOn(i) \/ EndSamples(i)

Next ==
    \/ Run \/ Start \/ Increase
    \/ \E c \in Caller : StopReporter(c) \/ StopSampler(c) \/ Stopped(c)
    \/ \E i \in Loop : Step(i)

\* Timers fire, the sample function answers, promises wake who awaits them.
Fairness ==
    /\ \A i \in Loop : WF_vars(Step(i))
    /\ \A c \in Caller : WF_vars(Stopped(c))

Spec == Init /\ [][Next]_vars /\ Fairness

-----------------------------------------------------------------------------
(* Properties.                                                              *)

\* The reporter emits nothing once stop() was called, the sampler nothing once
\* stop() returned, until they are run again: the sampler unless it was started
\* before its last loop had ended.  The reporter never has two loops.  What was
\* counted is reported or still in the counter, except what an observer counts
\* during a report.
StopIsKept ==
    /\ noisy => overlap
    /\ kind = "reporter" => ~overlap /\ Cardinality(Live) <= 1
    /\ (\A i \in Loop : loops[i] # "resets") => counter + reported + inner = counted

\* A stop() comes to an end, unless the sampler is started again.
StopsEnd == \A c \in Caller : calls[c] # 0 ~> (calls[c] = 0 \/ (kind = "sampler" /\ running))
-----------------------------------------------------------------------------
(* The inductive invariant, proved in LifecycleProofs.                      *)


\* The type invariant.
FlagType ==
    /\ kind \in {"reporter", "sampler"}
    /\ running \in BOOLEAN /\ stopRequested \in BOOLEAN
    /\ quiet \in BOOLEAN /\ noisy \in BOOLEAN /\ overlap \in BOOLEAN

LoopType ==
    /\ latest \in Nat /\ latest <= MaxRuns
    /\ loops \in [Loop -> {"none", "waits", "woken", "resets", "tests", "samples"}]
    /\ \A i \in Loop : /\ loops[i] \in {"resets", "tests"} => kind = "reporter"
                       /\ loops[i] = "samples" => kind = "sampler"
    /\ calls \in [Caller -> Nat] /\ \A c \in Caller : calls[c] <= latest

CountType == counter \in Nat /\ counted \in Nat /\ reported \in Nat /\ inner \in Nat

TypeOK == FlagType /\ LoopType /\ CountType

\* There is no loop but the latest one, unless one was started over another;
\* that of a reporter is running.
LoopInv ==
    /\ \A i \in Loop : loops[i] # "none" /\ i # latest => overlap /\ i < latest
    /\ kind = "reporter" => ~overlap /\ (Live # {} => running)

\* What was stopped is quiet: the reporter is told to, the sampler has no loop.
QuietInv ==
    /\ noisy => overlap
    /\ quiet /\ kind = "reporter" => stopRequested
    /\ quiet /\ kind = "sampler" => overlap \/ Live = {}
    /\ \A c \in Caller : calls[c] # 0 /\ calls[c] = latest /\ kind = "reporter" =>
          stopRequested

\* What is counted is in the counter, was reported, or was counted during a
\* report and is about to be lost.
CountInv ==
    /\ (\A i \in Loop : loops[i] # "resets") => counter + reported + inner = counted
    /\ (\E i \in Loop : loops[i] = "resets") => reported + inner = counted

IInv == TypeOK /\ LoopInv /\ QuietInv /\ CountInv
=============================================================================
