------------------------------ MODULE Pipeline ------------------------------
(***************************************************************************)
(* The helpers for async iterables, put together the way they are meant to *)
(* be: an input is multiplexed; the first output is read by a bufferAsync, *)
(* the second one by a parallelFeed; each of them has a consumer, which    *)
(* may stop at any item.                                                   *)
(*                                                                         *)
(*                        / output 1 -> bufferAsync  -> consumer           *)
(*     input -> multiplex                                                  *)
(*                        \ output 2 -> parallelFeed -> consumer           *)
(*                                                                         *)
(* A helper asks the output it reads where its for-await loop is at the    *)
(* head; what the output's reader does (yield, wait, end, throw) decides   *)
(* how the helper goes on.                                                 *)
(***************************************************************************)
EXTENDS Integers, Sequences, FiniteSets

CONSTANTS
    Limit,                     \* bufferSize of multiplexAsync
    Size,                      \* of bufferAsync
    Concurrency,               \* of parallelFeed
    MaxItems                   \* bound on the length of the input

ASSUME LimitAssumption == Limit \in Nat \ {0}     \* 'must be greater than 0'
ASSUME SizeAssumption == Size \in Nat
ASSUME ConcurrencyAssumption == Concurrency \in Nat \ {0}
ASSUME MaxItemsAssumption == MaxItems \in Nat

VARIABLES
    buffer, closed, reader, received, fed, taken,       \* the outputs
    producer, position, pulled,                         \* the multiplexer
    ahead, end, bufferProducer, bufferConsumer,         \* bufferAsync
    bufferPulled, late, bufferReceived,
    outBuffer, outClosed, outReader, outReceived, outFed, outTaken,
    keepOrder, inBuffer, currentIndex, index, loop,     \* parallelFeed
    running, failing, errors, dropped, failed, told

muxVars == <<buffer, closed, reader, received, fed, taken, producer, position, pulled>>
bufVars == <<ahead, end, bufferProducer, bufferConsumer, bufferPulled, late,
             bufferReceived>>
parVars == <<outBuffer, outClosed, outReader, outReceived, outFed, outTaken,
             keepOrder, inBuffer, currentIndex, index, loop, running, failing,
             errors, dropped, failed, told>>
vars == <<muxVars, bufVars, parVars>>

Mux == INSTANCE Multiplex WITH Count <- 2

Buf == INSTANCE BufferAsync
         WITH buffer <- ahead, producer <- bufferProducer, consumer <- bufferConsumer,
              pulled <- bufferPulled, received <- bufferReceived

Par == INSTANCE ParallelFeed
         WITH buffer <- outBuffer, closed <- outClosed, reader <- outReader,
              received <- outReceived, fed <- outFed, taken <- outTaken

Init == Mux!Init /\ Buf!Init /\ Par!Init

-----------------------------------------------------------------------------
Input ==
    /\ Mux!Pull \/ Mux!InputEnds \/ Mux!InputThrows
    /\ UNCHANGED <<bufVars, parVars>>

Multiplexes ==
    /\ Mux!RoomFound
    /\ UNCHANGED <<bufVars, parVars>>

\* for await of bufferAsync()'s producer.
BufferReads ==
    /\ bufferProducer = "pulling"
    /\ Mux!Ask(1) \/ Mux!Resume(1)
    /\ \/ reader'[1] = "holding" /\ Buf!Pull
       \/ reader'[1] = "done" /\ Buf!InputEnds
       \/ reader'[1] = "threw" /\ Buf!InputThrows
       \/ reader'[1] = "waiting" /\ UNCHANGED bufVars
    /\ UNCHANGED parVars

\* It broke out of the loop: return() of the output's reader.
BufferStopsReading ==
    /\ bufferProducer = "ended"
    /\ Mux!Return(1)
    /\ UNCHANGED <<bufVars, parVars>>

BufferGoesOn ==
    /\ Buf!RoomFound
    /\ UNCHANGED <<muxVars, parVars>>

BufferIsAsked ==
    /\ Buf!Begin \/ Buf!Ask \/ Buf!Return
    /\ UNCHANGED <<muxVars, parVars>>

BufferAnswers ==
    /\ Buf!Resume
    /\ UNCHANGED <<muxVars, parVars>>

-----------------------------------------------------------------------------
\* for await of parallelForEach().
ParallelReads ==
    /\ loop = "pulling"
    /\ Mux!Ask(2) \/ Mux!Resume(2)
    /\ \/ reader'[2] = "holding" /\ (Par!Pull \/ Par!PullAfterError)
       \/ reader'[2] = "done" /\ Par!InputEnds
       \/ reader'[2] = "threw" /\ Par!InputThrows
       \/ reader'[2] = "waiting" /\ UNCHANGED parVars
    /\ UNCHANGED bufVars

ParallelStopsReading ==
    /\ loop \in {"draining", "over"}
    /\ Mux!Return(2)
    /\ UNCHANGED <<bufVars, parVars>>

ParallelGoesOn ==
    /\ Par!SlotIsFree \/ Par!Drained
    /\ UNCHANGED <<muxVars, bufVars>>

ParallelStep(i) ==
    /\ Par!Step(i)
    /\ UNCHANGED <<muxVars, bufVars>>

ParallelIsAsked ==
    /\ Par!Consume
    /\ UNCHANGED <<muxVars, bufVars>>

-----------------------------------------------------------------------------
\* The multiplexer, the producer and the consumer of the buffer, and the loop of
\* parallelForEach() are a thread of promises each: only one step of a thread is
\* possible at a time, but for return() of the loop's reader.
Multiplexer == Input \/ Multiplexes
BufferProducer == BufferReads \/ BufferStopsReading \/ BufferGoesOn
BufferConsumer == BufferIsAsked \/ BufferAnswers
ParallelLoop == ParallelReads \/ ParallelStopsReading \/ ParallelGoesOn

Next ==
    \/ Multiplexer \/ BufferProducer \/ BufferConsumer \/ ParallelLoop
    \/ \E i \in Par!Items : ParallelStep(i)
    \/ ParallelIsAsked

Spec == Init /\ [][Next]_vars

\* The input delivers or ends, a promise that is resolved wakes who awaits it,
\* every run settles, and consumers ask or stop.
Fairness ==
    /\ WF_vars(Multiplexer)
    /\ WF_vars(BufferProducer) /\ WF_vars(BufferConsumer)
    /\ WF_vars(ParallelLoop)
    /\ WF_vars(\E i \in Par!Items : ParallelStep(i))
    /\ WF_vars(ParallelIsAsked)

FairSpec == Spec /\ Fairness

-----------------------------------------------------------------------------
out == Par!out

\* The type invariant.
TypeOK == Mux!TypeOK /\ Buf!TypeOK /\ Par!TypeOK

\* Both readers of the outputs and both consumers are given the items of the input in its order (that of
\* parallelFeed with keepOrder), none twice and none left out between two of
\* them, however the helpers' steps interleave.
InOrder ==
    /\ \A o \in {1, 2} : \A n \in DOMAIN received[o] : received[o][n] = n
    /\ \A n \in DOMAIN bufferReceived : bufferReceived[n] = n
    /\ keepOrder => \A n \in DOMAIN outReceived[out] : outReceived[out][n] = n - 1

\* A consumer that gets to the end has been given everything: of the buffer, all
\* that the input had; of parallelFeed, each item that was not dropped, once, if
\* no run failed.  (With keepOrder, what follows a dropped item never comes out.)
EndIsComplete ==
    /\ bufferConsumer \in {"done", "threw"} => Len(bufferReceived) = pulled
    /\ outReader[out] = "done" /\ failed = {} =>
           \A i \in 0..(pulled - 1) :
              Cardinality({n \in DOMAIN outReceived[out] : outReceived[out][n] = i})
                  = IF Par!Expected(i) THEN 1 ELSE 0

\* Back pressure: bufferAsync reads no further ahead of its consumer than its size
\* (one item at least), the input is read no further ahead of either helper than
\* the limit and the item that the multiplexer holds; when the consumer of the
\* buffer is through, at most one more is read for it; and no more runs are under
\* way than allowed.
BackPressure ==
    /\ bufferConsumer \notin Buf!Ended =>
           bufferPulled <= Len(bufferReceived) + (IF Size = 0 THEN 1 ELSE Size)
    /\ bufferProducer # "ended" => pulled <= bufferPulled + Limit + 1
    /\ loop \in {"pulling", "full"} => pulled <= index + Limit + 1
    /\ late <= 1
    /\ Cardinality(running) <= Concurrency

\* No wake-up is lost: nobody awaits what has happened already, and no two of
\* the tasks wait for each other.
NoMutualWait ==
    /\ \A o \in {1, 2} : reader[o] = "waiting" => buffer[o] = <<>> /\ ~closed[o]
    /\ producer = "awaiting" => reader[position] \notin {"waiting", "done", "threw"}
    /\ bufferConsumer = "awaiting" =>
           ahead = <<>> /\ bufferProducer \notin {"awaiting", "ended"}
    /\ bufferConsumer = "woken" => ahead # <<>>
    /\ outReader[out] = "waiting" => outBuffer[out] = <<>> /\ ~outClosed[out]

\* What the consumers are owed: the items in order, all of them before the end,
\* and nobody waits for what is there.
ConsumersAreServed == InOrder /\ EndIsComplete /\ NoMutualWait

\* An error that is known when the loop is over reaches the consumer: it does not
\* see the output end.  (An error that is pushed after that is lost.)
ErrorReaches == outReader[out] = "done" => told = {}

StoppedEarly == bufferConsumer = "stopped" \/ reader[2] = "stopped"

\* Both consumers come to an end, unless one reader of the multiplexer stops
\* early: the other one may then wait for ever.
AllEnd ==
    <>(StoppedEarly \/ (bufferConsumer \in Buf!Ended /\ outReader[out] \in Par!Out!Ended))

\* The helpers know of the items that their readers were given, and of the end of
\* the input from them.
CouplingInv ==
    /\ bufferPulled = Len(received[1])
    /\ bufferProducer = "ended" /\ bufferConsumer # "stopped" => reader[1] \in {"done", "threw"}
    /\ loop \in {"pulling", "full"} => index = Len(received[2])
    /\ loop = "draining" => errors # {} \/ (reader[2] = "done" /\ index = Len(received[2]))
    /\ loop = "over" => Par!Thrown \/ (reader[2] = "done" /\ index = Len(received[2]))

\* The inductive invariant.
IInv == Mux!IInv /\ Buf!IInv /\ Par!IInv /\ CouplingInv
=============================================================================
