------------------------------ MODULE Multiplex ------------------------------
(***************************************************************************)
(* multiplexAsync() of base/source/utils/async-iterable-helpers: one input *)
(* is copied to several feedables, each of them with a reader.  The        *)
(* producer holds an item until no buffer is at its limit, and is told of  *)
(* room by the $read of the feedable it awaits.                            *)
(***************************************************************************)
EXTENDS Integers, Sequences

CONSTANTS
    Count,                     \* the number of outputs
    Limit,                     \* bufferSize
    MaxItems                   \* bound on the length of the input


VARIABLES
    buffer, closed, reader, received, fed, taken,       \* of the feedables
    producer,                  \* where multiplexTo() is
    position,                  \* the output it drains
    pulled                     \* the items it got from the input

outVars == <<buffer, closed, reader, received, fed, taken>>
producerVars == <<producer, position, pulled>>
vars == <<outVars, producerVars>>

Outputs == 1..Count
InputError == 0

Out == INSTANCE FeedableAsyncIterable
         WITH Feedable <- Outputs, Reader <- Outputs, Of <- [o \in Outputs |-> o],
              Item <- 1..MaxItems, Error <- InputError, MaxFed <- MaxItems + 1

Init ==
    /\ Out!Init
    /\ producer = "pulling"
    /\ position = 1
    /\ pulled = 0

-----------------------------------------------------------------------------
Full(o) == Len(buffer[o]) >= Limit

\* Mutant: only the output the loop was at is looked at again.
DrainOne(p) ==
    IF p <= Count /\ Full(p)
    THEN /\ producer' = "awaiting" /\ position' = p
         /\ UNCHANGED outVars
    ELSE /\ producer' = "pulling" /\ position' = 1
         /\ Out!FeedAll(Outputs, pulled')

\* waitForDrain() from the p-th output on, and the feeds when it is through.
Drain(p) ==
    \/ \E o \in p..Count :
          /\ Full(o) /\ \A q \in p..(o - 1) : ~Full(q)
          /\ producer' = "awaiting"
          /\ position' = o
          /\ UNCHANGED outVars
    \/ /\ \A o \in p..Count : ~Full(o)
       /\ producer' = "pulling"
       /\ position' = 1
       /\ Out!FeedAll(Outputs, pulled')

\* The input has an item.
Pull ==
    /\ producer = "pulling"
    /\ pulled < MaxItems
    /\ pulled' = pulled + 1
    /\ Drain(1)

\* $read of the awaited output is resolved: look at it once more.
RoomFound ==
    /\ producer = "woken"
    /\ UNCHANGED pulled
    /\ Drain(position)

InputEnds ==
    /\ producer = "pulling"
    /\ producer' = "ended"
    /\ Out!End(Outputs)
    /\ UNCHANGED <<position, pulled>>

InputThrows ==
    /\ producer = "pulling"
    /\ producer' = "ended"
    /\ Out!Throw(Outputs)
    /\ UNCHANGED <<position, pulled>>

-----------------------------------------------------------------------------
\* readSubject.next(), when the consumer is through with the item it was given.
SignalRead(o) ==
    producer' = IF producer = "awaiting" /\ position = o /\ Out!Reads(o)
                THEN "woken" ELSE producer

Ask(o) ==
    /\ SignalRead(o)
    /\ Out!Ask(o)
    /\ UNCHANGED <<position, pulled>>

Resume(o) == Out!Resume(o) /\ UNCHANGED producerVars

Return(o) == Out!Return(o) /\ UNCHANGED producerVars

-----------------------------------------------------------------------------
Next ==
    \/ Pull \/ RoomFound \/ InputEnds \/ InputThrows
    \/ \E o \in Outputs : Ask(o) \/ Resume(o) \/ Return(o)

Spec == Init /\ [][Next]_vars

-----------------------------------------------------------------------------
\* The type invariant.
TypeOK ==
    /\ Out!TypeOK
    /\ producer \in {"pulling", "awaiting", "woken", "ended"}
    /\ position \in Outputs
    /\ pulled \in 0..MaxItems
    /\ \A o \in Outputs : closed[o] = (producer = "ended")

\* How many items the feedables were given: all but the one that is held.
Fed == IF producer \in {"awaiting", "woken"} THEN pulled - 1 ELSE pulled

FedInv(o) ==
    /\ \A n \in 1..Fed : fed[o][n] = n
    /\ \/ Len(fed[o]) = Fed
       \/ Len(fed[o]) = Fed + 1 /\ fed[o][Fed + 1] = InputError
    /\ Fed <= Len(received[o]) + Limit

\* Outputs that were found to have room still have it; the awaited one has been
\* full, and its reader has something to read before it signals.
DrainInv ==
    /\ producer \in {"awaiting", "woken"} =>
          pulled >= 1 /\ \A q \in 1..(position - 1) : ~Full(q)
    /\ producer = "awaiting" =>
          /\ reader[position] \notin {"waiting", "done", "threw"}
          /\ reader[position] \in {"new", "woken"} => buffer[position] # <<>>

\* The inductive invariant.
IInv == TypeOK /\ Out!StreamInv /\ (\A o \in Outputs : FedInv(o)) /\ DrainInv
=============================================================================
