----------------------------- MODULE BufferAsync -----------------------------
(***************************************************************************)
(* bufferAsync() of base/source/utils/async-iterable-helpers/buffer.ts: a  *)
(* producer, started by the first next(), reads ahead of the consumer until *)
(* the buffer is at its size.  Each of the two awaits an event of the       *)
(* buffer, which only tells who awaits it at that time.                     *)
(***************************************************************************)
EXTENDS Integers, Sequences

CONSTANTS
    Size,
    MaxItems                   \* bound on the length of the input


VARIABLES
    buffer,                    \* items, known by their number, and an end marker
    end,                       \* the consumer is through
    producer, consumer,        \* where they are
    pulled,                    \* the number of items read from the input
    late,                      \* how many of them after the consumer's end
    received                   \* what the consumer was given

vars == <<buffer, end, producer, consumer, pulled, late, received>>

End == 0                       \* { end: true }
Failure == 0 - 1               \* { end: true, error }
Ended == {"done", "threw", "stopped"}

Init ==
    /\ buffer = <<>>
    /\ end = FALSE
    /\ producer = "new"
    /\ consumer = "new"
    /\ pulled = 0
    /\ late = 0
    /\ received = <<>>

-----------------------------------------------------------------------------
(* The producer.                                                            *)

\* $add, for a consumer that awaits it.
WakeConsumer == consumer' = IF consumer = "awaiting" THEN "woken" ELSE consumer

Room(entries) == Len(entries) < Size

\* The end of the loop's body.
GoOn(entries) ==
    \/ ~end /\ buffer' = entries /\ producer' = "pulling"
    \/ end /\ buffer' = Append(entries, End) /\ producer' = "ended"

\* An item is added; the producer awaits $remove or goes on.
Pull ==
    /\ producer = "pulling"
    /\ pulled < MaxItems
    /\ pulled' = pulled + 1
    /\ late' = IF end THEN late + 1 ELSE late
    /\ LET entries == Append(buffer, pulled') IN
       \/ ~Room(entries) /\ buffer' = entries /\ producer' = "awaiting"
       \/ Room(entries) /\ GoOn(entries)
    /\ WakeConsumer
    /\ UNCHANGED <<end, received>>

RoomFound ==
    /\ producer = "woken"
    /\ GoOn(buffer)
    /\ UNCHANGED <<end, consumer, pulled, late, received>>

InputEnds ==
    /\ producer = "pulling"
    /\ producer' = "ended"
    /\ buffer' = Append(buffer, End)
    /\ WakeConsumer
    /\ UNCHANGED <<end, pulled, late, received>>

InputThrows ==
    /\ producer = "pulling"
    /\ producer' = "ended"
    /\ buffer' = Append(buffer, Failure)
    /\ WakeConsumer
    /\ UNCHANGED <<end, pulled, late, received>>

-----------------------------------------------------------------------------
(* The consumer.                                                            *)

\* The finally block: clear() emits no $remove, so that a producer that awaits
\* room is not told.
Finish(place) ==
    /\ consumer' = place
    /\ end' = TRUE
    /\ buffer' = <<>>

\* Mutant: what was removed is not told.
TakeSilently ==
    /\ buffer # <<>>
    /\ LET entry == Head(buffer) IN
       \/ entry = End /\ Finish("done") /\ UNCHANGED received
       \/ entry = Failure /\ Finish("threw") /\ UNCHANGED received
       \/ /\ entry \notin {End, Failure}
          /\ consumer' = "holding"
          /\ buffer' = Tail(buffer)
          /\ received' = Append(received, entry)
          /\ UNCHANGED end
    /\ UNCHANGED <<producer, pulled, late>>

\* removeFirst(), which resolves $remove.
Take ==
    /\ buffer # <<>>
    /\ producer' = IF producer = "awaiting" THEN "woken" ELSE producer
    /\ LET entry == Head(buffer) IN
       \/ entry = End /\ Finish("done") /\ UNCHANGED received
       \/ entry = Failure /\ Finish("threw") /\ UNCHANGED received
       \/ /\ entry \notin {End, Failure}
          /\ consumer' = "holding"
          /\ buffer' = Tail(buffer)
          /\ received' = Append(received, entry)
          /\ UNCHANGED end
    /\ UNCHANGED <<pulled, late>>

\* The first next() starts the producer.
Begin ==
    /\ consumer = "new"
    /\ producer' = "pulling"
    /\ consumer' = "awaiting"
    /\ UNCHANGED <<buffer, end, pulled, late, received>>

Ask ==
    /\ consumer = "holding"
    /\ \/ Take
       \/ /\ buffer = <<>>
          /\ consumer' = "awaiting"
          /\ UNCHANGED <<buffer, end, producer, pulled, late, received>>

\* $add of the buffer, which is not looked at again.
Resume ==
    /\ consumer = "woken"
    /\ Take

\* The consumer breaks out of its loop, or never begins.
Return ==
    /\ consumer \in {"new", "holding"}
    /\ IF consumer = "holding" THEN Finish("stopped")
       ELSE consumer' = "stopped" /\ UNCHANGED <<buffer, end>>
    /\ UNCHANGED <<producer, pulled, late, received>>

-----------------------------------------------------------------------------
Next ==
    \/ Pull \/ RoomFound \/ InputEnds \/ InputThrows
    \/ Begin \/ Ask \/ Resume \/ Return

Spec == Init /\ [][Next]_vars

-----------------------------------------------------------------------------
\* The type invariant.
TypeOK ==
    /\ buffer \in Seq(1..MaxItems \cup {End, Failure})
    /\ end \in BOOLEAN
    /\ producer \in {"new", "pulling", "awaiting", "woken", "ended"}
    /\ consumer \in {"new", "awaiting", "woken", "holding"} \cup Ended
    /\ pulled \in 0..MaxItems
    /\ late \in Nat
    /\ received \in Seq(1..MaxItems)
    /\ end <=> consumer \in Ended /\ producer # "new"

\* What a consumer that goes on has before it: all that was pulled, and a marker
\* if the producer is through.
ItemsLeft == pulled - Len(received)
AheadInv ==
    /\ pulled >= Len(received)
    /\ Len(buffer) = ItemsLeft + (IF producer = "ended" THEN 1 ELSE 0)
    /\ \A n \in 1..ItemsLeft : buffer[n] = Len(received) + n
    /\ producer = "ended" => buffer[Len(buffer)] \in {End, Failure}

\* The producer reads on only if there is room for one more, and awaits what a
\* consumer that goes on will remove.
RoomInv ==
    /\ producer \in {"pulling", "woken"} => ItemsLeft < (IF Size = 0 THEN 1 ELSE Size)
    /\ ItemsLeft <= (IF Size = 0 THEN 1 ELSE Size)
    /\ producer = "awaiting" => buffer # <<>>

\* After the consumer's end the producer reads one item at most.
LateInv ==
    /\ ~end => late = 0
    /\ late = 0 \/ (late = 1 /\ producer \in {"awaiting", "ended"})

WakeInv ==
    /\ consumer = "new" => producer = "new"
    /\ producer = "new" => consumer \in {"new", "stopped"} /\ pulled = 0
    /\ consumer = "awaiting" => buffer = <<>> /\ producer \notin {"awaiting", "ended"}
    /\ consumer = "woken" => buffer # <<>>

\* The inductive invariant.
IInv ==
    /\ TypeOK /\ LateInv /\ WakeInv
    /\ \A n \in DOMAIN received : received[n] = n
    /\ consumer \notin Ended => AheadInv /\ RoomInv
    /\ consumer \in {"done", "threw"} => producer = "ended" /\ Len(received) = pulled
=============================================================================
