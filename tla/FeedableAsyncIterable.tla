------------------------ MODULE FeedableAsyncIterable ------------------------
(***************************************************************************)
(* base/source/utils/feedable-async-iterable.ts: producers feed a buffer,  *)
(* readers iterate it.  Several readers may iterate the same feedable; an  *)
(* entry goes to one of them.  A reader is a generator: it runs when it is  *)
(* asked for the next item or when what it awaits is resolved, until it    *)
(* yields, awaits or ends.                                                 *)
(*                                                                         *)
(* The module stands alone, with producers that may call anything at any   *)
(* time, and is instantiated by the modules of the real producers.         *)
(***************************************************************************)
EXTENDS Integers, Sequences

CONSTANTS
    Feedable,
    Reader,                    \* the iterators
    Of,                        \* the feedable a reader iterates
    Item,
    Error,                     \* the entry that throw() adds
    MaxFed                     \* bound on the number of feeds (stand-alone)


VARIABLES
    buffer,
    closed,                    \* closedToken
    reader,                    \* where a reader is
    received,                  \* what it has yielded
    fed,                       \* what was fed, with the error
    taken                      \* what was taken out of the buffer

vars == <<buffer, closed, reader, received, fed, taken>>

Ended == {"done", "threw", "stopped"}

Init ==
    /\ buffer = [f \in Feedable |-> <<>>]
    /\ closed = [f \in Feedable |-> FALSE]
    /\ reader = [r \in Reader |-> "new"]
    /\ received = [r \in Reader |-> <<>>]
    /\ fed = [f \in Feedable |-> <<>>]
    /\ taken = [f \in Feedable |-> <<>>]

-----------------------------------------------------------------------------
(* The producer.                                                            *)

\* merge(closedToken.set$, buffer.add$): resolved for every reader that awaits.
Wake(F) ==
    reader' = [r \in Reader |-> IF Of[r] \in F /\ reader[r] = "waiting"
                                THEN "woken" ELSE reader[r]]

\* One feed() or several without an await between them.  The caller of a closed
\* feedable gets an error, and nothing changes.
Feed(f, items) ==
    /\ ~closed[f]
    /\ buffer' = [buffer EXCEPT ![f] = @ \o items]
    /\ fed' = [fed EXCEPT ![f] = @ \o items]
    /\ IF items = <<>> THEN UNCHANGED reader ELSE Wake({f})
    /\ UNCHANGED <<closed, received, taken>>

\* feed() of one item to several feedables.
FeedAll(F, item) ==
    /\ \A f \in F : ~closed[f]
    /\ buffer' = [f \in Feedable |-> IF f \in F THEN Append(buffer[f], item)
                                     ELSE buffer[f]]
    /\ fed' = [f \in Feedable |-> IF f \in F THEN Append(fed[f], item) ELSE fed[f]]
    /\ Wake(F)
    /\ UNCHANGED <<closed, received, taken>>

End(F) ==
    /\ closed' = [f \in Feedable |-> f \in F \/ closed[f]]
    /\ Wake(F)
    /\ UNCHANGED <<buffer, received, fed, taken>>

Throw(F) ==
    /\ \A f \in F : ~closed[f]
    /\ buffer' = [f \in Feedable |-> IF f \in F THEN Append(buffer[f], Error)
                                     ELSE buffer[f]]
    /\ fed' = [f \in Feedable |-> IF f \in F THEN Append(fed[f], Error) ELSE fed[f]]
    /\ closed' = [f \in Feedable |-> f \in F \/ closed[f]]
    /\ Wake(F)
    /\ UNCHANGED <<received, taken>>

-----------------------------------------------------------------------------
(* The generator, from where it is resumed to where it is suspended.        *)

\* removeFirst(), and the entry is yielded or thrown.
Take(r) ==
    /\ buffer[Of[r]] # <<>>
    /\ buffer' = [buffer EXCEPT ![Of[r]] = Tail(@)]
    /\ taken' = [taken EXCEPT ![Of[r]] = Append(@, Head(buffer[Of[r]]))]
    /\ LET entry == Head(buffer[Of[r]]) IN
       IF entry = Error
       THEN /\ reader' = [reader EXCEPT ![r] = "threw"]
            /\ UNCHANGED received
       ELSE /\ reader' = [reader EXCEPT ![r] = "holding"]
            /\ received' = [received EXCEPT ![r] = Append(@, entry)]

Turn(r) ==
    /\ \/ Take(r)
       \/ /\ buffer[Of[r]] = <<>>
          /\ reader' = [reader EXCEPT ![r] = IF closed[Of[r]] THEN "done" ELSE "waiting"]
          /\ UNCHANGED <<buffer, received, taken>>
    /\ UNCHANGED <<closed, fed>>

\* next(): the consumer asks for the next item.  If it held one, this is when
\* readSubject tells that it was read.
Ask(r) ==
    /\ reader[r] \in {"new", "holding"}
    /\ Turn(r)

Reads(r) == reader[r] = "holding"

Resume(r) ==
    /\ reader[r] = "woken"
    /\ Turn(r)

\* return(): the consumer breaks out of its loop.
Return(r) ==
    /\ reader[r] \in {"new", "holding"}
    /\ reader' = [reader EXCEPT ![r] = "stopped"]
    /\ UNCHANGED <<buffer, closed, received, fed, taken>>

-----------------------------------------------------------------------------
Produce(f) ==
    /\ Len(fed[f]) < MaxFed
    /\ (\E x \in Item : Feed(f, <<x>>)) \/ Throw({f})

Next ==
    \/ \E f \in Feedable : Produce(f) \/ End({f})
    \/ \E r \in Reader : Ask(r) \/ Resume(r) \/ Return(r)

Spec == Init /\ [][Next]_vars

-----------------------------------------------------------------------------
\* The type invariant.
TypeOK ==
    /\ buffer \in [Feedable -> Seq(Item \cup {Error})]
    /\ closed \in [Feedable -> BOOLEAN]
    /\ reader \in [Reader -> {"new", "waiting", "woken", "holding"} \cup Ended]
    /\ received \in [Reader -> Seq(Item)]
    /\ fed \in [Feedable -> Seq(Item \cup {Error})]
    /\ taken \in [Feedable -> Seq(Item \cup {Error})]

\* f was fed; got and, if the reader threw, an error have been given out; b is left.
IsFifo(f, b, got, threw) ==
    LET gone == Len(got) + (IF threw THEN 1 ELSE 0) IN
    /\ Len(f) = gone + Len(b)
    /\ \A n \in DOMAIN got : got[n] = f[n]
    /\ \A n \in DOMAIN b : b[n] = f[gone + n]
    /\ threw => f[gone] = Error

ErrorIsLast(f) ==
    \A n \in DOMAIN fed[f] : fed[f][n] = Error => n = Len(fed[f]) /\ closed[f]

\* The inductive invariant of feedables with one reader each.
StreamInv ==
    /\ \A f \in Feedable : ErrorIsLast(f)
    /\ \A r \in Reader :
          /\ IsFifo(fed[Of[r]], buffer[Of[r]], received[r], reader[r] = "threw")
          /\ reader[r] = "waiting" => buffer[Of[r]] = <<>> /\ ~closed[Of[r]]
          /\ reader[r] = "done" => buffer[Of[r]] = <<>> /\ closed[Of[r]]
=============================================================================
