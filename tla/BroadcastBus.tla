----------------------------- MODULE BroadcastBus -----------------------------
(***************************************************************************)
(* MessageBusBase and BroadcastChannelMessageBus: buses of the same        *)
(* channel, in windows and workers of their own.  publish() tells the      *)
(* observers of allMessage$ first, which may publish, dispose or leave     *)
(* before it goes on.                                                      *)
(***************************************************************************)
EXTENDS Integers, Sequences, Functions

CONSTANTS Bus, MaxMessages

VARIABLES
    disposed,                  \* disposeToken
    channel,                   \* whether there is a _channel
    observed,                  \* by observers of allMessage$
    publishing,                \* the messages whose observers are being told
    arriving,                  \* messages on their way to a channel
    published,                 \* history: the buses of the messages so far
    told, heard,               \* history: what the observers of a bus were told
                               \* by publish(), and heard from the channel
    posted, rejected,          \* history: in order; the messages that were rejected
    due                        \* history: posted while the bus was observed

progress == <<published, told, heard, posted, rejected, due>>
vars == <<disposed, channel, observed, publishing, arriving, progress>>

Init ==
    /\ disposed = [b \in Bus |-> FALSE] /\ channel = [b \in Bus |-> FALSE]
    /\ observed = [b \in Bus |-> FALSE]
    /\ publishing = [b \in Bus |-> <<>>] /\ arriving = [b \in Bus |-> <<>>]
    /\ published = <<>>
    /\ told = [b \in Bus |-> {}] /\ heard = [b \in Bus |-> <<>>]
    /\ posted = <<>> /\ rejected = {}
    /\ due = [b \in Bus |-> {}]

-----------------------------------------------------------------------------
\* Calls of publish() within calls of publish(): the innermost one, and when it returned.
Innermost(b) == publishing[b][Len(publishing[b])]
Returned(calls) == SubSeq(calls, 1, Len(calls) - 1)

Without(s, i) == SubSeq(s, 1, i - 1) \o SubSeq(s, i + 1, Len(s))

\* The program runs: outside publish(), or as an observer that it tells.
Runs(b) == publishing[b] # <<>> => Innermost(b) \in told[b]

\* The first observer opens the channel; those of a disposed bus are told that
\* it is complete, and change nothing.
Observe(b) ==
    /\ Runs(b) /\ ~observed[b] /\ ~disposed[b]
    /\ observed' = [observed EXCEPT ![b] = TRUE]
    /\ channel' = [channel EXCEPT ![b] = TRUE]
    /\ UNCHANGED <<disposed, publishing, arriving, progress>>

\* The channel stays open when the last observer leaves.
Leave(b) ==
    /\ Runs(b) /\ observed[b]
    /\ observed' = [observed EXCEPT ![b] = FALSE]
    /\ due' = [due EXCEPT ![b] = {}]
    /\ UNCHANGED <<disposed, channel, publishing, arriving, published, told, heard, posted, rejected>>

publish(b) ==
    /\ Runs(b) /\ ~disposed[b] /\ Len(published) < MaxMessages
    /\ published' = Append(published, b)
    /\ publishing' = [publishing EXCEPT ![b] = Append(@, Len(published'))]
    /\ told' = IF observed[b] THEN [told EXCEPT ![b] = @ \cup {Len(published')}] ELSE told
    /\ UNCHANGED <<disposed, channel, observed, arriving, heard, posted, rejected, due>>

\* _publish(), for the innermost call: `channel` opens the channel, unless an
\* observer has disposed the bus.
Post(b) ==
    LET message == Innermost(b) IN
    /\ publishing[b] # <<>>
    /\ ~disposed[b]
    /\ publishing' = [publishing EXCEPT ![b] = Returned(@)]
    /\ channel' = [channel EXCEPT ![b] = TRUE]
    /\ arriving' = [c \in Bus |->
                      IF c # b /\ channel[c] THEN Append(arriving[c], message) ELSE arriving[c]]
    /\ posted' = Append(posted, message)
    /\ due' = [c \in Bus |-> IF c # b /\ observed[c] THEN due[c] \cup {message} ELSE due[c]]
    /\ UNCHANGED <<disposed, observed, published, told, heard, rejected>>

PublishRejects(b) ==
    /\ publishing[b] # <<>> /\ disposed[b]
    /\ publishing' = [publishing EXCEPT ![b] = Returned(@)]
    /\ rejected' = rejected \cup {Innermost(b)}
    /\ UNCHANGED <<disposed, channel, observed, arriving, published, told, heard, posted, due>>

\* disposeAsync(): a second call is refused.
Dispose(b) ==
    /\ Runs(b) /\ ~disposed[b]
    /\ disposed' = [disposed EXCEPT ![b] = TRUE]
    /\ observed' = [observed EXCEPT ![b] = FALSE]
    /\ channel' = [channel EXCEPT ![b] = FALSE]
    /\ arriving' = [arriving EXCEPT ![b] = <<>>]
    /\ due' = [due EXCEPT ![b] = {}]
    /\ UNCHANGED <<publishing, published, told, heard, posted, rejected>>

\* An event of the channel, of each bus in order: none while publish() is on
\* the stack.
Deliver(b) ==
    /\ publishing[b] = <<>>
    /\ \E i \in DOMAIN arriving[b] :
          /\ \A j \in 1..(i - 1) : published[arriving[b][j]] # published[arriving[b][i]]
          /\ arriving' = [arriving EXCEPT ![b] = Without(@, i)]
          /\ heard' = IF observed[b] THEN [heard EXCEPT ![b] = Append(@, arriving[b][i])] ELSE heard
    /\ UNCHANGED <<disposed, channel, observed, publishing, published, told, posted, rejected, due>>

Next ==
    \E b \in Bus :
        \/ Observe(b) \/ Leave(b) \/ publish(b) \/ Post(b) \/ PublishRejects(b)
        \/ Dispose(b) \/ Deliver(b)

Spec == Init /\ [][Next]_vars

-----------------------------------------------------------------------------
(* Properties.                                                              *)

\* m was posted before n.
Before(m, n) == \E p, q \in DOMAIN posted : p < q /\ posted[p] = m /\ posted[q] = n

\* Nothing twice, and what is of the same bus in the order of its posts.
InOrder(s) ==
    \A i, j \in DOMAIN s :
        i < j => s[i] # s[j] /\ (published[s[i]] = published[s[j]] => Before(s[i], s[j]))

\* Nobody's observers miss what another bus posts while they observe, none hears
\* a message twice or what its own bus has told it, and all hear what a bus posts
\* in that order.  What is published is posted or rejected, never both; it is rejected
\* although observers were told.  A disposed bus keeps no channel.
BroadcastArrives ==
    /\ \A b \in Bus :
          /\ due[b] \subseteq Range(heard[b]) \cup Range(arriving[b])
          /\ Range(heard[b]) \cap told[b] = {}
          /\ Range(heard[b]) \subseteq Range(posted) /\ InOrder(heard[b])
          /\ disposed[b] => ~channel[b] /\ ~observed[b]
    /\ DOMAIN published = Range(posted) \cup rejected \cup UNION {Range(publishing[b]) : b \in Bus}
    /\ Range(posted) \cap rejected = {}
    /\ rejected \subseteq UNION {told[b] : b \in Bus}

-----------------------------------------------------------------------------
(* The inductive invariant, proved in DatabasesProofs.                      *)

\* The type invariant.
TypeOK ==
    /\ disposed \in [Bus -> BOOLEAN] /\ channel \in [Bus -> BOOLEAN]
    /\ observed \in [Bus -> BOOLEAN]
    /\ publishing \in [Bus -> Seq(Nat)] /\ arriving \in [Bus -> Seq(Nat)]
    /\ published \in Seq(Bus)
    /\ told \in [Bus -> SUBSET Nat] /\ heard \in [Bus -> Seq(Nat)]
    /\ posted \in Seq(Nat) /\ rejected \subseteq Nat
    /\ due \in [Bus -> SUBSET Nat]

\* A bus that is observed has its channel, one that is not misses nothing.
ChannelInv ==
    \A b \in Bus :
        /\ observed[b] => channel[b] /\ ~disposed[b]
        /\ disposed[b] => ~channel[b]
        /\ ~observed[b] => due[b] = {}

\* The calls of publish() of a bus are of different messages of its own.
Publishing(b) ==
    /\ \A i, j \in DOMAIN publishing[b] : publishing[b][i] = publishing[b][j] => i = j
    /\ \A m \in Range(publishing[b]) :
          m \notin Range(posted) /\ m \notin rejected /\ published[m] = b

\* A message is in one place: a call of publish(), the posts or the rejections.
PlaceInv ==
    /\ DOMAIN published = Range(posted) \cup rejected \cup UNION {Range(publishing[b]) : b \in Bus}
    /\ Range(posted) \cap rejected = {}
    /\ \A b \in Bus : Publishing(b)

\* The observers were told what is rejected, and all that they interrupted.
ToldInv ==
    /\ rejected \subseteq UNION {told[b] : b \in Bus}
    /\ \A b \in Bus :
          /\ \A m \in told[b] : m \in DOMAIN published /\ published[m] = b
          /\ \A i \in DOMAIN publishing[b] :
                i < Len(publishing[b]) \/ disposed[b] => publishing[b][i] \in told[b]

\* What a bus hears and what is on its way to it others have posted, in this order.
Arrival(b) ==
    /\ due[b] \subseteq Range(heard[b]) \cup Range(arriving[b])
    /\ \A m \in Range(heard[b]) \cup Range(arriving[b]) : m \in Range(posted) /\ published[m] # b
    /\ InOrder(heard[b]) /\ InOrder(arriving[b])
    /\ \A m \in Range(heard[b]), n \in Range(arriving[b]) :
          m # n /\ (published[m] = published[n] => Before(m, n))
ArrivalInv == \A b \in Bus : Arrival(b)

IInv == TypeOK /\ ChannelInv /\ PlaceInv /\ ToldInv /\ ArrivalInv
=============================================================================
