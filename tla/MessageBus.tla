------------------------------ MODULE MessageBus ------------------------------
(***************************************************************************)
(* RedisMessageBusProvider and RedisMessageBus over TypedRedis.message$:   *)
(* the buses of a process share one connection for what they subscribe to, *)
(* and one observable for each channel, which subscribes with its first    *)
(* observer and unsubscribes with its last.  Commands and replies are on   *)
(* their way in order, between them come the messages that anybody         *)
(* publishes on another connection.                                        *)
(***************************************************************************)
EXTENDS Integers, Sequences, FiniteSets

CONSTANTS
    Channel, Observer,
    ChannelOf,                 \* of each observer: what it observes
    MaxMessages, MaxCommands   \* bounds on the messages and on SUBSCRIBEs

VARIABLES
    observers,                 \* of a channel's observable
    link,                      \* of a channel: where its observable is, and the
                               \* number of the SUBSCRIBE it sent
    commands, replies,         \* on their way to Redis, and back
    subscribed,                \* the channels Redis sends to the connection
    sent,                      \* bound: SUBSCRIBEs sent so far
    published,                 \* history: the messages of a channel, in order
    heard                      \* history: of an observer, since it subscribed

vars == <<observers, link, commands, replies, subscribed, sent, published, heard>>

Down == [at |-> "down", number |-> 0]

Init ==
    /\ observers = [ch \in Channel |-> {}]
    /\ link = [ch \in Channel |-> Down]
    /\ commands = <<>> /\ replies = <<>> /\ subscribed = {}
    /\ sent = 0
    /\ published = [ch \in Channel |-> 0]
    /\ heard = [o \in Observer |-> <<>>]

Subscribe(ch, n) == [type |-> "subscribe", channel |-> ch, number |-> n]
Unsubscribe(ch) == [type |-> "unsubscribe", channel |-> ch, number |-> 0]
Message(ch, n) == [type |-> "message", channel |-> ch, number |-> n]

-----------------------------------------------------------------------------
(* The process.  share(): the first observer makes the observable subscribe, *)
(* and the link wait for that command's reply.                               *)

Observe(o) ==
    LET ch == ChannelOf[o] IN
    /\ o \notin observers[ch]
    /\ observers' = [observers EXCEPT ![ch] = @ \cup {o}]
    /\ heard' = [heard EXCEPT ![o] = <<>>]
    /\ IF observers[ch] = {}
       THEN /\ sent < MaxCommands
            /\ sent' = sent + 1
            /\ commands' = Append(commands, Subscribe(ch, sent'))
            /\ link' = [link EXCEPT ![ch] = [at |-> "subscribing", number |-> sent']]
       ELSE UNCHANGED <<sent, commands, link>>
    /\ UNCHANGED <<replies, subscribed, published>>

\* Mutant: teardown() is only run if the subscription had been made.
TeardownOfLinked(ch) ==
    IF link[ch].at = "up" THEN Append(commands, Unsubscribe(ch)) ELSE commands

\* teardown(), whatever the state of the link.
Teardown(ch) == Append(commands, Unsubscribe(ch))

\* The last observer leaves.
Leave(o) ==
    LET ch == ChannelOf[o] IN
    /\ o \in observers[ch]
    /\ observers' = [observers EXCEPT ![ch] = @ \ {o}]
    /\ IF observers[ch] = {o}
       THEN /\ commands' = Teardown(ch)
            /\ link' = [link EXCEPT ![ch] = Down]
       ELSE UNCHANGED <<commands, link>>
    /\ UNCHANGED <<replies, subscribed, sent, published, heard>>

Reply == Head(replies)
Handled == replies' = Tail(replies)

\* The reply of a SUBSCRIBE resolves its promise; that of one that was torn down
\* is nobody's.
Awaited(reply) ==
    link[reply.channel] = [at |-> "subscribing", number |-> reply.number]

ReplyResolves ==
    /\ replies # <<>> /\ Reply.type = "subscribe"
    /\ Handled
    /\ link' = IF Awaited(Reply) THEN [link EXCEPT ![Reply.channel].at = "resolved"] ELSE link
    /\ UNCHANGED <<observers, commands, subscribed, sent, published, heard>>

\* The SUBSCRIBE is rejected: the observers get the error, and are none any more.
ReplyRejects ==
    /\ replies # <<>> /\ Reply.type = "refused"
    /\ Handled
    /\ LET ch == Reply.channel IN
       IF Awaited(Reply)
       THEN /\ observers' = [observers EXCEPT ![ch] = {}]
            /\ link' = [link EXCEPT ![ch] = Down]
            /\ commands' = Teardown(ch)
       ELSE UNCHANGED <<observers, link, commands>>
    /\ UNCHANGED <<subscribed, sent, published, heard>>

\* switchMap() subscribes to message$ in a later microtask; what came with the
\* reply is missed.
LinkIsUp(ch) ==
    /\ link[ch].at = "resolved"
    /\ link' = [link EXCEPT ![ch].at = "up"]
    /\ UNCHANGED <<observers, commands, replies, subscribed, sent, published, heard>>

\* Every link that is up looks at every message.
Listening(message) ==
    {o \in UNION {observers[ch] : ch \in Channel} :
        link[ChannelOf[o]].at = "up" /\ ChannelOf[o] = message.channel}

Receive ==
    /\ replies # <<>> /\ Reply.type = "message"
    /\ Handled
    /\ heard' = [o \in Observer |->
                   IF o \in Listening(Reply) THEN Append(heard[o], Reply.number) ELSE heard[o]]
    /\ UNCHANGED <<observers, link, commands, subscribed, sent, published>>

-----------------------------------------------------------------------------
(* Redis.                                                                   *)

ServerSubscribes ==
    /\ commands # <<>> /\ Head(commands).type = "subscribe"
    /\ commands' = Tail(commands)
    /\ \/ /\ subscribed' = subscribed \cup {Head(commands).channel}
          /\ replies' = Append(replies, Head(commands))
       \/ /\ replies' = Append(replies, [Head(commands) EXCEPT !.type = "refused"])
          /\ UNCHANGED subscribed
    /\ UNCHANGED <<observers, link, sent, published, heard>>

ServerUnsubscribes ==
    /\ commands # <<>> /\ Head(commands).type = "unsubscribe"
    /\ commands' = Tail(commands)
    /\ subscribed' = subscribed \ {Head(commands).channel}
    /\ UNCHANGED <<observers, link, replies, sent, published, heard>>

\* RedisMessageBus.publish() of any process.
publish(ch) ==
    /\ published[ch] < MaxMessages
    /\ published' = [published EXCEPT ![ch] = @ + 1]
    /\ replies' = IF ch \in subscribed THEN Append(replies, Message(ch, published'[ch])) ELSE replies
    /\ UNCHANGED <<observers, link, commands, subscribed, sent, heard>>

Next ==
    \/ \E o \in Observer : Observe(o) \/ Leave(o)
    \/ ReplyResolves \/ ReplyRejects \/ Receive
    \/ \E ch \in Channel : LinkIsUp(ch) \/ publish(ch)
    \/ ServerSubscribes \/ ServerUnsubscribes

Spec == Init /\ [][Next]_vars

-----------------------------------------------------------------------------
(* Properties.                                                              *)

\* The last command on its way that is about its channel.
IsLast(i) == \A j \in DOMAIN commands : j > i => commands[j].channel # commands[i].channel

NoCommand(ch) == \A i \in DOMAIN commands : commands[i].channel # ch

\* Redis sends a channel to the connection, once it has run what is on its way.
WillBeSubscribed(ch) ==
    \/ NoCommand(ch) /\ ch \in subscribed
    \/ \E i \in DOMAIN commands :
          commands[i].channel = ch /\ IsLast(i) /\ commands[i].type = "subscribe"

\* The reply that its observable waits for is on its way.
HasReply(ch, type) ==
    \E i \in DOMAIN replies :
        replies[i].channel = ch /\ replies[i].type = type /\ Awaited(replies[i])

IsRefused(ch) == HasReply(ch, "refused")

\* The last message that o heard.
Heard(o) == heard[o][Len(heard[o])]

\* However fast observers come and go: in the end Redis sends the channels that
\* somebody observes and no others, unless it refused.  What an observer heard
\* are the messages of its channel in the order of their publication, each once
\* and none left out, up to those that are still on their way.
MessagesArrive ==
    /\ \A ch \in Channel :
          /\ WillBeSubscribed(ch) => observers[ch] # {}
          /\ observers[ch] # {} => WillBeSubscribed(ch) \/ IsRefused(ch)
    /\ \A o \in Observer :
          LET ch == ChannelOf[o] IN
          /\ \A k \in DOMAIN heard[o] : k > 1 => heard[o][k] = heard[o][k - 1] + 1
          /\ o \in observers[ch] /\ heard[o] # <<>> =>
                \/ Heard(o) = published[ch]
                \/ \E i \in DOMAIN replies : replies[i] = Message(ch, Heard(o) + 1)

-----------------------------------------------------------------------------
(* The inductive invariant, proved in DatabasesProofs.                      *)

\* The type invariant.
LinkType ==
    /\ observers \in [Channel -> SUBSET Observer]
    /\ \A ch \in Channel : \A o \in observers[ch] : ChannelOf[o] = ch
    /\ link \in [Channel -> [at : {"down", "subscribing", "resolved", "up"}, number : Nat]]
    /\ sent \in Nat
Commands == [type : {"subscribe", "unsubscribe"}, channel : Channel, number : Nat]
Replies == [type : {"subscribe", "refused", "message"}, channel : Channel, number : Nat]
QueueType ==
    /\ commands \in Seq(Commands)
    /\ replies \in Seq(Replies)
    /\ subscribed \subseteq Channel
MessageType ==
    /\ published \in [Channel -> Nat]
    /\ heard \in [Observer -> Seq(Nat)]
TypeOK == LinkType /\ QueueType /\ MessageType

\* An observable subscribes as long as it has observers.
LinkInv == \A ch \in Channel : observers[ch] # {} <=> link[ch].at # "down"

\* A SUBSCRIBE is on its way to Redis or back, not both.
NumberInv ==
    /\ \A i \in DOMAIN commands : commands[i].type = "subscribe" => commands[i].number <= sent
    /\ \A i, j \in DOMAIN commands :
          /\ i # j /\ commands[i].type = "subscribe" /\ commands[j].type = "subscribe"
          => commands[i].number # commands[j].number
    /\ \A i \in DOMAIN replies : replies[i].type # "message" => replies[i].number <= sent
    /\ \A i, j \in DOMAIN replies :
          /\ i # j /\ replies[i].type # "message" /\ replies[j].type # "message"
          => replies[i].number # replies[j].number
    /\ \A i \in DOMAIN commands : \A j \in DOMAIN replies :
          commands[i].type = "subscribe" /\ replies[j].type # "message" =>
              commands[i].number # replies[j].number

\* The SUBSCRIBE that an observable waits for is the last command for its
\* channel, and any other is followed by an UNSUBSCRIBE.
CommandInv ==
    /\ \A i \in DOMAIN commands :
          commands[i].type = "subscribe" => (IsLast(i) <=> Awaited(commands[i]))
    /\ \A ch \in Channel :
          /\ ch \in subscribed /\ NoCommand(ch) => link[ch].at # "down"
          /\ link[ch].at = "subscribing" =>
                \/ \E i \in DOMAIN commands :
                      /\ commands[i].channel = ch /\ commands[i].type = "subscribe"
                      /\ Awaited(commands[i])
                \/ HasReply(ch, "subscribe") \/ HasReply(ch, "refused")

\* Redis has subscribed the connection for the observable.
Connected(ch) == link[ch].at \in {"resolved", "up"}
ConnectedInv ==
    \A ch \in Channel :
        Connected(ch) \/ HasReply(ch, "subscribe") => ch \in subscribed /\ NoCommand(ch)

IsMessage(i, ch) == replies[i].type = "message" /\ replies[i].channel = ch
\* There is a later message with the next number, unless this is the last one.
IsFollowed(i) ==
    LET ch == replies[i].channel IN
    \/ replies[i].number = published[ch]
    \/ \E j \in DOMAIN replies :
          j > i /\ IsMessage(j, ch) /\ replies[j].number = replies[i].number + 1

\* The messages of a channel arrive in order, and without a gap after the reply.
OrderInv ==
    /\ \A i \in DOMAIN replies :
          replies[i].type = "message" => replies[i].number <= published[replies[i].channel]
    /\ \A i, j \in DOMAIN replies :
          /\ i < j /\ replies[i].type = "message" /\ IsMessage(j, replies[i].channel)
          => replies[i].number < replies[j].number
    /\ \A i \in DOMAIN replies :
          /\ replies[i].type = "message"
          /\ \/ Connected(replies[i].channel)
             \/ \E k \in DOMAIN replies :
                   /\ k < i /\ replies[k].channel = replies[i].channel
                   /\ replies[k].type = "subscribe" /\ Awaited(replies[k])
          => IsFollowed(i)

\* An observer has heard all before what is on its way.
HeardInv ==
    /\ \A o \in Observer : \A k \in DOMAIN heard[o] : k > 1 => heard[o][k] = heard[o][k - 1] + 1
    /\ \A ch \in Channel : \A o \in observers[ch] :
          heard[o] # <<>> =>
              /\ link[ch].at = "up"
              /\ Heard(o) = published[ch] \/ \E i \in DOMAIN replies :
                                                IsMessage(i, ch) /\ replies[i].number = Heard(o) + 1
              /\ \A i \in DOMAIN replies : IsMessage(i, ch) => replies[i].number > Heard(o)

IInv ==
    TypeOK /\ LinkInv /\ NumberInv /\ CommandInv /\ ConnectedInv /\ OrderInv /\ HeardInv
=============================================================================
