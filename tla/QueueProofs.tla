---------------------------- MODULE QueueProofs ----------------------------
(***************************************************************************)
(* Proofs about the two queues, RedisQueue and then MongoQueue, for any    *)
(* number of jobs and consumers: the IInv of each is inductive, and its    *)
(* safety properties follow from it.                                       *)
(***************************************************************************)
EXTENDS MCQueues, FiniteSetTheorems, TLAPS

\* A behaviour of the queue in Redis is one of RedisQueue.
LEMMA RedisAlone == RedisSpec => Spec
<1>1. [Next /\ UNCHANGED mongoVars]_queueVars => [Next]_vars
  BY DEF queueVars
<1> QED
  BY <1>1, PTL DEF RedisSpec, MCInit, Spec

\* Every order of a set of ids is a sequence of them without repetition.
LEMMA OrderType ==
    ASSUME NEW S \in SUBSET JobId, NEW s \in Orders(S)
    PROVE  s \in Seq(JobId) /\ Elements(s) = S /\ Distinct(s)
<1>1. Cardinality(S) \in Nat
  BY JobsAssumption, FS_Subset, FS_CardinalityType
<1>2. s \in [1..Cardinality(S) -> JobId] /\ Elements(s) = S /\ Distinct(s)
  BY DEF Orders
<1> QED
  BY <1>1, <1>2

\* A pushed batch of ids that are not in the list leaves it without repetition.
LEMMA PushLemma ==
    ASSUME NEW l \in Seq(JobId), NEW s \in Seq(JobId),
           Distinct(l), Distinct(s), Elements(l) \cap Elements(s) = {}
    PROVE  /\ l \o s \in Seq(JobId)
           /\ Elements(l \o s) = Elements(l) \cup Elements(s)
           /\ Distinct(l \o s)
<1>1. l \o s \in Seq(JobId) /\ Len(l \o s) = Len(l) + Len(s)
  OBVIOUS
<1>2. \A i \in 1..Len(l) : (l \o s)[i] = l[i]
  OBVIOUS
<1>3. \A i \in 1..Len(s) : (l \o s)[Len(l) + i] = s[i]
  OBVIOUS
<1>4. \A i \in DOMAIN (l \o s) :
         \/ i \in 1..Len(l) /\ (l \o s)[i] = l[i]
         \/ i - Len(l) \in 1..Len(s) /\ (l \o s)[i] = s[i - Len(l)]
  BY <1>1
<1>5. Elements(l \o s) = Elements(l) \cup Elements(s)
  <2>1. ASSUME NEW x \in Elements(l \o s) PROVE x \in Elements(l) \cup Elements(s)
    BY <1>4 DEF Elements
  <2>2. ASSUME NEW x \in Elements(l) PROVE x \in Elements(l \o s)
    <3>1. PICK i \in 1..Len(l) : x = l[i]
      BY DEF Elements
    <3>2. i \in DOMAIN (l \o s)
      BY <1>1
    <3> QED
      BY <3>1, <3>2, <1>2 DEF Elements
  <2>3. ASSUME NEW x \in Elements(s) PROVE x \in Elements(l \o s)
    <3>1. PICK i \in 1..Len(s) : x = s[i]
      BY DEF Elements
    <3>2. Len(l) + i \in DOMAIN (l \o s)
      BY <1>1
    <3> QED
      BY <3>1, <3>2, <1>3 DEF Elements
  <2> QED
    BY <2>1, <2>2, <2>3
<1>6. Distinct(l \o s)
  <2> SUFFICES ASSUME NEW m \in DOMAIN (l \o s), NEW n \in DOMAIN (l \o s),
                      (l \o s)[m] = (l \o s)[n]
               PROVE  m = n
    BY DEF Distinct
  <2>1. \A i \in 1..Len(l), j \in 1..Len(s) : l[i] # s[j]
    BY DEF Elements
  <2>2. m \in Nat /\ n \in Nat /\ Len(l) \in Nat
    BY <1>1
  <2> QED
    BY <1>4, <2>1, <2>2 DEF Distinct
<1> QED
  BY <1>1, <1>5, <1>6

\* lpop with a count takes a prefix off the list, and what stays was in it.
LEMMA PopLemma ==
    ASSUME TypeOK, Distinct(list), NEW c \in Consumer,
           NEW remaining, remaining = SubSeq(list, Count(c) + 1, Len(list))
    PROVE  /\ remaining \in Seq(JobId)
           /\ Popped(c) \subseteq Elements(list)
           /\ Elements(remaining) = Elements(list) \ Popped(c)
           /\ Distinct(remaining)
<1> DEFINE n == Count(c)
<1>1. list \in Seq(JobId) /\ Len(list) \in Nat
  BY DEF TypeOK
<1>2. n \in 0..Len(list)
  BY <1>1, NumberAssumption DEF TypeOK, Count
<1> HIDE DEF n
<1>3. remaining \in Seq(JobId) /\ Len(remaining) = Len(list) - n
  BY <1>1, <1>2 DEF n
<1>4. \A i \in 1..Len(remaining) : n + i \in DOMAIN list /\ remaining[i] = list[n + i]
  BY <1>1, <1>2, <1>3 DEF n
<1>5. Popped(c) = {list[i] : i \in 1..n}
  BY DEF Popped, n
<1>6. Popped(c) \subseteq Elements(list)
  BY <1>5, <1>1, <1>2 DEF Elements
<1>7. Elements(remaining) \subseteq Elements(list) \ Popped(c)
  <2> SUFFICES ASSUME NEW i \in 1..Len(remaining), NEW m \in 1..n, remaining[i] = list[m]
               PROVE  FALSE
    BY <1>3, <1>4, <1>5 DEF Elements
  <2>1. n + i \in DOMAIN list /\ list[n + i] = list[m]
    BY <1>4
  <2>2. m \in DOMAIN list
    BY <1>1, <1>2
  <2>3. n + i = m
    BY <2>1, <2>2, Distinct(list) DEF Distinct
  <2> QED
    BY <2>3, <1>2, <1>3
<1>8. Elements(list) \ Popped(c) \subseteq Elements(remaining)
  <2> SUFFICES ASSUME NEW m \in DOMAIN list, m \notin 1..n
               PROVE  list[m] \in Elements(remaining)
    BY <1>5 DEF Elements
  <2>1. m \in 1..Len(list) /\ n \in Nat /\ n < m
    BY <1>1, <1>2
  <2>2. PICK k \in 1..(Len(list) - n) : n + k = m
    <3>1. m - n \in 1..(Len(list) - n) /\ n + (m - n) = m
      BY <2>1, <1>1
    <3> QED
      BY <3>1
  <2>3. remaining[k] = list[m]
    BY <2>2, <1>3, <1>4
  <2>4. k \in DOMAIN remaining
    BY <1>3
  <2> QED
    BY <2>3, <2>4 DEF Elements
<1>9. Distinct(remaining)
  <2> SUFFICES ASSUME NEW i \in DOMAIN remaining, NEW j \in DOMAIN remaining, remaining[i] = remaining[j]
               PROVE  i = j
    BY DEF Distinct
  <2>1. n + i = n + j
    BY <1>3, <1>4, Distinct(list) DEF Distinct
  <2> QED
    BY <2>1, <1>2, <1>3
<1> QED
  BY <1>3, <1>6, <1>7, <1>8, <1>9

-----------------------------------------------------------------------------
\* What dequeue.lua does to the keys.
LEMMA TakeLemma ==
    ASSUME IInv, NEW c \in Consumer, Take(c), drawn' = drawn, requeued' = requeued,
           data' = data
    PROVE  /\ list' \in Seq(JobId) /\ score' \in [JobId -> {Absent} \cup 0..Old]
           /\ sinceTaken' \in [JobId -> 0..Old]
           /\ OnePlace' /\ NoLoss' /\ GhostsWereRequeued' /\ AgeInv'
           /\ Elements(list') = Elements(list) \ Popped(c)
           /\ UnderWay' = UnderWay \cup Popped(c)
           /\ Popped(c) \subseteq Elements(list)
<1>1. TypeOK /\ OnePlace /\ Distinct(list)
  BY DEF IInv, OnePlace
<1>2. /\ list' \in Seq(JobId) /\ Distinct(list') /\ Popped(c) \subseteq Elements(list)
      /\ Elements(list') = Elements(list) \ Popped(c)
  BY <1>1, PopLemma DEF Take
<1>3. age[c] \in 0..MaxLatency /\ age[c] \in 0..Old /\ age[c] # Absent /\ 0 \in 0..Old
  BY <1>1, NumberAssumption DEF TypeOK, Old, Absent
<1>4. /\ score' \in [JobId -> {Absent} \cup 0..Old]
      /\ sinceTaken' \in [JobId -> 0..Old]
  BY <1>1, <1>3 DEF Take, TypeOK
<1>5. Popped(c) \subseteq JobId
  <2>1. list \in Seq(JobId)
    BY <1>1 DEF TypeOK
  <2> QED
    BY <2>1, <1>2 DEF Elements
<1>6. UnderWay' = UnderWay \cup Popped(c)
  BY <1>3, <1>5 DEF Take, UnderWay
<1>7. OnePlace'
  BY <1>1, <1>2, <1>6 DEF OnePlace
<1>8. NoLoss' /\ GhostsWereRequeued'
  BY <1>2, <1>6 DEF IInv, NoLoss, GhostsWereRequeued
<1>9. AgeInv'
  <2> SUFFICES ASSUME NEW j \in UnderWay' PROVE score'[j] <= sinceTaken'[j] + MaxLatency
    BY DEF AgeInv
  <2>1. j \in JobId
    BY DEF UnderWay
  <2>2. CASE j \in Popped(c)
    <3>1. score'[j] = age[c] /\ sinceTaken'[j] = 0
      BY <2>1, <2>2 DEF Take
    <3> QED
      BY <3>1, <1>3, NumberAssumption
  <2>3. CASE j \notin Popped(c)
    BY <2>1, <2>3, <1>6 DEF Take, IInv, AgeInv
  <2> QED
    BY <2>2, <2>3
<1> QED
  BY <1>2, <1>4, <1>6, <1>7, <1>8, <1>9

\* What retry.lua does to the keys.
LEMMA MoveBackLemma ==
    ASSUME IInv, NEW r \in Retrier, NEW ids \in SUBSET JobId, Requeued(r, ids),
           NEW s \in Orders(ids), MoveBack(s),
           data' = data, drawn' = drawn, got' = got, sinceTaken' = sinceTaken
    PROVE  /\ list' \in Seq(JobId) /\ score' \in [JobId -> {Absent} \cup 0..Old]
           /\ requeued' \subseteq JobId
           /\ OnePlace' /\ NoLoss' /\ GhostsWereRequeued'
           /\ DrawnInv' /\ GotInv' /\ AgeInv'
<1>1. TypeOK /\ OnePlace /\ Distinct(list) /\ list \in Seq(JobId)
  BY DEF IInv, OnePlace, TypeOK
<1>2. s \in Seq(JobId) /\ Elements(s) = ids /\ Distinct(s)
  BY OrderType
<1>3. ids \subseteq UnderWay
  BY DEF Requeued, Due
<1>4. Elements(list) \cap ids = {}
  BY <1>1, <1>3 DEF OnePlace
<1>5. /\ list' \in Seq(JobId) /\ Distinct(list')
      /\ Elements(list') = Elements(list) \cup ids
  BY <1>1, <1>2, <1>4, PushLemma DEF MoveBack
<1>6. score' \in [JobId -> {Absent} \cup 0..Old]
  BY <1>1 DEF MoveBack, TypeOK
<1>7. UnderWay' = UnderWay \ ids
  BY <1>2 DEF MoveBack, UnderWay
<1>8. requeued' = requeued \cup (ids \cap data)
  BY <1>2 DEF MoveBack
<1>9. OnePlace' /\ NoLoss'
  BY <1>1, <1>5, <1>7 DEF IInv, OnePlace, NoLoss
<1>10. GhostsWereRequeued'
  BY <1>3, <1>5, <1>7, <1>8 DEF IInv, GhostsWereRequeued
<1>11. DrawnInv'
  BY <1>3, <1>5, <1>7 DEF IInv, DrawnInv
<1>12. GotInv'
  BY <1>3, <1>5, <1>8 DEF IInv, GotInv, GhostsWereRequeued
<1>13. AgeInv'
  BY <1>2, <1>7 DEF IInv, AgeInv, MoveBack, UnderWay
<1>14. requeued' \subseteq JobId
  BY <1>1, <1>8 DEF TypeOK
<1> QED
  BY <1>5, <1>6, <1>9, <1>10, <1>11, <1>12, <1>13, <1>14
-----------------------------------------------------------------------------
LEMMA InitInv == Init => IInv
<1> SUFFICES ASSUME Init PROVE IInv
  OBVIOUS
<1>1. 0 \in 0..Old /\ 0 \in 0..MaxLatency
  BY NumberAssumption DEF Old
<1>2. Elements(list) = {} /\ UnderWay = {}
  BY DEF Init, Elements, UnderWay
<1>3. TypeOK
  BY <1>1 DEF Init, TypeOK
<1> QED
  BY <1>2, <1>3 DEF Init, IInv, OnePlace, Distinct, NoLoss, GhostsWereRequeued,
                    DrawnInv, GotInv, AgeInv

\* A step of a client that leaves the keys and the history alone, and is given
\* nothing it was not given before.
LEMMA ClientStep ==
    ASSUME IInv, TypeOK', UNCHANGED <<redisVars, history>>,
           \A c \in Consumer : got'[c] \subseteq got[c]
    PROVE  IInv'
<1>1. Elements(list)' = Elements(list) /\ UnderWay' = UnderWay
  BY DEF redisVars, Elements, UnderWay
<1>2. OnePlace' /\ NoLoss' /\ GhostsWereRequeued' /\ AgeInv'
  BY <1>1 DEF IInv, redisVars, history, OnePlace, Distinct, NoLoss,
              GhostsWereRequeued, AgeInv
<1>3. DrawnInv' /\ GotInv'
  BY <1>1 DEF IInv, redisVars, history, DrawnInv, GotInv
<1> QED
  BY <1>2, <1>3 DEF IInv

LEMMA EnqueueStep ==
    ASSUME IInv, NEW S \in NextBatch, NEW s \in Orders(S), Enqueue(s)
    PROVE  IInv'
<1>1. TypeOK /\ Distinct(list) /\ list \in Seq(JobId)
  BY DEF IInv, OnePlace, TypeOK
<1>2. S \subseteq JobId /\ S \cap drawn = {}
  BY DEF NextBatch
<1>3. s \in Seq(JobId) /\ Elements(s) = S /\ Distinct(s)
  BY <1>2, OrderType
<1>4. Elements(list) \cap S = {} /\ UnderWay \cap S = {}
  BY <1>2 DEF IInv, DrawnInv
<1>5. /\ list' \in Seq(JobId) /\ Distinct(list')
      /\ Elements(list') = Elements(list) \cup S
  BY <1>1, <1>3, <1>4, PushLemma DEF Enqueue
<1>6. UnderWay' = UnderWay /\ data' = data \cup S /\ drawn' = drawn \cup S
      /\ requeued' = requeued /\ got' = got
  BY <1>3 DEF Enqueue, UnderWay, consumerVars
<1>7. TypeOK'
  BY <1>1, <1>2, <1>5, <1>6 DEF Enqueue, TypeOK, consumerVars, retryVars
<1>8. OnePlace' /\ NoLoss' /\ GhostsWereRequeued'
  BY <1>4, <1>5, <1>6 DEF IInv, OnePlace, NoLoss, GhostsWereRequeued
<1>9. DrawnInv'
  BY <1>5, <1>6 DEF IInv, DrawnInv
<1>10. GotInv'
  BY <1>2, <1>5, <1>6 DEF IInv, DrawnInv, GotInv
<1>11. AgeInv'
  BY <1>6 DEF IInv, AgeInv, Enqueue
<1> QED
  BY <1>7, <1>8, <1>9, <1>10, <1>11 DEF IInv

\* Dequeued, NothingDequeued, and a reply that is lost: the script ran, and the
\* consumer was given jobs, which are among the popped ones.
LEMMA DequeueStep ==
    ASSUME IInv, NEW c \in Consumer, Take(c), NEW jobs, jobs \subseteq Jobs(c),
           NEW place \in {"idle", "waiting", "processing"}, Settle(c, place, jobs),
           UNCHANGED <<data, retryVars, drawn, requeued>>
    PROVE  IInv'
<1>1. TypeOK
  BY DEF IInv
<1>2. /\ list' \in Seq(JobId) /\ score' \in [JobId -> {Absent} \cup 0..Old]
      /\ sinceTaken' \in [JobId -> 0..Old]
      /\ OnePlace' /\ NoLoss' /\ GhostsWereRequeued' /\ AgeInv'
      /\ Elements(list') = Elements(list) \ Popped(c)
      /\ UnderWay' = UnderWay \cup Popped(c)
      /\ Popped(c) \subseteq Elements(list)
  BY TakeLemma
<1>3. jobs \subseteq JobId /\ jobs \subseteq Popped(c)
  BY <1>1 DEF Jobs, TypeOK
<1>4. 0 \in 0..MaxLatency
  BY NumberAssumption
<1>5. TypeOK'
  BY <1>1, <1>2, <1>3, <1>4 DEF TypeOK, Settle, retryVars
<1>6. \A d \in Consumer : got'[d] = IF d = c THEN jobs ELSE got[d]
  BY <1>1 DEF Settle, TypeOK
<1>7. DrawnInv'
  <2>1. Elements(list') \cup UnderWay' \cup data' \subseteq drawn'
    BY <1>2 DEF IInv, DrawnInv
  <2>2. \A d \in Consumer : got'[d] \subseteq drawn'
    BY <1>2, <1>3, <1>6 DEF IInv, DrawnInv
  <2> QED
    BY <2>1, <2>2 DEF DrawnInv
<1>8. GotInv'
  BY <1>2, <1>3, <1>6 DEF IInv, GotInv
<1> QED
  BY <1>2, <1>5, <1>7, <1>8 DEF IInv

LEMMA AcknowledgeStep ==
    ASSUME IInv, NEW c \in Consumer, NEW jobs \in SUBSET got[c], Acknowledge(c, jobs)
    PROVE  IInv'
<1>1. TypeOK
  BY DEF IInv
<1>2. TypeOK'
  BY <1>1 DEF TypeOK, Acknowledge, retryVars, history
<1>3. /\ list' = list /\ data' = data \ jobs /\ drawn' = drawn /\ requeued' = requeued
      /\ sinceTaken' = sinceTaken
  BY DEF Acknowledge, history
<1>4. UnderWay' = UnderWay \ jobs
  BY DEF Acknowledge, UnderWay
<1>5. \A d \in Consumer : got'[d] \subseteq got[d]
  BY <1>1 DEF Acknowledge, TypeOK
<1>6. OnePlace' /\ NoLoss'
  BY <1>3, <1>4 DEF IInv, OnePlace, NoLoss
<1>7. GhostsWereRequeued'
  BY <1>3, <1>4 DEF IInv, GhostsWereRequeued, GotInv
<1>8. DrawnInv' /\ GotInv'
  BY <1>3, <1>4, <1>5 DEF IInv, DrawnInv, GotInv
<1>9. AgeInv'
  BY <1>3, <1>4 DEF IInv, AgeInv, Acknowledge, UnderWay
<1> QED
  BY <1>2, <1>6, <1>7, <1>8, <1>9 DEF IInv

LEMMA FailStep ==
    ASSUME IInv, NEW c \in Consumer, Fail(c)
    PROVE  IInv'
<1>1. Settle(c, "idle", {}) /\ UNCHANGED <<data, retryVars, drawn, requeued>>
  BY DEF Fail
<1>2. CASE Take(c)
  BY <1>1, <1>2, DequeueStep
<1>3. CASE UNCHANGED <<list, score, sinceTaken>>
  <2>1. TypeOK'
    BY <1>1, <1>3, NumberAssumption DEF IInv, TypeOK, Settle, retryVars
  <2>2. \A d \in Consumer : got'[d] \subseteq got[d]
    BY <1>1 DEF IInv, TypeOK, Settle
  <2> QED
    BY <1>1, <1>3, <2>1, <2>2, ClientStep DEF redisVars, history
<1> QED
  BY <1>2, <1>3 DEF Fail

LEMMA RetryStep ==
    ASSUME IInv, NEW r \in Retrier, RetryRuns(r) \/ RetryFails(r)
    PROVE  IInv'
<1>1. TypeOK /\ 0 \in 0..MaxLatency
  BY NumberAssumption DEF IInv
<1>2. /\ rage' = [rage EXCEPT ![r] = 0]
      /\ UNCHANGED <<data, consumerVars, drawn, sinceTaken>>
  BY DEF RetryRuns, RetryFails
<1>3. rpc' \in [Retrier -> {"idle", "retrying", "ended"}]
  BY <1>1 DEF TypeOK, RetryRuns, RetryFails
<1>4. CASE UNCHANGED <<list, score, requeued>>
  <2>1. TypeOK'
    BY <1>1, <1>2, <1>3, <1>4 DEF TypeOK, consumerVars
  <2> QED
    BY <1>2, <1>4, <2>1, ClientStep DEF redisVars, history, consumerVars
<1>5. ASSUME NEW ids \in SUBSET JobId, Requeued(r, ids), NEW s \in Orders(ids), MoveBack(s)
      PROVE  IInv'
  <2>1. /\ list' \in Seq(JobId) /\ score' \in [JobId -> {Absent} \cup 0..Old]
        /\ requeued' \subseteq JobId
        /\ OnePlace' /\ NoLoss' /\ GhostsWereRequeued'
        /\ DrawnInv' /\ GotInv' /\ AgeInv'
    BY <1>2, <1>5, MoveBackLemma DEF consumerVars
  <2>2. TypeOK'
    BY <1>1, <1>2, <1>3, <2>1 DEF TypeOK, consumerVars
  <2> QED
    BY <2>1, <2>2 DEF IInv
<1> QED
  BY <1>4, <1>5 DEF RetryRuns, RetryFails

LEMMA TickStep == ASSUME IInv, Tick PROVE IInv'
<1>1. TypeOK
  BY DEF IInv
<1>2. \A t \in 0..Old : Older(t) \in 0..Old
  BY NumberAssumption DEF Older, Old
<1>3. score' \in [JobId -> {Absent} \cup 0..Old] /\ sinceTaken' \in [JobId -> 0..Old]
  BY <1>1, <1>2 DEF Tick, TypeOK
<1>4. age' \in [Consumer -> 0..MaxLatency] /\ rage' \in [Retrier -> 0..MaxLatency]
  BY <1>1, NumberAssumption DEF Tick, TypeOK
<1>5. TypeOK'
  BY <1>1, <1>3, <1>4 DEF Tick, TypeOK
<1>6. \A t \in 0..Old : Older(t) # Absent
  BY <1>2, NumberAssumption DEF Old, Absent
<1>7. UnderWay' = UnderWay
  BY <1>1, <1>6 DEF Tick, TypeOK, UnderWay
<1>8. Elements(list)' = Elements(list) /\ UNCHANGED <<list, data, got, drawn, requeued>>
  BY DEF Tick, Elements
<1>9. OnePlace' /\ NoLoss' /\ GhostsWereRequeued' /\ DrawnInv' /\ GotInv'
  BY <1>7, <1>8 DEF IInv, OnePlace, Distinct, NoLoss, GhostsWereRequeued, DrawnInv, GotInv
<1>10. AgeInv'
  <2> SUFFICES ASSUME NEW j \in UnderWay' PROVE score'[j] <= sinceTaken'[j] + MaxLatency
    BY DEF AgeInv
  <2>1. j \in JobId /\ j \in UnderWay /\ score[j] # Absent
    BY <1>7 DEF UnderWay
  <2>2. score'[j] = Older(score[j]) /\ sinceTaken'[j] = Older(sinceTaken[j])
    BY <2>1 DEF Tick
  <2>3. score[j] \in 0..Old /\ sinceTaken[j] \in 0..Old
    BY <1>1, <2>1 DEF TypeOK
  <2>4. score[j] <= sinceTaken[j] + MaxLatency
    BY <2>1 DEF IInv, AgeInv
  <2> QED
    BY <2>2, <2>3, <2>4, NumberAssumption DEF Older, Old
<1> QED
  BY <1>5, <1>9, <1>10 DEF IInv
-----------------------------------------------------------------------------
\* IInv is inductive.
LEMMA Step == IInv /\ [Next]_vars => IInv'
<1> SUFFICES ASSUME IInv, [Next]_vars PROVE IInv'
  OBVIOUS
<1>1. TypeOK /\ 0 \in 0..MaxLatency
  BY NumberAssumption DEF IInv
<1>2. ASSUME NEW S \in NextBatch, NEW s \in Orders(S), Enqueue(s) PROVE IInv'
  BY <1>2, EnqueueStep
<1>3. ASSUME NEW c \in Consumer, NEW n \in {1, BatchSize}, Dequeue(c, n) PROVE IInv'
  <2>1. TypeOK' /\ got' = got
    BY <1>1, <1>3 DEF TypeOK, Dequeue, redisVars, retryVars, history
  <2> QED
    BY <1>3, <2>1, ClientStep DEF Dequeue
<1>4. ASSUME NEW c \in Consumer, Dequeued(c) PROVE IInv'
  BY <1>4, DequeueStep DEF Dequeued
<1>5. ASSUME NEW c \in Consumer, NothingDequeued(c) PROVE IInv'
  BY <1>5, DequeueStep DEF NothingDequeued
<1>6. ASSUME NEW c \in Consumer, PollAgain(c) \/ Stop(c) PROVE IInv'
  <2>1. TypeOK' /\ got' = got
    BY <1>1, <1>6 DEF TypeOK, PollAgain, Stop, redisVars, retryVars, history
  <2> QED
    BY <1>6, <2>1, ClientStep DEF PollAgain, Stop
<1>7. ASSUME NEW c \in Consumer, NEW jobs \in SUBSET got[c], Acknowledge(c, jobs) PROVE IInv'
  BY <1>7, AcknowledgeStep
<1>8. ASSUME NEW c \in Consumer, Fail(c) PROVE IInv'
  BY <1>8, FailStep
<1>9. ASSUME NEW r \in Retrier, Retry(r) PROVE IInv'
  <2>1. TypeOK' /\ got' = got
    BY <1>1, <1>9 DEF TypeOK, Retry, redisVars, consumerVars, history
  <2> QED
    BY <1>9, <2>1, ClientStep DEF Retry
<1>10. ASSUME NEW r \in Retrier, RetryRuns(r) \/ RetryFails(r) PROVE IInv'
  BY <1>10, RetryStep
<1>11. CASE Tick
  BY <1>11, TickStep
<1>12. CASE UNCHANGED vars
  <2>1. TypeOK' /\ got' = got
    BY <1>1, <1>12 DEF TypeOK, vars, redisVars, consumerVars, retryVars, history
  <2> QED
    BY <1>12, <2>1, ClientStep DEF vars
<1> QED
  BY <1>2, <1>3, <1>4, <1>5, <1>6, <1>7, <1>8, <1>9, <1>10, <1>11, <1>12 DEF Next

\* The invariant in every behaviour.
THEOREM Invariant == Spec => []IInv
<1> QED
  BY InitInv, Step, PTL DEF Spec

\* Type correctness.
THEOREM TypeCorrect == Spec => []TypeOK
<1>1. IInv => TypeOK
  BY DEF IInv
<1> QED
  BY <1>1, Invariant, PTL

\* dequeue.lua and retry.lua, however they interleave, never make one job into two:
\* an id is in one place, once.
THEOREM JobsAreInOnePlace == Spec => []OnePlace
<1>1. IInv => OnePlace
  BY DEF IInv
<1> QED
  BY <1>1, Invariant, PTL

\* No stored job is lost by the queue, whichever replies and consumers fail: it is in
\* the list or where the retry loop looks for it.
THEOREM NoJobIsLost == Spec => []NoLoss
<1>1. IInv => NoLoss
  BY DEF IInv
<1> QED
  BY <1>1, Invariant, PTL

\* Ids without a job come only from an acknowledgement after a requeue.
THEOREM GhostsComeLate == Spec => []GhostsWereRequeued
<1>1. IInv => GhostsWereRequeued
  BY DEF IInv
<1> QED
  BY <1>1, Invariant, PTL

\* retryAll() requeues no job sooner than RetryAfter less a command's latency after
\* it was taken.
THEOREM RequeuesAreSpaced == Spec => RequeueSpacing
<1> DEFINE Late(j) == sinceTaken[j] >= RetryAfter - MaxLatency
           StepOK == \A j \in UnderWay : j \in Elements(list') => Late(j)
<1>1. IInv /\ [Next]_vars => [StepOK]_vars
  <2> SUFFICES ASSUME IInv, Next, NEW j \in UnderWay, j \in Elements(list') PROVE Late(j)
    OBVIOUS
  <2>1. j \in JobId /\ j \notin Elements(list) /\ j \in drawn
    BY DEF UnderWay, IInv, OnePlace, DrawnInv
  <2>2. TypeOK /\ list \in Seq(JobId) /\ Distinct(list)
    BY DEF IInv, TypeOK, OnePlace
  <2>3. list' # list
    BY <2>1
  <2>4. ASSUME NEW S \in NextBatch, NEW s \in Orders(S), Enqueue(s) PROVE FALSE
    <3>1. S \subseteq JobId /\ j \notin S /\ Elements(list) \cap S = {}
      BY <2>1 DEF NextBatch, IInv, DrawnInv
    <3>2. s \in Seq(JobId) /\ Elements(s) = S /\ Distinct(s)
      BY <3>1, OrderType
    <3>3. Elements(list') = Elements(list) \cup S
      BY <2>2, <2>4, <3>1, <3>2, PushLemma DEF Enqueue
    <3> QED
      BY <2>1, <3>1, <3>3
  <2>5. ASSUME NEW c \in Consumer, Take(c) PROVE FALSE
    BY <2>1, <2>2, <2>5, PopLemma DEF Take
  <2>6. ASSUME NEW r \in Retrier, NEW ids \in SUBSET JobId, Requeued(r, ids),
               NEW s \in Orders(ids), MoveBack(s)
        PROVE  Late(j)
    <3>1. s \in Seq(JobId) /\ Elements(s) = ids /\ Distinct(s)
      BY OrderType
    <3>2. ids \subseteq UnderWay /\ Elements(list) \cap ids = {}
      BY <2>6 DEF Requeued, Due, IInv, OnePlace
    <3>3. Elements(list') = Elements(list) \cup ids
      BY <2>2, <2>6, <3>1, <3>2, PushLemma DEF MoveBack
    <3>4. score[j] >= rage[r] + RetryAfter
      BY <2>1, <2>6, <3>3 DEF Requeued, Due
    <3>5. score[j] <= sinceTaken[j] + MaxLatency
      BY DEF IInv, AgeInv
    <3>6. score[j] \in Int /\ sinceTaken[j] \in Int /\ rage[r] \in Nat
      BY <2>1, <2>2, NumberAssumption DEF TypeOK, Old, Absent
    <3> QED
      BY <3>4, <3>5, <3>6, NumberAssumption
  <2> QED
    BY <2>3, <2>4, <2>5, <2>6
       DEF Next, Dequeue, Dequeued, NothingDequeued, PollAgain, Acknowledge, Stop, Fail,
           Retry, RetryRuns, RetryFails, Tick, redisVars
<1>2. [StepOK]_vars => [\A j \in UnderWay : j \in Elements(list') =>
                           sinceTaken[j] >= RetryAfter - MaxLatency]_vars
  OBVIOUS
<1> QED
  BY <1>1, <1>2, Invariant, PTL DEF Spec, RequeueSpacing

\* No job is in two places, none is lost, and ids without a job come late.
THEOREM KeysAlwaysAgree == Spec => []KeysAgree
BY JobsAreInOnePlace, NoJobIsLost, GhostsComeLate, PTL DEF KeysAgree

-----------------------------------------------------------------------------
(* The queue in MongoDB.                                                     *)

USE MongoParameters, NumberAssumption
USE DEF Mongo!jobVars, Mongo!consumerVars, Mongo!history, Mongo!Never

\* A behaviour of the queue in MongoDB is one of MongoQueue.
LEMMA MongoAlone == MongoSpec => Mongo!Spec
<1>1. [Mongo!Next /\ UNCHANGED vars]_queueVars => [Mongo!Next]_Mongo!vars
  BY DEF queueVars, mongoVars, Mongo!vars
<1> QED
  BY <1>1, PTL DEF MongoSpec, MCInit, Mongo!Spec

\* Every state the queue starts in satisfies the inductive invariant.
LEMMA MongoInitInv ==
    Mongo!Init => Mongo!IInv
  BY DEF Mongo!Init, Mongo!IInv, Mongo!TypeOK, Mongo!BatchInv, Mongo!LatencyInv,
         Mongo!ReceivedInv, Mongo!UnderWay,
         Mongo!DeliveriesBounded, Mongo!NoLoss, Mongo!Drawn

\* Every step keeps the types of the variables.
LEMMA MongoTypeStep ==
    Mongo!TypeOK /\ [Mongo!Next]_Mongo!vars => Mongo!TypeOK'
<1> SUFFICES ASSUME Mongo!TypeOK, [Mongo!Next]_Mongo!vars PROVE Mongo!TypeOK'
  OBVIOUS
<1> USE DEF Mongo!TypeOK
<1>1. CASE UNCHANGED Mongo!vars
  BY <1>1 DEF Mongo!vars
<1>2. CASE Mongo!Tick
  BY <1>2 DEF Mongo!Tick
<1>3. ASSUME NEW j \in JobId, Mongo!Enqueue(j) PROVE Mongo!TypeOK'
  BY <1>3 DEF Mongo!Enqueue, Mongo!Drawn
<1>4. ASSUME NEW old \in JobId, NEW new \in JobId, Mongo!TakeNew(old, new) PROVE Mongo!TypeOK'
  BY <1>4 DEF Mongo!TakeNew, Mongo!Drawn
<1>5. ASSUME NEW jobs \in SUBSET stored, Mongo!Drop(jobs) PROVE Mongo!TypeOK'
  BY <1>5 DEF Mongo!Drop
<1>6. ASSUME NEW c \in Consumer, Mongo!Dequeue(c) PROVE Mongo!TypeOK'
  BY <1>6 DEF Mongo!Dequeue
<1>7. ASSUME NEW c \in Consumer, Mongo!Found(c) PROVE Mongo!TypeOK'
  BY <1>7 DEF Mongo!Found, Mongo!Mark, Mongo!Give, Mongo!First, Mongo!Visible
<1>8. ASSUME NEW c \in Consumer, Mongo!NotFound(c) PROVE Mongo!TypeOK'
  BY <1>8 DEF Mongo!NotFound
<1>9. ASSUME NEW c \in Consumer, NEW b \in Batch, Mongo!DequeueMany(c, b) PROVE Mongo!TypeOK'
  BY <1>9 DEF Mongo!DequeueMany
<1>10. ASSUME NEW c \in Consumer, Mongo!MarkOne(c) PROVE Mongo!TypeOK'
  BY <1>10 DEF Mongo!MarkOne, Mongo!Mark, Mongo!Visible
<1>11. ASSUME NEW c \in Consumer, Mongo!LoadBatch(c) PROVE Mongo!TypeOK'
  BY <1>11 DEF Mongo!LoadBatch, Mongo!Give
<1>12. ASSUME NEW c \in Consumer, NEW jobs \in SUBSET given[c], Mongo!Acknowledge(c, jobs)
       PROVE  Mongo!TypeOK'
  BY <1>12 DEF Mongo!Acknowledge
<1>13. ASSUME NEW c \in Consumer, Mongo!PollAgain(c) PROVE Mongo!TypeOK'
  BY <1>13 DEF Mongo!PollAgain
<1>14. ASSUME NEW c \in Consumer, Mongo!Stop(c) PROVE Mongo!TypeOK'
  BY <1>14 DEF Mongo!Stop
<1>15. ASSUME NEW c \in Consumer, Mongo!Fail(c) PROVE Mongo!TypeOK'
  <2>1. CASE UNCHANGED <<tries, last, batch, markedAt, marker>>
    BY <1>15, <2>1 DEF Mongo!Fail
  <2>0. /\ at' = [at EXCEPT ![c] = "idle"]
        /\ asked' = [asked EXCEPT ![c] = 0]
        /\ token' = [token EXCEPT ![c] = NoBatch]
        /\ rest' = [rest EXCEPT ![c] = 0]
        /\ given' = [given EXCEPT ![c] = {}]
        /\ UNCHANGED <<now, stored, enqueued, used, delivered, dropped>>
    BY <1>15 DEF Mongo!Fail
  <2>2. ASSUME at[c] = "dequeuing", NEW j \in JobId, tries[j] < MaxTries,
               Mongo!Mark(c, j, NoBatch)
        PROVE  Mongo!TypeOK'
    BY <2>0, <2>2 DEF Mongo!Mark
  <2> QED
    BY <1>15, <2>1, <2>2 DEF Mongo!Fail, Mongo!First, Mongo!Visible
<1> QED
  BY <1>1, <1>2, <1>3, <1>4, <1>5, <1>6, <1>7, <1>8, <1>9, <1>10, <1>11, <1>12, <1>13,
     <1>14, <1>15
     DEF Mongo!Next, Mongo!Consume, Mongo!Cancel, Mongo!CancelByTag

\* Every step preserves the inductive invariant.
LEMMA MongoInvStep ==
    Mongo!IInv /\ [Mongo!Next]_Mongo!vars => Mongo!IInv'
<1> SUFFICES ASSUME Mongo!IInv, [Mongo!Next]_Mongo!vars PROVE Mongo!IInv'
  OBVIOUS
<1>0. Mongo!TypeOK'
  BY MongoTypeStep DEF Mongo!IInv
<1> DEFINE Rest == /\ Mongo!BatchInv /\ Mongo!LatencyInv /\ Mongo!ReceivedInv
                   /\ Mongo!DeliveriesBounded /\ Mongo!NoLoss
<1> USE <1>0 DEF Mongo!IInv, Mongo!TypeOK, Mongo!BatchInv, Mongo!LatencyInv,
                 Mongo!ReceivedInv, Mongo!UnderWay,
        Mongo!DeliveriesBounded, Mongo!NoLoss, Mongo!Drawn
<1>1. CASE UNCHANGED Mongo!vars
  BY <1>1 DEF Mongo!vars
<1>2. CASE Mongo!Tick
  BY <1>2 DEF Mongo!Tick
<1>3. ASSUME NEW j \in JobId, Mongo!Enqueue(j) PROVE Rest'
  BY <1>3 DEF Mongo!Enqueue, Mongo!Drawn
<1>4. ASSUME NEW old \in JobId, NEW new \in JobId, Mongo!TakeNew(old, new) PROVE Rest'
  BY <1>4 DEF Mongo!TakeNew, Mongo!Drawn
<1>5. ASSUME NEW jobs \in SUBSET stored, Mongo!Drop(jobs) PROVE Rest'
  BY <1>5 DEF Mongo!Drop
<1>6. ASSUME NEW c \in Consumer, Mongo!Dequeue(c) PROVE Rest'
  BY <1>6 DEF Mongo!Dequeue
<1>7. ASSUME NEW c \in Consumer, Mongo!Found(c) PROVE Rest'
  BY <1>7 DEF Mongo!Found, Mongo!Mark, Mongo!Give, Mongo!First, Mongo!Visible
<1>8. ASSUME NEW c \in Consumer, Mongo!NotFound(c) PROVE Rest'
  BY <1>8 DEF Mongo!NotFound
<1>9. ASSUME NEW c \in Consumer, NEW b \in Batch, Mongo!DequeueMany(c, b) PROVE Rest'
  BY <1>9 DEF Mongo!DequeueMany
<1>10. ASSUME NEW c \in Consumer, Mongo!MarkOne(c) PROVE Rest'
  <2>1. CASE UNCHANGED <<tries, last, batch, markedAt, marker>>
    BY <1>10, <2>1 DEF Mongo!MarkOne
  <2>0. /\ at[c] = "marking" /\ rest[c] > 0
        /\ rest' = [rest EXCEPT ![c] = rest[c] - 1]
        /\ UNCHANGED <<now, stored, enqueued, at, asked, token, given, used,
                       delivered, dropped>>
    BY <1>10 DEF Mongo!MarkOne
  <2>2. ASSUME NEW j \in JobId, tries[j] < MaxTries, Mongo!Mark(c, j, token[c])
        PROVE  Rest'
    BY <2>0, <2>2 DEF Mongo!Mark
  <2> QED
    BY <1>10, <2>1, <2>2 DEF Mongo!MarkOne, Mongo!Visible
<1>11. ASSUME NEW c \in Consumer, Mongo!LoadBatch(c) PROVE Rest'
  BY <1>11 DEF Mongo!LoadBatch, Mongo!Give
<1>12. ASSUME NEW c \in Consumer, NEW jobs \in SUBSET given[c], Mongo!Acknowledge(c, jobs)
       PROVE  Rest'
  BY <1>12 DEF Mongo!Acknowledge
<1>13. ASSUME NEW c \in Consumer, Mongo!PollAgain(c) PROVE Rest'
  BY <1>13 DEF Mongo!PollAgain
<1>14. ASSUME NEW c \in Consumer, Mongo!Stop(c) PROVE Rest'
  BY <1>14 DEF Mongo!Stop
<1>15. ASSUME NEW c \in Consumer, Mongo!Fail(c) PROVE Rest'
  <2>1. CASE UNCHANGED <<tries, last, batch, markedAt, marker>>
    BY <1>15, <2>1 DEF Mongo!Fail
  <2>0. /\ at' = [at EXCEPT ![c] = "idle"]
        /\ asked' = [asked EXCEPT ![c] = 0]
        /\ token' = [token EXCEPT ![c] = NoBatch]
        /\ rest' = [rest EXCEPT ![c] = 0]
        /\ given' = [given EXCEPT ![c] = {}]
        /\ UNCHANGED <<now, stored, enqueued, used, delivered, dropped>>
    BY <1>15 DEF Mongo!Fail
  <2>2. ASSUME at[c] = "dequeuing", NEW j \in JobId, tries[j] < MaxTries,
               Mongo!Mark(c, j, NoBatch)
        PROVE  Rest'
    BY <2>0, <2>2 DEF Mongo!Mark
  <2> QED
    BY <1>15, <2>1, <2>2 DEF Mongo!Fail, Mongo!First, Mongo!Visible
<1> QED
  BY <1>0, <1>1, <1>2, <1>3, <1>4, <1>5, <1>6, <1>7, <1>8, <1>9, <1>10, <1>11, <1>12,
     <1>13, <1>14, <1>15
     DEF Mongo!Next, Mongo!Consume, Mongo!Cancel, Mongo!CancelByTag

\* The inductive invariant holds throughout every run.
THEOREM MongoInvariance ==
    MongoSpec => []Mongo!IInv
<1>1. Mongo!IInv /\ [Mongo!Next]_Mongo!vars => Mongo!IInv'
  BY MongoInvStep
<1> QED
  BY MongoAlone, MongoInitInv, <1>1, PTL DEF Mongo!Spec

\* Every variable keeps its type.
THEOREM MongoTypeCorrect ==
    MongoSpec => []Mongo!TypeOK
<1>1. Mongo!IInv => Mongo!TypeOK
  BY DEF Mongo!IInv
<1> QED
  BY MongoInvariance, <1>1, PTL

\* No job is delivered more often than maxTries.
THEOREM BoundedDelivery ==
    MongoSpec => []Mongo!DeliveriesBounded
<1>1. Mongo!IInv => Mongo!DeliveriesBounded
  BY DEF Mongo!IInv
<1> QED
  BY MongoInvariance, <1>1, PTL

\* Every job is delivered at least once unless it is taken back.
THEOREM AtLeastOnce ==
    MongoSpec => []JobsAreKept
<1>1. Mongo!IInv => JobsAreKept
  BY DEF Mongo!IInv, JobsAreKept
<1> QED
  BY MongoInvariance, <1>1, PTL
\* Two marks of a job are ProcessTimeout apart less the latency: the filter
\* compares with the time the job bears, which LatencyInv relates to the mark.
THEOREM MarksAreSpaced ==
    MongoSpec => RedeliverySpacing
<1>1. ASSUME Mongo!IInv, [Mongo!Next]_Mongo!vars, NEW j \in JobId, tries'[j] > tries[j],
             markedAt[j] # Mongo!Never
      PROVE  markedAt'[j] >= markedAt[j] + ProcessTimeout - MaxLatency
  <2>1. \E c \in Consumer : \E b :
           /\ Mongo!Mark(c, j, b) /\ Mongo!UnderWay(c)
           /\ last[j] <= asked[c] - ProcessTimeout
    <3> USE <1>1 DEF Mongo!IInv, Mongo!TypeOK
    <3>1. ASSUME NEW c \in Consumer,
                 Mongo!Found(c) \/ Mongo!MarkOne(c) \/ Mongo!Fail(c)
          PROVE  \E b : /\ Mongo!Mark(c, j, b) /\ Mongo!UnderWay(c)
                        /\ last[j] <= asked[c] - ProcessTimeout
      <4>1. \E i \in JobId : \E b :
               /\ Mongo!Mark(c, i, b) /\ Mongo!UnderWay(c)
               /\ last[i] <= asked[c] - ProcessTimeout
        <5>1. CASE Mongo!Found(c)
          BY <5>1 DEF Mongo!Found, Mongo!First, Mongo!Visible, Mongo!UnderWay
        <5>2. CASE Mongo!MarkOne(c)
          BY <5>2 DEF Mongo!MarkOne, Mongo!Visible, Mongo!UnderWay
        <5>3. CASE Mongo!Fail(c)
          BY <5>3 DEF Mongo!Fail, Mongo!First, Mongo!Visible, Mongo!UnderWay
        <5> QED
          BY <3>1, <5>1, <5>2, <5>3
      <4>2. ASSUME NEW i \in JobId, NEW b, Mongo!Mark(c, i, b) PROVE i = j
        BY <4>2 DEF Mongo!Mark
      <4> QED
        BY <4>1, <4>2
    <3>2. ASSUME ~\E c \in Consumer : Mongo!Found(c) \/ Mongo!MarkOne(c) \/ Mongo!Fail(c)
          PROVE  tries' = tries
      BY <3>2 DEF Mongo!Next, Mongo!Consume, Mongo!Enqueue, Mongo!Cancel,
                  Mongo!CancelByTag, Mongo!Drop, Mongo!TakeNew,
                  Mongo!Dequeue, Mongo!NotFound, Mongo!DequeueMany, Mongo!LoadBatch, Mongo!Acknowledge,
                  Mongo!PollAgain, Mongo!Stop, Mongo!Tick, Mongo!vars
    <3> QED
      BY <3>1, <3>2
  <2> QED
    BY <1>1, <2>1 DEF Mongo!IInv, Mongo!TypeOK, Mongo!LatencyInv, Mongo!Mark
<1>2. Mongo!IInv /\ [Mongo!Next]_Mongo!vars
        => [\A j \in JobId : tries'[j] > tries[j] /\ markedAt[j] # Mongo!Never =>
               markedAt'[j] >= markedAt[j] + ProcessTimeout - MaxLatency]_Mongo!vars
  BY <1>1
<1> QED
  BY MongoInvariance, <1>2, MongoAlone, PTL DEF Mongo!Spec, RedeliverySpacing, Mongo!RedeliverySpacing

\* A job is returned only to the consumer that marked it last: the batch id is
\* the consumer's own until the batch is loaded (BatchInv).
THEOREM RecipientIsMarker ==
    MongoSpec => RecipientMarkedLast
<1>1. ASSUME Mongo!IInv, [Mongo!Next]_Mongo!vars, NEW c \in Consumer, NEW j \in given'[c] \ given[c]
      PROVE  marker'[j] = {c}
  <2> USE <1>1 DEF Mongo!IInv, Mongo!TypeOK
  <2>1. ASSUME NEW d \in Consumer, Mongo!Found(d) PROVE marker'[j] = {c}
    BY <2>1 DEF Mongo!Found, Mongo!First, Mongo!Visible, Mongo!Mark, Mongo!Give
  <2>2. ASSUME NEW d \in Consumer, Mongo!LoadBatch(d) PROVE marker'[j] = {c}
    BY <2>2 DEF Mongo!LoadBatch, Mongo!Give, Mongo!BatchInv
  <2>3. ASSUME ~\E d \in Consumer : Mongo!Found(d) \/ Mongo!LoadBatch(d) PROVE FALSE
    <3>1. ASSUME NEW d \in Consumer, Mongo!Fail(d) \/ Mongo!MarkOne(d) PROVE FALSE
      BY <3>1 DEF Mongo!Fail, Mongo!MarkOne
    <3>2. ASSUME NEW d \in Consumer, NEW jobs, Mongo!Acknowledge(d, jobs) PROVE FALSE
      BY <3>2 DEF Mongo!Acknowledge
    <3>3. given' = given \/ \E d \in Consumer :
              Mongo!Fail(d) \/ Mongo!MarkOne(d) \/ \E jobs : Mongo!Acknowledge(d, jobs)
      BY <2>3 DEF Mongo!Next, Mongo!Consume, Mongo!Enqueue, Mongo!Cancel,
                  Mongo!CancelByTag, Mongo!Drop, Mongo!TakeNew,
                  Mongo!Dequeue, Mongo!NotFound, Mongo!DequeueMany, Mongo!PollAgain, Mongo!Stop, Mongo!Tick, Mongo!vars
    <3> QED
      BY <3>1, <3>2, <3>3
  <2> QED
    BY <2>1, <2>2, <2>3
<1>2. Mongo!IInv /\ [Mongo!Next]_Mongo!vars
        => [\A c \in Consumer : \A j \in given'[c] \ given[c] : marker'[j] = {c}]_Mongo!vars
  BY <1>1
<1> QED
  BY MongoInvariance, <1>2, MongoAlone, PTL DEF Mongo!Spec, RecipientMarkedLast, Mongo!RecipientMarkedLast
=============================================================================
