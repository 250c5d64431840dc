--------------------------- MODULE PipelineProofs ---------------------------
(***************************************************************************)
(* Proofs about Pipeline for every limit of the multiplexer, every size of *)
(* the buffer, every concurrency and every bound on the input: IInv is     *)
(* inductive, and with it consumers are served, nothing is read too far    *)
(* ahead, and an error that is known in time reaches the consumer.         *)
(***************************************************************************)
EXTENDS Pipeline, FiniteSetTheorems, WellFoundedInduction, TLAPS

USE LimitAssumption, SizeAssumption, ConcurrencyAssumption, MaxItemsAssumption

-----------------------------------------------------------------------------
(* Sequences.                                                               *)

LEMMA Empty == \A T : <<>> \in Seq(T) /\ Len(<<>>) = 0
  OBVIOUS

LEMMA AppendIndices ==
  ASSUME NEW T, NEW s \in Seq(T), NEW x \in T
  PROVE  /\ Append(s, x) \in Seq(T) /\ Len(s) \in Nat /\ Append(s, x) # <<>>
         /\ Len(Append(s, x)) = Len(s) + 1
         /\ DOMAIN s = 1..Len(s) /\ DOMAIN Append(s, x) = 1..(Len(s) + 1)
         /\ \A i \in 1..Len(s) : Append(s, x)[i] = s[i]
         /\ Append(s, x)[Len(s) + 1] = x
<1>1. /\ Append(s, x) \in Seq(T) /\ Len(s) \in Nat
      /\ Len(Append(s, x)) = Len(s) + 1
      /\ \A i \in 1..Len(s) : Append(s, x)[i] = s[i]
      /\ Append(s, x)[Len(s) + 1] = x
  OBVIOUS
<1>2. DOMAIN s = 1..Len(s) /\ DOMAIN Append(s, x) = 1..(Len(s) + 1)
  BY <1>1
<1>3. Append(s, x) # <<>>
  BY <1>1
<1> QED
  BY <1>1, <1>2, <1>3

LEMMA TailIndices ==
  ASSUME NEW T, NEW s \in Seq(T), s # <<>>
  PROVE  /\ Head(s) \in T /\ Head(s) = s[1] /\ Tail(s) \in Seq(T)
         /\ Len(s) \in Nat \ {0} /\ Len(Tail(s)) = Len(s) - 1
         /\ DOMAIN s = 1..Len(s) /\ DOMAIN Tail(s) = 1..(Len(s) - 1)
         /\ \A i \in 1..(Len(s) - 1) : Tail(s)[i] = s[i + 1]
<1>1. /\ Tail(s) \in Seq(T) /\ Len(s) \in Nat \ {0} /\ Len(Tail(s)) = Len(s) - 1
      /\ \A i \in 1..(Len(s) - 1) : Tail(s)[i] = s[i + 1]
      /\ Head(s) = s[1] /\ Head(s) \in T
  OBVIOUS
<1>2. DOMAIN s = 1..Len(s) /\ DOMAIN Tail(s) = 1..(Len(s) - 1)
  BY <1>1
<1> QED
  BY <1>1, <1>2

-----------------------------------------------------------------------------
(* A feedable with one reader: f was fed, b is buffered, got was yielded,   *)
(* the reader is at place, and the feedable is closed if shut holds.        *)

Gone(got, place) == Len(got) + (IF place = "threw" THEN 1 ELSE 0)

Order(f, b, got, gone) ==
  /\ Len(f) = gone + Len(b)
  /\ \A n \in DOMAIN got : got[n] = f[n]
  /\ \A n \in DOMAIN b : b[n] = f[gone + n]

IsStream(f, b, got, place, shut, e) ==
  /\ \A n \in DOMAIN f : f[n] = e => n = Len(f) /\ shut
  /\ Order(f, b, got, Gone(got, place))
  /\ place = "threw" => f[Gone(got, place)] = e
  /\ place = "waiting" => b = <<>> /\ ~shut
  /\ place = "done" => b = <<>> /\ shut

LEMMA Lengths ==
  ASSUME NEW T, NEW s \in Seq(T)
  PROVE  /\ Len(s) \in Nat /\ DOMAIN s = 1..Len(s) /\ \A n \in DOMAIN s : s[n] \in T
         /\ \A n : n \in DOMAIN s <=> n \in Nat /\ 1 <= n /\ n <= Len(s)
  OBVIOUS

LEMMA Joined ==
  ASSUME NEW T, NEW s \in Seq(T), NEW t \in Seq(T)
  PROVE  /\ s \o t \in Seq(T) /\ Len(s \o t) = Len(s) + Len(t)
         /\ \A n \in DOMAIN s : (s \o t)[n] = s[n]
         /\ \A n \in DOMAIN t : (s \o t)[Len(s) + n] = t[n]
         /\ \A n \in DOMAIN (s \o t) : n \in DOMAIN s \/ n - Len(s) \in DOMAIN t
<1>1. Len(s) \in Nat /\ Len(t) \in Nat /\ DOMAIN s = 1..Len(s) /\ DOMAIN t = 1..Len(t)
  OBVIOUS
<1>2. s \o t \in Seq(T) /\ Len(s \o t) = Len(s) + Len(t)
  OBVIOUS
<1>3. \A n \in 1..(Len(s) + Len(t)) :
         (s \o t)[n] = IF n <= Len(s) THEN s[n] ELSE t[n - Len(s)]
  OBVIOUS
<1>4. DOMAIN (s \o t) = 1..(Len(s) + Len(t))
  BY <1>2
<1>5. ASSUME NEW n \in DOMAIN s PROVE (s \o t)[n] = s[n]
  BY <1>1, <1>3, <1>5
<1>6. ASSUME NEW n \in DOMAIN t PROVE (s \o t)[Len(s) + n] = t[n]
  <2>1. Len(s) + n \in 1..(Len(s) + Len(t)) /\ ~(Len(s) + n <= Len(s)) /\ (Len(s) + n) - Len(s) = n
    BY <1>1, <1>6
  <2> QED
    BY <1>3, <2>1
<1>7. \A n \in DOMAIN (s \o t) : n \in DOMAIN s \/ n - Len(s) \in DOMAIN t
  BY <1>1, <1>4
<1> QED
  BY <1>2, <1>5, <1>6, <1>7

\* What is fed is buffered.
LEMMA OrderFeed ==
  ASSUME NEW T, NEW f \in Seq(T), NEW b \in Seq(T), NEW got \in Seq(T), NEW gone \in Nat,
         Len(got) <= gone, Order(f, b, got, gone), NEW s \in Seq(T)
  PROVE  Order(f \o s, b \o s, got, gone)
<1>1. /\ Len(f) = gone + Len(b) /\ Len(f) \in Nat /\ Len(b) \in Nat /\ Len(s) \in Nat
      /\ Len(got) \in Nat
  BY Lengths DEF Order
<1>2. Len(f \o s) = gone + Len(b \o s)
  <2>1. Len(f \o s) = Len(f) + Len(s)
    BY Joined
  <2>2. Len(b \o s) = Len(b) + Len(s)
    BY Joined
  <2> QED
    BY <1>1, <2>1, <2>2
<1>3. ASSUME NEW n \in DOMAIN got PROVE got[n] = (f \o s)[n]
  <2>1. n \in DOMAIN f
    BY <1>1, <1>3, Lengths
  <2> QED
    BY <1>3, <2>1, Joined DEF Order
<1>4. ASSUME NEW n \in DOMAIN (b \o s) PROVE (b \o s)[n] = (f \o s)[gone + n]
  <2>1. CASE n \in DOMAIN b
    <3>1. gone + n \in DOMAIN f
      BY <1>1, <2>1, Lengths
    <3> QED
      BY <2>1, <3>1, Joined DEF Order
  <2>2. CASE n - Len(b) \in DOMAIN s
    <3>1. PICK m \in DOMAIN s : m = n - Len(b)
      BY <2>2
    <3>2. n \in Nat /\ m \in Nat
      <4>1. b \o s \in Seq(T)
        BY Joined
      <4> QED
        BY <1>4, <3>1, <4>1, Lengths
    <3>3. n = Len(b) + m /\ gone + n = Len(f) + m
      BY <1>1, <3>1, <3>2
    <3>4. (b \o s)[Len(b) + m] = s[m]
      BY <3>1, Joined
    <3>5. (f \o s)[Len(f) + m] = s[m]
      BY <3>1, Joined
    <3> QED
      BY <3>3, <3>4, <3>5
  <2> QED
    BY <1>4, <2>1, <2>2, Joined
<1> QED
  BY <1>2, <1>3, <1>4 DEF Order

LEMMA OneMore ==
  ASSUME NEW T, NEW s \in Seq(T), NEW x \in T
  PROVE  <<x>> \in Seq(T) /\ Append(s, x) = s \o <<x>>
  OBVIOUS

LEMMA StreamTypes ==
  ASSUME NEW U, NEW e, NEW T, T = U \cup {e}, NEW got \in Seq(U), NEW place
  PROVE  /\ got \in Seq(T) /\ Len(got) \in Nat /\ Gone(got, place) \in Nat
         /\ Len(got) <= Gone(got, place)
<1>1. Len(got) \in Nat /\ got \in Seq(T)
  OBVIOUS
<1> QED
  BY <1>1 DEF Gone

\* feed() of several items.
LEMMA StreamFeed ==
  ASSUME NEW U, NEW e, NEW T, T = U \cup {e}, e \notin U,
         NEW f \in Seq(T), NEW b \in Seq(T), NEW got \in Seq(U), NEW place, NEW shut, NEW p,
         IsStream(f, b, got, place, shut, e), ~shut, NEW s \in Seq(U),
         p = place \/ (place = "waiting" /\ p = "woken"), p = "waiting" => s = <<>>
  PROVE  /\ f \o s \in Seq(T) /\ b \o s \in Seq(T)
         /\ IsStream(f \o s, b \o s, got, p, shut, e)
<1>1. s \in Seq(T) /\ \A n \in DOMAIN s : s[n] # e
  OBVIOUS
<1>2. f \o s \in Seq(T) /\ b \o s \in Seq(T)
  BY <1>1, Joined
<1>3. Gone(got, p) = Gone(got, place)
  BY DEF Gone
<1>4. Order(f \o s, b \o s, got, Gone(got, p))
  BY <1>1, <1>3, StreamTypes, OrderFeed DEF IsStream
<1>5. \A n \in DOMAIN f : f[n] # e
  BY DEF IsStream
<1>6. \A n \in DOMAIN (f \o s) : (f \o s)[n] # e
  <2> SUFFICES ASSUME NEW n \in DOMAIN (f \o s) PROVE (f \o s)[n] # e
    OBVIOUS
  <2>1. CASE n \in DOMAIN f
    BY <1>1, <1>5, <2>1, Joined
  <2>2. CASE n - Len(f) \in DOMAIN s
    <3>1. PICK m \in DOMAIN s : m = n - Len(f)
      BY <2>2
    <3>2. n = Len(f) + m
      BY <1>1, <1>2, <3>1, Lengths
    <3> QED
      BY <1>1, <3>1, <3>2, Joined
  <2> QED
    BY <1>1, <2>1, <2>2, Joined
<1>7. p # "threw"
  <2>1. ASSUME place = "threw" PROVE FALSE
    <3>1. Gone(got, place) \in Nat /\ Gone(got, place) >= 1 /\ Len(b) \in Nat /\ Len(f) \in Nat
      BY <2>1, StreamTypes, Lengths DEF Gone
    <3>2. Gone(got, place) \in DOMAIN f
      BY <3>1, Lengths DEF IsStream, Order
    <3> QED
      BY <1>5, <2>1, <3>2 DEF IsStream
  <2> QED
    BY <2>1
<1>8. p = "waiting" => b \o s = <<>>
  <2> SUFFICES ASSUME p = "waiting" PROVE b \o s = <<>>
    OBVIOUS
  <2>1. b = <<>> /\ s = <<>>
    BY DEF IsStream
  <2> QED
    BY <2>1
<1>9. p # "done"
  BY DEF IsStream
<1> QED
  BY <1>2, <1>4, <1>6, <1>7, <1>8, <1>9 DEF IsStream

\* throw(): the error is fed, and the feedable is closed.
LEMMA StreamThrow ==
  ASSUME NEW U, NEW e, NEW T, T = U \cup {e}, e \notin U,
         NEW f \in Seq(T), NEW b \in Seq(T), NEW got \in Seq(U), NEW place, NEW shut, NEW p,
         IsStream(f, b, got, place, shut, e), ~shut,
         p = IF place = "waiting" THEN "woken" ELSE place
  PROVE  /\ Append(f, e) \in Seq(T) /\ Append(b, e) \in Seq(T)
         /\ IsStream(Append(f, e), Append(b, e), got, p, TRUE, e)
<1>1. e \in T
  OBVIOUS
<1>2. Append(f, e) = f \o <<e>> /\ Append(b, e) = b \o <<e>> /\ <<e>> \in Seq(T)
  BY <1>1, OneMore
<1>3. Append(f, e) \in Seq(T) /\ Append(b, e) \in Seq(T)
  BY <1>1
<1>4. Gone(got, p) = Gone(got, place)
  BY DEF Gone
<1>5. Order(Append(f, e), Append(b, e), got, Gone(got, p))
  <2>1. Order(f \o <<e>>, b \o <<e>>, got, Gone(got, place))
    BY <1>2, StreamTypes, OrderFeed DEF IsStream
  <2> QED
    BY <1>2, <1>4, <2>1
<1>6. \A n \in DOMAIN f : f[n] # e
  BY DEF IsStream
<1>7. \A n \in DOMAIN Append(f, e) : Append(f, e)[n] = e => n = Len(Append(f, e))
  BY <1>1, <1>6, AppendIndices
<1>8. p # "threw"
  <2>1. ASSUME place = "threw" PROVE FALSE
    <3>1. Gone(got, place) \in Nat /\ Gone(got, place) >= 1 /\ Len(b) \in Nat /\ Len(f) \in Nat
      BY <2>1, StreamTypes, Lengths DEF Gone
    <3>2. Gone(got, place) \in DOMAIN f
      BY <3>1, Lengths DEF IsStream, Order
    <3> QED
      BY <1>6, <2>1, <3>2 DEF IsStream
  <2> QED
    BY <2>1
<1>9. p # "done" /\ p # "waiting"
  BY DEF IsStream
<1> QED
  BY <1>3, <1>5, <1>7, <1>8, <1>9 DEF IsStream

\* end()
LEMMA StreamEnd ==
  ASSUME NEW f, NEW b, NEW got, NEW place, NEW shut, NEW p, NEW e,
         IsStream(f, b, got, place, shut, e), ~shut,
         p = IF place = "waiting" THEN "woken" ELSE place
  PROVE  IsStream(f, b, got, p, TRUE, e)
<1>1. Gone(got, p) = Gone(got, place)
  BY DEF Gone
<1>2. p # "waiting" /\ p # "done"
  BY DEF IsStream
<1>3. Order(f, b, got, Gone(got, p))
  BY <1>1 DEF IsStream
<1>4. p = "threw" => f[Gone(got, p)] = e
  BY <1>1 DEF IsStream
<1> QED
  BY <1>2, <1>3, <1>4 DEF IsStream

\* The reader takes what is first.
LEMMA StreamTake ==
  ASSUME NEW U, NEW e, NEW T, T = U \cup {e}, e \notin U,
         NEW f \in Seq(T), NEW b \in Seq(T), NEW got \in Seq(U), NEW place, NEW shut,
         IsStream(f, b, got, place, shut, e), place # "threw", b # <<>>
  PROVE  /\ Tail(b) \in Seq(T) /\ Len(got) + 1 \in DOMAIN f
         /\ Head(b) = e => shut /\ IsStream(f, Tail(b), got, "threw", shut, e)
         /\ Head(b) # e =>
               /\ Append(got, Head(b)) \in Seq(U)
               /\ IsStream(f, Tail(b), Append(got, Head(b)), "holding", shut, e)
<1>1. /\ Head(b) \in T /\ Head(b) = b[1] /\ Tail(b) \in Seq(T)
      /\ Len(b) \in Nat \ {0} /\ Len(Tail(b)) = Len(b) - 1
      /\ DOMAIN b = 1..Len(b) /\ DOMAIN Tail(b) = 1..(Len(b) - 1)
      /\ \A i \in 1..(Len(b) - 1) : Tail(b)[i] = b[i + 1]
  BY TailIndices
<1> DEFINE k == Len(got)
<1>2. /\ k \in Nat /\ Len(f) \in Nat /\ Len(f) = k + Len(b)
      /\ Gone(got, place) = k /\ Gone(got, "threw") = k + 1
  BY Lengths DEF IsStream, Order, Gone
<1>3. /\ \A n \in DOMAIN got : got[n] = f[n]
      /\ \A n \in DOMAIN b : b[n] = f[k + n]
      /\ \A n \in DOMAIN f : f[n] = e => n = Len(f) /\ shut
  BY <1>2 DEF IsStream, Order
<1>4. k + 1 \in DOMAIN f /\ Head(b) = f[k + 1]
  <2>1. k + 1 \in DOMAIN f
    <3>1. k + 1 \in Nat /\ 1 <= k + 1 /\ k + 1 <= Len(f)
      BY <1>1, <1>2
    <3> QED
      BY <3>1, Lengths
  <2>2. 1 \in DOMAIN b
    BY <1>1
  <2> QED
    BY <1>1, <1>3, <2>1, <2>2
<1>5. Len(f) = k + 1 + Len(Tail(b))
  BY <1>1, <1>2
<1>6. \A n \in DOMAIN Tail(b) : Tail(b)[n] = f[k + 1 + n]
  <2>1. \A n \in DOMAIN Tail(b) : n + 1 \in DOMAIN b /\ k + (n + 1) = k + 1 + n
    <3>1. PICK m \in Nat, j \in Nat : m = Len(b) /\ j = k
      BY <1>1, <1>2
    <3>2. \A n \in 1..(m - 1) : n + 1 \in 1..m /\ j + (n + 1) = j + 1 + n
      OBVIOUS
    <3> HIDE DEF k
    <3> QED
      BY <1>1, <3>1, <3>2
  <2> QED
    BY <1>1, <1>3, <2>1
<1>7. ASSUME Head(b) = e PROVE shut /\ IsStream(f, Tail(b), got, "threw", shut, e)
  BY <1>2, <1>3, <1>4, <1>5, <1>6, <1>7 DEF IsStream, Order
<1>8. ASSUME Head(b) # e
      PROVE  /\ Append(got, Head(b)) \in Seq(U)
             /\ IsStream(f, Tail(b), Append(got, Head(b)), "holding", shut, e)
  <2>1. Head(b) \in U
    BY <1>1, <1>8
  <2>2. /\ Append(got, Head(b)) \in Seq(U) /\ Len(Append(got, Head(b))) = k + 1
        /\ DOMAIN got = 1..k /\ DOMAIN Append(got, Head(b)) = 1..(k + 1)
        /\ \A n \in 1..k : Append(got, Head(b))[n] = got[n]
        /\ Append(got, Head(b))[k + 1] = Head(b)
    BY <2>1, AppendIndices
  <2>3. Gone(Append(got, Head(b)), "holding") = k + 1
    BY <1>2, <2>2 DEF Gone
  <2>4. \A n \in DOMAIN Append(got, Head(b)) : Append(got, Head(b))[n] = f[n]
    BY <1>2, <1>3, <1>4, <2>2
  <2>5. Order(f, Tail(b), Append(got, Head(b)), k + 1)
    BY <1>5, <1>6, <2>4 DEF Order
  <2> QED
    BY <1>3, <2>2, <2>3, <2>5 DEF IsStream
<1> QED
  BY <1>1, <1>4, <1>7, <1>8

\* The buffer is empty: the reader ends or waits.  Or it is told to return.
LEMMA StreamRests ==
  ASSUME NEW f, NEW b, NEW got, NEW place, NEW shut, NEW p, NEW e,
         IsStream(f, b, got, place, shut, e), place # "threw",
         \/ p = "stopped"
         \/ b = <<>> /\ p = IF shut THEN "done" ELSE "waiting"
  PROVE  IsStream(f, b, got, p, shut, e)
<1>1. Gone(got, p) = Gone(got, place) /\ p # "threw"
  BY DEF Gone
<1>2. Order(f, b, got, Gone(got, p))
  BY <1>1 DEF IsStream
<1> QED
  BY <1>1, <1>2 DEF IsStream

\* A reader that is through has been given all that was fed.
LEMMA StreamEnded ==
  ASSUME NEW U, NEW e, NEW T, T = U \cup {e}, e \notin U,
         NEW f \in Seq(T), NEW b \in Seq(T), NEW got \in Seq(U), NEW place, NEW shut,
         IsStream(f, b, got, place, shut, e)
  PROVE  /\ \A n \in DOMAIN got : n \in DOMAIN f /\ got[n] = f[n]
         /\ place = "done" =>
               shut /\ Len(f) = Len(got) /\ \A n \in DOMAIN f : n \in DOMAIN got /\ f[n] # e
         /\ place = "threw" =>
               shut /\ Len(f) = Len(got) + 1 /\ f[Len(f)] = e /\ Len(f) \in DOMAIN f /\ b = <<>>
<1>1. /\ Len(got) \in Nat /\ Len(f) \in Nat /\ Len(b) \in Nat
      /\ Gone(got, place) \in Nat /\ Len(got) <= Gone(got, place)
  BY StreamTypes, Lengths
<1>2. \A n \in DOMAIN got : n \in DOMAIN f /\ got[n] = f[n] /\ got[n] # e
  <2>1. \A n \in DOMAIN got : n \in DOMAIN f /\ got[n] \in U
    BY <1>1, Lengths DEF IsStream, Order
  <2> QED
    BY <2>1 DEF IsStream, Order
<1>3. ASSUME place = "done"
      PROVE  shut /\ Len(f) = Len(got) /\ \A n \in DOMAIN f : n \in DOMAIN got /\ f[n] # e
  <2>1. shut /\ b = <<>> /\ Gone(got, place) = Len(got)
    BY <1>1, <1>3 DEF IsStream, Gone
  <2>2. Len(f) = Len(got)
    BY <1>1, <2>1 DEF IsStream, Order
  <2>3. \A n \in DOMAIN f : n \in DOMAIN got
    BY <2>2, Lengths
  <2> QED
    BY <1>2, <2>1, <2>2, <2>3
<1>4. ASSUME place = "threw"
      PROVE  shut /\ Len(f) = Len(got) + 1 /\ f[Len(f)] = e /\ Len(f) \in DOMAIN f /\ b = <<>>
  <2>1. Gone(got, place) = Len(got) + 1 /\ f[Len(got) + 1] = e /\ Len(f) = Len(got) + 1 + Len(b)
    BY <1>4 DEF IsStream, Order, Gone
  <2>2. Len(got) + 1 \in DOMAIN f
    BY <1>1, <2>1, Lengths
  <2>3. Len(got) + 1 = Len(f) /\ shut
    BY <2>1, <2>2 DEF IsStream
  <2>4. Len(b) = 0
    BY <1>1, <2>1, <2>3
  <2> QED
    BY <2>1, <2>2, <2>3, <2>4
<1> QED
  BY <1>2, <1>3, <1>4

-----------------------------------------------------------------------------
(* bufferAsync().                                                           *)

Entry == 1..MaxItems \cup {Buf!End, Buf!Failure}

LEMMA EntryFacts ==
  /\ Buf!End = 0 /\ Buf!Failure = -1 /\ Buf!End \in Entry /\ Buf!Failure \in Entry
  /\ \A n \in 1..MaxItems : n \in Entry /\ n \notin {Buf!End, Buf!Failure}
  /\ \A e \in Entry : e \notin {Buf!End, Buf!Failure} => e \in 1..MaxItems
  BY DEF Entry, Buf!End, Buf!Failure

LEMMA BufInit == Buf!Init => Buf!IInv
<1> SUFFICES ASSUME Buf!Init PROVE Buf!IInv
  OBVIOUS
<1>1. ahead = <<>> /\ bufferReceived = <<>> /\ bufferPulled = 0 /\ late = 0 /\ end = FALSE /\ ~end
      /\ bufferProducer = "new" /\ bufferConsumer = "new"
  BY DEF Buf!Init
<1>2. Buf!TypeOK
  <2>1. ahead \in Seq(Entry) /\ bufferReceived \in Seq(1..MaxItems)
    BY <1>1
  <2>2. end \in BOOLEAN /\ (end <=> bufferConsumer \in Buf!Ended /\ bufferProducer # "new")
    BY <1>1, Zenon
  <2>3. bufferConsumer \in {"new", "awaiting", "woken", "holding"} \cup Buf!Ended
    BY <1>1
  <2>4. bufferPulled \in 0..MaxItems /\ late \in Nat
    BY <1>1
  <2> QED
    BY <1>1, <2>1, <2>2, <2>3, <2>4, Zenon DEF Buf!TypeOK, Entry
<1>3. Buf!AheadInv /\ Buf!RoomInv
  <2>0. Len(bufferReceived) = 0 /\ Len(ahead) = 0
    BY <1>1, Empty, Zenon
  <2>1. Buf!ItemsLeft = 0
    <3>1. bufferPulled = 0
      BY <1>1
    <3> QED
      BY <2>0, <3>1 DEF Buf!ItemsLeft
  <2> QED
    BY <1>1, <2>0, <2>1 DEF Buf!AheadInv, Buf!RoomInv
<1> QED
  BY <1>1, <1>2, <1>3 DEF Buf!IInv, Buf!LateInv, Buf!WakeInv

\* While the producer has not ended, and the consumer goes on, what is buffered
\* are the items that are left.
LEMMA Facts ==
  ASSUME Buf!IInv
  PROVE  /\ Buf!TypeOK /\ Buf!LateInv /\ Buf!WakeInv
         /\ ahead \in Seq(Entry) /\ bufferPulled \in Nat /\ Len(bufferReceived) \in Nat
         /\ bufferReceived \in Seq(1..MaxItems)
         /\ DOMAIN bufferReceived = 1..Len(bufferReceived)
         /\ \A n \in DOMAIN bufferReceived : bufferReceived[n] = n
         /\ bufferProducer # "new" => (end <=> bufferConsumer \in Buf!Ended)
         /\ end => bufferConsumer \in Buf!Ended
         /\ bufferConsumer \notin Buf!Ended => Buf!AheadInv /\ Buf!RoomInv
         /\ bufferConsumer \in {"done", "threw"} =>
               bufferProducer = "ended" /\ Len(bufferReceived) = bufferPulled
  BY DEF Buf!IInv, Buf!TypeOK, Entry

\* An item is added.
LEMMA BufPull == Buf!IInv /\ Buf!Pull => Buf!IInv'
<1> SUFFICES ASSUME Buf!IInv, Buf!Pull PROVE Buf!IInv'
  OBVIOUS
<1> DEFINE more == Append(ahead, bufferPulled')
<1>1. /\ bufferProducer = "pulling" /\ bufferPulled < MaxItems
      /\ bufferPulled' = bufferPulled + 1
      /\ late' = IF end THEN late + 1 ELSE late
      /\ bufferConsumer' = IF bufferConsumer = "awaiting" THEN "woken" ELSE bufferConsumer
      /\ end' = end /\ bufferReceived' = bufferReceived
      /\ \/ Len(more) >= Size /\ ahead' = more /\ bufferProducer' = "awaiting"
         \/ Len(more) < Size /\ ~end /\ ahead' = more /\ bufferProducer' = "pulling"
         \/ Len(more) < Size /\ end /\ ahead' = Append(more, Buf!End) /\ bufferProducer' = "ended"
  BY Facts DEF Buf!Pull, Buf!WakeConsumer, Buf!GoOn, Buf!Room
<1>2. bufferPulled' \in 1..MaxItems /\ bufferPulled' \in Entry
  BY <1>1, Facts, EntryFacts
<1>3. /\ more \in Seq(Entry) /\ more # <<>> /\ Len(more) = Len(ahead) + 1 /\ Len(ahead) \in Nat
      /\ \A n \in 1..Len(ahead) : more[n] = ahead[n]
      /\ more[Len(ahead) + 1] = bufferPulled'
  BY <1>2, Facts, AppendIndices
<1>4. Append(more, Buf!End) \in Seq(Entry)
  BY <1>3, EntryFacts, AppendIndices
<1> HIDE DEF more
<1>5. bufferConsumer' # "new"
  BY <1>1, Facts DEF Buf!WakeInv
<1>6. Buf!TypeOK'
  <2>1. ahead' \in Seq(Entry)
    BY <1>1, <1>3, <1>4
  <2> QED
    BY <1>1, <1>2, <2>1, Facts DEF Buf!TypeOK, Entry, Buf!Ended
<1>7. CASE end
  <2>1. bufferConsumer = "stopped" /\ bufferConsumer' = "stopped"
    BY <1>1, <1>7, Facts DEF Buf!Ended
  <2>2. late' = 1 /\ bufferProducer' \in {"awaiting", "ended"}
    BY <1>1, <1>7, Facts DEF Buf!LateInv
  <2> QED
    BY <1>1, <1>6, <1>7, <2>1, <2>2, Facts DEF Buf!IInv, Buf!LateInv, Buf!WakeInv, Buf!Ended
<1>8. CASE ~end
  <2>1. bufferConsumer \notin Buf!Ended /\ bufferConsumer' \notin Buf!Ended
    BY <1>1, <1>8, Facts DEF Buf!Ended
  <2>2. Buf!AheadInv /\ Buf!RoomInv
    BY <2>1, Facts
  <2>3. ahead' = more /\ bufferProducer' \in {"awaiting", "pulling"}
        /\ (bufferProducer' = "pulling" => Len(more) < Size)
    BY <1>1, <1>8
  <2>4. Buf!ItemsLeft' = Buf!ItemsLeft + 1 /\ Buf!ItemsLeft \in Nat /\ Len(ahead) = Buf!ItemsLeft
    BY <1>1, <2>2, Facts DEF Buf!ItemsLeft, Buf!AheadInv
  <2>5. Buf!AheadInv'
    <3>1. more[Buf!ItemsLeft + 1] = Len(bufferReceived) + (Buf!ItemsLeft + 1)
      BY <1>1, <1>3, <2>4, Facts DEF Buf!ItemsLeft
    <3>2. \A n \in 1..Buf!ItemsLeft : more[n] = Len(bufferReceived) + n
      BY <1>3, <2>2, <2>4 DEF Buf!AheadInv
    <3>3. \A n \in 1..Buf!ItemsLeft' : more[n] = Len(bufferReceived) + n
      BY <2>4, <3>1, <3>2
    <3>4. bufferPulled' >= Len(bufferReceived') /\ Len(ahead') = Buf!ItemsLeft'
      BY <1>1, <1>3, <2>2, <2>3, <2>4, Facts DEF Buf!AheadInv
    <3> QED
      BY <1>1, <2>3, <2>4, <3>3, <3>4 DEF Buf!AheadInv
  <2>6. Buf!RoomInv'
    BY <1>1, <1>3, <2>2, <2>3, <2>4 DEF Buf!RoomInv
  <2>7. Buf!LateInv' /\ Buf!WakeInv'
    BY <1>1, <1>3, <1>5, <1>8, <2>3, Facts DEF Buf!LateInv, Buf!WakeInv
  <2> QED
    BY <1>1, <1>6, <2>1, <2>5, <2>6, <2>7, Facts DEF Buf!IInv, Buf!Ended
<1> QED
  BY <1>7, <1>8

\* The producer that awaited room goes on.
LEMMA BufRoomFound == Buf!IInv /\ Buf!RoomFound => Buf!IInv'
<1> SUFFICES ASSUME Buf!IInv, Buf!RoomFound PROVE Buf!IInv'
  OBVIOUS
<1>1. /\ bufferProducer = "woken"
      /\ UNCHANGED <<end, bufferConsumer, bufferPulled, late, bufferReceived>>
      /\ \/ ~end /\ ahead' = ahead /\ bufferProducer' = "pulling"
         \/ end /\ ahead' = Append(ahead, Buf!End) /\ bufferProducer' = "ended"
  BY DEF Buf!RoomFound, Buf!GoOn
<1>2. Append(ahead, Buf!End) \in Seq(Entry) /\ Append(ahead, Buf!End) # <<>>
  BY Facts, EntryFacts, AppendIndices
<1>3. Buf!TypeOK'
  <2>1. ahead' \in Seq(Entry)
    BY <1>1, <1>2, Facts
  <2> QED
    BY <1>1, <2>1, Facts DEF Buf!TypeOK, Entry, Buf!Ended
<1>4. Buf!LateInv' /\ Buf!WakeInv'
  BY <1>1, Facts DEF Buf!LateInv, Buf!WakeInv, Buf!Ended
<1>5. bufferConsumer \notin Buf!Ended => Buf!AheadInv' /\ Buf!RoomInv'
  <2> SUFFICES ASSUME bufferConsumer \notin Buf!Ended PROVE Buf!AheadInv' /\ Buf!RoomInv'
    OBVIOUS
  <2>1. Buf!AheadInv /\ Buf!RoomInv /\ ahead' = ahead /\ bufferProducer' = "pulling"
    BY <1>1, Facts
  <2> QED
    BY <1>1, <2>1 DEF Buf!AheadInv, Buf!RoomInv, Buf!ItemsLeft
<1> QED
  BY <1>1, <1>3, <1>4, <1>5, Facts DEF Buf!IInv

\* A marker is added.
LEMMA BufInputEnds == Buf!IInv /\ (Buf!InputEnds \/ Buf!InputThrows) => Buf!IInv'
<1> SUFFICES ASSUME Buf!IInv, Buf!InputEnds \/ Buf!InputThrows PROVE Buf!IInv'
  OBVIOUS
<1>1. PICK e \in {Buf!End, Buf!Failure} :
      /\ bufferProducer = "pulling" /\ bufferProducer' = "ended"
      /\ ahead' = Append(ahead, e)
      /\ bufferConsumer' = IF bufferConsumer = "awaiting" THEN "woken" ELSE bufferConsumer
      /\ UNCHANGED <<end, bufferPulled, late, bufferReceived>>
  BY DEF Buf!InputEnds, Buf!InputThrows, Buf!WakeConsumer
<1>2. /\ ahead' \in Seq(Entry) /\ ahead' # <<>> /\ Len(ahead') = Len(ahead) + 1
      /\ Len(ahead) \in Nat /\ \A n \in 1..Len(ahead) : ahead'[n] = ahead[n]
      /\ ahead'[Len(ahead) + 1] = e
  BY <1>1, Facts, EntryFacts, AppendIndices
<1>3. Buf!TypeOK'
  BY <1>1, <1>2, Facts DEF Buf!TypeOK, Entry, Buf!Ended
<1>4. Buf!LateInv' /\ Buf!WakeInv'
  BY <1>1, <1>2, Facts DEF Buf!LateInv, Buf!WakeInv
<1>5. bufferConsumer' \notin Buf!Ended => Buf!AheadInv' /\ Buf!RoomInv'
  <2> SUFFICES ASSUME bufferConsumer' \notin Buf!Ended PROVE Buf!AheadInv' /\ Buf!RoomInv'
    OBVIOUS
  <2>1. Buf!AheadInv /\ Buf!RoomInv
    BY <1>1, Facts DEF Buf!Ended
  <2>2. Buf!ItemsLeft' = Buf!ItemsLeft /\ Len(ahead) = Buf!ItemsLeft
    BY <1>1, <2>1, Facts DEF Buf!AheadInv, Buf!ItemsLeft
  <2> QED
    BY <1>1, <1>2, <2>1, <2>2 DEF Buf!AheadInv, Buf!RoomInv
<1> QED
  BY <1>1, <1>3, <1>4, <1>5, Facts DEF Buf!IInv, Buf!Ended

\* The consumer takes what is first: an item, or the marker.
LEMMA BufTake ==
  ASSUME Buf!IInv, Buf!Take, bufferConsumer \in {"holding", "woken"}
  PROVE  Buf!IInv'
<1> DEFINE entry == Head(ahead)
           k == Len(bufferReceived)
<1>1. /\ ahead # <<>>
      /\ bufferProducer' = IF bufferProducer = "awaiting" THEN "woken" ELSE bufferProducer
      /\ bufferPulled' = bufferPulled /\ late' = late
      /\ \/ /\ entry = Buf!End /\ bufferConsumer' = "done" /\ end' = TRUE /\ ahead' = <<>>
            /\ bufferReceived' = bufferReceived
         \/ /\ entry = Buf!Failure /\ bufferConsumer' = "threw" /\ end' = TRUE /\ ahead' = <<>>
            /\ bufferReceived' = bufferReceived
         \/ /\ entry \notin {Buf!End, Buf!Failure} /\ bufferConsumer' = "holding"
            /\ ahead' = Tail(ahead) /\ bufferReceived' = Append(bufferReceived, entry)
            /\ end' = end
  BY DEF Buf!Take, Buf!Finish
<1>2. /\ entry \in Entry /\ entry = ahead[1] /\ Tail(ahead) \in Seq(Entry)
      /\ Len(ahead) \in Nat \ {0} /\ Len(Tail(ahead)) = Len(ahead) - 1
      /\ \A n \in 1..(Len(ahead) - 1) : Tail(ahead)[n] = ahead[n + 1]
  BY <1>1, Facts, TailIndices
<1>3. bufferConsumer \notin Buf!Ended /\ Buf!AheadInv /\ Buf!RoomInv /\ ~end
  BY Facts DEF Buf!Ended
<1>4. bufferProducer # "new"
  BY Facts DEF Buf!WakeInv
<1>5. Buf!ItemsLeft \in Nat /\ k \in Nat /\ Buf!ItemsLeft = bufferPulled - k
  BY <1>3, Facts DEF Buf!AheadInv, Buf!ItemsLeft
<1>6. CASE entry \in {Buf!End, Buf!Failure}
  <2>1. bufferConsumer' \in {"done", "threw"} /\ end' = TRUE /\ ahead' = <<>>
        /\ bufferReceived' = bufferReceived
    BY <1>1, <1>6
  <2>2. Buf!ItemsLeft = 0
    <3>1. SUFFICES ASSUME Buf!ItemsLeft >= 1 PROVE FALSE
      BY <1>5
    <3>2. entry = k + 1
      BY <1>2, <1>3, <1>5, <3>1 DEF Buf!AheadInv
    <3> HIDE DEF entry, k
    <3> QED
      BY <1>5, <1>6, <3>2, EntryFacts
  <2>3. bufferProducer = "ended" /\ bufferProducer' = "ended"
    BY <1>1, <1>2, <1>3, <2>2 DEF Buf!AheadInv
  <2>4. bufferPulled = k
    BY <1>5, <2>2, Facts
  <2>5. Buf!TypeOK'
    <3>1. ahead' \in Seq(Entry)
      BY <2>1, Empty
    <3> QED
      BY <1>1, <2>1, <2>3, <3>1, Facts DEF Buf!TypeOK, Entry, Buf!Ended
  <2> QED
    BY <1>1, <1>3, <2>1, <2>3, <2>4, <2>5, Facts
    DEF Buf!IInv, Buf!LateInv, Buf!WakeInv, Buf!Ended
<1>7. CASE entry \notin {Buf!End, Buf!Failure}
  <2>1. /\ bufferConsumer' = "holding" /\ ahead' = Tail(ahead) /\ end' = end
        /\ bufferReceived' = Append(bufferReceived, entry)
    BY <1>1, <1>7
  <2>2. entry \in 1..MaxItems
    BY <1>2, <1>7, EntryFacts
  <2>3. /\ bufferReceived' \in Seq(1..MaxItems) /\ Len(bufferReceived') = k + 1
        /\ DOMAIN bufferReceived' = 1..(k + 1)
        /\ \A n \in 1..k : bufferReceived'[n] = bufferReceived[n]
        /\ bufferReceived'[k + 1] = entry
    BY <2>1, <2>2, Facts, AppendIndices
  <2>4. Buf!ItemsLeft >= 1 /\ entry = k + 1
    <3>1. Buf!ItemsLeft >= 1
      BY <1>2, <1>3, <1>5, <1>7 DEF Buf!AheadInv
    <3> QED
      BY <1>2, <1>3, <1>5, <3>1 DEF Buf!AheadInv
  <2> HIDE DEF entry
  <2>5. Buf!ItemsLeft' = Buf!ItemsLeft - 1
    BY <1>1, <1>5, <2>3, Facts DEF Buf!ItemsLeft
  <2>6. bufferProducer' = "ended" <=> bufferProducer = "ended"
    BY <1>1
  <2>7. Buf!AheadInv'
    <3>1. \A n \in 1..(Buf!ItemsLeft - 1) : Tail(ahead)[n] = k + 1 + n
      <4>1. \A n \in 1..(Buf!ItemsLeft - 1) :
                /\ n \in 1..(Len(ahead) - 1) /\ n + 1 \in 1..Buf!ItemsLeft /\ k + (n + 1) = k + 1 + n
        BY <1>2, <1>3, <1>5 DEF Buf!AheadInv
      <4> QED
        BY <1>2, <1>3, <4>1 DEF Buf!AheadInv
    <3>2. bufferPulled' >= Len(bufferReceived')
      BY <1>1, <1>5, <2>3, <2>4, Facts
    <3>3. Len(ahead') = Buf!ItemsLeft' + (IF bufferProducer' = "ended" THEN 1 ELSE 0)
      BY <1>2, <1>3, <1>5, <2>1, <2>5, <2>6 DEF Buf!AheadInv
    <3>4. bufferProducer' = "ended" => ahead'[Len(ahead')] \in {Buf!End, Buf!Failure}
      BY <1>2, <1>3, <1>5, <2>1, <2>4, <2>6 DEF Buf!AheadInv
    <3> QED
      BY <2>1, <2>3, <2>5, <3>1, <3>2, <3>3, <3>4 DEF Buf!AheadInv
  <2>8. Buf!RoomInv'
    BY <1>1, <1>3, <1>5, <2>5, SizeAssumption DEF Buf!RoomInv
  <2>9. Buf!TypeOK'
    BY <1>1, <1>2, <1>3, <1>4, <2>1, <2>3, Facts DEF Buf!TypeOK, Entry, Buf!Ended
  <2>10. Buf!LateInv' /\ Buf!WakeInv'
    BY <1>1, <1>3, <1>4, <2>1, Facts DEF Buf!LateInv, Buf!WakeInv
  <2>11. \A n \in DOMAIN bufferReceived' : bufferReceived'[n] = n
    BY <2>3, <2>4, Facts
  <2> QED
    BY <2>1, <2>7, <2>8, <2>9, <2>10, <2>11 DEF Buf!IInv, Buf!Ended
<1> QED
  BY <1>6, <1>7

\* The other steps of the consumer.
LEMMA BufConsumer ==
  Buf!IInv /\ (Buf!Begin \/ Buf!Ask \/ Buf!Resume \/ Buf!Return) => Buf!IInv'
<1> SUFFICES ASSUME Buf!IInv PROVE Buf!Begin \/ Buf!Ask \/ Buf!Resume \/ Buf!Return => Buf!IInv'
  OBVIOUS
<1>1. ASSUME Buf!Begin PROVE Buf!IInv'
  <2>1. /\ bufferConsumer = "new" /\ bufferProducer' = "pulling" /\ bufferConsumer' = "awaiting"
        /\ UNCHANGED <<ahead, end, bufferPulled, late, bufferReceived>>
    BY <1>1 DEF Buf!Begin
  <2>2. Buf!AheadInv /\ Buf!RoomInv /\ bufferProducer = "new" /\ bufferPulled = 0
        /\ bufferConsumer \notin Buf!Ended /\ ~end
    BY <2>1, Facts DEF Buf!WakeInv, Buf!Ended
  <2>3. Len(ahead) = 0 /\ Buf!ItemsLeft = 0 /\ ahead = <<>>
    BY <2>2, Facts DEF Buf!AheadInv, Buf!ItemsLeft
  <2>4. Buf!TypeOK'
    BY <2>1, <2>2, Facts DEF Buf!TypeOK, Buf!Ended
  <2>5. Buf!AheadInv' /\ Buf!RoomInv'
    BY <2>1, <2>2, <2>3 DEF Buf!AheadInv, Buf!RoomInv, Buf!ItemsLeft
  <2> QED
    BY <2>1, <2>2, <2>3, <2>4, <2>5, Facts DEF Buf!IInv, Buf!LateInv, Buf!WakeInv
<1>2. ASSUME Buf!Ask PROVE Buf!IInv'
  <2>1. CASE Buf!Take
    BY <1>2, <2>1, BufTake DEF Buf!Ask
  <2>2. CASE ~Buf!Take
    <3>1. /\ bufferConsumer = "holding" /\ ahead = <<>> /\ bufferConsumer' = "awaiting"
          /\ UNCHANGED <<ahead, end, bufferProducer, bufferPulled, late, bufferReceived>>
      BY <1>2, <2>2 DEF Buf!Ask
    <3>2. Buf!AheadInv /\ Buf!RoomInv /\ bufferConsumer \notin Buf!Ended
      BY <3>1, Facts DEF Buf!Ended
    <3>3. bufferProducer \notin {"awaiting", "ended", "new"}
      BY <3>1, <3>2, Facts DEF Buf!AheadInv, Buf!RoomInv, Buf!ItemsLeft, Buf!WakeInv
    <3>4. Buf!TypeOK' /\ Buf!LateInv' /\ Buf!WakeInv'
      BY <3>1, <3>3, Facts DEF Buf!TypeOK, Buf!LateInv, Buf!WakeInv, Buf!Ended
    <3>5. Buf!AheadInv' /\ Buf!RoomInv'
      BY <3>1, <3>2 DEF Buf!AheadInv, Buf!RoomInv, Buf!ItemsLeft
    <3> QED
      BY <3>1, <3>4, <3>5, Facts DEF Buf!IInv
  <2> QED
    BY <2>1, <2>2
<1>3. ASSUME Buf!Resume PROVE Buf!IInv'
  BY <1>3, BufTake DEF Buf!Resume
<1>4. ASSUME Buf!Return PROVE Buf!IInv'
  <2>1. /\ bufferConsumer \in {"new", "holding"} /\ bufferConsumer' = "stopped"
        /\ UNCHANGED <<bufferProducer, bufferPulled, late, bufferReceived>>
        /\ \/ bufferConsumer = "holding" /\ end' = TRUE /\ ahead' = <<>>
           \/ bufferConsumer = "new" /\ end' = end /\ ahead' = ahead
    BY <1>4 DEF Buf!Return, Buf!Finish
  <2>2. ~end /\ late = 0 /\ (bufferConsumer = "new" <=> bufferProducer = "new")
    BY <2>1, Facts DEF Buf!WakeInv, Buf!LateInv, Buf!Ended
  <2>3. ahead' \in Seq(Entry)
    BY <2>1, Facts, Empty
  <2>4. Buf!TypeOK'
    <3>1. end' \in BOOLEAN /\ (end' <=> bufferConsumer' \in Buf!Ended /\ bufferProducer' # "new")
      <4>1. CASE bufferConsumer = "holding"
        BY <2>1, <2>2, <4>1 DEF Buf!Ended
      <4>2. CASE bufferConsumer = "new"
        <5>1. bufferProducer' = "new" /\ end' = end
          BY <2>1, <2>2, <4>2
        <5>2. end \in BOOLEAN
          BY Facts DEF Buf!TypeOK
        <5> QED
          BY <2>2, <5>1, <5>2
      <4> QED
        BY <2>1, <4>1, <4>2
    <3>2. bufferConsumer' \in {"new", "awaiting", "woken", "holding"} \cup Buf!Ended
      BY <2>1 DEF Buf!Ended
    <3> QED
      BY <2>1, <2>3, <3>1, <3>2, Facts DEF Buf!TypeOK, Entry
  <2> QED
    BY <2>1, <2>2, <2>4, Facts DEF Buf!IInv, Buf!LateInv, Buf!WakeInv, Buf!Ended
<1> QED
  BY <1>1, <1>2, <1>3, <1>4

\* Every step of the buffer keeps its invariant.
LEMMA BufStep == Buf!IInv /\ [Buf!Next]_bufVars => Buf!IInv'
<1>1. ASSUME Buf!IInv, UNCHANGED bufVars PROVE Buf!IInv'
  BY <1>1 DEF bufVars, Buf!IInv, Buf!TypeOK, Buf!LateInv, Buf!WakeInv, Buf!AheadInv,
              Buf!RoomInv, Buf!ItemsLeft
<1> QED
  BY <1>1, BufPull, BufRoomFound, BufInputEnds, BufConsumer DEF Buf!Next

-----------------------------------------------------------------------------
(* multiplexAsync().                                                        *)

Number == 1..MaxItems
NumberOrError == Number \cup {Mux!InputError}

MuxStream(o) ==
  IsStream(fed[o], buffer[o], received[o], reader[o], closed[o], Mux!InputError)

Places == {"new", "waiting", "woken", "holding", "done", "threw", "stopped"}

LEMMA Streams ==
  /\ Mux!Out!StreamInv <=> \A o \in Mux!Outputs : MuxStream(o)
  /\ Mux!Out!StreamInv' <=> \A o \in Mux!Outputs : MuxStream(o)'
<1>1. ASSUME NEW o \in Mux!Outputs, NEW f, NEW b, NEW got, NEW place, NEW shut
      PROVE  /\ Mux!Out!IsFifo(f, b, got, place = "threw") <=>
                   /\ Order(f, b, got, Gone(got, place))
                   /\ place = "threw" => f[Gone(got, place)] = Mux!InputError
             /\ [q \in Mux!Outputs |-> q][o] = o
  <2>1. CASE place = "threw"
    BY <2>1 DEF Mux!Out!IsFifo, Order, Gone
  <2>2. CASE place # "threw"
    BY <2>2 DEF Mux!Out!IsFifo, Order, Gone
  <2> QED
    BY <2>1, <2>2
<1>2. Mux!Out!StreamInv <=> \A o \in Mux!Outputs : MuxStream(o)
  BY <1>1 DEF Mux!Out!StreamInv, Mux!Out!ErrorIsLast, MuxStream, IsStream
<1>3. Mux!Out!StreamInv' <=> \A o \in Mux!Outputs : MuxStream(o)'
  BY <1>1 DEF Mux!Out!StreamInv, Mux!Out!ErrorIsLast, MuxStream, IsStream
<1> QED
  BY <1>2, <1>3

MuxType ==
  /\ buffer \in [Mux!Outputs -> Seq(NumberOrError)]
  /\ closed \in [Mux!Outputs -> BOOLEAN]
  /\ reader \in [Mux!Outputs -> Places]
  /\ received \in [Mux!Outputs -> Seq(Number)]
  /\ fed \in [Mux!Outputs -> Seq(NumberOrError)]
  /\ taken \in [Mux!Outputs -> Seq(NumberOrError)]

LEMMA MuxTyped == (Mux!Out!TypeOK <=> MuxType) /\ (Mux!Out!TypeOK' <=> MuxType')
<1>1. Places = {"new", "waiting", "woken", "holding"} \cup Mux!Out!Ended
  BY DEF Places, Mux!Out!Ended
<1>2. Mux!Out!TypeOK <=> MuxType
  BY <1>1 DEF Mux!Out!TypeOK, MuxType, Number, NumberOrError
<1>3. Mux!Out!TypeOK' <=> MuxType'
  BY <1>1 DEF Mux!Out!TypeOK, MuxType, Number, NumberOrError
<1> QED
  BY <1>2, <1>3

LEMMA NumberFacts ==
  Mux!InputError = 0 /\ Mux!InputError \notin Number /\ \A n \in Number : n \in NumberOrError
  BY DEF Number, NumberOrError, Mux!InputError

LEMMA MuxFacts ==
  ASSUME Mux!Out!TypeOK, Mux!Out!StreamInv, NEW o \in Mux!Outputs
  PROVE  /\ MuxStream(o) /\ closed[o] \in BOOLEAN /\ reader[o] \in Places
         /\ buffer[o] \in Seq(NumberOrError) /\ fed[o] \in Seq(NumberOrError)
         /\ received[o] \in Seq(Number)
         /\ Len(buffer[o]) \in Nat /\ Len(fed[o]) \in Nat /\ Len(received[o]) \in Nat
         /\ DOMAIN buffer[o] = 1..Len(buffer[o]) /\ DOMAIN fed[o] = 1..Len(fed[o])
         /\ DOMAIN received[o] = 1..Len(received[o])
<1>1. /\ MuxStream(o) /\ closed[o] \in BOOLEAN /\ reader[o] \in Places
      /\ buffer[o] \in Seq(NumberOrError) /\ fed[o] \in Seq(NumberOrError)
      /\ received[o] \in Seq(Number)
  BY Streams, MuxTyped DEF MuxType
<1> QED
  BY <1>1, Lengths

\* An item is fed to all outputs.
LEMMA MuxFeedAll ==
  ASSUME Mux!Out!TypeOK, Mux!Out!StreamInv, NEW x \in Number, Mux!Out!FeedAll(Mux!Outputs, x)
  PROVE  /\ Mux!Out!TypeOK' /\ Mux!Out!StreamInv'
         /\ closed' = closed /\ received' = received
         /\ \A o \in Mux!Outputs :
               /\ ~closed[o]
               /\ buffer'[o] = Append(buffer[o], x) /\ fed'[o] = Append(fed[o], x)
               /\ reader'[o] = IF reader[o] = "waiting" THEN "woken" ELSE reader[o]
<1>1. /\ \A o \in Mux!Outputs : ~closed[o]
      /\ buffer' = [o \in Mux!Outputs |-> Append(buffer[o], x)]
      /\ fed' = [o \in Mux!Outputs |-> Append(fed[o], x)]
      /\ reader' = [o \in Mux!Outputs |-> IF reader[o] = "waiting" THEN "woken" ELSE reader[o]]
      /\ UNCHANGED <<closed, received, taken>>
  BY DEF Mux!Out!FeedAll, Mux!Out!Wake
<1>2. ASSUME NEW o \in Mux!Outputs
      PROVE  /\ buffer'[o] \in Seq(NumberOrError) /\ fed'[o] \in Seq(NumberOrError)
             /\ reader'[o] \in Places
             /\ MuxStream(o)'
  <2>1. buffer'[o] = buffer[o] \o <<x>> /\ fed'[o] = fed[o] \o <<x>> /\ <<x>> \in Seq(Number)
    <3>1. x \in NumberOrError
      BY NumberFacts
    <3>2. Append(buffer[o], x) = buffer[o] \o <<x>> /\ Append(fed[o], x) = fed[o] \o <<x>>
      BY <3>1, MuxFacts, OneMore
    <3>3. <<x>> \in Seq(Number)
      OBVIOUS
    <3> QED
      BY <1>1, <3>2, <3>3
  <2>2. reader'[o] = (IF reader[o] = "waiting" THEN "woken" ELSE reader[o])
        /\ received'[o] = received[o] /\ closed'[o] = closed[o] /\ ~closed[o]
    BY <1>1
  <2>3. reader'[o] \in Places
    BY <2>2, MuxFacts DEF Places
  <2> DEFINE p == reader'[o]
             f == fed'[o]
             b == buffer'[o]
  <2>4. PICK s \in Seq(Number) : s = <<x>>
    BY <2>1
  <2>5. fed[o] \o s \in Seq(NumberOrError) /\ buffer[o] \o s \in Seq(NumberOrError)
        /\ IsStream(fed[o] \o s, buffer[o] \o s, received[o], p, closed[o], Mux!InputError)
    <3>1. p = reader[o] \/ (reader[o] = "waiting" /\ p = "woken")
      BY <2>2
    <3>2. p # "waiting"
      BY <2>2
    <3> HIDE DEF p
    <3> QED
      BY <2>2, <3>1, <3>2, MuxFacts, NumberFacts, StreamFeed DEF MuxStream, NumberOrError
  <2> QED
    BY <2>1, <2>2, <2>3, <2>4, <2>5 DEF MuxStream
<1>3. Mux!Out!TypeOK'
  <2>1. buffer' \in [Mux!Outputs -> Seq(NumberOrError)] /\ fed' \in [Mux!Outputs -> Seq(NumberOrError)]
    BY <1>1, <1>2
  <2>2. reader' \in [Mux!Outputs -> Places]
    BY <1>1, <1>2
  <2> QED
    BY <1>1, <2>1, <2>2, MuxTyped DEF MuxType
<1>4. Mux!Out!StreamInv'
  BY <1>2, Streams
<1> QED
  BY <1>1, <1>3, <1>4

\* All outputs are closed, by end() or throw().
LEMMA MuxClose ==
  ASSUME Mux!Out!TypeOK, Mux!Out!StreamInv, \A o \in Mux!Outputs : ~closed[o],
         Mux!Out!End(Mux!Outputs) \/ Mux!Out!Throw(Mux!Outputs)
  PROVE  /\ Mux!Out!TypeOK' /\ Mux!Out!StreamInv'
         /\ received' = received
         /\ \A o \in Mux!Outputs :
               /\ closed'[o]
               /\ \/ fed'[o] = fed[o] /\ buffer'[o] = buffer[o]
                  \/ fed'[o] = Append(fed[o], Mux!InputError)
               /\ reader'[o] = IF reader[o] = "waiting" THEN "woken" ELSE reader[o]
<1>1. /\ \/ buffer' = buffer /\ fed' = fed
         \/ /\ buffer' = [o \in Mux!Outputs |-> Append(buffer[o], Mux!InputError)]
            /\ fed' = [o \in Mux!Outputs |-> Append(fed[o], Mux!InputError)]
      /\ closed' = [o \in Mux!Outputs |-> TRUE]
      /\ reader' = [o \in Mux!Outputs |-> IF reader[o] = "waiting" THEN "woken" ELSE reader[o]]
      /\ UNCHANGED <<received, taken>>
  BY DEF Mux!Out!End, Mux!Out!Throw, Mux!Out!Wake
<1>2. ASSUME NEW o \in Mux!Outputs
      PROVE  /\ buffer'[o] \in Seq(NumberOrError) /\ fed'[o] \in Seq(NumberOrError)
             /\ reader'[o] \in Places
             /\ MuxStream(o)'
  <2>1. reader'[o] = (IF reader[o] = "waiting" THEN "woken" ELSE reader[o])
        /\ received'[o] = received[o] /\ closed'[o] = TRUE /\ ~closed[o]
    BY <1>1
  <2>2. reader'[o] \in Places
    BY <2>1, MuxFacts DEF Places
  <2> DEFINE p == reader'[o]
  <2>3. p = (IF reader[o] = "waiting" THEN "woken" ELSE reader[o])
    BY <2>1
  <2> HIDE DEF p
  <2>4. CASE buffer' = buffer /\ fed' = fed
    <3>1. IsStream(fed[o], buffer[o], received[o], p, TRUE, Mux!InputError)
      BY <2>1, <2>3, MuxFacts, StreamEnd DEF MuxStream
    <3> QED
      BY <2>1, <2>2, <2>4, <3>1, MuxFacts DEF MuxStream, p
  <2>5. CASE /\ buffer' = [q \in Mux!Outputs |-> Append(buffer[q], Mux!InputError)]
             /\ fed' = [q \in Mux!Outputs |-> Append(fed[q], Mux!InputError)]
    <3>1. /\ Append(fed[o], Mux!InputError) \in Seq(NumberOrError)
          /\ Append(buffer[o], Mux!InputError) \in Seq(NumberOrError)
          /\ IsStream(Append(fed[o], Mux!InputError), Append(buffer[o], Mux!InputError),
                      received[o], p, TRUE, Mux!InputError)
      BY <2>1, <2>3, MuxFacts, NumberFacts, StreamThrow DEF MuxStream, NumberOrError
    <3> QED
      BY <2>1, <2>2, <2>5, <3>1 DEF MuxStream, p
  <2> QED
    BY <1>1, <2>4, <2>5
<1>3. Mux!Out!TypeOK'
  <2>1. buffer' \in [Mux!Outputs -> Seq(NumberOrError)] /\ fed' \in [Mux!Outputs -> Seq(NumberOrError)]
    BY <1>1, <1>2, MuxTyped DEF MuxType
  <2>2. reader' \in [Mux!Outputs -> Places] /\ closed' \in [Mux!Outputs -> BOOLEAN]
    BY <1>1, <1>2
  <2> QED
    BY <1>1, <2>1, <2>2, MuxTyped DEF MuxType
<1>4. Mux!Out!StreamInv'
  BY <1>2, Streams
<1> QED
  BY <1>1, <1>3, <1>4

\* A reader takes what is first, ends or waits.
LEMMA MuxTurn ==
  ASSUME Mux!Out!TypeOK, Mux!Out!StreamInv, NEW o \in Mux!Outputs, Mux!Out!Turn(o),
         reader[o] \in {"new", "holding", "woken"}
  PROVE  /\ Mux!Out!TypeOK' /\ Mux!Out!StreamInv'
         /\ closed' = closed /\ fed' = fed
         /\ \A q \in Mux!Outputs : q # o =>
               buffer'[q] = buffer[q] /\ reader'[q] = reader[q] /\ received'[q] = received[q]
         /\ \/ /\ reader'[o] = "holding" /\ buffer[o] # <<>>
               /\ buffer'[o] = Tail(buffer[o]) /\ Len(received'[o]) = Len(received[o]) + 1
            \/ /\ reader'[o] = "threw" /\ received'[o] = received[o] /\ closed[o]
               /\ buffer'[o] = Tail(buffer[o]) /\ buffer[o] # <<>>
            \/ /\ reader'[o] = IF closed[o] THEN "done" ELSE "waiting"
               /\ buffer[o] = <<>> /\ buffer'[o] = buffer[o] /\ received'[o] = received[o]
<1> DEFINE entry == Head(buffer[o])
<1>1. /\ UNCHANGED <<closed, fed>>
      /\ \/ /\ buffer[o] # <<>> /\ buffer' = [buffer EXCEPT ![o] = Tail(@)]
            /\ taken' = [taken EXCEPT ![o] = Append(@, entry)]
            /\ \/ /\ entry = Mux!InputError /\ reader' = [reader EXCEPT ![o] = "threw"]
                  /\ received' = received
               \/ /\ entry # Mux!InputError /\ reader' = [reader EXCEPT ![o] = "holding"]
                  /\ received' = [received EXCEPT ![o] = Append(@, entry)]
         \/ /\ buffer[o] = <<>>
            /\ reader' = [reader EXCEPT ![o] = IF closed[o] THEN "done" ELSE "waiting"]
            /\ UNCHANGED <<buffer, received, taken>>
  BY DEF Mux!Out!Turn, Mux!Out!Take
<1>2. /\ buffer \in [Mux!Outputs -> Seq(NumberOrError)] /\ reader \in [Mux!Outputs -> Places]
      /\ received \in [Mux!Outputs -> Seq(Number)] /\ taken \in [Mux!Outputs -> Seq(NumberOrError)]
  BY MuxTyped DEF MuxType
<1>3. \A q \in Mux!Outputs : q # o =>
         buffer'[q] = buffer[q] /\ reader'[q] = reader[q] /\ received'[q] = received[q]
  BY <1>1, <1>2
<1>4. CASE buffer[o] # <<>>
  <2>1. /\ entry \in NumberOrError /\ Tail(buffer[o]) \in Seq(NumberOrError)
        /\ entry = buffer[o][1] /\ 1 \in DOMAIN buffer[o]
    BY <1>4, MuxFacts, TailIndices
  <2>2. buffer'[o] = Tail(buffer[o]) /\ buffer' \in [Mux!Outputs -> Seq(NumberOrError)]
    BY <1>1, <1>2, <1>4, <2>1
  <2>3. taken' \in [Mux!Outputs -> Seq(NumberOrError)]
    <3>1. taken[o] \in Seq(NumberOrError)
      BY <1>2
    <3>2. Append(taken[o], entry) \in Seq(NumberOrError)
      BY <2>1, <3>1, AppendIndices
    <3> HIDE DEF entry
    <3> QED
      BY <1>1, <1>2, <1>4, <3>2
  <2>4. CASE entry = Mux!InputError
    <3>1. /\ reader' = [reader EXCEPT ![o] = "threw"] /\ received' = received
          /\ reader'[o] = "threw"
      BY <1>1, <1>2, <1>4, <2>4
    <3>2. IsStream(fed[o], Tail(buffer[o]), received[o], "threw", closed[o], Mux!InputError)
      BY <1>4, <2>4, MuxFacts, NumberFacts, StreamTake DEF MuxStream, NumberOrError
    <3>3. MuxStream(o)'
      BY <1>1, <2>2, <3>1, <3>2 DEF MuxStream
    <3>4. Mux!Out!StreamInv'
      BY <1>1, <1>3, <3>3, Streams DEF MuxStream
    <3>5. Mux!Out!TypeOK'
      <4>1. reader' \in [Mux!Outputs -> Places]
        BY <1>2, <3>1 DEF Places
      <4> QED
        BY <1>1, <2>2, <2>3, <3>1, <4>1, MuxTyped DEF MuxType
    <3>6. closed[o]
      BY <1>4, <2>4, MuxFacts, NumberFacts, StreamTake DEF MuxStream, NumberOrError
    <3> QED
      BY <1>1, <1>3, <1>4, <2>2, <3>1, <3>4, <3>5, <3>6
  <2>5. CASE entry # Mux!InputError
    <3>1. /\ reader' = [reader EXCEPT ![o] = "holding"]
          /\ received' = [received EXCEPT ![o] = Append(@, entry)]
          /\ reader'[o] = "holding" /\ received'[o] = Append(received[o], entry)
      BY <1>1, <1>2, <1>4, <2>5
    <3>2. /\ Append(received[o], entry) \in Seq(Number)
          /\ IsStream(fed[o], Tail(buffer[o]), Append(received[o], entry), "holding", closed[o],
                      Mux!InputError)
      BY <1>4, <2>5, MuxFacts, NumberFacts, StreamTake DEF MuxStream, NumberOrError
    <3>3. MuxStream(o)'
      BY <1>1, <2>2, <3>1, <3>2 DEF MuxStream
    <3>4. Mux!Out!StreamInv'
      BY <1>1, <1>3, <3>3, Streams DEF MuxStream
    <3>5. Mux!Out!TypeOK'
      <4>1. reader' \in [Mux!Outputs -> Places]
        BY <1>2, <3>1 DEF Places
      <4>2. received' \in [Mux!Outputs -> Seq(Number)]
        BY <1>2, <3>1, <3>2
      <4> QED
        BY <1>1, <2>2, <2>3, <4>1, <4>2, MuxTyped DEF MuxType
    <3>6. Len(received'[o]) = Len(received[o]) + 1
      <4>1. entry \in Number
        BY <2>1, <2>5 DEF NumberOrError
      <4> QED
        BY <3>1, <4>1, MuxFacts, AppendIndices
    <3> QED
      BY <1>1, <1>3, <1>4, <2>2, <3>1, <3>4, <3>5, <3>6
  <2> QED
    BY <2>4, <2>5
<1>5. CASE buffer[o] = <<>>
  <2>1. /\ reader' = [reader EXCEPT ![o] = IF closed[o] THEN "done" ELSE "waiting"]
        /\ reader'[o] = (IF closed[o] THEN "done" ELSE "waiting")
        /\ UNCHANGED <<buffer, received, taken>>
    BY <1>1, <1>2, <1>5
  <2> DEFINE p == reader'[o]
  <2>2. p = (IF closed[o] THEN "done" ELSE "waiting") /\ p \in Places
    BY <2>1 DEF Places
  <2> HIDE DEF p
  <2>3. IsStream(fed[o], buffer[o], received[o], p, closed[o], Mux!InputError)
    BY <1>5, <2>2, MuxFacts, StreamRests DEF MuxStream
  <2>4. MuxStream(o)'
    BY <1>1, <2>1, <2>3 DEF MuxStream, p
  <2>5. Mux!Out!StreamInv'
    BY <1>1, <1>3, <2>4, Streams DEF MuxStream
  <2>6. Mux!Out!TypeOK'
    <3>1. reader' \in [Mux!Outputs -> Places]
      BY <1>2, <2>1 DEF Places
    <3> QED
      BY <1>1, <2>1, <3>1, MuxTyped DEF MuxType
  <2> QED
    BY <1>1, <1>3, <1>5, <2>1, <2>5, <2>6
<1> QED
  BY <1>4, <1>5

\* A reader is told to return.
LEMMA MuxReturn ==
  ASSUME Mux!Out!TypeOK, Mux!Out!StreamInv, NEW o \in Mux!Outputs, Mux!Out!Return(o)
  PROVE  /\ Mux!Out!TypeOK' /\ Mux!Out!StreamInv'
         /\ reader[o] \in {"new", "holding"} /\ reader'[o] = "stopped"
         /\ \A q \in Mux!Outputs : q # o => reader'[q] = reader[q]
         /\ UNCHANGED <<buffer, closed, received, fed, taken>>
<1>1. /\ reader[o] \in {"new", "holding"}
      /\ reader' = [reader EXCEPT ![o] = "stopped"]
      /\ UNCHANGED <<buffer, closed, received, fed, taken>>
  BY DEF Mux!Out!Return
<1>2. reader \in [Mux!Outputs -> Places]
  BY MuxTyped DEF MuxType
<1>3. /\ reader'[o] = "stopped" /\ \A q \in Mux!Outputs : q # o => reader'[q] = reader[q]
      /\ reader' \in [Mux!Outputs -> Places]
  BY <1>1, <1>2 DEF Places
<1>4. IsStream(fed[o], buffer[o], received[o], "stopped", closed[o], Mux!InputError)
  BY <1>1, MuxFacts, StreamRests DEF MuxStream
<1>5. MuxStream(o)'
  BY <1>1, <1>3, <1>4 DEF MuxStream
<1>6. Mux!Out!StreamInv'
  BY <1>1, <1>3, <1>5, Streams DEF MuxStream
<1>7. Mux!Out!TypeOK'
  BY <1>1, <1>3, MuxTyped DEF MuxType
<1> QED
  BY <1>1, <1>3, <1>6, <1>7

\* A reader that is through has been given all that was fed.
LEMMA MuxEnded ==
  ASSUME Mux!Out!TypeOK, Mux!Out!StreamInv, NEW o \in Mux!Outputs
  PROVE  /\ \A n \in DOMAIN received[o] : n \in DOMAIN fed[o] /\ received[o][n] = fed[o][n]
         /\ reader[o] = "done" => /\ closed[o] /\ Len(fed[o]) = Len(received[o])
                                 /\ \A n \in DOMAIN fed[o] : fed[o][n] # Mux!InputError
         /\ reader[o] = "threw" => /\ closed[o] /\ Len(fed[o]) = Len(received[o]) + 1
                                  /\ fed[o][Len(fed[o])] = Mux!InputError
<1>1. /\ IsStream(fed[o], buffer[o], received[o], reader[o], closed[o], Mux!InputError)
      /\ fed[o] \in Seq(NumberOrError) /\ buffer[o] \in Seq(NumberOrError)
      /\ received[o] \in Seq(Number)
  BY MuxFacts DEF MuxStream
<1>2. NumberOrError = Number \cup {Mux!InputError} /\ Mux!InputError \notin Number
  BY NumberFacts DEF NumberOrError
<1> QED
  BY <1>1, <1>2, StreamEnded

LEMMA TwoOutputs == Mux!Outputs = {1, 2} /\ Mux!Outputs = 1..2
  BY DEF Mux!Outputs

LEMMA MuxInit == Mux!Init => Mux!IInv
<1> SUFFICES ASSUME Mux!Init PROVE Mux!IInv
  OBVIOUS
<1>1. /\ buffer = [o \in Mux!Outputs |-> <<>>] /\ closed = [o \in Mux!Outputs |-> FALSE]
      /\ reader = [o \in Mux!Outputs |-> "new"] /\ received = [o \in Mux!Outputs |-> <<>>]
      /\ fed = [o \in Mux!Outputs |-> <<>>] /\ taken = [o \in Mux!Outputs |-> <<>>]
      /\ producer = "pulling" /\ position = 1 /\ pulled = 0
  BY DEF Mux!Init, Mux!Out!Init
<1>2. \A T : <<>> \in Seq(T)
  BY Empty
<1>3. MuxType
  BY <1>1, <1>2 DEF MuxType, Places
<1>4. ASSUME NEW o \in Mux!Outputs PROVE MuxStream(o)
  <2>1. buffer[o] = <<>> /\ fed[o] = <<>> /\ received[o] = <<>> /\ reader[o] = "new"
    BY <1>1
  <2>2. Gone(<<>>, "new") = 0 /\ DOMAIN <<>> = {}
    BY DEF Gone
  <2>3. Order(<<>>, <<>>, <<>>, 0)
    BY DEF Order
  <2> QED
    BY <2>1, <2>2, <2>3 DEF MuxStream, IsStream
<1>5. Mux!TypeOK
  <2>1. \A o \in Mux!Outputs : closed[o] = (producer = "ended")
    BY <1>1
  <2>2. producer \in {"pulling", "awaiting", "woken", "ended"} /\ position \in Mux!Outputs
        /\ pulled \in 0..MaxItems
    BY <1>1, TwoOutputs
  <2> QED
    BY <1>3, <2>1, <2>2, MuxTyped DEF Mux!TypeOK
<1>6. ASSUME NEW o \in Mux!Outputs PROVE Mux!FedInv(o)
  <2>1. Len(fed[o]) = 0 /\ Len(received[o]) = 0
    BY <1>1, Empty
  <2>2. Mux!Fed = 0
    BY <1>1 DEF Mux!Fed
  <2> QED
    BY <2>1, <2>2 DEF Mux!FedInv
<1>7. Mux!DrainInv
  BY <1>1 DEF Mux!DrainInv
<1> QED
  BY <1>4, <1>5, <1>6, <1>7, Streams DEF Mux!IInv

\* What the invariant says of an output.
LEMMA OutputFacts ==
  ASSUME Mux!IInv, NEW o \in Mux!Outputs
  PROVE  /\ Mux!TypeOK /\ Mux!Out!TypeOK /\ Mux!Out!StreamInv /\ Mux!DrainInv
         /\ Mux!FedInv(o)
         /\ producer \in {"pulling", "awaiting", "woken", "ended"} /\ position \in Mux!Outputs
         /\ pulled \in 0..MaxItems /\ pulled \in Nat
         /\ Mux!Fed \in Nat /\ Mux!Fed <= pulled /\ pulled <= Mux!Fed + 1
         /\ (producer \notin {"awaiting", "woken"} => Mux!Fed = pulled)
         /\ (producer \in {"awaiting", "woken"} => Mux!Fed = pulled - 1)
         /\ closed[o] <=> producer = "ended"
         /\ ~closed[o] => Len(fed[o]) = Mux!Fed
         /\ ~closed[o] => Len(fed[o]) = Len(received[o]) + Len(buffer[o])
<1>1. /\ Mux!TypeOK /\ Mux!Out!TypeOK /\ Mux!Out!StreamInv /\ Mux!DrainInv /\ Mux!FedInv(o)
      /\ producer \in {"pulling", "awaiting", "woken", "ended"} /\ position \in Mux!Outputs
      /\ pulled \in 0..MaxItems
  BY DEF Mux!IInv, Mux!TypeOK
<1>2. closed[o] <=> producer = "ended"
  <2>1. closed[o] = (producer = "ended") /\ closed[o] \in BOOLEAN
    BY <1>1, MuxFacts DEF Mux!TypeOK
  <2> QED
    BY <2>1
<1>3. producer \in {"awaiting", "woken"} => pulled >= 1
  BY <1>1 DEF Mux!DrainInv
<1>4. /\ Mux!Fed \in Nat /\ Mux!Fed <= pulled /\ pulled <= Mux!Fed + 1
      /\ (producer \notin {"awaiting", "woken"} => Mux!Fed = pulled)
      /\ (producer \in {"awaiting", "woken"} => Mux!Fed = pulled - 1)
  BY <1>1, <1>3 DEF Mux!Fed
<1>5. ASSUME ~closed[o]
      PROVE  Len(fed[o]) = Mux!Fed /\ Len(fed[o]) = Len(received[o]) + Len(buffer[o])
  <2>0. /\ MuxStream(o) /\ fed[o] \in Seq(NumberOrError) /\ Len(fed[o]) \in Nat
        /\ DOMAIN fed[o] = 1..Len(fed[o]) /\ received[o] \in Seq(Number)
        /\ Len(received[o]) \in Nat
    BY <1>1, MuxFacts
  <2>1. \A n \in DOMAIN fed[o] : fed[o][n] # Mux!InputError
    BY <1>5, <2>0 DEF MuxStream, IsStream
  <2>2. Len(fed[o]) = Mux!Fed
    <3>1. SUFFICES ASSUME Len(fed[o]) = Mux!Fed + 1, fed[o][Mux!Fed + 1] = Mux!InputError
                   PROVE  FALSE
      BY <1>1 DEF Mux!FedInv
    <3>2. Mux!Fed + 1 \in DOMAIN fed[o]
      BY <1>4, <2>0, <3>1
    <3> QED
      BY <2>1, <3>1, <3>2
  <2>3. reader[o] # "threw"
    BY <1>1, <1>5, MuxEnded
  <2>4. Len(fed[o]) = Len(received[o]) + Len(buffer[o])
    BY <2>0, <2>3 DEF MuxStream, IsStream, Order, Gone
  <2> QED
    BY <2>2, <2>4
<1>6. pulled \in Nat
  BY <1>1
<1> QED
  BY <1>1, <1>2, <1>4, <1>5, <1>6

\* What an output was given, as far as FedInv is about it.
Counts(f, m, got) ==
    /\ \A n \in 1..m : f[n] = n
    /\ \/ Len(f) = m
       \/ Len(f) = m + 1 /\ f[m + 1] = Mux!InputError
    /\ m <= got + Limit

LEMMA CountsMore ==
  ASSUME NEW f \in Seq(NumberOrError), NEW m \in Nat, NEW got \in Nat, NEW x \in NumberOrError,
         NEW g, g = Append(f, x), x = m + 1, Counts(f, m, got), Len(f) = m, m < got + Limit
  PROVE  Counts(g, m + 1, got)
<1>1. Len(g) = m + 1 /\ g[m + 1] = x /\ \A n \in 1..m : g[n] = f[n]
  BY AppendIndices
<1>2. \A n \in 1..m : f[n] = n
  BY DEF Counts
<1>3. ASSUME NEW n \in 1..(m + 1) PROVE g[n] = n
  BY <1>1, <1>2
<1>4. m + 1 <= got + Limit
  BY LimitAssumption
<1> QED
  BY <1>1, <1>3, <1>4 DEF Counts

LEMMA FedCounts ==
  ASSUME NEW o
  PROVE  /\ Mux!FedInv(o) <=> Counts(fed[o], Mux!Fed, Len(received[o]))
         /\ Mux!FedInv(o)' <=> Counts(fed'[o], Mux!Fed', Len(received'[o]))
  BY DEF Mux!FedInv, Counts

\* The item that is to be fed.
NextItem(x) == x = Mux!Fed + 1

\* waitForDrain(), and what it leads to.
LEMMA MuxDrain ==
  ASSUME Mux!IInv, NEW p \in Mux!Outputs, Mux!Drain(p), pulled' \in Number,
         NextItem(pulled'), producer # "ended", \A q \in 1..(p - 1) : ~Mux!Full(q)
  PROVE  /\ Mux!IInv' /\ received' = received
         /\ \A o \in Mux!Outputs : reader'[o] = reader[o] \/ reader[o] = "waiting"
<1>0. \A o \in Mux!Outputs : ~closed[o] /\ Len(fed[o]) = Mux!Fed
                             /\ Len(fed[o]) = Len(received[o]) + Len(buffer[o])
  BY OutputFacts
<1>1. /\ Mux!TypeOK /\ Mux!Out!TypeOK /\ Mux!Out!StreamInv /\ pulled' \in 0..MaxItems
      /\ Mux!Fed \in Nat
  BY OutputFacts, TwoOutputs DEF Number
<1>2. CASE \E o \in p..2 : /\ Mux!Full(o) /\ \A q \in p..(o - 1) : ~Mux!Full(q)
                           /\ producer' = "awaiting" /\ position' = o
                           /\ UNCHANGED <<buffer, closed, reader, received, fed, taken>>
  <2>1. PICK o \in Mux!Outputs :
            /\ Mux!Full(o) /\ \A q \in 1..(o - 1) : ~Mux!Full(q)
            /\ producer' = "awaiting" /\ position' = o
            /\ UNCHANGED <<buffer, closed, reader, received, fed, taken>>
    BY <1>2, TwoOutputs
  <2>2. Mux!Fed' = Mux!Fed
    BY <1>1, <2>1 DEF Mux!Fed, Number, NextItem
  <2>3. \A q \in Mux!Outputs : Mux!FedInv(q)'
    BY <2>1, <2>2, OutputFacts DEF Mux!FedInv
  <2>4. Mux!Out!TypeOK' /\ Mux!Out!StreamInv'
    <3>1. MuxType' /\ \A q \in Mux!Outputs : MuxStream(q)'
      BY <1>1, <2>1, MuxTyped, Streams DEF MuxType, MuxStream
    <3> QED
      BY <3>1, MuxTyped, Streams
  <2>5. Mux!TypeOK'
    BY <1>0, <1>1, <2>1, <2>4, OutputFacts DEF Mux!TypeOK
  <2>6. Mux!DrainInv'
    <3>1. buffer[o] # <<>>
      <4>1. Len(buffer[o]) >= Limit
        BY <2>1 DEF Mux!Full
      <4>2. Len(buffer[o]) >= 1
        BY <1>1, <4>1, MuxFacts
      <4> QED
        BY <4>2
    <3>2. reader[o] \notin {"waiting", "done", "threw"}
      <4>1. MuxStream(o)
        BY <1>1, MuxFacts
      <4>3. reader[o] # "threw"
        BY <1>0, <1>1, MuxEnded
      <4> QED
        BY <3>1, <4>1, <4>3 DEF MuxStream, IsStream
    <3>3. pulled' >= 1
      BY DEF Number
    <3>4. \A q \in 1..(position' - 1) : ~Mux!Full(q)'
      BY <2>1 DEF Mux!Full
    <3> QED
      BY <2>1, <3>1, <3>2, <3>3, <3>4 DEF Mux!DrainInv
  <2> QED
    BY <2>1, <2>3, <2>4, <2>5, <2>6 DEF Mux!IInv
<1>3. CASE /\ \A o \in p..2 : ~Mux!Full(o)
           /\ producer' = "pulling" /\ position' = 1
           /\ Mux!Out!FeedAll(Mux!Outputs, pulled')
  <2>1. PICK x \in Number : x = pulled'
    OBVIOUS
  <2>2. /\ Mux!Out!TypeOK' /\ Mux!Out!StreamInv'
        /\ closed' = closed /\ received' = received
        /\ \A o \in Mux!Outputs : fed'[o] = Append(fed[o], x)
        /\ \A o \in Mux!Outputs : reader'[o] = IF reader[o] = "waiting" THEN "woken" ELSE reader[o]
    BY <1>1, <1>3, <2>1, MuxFeedAll
  <2>3. \A o \in Mux!Outputs : ~Mux!Full(o)
    BY <1>3, TwoOutputs
  <2>4. producer' = "pulling" /\ position' = 1
    BY <1>3, TwoOutputs
  <2>5. Mux!Fed' = Mux!Fed + 1 /\ x = Mux!Fed + 1
    BY <1>1, <2>1, <2>4 DEF Mux!Fed, NextItem
  <2>6. ASSUME NEW o \in Mux!Outputs PROVE Mux!FedInv(o)'
    <3>1. /\ fed[o] \in Seq(NumberOrError) /\ Len(received[o]) \in Nat /\ Len(buffer[o]) \in Nat
          /\ Len(buffer[o]) < Limit
      BY <1>1, <2>3, MuxFacts DEF Mux!Full
    <3>2. x \in NumberOrError /\ Mux!FedInv(o)
      BY NumberFacts, OutputFacts
    <3>3. Counts(fed[o], Mux!Fed, Len(received[o]))
      BY <3>2, FedCounts
    <3>4. Counts(fed'[o], Mux!Fed + 1, Len(received[o]))
      <4>1. Len(fed[o]) = Mux!Fed /\ Len(fed[o]) = Len(received[o]) + Len(buffer[o])
        BY <1>0
      <4>2. Mux!Fed < Len(received[o]) + Limit
        <5>1. Limit \in Nat
          BY LimitAssumption
        <5>2. \A a, b, c \in Nat : c < Limit /\ a = b + c => a < b + Limit
          BY <5>1
        <5>3. Mux!Fed \in Nat /\ Mux!Fed = Len(received[o]) + Len(buffer[o])
          BY <1>1, <4>1
        <5> QED
          BY <3>1, <5>2, <5>3
      <4>3. fed'[o] = Append(fed[o], x) /\ x = Mux!Fed + 1 /\ x \in NumberOrError
        BY <2>2, <2>5, <3>2
      <4> HIDE DEF Counts
      <4> QED
        BY <1>1, <3>1, <3>3, <4>1, <4>2, <4>3, CountsMore
    <3> QED
      BY <2>2, <2>5, <3>4, FedCounts
  <2>7. Mux!TypeOK'
    BY <1>0, <1>1, <2>2, <2>4, TwoOutputs DEF Mux!TypeOK
  <2>8. Mux!DrainInv'
    BY <2>4 DEF Mux!DrainInv
  <2> QED
    BY <2>2, <2>6, <2>7, <2>8 DEF Mux!IInv
<1> QED
  BY <1>2, <1>3, TwoOutputs DEF Mux!Drain, Mux!outVars


\* Steps of multiplexTo().
LEMMA MuxProducer ==
  ASSUME Mux!IInv, Mux!Pull \/ Mux!RoomFound \/ Mux!InputEnds \/ Mux!InputThrows
  PROVE  /\ Mux!IInv' /\ received' = received
         /\ \A o \in Mux!Outputs : reader'[o] = reader[o] \/ reader[o] = "waiting"
<1>0. 1 \in Mux!Outputs
  BY TwoOutputs
<1>1. /\ Mux!TypeOK /\ Mux!Out!TypeOK /\ Mux!Out!StreamInv /\ Mux!DrainInv
      /\ position \in Mux!Outputs /\ pulled \in 0..MaxItems /\ pulled \in Nat /\ Mux!Fed \in Nat
      /\ (producer \notin {"awaiting", "woken"} => Mux!Fed = pulled)
      /\ (producer \in {"awaiting", "woken"} => Mux!Fed = pulled - 1)
  BY <1>0, OutputFacts
<1>2. CASE Mux!Pull
  <2>1. /\ producer = "pulling" /\ pulled < MaxItems /\ pulled' = pulled + 1
        /\ Mux!Drain(1)
    BY <1>2 DEF Mux!Pull
  <2>2. pulled' \in Number /\ NextItem(pulled')
    BY <1>1, <2>1 DEF Number, NextItem
  <2>3. \A q \in 1..(1 - 1) : ~Mux!Full(q)
    OBVIOUS
  <2> QED
    BY <1>0, <2>1, <2>2, <2>3, MuxDrain
<1>3. CASE Mux!RoomFound
  <2>1. producer = "woken" /\ pulled' = pulled /\ Mux!Drain(position)
    BY <1>3 DEF Mux!RoomFound
  <2>2. pulled >= 1 /\ \A q \in 1..(position - 1) : ~Mux!Full(q)
    BY <1>1, <2>1 DEF Mux!DrainInv
  <2>3. pulled' \in Number /\ NextItem(pulled')
    BY <1>1, <2>1, <2>2 DEF Number, NextItem
  <2> QED
    BY <1>1, <2>1, <2>2, <2>3, MuxDrain
<1>4. CASE Mux!InputEnds \/ Mux!InputThrows
  <2>1. /\ producer = "pulling" /\ producer' = "ended"
        /\ Mux!Out!End(Mux!Outputs) \/ Mux!Out!Throw(Mux!Outputs)
        /\ UNCHANGED <<position, pulled>>
    BY <1>4 DEF Mux!InputEnds, Mux!InputThrows
  <2>2. \A o \in Mux!Outputs : ~closed[o] /\ Len(fed[o]) = Mux!Fed
    BY <2>1, OutputFacts
  <2>3. /\ Mux!Out!TypeOK' /\ Mux!Out!StreamInv' /\ received' = received
        /\ \A o \in Mux!Outputs :
              /\ closed'[o]
              /\ \/ fed'[o] = fed[o] /\ buffer'[o] = buffer[o]
                 \/ fed'[o] = Append(fed[o], Mux!InputError)
              /\ reader'[o] = IF reader[o] = "waiting" THEN "woken" ELSE reader[o]
    BY <1>1, <2>1, <2>2, MuxClose
  <2>4. Mux!Fed' = Mux!Fed
    BY <1>1, <2>1 DEF Mux!Fed
  <2>5. ASSUME NEW o \in Mux!Outputs PROVE Mux!FedInv(o)'
    <3>1. Counts(fed[o], Mux!Fed, Len(received[o]))
      BY OutputFacts, FedCounts
    <3>2. Counts(fed'[o], Mux!Fed, Len(received[o]))
      <4>1. CASE fed'[o] = fed[o]
        BY <3>1, <4>1
      <4>2. CASE fed'[o] = Append(fed[o], Mux!InputError)
        <5>1. fed[o] \in Seq(NumberOrError) /\ Mux!InputError \in NumberOrError
          BY <1>1, MuxFacts DEF NumberOrError
        <5>2. /\ Len(fed'[o]) = Len(fed[o]) + 1
              /\ \A i \in 1..Len(fed[o]) : fed'[o][i] = fed[o][i]
              /\ fed'[o][Len(fed[o]) + 1] = Mux!InputError
          BY <4>2, <5>1, AppendIndices
        <5>3. Len(fed[o]) = Mux!Fed
          BY <2>2
        <5> QED
          BY <3>1, <5>2, <5>3 DEF Counts
      <4> QED
        BY <2>3, <4>1, <4>2
    <3> QED
      BY <2>3, <2>4, <3>2, FedCounts
  <2>6. Mux!TypeOK'
    <3>1. \A o \in Mux!Outputs : closed'[o] \in BOOLEAN
      BY <2>3, MuxTyped DEF MuxType
    <3>2. \A o \in Mux!Outputs : closed'[o] = (producer' = "ended")
      BY <2>1, <2>3, <3>1
    <3> QED
      BY <1>1, <2>1, <2>3, <3>2 DEF Mux!TypeOK
  <2>7. Mux!DrainInv'
    BY <2>1 DEF Mux!DrainInv
  <2> QED
    BY <2>3, <2>5, <2>6, <2>7 DEF Mux!IInv
<1> QED
  BY <1>2, <1>3, <1>4

\* The feedables' part of the invariant when only readers step.
LEMMA FedKept ==
  ASSUME Mux!IInv, fed' = fed, pulled' = pulled,
         producer' = producer \/ (producer = "awaiting" /\ producer' = "woken"),
         NEW o \in Mux!Outputs, Len(received'[o]) \in Nat, Len(received'[o]) >= Len(received[o])
  PROVE  Mux!FedInv(o)'
<1>1. Mux!Fed' = Mux!Fed
  BY DEF Mux!Fed
<1>2. Counts(fed[o], Mux!Fed, Len(received[o])) /\ Mux!Fed \in Nat
  BY OutputFacts, FedCounts
<1>3. Len(received[o]) \in Nat
  BY OutputFacts, MuxFacts
<1>4. Limit \in Nat
  BY LimitAssumption
<1>5. Mux!Fed <= Len(received'[o]) + Limit
  <2>1. \A a, b, c \in Nat : a <= b + Limit /\ c >= b => a <= c + Limit
    BY <1>4
  <2>2. Mux!Fed <= Len(received[o]) + Limit
    BY <1>2 DEF Counts
  <2> QED
    BY <1>2, <1>3, <2>1, <2>2
<1>6. Counts(fed[o], Mux!Fed, Len(received'[o]))
  BY <1>2, <1>5 DEF Counts
<1> QED
  BY <1>1, <1>6, FedCounts

\* A reader is resumed, by its consumer or by what it awaits.
LEMMA MuxReads ==
  ASSUME Mux!IInv, NEW o \in Mux!Outputs, Mux!Ask(o) \/ Mux!Resume(o)
  PROVE  /\ Mux!IInv'
         /\ reader[o] \in {"new", "holding", "woken"}
         /\ \A q \in Mux!Outputs : q # o => reader'[q] = reader[q] /\ received'[q] = received[q]
         /\ \/ reader'[o] = "holding" /\ Len(received'[o]) = Len(received[o]) + 1
            \/ reader'[o] \in {"threw", "done", "waiting"} /\ received'[o] = received[o]
         /\ pulled' = pulled
<1>1. /\ Mux!TypeOK /\ Mux!Out!TypeOK /\ Mux!Out!StreamInv /\ Mux!DrainInv
      /\ position \in Mux!Outputs /\ pulled \in 0..MaxItems
      /\ producer \in {"pulling", "awaiting", "woken", "ended"}
      /\ (closed[o] <=> producer = "ended")
  BY OutputFacts
<1>2. /\ Mux!Out!Turn(o) /\ UNCHANGED <<position, pulled>>
      /\ reader[o] \in {"new", "holding", "woken"}
      /\ \/ producer' = producer
         \/ producer = "awaiting" /\ producer' = "woken"
      /\ producer' = "awaiting" => position # o \/ reader[o] \in {"new", "woken"}
  <2>1. CASE Mux!Ask(o)
    BY <2>1 DEF Mux!Ask, Mux!SignalRead, Mux!Out!Ask, Mux!Out!Reads
  <2>2. CASE Mux!Resume(o)
    BY <2>2 DEF Mux!Resume, Mux!Out!Resume, Mux!producerVars
  <2> QED
    BY <2>1, <2>2
<1>3. /\ Mux!Out!TypeOK' /\ Mux!Out!StreamInv' /\ closed' = closed /\ fed' = fed
      /\ \A q \in Mux!Outputs : q # o =>
            buffer'[q] = buffer[q] /\ reader'[q] = reader[q] /\ received'[q] = received[q]
      /\ \/ /\ reader'[o] = "holding" /\ buffer[o] # <<>>
            /\ buffer'[o] = Tail(buffer[o]) /\ Len(received'[o]) = Len(received[o]) + 1
         \/ /\ reader'[o] = "threw" /\ received'[o] = received[o] /\ closed[o]
            /\ buffer'[o] = Tail(buffer[o]) /\ buffer[o] # <<>>
         \/ /\ reader'[o] = IF closed[o] THEN "done" ELSE "waiting"
            /\ buffer[o] = <<>> /\ buffer'[o] = buffer[o] /\ received'[o] = received[o]
  BY <1>1, <1>2, MuxTurn
<1>4. ASSUME NEW q \in Mux!Outputs
      PROVE  /\ Len(buffer[q]) \in Nat /\ Len(buffer'[q]) \in Nat /\ Len(buffer'[q]) <= Len(buffer[q])
             /\ Len(received[q]) \in Nat /\ Len(received'[q]) \in Nat
             /\ Len(received'[q]) >= Len(received[q])
  <2>1. /\ buffer[q] \in Seq(NumberOrError) /\ Len(buffer[q]) \in Nat /\ Len(received[q]) \in Nat
    BY <1>1, MuxFacts
  <2>2. buffer[q] # <<>> => Len(Tail(buffer[q])) = Len(buffer[q]) - 1 /\ Len(buffer[q]) \in Nat \ {0}
    BY <2>1, TailIndices
  <2>3. buffer'[q] = buffer[q] \/ (buffer[q] # <<>> /\ buffer'[q] = Tail(buffer[q]))
    BY <1>3
  <2>4. Len(received'[q]) = Len(received[q]) \/ Len(received'[q]) = Len(received[q]) + 1
    BY <1>3
  <2>5. Len(buffer'[q]) \in Nat /\ Len(buffer'[q]) <= Len(buffer[q])
    <3>1. \A k \in Nat \ {0} : k - 1 \in Nat /\ k - 1 <= k
      OBVIOUS
    <3>2. CASE buffer'[q] = buffer[q]
      BY <2>1, <3>2
    <3>3. CASE buffer[q] # <<>> /\ buffer'[q] = Tail(buffer[q])
      <4>1. Len(buffer'[q]) = Len(buffer[q]) - 1 /\ Len(buffer[q]) \in Nat \ {0}
        BY <2>2, <3>3
      <4> QED
        BY <3>1, <4>1
    <3> QED
      BY <2>3, <3>2, <3>3
  <2> QED
    BY <2>1, <2>4, <2>5
<1>5. \A q \in Mux!Outputs : Mux!FedInv(q)'
  BY <1>2, <1>3, <1>4, FedKept
<1>6. Mux!TypeOK'
  BY <1>1, <1>2, <1>3 DEF Mux!TypeOK
<1>7. Mux!DrainInv'
  <2>1. ASSUME producer' \in {"awaiting", "woken"}
        PROVE  pulled' >= 1 /\ \A q \in 1..(position' - 1) : ~Mux!Full(q)'
    <3>1. pulled >= 1 /\ \A q \in 1..(position - 1) : ~Mux!Full(q)
      BY <1>1, <1>2, <2>1 DEF Mux!DrainInv
    <3>2. \A q \in 1..(position - 1) : q \in Mux!Outputs
      BY <1>1, TwoOutputs
    <3>3. ASSUME NEW q \in Mux!Outputs, ~Mux!Full(q) PROVE ~Mux!Full(q)'
      <4>1. Limit \in Nat
        BY LimitAssumption
      <4>2. \A a, b \in Nat : b <= a /\ ~(a >= Limit) => ~(b >= Limit)
        BY <4>1
      <4> QED
        BY <1>4, <3>3, <4>2 DEF Mux!Full
    <3> QED
      BY <1>2, <3>1, <3>2, <3>3
  <2>2. ASSUME producer' = "awaiting"
        PROVE  /\ reader'[position'] \notin {"waiting", "done", "threw"}
               /\ reader'[position'] \in {"new", "woken"} => buffer'[position'] # <<>>
    <3>1. /\ producer = "awaiting" /\ position' = position
          /\ reader[position] \notin {"waiting", "done", "threw"}
          /\ reader[position] \in {"new", "woken"} => buffer[position] # <<>>
      BY <1>1, <1>2, <2>2 DEF Mux!DrainInv
    <3>2. CASE position # o
      BY <1>1, <1>3, <3>1, <3>2
    <3>3. CASE position = o
      <4>1. buffer[o] # <<>> /\ ~closed[o]
        BY <1>1, <1>2, <2>2, <3>1, <3>3
      <4>2. reader'[o] = "holding"
        BY <1>3, <4>1
      <4> QED
        BY <3>1, <3>3, <4>2
    <3> QED
      BY <3>2, <3>3
  <2> QED
    BY <2>1, <2>2 DEF Mux!DrainInv
<1>8. \/ reader'[o] = "holding" /\ Len(received'[o]) = Len(received[o]) + 1
      \/ reader'[o] \in {"threw", "done", "waiting"} /\ received'[o] = received[o]
  BY <1>3
<1> QED
  BY <1>2, <1>3, <1>5, <1>6, <1>7, <1>8 DEF Mux!IInv

LEMMA MuxReturns ==
  ASSUME Mux!IInv, NEW o \in Mux!Outputs, Mux!Return(o)
  PROVE  /\ Mux!IInv' /\ reader[o] \in {"new", "holding"}
         /\ \A q \in Mux!Outputs : q # o => reader'[q] = reader[q]
         /\ received' = received /\ pulled' = pulled
<1>1. /\ Mux!TypeOK /\ Mux!Out!TypeOK /\ Mux!Out!StreamInv /\ Mux!DrainInv
      /\ position \in Mux!Outputs
  BY OutputFacts
<1>2. /\ Mux!Out!TypeOK' /\ Mux!Out!StreamInv'
      /\ reader[o] \in {"new", "holding"} /\ reader'[o] = "stopped"
      /\ \A q \in Mux!Outputs : q # o => reader'[q] = reader[q]
      /\ UNCHANGED <<buffer, closed, received, fed, taken>>
      /\ UNCHANGED <<producer, position, pulled>>
  <2>1. Mux!Out!Return(o) /\ UNCHANGED <<producer, position, pulled>>
    BY DEF Mux!Return, Mux!producerVars
  <2> QED
    BY <1>1, <2>1, MuxReturn
<1>3. ASSUME NEW q \in Mux!Outputs PROVE Mux!FedInv(q)'
  BY <1>2, OutputFacts, FedCounts DEF Mux!Fed
<1>4. Mux!TypeOK'
  BY <1>1, <1>2 DEF Mux!TypeOK
<1>5. Mux!DrainInv'
  <2>1. \A q \in Mux!Outputs : Mux!Full(q)' = Mux!Full(q)
    BY <1>2 DEF Mux!Full
  <2>2. reader'[position] = reader[position] \/ reader'[position] = "stopped"
    BY <1>1, <1>2
  <2>3. \A q \in 1..(position - 1) : q \in Mux!Outputs
    BY <1>1, TwoOutputs
  <2> QED
    BY <1>1, <1>2, <2>1, <2>2, <2>3 DEF Mux!DrainInv
<1> QED
  BY <1>2, <1>3, <1>4, <1>5 DEF Mux!IInv

-----------------------------------------------------------------------------
(* parallelFeed(): its output, which is a feedable with one reader.         *)

IndexOrError == Par!Items \cup {Par!InputError}

ParStream ==
  IsStream(outFed[Par!out], outBuffer[Par!out], outReceived[Par!out], outReader[Par!out],
           outClosed[Par!out], Par!InputError)

LEMMA ParStreams ==
  (Par!Out!StreamInv <=> ParStream) /\ (Par!Out!StreamInv' <=> ParStream')
<1>1. ASSUME NEW f, NEW b, NEW got, NEW place
      PROVE  /\ Par!Out!IsFifo(f, b, got, place = "threw") <=>
                   /\ Order(f, b, got, Gone(got, place))
                   /\ place = "threw" => f[Gone(got, place)] = Par!InputError
             /\ [q \in {Par!out} |-> q][Par!out] = Par!out
  <2>1. CASE place = "threw"
    BY <2>1 DEF Par!Out!IsFifo, Order, Gone
  <2>2. CASE place # "threw"
    BY <2>2 DEF Par!Out!IsFifo, Order, Gone
  <2> QED
    BY <2>1, <2>2
<1> DEFINE Stream(f, b, got, place, shut) ==
       /\ \A n \in DOMAIN f : f[n] = Par!InputError => n = Len(f) /\ shut
       /\ Par!Out!IsFifo(f, b, got, place = "threw")
       /\ place = "waiting" => b = <<>> /\ ~shut
       /\ place = "done" => b = <<>> /\ shut
<1>4. \A f, b, got, place, shut :
         Stream(f, b, got, place, shut) <=> IsStream(f, b, got, place, shut, Par!InputError)
  BY <1>1 DEF IsStream
<1>5. [q \in {Par!out} |-> q][Par!out] = Par!out
  OBVIOUS
<1>2. Par!Out!StreamInv <=> ParStream
  <2>1. Par!Out!StreamInv <=> Stream(outFed[Par!out], outBuffer[Par!out], outReceived[Par!out],
                                     outReader[Par!out], outClosed[Par!out])
    BY <1>5 DEF Par!Out!StreamInv, Par!Out!ErrorIsLast
  <2> QED
    BY <1>4, <2>1 DEF ParStream
<1>3. Par!Out!StreamInv' <=> ParStream'
  <2>1. Par!Out!StreamInv' <=> Stream(outFed'[Par!out], outBuffer'[Par!out], outReceived'[Par!out],
                                      outReader'[Par!out], outClosed'[Par!out])
    BY <1>5 DEF Par!Out!StreamInv, Par!Out!ErrorIsLast
  <2> QED
    BY <1>4, <2>1 DEF ParStream
<1> QED
  BY <1>2, <1>3

ParType ==
  /\ outBuffer \in [{Par!out} -> Seq(IndexOrError)]
  /\ outClosed \in [{Par!out} -> BOOLEAN]
  /\ outReader \in [{Par!out} -> Places]
  /\ outReceived \in [{Par!out} -> Seq(Par!Items)]
  /\ outFed \in [{Par!out} -> Seq(IndexOrError)]
  /\ outTaken \in [{Par!out} -> Seq(IndexOrError)]

LEMMA ParTyped == (Par!Out!TypeOK <=> ParType) /\ (Par!Out!TypeOK' <=> ParType')
<1>1. Places = {"new", "waiting", "woken", "holding"} \cup Par!Out!Ended
  BY DEF Places, Par!Out!Ended
<1>2. Par!Out!TypeOK <=> ParType
  BY <1>1 DEF Par!Out!TypeOK, ParType, IndexOrError
<1>3. Par!Out!TypeOK' <=> ParType'
  BY <1>1 DEF Par!Out!TypeOK, ParType, IndexOrError
<1> QED
  BY <1>2, <1>3

LEMMA IndexFacts ==
  /\ Par!InputError = -1 /\ Par!InputError \notin Par!Items /\ Par!InputError \in IndexOrError
  /\ \A n \in Par!Items : n \in IndexOrError /\ n \in Nat
  BY DEF Par!Items, IndexOrError, Par!InputError

LEMMA ParFacts ==
  ASSUME Par!Out!TypeOK, Par!Out!StreamInv
  PROVE  /\ ParStream /\ outClosed[Par!out] \in BOOLEAN /\ outReader[Par!out] \in Places
         /\ outBuffer[Par!out] \in Seq(IndexOrError) /\ outFed[Par!out] \in Seq(IndexOrError)
         /\ outReceived[Par!out] \in Seq(Par!Items)
         /\ Len(outBuffer[Par!out]) \in Nat /\ Len(outFed[Par!out]) \in Nat
         /\ Len(outReceived[Par!out]) \in Nat
         /\ DOMAIN outBuffer[Par!out] = 1..Len(outBuffer[Par!out])
         /\ DOMAIN outFed[Par!out] = 1..Len(outFed[Par!out])
         /\ DOMAIN outReceived[Par!out] = 1..Len(outReceived[Par!out])
<1>1. /\ ParStream /\ outClosed[Par!out] \in BOOLEAN /\ outReader[Par!out] \in Places
      /\ outBuffer[Par!out] \in Seq(IndexOrError) /\ outFed[Par!out] \in Seq(IndexOrError)
      /\ outReceived[Par!out] \in Seq(Par!Items)
  BY ParStreams, ParTyped DEF ParType
<1> QED
  BY <1>1, Lengths

\* Items are fed to the output.
LEMMA ParFeed ==
  ASSUME Par!Out!TypeOK, Par!Out!StreamInv, NEW s \in Seq(Par!Items), Par!Out!Feed(Par!out, s)
  PROVE  /\ Par!Out!TypeOK' /\ Par!Out!StreamInv'
         /\ outClosed' = outClosed /\ ~outClosed[Par!out] /\ outReceived' = outReceived
         /\ outFed'[Par!out] = outFed[Par!out] \o s
<1>1. /\ ~outClosed[Par!out]
      /\ outBuffer' = [outBuffer EXCEPT ![Par!out] = @ \o s]
      /\ outFed' = [outFed EXCEPT ![Par!out] = @ \o s]
      /\ \/ s = <<>> /\ outReader' = outReader
         \/ /\ s # <<>>
            /\ outReader' = [r \in {Par!out} |-> IF outReader[r] = "waiting" THEN "woken"
                                                 ELSE outReader[r]]
      /\ UNCHANGED <<outClosed, outReceived, outTaken>>
  BY DEF Par!Out!Feed, Par!Out!Wake
<1>2. /\ outBuffer \in [{Par!out} -> Seq(IndexOrError)] /\ outFed \in [{Par!out} -> Seq(IndexOrError)]
      /\ outReader \in [{Par!out} -> Places]
  BY ParTyped DEF ParType
<1>3. /\ outBuffer'[Par!out] = outBuffer[Par!out] \o s /\ outFed'[Par!out] = outFed[Par!out] \o s
  BY <1>1, <1>2
<1> DEFINE p == outReader'[Par!out]
<1>4. /\ p = outReader[Par!out] \/ (outReader[Par!out] = "waiting" /\ p = "woken")
      /\ p = "waiting" => s = <<>>
  BY <1>1
<1>5. p \in Places
  BY <1>2, <1>4 DEF Places
<1> HIDE DEF p
<1>6. /\ outFed[Par!out] \o s \in Seq(IndexOrError) /\ outBuffer[Par!out] \o s \in Seq(IndexOrError)
      /\ IsStream(outFed[Par!out] \o s, outBuffer[Par!out] \o s, outReceived[Par!out], p,
                  outClosed[Par!out], Par!InputError)
  <2>1. /\ IsStream(outFed[Par!out], outBuffer[Par!out], outReceived[Par!out],
                    outReader[Par!out], outClosed[Par!out], Par!InputError)
        /\ outBuffer[Par!out] \in Seq(IndexOrError) /\ outFed[Par!out] \in Seq(IndexOrError)
        /\ outReceived[Par!out] \in Seq(Par!Items) /\ ~outClosed[Par!out]
    BY <1>1, ParFacts DEF ParStream
  <2>2. IndexOrError = Par!Items \cup {Par!InputError} /\ Par!InputError \notin Par!Items
    BY IndexFacts DEF IndexOrError
  <2> QED
    BY <1>4, <2>1, <2>2, StreamFeed
<1>7. ParStream'
  BY <1>1, <1>3, <1>6 DEF ParStream, p
<1>8. Par!Out!TypeOK'
  <2>1. /\ outBuffer' \in [{Par!out} -> Seq(IndexOrError)]
        /\ outFed' \in [{Par!out} -> Seq(IndexOrError)]
    BY <1>1, <1>2, <1>6
  <2>2. outReader' \in [{Par!out} -> Places]
    BY <1>1, <1>2, <1>5 DEF p
  <2> QED
    BY <1>1, <2>1, <2>2, ParTyped DEF ParType
<1> QED
  BY <1>1, <1>3, <1>7, <1>8, ParStreams

\* The output is closed, by end() or throw().
LEMMA ParClose ==
  ASSUME Par!Out!TypeOK, Par!Out!StreamInv, ~outClosed[Par!out],
         Par!Out!End({Par!out}) \/ Par!Out!Throw({Par!out})
  PROVE  /\ Par!Out!TypeOK' /\ Par!Out!StreamInv' /\ outClosed'[Par!out]
         /\ outReceived' = outReceived
         /\ Par!Out!End({Par!out}) => outFed' = outFed
         /\ Par!Out!Throw({Par!out}) =>
               outFed'[Par!out] = Append(outFed[Par!out], Par!InputError)
<1>1. /\ \/ Par!Out!End({Par!out}) /\ outBuffer' = outBuffer /\ outFed' = outFed
         \/ /\ Par!Out!Throw({Par!out})
            /\ outBuffer' = [r \in {Par!out} |-> Append(outBuffer[r], Par!InputError)]
            /\ outFed' = [r \in {Par!out} |-> Append(outFed[r], Par!InputError)]
      /\ outClosed' = [r \in {Par!out} |-> TRUE]
      /\ outReader' = [r \in {Par!out} |-> IF outReader[r] = "waiting" THEN "woken"
                                           ELSE outReader[r]]
      /\ UNCHANGED <<outReceived, outTaken>>
  BY DEF Par!Out!End, Par!Out!Throw, Par!Out!Wake
<1>0. /\ Par!Out!End({Par!out}) => outFed' = outFed
      /\ Par!Out!Throw({Par!out}) => outFed'[Par!out] = Append(outFed[Par!out], Par!InputError)
  BY DEF Par!Out!End, Par!Out!Throw
<1> DEFINE p == outReader'[Par!out]
<1>2. /\ p = (IF outReader[Par!out] = "waiting" THEN "woken" ELSE outReader[Par!out])
      /\ outReceived'[Par!out] = outReceived[Par!out] /\ outClosed'[Par!out] = TRUE
  BY <1>1
<1>3. p \in Places
  BY <1>2, ParFacts DEF Places
<1> HIDE DEF p
<1>4. /\ outBuffer' \in [{Par!out} -> Seq(IndexOrError)]
      /\ outFed' \in [{Par!out} -> Seq(IndexOrError)]
      /\ ParStream'
  <2>4. CASE outBuffer' = outBuffer /\ outFed' = outFed
    <3>1. IsStream(outFed[Par!out], outBuffer[Par!out], outReceived[Par!out], p, TRUE, Par!InputError)
      BY <1>2, ParFacts, StreamEnd DEF ParStream
    <3> QED
      BY <1>2, <2>4, <3>1, ParTyped DEF ParStream, ParType, p
  <2>5. CASE /\ outBuffer' = [r \in {Par!out} |-> Append(outBuffer[r], Par!InputError)]
             /\ outFed' = [r \in {Par!out} |-> Append(outFed[r], Par!InputError)]
    <3>1. /\ Append(outFed[Par!out], Par!InputError) \in Seq(IndexOrError)
          /\ Append(outBuffer[Par!out], Par!InputError) \in Seq(IndexOrError)
          /\ IsStream(Append(outFed[Par!out], Par!InputError), Append(outBuffer[Par!out], Par!InputError),
                      outReceived[Par!out], p, TRUE, Par!InputError)
      BY <1>2, ParFacts, IndexFacts, StreamThrow DEF ParStream, IndexOrError
    <3> QED
      BY <1>2, <2>5, <3>1 DEF ParStream, p
  <2> QED
    BY <1>1, <2>4, <2>5
<1>5. Par!Out!TypeOK'
  <2>1. outReader' \in [{Par!out} -> Places] /\ outClosed' \in [{Par!out} -> BOOLEAN]
    BY <1>1, <1>3 DEF p
  <2> QED
    BY <1>1, <1>4, <2>1, ParTyped DEF ParType
<1> QED
  BY <1>0, <1>1, <1>4, <1>5, ParStreams

\* A outReader takes what is first, ends or waits.
LEMMA ParTurn ==
  ASSUME Par!Out!TypeOK, Par!Out!StreamInv, Par!Out!Turn(Par!out),
         outReader[Par!out] \in {"new", "holding", "woken"}
  PROVE  /\ Par!Out!TypeOK' /\ Par!Out!StreamInv'
         /\ outClosed' = outClosed /\ outFed' = outFed
         /\ \A q \in {Par!out} : q # Par!out =>
               outBuffer'[q] = outBuffer[q] /\ outReader'[q] = outReader[q] /\ outReceived'[q] = outReceived[q]
         /\ \/ /\ outReader'[Par!out] = "holding" /\ outBuffer[Par!out] # <<>>
               /\ outBuffer'[Par!out] = Tail(outBuffer[Par!out]) /\ Len(outReceived'[Par!out]) = Len(outReceived[Par!out]) + 1
            \/ /\ outReader'[Par!out] = "threw" /\ outReceived'[Par!out] = outReceived[Par!out] /\ outClosed[Par!out]
               /\ outBuffer'[Par!out] = Tail(outBuffer[Par!out]) /\ outBuffer[Par!out] # <<>>
            \/ /\ outReader'[Par!out] = IF outClosed[Par!out] THEN "done" ELSE "waiting"
               /\ outBuffer[Par!out] = <<>> /\ outBuffer'[Par!out] = outBuffer[Par!out] /\ outReceived'[Par!out] = outReceived[Par!out]
<1> DEFINE entry == Head(outBuffer[Par!out])
<1>1. /\ UNCHANGED <<outClosed, outFed>>
      /\ \/ /\ outBuffer[Par!out] # <<>> /\ outBuffer' = [outBuffer EXCEPT ![Par!out] = Tail(@)]
            /\ outTaken' = [outTaken EXCEPT ![Par!out] = Append(@, entry)]
            /\ \/ /\ entry = Par!InputError /\ outReader' = [outReader EXCEPT ![Par!out] = "threw"]
                  /\ outReceived' = outReceived
               \/ /\ entry # Par!InputError /\ outReader' = [outReader EXCEPT ![Par!out] = "holding"]
                  /\ outReceived' = [outReceived EXCEPT ![Par!out] = Append(@, entry)]
         \/ /\ outBuffer[Par!out] = <<>>
            /\ outReader' = [outReader EXCEPT ![Par!out] = IF outClosed[Par!out] THEN "done" ELSE "waiting"]
            /\ UNCHANGED <<outBuffer, outReceived, outTaken>>
  BY DEF Par!Out!Turn, Par!Out!Take
<1>2. /\ outBuffer \in [{Par!out} -> Seq(IndexOrError)] /\ outReader \in [{Par!out} -> Places]
      /\ outReceived \in [{Par!out} -> Seq(Par!Items)] /\ outTaken \in [{Par!out} -> Seq(IndexOrError)]
  BY ParTyped DEF ParType
<1>3. \A q \in {Par!out} : q # Par!out =>
         outBuffer'[q] = outBuffer[q] /\ outReader'[q] = outReader[q] /\ outReceived'[q] = outReceived[q]
  BY <1>1, <1>2
<1>4. CASE outBuffer[Par!out] # <<>>
  <2>1. /\ entry \in IndexOrError /\ Tail(outBuffer[Par!out]) \in Seq(IndexOrError)
        /\ entry = outBuffer[Par!out][1] /\ 1 \in DOMAIN outBuffer[Par!out]
    BY <1>4, ParFacts, TailIndices
  <2>2. outBuffer'[Par!out] = Tail(outBuffer[Par!out]) /\ outBuffer' \in [{Par!out} -> Seq(IndexOrError)]
    BY <1>1, <1>2, <1>4, <2>1
  <2>3. outTaken' \in [{Par!out} -> Seq(IndexOrError)]
    <3>1. outTaken[Par!out] \in Seq(IndexOrError)
      BY <1>2
    <3>2. Append(outTaken[Par!out], entry) \in Seq(IndexOrError)
      BY <2>1, <3>1, AppendIndices
    <3> HIDE DEF entry
    <3> QED
      BY <1>1, <1>2, <1>4, <3>2
  <2>4. CASE entry = Par!InputError
    <3>1. /\ outReader' = [outReader EXCEPT ![Par!out] = "threw"] /\ outReceived' = outReceived
          /\ outReader'[Par!out] = "threw"
      BY <1>1, <1>2, <1>4, <2>4
    <3>2. IsStream(outFed[Par!out], Tail(outBuffer[Par!out]), outReceived[Par!out], "threw", outClosed[Par!out], Par!InputError)
      BY <1>4, <2>4, ParFacts, IndexFacts, StreamTake DEF ParStream, IndexOrError
    <3>3. ParStream'
      BY <1>1, <2>2, <3>1, <3>2 DEF ParStream
    <3>4. Par!Out!StreamInv'
      BY <1>1, <1>3, <3>3, ParStreams DEF ParStream
    <3>5. Par!Out!TypeOK'
      <4>1. outReader' \in [{Par!out} -> Places]
        BY <1>2, <3>1 DEF Places
      <4> QED
        BY <1>1, <2>2, <2>3, <3>1, <4>1, ParTyped DEF ParType
    <3>6. outClosed[Par!out]
      BY <1>4, <2>4, ParFacts, IndexFacts, StreamTake DEF ParStream, IndexOrError
    <3> QED
      BY <1>1, <1>3, <1>4, <2>2, <3>1, <3>4, <3>5, <3>6
  <2>5. CASE entry # Par!InputError
    <3>1. /\ outReader' = [outReader EXCEPT ![Par!out] = "holding"]
          /\ outReceived' = [outReceived EXCEPT ![Par!out] = Append(@, entry)]
          /\ outReader'[Par!out] = "holding" /\ outReceived'[Par!out] = Append(outReceived[Par!out], entry)
      BY <1>1, <1>2, <1>4, <2>5
    <3>2. /\ Append(outReceived[Par!out], entry) \in Seq(Par!Items)
          /\ IsStream(outFed[Par!out], Tail(outBuffer[Par!out]), Append(outReceived[Par!out], entry), "holding", outClosed[Par!out],
                      Par!InputError)
      BY <1>4, <2>5, ParFacts, IndexFacts, StreamTake DEF ParStream, IndexOrError
    <3>3. ParStream'
      BY <1>1, <2>2, <3>1, <3>2 DEF ParStream
    <3>4. Par!Out!StreamInv'
      BY <1>1, <1>3, <3>3, ParStreams DEF ParStream
    <3>5. Par!Out!TypeOK'
      <4>1. outReader' \in [{Par!out} -> Places]
        BY <1>2, <3>1 DEF Places
      <4>2. outReceived' \in [{Par!out} -> Seq(Par!Items)]
        BY <1>2, <3>1, <3>2
      <4> QED
        BY <1>1, <2>2, <2>3, <4>1, <4>2, ParTyped DEF ParType
    <3>6. Len(outReceived'[Par!out]) = Len(outReceived[Par!out]) + 1
      <4>1. entry \in Par!Items
        BY <2>1, <2>5 DEF IndexOrError
      <4> QED
        BY <3>1, <4>1, ParFacts, AppendIndices
    <3> QED
      BY <1>1, <1>3, <1>4, <2>2, <3>1, <3>4, <3>5, <3>6
  <2> QED
    BY <2>4, <2>5
<1>5. CASE outBuffer[Par!out] = <<>>
  <2>1. /\ outReader' = [outReader EXCEPT ![Par!out] = IF outClosed[Par!out] THEN "done" ELSE "waiting"]
        /\ outReader'[Par!out] = (IF outClosed[Par!out] THEN "done" ELSE "waiting")
        /\ UNCHANGED <<outBuffer, outReceived, outTaken>>
    BY <1>1, <1>2, <1>5
  <2> DEFINE p == outReader'[Par!out]
  <2>2. p = (IF outClosed[Par!out] THEN "done" ELSE "waiting") /\ p \in Places
    BY <2>1 DEF Places
  <2> HIDE DEF p
  <2>3. IsStream(outFed[Par!out], outBuffer[Par!out], outReceived[Par!out], p, outClosed[Par!out], Par!InputError)
    BY <1>5, <2>2, ParFacts, StreamRests DEF ParStream
  <2>4. ParStream'
    BY <1>1, <2>1, <2>3 DEF ParStream, p
  <2>5. Par!Out!StreamInv'
    BY <1>1, <1>3, <2>4, ParStreams DEF ParStream
  <2>6. Par!Out!TypeOK'
    <3>1. outReader' \in [{Par!out} -> Places]
      BY <1>2, <2>1 DEF Places
    <3> QED
      BY <1>1, <2>1, <3>1, ParTyped DEF ParType
  <2> QED
    BY <1>1, <1>3, <1>5, <2>1, <2>5, <2>6
<1> QED
  BY <1>4, <1>5

\* A outReader is told to return.
LEMMA ParReturn ==
  ASSUME Par!Out!TypeOK, Par!Out!StreamInv, Par!Out!Return(Par!out)
  PROVE  /\ Par!Out!TypeOK' /\ Par!Out!StreamInv'
         /\ outReader[Par!out] \in {"new", "holding"} /\ outReader'[Par!out] = "stopped"
         /\ \A q \in {Par!out} : q # Par!out => outReader'[q] = outReader[q]
         /\ UNCHANGED <<outBuffer, outClosed, outReceived, outFed, outTaken>>
<1>1. /\ outReader[Par!out] \in {"new", "holding"}
      /\ outReader' = [outReader EXCEPT ![Par!out] = "stopped"]
      /\ UNCHANGED <<outBuffer, outClosed, outReceived, outFed, outTaken>>
  BY DEF Par!Out!Return
<1>2. outReader \in [{Par!out} -> Places]
  BY ParTyped DEF ParType
<1>3. /\ outReader'[Par!out] = "stopped" /\ \A q \in {Par!out} : q # Par!out => outReader'[q] = outReader[q]
      /\ outReader' \in [{Par!out} -> Places]
  BY <1>1, <1>2 DEF Places
<1>4. IsStream(outFed[Par!out], outBuffer[Par!out], outReceived[Par!out], "stopped", outClosed[Par!out], Par!InputError)
  BY <1>1, ParFacts, StreamRests DEF ParStream
<1>5. ParStream'
  BY <1>1, <1>3, <1>4 DEF ParStream
<1>6. Par!Out!StreamInv'
  BY <1>1, <1>3, <1>5, ParStreams DEF ParStream
<1>7. Par!Out!TypeOK'
  BY <1>1, <1>3, ParTyped DEF ParType
<1> QED
  BY <1>1, <1>3, <1>6, <1>7

\* A outReader that is through has been given all that was outFed.
LEMMA ParEnded ==
  ASSUME Par!Out!TypeOK, Par!Out!StreamInv
  PROVE  /\ \A n \in DOMAIN outReceived[Par!out] : n \in DOMAIN outFed[Par!out] /\ outReceived[Par!out][n] = outFed[Par!out][n]
         /\ outReader[Par!out] = "done" => /\ outClosed[Par!out] /\ Len(outFed[Par!out]) = Len(outReceived[Par!out])
                                 /\ \A n \in DOMAIN outFed[Par!out] : outFed[Par!out][n] # Par!InputError
         /\ outReader[Par!out] = "threw" => /\ outClosed[Par!out] /\ Len(outFed[Par!out]) = Len(outReceived[Par!out]) + 1
                                  /\ outFed[Par!out][Len(outFed[Par!out])] = Par!InputError
<1>1. /\ IsStream(outFed[Par!out], outBuffer[Par!out], outReceived[Par!out], outReader[Par!out], outClosed[Par!out], Par!InputError)
      /\ outFed[Par!out] \in Seq(IndexOrError) /\ outBuffer[Par!out] \in Seq(IndexOrError)
      /\ outReceived[Par!out] \in Seq(Par!Items)
  BY ParFacts DEF ParStream
<1>2. IndexOrError = Par!Items \cup {Par!InputError} /\ Par!InputError \notin Par!Items
  BY IndexFacts DEF IndexOrError
<1> QED
  BY <1>1, <1>2, StreamEnded

-----------------------------------------------------------------------------
(* The items of parallelFeed(): f was fed to its output.                    *)

FedItems(f) == {i \in Par!Items : \E n \in DOMAIN f : f[n] = i}
HasError(f) == \E n \in DOMAIN f : f[n] = Par!InputError
Distinct(f) == \A m, n \in DOMAIN f : f[m] = f[n] => m = n

Placed(count, run, drop, fail, waits, f) ==
  /\ 0..(count - 1) = run \cup drop \cup fail \cup FedItems(f) \cup waits
  /\ run \cap drop = {} /\ run \cap fail = {} /\ drop \cap fail = {}
  /\ (run \cup drop \cup fail) \cap (FedItems(f) \cup waits) = {}
  /\ Distinct(f)

Ordered(keep, next, waits, f) ==
  IF keep
  THEN /\ \A n \in 1..next : f[n] = n - 1
       /\ \A i \in waits : i > next
       /\ Len(f) = next + (IF HasError(f) THEN 1 ELSE 0)
  ELSE waits = {} /\ next = 0

LEMMA ParDefs ==
  /\ Par!Fed = FedItems(outFed[Par!out]) /\ Par!Fed' = FedItems(outFed'[Par!out])
  /\ Par!Thrown <=> HasError(outFed[Par!out])
  /\ Par!Thrown' <=> HasError(outFed'[Par!out])
  /\ Par!PlaceInv <=> Placed(index, running, dropped, failed, inBuffer, outFed[Par!out])
  /\ Par!PlaceInv' <=> Placed(index', running', dropped', failed', inBuffer', outFed'[Par!out])
  /\ Par!OrderInv <=> Ordered(keepOrder, currentIndex, inBuffer, outFed[Par!out])
  /\ Par!OrderInv' <=> Ordered(keepOrder', currentIndex', inBuffer', outFed'[Par!out])
<1>1. Par!Fed = FedItems(outFed[Par!out]) /\ Par!Fed' = FedItems(outFed'[Par!out])
  BY DEF Par!Fed, FedItems
<1>2. /\ Par!Thrown <=> HasError(outFed[Par!out])
      /\ Par!Thrown' <=> HasError(outFed'[Par!out])
  BY DEF Par!Thrown, HasError
<1>3. Par!PlaceInv <=> Placed(index, running, dropped, failed, inBuffer, outFed[Par!out])
  BY <1>1 DEF Par!PlaceInv, Placed, Distinct
<1>4. Par!PlaceInv' <=> Placed(index', running', dropped', failed', inBuffer', outFed'[Par!out])
  BY <1>1 DEF Par!PlaceInv, Placed, Distinct
<1>5. Par!OrderInv <=> Ordered(keepOrder, currentIndex, inBuffer, outFed[Par!out])
  BY <1>2 DEF Par!OrderInv, Ordered
<1>6. Par!OrderInv' <=> Ordered(keepOrder', currentIndex', inBuffer', outFed'[Par!out])
  BY <1>2 DEF Par!OrderInv, Ordered
<1> QED
  BY <1>1, <1>2, <1>3, <1>4, <1>5, <1>6

\* What feed() adds.
LEMMA FedMore ==
  ASSUME NEW f \in Seq(IndexOrError), ~HasError(f), NEW s \in Seq(Par!Items)
  PROVE  /\ FedItems(f \o s) = FedItems(f) \cup FedItems(s)
         /\ ~HasError(f \o s)
<1>1. s \in Seq(IndexOrError)
  BY DEF IndexOrError
<1>2. /\ Len(f) \in Nat /\ Len(s) \in Nat /\ DOMAIN f = 1..Len(f) /\ DOMAIN s = 1..Len(s)
      /\ \A n \in DOMAIN s : s[n] \in Par!Items
  BY Lengths
<1>3. /\ Len(f \o s) = Len(f) + Len(s) /\ f \o s \in Seq(IndexOrError)
      /\ \A n \in DOMAIN f : (f \o s)[n] = f[n]
      /\ \A n \in DOMAIN s : (f \o s)[Len(f) + n] = s[n]
      /\ \A n \in DOMAIN (f \o s) : n \in DOMAIN f \/ n - Len(f) \in DOMAIN s
  <2>1. ASSUME NEW T, NEW g \in Seq(T), NEW t \in Seq(T)
        PROVE  /\ Len(g \o t) = Len(g) + Len(t) /\ g \o t \in Seq(T)
               /\ \A n \in DOMAIN g : (g \o t)[n] = g[n]
               /\ \A n \in DOMAIN t : (g \o t)[Len(g) + n] = t[n]
               /\ \A n \in DOMAIN (g \o t) : n \in DOMAIN g \/ n - Len(g) \in DOMAIN t
    BY Joined
  <2> QED
    BY Zenon, <1>1, <2>1
<1>4. DOMAIN (f \o s) = 1..(Len(f) + Len(s))
  BY <1>3, Lengths
<1>5. \A n \in DOMAIN f : n \in DOMAIN (f \o s)
  BY <1>2, <1>4
<1>6. \A n \in DOMAIN s : Len(f) + n \in DOMAIN (f \o s)
  BY <1>2, <1>4
<1>7. ASSUME NEW n \in DOMAIN (f \o s)
      PROVE  \/ n \in DOMAIN f /\ (f \o s)[n] = f[n]
             \/ \E m \in DOMAIN s : (f \o s)[n] = s[m] /\ n = Len(f) + m
  <2>1. CASE n \in DOMAIN f
    BY <1>3, <2>1
  <2>2. CASE n - Len(f) \in DOMAIN s
    <3>1. PICK m \in DOMAIN s : m = n - Len(f)
      BY <2>2
    <3>2. n = Len(f) + m
      BY <1>2, <1>4, <3>1
    <3> QED
      BY <1>3, <3>1, <3>2
  <2> QED
    BY <1>3, <2>1, <2>2
<1>8. ASSUME NEW i
      PROVE  (\E n \in DOMAIN (f \o s) : (f \o s)[n] = i)
                <=> (\E n \in DOMAIN f : f[n] = i) \/ (\E n \in DOMAIN s : s[n] = i)
  <2>1. ASSUME NEW n \in DOMAIN (f \o s), (f \o s)[n] = i
        PROVE  (\E m \in DOMAIN f : f[m] = i) \/ (\E m \in DOMAIN s : s[m] = i)
    BY <1>7, <2>1
  <2>2. ASSUME NEW n \in DOMAIN f, f[n] = i PROVE \E m \in DOMAIN (f \o s) : (f \o s)[m] = i
    BY <1>3, <1>5, <2>2
  <2>3. ASSUME NEW n \in DOMAIN s, s[n] = i PROVE \E m \in DOMAIN (f \o s) : (f \o s)[m] = i
    BY <1>3, <1>6, <2>3
  <2> QED
    BY <2>1, <2>2, <2>3
<1>9. FedItems(f \o s) = FedItems(f) \cup FedItems(s)
  BY <1>8 DEF FedItems
<1>10. ~HasError(f \o s)
  BY <1>2, <1>8, IndexFacts DEF HasError
<1> QED
  BY <1>9, <1>10

\* What throw() adds.
LEMMA FedError ==
  ASSUME NEW f \in Seq(IndexOrError), ~HasError(f), NEW g, g = Append(f, Par!InputError)
  PROVE  /\ FedItems(g) = FedItems(f) /\ HasError(g)
         /\ Distinct(f) => Distinct(g)
         /\ Len(g) = Len(f) + 1 /\ Len(f) \in Nat
         /\ \A n \in 1..Len(f) : g[n] = f[n]
<1>1. /\ Len(f) \in Nat /\ Len(g) = Len(f) + 1
      /\ DOMAIN f = 1..Len(f) /\ DOMAIN g = 1..(Len(f) + 1)
      /\ \A i \in 1..Len(f) : g[i] = f[i]
      /\ g[Len(f) + 1] = Par!InputError
  BY IndexFacts, AppendIndices
<1>2. HasError(g)
  BY <1>1 DEF HasError
<1>3. \A n \in DOMAIN g : (n \in DOMAIN f /\ g[n] = f[n]) \/ (n = Len(f) + 1 /\ g[n] = Par!InputError)
  BY <1>1
<1>4. FedItems(g) = FedItems(f)
  <2>1. \A i \in Par!Items : (\E n \in DOMAIN g : g[n] = i) <=> (\E n \in DOMAIN f : f[n] = i)
    BY <1>1, <1>3, IndexFacts
  <2> QED
    BY <2>1 DEF FedItems
<1>5. ASSUME Distinct(f), NEW m \in DOMAIN g, NEW n \in DOMAIN g, g[m] = g[n] PROVE m = n
  BY <1>3, <1>5 DEF Distinct, HasError
<1> QED
  BY <1>1, <1>2, <1>4, <1>5 DEF Distinct

\* dispatch() comes to an end.
LEMMA RunEnds ==
  ASSUME NEW S, S \subseteq Par!Items, NEW n \in 0..MaxItems
  PROVE  LET m == Par!EndOfRun(S, n) IN
         m \in n..MaxItems /\ m \notin S /\ \A i \in n..(m - 1) : i \in S
<1> DEFINE T == {m \in Nat : m >= n /\ m \notin S}
<1>1. T \subseteq Nat /\ MaxItems \in T
  BY MaxItemsAssumption DEF Par!Items
<1>2. PICK m \in T : \A k \in T : ~(<<k, m>> \in OpToRel(<, Nat))
  <2> HIDE DEF T
  <2> QED
    BY <1>1, NatLessThanWellFounded, WFMin
<1>3. \A k \in T : ~(k < m)
  BY <1>1, <1>2 DEF OpToRel
<1>4. m \in n..MaxItems /\ m \notin S /\ \A i \in n..(m - 1) : i \in S
  BY <1>1, <1>3, MaxItemsAssumption
<1> HIDE DEF T
<1> QED
  BY <1>4 DEF Par!EndOfRun

LEMMA RunOfIndexes ==
  ASSUME NEW n \in 0..MaxItems, NEW m \in n..MaxItems
  PROVE  /\ Par!Indexes(n, m) \in Seq(Par!Items) /\ Len(Par!Indexes(n, m)) = m - n
         /\ \A i \in 1..(m - n) : Par!Indexes(n, m)[i] = n + i - 1
         /\ FedItems(Par!Indexes(n, m)) = n..(m - 1)
<1> DEFINE s == Par!Indexes(n, m)
<1>1. m - n \in Nat /\ MaxItems \in Nat /\ n \in Nat /\ m \in Nat
  BY MaxItemsAssumption
<1>2. s = [i \in 1..(m - n) |-> n + i - 1]
  BY DEF Par!Indexes
<1>3. \A i \in 1..(m - n) : n + i - 1 \in Par!Items
  BY <1>1 DEF Par!Items
<1> HIDE DEF s
<1>4. s \in Seq(Par!Items) /\ Len(s) = m - n /\ DOMAIN s = 1..(m - n)
  BY <1>1, <1>2, <1>3
<1>5. FedItems(s) = n..(m - 1)
  <2>1. ASSUME NEW i \in n..(m - 1) PROVE i \in FedItems(s)
    <3>1. i - n + 1 \in 1..(m - n) /\ n + (i - n + 1) - 1 = i /\ i \in Par!Items
      BY <1>1, <2>1 DEF Par!Items
    <3> QED
      BY <1>2, <1>4, <3>1 DEF FedItems
  <2>2. ASSUME NEW i \in FedItems(s) PROVE i \in n..(m - 1)
    <3>1. PICK k \in 1..(m - n) : s[k] = i
      BY <1>4, <2>2 DEF FedItems
    <3>2. i = n + k - 1
      BY <1>2, <3>1
    <3> QED
      BY <1>1, <3>1, <3>2
  <2> QED
    BY <2>1, <2>2
<1> QED
  BY <1>2, <1>4, <1>5 DEF s

\* What was fed or waits before, and the item i, was fed or waits after.
Keeps(f, waits, i, g, w) == FedItems(g) \cup w = FedItems(f) \cup waits \cup {i}

\* A run leaves running, and what it feeds is in the output or waits.
LEMMA PlacedFeeds ==
  ASSUME NEW count, NEW run, NEW drop, NEW fail, NEW waits, NEW f, NEW g, NEW i, NEW w,
         Placed(count, run, drop, fail, waits, f), i \in run, Distinct(g),
         Keeps(f, waits, i, g, w)
  PROVE  Placed(count, run \ {i}, drop, fail, w, g)
<1>1. (FedItems(g) \cup w) \cap ((run \ {i}) \cup drop \cup fail) = {}
  BY DEF Placed, Keeps
<1>2. 0..(count - 1) = (run \ {i}) \cup drop \cup fail \cup FedItems(g) \cup w
  <2>1. 0..(count - 1) = run \cup drop \cup fail \cup FedItems(f) \cup waits
    BY DEF Placed
  <2> QED
    BY <2>1 DEF Keeps
<1> QED
  BY <1>1, <1>2 DEF Placed

\* feed() of a FeedableAsyncIterable.
LEMMA FedOne ==
  ASSUME NEW f \in Seq(IndexOrError), ~HasError(f), NEW i \in Par!Items, i \notin FedItems(f),
         Distinct(f)
  PROVE  FedItems(f \o <<i>>) = FedItems(f) \cup {i} /\ Distinct(f \o <<i>>)
         /\ <<i>> \in Seq(Par!Items)
<1>1. i \in IndexOrError /\ <<i>> \in Seq(Par!Items)
  BY IndexFacts
<1>2. Append(f, i) = f \o <<i>>
  BY <1>1, OneMore
<1>3. /\ Len(f) \in Nat /\ DOMAIN f = 1..Len(f) /\ DOMAIN Append(f, i) = 1..(Len(f) + 1)
      /\ \A n \in 1..Len(f) : Append(f, i)[n] = f[n]
      /\ Append(f, i)[Len(f) + 1] = i
  BY <1>1, AppendIndices
<1>4. \A n \in DOMAIN f : f[n] # i
  BY DEF FedItems
<1>5. ASSUME NEW m \in DOMAIN Append(f, i), NEW n \in DOMAIN Append(f, i),
             Append(f, i)[m] = Append(f, i)[n]
      PROVE  m = n
  <2>1. \A k \in DOMAIN Append(f, i) :
           (k \in DOMAIN f /\ Append(f, i)[k] = f[k]) \/ (k = Len(f) + 1 /\ Append(f, i)[k] = i)
    BY <1>3
  <2> QED
    BY <1>4, <1>5, <2>1 DEF Distinct
<1>6. FedItems(<<i>>) = {i}
  BY DEF FedItems
<1>7. FedItems(f \o <<i>>) = FedItems(f) \cup {i}
  <2>1. PICK s \in Seq(Par!Items) : s = <<i>>
    BY <1>1
  <2>2. FedItems(f \o s) = FedItems(f) \cup FedItems(s)
    BY FedMore
  <2> QED
    BY <1>6, <2>1, <2>2
<1> QED
  BY <1>1, <1>2, <1>5, <1>7 DEF Distinct

\* What feed() of an OrderedFeedableAsyncIterable dispatches: s, the indexes from
\* next to m.
LEMMA FedUpTo ==
  ASSUME NEW f \in Seq(IndexOrError), ~HasError(f), NEW waits, waits \subseteq Par!Items,
         NEW i \in Par!Items, NEW next \in 0..MaxItems, Ordered(TRUE, next, waits, f),
         i \notin FedItems(f),
         NEW m \in next..MaxItems, m \notin waits \cup {i},
         \A k \in next..(m - 1) : k \in waits \cup {i},
         NEW s \in Seq(Par!Items), Len(s) = m - next,
         \A k \in 1..(m - next) : s[k] = next + k - 1,
         FedItems(s) = next..(m - 1)
  PROVE  /\ FedItems(f \o s) \cup ((waits \cup {i}) \ (next..(m - 1)))
               = FedItems(f) \cup waits \cup {i}
         /\ Distinct(f \o s) /\ ~HasError(f \o s)
         /\ Ordered(TRUE, m, (waits \cup {i}) \ (next..(m - 1)), f \o s)
<1> DEFINE w == (waits \cup {i}) \ (next..(m - 1))
<1>2. m \in 0..MaxItems /\ m \in Nat /\ next \in Nat /\ m >= next /\ m - next \in Nat
  BY MaxItemsAssumption
<1>4. /\ \A n \in 1..next : f[n] = n - 1
      /\ \A k \in waits : k > next
      /\ Len(f) = next /\ DOMAIN f = 1..next
  <2>1. Len(f) = next
    BY <1>2 DEF Ordered
  <2> QED
    BY <2>1, Lengths DEF Ordered
<1>5. FedItems(f) = 0..(next - 1)
  <2>1. ASSUME NEW k \in FedItems(f) PROVE k \in 0..(next - 1)
    BY <1>2, <1>4, <2>1 DEF FedItems
  <2>2. ASSUME NEW k \in 0..(next - 1) PROVE k \in FedItems(f)
    <3>1. k + 1 \in 1..next /\ k \in Par!Items /\ (k + 1) - 1 = k
      BY <1>2, <2>2, MaxItemsAssumption DEF Par!Items
    <3> QED
      BY <1>4, <3>1 DEF FedItems
  <2> QED
    BY <2>1, <2>2
<1>6. i >= next /\ i \in Nat
  BY <1>2, <1>5 DEF Par!Items
<1>7. FedItems(f \o s) = FedItems(f) \cup FedItems(s) /\ ~HasError(f \o s)
  BY FedMore
<1>8. FedItems(f \o s) \cup w = FedItems(f) \cup waits \cup {i}
  BY <1>7
<1>9. ASSUME NEW k \in w PROVE k > m
  <2>1. k \in waits \cup {i} /\ k \notin next..(m - 1) /\ k \in Nat /\ k >= next
    BY <1>2, <1>4, <1>6, <1>9 DEF Par!Items
  <2>2. k # m
    BY <2>1
  <2> QED
    BY <1>2, <2>1, <2>2
<1>10. s \in Seq(IndexOrError)
  BY DEF IndexOrError
<1>11. /\ Len(f \o s) = Len(f) + Len(s) /\ f \o s \in Seq(IndexOrError)
       /\ \A n \in DOMAIN f : (f \o s)[n] = f[n]
       /\ \A n \in DOMAIN s : (f \o s)[Len(f) + n] = s[n]
       /\ \A n \in DOMAIN (f \o s) : n \in DOMAIN f \/ n - Len(f) \in DOMAIN s
  <2>1. ASSUME NEW T, NEW g \in Seq(T), NEW t \in Seq(T)
        PROVE  /\ Len(g \o t) = Len(g) + Len(t) /\ g \o t \in Seq(T)
               /\ \A n \in DOMAIN g : (g \o t)[n] = g[n]
               /\ \A n \in DOMAIN t : (g \o t)[Len(g) + n] = t[n]
               /\ \A n \in DOMAIN (g \o t) : n \in DOMAIN g \/ n - Len(g) \in DOMAIN t
    BY Joined
  <2> QED
    BY <1>10, <2>1
<1>12. Len(f \o s) = m /\ DOMAIN (f \o s) = 1..m
  <2>1. Len(f \o s) = m
    BY <1>2, <1>4, <1>11
  <2> QED
    BY <1>11, <2>1, Lengths
<1>13. ASSUME NEW n \in 1..m PROVE (f \o s)[n] = n - 1
  <2>1. CASE n \in 1..next
    BY <1>4, <1>11, <2>1
  <2>2. CASE n - next \in 1..(m - next)
    <3>1. PICK k \in 1..(m - next) : k = n - next
      BY <2>2
    <3>2. n = next + k
      BY <1>2, <3>1
    <3>3. DOMAIN s = 1..(m - next)
      BY <1>10, Lengths
    <3>4. (f \o s)[next + k] = s[k]
      BY <1>4, <1>11, <3>3
    <3>5. s[k] = next + k - 1
      OBVIOUS
    <3> QED
      BY <3>2, <3>4, <3>5
  <2>3. \A a, b, c \in Nat : c \in 1..b => c \in 1..a \/ c - a \in 1..(b - a)
    OBVIOUS
  <2>4. n \in Nat
    BY <1>13
  <2> QED
    BY <1>2, <1>13, <2>1, <2>2, <2>3, <2>4
<1>14. Distinct(f \o s)
  <2> DEFINE g == f \o s
  <2>1. DOMAIN g = 1..m /\ \A n \in 1..m : g[n] = n - 1
    BY <1>12, <1>13
  <2> HIDE DEF g
  <2>2. ASSUME NEW a \in 1..m, NEW b \in 1..m, g[a] = g[b] PROVE a = b
    <3>1. a - 1 = b - 1 /\ a \in Int /\ b \in Int
      BY <2>1, <2>2
    <3> QED
      BY <3>1
  <2>3. Distinct(g)
    BY <2>1, <2>2 DEF Distinct
  <2> QED
    BY <2>3 DEF g
<1>15. Ordered(TRUE, m, w, f \o s)
  BY <1>2, <1>7, <1>9, <1>12, <1>13 DEF Ordered
<1> QED
  BY <1>7, <1>8, <1>14, <1>15

\* feed() of an OrderedFeedableAsyncIterable, with dispatch(): where the run ends,
\* what is dispatched, and what waits on.
RunEnd(waits, i, next) == Par!EndOfRun(waits \cup {i}, next)
Dispatched(waits, i, next) == Par!Indexes(next, RunEnd(waits, i, next))
Waiting(waits, i, next) == (waits \cup {i}) \ (next..(RunEnd(waits, i, next) - 1))

LEMMA FedRun ==
  ASSUME NEW f \in Seq(IndexOrError), ~HasError(f), NEW waits, waits \subseteq Par!Items,
         NEW i \in Par!Items, NEW next \in 0..MaxItems, Ordered(TRUE, next, waits, f),
         i \notin FedItems(f)
  PROVE  /\ RunEnd(waits, i, next) \in 0..MaxItems
         /\ Dispatched(waits, i, next) \in Seq(Par!Items)
         /\ Waiting(waits, i, next) \subseteq Par!Items
         /\ Keeps(f, waits, i, f \o Dispatched(waits, i, next), Waiting(waits, i, next))
         /\ Distinct(f \o Dispatched(waits, i, next))
         /\ Ordered(TRUE, RunEnd(waits, i, next), Waiting(waits, i, next),
                    f \o Dispatched(waits, i, next))
<1> DEFINE m == Par!EndOfRun(waits \cup {i}, next)
           s == Par!Indexes(next, m)
<1>1. /\ m \in next..MaxItems /\ m \notin waits \cup {i}
      /\ \A k \in next..(m - 1) : k \in waits \cup {i}
  <2>1. waits \cup {i} \subseteq Par!Items
    OBVIOUS
  <2> QED
    BY <2>1, RunEnds
<1>2. m \in 0..MaxItems
  BY <1>1, MaxItemsAssumption
<1> HIDE DEF m
<1>3. /\ s \in Seq(Par!Items) /\ Len(s) = m - next
      /\ \A k \in 1..(m - next) : s[k] = next + k - 1
      /\ FedItems(s) = next..(m - 1)
  BY <1>1, RunOfIndexes
<1> HIDE DEF s
<1>4. /\ FedItems(f \o s) \cup ((waits \cup {i}) \ (next..(m - 1))) = FedItems(f) \cup waits \cup {i}
      /\ Distinct(f \o s) /\ ~HasError(f \o s)
      /\ Ordered(TRUE, m, (waits \cup {i}) \ (next..(m - 1)), f \o s)
  <2>1. PICK M \in next..MaxItems, t \in Seq(Par!Items) : M = m /\ t = s
    BY <1>1, <1>3
  <2>2. /\ M \notin waits \cup {i} /\ \A k \in next..(M - 1) : k \in waits \cup {i}
        /\ Len(t) = M - next
        /\ \A k \in 1..(M - next) : t[k] = next + k - 1
        /\ FedItems(t) = next..(M - 1)
    BY <1>1, <1>3, <2>1
  <2>3. /\ FedItems(f \o t) \cup ((waits \cup {i}) \ (next..(M - 1)))
              = FedItems(f) \cup waits \cup {i}
        /\ Distinct(f \o t) /\ ~HasError(f \o t)
        /\ Ordered(TRUE, M, (waits \cup {i}) \ (next..(M - 1)), f \o t)
    BY Zenon, <2>2, FedUpTo
  <2> QED
    BY <2>1, <2>3
<1>5. m = RunEnd(waits, i, next) /\ s = Dispatched(waits, i, next)
      /\ (waits \cup {i}) \ (next..(m - 1)) = Waiting(waits, i, next)
      /\ (waits \cup {i}) \ (next..(m - 1)) \subseteq Par!Items
  BY DEF m, s, RunEnd, Dispatched, Waiting
<1>6. Keeps(f, waits, i, f \o s, (waits \cup {i}) \ (next..(m - 1)))
  BY Zenon, <1>4 DEF Keeps
<1> QED
  BY Zenon, <1>2, <1>3, <1>4, <1>5, <1>6

-----------------------------------------------------------------------------
(* parallelFeed(): the invariant.                                           *)

LEMMA ParCardinality == \A S : Par!Cardinality(S) = Cardinality(S)
  BY DEF Par!Cardinality, Cardinality

ParOut == <<outBuffer, outClosed, outReader, outReceived, outFed, outTaken>>

\* What the invariant says, in terms of the definitions above.
LEMMA ParState ==
  ASSUME Par!IInv
  PROVE  /\ Par!Out!TypeOK /\ Par!Out!StreamInv
         /\ keepOrder \in BOOLEAN /\ inBuffer \subseteq Par!Items
         /\ currentIndex \in 0..MaxItems /\ index \in 0..MaxItems
         /\ loop \in {"pulling", "full", "draining", "over"}
         /\ running \cup failing \cup errors \cup dropped \cup failed \subseteq 0..(index - 1)
         /\ failing \cup errors = failed /\ told \subseteq errors
         /\ outClosed[Par!out] <=> loop = "over"
         /\ Placed(index, running, dropped, failed, inBuffer, outFed[Par!out])
         /\ Ordered(keepOrder, currentIndex, inBuffer, outFed[Par!out])
         /\ IsFiniteSet(running) /\ Cardinality(running) \in Nat
         /\ Cardinality(running) <= Concurrency
         /\ loop = "pulling" => Cardinality(running) < Concurrency
         /\ loop = "over" => HasError(outFed[Par!out]) \/ (running = {} /\ told = {})
         /\ loop # "over" => ~HasError(outFed[Par!out])
         /\ outFed[Par!out] \in Seq(IndexOrError)
<1>1. /\ Par!TypeOK /\ Par!Out!TypeOK /\ Par!Out!StreamInv
      /\ keepOrder \in BOOLEAN /\ inBuffer \subseteq Par!Items
      /\ currentIndex \in 0..MaxItems /\ index \in 0..MaxItems
      /\ loop \in {"pulling", "full", "draining", "over"}
      /\ running \cup failing \cup errors \cup dropped \cup failed \subseteq 0..(index - 1)
      /\ failing \cup errors = failed /\ told \subseteq errors
  BY DEF Par!IInv, Par!TypeOK
<1>2. ParStream /\ outClosed[Par!out] \in BOOLEAN /\ outFed[Par!out] \in Seq(IndexOrError)
  BY <1>1, ParFacts
<1>3. outClosed[Par!out] <=> loop = "over"
  <2>1. outClosed[Par!out] = (loop = "over")
    BY <1>1 DEF Par!TypeOK
  <2> QED
    BY <1>2, <2>1
<1>4. /\ Placed(index, running, dropped, failed, inBuffer, outFed[Par!out])
      /\ Ordered(keepOrder, currentIndex, inBuffer, outFed[Par!out])
  BY ParDefs DEF Par!IInv
<1>5. IsFiniteSet(running) /\ Cardinality(running) \in Nat
  <2>1. IsFiniteSet(0..(index - 1))
    BY <1>1, FS_Interval
  <2>2. running \in SUBSET (0..(index - 1))
    BY <1>1
  <2>3. IsFiniteSet(running)
    BY <2>1, <2>2, FS_Subset
  <2> QED
    BY <2>3, FS_CardinalityType
<1>6. /\ Cardinality(running) <= Concurrency
      /\ loop = "pulling" => Cardinality(running) < Concurrency
      /\ loop = "over" => HasError(outFed[Par!out]) \/ (running = {} /\ told = {})
  BY ParCardinality, ParDefs DEF Par!IInv, Par!LoopInv
<1>7. loop # "over" => ~HasError(outFed[Par!out])
  BY <1>2, <1>3 DEF HasError, ParStream, IsStream
<1> QED
  BY <1>1, <1>2, <1>3, <1>4, <1>5, <1>6, <1>7

\* And what has to be shown of it.
LEMMA ParNext ==
  ASSUME Par!Out!TypeOK', Par!Out!StreamInv', keepOrder' \in BOOLEAN, inBuffer' \subseteq Par!Items,
         currentIndex' \in 0..MaxItems, index' \in 0..MaxItems,
         loop' \in {"pulling", "full", "draining", "over"},
         running' \cup failing' \cup errors' \cup dropped' \cup failed' \subseteq 0..(index' - 1),
         failing' \cup errors' = failed', told' \subseteq errors',
         outClosed'[Par!out] <=> loop' = "over",
         Placed(index', running', dropped', failed', inBuffer', outFed'[Par!out]),
         Ordered(keepOrder', currentIndex', inBuffer', outFed'[Par!out]),
         Cardinality(running') <= Concurrency,
         loop' = "pulling" => Cardinality(running') < Concurrency,
         loop' = "over" => HasError(outFed'[Par!out]) \/ (running' = {} /\ told' = {})
  PROVE  Par!IInv'
<1>1. outClosed'[Par!out] = (loop' = "over")
  <2>1. outClosed'[Par!out] \in BOOLEAN
    BY ParTyped DEF ParType
  <2> QED
    BY <2>1
<1>2. Par!TypeOK'
  BY <1>1 DEF Par!TypeOK
<1>3. Par!PlaceInv' /\ Par!OrderInv'
  BY ParDefs
<1>4. Par!LoopInv'
  BY ParCardinality, ParDefs DEF Par!LoopInv
<1> QED
  BY <1>2, <1>3, <1>4 DEF Par!IInv

LEMMA ParOutSame ==
  ASSUME Par!Out!TypeOK, Par!Out!StreamInv, UNCHANGED ParOut
  PROVE  Par!Out!TypeOK' /\ Par!Out!StreamInv'
<1>1. ParType'
  BY ParTyped DEF ParType, ParOut
<1>2. ParStream'
  BY ParStreams DEF ParStream, ParOut
<1> QED
  BY <1>1, <1>2, ParTyped, ParStreams

\* The loop takes an item.
LEMMA ParPull == Par!IInv /\ Par!Pull => Par!IInv'
<1> SUFFICES ASSUME Par!IInv, Par!Pull PROVE Par!IInv'
  OBVIOUS
<1>1. /\ loop = "pulling" /\ index < MaxItems /\ running' = running \cup {index}
      /\ index' = index + 1
      /\ loop' = IF Cardinality(running') >= Concurrency THEN "full" ELSE "pulling"
      /\ UNCHANGED ParOut
      /\ UNCHANGED <<keepOrder, inBuffer, currentIndex, failing, errors, dropped, failed, told>>
  BY ParCardinality DEF Par!Pull, Par!outVars, Par!orderVars, Par!history, ParOut
<1>2. /\ Par!Out!TypeOK /\ Par!Out!StreamInv
      /\ keepOrder \in BOOLEAN /\ inBuffer \subseteq Par!Items
      /\ currentIndex \in 0..MaxItems /\ index \in 0..MaxItems
      /\ running \cup failing \cup errors \cup dropped \cup failed \subseteq 0..(index - 1)
      /\ failing \cup errors = failed /\ told \subseteq errors
      /\ outClosed[Par!out] <=> loop = "over"
      /\ Placed(index, running, dropped, failed, inBuffer, outFed[Par!out])
      /\ Ordered(keepOrder, currentIndex, inBuffer, outFed[Par!out])
      /\ IsFiniteSet(running) /\ Cardinality(running) \in Nat
      /\ loop = "pulling" => Cardinality(running) < Concurrency
  BY ParState
<1>3. Cardinality(running') <= Concurrency /\ Cardinality(running') \in Nat
  <2>1. Cardinality(running') = IF index \in running THEN Cardinality(running)
                                ELSE Cardinality(running) + 1
    BY <1>1, <1>2, FS_AddElement
  <2> QED
    BY <1>1, <1>2, <2>1, ConcurrencyAssumption
<1>4. /\ loop' \in {"pulling", "full"}
      /\ loop' = "pulling" => Cardinality(running') < Concurrency
  BY <1>1, <1>3, ConcurrencyAssumption
<1>5. index' \in 0..MaxItems /\ index' \in Nat /\ 0..(index' - 1) = 0..(index - 1) \cup {index}
      /\ index \notin 0..(index - 1)
  BY <1>1, <1>2, MaxItemsAssumption
<1>6. Placed(index', running', dropped, failed, inBuffer, outFed[Par!out])
  BY <1>1, <1>2, <1>5 DEF Placed
<1>7. Par!Out!TypeOK' /\ Par!Out!StreamInv' /\ outClosed' = outClosed /\ outFed' = outFed
  BY <1>1, <1>2, ParOutSame DEF ParOut
<1>8. running' \cup failing' \cup errors' \cup dropped' \cup failed' \subseteq 0..(index' - 1)
  BY <1>1, <1>2, <1>5
<1> QED
  BY <1>1, <1>2, <1>3, <1>4, <1>5, <1>6, <1>7, <1>8, ParNext

\* The loop goes on, or breaks.
LEMMA ParLoop == Par!IInv /\ (Par!PullAfterError \/ Par!InputEnds \/ Par!SlotIsFree) => Par!IInv'
<1> SUFFICES ASSUME Par!IInv, Par!PullAfterError \/ Par!InputEnds \/ Par!SlotIsFree
             PROVE  Par!IInv'
  OBVIOUS
<1>1. /\ loop # "over" /\ loop' \in {"pulling", "draining"}
      /\ loop' = "pulling" => Cardinality(running) < Concurrency
      /\ UNCHANGED ParOut
      /\ UNCHANGED <<keepOrder, inBuffer, currentIndex, index, running, failing, errors, dropped,
                     failed, told>>
  BY ParCardinality DEF Par!PullAfterError, Par!InputEnds, Par!SlotIsFree, Par!outVars,
     Par!orderVars, Par!history, ParOut
<1>2. Par!Out!TypeOK' /\ Par!Out!StreamInv' /\ outClosed' = outClosed /\ outFed' = outFed
  BY <1>1, ParState, ParOutSame DEF ParOut
<1> QED
  BY <1>1, <1>2, ParState, ParNext

\* A run drops its item or fails; or its error is pushed.
LEMMA ParRun ==
  ASSUME Par!IInv, NEW i, Par!RunDrops(i) \/ Par!RunFails(i) \/ Par!ErrorPushed(i)
  PROVE  Par!IInv'
<1>1. /\ UNCHANGED ParOut
      /\ UNCHANGED <<keepOrder, inBuffer, currentIndex, index, loop, told>>
      /\ \/ /\ i \in running /\ running' = running \ {i} /\ dropped' = dropped \cup {i}
            /\ UNCHANGED <<failing, errors, failed>>
         \/ /\ i \in running /\ running' = running \ {i} /\ failing' = failing \cup {i}
            /\ failed' = failed \cup {i} /\ UNCHANGED <<errors, dropped>>
         \/ /\ i \in failing /\ failing' = failing \ {i} /\ errors' = errors \cup {i}
            /\ UNCHANGED <<running, dropped, failed>>
  BY DEF Par!RunDrops, Par!RunFails, Par!ErrorPushed, Par!outVars, Par!orderVars,
         Par!history, ParOut
<1>2. /\ Par!Out!TypeOK /\ Par!Out!StreamInv
      /\ running \cup failing \cup errors \cup dropped \cup failed \subseteq 0..(index - 1)
      /\ failing \cup errors = failed /\ told \subseteq errors
      /\ Placed(index, running, dropped, failed, inBuffer, outFed[Par!out])
      /\ IsFiniteSet(running) /\ Cardinality(running) \in Nat
      /\ Cardinality(running) <= Concurrency
      /\ loop = "pulling" => Cardinality(running) < Concurrency
      /\ loop = "over" => HasError(outFed[Par!out]) \/ (running = {} /\ told = {})
  BY ParState
<1>3. Par!Out!TypeOK' /\ Par!Out!StreamInv' /\ outClosed' = outClosed /\ outFed' = outFed
  BY <1>1, <1>2, ParOutSame DEF ParOut
<1>4. Placed(index, running', dropped', failed', inBuffer, outFed[Par!out])
  BY <1>1, <1>2 DEF Placed
<1>5. running' \in SUBSET running
  BY <1>1
<1>6. Cardinality(running') <= Cardinality(running) /\ Cardinality(running') \in Nat
  <2>1. IsFiniteSet(running') /\ Cardinality(running') <= Cardinality(running)
    BY <1>2, <1>5, FS_Subset
  <2> QED
    BY <2>1, FS_CardinalityType
<1>7. /\ Cardinality(running') <= Concurrency
      /\ loop = "pulling" => Cardinality(running') < Concurrency
  BY <1>2, <1>6, ConcurrencyAssumption
<1>8. /\ running' \cup failing' \cup errors' \cup dropped' \cup failed' \subseteq 0..(index - 1)
      /\ failing' \cup errors' = failed' /\ told \subseteq errors'
      /\ running = {} => running' = {}
  BY <1>1, <1>2
<1> QED
  BY <1>1, <1>2, <1>3, <1>4, <1>7, <1>8, ParState, ParNext

\* The loop is over, and the output is closed.
LEMMA ParOver ==
  ASSUME Par!IInv, Par!InputThrows \/ Par!Drained
  PROVE  /\ Par!IInv' /\ errors' = errors /\ index' = index
         /\ HasError(outFed'[Par!out]) \/ (loop = "draining" /\ errors = {})
<1>1. /\ loop \in {"pulling", "draining"} /\ loop' = "over"
      /\ Par!Out!End({Par!out}) \/ Par!Out!Throw({Par!out})
      /\ \/ Par!Out!Throw({Par!out}) /\ told' \in {told, errors}
         \/ Par!Out!End({Par!out}) /\ errors = {} /\ running = {} /\ told' = errors /\ loop = "draining"
      /\ UNCHANGED <<keepOrder, inBuffer, currentIndex, index, running, failing, errors, dropped,
                     failed>>
  BY DEF Par!InputThrows, Par!Drained, Par!orderVars, Par!history
<1>2. /\ Par!Out!TypeOK /\ Par!Out!StreamInv /\ outFed[Par!out] \in Seq(IndexOrError)
      /\ ~outClosed[Par!out] /\ ~HasError(outFed[Par!out])
      /\ Placed(index, running, dropped, failed, inBuffer, outFed[Par!out])
      /\ Ordered(keepOrder, currentIndex, inBuffer, outFed[Par!out])
      /\ told \subseteq errors /\ currentIndex \in 0..MaxItems
  BY <1>1, ParState
<1>3. /\ Par!Out!TypeOK' /\ Par!Out!StreamInv' /\ outClosed'[Par!out]
      /\ Par!Out!End({Par!out}) => outFed' = outFed
      /\ Par!Out!Throw({Par!out}) => outFed'[Par!out] = Append(outFed[Par!out], Par!InputError)
  BY <1>1, <1>2, ParClose
<1>4. told' \subseteq errors'
  BY <1>1, <1>2
<1>5. CASE Par!Out!Throw({Par!out}) /\ told' \in {told, errors}
  <2> DEFINE f == outFed[Par!out]
             g == outFed'[Par!out]
  <2>0. f \in Seq(IndexOrError) /\ ~HasError(f) /\ g = Append(f, Par!InputError)
    BY <1>2, <1>3, <1>5
  <2>1. Placed(index, running, dropped, failed, inBuffer, f)
        /\ Ordered(keepOrder, currentIndex, inBuffer, f)
    BY <1>2
  <2> HIDE DEF f, g
  <2>2. /\ FedItems(g) = FedItems(f) /\ HasError(g)
        /\ Distinct(f) => Distinct(g)
        /\ Len(g) = Len(f) + 1 /\ Len(f) \in Nat
        /\ \A n \in 1..Len(f) : g[n] = f[n]
    BY <2>0, FedError
  <2>3. Placed(index, running, dropped, failed, inBuffer, g)
    BY <2>1, <2>2 DEF Placed
  <2>4. Ordered(keepOrder, currentIndex, inBuffer, g)
    <3>1. CASE keepOrder
      <4>1. Len(f) = currentIndex
        BY <1>2, <2>0, <2>1, <3>1 DEF Ordered
      <4>2. Len(g) = currentIndex + 1 /\ \A n \in 1..currentIndex : g[n] = f[n]
        BY <2>2, <4>1
      <4> QED
        BY <2>1, <2>2, <3>1, <4>2 DEF Ordered
    <3>2. CASE ~keepOrder
      BY <2>1, <3>2 DEF Ordered
    <3> QED
      BY <3>1, <3>2
  <2>5. /\ Placed(index', running', dropped', failed', inBuffer', g)
        /\ Ordered(keepOrder', currentIndex', inBuffer', g)
    BY <1>1, <2>3, <2>4
  <2>6. Par!IInv'
    <3>1. /\ Placed(index', running', dropped', failed', inBuffer', outFed'[Par!out])
          /\ Ordered(keepOrder', currentIndex', inBuffer', outFed'[Par!out])
          /\ HasError(outFed'[Par!out])
      BY <2>2, <2>5 DEF g
    <3>2. outClosed'[Par!out] <=> loop' = "over"
      BY <1>1, <1>3
    <3> QED
      BY <1>1, <1>3, <1>4, <3>1, <3>2, ParState, ParNext
  <2> QED
    BY <1>1, <2>2, <2>6 DEF g
<1>6. CASE /\ Par!Out!End({Par!out}) /\ errors = {} /\ running = {} /\ told' = errors
           /\ loop = "draining"
  <2>1. outFed' = outFed
    BY <1>3, <1>6
  <2>2. outClosed'[Par!out] <=> loop' = "over"
    BY <1>1, <1>3
  <2> QED
    BY <1>1, <1>2, <1>3, <1>4, <1>6, <2>1, <2>2, ParState, ParNext
<1> QED
  BY <1>1, <1>5, <1>6

\* A run feeds what it has.
LEMMA ParFeeds ==
  ASSUME Par!IInv, NEW i \in Par!Items, Par!RunFeeds(i)
  PROVE  Par!IInv' /\ loop # "over" /\ UNCHANGED <<index, loop, errors>>
<1>1. /\ i \in running /\ running' = running \ {i} /\ Par!Feed(i)
      /\ UNCHANGED <<keepOrder, index, loop, failing, errors, dropped, failed, told>>
  BY DEF Par!RunFeeds, Par!history
<1>2. /\ Par!Out!TypeOK /\ Par!Out!StreamInv /\ outFed[Par!out] \in Seq(IndexOrError)
      /\ inBuffer \subseteq Par!Items /\ currentIndex \in 0..MaxItems
      /\ running \cup failing \cup errors \cup dropped \cup failed \subseteq 0..(index - 1)
      /\ Placed(index, running, dropped, failed, inBuffer, outFed[Par!out])
      /\ Ordered(keepOrder, currentIndex, inBuffer, outFed[Par!out])
      /\ IsFiniteSet(running) /\ Cardinality(running) \in Nat
      /\ Cardinality(running) <= Concurrency
      /\ loop = "pulling" => Cardinality(running) < Concurrency
      /\ outClosed[Par!out] <=> loop = "over"
      /\ loop # "over" => ~HasError(outFed[Par!out])
  BY ParState
<1>3. ~outClosed[Par!out] /\ loop # "over" /\ ~HasError(outFed[Par!out])
  BY <1>1, <1>2 DEF Par!Feed, Par!FeedOrdered, Par!Out!Feed
<1>4. i \notin FedItems(outFed[Par!out]) /\ Distinct(outFed[Par!out])
  BY <1>1, <1>2 DEF Placed
<1>5. /\ running' \cup failing' \cup errors' \cup dropped' \cup failed' \subseteq 0..(index' - 1)
  BY <1>1, <1>2
<1>6. /\ Cardinality(running') <= Concurrency
      /\ loop' = "pulling" => Cardinality(running') < Concurrency
  <2>1. Cardinality(running') = Cardinality(running) - 1
    BY <1>1, <1>2, FS_RemoveElement
  <2> QED
    BY <1>1, <1>2, <2>1, ConcurrencyAssumption
<1>7. ASSUME NEW s \in Seq(Par!Items), Par!Out!Feed(Par!out, s),
             inBuffer' \subseteq Par!Items, currentIndex' \in 0..MaxItems,
             Placed(index, running \ {i}, dropped, failed, inBuffer', outFed'[Par!out]),
             Ordered(keepOrder, currentIndex', inBuffer', outFed'[Par!out])
      PROVE  Par!IInv'
  <2>1. Par!Out!TypeOK' /\ Par!Out!StreamInv' /\ outClosed' = outClosed
    BY <1>2, <1>7, ParFeed
  <2>2. /\ Placed(index', running', dropped', failed', inBuffer', outFed'[Par!out])
        /\ Ordered(keepOrder', currentIndex', inBuffer', outFed'[Par!out])
    BY <1>1, <1>7
  <2>3. (outClosed'[Par!out] <=> loop' = "over") /\ loop' # "over"
    BY <1>1, <1>2, <1>3, <2>1
  <2> QED
    BY <1>1, <1>5, <1>6, <1>7, <2>1, <2>2, <2>3, ParState, ParNext
<1> DEFINE f == outFed[Par!out]
           g == outFed'[Par!out]
<1>11. /\ f \in Seq(IndexOrError) /\ ~HasError(f) /\ i \notin FedItems(f) /\ Distinct(f)
       /\ Placed(index, running, dropped, failed, inBuffer, f)
       /\ Ordered(keepOrder, currentIndex, inBuffer, f)
       /\ inBuffer \subseteq Par!Items /\ currentIndex \in 0..MaxItems /\ i \in running
  BY <1>1, <1>2, <1>3, <1>4
<1>12. \A s \in Seq(Par!Items) : Par!Out!Feed(Par!out, s) => g = f \o s
  BY <1>2, ParFeed
<1>8. CASE keepOrder /\ Par!FeedOrdered(i)
  <2> DEFINE m == RunEnd(inBuffer, i, currentIndex)
             s == Dispatched(inBuffer, i, currentIndex)
             w == Waiting(inBuffer, i, currentIndex)
  <2>1. inBuffer' = w /\ currentIndex' = m /\ Par!Out!Feed(Par!out, s)
    BY <1>8 DEF Par!FeedOrdered, RunEnd, Dispatched, Waiting
  <2>2. Ordered(TRUE, currentIndex, inBuffer, f)
    BY <1>8, <1>11 DEF Ordered
  <2> HIDE DEF f, g
  <2>3. /\ m \in 0..MaxItems /\ s \in Seq(Par!Items) /\ w \subseteq Par!Items
        /\ Keeps(f, inBuffer, i, f \o s, w)
        /\ Distinct(f \o s) /\ Ordered(TRUE, m, w, f \o s)
    <3>1. m \in 0..MaxItems /\ s \in Seq(Par!Items) /\ w \subseteq Par!Items
      BY <1>11, <2>2, FedRun
    <3>2. Keeps(f, inBuffer, i, f \o s, w)
      BY Zenon, <1>11, <2>2, FedRun
    <3>3. Distinct(f \o s)
      BY <1>11, <2>2, FedRun
    <3>4. Ordered(TRUE, m, w, f \o s)
      BY Zenon, <1>11, <2>2, FedRun
    <3> HIDE DEF m, s, w
    <3> QED
      BY <3>1, <3>2, <3>3, <3>4
  <2> HIDE DEF m, s, w
  <2>4. g = f \o s
    BY <1>12, <2>1, <2>3
  <2>5. Keeps(f, inBuffer, i, g, w) /\ Distinct(g) /\ Ordered(TRUE, m, w, g)
    BY Zenon, <2>3, <2>4
  <2>6. Placed(index, running \ {i}, dropped, failed, w, g)
    BY <1>11, <2>5, PlacedFeeds
  <2>7. Ordered(keepOrder, m, w, g)
    BY <1>8, <2>5 DEF Ordered
  <2>8. /\ Placed(index, running \ {i}, dropped, failed, inBuffer', outFed'[Par!out])
        /\ Ordered(keepOrder, currentIndex', inBuffer', outFed'[Par!out])
        /\ inBuffer' \subseteq Par!Items /\ currentIndex' \in 0..MaxItems
    BY <2>1, <2>3, <2>6, <2>7 DEF g
  <2> QED
    BY <1>1, <1>3, <1>7, <2>1, <2>3, <2>8
<1>9. CASE ~keepOrder /\ Par!Out!Feed(Par!out, <<i>>) /\ UNCHANGED <<inBuffer, currentIndex>>
  <2> HIDE DEF f, g
  <2>1. /\ FedItems(f \o <<i>>) = FedItems(f) \cup {i}
        /\ Distinct(f \o <<i>>) /\ <<i>> \in Seq(Par!Items)
    BY <1>11, FedOne
  <2>2. g = f \o <<i>>
    BY Zenon, <1>9, <1>12, <2>1
  <2>3. FedItems(g) = FedItems(f) \cup {i} /\ Distinct(g)
    BY Zenon, <2>1, <2>2
  <2>4. Placed(index, running \ {i}, dropped, failed, inBuffer, g)
    <3>1. Keeps(f, inBuffer, i, g, inBuffer)
      BY <2>3 DEF Keeps
    <3> QED
      BY <1>11, <2>3, <3>1, PlacedFeeds
  <2>5. Ordered(keepOrder, currentIndex, inBuffer, g)
    BY <1>9, <1>11 DEF Ordered
  <2>6. /\ Placed(index, running \ {i}, dropped, failed, inBuffer', outFed'[Par!out])
        /\ Ordered(keepOrder, currentIndex', inBuffer', outFed'[Par!out])
        /\ inBuffer' \subseteq Par!Items /\ currentIndex' \in 0..MaxItems
    BY <1>9, <1>11, <2>4, <2>5 DEF g
  <2>7. PICK s \in Seq(Par!Items) : s = <<i>> /\ Par!Out!Feed(Par!out, s)
    BY <1>9, <2>1
  <2> QED
    BY <1>1, <1>3, <1>7, <2>6, <2>7
<1>10. (keepOrder /\ Par!FeedOrdered(i))
       \/ (~keepOrder /\ Par!Out!Feed(Par!out, <<i>>) /\ UNCHANGED <<inBuffer, currentIndex>>)
  BY <1>1 DEF Par!Feed, Par!orderVars
<1> QED
  BY <1>1, <1>3, <1>8, <1>9, <1>10

\* The consumer.
LEMMA ParConsume ==
  ASSUME Par!IInv, Par!Consume
  PROVE  /\ Par!IInv' /\ outFed' = outFed /\ UNCHANGED <<index, loop, errors>>
<1>1. /\ Par!Out!Ask(Par!out) \/ Par!Out!Resume(Par!out) \/ Par!Out!Return(Par!out)
      /\ UNCHANGED <<keepOrder, inBuffer, currentIndex, index, loop, running, failing, errors,
                     dropped, failed, told>>
  BY DEF Par!Consume, Par!orderVars, Par!loopVars, Par!history
<1>2. Par!Out!TypeOK /\ Par!Out!StreamInv
  BY ParState
<1>3. Par!Out!TypeOK' /\ Par!Out!StreamInv' /\ outClosed' = outClosed /\ outFed' = outFed
  <2>1. CASE Par!Out!Ask(Par!out) \/ Par!Out!Resume(Par!out)
    <3>1. Par!Out!Turn(Par!out) /\ outReader[Par!out] \in {"new", "holding", "woken"}
      BY <2>1 DEF Par!Out!Ask, Par!Out!Resume
    <3> QED
      BY <1>2, <3>1, ParTurn
  <2>2. CASE Par!Out!Return(Par!out)
    BY <1>2, <2>2, ParReturn
  <2> QED
    BY <1>1, <2>1, <2>2
<1> QED
  BY <1>1, <1>3, ParState, ParNext

LEMMA ParInit == Par!Init => Par!IInv
<1> SUFFICES ASSUME Par!Init PROVE Par!IInv
  OBVIOUS
<1>1. /\ outBuffer = [o \in {Par!out} |-> <<>>] /\ outClosed = [o \in {Par!out} |-> FALSE]
      /\ outReader = [o \in {Par!out} |-> "new"] /\ outReceived = [o \in {Par!out} |-> <<>>]
      /\ outFed = [o \in {Par!out} |-> <<>>] /\ outTaken = [o \in {Par!out} |-> <<>>]
      /\ keepOrder \in BOOLEAN /\ inBuffer = {} /\ currentIndex = 0 /\ index = 0
      /\ loop = "pulling" /\ running = {} /\ failing = {} /\ errors = {} /\ dropped = {}
      /\ failed = {} /\ told = {}
  BY DEF Par!Init, Par!Out!Init
<1>2. \A T : <<>> \in Seq(T)
  BY Empty
<1>3. ParType
  BY <1>1, <1>2 DEF ParType, Places
<1>4. ParStream
  <2>1. /\ outBuffer[Par!out] = <<>> /\ outFed[Par!out] = <<>> /\ outReceived[Par!out] = <<>>
        /\ outReader[Par!out] = "new"
    BY <1>1
  <2>2. Gone(<<>>, "new") = 0 /\ DOMAIN <<>> = {}
    BY DEF Gone
  <2>3. Order(<<>>, <<>>, <<>>, 0)
    BY DEF Order
  <2> QED
    BY <2>1, <2>2, <2>3 DEF ParStream, IsStream
<1>5. outFed[Par!out] = <<>> /\ DOMAIN <<>> = {} /\ Len(<<>>) = 0
  BY <1>1
<1>6. Par!Fed = {} /\ ~Par!Thrown
  BY <1>5 DEF Par!Fed, Par!Thrown
<1>7. Par!PlaceInv
  BY <1>1, <1>5, <1>6 DEF Par!PlaceInv
<1>8. Par!OrderInv
  BY <1>1, <1>5, <1>6 DEF Par!OrderInv
<1>9. Par!LoopInv
  BY <1>1, ParCardinality, FS_EmptySet, ConcurrencyAssumption DEF Par!LoopInv
<1>10. Par!TypeOK
  <2>1. outClosed[Par!out] = (loop = "over")
    BY <1>1
  <2>2. Par!Out!TypeOK
    BY <1>3, ParTyped
  <2>3. 0 \in 0..MaxItems
    BY MaxItemsAssumption
  <2> QED
    BY <1>1, <2>1, <2>2, <2>3 DEF Par!TypeOK
<1> QED
  BY <1>4, <1>7, <1>8, <1>9, <1>10, ParStreams DEF Par!IInv

-----------------------------------------------------------------------------
(* The pipeline.                                                            *)

LEMMA MuxStutters == Mux!IInv /\ UNCHANGED muxVars => Mux!IInv'
<1> SUFFICES ASSUME Mux!IInv, UNCHANGED muxVars PROVE Mux!IInv'
  OBVIOUS
<1>1. UNCHANGED <<buffer, closed, reader, received, fed, taken, producer, position, pulled>>
  BY DEF muxVars
<1>2. MuxType' /\ \A o \in Mux!Outputs : MuxStream(o)'
  BY <1>1, MuxTyped, Streams DEF MuxType, MuxStream, Mux!IInv, Mux!TypeOK
<1>3. Mux!Out!TypeOK' /\ Mux!Out!StreamInv'
  BY <1>2, MuxTyped, Streams
<1>4. \A o \in Mux!Outputs : Mux!FedInv(o)'
  BY <1>1, FedCounts DEF Mux!IInv, Mux!Fed
<1>5. Mux!TypeOK'
  BY <1>1, <1>3 DEF Mux!IInv, Mux!TypeOK
<1>6. Mux!DrainInv'
  BY <1>1 DEF Mux!IInv, Mux!DrainInv, Mux!Full
<1> QED
  BY <1>3, <1>4, <1>5, <1>6 DEF Mux!IInv

LEMMA ParStutters == Par!IInv /\ UNCHANGED parVars => Par!IInv'
<1> SUFFICES ASSUME Par!IInv, UNCHANGED parVars PROVE Par!IInv'
  OBVIOUS
<1>1. /\ UNCHANGED ParOut
      /\ UNCHANGED <<keepOrder, inBuffer, currentIndex, index, loop, running, failing, errors,
                     dropped, failed, told>>
  BY DEF parVars, ParOut
<1>2. Par!Out!TypeOK' /\ Par!Out!StreamInv' /\ outClosed' = outClosed /\ outFed' = outFed
  BY <1>1, ParState, ParOutSame DEF ParOut
<1> QED
  BY <1>1, <1>2, ParState, ParNext

LEMMA BufStutters == Buf!IInv /\ UNCHANGED bufVars => Buf!IInv'
  BY BufStep

LEMMA PipelineInit == Init => IInv
<1> SUFFICES ASSUME Init PROVE IInv
  OBVIOUS
<1>1. Mux!IInv /\ Buf!IInv /\ Par!IInv
  BY MuxInit, BufInit, ParInit DEF Init
<1>2. received[1] = <<>> /\ received[2] = <<>>
  BY TwoOutputs DEF Init, Mux!Init, Mux!Out!Init
<1>3. bufferPulled = 0 /\ bufferProducer = "new" /\ loop = "pulling" /\ index = 0
  BY DEF Init, Buf!Init, Par!Init
<1>4. Len(received[1]) = 0 /\ Len(received[2]) = 0
  BY <1>2, Empty
<1> QED
  BY <1>1, <1>3, <1>4 DEF IInv, CouplingInv

\* What the helpers know of their readers, for each of them.
BufferKnows ==
  /\ bufferPulled = Len(received[1])
  /\ bufferProducer = "ended" /\ bufferConsumer # "stopped" => reader[1] \in {"done", "threw"}

ParallelKnows ==
  /\ loop \in {"pulling", "full"} => index = Len(received[2])
  /\ loop = "draining" => errors # {} \/ (reader[2] = "done" /\ index = Len(received[2]))
  /\ loop = "over" => HasError(outFed[Par!out])
                      \/ (reader[2] = "done" /\ index = Len(received[2]))

LEMMA Couplings ==
  /\ CouplingInv <=> BufferKnows /\ ParallelKnows
  /\ CouplingInv' <=> BufferKnows' /\ ParallelKnows'
<1>1. CouplingInv <=> BufferKnows /\ ParallelKnows
  BY ParDefs DEF CouplingInv, BufferKnows, ParallelKnows
<1>2. CouplingInv' <=> BufferKnows' /\ ParallelKnows'
  BY ParDefs DEF CouplingInv, BufferKnows, ParallelKnows
<1> QED
  BY <1>1, <1>2

\* The helper's part is kept when its reader only is woken.
LEMMA BufferKept ==
  ASSUME BufferKnows, UNCHANGED bufVars, received'[1] = received[1],
         reader'[1] = reader[1] \/ reader[1] = "waiting"
  PROVE  BufferKnows'
<1>1. UNCHANGED <<bufferPulled, bufferProducer, bufferConsumer>>
  BY DEF bufVars
<1> QED
  BY <1>1 DEF BufferKnows

LEMMA ParallelKept ==
  ASSUME ParallelKnows, UNCHANGED <<index, loop, errors, outFed>>, received'[2] = received[2],
         reader'[2] = reader[2] \/ reader[2] = "waiting"
  PROVE  ParallelKnows'
  BY DEF ParallelKnows

LEMMA MultiplexerStep == IInv /\ Multiplexer => IInv'
<1> SUFFICES ASSUME IInv, Multiplexer PROVE IInv'
  OBVIOUS
<1>1. /\ Mux!Pull \/ Mux!RoomFound \/ Mux!InputEnds \/ Mux!InputThrows
      /\ UNCHANGED <<bufVars, parVars>>
  BY DEF Multiplexer, Input, Multiplexes
<1>2. Mux!IInv /\ Buf!IInv /\ Par!IInv /\ BufferKnows /\ ParallelKnows
  BY Couplings DEF IInv
<1>3. /\ Mux!IInv' /\ received' = received
      /\ \A o \in Mux!Outputs : reader'[o] = reader[o] \/ reader[o] = "waiting"
  BY <1>1, <1>2, MuxProducer
<1>4. BufferKnows'
  BY <1>1, <1>2, <1>3, TwoOutputs, BufferKept
<1>5. ParallelKnows'
  <2>1. UNCHANGED <<index, loop, errors, outFed>>
    BY <1>1 DEF parVars
  <2> QED
    BY <1>2, <1>3, <2>1, TwoOutputs, ParallelKept
<1> QED
  BY <1>1, <1>2, <1>3, <1>4, <1>5, BufStutters, ParStutters, Couplings DEF IInv

LEMMA BufferProducerStep == IInv /\ BufferProducer => IInv'
<1> SUFFICES ASSUME IInv, BufferProducer PROVE IInv'
  OBVIOUS
<1>0. 1 \in Mux!Outputs /\ 2 \in Mux!Outputs /\ 1 # 2
  BY TwoOutputs
<1>1. Mux!IInv /\ Buf!IInv /\ Par!IInv /\ BufferKnows /\ ParallelKnows
  BY Couplings DEF IInv
<1>2. UNCHANGED parVars /\ UNCHANGED <<index, loop, errors, outFed>>
  BY DEF BufferProducer, BufferReads, BufferStopsReading, BufferGoesOn, parVars
<1>3. /\ Buf!TypeOK /\ (end => bufferConsumer \in Buf!Ended)
      /\ bufferConsumer \in {"done", "threw"} => bufferProducer = "ended"
  BY <1>1, Facts DEF Buf!IInv
<1>4. CASE BufferReads
  <2>1. /\ bufferProducer = "pulling"
        /\ Mux!Ask(1) \/ Mux!Resume(1)
        /\ \/ reader'[1] = "holding" /\ Buf!Pull
           \/ reader'[1] = "done" /\ Buf!InputEnds
           \/ reader'[1] = "threw" /\ Buf!InputThrows
           \/ reader'[1] = "waiting" /\ UNCHANGED bufVars
    BY <1>4 DEF BufferReads
  <2>2. /\ Mux!IInv' /\ reader'[2] = reader[2] /\ received'[2] = received[2]
        /\ \/ reader'[1] = "holding" /\ Len(received'[1]) = Len(received[1]) + 1
           \/ reader'[1] \in {"threw", "done", "waiting"} /\ received'[1] = received[1]
    BY <1>0, <1>1, <2>1, MuxReads
  <2>3. Buf!IInv'
    <3>1. [Buf!Next]_bufVars
      BY <2>1 DEF Buf!Next
    <3> QED
      BY <1>1, <3>1, BufStep
  <2>4. BufferKnows'
    <3>1. CASE reader'[1] = "holding" /\ Buf!Pull
      <4>1. /\ bufferPulled' = bufferPulled + 1
            /\ bufferConsumer' = IF bufferConsumer = "awaiting" THEN "woken" ELSE bufferConsumer
            /\ bufferProducer' = "ended" => end
        BY <3>1 DEF Buf!Pull, Buf!WakeConsumer, Buf!GoOn
      <4>2. bufferProducer' = "ended" => bufferConsumer' = "stopped"
        <5>1. end => bufferConsumer = "stopped"
          BY <1>3, <2>1 DEF Buf!Ended
        <5>2. bufferConsumer = "stopped" => bufferConsumer' = "stopped"
          BY <4>1
        <5> QED
          BY <4>1, <5>1, <5>2
      <4> QED
        BY <1>1, <2>2, <3>1, <4>1, <4>2 DEF BufferKnows
    <3>2. CASE /\ reader'[1] \in {"done", "threw"}
               /\ Buf!InputEnds \/ Buf!InputThrows
      <4>1. bufferPulled' = bufferPulled
        BY <3>2 DEF Buf!InputEnds, Buf!InputThrows
      <4>2. received'[1] = received[1]
        BY <2>2, <3>2
      <4> QED
        BY <1>1, <3>2, <4>1, <4>2 DEF BufferKnows
    <3>3. CASE reader'[1] = "waiting" /\ UNCHANGED bufVars
      <4>1. received'[1] = received[1]
        BY <2>2, <3>3
      <4>2. bufferPulled' = bufferPulled /\ bufferProducer' = bufferProducer
        BY <3>3 DEF bufVars
      <4> QED
        BY <1>1, <2>1, <4>1, <4>2 DEF BufferKnows
    <3> QED
      BY <2>1, <3>1, <3>2, <3>3
  <2>5. ParallelKnows'
    BY <1>1, <1>2, <2>2, ParallelKept
  <2> QED
    BY <1>1, <1>2, <2>2, <2>3, <2>4, <2>5, ParStutters, Couplings DEF IInv
<1>5. CASE BufferStopsReading
  <2>1. bufferProducer = "ended" /\ Mux!Return(1) /\ UNCHANGED bufVars
    BY <1>5 DEF BufferStopsReading
  <2>2. /\ Mux!IInv' /\ reader[1] \in {"new", "holding"} /\ reader'[2] = reader[2]
        /\ received' = received
    BY <1>0, <1>1, <2>1, MuxReturns
  <2>3. BufferKnows'
    <3>1. bufferConsumer = "stopped"
      BY <1>1, <2>1, <2>2 DEF BufferKnows
    <3> QED
      BY <1>1, <2>1, <2>2, <3>1 DEF BufferKnows, bufVars
  <2>4. ParallelKnows'
    BY <1>1, <1>2, <2>2, ParallelKept
  <2> QED
    BY <1>1, <1>2, <2>1, <2>2, <2>3, <2>4, BufStutters, ParStutters, Couplings DEF IInv
<1>6. CASE BufferGoesOn
  <2>1. Buf!RoomFound /\ UNCHANGED muxVars /\ UNCHANGED <<reader, received>>
    BY <1>6 DEF BufferGoesOn, muxVars
  <2>2. /\ bufferProducer = "woken" /\ UNCHANGED <<bufferPulled, bufferConsumer>>
        /\ bufferProducer' = "ended" => end
    BY <2>1 DEF Buf!RoomFound, Buf!GoOn
  <2>3. bufferProducer' = "ended" => bufferConsumer' = "stopped"
    BY <1>3, <2>2 DEF Buf!Ended
  <2>4. BufferKnows'
    BY <1>1, <2>1, <2>2, <2>3 DEF BufferKnows
  <2>5. ParallelKnows'
    BY <1>1, <1>2, <2>1, ParallelKept
  <2>6. Buf!IInv'
    BY <1>1, <2>1, BufRoomFound
  <2> QED
    BY <1>1, <1>2, <2>1, <2>4, <2>5, <2>6, MuxStutters, ParStutters, Couplings DEF IInv
<1> QED
  BY <1>4, <1>5, <1>6 DEF BufferProducer

LEMMA BufferConsumerStep == IInv /\ BufferConsumer => IInv'
<1> SUFFICES ASSUME IInv, BufferConsumer PROVE IInv'
  OBVIOUS
<1>1. Mux!IInv /\ Buf!IInv /\ Par!IInv /\ BufferKnows /\ ParallelKnows
  BY Couplings DEF IInv
<1>2. /\ Buf!Begin \/ Buf!Ask \/ Buf!Return \/ Buf!Resume
      /\ UNCHANGED <<muxVars, parVars>>
      /\ UNCHANGED <<reader, received, index, loop, errors, outFed>>
  BY DEF BufferConsumer, BufferIsAsked, BufferAnswers, muxVars, parVars
<1>3. /\ bufferPulled' = bufferPulled
      /\ bufferProducer' = "ended" => bufferProducer = "ended"
      /\ bufferConsumer = "stopped" => FALSE
  BY <1>2 DEF Buf!Begin, Buf!Ask, Buf!Return, Buf!Resume, Buf!Take
<1>4. BufferKnows'
  BY <1>1, <1>2, <1>3 DEF BufferKnows
<1>5. ParallelKnows'
  BY <1>1, <1>2, ParallelKept
<1>6. Buf!IInv'
  BY <1>1, <1>2, BufConsumer
<1> QED
  BY <1>1, <1>2, <1>4, <1>5, <1>6, MuxStutters, ParStutters, Couplings DEF IInv

LEMMA ParallelLoopStep == IInv /\ ParallelLoop => IInv'
<1> SUFFICES ASSUME IInv, ParallelLoop PROVE IInv'
  OBVIOUS
<1>0. 1 \in Mux!Outputs /\ 2 \in Mux!Outputs /\ 1 # 2
  BY TwoOutputs
<1>1. Mux!IInv /\ Buf!IInv /\ Par!IInv /\ BufferKnows /\ ParallelKnows
  BY Couplings DEF IInv
<1>2. UNCHANGED bufVars
  BY DEF ParallelLoop, ParallelReads, ParallelStopsReading, ParallelGoesOn
<1>4. CASE ParallelReads
  <2>1. /\ loop = "pulling"
        /\ Mux!Ask(2) \/ Mux!Resume(2)
        /\ \/ reader'[2] = "holding" /\ (Par!Pull \/ Par!PullAfterError)
           \/ reader'[2] = "done" /\ Par!InputEnds
           \/ reader'[2] = "threw" /\ Par!InputThrows
           \/ reader'[2] = "waiting" /\ UNCHANGED parVars
    BY <1>4 DEF ParallelReads
  <2>2. /\ Mux!IInv' /\ reader'[1] = reader[1] /\ received'[1] = received[1]
        /\ \/ reader'[2] = "holding" /\ Len(received'[2]) = Len(received[2]) + 1
           \/ reader'[2] \in {"threw", "done", "waiting"} /\ received'[2] = received[2]
    BY <1>0, <1>1, <2>1, MuxReads
  <2>3. BufferKnows'
    BY <1>1, <1>2, <2>2, BufferKept
  <2>4. Par!IInv'
    BY <1>1, <2>1, ParPull, ParLoop, ParOver, ParStutters
  <2>5. ParallelKnows'
    <3>0. index = Len(received[2])
      BY <1>1, <2>1 DEF ParallelKnows
    <3>1. CASE reader'[2] = "holding" /\ Par!Pull
      <4>1. index' = index + 1 /\ loop' \in {"pulling", "full"}
        BY <3>1 DEF Par!Pull
      <4>2. Len(received'[2]) = Len(received[2]) + 1
        BY <2>2, <3>1
      <4> QED
        BY <3>0, <4>1, <4>2 DEF ParallelKnows
    <3>2. CASE reader'[2] = "holding" /\ Par!PullAfterError
      <4>1. loop' = "draining" /\ errors' # {}
        BY <3>2 DEF Par!PullAfterError
      <4> QED
        BY <4>1 DEF ParallelKnows
    <3>3. CASE reader'[2] = "done" /\ Par!InputEnds
      <4>1. loop' = "draining" /\ index' = index
        BY <3>3 DEF Par!InputEnds
      <4>2. received'[2] = received[2]
        BY <2>2, <3>3
      <4> QED
        BY <3>0, <3>3, <4>1, <4>2 DEF ParallelKnows
    <3>4. CASE reader'[2] = "threw" /\ Par!InputThrows
      <4>1. loop' = "over"
        BY <3>4 DEF Par!InputThrows
      <4>2. HasError(outFed'[Par!out])
        BY <1>1, <2>1, <3>4, ParOver
      <4> QED
        BY <4>1, <4>2 DEF ParallelKnows
    <3>5. CASE reader'[2] = "waiting" /\ UNCHANGED parVars
      <4>1. loop' = loop /\ index' = index
        BY <3>5 DEF parVars
      <4>2. received'[2] = received[2]
        BY <2>2, <3>5
      <4> QED
        BY <2>1, <3>0, <4>1, <4>2 DEF ParallelKnows
    <3> QED
      BY <2>1, <3>1, <3>2, <3>3, <3>4, <3>5
  <2> QED
    BY <1>1, <1>2, <2>2, <2>3, <2>4, <2>5, BufStutters, Couplings DEF IInv
<1>5. CASE ParallelStopsReading
  <2>1. /\ loop \in {"draining", "over"} /\ Mux!Return(2) /\ UNCHANGED parVars
        /\ UNCHANGED <<index, loop, errors, outFed>>
    BY <1>5 DEF ParallelStopsReading, parVars
  <2>2. /\ Mux!IInv' /\ reader[2] \in {"new", "holding"} /\ reader'[1] = reader[1]
        /\ received' = received
    BY <1>0, <1>1, <2>1, MuxReturns
  <2>3. ParallelKnows'
    BY <1>1, <2>1, <2>2 DEF ParallelKnows
  <2>4. BufferKnows'
    BY <1>1, <1>2, <2>2, BufferKept
  <2> QED
    BY <1>1, <1>2, <2>1, <2>2, <2>3, <2>4, BufStutters, ParStutters, Couplings DEF IInv
<1>6. CASE ParallelGoesOn
  <2>1. /\ Par!SlotIsFree \/ Par!Drained
        /\ UNCHANGED muxVars /\ UNCHANGED <<reader, received>>
    BY <1>6 DEF ParallelGoesOn, muxVars
  <2>2. BufferKnows'
    BY <1>1, <1>2, <2>1, BufferKept
  <2>3. Par!IInv'
    BY <1>1, <2>1, ParLoop, ParOver
  <2>4. ParallelKnows'
    <3>1. CASE Par!SlotIsFree
      <4>1. loop = "full" /\ loop' = "pulling" /\ index' = index
        BY <3>1 DEF Par!SlotIsFree
      <4> QED
        BY <1>1, <2>1, <4>1 DEF ParallelKnows
    <3>2. CASE Par!Drained
      <4>1. loop = "draining" /\ loop' = "over"
        BY <3>2 DEF Par!Drained
      <4>2. /\ errors' = errors /\ index' = index
            /\ HasError(outFed'[Par!out]) \/ errors = {}
        BY <1>1, <3>2, ParOver
      <4> QED
        BY <1>1, <2>1, <4>1, <4>2 DEF ParallelKnows
    <3> QED
      BY <2>1, <3>1, <3>2
  <2> QED
    BY <1>1, <1>2, <2>1, <2>2, <2>3, <2>4, MuxStutters, BufStutters, Couplings DEF IInv
<1> QED
  BY <1>4, <1>5, <1>6 DEF ParallelLoop

LEMMA ParallelRunStep ==
  IInv /\ ((\E i \in Par!Items : ParallelStep(i)) \/ ParallelIsAsked) => IInv'
<1> SUFFICES ASSUME IInv, (\E i \in Par!Items : ParallelStep(i)) \/ ParallelIsAsked PROVE IInv'
  OBVIOUS
<1>1. Mux!IInv /\ Buf!IInv /\ Par!IInv /\ BufferKnows /\ ParallelKnows
  BY Couplings DEF IInv
<1>2. UNCHANGED bufVars /\ UNCHANGED muxVars /\ UNCHANGED <<reader, received>>
  BY DEF ParallelStep, ParallelIsAsked, muxVars
<1>3. BufferKnows'
  BY <1>1, <1>2, BufferKept
<1>4. Par!IInv' /\ ParallelKnows'
  <2>1. ASSUME NEW i \in Par!Items, Par!RunFeeds(i) PROVE Par!IInv' /\ ParallelKnows'
    <3>1. Par!IInv' /\ loop # "over" /\ UNCHANGED <<index, loop, errors>>
      BY <1>1, <2>1, ParFeeds
    <3> QED
      BY <1>1, <1>2, <3>1 DEF ParallelKnows
  <2>2. ASSUME NEW i \in Par!Items, Par!RunDrops(i) \/ Par!RunFails(i) \/ Par!ErrorPushed(i)
        PROVE  Par!IInv' /\ ParallelKnows'
    <3>1. Par!IInv'
      BY <1>1, <2>2, ParRun
    <3>2. /\ UNCHANGED <<index, loop, outFed>>
          /\ errors # {} => errors' # {}
      BY <2>2 DEF Par!RunDrops, Par!RunFails, Par!ErrorPushed, Par!outVars
    <3> QED
      BY <1>1, <1>2, <3>1, <3>2 DEF ParallelKnows
  <2>3. ASSUME Par!Consume PROVE Par!IInv' /\ ParallelKnows'
    BY <1>1, <1>2, <2>3, ParConsume, ParallelKept
  <2> QED
    BY <2>1, <2>2, <2>3 DEF ParallelStep, ParallelIsAsked, Par!Step
<1> QED
  BY <1>1, <1>2, <1>3, <1>4, MuxStutters, BufStutters, Couplings DEF IInv

LEMMA PipelineStutters == IInv /\ UNCHANGED vars => IInv'
<1> SUFFICES ASSUME IInv, UNCHANGED vars PROVE IInv'
  OBVIOUS
<1>1. UNCHANGED muxVars /\ UNCHANGED bufVars /\ UNCHANGED parVars
      /\ UNCHANGED <<reader, received, index, loop, errors, outFed>>
  BY DEF vars, muxVars, parVars
<1>2. Mux!IInv /\ Buf!IInv /\ Par!IInv /\ BufferKnows /\ ParallelKnows
  BY Couplings DEF IInv
<1>3. BufferKnows' /\ ParallelKnows'
  BY <1>1, <1>2, BufferKept, ParallelKept
<1> QED
  BY <1>1, <1>2, <1>3, MuxStutters, BufStutters, ParStutters, Couplings DEF IInv

LEMMA PipelineStep == IInv /\ [Next]_vars => IInv'
  BY MultiplexerStep, BufferProducerStep, BufferConsumerStep, ParallelLoopStep,
     ParallelRunStep,
     PipelineStutters DEF Next

\* The inductive invariant: each helper's own, and what the helpers know of the
\* readers of the multiplexer's outputs.
THEOREM PipelineInvariant == Spec => []IInv
  BY PipelineInit, PipelineStep, PTL DEF Spec

-----------------------------------------------------------------------------
(* What follows from the invariant.                                         *)

LEMMA OutIs == out = Par!out
  BY DEF out

\* A reader of an output is given the items in order.
LEMMA ReadersInOrder ==
  ASSUME IInv, NEW o \in Mux!Outputs, NEW n \in DOMAIN received[o]
  PROVE  received[o][n] = n
<1>1. /\ Mux!Out!TypeOK /\ Mux!Out!StreamInv /\ Mux!Fed \in Nat
      /\ Counts(fed[o], Mux!Fed, Len(received[o]))
  BY OutputFacts, FedCounts DEF IInv
<1>2. n \in DOMAIN fed[o] /\ received[o][n] = fed[o][n]
  BY <1>1, MuxEnded
<1>3. received[o] \in Seq(Number) /\ fed[o] \in Seq(NumberOrError) /\ DOMAIN fed[o] = 1..Len(fed[o])
  BY <1>1, MuxFacts
<1>4. received[o][n] # Mux!InputError
  <2>1. received[o][n] \in Number
    BY <1>3, Lengths
  <2> QED
    BY <2>1, NumberFacts
<1>5. n \in 1..Mux!Fed
  <2>1. PICK m \in Nat : m = Mux!Fed
    BY <1>1
  <2>2. CASE Len(fed[o]) = m
    BY <1>2, <1>3, <2>1, <2>2
  <2>3. CASE Len(fed[o]) = m + 1 /\ fed[o][m + 1] = Mux!InputError
    <3>1. n # m + 1
      BY <1>2, <1>4, <2>3
    <3>2. n \in 1..(m + 1)
      BY <1>2, <1>3, <2>3
    <3> QED
      BY <2>1, <3>1, <3>2
  <2> QED
    BY <1>1, <2>1, <2>2, <2>3 DEF Counts
<1> QED
  BY <1>1, <1>2, <1>5 DEF Counts

\* A reader that came to the end was given all that the input had.
LEMMA ReaderIsThrough ==
  ASSUME IInv, NEW o \in Mux!Outputs, reader[o] \in {"done", "threw"}
  PROVE  Len(received[o]) = pulled
<1>1. /\ Mux!Out!TypeOK /\ Mux!Out!StreamInv /\ Mux!Fed \in Nat
      /\ Counts(fed[o], Mux!Fed, Len(received[o])) /\ (closed[o] <=> producer = "ended")
      /\ (producer \notin {"awaiting", "woken"} => Mux!Fed = pulled)
  BY OutputFacts, FedCounts DEF IInv
<1>2. /\ fed[o] \in Seq(NumberOrError) /\ DOMAIN fed[o] = 1..Len(fed[o]) /\ Len(fed[o]) \in Nat
      /\ Len(received[o]) \in Nat
  BY <1>1, MuxFacts
<1>3. PICK m \in Nat : m = Mux!Fed
  BY <1>1
<1>4. CASE reader[o] = "done"
  <2>1. /\ closed[o] /\ Len(fed[o]) = Len(received[o])
        /\ \A n \in DOMAIN fed[o] : fed[o][n] # Mux!InputError
    BY <1>1, <1>4, MuxEnded
  <2>2. Len(fed[o]) = m
    <3>1. SUFFICES ASSUME Len(fed[o]) = m + 1, fed[o][m + 1] = Mux!InputError PROVE FALSE
      BY <1>1, <1>3 DEF Counts
    <3>2. m + 1 \in DOMAIN fed[o]
      BY <1>2, <3>1
    <3> QED
      BY <2>1, <3>1, <3>2
  <2> QED
    BY <1>1, <1>3, <2>1, <2>2
<1>5. CASE reader[o] = "threw"
  <2>1. /\ closed[o] /\ Len(fed[o]) = Len(received[o]) + 1
        /\ fed[o][Len(fed[o])] = Mux!InputError
    BY <1>1, <1>5, MuxEnded
  <2>2. Len(fed[o]) = m + 1
    <3>1. SUFFICES ASSUME Len(fed[o]) = m PROVE FALSE
      BY <1>1, <1>3 DEF Counts
    <3>2. m \in 1..m
      BY <1>2, <2>1, <3>1
    <3>3. fed[o][m] = m
      BY <1>1, <1>3, <3>2 DEF Counts
    <3> QED
      BY <2>1, <3>1, <3>2, <3>3, NumberFacts
  <2> QED
    BY <1>1, <1>2, <1>3, <2>1, <2>2
<1> QED
  BY <1>4, <1>5

LEMMA OrderFollows == IInv => InOrder
<1> SUFFICES ASSUME IInv PROVE InOrder
  OBVIOUS
<1>1. \A o \in {1, 2} : \A n \in DOMAIN received[o] : received[o][n] = n
  BY ReadersInOrder, TwoOutputs
<1>2. \A n \in DOMAIN bufferReceived : bufferReceived[n] = n
  BY Facts DEF IInv
<1>3. ASSUME keepOrder, NEW n \in DOMAIN outReceived[Par!out]
      PROVE  outReceived[Par!out][n] = n - 1
  <2>1. /\ Par!Out!TypeOK /\ Par!Out!StreamInv /\ currentIndex \in 0..MaxItems
        /\ Ordered(keepOrder, currentIndex, inBuffer, outFed[Par!out])
    BY ParState DEF IInv
  <2>2. n \in DOMAIN outFed[Par!out] /\ outReceived[Par!out][n] = outFed[Par!out][n]
    BY <1>3, <2>1, ParEnded
  <2>3. /\ outReceived[Par!out] \in Seq(Par!Items)
        /\ DOMAIN outFed[Par!out] = 1..Len(outFed[Par!out])
    BY <2>1, ParFacts
  <2>4. outReceived[Par!out][n] # Par!InputError
    <3>1. outReceived[Par!out][n] \in Par!Items
      BY <1>3, <2>3, Lengths
    <3> QED
      BY <3>1, IndexFacts
  <2> DEFINE f == outFed[Par!out]
  <2>5. /\ \A k \in 1..currentIndex : f[k] = k - 1
        /\ Len(f) = currentIndex + (IF HasError(f) THEN 1 ELSE 0)
    BY <1>3, <2>1 DEF Ordered
  <2>6. DOMAIN f = 1..Len(f) /\ n \in DOMAIN f /\ f[n] # Par!InputError
        /\ outReceived[Par!out][n] = f[n]
    BY <2>2, <2>3, <2>4
  <2> HIDE DEF f
  <2>7. currentIndex \in Nat
    BY <2>1, MaxItemsAssumption
  <2>8. n \in 1..currentIndex
    <3>1. CASE ~HasError(f)
      BY <2>5, <2>6, <2>7, <3>1
    <3>2. CASE HasError(f)
      <4>1. PICK k \in DOMAIN f : f[k] = Par!InputError
        BY <3>2 DEF HasError
      <4>2. Len(f) = currentIndex + 1
        BY <2>5, <3>2
      <4>3. k \notin 1..currentIndex
        <5>1. ASSUME k \in 1..currentIndex PROVE FALSE
          <6>1. f[k] = k - 1 /\ k - 1 \in Nat
            BY <2>5, <2>7, <5>1
          <6>2. Par!InputError \in Nat
            BY <4>1, <6>1
          <6>3. -1 \notin Nat
            OBVIOUS
          <6> QED
            BY <6>2, <6>3, IndexFacts
        <5> QED
          BY <5>1
      <4>4. k = currentIndex + 1
        BY <2>6, <2>7, <4>1, <4>2, <4>3
      <4>5. n # currentIndex + 1
        BY <2>6, <4>1, <4>4
      <4> QED
        BY <2>6, <2>7, <4>2, <4>5
    <3> QED
      BY <3>1, <3>2
  <2> QED
    BY <2>5, <2>6, <2>8
<1> QED
  BY <1>1, <1>2, <1>3, OutIs DEF InOrder

\* The consumer of parallelFeed() came to the end: no error was thrown, and nothing
\* is under way.
LEMMA OutputIsThrough ==
  ASSUME IInv, outReader[Par!out] = "done"
  PROVE  /\ running = {} /\ told = {} /\ index = pulled
         /\ ~HasError(outFed[Par!out])
         /\ DOMAIN outReceived[Par!out] = DOMAIN outFed[Par!out]
         /\ \A n \in DOMAIN outFed[Par!out] : outReceived[Par!out][n] = outFed[Par!out][n]
<1>1. /\ Par!Out!TypeOK /\ Par!Out!StreamInv /\ (outClosed[Par!out] <=> loop = "over")
      /\ loop = "over" => HasError(outFed[Par!out]) \/ (running = {} /\ told = {})
  BY ParState DEF IInv
<1>2. /\ outClosed[Par!out] /\ Len(outFed[Par!out]) = Len(outReceived[Par!out])
      /\ \A n \in DOMAIN outFed[Par!out] : outFed[Par!out][n] # Par!InputError
      /\ \A n \in DOMAIN outReceived[Par!out] : outReceived[Par!out][n] = outFed[Par!out][n]
  BY <1>1, ParEnded
<1>3. ~HasError(outFed[Par!out])
  BY <1>2 DEF HasError
<1>4. DOMAIN outReceived[Par!out] = DOMAIN outFed[Par!out]
  <2>1. /\ DOMAIN outReceived[Par!out] = 1..Len(outReceived[Par!out])
        /\ DOMAIN outFed[Par!out] = 1..Len(outFed[Par!out])
    BY <1>1, ParFacts
  <2> QED
    BY <1>2, <2>1
<1>5. reader[2] = "done" /\ index = Len(received[2])
  BY <1>1, <1>2, <1>3, Couplings DEF IInv, ParallelKnows
<1>6. index = pulled
  BY <1>5, TwoOutputs, ReaderIsThrough
<1> QED
  BY <1>1, <1>2, <1>3, <1>4, <1>6

LEMMA NotAtAll ==
  ASSUME NEW f, NEW i, \A n \in DOMAIN f : f[n] # i
  PROVE  Cardinality({n \in DOMAIN f : f[n] = i}) = 0
<1>1. {n \in DOMAIN f : f[n] = i} = {}
  OBVIOUS
<1> QED
  BY <1>1, FS_EmptySet

LEMMA Once ==
  ASSUME NEW f, NEW i, Distinct(f), \E n \in DOMAIN f : f[n] = i
  PROVE  Cardinality({n \in DOMAIN f : f[n] = i}) = 1
<1>1. PICK n \in DOMAIN f : f[n] = i
  OBVIOUS
<1>2. {k \in DOMAIN f : f[k] = i} = {n}
  BY <1>1 DEF Distinct
<1> QED
  BY <1>2, FS_Singleton

LEMMA CompletenessFollows == IInv => EndIsComplete
<1> SUFFICES ASSUME IInv PROVE EndIsComplete
  OBVIOUS
<1>1. ASSUME bufferConsumer \in {"done", "threw"} PROVE Len(bufferReceived) = pulled
  <2>1. bufferProducer = "ended" /\ Len(bufferReceived) = bufferPulled
    BY <1>1 DEF IInv, Buf!IInv
  <2>2. bufferPulled = Len(received[1]) /\ reader[1] \in {"done", "threw"}
    BY <1>1, <2>1, Couplings DEF IInv, BufferKnows
  <2> QED
    BY <2>1, <2>2, TwoOutputs, ReaderIsThrough
<1>2. ASSUME outReader[Par!out] = "done", failed = {}, NEW i \in 0..(pulled - 1)
      PROVE  Cardinality({n \in DOMAIN outReceived[Par!out] : outReceived[Par!out][n] = i})
                = IF Par!Expected(i) THEN 1 ELSE 0
  <2> DEFINE f == outFed[Par!out]
  <2>1. /\ running = {} /\ index = pulled /\ ~HasError(f)
        /\ DOMAIN outReceived[Par!out] = DOMAIN f
        /\ \A n \in DOMAIN f : outReceived[Par!out][n] = f[n]
    BY <1>2, OutputIsThrough
  <2>2. /\ Placed(index, running, dropped, failed, inBuffer, f)
        /\ Ordered(keepOrder, currentIndex, inBuffer, f)
        /\ keepOrder \in BOOLEAN /\ currentIndex \in 0..MaxItems /\ index \in 0..MaxItems
        /\ f \in Seq(IndexOrError)
    BY ParState DEF IInv
  <2>3. {n \in DOMAIN outReceived[Par!out] : outReceived[Par!out][n] = i}
           = {n \in DOMAIN f : f[n] = i}
    BY <2>1
  <2> HIDE DEF f
  <2>4. /\ i \in 0..(index - 1) /\ i \in Par!Items
        /\ 0..(index - 1) = dropped \cup FedItems(f) \cup inBuffer
        /\ dropped \cap (FedItems(f) \cup inBuffer) = {} /\ Distinct(f)
    <3>1. 0..(index - 1) \subseteq Par!Items
      BY <2>2, MaxItemsAssumption DEF Par!Items
    <3>2. i \in 0..(index - 1)
      BY <1>2, <2>1
    <3> QED
      BY <1>2, <2>1, <2>2, <3>1, <3>2 DEF Placed
  <2>5. ASSUME keepOrder
        PROVE  /\ \A j \in FedItems(f) : \A k \in 0..j : k \in FedItems(f)
               /\ currentIndex \notin FedItems(f) /\ currentIndex \notin inBuffer
               /\ \A j \in inBuffer : j > currentIndex
    <3>1. /\ \A n \in 1..currentIndex : f[n] = n - 1
          /\ \A j \in inBuffer : j > currentIndex
          /\ Len(f) = currentIndex /\ currentIndex \in Nat
      BY <2>1, <2>2, <2>5, MaxItemsAssumption DEF Ordered
    <3>2. DOMAIN f = 1..currentIndex
      BY <2>2, <3>1, Lengths
    <3>3. FedItems(f) = 0..(currentIndex - 1)
      <4>1. ASSUME NEW k \in FedItems(f) PROVE k \in 0..(currentIndex - 1)
        BY <3>1, <3>2, <4>1 DEF FedItems
      <4>2. ASSUME NEW k \in 0..(currentIndex - 1) PROVE k \in FedItems(f)
        <5>1. k + 1 \in 1..currentIndex /\ k \in Par!Items /\ (k + 1) - 1 = k
          BY <2>2, <3>1, <4>2, MaxItemsAssumption DEF Par!Items
        <5> QED
          BY <3>1, <3>2, <5>1 DEF FedItems
      <4> QED
        BY <4>1, <4>2
    <3>4. currentIndex \notin inBuffer
      <4>1. ~(currentIndex > currentIndex)
        BY <3>1
      <4> QED
        BY <3>1, <4>1
    <3> QED
      BY <3>1, <3>3, <3>4
  <2>6. CASE i \in FedItems(f)
    <3>1. Par!Expected(i)
      BY <2>4, <2>5, <2>6 DEF Par!Expected
    <3>2. \E n \in DOMAIN f : f[n] = i
      BY <2>6 DEF FedItems
    <3>3. Cardinality({n \in DOMAIN f : f[n] = i}) = 1
      BY <2>4, <3>2, Once
    <3> QED
      BY <2>3, <3>1, <3>3
  <2>7. CASE i \notin FedItems(f)
    <3>1. \A n \in DOMAIN f : f[n] # i
      BY <2>4, <2>7 DEF FedItems
    <3>2. ~Par!Expected(i)
      <4>1. CASE i \in dropped
        BY <4>1 DEF Par!Expected
      <4>2. CASE i \in inBuffer
        <5>1. keepOrder
          BY <2>2, <4>2 DEF Ordered
        <5>2. i > currentIndex /\ currentIndex \in 0..(index - 1) /\ currentIndex \in 0..i
          BY <2>2, <2>4, <2>5, <4>2, <5>1, MaxItemsAssumption
        <5>3. currentIndex \in dropped
          BY <2>4, <2>5, <5>1, <5>2
        <5> QED
          BY <5>1, <5>2, <5>3 DEF Par!Expected
      <4> QED
        BY <2>4, <2>7, <4>1, <4>2
    <3>3. Cardinality({n \in DOMAIN f : f[n] = i}) = 0
      BY <3>1, NotAtAll
    <3> QED
      BY <2>3, <3>2, <3>3
  <2> QED
    BY <2>6, <2>7
<1> QED
  BY <1>1, <1>2, OutIs DEF EndIsComplete

LEMMA NobodyWaits == IInv => NoMutualWait
<1> SUFFICES ASSUME IInv PROVE NoMutualWait
  OBVIOUS
<1>1. \A o \in {1, 2} : reader[o] = "waiting" => buffer[o] = <<>> /\ ~closed[o]
  BY TwoOutputs, OutputFacts, MuxFacts DEF IInv, MuxStream, IsStream
<1>2. producer = "awaiting" => reader[position] \notin {"waiting", "done", "threw"}
  BY DEF IInv, Mux!IInv, Mux!DrainInv
<1>3. /\ bufferConsumer = "awaiting" => ahead = <<>> /\ bufferProducer \notin {"awaiting", "ended"}
      /\ bufferConsumer = "woken" => ahead # <<>>
  BY DEF IInv, Buf!IInv, Buf!WakeInv
<1>4. outReader[Par!out] = "waiting" => outBuffer[Par!out] = <<>> /\ ~outClosed[Par!out]
  BY ParState, ParFacts DEF IInv, ParStream, IsStream
<1> QED
  BY <1>1, <1>2, <1>3, <1>4, OutIs DEF NoMutualWait

LEMMA PressureFollows == IInv => BackPressure
<1> SUFFICES ASSUME IInv PROVE BackPressure
  OBVIOUS
<1>1. bufferConsumer \notin Buf!Ended =>
         bufferPulled <= Len(bufferReceived) + (IF Size = 0 THEN 1 ELSE Size)
  <2>1. bufferConsumer \notin Buf!Ended =>
           bufferPulled - Len(bufferReceived) <= (IF Size = 0 THEN 1 ELSE Size)
    BY DEF IInv, Buf!IInv, Buf!RoomInv, Buf!ItemsLeft
  <2>2. bufferPulled \in Nat /\ Len(bufferReceived) \in Nat
    BY Facts DEF IInv
  <2> QED
    BY <2>1, <2>2, SizeAssumption
<1>2. \A o \in Mux!Outputs : pulled <= Len(received[o]) + Limit + 1
  <2> TAKE o \in Mux!Outputs
  <2>1. /\ Mux!Out!TypeOK /\ Mux!Out!StreamInv /\ Mux!Fed \in Nat /\ pulled \in Nat
        /\ pulled <= Mux!Fed + 1 /\ Counts(fed[o], Mux!Fed, Len(received[o]))
    BY OutputFacts, FedCounts DEF IInv
  <2>2. Len(received[o]) \in Nat /\ Mux!Fed <= Len(received[o]) + Limit
    BY <2>1, MuxFacts DEF Counts
  <2>3. \A a, b, c, l \in Nat : a <= b + 1 /\ b <= c + l => a <= c + l + 1
    OBVIOUS
  <2> QED
    BY <2>1, <2>2, <2>3, LimitAssumption
<1>3. bufferPulled = Len(received[1]) /\ (loop \in {"pulling", "full"} => index = Len(received[2]))
  BY Couplings DEF IInv, BufferKnows, ParallelKnows
<1>4. late <= 1
  BY DEF IInv, Buf!IInv, Buf!LateInv
<1>5. Cardinality(running) <= Concurrency
  BY ParState DEF IInv
<1> QED
  BY <1>1, <1>2, <1>3, <1>4, <1>5, TwoOutputs DEF BackPressure

-----------------------------------------------------------------------------
\* Type correctness of the pipeline and of the helpers it is made of.
THEOREM PipelineTypes == Spec => []TypeOK
<1>1. IInv => TypeOK
  BY DEF IInv, TypeOK, Mux!IInv, Buf!IInv, Par!IInv
<1> QED
  BY <1>1, PipelineInvariant, PTL

\* Consumers get the items in order, all of them before they see the end, and no
\* wake-up is lost between the helpers, for every limit, size and concurrency.
THEOREM PipelineServes == Spec => []ConsumersAreServed
<1>1. IInv => ConsumersAreServed
  BY OrderFollows, CompletenessFollows, NobodyWaits DEF ConsumersAreServed
<1> QED
  BY <1>1, PipelineInvariant, PTL

\* Nothing is read further ahead of a consumer than the limits say.
THEOREM PipelineHoldsBack == Spec => []BackPressure
  BY PressureFollows, PipelineInvariant, PTL

\* A consumer that sees parallelFeed()'s output end has missed no error that was
\* known when the loop was over.
THEOREM PipelineErrorsReach == Spec => []ErrorReaches
<1>1. IInv => ErrorReaches
  BY OutputIsThrough, OutIs DEF ErrorReaches
<1> QED
  BY <1>1, PipelineInvariant, PTL
=============================================================================
