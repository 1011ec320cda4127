---------------------- MODULE AggregateRepositoryProofs ----------------------
(***************************************************************************)
(* For every number of requests, every snapshot interval, every length of   *)
(* the stream and any number of failures: the invariants that TLC checks on *)
(* instances of AggregateRepository hold, every request gets on with each   *)
(* call it awaits, and the repository implements AggregateStore.            *)
(*                                                                          *)
(* The module begins with what the operators of Aggregate compute.  IInv is *)
(* inductive: requests act on each other only through the stream, which     *)
(* only grows, and the two stores, into which one request at a time         *)
(* inserts.  OtherRequestStable is used for every step of another request,  *)
(* RequestsOver for every way a request ends, and what remains for each     *)
(* action is what it does for its own request.  CoverInv, on which save     *)
(* sees to which snapshot, and the refinement follow from it.               *)
(***************************************************************************)
EXTENDS AggregateRepository, SequenceTheorems, TLAPS

-----------------------------------------------------------------------------
(* Reads, slices, intervals, and Load.                                      *)

\* A forward read of the events from, ..., to - 1 is a sequence of that length.
LEMMA EventsBetweenSeq ==
    ASSUME NEW a \in Nat, NEW b \in Nat, a <= b
    PROVE  /\ EventsBetween(a, b) \in Seq(Nat)
           /\ Len(EventsBetween(a, b)) = b - a
           /\ \A i \in 1..(b - a) : EventsBetween(a, b)[i] = a + i - 1
           /\ EventsBetween(a, b) = <<>> <=> a = b
<1>1. EventsBetween(a, b) \in [1..(b - a) -> Nat]
  BY DEF EventsBetween
<1>2. b - a \in Nat
  OBVIOUS
<1>3. EventsBetween(a, b) \in Seq(Nat)
  BY <1>1, <1>2, SeqDef
<1>4. Len(EventsBetween(a, b)) = b - a
  BY <1>1, <1>2, <1>3, LenProperties
<1>5. \A i \in 1..(b - a) : EventsBetween(a, b)[i] = a + i - 1
  BY DEF EventsBetween
<1>6. EventsBetween(a, b) = <<>> <=> a = b
  BY <1>3, <1>4, EmptySeq
<1> QED
  BY <1>3, <1>4, <1>5, <1>6

\* Two adjacent reads make one.
LEMMA EventsBetweenConcat ==
    ASSUME NEW a \in Nat, NEW b \in Nat, NEW d \in Nat, a <= b, b <= d
    PROVE  EventsBetween(a, b) \o EventsBetween(b, d) = EventsBetween(a, d)
<1> DEFINE s == EventsBetween(a, b)
           t == EventsBetween(b, d)
           u == EventsBetween(a, d)
<1>1. /\ s \in Seq(Nat) /\ Len(s) = b - a
      /\ \A i \in 1..(b - a) : s[i] = a + i - 1
  BY EventsBetweenSeq
<1>2. /\ t \in Seq(Nat) /\ Len(t) = d - b
      /\ \A i \in 1..(d - b) : t[i] = b + i - 1
  BY EventsBetweenSeq
<1>3. /\ u \in Seq(Nat) /\ Len(u) = d - a
      /\ \A i \in 1..(d - a) : u[i] = a + i - 1
  BY EventsBetweenSeq
<1> HIDE DEF s, t, u
<1>4. /\ s \o t \in Seq(Nat)
      /\ Len(s \o t) = Len(s) + Len(t)
      /\ \A i \in 1..(Len(s) + Len(t)) :
            (s \o t)[i] = IF i <= Len(s) THEN s[i] ELSE t[i - Len(s)]
  BY <1>1, <1>2, ConcatProperties
<1>5. Len(s \o t) = Len(u)
  BY <1>1, <1>2, <1>3, <1>4
<1>6. ASSUME NEW i \in 1..Len(s \o t)
      PROVE  (s \o t)[i] = u[i]
  <2>1. i \in 1..(d - a) /\ (s \o t)[i] = IF i <= b - a THEN s[i] ELSE t[i - (b - a)]
    BY <1>1, <1>2, <1>4
  <2>2. CASE i <= b - a
    BY <2>1, <2>2, <1>1, <1>3
  <2>3. CASE ~(i <= b - a)
    <3>1. i - (b - a) \in 1..(d - b)
      BY <2>1, <2>3
    <3> QED
      BY <2>1, <2>3, <3>1, <1>2, <1>3
  <2> QED
    BY <2>2, <2>3
<1>7. s \o t = u
  BY <1>3, <1>4, <1>5, <1>6, SeqEqual
<1> QED
  BY <1>7 DEF s, t, u

\* The count newest events of a slice read backwards, put in order, are those
\* a forward read of the same stretch returns.
LEMMA SliceReversed ==
    ASSUME NEW length \in Nat, NEW count \in Nat, NEW e \in Nat,
           e <= length, e <= count
    PROVE  Reverse(SubSeq(EventsBackwards(length, count), 1, e))
             = EventsBetween(length - e, length)
<1> DEFINE n == IF length < count THEN length ELSE count
           s == EventsBackwards(length, count)
           p == SubSeq(s, 1, e)
<1>1. n \in Nat /\ e <= n
  OBVIOUS
<1>2. \A i \in 1..n : s[i] = length - i /\ s[i] \in Nat
  BY DEF EventsBackwards
<1>3. Len(p) = e /\ \A i \in 1..e : p[i] = length - i
  <2>1. \A i \in 1..e : s[i] \in Nat
    BY <1>1, <1>2
  <2> HIDE DEF s
  <2>2. Len(p) = (IF 1 <= e THEN e - 1 + 1 ELSE 0)
        /\ \A i \in 1..(e - 1 + 1) : p[i] = s[1 + i - 1]
    BY <2>1, SubSeqProperties
  <2> QED
    BY <2>2, <1>1, <1>2
<1> HIDE DEF p
<1>4. Reverse(p) = [i \in 1..e |-> p[(e - i) + 1]]
  BY <1>3 DEF Reverse
<1>5. \A i \in 1..e : p[(e - i) + 1] = (length - e) + i - 1
  BY <1>3
<1>6. length - (length - e) = e
  OBVIOUS
<1> QED
  BY <1>4, <1>5, <1>6 DEF EventsBetween, p

\* A slice that holds the whole stream, put in order, is the whole stream.
LEMMA ShortSliceReversed ==
    ASSUME NEW length \in Nat, NEW count \in Nat
    PROVE  /\ Len(EventsBackwards(length, count))
                = (IF length < count THEN length ELSE count)
           /\ length < count =>
                Reverse(EventsBackwards(length, count)) = EventsBetween(0, length)
<1> DEFINE n == IF length < count THEN length ELSE count
           s == EventsBackwards(length, count)
<1>1. n \in Nat /\ n <= length
  OBVIOUS
<1>2. s \in [1..n -> Nat]
  BY <1>1 DEF EventsBackwards
<1>3. s \in Seq(Nat)
  BY <1>1, <1>2, SeqDef
<1>4. Len(s) = n
  BY <1>1, <1>2, <1>3, LenProperties
<1>5. ASSUME length < count
      PROVE  Reverse(s) = EventsBetween(0, length)
  <2>1. Len(s) = length
    BY <1>4, <1>5
  <2>2. Reverse(s) = [i \in 1..length |-> s[(length - i) + 1]]
    BY <2>1 DEF Reverse
  <2>3. \A i \in 1..length : s[(length - i) + 1] = 0 + i - 1
    BY <1>5 DEF EventsBackwards
  <2>4. length - 0 = length
    OBVIOUS
  <2> QED
    BY <2>2, <2>3, <2>4 DEF EventsBetween
<1> QED
  BY <1>4, <1>5

\* The last multiple of the interval is one, and lies in the last interval.
LEMMA LastMultipleIsMultiple ==
    ASSUME NEW n \in Nat
    PROVE  /\ LastMultiple(n) \in 0..n
           /\ LastMultiple(n) % TakeSnapshotAfterEventsCount = 0
           /\ n % TakeSnapshotAfterEventsCount \in 0..(TakeSnapshotAfterEventsCount - 1)
           /\ n % TakeSnapshotAfterEventsCount <= n
<1> DEFINE N == TakeSnapshotAfterEventsCount
<1>1. N \in Nat /\ N > 0
  BY IntervalAssumption
<1> HIDE DEF N
<1>2. PICK q \in Nat : n = N * q + (n % N) /\ n % N \in 0..(N - 1)
  <2>1. n \div N \in Nat /\ n = N * (n \div N) + (n % N) /\ n % N \in 0..(N - 1)
    BY <1>1
  <2> QED
    BY <2>1
<1>3. N * q \in Nat
  BY <1>1
<1>4. n - (n % N) = N * q
  BY <1>2, <1>3
<1>5. (N * q) % N = 0
  BY <1>1
<1> QED
  BY <1>2, <1>3, <1>4, <1>5 DEF LastMultiple, N

\* The last interval an append completes, if it is complete without the
\* append, is the last one complete before it.
LEMMA LastMultipleMonotone ==
    ASSUME NEW n \in Nat, NEW length \in Nat, LastMultiple(length) <= n
    PROVE  LastMultiple(length) <= LastMultiple(n)
<1> DEFINE N == TakeSnapshotAfterEventsCount
<1>1. N \in Nat /\ N > 0
  BY IntervalAssumption
<1>2. ASSUME NEW m \in Nat
      PROVE  /\ m \div N \in Nat /\ LastMultiple(m) = N * (m \div N)
             /\ m < N * (m \div N) + N
  <2> HIDE DEF N
  <2>1. m \div N \in Nat /\ m = N * (m \div N) + (m % N) /\ m % N \in 0..(N - 1)
    BY <1>1
  <2>2. N * (m \div N) \in Nat /\ m % N < N /\ m % N \in Nat
    BY <1>1, <2>1
  <2>3. LastMultiple(m) = m - (m % N)
    BY DEF LastMultiple, N
  <2> DEFINE p == N * (m \div N)
             r == m % N
  <2> HIDE DEF p, r
  <2>4. m = p + r /\ p \in Nat /\ r \in Nat /\ r < N /\ LastMultiple(m) = m - r
    BY <2>1, <2>2, <2>3 DEF p, r
  <2>5. LastMultiple(m) = p /\ m < p + N
    BY <1>1, <2>4
  <2> QED
    BY <2>1, <2>5 DEF p
<1> DEFINE a == length \div N
           b == n \div N
<1>3. /\ a \in Nat /\ b \in Nat
      /\ LastMultiple(length) = N * a /\ LastMultiple(n) = N * b
      /\ N * a < N * b + N
  <2>1. a \in Nat /\ LastMultiple(length) = N * a
    BY <1>2
  <2>2. b \in Nat /\ LastMultiple(n) = N * b /\ n < N * b + N
    BY <1>2
  <2> HIDE DEF N, a, b
  <2>3. N * a \in Nat /\ N * b \in Nat
    BY <1>1, <2>1, <2>2
  <2> QED
    BY <1>1, <2>1, <2>2, <2>3
<1> HIDE DEF N, a, b
<1>4. a <= b
  <2>1. SUFFICES ASSUME a > b PROVE FALSE
    BY <1>3
  <2>2. PICK d \in Nat : a = b + 1 + d
    <3>1. a - b - 1 \in Nat /\ a = b + 1 + (a - b - 1)
      BY <1>3, <2>1
    <3> QED
      BY <3>1
  <2>3. N * a = N * b + N + N * d /\ N * d \in Nat /\ N * b \in Nat
    BY <1>1, <1>3, <2>2
  <2> QED
    BY <1>1, <1>3, <2>3
<1>5. N * a <= N * b
  <2>1. PICK d \in Nat : b = a + d
    <3>1. b - a \in Nat /\ b = a + (b - a)
      BY <1>3, <1>4
    <3> QED
      BY <3>1
  <2>2. N * b = N * a + N * d /\ N * d \in Nat /\ N * a \in Nat
    BY <1>1, <1>3, <2>1
  <2> QED
    BY <2>2
<1> QED
  BY <1>3, <1>5

\* The aggregate no event was applied to stands for the empty stretch.
LEMMA NewAggregateIsFold ==
    /\ NewAggregate \in Aggregates
    /\ IsFoldOfItsVersion(NewAggregate)
    /\ PositionAfter(NewAggregate) = 0
<1>1. <<>> \in Seq(Nat)
  BY EmptySeq
<1>2. EventsBetween(0, 0) = <<>>
  BY EventsBetweenSeq
<1> QED
  BY <1>1, <1>2 DEF NewAggregate, Aggregates, IsFoldOfItsVersion, PositionAfter

\* Loading the events that follow those already applied brings an aggregate
\* to the end of them, with no event missing or twice.
LEMMA LoadFromPosition ==
    ASSUME NEW a \in Aggregates, IsFoldOfItsVersion(a),
           NEW b \in Nat, PositionAfter(a) <= b
    PROVE  LET r == Load(a, EventsBetween(PositionAfter(a), b))
           IN  /\ r \in Aggregates
               /\ IsFoldOfItsVersion(r)
               /\ PositionAfter(r) = b
               /\ PositionAfter(a) < b => r.Version = b
<1> DEFINE p == PositionAfter(a)
           h == EventsBetween(p, b)
           r == Load(a, h)
<1>1. p \in Nat /\ a.applied = EventsBetween(0, p) /\ a.applied \in Seq(Nat)
  BY DEF PositionAfter, Aggregates, IsFoldOfItsVersion
<1>2. /\ h \in Seq(Nat) /\ Len(h) = b - p
      /\ \A i \in 1..(b - p) : h[i] = p + i - 1
      /\ h = <<>> <=> p = b
  BY <1>1, EventsBetweenSeq
<1>3. CASE p = b
  BY <1>2, <1>3 DEF Load
<1>4. CASE p < b
  <2>1. Last(h) = b - 1
    BY <1>1, <1>2, <1>4 DEF Last
  <2>2. a.applied \o h = EventsBetween(0, b)
    <3>1. EventsBetween(0, p) \o EventsBetween(p, b) = EventsBetween(0, b)
      <4>1. 0 \in Nat /\ p \in Nat /\ 0 <= p /\ p <= b
        BY <1>1, <1>4
      <4> QED
        BY <4>1, EventsBetweenConcat, Zenon
    <3> QED
      BY <1>1, <3>1
  <2>3. EventsBetween(0, b) \in Seq(Nat)
    BY EventsBetweenSeq
  <2>4. r = [Version |-> b, applied |-> EventsBetween(0, b)]
    BY <1>2, <1>4, <2>1, <2>2, b - 1 + 1 = b DEF Load
  <2> QED
    BY <1>1, <1>4, <2>3, <2>4 DEF Aggregates, IsFoldOfItsVersion, PositionAfter
<1> QED
  BY <1>1, <1>3, <1>4

\* The early return of LoadAggregateAsync is never taken: an aggregate is
\* never already at the event it reads first.
LEMMA LoadAggregateIsLoad ==
    ASSUME NEW a \in Aggregates, NEW b \in Nat, PositionAfter(a) <= b
    PROVE  LoadAggregate(a, EventsBetween(PositionAfter(a), b))
             = Load(a, EventsBetween(PositionAfter(a), b))
<1> DEFINE p == PositionAfter(a)
           h == EventsBetween(p, b)
<1>1. p \in Nat /\ (a.Version = p \/ (a.Version = -1 /\ p = 0))
  BY DEF PositionAfter, Aggregates
<1>2. CASE p = b
  BY <1>1, <1>2, EventsBetweenSeq DEF LoadAggregate
<1>3. CASE p < b
  <2>1. h \in Seq(Nat) /\ h # <<>> /\ h[1] = p
    <3>1. /\ h \in Seq(Nat)
          /\ \A i \in 1..(b - p) : h[i] = p + i - 1
          /\ h = <<>> <=> p = b
      <4>1. p \in Nat /\ p <= b
        BY <1>1, <1>3
      <4> QED
        BY <4>1, EventsBetweenSeq, Zenon
    <3>2. 1 \in 1..(b - p)
      BY <1>1, <1>3
    <3> QED
      BY <1>1, <1>3, <3>1, <3>2
  <2>2. Head(h) = p
    BY <2>1
  <2> QED
    BY <1>1, <2>1, <2>2 DEF LoadAggregate
<1> QED
  BY <1>1, <1>2, <1>3

-----------------------------------------------------------------------------
(* What the actions share.                                                  *)

\* A growing stream keeps every snapshot faithful.
LEMMA FaithfulStable ==
    ASSUME NEW s, FaithfulSnapshot(s), stream \in Nat, stream' \in Nat,
           stream <= stream'
    PROVE  FaithfulSnapshot(s)'
  BY DEF FaithfulSnapshot, IsFoldOfItsVersion, PositionAfter, EventsBetween

\* A step of another request keeps the invariant of request d.
LEMMA OtherRequestStable ==
    ASSUME TypeOK, NEW d \in Clients, RequestInv(d),
           stream' \in Nat, stream <= stream', mongo \subseteq mongo',
           pc'[d] = pc[d], purpose'[d] = purpose[d], agg'[d] = agg[d],
           latest'[d] = latest[d], next'[d] = next[d], from'[d] = from[d]
    PROVE  RequestInv(d)'
<1>1. stream \in Nat /\ latest[d] \in Nat /\ next[d] \in Nat /\ from[d] \in Nat
      /\ agg[d] \in Aggregates
  BY ConstantsAssumption DEF TypeOK
<1>2. PositionAfter(agg[d]) \in Nat
  BY <1>1 DEF PositionAfter, Aggregates
<1>3. purpose[d] = "exists" => FaithfulSnapshot(agg[d])'
  BY <1>1, FaithfulStable DEF RequestInv, FaithfulSnapshot
<1>4. PositionAfter(agg[d])' = PositionAfter(agg[d])
      /\ (IsFoldOfItsVersion(agg[d]) => IsFoldOfItsVersion(agg[d])')
  BY DEF PositionAfter, IsFoldOfItsVersion, EventsBetween
<1> QED
  BY <1>1, <1>2, <1>3, <1>4 DEF RequestInv

\* A request that is over satisfies its invariant.
LEMMA IdleRequest ==
    ASSUME NEW d \in Clients, pc'[d] = "idle", purpose'[d] = "none",
           agg'[d] = NewAggregate, from'[d] = 0, stream' \in Nat
    PROVE  RequestInv(d)'
<1>1. IsFoldOfItsVersion(agg[d])' /\ PositionAfter(agg[d])' = 0
  BY NewAggregateIsFold DEF IsFoldOfItsVersion, PositionAfter, EventsBetween
<1> QED
  BY <1>1 DEF RequestInv

\* The requests that FinishAll ends are over, the others are as before.
LEMMA RequestsOver ==
    ASSUME TypeOK, NEW R, NEW how \in Outcomes, FinishAll(R, how)
    PROVE  /\ \A d \in Clients : d \in R =>
                 /\ pc'[d] = "idle" /\ purpose'[d] = "none"
                 /\ agg'[d] = NewAggregate /\ from'[d] = 0
           /\ \A d \in Clients : d \notin R =>
                 /\ pc'[d] = pc[d] /\ purpose'[d] = purpose[d]
                 /\ agg'[d] = agg[d] /\ from'[d] = from[d]
                 /\ latest'[d] = latest[d]
           /\ pc' \in [Clients -> Locations]
           /\ purpose' \in [Clients -> Purposes]
           /\ agg' \in [Clients -> Aggregates]
           /\ latest' \in [Clients -> 0..MaxEvents]
           /\ from' \in [Clients -> 0..MaxEvents]
           /\ outcome' \in [Clients -> Outcomes]
<1>1. MaxEvents \in Nat /\ NewAggregate \in Aggregates
  BY ConstantsAssumption, NewAggregateIsFold
<1> QED
  BY <1>1 DEF TypeOK, FinishAll, Locations, Purposes

\* The invariant is preserved by a step that leaves a request alone or keeps
\* its invariant, and inserts nothing but faithful snapshots, into MongoDB first.
LEMMA StepPreserves ==
    ASSUME IInv, TypeOK',
           stream <= stream', mongo \subseteq mongo', memory' \subseteq mongo',
           \A s \in mongo' \ mongo : FaithfulSnapshot(s)',
           \A d \in Clients : RequestInv(d)' \/
              /\ pc'[d] = pc[d] /\ purpose'[d] = purpose[d]
              /\ agg'[d] = agg[d] /\ latest'[d] = latest[d]
              /\ next'[d] = next[d] /\ from'[d] = from[d]
    PROVE  IInv'
<1>1. stream \in Nat /\ stream' \in Nat
  BY ConstantsAssumption DEF IInv, TypeOK
<1>2. SnapshotsFaithful'
  <2>1. ASSUME NEW s \in mongo
        PROVE  FaithfulSnapshot(s)'
    BY <1>1, FaithfulStable DEF IInv, SnapshotsFaithful
  <2> QED
    BY <2>1 DEF SnapshotsFaithful
<1>3. \A d \in Clients : RequestInv(d)'
  BY <1>1, OtherRequestStable DEF IInv
<1> QED
  BY <1>2, <1>3 DEF IInv, MemoryBacked

\* A step that ends the requests in R.
LEMMA EndPreserves ==
    ASSUME IInv, NEW R, NEW how \in Outcomes, FinishAll(R, how),
           stream' \in 0..MaxEvents, stream <= stream',
           mongo \subseteq mongo', mongo' \subseteq Aggregates,
           memory' \subseteq mongo',
           \A s \in mongo' \ mongo : FaithfulSnapshot(s)',
           next' \in [Clients -> 0..MaxEvents],
           \A d \in Clients : d \notin R => next'[d] = next[d],
           faults' \in 0..MaxFaults
    PROVE  IInv'
<1>1. TypeOK
  BY DEF IInv
<1>2. TypeOK'
  BY <1>1, RequestsOver DEF TypeOK
<1>3. stream' \in Nat
  BY ConstantsAssumption
<1>4. \A d \in Clients : d \in R => RequestInv(d)'
  BY <1>1, <1>3, RequestsOver, IdleRequest
<1>5. \A d \in Clients : d \notin R =>
         /\ pc'[d] = pc[d] /\ purpose'[d] = purpose[d]
         /\ agg'[d] = agg[d] /\ latest'[d] = latest[d]
         /\ next'[d] = next[d] /\ from'[d] = from[d]
  BY <1>1, RequestsOver
<1> QED
  BY <1>2, <1>4, <1>5, StepPreserves

-----------------------------------------------------------------------------
(* LoadAsync.                                                               *)

\* A new aggregate is the result of no event.
LEMMA ConstructPreserves ==
    ASSUME IInv, NEW c \in Clients, Construct(c)
    PROVE  IInv'
<1> USE DEF Construct, stores
<1>1. TypeOK /\ RequestInv(c) /\ memory \subseteq mongo
  BY DEF IInv, MemoryBacked
<1>2. TypeOK'
  BY <1>1, ConstantsAssumption DEF TypeOK, Locations, Outcomes
<1>3. RequestInv(c)'
  <2>1. agg'[c] = NewAggregate /\ from'[c] = 0 /\ stream' = stream /\ stream \in Nat
    BY <1>1, ConstantsAssumption DEF RequestInv, TypeOK
  <2>2. pc'[c] = "ready" /\ purpose'[c] = "none"
    BY <1>1 DEF TypeOK, RequestInv
  <2>3. PositionAfter(agg[c])' = 0 /\ IsFoldOfItsVersion(agg[c])'
    BY <2>1, NewAggregateIsFold DEF PositionAfter, IsFoldOfItsVersion, EventsBetween
  <2> QED
    BY <2>1, <2>2, <2>3 DEF RequestInv
<1>4. \A d \in Clients : d # c =>
         /\ pc'[d] = pc[d] /\ purpose'[d] = purpose[d]
         /\ agg'[d] = agg[d] /\ latest'[d] = latest[d]
         /\ next'[d] = next[d] /\ from'[d] = from[d]
  BY <1>1 DEF TypeOK
<1> QED
  BY <1>1, <1>2, <1>3, <1>4, ConstantsAssumption, StepPreserves DEF TypeOK

\* A request whose load throws is over.
LEMMA LoadMissingStreamPreserves ==
    ASSUME IInv, NEW c \in Clients, LoadMissingStream(c)
    PROVE  IInv'
<1>1. TypeOK /\ memory \subseteq mongo
  BY DEF IInv, MemoryBacked
<1>2. FinishAll({c}, "loadFailed") /\ "loadFailed" \in Outcomes
  BY DEF LoadMissingStream, Finish, Outcomes
<1>3. /\ stream' = stream /\ stream \in 0..MaxEvents /\ stream <= stream'
      /\ mongo' = mongo /\ mongo \subseteq Aggregates /\ memory' = memory
      /\ faults' \in 0..MaxFaults
      /\ next' \in [Clients -> 0..MaxEvents]
      /\ \A d \in Clients : d \notin {c} => next'[d] = next[d]
  BY <1>1, ConstantsAssumption DEF LoadMissingStream, stores, TypeOK
<1> QED
  BY <1>1, <1>2, <1>3, EndPreserves

\* LoadAsync returns an aggregate at least as new as the stream was.
LEMMA ReturnPreserves ==
    ASSUME IInv, NEW c \in Clients, NEW aggregate \in Aggregates,
           IsFoldOfItsVersion(aggregate),
           PositionAfter(aggregate) \in from[c]..stream,
           Return(c, aggregate), UNCHANGED <<stores, faults>>
    PROVE  IInv'
<1>1. TypeOK /\ RequestInv(c) /\ memory \subseteq mongo
  BY DEF IInv, MemoryBacked
<1>2. TypeOK'
  BY <1>1, ConstantsAssumption DEF TypeOK, Return, stores, Locations, Purposes
<1>3. RequestInv(c)'
  <2>1. /\ agg'[c] = aggregate /\ from'[c] = from[c] /\ stream' = stream
        /\ stream \in Nat /\ from[c] \in Nat
        /\ pc'[c] = "ready" /\ purpose'[c] = "none"
    BY <1>1, ConstantsAssumption DEF TypeOK, Return, stores
  <2>2. /\ PositionAfter(agg[c])' = PositionAfter(aggregate)
        /\ IsFoldOfItsVersion(agg[c])'
    BY <2>1 DEF PositionAfter, IsFoldOfItsVersion, EventsBetween
  <2> QED
    BY <1>1, <2>1, <2>2 DEF RequestInv
<1>4. \A d \in Clients : d # c =>
         /\ pc'[d] = pc[d] /\ purpose'[d] = purpose[d]
         /\ agg'[d] = agg[d] /\ latest'[d] = latest[d]
         /\ next'[d] = next[d] /\ from'[d] = from[d]
  BY <1>1 DEF TypeOK, Return
<1>5. stream <= stream' /\ mongo' = mongo /\ memory' = memory
  BY <1>1, ConstantsAssumption DEF TypeOK, stores
<1> QED
  BY <1>1, <1>2, <1>3, <1>4, <1>5, StepPreserves

\* A forward read is begun from an aggregate that has no event out of place
\* and, for a snapshot, is older than the snapshot is to be.
LEMMA ReadForwardPreserves ==
    ASSUME IInv, NEW c \in Clients, NEW aggregate \in Aggregates,
           pc[c] \in {"memory", "mongo"}, purpose[c] \in {"load", "old"},
           IsFoldOfItsVersion(aggregate), PositionAfter(aggregate) <= stream,
           purpose[c] = "old" => PositionAfter(aggregate) < next[c],
           ReadForward(c, aggregate), UNCHANGED <<stores, faults>>
    PROVE  IInv'
<1>1. TypeOK /\ RequestInv(c) /\ memory \subseteq mongo
  BY DEF IInv, MemoryBacked
<1>2. TypeOK'
  BY <1>1, ConstantsAssumption DEF TypeOK, ReadForward, stores, Locations
<1>3. RequestInv(c)'
  <2>1. /\ agg'[c] = aggregate /\ stream' = stream /\ pc'[c] = "forward"
        /\ purpose'[c] = purpose[c] /\ from'[c] = from[c]
        /\ latest'[c] = latest[c] /\ next'[c] = next[c]
    BY <1>1 DEF TypeOK, ReadForward, stores
  <2>2. /\ PositionAfter(agg[c])' = PositionAfter(aggregate)
        /\ IsFoldOfItsVersion(agg[c])'
    BY <2>1 DEF PositionAfter, IsFoldOfItsVersion, EventsBetween
  <2> QED
    BY <1>1, <2>1, <2>2 DEF RequestInv
<1>4. \A d \in Clients : d # c =>
         /\ pc'[d] = pc[d] /\ purpose'[d] = purpose[d]
         /\ agg'[d] = agg[d] /\ latest'[d] = latest[d]
         /\ next'[d] = next[d] /\ from'[d] = from[d]
  BY <1>1 DEF TypeOK, ReadForward
<1>5. stream <= stream' /\ mongo' = mongo /\ memory' = memory
  BY <1>1, ConstantsAssumption DEF TypeOK, stores
<1> QED
  BY <1>1, <1>2, <1>3, <1>4, <1>5, StepPreserves

\* The latest slice, read backwards and put in order, is the whole stream, or
\* its newest snapshot is looked up.
LEMMA LoadLatestPreserves ==
    ASSUME IInv, NEW c \in Clients, LoadLatest(c)
    PROVE  IInv'
<1> DEFINE N == TakeSnapshotAfterEventsCount
           slice == EventsBackwards(stream, N)
           all == IF AllowSnapshotting
                  THEN Load(NewAggregate, Reverse(slice))
                  ELSE LoadAggregate(NewAggregate, EventsBetween(0, stream))
           lookup == AllowSnapshotting /\ Len(slice) = N
<1>1. /\ TypeOK /\ RequestInv(c) /\ memory \subseteq mongo
      /\ stream \in Nat /\ stream > 0 /\ stream \in 0..MaxEvents
      /\ NewAggregate \in Aggregates
  BY ConstantsAssumption, NewAggregateIsFold
     DEF IInv, MemoryBacked, TypeOK, LoadLatest
<1>2. /\ stream' = stream /\ memory' = memory /\ mongo' = mongo
      /\ faults' = faults
      /\ pc[c] = "idle" /\ purpose[c] = "none"
      /\ from' = [from EXCEPT ![c] = stream]
      /\ next' = [next EXCEPT ![c] = 0]
      /\ outcome' = [outcome EXCEPT ![c] = "none"]
  BY <1>1 DEF LoadLatest, stores, RequestInv
<1>3. \A d \in Clients : d # c => next'[d] = next[d] /\ from'[d] = from[d]
  BY <1>1, <1>2 DEF TypeOK
<1>4. CASE lookup
  <2>1. /\ pc' = [pc EXCEPT ![c] = IF AllowMemorySnapshots THEN "memory" ELSE "mongo"]
        /\ purpose' = [purpose EXCEPT ![c] = "load"]
        /\ agg' = [agg EXCEPT ![c] = NewAggregate]
        /\ latest' = [latest EXCEPT ![c] = stream]
    BY <1>4 DEF LoadLatest, StartLookup
  <2>2. TypeOK'
    BY <1>1, <1>2, <2>1, ConstantsAssumption DEF TypeOK, Locations, Purposes, Outcomes
  <2>3. RequestInv(c)'
    <3>1. /\ agg'[c] = NewAggregate /\ from'[c] = stream /\ latest'[c] = stream
          /\ pc'[c] \in {"memory", "mongo"} /\ purpose'[c] = "load"
      BY <1>1, <1>2, <2>1 DEF TypeOK
    <3>2. PositionAfter(agg[c])' = 0 /\ IsFoldOfItsVersion(agg[c])'
      BY <3>1, NewAggregateIsFold DEF PositionAfter, IsFoldOfItsVersion, EventsBetween
    <3> QED
      BY <1>1, <1>2, <3>1, <3>2 DEF RequestInv
  <2>4. \A d \in Clients : d # c =>
           /\ pc'[d] = pc[d] /\ purpose'[d] = purpose[d]
           /\ agg'[d] = agg[d] /\ latest'[d] = latest[d]
    BY <1>1, <2>1 DEF TypeOK
  <2> QED
    BY <1>1, <1>2, <1>3, <2>2, <2>3, <2>4, StepPreserves
<1>5. CASE ~lookup
  <2>1. /\ pc' = [pc EXCEPT ![c] = "ready"]
        /\ agg' = [agg EXCEPT ![c] = all]
        /\ purpose' = purpose /\ latest' = latest
    BY <1>5 DEF LoadLatest
  <2>2. /\ all \in Aggregates /\ IsFoldOfItsVersion(all)
        /\ PositionAfter(all) = stream
    <3>1. all = Load(NewAggregate, EventsBetween(0, stream))
      <4>1. CASE AllowSnapshotting
        <5>1. stream < N
          BY <1>1, <1>5, <4>1, IntervalAssumption, ShortSliceReversed
        <5> QED
          BY <1>1, <4>1, <5>1, IntervalAssumption, ShortSliceReversed
      <4>2. CASE ~AllowSnapshotting
        BY <1>1, <4>2, NewAggregateIsFold, LoadAggregateIsLoad
      <4> QED
        BY <4>1, <4>2
    <3> HIDE DEF all
    <3> QED
      BY <1>1, <3>1, NewAggregateIsFold, LoadFromPosition
  <2> HIDE DEF all
  <2>3. TypeOK'
    BY <1>1, <1>2, <2>1, <2>2, ConstantsAssumption DEF TypeOK, Locations, Outcomes
  <2>4. RequestInv(c)'
    <3>1. /\ agg'[c] = all /\ from'[c] = stream
          /\ pc'[c] = "ready" /\ purpose'[c] = "none"
      BY <1>1, <1>2, <2>1 DEF TypeOK
    <3>2. PositionAfter(agg[c])' = stream /\ IsFoldOfItsVersion(agg[c])'
      BY <2>2, <3>1 DEF PositionAfter, IsFoldOfItsVersion, EventsBetween
    <3> QED
      BY <1>1, <1>2, <3>1, <3>2 DEF RequestInv
  <2>5. \A d \in Clients : d # c =>
           /\ pc'[d] = pc[d] /\ purpose'[d] = purpose[d]
           /\ agg'[d] = agg[d] /\ latest'[d] = latest[d]
    BY <1>1, <2>1 DEF TypeOK
  <2> QED
    BY <1>1, <1>2, <1>3, <2>3, <2>4, <2>5, StepPreserves
<1> QED
  BY <1>4, <1>5

\* A snapshot found by LoadAsync: its three branches.
LEMMA LoadFromSnapshotPreserves ==
    ASSUME IInv, NEW c \in Clients, NEW snapshot \in Aggregates,
           FaithfulSnapshot(snapshot),
           pc[c] \in {"memory", "mongo"}, purpose[c] = "load",
           LoadFromSnapshot(c, snapshot), UNCHANGED <<stores, faults>>
    PROVE  IInv'
<1> DEFINE N == TakeSnapshotAfterEventsCount
           count == latest[c] % N
           slice == EventsBackwards(latest[c], N)
           unapplied == Reverse(SubSeq(slice, 1, count))
<1>1. /\ stream \in Nat /\ from[c] \in Nat
      /\ latest[c] \in 1..stream /\ from[c] <= latest[c]
      /\ N \in Nat /\ N > 0
  BY ConstantsAssumption, IntervalAssumption DEF IInv, TypeOK, RequestInv
<1>2. /\ snapshot.Version \in 1..stream /\ IsFoldOfItsVersion(snapshot)
      /\ PositionAfter(snapshot) = snapshot.Version
  BY <1>1 DEF FaithfulSnapshot, PositionAfter
<1>3. CASE count = 0 /\ snapshot.Version = latest[c] /\ Return(c, snapshot)
  <2>1. PositionAfter(snapshot) \in from[c]..stream
    BY <1>1, <1>2, <1>3
  <2> QED
    BY <1>2, <1>3, <2>1, ReturnPreserves
<1>4. CASE /\ count # 0
           /\ snapshot.Version + 1 = Head(unapplied) + 1
           /\ Return(c, Load(snapshot, unapplied))
  <2>1. count \in 1..latest[c] /\ count < N
    BY <1>1, <1>4, LastMultipleIsMultiple
  <2>2. unapplied = EventsBetween(latest[c] - count, latest[c])
    BY <1>1, <2>1, SliceReversed
  <2>3. Head(unapplied) = latest[c] - count
    <3>1. latest[c] - count \in Nat /\ latest[c] - count <= latest[c]
      BY <1>1, <2>1
    <3>2. \A k \in Nat : k < latest[c] => Head(EventsBetween(k, latest[c])) = k
      <4> SUFFICES ASSUME NEW k \in Nat, k < latest[c]
                   PROVE  Head(EventsBetween(k, latest[c])) = k
        OBVIOUS
      <4>1. 1 \in 1..(latest[c] - k) /\ latest[c] \in Nat /\ k <= latest[c]
        BY <1>1
      <4>2. EventsBetween(k, latest[c])[1] = k + 1 - 1
        BY <4>1, EventsBetweenSeq
      <4> QED
        BY <4>2
    <3> QED
      BY <1>1, <2>1, <2>2, <3>1, <3>2
  <2>4. snapshot.Version = latest[c] - count
    BY <1>1, <1>2, <1>4, <2>1, <2>3
  <2>5. unapplied = EventsBetween(PositionAfter(snapshot), latest[c])
    BY <1>2, <2>2, <2>4
  <2> DEFINE r == Load(snapshot, unapplied)
  <2>6. /\ r \in Aggregates /\ IsFoldOfItsVersion(r)
        /\ PositionAfter(r) = latest[c]
    BY <1>1, <1>2, <2>1, <2>4, <2>5, LoadFromPosition
  <2> HIDE DEF r
  <2>7. PositionAfter(r) \in from[c]..stream
    BY <1>1, <2>6
  <2>8. Return(c, r)
    BY <1>4 DEF r
  <2> QED
    BY <2>6, <2>7, <2>8, ReturnPreserves
<1>5. CASE ReadForward(c, snapshot)
  BY <1>1, <1>2, <1>5, ReadForwardPreserves
<1> QED
  BY <1>3, <1>4, <1>5 DEF LoadFromSnapshot

-----------------------------------------------------------------------------
(* SaveAsync.                                                               *)

\* An append keeps what the stores and the other requests hold; the one that
\* completes an interval goes on with the snapshot of the interval before.
LEMMA AppendToStreamPreserves ==
    ASSUME IInv, NEW c \in Clients, NEW k \in Batches, AppendToStream(c, k)
    PROVE  IInv'
<1> DEFINE last == stream + k
<1>1. /\ TypeOK /\ RequestInv(c) /\ memory \subseteq mongo
      /\ k \in Nat /\ k > 0 /\ stream \in Nat /\ MaxEvents \in Nat
      /\ NewAggregate \in Aggregates
  BY ConstantsAssumption, NewAggregateIsFold DEF IInv, MemoryBacked, TypeOK
<1>2. /\ stream' = last /\ last \in 0..MaxEvents /\ stream <= stream'
      /\ memory' = memory /\ mongo' = mongo /\ faults' = faults
      /\ mongo \subseteq Aggregates /\ faults \in 0..MaxFaults
      /\ next \in [Clients -> 0..MaxEvents]
  BY <1>1 DEF AppendToStream, TypeOK
<1>3. CASE CompletesInterval(agg[c], last)
  <2>1. /\ pc' = [pc EXCEPT ![c] = IF AllowMemorySnapshots THEN "memory" ELSE "mongo"]
        /\ purpose' = [purpose EXCEPT ![c] = "old"]
        /\ agg' = [agg EXCEPT ![c] = NewAggregate]
        /\ next' = [next EXCEPT ![c] = LastMultiple(last)]
        /\ from' = [from EXCEPT ![c] = 0]
        /\ latest' = latest /\ outcome' = outcome
    BY <1>3 DEF AppendToStream, StartLookup
  <2>2. /\ LastMultiple(last) \in 1..last
        /\ LastMultiple(last) % TakeSnapshotAfterEventsCount = 0
    <3>1. PositionAfter(agg[c]) \in Nat
      BY <1>1 DEF TypeOK, Aggregates, PositionAfter
    <3> QED
      BY <1>2, <1>3, <3>1, LastMultipleIsMultiple DEF CompletesInterval
  <2>3. TypeOK'
    BY <1>1, <1>2, <2>1, <2>2 DEF TypeOK, Locations, Purposes
  <2>4. RequestInv(c)'
    <3>1. /\ agg'[c] = NewAggregate /\ from'[c] = 0
          /\ next'[c] = LastMultiple(last)
          /\ pc'[c] \in {"memory", "mongo"} /\ purpose'[c] = "old"
      BY <1>1, <2>1 DEF TypeOK
    <3>2. PositionAfter(agg[c])' = 0 /\ IsFoldOfItsVersion(agg[c])'
      BY <3>1, NewAggregateIsFold DEF PositionAfter, IsFoldOfItsVersion, EventsBetween
    <3> QED
      BY <1>2, <2>2, <3>1, <3>2 DEF RequestInv
  <2>5. \A d \in Clients : d # c =>
           /\ pc'[d] = pc[d] /\ purpose'[d] = purpose[d]
           /\ agg'[d] = agg[d] /\ latest'[d] = latest[d]
           /\ next'[d] = next[d] /\ from'[d] = from[d]
    BY <1>1, <2>1 DEF TypeOK
  <2> QED
    BY <1>1, <1>2, <2>3, <2>4, <2>5, StepPreserves
<1>4. CASE ~CompletesInterval(agg[c], last)
  <2>1. FinishAll({c}, "saved") /\ "saved" \in Outcomes /\ next' = next
    BY <1>4 DEF AppendToStream, Finish, Outcomes
  <2> QED
    BY <1>1, <1>2, <2>1, EndPreserves
<1> QED
  BY <1>3, <1>4

\* A request that ends in a step that changes no store.
LEMMA FinishPreserves ==
    ASSUME IInv, NEW c \in Clients, NEW how \in Outcomes, Finish(c, how),
           UNCHANGED <<stores, next>>, faults' \in 0..MaxFaults
    PROVE  IInv'
<1>1. TypeOK /\ memory \subseteq mongo
  BY DEF IInv, MemoryBacked
<1>2. /\ stream' = stream /\ stream \in 0..MaxEvents /\ stream <= stream'
      /\ mongo' = mongo /\ mongo \subseteq Aggregates /\ memory' = memory
      /\ next' = next /\ next \in [Clients -> 0..MaxEvents]
  BY <1>1, ConstantsAssumption DEF stores, TypeOK
<1>3. FinishAll({c}, how)
  BY DEF Finish
<1> QED
  BY <1>1, <1>2, <1>3, EndPreserves

\* A request that ends before it saves.
LEMMA EndWithoutChangesPreserves ==
    ASSUME IInv, NEW c \in Clients, EndWithoutChanges(c)
    PROVE  IInv'
  BY FinishPreserves DEF IInv, TypeOK, EndWithoutChanges, Outcomes

\* A snapshot that answers a lookup, whichever database it comes from.
LEMMA SnapshotFoundPreserves ==
    ASSUME IInv, NEW c \in Clients, NEW snapshot \in memory \cup mongo,
           pc[c] \in {"memory", "mongo"},
           SnapshotFound(c, snapshot), UNCHANGED <<stores, faults>>
    PROVE  IInv'
<1>1. /\ FaithfulSnapshot(snapshot) /\ snapshot \in Aggregates
      /\ faults' \in 0..MaxFaults /\ UNCHANGED stores
      /\ {"saved", "saveFailed"} \subseteq Outcomes
  BY DEF IInv, TypeOK, SnapshotsFaithful, Outcomes
<1>2. CASE purpose[c] = "load" /\ LoadFromSnapshot(c, snapshot)
  BY <1>1, <1>2, LoadFromSnapshotPreserves
<1>3. CASE purpose[c] = "old" /\ ExtendSnapshot(c, snapshot)
  <2>1. /\ snapshot.Version \in 1..stream /\ stream \in Nat
        /\ IsFoldOfItsVersion(snapshot)
        /\ PositionAfter(snapshot) = snapshot.Version
    BY <1>1, ConstantsAssumption
       DEF IInv, TypeOK, FaithfulSnapshot, PositionAfter
  <2>2. CASE snapshot.Version < next[c] /\ ReadForward(c, snapshot)
    <3>1. PositionAfter(snapshot) <= stream /\ PositionAfter(snapshot) < next[c]
      BY <2>1, <2>2
    <3> QED
      BY <1>1, <1>3, <2>1, <2>2, <3>1, ReadForwardPreserves
  <2>3. CASE Finish(c, "saved") /\ UNCHANGED next
    BY <1>1, <2>3, FinishPreserves
  <2>4. CASE Finish(c, "saveFailed") /\ UNCHANGED next
    BY <1>1, <2>4, FinishPreserves
  <2> QED
    BY <1>3, <2>2, <2>3, <2>4 DEF ExtendSnapshot
<1>4. CASE Finish(c, "saved") /\ UNCHANGED next
  BY <1>1, <1>4, FinishPreserves
<1> QED
  BY <1>2, <1>3, <1>4 DEF SnapshotFound

\* A step of a lookup that moves on to another call and changes nothing else.
LEMMA MoveOnPreserves ==
    ASSUME IInv, NEW c \in Clients,
           pc[c] \in {"memory", "mongo"},
           NEW next_call \in {"mongo", "insertMongo"},
           next_call = "insertMongo" => purpose[c] = "exists",
           pc' = [pc EXCEPT ![c] = next_call],
           UNCHANGED <<purpose, agg, latest, next, from, outcome>>,
           UNCHANGED <<stores, faults>>
    PROVE  IInv'
<1>1. /\ TypeOK /\ RequestInv(c) /\ memory \subseteq mongo
      /\ stream' = stream /\ memory' = memory /\ mongo' = mongo
      /\ stream \in Nat
  BY ConstantsAssumption DEF IInv, MemoryBacked, stores, TypeOK
<1>2. TypeOK'
  BY <1>1 DEF TypeOK, Locations
<1>3. RequestInv(c)'
  <2>1. pc'[c] = next_call
    BY <1>1 DEF TypeOK
  <2>2. /\ PositionAfter(agg[c])' = PositionAfter(agg[c])
        /\ IsFoldOfItsVersion(agg[c])' <=> IsFoldOfItsVersion(agg[c])
        /\ FaithfulSnapshot(agg[c])' <=> FaithfulSnapshot(agg[c])
    BY <1>1 DEF PositionAfter, IsFoldOfItsVersion, EventsBetween, FaithfulSnapshot
  <2> QED
    BY <1>1, <2>1, <2>2 DEF RequestInv
<1>4. \A d \in Clients : d # c =>
         /\ pc'[d] = pc[d] /\ purpose'[d] = purpose[d]
         /\ agg'[d] = agg[d] /\ latest'[d] = latest[d]
         /\ next'[d] = next[d] /\ from'[d] = from[d]
  BY <1>1 DEF TypeOK
<1> QED
  BY <1>1, <1>2, <1>3, <1>4, StepPreserves

\* What the lookup finds in memory is a stored snapshot.
LEMMA LookupMemoryPreserves ==
    ASSUME IInv, NEW c \in Clients, LookupMemory(c)
    PROVE  IInv'
<1>1. CASE \E s \in Newest(Matching(c, memory)) : SnapshotFound(c, s)
  <2>1. PICK s \in memory : SnapshotFound(c, s)
    BY <1>1 DEF Newest, Matching
  <2> QED
    BY <2>1, SnapshotFoundPreserves DEF LookupMemory
<1>2. CASE /\ pc' = [pc EXCEPT ![c] = "mongo"]
           /\ UNCHANGED <<purpose, agg, latest, next, from, outcome>>
  BY <1>2, MoveOnPreserves DEF LookupMemory
<1> QED
  BY <1>1, <1>2 DEF LookupMemory

\* What the lookup finds in MongoDB is a stored snapshot.
LEMMA LookupMongoPreserves ==
    ASSUME IInv, NEW c \in Clients, LookupMongo(c)
    PROVE  IInv'
<1>1. pc[c] = "mongo" /\ UNCHANGED <<stores, faults>>
  BY DEF LookupMongo
<1>2. CASE \E s \in Newest(Matching(c, mongo)) : SnapshotFound(c, s)
  <2>1. PICK s \in mongo : SnapshotFound(c, s)
    BY <1>2 DEF Newest, Matching
  <2> QED
    BY <1>1, <2>1, SnapshotFoundPreserves
<1>3. CASE purpose[c] \in {"load", "old"} /\ ReadForward(c, NewAggregate)
  <2>1. stream \in Nat /\ (purpose[c] = "old" => next[c] \in 1..stream)
    BY ConstantsAssumption DEF IInv, TypeOK, RequestInv
  <2>2. PositionAfter(NewAggregate) <= stream
        /\ (purpose[c] = "old" => PositionAfter(NewAggregate) < next[c])
    BY <2>1, NewAggregateIsFold
  <2> QED
    BY <1>1, <1>3, <2>2, NewAggregateIsFold, ReadForwardPreserves
<1>4. CASE /\ purpose[c] = "exists"
           /\ pc' = [pc EXCEPT ![c] = "insertMongo"]
           /\ UNCHANGED <<purpose, agg, latest, next, from, outcome>>
  BY <1>1, <1>4, MoveOnPreserves
<1> QED
  BY <1>2, <1>3, <1>4 DEF LookupMongo, SnapshotMissing

-----------------------------------------------------------------------------
(* LoadAggregateAsync, Save of the store, failures.                         *)

\* The events read are those that follow the aggregate's: what comes out is
\* the result of one longer prefix.
LEMMA ForwardReadPreserves ==
    ASSUME IInv, NEW c \in Clients, ForwardRead(c)
    PROVE  IInv'
<1> DEFINE to == IF purpose[c] = "old" /\ next[c] < stream
                 THEN next[c] ELSE stream
           position == PositionAfter(agg[c])
           r == LoadAggregate(agg[c], Unread(c))
<1>1. /\ TypeOK /\ RequestInv(c) /\ memory \subseteq mongo
      /\ stream \in Nat /\ from[c] \in Nat /\ agg[c] \in Aggregates
      /\ pc[c] = "forward" /\ UNCHANGED <<stores, faults>>
  BY ConstantsAssumption DEF IInv, MemoryBacked, TypeOK, ForwardRead
<1>2. /\ IsFoldOfItsVersion(agg[c]) /\ position <= stream /\ position \in Nat
      /\ purpose[c] = "old" => /\ position < next[c] /\ next[c] \in 1..stream
                               /\ next[c] % TakeSnapshotAfterEventsCount = 0
  BY <1>1 DEF RequestInv, PositionAfter, Aggregates
<1>3. to \in Nat /\ position <= to /\ to <= stream
  BY <1>1, <1>2
<1>4. r = Load(agg[c], EventsBetween(position, to))
  BY <1>1, <1>3, LoadAggregateIsLoad DEF Unread
<1>5. /\ r \in Aggregates /\ IsFoldOfItsVersion(r) /\ PositionAfter(r) = to
      /\ position < to => r.Version = to
  <2> HIDE DEF to, r
  <2> QED
    BY <1>1, <1>2, <1>3, <1>4, LoadFromPosition
<1> HIDE DEF r
<1>6. CASE purpose[c] = "load" /\ Return(c, r)
  <2>1. PositionAfter(r) \in from[c]..stream
    <3>1. from[c] <= stream
      BY <1>1 DEF RequestInv
    <3> QED
      BY <1>1, <1>5, <1>6, <3>1
  <2> QED
    BY <1>1, <1>5, <1>6, <2>1, ReturnPreserves
<1>7. CASE /\ purpose[c] = "old"
           /\ StartLookup(c, "exists", r)
           /\ UNCHANGED <<latest, next, from, outcome>>
  <2>1. /\ pc' = [pc EXCEPT ![c] = IF AllowMemorySnapshots THEN "memory" ELSE "mongo"]
        /\ purpose' = [purpose EXCEPT ![c] = "exists"]
        /\ agg' = [agg EXCEPT ![c] = r]
        /\ latest' = latest /\ next' = next /\ from' = from
        /\ outcome' = outcome
        /\ stream' = stream /\ memory' = memory /\ mongo' = mongo
        /\ faults' = faults
    BY <1>1, <1>7 DEF StartLookup, stores
  <2>2. TypeOK'
    BY <1>1, <1>5, <2>1 DEF TypeOK, Locations, Purposes
  <2>3. RequestInv(c)'
    <3>1. /\ agg'[c] = r /\ from'[c] = from[c]
          /\ pc'[c] \in {"memory", "mongo"} /\ purpose'[c] = "exists"
      BY <1>1, <2>1 DEF TypeOK
    <3>2. /\ r.Version = next[c] /\ r.Version \in 1..stream
          /\ r.Version % TakeSnapshotAfterEventsCount = 0
          /\ PositionAfter(r) <= stream
      BY <1>1, <1>2, <1>3, <1>5, <1>7
    <3>3. FaithfulSnapshot(agg[c])' /\ PositionAfter(agg[c])' <= stream'
          /\ IsFoldOfItsVersion(agg[c])' /\ agg'[c].Version = next'[c]
      BY <1>5, <2>1, <3>1, <3>2
         DEF FaithfulSnapshot, IsFoldOfItsVersion, PositionAfter, EventsBetween
    <3> QED
      BY <1>1, <2>1, <3>1, <3>3 DEF RequestInv
  <2>4. \A d \in Clients : d # c =>
           /\ pc'[d] = pc[d] /\ purpose'[d] = purpose[d]
           /\ agg'[d] = agg[d] /\ latest'[d] = latest[d]
           /\ next'[d] = next[d] /\ from'[d] = from[d]
    BY <1>1, <2>1 DEF TypeOK
  <2> QED
    BY <1>1, <2>1, <2>2, <2>3, <2>4, StepPreserves
<1> QED
  BY <1>6, <1>7 DEF ForwardRead, r

\* The snapshot inserted is the aggregate the request built, and that is faithful.
LEMMA InsertMongoPreserves ==
    ASSUME IInv, NEW c \in Clients, InsertMongo(c)
    PROVE  IInv'
<1>1. /\ TypeOK /\ RequestInv(c) /\ memory \subseteq mongo
      /\ stream \in Nat /\ agg[c] \in Aggregates
      /\ pc[c] = "insertMongo" /\ mongo' = mongo \cup {agg[c]}
      /\ stream' = stream /\ memory' = memory /\ next' = next /\ faults' = faults
  BY ConstantsAssumption DEF IInv, MemoryBacked, TypeOK, InsertMongo
<1>2. purpose[c] = "exists" /\ FaithfulSnapshot(agg[c])
  BY <1>1 DEF RequestInv
<1>3. \A s \in mongo' \ mongo : FaithfulSnapshot(s)'
  BY <1>1, <1>2, FaithfulStable
<1>4. /\ mongo \subseteq mongo' /\ mongo' \subseteq Aggregates
      /\ memory' \subseteq mongo' /\ stream <= stream'
  BY <1>1 DEF TypeOK
<1>5. CASE /\ pc' = [pc EXCEPT ![c] = "insertMemory"]
           /\ UNCHANGED <<purpose, agg, latest, from, outcome>>
  <2>1. TypeOK'
    BY <1>1, <1>4, <1>5 DEF TypeOK, Locations
  <2>2. RequestInv(c)'
    <3>1. /\ pc'[c] = "insertMemory" /\ agg'[c] = agg[c] /\ agg[c] \in mongo'
          /\ purpose'[c] = "exists" /\ from'[c] = from[c]
      BY <1>1, <1>2, <1>5 DEF TypeOK
    <3>2. FaithfulSnapshot(agg[c])'
      BY <1>1, <1>2, <3>1, FaithfulStable
         DEF FaithfulSnapshot, IsFoldOfItsVersion, PositionAfter, EventsBetween
    <3>3. PositionAfter(agg[c])' <= stream' /\ IsFoldOfItsVersion(agg[c])'
      BY <1>1, <3>1, <3>2 DEF FaithfulSnapshot, PositionAfter, RequestInv
    <3> QED
      BY <1>1, <3>1, <3>2, <3>3 DEF RequestInv
  <2>3. \A d \in Clients : d # c =>
           /\ pc'[d] = pc[d] /\ purpose'[d] = purpose[d]
           /\ agg'[d] = agg[d] /\ latest'[d] = latest[d]
           /\ next'[d] = next[d] /\ from'[d] = from[d]
    BY <1>1, <1>5 DEF TypeOK
  <2> QED
    BY <1>3, <1>4, <2>1, <2>2, <2>3, StepPreserves
<1>6. CASE Finish(c, "saved")
  <2>1. FinishAll({c}, "saved") /\ "saved" \in Outcomes
    BY <1>6 DEF Finish, Outcomes
  <2>2. /\ stream' \in 0..MaxEvents /\ next' \in [Clients -> 0..MaxEvents]
        /\ faults' \in 0..MaxFaults
    BY <1>1 DEF TypeOK
  <2> QED
    BY <1>1, <1>3, <1>4, <2>1, <2>2, EndPreserves
<1> QED
  BY <1>5, <1>6 DEF InsertMongo

\* The snapshot added to memory was inserted into MongoDB before.
LEMMA InsertMemoryPreserves ==
    ASSUME IInv, NEW c \in Clients, InsertMemory(c)
    PROVE  IInv'
<1>1. /\ TypeOK /\ RequestInv(c) /\ memory \subseteq mongo
      /\ stream \in Nat /\ pc[c] = "insertMemory"
      /\ stream' = stream /\ mongo' = mongo /\ next' = next /\ faults' = faults
  BY ConstantsAssumption DEF IInv, MemoryBacked, TypeOK, InsertMemory
<1>2. agg[c] \in mongo
  BY <1>1 DEF RequestInv
<1>3. memory' \subseteq mongo'
  BY <1>1, <1>2 DEF InsertMemory
<1>4. PICK how \in {"saved", "saveFailed"} : Finish(c, how)
  BY DEF InsertMemory
<1>5. FinishAll({c}, how) /\ how \in Outcomes
  BY <1>4 DEF Finish, Outcomes
<1>6. /\ stream' \in 0..MaxEvents /\ stream <= stream'
      /\ mongo' \subseteq Aggregates /\ faults' \in 0..MaxFaults
      /\ next' \in [Clients -> 0..MaxEvents]
  BY <1>1 DEF TypeOK
<1> QED
  BY <1>1, <1>3, <1>5, <1>6, EndPreserves

\* A call that throws ends the request and changes no store.
LEMMA CallFailsPreserves ==
    ASSUME IInv, NEW c \in Clients, CallFails(c)
    PROVE  IInv'
<1>1. faults' \in 0..MaxFaults /\ UNCHANGED <<stores, next>>
  BY ConstantsAssumption DEF IInv, TypeOK, CallFails
<1>2. PICK how \in {"loadFailed", "saveFailed"} : Finish(c, how)
  BY DEF CallFails
<1>3. how \in Outcomes
  BY DEF Outcomes
<1> QED
  BY <1>1, <1>2, <1>3, FinishPreserves

\* A write whose reply is lost has changed its store and ends the request.
LEMMA ReplyLostPreserves ==
    ASSUME IInv, NEW c \in Clients, ReplyLost(c)
    PROVE  IInv'
<1>1. /\ TypeOK /\ RequestInv(c) /\ memory \subseteq mongo
      /\ memory' = memory /\ next' = next /\ stream \in Nat
      /\ FinishAll({c}, "saveFailed") /\ "saveFailed" \in Outcomes
  BY ConstantsAssumption
     DEF IInv, MemoryBacked, TypeOK, ReplyLost, Finish, Outcomes
<1>2. /\ faults' \in 0..MaxFaults /\ next' \in [Clients -> 0..MaxEvents]
  BY <1>1, ConstantsAssumption DEF TypeOK, ReplyLost
<1>3. CASE /\ \E k \in Batches : stream + k <= MaxEvents /\ stream' = stream + k
           /\ UNCHANGED mongo
  <2>1. stream' \in 0..MaxEvents /\ stream <= stream' /\ mongo \subseteq Aggregates
    BY <1>1, <1>3, ConstantsAssumption DEF TypeOK
  <2> QED
    BY <1>1, <1>2, <1>3, <2>1, EndPreserves
<1>4. CASE /\ pc[c] = "insertMongo"
           /\ mongo' = mongo \cup {agg[c]}
           /\ UNCHANGED stream
  <2>1. FaithfulSnapshot(agg[c]) /\ agg[c] \in Aggregates
    BY <1>1, <1>4 DEF RequestInv, TypeOK
  <2>2. \A s \in mongo' \ mongo : FaithfulSnapshot(s)'
    BY <1>1, <1>4, <2>1, FaithfulStable
  <2>3. /\ stream' \in 0..MaxEvents /\ stream <= stream'
        /\ mongo \subseteq mongo' /\ mongo' \subseteq Aggregates
        /\ memory' \subseteq mongo'
    BY <1>1, <1>4, <2>1 DEF TypeOK
  <2> QED
    BY <1>1, <1>2, <2>2, <2>3, EndPreserves
<1> QED
  BY <1>3, <1>4 DEF ReplyLost

\* A restart empties the memory and ends every request.
LEMMA RestartPreserves ==
    ASSUME IInv, Restart
    PROVE  IInv'
<1>1. /\ TypeOK /\ stream' = stream /\ mongo' = mongo /\ memory' = {}
      /\ next' = next /\ FinishAll(Clients, "none") /\ "none" \in Outcomes
  BY DEF IInv, Restart, Outcomes
<1>2. /\ stream' \in 0..MaxEvents /\ stream <= stream'
      /\ mongo' \subseteq Aggregates /\ faults' \in 0..MaxFaults
      /\ next' \in [Clients -> 0..MaxEvents]
  BY <1>1, ConstantsAssumption DEF TypeOK, Restart
<1> QED
  BY <1>1, <1>2, EndPreserves

-----------------------------------------------------------------------------
(* The theorems.                                                            *)

\* The stores begin empty.
LEMMA InitEstablishes == Init => IInv
<1> SUFFICES ASSUME Init PROVE IInv
  OBVIOUS
<1>1. MaxEvents \in Nat /\ MaxFaults \in Nat /\ NewAggregate \in Aggregates
  BY ConstantsAssumption, NewAggregateIsFold
<1>2. TypeOK
  BY <1>1 DEF Init, TypeOK, Locations, Purposes, Outcomes
<1>3. \A c \in Clients : RequestInv(c)
  BY <1>1, NewAggregateIsFold DEF Init, RequestInv
<1> QED
  BY <1>2, <1>3 DEF Init, IInv, SnapshotsFaithful, MemoryBacked

\* A stuttering step keeps the invariant.
LEMMA StutteringPreserves ==
    ASSUME IInv, UNCHANGED vars
    PROVE  IInv'
<1>1. TypeOK' /\ MemoryBacked'
  BY DEF IInv, TypeOK, MemoryBacked, vars
<1>2. /\ stream \in Nat /\ stream' = stream /\ mongo' = mongo /\ memory' = memory
  BY ConstantsAssumption DEF IInv, TypeOK, vars
<1> QED
  BY <1>1, <1>2, StepPreserves DEF vars, MemoryBacked, IInv

\* IInv is an inductive invariant: whatever the requests, the servers and the
\* process do, the stores hold faithful snapshots and every request works on
\* an aggregate that has each event once and in order.
THEOREM Invariance == Spec => []IInv
<1>1. Init => IInv
  BY InitEstablishes
<1>2. IInv /\ [Next]_vars => IInv'
  <2> SUFFICES ASSUME IInv, [Next]_vars
               PROVE  IInv'
    OBVIOUS
  <2>1. ASSUME NEW c \in Clients, Construct(c)
        PROVE  IInv'
    BY <2>1, ConstructPreserves
  <2>2. ASSUME NEW c \in Clients, LoadMissingStream(c)
        PROVE  IInv'
    BY <2>2, LoadMissingStreamPreserves
  <2>3. ASSUME NEW c \in Clients, LoadLatest(c)
        PROVE  IInv'
    BY <2>3, LoadLatestPreserves
  <2>4. ASSUME NEW c \in Clients, Continue(c)
        PROVE  IInv'
    BY <2>4, AppendToStreamPreserves, EndWithoutChangesPreserves,
       LookupMemoryPreserves, LookupMongoPreserves, ForwardReadPreserves,
       InsertMongoPreserves, InsertMemoryPreserves DEF Continue
  <2>5. ASSUME NEW c \in Clients, CallFails(c)
        PROVE  IInv'
    BY <2>5, CallFailsPreserves
  <2>6. ASSUME NEW c \in Clients, ReplyLost(c)
        PROVE  IInv'
    BY <2>6, ReplyLostPreserves
  <2>7. CASE Restart
    BY <2>7, RestartPreserves
  <2>8. CASE UNCHANGED vars
    BY <2>8, StutteringPreserves
  <2> QED
    BY <2>1, <2>2, <2>3, <2>4, <2>5, <2>6, <2>7, <2>8 DEF Next
<1> QED
  BY <1>1, <1>2, PTL DEF Spec

\* Type correctness.
THEOREM TypeCorrect == Spec => []TypeOK
<1>1. IInv => TypeOK
  BY DEF IInv
<1> QED
  BY <1>1, Invariance, PTL

\* No snapshot that SaveAsync stores has an event twice, out of order, or
\* missing, or is ahead of the stream.
THEOREM SnapshotsAreFaithful == Spec => []SnapshotsFaithful
<1>1. IInv => SnapshotsFaithful
  BY DEF IInv
<1> QED
  BY <1>1, Invariance, PTL

\* Whatever branch LoadAsync takes, it returns the first Version events, up to
\* one the stream held when the load ended and none older than its beginning.
THEOREM LoadsAreFaithful == Spec => []LoadsFaithful
<1>1. IInv => LoadsFaithful
  <2> SUFFICES ASSUME IInv, NEW c \in Clients, pc[c] = "ready"
               PROVE  /\ IsFoldOfItsVersion(agg[c])
                      /\ PositionAfter(agg[c]) \in from[c]..stream
    BY DEF LoadsFaithful
  <2>1. /\ PositionAfter(agg[c]) \in Int
        /\ from[c] \in Int /\ stream \in Int
    BY ConstantsAssumption DEF IInv, TypeOK, PositionAfter, Aggregates
  <2> QED
    BY <2>1 DEF IInv, RequestInv
<1> QED
  BY <1>1, Invariance, PTL

\* The in-memory database never serves what MongoDB does not hold.
THEOREM MemoryIsBacked == Spec => []MemoryBacked
<1>1. IInv => MemoryBacked
  BY DEF IInv
<1> QED
  BY <1>1, Invariance, PTL

-----------------------------------------------------------------------------
(* Which save sees to which snapshot.                                       *)

\* A failed save has tried a snapshot, and what it left behind covers it.
CoveredInv(c) ==
    outcome[c] = "saveFailed" =>
        /\ pc[c] = "idle"
        /\ faults = 0 => /\ next[c] > 0
                         /\ \E s \in mongo : s.Version >= next[c]

\* The snapshot of an interval is stored, or a later one, or a save is at it.
SeenTo(m) ==
    \/ \E s \in mongo : s.Version >= m
    \/ \E c \in Clients : SeesToSnapshot(c) /\ next[c] >= m

\* An append that completes no interval leaves the last one as it was; one
\* that does sees to it until a snapshot is there.
CoverInv ==
    /\ \A c \in Clients : CoveredInv(c)
    /\ (AllowSnapshotting /\ faults = 0 /\ LastMultiple(stream) > 0)
       => SeenTo(LastMultiple(stream))

\* After a call has failed nothing is left to show but that requests end.
LEMMA FaultCovers ==
    ASSUME faults' \in Nat, faults' > 0,
           \A d \in Clients : outcome'[d] = "saveFailed" => pc'[d] = "idle"
    PROVE  CoverInv'
  BY DEF CoverInv, CoveredInv

\* A step of request c that appends nothing: what c was seeing to, it goes on
\* with, or there is a snapshot for it.
LEMMA StepCovers ==
    ASSUME IInv, CoverInv, NEW c \in Clients,
           stream' = stream, mongo \subseteq mongo', mongo' \subseteq Aggregates,
           faults' = faults,
           \A d \in Clients : d # c =>
              /\ pc'[d] = pc[d] /\ purpose'[d] = purpose[d]
              /\ next'[d] = next[d] /\ outcome'[d] = outcome[d],
           CoveredInv(c)',
           SeesToSnapshot(c) =>
              \/ SeesToSnapshot(c)' /\ next'[c] = next[c]
              \/ \E s \in mongo' : s.Version >= next[c]
    PROVE  CoverInv'
<1>1. \A d \in Clients : CoveredInv(d)'
  BY DEF CoverInv, CoveredInv
<1>2. ASSUME AllowSnapshotting, faults = 0, LastMultiple(stream) > 0
      PROVE  SeenTo(LastMultiple(stream))'
  <2> DEFINE m == LastMultiple(stream)
  <2>1. SeenTo(m)
    BY <1>2 DEF CoverInv
  <2>2. LastMultiple(stream)' = m /\ m \in Int
    BY ConstantsAssumption, LastMultipleIsMultiple DEF IInv, TypeOK, LastMultiple
  <2> HIDE DEF m
  <2>3. CASE \E s \in mongo : s.Version >= m
    BY <2>2, <2>3 DEF SeenTo
  <2>4. CASE \E d \in Clients : d # c /\ SeesToSnapshot(d) /\ next[d] >= m
    BY <2>2, <2>4 DEF SeenTo, SeesToSnapshot
  <2>5. CASE SeesToSnapshot(c) /\ next[c] >= m
    <3>1. next[c] \in Int /\ \A s \in mongo' : s.Version \in Int
      BY ConstantsAssumption DEF IInv, TypeOK, Aggregates
    <3> QED
      BY <2>2, <2>5, <3>1 DEF SeenTo
  <2> QED
    BY <2>1, <2>3, <2>4, <2>5 DEF SeenTo
<1>3. LastMultiple(stream)' = LastMultiple(stream)
  BY DEF LastMultiple
<1> QED
  BY <1>1, <1>2, <1>3 DEF CoverInv

\* A request that ends without a failed save, and has no snapshot to see to or
\* has found one.
LEMMA FinishCovers ==
    ASSUME IInv, CoverInv, NEW c \in Clients, NEW how \in Outcomes,
           Finish(c, how), stream' = stream, faults' = faults,
           mongo \subseteq mongo', mongo' \subseteq Aggregates,
           \A d \in Clients : d # c => next'[d] = next[d],
           how = "saveFailed" => next'[c] > 0 /\ \E s \in mongo' : s.Version >= next'[c],
           SeesToSnapshot(c) => \E s \in mongo' : s.Version >= next[c]
    PROVE  CoverInv'
<1>1. \A d \in Clients : d # c =>
         /\ pc'[d] = pc[d] /\ purpose'[d] = purpose[d]
         /\ next'[d] = next[d] /\ outcome'[d] = outcome[d]
  BY DEF Finish, FinishAll
<1>2. CoveredInv(c)'
  BY DEF CoveredInv, Finish, FinishAll
<1> QED
  BY <1>1, <1>2, StepCovers

\* A step between two awaits, or the return of a load: no request ends.
LEMMA AwaitCovers ==
    ASSUME IInv, CoverInv, NEW c \in Clients, pc[c] # "idle",
           UNCHANGED <<stream, faults, next, outcome>>,
           mongo \subseteq mongo', mongo' \subseteq Aggregates,
           \A d \in Clients : d # c => pc'[d] = pc[d] /\ purpose'[d] = purpose[d],
           SeesToSnapshot(c) => SeesToSnapshot(c)'
    PROVE  CoverInv'
<1>1. CoveredInv(c)'
  BY DEF CoverInv, CoveredInv
<1> QED
  BY <1>1, StepCovers

\* The steps of requests that see to no snapshot.
LEMMA BeginCovers ==
    ASSUME IInv, CoverInv, NEW c \in Clients,
           Construct(c) \/ LoadMissingStream(c) \/ LoadLatest(c)
    PROVE  CoverInv'
<1>1. TypeOK /\ ~SeesToSnapshot(c) /\ mongo \subseteq Aggregates
  BY DEF IInv, TypeOK, RequestInv, SeesToSnapshot,
     Construct, LoadMissingStream, LoadLatest
<1>2. stream' = stream /\ mongo' = mongo /\ faults' = faults
      /\ next' = [next EXCEPT ![c] = 0]
  BY DEF Construct, LoadMissingStream, LoadLatest, stores
<1>3. CASE outcome' = [outcome EXCEPT ![c] = "none"]
           /\ \A d \in Clients : d # c => pc'[d] = pc[d] /\ purpose'[d] = purpose[d]
  <2>1. CoveredInv(c)'
    BY <1>1, <1>3 DEF CoveredInv, TypeOK
  <2> QED
    BY <1>1, <1>2, <1>3, <2>1, StepCovers DEF TypeOK
<1>4. CASE LoadMissingStream(c)
  <2>1. Finish(c, "loadFailed") /\ "loadFailed" \in Outcomes
    BY <1>4 DEF LoadMissingStream, Outcomes
  <2> QED
    BY <1>1, <1>2, <2>1, FinishCovers DEF TypeOK
<1> QED
  BY <1>1, <1>3, <1>4 DEF Construct, LoadLatest, StartLookup, TypeOK

\* A request that ends without a save.
LEMMA EndWithoutChangesCovers ==
    ASSUME IInv, CoverInv, NEW c \in Clients, EndWithoutChanges(c)
    PROVE  CoverInv'
<1>1. /\ ~SeesToSnapshot(c) /\ mongo \subseteq Aggregates /\ "answered" \in Outcomes
      /\ Finish(c, "answered") /\ mongo' = mongo /\ stream' = stream
      /\ faults' = faults /\ next' = next
  BY DEF IInv, TypeOK, RequestInv, SeesToSnapshot, EndWithoutChanges, stores, Outcomes
<1> QED
  BY <1>1, FinishCovers

\* The save whose append completes an interval sees to it.
LEMMA AppendCovers ==
    ASSUME IInv, CoverInv, NEW c \in Clients, NEW k \in Batches, AppendToStream(c, k)
    PROVE  CoverInv'
<1>1. /\ TypeOK /\ RequestInv(c) /\ stream \in Nat /\ stream + k \in Nat
      /\ pc[c] = "ready" /\ purpose[c] = "none" /\ ~SeesToSnapshot(c)
      /\ stream' = stream + k /\ mongo' = mongo /\ faults' = faults
  BY ConstantsAssumption DEF IInv, TypeOK, RequestInv, SeesToSnapshot, AppendToStream
<1>2. LastMultiple(stream)' = LastMultiple(stream + k)
  BY <1>1 DEF LastMultiple
<1>3. CASE /\ CompletesInterval(agg[c], stream + k)
           /\ StartLookup(c, "old", NewAggregate)
           /\ next' = [next EXCEPT ![c] = LastMultiple(stream + k)]
           /\ outcome' = outcome
  <2>1. SeesToSnapshot(c)' /\ next'[c] = LastMultiple(stream + k)
    BY <1>1, <1>3 DEF StartLookup, SeesToSnapshot, TypeOK
  <2>2. SeenTo(LastMultiple(stream))'
    <3>1. LastMultiple(stream + k) \in Int
      BY <1>1, LastMultipleIsMultiple
    <3> QED
      BY <1>2, <2>1, <3>1 DEF SeenTo
  <2>3. \A d \in Clients : CoveredInv(d)'
    BY <1>1, <1>3 DEF CoverInv, CoveredInv, StartLookup, TypeOK
  <2> QED
    BY <2>2, <2>3 DEF CoverInv
<1>4. CASE /\ ~CompletesInterval(agg[c], stream + k)
           /\ Finish(c, "saved")
           /\ UNCHANGED next
  <2>1. \A d \in Clients : CoveredInv(d)'
    BY <1>1, <1>4 DEF CoverInv, CoveredInv, Finish, FinishAll
  <2>2. ASSUME AllowSnapshotting, faults = 0, LastMultiple(stream + k) > 0
        PROVE  SeenTo(LastMultiple(stream))'
    <3> DEFINE new == LastMultiple(stream + k)
               old == LastMultiple(stream)
    <3>1. PositionAfter(agg[c]) \in Nat /\ PositionAfter(agg[c]) <= stream
      BY <1>1 DEF TypeOK, RequestInv, Aggregates, PositionAfter
    <3>2. new \in Nat /\ old \in Nat /\ new <= stream + k
      BY <1>1, LastMultipleIsMultiple
    <3>3. new <= PositionAfter(agg[c])
      BY <1>4, <2>2, <3>1, <3>2 DEF CompletesInterval
    <3>4. new <= old
      BY <1>1, <3>1, <3>2, <3>3, LastMultipleMonotone
    <3> HIDE DEF new, old
    <3>5. SeenTo(old) /\ new > 0
      BY <2>2, <3>2, <3>4 DEF CoverInv, new, old
    <3>6. CASE \E s \in mongo : s.Version >= old
      <4>1. \A s \in mongo : s.Version \in Int
        BY <1>1 DEF TypeOK, Aggregates
      <4> QED
        BY <1>1, <1>2, <3>2, <3>4, <3>6, <4>1 DEF SeenTo, new
    <3>7. CASE \E d \in Clients : SeesToSnapshot(d) /\ next[d] >= old
      <4>1. PICK d \in Clients : SeesToSnapshot(d) /\ next[d] >= old
        BY <3>7
      <4>2. d # c /\ next[d] \in Int
        BY <1>1, <4>1, ConstantsAssumption DEF TypeOK
      <4>3. SeesToSnapshot(d)' /\ next'[d] = next[d]
        BY <1>4, <4>1, <4>2 DEF SeesToSnapshot, Finish, FinishAll
      <4>4. next'[d] >= new
        BY <3>2, <3>4, <4>1, <4>2, <4>3
      <4> QED
        BY <1>2, <4>3, <4>4 DEF SeenTo, new
    <3> QED
      BY <3>5, <3>6, <3>7 DEF SeenTo
  <2> QED
    BY <1>1, <1>2, <2>1, <2>2 DEF CoverInv
<1> QED
  BY <1>3, <1>4 DEF AppendToStream

\* A lookup that ends a save has found the snapshot it was for, or a later one.
LEMMA SnapshotFoundCovers ==
    ASSUME IInv, CoverInv, NEW c \in Clients, NEW snapshot \in memory \cup mongo,
           purpose[c] = "exists" => snapshot.Version = agg[c].Version,
           pc[c] \in {"memory", "mongo"},
           SnapshotFound(c, snapshot), UNCHANGED <<stores, faults>>
    PROVE  CoverInv'
<1>1. /\ TypeOK /\ RequestInv(c) /\ snapshot \in mongo
      /\ snapshot.Version \in Int /\ next[c] \in Int /\ mongo \subseteq Aggregates
      /\ {"saved", "saveFailed"} \subseteq Outcomes
      /\ stream' = stream /\ mongo' = mongo /\ faults' = faults
  BY ConstantsAssumption
     DEF IInv, TypeOK, MemoryBacked, Aggregates, Outcomes, stores
<1>2. CASE ReadForward(c, snapshot)
  BY <1>1, <1>2, AwaitCovers DEF ReadForward, SeesToSnapshot, TypeOK
<1>3. CASE purpose[c] = "load" /\ \E aggregate : Return(c, aggregate)
  BY <1>1, <1>3, AwaitCovers DEF Return, SeesToSnapshot, TypeOK
<1>4. ASSUME snapshot.Version >= next[c], next[c] > 0,
             NEW how \in {"saved", "saveFailed"}, Finish(c, how), next' = next
      PROVE  CoverInv'
  BY <1>1, <1>4, FinishCovers
<1>5. purpose[c] \in {"old", "exists"} =>
         /\ next[c] > 0
         /\ purpose[c] = "exists" => snapshot.Version = next[c]
  BY <1>1, ConstantsAssumption DEF TypeOK, RequestInv, FaithfulSnapshot
<1>6. CASE purpose[c] = "load" /\ LoadFromSnapshot(c, snapshot)
  BY <1>2, <1>3, <1>6 DEF LoadFromSnapshot
<1>7. CASE purpose[c] = "old" /\ ExtendSnapshot(c, snapshot)
  BY <1>1, <1>2, <1>4, <1>5, <1>7 DEF ExtendSnapshot
<1>8. CASE purpose[c] = "exists" /\ Finish(c, "saved") /\ UNCHANGED next
  BY <1>1, <1>4, <1>5, <1>8
<1> QED
  BY <1>6, <1>7, <1>8 DEF SnapshotFound

\* A lookup that finds nothing goes on.
LEMMA LookupCovers ==
    ASSUME IInv, CoverInv, NEW c \in Clients, LookupMemory(c) \/ LookupMongo(c)
    PROVE  CoverInv'
<1>1. /\ TypeOK /\ pc[c] \in {"memory", "mongo"} /\ mongo \subseteq Aggregates
      /\ UNCHANGED <<stores, faults>>
  BY DEF IInv, TypeOK, LookupMemory, LookupMongo
<1>2. CASE \E s \in Newest(Matching(c, memory)) \cup Newest(Matching(c, mongo)) :
              SnapshotFound(c, s)
  BY <1>1, <1>2, SnapshotFoundCovers DEF Newest, Matching
<1>3. CASE /\ \E call \in {"mongo", "insertMongo"} : pc' = [pc EXCEPT ![c] = call]
           /\ UNCHANGED <<purpose, agg, latest, next, from, outcome>>
  BY <1>1, <1>3, AwaitCovers DEF TypeOK, stores, SeesToSnapshot
<1>4. CASE ReadForward(c, NewAggregate)
  BY <1>1, <1>4, AwaitCovers DEF ReadForward, TypeOK, stores, SeesToSnapshot
<1> QED
  BY <1>2, <1>3, <1>4 DEF LookupMemory, LookupMongo, SnapshotMissing

\* A forward read for a snapshot leads to the lookup of its version.
LEMMA ForwardReadCovers ==
    ASSUME IInv, CoverInv, NEW c \in Clients, ForwardRead(c)
    PROVE  CoverInv'
<1>1. /\ TypeOK /\ pc[c] = "forward" /\ mongo \subseteq Aggregates
      /\ stream' = stream /\ mongo' = mongo /\ faults' = faults
      /\ next' = next /\ outcome' = outcome
  BY DEF IInv, TypeOK, ForwardRead, Return, stores
<1>2. \A d \in Clients : d # c => pc'[d] = pc[d] /\ purpose'[d] = purpose[d]
  BY <1>1 DEF ForwardRead, Return, StartLookup, TypeOK
<1>3. SeesToSnapshot(c) => SeesToSnapshot(c)'
  BY <1>1 DEF ForwardRead, StartLookup, SeesToSnapshot, TypeOK
<1> QED
  BY <1>1, <1>2, <1>3, AwaitCovers

\* What is inserted is the snapshot the save has set out to take.
LEMMA InsertCovers ==
    ASSUME IInv, CoverInv, NEW c \in Clients, InsertMongo(c) \/ InsertMemory(c)
    PROVE  CoverInv'
<1>1. /\ TypeOK /\ RequestInv(c) /\ agg[c] \in Aggregates
      /\ pc[c] \in {"insertMongo", "insertMemory"}
      /\ stream' = stream /\ faults' = faults /\ next' = next
      /\ {"saved", "saveFailed"} \subseteq Outcomes
  BY DEF IInv, TypeOK, InsertMongo, InsertMemory, Outcomes
<1>2. /\ purpose[c] = "exists" /\ agg[c].Version = next[c]
      /\ next[c] \in 1..stream /\ stream \in Nat
  BY <1>1, ConstantsAssumption DEF RequestInv, FaithfulSnapshot, TypeOK
<1>3. mongo \subseteq mongo' /\ mongo' \subseteq Aggregates /\ agg[c] \in mongo'
  BY <1>1 DEF RequestInv, TypeOK, InsertMongo, InsertMemory
<1>4. CASE \E how \in {"saved", "saveFailed"} : Finish(c, how)
  BY <1>1, <1>2, <1>3, <1>4, FinishCovers
<1>5. CASE /\ pc' = [pc EXCEPT ![c] = "insertMemory"]
           /\ UNCHANGED <<purpose, agg, latest, from, outcome>>
  BY <1>1, <1>3, <1>5, AwaitCovers DEF TypeOK, SeesToSnapshot
<1> QED
  BY <1>4, <1>5 DEF InsertMongo, InsertMemory

\* A failure of the servers or of the process.
LEMMA FailureCovers ==
    ASSUME IInv, CoverInv,
           Restart \/ \E c \in Clients : CallFails(c) \/ ReplyLost(c)
    PROVE  CoverInv'
<1>1. faults' \in Nat /\ faults' > 0
  BY ConstantsAssumption DEF IInv, TypeOK, Restart, CallFails, ReplyLost
<1>2. \A d \in Clients : outcome'[d] = "saveFailed" => pc'[d] = "idle"
  BY DEF CoverInv, CoveredInv, Restart, CallFails, ReplyLost, Finish, FinishAll
<1> QED
  BY <1>1, <1>2, FaultCovers

\* CoverInv is inductive, given IInv: until a call fails, the last interval
\* the stream has completed is stored, or a save is at it.
THEOREM SnapshotsAreSeenTo == Spec => []CoverInv
<1>1. Init => CoverInv
  <2> SUFFICES ASSUME Init PROVE CoverInv
    OBVIOUS
  <2>1. LastMultiple(0) = 0
    BY LastMultipleIsMultiple
  <2> QED
    BY <2>1 DEF Init, CoverInv, CoveredInv
<1>2. IInv /\ CoverInv /\ [Next]_vars => CoverInv'
  <2> SUFFICES ASSUME IInv, CoverInv, [Next]_vars
               PROVE  CoverInv'
    OBVIOUS
  <2>1. ASSUME NEW c \in Clients,
               Construct(c) \/ LoadMissingStream(c) \/ LoadLatest(c)
        PROVE  CoverInv'
    BY <2>1, BeginCovers
  <2>2. ASSUME NEW c \in Clients, Continue(c)
        PROVE  CoverInv'
    BY <2>2, AppendCovers, EndWithoutChangesCovers, LookupCovers,
       ForwardReadCovers, InsertCovers DEF Continue
  <2>3. CASE Restart \/ \E c \in Clients : CallFails(c) \/ ReplyLost(c)
    BY <2>3, FailureCovers
  <2>4. CASE UNCHANGED vars
    BY <2>4 DEF vars, CoverInv, CoveredInv, SeenTo, SeesToSnapshot, LastMultiple
  <2> QED
    BY <2>1, <2>2, <2>3, <2>4 DEF Next
<1> QED
  BY <1>1, <1>2, Invariance, PTL DEF Spec

\* Without a failed call, the last completed interval has its snapshot, or a
\* later one, whenever no save is under way.
THEOREM SettledSnapshots == Spec => []SettledSnapshotIsLatest
<1>1. IInv /\ CoverInv => SettledSnapshotIsLatest
  <2> SUFFICES ASSUME IInv, CoverInv, AllowSnapshotting, faults = 0,
                      stream >= TakeSnapshotAfterEventsCount,
                      \A c \in Clients : ~SeesToSnapshot(c)
               PROVE  \E s \in mongo : s.Version >= LastMultiple(stream)
    BY DEF SettledSnapshotIsLatest
  <2>1. stream \in Nat
    BY ConstantsAssumption DEF IInv, TypeOK
  <2>2. stream % TakeSnapshotAfterEventsCount < TakeSnapshotAfterEventsCount
        /\ stream % TakeSnapshotAfterEventsCount \in Int
    BY <2>1, IntervalAssumption, LastMultipleIsMultiple
  <2>3. LastMultiple(stream) > 0
    BY <2>1, <2>2, IntervalAssumption DEF LastMultiple
  <2> QED
    BY <2>3 DEF CoverInv, SeenTo
<1> QED
  BY <1>1, Invariance, SnapshotsAreSeenTo, PTL

\* A save that fails with every server up has left the snapshot it was to
\* take, or a later one, behind: nothing is missing.
THEOREM FailedSavesAreCovered == Spec => []FailedSaveIsCovered
<1>1. CoverInv => FailedSaveIsCovered
  <2> SUFFICES ASSUME CoverInv, NEW c \in Clients,
                      outcome[c] = "saveFailed", faults = 0
               PROVE  next[c] # 0 /\ \E s \in mongo : s.Version >= next[c]
    BY DEF FailedSaveIsCovered
  <2> QED
    BY SMT DEF CoverInv, CoveredInv
<1> QED
  BY <1>1, SnapshotsAreSeenTo, PTL

-----------------------------------------------------------------------------
(* The refinement: every step of the repository is a step of AggregateStore *)
(* on the mapped state, or is not seen there.                               *)

\* A step between the awaits of a load or of a save shows nothing.
LEMMA Unseen ==
    ASSUME stream' = stream, from' = from,
           \A d \in Clients : PhaseOf(d)' = PhaseOf(d) /\ AppliedOf(d)' = AppliedOf(d)
    PROVE  UNCHANGED Abstract!vars
  BY DEF Abstract!vars

\* The phase of a request is a matter of its own pc and purpose.
LEMMA OtherUnseen ==
    ASSUME NEW d \in Clients,
           pc'[d] = pc[d], purpose'[d] = purpose[d], agg'[d] = agg[d]
    PROVE  PhaseOf(d)' = PhaseOf(d) /\ AppliedOf(d)' = AppliedOf(d)
  BY DEF PhaseOf, AppliedOf

\* The requests that end are forgotten.
LEMMA FinishForgets ==
    ASSUME TypeOK, NEW R, NEW how \in Outcomes, FinishAll(R, how)
    PROVE  Abstract!Forget(R)
<1>1. \A d \in Clients : PhaseOf(d)' = IF d \in R THEN "none" ELSE PhaseOf(d)
  BY RequestsOver DEF PhaseOf
<1>2. \A d \in Clients : AppliedOf(d)' = IF d \in R THEN <<>> ELSE AppliedOf(d)
  BY RequestsOver DEF AppliedOf
<1>3. from' = [d \in Clients |-> IF d \in R THEN 0 ELSE from[d]]
  BY DEF FinishAll
<1> QED
  BY <1>1, <1>2, <1>3 DEF Abstract!Forget

\* What a load has returned is what the store promises of it.
LEMMA ReadyHasFirstEvents ==
    ASSUME IInv', NEW c \in Clients, pc'[c] = "ready"
    PROVE  /\ PositionAfter(agg[c])' \in from'[c]..stream'
           /\ AppliedOf(c)' = Abstract!FirstEvents(PositionAfter(agg[c])')
<1>1. /\ PositionAfter(agg[c])' \in Int /\ from'[c] \in Int /\ stream' \in Int
      /\ RequestInv(c)'
  BY ConstantsAssumption DEF IInv, TypeOK, PositionAfter, Aggregates
<1>2. AppliedOf(c)' = EventsBetween(0, PositionAfter(agg[c])')
  BY <1>1 DEF AppliedOf, RequestInv, IsFoldOfItsVersion, EventsBetween
<1> QED
  BY <1>1, <1>2 DEF RequestInv, EventsBetween, Abstract!FirstEvents

\* A request that ends without writing to the stream.
LEMMA FinishRefines ==
    ASSUME TypeOK, NEW c \in Clients, NEW how \in Outcomes, Finish(c, how),
           stream' = stream
    PROVE  Abstract!End({c})
  BY FinishForgets DEF Finish, Abstract!End

\* A step from one await of a load, or of a save, to its next.
LEMMA AwaitRefines ==
    ASSUME NEW c \in Clients, stream' = stream, from' = from,
           pc[c] \notin {"idle", "ready"}, pc'[c] \notin {"idle", "ready"},
           purpose'[c] = "load" <=> purpose[c] = "load",
           \A d \in Clients : d # c =>
              pc'[d] = pc[d] /\ purpose'[d] = purpose[d] /\ agg'[d] = agg[d]
    PROVE  UNCHANGED Abstract!vars
<1>1. PhaseOf(c)' = PhaseOf(c) /\ AppliedOf(c)' = AppliedOf(c)
  BY DEF PhaseOf, AppliedOf
<1> QED
  BY <1>1, OtherUnseen, Unseen

\* A request that constructs its aggregate has one without events.
LEMMA ConstructRefines ==
    ASSUME IInv, NEW c \in Clients, Construct(c)
    PROVE  Abstract!Construct(c)
<1>1. TypeOK /\ RequestInv(c)
  BY DEF IInv
<1>2. PhaseOf(c) = "none" /\ PhaseOf(c)' = "loaded" /\ AppliedOf(c)' = AppliedOf(c)
  BY <1>1 DEF Construct, TypeOK, RequestInv, PhaseOf, AppliedOf, NewAggregate
<1>3. \A d \in Clients : d # c => PhaseOf(d)' = PhaseOf(d) /\ AppliedOf(d)' = AppliedOf(d)
  BY <1>1, OtherUnseen DEF Construct, TypeOK
<1>4. stream' = stream /\ from' = from
  BY DEF Construct, stores
<1> QED
  BY <1>2, <1>3, <1>4 DEF Abstract!Construct

\* LoadAsync returns: the load ends, whichever snapshot it started from.
LEMMA ReturnRefines ==
    ASSUME IInv, IInv', NEW c \in Clients, NEW aggregate,
           pc[c] \notin {"idle", "ready"}, purpose[c] = "load",
           Return(c, aggregate), stream' = stream
    PROVE  Abstract!EndLoad(c)
<1>1. TypeOK
  BY DEF IInv
<1>2. PhaseOf(c) = "loading" /\ PhaseOf(c)' = "loaded" /\ pc'[c] = "ready"
  BY <1>1 DEF Return, TypeOK, PhaseOf
<1>3. \A d \in Clients : d # c => PhaseOf(d)' = PhaseOf(d) /\ AppliedOf(d)' = AppliedOf(d)
  BY <1>1, OtherUnseen DEF Return, TypeOK
<1>4. from' = from
  BY DEF Return
<1>5. \E v \in from[c]..stream : AppliedOf(c)' = Abstract!FirstEvents(v)
  BY <1>2, <1>4, ReadyHasFirstEvents
<1> QED
  BY <1>2, <1>3, <1>4, <1>5 DEF Abstract!EndLoad

\* The first read of a load: it ends there with all the stream holds, or the
\* events it may return are counted from there.
LEMMA LoadLatestRefines ==
    ASSUME IInv, IInv', NEW c \in Clients, LoadLatest(c)
    PROVE  Abstract!BeginLoad(c) \/ Abstract!LoadAtOnce(c)
<1>1. TypeOK /\ pc[c] = "idle" /\ PhaseOf(c) = "none" /\ stream > 0 /\ stream' = stream
      /\ from' = [from EXCEPT ![c] = stream]
  BY DEF IInv, LoadLatest, PhaseOf, stores
<1>2. \A d \in Clients : d # c => PhaseOf(d)' = PhaseOf(d) /\ AppliedOf(d)' = AppliedOf(d)
  BY <1>1, OtherUnseen DEF LoadLatest, StartLookup, TypeOK
<1>3. CASE StartLookup(c, "load", NewAggregate)
  <2>1. PhaseOf(c)' = "loading" /\ AppliedOf(c)' = AppliedOf(c)
    BY <1>1, <1>3 DEF StartLookup, TypeOK, PhaseOf, AppliedOf
  <2> QED
    BY <1>1, <1>2, <2>1 DEF Abstract!BeginLoad
<1>4. CASE pc' = [pc EXCEPT ![c] = "ready"]
  <2>1. pc'[c] = "ready" /\ PhaseOf(c)' = "loaded"
    BY <1>1, <1>4 DEF TypeOK, PhaseOf
  <2>2. AppliedOf(c)' = Abstract!FirstEvents(stream)
    <3>1. from'[c] = stream /\ stream \in Int
      BY <1>1, ConstantsAssumption DEF TypeOK
    <3>2. PositionAfter(agg[c])' = stream
      <4>1. PositionAfter(agg[c])' \in stream..stream
        BY <1>1, <2>1, <3>1, ReadyHasFirstEvents
      <4> QED
        BY <3>1, <4>1
    <3> QED
      BY <2>1, <3>2, ReadyHasFirstEvents
  <2> QED
    BY <1>1, <1>2, <2>1, <2>2 DEF Abstract!LoadAtOnce
<1> QED
  BY <1>3, <1>4 DEF LoadLatest

\* An append is a save to the store, and what it does for a snapshot is left.
LEMMA AppendToStreamRefines ==
    ASSUME IInv, NEW c \in Clients, NEW k \in Batches, AppendToStream(c, k)
    PROVE  Abstract!Commit(c)
<1>1. /\ TypeOK /\ RequestInv(c) /\ PhaseOf(c) = "loaded"
      /\ stream + k <= MaxEvents /\ stream' = stream + k
  BY DEF IInv, AppendToStream, PhaseOf
<1>2. CASE /\ StartLookup(c, "old", NewAggregate)
           /\ from' = [from EXCEPT ![c] = 0]
  <2>1. PhaseOf(c)' = "saving" /\ AppliedOf(c)' = <<>>
    BY <1>1, <1>2 DEF StartLookup, TypeOK, PhaseOf, AppliedOf
  <2>2. \A d \in Clients : d # c => PhaseOf(d)' = PhaseOf(d) /\ AppliedOf(d)' = AppliedOf(d)
    BY <1>1, <1>2, OtherUnseen DEF StartLookup, TypeOK
  <2> QED
    BY <1>1, <1>2, <2>1, <2>2 DEF Abstract!Commit
<1>3. CASE Finish(c, "saved")
  <2>1. Abstract!Forget({c})
    BY <1>1, <1>3, FinishForgets DEF Finish, Outcomes
  <2> QED
    BY <1>1, <2>1 DEF Abstract!Commit
<1> QED
  BY <1>2, <1>3 DEF AppendToStream

\* What a snapshot found means: a load or a save ends, or more is read.
LEMMA SnapshotFoundRefines ==
    ASSUME IInv, IInv', NEW c \in Clients, NEW snapshot,
           pc[c] \in {"memory", "mongo"},
           SnapshotFound(c, snapshot), stream' = stream
    PROVE  Abstract!EndLoad(c) \/ Abstract!End({c}) \/ UNCHANGED Abstract!vars
<1>1. TypeOK /\ {"saved", "saveFailed"} \subseteq Outcomes
  BY DEF IInv, Outcomes
<1>2. CASE \E aggregate : purpose[c] = "load" /\ Return(c, aggregate)
  BY <1>2, ReturnRefines
<1>3. CASE \E how \in {"saved", "saveFailed"} : Finish(c, how)
  BY <1>1, <1>3, FinishRefines
<1>4. CASE ReadForward(c, snapshot)
  BY <1>1, <1>4, AwaitRefines DEF ReadForward, TypeOK
<1> QED
  BY <1>2, <1>3, <1>4 DEF SnapshotFound, LoadFromSnapshot, ExtendSnapshot

\* A lookup ends a load, ends a save, or is not seen.
LEMMA LookupRefines ==
    ASSUME IInv, IInv', NEW c \in Clients, LookupMemory(c) \/ LookupMongo(c)
    PROVE  Abstract!EndLoad(c) \/ Abstract!End({c}) \/ UNCHANGED Abstract!vars
<1>1. TypeOK /\ stream' = stream /\ pc[c] \in {"memory", "mongo"}
  BY DEF IInv, LookupMemory, LookupMongo, stores
<1>2. CASE \E s : SnapshotFound(c, s)
  BY <1>1, <1>2, SnapshotFoundRefines
<1>3. CASE /\ \E call \in {"mongo", "insertMongo"} : pc' = [pc EXCEPT ![c] = call]
           /\ UNCHANGED <<purpose, agg, latest, next, from, outcome>>
  BY <1>1, <1>3, AwaitRefines DEF TypeOK
<1>4. CASE ReadForward(c, NewAggregate)
  BY <1>1, <1>4, AwaitRefines DEF ReadForward, TypeOK
<1> QED
  BY <1>2, <1>3, <1>4 DEF LookupMemory, LookupMongo, SnapshotMissing

\* A forward read ends a load; for a snapshot it is not seen.
LEMMA ForwardReadRefines ==
    ASSUME IInv, IInv', NEW c \in Clients, ForwardRead(c)
    PROVE  Abstract!EndLoad(c) \/ UNCHANGED Abstract!vars
<1>1. TypeOK /\ stream' = stream /\ pc[c] = "forward"
  BY DEF IInv, ForwardRead, stores
<1>2. CASE \E aggregate : purpose[c] = "load" /\ Return(c, aggregate)
  BY <1>1, <1>2, ReturnRefines
<1>3. CASE /\ purpose[c] = "old"
           /\ \E aggregate : StartLookup(c, "exists", aggregate)
           /\ UNCHANGED from
  BY <1>1, <1>3, AwaitRefines DEF StartLookup, TypeOK
<1> QED
  BY <1>2, <1>3 DEF ForwardRead

\* What the insertion of a snapshot shows is the end of the save, at most.
LEMMA InsertRefines ==
    ASSUME IInv, NEW c \in Clients, InsertMongo(c) \/ InsertMemory(c)
    PROVE  Abstract!End({c}) \/ UNCHANGED Abstract!vars
<1>1. TypeOK /\ stream' = stream /\ {"saved", "saveFailed"} \subseteq Outcomes
  BY DEF IInv, InsertMongo, InsertMemory, Outcomes
<1>2. CASE \E how \in {"saved", "saveFailed"} : Finish(c, how)
  BY <1>1, <1>2, FinishRefines
<1>3. CASE /\ pc[c] = "insertMongo" /\ pc' = [pc EXCEPT ![c] = "insertMemory"]
           /\ UNCHANGED <<purpose, agg, latest, from, outcome>>
  BY <1>1, <1>3, AwaitRefines DEF TypeOK
<1> QED
  BY <1>2, <1>3 DEF InsertMongo, InsertMemory

\* A call that throws ends the request; the append may be there all the same.
LEMMA FaultRefines ==
    ASSUME IInv, NEW c \in Clients, CallFails(c) \/ ReplyLost(c)
    PROVE  Abstract!End({c}) \/ Abstract!Commit(c)
<1>1. TypeOK /\ {"loadFailed", "saveFailed"} \subseteq Outcomes
  BY DEF IInv, Outcomes
<1>2. PICK how \in Outcomes : Finish(c, how)
  BY <1>1 DEF CallFails, ReplyLost
<1>3. CASE stream' = stream
  BY <1>1, <1>2, <1>3, FinishRefines
<1>4. CASE /\ pc[c] = "ready"
           /\ \E k \in Batches : stream + k <= MaxEvents /\ stream' = stream + k
  <2>1. Abstract!Forget({c}) /\ PhaseOf(c) = "loaded"
    BY <1>1, <1>2, <1>4, FinishForgets DEF Finish, PhaseOf
  <2> QED
    BY <1>4, <2>1 DEF Abstract!Commit
<1> QED
  BY <1>3, <1>4 DEF CallFails, ReplyLost, stores

\* The repository implements the store without snapshots: whatever the
\* interval, the slices, the two databases, the failed calls and restarts, a
\* handler cannot tell EventStoreAggregateRepository from a stream whose loads
\* return its first v events, v no less than its length when the load began.
\* ReadyHasFirstEvents needs IInv of the next state, so the step is proved of
\* two states that both satisfy it.
THEOREM RepositoryImplementsStore == Spec => ImplementsAggregateStore
<1>1. Init => Abstract!Init
  BY DEF Init, Abstract!Init, PhaseOf, AppliedOf
<1>2. IInv /\ IInv' /\ [Next]_vars => [Abstract!Next]_(Abstract!vars)
  <2> SUFFICES ASSUME IInv, IInv', [Next]_vars
               PROVE  Abstract!Next \/ UNCHANGED Abstract!vars
    OBVIOUS
  <2> USE DEF Abstract!Next
  <2>1. ASSUME NEW c \in Clients, Construct(c)
        PROVE  Abstract!Next
    BY <2>1, ConstructRefines
  <2>2. ASSUME NEW c \in Clients, LoadMissingStream(c)
        PROVE  Abstract!Next
    <3>1. Abstract!End({c})
      BY <2>2, FinishRefines DEF IInv, LoadMissingStream, stores, Outcomes
    <3> QED
      BY <3>1
  <2>3. ASSUME NEW c \in Clients, LoadLatest(c)
        PROVE  Abstract!Next
    BY <2>3, LoadLatestRefines
  <2>4. ASSUME NEW c \in Clients, Continue(c)
        PROVE  Abstract!Next \/ UNCHANGED Abstract!vars
    <3>1. ASSUME NEW k \in Batches, AppendToStream(c, k)
          PROVE  Abstract!Next
      BY <3>1, AppendToStreamRefines
    <3>2. CASE EndWithoutChanges(c)
      <4>1. Abstract!End({c})
        BY <3>2, FinishRefines DEF IInv, EndWithoutChanges, stores, Outcomes
      <4> QED
        BY <4>1
    <3>3. CASE LookupMemory(c) \/ LookupMongo(c)
      BY <3>3, LookupRefines
    <3>4. CASE ForwardRead(c)
      BY <3>4, ForwardReadRefines
    <3>5. CASE InsertMongo(c) \/ InsertMemory(c)
      BY <3>5, InsertRefines
    <3> QED
      BY <2>4, <3>1, <3>2, <3>3, <3>4, <3>5 DEF Continue
  <2>5. ASSUME NEW c \in Clients, CallFails(c) \/ ReplyLost(c)
        PROVE  Abstract!Next
    BY <2>5, FaultRefines
  <2>6. CASE Restart
    <3>1. Abstract!End(Clients)
      BY <2>6, FinishForgets DEF IInv, Restart, Outcomes, Abstract!End
    <3> QED
      BY <3>1
  <2>7. CASE UNCHANGED vars
    BY <2>7, OtherUnseen, Unseen DEF vars
  <2> QED
    BY <2>1, <2>2, <2>3, <2>4, <2>5, <2>6, <2>7 DEF Next
<1> QED
  BY <1>1, <1>2, Invariance, PTL DEF Spec, ImplementsAggregateStore, Abstract!Spec

-----------------------------------------------------------------------------
(* Requests come to an end.                                                 *)

\* A call that is awaited leaves fewer to await.
LEMMA ContinueGetsOn ==
    ASSUME IInv, NEW c \in Clients, Continue(c)
    PROVE  StepsLeft(c)' < StepsLeft(c)
<1>1. /\ pc \in [Clients -> Locations] /\ purpose \in [Clients -> Purposes]
      /\ pc[c] \in Locations /\ purpose[c] \in Purposes
  BY DEF IInv, TypeOK
<1> USE DEF StepsLeft, Remaining, Later, Locations, Purposes
<1>2. ASSUME NEW how, Finish(c, how), pc[c] # "idle"
      PROVE  StepsLeft(c)' < StepsLeft(c)
  <2>1. pc'[c] = "idle" /\ purpose'[c] = "none"
    BY <1>2 DEF Finish, FinishAll
  <2> QED
    BY <1>1, <1>2, <2>1
<1>3. ASSUME NEW aggregate, Return(c, aggregate), purpose[c] = "load",
             pc[c] \in {"memory", "mongo", "forward"}
      PROVE  StepsLeft(c)' < StepsLeft(c)
  <2>1. pc'[c] = "ready" /\ purpose'[c] = "none"
    BY <1>1, <1>3 DEF Return
  <2> QED
    BY <1>3, <2>1
<1>4. ASSUME NEW why \in Purposes, NEW aggregate, StartLookup(c, why, aggregate)
      PROVE  pc'[c] \in {"memory", "mongo"} /\ purpose'[c] = why
  BY <1>1, <1>4 DEF StartLookup
<1>5. ASSUME NEW aggregate, ReadForward(c, aggregate), pc[c] \in {"memory", "mongo"}
      PROVE  StepsLeft(c)' < StepsLeft(c)
  <2>1. pc'[c] = "forward" /\ purpose'[c] = purpose[c]
    BY <1>1, <1>5 DEF ReadForward
  <2> QED
    BY <1>1, <1>5, <2>1
<1>6. ASSUME NEW k \in Batches, AppendToStream(c, k)
      PROVE  StepsLeft(c)' < StepsLeft(c)
  <2>1. pc[c] = "ready"
    BY <1>6 DEF AppendToStream
  <2>2. CASE Finish(c, "saved")
    BY <1>2, <2>1, <2>2
  <2>3. CASE StartLookup(c, "old", NewAggregate)
    BY <1>1, <1>4, <2>1, <2>3
  <2> QED
    BY <1>6, <2>2, <2>3 DEF AppendToStream
<1>7. CASE EndWithoutChanges(c)
  BY <1>2, <1>7 DEF EndWithoutChanges
<1>8. ASSUME NEW s, SnapshotFound(c, s), pc[c] \in {"memory", "mongo"}
      PROVE  StepsLeft(c)' < StepsLeft(c)
  <2>1. CASE purpose[c] = "load" /\ LoadFromSnapshot(c, s)
    BY <1>3, <1>5, <1>8, <2>1 DEF LoadFromSnapshot
  <2>2. CASE purpose[c] = "old" /\ ExtendSnapshot(c, s)
    BY <1>2, <1>5, <1>8, <2>2 DEF ExtendSnapshot
  <2>3. CASE purpose[c] = "exists" /\ Finish(c, "saved")
    BY <1>2, <1>8, <2>3
  <2> QED
    BY <1>8, <2>1, <2>2, <2>3 DEF SnapshotFound
<1>9. CASE LookupMemory(c)
  <2>1. CASE pc' = [pc EXCEPT ![c] = "mongo"] /\ purpose' = purpose
    BY <1>1, <1>9, <2>1 DEF LookupMemory
  <2> QED
    BY <1>8, <1>9, <2>1 DEF LookupMemory
<1>10. CASE LookupMongo(c)
  <2>1. CASE SnapshotMissing(c)
    <3>1. CASE ReadForward(c, NewAggregate)
      BY <1>5, <1>10, <3>1 DEF LookupMongo
    <3>2. CASE pc' = [pc EXCEPT ![c] = "insertMongo"] /\ purpose' = purpose
      BY <1>1, <1>10, <3>2 DEF LookupMongo
    <3> QED
      BY <2>1, <3>1, <3>2 DEF SnapshotMissing
  <2> QED
    BY <1>8, <1>10, <2>1 DEF LookupMongo
<1>11. CASE ForwardRead(c)
  <2> DEFINE aggregate == LoadAggregate(agg[c], Unread(c))
  <2>1. /\ pc[c] = "forward"
        /\ \/ purpose[c] = "load" /\ Return(c, aggregate)
           \/ purpose[c] = "old" /\ StartLookup(c, "exists", aggregate)
    BY <1>11 DEF ForwardRead
  <2> HIDE DEF aggregate
  <2>2. CASE purpose[c] = "load" /\ Return(c, aggregate)
    BY <1>3, <2>1, <2>2
  <2>3. CASE purpose[c] = "old" /\ StartLookup(c, "exists", aggregate)
    BY <1>4, <2>1, <2>3
  <2> QED
    BY <2>1, <2>2, <2>3
<1>12. CASE InsertMongo(c)
  <2>1. CASE pc' = [pc EXCEPT ![c] = "insertMemory"] /\ purpose' = purpose
    BY <1>1, <1>12, <2>1 DEF InsertMongo
  <2> QED
    BY <1>2, <1>12, <2>1 DEF InsertMongo
<1>13. CASE InsertMemory(c)
  BY <1>2, <1>13 DEF InsertMemory
<1> QED
  BY <1>6, <1>7, <1>9, <1>10, <1>11, <1>12, <1>13 DEF Continue

\* Nothing else makes the way of a request longer: it does not touch it, or
\* ends it.
LEMMA NothingSetsBack ==
    ASSUME IInv, IInv', [Next]_vars, NEW c \in Clients, pc[c] # "idle"
    PROVE  StepsLeft(c)' <= StepsLeft(c)
<1>1. /\ pc \in [Clients -> Locations] /\ purpose \in [Clients -> Purposes]
      /\ pc[c] \in Locations /\ purpose[c] \in Purposes
  BY DEF IInv, TypeOK
<1>2. StepsLeft(c) \in Nat
  BY <1>1 DEF StepsLeft, Remaining, Later, Locations, Purposes
<1>3. ASSUME pc'[c] = pc[c], purpose'[c] = purpose[c]
      PROVE  StepsLeft(c)' <= StepsLeft(c)
  BY <1>2, <1>3 DEF StepsLeft
<1>4. ASSUME NEW R, NEW how, FinishAll(R, how)
      PROVE  StepsLeft(c)' <= StepsLeft(c)
  <2>1. CASE c \in R
    <3>1. pc'[c] = "idle" /\ purpose'[c] = "none"
      BY <1>4, <2>1 DEF FinishAll
    <3> QED
      BY <1>2, <3>1 DEF StepsLeft, Remaining, Later
  <2>2. CASE c \notin R
    BY <1>3, <1>4, <2>2 DEF FinishAll
  <2> QED
    BY <2>1, <2>2
<1>5. ASSUME NEW d \in Clients, Construct(d) \/ LoadMissingStream(d) \/ LoadLatest(d)
      PROVE  StepsLeft(c)' <= StepsLeft(c)
  <2>1. c # d
    BY <1>5 DEF Construct, LoadMissingStream, LoadLatest
  <2>2. pc'[c] = pc[c] /\ purpose'[c] = purpose[c]
    BY <1>1, <1>5, <2>1
    DEF Construct, LoadMissingStream, LoadLatest, Finish, FinishAll, StartLookup
  <2> QED
    BY <1>3, <2>2
<1>6. ASSUME NEW d \in Clients, Continue(d)
      PROVE  StepsLeft(c)' <= StepsLeft(c)
  <2>1. CASE c = d
    <3>1. StepsLeft(c)' < StepsLeft(c)
      BY <1>6, <2>1, ContinueGetsOn
    <3>2. pc'[c] \in Locations /\ purpose'[c] \in Purposes
      BY DEF IInv, TypeOK
    <3>3. StepsLeft(c)' \in Nat
      BY <3>2 DEF StepsLeft, Remaining, Later, Locations, Purposes
    <3> QED
      BY <1>2, <3>1, <3>3
  <2>2. CASE c # d
    <3>1. pc'[c] = pc[c] /\ purpose'[c] = purpose[c]
      BY <1>1, <1>6, <2>2
      DEF Continue, AppendToStream, EndWithoutChanges, LookupMemory, LookupMongo,
          ForwardRead, InsertMongo, InsertMemory, SnapshotFound, SnapshotMissing,
          LoadFromSnapshot, ExtendSnapshot, Finish, FinishAll, StartLookup, Return,
          ReadForward
    <3> QED
      BY <1>3, <3>1
  <2> QED
    BY <2>1, <2>2
<1>7. ASSUME NEW d \in Clients, CallFails(d) \/ ReplyLost(d)
      PROVE  StepsLeft(c)' <= StepsLeft(c)
  BY <1>4, <1>7 DEF CallFails, ReplyLost, Finish
<1>8. CASE Restart
  BY <1>4, <1>8 DEF Restart
<1>9. CASE UNCHANGED vars
  BY <1>3, <1>9 DEF vars
<1> QED
  BY <1>5, <1>6, <1>7, <1>8, <1>9 DEF Next

\* A request ends after a dozen calls at most, whatever overtakes it.
THEOREM EveryRequestGetsOn == Spec => RequestsGetOn
<1>1. IInv /\ IInv' /\ [Next]_vars =>
          [ \A c \in Clients :
              /\ Continue(c) => StepsLeft(c)' < StepsLeft(c)
              /\ pc[c] # "idle" => StepsLeft(c)' <= StepsLeft(c) ]_vars
  BY ContinueGetsOn, NothingSetsBack
<1> QED
  BY <1>1, Invariance, PTL DEF Spec, RequestsGetOn
=============================================================================
