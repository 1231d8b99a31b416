--------------------------- MODULE ExercisesProofs ---------------------------
(***************************************************************************)
(* The concurrency assignment for any number of goroutines, rounds, words  *)
(* and tasks, any capacity and any timeout: what each program has received,*)
(* counted or summed up when it returns, in every schedule.                *)
(***************************************************************************)
EXTENDS Exercises, FiniteSetTheorems, TLAPS

\* What the goroutines of a kind have sent, or the rounds they have begun.
Sent(kind) == {x \in kind \X (1..Items) : left[x[1]] < x[2]}

\* The goroutines of one program never run in another.
TypeInv ==
    /\ program \in Program
    /\ left \in [Goroutine -> Nat] /\ done \subseteq Goroutine
    /\ closed \subseteq {Buffered, Aggregated} \cup Sources
    /\ got \in Seq(Item)
    /\ at \in 1..(N + 2) /\ active \in 0..N /\ hand \in Item \cup {NoItem}
    /\ memory \in Nat /\ local \in [Goroutine -> Nat] /\ inside \subseteq Goroutine
    /\ length \in [Tasks -> Durations] /\ cancelled \in BOOLEAN
    /\ outcome \in [Tasks -> {"running", "completed", "cancelled"}]
    /\ main \in {"waiting", "returned"} /\ result \in Nat
    /\ \A g \in Goroutine : left[g] <= IF g = Mapper THEN Len(Words) ELSE Items
    /\ program # "aggregate" => at = 1 /\ active = 0 /\ hand = NoItem /\ Aggregated \notin closed
    /\ program \notin {"channel", "wordcount"} => queue = <<>>
    /\ hand # NoItem => at \in 1..N
    /\ active < at

\* 1.go: each item sent is in the channel or was consumed, once; the channel is closed
\* when the producers have ended, and a consumer ends when it is closed and empty.
ChannelInv ==
    /\ queue \in Seq(Item) /\ Len(queue) <= Capacity
    /\ IsInjective(queue) /\ IsInjective(got) /\ Range(queue) \cap Range(got) = {}
    /\ Range(queue) \cup Range(got) = Sent(Producers)
    /\ \A p \in Producers \cap done : left[p] = 0
    /\ Buffered \in closed => Producers \subseteq done
    /\ Consumers \cap done # {} => queue = <<>> /\ Buffered \in closed
    /\ main = "returned" => Consumers \subseteq done

\* 2.go: each datum read is in the aggregator's hand or was passed on, once; in a round that
\* has passed nothing on, every source before `at` is closed.
InHand == {hand} \ {NoItem}
AggregateInv ==
    /\ IsInjective(got) /\ Range(got) \cap InHand = {}
    /\ Range(got) \cup InHand = Sent(Sources)
    /\ \A s \in Sources \cap closed : left[s] = 0
    /\ Sources \cap done \subseteq closed
    /\ active = 0 => \A j \in 1..N : j < at => <<"source", j>> \in closed
    /\ Aggregated \in closed => at = N + 2 /\ active = 0
    /\ main = "returned" => Sources \subseteq done

\* 3.go: a writer is alone inside, and has read a count that is one behind the rounds begun.
CounterInv ==
    /\ \A w \in Writers \cap inside : inside = {w}
    /\ \A g \in inside : local[g] = memory
    /\ Cardinality(Begun) = IF inside \cap Writers = {} THEN memory ELSE memory + 1

\* 4.go: the words are summed up, in the channel or still to be sent, in order.
Mapped == Len(Words) - left[Mapper]
Summed == Mapped - Len(queue)
WordCountInv ==
    /\ queue \in Seq(Range(Words)) /\ Len(queue) <= Mapped
    /\ \A i \in 1..Len(queue) : queue[i] = Words[Summed + i]
    /\ local[Reducer] = Cardinality(Letters(1, Summed))
    /\ Mapper \in done => left[Mapper] = 0
    /\ Buffered \in closed => Mapper \in done
    /\ Reducer \in done => queue = <<>> /\ Buffered \in closed
    /\ memory = 0 \/ (Reducer \in done /\ memory = local[Reducer])
    /\ main = "returned" => Reducer \in done /\ result = memory

\* 5.go: no task ends after the monitor has cancelled.
TimeoutInv ==
    /\ memory = Cardinality(Seconds(done \cap Tasks))
    /\ cancelled => Tasks \subseteq done
    /\ \A t \in Tasks : outcome[t] # "cancelled"
    /\ main = "returned" => Tasks \subseteq done /\ result = memory

ExercisesInv ==
    /\ TypeInv
    /\ program = "channel" => ChannelInv
    /\ program = "aggregate" => AggregateInv
    /\ program = "counter" => CounterInv
    /\ program = "wordcount" => WordCountInv
    /\ program = "timeout" => TimeoutInv

-----------------------------------------------------------------------------
(* Sequences and sets *)

USE DEF channelVars, aggregatorVars, counterVars, taskVars, mainVars

LEMMA SizeFacts == N \in Nat /\ N > 0 /\ Items \in Nat /\ Items > 0 /\ Capacity \in Nat /\ Capacity > 0
                   /\ Words \in Seq(Nat) /\ Durations \subseteq Nat /\ Timeout \in Nat
  BY SizesAssumption, DataAssumption

LEMMA Kinds ==
    /\ Producers \subseteq Goroutine /\ Consumers \subseteq Goroutine /\ Sources \subseteq Goroutine
    /\ Readers \subseteq Goroutine /\ Writers \subseteq Goroutine /\ Tasks \subseteq Goroutine
    /\ Mapper \in Goroutine /\ Reducer \in Goroutine /\ Mapper # Reducer
    /\ Mapper \notin Producers \cup Consumers \cup Sources \cup Readers \cup Writers \cup Tasks
    /\ Readers \cap Writers = {} /\ Producers \cap Consumers = {}
    /\ Buffered # Aggregated /\ Buffered \notin Sources /\ Aggregated \notin Sources
<1>1. ASSUME NEW name, NEW x \in Kind(name) PROVE x[1] = name /\ x[2] # 0
  BY DEF Kind
<1>2. /\ Mapper[1] = "map" /\ Reducer[1] = "reduce"
      /\ Buffered[1] = "buffered" /\ Aggregated[1] = "aggregated"
  BY DEF Mapper, Reducer, Buffered, Aggregated
<1>3. /\ Mapper \notin Producers \cup Consumers \cup Sources \cup Readers \cup Writers \cup Tasks
      /\ Readers \cap Writers = {} /\ Producers \cap Consumers = {}
  BY <1>1, <1>2 DEF Producers, Consumers, Sources, Readers, Writers, Tasks
<1>4. Mapper # Reducer /\ Buffered # Aggregated /\ Buffered \notin Sources /\ Aggregated \notin Sources
  BY <1>1, <1>2 DEF Sources
<1>5. \A S \in {Producers, Consumers, Sources, Readers, Writers, Tasks} : S \subseteq Goroutine
  <2> DEFINE U == {Producers, Consumers, Sources, Readers, Writers, Tasks}
  <2>1. Goroutine = {Mapper, Reducer} \cup UNION U
    BY DEF Goroutine
  <2> HIDE DEF U
  <2>2. \A S \in U : S \subseteq Goroutine
    BY <2>1
  <2> QED
    BY <2>2 DEF U
<1>6. Mapper \in Goroutine /\ Reducer \in Goroutine
  BY Zenon DEF Goroutine
<1> QED
  BY <1>3, <1>4, <1>5, <1>6, Zenon

LEMMA KindsAreFinite ==
    ASSUME NEW name PROVE IsFiniteSet(Kind(name))
<1>1. IsFiniteSet({name})
  BY FS_Singleton
<1>2. IsFiniteSet(1..N)
  <2>1. 1 \in Int /\ N \in Int
    BY SizeFacts
  <2> QED
    BY <2>1, FS_Interval
<1> QED
  BY <1>1, <1>2, FS_Product DEF Kind

LEMMA RangeOfAppend ==
    ASSUME NEW S, NEW q \in Seq(S), NEW x \in S
    PROVE  /\ Append(q, x) \in Seq(S) /\ Len(Append(q, x)) = Len(q) + 1
           /\ Range(Append(q, x)) = Range(q) \cup {x}
           /\ IsInjective(q) /\ x \notin Range(q) => IsInjective(Append(q, x))
<1>1. /\ Append(q, x) \in Seq(S) /\ Len(Append(q, x)) = Len(q) + 1
      /\ \A i \in 1..Len(q) : Append(q, x)[i] = q[i]
      /\ Append(q, x)[Len(q) + 1] = x
  OBVIOUS
<1>2. DOMAIN q = 1..Len(q) /\ DOMAIN Append(q, x) = 1..(Len(q) + 1) /\ Len(q) \in Nat
  BY <1>1
<1>3. \A i \in 1..(Len(q) + 1) : i \in 1..Len(q) \/ i = Len(q) + 1
  BY <1>2
<1>4. Range(Append(q, x)) = Range(q) \cup {x}
  BY <1>1, <1>2, <1>3 DEF Range
<1>5. ASSUME IsInjective(q), x \notin Range(q) PROVE IsInjective(Append(q, x))
  BY <1>1, <1>2, <1>3, <1>5 DEF IsInjective, Range
<1> QED
  BY <1>1, <1>4, <1>5

LEMMA RangeOfTail ==
    ASSUME NEW S, NEW q \in Seq(S), q # <<>>
    PROVE  /\ Tail(q) \in Seq(S) /\ Len(Tail(q)) = Len(q) - 1
           /\ Head(q) \in S /\ Head(q) \in Range(q)
           /\ Range(q) = Range(Tail(q)) \cup {Head(q)}
           /\ IsInjective(q) => IsInjective(Tail(q)) /\ Head(q) \notin Range(Tail(q))
<1>1. /\ Tail(q) \in Seq(S) /\ Len(Tail(q)) = Len(q) - 1 /\ Len(q) \in Nat /\ Len(q) > 0
      /\ \A i \in 1..Len(Tail(q)) : i + 1 \in 1..Len(q) /\ Tail(q)[i] = q[i + 1]
      /\ Head(q) = q[1] /\ 1 \in 1..Len(q)
  OBVIOUS
<1>2. DOMAIN q = 1..Len(q) /\ DOMAIN Tail(q) = 1..Len(Tail(q))
  BY <1>1
<1>3. Head(q) \in S /\ Head(q) \in Range(q)
  BY <1>1, <1>2 DEF Range
<1>4. \A j \in 1..Len(q) : j = 1 \/ (j - 1 \in 1..Len(Tail(q)) /\ Tail(q)[j - 1] = q[j])
  BY <1>1
<1>5. Range(q) = Range(Tail(q)) \cup {Head(q)}
  <2>1. \A j \in 1..Len(q) : q[j] \in Range(Tail(q)) \cup {Head(q)}
    BY <1>1, <1>2, <1>4 DEF Range
  <2>2. \A i \in 1..Len(Tail(q)) : Tail(q)[i] \in Range(q)
    BY <1>1, <1>2 DEF Range
  <2>3. Range(Tail(q)) \subseteq Range(q)
    BY <1>2, <2>2 DEF Range
  <2>4. Range(q) \subseteq Range(Tail(q)) \cup {Head(q)}
    <3>1. ASSUME NEW x \in Range(q) PROVE \E j \in 1..Len(q) : x = q[j]
      BY <1>2 DEF Range
    <3> QED
      BY <2>1, <3>1
  <2> QED
    BY <1>3, <2>3, <2>4
<1>6. ASSUME IsInjective(q) PROVE IsInjective(Tail(q)) /\ Head(q) \notin Range(Tail(q))
  <2>1. \A i, j \in 1..Len(q) : q[i] = q[j] => i = j
    BY <1>2, <1>6 DEF IsInjective
  <2>2. \A i, j \in 1..Len(Tail(q)) : Tail(q)[i] = Tail(q)[j] => i = j
    <3> SUFFICES ASSUME NEW i \in 1..Len(Tail(q)), NEW j \in 1..Len(Tail(q)), Tail(q)[i] = Tail(q)[j]
                 PROVE  i = j
      OBVIOUS
    <3>1. i + 1 = j + 1
      BY <1>1, <2>1
    <3> QED
      BY <3>1
  <2>3. \A i \in 1..Len(Tail(q)) : Tail(q)[i] # q[1]
    <3> SUFFICES ASSUME NEW i \in 1..Len(Tail(q)), q[i + 1] = q[1] PROVE FALSE
      BY <1>1
    <3>1. i + 1 = 1
      BY <1>1, <2>1
    <3> QED
      BY <3>1
  <2> QED
    BY <1>1, <1>2, <2>2, <2>3 DEF IsInjective, Range
<1> QED
  BY <1>1, <1>3, <1>5, <1>6

\* A round adds one item to what has been sent.
LEMMA RoundSends ==
    ASSUME TypeInv, NEW kind, kind \subseteq Goroutine, Mapper \notin kind, NEW g \in kind, Round(g)
    PROVE  /\ <<g, left[g]>> \in kind \X (1..Items) /\ <<g, left[g]>> \notin Sent(kind)
           /\ Sent(kind)' = Sent(kind) \cup {<<g, left[g]>>}
           /\ left' = [left EXCEPT ![g] = left[g] - 1] /\ left[g] > 0
<1>1. left[g] > 0 /\ left' = [left EXCEPT ![g] = left[g] - 1] /\ left[g] \in 1..Items
  BY SizeFacts DEF Round, TypeInv
<1>2. left' \in [Goroutine -> Int] /\ left \in [Goroutine -> Nat]
      /\ \A h \in Goroutine : left'[h] = IF h = g THEN left[g] - 1 ELSE left[h]
  BY <1>1 DEF TypeInv
<1>3. <<g, left[g]>> \in kind \X (1..Items) /\ <<g, left[g]>> \notin Sent(kind)
  BY <1>1 DEF Sent
<1>4. ASSUME NEW h \in kind, NEW k \in 1..Items
      PROVE  left'[h] < k <=> left[h] < k \/ (h = g /\ k = left[g])
  BY <1>1, <1>2, <1>4
<1>5. \A x \in kind \X (1..Items) : x = <<x[1], x[2]>> /\ x[1] \in kind /\ x[2] \in 1..Items
  OBVIOUS
<1>6. \A x \in kind \X (1..Items) : left'[x[1]] < x[2] <=> left[x[1]] < x[2] \/ x = <<g, left[g]>>
  BY <1>4, <1>5
<1>7. Sent(kind)' = Sent(kind) \cup {<<g, left[g]>>}
  BY <1>3, <1>6 DEF Sent
<1> QED
  BY <1>1, <1>3, <1>7

\* When all have sent, all was sent.
LEMMA AllSent ==
    ASSUME NEW kind, \A g \in kind : left[g] = 0 PROVE Sent(kind) = kind \X (1..Items)
<1>1. \A x \in kind \X (1..Items) : x[1] \in kind /\ x[2] \in 1..Items
  OBVIOUS
<1>2. \A x \in kind \X (1..Items) : left[x[1]] < x[2]
  BY <1>1
<1> QED
  BY <1>2 DEF Sent

LEMMA NoneSent ==
    ASSUME NEW kind, \A g \in kind : left[g] = Items PROVE Sent(kind) = {}
<1>1. \A x \in kind \X (1..Items) : x[1] \in kind /\ x[2] \in 1..Items
  OBVIOUS
<1>2. \A x \in kind \X (1..Items) : ~(left[x[1]] < x[2])
  BY <1>1, SizeFacts
<1> QED
  BY <1>2 DEF Sent

LEMMA RoundType ==
    ASSUME TypeInv, NEW g \in Goroutine, Round(g)
    PROVE  /\ left' \in [Goroutine -> Nat] /\ left'[g] = left[g] - 1
           /\ \A h \in Goroutine : left'[h] <= left[h] /\ (h # g => left'[h] = left[h])
           /\ \A h \in Goroutine : left'[h] <= IF h = Mapper THEN Len(Words) ELSE Items
<1>1. left[g] > 0 /\ left' = [left EXCEPT ![g] = left[g] - 1] /\ left \in [Goroutine -> Nat]
  BY DEF Round, TypeInv
<1>2. left' \in [Goroutine -> Nat] /\ left'[g] = left[g] - 1
      /\ \A h \in Goroutine : left'[h] <= left[h] /\ (h # g => left'[h] = left[h])
  BY <1>1
<1>3. \A h \in Goroutine : left[h] <= IF h = Mapper THEN Len(Words) ELSE Items
  BY DEF TypeInv
<1>4. Len(Words) \in Nat /\ Items \in Nat
  BY SizeFacts
<1> QED
  BY <1>1, <1>2, <1>3, <1>4

-----------------------------------------------------------------------------
(* The initial states *)

LEMMA LettersOfNone == \A n \in Int : n < 1 => Cardinality(Letters(1, n)) = 0
<1>1. \A n \in Int : n < 1 => 1..n = {}
  OBVIOUS
<1>2. \A n \in Int : n < 1 => Letters(1, n) = {}
  BY <1>1 DEF Letters
<1> QED
  BY <1>2, FS_EmptySet

LEMMA SecondsOfNone == Cardinality(Seconds({})) = 0
<1>1. Seconds({}) = {}
  BY DEF Seconds
<1> QED
  BY <1>1, FS_EmptySet

LEMMA ExercisesInit == Init => ExercisesInv
<1> SUFFICES ASSUME Init PROVE ExercisesInv
  OBVIOUS
<1>1. /\ \A g \in Goroutine : left[g] = IF g = Mapper THEN Len(Words) ELSE Items
      /\ Len(Words) \in Nat /\ Items \in Nat /\ left \in [Goroutine -> Nat]
  BY SizeFacts DEF Init
<1>2. TypeInv
  <2>1. 1 \in 1..(N + 2) /\ 0 \in 0..N /\ <<>> \in Seq(Item)
    BY SizeFacts
  <2>2. local \in [Goroutine -> Nat]
    BY DEF Init
  <2>3. outcome \in [Tasks -> {"running", "completed", "cancelled"}]
    BY DEF Init
  <2>4. \A g \in Goroutine : left[g] <= IF g = Mapper THEN Len(Words) ELSE Items
    BY <1>1
  <2> QED
    <3>1. /\ program \in Program /\ done = {} /\ queue = <<>> /\ closed = {} /\ got = <<>>
          /\ at = 1 /\ active = 0 /\ hand = NoItem /\ memory = 0 /\ inside = {}
          /\ length \in [Tasks -> Durations] /\ cancelled = FALSE
          /\ main = "waiting" /\ result = 0
      BY DEF Init
    <3>2. /\ at \in 1..(N + 2) /\ active \in 0..N /\ active < at
          /\ hand \in Item \cup {NoItem} /\ memory \in Nat /\ result \in Nat
          /\ main \in {"waiting", "returned"}
      BY <3>1, SizeFacts
    <3>3. got \in Seq(Item) /\ cancelled \in BOOLEAN
      BY <2>1, <3>1, Zenon
    <3>4. /\ done \subseteq Goroutine /\ inside \subseteq Goroutine
          /\ closed \subseteq {Buffered, Aggregated} \cup Sources
          /\ (hand # NoItem => at \in 1..N) /\ Aggregated \notin closed
      BY <3>1
    <3> QED
      BY <1>1, <2>2, <2>3, <2>4, <3>1, <3>2, <3>3, <3>4 DEF TypeInv
<1>3. Sent(Producers) = {} /\ Sent(Sources) = {} /\ Sent(Writers) = {}
  BY <1>1, Kinds, NoneSent
<1>4. /\ \A S : <<>> \in Seq(S)
      /\ IsInjective(<<>>) /\ Range(<<>>) = {} /\ Len(<<>>) = 0
  BY DEF IsInjective, Range
<1>5. ChannelInv
  BY <1>3, <1>4, SizeFacts DEF Init, ChannelInv
<1>6. AggregateInv
  BY <1>3, <1>4 DEF Init, AggregateInv, InHand
<1>7. CounterInv
  <2>1. Begun = {}
    BY <1>3 DEF Begun, Sent
  <2> QED
    BY <2>1, FS_EmptySet DEF Init, CounterInv
<1>8. WordCountInv
  <2>1. Mapped = 0 /\ Summed = 0 /\ queue = <<>>
    BY <1>1, <1>4, Kinds DEF Init, Mapped, Summed
  <2>2. local[Reducer] = 0
    BY Kinds DEF Init
  <2>3. local[Reducer] = Cardinality(Letters(1, Summed))
    BY <2>1, <2>2, LettersOfNone
  <2>4. \A i \in 1..Len(queue) : queue[i] = Words[Summed + i]
    BY <2>1, <1>4
  <2> QED
    BY <1>4, <2>1, <2>3, <2>4 DEF Init, WordCountInv
<1>9. TimeoutInv
  <2>1. done \cap Tasks = {} /\ \A t \in Tasks : outcome[t] = "running"
    BY DEF Init
  <2> QED
    BY <2>1, SecondsOfNone DEF Init, TimeoutInv
<1> QED
  BY <1>2, <1>5, <1>6, <1>7, <1>8, <1>9 DEF ExercisesInv

-----------------------------------------------------------------------------
(* 1.go *)

LEMMA ChannelStep ==
    ASSUME ExercisesInv, main = "waiting", Channel PROVE ExercisesInv'
<1>1. /\ program = "channel" /\ TypeInv /\ ChannelInv /\ "channel" # "aggregate"
      /\ program \notin {"aggregate", "counter", "wordcount", "timeout"}
  BY DEF ExercisesInv, Channel
<1> SUFFICES program' = program /\ TypeInv' /\ ChannelInv'
  BY <1>1 DEF ExercisesInv
<1>2. ASSUME NEW p \in Producers, Produce(p) PROVE program' = program /\ TypeInv' /\ ChannelInv'
  <2> DEFINE x == <<p, left[p]>>
  <2>1. /\ p \in Goroutine /\ p # Mapper /\ Round(p)
        /\ Len(queue) < Capacity /\ Buffered \notin closed /\ queue' = Append(queue, x)
        /\ UNCHANGED <<done, closed, got, aggregatorVars, counterVars, taskVars, mainVars>>
    BY <1>2, Kinds DEF Produce
  <2>2. /\ x \in Producers \X (1..Items) /\ x \notin Sent(Producers)
        /\ Sent(Producers)' = Sent(Producers) \cup {x}
    BY <1>1, <1>2, <2>1, Kinds, RoundSends
  <2>3. x \in Item
    BY <2>2 DEF Item
  <2>4. /\ queue \in Seq(Item) /\ IsInjective(queue) /\ x \notin Range(queue) /\ x \notin Range(got)
    BY <1>1, <2>2 DEF ChannelInv
  <2>5. /\ queue' \in Seq(Item) /\ Len(queue') = Len(queue) + 1
        /\ Range(queue') = Range(queue) \cup {x} /\ IsInjective(queue')
    <3> HIDE DEF x
    <3> QED
      BY <2>1, <2>3, <2>4, RangeOfAppend
  <2>6. TypeInv'
    <3>1. /\ left' \in [Goroutine -> Nat]
          /\ \A h \in Goroutine : left'[h] <= IF h = Mapper THEN Len(Words) ELSE Items
      BY <1>1, <2>1, RoundType
    <3> QED
      BY <1>1, <2>1, <3>1 DEF TypeInv
  <2>7. ChannelInv'
    <3> HIDE DEF x
    <3>1. \A q \in Producers \cap done' : left'[q] = 0
      <4>1. p \notin done
        BY <1>1, <1>2, <2>1 DEF ChannelInv, Round
      <4> QED
        BY <1>1, <2>1, <4>1, RoundType, Kinds DEF ChannelInv
    <3>2. Len(queue') <= Capacity
      BY <2>1, <2>4, <2>5, SizeFacts
    <3>3. Consumers \cap done' = {}
      BY <1>1, <2>1 DEF ChannelInv
    <3>4. /\ Range(queue') \cap Range(got) = {}
          /\ Range(queue') \cup Range(got) = Sent(Producers)'
      BY <1>1, <2>2, <2>4, <2>5 DEF ChannelInv
    <3> QED
      BY <1>1, <2>1, <2>5, <3>1, <3>2, <3>3, <3>4 DEF ChannelInv
  <2> QED
    BY <2>1, <2>6, <2>7
<1>3. ASSUME NEW p \in Producers, ProducerEnds(p) PROVE program' = program /\ TypeInv' /\ ChannelInv'
  <2>1. /\ left[p] = 0 /\ done' = done \cup {p} /\ p \in Goroutine /\ p \notin Consumers
        /\ UNCHANGED <<left, channelVars, aggregatorVars, counterVars, taskVars, mainVars>>
    BY <1>3, Kinds DEF ProducerEnds, Done
  <2>2. TypeInv'
    BY <1>1, <2>1 DEF TypeInv
  <2>3. Sent(Producers)' = Sent(Producers) /\ Consumers \cap done' = Consumers \cap done
    BY <2>1 DEF Sent
  <2> QED
    BY <1>1, <2>1, <2>2, <2>3 DEF ChannelInv
<1>4. CASE CloseQueue
  <2>1. /\ Producers \subseteq done /\ closed' = closed \cup {Buffered}
        /\ UNCHANGED <<left, done, queue, got, aggregatorVars, counterVars, taskVars, mainVars>>
    BY <1>4 DEF CloseQueue, ProducersHaveEnded
  <2>2. TypeInv'
    <3>1. Aggregated \notin closed'
      BY <1>1, <2>1, Kinds DEF TypeInv
    <3> QED
      BY <1>1, <2>1, <3>1 DEF TypeInv
  <2>3. Sent(Producers)' = Sent(Producers)
    BY <2>1 DEF Sent
  <2> QED
    BY <1>1, <2>1, <2>2, <2>3 DEF ChannelInv
<1>5. ASSUME NEW c \in Consumers, Consume(c) PROVE program' = program /\ TypeInv' /\ ChannelInv'
  <2>1. /\ queue # <<>> /\ got' = Append(got, Head(queue)) /\ queue' = Tail(queue)
        /\ UNCHANGED <<left, done, closed, aggregatorVars, counterVars, taskVars, mainVars>>
    BY <1>5 DEF Consume
  <2>2. /\ queue' \in Seq(Item) /\ Len(queue') = Len(queue) - 1 /\ Len(queue) \in Nat
        /\ Head(queue) \in Item /\ Head(queue) \in Range(queue)
        /\ Range(queue) = Range(queue') \cup {Head(queue)}
        /\ IsInjective(queue') /\ Head(queue) \notin Range(queue')
    BY <1>1, <2>1, RangeOfTail DEF ChannelInv
  <2>3. Head(queue) \notin Range(got) /\ got \in Seq(Item) /\ IsInjective(got)
    BY <1>1, <2>2 DEF ChannelInv, TypeInv
  <2>4. /\ got' \in Seq(Item) /\ IsInjective(got') /\ Range(got') = Range(got) \cup {Head(queue)}
    BY <2>1, <2>2, <2>3, RangeOfAppend
  <2>5. TypeInv'
    BY <1>1, <2>1, <2>4 DEF TypeInv
  <2>6. Sent(Producers)' = Sent(Producers)
    BY <2>1 DEF Sent
  <2>7. /\ Range(queue') \cap Range(got') = {}
        /\ Range(queue') \cup Range(got') = Sent(Producers)'
    BY <1>1, <2>2, <2>3, <2>4, <2>6 DEF ChannelInv
  <2>8. Consumers \cap done' = {}
    BY <1>1, <2>1 DEF ChannelInv
  <2>9. Len(queue') <= Capacity
    BY <1>1, <2>2, SizeFacts DEF ChannelInv
  <2> QED
    BY <1>1, <2>1, <2>2, <2>4, <2>5, <2>7, <2>8, <2>9 DEF ChannelInv
<1>6. ASSUME NEW c \in Consumers, ConsumerEnds(c) PROVE program' = program /\ TypeInv' /\ ChannelInv'
  <2>1. /\ queue = <<>> /\ Buffered \in closed /\ done' = done \cup {c}
        /\ c \in Goroutine /\ c \notin Producers
        /\ UNCHANGED <<left, channelVars, aggregatorVars, counterVars, taskVars, mainVars>>
    BY <1>6, Kinds DEF ConsumerEnds, Done
  <2>2. TypeInv'
    BY <1>1, <2>1 DEF TypeInv
  <2>3. Sent(Producers)' = Sent(Producers) /\ Producers \cap done' = Producers \cap done
    BY <2>1 DEF Sent
  <2> QED
    BY <1>1, <2>1, <2>2, <2>3 DEF ChannelInv
<1> QED
  BY <1>2, <1>3, <1>4, <1>5, <1>6 DEF Channel

-----------------------------------------------------------------------------
(* 2.go *)

LEMMA SourcesInTurn ==
    /\ \A j \in 1..N : <<"source", j>> \in Sources
    /\ \A s \in Sources : s[2] \in 1..N /\ s = <<"source", s[2]>>
  BY DEF Sources, Kind

LEMMA AggregateStep ==
    ASSUME ExercisesInv, main = "waiting", Aggregate PROVE ExercisesInv'
<1>1. /\ program = "aggregate" /\ TypeInv /\ AggregateInv
      /\ program \notin {"channel", "counter", "wordcount", "timeout"}
  BY DEF ExercisesInv, Aggregate
<1> SUFFICES program' = program /\ TypeInv' /\ AggregateInv'
  BY <1>1 DEF ExercisesInv
<1>2. /\ at \in 1..(N + 2) /\ active \in 0..N /\ active < at /\ N \in Nat
      /\ (hand # NoItem => at \in 1..N)
  BY <1>1, SizeFacts DEF TypeInv
<1>3. CASE ReadSource
  <2> DEFINE s == <<"source", at>>
             x == <<s, left[s]>>
  <2>1. /\ at \in 1..N /\ hand = NoItem /\ Round(s) /\ hand' = x
        /\ UNCHANGED <<done, channelVars, at, active, counterVars, taskVars, mainVars>>
    BY <1>3 DEF ReadSource
  <2>2. s \in Sources /\ s \in Goroutine
    BY <2>1, Kinds, SourcesInTurn
  <2> HIDE DEF s
  <2>3. /\ x \in Sources \X (1..Items) /\ x \notin Sent(Sources)
        /\ Sent(Sources)' = Sent(Sources) \cup {x} /\ left[s] > 0
    BY <1>1, <2>1, <2>2, Kinds, RoundSends
  <2>4. x # NoItem /\ x \in Item
    BY <2>3 DEF Item, NoItem
  <2> HIDE DEF x
  <2>5. TypeInv'
    <3>1. /\ left' \in [Goroutine -> Nat]
          /\ \A h \in Goroutine : left'[h] <= IF h = Mapper THEN Len(Words) ELSE Items
      BY <1>1, <2>1, <2>2, RoundType
    <3> QED
      BY <1>1, <2>1, <2>4, <3>1 DEF TypeInv
  <2>6. InHand = {} /\ InHand' = {x}
    BY <2>1, <2>4 DEF InHand
  <2>7. /\ Range(got') \cap InHand' = {} /\ Range(got') \cup InHand' = Sent(Sources)'
    BY <1>1, <2>1, <2>3, <2>6 DEF AggregateInv
  <2>8. \A q \in Sources \cap closed' : left'[q] = 0
    <3>1. s \notin closed
      BY <1>1, <2>2, <2>3 DEF AggregateInv
    <3> QED
      BY <1>1, <2>1, <2>2, <3>1, RoundType, Kinds DEF AggregateInv
  <2> QED
    BY <1>1, <2>1, <2>5, <2>7, <2>8 DEF AggregateInv
<1>4. CASE SkipClosed
  <2>1. /\ at \in 1..N /\ hand = NoItem /\ <<"source", at>> \in closed /\ at' = at + 1
        /\ UNCHANGED <<left, done, channelVars, active, hand, counterVars, taskVars, mainVars>>
    BY <1>4 DEF SkipClosed
  <2>2. TypeInv'
    <3>1. at' \in 1..(N + 2) /\ active < at'
      BY <1>2, <2>1
    <3> QED
      BY <1>1, <2>1, <3>1 DEF TypeInv
  <2>3. active = 0 => \A j \in 1..N : j < at' => <<"source", j>> \in closed
    <3>1. \A j \in 1..N : j < at' => j < at \/ j = at
      BY <1>2, <2>1
    <3> QED
      BY <1>1, <2>1, <3>1 DEF AggregateInv
  <2>4. Sent(Sources)' = Sent(Sources) /\ InHand' = InHand
    BY <2>1 DEF Sent, InHand
  <2>5. Aggregated \notin closed
    BY <1>1, <1>2, <2>1 DEF AggregateInv
  <2> QED
    BY <1>1, <2>1, <2>2, <2>3, <2>4, <2>5 DEF AggregateInv
<1>5. CASE PassOn
  <2>1. /\ hand # NoItem /\ got' = Append(got, hand) /\ hand' = NoItem
        /\ active' = active + 1 /\ at' = at + 1
        /\ UNCHANGED <<left, done, queue, closed, counterVars, taskVars, mainVars>>
    BY <1>5 DEF PassOn
  <2>2. hand \in Item /\ hand \notin Range(got) /\ InHand = {hand} /\ InHand' = {}
    <3>1. InHand = {hand} /\ InHand' = {}
      BY <2>1 DEF InHand
    <3> QED
      BY <1>1, <2>1, <3>1 DEF TypeInv, AggregateInv
  <2>3. got \in Seq(Item) /\ IsInjective(got)
    BY <1>1 DEF TypeInv, AggregateInv
  <2>4. got' \in Seq(Item) /\ IsInjective(got') /\ Range(got') = Range(got) \cup {hand}
    BY <2>1, <2>2, <2>3, RangeOfAppend
  <2>5. at \in 1..N /\ at' \in 1..(N + 2) /\ active' \in 1..N /\ active' \in 0..N /\ active' < at'
    BY <1>2, <2>1
  <2>6. TypeInv'
    BY <1>1, <2>1, <2>4, <2>5 DEF TypeInv
  <2>7. Sent(Sources)' = Sent(Sources)
    BY <2>1 DEF Sent
  <2>8. active' # 0 /\ Aggregated \notin closed
    BY <1>1, <1>2, <2>5 DEF AggregateInv
  <2> QED
    BY <1>1, <2>1, <2>2, <2>4, <2>6, <2>7, <2>8 DEF AggregateInv
<1>6. CASE EndOfRound
  <2>1. /\ at = N + 1
        /\ \/ active = 0 /\ at' = N + 2 /\ closed' = closed \cup {Aggregated} /\ active' = active
           \/ active # 0 /\ at' = 1 /\ active' = 0 /\ closed' = closed
        /\ UNCHANGED <<left, done, queue, got, hand, counterVars, taskVars, mainVars>>
    BY <1>6 DEF EndOfRound, CountStartsAgain
  <2>2. hand = NoItem
    BY <1>2, <2>1
  <2>3. TypeInv'
    <3>1. at' \in 1..(N + 2) /\ active' \in 0..N /\ active' < at'
      BY <1>2, <2>1
    <3>2. closed' \subseteq {Buffered, Aggregated} \cup Sources
      BY <1>1, <2>1 DEF TypeInv
    <3> QED
      BY <1>1, <2>1, <2>2, <3>1, <3>2 DEF TypeInv
  <2>4. Sent(Sources)' = Sent(Sources) /\ InHand' = InHand
        /\ Sources \cap closed' = Sources \cap closed
    BY <2>1, Kinds DEF Sent, InHand
  <2>5. active' = 0 => \A j \in 1..N : j < at' => <<"source", j>> \in closed'
    <3>1. \A j \in 1..N : j < at /\ ~(j < 1)
      BY <1>2, <2>1
    <3> QED
      BY <1>1, <2>1, <3>1 DEF AggregateInv
  <2>6. Aggregated \in closed' => at' = N + 2 /\ active' = 0
    <3>1. Aggregated \notin closed
      BY <1>1, <1>2, <2>1 DEF AggregateInv
    <3> QED
      BY <2>1, <3>1
  <2>7. /\ \A s \in Sources \cap closed' : left'[s] = 0
        /\ Sources \cap done' \subseteq closed'
    BY <1>1, <2>1, <2>4 DEF AggregateInv
  <2> QED
    BY <1>1, <2>1, <2>3, <2>4, <2>5, <2>6, <2>7 DEF AggregateInv
<1>7. ASSUME NEW s \in Sources, CloseSource(s) PROVE program' = program /\ TypeInv' /\ AggregateInv'
  <2>1. /\ left[s] = 0 /\ closed' = closed \cup {s}
        /\ UNCHANGED <<left, done, queue, got, aggregatorVars, counterVars, taskVars, mainVars>>
    BY <1>7 DEF CloseSource
  <2>2. TypeInv'
    BY <1>1, <2>1 DEF TypeInv
  <2>3. Sent(Sources)' = Sent(Sources) /\ InHand' = InHand
        /\ (Aggregated \in closed' => Aggregated \in closed)
    BY <2>1, Kinds DEF Sent, InHand
  <2> QED
    BY <1>1, <2>1, <2>2, <2>3 DEF AggregateInv
<1>8. ASSUME NEW s \in Sources, SourceEnds(s) PROVE program' = program /\ TypeInv' /\ AggregateInv'
  <2>1. /\ s \in closed /\ done' = done \cup {s} /\ s \in Goroutine
        /\ UNCHANGED <<left, channelVars, aggregatorVars, counterVars, taskVars, mainVars>>
    BY <1>8, Kinds DEF SourceEnds, Done
  <2>2. TypeInv'
    BY <1>1, <2>1 DEF TypeInv
  <2>3. Sent(Sources)' = Sent(Sources) /\ InHand' = InHand
    BY <2>1 DEF Sent, InHand
  <2> QED
    BY <1>1, <2>1, <2>2, <2>3 DEF AggregateInv
<1> QED
  BY <1>3, <1>4, <1>5, <1>6, <1>7, <1>8 DEF Aggregate

-----------------------------------------------------------------------------
(* 3.go *)

LEMMA CounterStep ==
    ASSUME ExercisesInv, main = "waiting", Counter PROVE ExercisesInv'
<1>1. /\ program = "counter" /\ TypeInv /\ CounterInv
      /\ program \notin {"channel", "aggregate", "wordcount", "timeout"}
  BY DEF ExercisesInv, Counter
<1> SUFFICES program' = program /\ TypeInv' /\ CounterInv'
  BY <1>1 DEF ExercisesInv
<1>2. Begun = Sent(Writers) /\ Begun' = Sent(Writers)'
  BY DEF Begun, Sent
<1>3. ASSUME NEW g \in Readers \cup Writers, Enter(g)
      PROVE  /\ program' = program /\ TypeInv' /\ memory' = memory /\ inside' = inside \cup {g}
             /\ Round(g) /\ local'[g] = memory
             /\ \A h \in Goroutine : h # g => local'[h] = local[h]
  <2>1. /\ Round(g) /\ inside' = inside \cup {g} /\ local' = [local EXCEPT ![g] = memory]
        /\ g \in Goroutine
        /\ UNCHANGED <<done, channelVars, aggregatorVars, memory, taskVars, mainVars>>
    BY <1>3, Kinds DEF Enter
  <2>2. /\ left' \in [Goroutine -> Nat]
        /\ \A h \in Goroutine : left'[h] <= IF h = Mapper THEN Len(Words) ELSE Items
    BY <1>1, <2>1, RoundType
  <2>3. /\ local' \in [Goroutine -> Nat] /\ local'[g] = memory
        /\ \A h \in Goroutine : h # g => local'[h] = local[h]
    BY <1>1, <2>1 DEF TypeInv
  <2>4. TypeInv'
    BY <1>1, <2>1, <2>2, <2>3 DEF TypeInv
  <2> QED
    BY <2>1, <2>3, <2>4
<1>4. inside \subseteq Goroutine
  BY <1>1 DEF TypeInv
<1>5. ASSUME NEW r \in Readers, MayRead(r), Enter(r) PROVE program' = program /\ TypeInv' /\ CounterInv'
  <2>1. r \notin Writers /\ r \in Goroutine
    BY Kinds
  <2>2. inside \cap Writers = {} /\ inside' \cap Writers = {}
    BY <1>3, <1>5, <2>1 DEF MayRead
  <2>3. Sent(Writers)' = Sent(Writers)
    <3>1. \A w \in Writers : left'[w] = left[w]
      BY <1>1, <1>3, <1>5, <2>1, Kinds, RoundType
    <3>2. \A x \in Writers \X (1..Items) : x[1] \in Writers
      OBVIOUS
    <3> QED
      BY <3>1, <3>2 DEF Sent
  <2>4. \A g \in inside' : local'[g] = memory'
    BY <1>1, <1>3, <1>4, <1>5 DEF CounterInv
  <2>5. Cardinality(Begun') = memory' /\ Cardinality(Begun)' = Cardinality(Begun')
    BY <1>1, <1>2, <1>3, <1>5, <2>2, <2>3 DEF CounterInv
  <2> QED
    BY <1>3, <1>5, <2>2, <2>4, <2>5 DEF CounterInv
<1>6. ASSUME NEW w \in Writers, MayWrite(w), Enter(w) PROVE program' = program /\ TypeInv' /\ CounterInv'
  <2>1. inside = {} /\ inside' = {w} /\ inside' \cap Writers # {} /\ w \in Goroutine
    BY <1>3, <1>6, Kinds DEF MayWrite
  <2>2. /\ <<w, left[w]>> \notin Begun /\ Begun' = Begun \cup {<<w, left[w]>>}
    BY <1>1, <1>2, <1>3, <1>6, Kinds, RoundSends
  <2>3. IsFiniteSet(Begun)
    <3>1. IsFiniteSet(1..Items) /\ IsFiniteSet(Writers)
      BY SizeFacts, FS_Interval, KindsAreFinite DEF Writers
    <3>2. IsFiniteSet(Writers \X (1..Items))
      BY <3>1, FS_Product
    <3>3. Begun \in SUBSET (Writers \X (1..Items))
      BY DEF Begun
    <3> QED
      BY <3>2, <3>3, FS_Subset
  <2>4. Cardinality(Begun') = Cardinality(Begun) + 1
    BY <2>2, <2>3, FS_AddElement
  <2>5. Cardinality(Begun) = memory
    BY <1>1, <2>1 DEF CounterInv
  <2>6. Cardinality(Begun)' = memory' + 1
    BY <1>3, <1>6, <2>4, <2>5
  <2>7. \A g \in inside' : local'[g] = memory'
    BY <1>3, <1>6, <2>1
  <2> QED
    BY <1>3, <1>6, <2>1, <2>6, <2>7 DEF CounterInv
<1>7. ASSUME NEW g \in Readers \cup Writers, Leave(g) PROVE program' = program /\ TypeInv' /\ CounterInv'
  <2>1. /\ g \in inside /\ inside' = inside \ {g} /\ g \in Goroutine
        /\ memory' = IF g \in Writers THEN local[g] + 1 ELSE memory
        /\ UNCHANGED <<left, done, channelVars, aggregatorVars, local, taskVars, mainVars>>
    BY <1>7, Kinds DEF Leave
  <2>2. local[g] = memory /\ memory \in Nat /\ memory' \in Nat
    BY <1>1, <2>1 DEF CounterInv, TypeInv
  <2>3. TypeInv'
    BY <1>1, <2>1, <2>2 DEF TypeInv
  <2>4. Begun' = Begun
    BY <2>1 DEF Begun
  <2>5. CASE g \in Writers
    <3>1. inside = {g} /\ inside' = {}
      BY <1>1, <2>1, <2>5 DEF CounterInv
    <3>2. Cardinality(Begun) = memory + 1 /\ memory' = memory + 1
      BY <1>1, <2>1, <2>2, <2>5, <3>1 DEF CounterInv
    <3>3. Cardinality(Begun)' = memory'
      BY <2>4, <3>2
    <3> QED
      BY <2>1, <2>3, <3>1, <3>3 DEF CounterInv
  <2>6. CASE g \notin Writers
    <3>1. inside \cap Writers = {} /\ inside' \cap Writers = {} /\ memory' = memory
      BY <1>1, <2>1, <2>6 DEF CounterInv
    <3>2. Cardinality(Begun) = memory /\ Cardinality(Begun)' = memory'
      BY <1>1, <2>4, <3>1 DEF CounterInv
    <3> QED
      BY <1>1, <2>1, <2>3, <3>1, <3>2 DEF CounterInv
  <2> QED
    BY <2>5, <2>6
<1>8. ASSUME NEW g \in Readers \cup Writers, CounterUserEnds(g)
      PROVE  program' = program /\ TypeInv' /\ CounterInv'
  <2>1. /\ done' = done \cup {g} /\ g \in Goroutine
        /\ UNCHANGED <<left, channelVars, aggregatorVars, counterVars, taskVars, mainVars>>
    BY <1>8, Kinds DEF CounterUserEnds, Done
  <2>2. TypeInv'
    BY <1>1, <2>1 DEF TypeInv
  <2>3. Begun' = Begun
    BY <2>1 DEF Begun
  <2> QED
    BY <1>1, <2>1, <2>2, <2>3 DEF CounterInv
<1> QED
  BY <1>5, <1>6, <1>7, <1>8 DEF Counter

-----------------------------------------------------------------------------
(* Sums as sizes: a letter of a word, or a second of a task, for each unit *)

Blocks(f, I) == UNION {{i} \X (1..f[i]) : i \in I}

\* One block more adds its size.
LEMMA BlockMore ==
    ASSUME NEW I, IsFiniteSet(I), NEW x, x \notin I, NEW f, \A i \in I \cup {x} : f[i] \in Nat
    PROVE  Cardinality(Blocks(f, I \cup {x})) = Cardinality(Blocks(f, I)) + f[x]
<1> DEFINE B(i) == {i} \X (1..f[i])
<1>1. \A i \in I \cup {x} : IsFiniteSet(B(i)) /\ Cardinality(B(i)) = f[i]
  <2> SUFFICES ASSUME NEW i \in I \cup {x} PROVE IsFiniteSet(B(i)) /\ Cardinality(B(i)) = f[i]
    OBVIOUS
  <2>1. f[i] \in Nat /\ f[i] \in Int /\ 1 \in Int
    OBVIOUS
  <2>2. IsFiniteSet(1..f[i]) /\ Cardinality(1..f[i]) = IF 1 > f[i] THEN 0 ELSE f[i] - 1 + 1
    BY <2>1, FS_Interval
  <2>3. Cardinality(1..f[i]) = f[i]
    BY <2>1, <2>2
  <2>4. IsFiniteSet({i}) /\ Cardinality({i}) = 1
    BY FS_Singleton
  <2>5. IsFiniteSet(B(i)) /\ Cardinality(B(i)) = Cardinality({i}) * Cardinality(1..f[i])
    BY <2>2, <2>4, FS_Product
  <2> HIDE DEF B
  <2> QED
    BY <2>1, <2>3, <2>4, <2>5
<1>2. IsFiniteSet(Blocks(f, I))
  <2> DEFINE T == {B(i) : i \in I}
             F == [i \in I |-> B(i)]
  <2>1. F \in Surjection(I, T)
    BY DEF Surjection
  <2> HIDE DEF F
  <2>2. IsFiniteSet(T)
    BY <2>1, FS_Surjection
  <2>3. \A S \in T : IsFiniteSet(S)
    BY <1>1
  <2>4. IsFiniteSet(UNION T)
    <3> HIDE DEF T
    <3> QED
      BY <2>2, <2>3, FS_UNION
  <2> QED
    BY <2>4 DEF Blocks
<1>3. Blocks(f, I \cup {x}) = Blocks(f, I) \cup B(x)
  BY DEF Blocks
<1>4. Blocks(f, I) \cap B(x) = {}
  <2>1. \A y \in Blocks(f, I) : y[1] \in I
    BY DEF Blocks
  <2>2. \A y \in B(x) : y[1] = x
    OBVIOUS
  <2> QED
    BY <2>1, <2>2
<1> HIDE DEF B
<1>5. Cardinality(Blocks(f, I \cup {x})) = Cardinality(Blocks(f, I)) + Cardinality(B(x)) - Cardinality({})
  <2>1. \A S, T : IsFiniteSet(S) /\ IsFiniteSet(T) =>
          Cardinality(S \cup T) = Cardinality(S) + Cardinality(T) - Cardinality(S \cap T)
    BY FS_Union
  <2>2. Cardinality(Blocks(f, I) \cup B(x))
          = Cardinality(Blocks(f, I)) + Cardinality(B(x)) - Cardinality(Blocks(f, I) \cap B(x))
    BY <1>1, <1>2, <2>1
  <2> QED
    BY <1>3, <1>4, <2>2
<1>6. Cardinality({}) = 0 /\ Cardinality(B(x)) = f[x] /\ Cardinality(Blocks(f, I)) \in Nat /\ f[x] \in Nat
  BY <1>1, <1>2, FS_EmptySet, FS_CardinalityType
<1> QED
  BY <1>5, <1>6

LEMMA LettersMore ==
    ASSUME NEW n \in Nat, n < Len(Words)
    PROVE  Cardinality(Letters(1, n + 1)) = Cardinality(Letters(1, n)) + Words[n + 1]
<1>1. IsFiniteSet(1..n) /\ n + 1 \notin 1..n
  BY FS_Interval
<1>2. 1..(n + 1) = (1..n) \cup {n + 1}
  OBVIOUS
<1>3. \A i \in (1..n) \cup {n + 1} : Words[i] \in Nat
  BY SizeFacts
<1>4. Cardinality(Blocks(Words, (1..n) \cup {n + 1})) = Cardinality(Blocks(Words, 1..n)) + Words[n + 1]
  BY <1>1, <1>3, BlockMore
<1>5. /\ Letters(1, n) = Blocks(Words, 1..n)
      /\ Letters(1, n + 1) = Blocks(Words, (1..n) \cup {n + 1})
  BY <1>2 DEF Letters, Blocks
<1> QED
  BY <1>4, <1>5

LEMMA SecondsMore ==
    ASSUME length \in [Tasks -> Nat], NEW S, S \subseteq Tasks, NEW t \in Tasks, t \notin S
    PROVE  Cardinality(Seconds(S \cup {t})) = Cardinality(Seconds(S)) + length[t]
<1>1. IsFiniteSet(S)
  <2>1. IsFiniteSet(Tasks)
    BY KindsAreFinite DEF Tasks
  <2> QED
    BY <2>1, FS_Subset
<1>2. \A i \in S \cup {t} : length[i] \in Nat
  OBVIOUS
<1>3. Cardinality(Blocks(length, S \cup {t})) = Cardinality(Blocks(length, S)) + length[t]
  BY <1>1, <1>2, BlockMore
<1> QED
  BY <1>3 DEF Seconds, Blocks

-----------------------------------------------------------------------------
(* 4.go *)

LEMMA MappedType == TypeInv => Mapped \in 0..Len(Words) /\ Len(Words) \in Nat /\ left[Mapper] \in Nat
<1> SUFFICES ASSUME TypeInv PROVE Mapped \in 0..Len(Words) /\ Len(Words) \in Nat /\ left[Mapper] \in Nat
  OBVIOUS
<1>1. left[Mapper] \in Nat /\ left[Mapper] <= Len(Words) /\ Len(Words) \in Nat
  BY Kinds, SizeFacts DEF TypeInv
<1> QED
  BY <1>1 DEF Mapped

LEMMA WordCountStep ==
    ASSUME ExercisesInv, main = "waiting", WordCount PROVE ExercisesInv'
<1>1. /\ program = "wordcount" /\ TypeInv /\ WordCountInv
      /\ program \notin {"channel", "aggregate", "counter", "timeout"}
  BY DEF ExercisesInv, WordCount
<1> SUFFICES program' = program /\ TypeInv' /\ WordCountInv'
  BY <1>1 DEF ExercisesInv
<1>2. /\ Mapped \in 0..Len(Words) /\ Len(Words) \in Nat /\ left[Mapper] \in Nat
      /\ queue \in Seq(Range(Words)) /\ Len(queue) \in Nat /\ Len(queue) <= Mapped
      /\ Mapper \in Goroutine /\ Reducer \in Goroutine /\ Mapper # Reducer
  BY <1>1, MappedType, Kinds DEF WordCountInv
<1>3. Summed \in Nat /\ Summed + Len(queue) = Mapped
  BY <1>2 DEF Summed
<1>4. CASE MapWord
  <2> DEFINE x == Words[Len(Words) - left[Mapper] + 1]
  <2>1. /\ Buffered \notin closed /\ Round(Mapper) /\ queue' = Append(queue, x) /\ left[Mapper] > 0
        /\ UNCHANGED <<done, closed, got, aggregatorVars, counterVars, taskVars, mainVars>>
    BY <1>4 DEF MapWord, Round
  <2>2. x = Words[Mapped + 1] /\ Mapped + 1 \in 1..Len(Words) /\ x \in Range(Words)
    <3>1. Mapped + 1 \in 1..Len(Words) /\ DOMAIN Words = 1..Len(Words)
      BY <1>2, <2>1, SizeFacts DEF Mapped
    <3> QED
      BY <3>1 DEF Mapped, Range
  <2> HIDE DEF x
  <2>3. /\ left' \in [Goroutine -> Nat] /\ left'[Mapper] = left[Mapper] - 1
        /\ \A h \in Goroutine : left'[h] <= IF h = Mapper THEN Len(Words) ELSE Items
    BY <1>1, <1>2, <2>1, RoundType
  <2>4. TypeInv'
    BY <1>1, <2>1, <2>3 DEF TypeInv
  <2>5. /\ queue' \in Seq(Range(Words)) /\ Len(queue') = Len(queue) + 1
        /\ \A i \in 1..Len(queue) : queue'[i] = queue[i]
        /\ queue'[Len(queue) + 1] = x
    BY <1>2, <2>1, <2>2
  <2>6. Mapped' = Mapped + 1 /\ Summed' = Summed
    <3>1. Mapped' = Mapped + 1
      BY <1>2, <2>3 DEF Mapped
    <3>2. Mapped' \in Nat /\ Mapped \in Nat /\ Len(queue') \in Nat
      BY <1>2, <2>5, <3>1
    <3> QED
      BY <1>2, <2>5, <3>1, <3>2 DEF Summed
  <2>7. \A i \in 1..Len(queue') : queue'[i] = Words[Summed' + i]
    <3> SUFFICES ASSUME NEW i \in 1..Len(queue') PROVE queue'[i] = Words[Summed + i]
      BY <2>6
    <3>1. CASE i \in 1..Len(queue)
      BY <1>1, <2>5, <3>1 DEF WordCountInv
    <3>2. CASE i = Len(queue) + 1
      <4>1. Summed + i = Mapped + 1
        BY <1>2, <1>3, <3>2
      <4> QED
        BY <2>2, <2>5, <3>2, <4>1
    <3> QED
      BY <1>2, <2>5, <3>1, <3>2
  <2>8. Mapper \notin done /\ Reducer \notin done
    BY <1>1, <1>2, <2>1 DEF WordCountInv
  <2>9. Len(queue') <= Mapped'
    BY <1>2, <2>5, <2>6
  <2> QED
    BY <1>1, <2>1, <2>4, <2>5, <2>6, <2>7, <2>8, <2>9 DEF WordCountInv
<1>5. CASE MapEnds
  <2>1. /\ left[Mapper] = 0 /\ done' = done \cup {Mapper}
        /\ UNCHANGED <<left, channelVars, aggregatorVars, counterVars, taskVars, mainVars>>
    BY <1>5 DEF MapEnds, Done
  <2>2. TypeInv'
    BY <1>1, <1>2, <2>1 DEF TypeInv
  <2>3. Mapped' = Mapped /\ Summed' = Summed
    BY <2>1 DEF Mapped, Summed
  <2> QED
    BY <1>1, <1>2, <2>1, <2>2, <2>3 DEF WordCountInv
<1>6. CASE CloseResults
  <2>1. /\ Mapper \in done /\ closed' = closed \cup {Buffered}
        /\ UNCHANGED <<left, done, queue, got, aggregatorVars, counterVars, taskVars, mainVars>>
    BY <1>6 DEF CloseResults, MapHasEnded
  <2>2. TypeInv'
    <3>1. Aggregated \notin closed'
      BY <1>1, <2>1, Kinds DEF TypeInv
    <3> QED
      BY <1>1, <2>1, <3>1 DEF TypeInv
  <2>3. Mapped' = Mapped /\ Summed' = Summed
    BY <2>1 DEF Mapped, Summed
  <2> QED
    BY <1>1, <2>1, <2>2, <2>3 DEF WordCountInv
<1>7. CASE AddLength
  <2>1. /\ queue # <<>> /\ queue' = Tail(queue)
        /\ local' = [local EXCEPT ![Reducer] = local[Reducer] + Head(queue)]
        /\ UNCHANGED <<left, done, closed, got, aggregatorVars, memory, inside, taskVars, mainVars>>
    BY <1>7 DEF AddLength
  <2>2. /\ queue' \in Seq(Range(Words)) /\ Len(queue') = Len(queue) - 1 /\ Len(queue) > 0
        /\ \A i \in 1..Len(queue') : i + 1 \in 1..Len(queue) /\ queue'[i] = queue[i + 1]
        /\ Head(queue) = queue[1]
    BY <1>2, <2>1
  <2>3. Mapped' = Mapped /\ Summed' = Summed + 1 /\ Summed < Len(Words)
    BY <1>2, <1>3, <2>1, <2>2 DEF Mapped, Summed
  <2>4. Head(queue) = Words[Summed + 1] /\ Head(queue) \in Nat
    <3>1. queue[1] = Words[Summed + 1]
      BY <1>1, <1>2, <2>2 DEF WordCountInv
    <3>2. Words[Summed + 1] \in Nat
      BY <1>2, <1>3, <2>3, SizeFacts
    <3> QED
      BY <2>2, <3>1, <3>2
  <2>5. /\ local \in [Goroutine -> Nat] /\ local' \in [Goroutine -> Nat]
        /\ local'[Reducer] = local[Reducer] + Head(queue)
    <3>1. local \in [Goroutine -> Nat]
      BY <1>1 DEF TypeInv
    <3> QED
      BY <1>2, <2>1, <2>4, <3>1
  <2>6. TypeInv'
    BY <1>1, <2>1, <2>5 DEF TypeInv
  <2>7. local'[Reducer] = Cardinality(Letters(1, Summed + 1))
    BY <1>1, <1>3, <2>3, <2>4, <2>5, LettersMore DEF WordCountInv
  <2>8. \A i \in 1..Len(queue') : queue'[i] = Words[Summed' + i]
    <3> SUFFICES ASSUME NEW i \in 1..Len(queue') PROVE queue'[i] = Words[Summed + 1 + i]
      BY <2>3
    <3>1. queue[i + 1] = Words[Summed + (i + 1)]
      BY <1>1, <2>2 DEF WordCountInv
    <3>2. Summed + (i + 1) = Summed + 1 + i
      BY <1>3
    <3> QED
      BY <2>2, <3>1, <3>2
  <2>9. Reducer \notin done /\ Len(queue') <= Mapped' /\ memory = 0
    BY <1>1, <1>2, <2>1, <2>2, <2>3 DEF WordCountInv
  <2>10. local'[Reducer] = Cardinality(Letters(1, Summed))'
    BY <2>3, <2>7 DEF Letters
  <2> QED
    BY <1>1, <2>1, <2>2, <2>6, <2>8, <2>9, <2>10 DEF WordCountInv
<1>8. CASE ReduceEnds
  <2>1. /\ queue = <<>> /\ Buffered \in closed /\ done' = done \cup {Reducer}
        /\ UNCHANGED <<left, channelVars, aggregatorVars, counterVars, taskVars, mainVars>>
    BY <1>8 DEF ReduceEnds, Done
  <2>2. TypeInv'
    BY <1>1, <1>2, <2>1 DEF TypeInv
  <2>3. Mapped' = Mapped /\ Summed' = Summed /\ (Mapper \in done' <=> Mapper \in done)
    BY <1>2, <2>1 DEF Mapped, Summed
  <2> QED
    BY <1>1, <2>1, <2>2, <2>3 DEF WordCountInv
<1>9. CASE StoreTotal
  <2>1. /\ Reducer \in done /\ memory' = local[Reducer]
        /\ UNCHANGED <<left, done, channelVars, aggregatorVars, local, inside, taskVars, mainVars>>
    BY <1>9 DEF StoreTotal
  <2>2. TypeInv'
    <3>1. memory' \in Nat
      BY <1>1, <1>2, <2>1 DEF TypeInv
    <3> QED
      BY <1>1, <2>1, <3>1 DEF TypeInv
  <2>3. Mapped' = Mapped /\ Summed' = Summed
    BY <2>1 DEF Mapped, Summed
  <2> QED
    BY <1>1, <2>1, <2>2, <2>3 DEF WordCountInv
<1> QED
  BY <1>4, <1>5, <1>6, <1>7, <1>8, <1>9 DEF WordCount

-----------------------------------------------------------------------------
(* 5.go *)

LEMMA TimeoutStep ==
    ASSUME ExercisesInv, main = "waiting", TotalTimeout PROVE ExercisesInv'
<1>1. /\ program = "timeout" /\ TypeInv /\ TimeoutInv
      /\ program \notin {"channel", "aggregate", "counter", "wordcount"}
  BY DEF ExercisesInv, TotalTimeout
<1> SUFFICES program' = program /\ TypeInv' /\ TimeoutInv'
  BY <1>1 DEF ExercisesInv
<1>2. ASSUME NEW t \in Tasks, TaskEnds(t) PROVE program' = program /\ TypeInv' /\ TimeoutInv'
  <2>1. t \notin done /\ done' = done \cup {t} /\ t \in Goroutine
    BY <1>2, Kinds DEF TaskEnds, Done
  <2>2. ~cancelled
    BY <1>1, <2>1 DEF TimeoutInv
  <2>3. Ready = {"completed"}
    BY <2>2 DEF Ready
  <2>4. /\ outcome' = [outcome EXCEPT ![t] = "completed"] /\ memory' = memory + length[t]
        /\ UNCHANGED <<left, channelVars, aggregatorVars, local, inside, length, cancelled, mainVars>>
    BY <1>2, <2>3 DEF TaskEnds
  <2>5. length \in [Tasks -> Nat] /\ memory \in Nat /\ outcome \in [Tasks -> {"running", "completed", "cancelled"}]
    BY <1>1, SizeFacts DEF TypeInv
  <2>6. TypeInv'
    <3>1. memory' \in Nat
      BY <2>4, <2>5
    <3>2. outcome' \in [Tasks -> {"running", "completed", "cancelled"}]
      BY <2>4, <2>5
    <3> QED
      BY <1>1, <2>1, <2>4, <3>1, <3>2 DEF TypeInv
  <2>7. done' \cap Tasks = (done \cap Tasks) \cup {t} /\ t \notin done \cap Tasks
    BY <2>1
  <2>8. Cardinality(Seconds((done \cap Tasks) \cup {t})) = Cardinality(Seconds(done \cap Tasks)) + length[t]
    BY <2>5, <2>7, SecondsMore
  <2>9. memory' = Cardinality(Seconds(done \cap Tasks))'
    BY <1>1, <2>4, <2>7, <2>8 DEF TimeoutInv, Seconds
  <2>10. \A u \in Tasks : outcome'[u] # "cancelled"
    BY <1>1, <2>4, <2>5 DEF TimeoutInv
  <2> QED
    BY <1>1, <2>2, <2>4, <2>6, <2>9, <2>10 DEF TimeoutInv
<1>3. CASE Cancel
  <2>1. /\ Tasks \subseteq done /\ cancelled' = TRUE
        /\ UNCHANGED <<left, done, channelVars, aggregatorVars, counterVars, length, outcome, mainVars>>
    BY <1>3 DEF Cancel, MonitorHasWaited
  <2>2. TypeInv'
    BY <1>1, <2>1 DEF TypeInv
  <2>3. Seconds(done \cap Tasks)' = Seconds(done \cap Tasks)
    BY <2>1 DEF Seconds
  <2> QED
    BY <1>1, <2>1, <2>2, <2>3 DEF TimeoutInv
<1> QED
  BY <1>2, <1>3 DEF TotalTimeout

-----------------------------------------------------------------------------
(* Every step, and what the programs promise *)

LEMMA ReturnStep ==
    ASSUME ExercisesInv, main = "waiting", MainReturns PROVE ExercisesInv'
<1>1. /\ Awaited[program] \subseteq done /\ main' = "returned" /\ result' = memory
      /\ UNCHANGED <<program, left, done, channelVars, aggregatorVars, counterVars, taskVars>>
  BY DEF MainReturns
<1>2. /\ program = "channel" => Consumers \subseteq done
      /\ program = "aggregate" => Sources \subseteq done
      /\ program = "wordcount" => Reducer \in done
      /\ program = "timeout" => Tasks \subseteq done
  BY <1>1 DEF Awaited
<1>3. TypeInv'
  BY <1>1 DEF ExercisesInv, TypeInv
<1>4. /\ \A kind : Sent(kind)' = Sent(kind)
      /\ InHand' = InHand /\ Begun' = Begun /\ Mapped' = Mapped /\ Summed' = Summed
      /\ Seconds(done \cap Tasks)' = Seconds(done \cap Tasks)
  BY <1>1 DEF Sent, InHand, Begun, Mapped, Summed, Seconds
<1>5. program' = "channel" => ChannelInv'
  BY <1>1, <1>2, <1>4 DEF ExercisesInv, ChannelInv
<1>6. program' = "aggregate" => AggregateInv'
  BY <1>1, <1>2, <1>4 DEF ExercisesInv, AggregateInv
<1>7. program' = "counter" => CounterInv'
  BY <1>1, <1>2, <1>4 DEF ExercisesInv, CounterInv
<1>8. program' = "wordcount" => WordCountInv'
  BY <1>1, <1>2, <1>4 DEF ExercisesInv, WordCountInv
<1>9. program' = "timeout" => TimeoutInv'
  BY <1>1, <1>2, <1>4 DEF ExercisesInv, TimeoutInv
<1> QED
  BY <1>3, <1>5, <1>6, <1>7, <1>8, <1>9 DEF ExercisesInv

LEMMA ExercisesStep == ExercisesInv /\ [Next]_vars => ExercisesInv'
<1> SUFFICES ASSUME ExercisesInv, [Next]_vars PROVE ExercisesInv'
  OBVIOUS
<1>1. CASE UNCHANGED vars
  BY <1>1 DEF vars, ExercisesInv, TypeInv, ChannelInv, AggregateInv, InHand, Sent, CounterInv, Begun,
              WordCountInv, Mapped, Summed, Letters, TimeoutInv, Seconds
<1>2. CASE Next
  BY <1>2, ChannelStep, AggregateStep, CounterStep, WordCountStep, TimeoutStep, ReturnStep DEF Next
<1> QED
  BY <1>1, <1>2

LEMMA ExercisesInvariant == Spec => []ExercisesInv
  BY ExercisesInit, ExercisesStep, PTL DEF Spec

\* Every goroutine, channel and variable holds what its declaration allows; 1.go's channel
\* never holds more than its capacity, 4.go's never more than the words.
THEOREM TypeCorrect == Spec => []TypeOK
<1>1. ExercisesInv => TypeOK
  <2> SUFFICES ASSUME ExercisesInv PROVE TypeOK
    OBVIOUS
  <2>1. TypeInv
    BY DEF ExercisesInv
  <2>2. /\ queue \in Seq(IF program = "wordcount" THEN Range(Words) ELSE Item)
        /\ Len(queue) <= IF program = "wordcount" THEN Len(Words) ELSE Capacity
    <3>1. CASE program = "wordcount"
      <4>1. queue \in Seq(Range(Words)) /\ Len(queue) <= Mapped /\ Len(queue) \in Nat
        BY <3>1 DEF ExercisesInv, WordCountInv
      <4>2. Len(queue) <= Len(Words)
        BY <2>1, <4>1, MappedType
      <4> QED
        BY <3>1, <4>1, <4>2
    <3>2. CASE program = "channel"
      BY <3>2 DEF ExercisesInv, ChannelInv
    <3>3. CASE program \notin {"channel", "wordcount"}
      <4>1. queue = <<>> /\ Len(<<>>) = 0 /\ <<>> \in Seq(Item) /\ 0 <= Capacity
        BY <2>1, <3>3, SizeFacts DEF TypeInv
      <4> QED
        BY <3>3, <4>1
    <3> QED
      BY <3>1, <3>2, <3>3
  <2> QED
    BY <2>1, <2>2 DEF TypeInv, TypeOK
<1> QED
  BY <1>1, ExercisesInvariant, PTL

\* 1.go has consumed every item once when it returns, and 2.go's aggregator has passed
\* on every datum once when it closes its channel, and all but the one in its hand when
\* main returns.
THEOREM NothingIsLost == Spec => []NothingLost
<1>1. ExercisesInv => NothingLost
  <2> SUFFICES ASSUME ExercisesInv PROVE NothingLost
    OBVIOUS
  <2>1. TypeInv
    BY DEF ExercisesInv
  <2>2. program = "channel" /\ main = "returned" => Received(Producers)
    <3> SUFFICES ASSUME program = "channel", main = "returned" PROVE Received(Producers)
      OBVIOUS
    <3>1. ChannelInv
      BY DEF ExercisesInv
    <3>2. Consumers \cap done # {}
      <4>1. <<"consumer", 1>> \in Consumers
        BY SizeFacts DEF Consumers, Kind
      <4> QED
        BY <3>1, <4>1 DEF ChannelInv
    <3>3. queue = <<>> /\ Producers \subseteq done
      BY <3>1, <3>2 DEF ChannelInv
    <3>4. \A p \in Producers : left[p] = 0
      BY <3>1, <3>3 DEF ChannelInv
    <3>5. Range(queue) = {}
      BY <3>3 DEF Range
    <3>6. Sent(Producers) = Producers \X (1..Items)
      BY <3>4, AllSent
    <3> QED
      BY <3>1, <3>5, <3>6 DEF ChannelInv, Received
  <2>3. ASSUME program = "aggregate", \A s \in Sources : s \in closed
        PROVE  Range(got) \cup InHand = Sources \X (1..Items) /\ IsInjective(got)
    <3>1. AggregateInv
      BY <2>3 DEF ExercisesInv
    <3>2. \A s \in Sources : left[s] = 0
      BY <2>3, <3>1 DEF AggregateInv
    <3>3. Sent(Sources) = Sources \X (1..Items)
      BY <3>2, AllSent
    <3> QED
      BY <3>1, <3>3 DEF AggregateInv
  <2>4. Aggregated \in closed => Received(Sources)
    <3> SUFFICES ASSUME Aggregated \in closed PROVE Received(Sources)
      OBVIOUS
    <3>1. program = "aggregate" /\ AggregateInv
      BY <2>1 DEF TypeInv, ExercisesInv
    <3>2. at = N + 2 /\ active = 0
      BY <3>1 DEF AggregateInv
    <3>3. \A s \in Sources : s \in closed
      <4>1. \A j \in 1..N : j < at
        BY <3>2, SizeFacts
      <4>2. \A j \in 1..N : <<"source", j>> \in closed
        BY <3>1, <3>2, <4>1 DEF AggregateInv
      <4> QED
        BY <4>2, SourcesInTurn
    <3>4. hand = NoItem
      <4>1. at \notin 1..N
        BY <3>2, SizeFacts
      <4> QED
        BY <2>1, <4>1 DEF TypeInv
    <3>5. InHand = {}
      BY <3>4 DEF InHand
    <3> QED
      BY <2>3, <3>1, <3>3, <3>5 DEF Received
  <2>5. program = "aggregate" /\ main = "returned" =>
          Range(got) \cup ({hand} \ {NoItem}) = Sources \X (1..Items)
    BY <2>3 DEF ExercisesInv, AggregateInv, InHand
  <2> QED
    BY <2>2, <2>4, <2>5 DEF NothingLost
<1> QED
  BY <1>1, ExercisesInvariant, PTL

\* 3.go's count is exact whenever no writer is inside, and still while it is read.
THEOREM CountIsExact == Spec => []CounterExact
<1>1. ExercisesInv => CounterExact
  BY DEF ExercisesInv, CounterInv, CounterExact
<1> QED
  BY <1>1, ExercisesInvariant, PTL

\* 4.go returns the letters of all the words, or the 0 that nobody had yet overwritten.
THEOREM NoPartialSum == Spec => []TotalOrNothing
<1>1. ExercisesInv => TotalOrNothing
  <2> SUFFICES ASSUME ExercisesInv, program = "wordcount", main = "returned"
               PROVE  /\ local[Reducer] = Cardinality(Letters(1, Len(Words)))
                      /\ result = local[Reducer] \/ (result = 0 /\ memory = 0)
    BY DEF TotalOrNothing
  <2>1. TypeInv /\ WordCountInv
    BY DEF ExercisesInv
  <2>2. Reducer \in done /\ queue = <<>> /\ left[Mapper] = 0 /\ result = memory
    BY <2>1 DEF WordCountInv
  <2>3. Summed = Len(Words)
    <3>1. Len(queue) = 0 /\ Len(Words) \in Nat
      BY <2>2, SizeFacts
    <3> QED
      BY <2>2, <3>1 DEF Summed, Mapped
  <2> QED
    BY <2>1, <2>2, <2>3 DEF WordCountInv
<1> QED
  BY <1>1, ExercisesInvariant, PTL

\* 5.go's monitor cancels no task, and main reports the seconds of all of them.
THEOREM NothingIsCancelled == Spec => []CancelIsTooLate
<1>1. ExercisesInv => CancelIsTooLate
  <2> SUFFICES ASSUME ExercisesInv, program = "timeout"
               PROVE  /\ \A t \in Tasks : outcome[t] # "cancelled"
                      /\ main = "returned" => result = Cardinality(Seconds(Tasks))
    BY DEF CancelIsTooLate
  <2>1. TimeoutInv
    BY DEF ExercisesInv
  <2>2. Tasks \subseteq done => done \cap Tasks = Tasks
    OBVIOUS
  <2> QED
    BY <2>1, <2>2 DEF TimeoutInv
<1> QED
  BY <1>1, ExercisesInvariant, PTL

=============================================================================
