----------------------------- MODULE Exercises -----------------------------
(***************************************************************************)
(* The five goroutine programs of the concurrency assignment: 1.go (a      *)
(* shared channel), 2.go (an aggregator over unbuffered channels), 3.go (a *)
(* counter under an RWMutex), 4.go (map and reduce over a channel) and     *)
(* 5.go (tasks with a total timeout).  A behaviour runs one of them.       *)
(*                                                                         *)
(* A step is what one goroutine does between two points where another one  *)
(* can be seen: a channel operation, a lock, a WaitGroup, an unprotected   *)
(* access to a shared variable.  Sleeps are left out: they delay a step,   *)
(* and order nothing.  When main returns the process ends, and with it     *)
(* every goroutine that is still running.                                  *)
(***************************************************************************)
EXTENDS Integers, FiniteSets, Sequences, Functions

CONSTANTS
    Program,      \* the programs that may run
    N,            \* goroutines of a kind (numProducers, numDataSources, numTasks: 3)
    Items,        \* rounds of each loop (numItems, dataCount, ...: 10, 5, 3)
    Capacity,     \* of 1.go's channel (10)
    Words,        \* the lengths of 4.go's words
    Durations,    \* how long a task of 5.go may run (1 to 5 seconds)
    Timeout       \* totalTimeout

ASSUME SizesAssumption == {N, Items, Capacity} \subseteq Nat \ {0} /\ Timeout \in Nat
ASSUME DataAssumption == Words \in Seq(Nat) /\ Durations \subseteq Nat

VARIABLES
    program,
    left,         \* left[g]: rounds of its loop a goroutine has still to begin
    done,         \* goroutines that called wg.Done
    queue,        \* what is in the buffered channel
    closed,       \* channels that are closed, named by the goroutine that feeds them
    got,          \* what has come out at the receiving end, in order
    at, active,   \* the aggregator: the channel it reads, and activeSources
    hand,         \* and the datum it has read and not yet passed on
    memory,       \* the shared variable: count, total or totalTime
    local,        \* what a goroutine has read of it, or has summed up
    inside,       \* goroutines that hold the counter's lock
    length,       \* how long each task runs
    outcome,      \* how each task ended
    cancelled,    \* the context
    main, result  \* main, and the value it reports

channelVars == <<queue, closed, got>>
aggregatorVars == <<at, active, hand>>
counterVars == <<memory, local, inside>>
taskVars == <<length, outcome, cancelled>>
mainVars == <<program, main, result>>
vars == <<left, done, channelVars, aggregatorVars, counterVars, taskVars, mainVars>>

-----------------------------------------------------------------------------

Kind(name) == {name} \X (1..N)
Producers == Kind("producer")
Consumers == Kind("consumer")
Sources == Kind("source")
Readers == Kind("reader")
Writers == Kind("writer")
Tasks == Kind("task")
Mapper == <<"map", 1>>
Reducer == <<"reduce", 1>>
Goroutine ==
    {Mapper, Reducer} \cup UNION {Producers, Consumers, Sources, Readers, Writers, Tasks}

\* The channels that no source feeds alone: 1.go's or 4.go's, and the aggregator's.
Buffered == <<"buffered", 0>>
Aggregated == <<"aggregated", 0>>

Item == (Producers \cup Sources) \X (1..Items)
NoItem == <<>>

Init ==
    /\ program \in Program
    /\ left = [g \in Goroutine |-> IF g = Mapper THEN Len(Words) ELSE Items]
    /\ done = {} /\ queue = <<>> /\ closed = {} /\ got = <<>>
    /\ at = 1 /\ active = 0 /\ hand = NoItem
    /\ memory = 0 /\ local = [g \in Goroutine |-> 0] /\ inside = {}
    /\ length \in [Tasks -> Durations]
    /\ program # "timeout" => \A t, u \in Tasks : length[t] = length[u]
    /\ outcome = [t \in Tasks |-> "running"] /\ cancelled = FALSE
    /\ main = "waiting" /\ result = 0

Round(g) == left[g] > 0 /\ left' = [left EXCEPT ![g] = @ - 1]

Done(g) == g \notin done /\ done' = done \cup {g}

-----------------------------------------------------------------------------
(* 1.go: producers, one channel, consumers *)

\* A send on a closed channel would be a panic.
Produce(p) ==
    /\ Round(p)
    /\ Len(queue) < Capacity /\ Buffered \notin closed
    /\ queue' = Append(queue, <<p, left[p]>>)
    /\ UNCHANGED <<done, closed, got, aggregatorVars, counterVars, taskVars, mainVars>>

ProducerEnds(p) ==
    /\ left[p] = 0
    /\ Done(p)
    /\ UNCHANGED <<left, channelVars, aggregatorVars, counterVars, taskVars, mainVars>>

\* Variants with a fault, and what the closing goroutine waits for.
SomeProducerHasEnded == Producers \cap done # {}
AllHaveEnded == Producers \cup Consumers \subseteq done
ProducersHaveEnded == Producers \subseteq done

CloseQueue ==
    /\ ProducersHaveEnded
    /\ Buffered \notin closed
    /\ closed' = closed \cup {Buffered}
    /\ UNCHANGED <<left, done, queue, got, aggregatorVars, counterVars, taskVars, mainVars>>

\* A range over the channel goes on until it is closed and empty.
Consume(c) ==
    /\ c \notin done /\ queue # <<>>
    /\ got' = Append(got, Head(queue))
    /\ queue' = Tail(queue)
    /\ UNCHANGED <<left, done, closed, aggregatorVars, counterVars, taskVars, mainVars>>

ConsumerEnds(c) ==
    /\ queue = <<>> /\ Buffered \in closed
    /\ Done(c)
    /\ UNCHANGED <<left, channelVars, aggregatorVars, counterVars, taskVars, mainVars>>

Channel ==
    /\ program = "channel"
    /\ \/ \E p \in Producers : Produce(p) \/ ProducerEnds(p)
       \/ CloseQueue
       \/ \E c \in Consumers : Consume(c) \/ ConsumerEnds(c)

-----------------------------------------------------------------------------
(* 2.go: one unbuffered channel per source, read in turn *)

\* A send on an unbuffered channel and its receipt are one step.
ReadSource ==
    LET s == <<"source", at>>
    IN /\ at \in 1..N /\ hand = NoItem
       /\ Round(s)
       /\ hand' = <<s, left[s]>>
       /\ UNCHANGED <<done, channelVars, at, active, counterVars, taskVars, mainVars>>

\* Nothing comes from a closed channel but the news that it is closed.
SkipClosed ==
    /\ at \in 1..N /\ hand = NoItem
    /\ <<"source", at>> \in closed
    /\ at' = at + 1
    /\ UNCHANGED <<left, done, channelVars, active, hand, counterVars, taskVars, mainVars>>

PassOn ==
    /\ hand # NoItem
    /\ got' = Append(got, hand)
    /\ hand' = NoItem
    /\ active' = active + 1
    /\ at' = at + 1
    /\ UNCHANGED <<left, done, queue, closed, counterVars, taskVars, mainVars>>

\* Variant with a fault, and activeSources at the start of a round.
CountGoesOn == active
CountStartsAgain == 0

EndOfRound ==
    /\ at = N + 1
    /\ IF active = 0
       THEN at' = N + 2 /\ closed' = closed \cup {Aggregated} /\ UNCHANGED active
       ELSE at' = 1 /\ active' = CountStartsAgain /\ UNCHANGED closed
    /\ UNCHANGED <<left, done, queue, got, hand, counterVars, taskVars, mainVars>>

CloseSource(s) ==
    /\ left[s] = 0 /\ s \notin closed
    /\ closed' = closed \cup {s}
    /\ UNCHANGED <<left, done, queue, got, aggregatorVars, counterVars, taskVars, mainVars>>

SourceEnds(s) ==
    /\ s \in closed
    /\ Done(s)
    /\ UNCHANGED <<left, channelVars, aggregatorVars, counterVars, taskVars, mainVars>>

Aggregate ==
    /\ program = "aggregate"
    /\ \/ ReadSource \/ SkipClosed \/ PassOn \/ EndOfRound
       \/ \E s \in Sources : CloseSource(s) \/ SourceEnds(s)

-----------------------------------------------------------------------------
(* 3.go: the counter *)

\* Variant with a fault (RLock where Lock is meant), and the RWMutex.
MayShare(g) == inside \subseteq Readers \cup Writers
MayWrite(g) == inside = {}
MayRead(g) == inside \cap Writers = {}

\* count++ reads the count and then writes it.
Enter(g) ==
    /\ g \notin inside
    /\ Round(g)
    /\ inside' = inside \cup {g}
    /\ local' = [local EXCEPT ![g] = memory]
    /\ UNCHANGED <<done, channelVars, aggregatorVars, memory, taskVars, mainVars>>

Leave(g) ==
    /\ g \in inside
    /\ inside' = inside \ {g}
    /\ memory' = IF g \in Writers THEN local[g] + 1 ELSE memory
    /\ UNCHANGED <<left, done, channelVars, aggregatorVars, local, taskVars, mainVars>>

CounterUserEnds(g) ==
    /\ left[g] = 0 /\ g \notin inside
    /\ Done(g)
    /\ UNCHANGED <<left, channelVars, aggregatorVars, counterVars, taskVars, mainVars>>

Counter ==
    /\ program = "counter"
    /\ \/ \E r \in Readers : MayRead(r) /\ Enter(r)
       \/ \E w \in Writers : MayWrite(w) /\ Enter(w)
       \/ \E g \in Readers \cup Writers : Leave(g) \/ CounterUserEnds(g)

-----------------------------------------------------------------------------
(* 4.go: map, then reduce *)

\* The channel has room for every word.
MapWord ==
    /\ Buffered \notin closed
    /\ Round(Mapper)
    /\ queue' = Append(queue, Words[Len(Words) - left[Mapper] + 1])
    /\ UNCHANGED <<done, closed, got, aggregatorVars, counterVars, taskVars, mainVars>>

MapEnds ==
    /\ left[Mapper] = 0
    /\ Done(Mapper)
    /\ UNCHANGED <<left, channelVars, aggregatorVars, counterVars, taskVars, mainVars>>

\* Variant with a fault: mapWg.Wait is forgotten.
MapRuns == TRUE
MapHasEnded == Mapper \in done

CloseResults ==
    /\ MapHasEnded
    /\ Buffered \notin closed
    /\ closed' = closed \cup {Buffered}
    /\ UNCHANGED <<left, done, queue, got, aggregatorVars, counterVars, taskVars, mainVars>>

AddLength ==
    /\ queue # <<>>
    /\ local' = [local EXCEPT ![Reducer] = @ + Head(queue)]
    /\ queue' = Tail(queue)
    /\ UNCHANGED <<left, done, closed, got, aggregatorVars, memory, inside, taskVars, mainVars>>

\* reducePhase calls wg.Done before it returns its sum ...
ReduceEnds ==
    /\ queue = <<>> /\ Buffered \in closed
    /\ Done(Reducer)
    /\ UNCHANGED <<left, channelVars, aggregatorVars, counterVars, taskVars, mainVars>>

\* ... and only then its goroutine stores it in the variable that mapReduce returns.
StoreTotal ==
    /\ Reducer \in done
    /\ memory # local[Reducer]
    /\ memory' = local[Reducer]
    /\ UNCHANGED <<left, done, channelVars, aggregatorVars, local, inside, taskVars, mainVars>>

WordCount ==
    /\ program = "wordcount"
    /\ MapWord \/ MapEnds \/ CloseResults \/ AddLength \/ ReduceEnds \/ StoreTotal

-----------------------------------------------------------------------------
(* 5.go: tasks with a total timeout *)

\* The ways the task's select may go; among those that are ready it takes any.
Ready == {"completed"} \cup IF cancelled THEN {"cancelled"} ELSE {}

\* totalTime is added to under a mutex.
TaskEnds(t) ==
    /\ Done(t)
    /\ \E how \in Ready :
         /\ outcome' = [outcome EXCEPT ![t] = how]
         /\ memory' = IF how = "completed" THEN memory + length[t] ELSE memory
    /\ UNCHANGED <<left, channelVars, aggregatorVars, local, inside, length, cancelled, mainVars>>

\* Variant with a fault (or the intent of the comment): the monitor does not wait.
MonitorWakes == TRUE
MonitorHasWaited == Tasks \subseteq done

Cancel ==
    /\ MonitorHasWaited
    /\ memory > Timeout /\ ~cancelled
    /\ cancelled' = TRUE
    /\ UNCHANGED <<left, done, channelVars, aggregatorVars, counterVars, length, outcome,
                   mainVars>>

TotalTimeout ==
    /\ program = "timeout"
    /\ (\E t \in Tasks : TaskEnds(t)) \/ Cancel

-----------------------------------------------------------------------------

\* The goroutines whose wg.Done main waits for before it returns.
Awaited ==
    [channel |-> Consumers, aggregate |-> Sources, counter |-> Readers \cup Writers,
     wordcount |-> {Reducer}, timeout |-> Tasks]

MainReturns ==
    /\ Awaited[program] \subseteq done
    /\ main' = "returned"
    /\ result' = memory
    /\ UNCHANGED <<program, left, done, channelVars, aggregatorVars, counterVars, taskVars>>

Next ==
    /\ main = "waiting"
    /\ Channel \/ Aggregate \/ Counter \/ WordCount \/ TotalTimeout \/ MainReturns

\* The scheduler does not stop while a goroutine can run.
Spec == Init /\ [][Next]_vars /\ WF_vars(Next)

-----------------------------------------------------------------------------

\* Every goroutine, channel and variable holds what its declaration allows.
TypeOK ==
    /\ program \in Program
    /\ left \in [Goroutine -> Nat] /\ done \subseteq Goroutine
    /\ queue \in Seq(IF program = "wordcount" THEN Range(Words) ELSE Item)
    /\ Len(queue) <= IF program = "wordcount" THEN Len(Words) ELSE Capacity
    /\ closed \subseteq {Buffered, Aggregated} \cup Sources
    /\ got \in Seq(Item)
    /\ at \in 1..(N + 2) /\ active \in 0..N /\ hand \in Item \cup {NoItem}
    /\ memory \in Nat /\ local \in [Goroutine -> Nat] /\ inside \subseteq Goroutine
    /\ length \in [Tasks -> Durations] /\ cancelled \in BOOLEAN
    /\ outcome \in [Tasks -> {"running", "completed", "cancelled"}]
    /\ main \in {"waiting", "returned"} /\ result \in Nat

Received(kind) == IsInjective(got) /\ Range(got) = kind \X (1..Items)

\* Nothing that was sent is lost or comes twice: 1.go returns when all was consumed, and
\* 2.go's aggregator closes its channel when all was passed on.  2.go itself sleeps where
\* it should wait ("so that main exits when all data has been processed"): the one datum
\* in the aggregator's hand may be lost when it returns, and no other.
NothingLost ==
    /\ program = "channel" /\ main = "returned" => Received(Producers)
    /\ Aggregated \in closed => Received(Sources)
    /\ program = "aggregate" /\ main = "returned" =>
         Range(got) \cup ({hand} \ {NoItem}) = Sources \X (1..Items)

\* 3.go: the increments begun, each a round of a writer.
Begun == {b \in Writers \X (1..Items) : left[b[1]] < b[2]}

\* 3.go: whenever no writer is inside, the count is the number of increments begun, and
\* it does not move while a reader looks at it.
CounterExact ==
    program = "counter" =>
        /\ inside \cap Writers = {} =>
             memory = Cardinality(Begun)
        /\ \A r \in inside \cap Readers : local[r] = memory

\* 4.go: the letters of the words from the first to the last.
Letters(first, last) == UNION {{i} \X (1..Words[i]) : i \in first..last}

\* 4.go: mapReduce returns the total length, or 0 when it was faster than the goroutine
\* that has still to store it (reducePhase calls wg.Done too early); no partial sum.
TotalOrNothing ==
    program = "wordcount" /\ main = "returned" =>
        /\ local[Reducer] = Cardinality(Letters(1, Len(Words)))
        /\ result = local[Reducer] \/ (result = 0 /\ memory = 0)

\* 5.go: the seconds that tasks have run.
Seconds(tasks) == UNION {{t} \X (1..length[t]) : t \in tasks}

\* 5.go: the monitor cancels ("past the total time, cancel every task") when no task is
\* left to cancel: each one has completed, whatever main then prints.
CancelIsTooLate ==
    program = "timeout" =>
        /\ \A t \in Tasks : outcome[t] # "cancelled"
        /\ main = "returned" => result = Cardinality(Seconds(Tasks))

\* Each program ends: no goroutine waits for ever for a send, a receipt, a lock or a
\* WaitGroup that main depends on.
Terminates == <>(main = "returned")

=============================================================================
