--------------------------- MODULE KVServerProofs ---------------------------
(***************************************************************************)
(* What Lab-3A's and Lab-3B's service promises, for any number of servers, *)
(* clerks, requests, attempts and restarts: the stores mean what the log   *)
(* means, the clerks see one history, and no answer waits for room.        *)
(***************************************************************************)
EXTENDS KVServer, SequenceTheorems, WellFoundedInduction, TLAPS

Kind == {"Put", "Append", "Get"}
Place == {"idle", "calling", "started", "waiting"}
Entry ==
    {e \in [client : Clerk, msg : Nat, try : Nat, kind : Kind] :
        /\ e.msg \in 1..Len(Program[e.client])
        /\ e.try \in 1..MaxTries[e.client][e.msg]}
Saved == [applied : Nat, store : [index : Nat, data : Value, last : [Clerk -> Nat]]]

LogTypes == log \in Seq(Entry) /\ pending \in Seq(Entry)
ClerkTypes ==
    /\ msg \in [Clerk -> Nat] /\ kind \in [Clerk -> Kind] /\ tries \in [Clerk -> Nat]
    /\ place \in [Clerk -> Place] /\ leaderId \in [Clerk -> Server]
    /\ since \in [Clerk -> Nat] /\ result \in [Clerk -> Value]
StoreTypes ==
    /\ data \in [Server -> Value] /\ lastApplies \in [Server -> [Clerk -> Nat]]
    /\ disk \in [Server -> Saved] /\ lost \in [Server -> SUBSET Nat]
IndexTypes ==
    /\ handling \in [Server -> Nat] /\ upto \in [Server -> Nat]
    /\ lastApplied \in [Server -> Nat] /\ unsaved \in [Server -> BOOLEAN]
    /\ lab \in Lab /\ crashes \in 0..MaxCrashes
OpenChannels(f) == f = [r \in DOMAIN f |-> f[r]] /\ \A r \in DOMAIN f : f[r] \in Seq(Value)
ChannelTypes ==
    /\ msgNotify = [s \in Server |-> msgNotify[s]]
    /\ \A s \in Server : OpenChannels(msgNotify[s])

\* A clerk that has called has a request, and stays within its program and its attempts.
ClerkBounds ==
    \A c \in Clerk :
        /\ msg[c] <= Len(Program[c])
        /\ place[c] # "idle" => msg[c] > 0
        /\ IF msg[c] = 0 THEN tries[c] = 0 ELSE tries[c] <= MaxTries[c][msg[c]]

\* A clerk that waits has a channel at the server it waits for.
Awaited ==
    \A c \in Clerk : place[c] = "waiting" => NotifyKey(Op(c)) \in DOMAIN msgNotify[leaderId[c]]

\* The entries of one clerk are in the order of its requests and attempts.
Before(e, f) == e.client = f.client => e.msg < f.msg \/ (e.msg = f.msg /\ e.try < f.try)
Sorted(entries) == \A i, j \in 1..Len(entries) : i < j => Before(entries[i], entries[j])
Ordered ==
    /\ Sorted(log) /\ Sorted(pending)
    /\ \A i \in 1..Len(log), j \in 1..Len(pending) : Before(log[i], pending[j])

\* No entry is ahead of its clerk, and those of its present request are of its kind.
StartedBy(e, m, t, k) ==
    \/ e.msg < m[e.client]
    \/ e.msg = m[e.client] /\ e.try <= t[e.client] /\ e.kind = k[e.client]
Started(e) == StartedBy(e, msg, tries, kind)
Latest ==
    /\ \A i \in 1..Len(log) : Started(log[i])
    /\ \A i \in 1..Len(pending) : Started(pending[i])

\* The attempts of one request are of one kind.
SameKind(e, f) == MsgId(e) = MsgId(f) => e.kind = f.kind
OneKind ==
    /\ \A i, j \in 1..Len(log) : SameKind(log[i], log[j])
    /\ \A i \in 1..Len(log), j \in 1..Len(pending) : SameKind(log[i], pending[j])
    /\ \A i, j \in 1..Len(pending) : SameKind(pending[i], pending[j])

\* The entries of a clerk's present request were committed after it began.
AfterSince ==
    \A c \in Clerk :
        /\ since[c] <= Len(log)
        /\ \A i \in 1..Len(log) : MsgId(log[i]) = <<c, msg[c]>> => i > since[c]

\* How far the server has worked off the log.
Done(s) == IF handling[s] # 0 THEN handling[s] - 1 ELSE lastApplied[s]

\* Where the indexes are: the store is at most one entry ahead of the peer's index, and
\* what a crash left out lies behind both.
PositionsAt(s) ==
    /\ handling[s] # 0 => handling[s] = lastApplied[s]
    /\ lastApplied[s] <= Len(log)
    /\ upto[s] = Done(s) \/ upto[s] = Done(s) + 1
    /\ upto[s] <= Len(log) /\ disk[s].store.index <= Len(log)
    /\ lost[s] \subseteq 1..disk[s].applied /\ lost[s] \subseteq 1..Done(s)

\* Lab-3A saves the two one after the other, Lab-3B saves them together.
SavedAt(s) ==
    \/ /\ lab = "3A"
       /\ IF unsaved[s] THEN lastApplied[s] = disk[s].applied + 1
          ELSE lastApplied[s] = disk[s].applied
       /\ disk[s].store.index <= disk[s].applied + 1
    \/ /\ lab = "3B" /\ ~unsaved[s] /\ lost[s] = {}
       /\ upto[s] = Done(s) /\ disk[s].applied = disk[s].store.index
Positions == \A s \in Server : PositionsAt(s) /\ SavedAt(s)

\* A table of last MsgIds knows every write up to n, and none that is not there.
Covers(entries, n, omit, last) ==
    \A i \in 1..n : i \notin omit /\ entries[i].kind # "Get"
                        => entries[i].msg <= last[entries[i].client]
Attained(entries, n, omit, last) ==
    \A c \in Clerk : last[c] # 0 =>
        \E i \in 1..n : /\ i \notin omit /\ entries[i].kind # "Get"
                        /\ MsgId(entries[i]) = <<c, last[c]>>
IsStoreOf(entries, n, omit, value, last) ==
    /\ value = Effect(entries, n, omit)
    /\ Covers(entries, n, omit, last) /\ Attained(entries, n, omit, last)

Stores ==
    \A s \in Server :
        /\ IsStoreOf(log, upto[s], lost[s], data[s], lastApplies[s])
        /\ IsStoreOf(log, disk[s].store.index, lost[s], disk[s].store.data, disk[s].store.last)

\* An answer in a channel is the value of the log at the entry of that attempt.
Answered(entries, n, gone, r, answer) ==
    \E i \in 1..n : /\ ReqId(entries[i]) = r
                    /\ (\A s \in Server : gone[s] = {}) => answer = <<Effect(entries, i, {})>>
Answers ==
    \A s \in Server : \A r \in DOMAIN msgNotify[s] :
        msgNotify[s][r] # <<>> => Answered(log, Done(s), lost, r, msgNotify[s][r])

KVTypes == LogTypes /\ ClerkTypes /\ StoreTypes /\ IndexTypes /\ ChannelTypes
LogInv == Ordered /\ Latest /\ OneKind /\ AfterSince
KVInv == /\ KVTypes /\ ClerkBounds /\ Awaited /\ LogInv
         /\ Positions /\ Stores /\ Answers

-----------------------------------------------------------------------------
(* Counting: the natural numbers are the only ones that 0 and adding one lead to. *)

LEMMA LeastNumber ==
    ASSUME NEW S, S \subseteq Nat, S # {}
    PROVE  \E n \in S : \A m \in S : n <= m
<1> DEFINE Less == {p \in Nat \X Nat : p[1] < p[2]}
<1>1. IsWellFoundedOn(Less, Nat)
  BY NatLessThanWellFounded DEF OpToRel
<1>2. PICK x \in S : \A y \in S : <<y, x>> \notin Less
  BY <1>1, WFMin
<1>3. ASSUME NEW y \in S PROVE x <= y
  <2>1. <<y, x>> \notin Less /\ x \in Nat /\ y \in Nat
    BY <1>2
  <2>2. ~(y < x)
    BY <2>1
  <2> QED BY <2>1, <2>2
<1> QED BY <1>3

LEMMA Counting ==
    ASSUME NEW S, 0 \in S, \A n \in Nat : n \in S => n + 1 \in S
    PROVE  Nat \subseteq S
<1> SUFFICES ASSUME ~ (Nat \subseteq S) PROVE FALSE
  OBVIOUS
<1> DEFINE T == Nat \ S
<1>1. T \subseteq Nat /\ T # {}
  OBVIOUS
<1>2. PICK n \in T : \A m \in T : n <= m
  BY <1>1, LeastNumber
<1>3. n # 0 /\ n \in Nat /\ n \notin S
  OBVIOUS
<1>4. n - 1 \in Nat /\ ~(n <= n - 1) /\ (n - 1) + 1 = n
  BY <1>3
<1>5. n - 1 \in S
  BY <1>2, <1>4
<1> QED BY <1>3, <1>4, <1>5

-----------------------------------------------------------------------------
(* What a log means.  Effect is a recursive function: it exists, and its    *)
(* values are given entry by entry.                                         *)

Takes(entries, i, omit) == i \notin omit /\ First(entries, i, omit)
IsReplay(f, entries, n, omit) ==
    f = [i \in 0..n |-> IF i = 0 THEN <<>>
                        ELSE IF i \in omit \/ ~First(entries, i, omit) THEN f[i - 1]
                        ELSE Written(f[i - 1], entries[i])]

LEMMA ReplayExists ==
    ASSUME NEW entries, NEW omit
    PROVE  \A n \in Nat : \E f : IsReplay(f, entries, n, omit)
<1> DEFINE S == {n \in Nat : \E f : IsReplay(f, entries, n, omit)}
<1>1. 0 \in S
  <2> DEFINE f == [i \in 0..0 |-> <<>>]
  <2>1. IsReplay(f, entries, 0, omit)
    BY DEF IsReplay
  <2> QED BY <2>1
<1>2. ASSUME NEW n \in Nat, n \in S PROVE n + 1 \in S
  <2>1. PICK f : IsReplay(f, entries, n, omit)
    BY <1>2
  <2> DEFINE g == [i \in 0..n + 1 |->
                     IF i <= n THEN f[i]
                     ELSE IF i \in omit \/ ~First(entries, i, omit) THEN f[n]
                     ELSE Written(f[n], entries[i])]
  <2>2. \A i \in 0..n : g[i] = f[i]
    OBVIOUS
  <2>3. \A i \in 0..n + 1 : g[i] = IF i = 0 THEN <<>>
                        ELSE IF i \in omit \/ ~First(entries, i, omit) THEN g[i - 1]
                        ELSE Written(g[i - 1], entries[i])
    <3> TAKE i \in 0..n + 1
    <3>1. CASE i = 0
      BY <2>1, <3>1 DEF IsReplay
    <3>2. CASE i # 0 /\ i <= n
      <4>1. i - 1 \in 0..n /\ i \in 0..n
        BY <3>2
      <4>2. g[i] = f[i] /\ g[i - 1] = f[i - 1]
        BY <2>2, <4>1
      <4>3. f[i] = IF i \in omit \/ ~First(entries, i, omit) THEN f[i - 1]
                   ELSE Written(f[i - 1], entries[i])
        BY <2>1, <3>2, <4>1 DEF IsReplay
      <4> QED BY <3>2, <4>2, <4>3
    <3>3. CASE i = n + 1
      <4>1. g[n] = f[n] /\ i - 1 = n /\ i # 0 /\ ~(i <= n)
        BY <2>2, <3>3
      <4> QED BY <4>1
    <3> QED BY <3>1, <3>2, <3>3
  <2>4. IsReplay(g, entries, n + 1, omit)
    BY <2>3 DEF IsReplay
  <2> QED BY <2>4
<1> HIDE DEF S
<1>3. Nat \subseteq S
  BY <1>1, <1>2, Counting
<1> QED BY <1>3 DEF S

\* Two replays of one log agree as far as both go.
LEMMA ReplaysAgree ==
    ASSUME NEW entries, NEW omit, NEW f, NEW g, NEW n \in Nat, NEW m \in Nat,
           IsReplay(f, entries, n, omit), IsReplay(g, entries, m, omit), m <= n
    PROVE  \A i \in 0..m : f[i] = g[i]
<1> DEFINE S == {i \in Nat : i <= m => f[i] = g[i]}
<1>1. 0 \in S
  BY DEF IsReplay
<1>2. ASSUME NEW i \in Nat, i \in S PROVE i + 1 \in S
  <2> SUFFICES ASSUME i + 1 <= m PROVE f[i + 1] = g[i + 1]
    OBVIOUS
  <2>1. i + 1 \in 0..n /\ i + 1 \in 0..m /\ i + 1 # 0 /\ (i + 1) - 1 = i
    OBVIOUS
  <2>2. f[i] = g[i]
    BY <1>2
  <2>3. f[i + 1] = IF i + 1 \in omit \/ ~First(entries, i + 1, omit) THEN f[i]
                   ELSE Written(f[i], entries[i + 1])
    BY <2>1 DEF IsReplay
  <2>4. g[i + 1] = IF i + 1 \in omit \/ ~First(entries, i + 1, omit) THEN g[i]
                   ELSE Written(g[i], entries[i + 1])
    BY <2>1 DEF IsReplay
  <2> QED BY <2>2, <2>3, <2>4
<1> HIDE DEF S
<1>3. Nat \subseteq S
  BY <1>1, <1>2, Counting
<1> QED BY <1>3 DEF S

LEMMA EffectIsReplay ==
    ASSUME NEW entries, NEW omit, NEW n \in Nat
    PROVE  \E f : IsReplay(f, entries, n, omit) /\ Effect(entries, n, omit) = f[n]
<1> DEFINE f == CHOOSE f : IsReplay(f, entries, n, omit)
<1>1. IsReplay(f, entries, n, omit)
  BY ReplayExists
<1>2. Effect(entries, n, omit) = f[n]
  BY DEF Effect, IsReplay
<1> QED BY <1>1, <1>2

LEMMA EffectOfNothing == ASSUME NEW entries, NEW omit PROVE Effect(entries, 0, omit) = <<>>
<1>1. PICK f : IsReplay(f, entries, 0, omit) /\ Effect(entries, 0, omit) = f[0]
  BY EffectIsReplay
<1> QED BY <1>1 DEF IsReplay

\* One more entry is written if it is there and its request occurs in it first.
LEMMA EffectOfNext ==
    ASSUME NEW entries, NEW omit, NEW n \in Nat
    PROVE  Effect(entries, n + 1, omit) =
             IF Takes(entries, n + 1, omit) THEN Written(Effect(entries, n, omit), entries[n + 1])
             ELSE Effect(entries, n, omit)
<1>1. PICK f : IsReplay(f, entries, n, omit) /\ Effect(entries, n, omit) = f[n]
  BY EffectIsReplay
<1>2. PICK g : IsReplay(g, entries, n + 1, omit) /\ Effect(entries, n + 1, omit) = g[n + 1]
  BY EffectIsReplay
<1>3. g[n] = f[n]
  BY <1>1, <1>2, ReplaysAgree
<1>4. n + 1 \in 0..n + 1 /\ n + 1 # 0 /\ (n + 1) - 1 = n
  OBVIOUS
<1>5. g[n + 1] = IF n + 1 \in omit \/ ~First(entries, n + 1, omit) THEN g[n]
                 ELSE Written(g[n], entries[n + 1])
  BY <1>2, <1>4 DEF IsReplay
<1> QED BY <1>1, <1>2, <1>3, <1>5 DEF Takes

\* The value is that of the entries it is made from, whatever follows them.
LEMMA EffectSame ==
    ASSUME NEW entries, NEW others, NEW omit, NEW except, NEW n \in Nat,
           \A i \in 1..n : entries[i] = others[i] /\ (i \in omit <=> i \in except)
    PROVE  Effect(entries, n, omit) = Effect(others, n, except)
<1> DEFINE S == {m \in Nat : m <= n => Effect(entries, m, omit) = Effect(others, m, except)}
<1>1. 0 \in S
  BY EffectOfNothing
<1>2. ASSUME NEW m \in Nat, m \in S PROVE m + 1 \in S
  <2> SUFFICES ASSUME m + 1 <= n
               PROVE  Effect(entries, m + 1, omit) = Effect(others, m + 1, except)
    OBVIOUS
  <2>1. Takes(entries, m + 1, omit) <=> Takes(others, m + 1, except)
    BY DEF Takes, First
  <2>2. entries[m + 1] = others[m + 1]
    OBVIOUS
  <2>3. Effect(entries, m, omit) = Effect(others, m, except)
    BY <1>2
  <2> QED BY <2>1, <2>2, <2>3, EffectOfNext
<1> HIDE DEF S
<1>3. Nat \subseteq S
  BY <1>1, <1>2, Counting
<1> QED BY <1>3 DEF S

\* Entries that are left out at the end change nothing.
LEMMA EffectOmitted ==
    ASSUME NEW entries, NEW omit, NEW n \in Nat, NEW m \in Nat, n <= m,
           \A i \in n + 1..m : i \in omit
    PROVE  Effect(entries, m, omit) = Effect(entries, n, omit)
<1> DEFINE S == {d \in Nat : n + d <= m => Effect(entries, n + d, omit) = Effect(entries, n, omit)}
<1>1. 0 \in S
  OBVIOUS
<1>2. ASSUME NEW d \in Nat, d \in S PROVE d + 1 \in S
  <2> SUFFICES ASSUME (n + d) + 1 <= m
               PROVE  Effect(entries, (n + d) + 1, omit) = Effect(entries, n, omit)
    OBVIOUS
  <2>1. n + d \in Nat /\ (n + d) + 1 \in omit
    OBVIOUS
  <2>2. Effect(entries, n + d, omit) = Effect(entries, n, omit)
    BY <1>2
  <2> QED BY <2>1, <2>2, EffectOfNext DEF Takes
<1> HIDE DEF S
<1>3. Nat \subseteq S
  BY <1>1, <1>2, Counting
<1>4. m - n \in Nat /\ n + (m - n) = m
  OBVIOUS
<1> QED BY <1>3, <1>4 DEF S

LEMMA WrittenIs ==
    ASSUME NEW value, NEW op
    PROVE  /\ op.kind = "Put" => Written(value, op) = <<MsgId(op)>>
           /\ op.kind = "Append" => Written(value, op) = Append(value, MsgId(op))
           /\ op.kind = "Get" => Written(value, op) = value
<1>1. "Put" # "Append" /\ "Put" # "Get" /\ "Append" # "Get"
  OBVIOUS
<1>2. CASE op.kind = "Put"
  BY <1>1, <1>2, Zenon DEF Written
<1>3. CASE op.kind = "Append"
  BY <1>1, <1>3, Zenon DEF Written
<1>4. CASE op.kind = "Get"
  BY <1>1, <1>4, Zenon DEF Written
<1> QED BY <1>1, <1>2, <1>3, <1>4

LEMMA WrittenType ==
    ASSUME NEW value \in Value, NEW op \in Entry
    PROVE  Written(value, op) \in Value
<1>1. MsgId(op) \in Clerk \X Nat /\ op.kind \in Kind
  BY DEF Entry, MsgId
<1>2. <<MsgId(op)>> \in Value /\ Append(value, MsgId(op)) \in Value
  BY <1>1 DEF Value
<1> QED BY <1>1, <1>2, WrittenIs DEF Kind

LEMMA EmptyIsValue == <<>> \in Value
  BY DEF Value

LEMMA EffectType ==
    ASSUME NEW entries, NEW omit, NEW n \in Nat, \A i \in 1..n : entries[i] \in Entry
    PROVE  Effect(entries, n, omit) \in Value
<1> DEFINE S == {m \in Nat : m <= n => Effect(entries, m, omit) \in Value}
<1>1. 0 \in S
  BY EffectOfNothing, EmptyIsValue
<1>2. ASSUME NEW m \in Nat, m \in S PROVE m + 1 \in S
  <2> SUFFICES ASSUME m + 1 <= n PROVE Effect(entries, m + 1, omit) \in Value
    OBVIOUS
  <2>1. entries[m + 1] \in Entry /\ Effect(entries, m, omit) \in Value
    BY <1>2
  <2> QED BY <2>1, EffectOfNext, WrittenType
<1> HIDE DEF S
<1>3. Nat \subseteq S
  BY <1>1, <1>2, Counting
<1> QED BY <1>3 DEF S

-----------------------------------------------------------------------------
(* Types *)

LEMMA EntryFacts ==
    ASSUME NEW e \in Entry
    PROVE  /\ e.client \in Clerk /\ e.msg \in Nat /\ e.try \in Nat /\ e.kind \in Kind
           /\ e.msg \in 1..Len(Program[e.client]) /\ e.msg > 0
           /\ e.try \in 1..MaxTries[e.client][e.msg]
           /\ MsgId(e) = <<e.client, e.msg>> /\ ReqId(e) = <<e.client, e.msg, e.try>>
<1>1. e.client \in Clerk /\ e.msg \in Nat /\ e.try \in Nat /\ e.kind \in Kind
  BY DEF Entry
<1>2. e.msg \in 1..Len(Program[e.client]) /\ e.try \in 1..MaxTries[e.client][e.msg]
  BY DEF Entry
<1>3. Len(Program[e.client]) \in Nat
  BY <1>1, KVAssumption
<1> QED BY <1>1, <1>2, <1>3 DEF MsgId, ReqId

LEMMA LogFacts ==
    ASSUME LogTypes
    PROVE  /\ Len(log) \in Nat /\ Len(pending) \in Nat
           /\ \A i \in 1..Len(log) : log[i] \in Entry
           /\ \A i \in 1..Len(pending) : pending[i] \in Entry
           /\ DOMAIN log = 1..Len(log) /\ DOMAIN pending = 1..Len(pending)
  BY ElementOfSeq DEF LogTypes

\* What Commit does to the log and to what is pending.
LEMMA CommitFacts ==
    ASSUME LogTypes, NEW i \in DOMAIN pending, Commit(i)
    PROVE  /\ LogTypes'
           /\ Len(log') = Len(log) + 1 /\ i \in 1..Len(pending)
           /\ \A k \in 1..Len(log) : log'[k] = log[k]
           /\ log'[Len(log) + 1] = pending[i]
           /\ Len(pending') = Len(pending) - i
           /\ \A k \in 1..Len(pending') : k + i \in 1..Len(pending) /\ pending'[k] = pending[k + i]
<1>1. log \in Seq(Entry) /\ pending \in Seq(Entry) /\ i \in 1..Len(pending)
      /\ Len(log) \in Nat /\ Len(pending) \in Nat /\ pending[i] \in Entry
  BY LogFacts DEF LogTypes
<1>2. log' = Append(log, pending[i]) /\ pending' = SubSeq(pending, i + 1, Len(pending))
  BY DEF Commit
<1>3. /\ log' \in Seq(Entry) /\ Len(log') = Len(log) + 1
      /\ \A k \in 1..Len(log) : log'[k] = log[k]
      /\ log'[Len(log) + 1] = pending[i]
  BY <1>1, <1>2, AppendProperties
<1>4. \A k \in i + 1..Len(pending) : pending[k] \in Entry
  BY <1>1, LogFacts
<1>5. /\ pending' \in Seq(Entry) /\ Len(pending') = Len(pending) - i
      /\ \A k \in 1..Len(pending') : pending'[k] = pending[(i + 1) + k - 1]
  BY <1>1, <1>2, <1>4, SubSeqProperties, SMTT(30)
<1>6. \A k \in 1..Len(pending') : k + i \in 1..Len(pending) /\ (i + 1) + k - 1 = k + i
  BY <1>1, <1>5
<1> QED BY <1>1, <1>3, <1>5, <1>6 DEF LogTypes

\* What StartOp adds to what is pending.
LEMMA StartFacts ==
    ASSUME KVTypes, ClerkBounds, NEW c \in Clerk, StartOp(c)
    PROVE  LET e == [client |-> c, msg |-> msg[c], try |-> tries[c] + 1, kind |-> kind[c]]
           IN  /\ e \in Entry /\ pending' = Append(pending, e) /\ LogTypes'
               /\ Len(pending') = Len(pending) + 1 /\ pending'[Len(pending) + 1] = e
               /\ \A k \in 1..Len(pending) : pending'[k] = pending[k]
<1> DEFINE e == [client |-> c, msg |-> msg[c], try |-> tries[c] + 1, kind |-> kind[c]]
<1>1. msg[c] \in Nat /\ tries[c] \in Nat /\ kind[c] \in Kind
  BY DEF KVTypes, ClerkTypes
<1>2. msg[c] \in 1..Len(Program[c]) /\ tries[c] < MaxTries[c][msg[c]]
  <2>1. msg[c] > 0 /\ msg[c] <= Len(Program[c])
    BY DEF ClerkBounds, StartOp
  <2>2. Len(Program[c]) \in Nat
    BY KVAssumption
  <2> QED BY <1>1, <2>1, <2>2 DEF StartOp
<1>3. MaxTries[c][msg[c]] \in Nat
  BY <1>2, KVAssumption, ElementOfSeq
<1>4. e \in Entry
  BY <1>1, <1>2, <1>3 DEF Entry
<1>5. pending' = Append(pending, e)
  BY DEF StartOp, Op
<1>6. pending \in Seq(Entry)
  BY DEF KVTypes, LogTypes
<1> HIDE DEF e
<1>7. /\ pending' \in Seq(Entry) /\ Len(pending') = Len(pending) + 1
      /\ pending'[Len(pending) + 1] = e /\ \A k \in 1..Len(pending) : pending'[k] = pending[k]
  BY <1>4, <1>5, <1>6, AppendProperties
<1>8. log' \in Seq(Entry)
  BY DEF KVTypes, LogTypes, StartOp
<1> QED BY <1>4, <1>5, <1>7, <1>8 DEF LogTypes, e

LEMMA LogTypesStep == ASSUME KVTypes, ClerkBounds, [Next]_vars PROVE LogTypes'
<1>1. ASSUME NEW c \in Clerk, StartOp(c) PROVE LogTypes'
  BY <1>1, StartFacts
<1>2. ASSUME NEW i \in DOMAIN pending, Commit(i) PROVE LogTypes'
  BY <1>2, CommitFacts DEF KVTypes
<1>3. ASSUME UNCHANGED raftVars PROVE LogTypes'
  BY <1>3 DEF KVTypes, LogTypes, raftVars
<1>4. ASSUME NEW c \in Clerk, Begin(c) \/ CallFails(c) \/ MakeChannel(c) \/ GetAnswer(c) \/ TimeOut(c)
      PROVE  UNCHANGED raftVars
  BY <1>4 DEF Begin, CallFails, MakeChannel, GetAnswer, TimeOut
<1>5. ASSUME NEW s \in Server, \/ Deliver(s) \/ SaveLastApplied(s) \/ WaitApplyCh(s) \/ Crash(s)
                               \/ \E t \in Server : InstallSnapshot(s, t)
      PROVE  UNCHANGED raftVars
  BY <1>5 DEF Deliver, SaveLastApplied, WaitApplyCh, Crash, InstallSnapshot
<1> QED BY <1>1, <1>2, <1>3, <1>4, <1>5 DEF Next, vars

LEMMA ServerFacts ==
    /\ \A s \in Server : s \in Nat /\ (s + 1) % NServer \in Server
    /\ 0 \in Server
  BY KVAssumption DEF Server

LEMMA NextServerType ==
    ASSUME leaderId \in [Clerk -> Server], NEW c \in Clerk, NextServer(c)
    PROVE  leaderId' \in [Clerk -> Server]
<1>1. (leaderId[c] + 1) % NServer \in Server
  BY ServerFacts
<1> QED BY <1>1 DEF NextServer

LEMMA ClerkTypesStep ==
    ASSUME KVTypes, ClerkBounds, Awaited, [Next]_vars
    PROVE  ClerkTypes' /\ ClerkBounds'
<1> USE DEF KVTypes
<1>1. ASSUME NEW c \in Clerk, Begin(c) PROVE ClerkTypes' /\ ClerkBounds'
  <2>1. Program[c] \in Seq(SUBSET Kind) /\ msg[c] \in Nat /\ Len(Program[c]) \in Nat
    BY KVAssumption DEF ClerkTypes, Kind
  <2>2. PICK k \in Program[c][msg[c] + 1] : kind' = [kind EXCEPT ![c] = k]
    BY <1>1 DEF Begin
  <2>3. msg[c] + 1 \in 1..Len(Program[c])
    BY <1>1, <2>1 DEF Begin
  <2>4. k \in Kind
    BY <2>1, <2>3, ElementOfSeq
  <2>5. Len(log) \in Nat
    BY DEF LogTypes
  <2>6. MaxTries[c][msg[c] + 1] \in Nat
    BY <2>3, KVAssumption, ElementOfSeq
  <2>7. ClerkTypes'
    BY <1>1, <2>1, <2>2, <2>4, <2>5 DEF Begin, ClerkTypes, Place
  <2>8. ClerkBounds'
    BY <1>1, <2>1, <2>3, <2>6 DEF Begin, ClerkBounds, ClerkTypes
  <2> QED BY <2>7, <2>8
<1>2. ASSUME NEW c \in Clerk, CallFails(c) PROVE ClerkTypes' /\ ClerkBounds'
  BY <1>2, ServerFacts DEF CallFails, NextServer, ClerkTypes, ClerkBounds
<1>3. ASSUME NEW c \in Clerk, StartOp(c) PROVE ClerkTypes' /\ ClerkBounds'
  <2>1. MaxTries[c][msg[c]] \in Nat /\ msg[c] # 0
    <3>1. msg[c] \in 1..Len(Program[c])
      BY <1>3, KVAssumption DEF StartOp, ClerkBounds, ClerkTypes
    <3> QED BY <3>1, KVAssumption, ElementOfSeq
  <2> QED BY <1>3, <2>1 DEF StartOp, ClerkTypes, ClerkBounds, Place
<1>4. ASSUME NEW c \in Clerk, MakeChannel(c) PROVE ClerkTypes' /\ ClerkBounds'
  BY <1>4 DEF MakeChannel, ClerkTypes, ClerkBounds, Place
<1>5. ASSUME NEW c \in Clerk, GetAnswer(c) PROVE ClerkTypes' /\ ClerkBounds'
  <2>1. Channel(c) \in Seq(Value) /\ Channel(c) # <<>>
    BY <1>5 DEF GetAnswer, Awaited, ChannelTypes, OpenChannels, Channel, ClerkTypes
  <2>2. Head(Channel(c)) \in Value
    BY <2>1
  <2>3. /\ leaderId' \in [Clerk -> Server] /\ result' \in [Clerk -> Value]
        /\ place' \in [Clerk -> Place]
    <3>1. CASE Returns(c, Head(Channel(c)))
      BY <2>2, <3>1, EmptyIsValue DEF Returns, ClerkTypes, Place
    <3>2. CASE CallAgain(c) /\ NextServer(c) /\ UNCHANGED result
      BY <3>2, NextServerType DEF CallAgain, ClerkTypes, Place
    <3> QED BY <1>5, <3>1, <3>2 DEF GetAnswer
  <2> QED BY <1>5, <2>3 DEF GetAnswer, Returns, CallAgain, ClerkTypes, ClerkBounds
<1>6. ASSUME NEW c \in Clerk, TimeOut(c) PROVE ClerkTypes' /\ ClerkBounds'
  <2>1. leaderId' \in [Clerk -> Server]
    BY <1>6, NextServerType DEF TimeOut, ClerkTypes
  <2> QED BY <1>6, <2>1 DEF TimeOut, CallAgain, ClerkTypes, ClerkBounds, Place
<1>7. ASSUME NEW s \in Server, Crash(s) PROVE ClerkTypes' /\ ClerkBounds'
  BY <1>7, ServerFacts DEF Crash, ClerkTypes, ClerkBounds, Place
<1>8. ASSUME UNCHANGED clerkVars PROVE ClerkTypes' /\ ClerkBounds'
  BY <1>8 DEF clerkVars, ClerkTypes, ClerkBounds
<1>9. ASSUME NEW s \in Server, \/ Deliver(s) \/ SaveLastApplied(s) \/ WaitApplyCh(s)
                               \/ \E t \in Server : InstallSnapshot(s, t)
      PROVE  UNCHANGED clerkVars
  BY <1>9 DEF Deliver, SaveLastApplied, WaitApplyCh, InstallSnapshot
<1>10. ASSUME NEW i \in DOMAIN pending, Commit(i) PROVE UNCHANGED clerkVars
  BY <1>10 DEF Commit
<1> QED BY <1>1, <1>2, <1>3, <1>4, <1>5, <1>6, <1>7, <1>8, <1>9, <1>10 DEF Next, vars

\* What a server writes when it handles an entry.
ToApply(s) == log[handling[s]].kind # "Get" /\ ~IsRepeated(s, log[handling[s]])

LEMMA WaitFacts ==
    ASSUME KVTypes, Positions, NEW s \in Server, WaitApplyCh(s)
    PROVE  /\ handling[s] \in 1..Len(log) /\ handling[s] = lastApplied[s]
           /\ log[handling[s]] \in Entry
           /\ data' = [data EXCEPT ![s] = IF ToApply(s) THEN Written(@, log[handling[s]]) ELSE @]
           /\ lastApplies' = [lastApplies EXCEPT ![s][log[handling[s]].client] =
                                IF ToApply(s) THEN log[handling[s]].msg ELSE @]
           /\ data' \in [Server -> Value] /\ lastApplies' \in [Server -> [Clerk -> Nat]]
<1>1. handling[s] # 0 /\ handling[s] \in Nat
  BY DEF WaitApplyCh, KVTypes, IndexTypes
<1>2. handling[s] \in 1..Len(log) /\ handling[s] = lastApplied[s]
  BY <1>1, LogFacts DEF Positions, PositionsAt, KVTypes
<1> DEFINE op == log[handling[s]]
<1>3. op \in Entry
  BY <1>2, LogFacts DEF KVTypes
<1>4. /\ data' = [data EXCEPT ![s] = IF ToApply(s) THEN Written(@, op) ELSE @]
      /\ lastApplies' = [lastApplies EXCEPT ![s][op.client] = IF ToApply(s) THEN op.msg ELSE @]
  BY DEF WaitApplyCh, ToApply
<1>5. data' \in [Server -> Value]
  BY <1>3, <1>4, WrittenType DEF KVTypes, StoreTypes
<1>6. lastApplies' \in [Server -> [Clerk -> Nat]]
  BY <1>3, <1>4, EntryFacts DEF KVTypes, StoreTypes
<1> QED BY <1>2, <1>3, <1>4, <1>5, <1>6

\* What a save leaves on the disk.
LEMMA SaveFacts ==
    ASSUME KVTypes, Positions, NEW s \in Server, WaitApplyCh(s)
    PROVE  /\ disk' \in [Server -> Saved]
           /\ \A t \in Server \ {s} : disk'[t] = disk[t]
           /\ \/ disk'[s] = disk[s] /\ lab = "3B"
              \/ /\ disk'[s].store = [index |-> handling[s], data |-> data'[s],
                                      last |-> lastApplies'[s]]
                 /\ \/ lab = "3A" /\ disk'[s].applied = disk[s].applied
                    \/ lab = "3B" /\ disk'[s].applied = handling[s]
<1> DEFINE store == [index |-> handling[s], data |-> data'[s], last |-> lastApplies'[s]]
<1>1. /\ store \in [index : Nat, data : Value, last : [Clerk -> Nat]]
      /\ handling[s] \in Nat /\ disk \in [Server -> Saved]
  BY WaitFacts DEF KVTypes, IndexTypes, StoreTypes
<1>2. Store(s) = store
  BY DEF Store
<1> HIDE DEF store
<1>3. CASE Save3A(s)
  BY <1>1, <1>2, <1>3 DEF Save3A, Saved, store
<1>4. CASE Save3B(s)
  BY <1>1, <1>2, <1>4 DEF Save3B, Saved, store
<1> QED BY <1>3, <1>4 DEF WaitApplyCh

LEMMA StoreTypesStep == ASSUME KVTypes, Positions, [Next]_vars PROVE StoreTypes'
<1> USE DEF KVTypes
<1>1. ASSUME NEW s \in Server, SaveLastApplied(s) PROVE StoreTypes'
  BY <1>1 DEF SaveLastApplied, StoreTypes, IndexTypes, Saved
<1>2. ASSUME NEW s \in Server, WaitApplyCh(s) PROVE StoreTypes'
  BY <1>2, WaitFacts, SaveFacts DEF StoreTypes, WaitApplyCh
<1>3. ASSUME NEW s \in Server, NEW t \in Server, InstallSnapshot(s, t) PROVE StoreTypes'
  BY <1>3 DEF InstallSnapshot, StoreTypes, Saved
<1>4. ASSUME NEW s \in Server, Crash(s) PROVE StoreTypes'
  <2>1. disk[s] \in Saved
    BY DEF StoreTypes
  <2>2. disk[s].store.index + 1 .. disk[s].applied \subseteq Nat
    BY <2>1 DEF Saved
  <2>3. data' \in [Server -> Value] /\ lastApplies' \in [Server -> [Clerk -> Nat]]
    BY <1>4, <2>1 DEF Crash, StoreTypes, Saved
  <2>4. lost' \in [Server -> SUBSET Nat]
    BY <1>4, <2>2 DEF Crash, StoreTypes
  <2> QED BY <1>4, <2>3, <2>4 DEF Crash, StoreTypes
<1>5. ASSUME UNCHANGED <<data, lastApplies, disk, lost>> PROVE StoreTypes'
  BY <1>5 DEF StoreTypes
<1>6. ASSUME NEW c \in Clerk,
             Begin(c) \/ CallFails(c) \/ StartOp(c) \/ MakeChannel(c) \/ GetAnswer(c) \/ TimeOut(c)
      PROVE  UNCHANGED <<data, lastApplies, disk, lost>>
  BY <1>6 DEF Begin, CallFails, StartOp, MakeChannel, GetAnswer, TimeOut, serverVars, diskVars
<1>7. ASSUME NEW i \in DOMAIN pending, Commit(i) PROVE UNCHANGED <<data, lastApplies, disk, lost>>
  BY <1>7 DEF Commit, serverVars, diskVars
<1>8. ASSUME NEW s \in Server, Deliver(s) PROVE UNCHANGED <<data, lastApplies, disk, lost>>
  BY <1>8 DEF Deliver, diskVars
<1>9. UNCHANGED vars => UNCHANGED <<data, lastApplies, disk, lost>>
  BY DEF vars, serverVars, diskVars
<1> QED BY <1>1, <1>2, <1>3, <1>4, <1>5, <1>6, <1>7, <1>8, <1>9 DEF Next

LEMMA IndexTypesStep == ASSUME KVTypes, [Next]_vars PROVE IndexTypes'
<1> USE DEF KVTypes, IndexTypes
<1>1. ASSUME NEW s \in Server, Deliver(s) PROVE IndexTypes'
  <2> DEFINE sent == lab = "3A"
  <2>1. sent \in BOOLEAN /\ unsaved' = [unsaved EXCEPT ![s] = sent]
    BY <1>1 DEF Deliver
  <2> HIDE DEF sent
  <2>2. unsaved' \in [Server -> BOOLEAN]
    BY <2>1
  <2>3. /\ handling' = [handling EXCEPT ![s] = lastApplied[s] + 1]
        /\ lastApplied' = [lastApplied EXCEPT ![s] = @ + 1]
        /\ UNCHANGED <<upto, lab, crashes>>
    BY <1>1 DEF Deliver, diskVars
  <2>4. handling' \in [Server -> Nat]
    BY <2>3
  <2>5. lastApplied' \in [Server -> Nat]
    BY <2>3
  <2> QED BY <2>2, <2>3, <2>4, <2>5
<1>2. ASSUME NEW s \in Server, SaveLastApplied(s) \/ WaitApplyCh(s) PROVE IndexTypes'
  <2>1. CASE SaveLastApplied(s)
    BY <2>1 DEF SaveLastApplied
  <2>2. CASE WaitApplyCh(s)
    <3>1. /\ upto' = [upto EXCEPT ![s] = handling[s]] /\ handling' = [handling EXCEPT ![s] = 0]
          /\ UNCHANGED <<lab, lastApplied, unsaved, crashes>>
      BY <2>2 DEF WaitApplyCh
    <3> QED BY <3>1
  <2> QED BY <1>2, <2>1, <2>2
<1>3. ASSUME NEW s \in Server, NEW t \in Server, InstallSnapshot(s, t) PROVE IndexTypes'
  BY <1>3 DEF InstallSnapshot, StoreTypes, Saved
<1>4. ASSUME NEW s \in Server, Crash(s) PROVE IndexTypes'
  <2>1. disk[s].applied \in Nat /\ disk[s].store.index \in Nat
    BY DEF StoreTypes, Saved
  <2> QED BY <1>4, <2>1, KVAssumption DEF Crash
<1>5. ASSUME UNCHANGED <<handling, upto, lastApplied, unsaved, lab, crashes>> PROVE IndexTypes'
  BY <1>5
<1>6. ASSUME NEW c \in Clerk,
             Begin(c) \/ CallFails(c) \/ StartOp(c) \/ MakeChannel(c) \/ GetAnswer(c) \/ TimeOut(c)
      PROVE  UNCHANGED <<handling, upto, lastApplied, unsaved, lab, crashes>>
  BY <1>6 DEF Begin, CallFails, StartOp, MakeChannel, GetAnswer, TimeOut, serverVars, diskVars
<1>7. ASSUME NEW i \in DOMAIN pending, Commit(i)
      PROVE  UNCHANGED <<handling, upto, lastApplied, unsaved, lab, crashes>>
  BY <1>7 DEF Commit, serverVars, diskVars
<1>8. UNCHANGED vars => UNCHANGED <<handling, upto, lastApplied, unsaved, lab, crashes>>
  BY DEF vars, serverVars, diskVars
<1> QED BY <1>1, <1>2, <1>3, <1>4, <1>5, <1>6, <1>7, <1>8 DEF Next

\* The channels after each step: made, emptied or dropped by the clerk whose they are,
\* filled by the server, and gone with it.
Drops(c) == DropChannel(c, <<>>) \/ DropChannel(c, Channel(c))
LEMMA DropFacts ==
    ASSUME KVTypes, Awaited, NEW c \in Clerk, place[c] = "waiting", Drops(c)
    PROVE  /\ ChannelTypes'
           /\ \A s \in Server : s # leaderId[c] => msgNotify'[s] = msgNotify[s]
           /\ \A r \in DOMAIN msgNotify'[leaderId[c]] :
                /\ r \in DOMAIN msgNotify[leaderId[c]]
                /\ \/ msgNotify'[leaderId[c]][r] = msgNotify[leaderId[c]][r]
                   \/ msgNotify'[leaderId[c]][r] = <<>>
           /\ DOMAIN msgNotify[leaderId[c]] \subseteq
                DOMAIN msgNotify'[leaderId[c]] \cup {NotifyKey(Op(c))}
<1>0. PICK unread \in {<<>>, Channel(c)} : DropChannel(c, unread)
  BY DEF Drops
<1> DEFINE s0 == leaderId[c]  ours == msgNotify[s0]  key == NotifyKey(Op(c))
           left == IF kind[c] = "Get" THEN [ours EXCEPT ![key] = unread]
                   ELSE [r \in DOMAIN ours \ {key} |-> ours[r]]
<1>1. s0 \in Server /\ key \in DOMAIN ours /\ OpenChannels(ours)
  BY DEF KVTypes, ClerkTypes, ChannelTypes, Awaited
<1>2. msgNotify' = [msgNotify EXCEPT ![s0] = left] /\ msgNotify = [s \in Server |-> msgNotify[s]]
  BY <1>0 DEF DropChannel, KVTypes, ChannelTypes
<1>3. unread \in {<<>>, ours[key]} /\ <<>> \in Seq(Value)
  BY <1>0 DEF Channel
<1>4. /\ OpenChannels(left) /\ DOMAIN left \subseteq DOMAIN ours
      /\ \A r \in DOMAIN left : left[r] = ours[r] \/ left[r] = <<>>
      /\ DOMAIN ours \subseteq DOMAIN left \cup {key}
  <2>1. CASE kind[c] = "Get"
    <3>1. left = [r \in DOMAIN ours |-> IF r = key THEN unread ELSE ours[r]]
      BY <1>1, <2>1 DEF OpenChannels
    <3> HIDE DEF left
    <3> QED BY <1>1, <1>3, <3>1 DEF OpenChannels
  <2>2. CASE kind[c] # "Get"
    <3>1. left = [r \in DOMAIN ours \ {key} |-> ours[r]]
      BY <2>2
    <3> HIDE DEF left
    <3> QED BY <1>1, <3>1 DEF OpenChannels
  <2> QED BY <2>1, <2>2
<1> HIDE DEF left, ours, key
<1>5. /\ msgNotify' = [s \in Server |-> msgNotify'[s]] /\ msgNotify'[s0] = left
      /\ \A s \in Server : s # s0 => msgNotify'[s] = msgNotify[s]
  BY <1>1, <1>2
<1>6. ChannelTypes'
  BY <1>4, <1>5 DEF ChannelTypes, KVTypes, OpenChannels
<1> QED BY <1>4, <1>5, <1>6 DEF ours, key

LEMMA MakeFacts ==
    ASSUME KVTypes, NEW c \in Clerk, MakeChannel(c)
    PROVE  /\ ChannelTypes'
           /\ \A s \in Server : s # leaderId[c] => msgNotify'[s] = msgNotify[s]
           /\ msgNotify'[leaderId[c]] = WithChannel(msgNotify[leaderId[c]], NotifyKey(Op(c)))
<1> DEFINE s0 == leaderId[c]  new == WithChannel(msgNotify[s0], NotifyKey(Op(c)))
<1>1. s0 \in Server /\ OpenChannels(msgNotify[s0])
  BY DEF KVTypes, ClerkTypes, ChannelTypes
<1>2. msgNotify' = [msgNotify EXCEPT ![s0] = new] /\ msgNotify = [s \in Server |-> msgNotify[s]]
  BY DEF MakeChannel, KVTypes, ChannelTypes
<1>3. OpenChannels(new)
  <2>1. <<>> \in Seq(Value)
    OBVIOUS
  <2> QED BY <1>1, <2>1 DEF OpenChannels, WithChannel
<1> HIDE DEF new
<1>4. /\ msgNotify' = [s \in Server |-> msgNotify'[s]] /\ msgNotify'[s0] = new
      /\ \A s \in Server : s # s0 => msgNotify'[s] = msgNotify[s]
  BY <1>1, <1>2
<1>5. ChannelTypes'
  BY <1>3, <1>4 DEF ChannelTypes, KVTypes, OpenChannels
<1> QED BY <1>4, <1>5 DEF new

LEMMA FillFacts ==
    ASSUME KVTypes, Positions, NEW s \in Server, WaitApplyCh(s)
    PROVE  LET key == NotifyKey(log[handling[s]])
           IN  /\ ChannelTypes'
               /\ \A t \in Server : t # s => msgNotify'[t] = msgNotify[t]
               /\ DOMAIN msgNotify'[s] = DOMAIN msgNotify[s]
               /\ \A r \in DOMAIN msgNotify[s] :
                    \/ msgNotify'[s][r] = msgNotify[s][r]
                    \/ r = key /\ msgNotify'[s][r] = <<data'[s]>>
<1> DEFINE key == NotifyKey(log[handling[s]])
<1>1. msgNotify = [t \in Server |-> msgNotify[t]] /\ OpenChannels(msgNotify[s])
  BY DEF KVTypes, ChannelTypes
<1>2. CASE UNCHANGED msgNotify
  BY <1>2 DEF KVTypes, ChannelTypes
<1>3. CASE msgNotify' = [msgNotify EXCEPT ![s][key] = <<data'[s]>>]
  <2> HIDE DEF key
  <2> DEFINE new == [msgNotify[s] EXCEPT ![key] = <<data'[s]>>]
  <2>1. new = [r \in DOMAIN msgNotify[s] |-> IF r = key THEN <<data'[s]>> ELSE msgNotify[s][r]]
    BY <1>1 DEF OpenChannels
  <2>2. <<data'[s]>> \in Seq(Value)
    BY WaitFacts
  <2>3. OpenChannels(new)
    BY <1>1, <2>1, <2>2 DEF OpenChannels
  <2>4. /\ msgNotify' = [t \in Server |-> msgNotify'[t]] /\ msgNotify'[s] = new
        /\ \A t \in Server : t # s => msgNotify'[t] = msgNotify[t]
    BY <1>1, <1>3
  <2> HIDE DEF new
  <2>5. ChannelTypes'
    BY <2>3, <2>4 DEF ChannelTypes, KVTypes, OpenChannels
  <2> QED BY <2>1, <2>4, <2>5 DEF key
<1> QED BY <1>2, <1>3 DEF WaitApplyCh

LEMMA ChannelTypesStep == ASSUME KVTypes, Awaited, Positions, [Next]_vars PROVE ChannelTypes'
<1>1. ASSUME NEW c \in Clerk, GetAnswer(c) \/ TimeOut(c) PROVE ChannelTypes'
  BY <1>1, DropFacts DEF GetAnswer, TimeOut, Drops
<1>2. ASSUME NEW c \in Clerk, MakeChannel(c) PROVE ChannelTypes'
  BY <1>2, MakeFacts
<1>3. ASSUME NEW s \in Server, WaitApplyCh(s) PROVE ChannelTypes'
  BY <1>3, FillFacts
<1>4. ASSUME NEW s \in Server, Crash(s) PROVE ChannelTypes'
  <2>1. msgNotify' = [msgNotify EXCEPT ![s] = NoChannels] /\ msgNotify = [t \in Server |-> msgNotify[t]]
    BY <1>4 DEF Crash, KVTypes, ChannelTypes
  <2>2. OpenChannels(NoChannels)
    BY DEF OpenChannels, NoChannels
  <2>3. \A t \in Server : OpenChannels(msgNotify[t])
    BY DEF KVTypes, ChannelTypes
  <2> QED BY <2>1, <2>2, <2>3 DEF ChannelTypes
<1>5. ASSUME UNCHANGED msgNotify PROVE ChannelTypes'
  BY <1>5 DEF KVTypes, ChannelTypes
<1>6. ASSUME NEW c \in Clerk, Begin(c) \/ CallFails(c) \/ StartOp(c) PROVE UNCHANGED msgNotify
  BY <1>6 DEF Begin, CallFails, StartOp, serverVars
<1>7. ASSUME NEW i \in DOMAIN pending, Commit(i) PROVE UNCHANGED msgNotify
  BY <1>7 DEF Commit, serverVars
<1>8. ASSUME NEW s \in Server,
             Deliver(s) \/ SaveLastApplied(s) \/ \E t \in Server : InstallSnapshot(s, t)
      PROVE  UNCHANGED msgNotify
  BY <1>8 DEF Deliver, SaveLastApplied, InstallSnapshot
<1>9. UNCHANGED vars => UNCHANGED msgNotify
  BY DEF vars, serverVars
<1> QED BY <1>1, <1>2, <1>3, <1>4, <1>5, <1>6, <1>7, <1>8, <1>9 DEF Next

\* The key of one clerk is never that of another.
LEMMA KeysDiffer ==
    ASSUME NEW c, NEW d, c # d
    PROVE  NotifyKey(Op(c)) # NotifyKey(Op(d))
  BY DEF NotifyKey, ReqId, Op

LEMMA AwaitedStep == ASSUME KVTypes, Awaited, Positions, [Next]_vars PROVE Awaited'
<1> USE DEF KVTypes, ClerkTypes
<1>1. ASSUME NEW c \in Clerk, Begin(c) \/ StartOp(c) PROVE Awaited'
  <2>1. /\ place'[c] # "waiting" /\ UNCHANGED <<leaderId, msgNotify>>
        /\ \A d \in Clerk : d # c => place'[d] = place[d] /\ NotifyKey(Op(d))' = NotifyKey(Op(d))
    BY <1>1 DEF Begin, StartOp, serverVars, NotifyKey, ReqId, Op
  <2> QED BY <2>1 DEF Awaited
<1>2. ASSUME NEW c \in Clerk, CallFails(c) PROVE Awaited'
  <2>1. /\ place[c] # "waiting" /\ UNCHANGED <<place, msg, tries, kind, msgNotify>>
        /\ \A d \in Clerk : d # c => leaderId'[d] = leaderId[d]
    BY <1>2 DEF CallFails, serverVars, NextServer
  <2> QED BY <2>1 DEF Awaited, NotifyKey, ReqId, Op
<1>3. ASSUME NEW c \in Clerk, MakeChannel(c) PROVE Awaited'
  <2>1. /\ UNCHANGED <<msg, tries, kind, leaderId>>
        /\ \A d \in Clerk : NotifyKey(Op(d))' = NotifyKey(Op(d))
        /\ \A d \in Clerk : d # c => place'[d] = place[d]
    BY <1>3 DEF MakeChannel, NotifyKey, ReqId, Op
  <2>2. /\ DOMAIN msgNotify'[leaderId[c]] = DOMAIN msgNotify[leaderId[c]] \cup {NotifyKey(Op(c))}
        /\ \A s \in Server : s # leaderId[c] => msgNotify'[s] = msgNotify[s]
    BY <1>3, MakeFacts DEF WithChannel
  <2>3. \A d \in Clerk : leaderId[d] \in Server
    OBVIOUS
  <2> QED BY <2>1, <2>2, <2>3 DEF Awaited
<1>4. ASSUME NEW c \in Clerk, GetAnswer(c) \/ TimeOut(c) PROVE Awaited'
  <2>1. /\ place'[c] # "waiting" /\ place[c] = "waiting" /\ Drops(c)
        /\ \A d \in Clerk : d # c => place'[d] = place[d] /\ leaderId'[d] = leaderId[d]
        /\ \A d \in Clerk : NotifyKey(Op(d))' = NotifyKey(Op(d))
    BY <1>4 DEF GetAnswer, TimeOut, Drops, Returns, CallAgain, NextServer, NotifyKey, ReqId, Op
  <2>2. /\ DOMAIN msgNotify[leaderId[c]] \subseteq
             DOMAIN msgNotify'[leaderId[c]] \cup {NotifyKey(Op(c))}
        /\ \A s \in Server : s # leaderId[c] => msgNotify'[s] = msgNotify[s]
    BY <2>1, DropFacts
  <2>3. \A d \in Clerk : leaderId[d] \in Server
    OBVIOUS
  <2>4. ASSUME NEW d \in Clerk, place'[d] = "waiting"
        PROVE  NotifyKey(Op(d))' \in DOMAIN msgNotify'[leaderId'[d]]
    <3>1. d # c /\ NotifyKey(Op(d))' = NotifyKey(Op(d)) /\ leaderId'[d] = leaderId[d]
      BY <2>1, <2>4
    <3>2. NotifyKey(Op(d)) \in DOMAIN msgNotify[leaderId[d]]
      BY <2>1, <2>4, <3>1 DEF Awaited
    <3>3. NotifyKey(Op(d)) # NotifyKey(Op(c))
      BY <3>1, KeysDiffer
    <3> QED BY <2>2, <2>3, <3>1, <3>2, <3>3
  <2> QED BY <2>4 DEF Awaited
<1>5. ASSUME NEW s \in Server, WaitApplyCh(s) PROVE Awaited'
  <2>1. UNCHANGED <<place, leaderId, msg, tries, kind>>
    BY <1>5 DEF WaitApplyCh, clerkVars
  <2>2. \A t \in Server : DOMAIN msgNotify'[t] = DOMAIN msgNotify[t]
    BY <1>5, FillFacts
  <2> QED BY <2>1, <2>2 DEF Awaited, NotifyKey, ReqId, Op
<1>6. ASSUME NEW s \in Server, Crash(s) PROVE Awaited'
  <2>1. /\ UNCHANGED <<msg, tries, kind>>
        /\ \A t \in Server : t # s => msgNotify'[t] = msgNotify[t]
        /\ \A d \in Clerk : place'[d] = "waiting" =>
             place[d] = "waiting" /\ leaderId[d] # s /\ leaderId'[d] = leaderId[d]
    BY <1>6 DEF Crash, ChannelTypes
  <2> QED BY <2>1 DEF Awaited, NotifyKey, ReqId, Op
<1>7. ASSUME UNCHANGED <<place, leaderId, msg, tries, kind, msgNotify>> PROVE Awaited'
  BY <1>7 DEF Awaited, NotifyKey, ReqId, Op
<1>8. ASSUME NEW i \in DOMAIN pending, Commit(i)
      PROVE  UNCHANGED <<place, leaderId, msg, tries, kind, msgNotify>>
  BY <1>8 DEF Commit, clerkVars, serverVars
<1>9. ASSUME NEW s \in Server,
             Deliver(s) \/ SaveLastApplied(s) \/ \E t \in Server : InstallSnapshot(s, t)
      PROVE  UNCHANGED <<place, leaderId, msg, tries, kind, msgNotify>>
  BY <1>9 DEF Deliver, SaveLastApplied, InstallSnapshot, clerkVars
<1>10. UNCHANGED vars => UNCHANGED <<place, leaderId, msg, tries, kind, msgNotify>>
  BY DEF vars, clerkVars, serverVars
<1> QED BY <1>1, <1>2, <1>3, <1>4, <1>5, <1>6, <1>7, <1>8, <1>9, <1>10 DEF Next

-----------------------------------------------------------------------------
(* The order of a clerk's entries *)

\* A new attempt comes after all that its clerk has started before.
LEMMA OrderedStep == ASSUME KVTypes, ClerkBounds, Ordered, Latest, [Next]_vars PROVE Ordered'
<1> USE DEF KVTypes
<1>1. ASSUME NEW c \in Clerk, StartOp(c) PROVE Ordered'
  <2> DEFINE e == [client |-> c, msg |-> msg[c], try |-> tries[c] + 1, kind |-> kind[c]]
  <2>1. /\ e \in Entry /\ Len(pending') = Len(pending) + 1 /\ pending'[Len(pending) + 1] = e
        /\ \A k \in 1..Len(pending) : pending'[k] = pending[k]
        /\ log' = log
    BY <1>1, StartFacts DEF StartOp
  <2>2. msg[c] \in Nat /\ tries[c] \in Nat
    BY DEF ClerkTypes
  <2>3. ASSUME NEW f \in Entry, Started(f) PROVE Before(f, e)
    <3>1. f.msg \in Nat /\ f.try \in Nat
      BY EntryFacts
    <3> QED BY <2>2, <2>3, <3>1 DEF Started, StartedBy, Before
  <2> HIDE DEF e
  <2>4. /\ \A i \in 1..Len(log) : Before(log[i], e)
        /\ \A i \in 1..Len(pending) : Before(pending[i], e)
    BY <2>3, LogFacts DEF Latest
  <2>5. Len(log) \in Nat /\ Len(pending) \in Nat
    BY LogFacts
  <2>6. Sorted(pending)'
    <3> SUFFICES ASSUME NEW i \in 1..Len(pending'), NEW j \in 1..Len(pending'), i < j
                 PROVE  Before(pending'[i], pending'[j])
      BY DEF Sorted
    <3>1. i \in 1..Len(pending) /\ pending'[i] = pending[i]
      BY <2>1, <2>5
    <3>2. CASE j \in 1..Len(pending)
      BY <2>1, <3>1, <3>2 DEF Ordered, Sorted
    <3>3. CASE j = Len(pending) + 1
      BY <2>1, <2>4, <3>1, <3>3
    <3> QED BY <2>1, <2>5, <3>2, <3>3
  <2>7. ASSUME NEW i \in 1..Len(log'), NEW j \in 1..Len(pending')
        PROVE  Before(log'[i], pending'[j])
    <3>1. CASE j \in 1..Len(pending)
      BY <2>1, <3>1 DEF Ordered
    <3>2. CASE j = Len(pending) + 1
      BY <2>1, <2>4, <3>2
    <3> QED BY <2>1, <2>5, <3>1, <3>2
  <2>8. Sorted(log)'
    BY <2>1 DEF Ordered, Sorted
  <2> QED BY <2>6, <2>7, <2>8 DEF Ordered
<1>2. ASSUME NEW n \in DOMAIN pending, Commit(n) PROVE Ordered'
  <2>1. /\ Len(log') = Len(log) + 1 /\ n \in 1..Len(pending)
        /\ \A k \in 1..Len(log) : log'[k] = log[k]
        /\ log'[Len(log) + 1] = pending[n]
        /\ Len(pending') = Len(pending) - n
        /\ \A k \in 1..Len(pending') : k + n \in 1..Len(pending) /\ pending'[k] = pending[k + n]
    BY <1>2, CommitFacts
  <2>2. Len(log) \in Nat /\ Len(pending) \in Nat /\ Len(pending') \in Nat
    BY <1>2, LogFacts, CommitFacts DEF LogTypes
  <2>3. Sorted(log)'
    <3> SUFFICES ASSUME NEW i \in 1..Len(log'), NEW j \in 1..Len(log'), i < j
                 PROVE  Before(log'[i], log'[j])
      BY DEF Sorted
    <3>1. i \in 1..Len(log) /\ log'[i] = log[i]
      BY <2>1, <2>2
    <3>2. CASE j \in 1..Len(log)
      BY <2>1, <3>1, <3>2 DEF Ordered, Sorted
    <3>3. CASE j = Len(log) + 1
      BY <2>1, <3>1, <3>3 DEF Ordered
    <3>4. j \in 1..Len(log) \/ j = Len(log) + 1
      BY <2>1, <2>2
    <3> QED BY <3>2, <3>3, <3>4
  <2>4. Sorted(pending)'
    <3> SUFFICES ASSUME NEW i \in 1..Len(pending'), NEW j \in 1..Len(pending'), i < j
                 PROVE  Before(pending'[i], pending'[j])
      BY DEF Sorted
    <3>1. i + n < j + n
      BY <2>1, <2>2
    <3> QED BY <2>1, <3>1 DEF Ordered, Sorted
  <2>5. ASSUME NEW i \in 1..Len(log'), NEW j \in 1..Len(pending')
        PROVE  Before(log'[i], pending'[j])
    <3>1. j + n \in 1..Len(pending) /\ pending'[j] = pending[j + n]
      BY <2>1
    <3>2. CASE i \in 1..Len(log)
      BY <2>1, <3>1, <3>2 DEF Ordered
    <3>3. CASE i = Len(log) + 1
      <4>1. n < j + n
        BY <2>1, <2>2
      <4> QED BY <2>1, <3>1, <3>3, <4>1 DEF Ordered, Sorted
    <3> QED BY <2>1, <2>2, <3>2, <3>3
  <2> QED BY <2>3, <2>4, <2>5 DEF Ordered
<1>3. ASSUME UNCHANGED raftVars PROVE Ordered'
  BY <1>3 DEF Ordered, Sorted, raftVars
<1>4. ASSUME NEW c \in Clerk, Begin(c) \/ CallFails(c) \/ MakeChannel(c) \/ GetAnswer(c) \/ TimeOut(c)
      PROVE  UNCHANGED raftVars
  BY <1>4 DEF Begin, CallFails, MakeChannel, GetAnswer, TimeOut
<1>5. ASSUME NEW s \in Server, \/ Deliver(s) \/ SaveLastApplied(s) \/ WaitApplyCh(s) \/ Crash(s)
                               \/ \E t \in Server : InstallSnapshot(s, t)
      PROVE  UNCHANGED raftVars
  BY <1>5 DEF Deliver, SaveLastApplied, WaitApplyCh, Crash, InstallSnapshot
<1> QED BY <1>1, <1>2, <1>3, <1>4, <1>5 DEF Next, vars

LEMMA LatestStep == ASSUME KVTypes, ClerkBounds, Latest, [Next]_vars PROVE Latest'
<1> USE DEF KVTypes
<1> DEFINE Still(e) == StartedBy(e, msg', tries', kind')
<1>0. /\ Len(log) \in Nat /\ Len(pending) \in Nat
      /\ \A i \in 1..Len(log) : log[i] \in Entry /\ Started(log[i])
      /\ \A i \in 1..Len(pending) : pending[i] \in Entry /\ Started(pending[i])
  BY LogFacts DEF Latest
<1>00. ASSUME \A i \in 1..Len(log') : Still(log'[i]), \A i \in 1..Len(pending') : Still(pending'[i])
       PROVE  Latest'
  BY <1>00 DEF Latest, Started
<1>1. ASSUME NEW c \in Clerk, Begin(c) PROVE Latest'
  <2>1. /\ UNCHANGED <<log, pending>> /\ msg'[c] = msg[c] + 1 /\ msg[c] \in Nat
        /\ \A d \in Clerk : d # c => msg'[d] = msg[d] /\ tries'[d] = tries[d] /\ kind'[d] = kind[d]
    BY <1>1 DEF Begin, raftVars, ClerkTypes
  <2>2. ASSUME NEW e \in Entry, Started(e) PROVE Still(e)
    <3>1. e.msg \in Nat /\ e.client \in Clerk
      BY EntryFacts
    <3>2. CASE e.client = c
      BY <2>1, <2>2, <3>1, <3>2 DEF Started, StartedBy
    <3>3. CASE e.client # c
      BY <2>1, <2>2, <3>1, <3>3 DEF Started, StartedBy
    <3> QED BY <3>2, <3>3
  <2> HIDE DEF Still
  <2> QED BY <1>0, <1>00, <2>1, <2>2
<1>2. ASSUME NEW c \in Clerk, StartOp(c) PROVE Latest'
  <2> DEFINE e == [client |-> c, msg |-> msg[c], try |-> tries[c] + 1, kind |-> kind[c]]
  <2>1. /\ e \in Entry /\ Len(pending') = Len(pending) + 1 /\ pending'[Len(pending) + 1] = e
        /\ \A k \in 1..Len(pending) : pending'[k] = pending[k]
    BY <1>2, StartFacts
  <2>2. /\ log' = log /\ UNCHANGED <<msg, kind>> /\ tries' = [tries EXCEPT ![c] = @ + 1]
        /\ tries \in [Clerk -> Nat] /\ msg \in [Clerk -> Nat]
    BY <1>2 DEF StartOp, ClerkTypes
  <2>3. ASSUME NEW f \in Entry, Started(f) PROVE Still(f)
    <3>1. f.msg \in Nat /\ f.try \in Nat /\ f.client \in Clerk
      BY EntryFacts
    <3> QED BY <2>2, <2>3, <3>1 DEF Started, StartedBy
  <2>4. Still(e)
    BY <2>2 DEF StartedBy
  <2> HIDE DEF e, Still
  <2>5. \A i \in 1..Len(pending') : \/ i \in 1..Len(pending) /\ pending'[i] = pending[i]
                                    \/ pending'[i] = e
    BY <1>0, <2>1
  <2> QED BY <1>0, <1>00, <2>2, <2>3, <2>4, <2>5
<1>3. ASSUME NEW n \in DOMAIN pending, Commit(n) PROVE Latest'
  <2>1. /\ Len(log') = Len(log) + 1 /\ n \in 1..Len(pending)
        /\ \A k \in 1..Len(log) : log'[k] = log[k]
        /\ log'[Len(log) + 1] = pending[n]
        /\ \A k \in 1..Len(pending') : k + n \in 1..Len(pending) /\ pending'[k] = pending[k + n]
    BY <1>3, CommitFacts
  <2>2. UNCHANGED <<msg, kind, tries>>
    BY <1>3 DEF Commit, clerkVars
  <2>3. \A i \in 1..Len(log') : \/ i \in 1..Len(log) /\ log'[i] = log[i]
                                \/ log'[i] = pending[n]
    BY <1>0, <2>1
  <2>4. \A e \in Entry : Started(e) => Still(e)
    BY <2>2 DEF Started
  <2> HIDE DEF Still
  <2> QED BY <1>0, <1>00, <2>1, <2>3, <2>4
<1>4. ASSUME UNCHANGED <<log, pending, msg, kind, tries>> PROVE Latest'
  BY <1>4 DEF Latest, Started
<1>5. ASSUME NEW c \in Clerk, CallFails(c) \/ MakeChannel(c) \/ GetAnswer(c) \/ TimeOut(c)
      PROVE  UNCHANGED <<log, pending, msg, kind, tries>>
  BY <1>5 DEF CallFails, MakeChannel, GetAnswer, TimeOut, raftVars
<1>6. ASSUME NEW s \in Server, \/ Deliver(s) \/ SaveLastApplied(s) \/ WaitApplyCh(s) \/ Crash(s)
                               \/ \E t \in Server : InstallSnapshot(s, t)
      PROVE  UNCHANGED <<log, pending, msg, kind, tries>>
  BY <1>6 DEF Deliver, SaveLastApplied, WaitApplyCh, Crash, InstallSnapshot, raftVars, clerkVars
<1>7. UNCHANGED vars => UNCHANGED <<log, pending, msg, kind, tries>>
  BY DEF vars, raftVars, clerkVars
<1> QED BY <1>1, <1>2, <1>3, <1>4, <1>5, <1>6, <1>7 DEF Next

LEMMA OneKindStep == ASSUME KVTypes, ClerkBounds, Latest, OneKind, [Next]_vars PROVE OneKind'
<1> USE DEF KVTypes
<1>1. ASSUME NEW c \in Clerk, StartOp(c) PROVE OneKind'
  <2> DEFINE e == [client |-> c, msg |-> msg[c], try |-> tries[c] + 1, kind |-> kind[c]]
  <2>1. /\ e \in Entry /\ Len(pending') = Len(pending) + 1 /\ pending'[Len(pending) + 1] = e
        /\ \A k \in 1..Len(pending) : pending'[k] = pending[k]
        /\ log' = log
    BY <1>1, StartFacts DEF StartOp
  <2>2. ASSUME NEW f \in Entry, Started(f) PROVE SameKind(f, e) /\ SameKind(e, f)
    <3>1. f.msg \in Nat /\ f.client \in Clerk /\ MsgId(f) = <<f.client, f.msg>>
      BY EntryFacts
    <3>2. MsgId(e) = <<c, msg[c]>> /\ msg[c] \in Nat /\ e.kind = kind[c]
      BY DEF MsgId, ClerkTypes
    <3>3. MsgId(f) = MsgId(e) => f.kind = e.kind
      BY <2>2, <3>1, <3>2 DEF Started, StartedBy
    <3> QED BY <3>3 DEF SameKind
  <2>3. SameKind(e, e)
    BY DEF SameKind
  <2> HIDE DEF e
  <2>4. Len(pending) \in Nat
    BY LogFacts
  <2>5. \A i \in 1..Len(pending') : \/ i \in 1..Len(pending) /\ pending'[i] = pending[i]
                                    \/ pending'[i] = e
    BY <2>1, <2>4
  <2>6. /\ \A i \in 1..Len(log) : SameKind(log[i], e)
        /\ \A i \in 1..Len(pending) : SameKind(pending[i], e) /\ SameKind(e, pending[i])
    BY <2>2, LogFacts DEF Latest
  <2> QED BY <2>1, <2>3, <2>5, <2>6 DEF OneKind
<1>2. ASSUME NEW n \in DOMAIN pending, Commit(n) PROVE OneKind'
  <2>1. /\ Len(log') = Len(log) + 1 /\ n \in 1..Len(pending)
        /\ \A k \in 1..Len(log) : log'[k] = log[k]
        /\ log'[Len(log) + 1] = pending[n]
        /\ \A k \in 1..Len(pending') : k + n \in 1..Len(pending) /\ pending'[k] = pending[k + n]
    BY <1>2, CommitFacts
  <2>2. \A i \in 1..Len(log') : \/ i \in 1..Len(log) /\ log'[i] = log[i]
                                \/ log'[i] = pending[n]
    BY <2>1, LogFacts
  <2>3. \A i \in 1..Len(log) : SameKind(pending[n], log[i])
    BY <2>1 DEF OneKind, SameKind
  <2> QED BY <2>1, <2>2, <2>3 DEF OneKind
<1>3. ASSUME UNCHANGED raftVars PROVE OneKind'
  BY <1>3 DEF OneKind, raftVars
<1>4. ASSUME NEW c \in Clerk, Begin(c) \/ CallFails(c) \/ MakeChannel(c) \/ GetAnswer(c) \/ TimeOut(c)
      PROVE  UNCHANGED raftVars
  BY <1>4 DEF Begin, CallFails, MakeChannel, GetAnswer, TimeOut
<1>5. ASSUME NEW s \in Server, \/ Deliver(s) \/ SaveLastApplied(s) \/ WaitApplyCh(s) \/ Crash(s)
                               \/ \E t \in Server : InstallSnapshot(s, t)
      PROVE  UNCHANGED raftVars
  BY <1>5 DEF Deliver, SaveLastApplied, WaitApplyCh, Crash, InstallSnapshot
<1> QED BY <1>1, <1>2, <1>3, <1>4, <1>5 DEF Next, vars

LEMMA AfterSinceStep ==
    ASSUME KVTypes, ClerkBounds, Latest, AfterSince, [Next]_vars
    PROVE  AfterSince'
<1> USE DEF KVTypes
<1>1. ASSUME NEW c \in Clerk, Begin(c) PROVE AfterSince'
  <2>1. /\ log' = log /\ msg'[c] = msg[c] + 1 /\ msg[c] \in Nat /\ Len(log) \in Nat
        /\ since'[c] \in {0, Len(log)}
        /\ \A d \in Clerk : d # c => msg'[d] = msg[d] /\ since'[d] = since[d]
    BY <1>1, LogFacts DEF Begin, raftVars, ClerkTypes
  <2>2. \A i \in 1..Len(log) : MsgId(log[i]) # <<c, msg[c] + 1>>
    <3> TAKE i \in 1..Len(log)
    <3>1. log[i] \in Entry /\ Started(log[i])
      BY LogFacts DEF Latest
    <3>2. log[i].msg \in Nat /\ MsgId(log[i]) = <<log[i].client, log[i].msg>>
      BY <3>1, EntryFacts
    <3>3. log[i].client = c => log[i].msg <= msg[c]
      BY <2>1, <3>1, <3>2 DEF Started, StartedBy
    <3> QED BY <2>1, <3>2, <3>3
  <2> QED BY <2>1, <2>2 DEF AfterSince, MsgId
<1>2. ASSUME NEW n \in DOMAIN pending, Commit(n) PROVE AfterSince'
  <2>1. /\ Len(log') = Len(log) + 1 /\ Len(log) \in Nat
        /\ \A k \in 1..Len(log) : log'[k] = log[k]
        /\ UNCHANGED <<since, msg>> /\ since \in [Clerk -> Nat]
    BY <1>2, CommitFacts, LogFacts DEF Commit, clerkVars, ClerkTypes
  <2>2. \A c \in Clerk : since'[c] <= Len(log')
    BY <2>1 DEF AfterSince
  <2>3. ASSUME NEW c \in Clerk, NEW i \in 1..Len(log'), MsgId(log'[i]) = <<c, msg'[c]>>
        PROVE  i > since'[c]
    <3>1. CASE i \in 1..Len(log)
      BY <2>1, <2>3, <3>1 DEF AfterSince
    <3>2. CASE i = Len(log) + 1
      BY <2>1, <3>2 DEF AfterSince
    <3> QED BY <2>1, <3>1, <3>2
  <2> QED BY <2>2, <2>3 DEF AfterSince, MsgId
<1>3. ASSUME UNCHANGED <<log, msg, since>> PROVE AfterSince'
  BY <1>3 DEF AfterSince, MsgId
<1>4. ASSUME NEW c \in Clerk,
             CallFails(c) \/ StartOp(c) \/ MakeChannel(c) \/ GetAnswer(c) \/ TimeOut(c)
      PROVE  UNCHANGED <<log, msg, since>>
  BY <1>4 DEF CallFails, StartOp, MakeChannel, GetAnswer, TimeOut, raftVars
<1>5. ASSUME NEW s \in Server, \/ Deliver(s) \/ SaveLastApplied(s) \/ WaitApplyCh(s) \/ Crash(s)
                               \/ \E t \in Server : InstallSnapshot(s, t)
      PROVE  UNCHANGED <<log, msg, since>>
  BY <1>5 DEF Deliver, SaveLastApplied, WaitApplyCh, Crash, InstallSnapshot, raftVars, clerkVars
<1>6. UNCHANGED vars => UNCHANGED <<log, msg, since>>
  BY DEF vars, raftVars, clerkVars
<1> QED BY <1>1, <1>2, <1>3, <1>4, <1>5, <1>6 DEF Next

-----------------------------------------------------------------------------
(* The indexes *)

LEMMA IndexFacts ==
    ASSUME KVTypes, Positions
    PROVE  /\ Len(log) \in Nat
           /\ \A s \in Server :
                /\ PositionsAt(s) /\ SavedAt(s)
                /\ handling[s] \in Nat /\ upto[s] \in Nat /\ lastApplied[s] \in Nat
                /\ disk[s].applied \in Nat /\ disk[s].store.index \in Nat
                /\ unsaved[s] \in BOOLEAN /\ Done(s) \in Nat /\ Done(s) <= Len(log)
<1>1. Len(log) \in Nat
  BY LogFacts DEF KVTypes
<1>2. ASSUME NEW s \in Server
      PROVE  /\ handling[s] \in Nat /\ upto[s] \in Nat /\ lastApplied[s] \in Nat
             /\ disk[s].applied \in Nat /\ disk[s].store.index \in Nat /\ unsaved[s] \in BOOLEAN
  BY DEF KVTypes, IndexTypes, StoreTypes, Saved
<1>3. ASSUME NEW s \in Server PROVE PositionsAt(s) /\ SavedAt(s)
  BY DEF Positions
<1>4. ASSUME NEW s \in Server PROVE Done(s) \in Nat /\ Done(s) <= Len(log)
  BY <1>1, <1>2, <1>3 DEF PositionsAt, Done
<1> QED BY <1>1, <1>2, <1>3, <1>4

\* A server none of whose indexes changes keeps its place in a log that may grow.
LEMMA PositionsKept ==
    ASSUME KVTypes, Positions, NEW t \in Server, lab' = lab,
           handling'[t] = handling[t], upto'[t] = upto[t], lastApplied'[t] = lastApplied[t],
           unsaved'[t] = unsaved[t], disk'[t] = disk[t], lost'[t] = lost[t],
           Len(log') \in Nat, Len(log) <= Len(log')
    PROVE  PositionsAt(t)' /\ SavedAt(t)'
<1>1. PositionsAt(t) /\ SavedAt(t) /\ Len(log) \in Nat /\ lastApplied[t] \in Nat /\ upto[t] \in Nat
      /\ disk[t].store.index \in Nat
  BY IndexFacts
<1> QED BY <1>1 DEF PositionsAt, SavedAt, Done

LEMMA PositionsStep == ASSUME KVTypes, Positions, [Next]_vars PROVE Positions'
<1>0. Len(log) \in Nat
  BY IndexFacts
<1>1. ASSUME NEW s \in Server, Deliver(s) PROVE Positions'
  <2>1. /\ handling[s] = 0 /\ ~unsaved[s] /\ lastApplied[s] < Len(log)
        /\ log' = log /\ lab' = lab /\ UNCHANGED <<upto, disk, lost>>
    BY <1>1 DEF Deliver, raftVars, diskVars
  <2>2. /\ handling'[s] = lastApplied[s] + 1 /\ lastApplied'[s] = lastApplied[s] + 1
        /\ \A t \in Server \ {s} : handling'[t] = handling[t] /\ lastApplied'[t] = lastApplied[t]
    BY <1>1 DEF Deliver, KVTypes, IndexTypes
  <2>3. /\ unsaved'[s] <=> lab = "3A"
        /\ \A t \in Server \ {s} : unsaved'[t] = unsaved[t]
    BY <1>1 DEF Deliver, KVTypes, IndexTypes
  <2>4. PositionsAt(s)' /\ SavedAt(s)'
    <3>1. PositionsAt(s) /\ SavedAt(s) /\ lastApplied[s] \in Nat /\ upto[s] \in Nat
          /\ disk[s].applied \in Nat /\ disk[s].store.index \in Nat
      BY IndexFacts
    <3>2. Done(s) = lastApplied[s] /\ Done(s)' = lastApplied[s]
      BY <2>1, <2>2, <3>1 DEF Done
    <3>3. PositionsAt(s)'
      BY <1>0, <2>1, <2>2, <3>1, <3>2 DEF PositionsAt
    <3>4. SavedAt(s)'
      BY <2>1, <2>2, <2>3, <3>1, <3>2 DEF SavedAt
    <3> QED BY <3>3, <3>4
  <2>5. ASSUME NEW t \in Server, t # s PROVE PositionsAt(t)' /\ SavedAt(t)'
    BY <1>0, <2>1, <2>2, <2>3, <2>5, PositionsKept
  <2> QED BY <2>4, <2>5 DEF Positions
<1>2. ASSUME NEW s \in Server, SaveLastApplied(s) PROVE Positions'
  <2>1. /\ unsaved[s] /\ log' = log /\ lab' = lab /\ UNCHANGED <<handling, upto, lastApplied, lost>>
        /\ ~unsaved'[s] /\ disk'[s].applied = lastApplied[s] /\ disk'[s].store = disk[s].store
        /\ \A t \in Server \ {s} : unsaved'[t] = unsaved[t] /\ disk'[t] = disk[t]
    BY <1>2 DEF SaveLastApplied, raftVars, KVTypes, IndexTypes, StoreTypes, Saved
  <2>2. PositionsAt(s)' /\ SavedAt(s)'
    <3>1. PositionsAt(s) /\ SavedAt(s) /\ lastApplied[s] \in Nat /\ disk[s].applied \in Nat
          /\ disk[s].store.index \in Nat
      BY IndexFacts
    <3>2. lab = "3A" /\ lastApplied[s] = disk[s].applied + 1
      BY <2>1, <3>1 DEF SavedAt
    <3>3. 1..disk[s].applied \subseteq 1..lastApplied[s]
      BY <3>1, <3>2
    <3> QED BY <2>1, <3>1, <3>2, <3>3 DEF PositionsAt, SavedAt, Done
  <2>3. ASSUME NEW t \in Server, t # s PROVE PositionsAt(t)' /\ SavedAt(t)'
    BY <1>0, <2>1, <2>3, PositionsKept
  <2> QED BY <2>2, <2>3 DEF Positions
<1>3. ASSUME NEW s \in Server, WaitApplyCh(s) PROVE Positions'
  <2>1. /\ log' = log /\ lab' = lab /\ UNCHANGED <<lastApplied, unsaved, lost>>
        /\ handling'[s] = 0 /\ upto'[s] = handling[s]
        /\ \A t \in Server \ {s} : handling'[t] = handling[t] /\ upto'[t] = upto[t]
    BY <1>3 DEF WaitApplyCh, raftVars, KVTypes, IndexTypes
  <2>2. handling[s] \in 1..Len(log) /\ handling[s] = lastApplied[s]
    BY <1>3, WaitFacts
  <2>3. /\ \A t \in Server \ {s} : disk'[t] = disk[t]
        /\ \/ disk'[s] = disk[s] /\ lab = "3B"
           \/ /\ disk'[s].store.index = handling[s]
              /\ \/ lab = "3A" /\ disk'[s].applied = disk[s].applied
                 \/ lab = "3B" /\ disk'[s].applied = handling[s]
    <3> DEFINE store == [index |-> handling[s], data |-> data'[s], last |-> lastApplies'[s]]
    <3>1. store.index = handling[s]
      OBVIOUS
    <3>2. /\ \A t \in Server \ {s} : disk'[t] = disk[t]
          /\ \/ disk'[s] = disk[s] /\ lab = "3B"
             \/ /\ disk'[s].store = store
                /\ \/ lab = "3A" /\ disk'[s].applied = disk[s].applied
                   \/ lab = "3B" /\ disk'[s].applied = handling[s]
      BY <1>3, SaveFacts
    <3> HIDE DEF store
    <3> QED BY <3>1, <3>2
  <2>4. PositionsAt(s)' /\ SavedAt(s)'
    <3>1. PositionsAt(s) /\ SavedAt(s) /\ lastApplied[s] \in Nat /\ disk[s].applied \in Nat
          /\ disk[s].store.index \in Nat /\ unsaved[s] \in BOOLEAN
      BY IndexFacts
    <3>2. Done(s) = handling[s] - 1 /\ Done(s)' = handling[s] /\ 1..Done(s) \subseteq 1..handling[s]
      BY <1>0, <2>1, <2>2 DEF Done
    <3>3. handling'[s] = 0 /\ upto'[s] = Done(s)' /\ lastApplied'[s] = lastApplied[s]
          /\ unsaved'[s] = unsaved[s] /\ lost'[s] = lost[s]
      BY <2>1, <3>2
    <3>4. CASE disk'[s] = disk[s] /\ lab = "3B"
      BY <1>0, <2>1, <2>2, <3>1, <3>2, <3>3, <3>4 DEF PositionsAt, SavedAt
    <3>5. CASE disk'[s].store.index = handling[s] /\ lab = "3A" /\ disk'[s].applied = disk[s].applied
      BY <1>0, <2>1, <2>2, <3>1, <3>2, <3>3, <3>5 DEF PositionsAt, SavedAt
    <3>6. CASE disk'[s].store.index = handling[s] /\ lab = "3B" /\ disk'[s].applied = handling[s]
      BY <1>0, <2>1, <2>2, <3>1, <3>2, <3>3, <3>6 DEF PositionsAt, SavedAt
    <3> QED BY <2>3, <3>4, <3>5, <3>6
  <2>5. ASSUME NEW t \in Server, t # s PROVE PositionsAt(t)' /\ SavedAt(t)'
    BY <1>0, <2>1, <2>3, <2>5, PositionsKept
  <2> QED BY <2>4, <2>5 DEF Positions
<1>4. ASSUME NEW s \in Server, NEW u \in Server, InstallSnapshot(s, u) PROVE Positions'
  <2>1. /\ lab = "3B" /\ handling[s] = 0 /\ log' = log /\ lab' = lab
        /\ UNCHANGED <<handling, unsaved, lost>>
        /\ disk'[s] = disk[u] /\ upto'[s] = disk[u].store.index
        /\ lastApplied'[s] = disk[u].store.index
        /\ \A t \in Server \ {s} : /\ disk'[t] = disk[t] /\ upto'[t] = upto[t]
                                   /\ lastApplied'[t] = lastApplied[t]
    BY <1>4 DEF InstallSnapshot, raftVars, KVTypes, IndexTypes, StoreTypes
  <2>2. PositionsAt(s)' /\ SavedAt(s)'
    <3>1. PositionsAt(u) /\ SavedAt(u) /\ SavedAt(s) /\ disk[u].store.index \in Nat
      BY IndexFacts
    <3> QED BY <2>1, <3>1 DEF PositionsAt, SavedAt, Done
  <2>3. ASSUME NEW t \in Server, t # s PROVE PositionsAt(t)' /\ SavedAt(t)'
    BY <1>0, <2>1, <2>3, PositionsKept
  <2> QED BY <2>2, <2>3 DEF Positions
<1>5. ASSUME NEW s \in Server, Crash(s) PROVE Positions'
  <2> DEFINE saved == disk[s]
  <2>1. /\ log' = log /\ lab' = lab /\ disk' = disk
        /\ handling'[s] = 0 /\ ~unsaved'[s] /\ lastApplied'[s] = saved.applied
        /\ lost'[s] = lost[s] \cup (saved.store.index + 1 .. saved.applied)
        /\ upto'[s] = IF saved.store.index > saved.applied THEN saved.store.index ELSE saved.applied
        /\ \A t \in Server \ {s} :
             /\ handling'[t] = handling[t] /\ unsaved'[t] = unsaved[t]
             /\ lastApplied'[t] = lastApplied[t] /\ lost'[t] = lost[t] /\ upto'[t] = upto[t]
    BY <1>5 DEF Crash, raftVars, KVTypes, IndexTypes, StoreTypes
  <2>2. PositionsAt(s)' /\ SavedAt(s)'
    <3>1. PositionsAt(s) /\ SavedAt(s) /\ saved.applied \in Nat /\ saved.store.index \in Nat
          /\ lastApplied[s] \in Nat
      BY IndexFacts
    <3>2. Done(s)' = saved.applied
      BY <2>1 DEF Done
    <3>3. saved.applied <= Len(log)
      BY <1>0, <3>1 DEF PositionsAt, SavedAt
    <3>4. lost'[s] \subseteq 1..saved.applied
      BY <2>1, <3>1 DEF PositionsAt
    <3>5. lab = "3B" => saved.store.index = saved.applied /\ lost'[s] = {}
      BY <2>1, <3>1 DEF SavedAt
    <3>6. PositionsAt(s)'
      BY <1>0, <2>1, <3>1, <3>2, <3>3, <3>4 DEF PositionsAt, SavedAt
    <3>7. SavedAt(s)'
      BY <2>1, <3>1, <3>2, <3>5 DEF SavedAt
    <3> QED BY <3>6, <3>7
  <2>3. ASSUME NEW t \in Server, t # s PROVE PositionsAt(t)' /\ SavedAt(t)'
    BY <1>0, <2>1, <2>3, PositionsKept
  <2> QED BY <2>2, <2>3 DEF Positions
<1>6. ASSUME UNCHANGED <<lab, handling, upto, lastApplied, unsaved, disk, lost>>,
             Len(log') \in Nat, Len(log) <= Len(log')
      PROVE  Positions'
  BY <1>6, PositionsKept DEF Positions
<1>7. ASSUME NEW c \in Clerk,
             Begin(c) \/ CallFails(c) \/ StartOp(c) \/ MakeChannel(c) \/ GetAnswer(c) \/ TimeOut(c)
      PROVE  UNCHANGED <<log, lab, handling, upto, lastApplied, unsaved, disk, lost>>
  BY <1>7 DEF Begin, CallFails, StartOp, MakeChannel, GetAnswer, TimeOut, raftVars, serverVars,
              diskVars
<1>8. ASSUME NEW n \in DOMAIN pending, Commit(n) PROVE Positions'
  BY <1>0, <1>6, <1>8, CommitFacts DEF Commit, serverVars, diskVars, KVTypes
<1>9. UNCHANGED vars => UNCHANGED <<log, lab, handling, upto, lastApplied, unsaved, disk, lost>>
  BY DEF vars, raftVars, serverVars, diskVars
<1>10. UNCHANGED <<log, lab, handling, upto, lastApplied, unsaved, disk, lost>> => Positions'
  BY <1>0, <1>6
<1> QED BY <1>1, <1>2, <1>3, <1>4, <1>5, <1>7, <1>8, <1>9, <1>10 DEF Next

-----------------------------------------------------------------------------
(* The stores *)

LEMMA StoreSame ==
    ASSUME NEW l, NEW k, NEW omit, NEW except, NEW n \in Nat, NEW value, NEW last,
           IsStoreOf(l, n, omit, value, last),
           \A i \in 1..n : l[i] = k[i] /\ (i \in omit <=> i \in except)
    PROVE  IsStoreOf(k, n, except, value, last)
<1>1. Effect(l, n, omit) = Effect(k, n, except)
  BY EffectSame
<1>2. Covers(k, n, except, last)
  BY DEF IsStoreOf, Covers
<1>3. Attained(k, n, except, last)
  <2> SUFFICES ASSUME NEW c \in Clerk, last[c] # 0
               PROVE  \E i \in 1..n : /\ i \notin except /\ k[i].kind # "Get"
                                      /\ MsgId(k[i]) = <<c, last[c]>>
    BY DEF Attained
  <2>1. PICK i \in 1..n : i \notin omit /\ l[i].kind # "Get" /\ MsgId(l[i]) = <<c, last[c]>>
    BY DEF IsStoreOf, Attained
  <2> QED BY <2>1
<1> QED BY <1>1, <1>2, <1>3 DEF IsStoreOf

\* Entries that are left out are not missed.
LEMMA StoreOmitted ==
    ASSUME NEW l, NEW omit, NEW n \in Nat, NEW m \in Nat, NEW value, NEW last,
           IsStoreOf(l, n, omit, value, last), n <= m, \A i \in n + 1..m : i \in omit
    PROVE  IsStoreOf(l, m, omit, value, last)
<1>1. Effect(l, m, omit) = Effect(l, n, omit)
  BY EffectOmitted
<1>2. \A i \in 1..m : i \in 1..n \/ i \in omit
  OBVIOUS
<1>3. Covers(l, m, omit, last)
  BY <1>2 DEF IsStoreOf, Covers
<1>4. Attained(l, m, omit, last)
  <2>1. \A i \in 1..n : i \in 1..m
    OBVIOUS
  <2> QED BY <2>1 DEF IsStoreOf, Attained
<1> QED BY <1>1, <1>3, <1>4 DEF IsStoreOf

\* Of the entries of one request that come before the h-th, the table knows those that
\* were applied: it has the MsgId of the h-th entry exactly when one of them was.
LEMMA TableKnows ==
    ASSUME LogTypes, Ordered, OneKind, NEW h \in 1..Len(log), NEW n \in {h - 1, h},
           NEW omit, NEW value, NEW last \in [Clerk -> Nat], IsStoreOf(log, n, omit, value, last),
           h \notin omit, log[h].kind # "Get"
    PROVE  /\ last[log[h].client] <= log[h].msg
           /\ \/ last[log[h].client] = log[h].msg /\ (n = h \/ ~First(log, h, omit))
              \/ last[log[h].client] # log[h].msg /\ n = h - 1 /\ First(log, h, omit)
<1> DEFINE op == log[h]  c == op.client
<1>1. /\ op \in Entry /\ c \in Clerk /\ op.msg \in Nat /\ op.msg > 0
      /\ MsgId(op) = <<c, op.msg>> /\ last[c] \in Nat /\ Len(log) \in Nat
  BY LogFacts, EntryFacts
<1>2. n \in Nat /\ n <= Len(log)
  BY <1>1
<1>3. \A i \in 1..n : i \in 1..Len(log) /\ log[i] \in Entry /\ log[i].msg \in Nat
                      /\ MsgId(log[i]) = <<log[i].client, log[i].msg>>
  BY <1>1, <1>2, LogFacts, EntryFacts
<1>4. \A i \in 1..n : log[i].client = c => log[i].msg <= op.msg
  <2> TAKE i \in 1..n
  <2>1. CASE i = h
    BY <1>1, <2>1
  <2>2. CASE i < h
    BY <1>1, <1>3, <2>2 DEF Ordered, Sorted, Before
  <2> QED BY <1>2, <2>1, <2>2
<1>5. last[c] # 0 => \E i \in 1..n : /\ i \notin omit /\ log[i].kind # "Get"
                                     /\ MsgId(log[i]) = <<c, last[c]>>
  BY <1>1 DEF IsStoreOf, Attained
<1>6. last[c] <= op.msg
  <2>1. CASE last[c] = 0
    BY <1>1, <2>1
  <2>2. CASE last[c] # 0
    BY <1>1, <1>3, <1>4, <1>5, <2>2
  <2> QED BY <2>1, <2>2
<1>7. CASE last[c] = op.msg
  <2>1. PICK i \in 1..n : i \notin omit /\ MsgId(log[i]) = <<c, last[c]>>
    BY <1>1, <1>5, <1>7
  <2>2. MsgId(log[i]) = MsgId(op)
    BY <1>1, <1>7, <2>1
  <2>3. n = h \/ i \in 1..h - 1
    BY <1>2
  <2>4. n = h \/ ~First(log, h, omit)
    BY <2>1, <2>2, <2>3 DEF First
  <2> QED BY <1>6, <1>7, <2>4
<1>8. CASE last[c] # op.msg
  <2>1. \A i \in 1..n : MsgId(log[i]) = MsgId(op) => i \in omit
    <3> SUFFICES ASSUME NEW i \in 1..n, MsgId(log[i]) = MsgId(op), i \notin omit PROVE FALSE
      OBVIOUS
    <3>1. log[i].client = c /\ log[i].msg = op.msg /\ log[i].kind # "Get"
      BY <1>1, <1>3 DEF OneKind, SameKind
    <3>2. op.msg <= last[c]
      BY <3>1 DEF IsStoreOf, Covers
    <3> QED BY <1>1, <1>6, <1>8, <3>2
  <2>2. n # h
    BY <1>1, <2>1
  <2>3. n = h - 1 /\ First(log, h, omit)
    BY <2>1, <2>2 DEF First
  <2> QED BY <1>6, <1>8, <2>3
<1> QED BY <1>7, <1>8

\* waitApplyCh at entry h makes the store one of the log up to h, whether the entry is a
\* Get, a repetition, one already in the store, or a write seen for the first time.
LEMMA StoreApplied ==
    ASSUME LogTypes, Ordered, OneKind, NEW h \in 1..Len(log), NEW n \in {h - 1, h},
           NEW omit, NEW value, NEW last \in [Clerk -> Nat], IsStoreOf(log, n, omit, value, last),
           h \notin omit,
           NEW apply \in BOOLEAN,
           apply <=> log[h].kind # "Get" /\ last[log[h].client] # log[h].msg,
           NEW newValue, newValue = IF apply THEN Written(value, log[h]) ELSE value,
           NEW newLast,
           newLast = [last EXCEPT ![log[h].client] = IF apply THEN log[h].msg ELSE @]
    PROVE  IsStoreOf(log, h, omit, newValue, newLast)
<1> DEFINE op == log[h]  c == op.client
<1>1. /\ op \in Entry /\ c \in Clerk /\ op.msg \in Nat /\ op.msg > 0
      /\ MsgId(op) = <<c, op.msg>> /\ last[c] \in Nat /\ Len(log) \in Nat
  BY LogFacts, EntryFacts
<1>2. /\ newLast \in [Clerk -> Nat] /\ newLast[c] = IF apply THEN op.msg ELSE last[c]
      /\ \A d \in Clerk \ {c} : newLast[d] = last[d]
  BY <1>1
<1>3. h - 1 \in Nat /\ (h - 1) + 1 = h
  BY <1>1
<1>4. Effect(log, h, omit) = IF Takes(log, h, omit) THEN Written(Effect(log, h - 1, omit), op)
                             ELSE Effect(log, h - 1, omit)
  BY <1>3, EffectOfNext
<1>5. newValue = Effect(log, h, omit)
  <2>1. value = Effect(log, n, omit)
    BY DEF IsStoreOf
  <2>2. CASE op.kind = "Get"
    <3>1. newValue = value
      BY <2>2
    <3>2. Written(Effect(log, h - 1, omit), op) = Effect(log, h - 1, omit)
      BY <2>2, WrittenIs
    <3>3. Effect(log, h, omit) = Effect(log, h - 1, omit)
      BY <1>4, <3>2
    <3> QED BY <2>1, <3>1, <3>3
  <2>3. CASE op.kind # "Get" /\ last[c] = op.msg
    <3>1. newValue = value
      BY <2>3
    <3>2. n = h \/ ~First(log, h, omit)
      BY <2>3, TableKnows
    <3>3. n = h \/ Effect(log, h, omit) = Effect(log, h - 1, omit)
      BY <1>4, <3>2 DEF Takes
    <3> QED BY <2>1, <3>1, <3>3
  <2>4. CASE op.kind # "Get" /\ last[c] # op.msg
    <3>1. newValue = Written(value, op)
      BY <2>4
    <3>2. n = h - 1 /\ First(log, h, omit)
      BY <2>4, TableKnows
    <3> QED BY <1>4, <2>1, <3>1, <3>2 DEF Takes
  <2> QED BY <2>2, <2>3, <2>4
<1>6. \A d \in Clerk : last[d] <= newLast[d]
  <2>1. apply => last[c] <= op.msg
    BY TableKnows
  <2> QED BY <1>1, <1>2, <2>1
<1>7. Covers(log, h, omit, newLast)
  <2> SUFFICES ASSUME NEW i \in 1..h, i \notin omit, log[i].kind # "Get"
               PROVE  log[i].msg <= newLast[log[i].client]
    BY DEF Covers
  <2>1. log[i].client \in Clerk /\ log[i].msg \in Nat
    BY <1>1, LogFacts, EntryFacts
  <2>2. CASE i \in 1..n
    <3>1. log[i].msg <= last[log[i].client]
      BY <2>2 DEF IsStoreOf, Covers
    <3> QED BY <1>2, <1>6, <2>1, <3>1
  <2>3. CASE i \notin 1..n
    <3>1. i = h
      BY <1>1, <2>3
    <3> QED BY <1>1, <1>2, <3>1
  <2> QED BY <2>2, <2>3
<1>8. Attained(log, h, omit, newLast)
  <2> SUFFICES ASSUME NEW d \in Clerk, newLast[d] # 0
               PROVE  \E i \in 1..h : /\ i \notin omit /\ log[i].kind # "Get"
                                      /\ MsgId(log[i]) = <<d, newLast[d]>>
    BY DEF Attained
  <2>1. CASE newLast[d] = last[d]
    <3>1. PICK i \in 1..n : i \notin omit /\ log[i].kind # "Get" /\ MsgId(log[i]) = <<d, last[d]>>
      BY <2>1 DEF IsStoreOf, Attained
    <3>2. i \in 1..h
      BY <1>1
    <3> QED BY <2>1, <3>1, <3>2
  <2>2. CASE newLast[d] # last[d]
    <3>1. d = c /\ apply /\ newLast[d] = op.msg
      BY <1>2, <2>2
    <3>2. h \in 1..h
      BY <1>1
    <3> QED BY <1>1, <3>1, <3>2
  <2> QED BY <2>1, <2>2
<1> QED BY <1>5, <1>7, <1>8 DEF IsStoreOf

StoresAt(s) ==
    /\ IsStoreOf(log, upto[s], lost[s], data[s], lastApplies[s])
    /\ IsStoreOf(log, disk[s].store.index, lost[s], disk[s].store.data, disk[s].store.last)

\* A log that grows leaves the meaning of what was there.
LEMMA StoresKept ==
    ASSUME KVTypes, Positions, NEW t \in Server, StoresAt(t),
           upto'[t] = upto[t], data'[t] = data[t], lastApplies'[t] = lastApplies[t],
           disk'[t].store = disk[t].store, lost'[t] = lost[t],
           \A k \in 1..Len(log) : log'[k] = log[k]
    PROVE  StoresAt(t)'
<1>1. /\ upto[t] \in Nat /\ disk[t].store.index \in Nat /\ Len(log) \in Nat
      /\ upto[t] <= Len(log) /\ disk[t].store.index <= Len(log)
  BY IndexFacts DEF PositionsAt
<1>2. /\ \A k \in 1..upto[t] : log[k] = log'[k]
      /\ \A k \in 1..disk[t].store.index : log[k] = log'[k]
  BY <1>1
<1>3. /\ IsStoreOf(log, upto[t], lost[t], data[t], lastApplies[t])
      /\ IsStoreOf(log, disk[t].store.index, lost[t], disk[t].store.data, disk[t].store.last)
  BY DEF StoresAt
<1>4. IsStoreOf(log', upto[t], lost[t], data[t], lastApplies[t])
  BY <1>1, <1>2, <1>3, StoreSame
<1>5. IsStoreOf(log', disk[t].store.index, lost[t], disk[t].store.data, disk[t].store.last)
  BY <1>1, <1>2, <1>3, StoreSame
<1> QED BY <1>4, <1>5 DEF StoresAt

LEMMA StoresStep ==
    ASSUME KVTypes, Positions, Ordered, OneKind, Stores, [Next]_vars
    PROVE  Stores'
<1>0. \A s \in Server : StoresAt(s)
  BY DEF Stores, StoresAt
<1>00. (\A s \in Server : StoresAt(s)') => Stores'
  BY DEF Stores, StoresAt
<1>1. ASSUME NEW s \in Server, WaitApplyCh(s) PROVE Stores'
  <2> DEFINE h == handling[s]  op == log[h]
             apply == op.kind # "Get" /\ lastApplies[s][op.client] # op.msg
  <2>1. /\ h \in 1..Len(log) /\ op \in Entry
        /\ data' = [data EXCEPT ![s] = IF ToApply(s) THEN Written(@, op) ELSE @]
        /\ lastApplies' = [lastApplies EXCEPT ![s][op.client] = IF ToApply(s) THEN op.msg ELSE @]
    BY <1>1, WaitFacts
  <2>2. ToApply(s) = apply /\ apply \in BOOLEAN
    BY DEF ToApply, IsRepeated
  <2>3. /\ data \in [Server -> Value] /\ lastApplies \in [Server -> [Clerk -> Nat]]
        /\ disk \in [Server -> Saved]
    BY DEF KVTypes, StoreTypes
  <2> DEFINE newValue == IF apply THEN Written(data[s], op) ELSE data[s]
             newLast == [lastApplies[s] EXCEPT ![op.client] = IF apply THEN op.msg ELSE @]
  <2>4. data'[s] = newValue /\ lastApplies'[s] = newLast
    <3> HIDE DEF apply, op, h
    <3> QED BY <2>1, <2>2, <2>3
  <2>5. \A t \in Server \ {s} : data'[t] = data[t] /\ lastApplies'[t] = lastApplies[t]
    <3> HIDE DEF apply, op, h
    <3> QED BY <2>1, <2>2, <2>3
  <2>6. IsStoreOf(log, h, lost[s], data'[s], lastApplies'[s])
    <3>1. /\ upto[s] \in {h - 1, h} /\ h \notin lost[s]
          /\ IsStoreOf(log, upto[s], lost[s], data[s], lastApplies[s])
      <4>1. Done(s) = h - 1 /\ (upto[s] = Done(s) \/ upto[s] = Done(s) + 1)
            /\ lost[s] \subseteq 1..Done(s) /\ h \in Nat /\ h # 0
        BY <1>1, <2>1, IndexFacts DEF PositionsAt, Done, WaitApplyCh
      <4> QED BY <1>0, <4>1 DEF StoresAt
    <3>2. lastApplies[s] \in [Clerk -> Nat]
      BY <2>3
    <3>3. LogTypes
      BY DEF KVTypes
    <3>4. apply <=> op.kind # "Get" /\ lastApplies[s][op.client] # op.msg
      OBVIOUS
    <3>5. IsStoreOf(log, h, lost[s], newValue, newLast)
      <4> HIDE DEF apply
      <4>1. newValue = IF apply THEN Written(data[s], log[h]) ELSE data[s]
        OBVIOUS
      <4>2. newLast = [lastApplies[s] EXCEPT ![log[h].client] = IF apply THEN log[h].msg ELSE @]
        OBVIOUS
      <4> HIDE DEF newValue, newLast, h
      <4> QED BY <2>1, <2>2, <3>1, <3>2, <3>3, <3>4, <4>1, <4>2, StoreApplied
    <3> QED BY <2>4, <3>5
  <2>7. /\ log' = log /\ lost' = lost /\ upto'[s] = h
        /\ \A t \in Server \ {s} : upto'[t] = upto[t]
    BY <1>1 DEF WaitApplyCh, raftVars, KVTypes, IndexTypes
  <2>8. /\ \A t \in Server \ {s} : disk'[t] = disk[t]
        /\ \/ disk'[s].store = disk[s].store
           \/ disk'[s].store = [index |-> h, data |-> data'[s], last |-> lastApplies'[s]]
    BY <1>1, SaveFacts
  <2> HIDE DEF h, op, apply, newValue, newLast
  <2>9. StoresAt(s)'
    <3>1. CASE disk'[s].store = disk[s].store
      BY <1>0, <2>6, <2>7, <3>1 DEF StoresAt
    <3>2. CASE disk'[s].store = [index |-> h, data |-> data'[s], last |-> lastApplies'[s]]
      <4>1. disk'[s].store.index = h /\ disk'[s].store.data = data'[s]
            /\ disk'[s].store.last = lastApplies'[s]
        BY <3>2
      <4> QED BY <2>6, <2>7, <4>1 DEF StoresAt
    <3> QED BY <2>8, <3>1, <3>2
  <2>10. ASSUME NEW t \in Server, t # s PROVE StoresAt(t)'
    BY <1>0, <2>5, <2>7, <2>8, <2>10, StoresKept
  <2> QED BY <1>00, <2>9, <2>10
<1>2. ASSUME NEW s \in Server, NEW u \in Server, InstallSnapshot(s, u) PROVE Stores'
  <2>1. /\ lab = "3B" /\ log' = log /\ lost' = lost
        /\ disk'[s] = disk[u] /\ upto'[s] = disk[u].store.index
        /\ data'[s] = disk[u].store.data /\ lastApplies'[s] = disk[u].store.last
        /\ \A t \in Server \ {s} : /\ disk'[t] = disk[t] /\ upto'[t] = upto[t]
                                   /\ data'[t] = data[t] /\ lastApplies'[t] = lastApplies[t]
    BY <1>2 DEF InstallSnapshot, raftVars, KVTypes, IndexTypes, StoreTypes
  <2>2. lost[s] = {} /\ lost[u] = {}
    BY <2>1, IndexFacts DEF SavedAt
  <2>3. StoresAt(s)'
    BY <1>0, <2>1, <2>2 DEF StoresAt
  <2>4. ASSUME NEW t \in Server, t # s PROVE StoresAt(t)'
    BY <1>0, <2>1, <2>4, StoresKept
  <2> QED BY <1>00, <2>3, <2>4
<1>3. ASSUME NEW s \in Server, Crash(s) PROVE Stores'
  <2> DEFINE saved == disk[s]  n == saved.store.index  gone == n + 1 .. saved.applied
             m == IF n > saved.applied THEN n ELSE saved.applied
  <2>1. /\ log' = log /\ disk' = disk /\ lost'[s] = lost[s] \cup gone
        /\ data'[s] = saved.store.data /\ lastApplies'[s] = saved.store.last /\ upto'[s] = m
        /\ \A t \in Server \ {s} : /\ upto'[t] = upto[t] /\ lost'[t] = lost[t]
                                   /\ data'[t] = data[t] /\ lastApplies'[t] = lastApplies[t]
    BY <1>3 DEF Crash, raftVars, KVTypes, IndexTypes, StoreTypes
  <2>2. n \in Nat /\ saved.applied \in Nat
    BY IndexFacts
  <2>3. IsStoreOf(log, n, lost[s], saved.store.data, saved.store.last)
    BY <1>0 DEF StoresAt
  <2>4. IsStoreOf(log, n, lost'[s], saved.store.data, saved.store.last)
    <3>1. \A i \in 1..n : i \in lost[s] <=> i \in lost'[s]
      BY <2>1, <2>2
    <3> QED BY <2>2, <2>3, <3>1, StoreSame
  <2>5. IsStoreOf(log, m, lost'[s], saved.store.data, saved.store.last)
    <3>1. m \in Nat /\ n <= m /\ \A i \in n + 1..m : i \in lost'[s]
      BY <2>1, <2>2
    <3> QED BY <2>2, <2>4, <3>1, StoreOmitted
  <2>6. StoresAt(s)'
    BY <2>1, <2>4, <2>5 DEF StoresAt
  <2>7. ASSUME NEW t \in Server, t # s PROVE StoresAt(t)'
    BY <1>0, <2>1, <2>7, StoresKept
  <2> QED BY <1>00, <2>6, <2>7
<1>4. ASSUME NEW s \in Server, SaveLastApplied(s) PROVE Stores'
  <2>1. /\ UNCHANGED <<log, upto, data, lastApplies, lost>>
        /\ \A t \in Server : disk'[t].store = disk[t].store
    BY <1>4 DEF SaveLastApplied, raftVars, KVTypes, StoreTypes, Saved
  <2> QED BY <1>0, <1>00, <2>1, StoresKept
<1>5. ASSUME UNCHANGED <<upto, data, lastApplies, disk, lost>>,
             \A k \in 1..Len(log) : log'[k] = log[k]
      PROVE  Stores'
  BY <1>0, <1>00, <1>5, StoresKept
<1>6. ASSUME NEW n \in DOMAIN pending, Commit(n) PROVE Stores'
  BY <1>5, <1>6, CommitFacts DEF Commit, serverVars, diskVars, KVTypes
<1>7. ASSUME NEW c \in Clerk,
             Begin(c) \/ CallFails(c) \/ StartOp(c) \/ MakeChannel(c) \/ GetAnswer(c) \/ TimeOut(c)
      PROVE  UNCHANGED <<log, upto, data, lastApplies, disk, lost>>
  BY <1>7 DEF Begin, CallFails, StartOp, MakeChannel, GetAnswer, TimeOut, raftVars, serverVars,
              diskVars
<1>8. ASSUME NEW s \in Server, Deliver(s)
      PROVE  UNCHANGED <<log, upto, data, lastApplies, disk, lost>>
  BY <1>8 DEF Deliver, raftVars, diskVars
<1>9. UNCHANGED vars => UNCHANGED <<log, upto, data, lastApplies, disk, lost>>
  BY DEF vars, raftVars, serverVars, diskVars
<1>10. UNCHANGED <<log, upto, data, lastApplies, disk, lost>> => Stores'
  BY <1>5
<1> QED BY <1>1, <1>2, <1>3, <1>4, <1>6, <1>7, <1>8, <1>9, <1>10 DEF Next

-----------------------------------------------------------------------------
(* The answers *)

\* An answer stays right while the log grows and the server works it off.
LEMMA AnsweredKept ==
    ASSUME NEW l, NEW k, NEW n \in Nat, NEW m \in Nat, NEW gone, NEW gone2, NEW r, NEW answer,
           Answered(l, n, gone, r, answer), n <= m, \A i \in 1..n : k[i] = l[i],
           (\A s \in Server : gone2[s] = {}) => (\A s \in Server : gone[s] = {})
    PROVE  Answered(k, m, gone2, r, answer)
<1>1. PICK i \in 1..n : /\ ReqId(l[i]) = r
                        /\ (\A s \in Server : gone[s] = {}) => answer = <<Effect(l, i, {})>>
  BY DEF Answered
<1>2. Effect(l, i, {}) = Effect(k, i, {})
  <2>1. i \in Nat /\ \A j \in 1..i : j \in 1..n
    OBVIOUS
  <2>2. \A j \in 1..i : l[j] = k[j] /\ (j \in {} <=> j \in {})
    BY <2>1
  <2> QED BY <2>1, <2>2, EffectSame
<1>3. i \in 1..m /\ k[i] = l[i]
  OBVIOUS
<1> QED BY <1>1, <1>2, <1>3 DEF Answered

LEMMA AnswersStep ==
    ASSUME KVTypes, Awaited, Positions, Positions', Stores', Answers, [Next]_vars, KVTypes'
    PROVE  Answers'
<1> DEFINE AnswersAt(s) == \A r \in DOMAIN msgNotify'[s] :
             msgNotify'[s][r] # <<>> => Answered(log', Done(s)', lost', r, msgNotify'[s][r])
<1>0. (\A s \in Server : AnswersAt(s)) => Answers'
  BY DEF Answers
\* The answers that a step leaves in a server's channels.
<1>00. ASSUME NEW s \in Server, Done(s)' \in Nat, Done(s) <= Done(s)',
              \A k \in 1..Len(log) : log'[k] = log[k],
              \A t \in Server : lost'[t] = {} => lost[t] = {},
              NEW r \in DOMAIN msgNotify[s], msgNotify[s][r] # <<>>,
              msgNotify'[s][r] = msgNotify[s][r]
       PROVE  Answered(log', Done(s)', lost', r, msgNotify'[s][r])
  <2>1. Answered(log, Done(s), lost, r, msgNotify[s][r])
    BY <1>00 DEF Answers
  <2>2. Done(s) \in Nat /\ Done(s) <= Len(log) /\ Len(log) \in Nat
    BY IndexFacts
  <2>3. \A k \in 1..Done(s) : log'[k] = log[k]
    BY <1>00, <2>2
  <2>4. (\A t \in Server : lost'[t] = {}) => (\A t \in Server : lost[t] = {})
    BY <1>00
  <2>5. Answered(log', Done(s)', lost', r, msgNotify[s][r])
    BY <1>00, <2>1, <2>2, <2>3, <2>4, AnsweredKept
  <2> QED BY <1>00, <2>5
\* Steps that put nothing new into a channel, and undo nothing a server has done.
<1>1. ASSUME \A k \in 1..Len(log) : log'[k] = log[k],
             \A t \in Server : lost'[t] = {} => lost[t] = {},
             \A s \in Server : Done(s)' \in Nat /\ Done(s) <= Done(s)',
             \A s \in Server : \A r \in DOMAIN msgNotify'[s] : msgNotify'[s][r] # <<>> =>
                 r \in DOMAIN msgNotify[s] /\ msgNotify'[s][r] = msgNotify[s][r]
      PROVE  Answers'
  <2> SUFFICES ASSUME NEW s \in Server, NEW r \in DOMAIN msgNotify'[s], msgNotify'[s][r] # <<>>
               PROVE  Answered(log', Done(s)', lost', r, msgNotify'[s][r])
    BY <1>0
  <2>1. r \in DOMAIN msgNotify[s] /\ msgNotify'[s][r] = msgNotify[s][r]
    BY <1>1
  <2> QED BY <1>00, <1>1, <2>1
<1>2. \A s \in Server : Done(s) \in Nat /\ Done(s) <= Done(s)
  BY IndexFacts
<1>3. ASSUME NEW c \in Clerk, GetAnswer(c) \/ TimeOut(c) PROVE Answers'
  <2>1. /\ place[c] = "waiting" /\ Drops(c)
        /\ UNCHANGED <<log, handling, lastApplied, lost>>
    BY <1>3 DEF GetAnswer, TimeOut, Drops, raftVars, diskVars
  <2>2. \A s \in Server : Done(s)' = Done(s)
    BY <2>1 DEF Done
  <2>3. \A s \in Server : \A r \in DOMAIN msgNotify'[s] : msgNotify'[s][r] # <<>> =>
          r \in DOMAIN msgNotify[s] /\ msgNotify'[s][r] = msgNotify[s][r]
    BY <2>1, DropFacts
  <2> QED BY <1>1, <1>2, <2>1, <2>2, <2>3
<1>4. ASSUME NEW c \in Clerk, MakeChannel(c) PROVE Answers'
  <2>1. UNCHANGED <<log, handling, lastApplied, lost>>
    BY <1>4 DEF MakeChannel, raftVars, diskVars
  <2>2. \A s \in Server : Done(s)' = Done(s)
    BY <2>1 DEF Done
  <2>3. \A s \in Server : \A r \in DOMAIN msgNotify'[s] : msgNotify'[s][r] # <<>> =>
          r \in DOMAIN msgNotify[s] /\ msgNotify'[s][r] = msgNotify[s][r]
    <3> DEFINE key == NotifyKey(Op(c))
    <3>1. /\ \A s \in Server : s # leaderId[c] => msgNotify'[s] = msgNotify[s]
          /\ msgNotify'[leaderId[c]] = WithChannel(msgNotify[leaderId[c]], key)
      BY <1>4, MakeFacts
    <3> HIDE DEF key
    <3>2. \A r \in DOMAIN msgNotify'[leaderId[c]] : msgNotify'[leaderId[c]][r] # <<>> =>
             /\ r \in DOMAIN msgNotify[leaderId[c]]
             /\ msgNotify'[leaderId[c]][r] = msgNotify[leaderId[c]][r]
      BY <3>1 DEF WithChannel
    <3> QED BY <3>1, <3>2
  <2> QED BY <1>1, <1>2, <2>1, <2>2, <2>3
<1>5. ASSUME NEW s \in Server, WaitApplyCh(s) PROVE Answers'
  <2> DEFINE h == handling[s]  key == NotifyKey(log[h])
  <2>1. /\ h \in 1..Len(log) /\ h = lastApplied[s] /\ log' = log /\ lost' = lost
        /\ handling'[s] = 0 /\ lastApplied' = lastApplied /\ upto'[s] = h
        /\ \A t \in Server \ {s} : handling'[t] = handling[t]
    BY <1>5, WaitFacts DEF WaitApplyCh, raftVars, KVTypes, IndexTypes
  <2>2. Done(s) = h - 1 /\ Done(s)' = h /\ h \in Nat /\ Len(log) \in Nat
    BY <2>1, IndexFacts DEF Done
  <2>3. \A t \in Server : Done(t)' \in Nat /\ Done(t) <= Done(t)'
    <3>1. \A t \in Server \ {s} : Done(t)' = Done(t)
      BY <2>1 DEF Done
    <3> QED BY <1>2, <2>2, <3>1
  <2>4. (\A t \in Server : lost'[t] = {}) => <<data'[s]>> = <<Effect(log', h, {})>>
    <3>1. data'[s] = Effect(log', upto'[s], lost'[s])
      BY DEF Stores, IsStoreOf
    <3> QED BY <2>1, <3>1
  <2>5. Answered(log', Done(s)', lost', key, <<data'[s]>>)
    <3>1. h \in 1..Done(s)' /\ ReqId(log'[h]) = key
      BY <2>1, <2>2 DEF NotifyKey
    <3> QED BY <2>4, <3>1 DEF Answered
  <2>6. /\ \A t \in Server : t # s => msgNotify'[t] = msgNotify[t]
        /\ DOMAIN msgNotify'[s] = DOMAIN msgNotify[s]
        /\ \A r \in DOMAIN msgNotify[s] :
             msgNotify'[s][r] = msgNotify[s][r] \/ (r = key /\ msgNotify'[s][r] = <<data'[s]>>)
    BY <1>5, FillFacts
  <2> HIDE DEF key
  <2> SUFFICES ASSUME NEW t \in Server, NEW r \in DOMAIN msgNotify'[t], msgNotify'[t][r] # <<>>
               PROVE  Answered(log', Done(t)', lost', r, msgNotify'[t][r])
    BY <1>0
  <2>7. CASE r \in DOMAIN msgNotify[t] /\ msgNotify'[t][r] = msgNotify[t][r]
    BY <1>00, <2>1, <2>3, <2>7
  <2>8. CASE t = s /\ r = key /\ msgNotify'[t][r] = <<data'[s]>>
    BY <2>5, <2>8
  <2> QED BY <2>6, <2>7, <2>8
<1>6. ASSUME NEW s \in Server, Crash(s) PROVE Answers'
  <2>1. /\ log' = log /\ DOMAIN msgNotify'[s] = {}
        /\ \A t \in Server \ {s} : /\ msgNotify'[t] = msgNotify[t] /\ handling'[t] = handling[t]
                                   /\ lastApplied'[t] = lastApplied[t] /\ lost'[t] = lost[t]
    BY <1>6 DEF Crash, raftVars, KVTypes, IndexTypes, StoreTypes, ChannelTypes, NoChannels
  <2>2. lost'[s] = {} => lost[s] = {}
    BY <1>6 DEF Crash, KVTypes, StoreTypes
  <2>3. \A t \in Server : lost'[t] = {} => lost[t] = {}
    BY <2>1, <2>2
  <2> SUFFICES ASSUME NEW t \in Server, NEW r \in DOMAIN msgNotify'[t], msgNotify'[t][r] # <<>>
               PROVE  Answered(log', Done(t)', lost', r, msgNotify'[t][r])
    BY <1>0
  <2>4. t # s /\ msgNotify'[t] = msgNotify[t] /\ Done(t)' = Done(t)
    BY <2>1 DEF Done
  <2> QED BY <1>00, <1>2, <2>1, <2>3, <2>4
<1>7. ASSUME NEW s \in Server, Deliver(s) PROVE Answers'
  <2>1. /\ UNCHANGED <<log, lost, msgNotify>> /\ handling[s] = 0
        /\ handling'[s] = lastApplied[s] + 1 /\ lastApplied[s] \in Nat
        /\ \A t \in Server \ {s} : handling'[t] = handling[t] /\ lastApplied'[t] = lastApplied[t]
    BY <1>7 DEF Deliver, raftVars, diskVars, KVTypes, IndexTypes
  <2>2. \A t \in Server : Done(t)' = Done(t)
    BY <2>1 DEF Done
  <2> QED BY <1>1, <1>2, <2>1, <2>2
<1>8. ASSUME NEW s \in Server, NEW u \in Server, InstallSnapshot(s, u) PROVE Answers'
  <2>1. /\ UNCHANGED <<log, lost, msgNotify, handling>> /\ handling[s] = 0
        /\ lastApplied'[s] = disk[u].store.index /\ disk[u].store.index > lastApplied[s]
        /\ \A t \in Server \ {s} : lastApplied'[t] = lastApplied[t]
    BY <1>8 DEF InstallSnapshot, raftVars, KVTypes, IndexTypes
  <2>2. disk[u].store.index \in Nat /\ lastApplied[s] \in Nat
    BY IndexFacts
  <2>3. \A t \in Server : Done(t)' \in Nat /\ Done(t) <= Done(t)'
    <3>1. Done(s)' = disk[u].store.index /\ Done(s) = lastApplied[s]
      BY <2>1 DEF Done
    <3>2. \A t \in Server \ {s} : Done(t)' = Done(t)
      BY <2>1 DEF Done
    <3> QED BY <1>2, <2>1, <2>2, <3>1, <3>2
  <2> QED BY <1>1, <2>1, <2>3
<1>9. ASSUME UNCHANGED <<handling, lastApplied, lost, msgNotify>>,
             \A k \in 1..Len(log) : log'[k] = log[k]
      PROVE  Answers'
  <2>1. \A s \in Server : Done(s)' = Done(s)
    BY <1>9 DEF Done
  <2> QED BY <1>1, <1>2, <1>9, <2>1
<1>10. ASSUME NEW n \in DOMAIN pending, Commit(n) PROVE Answers'
  BY <1>9, <1>10, CommitFacts DEF Commit, serverVars, diskVars, KVTypes
<1>11. ASSUME NEW c \in Clerk, Begin(c) \/ CallFails(c) \/ StartOp(c)
       PROVE  UNCHANGED <<log, handling, lastApplied, lost, msgNotify>>
  BY <1>11 DEF Begin, CallFails, StartOp, raftVars, serverVars, diskVars
<1>12. ASSUME NEW s \in Server, SaveLastApplied(s)
       PROVE  UNCHANGED <<log, handling, lastApplied, lost, msgNotify>>
  BY <1>12 DEF SaveLastApplied, raftVars
<1>13. UNCHANGED vars => UNCHANGED <<log, handling, lastApplied, lost, msgNotify>>
  BY DEF vars, raftVars, serverVars, diskVars
<1>14. UNCHANGED <<log, handling, lastApplied, lost, msgNotify>> => Answers'
  BY <1>9
<1> QED BY <1>3, <1>4, <1>5, <1>6, <1>7, <1>8, <1>10, <1>11, <1>12, <1>13, <1>14 DEF Next

-----------------------------------------------------------------------------
(* What the clerks see *)

\* The attempt whose answer a clerk takes was committed since the clerk's call, and says
\* what the log said there.
LEMMA AnswerIsOurs ==
    ASSUME KVInv, NEW c \in Clerk, GetAnswer(c)
    PROVE  \E i \in 1..Len(log) :
             /\ MsgId(log[i]) = <<c, msg[c]>> /\ i > since[c]
             /\ NothingLost => Head(Channel(c)) = Effect(log, i, {})
<1> DEFINE s == leaderId[c]  key == NotifyKey(Op(c))
<1>1. s \in Server /\ key \in DOMAIN msgNotify[s] /\ msgNotify[s][key] # <<>>
  BY DEF KVInv, KVTypes, ClerkTypes, Awaited, GetAnswer, Channel
<1>2. Answered(log, Done(s), lost, key, msgNotify[s][key])
  BY <1>1 DEF KVInv, Answers
<1>3. PICK i \in 1..Done(s) : /\ ReqId(log[i]) = key
                              /\ NothingLost => msgNotify[s][key] = <<Effect(log, i, {})>>
  BY <1>2 DEF Answered, NothingLost
<1>4. i \in 1..Len(log)
  BY <1>1, IndexFacts DEF KVInv
<1>5. ReqId(log[i]) = <<c, msg[c], tries[c]>>
  BY <1>3 DEF NotifyKey, ReqId, Op
<1>6. MsgId(log[i]) = <<c, msg[c]>>
  BY <1>5 DEF ReqId, MsgId
<1>7. i > since[c]
  BY <1>4, <1>6 DEF KVInv, LogInv, AfterSince
<1>8. NothingLost => Head(Channel(c)) = Effect(log, i, {})
  BY <1>3 DEF Channel
<1> QED BY <1>4, <1>6, <1>7, <1>8

\* What Linearizable says of one clerk.
Seen(c) ==
    place[c] = "idle" /\ msg[c] > 0 =>
      IF kind[c] = "Get"
      THEN NothingLost => \E n \in since[c] .. Len(log) : result[c] = Effect(log, n, {})
      ELSE \E i \in DOMAIN log : MsgId(log[i]) = <<c, msg[c]>>

LEMMA SeenKept ==
    ASSUME KVInv, NEW c \in Clerk, Seen(c), Len(log') \in Nat, Len(log) <= Len(log'),
           DOMAIN log' = 1..Len(log'), \A k \in 1..Len(log) : log'[k] = log[k],
           place'[c] = "idle" => place[c] = "idle",
           msg'[c] = msg[c], kind'[c] = kind[c], since'[c] = since[c], result'[c] = result[c],
           NothingLost' => NothingLost
    PROVE  Seen(c)'
<1> SUFFICES ASSUME place'[c] = "idle", msg'[c] > 0
             PROVE  IF kind'[c] = "Get"
                    THEN NothingLost' =>
                           \E n \in since'[c] .. Len(log') : result'[c] = Effect(log', n, {})
                    ELSE \E i \in DOMAIN log' : MsgId(log'[i]) = <<c, msg'[c]>>
  BY DEF Seen
<1>1. Len(log) \in Nat /\ DOMAIN log = 1..Len(log) /\ since[c] \in Nat
  BY LogFacts DEF KVInv, KVTypes, ClerkTypes
<1>2. ASSUME kind[c] = "Get", NothingLost'
      PROVE  \E n \in since'[c] .. Len(log') : result'[c] = Effect(log', n, {})
  <2>1. PICK n \in since[c] .. Len(log) : result[c] = Effect(log, n, {})
    BY <1>2 DEF Seen
  <2>2. n \in Nat /\ n <= Len(log) /\ n \in since'[c] .. Len(log')
    BY <1>1
  <2>3. \A j \in 1..n : log[j] = log'[j] /\ (j \in {} <=> j \in {})
    BY <1>1, <2>2
  <2>4. Effect(log, n, {}) = Effect(log', n, {})
    BY <2>2, <2>3, EffectSame
  <2> QED BY <2>1, <2>2, <2>4
<1>3. ASSUME kind[c] # "Get"
      PROVE  \E i \in DOMAIN log' : MsgId(log'[i]) = <<c, msg'[c]>>
  BY <1>1, <1>3 DEF Seen
<1> QED BY <1>2, <1>3

LEMMA LinearizableStep == ASSUME KVInv, KVInv', Linearizable, [Next]_vars PROVE Linearizable'
<1>0. /\ (\A c \in Clerk : Seen(c)') => Linearizable'
      /\ \A c \in Clerk : Seen(c)
  BY DEF Linearizable, Seen
<1>01. /\ Len(log) \in Nat /\ DOMAIN log = 1..Len(log)
       /\ Len(log') \in Nat /\ DOMAIN log' = 1..Len(log')
  BY LogFacts DEF KVInv, KVTypes, LogTypes
<1>1. ASSUME NEW c \in Clerk, Begin(c) \/ StartOp(c) \/ MakeChannel(c) \/ CallFails(c) \/ TimeOut(c)
      PROVE  Linearizable'
  <2>1. /\ log' = log /\ lost' = lost /\ place'[c] # "idle"
        /\ \A d \in Clerk : d # c => /\ place'[d] = place[d] /\ msg'[d] = msg[d]
                                     /\ kind'[d] = kind[d] /\ since'[d] = since[d]
                                     /\ result'[d] = result[d]
    BY <1>1 DEF Begin, StartOp, MakeChannel, CallFails, TimeOut, CallAgain, raftVars, diskVars,
                KVInv, KVTypes, ClerkTypes, Place
  <2>2. Seen(c)'
    BY <2>1 DEF Seen
  <2>3. ASSUME NEW d \in Clerk, d # c PROVE Seen(d)'
    BY <1>0, <1>01, <2>1, <2>3, SeenKept DEF NothingLost
  <2> QED BY <1>0, <2>2, <2>3
<1>2. ASSUME NEW c \in Clerk, GetAnswer(c) PROVE Linearizable'
  <2>1. /\ log' = log /\ lost' = lost /\ UNCHANGED <<msg, kind, since>>
        /\ \A d \in Clerk : d # c => place'[d] = place[d] /\ result'[d] = result[d]
    BY <1>2 DEF GetAnswer, Returns, CallAgain, raftVars, diskVars, KVInv, KVTypes, ClerkTypes
  <2>2. Seen(c)'
    <3>1. PICK i \in 1..Len(log) :
             /\ MsgId(log[i]) = <<c, msg[c]>> /\ i > since[c]
             /\ NothingLost => Head(Channel(c)) = Effect(log, i, {})
      BY <1>2, AnswerIsOurs
    <3>2. i \in since[c] .. Len(log) /\ i \in DOMAIN log
      BY <1>01, <3>1 DEF KVInv, KVTypes, ClerkTypes
    <3>3. CASE Returns(c, Head(Channel(c)))
      <4>1. kind[c] = "Get" => result'[c] = Head(Channel(c))
        BY <3>3 DEF Returns, KVInv, KVTypes, ClerkTypes
      <4> QED BY <2>1, <3>1, <3>2, <4>1 DEF Seen, NothingLost
    <3>4. CASE CallAgain(c)
      <4>1. place'[c] # "idle"
        BY <3>4 DEF CallAgain, KVInv, KVTypes, ClerkTypes
      <4> QED BY <4>1 DEF Seen
    <3> QED BY <1>2, <3>3, <3>4 DEF GetAnswer
  <2>3. ASSUME NEW d \in Clerk, d # c PROVE Seen(d)'
    BY <1>0, <1>01, <2>1, <2>3, SeenKept DEF NothingLost
  <2> QED BY <1>0, <2>2, <2>3
<1>3. ASSUME NEW s \in Server, Crash(s) PROVE Linearizable'
  <2>1. log' = log /\ UNCHANGED <<msg, kind, since, result>>
        /\ \A d \in Clerk : place'[d] = "idle" => place[d] = "idle"
    BY <1>3 DEF Crash, raftVars
  <2>2. NothingLost' => NothingLost
    BY <1>3 DEF Crash, NothingLost, KVInv, KVTypes, StoreTypes
  <2> QED BY <1>0, <1>01, <2>1, <2>2, SeenKept
<1>4. ASSUME UNCHANGED <<place, msg, kind, since, result, lost>>,
             Len(log) <= Len(log'), \A k \in 1..Len(log) : log'[k] = log[k]
      PROVE  Linearizable'
  BY <1>0, <1>01, <1>4, SeenKept DEF NothingLost
<1>5. ASSUME NEW n \in DOMAIN pending, Commit(n) PROVE Linearizable'
  BY <1>01, <1>4, <1>5, CommitFacts DEF Commit, clerkVars, diskVars, KVInv, KVTypes
<1>6. ASSUME NEW s \in Server, \/ Deliver(s) \/ SaveLastApplied(s) \/ WaitApplyCh(s)
                               \/ \E t \in Server : InstallSnapshot(s, t)
      PROVE  UNCHANGED <<log, place, msg, kind, since, result, lost>>
  BY <1>6 DEF Deliver, SaveLastApplied, WaitApplyCh, InstallSnapshot, raftVars, clerkVars, diskVars
<1>7. UNCHANGED vars => UNCHANGED <<log, place, msg, kind, since, result, lost>>
  BY DEF vars, raftVars, clerkVars, diskVars
<1>8. UNCHANGED <<log, place, msg, kind, since, result, lost>> => Linearizable'
  BY <1>01, <1>4
<1> QED BY <1>1, <1>2, <1>3, <1>5, <1>6, <1>7, <1>8 DEF Next

-----------------------------------------------------------------------------
(* The invariant and what follows from it *)

LEMMA InitInv == Init => KVInv /\ Linearizable
<1> SUFFICES ASSUME Init PROVE KVInv /\ Linearizable
  OBVIOUS
<1> USE DEF Init
<1>1. LogTypes /\ Len(log) = 0 /\ Len(pending) = 0
  BY DEF LogTypes
<1>2. ClerkTypes /\ ClerkBounds
  <2>1. \A c \in Clerk : Len(Program[c]) \in Nat
    BY KVAssumption
  <2> QED BY <2>1, ServerFacts, EmptyIsValue DEF ClerkTypes, ClerkBounds, Kind, Place
<1>3. StoreTypes
  <2>1. NoStore \in [index : Nat, data : Value, last : [Clerk -> Nat]]
    BY EmptyIsValue DEF NoStore
  <2>2. NoStore.last \in [Clerk -> Nat]
    BY DEF NoStore
  <2> HIDE DEF NoStore
  <2> QED BY <2>1, <2>2, EmptyIsValue DEF StoreTypes, Saved
<1>4. IndexTypes
  BY KVAssumption DEF IndexTypes
<1>5. ChannelTypes /\ Awaited /\ Answers
  <2>1. OpenChannels(NoChannels) /\ DOMAIN NoChannels = {}
    BY DEF OpenChannels, NoChannels
  <2> QED BY <2>1 DEF ChannelTypes, Awaited, Answers
<1>6. Ordered /\ Latest /\ OneKind
  BY <1>1 DEF Ordered, Sorted, Latest, OneKind
<1>7. AfterSince
  BY <1>1 DEF AfterSince
<1>8. /\ NoStore.index = 0 /\ NoStore.data = <<>>
      /\ \A c \in Clerk : NoStore.last[c] = 0
  BY DEF NoStore
<1>9. Positions
  <2>1. lab = "3A" \/ lab = "3B"
    BY KVAssumption
  <2> HIDE DEF NoStore
  <2> QED BY <1>1, <1>8, <2>1 DEF Positions, PositionsAt, SavedAt, Done
<1>10. Stores
  <2>1. IsStoreOf(log, 0, {}, <<>>, NoStore.last)
    BY <1>8, EffectOfNothing DEF IsStoreOf, Covers, Attained
  <2> HIDE DEF NoStore
  <2> QED BY <1>8, <2>1 DEF Stores
<1>11. Linearizable
  BY DEF Linearizable
<1> QED BY <1>1, <1>2, <1>3, <1>4, <1>5, <1>6, <1>7, <1>9, <1>10, <1>11
        DEF KVInv, KVTypes, LogInv

LEMMA InvStep == ASSUME KVInv, [Next]_vars PROVE KVInv'
<1> USE DEF KVInv, LogInv
<1>1. ClerkTypes' /\ ClerkBounds'
  BY ClerkTypesStep
<1>2. KVTypes'
  BY <1>1, LogTypesStep, StoreTypesStep, IndexTypesStep, ChannelTypesStep DEF KVTypes
<1>3. Awaited' /\ Positions' /\ Stores'
  BY AwaitedStep, PositionsStep, StoresStep
<1>4. LogInv'
  BY OrderedStep, LatestStep, OneKindStep, AfterSinceStep
<1>5. Answers'
  BY <1>2, <1>3, AnswersStep
<1> QED BY <1>1, <1>2, <1>3, <1>4, <1>5

LEMMA Invariance == Spec => [](KVInv /\ Linearizable)
<1>1. Init => KVInv /\ Linearizable
  BY InitInv
<1>2. KVInv /\ Linearizable /\ [Next]_vars => (KVInv /\ Linearizable)'
  BY InvStep, LinearizableStep
<1> QED BY <1>1, <1>2, PTL DEF Spec

\* The types: TypeOK of KVServer.tla, for every number of servers, clerks and requests.
THEOREM TypeCorrect == Spec => []TypeOK
<1>1. KVInv => TypeOK
  <2> SUFFICES ASSUME KVInv PROVE TypeOK
    OBVIOUS
  <2>1. lab \in Lab /\ crashes \in 0 .. MaxCrashes
    BY DEF KVInv, KVTypes, IndexTypes
  <2>2. \A e \in {log[i] : i \in DOMAIN log} \cup {pending[i] : i \in DOMAIN pending} :
          /\ e.client \in Clerk /\ e.kind \in {"Put", "Append", "Get"}
          /\ e.msg \in DOMAIN Program[e.client] /\ e.try \in 1 .. MaxTries[e.client][e.msg]
    <3>1. \A e \in {log[i] : i \in DOMAIN log} \cup {pending[i] : i \in DOMAIN pending} : e \in Entry
      BY LogFacts DEF KVInv, KVTypes
    <3>2. \A c \in Clerk : DOMAIN Program[c] = 1..Len(Program[c])
      BY KVAssumption
    <3> QED BY <3>1, <3>2, EntryFacts DEF Kind
  <2>3. ASSUME NEW c \in Clerk
        PROVE  /\ msg[c] \in 0 .. Len(Program[c]) /\ leaderId[c] \in Server
               /\ tries[c] \in 0 .. IF msg[c] = 0 THEN 0 ELSE MaxTries[c][msg[c]]
               /\ place[c] \in {"idle", "calling", "started", "waiting"}
               /\ place[c] = "waiting" => NotifyKey(Op(c)) \in DOMAIN msgNotify[leaderId[c]]
               /\ result[c] \in Value /\ since[c] \in 0 .. Len(log)
    <3>1. /\ msg[c] \in Nat /\ tries[c] \in Nat /\ since[c] \in Nat /\ leaderId[c] \in Server
          /\ place[c] \in {"idle", "calling", "started", "waiting"} /\ result[c] \in Value
      BY DEF KVInv, KVTypes, ClerkTypes, Place
    <3>2. /\ Len(Program[c]) \in Nat /\ MaxTries[c] \in Seq(Nat)
          /\ Len(MaxTries[c]) = Len(Program[c]) /\ Len(log) \in Nat
      BY KVAssumption, LogFacts DEF KVInv, KVTypes
    <3>3. /\ msg[c] <= Len(Program[c]) /\ since[c] <= Len(log)
          /\ IF msg[c] = 0 THEN tries[c] = 0 ELSE tries[c] <= MaxTries[c][msg[c]]
      BY DEF KVInv, LogInv, ClerkBounds, AfterSince
    <3>4. msg[c] # 0 => MaxTries[c][msg[c]] \in Nat
      <4>1. msg[c] # 0 => msg[c] \in 1..Len(MaxTries[c])
        BY <3>1, <3>2, <3>3
      <4> QED BY <3>2, <4>1, ElementOfSeq
    <3>5. place[c] = "waiting" => NotifyKey(Op(c)) \in DOMAIN msgNotify[leaderId[c]]
      BY DEF KVInv, Awaited
    <3>6. msg[c] \in 0 .. Len(Program[c]) /\ since[c] \in 0 .. Len(log)
      BY <3>1, <3>2, <3>3
    <3>7. tries[c] \in 0 .. IF msg[c] = 0 THEN 0 ELSE MaxTries[c][msg[c]]
      BY <3>1, <3>3, <3>4
    <3> QED BY <3>1, <3>5, <3>6, <3>7
  <2>4. ASSUME NEW s \in Server
        PROVE  /\ data[s] \in Value /\ lastApplies[s] \in [Clerk -> Nat]
               /\ {handling[s], upto[s], lastApplied[s]} \subseteq 0 .. Len(log)
               /\ unsaved[s] \in BOOLEAN /\ lost[s] \subseteq 1 .. Len(log)
    <3>1. data[s] \in Value /\ lastApplies[s] \in [Clerk -> Nat] /\ unsaved[s] \in BOOLEAN
      BY DEF KVInv, KVTypes, StoreTypes, IndexTypes
    <3>2. /\ PositionsAt(s) /\ handling[s] \in Nat /\ upto[s] \in Nat /\ lastApplied[s] \in Nat
          /\ Len(log) \in Nat /\ Done(s) \in Nat /\ Done(s) <= Len(log)
      BY IndexFacts DEF KVInv
    <3>3. {handling[s], upto[s], lastApplied[s]} \subseteq 0 .. Len(log)
      BY <3>2 DEF PositionsAt
    <3>4. lost[s] \subseteq 1 .. Len(log)
      BY <3>2 DEF PositionsAt
    <3> QED BY <3>1, <3>3, <3>4
  <2> QED BY <2>1, <2>2, <2>3, <2>4 DEF TypeOK
<1> QED BY <1>1, Invariance, PTL

\* The stores: what a server holds is what the log means up to where the server has read
\* it, each request taking effect once, and without only the entries a crash left out.
THEOREM StoresAreReplays == Spec => []StoreIsReplay
<1>1. KVInv => StoreIsReplay
  BY DEF KVInv, Stores, IsStoreOf, StoreIsReplay
<1> QED BY <1>1, Invariance, PTL

\* The clerks: a Get returns the value of the log at an entry committed during the call,
\* if no crash of Lab-3A left an entry out, and a write that returned is in the log.
THEOREM ClerksSeeOneHistory == Spec => []Linearizable
BY Invariance, PTL

\* waitApplyCh, which holds the server's lock, never waits for room in a channel: an
\* answer is already there only if the same attempt had been committed before.
THEOREM NoSendBlocks == Spec => []ChannelHasRoom
<1>1. KVInv => ChannelHasRoom
  <2> SUFFICES ASSUME KVInv, NEW s \in Server, handling[s] # 0,
                      NotifyKey(log[handling[s]]) \in DOMAIN msgNotify[s],
                      msgNotify[s][NotifyKey(log[handling[s]])] # <<>>
               PROVE  FALSE
    BY DEF ChannelHasRoom
  <2> DEFINE h == handling[s]  key == NotifyKey(log[h])
  <2>1. Answered(log, Done(s), lost, key, msgNotify[s][key])
    BY DEF KVInv, Answers
  <2>2. PICK i \in 1..Done(s) : ReqId(log[i]) = key
    BY <2>1 DEF Answered
  <2>3. PositionsAt(s) /\ h \in Nat /\ Len(log) \in Nat
    BY IndexFacts DEF KVInv
  <2>4. Done(s) = h - 1 /\ h \in 1..Len(log)
    BY <2>3 DEF Done, PositionsAt
  <2>5. i < h /\ i \in 1..Len(log)
    BY <2>4
  <2>6. Before(log[i], log[h])
    BY <2>4, <2>5 DEF KVInv, LogInv, Ordered, Sorted
  <2>7. log[i] \in Entry /\ log[h] \in Entry
    BY <2>4, <2>5, LogFacts DEF KVInv, KVTypes
  <2>8. /\ log[i].client = log[h].client /\ log[i].msg = log[h].msg /\ log[i].try = log[h].try
        /\ log[h].msg \in Nat /\ log[h].try \in Nat
    BY <2>2, <2>7, EntryFacts DEF NotifyKey
  <2> QED BY <2>6, <2>8 DEF Before
<1> QED BY <1>1, Invariance, PTL
=============================================================================
