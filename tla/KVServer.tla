------------------------------ MODULE KVServer -------------------------------
(***************************************************************************)
(* The key/value service of Lab-3A and Lab-3B and its clerks.  A clerk     *)
(* repeats a request, under the same MsgId, at one server after another    *)
(* until one answers; each attempt is a log entry of its own (ReqId), and  *)
(* servers recognise a repetition by the last MsgId of the client.  The    *)
(* labs differ in what survives a crash: Lab-3A's server saves its store   *)
(* after every entry while its Raft, apart from that, saves lastApplied;   *)
(* Lab-3B's saves snapshots together with the Raft state.                  *)
(*                                                                         *)
(* Raft is here by its promise: entries are committed in the order they    *)
(* were started in, or never.  (An entry that a leader appends after       *)
(* another it holds was started after it, and logs that hold a common      *)
(* entry hold the same entries before it.)  Data is the value of one key,  *)
(* written as the sequence of the requests that made it.                   *)
(***************************************************************************)
EXTENDS Naturals, Sequences, FiniteSets

CONSTANTS
  NServer,       \* number of servers
  Clerk,
  Program,       \* Program[c][k]: what the k-th request of clerk c may be
  Lab,           \* which of "3A" and "3B" to look at
  MaxTries,      \* bound: attempts of each request of a clerk that reach a leader
  MaxEntries,    \* bound: entries committed or still to be
  Crashable,     \* bound: the servers that may restart,
  MaxCrashes     \*        and how often

ASSUME KVAssumption ==
  /\ NServer \in Nat \ {0} /\ MaxEntries \in Nat /\ MaxCrashes \in Nat
  /\ Crashable \subseteq 0 .. NServer - 1
  /\ \A c \in Clerk : MaxTries[c] \in Seq(Nat) /\ Len(MaxTries[c]) = Len(Program[c])
  /\ Lab \subseteq {"3A", "3B"} /\ Lab # {}
  /\ \A c \in Clerk : Program[c] \in Seq(SUBSET {"Put", "Append", "Get"})

VARIABLES
  lab,           \* chosen once
  log,           \* the committed entries
  pending,       \* entries started and not committed, in the order of Start
  msg, kind, tries, place, leaderId, \* each clerk's request, and where its attempt is
  since,         \* Len(log) when the clerk's Get began (history)
  result,        \* what the clerk's last Get returned
  data, lastApplies, \* each server's store, and the last MsgId of every client
  msgNotify,     \* the channels of each server, by ReqId
  handling,      \* the index waitApplyCh has received and not finished, or 0
  upto,          \* the index data[s] has reached
  lastApplied,   \* the Raft peer's index
  unsaved,       \* Lab-3A: the peer has sent an entry and not yet persisted
  disk,          \* the persister: the peer's index, and the store with its index
  lost,          \* entries a crash left out of a server's store (history)
  crashes

raftVars   == <<log, pending>>
clerkVars  == <<msg, kind, tries, place, leaderId, since, result>>
serverVars == <<data, lastApplies, msgNotify, handling, upto, lastApplied, unsaved>>
diskVars   == <<disk, lost, crashes>>
vars == <<lab, raftVars, clerkVars, serverVars, diskVars>>

Server == 0 .. NServer - 1
NoStore == [index |-> 0, data |-> <<>>, last |-> [c \in Clerk |-> 0]]
NoChannels == [r \in {} |-> <<>>]

(* An entry is one attempt; its ReqId is drawn for it, its MsgId is the request's. *)
Op(c) == [client |-> c, msg |-> msg[c], try |-> tries[c], kind |-> kind[c]]
MsgId(op) == <<op.client, op.msg>>
ReqId(op) == <<op.client, op.msg, op.try>>
NotifyByMsg(op) == MsgId(op)                          \* variant with a fault
NotifyKey(op) == ReqId(op)

Init ==
  /\ lab \in Lab
  /\ log = <<>> /\ pending = <<>>
  /\ msg = [c \in Clerk |-> 0] /\ kind = [c \in Clerk |-> "Get"]
  /\ tries = [c \in Clerk |-> 0] /\ place = [c \in Clerk |-> "idle"]
  /\ leaderId = [c \in Clerk |-> 0] /\ since = [c \in Clerk |-> 0]
  /\ result = [c \in Clerk |-> <<>>]
  /\ data = [s \in Server |-> <<>>]
  /\ lastApplies = [s \in Server |-> NoStore.last]
  /\ msgNotify = [s \in Server |-> NoChannels]
  /\ handling = [s \in Server |-> 0] /\ upto = [s \in Server |-> 0]
  /\ lastApplied = [s \in Server |-> 0] /\ unsaved = [s \in Server |-> FALSE]
  /\ disk = [s \in Server |-> [applied |-> 0, store |-> NoStore]]
  /\ lost = [s \in Server |-> {}] /\ crashes = 0

-----------------------------------------------------------------------------
(* The clerk. *)

Begin(c) ==
  /\ place[c] = "idle" /\ msg[c] < Len(Program[c])
  /\ \E k \in Program[c][msg[c] + 1] : kind' = [kind EXCEPT ![c] = k]
  /\ msg' = [msg EXCEPT ![c] = @ + 1] /\ tries' = [tries EXCEPT ![c] = 0]
  /\ place' = [place EXCEPT ![c] = "calling"]
  /\ since' = [since EXCEPT ![c] = IF kind'[c] = "Get" THEN Len(log) ELSE 0]
  /\ UNCHANGED <<lab, raftVars, leaderId, result, serverVars, diskVars>>

(* The clerk asks again: at the next server, or, when a Get timed out, at the same. *)
NextWithoutWrap(c) == leaderId' = [leaderId EXCEPT ![c] = @ + 1]   \* variant with a fault
NextServer(c) == leaderId' = [leaderId EXCEPT ![c] = (@ + 1) % NServer]
CallAgain(c) == place' = [place EXCEPT ![c] = "calling"]

(* The request is lost, or the server does not lead. *)
CallFails(c) ==
  /\ place[c] = "calling"
  /\ NextServer(c)
  /\ UNCHANGED <<lab, raftVars, msg, kind, tries, place, since, result, serverVars, diskVars>>

Returns(c, value) ==
  /\ place' = [place EXCEPT ![c] = "idle"]
  /\ result' = [result EXCEPT ![c] = IF kind[c] = "Get" THEN value ELSE <<>>]
  /\ UNCHANGED leaderId

-----------------------------------------------------------------------------
(* Get and PutAppend in a server that takes itself for the leader: Start, *)
(* then make the channel, then wait.                                      *)

StartOp(c) ==
  /\ place[c] = "calling" /\ tries[c] < MaxTries[c][msg[c]]
  /\ Len(log) + Len(pending) < MaxEntries
  /\ tries' = [tries EXCEPT ![c] = @ + 1]
  /\ pending' = Append(pending, [Op(c) EXCEPT !.try = @ + 1])
  /\ place' = [place EXCEPT ![c] = "started"]
  /\ UNCHANGED <<lab, log, msg, kind, leaderId, since, result, serverVars, diskVars>>

WithChannel(open, key) ==
  [r \in DOMAIN open \cup {key} |-> IF r = key THEN <<>> ELSE open[r]]

MakeChannel(c) ==
  /\ place[c] = "started"
  /\ msgNotify' = [msgNotify EXCEPT ![leaderId[c]] = WithChannel(@, NotifyKey(Op(c)))]
  /\ place' = [place EXCEPT ![c] = "waiting"]
  /\ UNCHANGED <<lab, raftVars, msg, kind, tries, leaderId, since, result, data,
                 lastApplies, handling, upto, lastApplied, unsaved, diskVars>>

(* PutAppend removes its channel; Get, which deletes by MsgId, leaves it,  *)
(* with an answer that came as the timer fired.                            *)
Channel(c) == msgNotify[leaderId[c]][NotifyKey(Op(c))]
DropChannel(c, unread) ==
  LET ours == msgNotify[leaderId[c]]  key == NotifyKey(Op(c))
      left == IF kind[c] = "Get" THEN [ours EXCEPT ![key] = unread]
              ELSE [r \in DOMAIN ours \ {key} |-> ours[r]]
  IN  msgNotify' = [msgNotify EXCEPT ![leaderId[c]] = left]

GetAnswer(c) ==
  /\ place[c] = "waiting" /\ Channel(c) # <<>>
  /\ DropChannel(c, <<>>)
  /\ \/ Returns(c, Head(Channel(c)))
     \/ CallAgain(c) /\ NextServer(c) /\ UNCHANGED result     \* the reply is lost
  /\ UNCHANGED <<lab, raftVars, msg, kind, tries, since, data, lastApplies,
                 handling, upto, lastApplied, unsaved, diskVars>>

TimeOut(c) ==
  /\ place[c] = "waiting"
  /\ DropChannel(c, Channel(c))
  /\ CallAgain(c)
  /\ \/ NextServer(c)
     \/ kind[c] = "Get" /\ UNCHANGED leaderId
  /\ UNCHANGED <<lab, raftVars, msg, kind, tries, since, result, data, lastApplies,
                 handling, upto, lastApplied, unsaved, diskVars>>

-----------------------------------------------------------------------------
(* Raft commits a started entry; those started before it are lost for good. *)
Commit(i) ==
  /\ log' = Append(log, pending[i])
  /\ pending' = SubSeq(pending, i + 1, Len(pending))
  /\ UNCHANGED <<lab, clerkVars, serverVars, diskVars>>

(* The peer sends the next entry, and waitApplyCh receives it. *)
Deliver(s) ==
  /\ handling[s] = 0 /\ ~unsaved[s] /\ lastApplied[s] < Len(log)
  /\ handling' = [handling EXCEPT ![s] = lastApplied[s] + 1]
  /\ lastApplied' = [lastApplied EXCEPT ![s] = @ + 1]
  /\ unsaved' = [unsaved EXCEPT ![s] = lab = "3A"]
  /\ UNCHANGED <<lab, raftVars, clerkVars, data, lastApplies, msgNotify, upto, diskVars>>

(* Lab-3A's startApplyLogs persists lastApplied after the send. *)
SaveLastApplied(s) ==
  /\ unsaved[s]
  /\ unsaved' = [unsaved EXCEPT ![s] = FALSE]
  /\ disk' = [disk EXCEPT ![s].applied = lastApplied[s]]
  /\ UNCHANGED <<lab, raftVars, clerkVars, data, lastApplies, msgNotify, handling,
                 upto, lastApplied, lost, crashes>>

NeverRepeated(s, op) == FALSE                         \* variant with a fault
IsRepeated(s, op) == lastApplies[s][op.client] = op.msg

Written(value, op) ==
  CASE op.kind = "Put"    -> <<MsgId(op)>>
    [] op.kind = "Append" -> Append(value, MsgId(op))
    [] op.kind = "Get"    -> value

(* What a save writes; the variant forgets which requests were applied. *)
StoreWithoutTable(s) == [index |-> handling[s], data |-> data'[s], last |-> NoStore.last]
Store(s) == [index |-> handling[s], data |-> data'[s], last |-> lastApplies'[s]]

(* Lab-3A saves the store after every entry, Lab-3B, together with the     *)
(* Raft state, only once that state has grown large.                       *)
Save3A(s) == lab = "3A" /\ disk' = [disk EXCEPT ![s].store = Store(s)]
Save3B(s) ==
  /\ lab = "3B"
  /\ \/ disk' = [disk EXCEPT ![s] = [applied |-> handling[s], store |-> Store(s)]]
     \/ UNCHANGED disk

WaitApplyCh(s) ==
  LET op == log[handling[s]]  key == NotifyKey(op)
      apply == op.kind # "Get" /\ ~IsRepeated(s, op)
  IN  /\ handling[s] # 0
      /\ data' = [data EXCEPT ![s] = IF apply THEN Written(@, op) ELSE @]
      /\ lastApplies' = [lastApplies EXCEPT ![s][op.client] = IF apply THEN op.msg ELSE @]
      /\ Save3A(s) \/ Save3B(s)
      /\ \/ key \notin DOMAIN msgNotify[s] /\ UNCHANGED msgNotify
         \/ /\ key \in DOMAIN msgNotify[s] /\ msgNotify[s][key] = <<>>
            /\ msgNotify' = [msgNotify EXCEPT ![s][key] = <<data'[s]>>]
      /\ upto' = [upto EXCEPT ![s] = handling[s]]
      /\ handling' = [handling EXCEPT ![s] = 0]
      /\ UNCHANGED <<lab, raftVars, clerkVars, lastApplied, unsaved, lost, crashes>>

(* Lab-3B: the peer has stored a leader's snapshot, and waitApplyCh, told  *)
(* by an invalid command, reads it.                                        *)
InstallSnapshot(s, t) ==
  LET snap == disk[t].store
  IN  /\ lab = "3B" /\ handling[s] = 0 /\ snap.index > lastApplied[s]
      /\ disk' = [disk EXCEPT ![s] = disk[t]]
      /\ data' = [data EXCEPT ![s] = snap.data]
      /\ lastApplies' = [lastApplies EXCEPT ![s] = snap.last]
      /\ upto' = [upto EXCEPT ![s] = snap.index]
      /\ lastApplied' = [lastApplied EXCEPT ![s] = snap.index]
      /\ UNCHANGED <<lab, raftVars, clerkVars, msgNotify, handling, unsaved, lost, crashes>>

(* ShutdownServer and StartServer: the store and the peer's index are read *)
(* back, and the calls the server was serving fail.                        *)
Crash(s) ==
  LET saved == disk[s]  calls == {c \in Clerk : place[c] \in {"started", "waiting"} /\ leaderId[c] = s}
  IN  /\ s \in Crashable /\ crashes < MaxCrashes /\ crashes' = crashes + 1
      /\ data' = [data EXCEPT ![s] = saved.store.data]
      /\ lastApplies' = [lastApplies EXCEPT ![s] = saved.store.last]
      /\ lastApplied' = [lastApplied EXCEPT ![s] = saved.applied]
      /\ lost' = [lost EXCEPT ![s] = @ \cup (saved.store.index + 1 .. saved.applied)]
      /\ upto' = [upto EXCEPT ![s] = IF saved.store.index > saved.applied
                                     THEN saved.store.index ELSE saved.applied]
      /\ handling' = [handling EXCEPT ![s] = 0] /\ unsaved' = [unsaved EXCEPT ![s] = FALSE]
      /\ msgNotify' = [msgNotify EXCEPT ![s] = NoChannels]
      /\ place' = [c \in Clerk |-> IF c \in calls THEN "calling" ELSE place[c]]
      /\ leaderId' = [c \in Clerk |-> IF c \in calls THEN (leaderId[c] + 1) % NServer ELSE leaderId[c]]
      /\ UNCHANGED <<lab, raftVars, msg, kind, tries, since, result, disk>>

-----------------------------------------------------------------------------
Next ==
  \/ \E c \in Clerk : \/ Begin(c) \/ CallFails(c) \/ StartOp(c) \/ MakeChannel(c)
                      \/ GetAnswer(c) \/ TimeOut(c)
  \/ \E i \in DOMAIN pending : Commit(i)
  \/ \E s \in Server : \/ Deliver(s) \/ SaveLastApplied(s) \/ WaitApplyCh(s) \/ Crash(s)
                       \/ \E t \in Server : InstallSnapshot(s, t)

Spec == Init /\ [][Next]_vars

-----------------------------------------------------------------------------
(* What a log up to n means, without the entries in omit: each request     *)
(* takes effect once, where it first occurs.                               *)
First(entries, i, omit) ==
  \A j \in 1 .. i - 1 : j \in omit \/ MsgId(entries[j]) # MsgId(entries[i])

Effect(entries, n, omit) ==
  LET value[i \in 0 .. n] ==
        IF i = 0 THEN <<>>
        ELSE IF i \in omit \/ ~First(entries, i, omit) THEN value[i - 1]
        ELSE Written(value[i - 1], entries[i])
  IN  value[n]

Value == Seq(Clerk \X Nat)

(* The state has its types. *)
TypeOK ==
  /\ lab \in Lab /\ crashes \in 0 .. MaxCrashes
  /\ \A e \in {log[i] : i \in DOMAIN log} \cup {pending[i] : i \in DOMAIN pending} :
       /\ e.client \in Clerk /\ e.kind \in {"Put", "Append", "Get"}
       /\ e.msg \in DOMAIN Program[e.client] /\ e.try \in 1 .. MaxTries[e.client][e.msg]
  /\ \A c \in Clerk :
       /\ msg[c] \in 0 .. Len(Program[c]) /\ leaderId[c] \in Server
       /\ tries[c] \in 0 .. IF msg[c] = 0 THEN 0 ELSE MaxTries[c][msg[c]]
       /\ place[c] \in {"idle", "calling", "started", "waiting"}
       /\ place[c] = "waiting" => NotifyKey(Op(c)) \in DOMAIN msgNotify[leaderId[c]]
       /\ result[c] \in Value /\ since[c] \in 0 .. Len(log)
  /\ \A s \in Server :
       /\ data[s] \in Value /\ lastApplies[s] \in [Clerk -> Nat]
       /\ {handling[s], upto[s], lastApplied[s]} \subseteq 0 .. Len(log)
       /\ unsaved[s] \in BOOLEAN /\ lost[s] \subseteq 1 .. Len(log)

(* A server's store is what its log means: requests repeated by the clerk, *)
(* delivered again after a restart or folded into a snapshot take effect   *)
(* once, and only the entries a crash of Lab-3A fell on are missing.       *)
StoreIsReplay == \A s \in Server : data[s] = Effect(log, upto[s], lost[s])

(* No entry was lost by a crash between Lab-3A's two saves. *)
NothingLost == \A s \in Server : lost[s] = {}

(* Operations are linearizable: a Get returns the value of the log at an   *)
(* entry committed between its call and its return, and a write that       *)
(* returned is in the log, so every Get called later sees it.              *)
Linearizable ==
  \A c \in Clerk : place[c] = "idle" /\ msg[c] > 0 =>
    IF kind[c] = "Get"
    THEN NothingLost => \E n \in since[c] .. Len(log) : result[c] = Effect(log, n, {})
    ELSE \E i \in DOMAIN log : MsgId(log[i]) = <<c, msg[c]>>

(* waitApplyCh never waits for room in a channel, which it would do with   *)
(* the server's lock held: a channel holds one answer and gets one.        *)
ChannelHasRoom ==
  \A s \in Server : handling[s] # 0 =>
    LET key == NotifyKey(log[handling[s]])
    IN  key \in DOMAIN msgNotify[s] => msgNotify[s][key] = <<>>
=============================================================================
