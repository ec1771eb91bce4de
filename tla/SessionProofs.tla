---------------------------- MODULE SessionProofs ----------------------------
(***************************************************************************)
(* A WebSocket client from build() to the end of its last task, for any    *)
(* number of streams, any capacity of the channels and any ping interval:  *)
(* the distance of the pings (PingsSpaced), the end of the tasks           *)
(* (DropIsFinal), what the streams account for (GapsReported), and its     *)
(* order (ArrivalOrder).                                                   *)
(***************************************************************************)
EXTENDS WsSession, DataInduction, SequenceTheorems

\* What has passed since the last tick, and what is left to the next one,
\* make up the interval at least. Before the first tick quiet is full.
SpacedInv ==
  /\ interval \in Nat \union {NoInterval}
  /\ interval > 0 =>
       /\ due \in Int
       /\ quiet \in 0 .. interval
       /\ quiet = interval \/ quiet + due >= interval

LEMMA InitSpaced == Init => SpacedInv
BY KeepaliveAssumption DEF Init, InitPings, SpacedInv, NoInterval

\* Only ticks and the time move the clock, and only a tick starts a ping.
LEMMA ClockSteps ==
  ASSUME Next
  PROVE  \/ Tick
         \/ Elapse
         \/ UNCHANGED <<interval, due, quiet>> /\ (pinging' => pinging)
<1>1. CASE Handle \/ Transport \/ PeerNotifies \/ PeerSendsOther \/ IncomingTask
  BY <1>1 DEF Handle, Transport, PeerNotifies, PeerSendsOther, IncomingTask, pingVars
<1>2. ASSUME NEW t \in TaskNames, StartTask(t) \/ EndTask(t)
      PROVE  UNCHANGED <<interval, due, quiet>> /\ (pinging' => pinging)
  <2>1. CASE StartTask(t)
    BY <2>1 DEF StartTask, pingVars
  <2>2. CASE EndTask(t)
    <3>1. UNCHANGED <<interval, due, quiet>>
      BY <2>2 DEF EndTask
    <3>2. pinging' => pinging
      BY <2>2, Zenon DEF EndTask
    <3> QED
      BY <3>1, <3>2
  <2> QED
    BY <1>2, <2>1, <2>2
<1>3. ASSUME NEW s \in Streams, Consumer(s)
      PROVE  UNCHANGED <<interval, due, quiet, pinging>>
  BY <1>3 DEF Consumer, pingVars
<1>4. CASE StartManagement \/ ReadMessage \/ SentPing \/ Idle
  BY <1>4 DEF StartManagement, ManagementStart, ReadMessage, ManagementRecv,
     SentPing, PingReturns, Idle, vars, pingVars
<1>5. CASE SendPing \/ Time
  BY <1>5 DEF SendPing, Time
<1> QED
  BY <1>1, <1>2, <1>3, <1>4, <1>5 DEF Next

LEMMA NextSpaced == SpacedInv /\ [Next]_vars => SpacedInv'
<1> SUFFICES ASSUME SpacedInv, [Next]_vars PROVE SpacedInv'
  OBVIOUS
<1>1. CASE UNCHANGED <<interval, due, quiet>>
  BY <1>1 DEF SpacedInv
<1>2. CASE Tick
  BY <1>2 DEF Tick, NextDue, SpacedInv, NoInterval
<1>3. CASE Elapse
  BY <1>3 DEF Elapse, SpacedInv, NoInterval
<1> QED
  BY <1>1, <1>2, <1>3, ClockSteps DEF vars, pingVars

(***************************************************************************)
(* management_task never pings twice within its interval: a send that      *)
(* took longer, or ticks that came late, are not made up for              *)
(* (MissedTickBehavior::Delay).                                            *)
(***************************************************************************)
THEOREM PingsAreSpaced == Spec => PingsSpaced
<1>1. SpacedInv /\ [Next]_vars => [~pinging /\ pinging' => quiet >= interval]_vars
  <2> SUFFICES ASSUME SpacedInv, Next, ~pinging, pinging'
               PROVE  quiet >= interval
    OBVIOUS
  <2>1. CASE Tick
    BY <2>1 DEF Tick, SpacedInv, NoInterval
  <2>2. CASE Elapse
    BY <2>2 DEF Elapse
  <2> QED
    BY <2>1, <2>2, ClockSteps
<1> QED
  BY <1>1, InitSpaced, NextSpaced, PTL DEF Spec, PingsSpaced

-----------------------------------------------------------------------------
(* The life of the client *)

LifeType ==
  /\ client \in {"built", "running", "dropping", "dropped"}
  /\ task \in [TaskNames -> {"none", "spawned", "started", "aborting", "gone"}]
  /\ aborts \in 0 .. Len(AbortOrder)
  /\ connected \in BOOLEAN

\* The tasks that Drop has aborted so far.
Aborted == {AbortOrder[i] : i \in 1 .. aborts}

\* run() spawns all tasks, and what Drop has aborted is at its end. Only the
\* run task keeps a connection up.
LifeRight ==
  /\ client = "built" => \A t \in TaskNames : task[t] = "none"
  /\ client # "built" => \A t \in TaskNames : task[t] # "none"
  /\ client \in {"built", "running"} => aborts = 0
  /\ \A t \in Aborted : task[t] \in {"aborting", "gone"}
  /\ client = "dropped" => aborts = Len(AbortOrder)
  /\ connected => Running("run")

LifeInv == LifeType /\ LifeRight

LEMMA AbortOrderIs ==
  /\ Len(AbortOrder) = 4
  /\ \A i \in 1 .. 4 : AbortOrder[i] \in TaskNames
  /\ {AbortOrder[i] : i \in 1 .. 4} = TaskNames
<1>1. /\ AbortOrder[1] = "incoming" /\ AbortOrder[2] = "management"
      /\ AbortOrder[3] = "disconnect" /\ AbortOrder[4] = "run"
      /\ Len(AbortOrder) = 4
  BY DEF AbortOrder
<1>2. 1 .. 4 = {1, 2, 3, 4}
  OBVIOUS
<1> QED
  BY <1>1, <1>2 DEF TaskNames

LEMMA InitLifeInv == Init => LifeInv
<1> SUFFICES ASSUME Init PROVE LifeInv
  OBVIOUS
<1>1. LifeType
  <2>1. aborts \in 0 .. Len(AbortOrder)
    BY AbortOrderIs DEF Init, InitLife
  <2> QED
    BY <2>1 DEF Init, InitLife, LifeType
<1>2. Aborted = {}
  BY DEF Init, InitLife, Aborted
<1> QED
  BY <1>1, <1>2 DEF Init, InitLife, LifeInv, LifeRight

LEMMA LifeSteps ==
  ASSUME Next
  PROVE  \/ Run \/ StopTransport \/ BeginDrop \/ Abort \/ FinishDrop
         \/ Connect \/ Lose \/ RunReturns
         \/ \E t \in TaskNames : Start(t) \/ Cancelled(t)
         \/ ManagementStart
         \/ UNCHANGED lifeVars
<1>1. CASE Handle \/ Transport
  BY <1>1 DEF Handle, Transport
<1>2. ASSUME NEW t \in TaskNames, StartTask(t) \/ EndTask(t)
      PROVE  Start(t) \/ Cancelled(t)
  BY <1>2 DEF StartTask, EndTask
<1>3. CASE PeerNotifies \/ PeerSendsOther \/ IncomingTask
  BY <1>3 DEF PeerNotifies, PeerSendsOther, IncomingTask
<1>4. ASSUME NEW s \in Streams, Consumer(s)
      PROVE  UNCHANGED lifeVars
  BY <1>4 DEF Consumer
<1>5. CASE StartManagement \/ ReadMessage \/ SendPing \/ SentPing \/ Time \/ Idle
  BY <1>5 DEF StartManagement, ReadMessage, SendPing, SentPing, Time, Idle, vars
<1> QED
  BY <1>1, <1>2, <1>3, <1>4, <1>5 DEF Next

\* A step of one task.
LEMMA TaskStep ==
  ASSUME LifeInv, NEW t \in TaskNames, task[t] # "none",
         NEW state \in {"started", "aborting", "gone"},
         task' = [task EXCEPT ![t] = state],
         task[t] \in {"aborting", "gone"} => state \in {"aborting", "gone"},
         UNCHANGED <<client, aborts>>,
         connected' \in BOOLEAN, connected' => connected /\ (t = "run" => state # "gone")
  PROVE  LifeInv'
<1>1. LifeType'
  BY DEF LifeInv, LifeType
<1>2. Aborted' = Aborted
  BY DEF Aborted
<1>3. client # "built"
  BY DEF LifeInv, LifeRight
<1>4. \A u \in TaskNames : task'[u] = IF u = t THEN state ELSE task[u]
  BY DEF LifeInv, LifeType
<1>5. Aborted \subseteq TaskNames
  BY AbortOrderIs DEF Aborted, LifeInv, LifeType
<1>6. \A u \in Aborted : task'[u] \in {"aborting", "gone"}
  BY <1>4, <1>5 DEF LifeInv, LifeRight
<1>7. connected' => Running("run")'
  BY <1>4 DEF LifeInv, LifeRight, Running, TaskNames
<1> QED
  BY <1>1, <1>2, <1>3, <1>4, <1>6, <1>7 DEF LifeInv, LifeRight

\* A step of the handle or of the transport.
LEMMA HandleStep ==
  ASSUME LifeInv, UNCHANGED <<task, aborts>>, client' = client \/ client # "built",
         client' \in {"built", "running", "dropping", "dropped"},
         client' = "dropped" => aborts = Len(AbortOrder),
         client' # client => client' \in {"dropping", "dropped"},
         connected' \in BOOLEAN, connected' => connected \/ Running("run")
  PROVE  LifeInv'
<1>1. LifeType'
  BY DEF LifeInv, LifeType
<1>2. Aborted' = Aborted
  BY DEF Aborted
<1>3. Running("run")' = Running("run")
  BY DEF Running
<1> QED
  BY <1>1, <1>2, <1>3 DEF LifeInv, LifeRight

LEMMA AbortStep == LifeInv /\ Abort => LifeInv'
<1> SUFFICES ASSUME LifeInv, Abort PROVE LifeInv'
  OBVIOUS
<1> DEFINE a == AbortOrder[aborts']
<1>1. aborts' = aborts + 1 /\ aborts' \in 1 .. 4 /\ a \in TaskNames
  BY AbortOrderIs DEF Abort, LifeInv, LifeType
<1>2. /\ task[a] # "none"
      /\ task[a] \in {"spawned", "started", "aborting", "gone"}
  BY <1>1 DEF Abort, LifeInv, LifeType, LifeRight
<1> HIDE DEF a
<1>3. PICK state : task' = [task EXCEPT ![a] = state]
                   /\ state = CASE task[a] = "spawned" -> "gone"
                                [] task[a] = "started" -> "aborting"
                                [] task[a] \in {"aborting", "gone"} -> task[a]
  BY DEF Abort, a
<1>4. state \in {"aborting", "gone"} /\ (state = "gone" => task[a] \in {"spawned", "gone"})
  BY <1>2, <1>3
<1>5. \A u \in TaskNames : task'[u] = IF u = a THEN state ELSE task[u]
  <2>1. task' = [task EXCEPT ![a] = state]
    BY <1>3
  <2> QED
    BY <2>1 DEF LifeInv, LifeType
<1>6. Aborted' = Aborted \union {a}
  <2>1. 1 .. aborts' = 1 .. aborts \union {aborts'}
    BY <1>1 DEF LifeInv, LifeType
  <2> QED
    BY <2>1 DEF Aborted, a
<1>7. Aborted \subseteq TaskNames
  BY AbortOrderIs DEF Aborted, LifeInv, LifeType
<1>8. LifeType'
  <2>1. aborts' \in 0 .. Len(AbortOrder)
    BY <1>1, AbortOrderIs
  <2>2. task' = [task EXCEPT ![a] = state]
    BY <1>3
  <2>3. task' \in [TaskNames -> {"none", "spawned", "started", "aborting", "gone"}]
    BY <1>4, <2>2 DEF LifeInv, LifeType
  <2>4. UNCHANGED <<client, connected>>
    BY DEF Abort
  <2> QED
    BY <2>1, <2>3, <2>4 DEF LifeInv, LifeType
<1>9. connected' => Running("run")'
  BY <1>1, <1>4, <1>5 DEF Abort, LifeInv, LifeRight, Running, TaskNames
<1> QED
  BY <1>1, <1>4, <1>5, <1>6, <1>7, <1>8, <1>9 DEF Abort, LifeInv, LifeRight

LEMMA NextLife == LifeInv /\ [Next]_vars => LifeInv'
<1> SUFFICES ASSUME LifeInv, [Next]_vars PROVE LifeInv'
  OBVIOUS
<1>1. CASE UNCHANGED lifeVars
  BY <1>1 DEF lifeVars, LifeInv, LifeType, LifeRight, Running, Aborted
<1>2. CASE Run
  <2>1. LifeType'
    BY <1>2 DEF Run, LifeInv, LifeType
  <2>2. Aborted' = {}
    BY <1>2 DEF Run, LifeInv, LifeRight, Aborted
  <2>3. ~connected'
    BY <1>2 DEF Run, LifeInv, LifeRight, Running, TaskNames
  <2> QED
    BY <2>1, <2>2, <2>3, <1>2 DEF Run, LifeInv, LifeRight
<1>3. CASE StopTransport \/ BeginDrop \/ FinishDrop \/ Connect \/ Lose
  <2>1. connected \in BOOLEAN /\ client \in {"built", "running", "dropping", "dropped"}
    BY DEF LifeInv, LifeType
  <2>2. client = "dropped" => aborts = Len(AbortOrder)
    BY DEF LifeInv, LifeRight
  <2>3. CASE StopTransport
    BY <2>1, <2>2, <2>3, HandleStep DEF StopTransport
  <2>4. CASE BeginDrop
    <3>1. client = "running" /\ client' = "dropping" /\ UNCHANGED <<task, aborts, connected>>
      BY <2>4 DEF BeginDrop
    <3> QED
      BY <2>1, <3>1, HandleStep
  <2>5. CASE FinishDrop
    <3>1. /\ client = "dropping" /\ client' = "dropped" /\ aborts = Len(AbortOrder)
          /\ UNCHANGED <<task, aborts, connected>>
      BY <2>5 DEF FinishDrop
    <3> QED
      BY <2>1, <3>1, HandleStep
  <2>6. CASE Connect \/ Lose
    BY <2>1, <2>2, <2>6, HandleStep DEF Connect, Lose
  <2> QED
    BY <1>3, <2>3, <2>4, <2>5, <2>6
<1>4. CASE Abort
  BY <1>4, AbortStep
<1>5. CASE RunReturns
  BY <1>5, TaskStep DEF RunReturns, Running, TaskNames
<1>6. ASSUME NEW t \in TaskNames, Start(t)
      PROVE  LifeInv'
  BY <1>6, TaskStep DEF Start, LifeInv, LifeType
<1>7. ASSUME NEW t \in TaskNames, Cancelled(t)
      PROVE  LifeInv'
  <2>1. connected' \in BOOLEAN /\ (connected' => connected /\ t # "run")
    BY <1>7 DEF Cancelled, LifeInv, LifeType
  <2> QED
    BY <1>7, <2>1, TaskStep DEF Cancelled
<1>8. CASE ManagementStart
  <2> DEFINE state == IF interval = 0 THEN "gone" ELSE "started"
  <2>1. state \in {"gone", "started"} /\ task' = [task EXCEPT !["management"] = state]
    BY <1>8 DEF ManagementStart
  <2>2. connected' = connected /\ connected \in BOOLEAN
    BY <1>8 DEF ManagementStart, LifeInv, LifeType
  <2>3. "management" \in TaskNames /\ task["management"] = "spawned" /\ UNCHANGED <<client, aborts>>
    BY <1>8 DEF ManagementStart, TaskNames
  <2> HIDE DEF state
  <2> QED
    BY <2>1, <2>2, <2>3, TaskStep
<1> QED
  BY <1>1, <1>2, <1>3, <1>4, <1>5, <1>6, <1>7, <1>8, LifeSteps DEF vars

(***************************************************************************)
(* Nothing outlives Drop: when it has returned, every task is at its end   *)
(* and the connection with them, and that stays so (Drop for Connected).   *)
(***************************************************************************)
THEOREM DroppedForGood == Spec => DropIsFinal
<1>1. LifeInv /\ client = "dropped" => OnlyEnding
  <2> SUFFICES ASSUME LifeInv, client = "dropped" PROVE OnlyEnding
    OBVIOUS
  <2>1. \A t \in TaskNames : task[t] \in {"aborting", "gone"}
    BY AbortOrderIs DEF LifeInv, LifeType, LifeRight, Aborted
  <2> QED
    BY <2>1 DEF LifeInv, LifeRight, OnlyEnding, Running, TaskNames
<1>2. LifeInv /\ client = "dropped" /\ [Next]_vars => (client = "dropped")'
  <2> SUFFICES ASSUME client = "dropped", [Next]_vars PROVE client' = "dropped"
    OBVIOUS
  <2> QED
    BY LifeSteps DEF vars, lifeVars, Run, StopTransport, BeginDrop, Abort, FinishDrop,
       Connect, Lose, RunReturns, Start, Cancelled, ManagementStart
<1> QED
  BY <1>1, <1>2, InitLifeInv, NextLife, PTL DEF Spec, DropIsFinal

-----------------------------------------------------------------------------
(* What a stream accounts for *)

Items == [kind : {"note", "missed"}, n : Nat]

Receivers == [missed : Nat, queue : Seq(Nat)]

StreamRecords ==
  [state : {"unused", "open", "ended", "closed"}, receiver : Receivers,
   start : Nat, since : Nat, items : Seq(Items)]

NotesType ==
  /\ note \in Nat
  /\ incoming \in Receivers
  /\ forwarded \in Seq(Nat)
  /\ stream \in [Streams -> StreamRecords]

\* The items of st and what its receiver still has make up what has been sent
\* since st was opened; its queue holds the last part of that.
Accounts(st, sent) ==
  LET before == [i \in 1 .. Len(st.items) + 1 |-> st.start + Counted(st.items)[i - 1]]
      queue  == st.receiver.queue
  IN  /\ \A i \in 1 .. Len(st.items) :
           /\ before[i + 1] <= Len(sent)
           /\ st.items[i].kind = "note" => /\ before[i] < Len(sent)
                                           /\ st.items[i].n = sent[before[i] + 1]
      /\ before[Len(st.items) + 1] + st.receiver.missed + Len(queue) = Len(sent)
      /\ \A j \in 1 .. Len(queue) : queue[j] = sent[Len(sent) - Len(queue) + j]

GapsInv ==
  /\ NotesType
  /\ \A s \in Streams : stream[s].state = "open" => Accounts(stream[s], forwarded)

LEMMA WeightType == \A item \in Items : Weight(item) \in Nat
BY DEF Items, Weight

\* The recursive definition of Counted has a solution.
LEMMA CountedIs ==
  ASSUME NEW items \in Seq(Items)
  PROVE  /\ Counted(items) \in [0 .. Len(items) -> Nat]
         /\ Counted(items)[0] = 0
         /\ \A n \in 1 .. Len(items) :
              Counted(items)[n] = Counted(items)[n - 1] + Weight(items[n])
<1> DEFINE step == [n \in 1 .. Len(items) |-> [c \in Nat |-> c + Weight(items[n])]]
           Sums(t) == t = [n \in 0 .. Len(items) |->
                             IF n = 0 THEN 0 ELSE t[n - 1] + Weight(items[n])]
<1>1. Len(items) \in Nat /\ \A n \in 1 .. Len(items) : items[n] \in Items
  OBVIOUS
<1>2. step \in [1 .. Len(items) -> [Nat -> Nat]]
  BY <1>1, WeightType
<1>3. PICK t \in [0 .. Len(items) -> Nat] : Sums(t)
  <2>1. \A n \in 1 .. Len(items), c \in Nat : step[n][c] = c + Weight(items[n])
    OBVIOUS
  <2> HIDE DEF step
  <2>2. PICK t \in [0 .. Len(items) -> Nat] : Carries(t, Len(items), 0, step)
    BY <1>1, <1>2, Loop
  <2>3. \A n \in 1 .. Len(items) : step[n][t[n - 1]] = t[n - 1] + Weight(items[n])
    BY <1>1, <2>1
  <2> HIDE DEF Sums
  <2>4. Sums(t)
    BY <2>2, <2>3 DEF Sums, Carries
  <2> QED
    BY <2>4
<1>4. Counted(items) = CHOOSE c : Sums(c)
  BY DEF Counted
<1>5. Sums(Counted(items))
  <2> HIDE DEF Sums
  <2> QED
    BY <1>3, <1>4
<1> DEFINE c == Counted(items)
<1> HIDE DEF c
<1>6. c = [n \in 0 .. Len(items) |-> IF n = 0 THEN 0 ELSE c[n - 1] + Weight(items[n])]
  BY <1>5 DEF c
<1>7. /\ DOMAIN c = 0 .. Len(items) /\ c[0] = 0
      /\ \A n \in 1 .. Len(items) : c[n] = c[n - 1] + Weight(items[n])
  BY <1>1, <1>6
<1>8. \A n \in 0 .. Len(items) : c[n] \in Nat
  <2> DEFINE S == {n \in 0 .. Len(items) : c[n] \in Nat}
  <2>1. 0 \in S
    BY <1>1, <1>7
  <2>2. ASSUME NEW k \in 0 .. Len(items) - 1, k \in S PROVE k + 1 \in S
    <3>1. k + 1 \in 1 .. Len(items) /\ Weight(items[k + 1]) \in Nat
      BY <1>1, WeightType
    <3> QED
      BY <1>7, <2>2, <3>1
  <2> HIDE DEF S
  <2>3. 0 .. Len(items) \subseteq S
    BY <1>1, <2>1, <2>2, InductionUpTo
  <2> QED
    BY <2>3 DEF S
<1> QED
  BY <1>6, <1>7, <1>8 DEF c

\* An item more does not change what those before it stand for.
LEMMA CountedAppend ==
  ASSUME NEW items \in Seq(Items), NEW item \in Items
  PROVE  /\ \A n \in 0 .. Len(items) :
              Counted(Append(items, item))[n] = Counted(items)[n]
         /\ Counted(Append(items, item))[Len(items) + 1]
              = Counted(items)[Len(items)] + Weight(item)
<1> DEFINE more == Append(items, item)
           S == {n \in 0 .. Len(items) : Counted(more)[n] = Counted(items)[n]}
<1>1. /\ more \in Seq(Items) /\ Len(more) = Len(items) + 1 /\ Len(items) \in Nat
      /\ \A n \in 1 .. Len(items) : more[n] = items[n]
      /\ more[Len(items) + 1] = item
  OBVIOUS
<1> HIDE DEF more
<1>2. 0 \in S
  BY <1>1, CountedIs
<1>3. ASSUME NEW k \in 0 .. Len(items) - 1, k \in S PROVE k + 1 \in S
  <2>1. k + 1 \in 1 .. Len(items) /\ k + 1 \in 1 .. Len(more) /\ (k + 1) - 1 = k
    BY <1>1
  <2>2. Counted(more)[k + 1] = Counted(more)[k] + Weight(more[k + 1])
    BY <1>1, <2>1, CountedIs
  <2>3. Counted(items)[k + 1] = Counted(items)[k] + Weight(items[k + 1])
    BY <2>1, CountedIs
  <2> QED
    BY <1>1, <1>3, <2>1, <2>2, <2>3
<1> HIDE DEF S
<1>4. 0 .. Len(items) \subseteq S
  BY <1>1, <1>2, <1>3, InductionUpTo
<1>5. Counted(more)[Len(items) + 1] = Counted(more)[Len(items)] + Weight(item)
  BY <1>1, CountedIs
<1> QED
  BY <1>1, <1>4, <1>5 DEF S, more

\* A receiver that is sent something more, and one that is read.
LEMMA ReceiverPublish ==
  ASSUME NEW receiver \in Receivers, NEW frame \in Nat, NEW capacity \in Nat \ {0}
  PROVE  LET after == Publish(receiver, frame, capacity)
             all   == Append(receiver.queue, frame)
             lost  == after.missed - receiver.missed
         IN  /\ after \in Receivers
             /\ lost \in Nat
             /\ lost + Len(after.queue) = Len(receiver.queue) + 1
             /\ \A j \in 1 .. Len(after.queue) : after.queue[j] = all[lost + j]
<1> DEFINE queue == receiver.queue
<1>1. queue \in Seq(Nat) /\ Len(queue) \in Nat /\ receiver.missed \in Nat
  BY DEF Receivers
<1>2. CASE Len(queue) < capacity
  <2> DEFINE all == Append(queue, frame)
             after == Publish(receiver, frame, capacity)
  <2>1. after = [receiver EXCEPT !.queue = all]
    BY <1>2 DEF Publish
  <2>2. all \in Seq(Nat) /\ Len(all) = Len(queue) + 1
    BY <1>1
  <2> HIDE DEF all, after
  <2>3. after \in Receivers /\ after.missed = receiver.missed /\ after.queue = all
    BY <2>1, <2>2 DEF Receivers
  <2>4. after.missed - receiver.missed = 0
    BY <1>1, <2>3
  <2>5. 0 + Len(after.queue) = Len(queue) + 1
    BY <1>1, <2>2, <2>3
  <2>6. \A j \in 1 .. Len(after.queue) : after.queue[j] = all[0 + j]
    BY <2>3
  <2> QED
    BY <2>3, <2>4, <2>5, <2>6 DEF all, after
<1>3. CASE ~(Len(queue) < capacity)
  <2> DEFINE rest == Tail(queue)
             kept == Append(rest, frame)
             after == Publish(receiver, frame, capacity)
  <2>1. after = [missed |-> receiver.missed + 1, queue |-> kept]
    BY <1>3 DEF Publish
  <2>2. queue # <<>>
    BY <1>1, <1>3
  <2>3. rest \in Seq(Nat) /\ Len(rest) = Len(queue) - 1
    BY <1>1, <2>2, HeadTailProperties
  <2>4. \A j \in 1 .. Len(rest) : rest[j] = queue[j + 1]
    BY <1>1, <2>2, HeadTailProperties
  <2> HIDE DEF rest
  <2>5. kept \in Seq(Nat) /\ Len(kept) = Len(queue)
    BY <1>1, <2>3
  <2>6. (\A j \in 1 .. Len(rest) : kept[j] = rest[j]) /\ kept[Len(rest) + 1] = frame
    BY <2>3
  <2>7. /\ \A j \in 1 .. Len(queue) : Append(queue, frame)[j] = queue[j]
        /\ Append(queue, frame)[Len(queue) + 1] = frame
    BY <1>1
  <2> HIDE DEF kept, after, queue
  <2>8. ASSUME NEW j \in 1 .. Len(queue)
        PROVE  kept[j] = Append(queue, frame)[1 + j]
    <3>1. CASE j \in 1 .. Len(rest)
      <4>1. j + 1 \in 1 .. Len(queue) /\ j + 1 = 1 + j
        BY <1>1, <2>3, <3>1
      <4> QED
        BY <2>4, <2>6, <2>7, <3>1, <4>1
    <3>2. CASE j = Len(queue)
      <4>1. j = Len(rest) + 1 /\ 1 + j = Len(queue) + 1
        BY <1>1, <2>3, <3>2
      <4> QED
        BY <2>6, <2>7, <4>1
    <3> QED
      BY <1>1, <2>3, <3>1, <3>2
  <2>9. after \in Receivers /\ after.missed = receiver.missed + 1 /\ after.queue = kept
    BY <1>1, <2>1, <2>5 DEF Receivers
  <2>10. after.missed - receiver.missed = 1 /\ 1 + Len(after.queue) = Len(queue) + 1
    BY <1>1, <2>5, <2>9
  <2> QED
    BY <2>5, <2>8, <2>9, <2>10 DEF after, queue
<1> QED
  BY <1>2, <1>3

\* The definition, without its abbreviations.
LEMMA AccountsIs ==
  ASSUME NEW st \in StreamRecords, NEW sent
  PROVE  Accounts(st, sent) <=>
           LET n == Len(st.items)
               c == Counted(st.items)
               receiver == st.receiver
           IN  /\ \A i \in 1 .. n :
                    /\ st.start + c[i] <= Len(sent)
                    /\ st.items[i].kind = "note" =>
                         st.start + c[i - 1] < Len(sent) /\ st.items[i].n = sent[st.start + c[i - 1] + 1]
               /\ st.start + c[n] + receiver.missed + Len(receiver.queue) = Len(sent)
               /\ \A j \in 1 .. Len(receiver.queue) :
                    receiver.queue[j] = sent[Len(sent) - Len(receiver.queue) + j]
<1> DEFINE before == [i \in 1 .. Len(st.items) + 1 |-> st.start + Counted(st.items)[i - 1]]
<1>1. Len(st.items) \in Nat
  BY DEF StreamRecords
<1>2. /\ before[Len(st.items) + 1] = st.start + Counted(st.items)[Len(st.items)]
      /\ \A i \in 1 .. Len(st.items) :
           /\ before[i + 1] = st.start + Counted(st.items)[i]
           /\ before[i] = st.start + Counted(st.items)[i - 1]
  <2>1. \A i \in Int : (i + 1) - 1 = i
    OBVIOUS
  <2> QED
    BY <1>1, <2>1
<1> QED
  BY <1>1, <1>2 DEF Accounts

\* What is sent next adds to what an open stream has to account for.
LEMMA AccountsPublish ==
  ASSUME NEW st \in StreamRecords, NEW sent \in Seq(Nat), NEW frame \in Nat,
         NEW capacity \in Nat \ {0}, Accounts(st, sent)
  PROVE  LET after == [st EXCEPT !.receiver = Publish(@, frame, capacity)]
         IN  after \in StreamRecords /\ Accounts(after, Append(sent, frame))
<1> DEFINE receiver == st.receiver
           published == Publish(receiver, frame, capacity)
           lost == published.missed - receiver.missed
           after == [st EXCEPT !.receiver = published]
           more == Append(sent, frame)
           n == Len(st.items)
           c == Counted(st.items)
           r == Len(receiver.queue)
           p == Len(published.queue)
           m == Len(sent)
<1>1. receiver \in Receivers /\ st.items \in Seq(Items) /\ st.start \in Nat /\ n \in Nat
  BY DEF StreamRecords
<1>2. published \in Receivers /\ lost \in Nat /\ lost + p = r + 1
  BY <1>1, ReceiverPublish
<1>3. \A j \in 1 .. p : published.queue[j] = Append(receiver.queue, frame)[lost + j]
  BY <1>1, ReceiverPublish
<1>4. \A i \in 0 .. n : c[i] \in Nat
  BY <1>1, CountedIs
<1>5. more \in Seq(Nat) /\ Len(more) = m + 1 /\ m \in Nat
  OBVIOUS
<1>6. (\A i \in 1 .. m : more[i] = sent[i]) /\ more[m + 1] = frame
  OBVIOUS
<1>7. after \in StreamRecords
  BY <1>2 DEF StreamRecords
<1>8. /\ after.items = st.items /\ after.start = st.start /\ after.receiver = published
  BY DEF StreamRecords
<1>9. /\ r \in Nat /\ p \in Nat /\ receiver.missed \in Nat /\ published.missed \in Nat
      /\ receiver.queue \in Seq(Nat)
  BY <1>1, <1>2 DEF Receivers
<1>10. lost + receiver.missed = published.missed
  BY <1>9
<1>11. (\A i \in 1 .. r : Append(receiver.queue, frame)[i] = receiver.queue[i])
         /\ Append(receiver.queue, frame)[r + 1] = frame
  BY <1>9
<1>12. /\ \A i \in 1 .. n :
            /\ st.start + c[i] <= m
            /\ st.items[i].kind = "note" =>
                 st.start + c[i - 1] < m /\ st.items[i].n = sent[st.start + c[i - 1] + 1]
       /\ st.start + c[n] + receiver.missed + r = m
       /\ \A j \in 1 .. r : receiver.queue[j] = sent[m - r + j]
  BY AccountsIs
<1> HIDE DEF c, published, after, more, lost, receiver, n, r, p, m
<1>13. ASSUME NEW i \in 1 .. n
       PROVE  /\ st.start + c[i] <= m + 1
              /\ st.items[i].kind = "note" =>
                   st.start + c[i - 1] < m + 1 /\ st.items[i].n = more[st.start + c[i - 1] + 1]
  <2>1. c[i] \in Nat /\ c[i - 1] \in Nat
    BY <1>1, <1>4
  <2> DEFINE x == c[i]
             y == c[i - 1]
             start == st.start
  <2>0. x \in Nat /\ y \in Nat /\ start \in Nat /\ m \in Nat
    BY <1>1, <1>5, <2>1
  <2>7. start + x <= m
    BY <1>12
  <2>8. st.items[i].kind = "note" => start + y < m /\ st.items[i].n = sent[start + y + 1]
    BY <1>12
  <2> HIDE DEF x, y, start
  <2>2. start + x <= m + 1
    BY <2>0, <2>7
  <2>3. ASSUME st.items[i].kind = "note"
        PROVE  start + y < m + 1 /\ st.items[i].n = more[start + y + 1]
    <3>1. start + y < m /\ st.items[i].n = sent[start + y + 1]
      BY <2>8, <2>3
    <3>2. start + y + 1 \in 1 .. m /\ start + y < m + 1
      BY <2>0, <3>1
    <3> QED
      BY <1>6, <3>1, <3>2
  <2> QED
    BY <2>2, <2>3 DEF x, y, start
<1>14. c[n] \in Nat /\ st.start + c[n] + published.missed + p = m + 1
  <2>1. c[n] \in Nat
    BY <1>1, <1>4
  <2> DEFINE x == c[n]
             start == st.start
             missed == receiver.missed
             now == published.missed
  <2>2. start + x + missed + r = m
    BY <1>12
  <2>3. x \in Nat /\ start \in Nat /\ missed \in Nat /\ now \in Nat /\ r \in Nat /\ p \in Nat
    BY <1>1, <1>9, <2>1
  <2>4. lost + missed = now /\ lost \in Nat /\ lost + p = r + 1
    BY <1>2, <1>10
  <2> HIDE DEF x, start, missed, now
  <2>5. start + x + now + p = m + 1
    BY <1>5, <2>2, <2>3, <2>4
  <2> QED
    BY <2>1, <2>5 DEF x, start, missed, now
<1>15. ASSUME NEW j \in 1 .. p
       PROVE  published.queue[j] = more[(m + 1) - p + j]
  <2>0. /\ lost \in Nat /\ r \in Nat /\ p \in Nat /\ m \in Nat
        /\ lost + p = r + 1
    BY <1>2, <1>5, <1>9
  <2>1. lost + j \in 1 .. r + 1
    BY <2>0
  <2>2. (m + 1) - p + j = m - r + (lost + j)
    BY <2>0
  <2>3. CASE lost + j \in 1 .. r
    <3>1. published.queue[j] = sent[m - r + (lost + j)]
      BY <1>3, <1>11, <1>12, <2>3
    <3>2. r <= m
      <4> DEFINE x == c[n]
                 start == st.start
                 missed == receiver.missed
      <4>1. start + x + missed + r = m
        BY <1>12
      <4>2. start \in Nat /\ x \in Nat /\ missed \in Nat
        BY <1>1, <1>9, <1>14
      <4> HIDE DEF x, start, missed
      <4> QED
        BY <2>0, <4>1, <4>2
    <3>3. m - r + (lost + j) \in 1 .. m
      BY <2>0, <2>3, <3>2
    <3> QED
      BY <1>6, <2>2, <3>1, <3>3
  <2>4. CASE lost + j = r + 1
    <3>1. m - r + (lost + j) = m + 1
      BY <2>0, <2>4
    <3> QED
      BY <1>3, <1>6, <1>11, <2>2, <2>4, <3>1
  <2>5. lost + j \in 1 .. r \/ lost + j = r + 1
    BY <2>1, <2>0
  <2> QED
    BY <2>3, <2>4, <2>5
<1>16. Accounts(after, more)
  <2>1. /\ \A i \in 1 .. Len(after.items) :
             /\ after.start + Counted(after.items)[i] <= Len(more)
             /\ after.items[i].kind = "note" =>
                  /\ after.start + Counted(after.items)[i - 1] < Len(more)
                  /\ after.items[i].n = more[after.start + Counted(after.items)[i - 1] + 1]
        /\ after.start + Counted(after.items)[Len(after.items)] + after.receiver.missed
             + Len(after.receiver.queue) = Len(more)
        /\ \A j \in 1 .. Len(after.receiver.queue) :
             after.receiver.queue[j] = more[Len(more) - Len(after.receiver.queue) + j]
    BY <1>5, <1>8, <1>13, <1>14, <1>15, Zenon DEF n, c, p
  <2> QED
    BY <1>7, <2>1, AccountsIs
<1> QED
  BY <1>7, <1>16 DEF after, more, published, receiver

\* A stream that yields an item accounts for as much as before, when the item
\* stands for what its receiver no longer has.
LEMMA AccountsItem ==
  ASSUME NEW st \in StreamRecords, NEW sent \in Seq(Nat), Accounts(st, sent),
         NEW item \in Items, NEW receiver \in Receivers,
         Weight(item) + receiver.missed + Len(receiver.queue)
           = st.receiver.missed + Len(st.receiver.queue),
         item.kind = "note" => /\ st.receiver.missed = 0
                               /\ Len(st.receiver.queue) > 0
                               /\ item.n = sent[Len(sent) - Len(st.receiver.queue) + 1],
         \A j \in 1 .. Len(receiver.queue) :
           receiver.queue[j] = sent[Len(sent) - Len(receiver.queue) + j]
  PROVE  LET after == [st EXCEPT !.receiver = receiver, !.items = Append(@, item)]
         IN  after \in StreamRecords /\ Accounts(after, sent)
<1> DEFINE items == st.items
           more == Append(items, item)
           after == [st EXCEPT !.receiver = receiver, !.items = more]
           start == st.start
           n == Len(items)
           c == Counted(items)
           d == Counted(more)
           m == Len(sent)
           missed == st.receiver.missed
           r == Len(st.receiver.queue)
           w == Weight(item)
           missed2 == receiver.missed
           r2 == Len(receiver.queue)
<1>1. /\ items \in Seq(Items) /\ n \in Nat /\ m \in Nat /\ start \in Nat
      /\ missed \in Nat /\ r \in Nat /\ missed2 \in Nat /\ r2 \in Nat
  BY DEF StreamRecords, Receivers
<1>2. w \in Nat /\ w + missed2 + r2 = missed + r
  BY WeightType
<1>3. more \in Seq(Items) /\ Len(more) = n + 1
  BY <1>1
<1>4. (\A i \in 1 .. n : more[i] = items[i]) /\ more[n + 1] = item
  BY <1>1
<1>5. after \in StreamRecords
  BY <1>3 DEF StreamRecords
<1>6. after.items = more /\ after.start = start /\ after.receiver = receiver
  BY DEF StreamRecords
<1>7. /\ \A i \in 1 .. n :
            /\ start + c[i] <= m
            /\ items[i].kind = "note" =>
                 start + c[i - 1] < m /\ items[i].n = sent[start + c[i - 1] + 1]
      /\ start + c[n] + missed + r = m
  BY AccountsIs
<1>8. (\A i \in 0 .. n : d[i] = c[i]) /\ d[n + 1] = c[n] + w
  BY <1>1, CountedAppend
<1>9. c[n] \in Nat
  BY <1>1, CountedIs
<1>10. item.kind = "note" => missed = 0 /\ r > 0 /\ item.n = sent[m - r + 1]
  OBVIOUS
<1> HIDE DEF items, more, after, start, n, c, d, m, missed, r, w, missed2, r2
<1>16. start + c[n] + missed + r = m
  BY <1>7
<1>11. start + c[n] + w <= m
  <2> DEFINE x == c[n]
  <2>1. x \in Nat /\ start + x + missed + r = m
    BY <1>9, <1>16
  <2> HIDE DEF x
  <2>2. start + x + w <= m
    BY <1>1, <1>2, <2>1
  <2> QED
    BY <2>2 DEF x
<1>12. start + d[n + 1] + missed2 + r2 = m
  <2> DEFINE x == c[n]
             y == d[n + 1]
  <2>1. x \in Nat /\ start + x + missed + r = m /\ y = x + w
    BY <1>8, <1>9, <1>16, Zenon
  <2> HIDE DEF x, y
  <2>2. start + y + missed2 + r2 = m
    BY <1>1, <1>2, <2>1
  <2> QED
    BY <2>2 DEF y
<1>13. item.kind = "note" => start + c[n] < m /\ item.n = sent[start + c[n] + 1]
  <2> DEFINE x == c[n]
  <2>1. x \in Nat /\ start + x + missed + r = m
    BY <1>9, <1>16
  <2> HIDE DEF x
  <2>2. ASSUME item.kind = "note" PROVE start + x < m /\ m - r + 1 = start + x + 1
    BY <1>1, <1>10, <2>1, <2>2
  <2> QED
    BY <1>10, <2>2 DEF x
<1>14. ASSUME NEW i \in 1 .. n + 1
       PROVE  /\ start + d[i] <= m
              /\ more[i].kind = "note" =>
                   start + d[i - 1] < m /\ more[i].n = sent[start + d[i - 1] + 1]
  <2>1. CASE i \in 1 .. n
    <3>1. i \in 0 .. n /\ i - 1 \in 0 .. n
      BY <1>1, <2>1
    <3>2. d[i] = c[i] /\ d[i - 1] = c[i - 1] /\ more[i] = items[i]
      BY <1>4, <1>8, <2>1, <3>1
    <3> QED
      BY <1>7, <2>1, <3>2, Zenon
  <2>2. CASE i = n + 1
    <3>1. i - 1 = n /\ n \in 0 .. n
      BY <1>1, <2>2
    <3>2. d[i] = c[n] + w /\ d[i - 1] = c[n] /\ more[i] = item
      BY <1>4, <1>8, <2>2, <3>1
    <3>3. start + (c[n] + w) <= m
      BY <1>1, <1>2, <1>9, <1>11
    <3> QED
      BY <1>13, <3>2, <3>3, Zenon
  <2>3. i \in 1 .. n \/ i = n + 1
    BY <1>1
  <2> QED
    BY <2>1, <2>2, <2>3
<1>15. Accounts(after, sent)
  <2>1. /\ \A i \in 1 .. Len(after.items) :
             /\ after.start + Counted(after.items)[i] <= Len(sent)
             /\ after.items[i].kind = "note" =>
                  /\ after.start + Counted(after.items)[i - 1] < Len(sent)
                  /\ after.items[i].n = sent[after.start + Counted(after.items)[i - 1] + 1]
        /\ after.start + Counted(after.items)[Len(after.items)] + after.receiver.missed
             + Len(after.receiver.queue) = Len(sent)
        /\ \A j \in 1 .. Len(after.receiver.queue) :
             after.receiver.queue[j] = sent[Len(sent) - Len(after.receiver.queue) + j]
    BY <1>3, <1>6, <1>12, <1>14, Zenon DEF d, m, missed2, r2
  <2> QED
    BY <1>5, <2>1, AccountsIs
<1> QED
  BY <1>5, <1>15 DEF after, more, items

\* A poll that yields.
LEMMA AccountsYield ==
  ASSUME NEW st \in StreamRecords, NEW sent \in Seq(Nat), Accounts(st, sent),
         HasNews(st.receiver)
  PROVE  LET after == [st EXCEPT !.receiver = AfterRecv(@),
                                 !.items = @ \o Yield(st.receiver)]
         IN  after \in StreamRecords /\ Accounts(after, sent)
<1> DEFINE receiver == st.receiver
           queue == receiver.queue
           m == Len(sent)
           Become(item, got) == [st EXCEPT !.receiver = got, !.items = Append(@, item)]
<1>1. /\ receiver \in Receivers /\ receiver.missed \in Nat /\ queue \in Seq(Nat)
      /\ Len(queue) \in Nat /\ st.items \in Seq(Items) /\ m \in Nat
  BY DEF StreamRecords, Receivers
<1>2. \A j \in 1 .. Len(queue) : queue[j] = sent[m - Len(queue) + j]
  BY AccountsIs
<1>3. CASE receiver.missed > 0
  <2> DEFINE item == Missed(receiver.missed)
             got == [receiver EXCEPT !.missed = 0]
  <2>1. item \in Items /\ Weight(item) = receiver.missed /\ item.kind # "note"
    BY <1>1 DEF Items, Missed, Weight
  <2>2. got \in Receivers /\ got.missed = 0 /\ got.queue = queue
    BY <1>1 DEF Receivers
  <2>3. AfterRecv(receiver) = got /\ Yield(receiver) = <<item>>
    BY <1>3 DEF AfterRecv, Yield
  <2>4. st.items \o <<item>> = Append(st.items, item)
    BY <1>1, <2>1, AppendIsConcat
  <2> HIDE DEF item, got
  <2>5. Weight(item) + got.missed + Len(got.queue) = receiver.missed + Len(queue)
    BY <1>1, <2>1, <2>2
  <2>6. Become(item, got) \in StreamRecords /\ Accounts(Become(item, got), sent)
    BY <1>2, <2>1, <2>2, <2>5, AccountsItem
  <2> QED
    BY <2>3, <2>4, <2>6
<1>4. CASE ~(receiver.missed > 0)
  <2> DEFINE item == Note(Head(queue))
             rest == Tail(queue)
             got == [receiver EXCEPT !.queue = rest]
  <2>1. queue # <<>> /\ receiver.missed = 0
    BY <1>1, <1>4 DEF HasNews
  <2>2. Len(queue) > 0 /\ Head(queue) \in Nat /\ Head(queue) = queue[1]
    BY <1>1, <2>1
  <2>3. item \in Items /\ Weight(item) = 1 /\ item.n = queue[1]
    BY <2>2 DEF Items, Note, Weight
  <2>4. rest \in Seq(Nat) /\ Len(rest) = Len(queue) - 1
    BY <1>1, <2>1, HeadTailProperties
  <2>5. \A j \in 1 .. Len(rest) : rest[j] = queue[j + 1]
    BY <1>1, <2>1, HeadTailProperties
  <2> HIDE DEF rest
  <2>6. got \in Receivers /\ got.missed = 0 /\ got.queue = rest
    BY <1>1, <2>1, <2>4 DEF Receivers
  <2>7. AfterRecv(receiver) = got /\ Yield(receiver) = <<item>>
    BY <1>4 DEF AfterRecv, Yield, rest
  <2>8. st.items \o <<item>> = Append(st.items, item)
    BY <1>1, <2>3, AppendIsConcat
  <2> HIDE DEF item, got
  <2>9. Weight(item) + got.missed + Len(got.queue) = receiver.missed + Len(queue)
    BY <1>1, <2>1, <2>3, <2>4, <2>6
  <2>10. item.n = sent[m - Len(queue) + 1]
    <3>1. 1 \in 1 .. Len(queue)
      BY <1>1, <2>2
    <3> QED
      BY <1>2, <2>3, <3>1, Zenon
  <2>11. ASSUME NEW j \in 1 .. Len(rest) PROVE rest[j] = sent[m - Len(rest) + j]
    <3>1. j + 1 \in 1 .. Len(queue) /\ m - Len(queue) + (j + 1) = m - Len(rest) + j
      BY <1>1, <2>4
    <3> QED
      BY <1>2, <2>5, <3>1
  <2>12. Become(item, got) \in StreamRecords /\ Accounts(Become(item, got), sent)
    BY <2>1, <2>2, <2>3, <2>6, <2>9, <2>10, <2>11, AccountsItem
  <2> QED
    BY <2>7, <2>8, <2>12
<1> QED
  BY <1>3, <1>4

LEMMA UnusedType ==
  /\ Unused \in StreamRecords /\ Unused.state = "unused"
  /\ Unused.items = <<>> /\ Unused.receiver = Fresh
<1>1. Fresh \in Receivers /\ <<>> \in Seq(Items)
  BY DEF Fresh, Receivers
<1> QED
  BY <1>1 DEF Unused, StreamRecords

\* A stream that has just been opened accounts for nothing yet.
LEMMA AccountsOpen ==
  ASSUME NEW sent \in Seq(Nat), NEW since \in Nat
  PROVE  LET st == [Unused EXCEPT !.state = "open", !.start = Len(sent), !.since = since]
         IN  st \in StreamRecords /\ Accounts(st, sent)
<1> DEFINE st == [Unused EXCEPT !.state = "open", !.start = Len(sent), !.since = since]
<1>1. /\ st \in StreamRecords /\ st.items = <<>> /\ st.start = Len(sent)
      /\ st.receiver.missed = 0 /\ st.receiver.queue = <<>>
  <2>1. /\ Fresh \in Receivers /\ Fresh.missed = 0 /\ Fresh.queue = <<>>
        /\ Len(sent) \in Nat /\ <<>> \in Seq(Items)
    BY DEF Fresh, Receivers
  <2>2. st \in StreamRecords /\ st.items = <<>> /\ st.start = Len(sent) /\ st.receiver = Fresh
    BY <2>1, UnusedType DEF StreamRecords
  <2> QED
    BY <2>1, <2>2
<1> HIDE DEF st
<1>2. Len(st.items) = 0 /\ Len(st.receiver.queue) = 0 /\ <<>> \in Seq(Items)
  BY <1>1
<1>3. Counted(st.items)[0] = 0
  BY <1>1, <1>2, CountedIs
<1>4. st.start + Counted(st.items)[Len(st.items)] + st.receiver.missed
        + Len(st.receiver.queue) = Len(sent)
  <2>1. Len(sent) + 0 + 0 + 0 = Len(sent)
    OBVIOUS
  <2> QED
    BY <1>1, <1>2, <1>3, <2>1, Zenon
<1>5. \A i \in 1 .. Len(st.items) : FALSE
  BY <1>2
<1>6. \A j \in 1 .. Len(st.receiver.queue) : FALSE
  BY <1>2
<1>7. Accounts(st, sent)
  BY <1>1, <1>4, <1>5, <1>6, AccountsIs, Zenon
<1> QED
  BY <1>1, <1>7 DEF st

\* What a receiver that has news gives, and how it is left.
LEMMA ReceiverRecv ==
  ASSUME NEW receiver \in Receivers, HasNews(receiver)
  PROVE  /\ AfterRecv(receiver) \in Receivers
         /\ receiver.missed = 0 => Head(receiver.queue) \in Nat
<1>1. receiver.missed \in Nat /\ receiver.queue \in Seq(Nat)
  BY DEF Receivers
<1>2. CASE receiver.missed > 0
  BY <1>1, <1>2 DEF AfterRecv, Receivers
<1>3. CASE ~(receiver.missed > 0)
  <2>1. receiver.queue # <<>>
    BY <1>3 DEF HasNews
  <2>2. Tail(receiver.queue) \in Seq(Nat) /\ Head(receiver.queue) \in Nat
    BY <1>1, <2>1
  <2> QED
    BY <1>3, <2>2 DEF AfterRecv, Receivers
<1> QED
  BY <1>2, <1>3

\* A frame that arrives leaves incoming_task a receiver.
LEMMA ArrivesType ==
  ASSUME incoming \in Receivers, NEW frame \in Nat, Arrives(frame)
  PROVE  incoming' \in Receivers
<1> DEFINE published == Publish(incoming, frame, MessageCapacity)
<1>1. published \in Receivers
  BY NotificationsAssumption, ReceiverPublish
<1>2. incoming' = IF ~Running("incoming") THEN incoming
                  ELSE [published EXCEPT !.missed = IF @ = 0 THEN 0 ELSE 1]
  BY DEF Arrives
<1> HIDE DEF published
<1> QED
  BY <1>1, <1>2 DEF Receivers

LEMMA InitGapsInv == InitNotes => GapsInv
<1> SUFFICES ASSUME InitNotes PROVE GapsInv
  OBVIOUS
<1>1. Fresh \in Receivers
  BY DEF Fresh, Receivers
<1>2. NotesType
  BY <1>1, UnusedType DEF InitNotes, NotesType
<1>3. \A s \in Streams : stream[s].state # "open"
  BY UnusedType DEF InitNotes
<1> QED
  BY <1>2, <1>3 DEF GapsInv

\* The stream s alone changes, and accounts for what has been sent if it is open.
LEMMA OneStream ==
  ASSUME GapsInv, NEW s \in Streams, NEW st \in StreamRecords,
         st.state = "open" => Accounts(st, forwarded),
         stream' = [stream EXCEPT ![s] = st], UNCHANGED <<note, incoming, forwarded>>
  PROVE  GapsInv'
<1>1. NotesType'
  BY DEF GapsInv, NotesType
<1>2. ASSUME NEW q \in Streams, stream'[q].state = "open"
      PROVE  Accounts(stream'[q], forwarded)
  <2>1. stream \in [Streams -> StreamRecords]
    BY DEF GapsInv, NotesType
  <2>2. CASE q = s
    BY <1>2, <2>1, <2>2
  <2>3. CASE q # s
    <3>1. stream'[q] = stream[q]
      BY <2>1, <2>3
    <3> QED
      BY <1>2, <3>1 DEF GapsInv
  <2> QED
    BY <2>2, <2>3
<1>3. forwarded' = forwarded
  OBVIOUS
<1> QED
  BY <1>1, <1>2, <1>3 DEF GapsInv

\* handle_message reaches every open stream.
LEMMA ForwardGaps ==
  ASSUME GapsInv, NEW frame \in Nat, Forward(frame), note' \in Nat, incoming' \in Receivers
  PROVE  GapsInv'
<1> DEFINE After(s) == [stream[s] EXCEPT
                          !.receiver = Publish(@, frame, NotificationCapacity)]
<1>1. stream \in [Streams -> StreamRecords] /\ forwarded \in Seq(Nat)
  BY DEF GapsInv, NotesType
<1>2. forwarded' = Append(forwarded, frame)
  BY DEF Forward
<1>3. stream' = [s \in Streams |-> IF stream[s].state = "open" THEN After(s) ELSE stream[s]]
  BY DEF Forward
<1>4. ASSUME NEW s \in Streams, stream[s].state = "open"
      PROVE  After(s) \in StreamRecords /\ Accounts(After(s), forwarded')
  <2>1. Accounts(stream[s], forwarded)
    BY <1>4 DEF GapsInv
  <2> QED
    BY <1>1, <1>2, <2>1, NotificationsAssumption, AccountsPublish
<1> HIDE DEF After
<1>5. forwarded' \in Seq(Nat)
  BY <1>1, <1>2
<1>6. stream' \in [Streams -> StreamRecords]
  BY <1>1, <1>3, <1>4
<1>7. NotesType'
  BY <1>5, <1>6 DEF NotesType
<1>8. ASSUME NEW s \in Streams, stream'[s].state = "open"
      PROVE  Accounts(stream'[s], forwarded')
  <2>1. CASE stream[s].state = "open"
    BY <1>3, <1>4, <2>1
  <2>2. CASE stream[s].state # "open"
    BY <1>3, <1>8, <2>2
  <2> QED
    BY <2>1, <2>2
<1> QED
  BY <1>7, <1>8 DEF GapsInv

LEMMA IncomingGaps == GapsInv /\ IncomingTurn => GapsInv'
<1> SUFFICES ASSUME GapsInv, IncomingTurn PROVE GapsInv'
  OBVIOUS
<1>1. /\ incoming \in Receivers /\ HasNews(incoming) /\ incoming' = AfterRecv(incoming)
      /\ note \in Nat /\ note' = note
  BY DEF GapsInv, NotesType, IncomingTurn
<1>2. incoming' \in Receivers /\ (incoming.missed = 0 => Head(incoming.queue) \in Nat)
  BY <1>1, ReceiverRecv
<1>3. CASE incoming.missed = 0 /\ Forward(Head(incoming.queue))
  BY <1>1, <1>2, <1>3, ForwardGaps
<1>4. CASE UNCHANGED <<forwarded, stream>>
  BY <1>1, <1>2, <1>4 DEF GapsInv, NotesType
<1> QED
  BY <1>3, <1>4 DEF IncomingTurn

LEMMA ConsumerGaps ==
  ASSUME GapsInv, NEW s \in Streams, Consumer(s)
  PROVE  GapsInv'
<1>1. /\ stream \in [Streams -> StreamRecords] /\ stream[s] \in StreamRecords
      /\ forwarded \in Seq(Nat) /\ note \in Nat
  BY DEF GapsInv, NotesType
<1>2. CASE Subscribe(s)
  <2> DEFINE st == [Unused EXCEPT !.state = "open", !.start = Len(forwarded), !.since = note]
  <2>1. st \in StreamRecords /\ Accounts(st, forwarded)
    BY <1>1, AccountsOpen
  <2>2. stream' = [stream EXCEPT ![s] = st] /\ UNCHANGED <<note, incoming, forwarded>>
    BY <1>2 DEF Subscribe
  <2> HIDE DEF st
  <2> QED
    BY <2>1, <2>2, OneStream
<1>3. CASE Poll(s)
  <2>1. CASE InnerReleased /\ ~HasNews(stream[s].receiver)
    <3> DEFINE st == [Unused EXCEPT !.state = "ended"]
    <3>1. st \in StreamRecords /\ st.state # "open"
      BY UnusedType DEF StreamRecords
    <3>2. stream' = [stream EXCEPT ![s] = st] /\ UNCHANGED <<note, incoming, forwarded>>
      BY <1>1, <1>3, <2>1 DEF Poll
    <3> HIDE DEF st
    <3> QED
      BY <3>1, <3>2, OneStream
  <2>2. CASE ~(InnerReleased /\ ~HasNews(stream[s].receiver))
    <3> DEFINE st == [stream[s] EXCEPT !.receiver = AfterRecv(@),
                                       !.items = @ \o Yield(stream[s].receiver)]
    <3>1. HasNews(stream[s].receiver) /\ stream[s].state = "open"
      BY <1>3, <2>2 DEF Poll
    <3>2. Accounts(stream[s], forwarded)
      BY <3>1 DEF GapsInv
    <3>3. st \in StreamRecords /\ Accounts(st, forwarded)
      BY <1>1, <3>1, <3>2, AccountsYield
    <3>4. stream' = [stream EXCEPT ![s] =
                       IF InnerReleased /\ ~HasNews(stream[s].receiver)
                         THEN [Unused EXCEPT !.state = "ended"] ELSE st]
      BY <1>3 DEF Poll
    <3>5. UNCHANGED <<note, incoming, forwarded>>
      BY <1>3 DEF Poll
    <3> HIDE DEF st
    <3>6. stream' = [stream EXCEPT ![s] = st]
      BY <2>2, <3>4, Zenon
    <3> QED
      BY <3>3, <3>5, <3>6, OneStream
  <2> QED
    BY <2>1, <2>2
<1>4. CASE Close(s)
  <2> DEFINE st == [Unused EXCEPT !.state = "closed"]
  <2>1. st \in StreamRecords /\ st.state # "open"
    BY UnusedType DEF StreamRecords
  <2>2. stream' = [stream EXCEPT ![s] = st] /\ UNCHANGED <<note, incoming, forwarded>>
    BY <1>4 DEF Close
  <2> HIDE DEF st
  <2> QED
    BY <2>1, <2>2, OneStream
<1> QED
  BY <1>2, <1>3, <1>4 DEF Consumer

\* What arrives for incoming_task reaches no stream yet; that its task ends
\* reaches none either.
LEMMA ChannelGaps ==
  ASSUME GapsInv, note' \in Nat, incoming' \in Receivers, UNCHANGED <<forwarded, stream>>
  PROVE  GapsInv'
BY DEF GapsInv, NotesType

LEMMA NextGaps == GapsInv /\ [Next]_vars => GapsInv'
<1> SUFFICES ASSUME GapsInv, [Next]_vars PROVE GapsInv'
  OBVIOUS
<1>1. note \in Nat /\ incoming \in Receivers
  BY DEF GapsInv, NotesType
<1>2. CASE UNCHANGED noteVars
  BY <1>2 DEF GapsInv, NotesType, noteVars
<1>3. CASE Handle \/ Transport
  BY <1>2, <1>3 DEF Handle, Transport
<1>4. ASSUME NEW t \in TaskNames, StartTask(t) \/ EndTask(t) PROVE GapsInv'
  <2>1. CASE StartTask(t)
    BY <1>2, <2>1 DEF StartTask
  <2>2. CASE EndTask(t)
    <3>1. Fresh \in Receivers
      BY DEF Fresh, Receivers
    <3>2. incoming' \in Receivers /\ note' = note /\ UNCHANGED <<forwarded, stream>>
      BY <1>1, <2>2, <3>1 DEF EndTask
    <3> QED
      BY <1>1, <3>2, ChannelGaps
  <2> QED
    BY <1>4, <2>1, <2>2
<1>5. CASE PeerNotifies
  <2>1. note' = note + 1 /\ Arrives(note') /\ UNCHANGED <<forwarded, stream>>
    BY <1>5 DEF PeerNotifies
  <2>2. note' \in Nat
    BY <1>1, <2>1
  <2> QED
    BY <1>1, <2>1, <2>2, ArrivesType, ChannelGaps
<1>6. CASE PeerSendsOther
  <2>1. note' = note /\ Arrives(Other) /\ UNCHANGED <<forwarded, stream>>
    BY <1>6 DEF PeerSendsOther
  <2>2. Other \in Nat
    BY DEF Other
  <2> QED
    BY <1>1, <2>1, <2>2, ArrivesType, ChannelGaps
<1>7. CASE IncomingTask
  BY <1>7, IncomingGaps DEF IncomingTask
<1>8. ASSUME NEW s \in Streams, Consumer(s) PROVE GapsInv'
  BY <1>8, ConsumerGaps
<1>9. CASE StartManagement \/ ReadMessage \/ SendPing \/ SentPing \/ Time
  BY <1>2, <1>9 DEF StartManagement, ReadMessage, SendPing, SentPing, Time
<1>10. CASE Idle \/ UNCHANGED vars
  BY <1>2, <1>10 DEF Idle, vars
<1> QED
  BY <1>3, <1>4, <1>5, <1>6, <1>7, <1>8, <1>9, <1>10 DEF Next

\* The property, for one stream, from what it accounts for.
LEMMA AccountsReport ==
  ASSUME NEW st \in StreamRecords, NEW sent \in Seq(Nat), Accounts(st, sent)
  PROVE  LET before == [i \in 1 .. Len(st.items) + 1 |->
                          st.start + Counted(st.items)[i - 1]]
         IN  /\ \A i \in DOMAIN st.items :
                  st.items[i].kind = "note" => st.items[i].n = sent[before[i] + 1]
             /\ before[Len(st.items) + 1] + st.receiver.missed + Len(st.receiver.queue)
                  = Len(sent)
<1>1. DOMAIN st.items = 1 .. Len(st.items)
  BY DEF StreamRecords
<1> QED
  BY <1>1, Zenon DEF Accounts

(***************************************************************************)
(* Whatever the streams, the capacities of the two channels and the number *)
(* of notifications, and however the consumers poll: an open stream has    *)
(* yielded, in order, what was forwarded since it was opened, with an      *)
(* error for every gap that says exactly how many notifications are in it, *)
(* and still has the rest (subscribe, handle_message, Error::              *)
(* NotificationsMissed).                                                   *)
(***************************************************************************)
THEOREM EveryGapReported == Spec => []GapsReported
<1>1. Init => GapsInv
  BY InitGapsInv DEF Init
<1>2. GapsInv /\ [Next]_vars => GapsInv'
  BY NextGaps
<1>3. GapsInv => GapsReported
  <2> SUFFICES ASSUME GapsInv, NEW s \in Streams, stream[s].state = "open"
               PROVE  LET items == stream[s].items
                          receiver == stream[s].receiver
                          before == [i \in 1 .. Len(items) + 1 |->
                                       stream[s].start + Counted(items)[i - 1]]
                      IN  /\ \A i \in DOMAIN items :
                               items[i].kind = "note" =>
                                 items[i].n = forwarded[before[i] + 1]
                          /\ before[Len(items) + 1] + receiver.missed
                               + Len(receiver.queue) = Len(forwarded)
    BY Zenon DEF GapsReported
  <2>1. stream[s] \in StreamRecords /\ forwarded \in Seq(Nat)
    BY DEF GapsInv, NotesType
  <2>2. Accounts(stream[s], forwarded)
    BY DEF GapsInv
  <2> QED
    BY <2>1, <2>2, AccountsReport
<1> QED
  BY <1>1, <1>2, <1>3, PTL DEF Spec

-----------------------------------------------------------------------------
(* The order of arrival *)

\* What has been sent, and then what is queued: the notifications in it rise,
\* and the last one is not above last.
InOrder(sent, queue, last) ==
  /\ \A i \in 1 .. Len(sent) :
       /\ sent[i] <= last
       /\ \A j \in 1 .. i - 1 : sent[j] < sent[i]
  /\ \A i \in 1 .. Len(queue) : queue[i] # Other =>
       /\ queue[i] <= last
       /\ \A j \in 1 .. i - 1 : queue[j] < queue[i]
       /\ \A j \in 1 .. Len(sent) : sent[j] < queue[i]

OrderInv == InOrder(forwarded, incoming.queue, note)

\* The next notification, or another frame, arrives in the channel, and perhaps
\* the oldest is overwritten.
LEMMA OrderPublish ==
  ASSUME NEW sent \in Seq(Nat), NEW receiver \in Receivers, NEW last \in Nat,
         InOrder(sent, receiver.queue, last), NEW capacity \in Nat \ {0},
         NEW frame \in Nat, NEW now \in Nat,
         \/ frame = Other /\ now = last
         \/ frame = last + 1 /\ now = last + 1
  PROVE  InOrder(sent, Publish(receiver, frame, capacity).queue, now)
<1> DEFINE after == Publish(receiver, frame, capacity)
           queue == receiver.queue
           lost  == after.missed - receiver.missed
           all   == Append(queue, frame)
<1>1. /\ after \in Receivers /\ lost \in Nat /\ lost + Len(after.queue) = Len(queue) + 1
      /\ \A j \in 1 .. Len(after.queue) : after.queue[j] = all[lost + j]
  BY ReceiverPublish
<1>2. queue \in Seq(Nat) /\ Len(queue) \in Nat /\ Len(sent) \in Nat /\ after.queue \in Seq(Nat)
  BY <1>1 DEF Receivers
<1>3. /\ Len(after.queue) \in Nat
      /\ \A j \in 1 .. Len(queue) : all[j] = queue[j] /\ queue[j] \in Nat
      /\ all[Len(queue) + 1] = frame
      /\ \A j \in 1 .. Len(sent) : sent[j] \in Nat
  <2> HIDE DEF after, queue
  <2> QED
    BY <1>2
<1>4. /\ \A i \in 1 .. Len(sent) : /\ sent[i] <= last
                                   /\ \A j \in 1 .. i - 1 : sent[j] < sent[i]
      /\ \A i \in 1 .. Len(queue) : queue[i] # Other =>
           /\ queue[i] <= last
           /\ \A j \in 1 .. i - 1 : queue[j] < queue[i]
           /\ \A j \in 1 .. Len(sent) : sent[j] < queue[i]
  BY DEF InOrder
<1> DEFINE q == after.queue
           l == Len(queue)
<1> HIDE DEF after, queue, lost, all
<1>5. ASSUME NEW i \in 1 .. Len(sent) PROVE sent[i] <= now
  BY <1>3, <1>4
<1>6. ASSUME NEW i \in 1 .. l + 1, all[i] # Other
      PROVE  /\ all[i] <= now
             /\ \A j \in 1 .. i - 1 : all[j] < all[i]
             /\ \A j \in 1 .. Len(sent) : sent[j] < all[i]
  <2>1. CASE i \in 1 .. l
    <3>1. all[i] = queue[i] /\ queue[i] # Other /\ all[i] \in Nat
      BY <1>3, <1>6, <2>1
    <3>2. \A j \in 1 .. i - 1 : j \in 1 .. l
      BY <1>2, <2>1
    <3>3. \A j \in 1 .. i - 1 : all[j] < all[i]
      BY <1>3, <1>4, <2>1, <3>1, <3>2
    <3>4. all[i] <= last /\ \A j \in 1 .. Len(sent) : sent[j] < all[i]
      BY <1>4, <2>1, <3>1
    <3>5. all[i] <= now
      BY <3>1, <3>4
    <3> QED
      BY <3>3, <3>4, <3>5
  <2>2. CASE i = l + 1
    <3>1. all[i] = last + 1 /\ now = last + 1
      BY <1>3, <1>6, <2>2
    <3>2. \A j \in 1 .. i - 1 : j \in 1 .. l
      BY <1>2, <2>2
    <3>3. ASSUME NEW j \in 1 .. i - 1 PROVE all[j] < all[i]
      <4>1. all[j] = queue[j] /\ queue[j] \in Nat
        BY <1>3, <3>2
      <4>2. queue[j] <= last
        BY <1>4, <3>2, <4>1 DEF Other
      <4> QED
        BY <3>1, <4>1, <4>2
    <3>4. \A j \in 1 .. Len(sent) : sent[j] < all[i]
      BY <1>3, <1>4, <3>1
    <3> QED
      BY <3>1, <3>3, <3>4
  <2>3. i \in 1 .. l \/ i = l + 1
    BY <1>2
  <2> QED
    BY <2>1, <2>2, <2>3
<1>7. ASSUME NEW i \in 1 .. Len(q), q[i] # Other
      PROVE  /\ q[i] <= now
             /\ \A j \in 1 .. i - 1 : q[j] < q[i]
             /\ \A j \in 1 .. Len(sent) : sent[j] < q[i]
  <2> DEFINE k == lost + i
  <2>1. k \in 1 .. l + 1 /\ q[i] = all[k] /\ \A j \in 1 .. i - 1 : lost + j \in 1 .. k - 1
    BY <1>1, <1>2, <1>3 DEF q, l
  <2> HIDE DEF k
  <2>2. /\ all[k] <= now
        /\ \A j \in 1 .. k - 1 : all[j] < all[k]
        /\ \A j \in 1 .. Len(sent) : sent[j] < all[k]
    BY <1>6, <1>7, <2>1
  <2>3. ASSUME NEW j \in 1 .. i - 1 PROVE q[j] < q[i]
    <3>1. j \in 1 .. Len(q) /\ lost + j \in 1 .. k - 1
      BY <1>3, <2>1
    <3>2. q[j] = all[lost + j]
      BY <1>1, <3>1
    <3> QED
      BY <2>1, <2>2, <3>1, <3>2
  <2> QED
    BY <2>1, <2>2, <2>3
<1> QED
  BY <1>4, <1>5, <1>7 DEF InOrder, after

\* The oldest frame is read, and forwarded if it is a notification.
LEMMA OrderRead ==
  ASSUME NEW sent \in Seq(Nat), NEW queue \in Seq(Nat), NEW last, queue # <<>>,
         InOrder(sent, queue, last)
  PROVE  /\ InOrder(sent, Tail(queue), last)
         /\ Head(queue) # Other => InOrder(Append(sent, Head(queue)), Tail(queue), last)
<1> DEFINE rest == Tail(queue)
           head == Head(queue)
           more == Append(sent, head)
<1>1. /\ Len(queue) \in Nat /\ Len(queue) > 0 /\ Len(rest) = Len(queue) - 1
      /\ head = queue[1] /\ \A i \in 1 .. Len(rest) : rest[i] = queue[i + 1]
  OBVIOUS
<1>2. /\ Len(sent) \in Nat /\ Len(more) = Len(sent) + 1 /\ more[Len(sent) + 1] = head
      /\ \A i \in 1 .. Len(sent) : more[i] = sent[i]
  BY <1>1
<1> HIDE DEF rest, head, more
<1>3. /\ \A i \in 1 .. Len(sent) : /\ sent[i] <= last
                                   /\ \A j \in 1 .. i - 1 : sent[j] < sent[i]
      /\ \A i \in 1 .. Len(queue) : queue[i] # Other =>
           /\ queue[i] <= last
           /\ \A j \in 1 .. i - 1 : queue[j] < queue[i]
           /\ \A j \in 1 .. Len(sent) : sent[j] < queue[i]
  BY DEF InOrder
<1>4. ASSUME NEW i \in 1 .. Len(rest), rest[i] # Other
      PROVE  /\ rest[i] <= last
             /\ \A j \in 1 .. i - 1 : rest[j] < rest[i]
             /\ \A j \in 1 .. Len(sent) : sent[j] < rest[i]
             /\ head < rest[i]
  <2>1. i + 1 \in 1 .. Len(queue) /\ rest[i] = queue[i + 1]
    BY <1>1
  <2>2. /\ queue[i + 1] <= last
        /\ \A j \in 1 .. (i + 1) - 1 : queue[j] < queue[i + 1]
        /\ \A j \in 1 .. Len(sent) : sent[j] < queue[i + 1]
    BY <1>3, <1>4, <2>1
  <2>3. ASSUME NEW j \in 1 .. i - 1 PROVE rest[j] < rest[i]
    <3>1. j \in 1 .. Len(rest) /\ j + 1 \in 1 .. (i + 1) - 1
      BY <1>1
    <3> QED
      BY <1>1, <2>1, <2>2, <3>1
  <2>4. 1 \in 1 .. (i + 1) - 1
    OBVIOUS
  <2> QED
    BY <1>1, <2>1, <2>2, <2>3, <2>4
<1>5. InOrder(sent, rest, last)
  BY <1>3, <1>4 DEF InOrder
<1>6. ASSUME head # Other PROVE InOrder(more, rest, last)
  <2>1. /\ head <= last
        /\ \A j \in 1 .. Len(sent) : sent[j] < head
    <3>1. 1 \in 1 .. Len(queue)
      BY <1>1
    <3> QED
      BY <1>1, <1>3, <1>6, <3>1
  <2>2. ASSUME NEW i \in 1 .. Len(more)
        PROVE  more[i] <= last /\ \A j \in 1 .. i - 1 : more[j] < more[i]
    <3>1. \A j \in 1 .. i - 1 : j \in 1 .. Len(sent)
      BY <1>2
    <3>2. CASE i \in 1 .. Len(sent)
      BY <1>2, <1>3, <3>1, <3>2
    <3>3. CASE i = Len(sent) + 1
      BY <1>2, <2>1, <3>1, <3>3
    <3>4. i \in 1 .. Len(sent) \/ i = Len(sent) + 1
      BY <1>2
    <3> QED
      BY <3>2, <3>3, <3>4
  <2>3. ASSUME NEW i \in 1 .. Len(rest), rest[i] # Other, NEW j \in 1 .. Len(more)
        PROVE  more[j] < rest[i]
    <3>1. j \in 1 .. Len(sent) \/ j = Len(sent) + 1
      BY <1>2
    <3> QED
      BY <1>2, <1>4, <2>3, <3>1
  <2> QED
    BY <1>4, <2>2, <2>3 DEF InOrder
<1> QED
  BY <1>5, <1>6 DEF rest, head, more

LEMMA InitOrder == Init => OrderInv
BY DEF Init, InitNotes, Fresh, OrderInv, InOrder

\* A frame that arrives, for the time when note is now.
LEMMA ArrivesOrder ==
  ASSUME NotesType, OrderInv, NEW frame \in Nat, Arrives(frame), forwarded' = forwarded,
         \/ frame = Other /\ note' = note
         \/ frame = note + 1 /\ note' = note + 1
  PROVE  OrderInv'
<1> DEFINE published == Publish(incoming, frame, MessageCapacity)
<1>1. /\ incoming \in Receivers /\ forwarded \in Seq(Nat) /\ note \in Nat /\ note' \in Nat
      /\ InOrder(forwarded, incoming.queue, note)
  BY DEF NotesType, OrderInv
<1>2. published \in Receivers
  BY <1>1, NotificationsAssumption, ReceiverPublish
<1>3. InOrder(forwarded, published.queue, note')
  BY <1>1, NotificationsAssumption, OrderPublish
<1>4. incoming' = IF ~Running("incoming") THEN incoming
                  ELSE [published EXCEPT !.missed = IF @ = 0 THEN 0 ELSE 1]
  BY DEF Arrives
<1> HIDE DEF published
<1>5. CASE Running("incoming")
  <2>1. incoming'.queue = published.queue
    BY <1>2, <1>4, <1>5 DEF Receivers
  <2> QED
    BY <1>3, <2>1 DEF OrderInv
<1>6. CASE ~Running("incoming")
  <2>1. incoming' = incoming
    BY <1>4, <1>6
  <2>2. \A n \in Nat : n <= note => n <= note'
    BY <1>1
  <2>3. /\ \A i \in 1 .. Len(forwarded) : forwarded[i] \in Nat
        /\ \A i \in 1 .. Len(incoming.queue) : incoming.queue[i] \in Nat
    BY <1>1 DEF Receivers
  <2>4. InOrder(forwarded, incoming.queue, note')
    BY <1>1, <2>2, <2>3 DEF InOrder
  <2> QED
    BY <2>1, <2>4 DEF OrderInv
<1> QED
  BY <1>5, <1>6

LEMMA IncomingOrder == NotesType /\ OrderInv /\ IncomingTurn => OrderInv'
<1> SUFFICES ASSUME NotesType, OrderInv, IncomingTurn PROVE OrderInv'
  OBVIOUS
<1>1. /\ incoming \in Receivers /\ forwarded \in Seq(Nat) /\ note' = note
      /\ HasNews(incoming) /\ incoming' = AfterRecv(incoming)
      /\ InOrder(forwarded, incoming.queue, note)
  BY DEF NotesType, OrderInv, IncomingTurn
<1>2. incoming.queue \in Seq(Nat) /\ incoming.missed \in Nat
  BY <1>1 DEF Receivers
<1>3. CASE incoming.missed > 0
  <2>1. incoming'.queue = incoming.queue /\ forwarded' = forwarded
    BY <1>1, <1>3 DEF AfterRecv, IncomingTurn, Receivers
  <2> QED
    BY <1>1, <2>1 DEF OrderInv
<1>4. CASE incoming.missed = 0
  <2>1. ~(incoming.missed > 0) /\ incoming.queue # <<>>
    BY <1>1, <1>4 DEF HasNews
  <2>2. incoming'.queue = Tail(incoming.queue)
    BY <1>1, <2>1 DEF AfterRecv, Receivers
  <2>3. /\ InOrder(forwarded, Tail(incoming.queue), note)
        /\ Head(incoming.queue) # Other =>
             InOrder(Append(forwarded, Head(incoming.queue)), Tail(incoming.queue), note)
    BY <1>1, <1>2, <2>1, OrderRead
  <2>4. CASE Head(incoming.queue) # Other /\ Forward(Head(incoming.queue))
    <3>1. forwarded' = Append(forwarded, Head(incoming.queue))
      BY <2>4 DEF Forward
    <3> QED
      BY <1>1, <2>2, <2>3, <2>4, <3>1 DEF OrderInv
  <2>5. CASE UNCHANGED forwarded
    BY <1>1, <2>2, <2>3, <2>5 DEF OrderInv
  <2> QED
    BY <2>1, <2>4, <2>5 DEF IncomingTurn
<1> QED
  BY <1>2, <1>3, <1>4

LEMMA NextOrder == NotesType /\ OrderInv /\ [Next]_vars => OrderInv'
<1> SUFFICES ASSUME NotesType, OrderInv, [Next]_vars PROVE OrderInv'
  OBVIOUS
<1>1. note \in Nat
  BY DEF NotesType
<1>2. CASE UNCHANGED <<note, incoming, forwarded>>
  BY <1>2 DEF OrderInv
<1>3. CASE Handle \/ Transport
  BY <1>2, <1>3 DEF Handle, Transport, noteVars
<1>4. ASSUME NEW t \in TaskNames, StartTask(t) \/ EndTask(t) PROVE OrderInv'
  <2>1. CASE StartTask(t)
    BY <1>2, <2>1 DEF StartTask, noteVars
  <2>2. CASE EndTask(t)
    <3>1. note' = note /\ forwarded' = forwarded /\ (incoming' = incoming \/ incoming' = Fresh)
      BY <2>2 DEF EndTask
    <3>2. CASE incoming' = incoming
      BY <1>2, <3>1, <3>2
    <3>3. CASE incoming' = Fresh
      <4>1. incoming'.queue = <<>> /\ Len(<<>>) = 0
        BY <3>3 DEF Fresh
      <4> QED
        BY <3>1, <4>1 DEF OrderInv, InOrder
    <3> QED
      BY <3>1, <3>2, <3>3
  <2> QED
    BY <1>4, <2>1, <2>2
<1>5. CASE PeerNotifies
  <2>1. note' = note + 1 /\ Arrives(note') /\ forwarded' = forwarded /\ note' \in Nat
    BY <1>1, <1>5 DEF PeerNotifies
  <2> QED
    BY <2>1, ArrivesOrder
<1>6. CASE PeerSendsOther
  <2>1. note' = note /\ Arrives(Other) /\ forwarded' = forwarded /\ Other \in Nat
    BY <1>6 DEF PeerSendsOther, Other
  <2> QED
    BY <2>1, ArrivesOrder
<1>7. CASE IncomingTask
  BY <1>7, IncomingOrder DEF IncomingTask
<1>8. ASSUME NEW s \in Streams, Consumer(s) PROVE OrderInv'
  BY <1>2, <1>8 DEF Consumer, Subscribe, Poll, Close
<1>9. CASE StartManagement \/ ReadMessage \/ SendPing \/ SentPing \/ Time
  BY <1>2, <1>9 DEF StartManagement, ReadMessage, SendPing, SentPing, Time, noteVars
<1>10. CASE Idle \/ UNCHANGED vars
  BY <1>2, <1>10 DEF Idle, vars, noteVars
<1> QED
  BY <1>3, <1>4, <1>5, <1>6, <1>7, <1>8, <1>9, <1>10 DEF Next

\* What more items stand for is not less.
LEMMA CountedRises ==
  ASSUME NEW its \in Seq(Items), NEW i \in 0 .. Len(its)
  PROVE  \A k \in i .. Len(its) : Counted(its)[i] <= Counted(its)[k]
<1> DEFINE c == Counted(its)
           S == {k \in 0 .. Len(its) : i <= k => c[i] <= c[k]}
<1>1. /\ Len(its) \in Nat /\ c \in [0 .. Len(its) -> Nat]
      /\ \A n \in 1 .. Len(its) : c[n] = c[n - 1] + Weight(its[n]) /\ Weight(its[n]) \in Nat
  BY CountedIs, WeightType
<1> HIDE DEF c
<1>2. 0 \in S
  BY <1>1
<1>3. ASSUME NEW k \in 0 .. Len(its) - 1, k \in S PROVE k + 1 \in S
  <2>1. /\ k + 1 \in 1 .. Len(its) /\ k + 1 \in 0 .. Len(its) /\ (k + 1) - 1 = k
        /\ k \in 0 .. Len(its)
    BY <1>1
  <2>2. c[k] \in Nat /\ c[i] \in Nat /\ c[k + 1] \in Nat
    BY <1>1, <2>1
  <2>3. c[k + 1] = c[k] + Weight(its[k + 1]) /\ Weight(its[k + 1]) \in Nat
    BY <1>1, <2>1
  <2>4. c[k] <= c[k + 1]
    BY <2>3, <2>2
  <2>5. i <= k + 1 => i <= k \/ i = k + 1
    BY <1>1
  <2> QED
    BY <1>3, <2>1, <2>4, <2>5, <2>2
<1> HIDE DEF S
<1>4. 0 .. Len(its) \subseteq S
  BY <1>1, <1>2, <1>3, InductionUpTo
<1>5. \A k \in i .. Len(its) : k \in 0 .. Len(its) /\ i <= k
  BY <1>1
<1> QED
  BY <1>4, <1>5 DEF S, c

\* The items of a stream are in the order in which they were forwarded.
LEMMA AccountsOrder ==
  ASSUME NEW st \in StreamRecords, NEW sent \in Seq(Nat), Accounts(st, sent),
         \A m \in 1 .. Len(sent) : \A n \in 1 .. m - 1 : sent[n] < sent[m],
         NEW i \in DOMAIN st.items, NEW j \in DOMAIN st.items, i < j,
         st.items[i].kind = "note", st.items[j].kind = "note"
  PROVE  st.items[i].n < st.items[j].n
<1> DEFINE c == Counted(st.items)
           a == st.start + c[i - 1] + 1
           b == st.start + c[j - 1] + 1
<1>1. /\ st.items \in Seq(Items) /\ Len(st.items) \in Nat /\ st.start \in Nat
      /\ i \in 1 .. Len(st.items) /\ j \in 1 .. Len(st.items) /\ Len(sent) \in Nat
      /\ i - 1 \in 0 .. Len(st.items) /\ i \in 0 .. Len(st.items)
      /\ j - 1 \in i .. Len(st.items) /\ j - 1 \in 0 .. Len(st.items)
  BY DEF StreamRecords
<1>2. /\ c \in [0 .. Len(st.items) -> Nat] /\ c[i] = c[i - 1] + Weight(st.items[i])
      /\ c[i] <= c[j - 1]
  BY <1>1, CountedIs, CountedRises
<1>3. Weight(st.items[i]) = 1
  BY DEF Weight
<1>4. /\ st.start + c[j - 1] < Len(sent)
      /\ st.items[i].n = sent[a] /\ st.items[j].n = sent[b]
  BY <1>1, AccountsIs
<1> HIDE DEF c
<1>5. c[i - 1] \in Nat /\ c[j - 1] \in Nat /\ c[i] \in Nat
  BY <1>1, <1>2
<1>6. b \in 1 .. Len(sent) /\ a \in 1 .. b - 1
  <2>1. c[i - 1] + 1 <= c[j - 1]
    BY <1>2, <1>3
  <2>2. st.start \in Nat /\ Len(sent) \in Nat /\ st.start + c[j - 1] < Len(sent)
    BY <1>1, <1>4
  <2>3. \A x, y, l, t \in Nat :
          x + 1 <= y /\ t + y < l => /\ t + y + 1 \in 1 .. l
                                    /\ t + x + 1 \in 1 .. (t + y + 1) - 1
    OBVIOUS
  <2> QED
    BY <1>5, <2>1, <2>2, <2>3, Zenon
<1> HIDE DEF a, b
<1>7. sent[a] < sent[b]
  BY <1>6
<1> QED
  BY <1>4, <1>7

(***************************************************************************)
(* However small the two channels and however late anyone reads: what is   *)
(* lost on the way is missing, and what is not is yielded in the order of  *)
(* arrival and once (incoming_task, handle_message, subscribe).            *)
(***************************************************************************)
THEOREM ArrivalOrderKept == Spec => []ArrivalOrder
<1>1. Init => GapsInv /\ OrderInv
  BY InitGapsInv, InitOrder DEF Init
<1>2. GapsInv /\ OrderInv /\ [Next]_vars => (GapsInv /\ OrderInv)'
  BY NextGaps, NextOrder DEF GapsInv
<1>3. GapsInv /\ OrderInv => ArrivalOrder
  <2> SUFFICES ASSUME GapsInv, OrderInv, NEW s \in Streams, stream[s].state = "open",
                      NEW i \in DOMAIN stream[s].items, NEW j \in DOMAIN stream[s].items,
                      i < j,
                      stream[s].items[i].kind = "note", stream[s].items[j].kind = "note"
               PROVE  stream[s].items[i].n < stream[s].items[j].n
    BY DEF ArrivalOrder
  <2>1. stream[s] \in StreamRecords /\ forwarded \in Seq(Nat)
    BY DEF GapsInv, NotesType
  <2>2. Accounts(stream[s], forwarded)
    BY DEF GapsInv
  <2>3. \A m \in 1 .. Len(forwarded) : \A n \in 1 .. m - 1 : forwarded[n] < forwarded[m]
    BY DEF OrderInv, InOrder
  <2> QED
    BY <2>1, <2>2, <2>3, AccountsOrder
<1> QED
  BY <1>1, <1>2, <1>3, PTL DEF Spec
=============================================================================
