----------------------------- MODULE WsSession -----------------------------
(***************************************************************************)
(* A WebSocket client from build() to the end of its last task: the        *)
(* lifecycle, the notification streams and the keepalive together, on a    *)
(* transport that connects, loses its connection and stops as it likes.    *)
(***************************************************************************)
EXTENDS Notifications, Keepalive

CONSTANT MaxNotes  \* bound: notifications that arrive, for each ping interval

ASSUME MaxNotesAssumption == MaxNotes \in [PingIntervals -> Nat]

vars == <<lifeVars, noteVars, pingVars>>

Init == InitLife /\ InitNotes /\ InitPings

StartTask(t) ==
  /\ t # "management"
  /\ Start(t)
  /\ UNCHANGED <<noteVars, pingVars>>

\* The receivers of a task go with it.
EndTask(t) ==
  /\ Cancelled(t)
  /\ incoming' = IF t = "incoming" THEN Fresh ELSE incoming
  /\ unread' = IF t = "management" THEN 0 ELSE unread
  /\ pinging' = (pinging /\ t # "management")
  /\ UNCHANGED <<note, forwarded, stream, interval, due, quiet>>

Handle ==
  /\ \/ Run \/ StopTransport
     \/ BeginDrop /\ ~Borrowed
     \/ Abort \/ FinishDrop
  /\ UNCHANGED <<noteVars, pingVars>>

Transport == (Connect \/ Lose \/ RunReturns) /\ UNCHANGED <<noteVars, pingVars>>

\* The transport publishes a frame to both tasks that listen to it.
PeerNotifies ==
  /\ connected
  /\ note < MaxNotes[interval]
  /\ note' = note + 1
  /\ Arrives(note')
  /\ unread' = Unread
  /\ UNCHANGED <<lifeVars, forwarded, stream, interval, due, quiet, pinging>>

PeerSendsOther ==
  /\ connected
  /\ Arrives(Other)
  /\ unread' = Unread
  /\ UNCHANGED <<lifeVars, note, forwarded, stream, interval, due, quiet, pinging>>

IncomingTask == IncomingTurn /\ UNCHANGED <<lifeVars, pingVars>>

Consumer(s) == (Subscribe(s) \/ Poll(s) \/ Close(s)) /\ UNCHANGED <<lifeVars, pingVars>>

StartManagement == ManagementStart /\ UNCHANGED noteVars
ReadMessage == ManagementRecv /\ UNCHANGED <<lifeVars, noteVars>>
SendPing == Tick /\ UNCHANGED <<lifeVars, noteVars>>
SentPing == PingReturns /\ UNCHANGED <<lifeVars, noteVars>>
Time == Elapse /\ UNCHANGED <<lifeVars, noteVars>>

\* The handle is gone. Before, a state in which nothing can happen is a deadlock.
Idle == client = "dropped" /\ UNCHANGED vars

Next ==
  \/ Handle \/ Transport
  \/ \E t \in TaskNames : StartTask(t) \/ EndTask(t)
  \/ PeerNotifies \/ PeerSendsOther
  \/ IncomingTask
  \/ \E s \in Streams : Consumer(s)
  \/ StartManagement \/ ReadMessage \/ SendPing \/ SentPing \/ Time
  \/ Idle

Spec == Init /\ [][Next]_vars

(***************************************************************************)
(* The runtime polls a task that is spawned or can go on, and drops one    *)
(* that is aborted; Drop runs to its end; time passes. select! tries its   *)
(* branches in random order, so that a tick that stays ready is taken.     *)
(* Nobody has to connect, send, poll a stream or drop the client, and the  *)
(* transport need not return from sending a Ping.                          *)
(***************************************************************************)
Fairness ==
  /\ WF_vars(Handle /\ client = "dropping")
  /\ WF_vars(StartManagement)
  /\ \A t \in TaskNames : WF_vars(StartTask(t)) /\ WF_vars(EndTask(t))
  /\ WF_vars(IncomingTask)
  /\ WF_vars(SendPing)
  /\ WF_vars(Time)

FairSpec == Spec /\ Fairness

PollStream(s) == Poll(s) /\ UNCHANGED <<lifeVars, pingVars>>

TransportStops == stopped /\ RunReturns /\ UNCHANGED <<noteVars, pingVars>>

\* The consumers poll their streams, and a transport that is told to stop does.
PolledSpec ==
  FairSpec /\ WF_vars(TransportStops) /\ \A s \in Streams : WF_vars(PollStream(s))

-----------------------------------------------------------------------------
(* Properties *)

\* How many notifications an item of a stream stands for.
Weight(item) == IF item.kind = "note" THEN 1 ELSE item.n

\* How many the first n items stand for.
Counted(items) ==
  LET counted[n \in 0 .. Len(items)] ==
        IF n = 0 THEN 0 ELSE counted[n - 1] + Weight(items[n])
  IN  counted

WeightOf(items) == Counted(items)[Len(items)]

(***************************************************************************)
(* A stream yields what was forwarded since it was opened, in that order,  *)
(* and for every gap an error with the exact number of notifications in    *)
(* it; what it has not yielded yet, it will. Whatever the other streams do *)
(* (subscribe; Error::NotificationsMissed).                                *)
(***************************************************************************)
GapsReported ==
  \A s \in Streams : stream[s].state = "open" =>
    LET items == stream[s].items
        receiver == stream[s].receiver
        before == [i \in 1 .. Len(items) + 1 |-> stream[s].start + Counted(items)[i - 1]]
    IN  /\ \A i \in DOMAIN items :
             items[i].kind = "note" => items[i].n = forwarded[before[i] + 1]
        /\ before[Len(items) + 1] + receiver.missed + Len(receiver.queue) = Len(forwarded)

(***************************************************************************)
(* The two channels on the way to a stream lose notifications, but do not  *)
(* reorder or repeat them: of two that a stream has yielded, the first has *)
(* arrived first (transport, incoming_task, subscribe).                    *)
(***************************************************************************)
ArrivalOrder ==
  \A s \in Streams : stream[s].state = "open" =>
    LET items == stream[s].items
    IN  \A i, j \in DOMAIN items :
          i < j /\ items[i].kind = "note" /\ items[j].kind = "note"
            => items[i].n < items[j].n

(***************************************************************************)
(* The documentation of subscribe: a stream observes every notification    *)
(* received from the moment of the call onward, or says how many it could  *)
(* not.                                                                    *)
(***************************************************************************)
NothingLostSilently ==
  \A s \in Streams :
    /\ stream[s].state = "open"
    /\ ~HasNews(incoming)
    => /\ WeightOf(stream[s].items) + stream[s].receiver.missed
             + Len(stream[s].receiver.queue) >= note - stream[s].since

(***************************************************************************)
(* incoming_task gets to every notification in its channel, however slow   *)
(* the subscribers are: no stream needs to be polled for the client's      *)
(* replies to go on being dispatched.                                      *)
(***************************************************************************)
SlowStreamsDoNotBlock ==
  \A n \in UNION {1 .. MaxNotes[i] : i \in PingIntervals} :
    (\E i \in DOMAIN incoming.queue : incoming.queue[i] = n)
      ~> (\A i \in DOMAIN incoming.queue : incoming.queue[i] # n)

(***************************************************************************)
(* A client that is dropped or shut down, in whatever state its tasks are, *)
(* ends them all and releases everything, the connection included.         *)
(***************************************************************************)
DropReleases == (client = "dropping") ~> [](InnerReleased /\ ~connected)

OnlyEnding ==
  /\ \A t \in TaskNames : task[t] \in {"aborting", "gone"}
  /\ connected => task["run"] = "aborting"

(***************************************************************************)
(* Drop is final. From the moment it has returned no task is, or will ever *)
(* be, further than on its way to its next await, and a connection lives   *)
(* no longer than the run task (Drop for Connected; the safety half of     *)
(* DropReleases, without any fairness).                                    *)
(***************************************************************************)
DropIsFinal == [](client = "dropped" => []OnlyEnding)

(***************************************************************************)
(* Two pings are never closer than the interval, even after a send that    *)
(* took longer than it.                                                    *)
(***************************************************************************)
PingsSpaced == [][~pinging /\ pinging' => quiet >= interval]_vars

(***************************************************************************)
(* While management_task lives it pings again and again, however many      *)
(* messages come in between.                                               *)
(***************************************************************************)
KeepsPinging ==
  []<>(interval > 0 /\ task["management"] = "started" => pinging)

(***************************************************************************)
(* The documentation of subscribe: the stream ends when the underlying     *)
(* connection closes, here for good.                                       *)
(***************************************************************************)
EndsWithConnection ==
  \A s \in Streams :
    (stream[s].state = "open" /\ connected /\ stopped) ~> (stream[s].state # "open")
=============================================================================
