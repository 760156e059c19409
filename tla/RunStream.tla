------------------------------- MODULE RunStream -------------------------------
(***************************************************************************)
(* The event stream of one run: the emitter's fan-out to a replay buffer   *)
(* and to the sockets watching (events/sink.py), and a cockpit attaching,  *)
(* which replays the buffer and only then subscribes (Run.attach of        *)
(* api/run_manager.py).                                                    *)
(*                                                                         *)
(* An event is its position in the log of everything the run emitted.  A   *)
(* viewer is one cockpit connection: the page starts with nothing and      *)
(* attaches once.                                                          *)
(***************************************************************************)
EXTENDS Naturals, Sequences, FiniteSets

CONSTANTS
  Viewers,
  Capacity,     \* BufferSink's capacity
  MaxEvents     \* bound: how much the run emits

ASSUME StreamConstants == Capacity \in Nat \ {0} /\ MaxEvents \in Nat

\* card: a question, approval or options request.  decided: it is settled.
\* frame: a screencast frame, one of the many events no pause holds up.
Kinds == {"card", "decided", "frame", "run_complete"}

VARIABLES
  log,        \* history: the kind of each event emitted so far
  dropped,    \* BufferSink.dropped: how many of them the buffer forgot
  pending,    \* the position of the undecided card, 0 for none
  phase,      \* what a viewer's connection is doing
  todo,       \* the replay snapshot still to be sent, as positions
  got,        \* what a viewer received, as positions
  notified,   \* the viewer was told that events were trimmed
  replay      \* history: the first and last position a viewer's replay did
              \* not send, with the position it subscribed at

vars == <<log, dropped, pending, phase, todo, got, notified, replay>>

Init ==
  /\ log = <<>> /\ dropped = 0 /\ pending = 0
  /\ phase = [v \in Viewers |-> "out"]
  /\ todo = [v \in Viewers |-> <<>>] /\ got = [v \in Viewers |-> <<>>]
  /\ notified = [v \in Viewers |-> FALSE]
  /\ replay = [v \in Viewers |-> [from |-> 0, to |-> 0, until |-> 0]]

Over == log # <<>> /\ log[Len(log)] = "run_complete"

\* BufferSink.events
Buffered == [i \in 1..(Len(log) - dropped) |-> dropped + i]

-----------------------------------------------------------------------------
\* BufferSink.emit, for the n-th event.
Keeps(n) == dropped' = IF n > Capacity THEN n - Capacity ELSE 0

\* A defect: the list of sinks changes while it is walked, and a subscriber is
\* passed over.
EmitsSkipping(kind) ==
  /\ Len(log) < MaxEvents
  /\ log' = Append(log, kind)
  /\ Keeps(Len(log) + 1)
  /\ \E skipped \in Viewers :
       got' = [v \in Viewers |->
                 IF phase[v] = "live" /\ v # skipped
                   THEN Append(got[v], Len(log) + 1) ELSE got[v]]
  /\ UNCHANGED <<phase, todo, notified, replay>>

\* FanoutSink.emit: the buffer, then every subscribed socket.
Emits(kind) ==
  /\ Len(log) < MaxEvents
  /\ log' = Append(log, kind)
  /\ Keeps(Len(log) + 1)
  /\ got' = [v \in Viewers |->
               IF phase[v] = "live" THEN Append(got[v], Len(log) + 1)
                                    ELSE got[v]]
  /\ UNCHANGED <<phase, todo, notified, replay>>

EmitsFrame == ~Over /\ Emits("frame") /\ UNCHANGED pending

RaisesCard ==
  /\ ~Over /\ pending = 0
  /\ Emits("card") /\ pending' = Len(log) + 1

DecidesCard ==
  /\ ~Over /\ pending # 0
  /\ Emits("decided") /\ pending' = 0

Completes == ~Over /\ pending = 0 /\ Emits("run_complete") /\ UNCHANGED pending

-----------------------------------------------------------------------------
\* A snapshot of the buffer, for this viewer.
Snapshot(v) ==
  /\ todo' = [todo EXCEPT ![v] = Buffered]
  /\ replay' = [replay EXCEPT ![v] = [from |-> dropped, to |-> Len(log),
                                      until |-> Len(log)]]

\* A defect: subscribed before the replay is through.
AttachesSubscribed(v) ==
  /\ phase[v] = "out"
  /\ phase' = [phase EXCEPT ![v] = "live"]
  /\ Snapshot(v)
  /\ UNCHANGED <<log, dropped, pending, got, notified>>

\* attach: the loop walks a copy of the buffer, and each send may be
\* suspended by a full socket.  With nothing to send it is one step.
Attaches(v) ==
  /\ phase[v] = "out"
  /\ phase' = [phase EXCEPT ![v] = IF Buffered = <<>> THEN "live"
                                                      ELSE "replaying"]
  /\ Snapshot(v)
  /\ UNCHANGED <<log, dropped, pending, got, notified>>

Replays(v) ==
  /\ todo[v] # <<>>
  /\ got' = [got EXCEPT ![v] = Append(@, Head(todo[v]))]
  /\ todo' = [todo EXCEPT ![v] = Tail(@)]
  /\ UNCHANGED <<log, dropped, pending, phase, notified, replay>>

\* The replay is through: say how much was trimmed, then subscribe.
Subscribes(v) ==
  /\ phase[v] = "replaying" /\ todo[v] = <<>>
  /\ phase' = [phase EXCEPT ![v] = "live"]
  /\ notified' = [notified EXCEPT ![v] = dropped > 0]
  /\ replay' = [replay EXCEPT ![v].until = Len(log)]
  /\ UNCHANGED <<log, dropped, pending, todo, got>>

\* A closed socket: the failed send drops the sink, or ends the replay.
Detaches(v) ==
  /\ phase[v] \in {"replaying", "live"}
  /\ phase' = [phase EXCEPT ![v] = "gone"]
  /\ todo' = [todo EXCEPT ![v] = <<>>]
  /\ UNCHANGED <<log, dropped, pending, got, notified, replay>>

Next ==
  \/ EmitsFrame \/ RaisesCard \/ DecidesCard \/ Completes
  \/ \E v \in Viewers :
       Attaches(v) \/ Replays(v) \/ Subscribes(v) \/ Detaches(v)

Spec == Init /\ [][Next]_vars

-----------------------------------------------------------------------------
\* The state stays in its types (all of RunStream: the buffer and its viewers).
TypeOK ==
  /\ log \in Seq(Kinds) /\ Len(log) <= MaxEvents
  /\ dropped \in 0..MaxEvents /\ Len(log) - dropped <= Capacity
  /\ pending \in 0..MaxEvents
  /\ phase \in [Viewers -> {"out", "replaying", "live", "gone"}]
  /\ todo \in [Viewers -> Seq(1..MaxEvents)]
  /\ got \in [Viewers -> Seq(1..MaxEvents)]
  /\ notified \in [Viewers -> BOOLEAN]
  /\ replay \in [Viewers -> [from : 0..MaxEvents, to : 0..MaxEvents,
                             until : 0..MaxEvents]]

\* The stream keeps EventFeed's promise: each viewer receives what was
\* emitted, in order and once, whatever is emitted while it is replaying.
Feed == INSTANCE EventFeed
FeedSpec == Feed!Spec

\* An event a live viewer should have, and has not.
Missed(v) == {i \in replay[v].from + 1..Len(log) :
                \A j \in 1..Len(got[v]) : got[v][j] # i}

\* Whoever is live has everything the run emitted, from the first event the
\* buffer still had: attaching at any moment makes no gap.
ExactlyTheStream ==
  \A v \in Viewers : phase[v] = "live" => Missed(v) = {}

\* What the code does give: the only events a live viewer lacks are those
\* emitted while its own replay was being sent.
GapIsTheReplay ==
  \A v \in Viewers : phase[v] = "live" =>
    Missed(v) = replay[v].to + 1..replay[v].until

=============================================================================
