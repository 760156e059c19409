--------------------------- MODULE RunStream_proofs ----------------------------
(***************************************************************************)
(* Theorems about RunStream, for every value of its constants.             *)
(*                                                                         *)
(* The invariant behind them is Delivery: what a viewer has received is    *)
(* the part of its snapshot already replayed and then, once it is          *)
(* subscribed, everything emitted since.                                   *)
(***************************************************************************)
EXTENDS RunStream, TLAPS

USE StreamConstants

-----------------------------------------------------------------------------
(* Types.                                                                  *)

\* The buffer never forgets more than there was.
Typed == TypeOK /\ dropped <= Len(log)

\* One event more: what an emission does to the log, the buffer and those who
\* are subscribed.
LEMMA EmissionIsTyped ==
  ASSUME Typed, NEW kind \in Kinds, Emits(kind)
  PROVE  /\ log' \in Seq(Kinds) /\ Len(log') = Len(log) + 1
         /\ Len(log') <= MaxEvents
         /\ dropped' \in 0..MaxEvents /\ dropped' <= Len(log')
         /\ Len(log') - dropped' <= Capacity
         /\ got' \in [Viewers -> Seq(1..MaxEvents)]
         /\ UNCHANGED <<phase, todo, notified, replay>>
<1> USE DEF Typed, TypeOK
<1>1. log' = Append(log, kind) /\ Len(log) < MaxEvents
  BY DEF Emits
<1>2. log' \in Seq(Kinds) /\ Len(log') = Len(log) + 1
  BY <1>1
<1>3. dropped' = IF Len(log) + 1 > Capacity THEN Len(log) + 1 - Capacity ELSE 0
  BY DEF Emits, Keeps
<1>4. ASSUME NEW v \in Viewers
      PROVE  Append(got[v], Len(log) + 1) \in Seq(1..MaxEvents)
  BY <1>1
<1>5. got' \in [Viewers -> Seq(1..MaxEvents)]
  BY <1>4 DEF Emits
<1>6. QED
  BY <1>1, <1>2, <1>3, <1>5 DEF Emits

\* What attach copies is a sequence of positions.
LEMMA BufferedIsTyped ==
  ASSUME Typed
  PROVE  /\ Buffered \in Seq(1..MaxEvents)
         /\ Len(Buffered) = Len(log) - dropped
         /\ \A i \in 1..Len(Buffered) : Buffered[i] = dropped + i
<1> USE DEF Typed, TypeOK
<1>1. Len(log) - dropped \in Nat
  OBVIOUS
<1>2. \A i \in 1..(Len(log) - dropped) : dropped + i \in 1..MaxEvents
  OBVIOUS
<1>3. QED
  BY <1>1, <1>2 DEF Buffered

\* Subscribing notes where the replay ended.
LEMMA ReplayEnds ==
  ASSUME Typed, NEW v \in Viewers, Subscribes(v)
  PROVE  replay' = [replay EXCEPT ![v] = [from |-> replay[v].from,
                                          to |-> replay[v].to,
                                          until |-> Len(log)]]
<1> DEFINE r == replay[v]
<1>1. r \in [from : 0..MaxEvents, to : 0..MaxEvents, until : 0..MaxEvents]
  BY DEF Typed, TypeOK
<1>2. [r EXCEPT !.until = Len(log)]
        = [from |-> r.from, to |-> r.to, until |-> Len(log)]
  BY <1>1
<1>3. replay' = [replay EXCEPT ![v] = [r EXCEPT !.until = Len(log)]]
  BY DEF Subscribes
<1>4. QED
  BY <1>2, <1>3

\* The run begins well typed.
LEMMA TypedInit == Init => Typed
BY DEF Init, Typed, TypeOK

\* No emission and no move of a viewer breaks a type (sink.py, Run.attach).
LEMMA TypedStep == Typed /\ [Next]_vars => Typed'
<1> SUFFICES ASSUME Typed, [Next]_vars PROVE Typed'
  OBVIOUS
<1>1. ASSUME NEW kind \in Kinds, Emits(kind), pending' \in {0, pending, Len(log) + 1}
      PROVE  Typed'
  <2>1. pending' \in 0..MaxEvents
    BY <1>1, EmissionIsTyped DEF Typed, TypeOK
  <2>2. QED
    BY <1>1, <2>1, EmissionIsTyped DEF Typed, TypeOK
<1>2. CASE EmitsFrame
  BY <1>1, <1>2 DEF EmitsFrame, Kinds
<1>3. CASE RaisesCard
  BY <1>1, <1>3 DEF RaisesCard, Kinds
<1>4. CASE DecidesCard
  BY <1>1, <1>4 DEF DecidesCard, Kinds
<1>5. CASE Completes
  BY <1>1, <1>5 DEF Completes, Kinds
<1>6. ASSUME NEW v \in Viewers, Attaches(v) PROVE Typed'
  <2> DEFINE copied == [from |-> dropped, to |-> Len(log), until |-> Len(log)]
  <2>1. todo' \in [Viewers -> Seq(1..MaxEvents)]
    BY <1>6, BufferedIsTyped DEF Attaches, Snapshot, Typed, TypeOK
  <2>2. phase' \in [Viewers -> {"out", "replaying", "live", "gone"}]
    BY <1>6 DEF Attaches, Typed, TypeOK
  <2>3. copied \in [from : 0..MaxEvents, to : 0..MaxEvents, until : 0..MaxEvents]
    BY DEF Typed, TypeOK
  <2>4. replay' = [replay EXCEPT ![v] = copied]
    BY <1>6 DEF Attaches, Snapshot
  <2>5. replay' \in [Viewers -> [from : 0..MaxEvents, to : 0..MaxEvents,
                                 until : 0..MaxEvents]]
    <3> HIDE DEF copied
    <3>1. QED
      BY <2>3, <2>4 DEF Typed, TypeOK
  <2>6. UNCHANGED <<log, dropped, pending, got, notified>>
    BY <1>6 DEF Attaches
  <2>7. QED
    BY <2>1, <2>2, <2>5, <2>6 DEF Typed, TypeOK
<1>7. ASSUME NEW v \in Viewers, Replays(v) PROVE Typed'
  <2>1. Head(todo[v]) \in 1..MaxEvents /\ Tail(todo[v]) \in Seq(1..MaxEvents)
    BY <1>7 DEF Replays, Typed, TypeOK
  <2>2. Append(got[v], Head(todo[v])) \in Seq(1..MaxEvents)
    BY <2>1 DEF Typed, TypeOK
  <2>3. QED
    BY <1>7, <2>1, <2>2 DEF Replays, Typed, TypeOK
<1>8. ASSUME NEW v \in Viewers, Subscribes(v) PROVE Typed'
  <2> DEFINE ended == [from |-> replay[v].from, to |-> replay[v].to,
                       until |-> Len(log)]
  <2>1. ended \in [from : 0..MaxEvents, to : 0..MaxEvents, until : 0..MaxEvents]
    BY DEF Typed, TypeOK
  <2>2. replay' = [replay EXCEPT ![v] = ended]
    BY <1>8, ReplayEnds
  <2>3. replay' \in [Viewers -> [from : 0..MaxEvents, to : 0..MaxEvents,
                                 until : 0..MaxEvents]]
    <3> HIDE DEF ended
    <3>1. QED
      BY <2>1, <2>2 DEF Typed, TypeOK
  <2>4. notified' \in [Viewers -> BOOLEAN]
    BY <1>8 DEF Subscribes, Typed, TypeOK
  <2>5. phase' \in [Viewers -> {"out", "replaying", "live", "gone"}]
    BY <1>8 DEF Subscribes, Typed, TypeOK
  <2>6. QED
    BY <1>8, <2>3, <2>4, <2>5 DEF Subscribes, Typed, TypeOK
<1>9. ASSUME NEW v \in Viewers, Detaches(v) PROVE Typed'
  BY <1>9 DEF Detaches, Typed, TypeOK
<1>10. CASE UNCHANGED vars
  BY <1>10 DEF vars, Typed, TypeOK
<1>11. QED
  BY <1>2, <1>3, <1>4, <1>5, <1>6, <1>7, <1>8, <1>9, <1>10 DEF Next

\* The types hold for good, and the buffer forgets only what was emitted.
LEMMA TypedInvariant == Spec => []Typed
BY TypedInit, TypedStep, PTL DEF Spec

-----------------------------------------------------------------------------
(* What has been delivered.                                                *)

Replayed(v) == replay[v].to - replay[v].from

\* The positions received so far, in order: first those of the snapshot, then
\* those emitted from the subscription on.
Placed(s, from, n, until) ==
  \A i \in 1..Len(s) : s[i] = IF i <= n THEN from + i ELSE until + i - n

InOrder(v) == Placed(got[v], replay[v].from, Replayed(v), replay[v].until)

Delivered(v) ==
  /\ phase[v] = "out" => got[v] = <<>>
  /\ phase[v] # "replaying" => todo[v] = <<>>
  /\ replay[v].from <= replay[v].to /\ replay[v].to <= replay[v].until
  /\ replay[v].until <= Len(log)
  /\ phase[v] = "replaying" =>
       /\ InOrder(v)
       /\ Len(got[v]) + Len(todo[v]) = Replayed(v)
       /\ \A i \in 1..Len(todo[v]) :
            todo[v][i] = replay[v].from + Len(got[v]) + i
  /\ phase[v] = "live" =>
       /\ InOrder(v)
       /\ Len(got[v]) = Replayed(v) + Len(log) - replay[v].until

Delivery == \A v \in Viewers : Delivered(v)

\* One position more, the one that is due, keeps a sequence in order.
LEMMA DueKeepsOrder ==
  ASSUME NEW s \in Seq(1..MaxEvents), NEW x \in 1..MaxEvents,
         NEW from \in Nat, NEW n \in Nat, NEW until \in Nat,
         Placed(s, from, n, until),
         x = IF Len(s) + 1 <= n THEN from + (Len(s) + 1)
                                ELSE until + (Len(s) + 1) - n
  PROVE  Placed(Append(s, x), from, n, until)
<1>1. Len(Append(s, x)) = Len(s) + 1 /\ Len(s) \in Nat
  OBVIOUS
<1>2. \A i \in 1..Len(s) : Append(s, x)[i] = s[i]
  OBVIOUS
<1>3. Append(s, x)[Len(s) + 1] = x
  OBVIOUS
<1> DEFINE t == Append(s, x)
<1> HIDE DEF t
<1>4. ASSUME NEW i \in 1..Len(t)
      PROVE  t[i] = IF i <= n THEN from + i ELSE until + i - n
  <2>1. CASE i \in 1..Len(s)
    BY <2>1, <1>2 DEF Placed, t
  <2>2. CASE i = Len(s) + 1
    BY <2>2, <1>3 DEF t
  <2>3. QED
    BY <2>1, <2>2, <1>1 DEF t
<1>5. QED
  BY <1>4 DEF Placed, t

\* What a tail is made of.
LEMMA TailShifts ==
  ASSUME NEW S, NEW s \in Seq(S), s # <<>>
  PROVE  /\ Len(s) \in Nat \ {0} /\ Head(s) = s[1] /\ Head(s) \in S
         /\ Tail(s) \in Seq(S) /\ Len(Tail(s)) = Len(s) - 1
         /\ \A i \in 1..Len(Tail(s)) : Tail(s)[i] = s[i + 1]
OBVIOUS

\* A replayed event is the next of the snapshot, and the rest of the snapshot
\* follows on from it.
LEMMA ReplayKeepsOrder ==
  ASSUME NEW g \in Seq(1..MaxEvents), NEW t \in Seq(1..MaxEvents), t # <<>>,
         NEW from \in Nat, NEW n \in Nat, NEW until \in Nat,
         Placed(g, from, n, until), Len(g) + Len(t) = n,
         \A i \in 1..Len(t) : t[i] = from + Len(g) + i
  PROVE  /\ Placed(Append(g, Head(t)), from, n, until)
         /\ Len(Append(g, Head(t))) + Len(Tail(t)) = n
         /\ \A i \in 1..Len(Tail(t)) :
              Tail(t)[i] = from + Len(Append(g, Head(t))) + i
<1>1. /\ Len(t) \in Nat \ {0} /\ Head(t) = t[1] /\ Head(t) \in 1..MaxEvents
      /\ Len(Tail(t)) = Len(t) - 1
      /\ \A i \in 1..Len(Tail(t)) : Tail(t)[i] = t[i + 1]
  BY TailShifts
<1>2. Len(Append(g, Head(t))) = Len(g) + 1 /\ Len(g) \in Nat
  BY <1>1
<1>3. Head(t) = from + (Len(g) + 1) /\ Len(g) + 1 <= n
  BY <1>1, <1>2
<1>4. Placed(Append(g, Head(t)), from, n, until)
  BY <1>1, <1>3, DueKeepsOrder
<1>5. ASSUME NEW i \in 1..Len(Tail(t))
      PROVE  Tail(t)[i] = from + (Len(g) + 1) + i
  <2>1. i + 1 \in 1..Len(t) /\ Tail(t)[i] = t[i + 1]
    BY <1>1
  <2>2. t[i + 1] = from + Len(g) + (i + 1)
    BY <2>1
  <2>3. QED
    BY <2>1, <2>2, <1>2
<1>6. Len(g) + 1 + Len(Tail(t)) = n
  <2> DEFINE lg == Len(g)  lt == Len(t)  lr == Len(Tail(t))
  <2>1. lg \in Nat /\ lt \in Nat /\ lr = lt - 1 /\ lg + lt = n
    BY <1>1, <1>2
  <2> HIDE DEF lg, lt, lr
  <2>2. lg + 1 + lr = n
    BY <2>1
  <2>3. QED
    BY <2>2 DEF lg, lr
<1>7. QED
  <2> DEFINE a == Append(g, Head(t))  r == Tail(t)
  <2>1. Len(a) = Len(g) + 1 /\ Placed(a, from, n, until)
    BY <1>2, <1>4
  <2>2. Len(g) + 1 + Len(r) = n
    BY <1>6
  <2>3. \A i \in 1..Len(r) : r[i] = from + (Len(g) + 1) + i
    BY <1>5
  <2> HIDE DEF a, r
  <2>4. /\ Placed(a, from, n, until) /\ Len(a) + Len(r) = n
        /\ \A i \in 1..Len(r) : r[i] = from + Len(a) + i
    BY <2>1, <2>2, <2>3
  <2>5. QED
    BY <2>4 DEF a, r

\* An event emitted to a live viewer is the next after its subscription.
LEMMA LiveKeepsOrder ==
  ASSUME NEW g \in Seq(1..MaxEvents), NEW l \in Nat, l + 1 \in 1..MaxEvents,
         NEW from \in Nat, NEW n \in Nat, NEW until \in Nat, until <= l,
         Placed(g, from, n, until), Len(g) = n + l - until
  PROVE  /\ Placed(Append(g, l + 1), from, n, until)
         /\ Len(Append(g, l + 1)) = n + (l + 1) - until
<1>1. Len(g) \in Nat /\ Len(Append(g, l + 1)) = Len(g) + 1
  OBVIOUS
<1>2. ~(Len(g) + 1 <= n) /\ l + 1 = until + (Len(g) + 1) - n
  BY <1>1
<1>3. QED
  BY <1>1, <1>2, DueKeepsOrder

\* Nobody has been sent anything at first.
LEMMA DeliveryInit == Init => Delivery
BY DEF Init, Delivery, Delivered, InOrder, Placed, Replayed

\* Every step keeps what the viewers have been sent in place: an emission gives
\* the next position to whoever is live, a replay the next of its snapshot.
LEMMA DeliveryStep == Typed /\ Delivery /\ [Next]_vars => Delivery'
<1> SUFFICES ASSUME Typed, Delivery, [Next]_vars, NEW u \in Viewers
             PROVE  Delivered(u)'
  BY DEF Delivery
<1>0. Delivered(u)
  BY DEF Delivery
<1>t. /\ replay[u].from \in Nat /\ replay[u].to \in Nat /\ replay[u].until \in Nat
      /\ Len(got[u]) \in Nat /\ Len(todo[u]) \in Nat /\ Len(log) \in Nat
  BY DEF Typed, TypeOK
<1>s. got[u] \in Seq(1..MaxEvents) /\ todo[u] \in Seq(1..MaxEvents)
  BY DEF Typed, TypeOK
<1>1. ASSUME NEW kind \in Kinds, Emits(kind) PROVE Delivered(u)'
  <2>1. Len(log') = Len(log) + 1 /\ UNCHANGED <<phase, todo, replay>>
    BY <1>1, EmissionIsTyped
  <2>2. CASE phase[u] = "live"
    <3>1. got'[u] = Append(got[u], Len(log) + 1)
      BY <1>1, <2>2 DEF Emits
    <3>2. Len(log) + 1 \in 1..MaxEvents
      BY <1>1, <1>t DEF Emits
    <3>3. /\ Replayed(u) \in Nat /\ replay[u].until <= Len(log)
          /\ Len(got[u]) = Replayed(u) + Len(log) - replay[u].until
          /\ Placed(got[u], replay[u].from, Replayed(u), replay[u].until)
      BY <2>2, <1>0, <1>t DEF Delivered, InOrder, Replayed
    <3>4. /\ Placed(got'[u], replay[u].from, Replayed(u), replay[u].until)
          /\ Len(got'[u]) = Replayed(u) + (Len(log) + 1) - replay[u].until
      <4> DEFINE g == got[u]  from == replay[u].from  n == Replayed(u)
                 until == replay[u].until  l == Len(log)
      <4>1. /\ g \in Seq(1..MaxEvents) /\ from \in Nat /\ n \in Nat
            /\ until \in Nat /\ l \in Nat /\ l + 1 \in 1..MaxEvents
            /\ until <= l /\ Placed(g, from, n, until) /\ Len(g) = n + l - until
        BY <3>2, <3>3, <1>t, <1>s
      <4>2. got'[u] = Append(g, l + 1)
        BY <3>1
      <4> HIDE DEF g, from, n, until, l
      <4>3. /\ Placed(Append(g, l + 1), from, n, until)
            /\ Len(Append(g, l + 1)) = n + (l + 1) - until
        BY <4>1, LiveKeepsOrder
      <4>4. QED
        BY <4>2, <4>3 DEF g, from, n, until, l
    <3>5. phase'[u] = phase[u] /\ todo'[u] = todo[u] /\ replay'[u] = replay[u]
      BY <2>1
    <3>6. replay[u].until <= Len(log')
      BY <2>1, <3>3, <1>t
    <3>7. QED
      BY <3>4, <3>5, <3>6, <2>1, <2>2, <1>0 DEF Delivered, InOrder, Replayed
  <2>3. CASE phase[u] # "live"
    <3>1. UNCHANGED got[u]
      BY <1>1, <2>3 DEF Emits
    <3>2. phase'[u] = phase[u] /\ todo'[u] = todo[u] /\ replay'[u] = replay[u]
      BY <2>1
    <3>3. replay[u].until <= Len(log')
      BY <2>1, <1>0, <1>t DEF Delivered
    <3>4. QED
      BY <3>1, <3>2, <3>3, <2>3, <1>0 DEF Delivered, InOrder, Replayed
  <2>4. QED
    BY <2>2, <2>3
<1>2. CASE EmitsFrame \/ RaisesCard \/ DecidesCard \/ Completes
  BY <1>1, <1>2 DEF EmitsFrame, RaisesCard, DecidesCard, Completes, Kinds
<1>3. ASSUME NEW v \in Viewers,
             Attaches(v) \/ Replays(v) \/ Subscribes(v) \/ Detaches(v),
             v # u
      PROVE  Delivered(u)'
  <2>1. UNCHANGED <<phase[u], todo[u], got[u], replay[u], log>>
    BY <1>3, ReplayEnds DEF Attaches, Snapshot, Replays, Subscribes, Detaches, Typed,
       TypeOK
  <2>2. QED
    BY <2>1, <1>0 DEF Delivered, InOrder, Replayed
<1>4. CASE Attaches(u)
  <2>1. /\ phase'[u] = IF Buffered = <<>> THEN "live" ELSE "replaying"
        /\ todo'[u] = Buffered /\ got'[u] = <<>> /\ log' = log
        /\ replay'[u] = [from |-> dropped, to |-> Len(log), until |-> Len(log)]
    BY <1>4, <1>0 DEF Attaches, Snapshot, Delivered, Typed, TypeOK
  <2>2. /\ Len(Buffered) = Len(log) - dropped
        /\ \A i \in 1..Len(Buffered) : Buffered[i] = dropped + i
        /\ dropped \in Nat /\ dropped <= Len(log)
        /\ Buffered = <<>> => Len(log) = dropped
    <3>1. Buffered = <<>> => Len(Buffered) = 0
      OBVIOUS
    <3>2. dropped \in Nat /\ dropped <= Len(log)
      BY DEF Typed, TypeOK
    <3>3. QED
      BY <3>1, <3>2, BufferedIsTyped, <1>t
  <2>3. Len(got'[u]) = 0 /\ InOrder(u)'
    BY <2>1 DEF InOrder, Placed
  <2>4. /\ replay[u].from' = dropped /\ replay[u].to' = Len(log)
        /\ replay[u].until' = Len(log)
    BY <2>1
  <2>5. QED
    BY <2>1, <2>2, <2>3, <2>4, <1>t DEF Delivered, Replayed
<1>5. CASE Replays(u)
  <2>1. phase[u] = "replaying" /\ todo[u] # <<>>
    BY <1>5, <1>0 DEF Replays, Delivered
  <2>2. /\ got'[u] = Append(got[u], Head(todo[u])) /\ todo'[u] = Tail(todo[u])
        /\ UNCHANGED <<log, phase, replay>>
    BY <1>5 DEF Replays, Typed, TypeOK
  <2>3. /\ Replayed(u) \in Nat
        /\ Placed(got[u], replay[u].from, Replayed(u), replay[u].until)
        /\ Len(got[u]) + Len(todo[u]) = Replayed(u)
        /\ \A i \in 1..Len(todo[u]) :
             todo[u][i] = replay[u].from + Len(got[u]) + i
    <3>1. Replayed(u) \in Nat
      BY <1>0, <1>t DEF Delivered, Replayed
    <3>2. QED
      BY <3>1, <2>1, <1>0 DEF Delivered, InOrder
  <2>4. /\ Placed(got'[u], replay[u].from, Replayed(u), replay[u].until)
        /\ Len(got'[u]) + Len(todo'[u]) = Replayed(u)
        /\ \A i \in 1..Len(todo'[u]) :
             todo'[u][i] = replay[u].from + Len(got'[u]) + i
    <3> DEFINE g == got[u]  t == todo[u]  from == replay[u].from
               n == Replayed(u)  until == replay[u].until
    <3>1. /\ g \in Seq(1..MaxEvents) /\ t \in Seq(1..MaxEvents) /\ t # <<>>
          /\ from \in Nat /\ n \in Nat /\ until \in Nat
          /\ Placed(g, from, n, until) /\ Len(g) + Len(t) = n
          /\ \A i \in 1..Len(t) : t[i] = from + Len(g) + i
      BY <2>1, <2>3, <1>t, <1>s
    <3>2. got'[u] = Append(g, Head(t)) /\ todo'[u] = Tail(t)
      BY <2>2
    <3> HIDE DEF g, t, from, n, until
    <3>3. /\ Placed(Append(g, Head(t)), from, n, until)
          /\ Len(Append(g, Head(t))) + Len(Tail(t)) = n
          /\ \A i \in 1..Len(Tail(t)) :
               Tail(t)[i] = from + Len(Append(g, Head(t))) + i
      BY <3>1, ReplayKeepsOrder
    <3>4. QED
      BY <3>2, <3>3 DEF g, t, from, n, until
  <2>5. phase'[u] = phase[u] /\ replay'[u] = replay[u] /\ log' = log
    BY <2>2
  <2>6. QED
    BY <2>1, <2>4, <2>5, <1>0 DEF Delivered, InOrder, Replayed
<1>6. CASE Subscribes(u)
  <2>1. /\ phase[u] = "replaying" /\ todo[u] = <<>> /\ phase'[u] = "live"
        /\ UNCHANGED <<log, todo, got>>
        /\ replay'[u] = [from |-> replay[u].from, to |-> replay[u].to,
                         until |-> Len(log)]
    BY <1>6, ReplayEnds DEF Subscribes, Typed, TypeOK
  <2>2. /\ InOrder(u) /\ Len(got[u]) = Replayed(u) /\ Replayed(u) \in Nat
        /\ replay[u].from <= replay[u].to /\ replay[u].until <= Len(log)
        /\ replay[u].to <= replay[u].until
    <3>1. Len(todo[u]) = 0
      BY <2>1
    <3>2. QED
      BY <2>1, <3>1, <1>0, <1>t DEF Delivered, Replayed
  <2>3. /\ replay[u].from' = replay[u].from /\ replay[u].to' = replay[u].to
        /\ replay[u].until' = Len(log)
    BY <2>1
  <2>4. InOrder(u)'
    BY <2>1, <2>2, <2>3, <1>t DEF InOrder, Placed, Replayed
  <2>5. QED
    BY <2>1, <2>2, <2>3, <2>4, <1>t DEF Delivered, Replayed
<1>7. CASE Detaches(u)
  <2>1. phase'[u] = "gone" /\ todo'[u] = <<>> /\ UNCHANGED <<log, got, replay>>
    BY <1>7 DEF Detaches, Typed, TypeOK
  <2>2. QED
    BY <2>1, <1>0 DEF Delivered
<1>8. CASE UNCHANGED vars
  BY <1>8, <1>0 DEF vars, Delivered, InOrder, Replayed
<1>9. QED
  BY <1>2, <1>3, <1>4, <1>5, <1>6, <1>7, <1>8 DEF Next

\* Delivery is an invariant of the stream.
LEMMA DeliveryInvariant == Spec => []Delivery
BY DeliveryInit, DeliveryStep, TypedInvariant, PTL DEF Spec

-----------------------------------------------------------------------------
(* The theorems.                                                           *)

\* TypeOK: every variable keeps its type, the buffer its capacity
\* (sink.py, BufferSink).
THEOREM TypeCorrect == Spec => []TypeOK
<1>1. Typed => TypeOK
  BY DEF Typed
<1>2. QED
  BY <1>1, TypedInvariant, PTL

\* GapIsTheReplay: what a subscribed viewer lacks of the stream since the
\* buffer's first event is exactly what was emitted while its replay was
\* being sent (run_manager.py, Run.attach).
THEOREM OnlyTheReplayLosesEvents == Spec => []GapIsTheReplay
<1>1. Typed /\ Delivery => GapIsTheReplay
  <2> SUFFICES ASSUME Typed, Delivery, NEW v \in Viewers, phase[v] = "live"
               PROVE  Missed(v) = replay[v].to + 1..replay[v].until
    BY DEF GapIsTheReplay
  <2> DEFINE from == replay[v].from
             to == replay[v].to
             until == replay[v].until
             n == to - from
  <2>1. /\ from \in Nat /\ to \in Nat /\ until \in Nat /\ Len(log) \in Nat
        /\ from <= to /\ to <= until /\ until <= Len(log) /\ n \in Nat
        /\ Len(got[v]) = n + Len(log) - until
        /\ \A i \in 1..Len(got[v]) :
             got[v][i] = IF i <= n THEN from + i ELSE until + i - n
    BY DEF Delivery, Delivered, InOrder, Placed, Replayed, Typed, TypeOK
  <2>2. ASSUME NEW i \in Missed(v) PROVE i \in to + 1..until
    <3>1. i \in from + 1..Len(log) /\ \A j \in 1..Len(got[v]) : got[v][j] # i
      BY <2>2 DEF Missed
    <3> HIDE DEF from, to, until, n
    <3>0. i \in Nat /\ from < i /\ i <= Len(log) /\ Len(got[v]) \in Nat
      BY <2>1, <3>1
    <3>p. ASSUME NEW k \in 1..Len(got[v])
          PROVE  got[v][k] = IF k <= n THEN from + k ELSE until + k - n
      BY <2>1
    <3>2. i > to
      <4> DEFINE k == i - from
      <4>1. SUFFICES ASSUME i <= to PROVE FALSE
        BY <2>1, <3>0
      <4>2. k \in 1..Len(got[v]) /\ k <= n
        <5>1. n = to - from
          BY DEF n
        <5>2. n <= Len(got[v])
          BY <2>1, <3>0
        <5>3. QED
          BY <4>1, <5>1, <5>2, <2>1, <3>0
      <4>3. from + k = i
        BY <2>1, <3>0
      <4> HIDE DEF k
      <4>4. got[v][k] = i
        BY <4>2, <4>3, <3>p
      <4>5. QED
        BY <4>2, <4>4, <3>1
    <3>3. i <= until
      <4> DEFINE k == i - until + n
      <4>1. SUFFICES ASSUME i > until PROVE FALSE
        BY <2>1, <3>0
      <4>2. k \in 1..Len(got[v]) /\ ~(k <= n)
        BY <4>1, <2>1, <3>0
      <4>3. until + k - n = i
        BY <2>1, <3>0
      <4> HIDE DEF k
      <4>4. got[v][k] = i
        BY <4>2, <4>3, <3>p
      <4>5. QED
        BY <4>2, <4>4, <3>1
    <3>4. QED
      BY <3>1, <3>2, <3>3, <2>1
  <2>3. ASSUME NEW i \in to + 1..until PROVE i \in Missed(v)
    <3>1. i \in from + 1..Len(log)
      <4> HIDE DEF from, to, until, n
      <4>1. QED
        BY <2>1, <2>3
    <3>2. ASSUME NEW j \in 1..Len(got[v]) PROVE got[v][j] # i
      <4> HIDE DEF from, to, until, n
      <4>0. /\ from \in Nat /\ to \in Nat /\ until \in Nat /\ n \in Nat
            /\ j \in Nat /\ i \in Nat /\ to < i /\ i <= until
        BY <2>1, <2>3
      <4>1. got[v][j] = IF j <= n THEN from + j ELSE until + j - n
        BY <2>1
      <4>2. CASE j <= n
        <5>1. got[v][j] = from + j
          BY <4>1, <4>2
        <5>2. from + n = to
          BY <4>0 DEF n
        <5>3. QED
          BY <4>0, <4>2, <5>1, <5>2
      <4>3. CASE ~(j <= n)
        <5>1. got[v][j] = until + j - n
          BY <4>1, <4>3
        <5>2. QED
          BY <4>0, <4>3, <5>1
      <4>4. QED
        BY <4>2, <4>3
    <3>3. QED
      BY <3>1, <3>2 DEF Missed
  <2>4. QED
    BY <2>2, <2>3
<1>2. QED
  BY <1>1, TypedInvariant, DeliveryInvariant, PTL

\* FeedSpec: the stream implements EventFeed.  Each viewer receives what was
\* emitted in the order it was emitted and nothing twice, over replay and
\* subscription (sink.py, FanoutSink; run_manager.py, Run.attach).
THEOREM StreamImplementsFeed == Spec => FeedSpec
<1>1. Init => Feed!Init
  BY DEF Init, Feed!Init
<1>2. Typed /\ Delivery /\ [Next]_vars => [Feed!Next]_<<log, got>>
  <2> SUFFICES ASSUME Typed, Delivery, [Next]_vars
               PROVE  [Feed!Next]_<<log, got>>
    OBVIOUS
  <2>1. ASSUME NEW kind \in Kinds, Emits(kind) PROVE Feed!Publish
    <3> DEFINE W == {v \in Viewers : phase[v] = "live"}
    <3>1. /\ W \in SUBSET Viewers
          /\ got' = [v \in Viewers |-> IF v \in W THEN Append(got[v], Len(log) + 1)
                                                  ELSE got[v]]
      BY <2>1 DEF Emits
    <3>2. QED
      BY <2>1, <3>1 DEF Emits, Feed!Publish
  <2>2. CASE EmitsFrame \/ RaisesCard \/ DecidesCard \/ Completes
    BY <2>1, <2>2 DEF EmitsFrame, RaisesCard, DecidesCard, Completes, Kinds,
       Feed!Next
  <2>3. ASSUME NEW v \in Viewers, Replays(v) PROVE Feed!CatchUp(v)
    <3>1. Delivered(v) /\ todo[v] # <<>> /\ todo[v] \in Seq(1..MaxEvents)
      BY <2>3 DEF Replays, Delivery, Typed, TypeOK
    <3>2. phase[v] = "replaying"
      BY <3>1 DEF Delivered
    <3>3. Len(todo[v]) \in Nat \ {0} /\ Head(todo[v]) = todo[v][1]
      BY <3>1, TailShifts
    <3>4. /\ replay[v].from \in Nat /\ replay[v].to \in Nat
          /\ replay[v].until \in Nat /\ Len(got[v]) \in Nat /\ Len(log) \in Nat
      BY DEF Typed, TypeOK
    <3>5. /\ replay[v].from <= replay[v].to /\ replay[v].to <= Len(log)
          /\ Len(got[v]) + Len(todo[v]) = replay[v].to - replay[v].from
          /\ todo[v][1] = replay[v].from + Len(got[v]) + 1
      <4>1. 1 \in 1..Len(todo[v])
        BY <3>3
      <4>2. replay[v].to <= replay[v].until /\ replay[v].until <= Len(log)
        BY <3>1 DEF Delivered
      <4>3. replay[v].to <= Len(log)
        BY <4>2, <3>4
      <4>4. QED
        BY <4>1, <4>3, <3>1, <3>2 DEF Delivered, Replayed
    <3> DEFINE l == Len(got[v])  d == Len(todo[v])
               from == replay[v].from  to == replay[v].to
    <3>n. /\ l \in Nat /\ d \in Nat \ {0} /\ from \in Nat /\ to \in Nat
          /\ from <= to /\ to <= Len(log) /\ l + d = to - from
          /\ Head(todo[v]) = from + l + 1 /\ Len(log) \in Nat
      BY <3>3, <3>4, <3>5
    <3>6. Feed!Last(got[v]) = 0 \/ Feed!Last(got[v]) = replay[v].from + Len(got[v])
      <4>1. CASE got[v] = <<>>
        BY <4>1 DEF Feed!Last
      <4>2. CASE got[v] # <<>>
        <5>1. Len(got[v]) # 0
          BY <4>2 DEF Typed, TypeOK
        <5>2. /\ Len(got[v]) \in 1..Len(got[v])
              /\ Len(got[v]) <= replay[v].to - replay[v].from
          <6> HIDE DEF l, d, from, to
          <6>1. l # 0 => l \in 1..l /\ l <= to - from
            BY <3>n
          <6>2. QED
            BY <5>1, <6>1 DEF l, from, to
        <5>3. got[v][Len(got[v])] = replay[v].from + Len(got[v])
          BY <5>2, <3>1, <3>2 DEF Delivered, InOrder, Placed, Replayed
        <5>4. QED
          BY <4>2, <5>3 DEF Feed!Last
      <4>3. QED
        BY <4>1, <4>2
    <3>7. Head(todo[v]) = replay[v].from + Len(got[v]) + 1 /\ Head(todo[v]) <= Len(log)
      <4> HIDE DEF l, d, from, to
      <4>1. Head(todo[v]) <= Len(log)
        BY <3>n
      <4>2. QED
        BY <4>1, <3>n DEF l, from
    <3>8. Head(todo[v]) \in (Feed!Last(got[v]) + 1)..Len(log)
      BY <3>4, <3>6, <3>7
    <3>9. QED
      BY <2>3, <3>8 DEF Replays, Feed!CatchUp
  <2>4. ASSUME NEW v \in Viewers, Attaches(v) \/ Subscribes(v) \/ Detaches(v)
        PROVE  UNCHANGED <<log, got>>
    BY <2>4 DEF Attaches, Subscribes, Detaches
  <2>5. CASE UNCHANGED vars
    BY <2>5 DEF vars
  <2>6. QED
    BY <2>2, <2>3, <2>4, <2>5 DEF Next, Feed!Next
<1>3. QED
  BY <1>1, <1>2, TypedInvariant, DeliveryInvariant, PTL
     DEF Spec, FeedSpec, Feed!Spec

=============================================================================
